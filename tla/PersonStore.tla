---------------------------- MODULE PersonStore ----------------------------
(***************************************************************************)
(* PersonBatchStore: what a replica of the processor keeps in memory about *)
(* persons until a flush writes it to PostgreSQL, and the merges of        *)
(* persons that $identify asks for; with its two callers, the batches of   *)
(* FlushService and the replay of dead letters, for what they hold.        *)
(*                                                                         *)
(* The properties of a person are the set of events that changed them: an  *)
(* event is in a row when its $set is.  A step of a flush is one statement *)
(* or transaction of PostgreSQL or one command of Redis.  Identity has the *)
(* resolver that calls enqueue and enqueueMerge.                           *)
(***************************************************************************)
EXTENDS Naturals, Sequences, FiniteSets, SequencesExt

CONSTANTS
  Replicas,
  Events,       \* bound: events with user_properties
  Dids,         \* distinct ids
  Persons,
  Ways,         \* <<distinct id, person>>: what the resolver can answer
  Links,        \* <<from, into>>: the merges that $identify can ask for
  None,         \* no row
  ReplayBatch,  \* FAILED_MERGES_REPLAY_BATCH
  MaxFailed,    \* FAILED_MERGES_MAXLEN
  MaxFaults     \* bound: failing statements, commands and crashes

ASSUME StoreAssumption ==
  /\ Ways \subseteq Dids \X Persons
  /\ Links \subseteq {link \in Persons \X Persons : link[1] # link[2]}
  /\ None \notin Persons /\ Events \cap Links = {}
  /\ ReplayBatch \in Nat \ {0} /\ MaxFailed \in Nat \ {0} /\ MaxFaults \in Nat

VARIABLES
  live,      \* persons with a row in PostgreSQL
  props,     \* persons.properties: the events that are in the row
  owner,     \* person_distinct_ids
  failed,    \* processor:failed_merges in Redis, newest first
  dead,      \* the dead letters: events with the person they were resolved to
  pending,   \* pendingPersons, pendingDistinctIds, pendingMerges of a replica
  flush,     \* the flush in progress: what it swapped out, and where it is
  buffer,    \* FlushService: resolved events that wait for the next batch
  calls,     \* BatchWriter.write: of FlushService's batch, and of the replay of dead letters
  faults,    \* faults so far
  handed,    \* history: events that were enqueued and will not be delivered again
  linked,    \* history: merges asked for
  merged,    \* history: merges whose transaction committed
  gone       \* history: updates and merges lost, with the cause

pgVars == <<live, props, owner>>
memory == <<pending, flush, buffer, calls>>
vars == <<pgVars, failed, dead, memory, faults, handed, linked, merged, gone>>

Nothing == [persons |-> [p \in Persons |-> {}], ids |-> [d \in Dids |-> None], merges |-> <<>>]
NoFlush == [pc |-> "idle", data |-> Nothing, read |-> [p \in Persons |-> {}],
            found |-> {}, moved |-> {}, todo |-> <<>>]
NoCall == [pc |-> "idle", events |-> {}, owes |-> {}]
Kinds == {"batch", "replay"}
Causes == {"requeued over", "crash", "overwritten", "merged over", "no user row", "not persisted", "trimmed"}
EventsOf(data) == UNION {data.persons[p] : p \in Persons}
Names(events) == {x[1] : x \in events}

Sent == Events \X Ways
Data == [persons : [Persons -> SUBSET Events], ids : [Dids -> Persons \cup {None}], merges : Seq(Links)]
FlushState == [pc : {"idle", "read", "upsert", "ids", "merge", "commit", "replay", "recommit", "lrem"},
               data : Data, read : [Persons -> SUBSET Events],
               found : SUBSET Persons, moved : SUBSET Dids, todo : Seq(Links)]
CallState == [pc : {"idle", "waits", "flushes", "inserts", "parks"},
              events : SUBSET Sent, owes : SUBSET Events]

(* The maps keep their types; a flush is in progress exactly when a call    *)
(* runs it, and what nothing flushes is nothing.                            *)
TypeOK ==
  /\ live \subseteq Persons /\ props \in [Persons -> SUBSET Events]
  /\ owner \in [Dids -> Persons \cup {None}]
  /\ failed \in Seq(Links) /\ Len(failed) <= MaxFailed
  /\ dead \subseteq Sent
  /\ pending \in [Replicas -> Data]
  /\ flush \in [Replicas -> FlushState]
  /\ buffer \in [Replicas -> SUBSET Sent]
  /\ calls \in [Replicas -> [Kinds -> CallState]]
  /\ \A r \in Replicas :
       /\ flush[r].pc = "idle" => flush[r] = NoFlush
       /\ flush[r].pc # "idle" <=> \E k \in Kinds : calls[r][k].pc = "flushes"
       /\ \A k \in Kinds : calls[r][k].pc = "idle" => calls[r][k] = NoCall
  /\ handed \subseteq Events
  /\ linked \subseteq Links /\ merged \subseteq Links
  /\ gone \subseteq (Events \cup Links) \X Causes
-----------------------------------------------------------------------------
Init ==
  /\ live = {} /\ props = [p \in Persons |-> {}] /\ owner = [d \in Dids |-> None]
  /\ failed = <<>> /\ dead = {} /\ faults = 0
  /\ pending = [r \in Replicas |-> Nothing]
  /\ flush = [r \in Replicas |-> NoFlush]
  /\ buffer = [r \in Replicas |-> {}]
  /\ calls = [r \in Replicas |-> [k \in Kinds |-> NoCall]]
  /\ handed = {} /\ linked = {} /\ merged = {} /\ gone = {}

At(r, pc) == flush[r].pc = pc
Fault == faults < MaxFaults /\ faults' = faults + 1
Written(rows) == UNION {rows[p] : p \in Persons}
Lose(things, cause) == gone' = gone \cup {<<x, cause>> : x \in things}
(* The rows are replaced: what they hold now is not lost any more.          *)
Store(rows, things, cause) ==
  /\ props' = rows
  /\ gone' = {x \in gone : x[1] \notin Written(rows)} \cup {<<x, cause>> : x \in things}

InRows(e) == \E p \in Persons : e \in props[p]
Lost(x) == \E c \in Causes : <<x, c>> \in gone
Settled(e) == InRows(e) \/ Lost(e)
InMemory(r) == EventsOf(pending[r]) \cup EventsOf(flush[r].data)
Held(r) == Names(buffer[r] \cup calls[r]["batch"].events)
Parking(r) == IF calls[r]["batch"].pc = "parks" THEN Names(calls[r]["batch"].events) ELSE {}

(* resolvePersonEnricher: enqueue, and for an $identify that merges,        *)
(* enqueueMerge; then addToBuffer.  The cache of ids written in the same    *)
(* hour is left out: the second INSERT of an id does nothing.               *)
Enqueue(r, e, way, asked) ==
  LET did == way[1]  person == way[2]  old == pending[r] IN
  /\ e \notin handed /\ handed' = handed \cup {e}
  /\ \A m \in ToSet(asked) : m \notin linked /\ m[2] = person
  /\ linked' = linked \cup ToSet(asked)
  /\ pending' = [pending EXCEPT ![r] =
       [persons |-> [old.persons EXCEPT ![person] = @ \cup {e}],
        ids |-> [old.ids EXCEPT ![did] = person],
        merges |-> old.merges \o asked]]
  /\ buffer' = [buffer EXCEPT ![r] = @ \cup {<<e, way>>}]
  /\ UNCHANGED <<pgVars, failed, dead, flush, calls, faults, merged, gone>>

-----------------------------------------------------------------------------
(* _doFlush up to its first await: the maps are swapped out.                *)
Swapped(r, data) ==
  LET pc == IF EventsOf(data) # {} THEN "read"
            ELSE IF data.ids # Nothing.ids THEN "ids" ELSE "merge" IN
  /\ flush' = [flush EXCEPT ![r] = [NoFlush EXCEPT !.pc = pc, !.data = data]]
  /\ pending' = [pending EXCEPT ![r] = Nothing]

(* BatchWriter.write calls flush(): at once, or behind the flush in progress.*)
Write(r, k, events, data) ==
  LET pc == IF At(r, "idle") THEN "flushes" ELSE "waits"
      owes == EventsOf(data) \cup EventsOf(flush[r].data) IN
  /\ calls' = [calls EXCEPT ![r][k] = [pc |-> pc, events |-> events, owes |-> owes]]
  /\ IF At(r, "idle") THEN Swapped(r, data)
     ELSE pending' = [pending EXCEPT ![r] = data] /\ UNCHANGED flush

(* FlushService takes its whole buffer.                                     *)
StartBatch(r) ==
  /\ calls[r]["batch"].pc = "idle" /\ buffer[r] # {}
  /\ Write(r, "batch", buffer[r], pending[r])
  /\ buffer' = [buffer EXCEPT ![r] = {}]
  /\ UNCHANGED <<pgVars, failed, dead, faults, handed, linked, merged, gone>>

(* replayDlq enqueues the persons of the dead letters again.  Its lock keeps *)
(* the replays of two replicas apart until it expires, which is a fault.    *)
Again(old, letters, ids) ==
  [old EXCEPT !.persons = [p \in Persons |-> @[p] \cup Names({x \in letters : x[2][2] = p})], !.ids = ids]

StartReplay(r) ==
  /\ calls[r]["replay"].pc = "idle" /\ dead # {}
  /\ IF \A q \in Replicas : calls[q]["replay"].pc = "idle" THEN UNCHANGED faults ELSE Fault
  /\ \E ids \in [Dids -> Persons \cup {None}] :  \* of the last letter of each id
       /\ \A d \in Dids :
            LET asked == {x[2][2] : x \in {y \in dead : y[2][1] = d}} IN
            ids[d] \in (IF asked = {} THEN {pending[r].ids[d]} ELSE asked)
       /\ Write(r, "replay", dead, Again(pending[r], dead, ids))
  /\ UNCHANGED <<pgVars, failed, dead, buffer, handed, linked, merged, gone>>

(* The flush ends well: its call goes on to insert the events, and the call *)
(* that waited begins its own flush.                                        *)
Resolved(call) ==
  CASE call.pc = "flushes" -> [call EXCEPT !.pc = "inserts"]
    [] call.pc = "waits" -> [call EXCEPT !.pc = "flushes"]
    [] OTHER -> call

ResolvesBoth(r) ==  \* bug: the call that waited goes on with the flush it waited for
  /\ calls' = [calls EXCEPT ![r] = [k \in Kinds |-> Resolved(Resolved(calls[r][k]))]]
  /\ flush' = [flush EXCEPT ![r] = NoFlush]
  /\ UNCHANGED pending

Resolves(r) ==
  /\ calls' = [calls EXCEPT ![r] = [k \in Kinds |-> Resolved(calls[r][k])]]
  /\ IF \E k \in Kinds : calls[r][k].pc = "waits" THEN Swapped(r, pending[r])
     ELSE flush' = [flush EXCEPT ![r] = NoFlush] /\ UNCHANGED pending

(* The flush fails: the batch goes on to be parked, dead letters stay where *)
(* they are, and a call that waited fails with the flush it waited for.     *)
Failed(call, k) == IF k = "batch" THEN [call EXCEPT !.pc = "parks", !.owes = {}] ELSE NoCall

Rejects(r) ==
  /\ flush' = [flush EXCEPT ![r] = NoFlush]
  /\ calls' = [calls EXCEPT ![r] = [k \in Kinds |->
       IF calls[r][k].pc \in {"flushes", "waits"} THEN Failed(calls[r][k], k) ELSE calls[r][k]]]

Read(r) ==
  /\ At(r, "read")
  /\ flush' = [flush EXCEPT ![r].pc = "upsert", ![r].read =
       [p \in Persons |-> IF flush[r].data.persons[p] = {} THEN {} ELSE props[p]]]
  /\ UNCHANGED <<pgVars, failed, dead, pending, buffer, calls, faults, handed, linked, merged, gone>>

(* The rows as read and the pending updates replace the rows as they are.   *)
Upsert(r) ==
  LET touched == {p \in Persons : flush[r].data.persons[p] # {}}
      rows == [p \in Persons |-> IF p \in touched THEN flush[r].read[p] \cup flush[r].data.persons[p]
                                 ELSE props[p]] IN
  /\ At(r, "upsert")
  /\ live' = live \cup touched
  /\ Store(rows, UNION {props[p] \ rows[p] : p \in touched}, "overwritten")
  /\ flush' = [flush EXCEPT ![r].pc = "ids", ![r].read = NoFlush.read]
  /\ UNCHANGED <<owner, failed, dead, pending, buffer, calls, faults, handed, linked, merged>>

(* INSERT of the ids whose person has a row, ON CONFLICT DO NOTHING.        *)
InsertIds(r) ==
  LET ids == flush[r].data.ids IN
  /\ At(r, "ids")
  /\ owner' = [d \in Dids |-> IF owner[d] = None /\ ids[d] \in live THEN ids[d] ELSE owner[d]]
  /\ flush' = [flush EXCEPT ![r].pc = "merge", ![r].data = [Nothing EXCEPT !.merges = flush[r].data.merges]]
  /\ UNCHANGED <<live, props, failed, dead, pending, buffer, calls, faults, handed, linked, merged, gone>>

RequeueNothing(r) ==  \* bug: what was swapped out is forgotten
  /\ Fault
  /\ flush[r].pc \in {"read", "upsert"}
  /\ Rejects(r)
  /\ UNCHANGED <<pgVars, failed, dead, pending, buffer, handed, linked, merged, gone>>

(* A write fails three times: what was swapped out goes back, except for    *)
(* the persons that have a newer entry.  Nothing restores the update of an  *)
(* event that is in neither the failing batch nor a dead letter.            *)
Requeue(r) ==
  LET old == flush[r].data  new == pending[r]
      over == UNION {old.persons[p] : p \in {q \in Persons : new.persons[q] # {}}} IN
  /\ Fault
  /\ flush[r].pc \in {"read", "upsert"} \cup (IF old.ids = Nothing.ids THEN {} ELSE {"ids"})
  /\ pending' = [pending EXCEPT ![r] =
       [persons |-> [p \in Persons |-> IF new.persons[p] # {} THEN new.persons[p] ELSE old.persons[p]],
        ids |-> [d \in Dids |-> IF new.ids[d] # None THEN new.ids[d] ELSE old.ids[d]],
        merges |-> old.merges \o new.merges]]
  /\ Lose((over \cap Names(buffer[r])) \ Names(dead), "requeued over")
  /\ Rejects(r)
  /\ UNCHANGED <<pgVars, failed, dead, buffer, handed, linked, merged>>
-----------------------------------------------------------------------------
(* mergePersons: a transaction under READ COMMITTED whose UPDATE of the ids *)
(* waits for the row locks of another, and violates the foreign key when the*)
(* new person has no row.  It then reads both persons without a lock.       *)
Violates(m) == m[2] \notin live /\ \E d \in Dids : owner[d] = m[1]
InTransaction(q) == flush[q].pc \in {"commit", "recommit"}
Target(q) == IF At(q, "commit") THEN Head(flush[q].data.merges)[2] ELSE Head(flush[q].todo)[2]

Select(r, m, pc) ==
  LET moved == {d \in Dids : owner[d] = m[1]}
      found == live \cap {m[1], m[2]} IN
  /\ ~Violates(m)
  /\ \A q \in Replicas : InTransaction(q) => moved \cap flush[q].moved = {}
  /\ flush' = [flush EXCEPT ![r].pc = pc, ![r].moved = moved, ![r].found = found, ![r].read =
       [p \in Persons |-> IF p \in found THEN props[p] ELSE {}]]
  /\ UNCHANGED <<pgVars, failed, dead, pending, buffer, calls, faults, handed, linked, merged, gone>>

(* Its writes, as they become visible: both rows become what it has read,   *)
(* and an id that was inserted for the deleted person in between goes with  *)
(* it (ON DELETE CASCADE).  The DELETE waits for a transaction that moves   *)
(* ids to the person.                                                       *)
Commit(r, m) ==
  LET tx == flush[r]
      joins == m[2] \in tx.found \cap live
      deletes == m[1] \in tx.found
      row(d) == IF owner[d] # m[1] THEN owner[d]
                ELSE IF d \in tx.moved THEN m[2] ELSE IF deletes THEN None ELSE m[1] IN
  /\ \A q \in Replicas \ {r} : InTransaction(q) /\ flush[q].moved # {} => Target(q) # m[1]
  /\ owner' = [d \in Dids |-> row(d)]
  /\ live' = IF deletes THEN live \ {m[1]} ELSE live
  /\ CASE ~deletes -> UNCHANGED <<props, gone>>
       [] deletes /\ joins ->
            Store([props EXCEPT ![m[1]] = {}, ![m[2]] = tx.read[m[1]] \cup tx.read[m[2]]],
                  (props[m[1]] \ tx.read[m[1]]) \cup (props[m[2]] \ tx.read[m[2]]), "merged over")
       [] deletes /\ ~joins ->
            Store([props EXCEPT ![m[1]] = {}], props[m[1]], "no user row")
  /\ merged' = merged \cup {m}

NextMerge(r) == Head(flush[r].data.merges)
MergeDone(r) ==
  flush' = [flush EXCEPT ![r] = [NoFlush EXCEPT !.pc = "merge", !.data = [@ EXCEPT !.merges = Tail(flush[r].data.merges)]]]

MergePending(r) ==
  \/ /\ At(r, "merge") /\ flush[r].data.merges # <<>>
     /\ Select(r, NextMerge(r), "commit")
  \/ /\ At(r, "commit")
     /\ Commit(r, NextMerge(r)) /\ MergeDone(r)
     /\ UNCHANGED <<failed, dead, pending, buffer, calls, faults, handed, linked>>

PersistUntrimmed(r) ==  \* bug: LPUSH without LTRIM
  /\ At(r, "merge") /\ flush[r].data.merges # <<>>
  /\ Fault /\ MergeDone(r)
  /\ failed' = <<NextMerge(r)>> \o failed
  /\ UNCHANGED <<pgVars, dead, pending, buffer, calls, handed, linked, merged, gone>>

(* It fails three times, which leaves nothing: LPUSH and LTRIM, or not even *)
(* that.                                                                    *)
PersistMerge(r) ==
  LET list == <<NextMerge(r)>> \o failed IN
  /\ At(r, "merge") /\ flush[r].data.merges # <<>>
  /\ IF Violates(NextMerge(r)) THEN UNCHANGED faults ELSE Fault
  /\ MergeDone(r)
  /\ failed' = SubSeq(list, 1, IF Len(list) < MaxFailed THEN Len(list) ELSE MaxFailed)
  /\ Lose({list[i] : i \in (MaxFailed + 1)..Len(list)}, "trimmed")
  /\ UNCHANGED <<pgVars, dead, pending, buffer, calls, handed, linked, merged>>

DropMerge(r) ==
  /\ At(r, "merge") /\ flush[r].data.merges # <<>>
  /\ Fault /\ MergeDone(r) /\ Lose({NextMerge(r)}, "not persisted")
  /\ UNCHANGED <<pgVars, failed, dead, pending, buffer, calls, handed, linked, merged>>

(* replayFailedMerges: the oldest entries of the list, if LRANGE answers.   *)
RangeFailed(r) ==
  LET n == IF Len(failed) < ReplayBatch THEN Len(failed) ELSE ReplayBatch
      Replays(list) == flush' = [flush EXCEPT ![r].pc = "replay", ![r].todo = list] IN
  /\ At(r, "merge") /\ flush[r].data.merges = <<>>
  /\ \/ Replays(SubSeq(failed, Len(failed) - n + 1, Len(failed))) /\ UNCHANGED faults
     \/ Replays(<<>>) /\ Fault
  /\ UNCHANGED <<pgVars, failed, dead, pending, buffer, calls, handed, linked, merged, gone>>

Oldest(r) == Head(flush[r].todo)
EntryDone(r) == flush' = [flush EXCEPT ![r] = [NoFlush EXCEPT !.pc = "replay", !.todo = Tail(flush[r].todo)]]

(* An entry: the merge, and LREM once it is done.                           *)
Replay(r) ==
  \/ /\ At(r, "replay") /\ flush[r].todo # <<>>
     /\ Select(r, Oldest(r), "recommit")
  \/ /\ At(r, "recommit")
     /\ Commit(r, Oldest(r))
     /\ flush' = [flush EXCEPT ![r] = [NoFlush EXCEPT !.pc = "lrem", !.todo = flush[r].todo]]
     /\ UNCHANGED <<failed, dead, pending, buffer, calls, faults, handed, linked>>
  \/ /\ At(r, "lrem")
     /\ EntryDone(r) /\ failed' = RemoveFirst(failed, Oldest(r))
     /\ UNCHANGED <<pgVars, dead, pending, buffer, calls, faults, handed, linked, merged, gone>>

ReplayForgets(r) ==  \* bug: LREM before the merge is known to be done
  /\ At(r, "replay") /\ flush[r].todo # <<>>
  /\ Fault /\ EntryDone(r) /\ failed' = RemoveFirst(failed, Oldest(r))
  /\ UNCHANGED <<pgVars, dead, pending, buffer, calls, handed, linked, merged, gone>>

(* The merge or LREM fails: the entry stays for the next flush.             *)
ReplayFails(r) ==
  /\ flush[r].pc \in {"replay", "lrem"} /\ flush[r].todo # <<>>
  /\ IF At(r, "replay") /\ Violates(Oldest(r)) THEN UNCHANGED faults ELSE Fault
  /\ EntryDone(r)
  /\ UNCHANGED <<pgVars, failed, dead, pending, buffer, calls, handed, linked, merged, gone>>

FlushDone(r) ==
  /\ At(r, "replay") /\ flush[r].todo = <<>>
  /\ Resolves(r)
  /\ UNCHANGED <<pgVars, failed, dead, buffer, faults, handed, linked, merged, gone>>
-----------------------------------------------------------------------------
Ends(r, k) == calls' = [calls EXCEPT ![r][k] = NoCall]

(* The events are in ClickHouse, and acknowledged or deleted (XDEL).        *)
Insert(r, k) ==
  /\ calls[r][k].pc = "inserts"
  /\ Ends(r, k)
  /\ dead' = IF k = "replay" THEN dead \ calls[r][k].events ELSE dead
  /\ UNCHANGED <<pgVars, failed, pending, flush, buffer, faults, handed, linked, merged, gone>>

(* The INSERT, XACK or XDEL fails.                                          *)
InsertFails(r, k) ==
  /\ calls[r][k].pc = "inserts" /\ Fault
  /\ calls' = [calls EXCEPT ![r][k] = Failed(@, k)]
  /\ UNCHANGED <<pgVars, failed, dead, pending, flush, buffer, handed, linked, merged, gone>>

(* moveToDlq: the whole batch, or a part of it and the batch is delivered   *)
(* again.                                                                   *)
Park(r) ==
  LET batch == calls[r]["batch"].events IN
  /\ calls[r]["batch"].pc = "parks"
  /\ Ends(r, "batch")
  /\ \/ dead' = dead \cup batch /\ UNCHANGED <<faults, handed>>
     \/ \E parked \in SUBSET batch :
          /\ Fault /\ dead' = dead \cup parked
          /\ handed' = handed \ Names(batch)
  /\ UNCHANGED <<pgVars, failed, pending, flush, buffer, linked, merged, gone>>

(* The process dies.  Events that are not acknowledged are delivered again, *)
(* but their merges are not asked for twice: Redis has the link.            *)
Crash(r) ==
  /\ Fault
  /\ handed' = handed \ Held(r)
  /\ Lose(ToSet(pending[r].merges) \cup ToSet(flush[r].data.merges), "crash")
  /\ pending' = [pending EXCEPT ![r] = Nothing]
  /\ flush' = [flush EXCEPT ![r] = NoFlush]
  /\ buffer' = [buffer EXCEPT ![r] = {}]
  /\ calls' = [calls EXCEPT ![r] = [k \in Kinds |-> NoCall]]
  /\ UNCHANGED <<pgVars, failed, dead, linked, merged>>

Flushing(r) ==
  \/ Read(r) \/ Upsert(r) \/ InsertIds(r) \/ Requeue(r)
  \/ MergePending(r) \/ PersistMerge(r) \/ DropMerge(r)
  \/ RangeFailed(r) \/ Replay(r) \/ ReplayFails(r) \/ FlushDone(r)

Next ==
  \E r \in Replicas :
    \/ \E e \in Events, way \in Ways, asked \in {<<>>} \cup {<<m>> : m \in Links} : Enqueue(r, e, way, asked)
    \/ StartBatch(r) \/ StartReplay(r) \/ Flushing(r)
    \/ \E k \in Kinds : Insert(r, k) \/ InsertFails(r, k)
    \/ Park(r) \/ Crash(r)

Spec == Init /\ [][Next]_vars
-----------------------------------------------------------------------------
(* The update of an event that will not be delivered again is in a row,     *)
(* waits in the memory of the replica that holds the event, is kept with    *)
(* its dead letter (or will be), or is lost in one of the ways that Causes  *)
(* names: no other step forgets it.                                         *)
UpdatesKept ==
  \A e \in handed :
    \/ Settled(e) \/ e \in Names(dead)
    \/ \E r \in Replicas : e \in Parking(r)
    \/ \E r \in Replicas : e \in Held(r) \cap InMemory(r)

(* A merge that was asked for is done, waits in memory or in Redis, or is   *)
(* lost in one of the ways that Causes names.                               *)
MergesKept ==
  \A m \in linked :
    \/ m \in merged \cup ToSet(failed) \/ Lost(m)
    \/ \E r \in Replicas : m \in ToSet(pending[r].merges) \cup ToSet(flush[r].data.merges)

(* When flush() resolves and BatchWriter inserts the events, what was       *)
(* pending at the call has been in PostgreSQL, also for the call that       *)
(* waited for another flush.                                                *)
FlushCovers ==
  \A r \in Replicas, k \in Kinds :
    calls[r][k].pc = "inserts" => \A e \in calls[r][k].owes : Settled(e)
=============================================================================
