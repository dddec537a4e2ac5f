------------------------------ MODULE Identity ------------------------------
(***************************************************************************)
(* PersonResolverService: which person an event belongs to, and how        *)
(* $identify links the anonymous id of a device to a user.                 *)
(*                                                                         *)
(* A replica of the processor resolves the events of a page concurrently;  *)
(* a step is one command to Redis, PostgreSQL or ClickHouse, with the      *)
(* JavaScript that runs until the next one.  The person an id deterministi-*)
(* cally produces (UUIDv5) carries the name of the id.  The batch store of *)
(* persons is reduced to what a lookup can see of it: PersonStore has the  *)
(* rest.                                                                   *)
(*                                                                         *)
(* Any user may identify from any device: reset() of the browser's SDK     *)
(* keeps the anonymous id, so that one id has the users that take turns.   *)
(***************************************************************************)
EXTENDS Naturals

CONSTANTS
  Anons,     \* distinct ids of devices
  Users,     \* distinct ids given to identify()
  Replicas,  \* instances of the processor
  Slots,     \* bound: events of a page, in the order of the stream
  MaxPages,  \* bound: pages read
  MaxFaults, \* bound: crashes, failing calls and expired keys
  None       \* null: no key, no row, no anonymous_id

ASSUME IdsAssumption ==
  /\ Anons \cap Users = {}
  /\ None \notin Anons \cup Users
  /\ Slots \in Nat \ {0} /\ MaxPages \in Nat /\ MaxFaults \in Nat

Dids    == Anons \cup Users
Persons == Dids
Maybe(S) == S \cup {None}
Nowhere == [d \in Dids |-> None]

VARIABLES
  redis,     \* the keys person:<project>:<distinct id>
  young,     \* history: keys set while something that is still running was running
  override,  \* person_distinct_id_overrides: the person of the latest version
  pdi,       \* person_distinct_ids in PostgreSQL
  unmerged,  \* merges that flushes took up: not done yet, or failed and in Redis
  events,    \* events in ClickHouse, as <<distinct id, person>>
  cache,     \* personCache of the page of a replica
  task,      \* the events of the page
  pending,   \* pendingDistinctIds of a replica
  merges,    \* pendingMerges of a replica
  buffer,    \* events resolved but not flushed
  link,      \* history: the user of the last $identify of an anonymous id
  pages,     \* history: pages read so far
  faults,    \* history: faults so far
  lapses     \* history: what went wrong with an id, with the cause

storeVars == <<pdi, unmerged, events, pending, merges, buffer>>
boundVars == <<pages, faults>>
vars == <<redis, young, override, cache, task, link, lapses, boundVars, storeVars>>

(* raced: the key of a device changed between the read and the write of a  *)
(* $identify, two users identified from the device at once, or a replica   *)
(* saw the person that SET NX makes up before PostgreSQL is asked.          *)
(* forgotten: the key expired before PostgreSQL had a row.                  *)
(* repointed: a merge of two users moved the row of an id, which has no     *)
(* override.                                                                *)
(* stale row: a row read back names another user than the override.         *)
(* half linked: a $identify failed between the override and the key.        *)
Causes == {"raced", "forgotten", "repointed", "stale row", "half linked"}
Lapse(ids, cause) == lapses' = lapses \cup (ids \X {cause})
Spared(d, causes) == \A c \in causes : <<d, c>> \notin lapses

Task == [did : Maybe(Dids), anon : Maybe(Anons),
         pc : {"idle", "resolve", "lookup", "honor", "get", "anon", "anonRow", "override", "link", "done"},
         user : Maybe(Persons), read : Maybe(Persons), from : Maybe(Persons)]
Idle == [did |-> None, anon |-> None, pc |-> "idle", user |-> None, read |-> None, from |-> None]

(* The maps of Redis, ClickHouse, PostgreSQL and of each replica relate ids *)
(* to persons; only device ids are ever overridden or linked.               *)
TypeOK ==
  /\ redis \in [Dids -> Maybe(Persons)] /\ pdi \in [Dids -> Maybe(Persons)]
  /\ young \in SUBSET Dids
  /\ override \in [Dids -> Maybe(Users)]
  /\ \A u \in Users : override[u] = None
  /\ unmerged \in SUBSET (Persons \X Users)
  /\ events \in SUBSET (Dids \X Persons)
  /\ cache \in [Replicas -> [Dids -> Maybe(Persons)]]
  /\ pending \in [Replicas -> [Dids -> Maybe(Persons)]]
  /\ merges \in [Replicas -> SUBSET (Persons \X Users)]
  /\ buffer \in [Replicas -> SUBSET (Dids \X Persons)]
  /\ task \in [Replicas -> [1..Slots -> Task]]
  /\ link \in [Anons -> Maybe(Users)]
  /\ lapses \in SUBSET (Dids \X Causes)
  /\ pages \in 0..MaxPages /\ faults \in 0..MaxFaults
-----------------------------------------------------------------------------
Init ==
  /\ redis = Nowhere /\ young = {} /\ override = Nowhere /\ pdi = Nowhere
  /\ unmerged = {} /\ events = {}
  /\ cache = [r \in Replicas |-> Nowhere]
  /\ task = [r \in Replicas |-> [i \in 1..Slots |-> Idle]]
  /\ pending = [r \in Replicas |-> Nowhere]
  /\ merges = [r \in Replicas |-> {}] /\ buffer = [r \in Replicas |-> {}]
  /\ link = [a \in Anons |-> None] /\ lapses = {}
  /\ pages = 0 /\ faults = 0

At(r, i, pc) == task[r][i].pc = pc
(* SET of a key with its expiry.                                            *)
Set(did, person) == redis' = [redis EXCEPT ![did] = person] /\ young' = young \cup {did}

Goto(r, i, pc) == task' = [task EXCEPT ![r][i].pc = pc]

FinishSwapped(r, i, c, user, from) ==  \* bug: the merge goes the wrong way
  /\ pending' = [pending EXCEPT ![r][task[r][i].did] = user]
  /\ merges' = [merges EXCEPT ![r] = IF from = None THEN @ ELSE @ \cup {<<user, from>>}]
  /\ task' = [task EXCEPT ![r][i] = [Idle EXCEPT !.did = task[r][i].did, !.pc = "done", !.user = user]]
  /\ cache' = [cache EXCEPT ![r] = c]
  /\ UNCHANGED <<pdi, unmerged, events, buffer>>

(* resolvePersonEnricher, after the resolver: the event has its person and  *)
(* the batch store its id and its merge.                                    *)
Finish(r, i, c, user, from) ==
  /\ pending' = [pending EXCEPT ![r][task[r][i].did] = user]
  /\ merges' = [merges EXCEPT ![r] = IF from = None THEN @ ELSE @ \cup {<<from, user>>}]
  /\ task' = [task EXCEPT ![r][i] = [Idle EXCEPT !.did = task[r][i].did, !.pc = "done", !.user = user]]
  /\ cache' = [cache EXCEPT ![r] = c]
  /\ UNCHANGED <<pdi, unmerged, events, buffer>>

(* resolve() has returned user: a $identify goes on with its anonymous id.  *)
Resolved(r, i, c, user) ==
  IF task[r][i].anon = None
  THEN Finish(r, i, c, user, None)
  ELSE /\ task' = [task EXCEPT ![r][i].pc = "anon", ![r][i].user = user]
       /\ cache' = [cache EXCEPT ![r] = c]
       /\ UNCHANGED storeVars

(* cache.set *)
Cached(r, did, person) == [cache[r] EXCEPT ![did] = person]

(* The key holds the person that SET NX made up, PostgreSQL knows another,  *)
(* and resolve() has yet to look, or died before it did.                    *)
Provisional(d) == redis[d] = d /\ pdi[d] \notin {None, d}

(* A page is read once the one before it is resolved; one MGET fetches the  *)
(* keys of all its events.                                                  *)
Prefetch(r) ==
  /\ pages < MaxPages /\ pages' = pages + 1
  /\ \A i \in 1..Slots : At(r, i, "idle")
  /\ \E page \in [1..Slots -> {<<None, None>>} \cup (Dids \X {None}) \cup (Users \X Anons)] :
       /\ \E i \in 1..Slots : page[i][1] # None
       /\ task' = [task EXCEPT ![r] = [i \in 1..Slots |->
            IF page[i][1] = None THEN Idle
            ELSE [Idle EXCEPT !.did = page[i][1], !.anon = page[i][2], !.pc = "resolve"]]]
       /\ LET keys == {d \in Dids : \E i \in 1..Slots : d \in {page[i][1], page[i][2]}} IN
            /\ cache' = [cache EXCEPT ![r] = [d \in Dids |-> IF d \in keys THEN redis[d] ELSE None]]
            /\ Lapse({d \in keys : Provisional(d)}, "raced")
  /\ UNCHANGED <<redis, young, override, link, faults, storeVars>>

(* All groups of the page have settled: addToBuffer.                        *)
Buffer(r) ==
  LET done == {i \in 1..Slots : At(r, i, "done")} IN
  /\ done # {} /\ \A i \in 1..Slots \ done : At(r, i, "idle")
  /\ buffer' = [buffer EXCEPT ![r] = @ \cup {<<task[r][i].did, task[r][i].user>> : i \in done}]
  /\ task' = [task EXCEPT ![r] = [i \in 1..Slots |-> Idle]]
  /\ cache' = [cache EXCEPT ![r] = Nowhere]
  /\ UNCHANGED <<redis, young, override, link, lapses, boundVars, pdi, unmerged, events, pending, merges>>

(* Events of one distinct id are resolved one after the other.              *)
MyTurn(r, i) ==
  \A j \in 1..(i - 1) : task[r][j].did = task[r][i].did => At(r, j, "done")

ResolveCached(r, i) ==
  LET did == task[r][i].did IN
  /\ At(r, i, "resolve") /\ MyTurn(r, i) /\ cache[r][did] # None
  /\ Resolved(r, i, cache[r], cache[r][did])
  /\ UNCHANGED <<redis, young, override, link, lapses, boundVars>>

SetNx(r, i) ==
  LET did == task[r][i].did IN
  /\ At(r, i, "resolve") /\ MyTurn(r, i) /\ cache[r][did] = None
  /\ IF redis[did] = None
     THEN Set(did, did) /\ Goto(r, i, "lookup")
     ELSE UNCHANGED <<redis, young>> /\ Goto(r, i, "get")
  /\ UNCHANGED <<override, cache, link, lapses, boundVars, storeVars>>

LookupSkipped(r, i) ==  \* bug: no look at PostgreSQL, "the person is deterministic anyway"
  /\ At(r, i, "lookup")
  /\ Resolved(r, i, Cached(r, task[r][i].did, task[r][i].did), task[r][i].did)
  /\ UNCHANGED <<redis, young, override, link, lapses, boundVars>>

(* The SET was new: a row of PostgreSQL wins over the deterministic person. *)
Lookup(r, i) ==
  LET did == task[r][i].did IN
  /\ At(r, i, "lookup")
  /\ IF pdi[did] # None
     THEN /\ task' = [task EXCEPT ![r][i].pc = "honor", ![r][i].read = pdi[did]]
          /\ UNCHANGED <<cache, storeVars>>
     ELSE Resolved(r, i, Cached(r, did, did), did)
  /\ UNCHANGED <<redis, young, override, link, lapses, boundVars>>

Stale(d, row) == row \notin {None, d} /\ override[d] \notin {None, row}

Honor(r, i) ==
  LET t == task[r][i] IN
  /\ At(r, i, "honor")
  /\ Set(t.did, t.read)
  /\ Lapse({d \in {t.did} : Stale(d, t.read)}, "stale row")
  /\ Resolved(r, i, Cached(r, t.did, t.read), t.read)
  /\ UNCHANGED <<override, link, boundVars>>

(* The key existed.  Should it be gone by now, the deterministic person is set. *)
Get(r, i) ==
  LET did == task[r][i].did
      person == IF redis[did] # None THEN redis[did] ELSE did IN
  /\ At(r, i, "get")
  /\ IF redis[did] = None THEN Set(did, did) ELSE UNCHANGED <<redis, young>>
  /\ Lapse({d \in {did} : Provisional(d)}, "raced")
  /\ Resolved(r, i, Cached(r, did, person), person)
  /\ UNCHANGED <<override, link, boundVars>>
-----------------------------------------------------------------------------
Linked(r, i) == link' = [link EXCEPT ![task[r][i].anon] = task[r][i].user]

(* Another user identifies from the device, and has read its person.        *)
Overlaps(r, i) ==
  \E q \in Replicas, j \in 1..Slots :
    /\ task[q][j].anon = task[r][i].anon /\ task[q][j].user # task[r][i].user
    /\ task[q][j].pc \in {"anonRow", "override", "link"}

(* handleIdentify: the anonymous person by the page's cache, else by Redis. *)
AnonRead(r, i) ==
  LET t == task[r][i]
      person == IF cache[r][t.anon] # None THEN cache[r][t.anon] ELSE redis[t.anon] IN
  /\ At(r, i, "anon")
  /\ Lapse({a \in {t.anon} : Overlaps(r, i) \/ (person = t.user /\ redis[a] # person)}, "raced")
  /\ \/ /\ person = t.user
        /\ Linked(r, i) /\ Finish(r, i, cache[r], t.user, None)
     \/ /\ person \notin {None, t.user}
        /\ task' = [task EXCEPT ![r][i] = [@ EXCEPT !.pc = "override", !.read = person, !.from = person]]
        /\ UNCHANGED <<link, cache, storeVars>>
     \/ /\ person = None
        /\ task' = [task EXCEPT ![r][i].pc = "anonRow", ![r][i].read = None]
        /\ UNCHANGED <<link, cache, storeVars>>
  /\ UNCHANGED <<redis, young, override, boundVars>>

AnonRowSkipped(r, i) ==  \* bug: no key means a device never seen
  /\ At(r, i, "anonRow") /\ Goto(r, i, "link")
  /\ UNCHANGED <<redis, young, override, cache, link, lapses, boundVars, storeVars>>

(* No key: PostgreSQL may know the device from before.                      *)
AnonRow(r, i) ==
  LET t == task[r][i]
      row == pdi[t.anon] IN
  /\ At(r, i, "anonRow")
  /\ Lapse({a \in {t.anon} : Stale(a, row)}, "stale row")
  /\ IF row \notin {None, t.user}
     THEN task' = [task EXCEPT ![r][i].pc = "override", ![r][i].from = row]
     ELSE Goto(r, i, "link")
  /\ UNCHANGED <<redis, young, override, cache, link, boundVars, storeVars>>

WriteOverride(r, i) ==
  /\ At(r, i, "override")
  /\ override' = [override EXCEPT ![task[r][i].anon] = task[r][i].user]
  /\ Linked(r, i) /\ Goto(r, i, "link")
  /\ UNCHANGED <<redis, young, cache, lapses, boundVars, storeVars>>

(* The key of the device is set to the user, whatever it is by now.         *)
Link(r, i) ==
  LET t == task[r][i] IN
  /\ At(r, i, "link")
  /\ Lapse({a \in {t.anon} : redis[a] # t.read}, "raced")
  /\ Set(t.anon, t.user)
  /\ IF t.from = None THEN Linked(r, i) ELSE UNCHANGED link
  /\ Finish(r, i, Cached(r, t.anon, t.user), t.user, t.from)
  /\ UNCHANGED <<override, boundVars>>
-----------------------------------------------------------------------------
(* BatchWriter.write: new ids, merges, events.  Every merge is a step of its *)
(* own: a failing one waits in Redis for a later flush.                     *)
Flush(r) ==
  /\ buffer[r] # {}
  /\ pdi' = [d \in Dids |-> IF pdi[d] = None THEN pending[r][d] ELSE pdi[d]]
  /\ unmerged' = unmerged \cup merges[r]
  /\ events' = events \cup buffer[r]
  /\ pending' = [pending EXCEPT ![r] = Nowhere]
  /\ merges' = [merges EXCEPT ![r] = {}]
  /\ buffer' = [buffer EXCEPT ![r] = {}]
  /\ UNCHANGED <<redis, young, override, cache, task, link, lapses, boundVars>>

(* mergePersons: the ids of the one person move to the other.               *)
MergePersons ==
  /\ \E m \in unmerged :
       /\ pdi' = [d \in Dids |-> IF pdi[d] = m[1] THEN m[2] ELSE pdi[d]]
       /\ unmerged' = unmerged \ {m}
       /\ Lapse({d \in Dids : m[1] \in Users /\ pdi[d] = m[1] /\ override[d] = None}, "repointed")
  /\ UNCHANGED <<redis, young, override, cache, task, link, boundVars, events, pending, merges, buffer>>

Fault == faults < MaxFaults /\ faults' = faults + 1
HalfLinked(t) == t.pc = "link" /\ t.from # None

(* The process dies: its events are delivered again, to any replica.        *)
Crash(r) ==
  /\ Fault
  /\ Lapse({task[r][i].anon : i \in {j \in 1..Slots : HalfLinked(task[r][j])}}, "half linked")
  /\ cache' = [cache EXCEPT ![r] = Nowhere]
  /\ task' = [task EXCEPT ![r] = [i \in 1..Slots |-> Idle]]
  /\ pending' = [pending EXCEPT ![r] = Nowhere]
  /\ merges' = [merges EXCEPT ![r] = {}]
  /\ buffer' = [buffer EXCEPT ![r] = {}]
  /\ UNCHANGED <<redis, young, override, link, pages, pdi, unmerged, events>>

(* A call throws: the events of the distinct id fail alone and are delivered*)
(* again; what the earlier ones of them enqueued stays.                     *)
GroupFails(r, i) ==
  LET group == {j \in 1..Slots : task[r][j].did = task[r][i].did} IN
  /\ task[r][i].pc \notin {"idle", "done"} /\ MyTurn(r, i)
  /\ Fault
  /\ Lapse({task[r][j].anon : j \in {k \in group : HalfLinked(task[r][k])}}, "half linked")
  /\ task' = [task EXCEPT ![r] = [j \in 1..Slots |-> IF j \in group THEN Idle ELSE @[j]]]
  /\ UNCHANGED <<redis, young, override, cache, link, pages, storeVars>>

(* A key lives for 90 days from its last SET, used or not: longer than what *)
(* was being resolved or flushed when it was set.                           *)
Age(d) ==
  /\ d \in young
  /\ \A r \in Replicas :
       /\ pending[r][d] \in {None, pdi[d]}
       /\ \A i \in 1..Slots : d \notin {task[r][i].did, task[r][i].anon}
  /\ young' = young \ {d}
  /\ UNCHANGED <<redis, override, cache, task, link, lapses, boundVars, storeVars>>

Expire(d) ==
  /\ Fault
  /\ redis[d] # None /\ d \notin young
  /\ redis' = [redis EXCEPT ![d] = None]
  /\ Lapse({a \in {d} \cap Anons : pdi[a] = None}, "forgotten")
  /\ UNCHANGED <<young, override, cache, task, link, pages, storeVars>>

Resolve(r, i) ==
  ResolveCached(r, i) \/ SetNx(r, i) \/ Lookup(r, i) \/ Honor(r, i) \/ Get(r, i)

Identify(r, i) == AnonRead(r, i) \/ AnonRow(r, i) \/ WriteOverride(r, i) \/ Link(r, i)

Next ==
  \/ \E r \in Replicas : Prefetch(r) \/ Buffer(r) \/ Flush(r) \/ Crash(r)
  \/ \E r \in Replicas, i \in 1..Slots : Resolve(r, i) \/ Identify(r, i) \/ GroupFails(r, i)
  \/ MergePersons
  \/ \E d \in Dids : Age(d) \/ Expire(d)

Spec == Init /\ [][Next]_vars
-----------------------------------------------------------------------------
(* coalesce(dictGetOrNull(person_overrides_dict), person_id): the person a  *)
(* query attributes an event to.                                            *)
Read(d, p) == IF override[d] # None THEN override[d] ELSE p

(* All events of one distinct id read as one person, on every replica, for  *)
(* users that share devices, and across crashes, failing calls and expired  *)
(* keys, unless a write of its key lost a race, its key expired too early,  *)
(* or a merge of two users took its row along.                              *)
ReadsAgree ==
  \A d \in Dids : Spared(d, {"raced", "forgotten", "repointed"}) =>
    \A e, f \in events : e[1] = d /\ f[1] = d => Read(d, e[2]) = Read(d, f[2])

(* After $identify every event of the device, earlier and later, reads as   *)
(* an event of the user it was last linked to, for one of the named causes  *)
(* if not.                                                                  *)
LinkSticks ==
  \A a \in Anons : Spared(a, Causes) /\ link[a] # None =>
    \A e \in events : e[1] = a => Read(a, e[2]) = link[a]

(* What the comment of resolve() says: the same distinct_id always produces the same  *)
(* person_id, eliminating races between processor instances.                *)
SamePerson ==
  \A e, f \in events : e[1] = f[1] => Read(e[1], e[2]) = Read(f[1], f[2])
=============================================================================
