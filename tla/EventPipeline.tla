---------------------------- MODULE EventPipeline ----------------------------
(***************************************************************************)
(* The event pipeline: the Redis stream events:incoming, its consumer      *)
(* group, the processor replicas that read, buffer and flush it, the       *)
(* dead-letter stream and its replay, and the ClickHouse table events.     *)
(*                                                                         *)
(* A stream entry is its position 1, 2, ...  Redis keeps the entries in    *)
(* (trimmedTo, produced]; those up to lastDelivered were delivered to the  *)
(* group and stay in its pending entries list until XACK.  ClickHouse is   *)
(* the set of positions that were inserted: the table is a                 *)
(* ReplacingMergeTree and every insert of one stream entry has one key.    *)
(* Everything a replica holds in memory is lost when it crashes; Redis     *)
(* and ClickHouse survive.                                                 *)
(*                                                                         *)
(* Each await that reaches Redis or ClickHouse ends a step, and a call     *)
(* that fails may or may not have taken effect.  Failures, crashes,        *)
(* shutdowns and overrun locks draw on the budget MaxFaults.               *)
(***************************************************************************)
EXTENDS Naturals, FiniteSets

CONSTANTS
  Procs,        \* processor replicas
  Claimers,     \* overlapping runs of the claimPendingMessages interval in one replica
  MaxMsgs,      \* bound: events that ingest writes
  Invalid,      \* the events that fail validation
  ReadCount,    \* XREAD_COUNT, also the COUNT of XAUTOCLAIM
  BatchSize,    \* PROCESSOR_BATCH_SIZE
  Backpressure, \* PROCESSOR_BACKPRESSURE_THRESHOLD
  MaxErrors,    \* MAX_CONSECUTIVE_ERRORS
  StreamMaxLen, \* REDIS_STREAM_MAXLEN
  DlqMaxLen,    \* REDIS_DLQ_MAXLEN
  ReplayBatch,  \* DLQ_REPLAY_BATCH
  Threshold,    \* DLQ_CIRCUIT_BREAKER_THRESHOLD
  MaxFaults,    \* bound: failed calls, crashes, shutdowns and overrun locks
  Loop,         \* the fiber that runs startLoop
  Free,         \* the replay lock is free
  Lost          \* the replay lock holds the id of a replica that is gone

Msgs == 1..MaxMsgs
Fibers == {Loop} \cup Claimers

ASSUME SizesAssumption ==
  /\ MaxMsgs \in Nat /\ MaxFaults \in Nat
  /\ ReadCount \in Nat \ {0} /\ BatchSize \in Nat \ {0} /\ ReplayBatch \in Nat \ {0}
  /\ StreamMaxLen \in Nat \ {0} /\ DlqMaxLen \in Nat \ {0}
  /\ MaxErrors \in Nat \ {0} /\ Threshold \in Nat \ {0} /\ Backpressure \in Nat

ASSUME NamesAssumption ==
  /\ Invalid \subseteq Msgs
  /\ Loop \notin Claimers
  /\ Free \notin Procs /\ Lost \notin Procs /\ Free # Lost

VARIABLES
  produced,      \* last entry written by ingest
  trimmedTo,     \* last entry removed by XADD MAXLEN
  lastDelivered, \* last-delivered id of the consumer group
  pel,           \* pending entries list of the group
  ch,            \* events in ClickHouse
  evicted,       \* history: events a MAXLEN removed before they were stored
  dlq,           \* entries of the dead-letter stream, [round, ev]
  dlqRound,      \* the last XADD pipeline into the dead-letter stream
  lock,          \* value of dlq:replay:lock
  overran,       \* history: replicas whose replay outlived the lock's TTL
  circuit,       \* DLQ_CIRCUIT_KEY: open while it exists
  failures,      \* DLQ_FAILURES_KEY
  mode,          \* progress of onApplicationShutdown
  fiber,         \* what each fiber of the consumer awaits
  read,          \* the messages each fiber is processing
  errors,        \* consecutiveErrors of startLoop
  buffer,        \* FlushService.buffer
  batch,         \* the batch _doFlush took from the buffer
  phase,         \* what _doFlush awaits
  replay,        \* what replayDlq awaits
  entries,       \* the entries replayDlq read
  faults         \* faults so far

streamVars   == <<produced, trimmedTo, lastDelivered>>
consumerVars == <<mode, fiber, read, errors>>
flushVars    == <<buffer, batch, phase>>
replayVars   == <<replay, entries>>
breakerVars  == <<circuit, failures>>
lockVars     == <<lock, overran>>
dlqVars      == <<dlq, dlqRound>>
vars == <<streamVars, pel, ch, evicted, dlqVars, lockVars, breakerVars,
          consumerVars, flushVars, replayVars, faults>>

Modes   == {"running", "stopping", "draining", "exiting"}
Awaits  == {"idle", "drain", "polling", "busy", "flush"}
Phases  == {"idle", "write", "ack", "dlq", "dlqAck"}
Replays == {"idle", "acquire", "read", "write", "delete", "reset", "failed", "release"}

DlqEntry == [round : Nat, ev : Msgs]

InDlq(m) == \E e \in dlq : e.ev = m

(* Between a successful acquire and the release in finally. *)
InReplay(p) == replay[p] \in {"read", "write", "delete", "reset", "failed", "release"}

StreamType ==
  /\ produced \in 0..MaxMsgs /\ trimmedTo \in 0..produced /\ lastDelivered \in 0..produced
  /\ pel \subseteq 1..lastDelivered
StoreType == ch \subseteq Msgs /\ evicted \subseteq Msgs
DlqType == dlq \subseteq DlqEntry /\ dlqRound \in Nat
LockType == lock \in Procs \cup {Free, Lost} /\ overran \subseteq Procs
BreakerType == circuit \in {"open", "closed"} /\ failures \in Nat
ConsumerType ==
  /\ mode \in [Procs -> Modes] /\ errors \in [Procs -> Nat]
  /\ fiber \in [Procs -> [Fibers -> Awaits]]
  /\ read \in [Procs -> [Fibers -> SUBSET Msgs]]
FlushType ==
  /\ buffer \in [Procs -> SUBSET Msgs] /\ batch \in [Procs -> SUBSET Msgs]
  /\ phase \in [Procs -> Phases]
ReplayType == replay \in [Procs -> Replays] /\ entries \in [Procs -> SUBSET DlqEntry]

(* The variables keep their types; the PEL holds only delivered entries.    *)
TypeOK ==
  /\ StreamType /\ StoreType /\ DlqType /\ LockType /\ BreakerType
  /\ ConsumerType /\ FlushType /\ ReplayType
  /\ faults \in 0..MaxFaults
-----------------------------------------------------------------------------
NoFibers == [f \in Fibers |-> "idle"]
NoReads  == [f \in Fibers |-> {}]

Init ==
  /\ produced = 0 /\ trimmedTo = 0 /\ lastDelivered = 0
  /\ pel = {} /\ ch = {} /\ evicted = {}
  /\ dlq = {} /\ dlqRound = 0
  /\ lock = Free /\ overran = {}
  /\ circuit = "closed" /\ failures = 0
  /\ mode = [p \in Procs |-> "running"]
  /\ fiber = [p \in Procs |-> NoFibers]
  /\ read = [p \in Procs |-> NoReads]
  /\ errors = [p \in Procs |-> 0]
  /\ buffer = [p \in Procs |-> {}]
  /\ batch = [p \in Procs |-> {}]
  /\ phase = [p \in Procs |-> "idle"]
  /\ replay = [p \in Procs |-> "idle"]
  /\ entries = [p \in Procs |-> {}]
  /\ faults = 0

Fault == faults < MaxFaults /\ faults' = faults + 1

(* The process is gone and a new one takes its place: nothing in memory     *)
(* survives, and the lock it may hold stays in Redis until its TTL.         *)
Restart(p) ==
  /\ mode' = [mode EXCEPT ![p] = "running"]
  /\ fiber' = [fiber EXCEPT ![p] = NoFibers]
  /\ read' = [read EXCEPT ![p] = NoReads]
  /\ errors' = [errors EXCEPT ![p] = 0]
  /\ buffer' = [buffer EXCEPT ![p] = {}]
  /\ batch' = [batch EXCEPT ![p] = {}]
  /\ phase' = [phase EXCEPT ![p] = "idle"]
  /\ replay' = [replay EXCEPT ![p] = "idle"]
  /\ entries' = [entries EXCEPT ![p] = {}]
  /\ lock' = IF lock = p THEN Lost ELSE lock
  /\ overran' = overran \ {p}
-----------------------------------------------------------------------------
(* Ingest: one XADD MAXLEN ~.  The trim is approximate: Redis may keep more *)
(* than MAXLEN entries, never fewer.  An entry removed before delivery is   *)
(* never read; one removed while pending is found out by XAUTOCLAIM.        *)
Produce ==
  /\ produced < MaxMsgs
  /\ produced' = produced + 1
  /\ trimmedTo' \in {trimmedTo} \cup
       {t \in trimmedTo..produced : produced' - t >= StreamMaxLen}
  /\ evicted' = evicted \cup {m \in lastDelivered + 1 .. trimmedTo' : m > trimmedTo}
  /\ lastDelivered' = lastDelivered
  /\ UNCHANGED <<pel, ch, dlqVars, lockVars, breakerVars, consumerVars, flushVars,
                 replayVars, faults>>
-----------------------------------------------------------------------------
(* EventConsumerService.startLoop and processMessages.                      *)

NextUndelivered == IF trimmedTo > lastDelivered THEN trimmedTo + 1 ELSE lastDelivered + 1

Resume(p, f, await) == fiber' = [fiber EXCEPT ![p][f] = await]

Overfull(p) == Cardinality(buffer[p]) > Backpressure

(* while (this.running): the loop polls, or drains an overfull buffer first.*)
Poll(p) ==
  /\ mode[p] = "running" /\ fiber[p][Loop] = "idle"
  /\ Resume(p, Loop, IF Overfull(p) THEN "drain" ELSE "polling")
  /\ UNCHANGED <<streamVars, pel, ch, evicted, dlqVars, lockVars, breakerVars,
                 mode, read, errors, flushVars, replayVars, faults>>

(* drainIfOverfull returns; running is not looked at again before the poll. *)
Drained(p) ==
  /\ fiber[p][Loop] = "drain" /\ ~Overfull(p)
  /\ Resume(p, Loop, "polling")
  /\ UNCHANGED <<streamVars, pel, ch, evicted, dlqVars, lockVars, breakerVars,
                 mode, read, errors, flushVars, replayVars, faults>>

(* Mutant: a consumer that reads without moving the cursor of the group.    *)
DeliverKeepsCursor(p) ==
  LET page == NextUndelivered..produced
  IN  /\ fiber[p][Loop] = "polling"
      /\ page # {} /\ Cardinality(page) <= ReadCount
      /\ pel' = pel \cup page
      /\ read' = [read EXCEPT ![p][Loop] = page]
      /\ Resume(p, Loop, "busy")
      /\ UNCHANGED <<streamVars, ch, evicted, dlqVars, lockVars, breakerVars,
                     mode, errors, flushVars, replayVars, faults>>

Deliver(p) ==
  LET first == NextUndelivered
      last  == IF first + ReadCount - 1 < produced THEN first + ReadCount - 1 ELSE produced
  IN  /\ fiber[p][Loop] = "polling"
      /\ first <= produced
      /\ lastDelivered' = last
      /\ pel' = pel \cup (first..last)
      /\ read' = [read EXCEPT ![p][Loop] = first..last]
      /\ Resume(p, Loop, "busy")
      /\ UNCHANGED <<produced, trimmedTo, ch, evicted, dlqVars, lockVars, breakerVars,
                     mode, errors, flushVars, replayVars, faults>>

(* BLOCK ran out: startLoop continues without touching consecutiveErrors.   *)
PollEmpty(p) ==
  /\ fiber[p][Loop] = "polling"
  /\ NextUndelivered > produced
  /\ Resume(p, Loop, "idle")
  /\ UNCHANGED <<streamVars, pel, ch, evicted, dlqVars, lockVars, breakerVars,
                 mode, read, errors, flushVars, replayVars, faults>>

(* An exception in a fiber.  What it was processing stays in the PEL; the   *)
(* loop counts the error and exits the process after MaxErrors in a row.    *)
Throw(p, f) ==
  IF f = Loop /\ errors[p] + 1 >= MaxErrors
  THEN Restart(p)
  ELSE /\ Resume(p, f, "idle")
       /\ read' = [read EXCEPT ![p][f] = {}]
       /\ errors' = IF f = Loop THEN [errors EXCEPT ![p] = @ + 1] ELSE errors
       /\ UNCHANGED <<mode, flushVars, replayVars, lockVars>>

(* XREADGROUP throws, or it delivered and prefetchPersons then throws.      *)
ReadFails(p, f) ==
  /\ Fault
  /\ \/ f = Loop /\ fiber[p][f] = "polling"
     \/ fiber[p][f] = "busy" /\ read[p][f] \cap Invalid = {}
  /\ Throw(p, f)
  /\ UNCHANGED <<streamVars, pel, ch, evicted, dlqVars, breakerVars>>

(* A page is done: the loop resets its error count, a claim run goes on.    *)
ErrorsAfterPage(p, f) == IF f = Loop THEN [errors EXCEPT ![p] = 0] ELSE errors

(* XACK of the invalid messages of a page, before anything else is done.    *)
RejectInvalid(p, f) ==
  LET inv == read[p][f] \cap Invalid
      rest == read[p][f] \ Invalid
  IN  /\ fiber[p][f] = "busy" /\ inv # {}
      /\ pel' = pel \ inv
      /\ read' = [read EXCEPT ![p][f] = rest]
      /\ Resume(p, f, IF rest = {} THEN "idle" ELSE "busy")
      /\ errors' = IF rest = {} THEN ErrorsAfterPage(p, f) ELSE errors
      /\ UNCHANGED <<streamVars, ch, evicted, dlqVars, lockVars, breakerVars,
                     mode, flushVars, replayVars, faults>>

RejectFails(p, f) ==
  /\ Fault
  /\ fiber[p][f] = "busy" /\ read[p][f] \cap Invalid # {}
  /\ pel' \in {pel, pel \ (read[p][f] \cap Invalid)}
  /\ Throw(p, f)
  /\ UNCHANGED <<streamVars, ch, evicted, dlqVars, breakerVars>>

(* resolveAndBuildEvents, addToBuffer and, when the buffer is full, flush.  *)
(* A group whose processing fails stays in the PEL; flush returns at once   *)
(* while another flush is in progress.                                      *)
Buffer(p, f, failed) ==
  LET added == read[p][f] \ failed
      buf == buffer[p] \cup added
      flushes == added # {} /\ Cardinality(buf) >= BatchSize /\ phase[p] = "idle"
  IN  /\ fiber[p][f] = "busy" /\ read[p][f] \cap Invalid = {}
      /\ failed \subseteq read[p][f]
      /\ IF failed = {} THEN UNCHANGED faults ELSE Fault
      /\ read' = [read EXCEPT ![p][f] = {}]
      /\ errors' = ErrorsAfterPage(p, f)
      /\ IF flushes
         THEN /\ batch' = [batch EXCEPT ![p] = buf]
              /\ buffer' = [buffer EXCEPT ![p] = {}]
              /\ phase' = [phase EXCEPT ![p] = "write"]
              /\ Resume(p, f, "flush")
         ELSE /\ buffer' = [buffer EXCEPT ![p] = buf]
              /\ Resume(p, f, "idle")
              /\ UNCHANGED <<batch, phase>>
      /\ UNCHANGED <<streamVars, pel, ch, evicted, dlqVars, lockVars, breakerVars,
                     mode, replayVars>>

(* claimPendingMessages: one page of XAUTOCLAIM.  Any pending entry may be  *)
(* idle long enough, one that a live replica still buffers included.  Redis *)
(* drops the entries that MAXLEN removed from the stream.                   *)
Claim(p, c, page) ==
  LET gone == page \cap (1..trimmedTo)
  IN  /\ mode[p] = "running" /\ fiber[p][c] = "idle"
      /\ page # {} /\ page \subseteq pel /\ Cardinality(page) <= ReadCount
      /\ pel' = pel \ gone
      /\ evicted' = evicted \cup (gone \ ch)
      /\ read' = [read EXCEPT ![p][c] = page \ gone]
      /\ Resume(p, c, IF page = gone THEN "idle" ELSE "busy")
      /\ UNCHANGED <<streamVars, ch, dlqVars, lockVars, breakerVars, mode, errors,
                     flushVars, replayVars, faults>>
-----------------------------------------------------------------------------
(* FlushService._doFlush.  BatchWriter.write flushes persons to PostgreSQL, *)
(* inserts into ClickHouse, both with retries, and swallows the errors of   *)
(* the definition sync.                                                     *)

(* flush() by the timer and by drainIfOverfull; shutdown stops the timer.   *)
StartFlush(p) ==
  /\ phase[p] = "idle" /\ buffer[p] # {}
  /\ batch' = [batch EXCEPT ![p] = buffer[p]]
  /\ buffer' = [buffer EXCEPT ![p] = {}]
  /\ phase' = [phase EXCEPT ![p] = "write"]

FlushTick(p) ==
  /\ mode[p] # "exiting"
  /\ StartFlush(p)
  /\ UNCHANGED <<streamVars, pel, ch, evicted, dlqVars, lockVars, breakerVars,
                 consumerVars, replayVars, faults>>

GoTo(p, next) == phase' = [phase EXCEPT ![p] = next]

WriteOk(p) ==
  /\ phase[p] = "write"
  /\ ch' = ch \cup batch[p]
  /\ GoTo(p, "ack")
  /\ UNCHANGED <<streamVars, pel, evicted, dlqVars, lockVars, breakerVars,
                 consumerVars, buffer, batch, replayVars, faults>>

(* Mutant: the error of the insert is logged and swallowed.                 *)
WriteFailsSilently(p) ==
  /\ Fault
  /\ phase[p] = "write"
  /\ \E part \in SUBSET batch[p] : ch' = ch \cup part
  /\ GoTo(p, "ack")
  /\ UNCHANGED <<streamVars, pel, evicted, dlqVars, lockVars, breakerVars,
                 consumerVars, buffer, batch, replayVars>>

(* The retries are exhausted; attempts that timed out, or one that reached  *)
(* only some partitions, may have inserted any part of the batch.           *)
WriteFails(p) ==
  /\ Fault
  /\ phase[p] = "write"
  /\ \E part \in SUBSET batch[p] : ch' = ch \cup part
  /\ GoTo(p, "dlq")
  /\ UNCHANGED <<streamVars, pel, evicted, dlqVars, lockVars, breakerVars,
                 consumerVars, buffer, batch, replayVars>>

(* _doFlush returns and flush() clears flushPromise.                        *)
EndFlush(p) ==
  /\ GoTo(p, "idle")
  /\ batch' = [batch EXCEPT ![p] = {}]
  /\ fiber' = [fiber EXCEPT ![p] =
                 [f \in Fibers |-> IF @[f] = "flush" THEN "idle" ELSE @[f]]]
  /\ UNCHANGED <<mode, read, errors, buffer>>

(* XACK of the batch, after the write or after the move to the DLQ.         *)
AckBatch(p) ==
  /\ phase[p] \in {"ack", "dlqAck"}
  /\ pel' = pel \ batch[p]
  /\ EndFlush(p)
  /\ UNCHANGED <<streamVars, ch, evicted, dlqVars, lockVars, breakerVars, replayVars, faults>>

(* A failing XACK after a successful write is caught with the write's own   *)
(* errors: the batch goes to the DLQ although it is stored.                 *)
AckFails(p) ==
  /\ Fault
  /\ phase[p] \in {"ack", "dlqAck"}
  /\ pel' \in {pel, pel \ batch[p]}
  /\ IF phase[p] = "ack"
     THEN GoTo(p, "dlq") /\ UNCHANGED <<consumerVars, buffer, batch>>
     ELSE EndFlush(p)
  /\ UNCHANGED <<streamVars, ch, evicted, dlqVars, lockVars, breakerVars, replayVars>>

(* One pipeline of XADD MAXLEN ~, oldest entries trimmed first.             *)
AddToDlq(evs) ==
  LET all == dlq \cup {[round |-> dlqRound + 1, ev |-> m] : m \in evs}
  IN  /\ dlqRound' = dlqRound + 1
      /\ \E kept \in SUBSET all :
           /\ kept = all \/ Cardinality(kept) >= DlqMaxLen
           /\ \A e \in kept, x \in all \ kept : x.round <= e.round
           /\ dlq' = kept
           /\ evicted' = evicted \cup ({x.ev : x \in all \ kept} \ ch)

MoveToDlq(p) ==
  /\ phase[p] = "dlq"
  /\ AddToDlq(batch[p])
  /\ GoTo(p, "dlqAck")
  /\ UNCHANGED <<streamVars, pel, ch, lockVars, breakerVars, consumerVars, buffer, batch,
                 replayVars, faults>>

(* Mutant: the results of the XADD pipeline are not inspected.              *)
MoveToDlqUnchecked(p) ==
  /\ Fault
  /\ phase[p] = "dlq"
  /\ \E part \in SUBSET batch[p] : AddToDlq(part)
  /\ GoTo(p, "dlqAck")
  /\ UNCHANGED <<streamVars, pel, ch, lockVars, breakerVars, consumerVars, buffer, batch,
                 replayVars>>

(* Some XADD of the pipeline failed: no XACK, the batch waits in the PEL.   *)
MoveToDlqFails(p) ==
  /\ Fault
  /\ phase[p] = "dlq"
  /\ \E part \in SUBSET batch[p] : AddToDlq(part)
  /\ EndFlush(p)
  /\ UNCHANGED <<streamVars, pel, ch, lockVars, breakerVars, replayVars>>
-----------------------------------------------------------------------------
(* DlqService.replayDlq, under the lock dlq:replay:lock.                    *)

ReplayTo(p, next) == replay' = [replay EXCEPT ![p] = next]

(* The timer fires and the circuit is closed.                               *)
ReplayStart(p) ==
  /\ mode[p] \in {"running", "stopping"} /\ replay[p] = "idle"
  /\ circuit = "closed"
  /\ ReplayTo(p, "acquire")
  /\ UNCHANGED <<streamVars, pel, ch, evicted, dlqVars, lockVars, breakerVars,
                 consumerVars, flushVars, entries, faults>>

(* SET NX EX: a replica that finds the lock taken waits for its next timer. *)
ReplayAcquire(p) ==
  /\ replay[p] = "acquire"
  /\ lock' = IF lock = Free THEN p ELSE lock
  /\ ReplayTo(p, IF lock = Free THEN "read" ELSE "idle")
  /\ UNCHANGED <<streamVars, pel, ch, evicted, dlqVars, overran, breakerVars,
                 consumerVars, flushVars, entries, faults>>

(* The reply is lost: the lock may be taken in p's name, with nobody        *)
(* replaying, until its TTL.                                                *)
ReplayAcquireFails(p) ==
  /\ Fault
  /\ replay[p] = "acquire"
  /\ lock' \in {lock, IF lock = Free THEN p ELSE lock}
  /\ ReplayTo(p, "idle")
  /\ UNCHANGED <<streamVars, pel, ch, evicted, dlqVars, overran, breakerVars,
                 consumerVars, flushVars, entries>>

(* Mutant: the entries are deleted as they are read, before the write.      *)
ReplayPop(p) ==
  /\ replay[p] = "read"
  /\ \/ dlq = {} /\ ReplayTo(p, "release") /\ UNCHANGED <<dlq, entries>>
     \/ \E e \in dlq : /\ entries' = [entries EXCEPT ![p] = {e}]
                       /\ dlq' = dlq \ {e}
                       /\ ReplayTo(p, "write")
  /\ UNCHANGED <<streamVars, pel, ch, evicted, dlqRound, lockVars, breakerVars,
                 consumerVars, flushVars, faults>>

(* XRANGE of the oldest ReplayBatch entries.                                *)
ReplayRead(p) ==
  /\ replay[p] = "read"
  /\ \E oldest \in SUBSET dlq :
       /\ oldest = dlq \/ Cardinality(oldest) = ReplayBatch
       /\ Cardinality(oldest) <= ReplayBatch
       /\ \A e \in oldest, x \in dlq \ oldest : e.round <= x.round
       /\ entries' = [entries EXCEPT ![p] = oldest]
       /\ ReplayTo(p, IF oldest = {} THEN "release" ELSE "write")
  /\ UNCHANGED <<streamVars, pel, ch, evicted, dlqVars, lockVars, breakerVars,
                 consumerVars, flushVars, faults>>

EventsOf(p) == {e.ev : e \in entries[p]}

ReplayWrite(p) ==
  /\ replay[p] = "write"
  /\ ch' = ch \cup EventsOf(p)
  /\ ReplayTo(p, "delete")
  /\ UNCHANGED <<streamVars, pel, evicted, dlqVars, lockVars, breakerVars,
                 consumerVars, flushVars, entries, faults>>

(* XDEL by id: entries another replica deleted already are no error.        *)
ReplayDelete(p) ==
  /\ replay[p] = "delete"
  /\ dlq' = dlq \ entries[p]
  /\ ReplayTo(p, "reset")
  /\ UNCHANGED <<streamVars, pel, ch, evicted, dlqRound, lockVars, breakerVars,
                 consumerVars, flushVars, entries, faults>>

(* A replay that wrote and deleted closes the circuit and clears the count. *)
ReplayReset(p) ==
  /\ replay[p] = "reset"
  /\ circuit' = "closed" /\ failures' = 0
  /\ ReplayTo(p, "release")
  /\ UNCHANGED <<streamVars, pel, ch, evicted, dlqVars, lockVars,
                 consumerVars, flushVars, entries, faults>>

(* XRANGE, the write, XDEL or DEL throws, with or without its effect.       *)
ReplayFails(p) ==
  /\ Fault
  /\ replay[p] \in {"read", "write", "delete", "reset"}
  /\ \/ UNCHANGED <<ch, dlq, breakerVars>>
     \/ /\ replay[p] = "write"
        /\ \E part \in SUBSET EventsOf(p) : ch' = ch \cup part
        /\ UNCHANGED <<dlq, breakerVars>>
     \/ /\ replay[p] = "delete"
        /\ dlq' = dlq \ entries[p]
        /\ UNCHANGED <<ch, breakerVars>>
     \/ /\ replay[p] = "reset"
        /\ circuit' = "closed" /\ failures' = 0
        /\ UNCHANGED <<ch, dlq>>
  /\ ReplayTo(p, "failed")
  /\ UNCHANGED <<streamVars, pel, evicted, dlqRound, lockVars,
                 consumerVars, flushVars, entries>>

(* INCR, and at the threshold the circuit opens and the count restarts.     *)
CountFailure(p) ==
  /\ replay[p] = "failed"
  /\ IF failures + 1 >= Threshold
     THEN circuit' = "open" /\ failures' = 0
     ELSE circuit' = circuit /\ failures' = failures + 1
  /\ ReplayTo(p, "release")
  /\ UNCHANGED <<streamVars, pel, ch, evicted, dlqVars, lockVars,
                 consumerVars, flushVars, entries, faults>>

(* Redis fails during this, with or without the effect of each command.     *)
CountFailureFails(p) ==
  /\ Fault
  /\ replay[p] = "failed"
  /\ \/ failures' \in {failures, failures + 1} /\ circuit' = circuit
     \/ /\ failures + 1 >= Threshold
        /\ circuit' = "open" /\ failures' \in {failures + 1, 0}
  /\ ReplayTo(p, "release")
  /\ UNCHANGED <<streamVars, pel, ch, evicted, dlqVars, lockVars,
                 consumerVars, flushVars, entries>>

(* Mutant: a plain DEL of the lock's key.                                   *)
ReleaseAnyones(p) == Free

(* The script deletes the lock only if it still holds p's id.               *)
Release(p) == IF lock = p THEN Free ELSE lock

EndReplay(p) ==
  /\ ReplayTo(p, "idle")
  /\ entries' = [entries EXCEPT ![p] = {}]
  /\ overran' = overran \ {p}

ReplayRelease(p) ==
  /\ replay[p] = "release"
  /\ lock' = Release(p)
  /\ EndReplay(p)
  /\ UNCHANGED <<streamVars, pel, ch, evicted, dlqVars, breakerVars,
                 consumerVars, flushVars, faults>>

ReplayReleaseFails(p) ==
  /\ Fault
  /\ replay[p] = "release"
  /\ lock' \in {lock, Release(p)}
  /\ EndReplay(p)
  /\ UNCHANGED <<streamVars, pel, ch, evicted, dlqVars, breakerVars,
                 consumerVars, flushVars>>
-----------------------------------------------------------------------------
(* Redis: the TTLs of the lock, of the circuit and of the failure count.    *)

(* A replay may outlive the 300 s of its lock: nothing extends it.          *)
LockOverrun(p) ==
  /\ Fault
  /\ lock = p /\ InReplay(p)
  /\ lock' = Free
  /\ overran' = overran \cup {p}
  /\ UNCHANGED <<streamVars, pel, ch, evicted, dlqVars, breakerVars,
                 consumerVars, flushVars, replayVars>>

(* Mutant: the lock is set without EX.                                      *)
LockWithoutTtl == FALSE /\ UNCHANGED vars

(* A lock whose holder crashed, or failed to release it.                    *)
LockExpire ==
  /\ lock # Free
  /\ \A p \in Procs : lock = p => ~InReplay(p)
  /\ lock' = Free
  /\ UNCHANGED <<streamVars, pel, ch, evicted, dlqVars, overran, breakerVars,
                 consumerVars, flushVars, replayVars, faults>>

CircuitExpire ==
  /\ circuit = "open"
  /\ circuit' = "closed"
  /\ UNCHANGED <<streamVars, pel, ch, evicted, dlqVars, lockVars, failures,
                 consumerVars, flushVars, replayVars, faults>>

FailuresExpire ==
  /\ failures > 0
  /\ failures' = 0
  /\ UNCHANGED <<streamVars, pel, ch, evicted, dlqVars, lockVars, circuit,
                 consumerVars, flushVars, replayVars, faults>>
-----------------------------------------------------------------------------
(* The life of a replica.                                                   *)

Crash(p) ==
  /\ Fault
  /\ Restart(p)
  /\ UNCHANGED <<streamVars, pel, ch, evicted, dlqVars, breakerVars>>

(* ShutdownService: the consumer first.  running turns false; a poll in     *)
(* progress may still deliver a page, and a claim run is not waited for.    *)
Shutdown(p) ==
  /\ Fault
  /\ mode[p] = "running"
  /\ mode' = [mode EXCEPT ![p] = "stopping"]
  /\ UNCHANGED <<streamVars, pel, ch, evicted, dlqVars, lockVars, breakerVars,
                 fiber, read, errors, flushVars, replayVars>>

(* The loop has ended: dlqService.stop cancels the replay timer.            *)
StopDlq(p) ==
  /\ mode[p] = "stopping" /\ fiber[p][Loop] = "idle"
  /\ mode' = [mode EXCEPT ![p] = "draining"]
  /\ UNCHANGED <<streamVars, pel, ch, evicted, dlqVars, lockVars, breakerVars,
                 fiber, read, errors, flushVars, replayVars, faults>>

(* FlushService.shutdown: the flush in progress has ended, one more runs.   *)
FinalFlush(p) ==
  /\ mode[p] = "draining" /\ replay[p] = "idle" /\ phase[p] = "idle"
  /\ mode' = [mode EXCEPT ![p] = "exiting"]
  /\ IF buffer[p] = {} THEN UNCHANGED flushVars ELSE StartFlush(p)
  /\ UNCHANGED <<streamVars, pel, ch, evicted, dlqVars, lockVars, breakerVars,
                 fiber, read, errors, replayVars, faults>>

(* The process ends, whatever a claim run has added since, and is replaced. *)
Exit(p) ==
  /\ mode[p] = "exiting" /\ phase[p] = "idle"
  /\ Restart(p)
  /\ UNCHANGED <<streamVars, pel, ch, evicted, dlqVars, breakerVars, faults>>
-----------------------------------------------------------------------------
Consume(p) ==
  \/ Poll(p) \/ Drained(p) \/ Deliver(p) \/ PollEmpty(p)
  \/ \E f \in Fibers :
       \/ RejectInvalid(p, f) \/ RejectFails(p, f) \/ ReadFails(p, f)
       \/ \E failed \in SUBSET read[p][f] : Buffer(p, f, failed)
  \/ \E c \in Claimers : \E page \in SUBSET pel : Claim(p, c, page)

Flush(p) ==
  \/ FlushTick(p) \/ WriteOk(p) \/ WriteFails(p) \/ AckBatch(p) \/ AckFails(p)
  \/ MoveToDlq(p) \/ MoveToDlqFails(p)

Replay(p) ==
  \/ ReplayStart(p) \/ ReplayAcquire(p) \/ ReplayAcquireFails(p) \/ ReplayRead(p)
  \/ ReplayWrite(p) \/ ReplayDelete(p) \/ ReplayReset(p) \/ ReplayFails(p)
  \/ CountFailure(p) \/ CountFailureFails(p) \/ ReplayRelease(p) \/ ReplayReleaseFails(p)

Lifecycle(p) == Crash(p) \/ Shutdown(p) \/ StopDlq(p) \/ FinalFlush(p) \/ Exit(p)

Next ==
  \/ Produce
  \/ \E p \in Procs : Consume(p) \/ Flush(p) \/ Replay(p) \/ Lifecycle(p) \/ LockOverrun(p)
  \/ LockExpire \/ CircuitExpire \/ FailuresExpire

Spec == Init /\ [][Next]_vars
-----------------------------------------------------------------------------
(* Every event that ingest wrote is waiting for delivery, pending in the    *)
(* group, rejected, stored, in the dead-letter stream, or was evicted by a  *)
(* MAXLEN: no crash, failed call, shutdown or overrun lock loses one.       *)
Safe(m) == m \in ch \/ m \in Invalid \/ m \in evicted \/ InDlq(m)

NoLoss == \A m \in 1..produced : m >= NextUndelivered \/ m \in pel \/ Safe(m)

(* What makes NoLoss inductive: a batch is acknowledged only when it is     *)
(* stored or parked, and entries are deleted only when they are stored.     *)
FlushInv ==
  \A p \in Procs :
    /\ phase[p] = "ack" => batch[p] \subseteq ch
    /\ phase[p] = "dlqAck" => \A m \in batch[p] : Safe(m)

ReplayInv == \A p \in Procs : replay[p] = "delete" => EventsOf(p) \subseteq ch

LossInv == NoLoss /\ FlushInv /\ ReplayInv

(* Two replicas replay the dead-letter stream at the same time only if one  *)
(* of them has outlived the TTL of its lock.                                *)
ReplayExclusive ==
  \A p, q \in Procs :
    p # q /\ InReplay(p) /\ InReplay(q) => p \in overran \/ q \in overran

(* Inductive: a replay that has not overrun its TTL holds the lock.         *)
LockInv == \A p \in Procs : InReplay(p) => p \in overran \/ lock = p

(* An entry leaves the dead-letter stream only when its event is stored, or *)
(* by MAXLEN: a replay never deletes what it failed to write.               *)
DlqKeepsUnstored ==
  [][\A e \in dlq \ dlq' : e.ev \in ch' \/ e.ev \in evicted']_vars

(* The pipeline implements Delivery: an accepted event stays accepted until *)
(* it is stored, rejected or evicted, and stored and rejected are final.    *)
(* Delivery has no status "lost".                                           *)
StatusOf(m) ==
  IF m > produced THEN "unsent"
  ELSE IF m \in ch THEN "stored"
  ELSE IF m \in evicted THEN "evicted"
  ELSE IF m >= NextUndelivered \/ m \in pel \/ InDlq(m) THEN "accepted"
  ELSE IF m \in Invalid THEN "rejected"
  ELSE "lost"

Abstract == INSTANCE Delivery
              WITH Events <- Msgs, Malformed <- Invalid,
                   status <- [m \in Msgs |-> StatusOf(m)]

ImplementsDelivery == Abstract!Spec

(* What makes the refinement inductive, with LossInv: past a fiber's page   *)
(* only valid events travel, and nothing appears that ingest did not write. *)
Good == 1..produced \ Invalid

Origins ==
  /\ ch \subseteq Good /\ evicted \subseteq 1..produced
  /\ \A e \in dlq : e.ev \in Good
  /\ \A p \in Procs :
       /\ buffer[p] \subseteq Good /\ batch[p] \subseteq Good
       /\ \A e \in entries[p] : e.ev \in Good
       /\ \A f \in Fibers : read[p][f] \subseteq 1..produced
-----------------------------------------------------------------------------
(* What the event loop and Redis' clocks guarantee: an await whose call     *)
(* does not fail completes, timers fire, TTLs pass.  A pending entry grows  *)
(* old enough for XAUTOCLAIM whenever no fiber claims it (SF: claim runs    *)
(* come and go).  Faults need no fairness: they may, and finally do, stop.  *)
Fairness ==
  /\ \A p \in Procs :
       /\ WF_vars(Poll(p)) /\ WF_vars(Drained(p)) /\ WF_vars(Deliver(p)) /\ WF_vars(PollEmpty(p))
       /\ \A f \in Fibers :
            WF_vars(RejectInvalid(p, f)) /\ WF_vars(Buffer(p, f, {}))
       /\ WF_vars(FlushTick(p)) /\ WF_vars(WriteOk(p)) /\ WF_vars(AckBatch(p))
       /\ WF_vars(MoveToDlq(p))
       /\ WF_vars(ReplayStart(p)) /\ WF_vars(ReplayAcquire(p)) /\ WF_vars(ReplayRead(p))
       /\ WF_vars(ReplayWrite(p)) /\ WF_vars(ReplayDelete(p)) /\ WF_vars(ReplayReset(p))
       /\ WF_vars(CountFailure(p)) /\ WF_vars(ReplayRelease(p))
       /\ WF_vars(StopDlq(p)) /\ WF_vars(FinalFlush(p)) /\ WF_vars(Exit(p))
       /\ \A c \in Claimers : \A m \in Msgs :
            SF_vars(\E page \in SUBSET pel : m \in page /\ Claim(p, c, page))
  /\ WF_vars(LockExpire) /\ WF_vars(CircuitExpire)

FairSpec == Spec /\ Fairness

(* Once faults stop, every event that ingest wrote gets its fate: nothing   *)
(* stays in a buffer, in the PEL or in the dead-letter stream for ever.     *)
EverySettles ==
  \A m \in Msgs :
    m <= produced ~> StatusOf(m) \in {"stored", "rejected", "evicted"}
=============================================================================
