------------------------- MODULE PipelineRefinement -------------------------
(* EventPipeline implements Delivery, for every value of the constants.     *)
EXTENDS EventPipelineProofs

(* Ingest only adds: what was written, and what was valid, stays so.        *)
LEMMA WrittenGrows ==
  ASSUME TypeOK, [Next]_vars
  PROVE  /\ produced \in Nat /\ produced' \in Nat /\ produced <= produced'
         /\ Good \subseteq Good' /\ 1..produced \subseteq (1..produced)'
<1>1. produced \in Nat
  BY SizesAssumption DEF TypeOK, StreamType
<1>2. CASE Produce
  BY <1>1, <1>2 DEF Produce, Good
<1>3. CASE UNCHANGED produced
  BY <1>1, <1>3 DEF Good
<1>4. UNCHANGED streamVars \/ (\E p \in Procs : Deliver(p)) => UNCHANGED produced
  BY DEF streamVars, Deliver
<1> QED
  BY <1>2, <1>3, <1>4, StreamStep

(* A fiber reads only what ingest wrote.                                    *)
LEMMA ReadOrigin ==
  ASSUME TypeOK, Origins, [Next]_vars, NEW p \in Procs, NEW f \in Fibers
  PROVE  read'[p][f] \subseteq 1..produced
<1> DEFINE Written == read'[p][f] \subseteq 1..produced
<1> USE DEF TypeOK, ConsumerType, StreamType
<1>1. UNCHANGED read => Written
  BY DEF Origins
<1>2. ASSUME NEW q \in Procs, NEW g \in Fibers, NEW S \in SUBSET (1..produced),
             read' = [read EXCEPT ![q][g] = S]
      PROVE  Written
  BY <1>2 DEF Origins
<1>3. ASSUME NEW q \in Procs, Restart(q) PROVE Written
  BY <1>3 DEF Restart, NoReads, Origins
<1>4. ASSUME NEW q \in Procs, NEW g \in Fibers, Throw(q, g) PROVE Written
  <2>1. {} \in SUBSET (1..produced)
    OBVIOUS
  <2>2. Restart(q) \/ read' = [read EXCEPT ![q][g] = {}]
    BY <1>4 DEF Throw
  <2> QED
    BY <1>2, <1>3, <2>1, <2>2
<1>5. ASSUME NEW q \in Procs, Consume(q) PROVE Written
  <2>1. CASE Deliver(q)
    <3> DEFINE last == IF NextUndelivered + ReadCount - 1 < produced
                       THEN NextUndelivered + ReadCount - 1 ELSE produced
    <3>1. NextUndelivered \in Nat \ {0} /\ last \in Nat /\ last <= produced
          /\ produced \in Nat
      BY SizesAssumption DEF NextUndelivered
    <3> HIDE DEF last
    <3>2. \A m \in NextUndelivered..last : m \in 1..produced
      BY <3>1
    <3> USE DEF last
    <3>3. read' = [read EXCEPT ![q][Loop] = NextUndelivered..last] /\ Loop \in Fibers
      BY <2>1 DEF Deliver, Fibers
    <3> QED
      BY <1>2, <2>1, <3>2, <3>3
  <2>2. ASSUME NEW g \in Fibers, RejectInvalid(q, g) PROVE Written
    <3>1. read[q][g] \ Invalid \in SUBSET (1..produced)
      BY DEF Origins
    <3> QED
      BY <1>2, <2>2, <3>1 DEF RejectInvalid
  <2>3. ASSUME NEW g \in Fibers, RejectFails(q, g) \/ ReadFails(q, g) PROVE Written
    BY <1>4, <2>3 DEF RejectFails, ReadFails
  <2>4. ASSUME NEW g \in Fibers, NEW failed \in SUBSET read[q][g], Buffer(q, g, failed)
        PROVE  Written
    <3>1. {} \in SUBSET (1..produced)
      OBVIOUS
    <3> QED
      BY <1>2, <2>4, <3>1 DEF Buffer
  <2>5. ASSUME NEW c \in Claimers, NEW page \in SUBSET pel, Claim(q, c, page)
        PROVE  Written
    <3>1. page \ (page \cap (1..trimmedTo)) \in SUBSET (1..produced)
      BY SizesAssumption
    <3> QED
      BY <1>2, <2>5, <3>1 DEF Claim, Fibers
  <2>6. Poll(q) \/ Drained(q) \/ PollEmpty(q) => Written
    BY <1>1 DEF Poll, Drained, PollEmpty
  <2> QED
    BY <1>5, <2>1, <2>2, <2>3, <2>4, <2>5, <2>6 DEF Consume
<1>6. ASSUME NEW q \in Procs, Flush(q) PROVE Written
  BY <1>1, <1>6 DEF Flush, FlushTick, WriteOk, WriteFails, AckBatch, AckFails, MoveToDlq,
     MoveToDlqFails, EndFlush, consumerVars
<1>7. ASSUME NEW q \in Procs, Replay(q) PROVE Written
  BY <1>1, <1>7 DEF Replay, ReplayStart, ReplayAcquire, ReplayAcquireFails, ReplayRead,
     ReplayWrite, ReplayDelete, ReplayReset, ReplayFails, CountFailure,
     CountFailureFails, ReplayRelease, ReplayReleaseFails, consumerVars
<1>8. ASSUME NEW q \in Procs, Lifecycle(q) \/ LockOverrun(q) PROVE Written
  BY <1>1, <1>3, <1>8 DEF Lifecycle, Crash, Shutdown, StopDlq, FinalFlush, Exit,
     LockOverrun, consumerVars
<1>9. Produce \/ LockExpire \/ CircuitExpire \/ FailuresExpire \/ UNCHANGED vars => Written
  BY <1>1 DEF Produce, LockExpire, CircuitExpire, FailuresExpire, vars, consumerVars
<1> QED
  BY <1>5, <1>6, <1>7, <1>8, <1>9 DEF Next

(* Only valid events enter a buffer, and only a buffer becomes a batch.     *)
LEMMA BufferOrigin ==
  ASSUME TypeOK, Origins, [Next]_vars, NEW p \in Procs
  PROVE  buffer'[p] \subseteq Good /\ batch'[p] \subseteq Good
<1> DEFINE Valid == buffer'[p] \subseteq Good /\ batch'[p] \subseteq Good
<1> USE DEF TypeOK, FlushType
<1>1. UNCHANGED <<buffer, batch>> => Valid
  BY DEF Origins
<1>2. ASSUME NEW q \in Procs, Restart(q) PROVE Valid
  BY <1>2 DEF Restart, Origins
<1>3. ASSUME NEW q \in Procs, StartFlush(q) PROVE Valid
  BY <1>3 DEF StartFlush, Origins
<1>4. ASSUME NEW q \in Procs, EndFlush(q) PROVE Valid
  BY <1>4 DEF EndFlush, Origins
<1>5. ASSUME NEW q \in Procs, NEW f \in Fibers, Throw(q, f) PROVE Valid
  BY <1>1, <1>2, <1>5 DEF Throw, flushVars
<1>6. ASSUME NEW q \in Procs, Consume(q) PROVE Valid
  <2>1. ASSUME NEW f \in Fibers, RejectFails(q, f) \/ ReadFails(q, f) PROVE Valid
    BY <1>5, <2>1 DEF RejectFails, ReadFails
  <2>2. ASSUME NEW f \in Fibers, NEW failed \in SUBSET read[q][f], Buffer(q, f, failed)
        PROVE  Valid
    <3> DEFINE buf == buffer[q] \cup (read[q][f] \ failed)
    <3>1. read[q][f] \subseteq 1..produced /\ read[q][f] \cap Invalid = {}
      BY <2>2 DEF Buffer, Origins
    <3>2. buf \subseteq Good
      BY <3>1 DEF Origins, Good
    <3>3. \/ batch' = [batch EXCEPT ![q] = buf] /\ buffer' = [buffer EXCEPT ![q] = {}]
          \/ buffer' = [buffer EXCEPT ![q] = buf] /\ UNCHANGED batch
      BY <2>2 DEF Buffer
    <3> HIDE DEF buf
    <3> QED
      BY <3>2, <3>3 DEF Origins
  <2> QED
    BY <1>1, <1>6, <2>1, <2>2 DEF Consume, Poll, Drained, Deliver, PollEmpty,
       RejectInvalid, Claim, flushVars
<1>7. ASSUME NEW q \in Procs, Flush(q) PROVE Valid
  <2>1. CASE FlushTick(q)
    BY <1>3, <2>1 DEF FlushTick
  <2>2. CASE WriteOk(q) \/ WriteFails(q) \/ MoveToDlq(q)
    BY <1>1, <2>2 DEF WriteOk, WriteFails, MoveToDlq
  <2>3. CASE AckBatch(q) \/ MoveToDlqFails(q)
    BY <1>4, <2>3 DEF AckBatch, MoveToDlqFails
  <2>4. CASE AckFails(q)
    BY <1>1, <1>4, <2>4 DEF AckFails
  <2> QED
    BY <1>7, <2>1, <2>2, <2>3, <2>4 DEF Flush
<1>8. ASSUME NEW q \in Procs, Replay(q) PROVE Valid
  BY <1>1, <1>8 DEF Replay, ReplayStart, ReplayAcquire, ReplayAcquireFails, ReplayRead,
     ReplayWrite, ReplayDelete, ReplayReset, ReplayFails, CountFailure,
     CountFailureFails, ReplayRelease, ReplayReleaseFails, flushVars
<1>9. ASSUME NEW q \in Procs, Lifecycle(q) \/ LockOverrun(q) PROVE Valid
  BY <1>1, <1>2, <1>3, <1>9 DEF Lifecycle, Crash, Shutdown, StopDlq, FinalFlush, Exit,
     LockOverrun, flushVars
<1>10. Produce \/ LockExpire \/ CircuitExpire \/ FailuresExpire \/ UNCHANGED vars => Valid
  BY <1>1 DEF Produce, LockExpire, CircuitExpire, FailuresExpire, vars, flushVars
<1> QED
  BY <1>6, <1>7, <1>8, <1>9, <1>10 DEF Next

(* The dead-letter stream, and what a replay reads of it, holds valid       *)
(* events only.                                                             *)
LEMMA AddToDlqOrigin ==
  ASSUME Origins, NEW evs \in SUBSET Good, produced \in Nat, AddToDlq(evs)
  PROVE  (\A e \in dlq' : e.ev \in Good) /\ evicted' \subseteq 1..produced
<1> DEFINE all == dlq \cup {[round |-> dlqRound + 1, ev |-> m] : m \in evs}
<1>1. \A e \in all : e.ev \in Good
  BY DEF Origins
<1>2. PICK kept \in SUBSET all :
        dlq' = kept /\ evicted' = evicted \cup ({x.ev : x \in all \ kept} \ ch)
  BY DEF AddToDlq
<1> HIDE DEF all
<1> QED
  BY <1>1, <1>2 DEF Origins, Good

LEMMA StoreOrigin ==
  ASSUME TypeOK, Origins, [Next]_vars
  PROVE  /\ ch' \subseteq Good /\ evicted' \subseteq (1..produced)'
         /\ \A e \in dlq' : e.ev \in Good
<1> DEFINE Valid == /\ ch' \subseteq Good /\ evicted' \subseteq (1..produced)'
                    /\ \A e \in dlq' : e.ev \in Good
<1>1. 1..produced \subseteq (1..produced)' /\ produced \in Nat
  BY WrittenGrows
<1>2. UNCHANGED <<evicted, dlq>> /\ ch' \subseteq Good => Valid
  BY <1>1 DEF Origins
<1>3. UNCHANGED <<ch, dlq>> /\ evicted' \subseteq (1..produced)' => Valid
  BY DEF Origins
<1>4. UNCHANGED <<ch, evicted>> /\ dlq' \subseteq dlq => Valid
  BY <1>1 DEF Origins
<1>5. Produce => Valid
  <2> SUFFICES ASSUME Produce PROVE evicted' \subseteq (1..produced)'
    BY <1>3 DEF Produce, dlqVars
  <2>1. /\ trimmedTo' \in Nat /\ trimmedTo' <= produced' /\ lastDelivered \in Nat
        /\ produced' \in Nat
    BY ProduceStep DEF TypeOK
  <2>2. \A m \in lastDelivered + 1 .. trimmedTo' : m \in 1..produced'
    BY <2>1
  <2> QED
    BY <1>1, <2>2 DEF Produce, Origins
<1>6. ASSUME NEW p \in Procs, Consume(p) PROVE Valid
  <2>1. UNCHANGED <<ch, dlq>>
    BY <1>6 DEF Consume, Poll, Drained, Deliver, PollEmpty, RejectInvalid, RejectFails,
       ReadFails, Buffer, Claim, dlqVars
  <2>2. ASSUME NEW c \in Claimers, NEW page \in SUBSET pel, Claim(p, c, page)
        PROVE  evicted' \subseteq 1..produced
    BY <2>2, SizesAssumption DEF Claim, Origins, TypeOK, StreamType
  <2>3. (~\E c \in Claimers : \E page \in SUBSET pel : Claim(p, c, page))
        => UNCHANGED evicted
    BY <1>6 DEF Consume, Poll, Drained, Deliver, PollEmpty, RejectInvalid, RejectFails,
       ReadFails, Buffer
  <2> QED
    BY <1>1, <1>3, <2>1, <2>2, <2>3 DEF Origins
<1>7. ASSUME NEW p \in Procs, Flush(p) PROVE Valid
  <2>1. CASE WriteOk(p) \/ WriteFails(p)
    BY <1>2, <2>1 DEF WriteOk, WriteFails, dlqVars, Origins
  <2>2. CASE MoveToDlq(p) \/ MoveToDlqFails(p)
    <3>1. \E evs \in SUBSET Good : AddToDlq(evs)
      BY <2>2 DEF MoveToDlq, MoveToDlqFails, Origins
    <3>2. ch' = ch
      BY <2>2 DEF MoveToDlq, MoveToDlqFails
    <3> QED
      BY <1>1, <3>1, <3>2, AddToDlqOrigin DEF Origins
  <2>3. CASE FlushTick(p) \/ AckBatch(p) \/ AckFails(p)
    BY <1>4, <2>3 DEF FlushTick, AckBatch, AckFails, dlqVars
  <2> QED
    BY <1>7, <2>1, <2>2, <2>3 DEF Flush
<1>8. ASSUME NEW p \in Procs, Replay(p) PROVE Valid
  <2>1. EventsOf(p) \subseteq Good
    BY DEF Origins, EventsOf
  <2>2. UNCHANGED evicted
    BY <1>8 DEF Replay, ReplayStart, ReplayAcquire, ReplayAcquireFails, ReplayRead,
       ReplayWrite, ReplayDelete, ReplayReset, ReplayFails, CountFailure,
       CountFailureFails, ReplayRelease, ReplayReleaseFails
  <2>3. (dlq' = dlq /\ ch' \subseteq ch \cup EventsOf(p)) \/ (ch' = ch /\ dlq' \subseteq dlq)
    BY <1>8 DEF Replay, ReplayStart, ReplayAcquire, ReplayAcquireFails, ReplayRead,
       ReplayWrite, ReplayDelete, ReplayReset, ReplayFails, CountFailure,
       CountFailureFails, ReplayRelease, ReplayReleaseFails, dlqVars
  <2> QED
    BY <1>2, <1>4, <2>1, <2>2, <2>3 DEF Origins
<1>9. ASSUME NEW p \in Procs, Lifecycle(p) \/ LockOverrun(p) PROVE Valid
  BY <1>4, <1>9 DEF Lifecycle, Crash, Shutdown, StopDlq, FinalFlush, Exit, LockOverrun,
     dlqVars
<1>10. LockExpire \/ CircuitExpire \/ FailuresExpire \/ UNCHANGED vars => Valid
  BY <1>4 DEF LockExpire, CircuitExpire, FailuresExpire, vars, dlqVars
<1> QED
  BY <1>5, <1>6, <1>7, <1>8, <1>9, <1>10 DEF Next

LEMMA EntriesOrigin ==
  ASSUME TypeOK, Origins, [Next]_vars, NEW p \in Procs
  PROVE  \A e \in entries'[p] : e.ev \in Good
<1> DEFINE Valid == \A e \in entries'[p] : e.ev \in Good
<1> USE DEF TypeOK, ReplayType
<1>1. UNCHANGED entries => Valid
  BY DEF Origins
<1>2. ASSUME NEW q \in Procs, Restart(q) PROVE Valid
  BY <1>2 DEF Restart, Origins
<1>3. ASSUME NEW q \in Procs, NEW f \in Fibers, Throw(q, f) PROVE Valid
  BY <1>1, <1>2, <1>3 DEF Throw, replayVars
<1>4. ASSUME NEW q \in Procs, Consume(q) PROVE Valid
  <2>1. ASSUME NEW f \in Fibers, RejectFails(q, f) \/ ReadFails(q, f) PROVE Valid
    BY <1>3, <2>1 DEF RejectFails, ReadFails
  <2> QED
    BY <1>1, <1>4, <2>1 DEF Consume, Poll, Drained, Deliver, PollEmpty, RejectInvalid,
       Buffer, Claim, replayVars
<1>5. ASSUME NEW q \in Procs, Flush(q) PROVE Valid
  BY <1>1, <1>5 DEF Flush, FlushTick, WriteOk, WriteFails, AckBatch, AckFails, MoveToDlq,
     MoveToDlqFails, replayVars
<1>6. ASSUME NEW q \in Procs, Replay(q) PROVE Valid
  <2>1. CASE ReplayRead(q)
    BY <2>1 DEF ReplayRead, Origins
  <2>2. CASE ReplayRelease(q) \/ ReplayReleaseFails(q)
    BY <2>2 DEF ReplayRelease, ReplayReleaseFails, EndReplay, Origins
  <2> QED
    BY <1>1, <1>6, <2>1, <2>2 DEF Replay, ReplayStart, ReplayAcquire, ReplayAcquireFails,
       ReplayWrite, ReplayDelete, ReplayReset, ReplayFails, CountFailure,
       CountFailureFails
<1>7. ASSUME NEW q \in Procs, Lifecycle(q) \/ LockOverrun(q) PROVE Valid
  BY <1>1, <1>2, <1>7 DEF Lifecycle, Crash, Shutdown, StopDlq, FinalFlush, Exit,
     LockOverrun, replayVars
<1>8. Produce \/ LockExpire \/ CircuitExpire \/ FailuresExpire \/ UNCHANGED vars => Valid
  BY <1>1 DEF Produce, LockExpire, CircuitExpire, FailuresExpire, vars, replayVars
<1> QED
  BY <1>4, <1>5, <1>6, <1>7, <1>8 DEF Next

LEMMA OriginsInit == Init => Origins
  BY DEF Init, Origins, NoReads

LEMMA OriginsStep == TypeOK /\ Origins /\ [Next]_vars => Origins'
<1> SUFFICES ASSUME TypeOK, Origins, [Next]_vars PROVE Origins'
  OBVIOUS
<1>1. Good \subseteq Good' /\ 1..produced \subseteq (1..produced)'
  BY WrittenGrows
<1>2. /\ ch' \subseteq Good' /\ evicted' \subseteq (1..produced)'
      /\ \A e \in dlq' : e.ev \in Good'
  BY <1>1, StoreOrigin
<1>3. ASSUME NEW p \in Procs
      PROVE  /\ buffer'[p] \subseteq Good' /\ batch'[p] \subseteq Good'
             /\ \A e \in entries'[p] : e.ev \in Good'
             /\ \A f \in Fibers : read'[p][f] \subseteq (1..produced)'
  BY <1>1, BufferOrigin, EntriesOrigin, ReadOrigin
<1> QED
  BY <1>2, <1>3 DEF Origins
-----------------------------------------------------------------------------
(* The cursor of the group only moves forward, and what enters the PEL was  *)
(* beyond it.                                                               *)
LEMMA CursorGrows ==
  ASSUME TypeOK, [Next]_vars
  PROVE  NextUndelivered \in Nat /\ NextUndelivered' \in Nat
         /\ NextUndelivered <= NextUndelivered'
<1> USE DEF NextUndelivered
<1>1. trimmedTo \in Nat /\ lastDelivered \in Nat /\ produced \in Nat
  BY SizesAssumption DEF TypeOK, StreamType
<1>2. CASE Produce
  <2>1. trimmedTo' = trimmedTo \/ trimmedTo' \in trimmedTo..produced
    BY <1>2 DEF Produce
  <2>2. lastDelivered' = lastDelivered
    BY <1>2 DEF Produce
  <2> QED
    BY <1>1, <2>1, <2>2
<1>3. CASE UNCHANGED streamVars
  BY <1>1, <1>3 DEF streamVars
<1>4. ASSUME NEW p \in Procs, Deliver(p)
      PROVE  NextUndelivered' \in Nat /\ NextUndelivered <= NextUndelivered'
  <2>1. StreamType
    BY DEF TypeOK
  <2> QED
    BY <1>1, <1>4, <2>1, DeliverStep
<1> QED
  BY <1>1, <1>2, <1>3, <1>4, StreamStep

LEMMA PelStep ==
  ASSUME TypeOK, [Next]_vars, NEW m \in pel' \ pel
  PROVE  m >= NextUndelivered
<1>1. ASSUME NEW p \in Procs, Consume(p) PROVE m >= NextUndelivered
  <2>1. CASE Deliver(p)
    <3> DEFINE last == IF NextUndelivered + ReadCount - 1 < produced
                       THEN NextUndelivered + ReadCount - 1 ELSE produced
    <3>1. NextUndelivered \in Nat /\ last \in Nat
      BY CursorGrows, SizesAssumption DEF TypeOK, StreamType
    <3>2. pel' = pel \cup (NextUndelivered..last)
      BY <2>1 DEF Deliver
    <3> HIDE DEF last
    <3> QED
      BY <3>1, <3>2
  <2> QED
    BY <1>1, <2>1 DEF Consume, Poll, Drained, PollEmpty, RejectInvalid, RejectFails,
       ReadFails, Buffer, Claim
<1>2. ASSUME NEW p \in Procs, Flush(p) PROVE FALSE
  BY <1>2 DEF Flush, FlushTick, WriteOk, WriteFails, AckBatch, AckFails, MoveToDlq,
     MoveToDlqFails
<1>3. ASSUME NEW p \in Procs, Replay(p) PROVE FALSE
  BY <1>3 DEF Replay, ReplayStart, ReplayAcquire, ReplayAcquireFails, ReplayRead,
     ReplayWrite, ReplayDelete, ReplayReset, ReplayFails, CountFailure,
     CountFailureFails, ReplayRelease, ReplayReleaseFails
<1>4. ASSUME NEW p \in Procs, Lifecycle(p) \/ LockOverrun(p) PROVE FALSE
  BY <1>4 DEF Lifecycle, Crash, Shutdown, StopDlq, FinalFlush, Exit, LockOverrun
<1>5. Produce \/ LockExpire \/ CircuitExpire \/ FailuresExpire \/ UNCHANGED vars => FALSE
  BY DEF Produce, LockExpire, CircuitExpire, FailuresExpire, vars
<1> QED
  BY <1>1, <1>2, <1>3, <1>4, <1>5 DEF Next

(* MAXLEN evicts only what was not delivered, is pending, or is valid.      *)
LEMMA EvictedStep ==
  ASSUME TypeOK, Origins, [Next]_vars, NEW m \in evicted' \ evicted
  PROVE  m >= NextUndelivered \/ m \in pel \/ m \in Good
<1>1. CASE Produce
  <2>1. /\ lastDelivered \in Nat /\ trimmedTo \in Nat /\ trimmedTo' \in Nat
    BY <1>1, ProduceStep DEF TypeOK
  <2>2. m \in lastDelivered + 1 .. trimmedTo' /\ m > trimmedTo
    BY <1>1 DEF Produce
  <2> QED
    BY <2>1, <2>2 DEF NextUndelivered
<1>2. ASSUME NEW p \in Procs, Consume(p) PROVE m \in pel
  BY <1>2 DEF Consume, Poll, Drained, Deliver, PollEmpty, RejectInvalid, RejectFails,
     ReadFails, Buffer, Claim
<1>3. ASSUME NEW p \in Procs, Flush(p) PROVE m \in Good
  <2>1. \E evs \in SUBSET Good : AddToDlq(evs)
    BY <1>3 DEF Flush, FlushTick, WriteOk, WriteFails, AckBatch, AckFails, MoveToDlq,
       MoveToDlqFails, Origins
  <2>2. PICK evs \in SUBSET Good : AddToDlq(evs)
    BY <2>1
  <2> DEFINE all == dlq \cup {[round |-> dlqRound + 1, ev |-> n] : n \in evs}
  <2>3. \A e \in all : e.ev \in Good
    BY DEF Origins
  <2>4. evicted' \subseteq evicted \cup {x.ev : x \in all}
    BY <2>2 DEF AddToDlq
  <2> HIDE DEF all
  <2> QED
    BY <2>3, <2>4
<1>4. ASSUME NEW p \in Procs, Replay(p) PROVE FALSE
  BY <1>4 DEF Replay, ReplayStart, ReplayAcquire, ReplayAcquireFails, ReplayRead,
     ReplayWrite, ReplayDelete, ReplayReset, ReplayFails, CountFailure,
     CountFailureFails, ReplayRelease, ReplayReleaseFails
<1>5. ASSUME NEW p \in Procs, Lifecycle(p) \/ LockOverrun(p) PROVE FALSE
  BY <1>5 DEF Lifecycle, Crash, Shutdown, StopDlq, FinalFlush, Exit, LockOverrun
<1>6. LockExpire \/ CircuitExpire \/ FailuresExpire \/ UNCHANGED vars => FALSE
  BY DEF LockExpire, CircuitExpire, FailuresExpire, vars
<1> QED
  BY <1>1, <1>2, <1>3, <1>4, <1>5, <1>6 DEF Next
-----------------------------------------------------------------------------
(* Each status, and where one step may take it.                             *)
LEMMA UnsentStep ==
  ASSUME TypeOK, Origins, [Next]_vars, NEW m \in Msgs, m > produced
  PROVE  StatusOf(m)' \in {"unsent", "accepted"}
<1>1. CASE ~(m > produced')
  <2>1. produced \in Nat /\ m \in Nat
    BY SizesAssumption DEF TypeOK, StreamType, Msgs
  <2>2. Produce
    BY <1>1, <2>1, StreamStep DEF streamVars, Deliver
  <2>3. /\ m = produced + 1 /\ trimmedTo' \in Nat /\ trimmedTo' <= produced
        /\ lastDelivered' = lastDelivered /\ lastDelivered \in Nat
        /\ lastDelivered <= produced
    BY <1>1, <2>1, <2>2, ProduceStep DEF TypeOK
  <2>4. m >= NextUndelivered'
    BY <1>1, <2>1, <2>2, ProduceStep DEF NextUndelivered, TypeOK
  <2>5. m \notin ch'
    BY <2>1, <2>2, <2>3 DEF Produce, Origins, Good
  <2>6. m \notin evicted'
    <3>1. \A n \in lastDelivered + 1 .. trimmedTo' : n # m
      BY <2>1, <2>3
    <3>2. \A n \in evicted : n # m
      BY <2>1, <2>3 DEF Origins
    <3> QED
      BY <2>2, <3>1, <3>2 DEF Produce
  <2> QED
    BY <2>4, <2>5, <2>6 DEF StatusOf
<1> QED
  BY <1>1 DEF StatusOf

LEMMA SentStep ==
  ASSUME TypeOK, LossInv, Origins, [Next]_vars, NEW m \in Msgs, ~(m > produced)
  PROVE  /\ m \in 1..produced /\ m \in (1..produced)' /\ ~(m > produced')
         /\ (m >= NextUndelivered \/ m \in pel \/ Safe(m))
         /\ (m >= NextUndelivered \/ m \in pel \/ Safe(m))'
<1>1. m \in 1..produced /\ m \in (1..produced)' /\ ~(m > produced')
  BY WrittenGrows DEF Msgs
<1> QED
  BY <1>1, NoLossStep DEF NoLoss, LossInv

LEMMA StoredStep ==
  ASSUME TypeOK, LossInv, Origins, [Next]_vars, NEW m \in Msgs, StatusOf(m) = "stored"
  PROVE  StatusOf(m)' = "stored"
<1>1. ~(m > produced) /\ m \in ch
  BY DEF StatusOf
<1> QED
  BY <1>1, SentStep, GrowsStep DEF Grows, StatusOf

LEMMA EvictedStatusStep ==
  ASSUME TypeOK, LossInv, Origins, [Next]_vars, NEW m \in Msgs, StatusOf(m) = "evicted"
  PROVE  StatusOf(m)' = "evicted" \/ (m \notin Invalid /\ StatusOf(m)' = "stored")
<1>1. ~(m > produced) /\ m \in evicted
  BY DEF StatusOf
<1>2. ~(m > produced') /\ m \in evicted'
  BY <1>1, SentStep, GrowsStep DEF Grows
<1>3. m \in ch' => m \notin Invalid
  BY StoreOrigin DEF Good
<1> QED
  BY <1>2, <1>3 DEF StatusOf

LEMMA AcceptedStep ==
  ASSUME TypeOK, LossInv, Origins, [Next]_vars, NEW m \in Msgs, StatusOf(m) = "accepted"
  PROVE  \/ StatusOf(m)' \in {"accepted", "evicted"}
         \/ m \notin Invalid /\ StatusOf(m)' = "stored"
         \/ m \in Invalid /\ StatusOf(m)' = "rejected"
<1>1. ~(m > produced)
  BY DEF StatusOf
<1>2. ~(m > produced') /\ (m >= NextUndelivered \/ m \in pel \/ Safe(m))'
  BY <1>1, SentStep
<1>3. m \in ch' => m \notin Invalid
  BY StoreOrigin DEF Good
<1> QED
  BY <1>2, <1>3 DEF StatusOf, Safe

LEMMA RejectedStep ==
  ASSUME TypeOK, LossInv, Origins, [Next]_vars, NEW m \in Msgs, StatusOf(m) = "rejected"
  PROVE  StatusOf(m)' = "rejected"
<1>1. /\ ~(m > produced) /\ m \in Invalid /\ m \notin Good
      /\ m \notin evicted /\ ~(m >= NextUndelivered) /\ m \notin pel
  BY DEF StatusOf, Good
<1>2. ~(m > produced')
  BY <1>1, SentStep
<1>3. m \notin evicted' /\ m \notin pel'
  BY <1>1, EvictedStep, PelStep
<1>4. ~(m >= NextUndelivered')
  BY <1>1, CursorGrows DEF Msgs
<1>5. m \notin ch' /\ ~InDlq(m)'
  BY <1>1, StoreOrigin DEF InDlq
<1> QED
  BY <1>1, <1>2, <1>3, <1>4, <1>5 DEF StatusOf

(* No event is ever lost, so every status is one of Delivery.               *)
LEMMA StatusKnown ==
  ASSUME TypeOK, LossInv, Origins, NEW m \in Msgs
  PROVE  StatusOf(m) \in {"unsent", "accepted", "stored", "rejected", "evicted"}
<1>1. CASE ~(m > produced)
  <2>1. m \in 1..produced
    BY <1>1, SizesAssumption DEF Msgs, TypeOK, StreamType
  <2> QED
    BY <2>1 DEF LossInv, NoLoss, Safe, StatusOf
<1> QED
  BY <1>1 DEF StatusOf

LEMMA StatusStep ==
  ASSUME TypeOK, LossInv, Origins, [Next]_vars, NEW m \in Msgs
  PROVE  /\ StatusOf(m)' \in Abstract!Status
         /\ StatusOf(m)' # StatusOf(m) =>
              \/ StatusOf(m) = "unsent" /\ StatusOf(m)' = "accepted"
              \/ /\ StatusOf(m) = "accepted"
                 /\ \/ StatusOf(m)' = "evicted"
                    \/ m \notin Invalid /\ StatusOf(m)' = "stored"
                    \/ m \in Invalid /\ StatusOf(m)' = "rejected"
              \/ StatusOf(m) = "evicted" /\ m \notin Invalid /\ StatusOf(m)' = "stored"
<1> USE DEF Abstract!Status
<1>1. CASE StatusOf(m) = "unsent"
  <2>1. m > produced
    BY <1>1 DEF StatusOf
  <2>2. StatusOf(m)' \in {"unsent", "accepted"}
    BY <2>1, UnsentStep
  <2> QED
    BY <1>1, <2>2
<1>2. CASE StatusOf(m) = "accepted"
  BY <1>2, AcceptedStep
<1>3. CASE StatusOf(m) = "stored"
  BY <1>3, StoredStep
<1>4. CASE StatusOf(m) = "evicted"
  BY <1>4, EvictedStatusStep
<1>5. CASE StatusOf(m) = "rejected"
  BY <1>5, RejectedStep
<1> QED
  BY <1>1, <1>2, <1>3, <1>4, <1>5, StatusKnown

(* A step of the pipeline is a step of Delivery, or changes no status.      *)
LEMMA RefineStep ==
  TypeOK /\ LossInv /\ Origins /\ [Next]_vars
    => [Abstract!Next]_([m \in Msgs |-> StatusOf(m)])
<1> SUFFICES ASSUME TypeOK, LossInv, Origins, [Next]_vars PROVE Abstract!Next
  OBVIOUS
<1>1. ([m \in Msgs |-> StatusOf(m)])' = [m \in Msgs |-> StatusOf(m)']
  BY DEF Msgs
<1>2. ([m \in Msgs |-> StatusOf(m)])' \in [Msgs -> Abstract!Status]
  BY <1>1, StatusStep
<1>3. ASSUME NEW m \in Msgs, StatusOf(m)' # StatusOf(m)
      PROVE  StatusOf(m)' \in Abstract!Fate(m)
  BY <1>3, StatusStep DEF Abstract!Fate
<1> QED
  BY <1>1, <1>2, <1>3 DEF Abstract!Next

LEMMA RefineInit == Init => Abstract!Init
<1> SUFFICES ASSUME Init, NEW m \in Msgs PROVE StatusOf(m) = "unsent"
  BY DEF Abstract!Init
<1> QED
  BY SizesAssumption DEF Init, StatusOf, Msgs

(* The pipeline implements Delivery: for any number of replicas, claim      *)
(* runs, events and faults, an event that ingest accepted is finally only   *)
(* stored, rejected or evicted, and it never leaves those states for "lost".*)
THEOREM PipelineImplementsDelivery == Spec => ImplementsDelivery
<1>1. TypeOK /\ LossInv /\ [Next]_vars => LossInv'
  BY NoLossStep, FlushStep, ReplayStep DEF LossInv
<1> QED
  BY <1>1, LossInit, OriginsInit, OriginsStep, RefineInit, RefineStep, TypeCorrect, PTL
  DEF Spec, ImplementsDelivery, Abstract!Spec
=============================================================================
