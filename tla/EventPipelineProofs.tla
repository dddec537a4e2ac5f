------------------------- MODULE EventPipelineProofs -------------------------
(* Theorems about EventPipeline for every number of replicas, claim runs,   *)
(* events and faults, and every size of the buffers and batches.            *)
EXTENDS EventPipeline, TLAPS

(* What the operators that several actions share do to the types.           *)
LEMMA ResumeType ==
  ASSUME ConsumerType, NEW p \in Procs, NEW f \in Fibers, NEW await \in Awaits,
         Resume(p, f, await)
  PROVE  fiber' \in [Procs -> [Fibers -> Awaits]]
  BY DEF ConsumerType, Resume

LEMMA ReadType ==
  ASSUME ConsumerType, NEW p \in Procs, NEW f \in Fibers, NEW S \in SUBSET Msgs
  PROVE  [read EXCEPT ![p][f] = S] \in [Procs -> [Fibers -> SUBSET Msgs]]
  BY DEF ConsumerType

LEMMA RestartType ==
  ASSUME LockType, ConsumerType, FlushType, ReplayType, NEW p \in Procs, Restart(p)
  PROVE  LockType' /\ ConsumerType' /\ FlushType' /\ ReplayType'
<1>1. LockType'
  BY DEF Restart, LockType
<1>2. ConsumerType'
  <2>1. NoFibers \in [Fibers -> Awaits] /\ NoReads \in [Fibers -> SUBSET Msgs]
    BY DEF NoFibers, NoReads, Awaits
  <2> QED
    BY <2>1 DEF Restart, ConsumerType, Modes
<1>3. FlushType' /\ ReplayType'
  BY DEF Restart, FlushType, ReplayType, Phases, Replays
<1> QED
  BY <1>1, <1>2, <1>3

LEMMA ThrowType ==
  ASSUME LockType, ConsumerType, FlushType, ReplayType,
         NEW p \in Procs, NEW f \in Fibers, Throw(p, f)
  PROVE  LockType' /\ ConsumerType' /\ FlushType' /\ ReplayType'
<1>1. CASE f = Loop /\ errors[p] + 1 >= MaxErrors
  BY <1>1, RestartType DEF Throw
<1>2. CASE ~(f = Loop /\ errors[p] + 1 >= MaxErrors)
  <2>1. fiber' \in [Procs -> [Fibers -> Awaits]]
    BY <1>2, ResumeType DEF Throw, Awaits
  <2>2. read' \in [Procs -> [Fibers -> SUBSET Msgs]]
    <3>1. {} \in SUBSET Msgs
      OBVIOUS
    <3>2. [read EXCEPT ![p][f] = {}] \in [Procs -> [Fibers -> SUBSET Msgs]]
      BY <3>1, ReadType
    <3> QED
      BY <1>2, <3>2 DEF Throw
  <2>3. errors' \in [Procs -> Nat]
    BY <1>2 DEF Throw, ConsumerType
  <2> QED
    BY <1>2, <2>1, <2>2, <2>3
    DEF Throw, LockType, ConsumerType, FlushType, ReplayType, lockVars, flushVars, replayVars
<1> QED
  BY <1>1, <1>2

LEMMA EndFlushType ==
  ASSUME ConsumerType, FlushType, NEW p \in Procs, EndFlush(p)
  PROVE  ConsumerType' /\ FlushType'
<1>1. fiber' \in [Procs -> [Fibers -> Awaits]]
  BY DEF ConsumerType, EndFlush, Awaits
<1> QED
  BY <1>1 DEF EndFlush, GoTo, ConsumerType, FlushType, Phases

LEMMA AddToDlqType ==
  ASSUME StoreType, DlqType, NEW evs \in SUBSET Msgs, AddToDlq(evs)
  PROVE  DlqType' /\ evicted' \subseteq Msgs
  BY DEF AddToDlq, StoreType, DlqType, DlqEntry

LEMMA TypeInit == Init => TypeOK
<1> SUFFICES ASSUME Init PROVE TypeOK
  OBVIOUS
<1>1. StreamType /\ StoreType /\ DlqType /\ LockType /\ BreakerType /\ faults \in 0..MaxFaults
  BY SizesAssumption DEF Init, StreamType, StoreType, DlqType, LockType, BreakerType
<1>2. ConsumerType
  BY DEF Init, ConsumerType, NoFibers, NoReads, Modes, Awaits
<1>3. FlushType /\ ReplayType
  BY DEF Init, FlushType, ReplayType, Phases, Replays
<1> QED
  BY <1>1, <1>2, <1>3 DEF TypeOK

LEMMA TypeStep == TypeOK /\ [Next]_vars => TypeOK'
<1> SUFFICES ASSUME TypeOK, [Next]_vars PROVE TypeOK'
  OBVIOUS
<1> USE SizesAssumption, NamesAssumption
<1> USE DEF TypeOK, StreamType, StoreType, DlqType, LockType, BreakerType, ConsumerType,
            FlushType, ReplayType, streamVars, dlqVars, lockVars, breakerVars,
            consumerVars, flushVars, replayVars
<1>1. CASE Produce
  <2>1. /\ produced' = produced + 1 /\ produced' \in 0..MaxMsgs
        /\ trimmedTo' \in 0..produced' /\ UNCHANGED <<lastDelivered, pel>>
    <3>1. produced' = produced + 1 /\ produced < MaxMsgs /\ UNCHANGED <<lastDelivered, pel>>
      BY <1>1 DEF Produce
    <3>2. trimmedTo' = trimmedTo \/ trimmedTo' \in trimmedTo..produced
      BY <1>1 DEF Produce
    <3> QED
      BY <3>1, <3>2
  <2>2. StreamType'
    BY <2>1
  <2>3. StoreType'
    <3>1. \A m \in lastDelivered + 1 .. trimmedTo' : m \in Msgs
      BY <2>1 DEF Msgs
    <3> QED
      BY <1>1, <3>1 DEF Produce
  <2> QED
    BY <1>1, <2>2, <2>3 DEF Produce
<1>2. ASSUME NEW p \in Procs, Poll(p)
       PROVE  TypeOK'
  BY <1>2 DEF Poll, Resume, Fibers, Awaits
<1>39. ASSUME NEW p \in Procs, Drained(p)
       PROVE  TypeOK'
  BY <1>39 DEF Drained, Resume, Fibers, Awaits
<1>3. ASSUME NEW p \in Procs, Deliver(p)
       PROVE  TypeOK'
  <2> DEFINE last == IF NextUndelivered + ReadCount - 1 < produced
                     THEN NextUndelivered + ReadCount - 1 ELSE produced
  <2>1. last \in 0..produced /\ NextUndelivered \in 1..produced /\ lastDelivered <= last
    BY <1>3 DEF Deliver, NextUndelivered
  <2>2. NextUndelivered..last \in SUBSET Msgs
    BY <2>1 DEF Msgs
  <2>3. StreamType'
    BY <1>3, <2>1 DEF Deliver
  <2>4. ConsumerType'
    BY <1>3, <2>2, ResumeType, ReadType DEF Deliver, Fibers, Awaits
  <2> QED
    BY <1>3, <2>3, <2>4 DEF Deliver
<1>4. ASSUME NEW p \in Procs, PollEmpty(p)
       PROVE  TypeOK'
  BY <1>4 DEF PollEmpty, Resume, Fibers, Awaits
<1>5. ASSUME NEW p \in Procs, NEW f \in Fibers, RejectInvalid(p, f)
       PROVE  TypeOK'
  <2>1. read[p][f] \ Invalid \in SUBSET Msgs
    OBVIOUS
  <2>2. ConsumerType'
    BY <1>5, <2>1, ResumeType, ReadType DEF RejectInvalid, Awaits, ErrorsAfterPage
  <2> QED
    BY <1>5, <2>2 DEF RejectInvalid
<1>6. ASSUME NEW p \in Procs, NEW f \in Fibers, RejectFails(p, f)
       PROVE  TypeOK'
  <2>1. LockType' /\ ConsumerType' /\ FlushType' /\ ReplayType'
    BY <1>6, ThrowType DEF RejectFails
  <2>2. StreamType' /\ faults' \in 0..MaxFaults
    BY <1>6 DEF RejectFails, Fault
  <2> QED
    BY <1>6, <2>1, <2>2 DEF RejectFails
<1>7. ASSUME NEW p \in Procs, NEW f \in Fibers, ReadFails(p, f)
       PROVE  TypeOK'
  <2>1. LockType' /\ ConsumerType' /\ FlushType' /\ ReplayType'
    BY <1>7, ThrowType DEF ReadFails
  <2> QED
    BY <1>7, <2>1 DEF ReadFails, Fault
<1>8. ASSUME NEW p \in Procs, NEW f \in Fibers, NEW failed \in SUBSET read[p][f],
       Buffer(p, f, failed)
       PROVE  TypeOK'
  <2>1. read' \in [Procs -> [Fibers -> SUBSET Msgs]]
    BY <1>8, ReadType DEF Buffer
  <2>2. fiber' \in [Procs -> [Fibers -> Awaits]]
    BY <1>8, ResumeType DEF Buffer, Awaits
  <2>3. errors' \in [Procs -> Nat]
    BY <1>8 DEF Buffer, ErrorsAfterPage
  <2>4. buffer[p] \cup (read[p][f] \ failed) \in SUBSET Msgs
    OBVIOUS
  <2>5. FlushType'
    <3>1. CASE /\ read[p][f] \ failed # {} /\ phase[p] = "idle"
               /\ Cardinality(buffer[p] \cup (read[p][f] \ failed)) >= BatchSize
      <4>1. /\ batch' = [batch EXCEPT ![p] = buffer[p] \cup (read[p][f] \ failed)]
            /\ buffer' = [buffer EXCEPT ![p] = {}]
            /\ phase' = [phase EXCEPT ![p] = "write"]
        BY <1>8, <3>1 DEF Buffer
      <4> QED
        BY <2>4, <4>1 DEF Phases
    <3>2. CASE ~(/\ read[p][f] \ failed # {} /\ phase[p] = "idle"
                 /\ Cardinality(buffer[p] \cup (read[p][f] \ failed)) >= BatchSize)
      <4>1. /\ buffer' = [buffer EXCEPT ![p] = buffer[p] \cup (read[p][f] \ failed)]
            /\ UNCHANGED <<batch, phase>>
        BY <1>8, <3>2 DEF Buffer
      <4> QED
        BY <2>4, <4>1
    <3> QED
      BY <3>1, <3>2
  <2>6. faults' \in 0..MaxFaults
    BY <1>8 DEF Buffer, Fault
  <2> QED
    BY <1>8, <2>1, <2>2, <2>3, <2>5, <2>6 DEF Buffer
<1>9. ASSUME NEW p \in Procs, NEW c \in Claimers, NEW page \in SUBSET pel, Claim(p, c,
       page)
       PROVE  TypeOK'
  <2>1. page \ (page \cap (1..trimmedTo)) \in SUBSET Msgs
    BY DEF Msgs
  <2>2. ConsumerType'
    BY <1>9, <2>1, ResumeType, ReadType DEF Claim, Fibers, Awaits
  <2>3. StoreType' /\ StreamType'
    BY <1>9 DEF Claim, Msgs
  <2> QED
    BY <1>9, <2>2, <2>3 DEF Claim
<1>10. ASSUME NEW p \in Procs, FlushTick(p)
       PROVE  TypeOK'
  BY <1>10 DEF FlushTick, StartFlush, Phases
<1>11. ASSUME NEW p \in Procs, WriteOk(p)
       PROVE  TypeOK'
  BY <1>11 DEF WriteOk, GoTo, Phases
<1>12. ASSUME NEW p \in Procs, WriteFails(p)
       PROVE  TypeOK'
  BY <1>12 DEF WriteFails, Fault, GoTo, Phases
<1>13. ASSUME NEW p \in Procs, AckBatch(p)
       PROVE  TypeOK'
  <2>1. ConsumerType' /\ FlushType'
    BY <1>13, EndFlushType DEF AckBatch
  <2> QED
    BY <1>13, <2>1 DEF AckBatch
<1>14. ASSUME NEW p \in Procs, AckFails(p)
       PROVE  TypeOK'
  <2>1. ConsumerType' /\ FlushType'
    <3>1. CASE phase[p] = "ack"
      BY <1>14, <3>1 DEF AckFails, GoTo, Phases
    <3>2. CASE phase[p] # "ack"
      BY <1>14, <3>2, EndFlushType DEF AckFails
    <3> QED
      BY <3>1, <3>2
  <2>2. StreamType' /\ faults' \in 0..MaxFaults
    BY <1>14 DEF AckFails, Fault
  <2> QED
    BY <1>14, <2>1, <2>2 DEF AckFails
<1>15. ASSUME NEW p \in Procs, MoveToDlq(p)
       PROVE  TypeOK'
  <2>1. DlqType' /\ evicted' \subseteq Msgs
    BY <1>15, AddToDlqType DEF MoveToDlq
  <2>2. FlushType'
    BY <1>15 DEF MoveToDlq, GoTo, Phases
  <2> QED
    BY <1>15, <2>1, <2>2 DEF MoveToDlq
<1>16. ASSUME NEW p \in Procs, MoveToDlqFails(p)
       PROVE  TypeOK'
  <2>1. DlqType' /\ evicted' \subseteq Msgs
    BY <1>16, AddToDlqType DEF MoveToDlqFails
  <2>2. ConsumerType' /\ FlushType'
    BY <1>16, EndFlushType DEF MoveToDlqFails
  <2> QED
    BY <1>16, <2>1, <2>2 DEF MoveToDlqFails, Fault
<1>17. ASSUME NEW p \in Procs, ReplayStart(p)
       PROVE  TypeOK'
  BY <1>17 DEF ReplayStart, ReplayTo, Replays
<1>18. ASSUME NEW p \in Procs, ReplayAcquire(p)
       PROVE  TypeOK'
  BY <1>18 DEF ReplayAcquire, ReplayTo, Replays
<1>19. ASSUME NEW p \in Procs, ReplayAcquireFails(p)
       PROVE  TypeOK'
  BY <1>19 DEF ReplayAcquireFails, Fault, ReplayTo, Replays
<1>20. ASSUME NEW p \in Procs, ReplayRead(p)
       PROVE  TypeOK'
  BY <1>20 DEF ReplayRead, ReplayTo, Replays
<1>21. ASSUME NEW p \in Procs, ReplayWrite(p)
       PROVE  TypeOK'
  <2>1. EventsOf(p) \subseteq Msgs
    BY DEF EventsOf, DlqEntry
  <2> QED
    BY <1>21, <2>1 DEF ReplayWrite, ReplayTo, Replays
<1>22. ASSUME NEW p \in Procs, ReplayDelete(p)
       PROVE  TypeOK'
  BY <1>22 DEF ReplayDelete, ReplayTo, Replays
<1>23. ASSUME NEW p \in Procs, ReplayReset(p)
       PROVE  TypeOK'
  BY <1>23 DEF ReplayReset, ReplayTo, Replays
<1>24. ASSUME NEW p \in Procs, ReplayFails(p)
       PROVE  TypeOK'
  <2>1. EventsOf(p) \subseteq Msgs
    BY DEF EventsOf, DlqEntry
  <2>2. StoreType' /\ DlqType' /\ BreakerType'
    BY <1>24, <2>1 DEF ReplayFails
  <2>3. ReplayType' /\ faults' \in 0..MaxFaults
    BY <1>24 DEF ReplayFails, ReplayTo, Replays, Fault
  <2> QED
    BY <1>24, <2>2, <2>3 DEF ReplayFails
<1>25. ASSUME NEW p \in Procs, CountFailure(p)
       PROVE  TypeOK'
  BY <1>25 DEF CountFailure, ReplayTo, Replays
<1>26. ASSUME NEW p \in Procs, CountFailureFails(p)
       PROVE  TypeOK'
  BY <1>26 DEF CountFailureFails, Fault, ReplayTo, Replays
<1>27. ASSUME NEW p \in Procs, ReplayRelease(p)
       PROVE  TypeOK'
  BY <1>27 DEF ReplayRelease, Release, EndReplay, ReplayTo, Replays
<1>28. ASSUME NEW p \in Procs, ReplayReleaseFails(p)
       PROVE  TypeOK'
  BY <1>28 DEF ReplayReleaseFails, Fault, Release, EndReplay, ReplayTo, Replays
<1>29. ASSUME NEW p \in Procs, Crash(p)
       PROVE  TypeOK'
  <2>1. LockType' /\ ConsumerType' /\ FlushType' /\ ReplayType'
    BY <1>29, RestartType DEF Crash
  <2> QED
    BY <1>29, <2>1 DEF Crash, Fault
<1>30. ASSUME NEW p \in Procs, Shutdown(p)
       PROVE  TypeOK'
  BY <1>30 DEF Shutdown, Fault, Modes
<1>31. ASSUME NEW p \in Procs, StopDlq(p)
       PROVE  TypeOK'
  BY <1>31 DEF StopDlq, Modes
<1>32. ASSUME NEW p \in Procs, FinalFlush(p)
       PROVE  TypeOK'
  BY <1>32 DEF FinalFlush, StartFlush, Phases, Modes
<1>33. ASSUME NEW p \in Procs, Exit(p)
       PROVE  TypeOK'
  <2>1. LockType' /\ ConsumerType' /\ FlushType' /\ ReplayType'
    BY <1>33, RestartType DEF Exit
  <2> QED
    BY <1>33, <2>1 DEF Exit
<1>34. ASSUME NEW p \in Procs, LockOverrun(p)
       PROVE  TypeOK'
  BY <1>34 DEF LockOverrun, Fault
<1>35. CASE LockExpire
  BY <1>35 DEF LockExpire
<1>36. CASE CircuitExpire
  BY <1>36 DEF CircuitExpire
<1>37. CASE FailuresExpire
  BY <1>37 DEF FailuresExpire
<1>38. CASE UNCHANGED vars
  BY <1>38 DEF vars
<1> QED
  BY <1>1, <1>2, <1>3, <1>4, <1>5, <1>6, <1>7, <1>8, <1>9, <1>10, <1>11, <1>12, <1>13,
     <1>14, <1>15, <1>16, <1>17, <1>18, <1>19, <1>20, <1>21, <1>22, <1>23, <1>24,
     <1>25, <1>26, <1>27, <1>28, <1>29, <1>30, <1>31, <1>32, <1>33, <1>34, <1>35,
     <1>36, <1>37, <1>38, <1>39 DEF Next, Consume, Flush, Replay, Lifecycle

(* The variables keep their types: in particular the PEL holds only         *)
(* delivered entries.                                                       *)
THEOREM TypeCorrect == Spec => []TypeOK
<1> QED
  BY TypeInit, TypeStep, PTL DEF Spec
-----------------------------------------------------------------------------
(* What has been secured stays secured: the table and the history only      *)
(* grow, and the dead-letter stream gives up only what is stored or evicted.*)
Grows ==
  /\ ch \subseteq ch' /\ evicted \subseteq evicted'
  /\ \A e \in dlq \ dlq' : e.ev \in ch' \/ e.ev \in evicted'

LEMMA AddToDlqGrows ==
  ASSUME NEW evs \in SUBSET Msgs, AddToDlq(evs), UNCHANGED ch
  PROVE  Grows
  BY DEF AddToDlq, Grows

LEMMA GrowsStep == TypeOK /\ LossInv /\ [Next]_vars => Grows
<1> SUFFICES ASSUME TypeOK, LossInv, [Next]_vars PROVE Grows
  OBVIOUS
<1>1. CASE UNCHANGED <<ch, evicted, dlq>>
  BY <1>1 DEF Grows
<1>2. CASE UNCHANGED <<ch, dlq>> /\ evicted \subseteq evicted'
  BY <1>2 DEF Grows
<1>3. CASE UNCHANGED <<evicted, dlq>> /\ ch \subseteq ch'
  BY <1>3 DEF Grows
<1>4. Produce => Grows
  BY <1>2 DEF Produce, dlqVars
<1>5. ASSUME NEW p \in Procs, Consume(p) PROVE Grows
  <2>1. UNCHANGED <<ch, dlq>> /\ evicted \subseteq evicted'
    BY <1>5 DEF Consume, Poll, Drained, Deliver, PollEmpty, RejectInvalid, RejectFails, ReadFails,
                Buffer, Claim, dlqVars
  <2> QED
    BY <1>2, <2>1
<1>6. ASSUME NEW p \in Procs, Flush(p) PROVE Grows
  <2>1. CASE MoveToDlq(p)
    BY <2>1, AddToDlqGrows DEF MoveToDlq, TypeOK, FlushType
  <2>2. CASE MoveToDlqFails(p)
    <3>1. PICK part \in SUBSET batch[p] : AddToDlq(part)
      BY <2>2 DEF MoveToDlqFails
    <3>2. part \in SUBSET Msgs
      BY <3>1 DEF TypeOK, FlushType
    <3> QED
      BY <2>2, <3>1, <3>2, AddToDlqGrows DEF MoveToDlqFails
  <2>3. CASE ~MoveToDlq(p) /\ ~MoveToDlqFails(p)
    <3>1. UNCHANGED <<evicted, dlq>> /\ ch \subseteq ch'
      BY <1>6, <2>3 DEF Flush, FlushTick, WriteOk, WriteFails, AckBatch, AckFails, dlqVars
    <3> QED
      BY <1>3, <3>1
  <2> QED
    BY <2>1, <2>2, <2>3
<1>7. ASSUME NEW p \in Procs, Replay(p) PROVE Grows
  <2>1. CASE dlq' = dlq
    <3>1. ch \subseteq ch' /\ evicted' = evicted
      BY <1>7 DEF Replay, ReplayStart, ReplayAcquire, ReplayAcquireFails, ReplayRead,
         ReplayWrite, ReplayDelete, ReplayReset, ReplayFails, CountFailure,
         CountFailureFails, ReplayRelease, ReplayReleaseFails, dlqVars
    <3> QED
      BY <1>3, <2>1, <3>1
  <2>2. CASE dlq' # dlq
    <3>1. replay[p] = "delete" /\ dlq' = dlq \ entries[p] /\ UNCHANGED <<ch, evicted>>
      BY <1>7, <2>2 DEF Replay, ReplayStart, ReplayAcquire, ReplayAcquireFails,
         ReplayRead, ReplayWrite, ReplayDelete, ReplayReset, ReplayFails, CountFailure,
         CountFailureFails, ReplayRelease, ReplayReleaseFails, dlqVars
    <3>2. EventsOf(p) \subseteq ch
      BY <3>1 DEF LossInv, ReplayInv
    <3> QED
      BY <3>1, <3>2 DEF Grows, EventsOf
  <2> QED
    BY <2>1, <2>2
<1>8. ASSUME NEW p \in Procs, Lifecycle(p) \/ LockOverrun(p) PROVE Grows
  BY <1>1, <1>8 DEF Lifecycle, Crash, Shutdown, StopDlq, FinalFlush, Exit, LockOverrun, dlqVars
<1>9. LockExpire \/ CircuitExpire \/ FailuresExpire \/ UNCHANGED vars => Grows
  BY <1>1 DEF LockExpire, CircuitExpire, FailuresExpire, vars, dlqVars
<1> QED
  BY <1>4, <1>5, <1>6, <1>7, <1>8, <1>9 DEF Next

LEMMA SafeGrows ==
  ASSUME Grows, NEW m, Safe(m)
  PROVE  Safe(m)'
  BY DEF Grows, Safe, InDlq

(* An entry leaves the PEL only when its event is secured.                  *)
LEMMA AckSafe == TypeOK /\ LossInv /\ [Next]_vars => \A m \in pel \ pel' : Safe(m)'
<1> SUFFICES ASSUME TypeOK, LossInv, [Next]_vars, NEW m \in pel, m \notin pel'
             PROVE  Safe(m)'
  OBVIOUS
<1>1. Grows
  BY GrowsStep
<1>2. CASE Safe(m)
  BY <1>1, <1>2, SafeGrows
<1>3. CASE m \in evicted'
  BY <1>3 DEF Safe
<1>4. ASSUME NEW p \in Procs, Consume(p) PROVE Safe(m) \/ m \in evicted'
  <2>1. ASSUME NEW f \in Fibers, RejectInvalid(p, f) \/ RejectFails(p, f) PROVE Safe(m)
    BY <2>1 DEF RejectInvalid, RejectFails, Safe
  <2>2. ASSUME NEW c \in Claimers, NEW page \in SUBSET pel, Claim(p, c, page)
        PROVE Safe(m) \/ m \in evicted'
    BY <2>2 DEF Claim, Safe
  <2>3. (Poll(p) \/ Drained(p) \/ Deliver(p) \/ PollEmpty(p)) => FALSE
    BY DEF Poll, Drained, Deliver, PollEmpty, streamVars
  <2>4. ASSUME NEW f \in Fibers, ReadFails(p, f) PROVE FALSE
    BY <2>4 DEF ReadFails
  <2>5. ASSUME NEW f \in Fibers, NEW failed \in SUBSET read[p][f], Buffer(p, f, failed)
        PROVE FALSE
    BY <2>5 DEF Buffer
  <2> QED
    BY <1>4, <2>1, <2>2, <2>3, <2>4, <2>5 DEF Consume
<1>5. ASSUME NEW p \in Procs, Flush(p) PROVE Safe(m)
  <2>1. phase[p] \in {"ack", "dlqAck"} /\ m \in batch[p]
    BY <1>5 DEF Flush, FlushTick, WriteOk, WriteFails, AckBatch, AckFails, MoveToDlq,
                MoveToDlqFails
  <2> QED
    BY <2>1 DEF LossInv, FlushInv, Safe
<1>6. ASSUME NEW p \in Procs, Replay(p) PROVE FALSE
  BY <1>6 DEF Replay, ReplayStart, ReplayAcquire, ReplayAcquireFails, ReplayRead,
     ReplayWrite, ReplayDelete, ReplayReset, ReplayFails, CountFailure,
     CountFailureFails, ReplayRelease, ReplayReleaseFails
<1>7. ASSUME NEW p \in Procs, Lifecycle(p) \/ LockOverrun(p) PROVE FALSE
  BY <1>7 DEF Lifecycle, Crash, Shutdown, StopDlq, FinalFlush, Exit, LockOverrun
<1>8. Produce \/ LockExpire \/ CircuitExpire \/ FailuresExpire \/ UNCHANGED vars => FALSE
  BY DEF Produce, LockExpire, CircuitExpire, FailuresExpire, vars
<1> QED
  BY <1>2, <1>3, <1>4, <1>5, <1>6, <1>7, <1>8 DEF Next

(* Only ingest and XREADGROUP touch the stream's ids.                       *)
LEMMA StreamStep ==
  [Next]_vars => Produce \/ UNCHANGED streamVars \/ \E p \in Procs : Deliver(p)
<1> SUFFICES ASSUME [Next]_vars
             PROVE  Produce \/ UNCHANGED streamVars \/ \E p \in Procs : Deliver(p)
  OBVIOUS
<1>1. ASSUME NEW p \in Procs, Consume(p), ~Deliver(p) PROVE UNCHANGED streamVars
  BY <1>1 DEF Consume, Poll, Drained, PollEmpty, RejectInvalid, RejectFails, ReadFails, Buffer, Claim
<1>2. ASSUME NEW p \in Procs, Flush(p) PROVE UNCHANGED streamVars
  BY <1>2 DEF Flush, FlushTick, WriteOk, WriteFails, AckBatch, AckFails, MoveToDlq,
              MoveToDlqFails
<1>3. ASSUME NEW p \in Procs, Replay(p) PROVE UNCHANGED streamVars
  BY <1>3 DEF Replay, ReplayStart, ReplayAcquire, ReplayAcquireFails, ReplayRead,
     ReplayWrite, ReplayDelete, ReplayReset, ReplayFails, CountFailure,
     CountFailureFails, ReplayRelease, ReplayReleaseFails
<1>4. ASSUME NEW p \in Procs, Lifecycle(p) \/ LockOverrun(p) PROVE UNCHANGED streamVars
  BY <1>4 DEF Lifecycle, Crash, Shutdown, StopDlq, FinalFlush, Exit, LockOverrun
<1>5. LockExpire \/ CircuitExpire \/ FailuresExpire \/ UNCHANGED vars => UNCHANGED streamVars
  BY DEF LockExpire, CircuitExpire, FailuresExpire, vars
<1> QED
  BY <1>1, <1>2, <1>3, <1>4, <1>5 DEF Next

LEMMA ProduceStep ==
  ASSUME StreamType, Produce
  PROVE  /\ produced \in Nat /\ trimmedTo \in Nat /\ lastDelivered \in Nat
         /\ produced' = produced + 1 /\ lastDelivered' = lastDelivered
         /\ trimmedTo' \in Nat /\ trimmedTo' <= produced
         /\ lastDelivered <= produced /\ trimmedTo <= produced
<1>1. /\ produced \in Nat /\ trimmedTo \in Nat /\ lastDelivered \in Nat
      /\ lastDelivered <= produced /\ trimmedTo <= produced
  BY SizesAssumption DEF StreamType
<1>2. produced' = produced + 1 /\ lastDelivered' = lastDelivered
  BY DEF Produce
<1>3. trimmedTo' = trimmedTo \/ trimmedTo' \in trimmedTo..produced
  BY DEF Produce
<1> QED
  BY <1>1, <1>2, <1>3

LEMMA DeliverStep ==
  ASSUME StreamType, NEW p \in Procs, Deliver(p)
  PROVE  /\ trimmedTo \in Nat /\ trimmedTo' = trimmedTo /\ produced' = produced
         /\ NextUndelivered \in Nat /\ lastDelivered' \in Nat
         /\ lastDelivered' >= NextUndelivered /\ NextUndelivered > trimmedTo
         /\ \A m \in NextUndelivered..lastDelivered' : m \in pel'
<1>1. /\ produced \in Nat /\ trimmedTo \in Nat /\ lastDelivered \in Nat
      /\ ReadCount \in Nat \ {0}
  BY SizesAssumption DEF StreamType
<1>2. NextUndelivered \in Nat /\ NextUndelivered > trimmedTo
  BY <1>1 DEF NextUndelivered
<1>3. NextUndelivered <= produced /\ trimmedTo' = trimmedTo /\ produced' = produced
  BY DEF Deliver
<1>4. lastDelivered' = IF NextUndelivered + ReadCount - 1 < produced
                       THEN NextUndelivered + ReadCount - 1 ELSE produced
  BY DEF Deliver
<1>5. lastDelivered' \in Nat /\ lastDelivered' >= NextUndelivered
  BY <1>1, <1>2, <1>3, <1>4
<1>6. \A m \in NextUndelivered..lastDelivered' : m \in pel'
  BY DEF Deliver
<1> QED
  BY <1>1, <1>2, <1>3, <1>5, <1>6

LEMMA NoLossStep == TypeOK /\ LossInv /\ [Next]_vars => NoLoss'
<1> SUFFICES ASSUME TypeOK, LossInv, [Next]_vars, NEW m \in (1..produced)'
             PROVE  (m >= NextUndelivered \/ m \in pel \/ Safe(m))'
  BY DEF NoLoss
<1>1. CASE Safe(m)
  BY <1>1, GrowsStep, SafeGrows
<1>2. CASE m \in pel
  BY <1>2, AckSafe
<1>3. CASE Produce /\ ~Safe(m) /\ m \notin pel
  <2>1. StreamType
    BY DEF TypeOK
  <2>2. CASE m = produced + 1
    BY <1>3, <2>1, <2>2, ProduceStep DEF NextUndelivered
  <2>3. CASE m # produced + 1
    <3>1. m > lastDelivered /\ m > trimmedTo /\ m \in Nat
      BY <1>3, <2>1, <2>3, ProduceStep DEF LossInv, NoLoss, NextUndelivered
    <3>2. CASE m <= trimmedTo'
      <4>1. m \in lastDelivered + 1 .. trimmedTo'
        BY <1>3, <2>1, <3>1, <3>2, ProduceStep
      <4> QED
        BY <1>3, <3>1, <4>1 DEF Produce, Safe
    <3>3. CASE ~(m <= trimmedTo')
      BY <1>3, <2>1, <3>1, <3>3, ProduceStep DEF NextUndelivered
    <3> QED
      BY <3>2, <3>3
  <2> QED
    BY <2>2, <2>3
<1>4. ASSUME NEW p \in Procs, Deliver(p), ~Safe(m), m \notin pel
      PROVE  (m >= NextUndelivered \/ m \in pel)'
  <2>1. StreamType /\ produced' = produced
    BY <1>4 DEF Deliver, TypeOK
  <2>2. m \in Nat /\ m >= NextUndelivered
    BY <1>4, <2>1, SizesAssumption DEF LossInv, NoLoss, StreamType
  <2> QED
    BY <1>4, <2>1, <2>2, DeliverStep DEF NextUndelivered
<1>5. CASE UNCHANGED streamVars /\ ~Safe(m) /\ m \notin pel
  BY <1>5 DEF streamVars, NextUndelivered, LossInv, NoLoss
<1> QED
  BY <1>1, <1>2, <1>3, <1>4, <1>5, StreamStep

(* What one replica's step does to another replica's flush and replay, and  *)
(* what a step of Redis or ingest does to all of them: nothing.             *)
LEMMA FlushFrame ==
  ASSUME TypeOK, [Next]_vars, NEW p \in Procs,
         ~WriteOk(p), ~AckFails(p), ~MoveToDlq(p)
  PROVE  /\ phase'[p] = "ack" => phase[p] = "ack" /\ batch'[p] = batch[p]
         /\ phase'[p] = "dlqAck" => phase[p] = "dlqAck" /\ batch'[p] = batch[p]
<1> DEFINE Kept == /\ phase'[p] = "ack" => phase[p] = "ack" /\ batch'[p] = batch[p]
                   /\ phase'[p] = "dlqAck" => phase[p] = "dlqAck" /\ batch'[p] = batch[p]
<1> USE DEF TypeOK, FlushType
<1>1. UNCHANGED flushVars => Kept
  BY DEF flushVars
<1>2. ASSUME NEW q \in Procs, Restart(q) PROVE Kept
  BY <1>2 DEF Restart
<1>3. ASSUME NEW q \in Procs, StartFlush(q) PROVE Kept
  BY <1>3 DEF StartFlush
<1>4. ASSUME NEW q \in Procs, EndFlush(q) PROVE Kept
  BY <1>4 DEF EndFlush, GoTo
<1>5. ASSUME NEW q \in Procs, NEW f \in Fibers, Throw(q, f) PROVE Kept
  BY <1>1, <1>2, <1>5 DEF Throw
<1>6. ASSUME NEW q \in Procs, Consume(q) PROVE Kept
  <2>1. ASSUME NEW f \in Fibers, RejectFails(q, f) \/ ReadFails(q, f) PROVE Kept
    BY <1>5, <2>1 DEF RejectFails, ReadFails
  <2>2. ASSUME NEW f \in Fibers, NEW failed \in SUBSET read[q][f], Buffer(q, f, failed)
        PROVE Kept
    <3>1. \/ phase' = [phase EXCEPT ![q] = "write"] /\ phase[q] = "idle"
             /\ batch' = [batch EXCEPT ![q] = buffer[q] \cup (read[q][f] \ failed)]
          \/ UNCHANGED <<batch, phase>>
      BY <2>2 DEF Buffer
    <3> QED
      BY <3>1
  <2> QED
    BY <1>1, <1>6, <2>1, <2>2 DEF Consume, Poll, Drained, Deliver, PollEmpty,
       RejectInvalid, Claim
<1>7. ASSUME NEW q \in Procs, Flush(q) PROVE Kept
  <2>1. CASE FlushTick(q)
    BY <1>3, <2>1 DEF FlushTick
  <2>2. CASE WriteOk(q) \/ WriteFails(q) \/ MoveToDlq(q)
    BY <2>2 DEF WriteOk, WriteFails, MoveToDlq, GoTo
  <2>3. CASE AckBatch(q) \/ MoveToDlqFails(q)
    BY <1>4, <2>3 DEF AckBatch, MoveToDlqFails
  <2>4. CASE AckFails(q)
    <3>1. q # p
      BY <2>4
    <3>2. EndFlush(q) \/ (GoTo(q, "dlq") /\ UNCHANGED batch)
      BY <2>4 DEF AckFails
    <3> QED
      BY <1>4, <3>1, <3>2 DEF GoTo
  <2> QED
    BY <1>7, <2>1, <2>2, <2>3, <2>4 DEF Flush
<1>8. ASSUME NEW q \in Procs, Replay(q) PROVE Kept
  BY <1>1, <1>8 DEF Replay, ReplayStart, ReplayAcquire, ReplayAcquireFails, ReplayRead,
     ReplayWrite, ReplayDelete, ReplayReset, ReplayFails, CountFailure,
     CountFailureFails, ReplayRelease, ReplayReleaseFails
<1>9. ASSUME NEW q \in Procs, Lifecycle(q) \/ LockOverrun(q) PROVE Kept
  BY <1>1, <1>2, <1>3, <1>9 DEF Lifecycle, Crash, Shutdown, StopDlq, FinalFlush, Exit,
     LockOverrun
<1>10. Produce \/ LockExpire \/ CircuitExpire \/ FailuresExpire \/ UNCHANGED vars => Kept
  BY <1>1 DEF Produce, LockExpire, CircuitExpire, FailuresExpire, vars
<1> QED
  BY <1>6, <1>7, <1>8, <1>9, <1>10 DEF Next

LEMMA FlushStep == TypeOK /\ LossInv /\ [Next]_vars => FlushInv'
<1> SUFFICES ASSUME TypeOK, LossInv, [Next]_vars, NEW p \in Procs
             PROVE  /\ phase'[p] = "ack" => batch'[p] \subseteq ch'
                    /\ phase'[p] = "dlqAck" => \A m \in batch'[p] : Safe(m)'
  BY DEF FlushInv
<1> USE DEF TypeOK, FlushType
<1>1. Grows
  BY GrowsStep
<1>2. CASE WriteOk(p)
  BY <1>2 DEF WriteOk, GoTo
<1>3. CASE AckFails(p)
  <2>1. phase'[p] \notin {"ack", "dlqAck"}
    BY <1>3 DEF AckFails, GoTo, EndFlush
  <2> QED
    BY <2>1
<1>4. CASE MoveToDlq(p)
  <2>1. phase'[p] = "dlqAck" /\ batch' = batch /\ ch' = ch /\ AddToDlq(batch[p])
    BY <1>4 DEF MoveToDlq, GoTo
  <2>2. ASSUME NEW m \in batch[p] PROVE Safe(m)'
    <3> DEFINE all == dlq \cup {[round |-> dlqRound + 1, ev |-> n] : n \in batch[p]}
    <3>1. PICK kept \in SUBSET all :
            dlq' = kept /\ evicted' = evicted \cup ({x.ev : x \in all \ kept} \ ch)
      BY <2>1 DEF AddToDlq
    <3> DEFINE e == [round |-> dlqRound + 1, ev |-> m]
    <3>2. e \in all /\ e.ev = m
      OBVIOUS
    <3> HIDE DEF e
    <3>3. CASE e \in kept
      BY <3>1, <3>2, <3>3 DEF Safe, InDlq
    <3>4. CASE e \notin kept
      BY <2>1, <3>1, <3>2, <3>4 DEF Safe
    <3> QED
      BY <3>3, <3>4
  <2> QED
    BY <2>1, <2>2
<1>5. CASE ~WriteOk(p) /\ ~AckFails(p) /\ ~MoveToDlq(p)
  <2>1. /\ phase'[p] = "ack" => phase[p] = "ack" /\ batch'[p] = batch[p]
        /\ phase'[p] = "dlqAck" => phase[p] = "dlqAck" /\ batch'[p] = batch[p]
    BY <1>5, FlushFrame
  <2>2. CASE phase'[p] = "ack"
    BY <1>1, <2>1, <2>2 DEF LossInv, FlushInv, Grows
  <2>3. CASE phase'[p] = "dlqAck"
    <3>1. \A m \in batch'[p] : Safe(m)
      BY <2>1, <2>3 DEF LossInv, FlushInv
    <3> QED
      BY <1>1, <2>3, <3>1, SafeGrows
  <2> QED
    BY <2>2, <2>3
<1> QED
  BY <1>2, <1>3, <1>4, <1>5

(* A replay goes on to delete its entries only when it has written them.    *)
LEMMA ReplayStep == TypeOK /\ LossInv /\ [Next]_vars => ReplayInv'
<1> SUFFICES ASSUME TypeOK, LossInv, [Next]_vars, NEW p \in Procs, replay'[p] = "delete"
             PROVE  EventsOf(p)' \subseteq ch'
  BY DEF ReplayInv
<1> USE DEF TypeOK, ReplayType
<1>1. Grows
  BY GrowsStep
<1>2. CASE ReplayWrite(p)
  BY <1>2 DEF ReplayWrite, EventsOf
<1>3. CASE ~ReplayWrite(p)
  <2> DEFINE Kept == replay[p] = "delete" /\ entries'[p] = entries[p]
  <2>1. UNCHANGED replayVars => Kept
    BY DEF replayVars
  <2>2. ASSUME NEW q \in Procs, Restart(q) PROVE Kept
    BY <2>2 DEF Restart
  <2>3. ASSUME NEW q \in Procs, NEW f \in Fibers, Throw(q, f) PROVE Kept
    BY <2>1, <2>2, <2>3 DEF Throw
  <2>4. ASSUME NEW q \in Procs, Consume(q) PROVE Kept
    <3>1. ASSUME NEW f \in Fibers, RejectFails(q, f) \/ ReadFails(q, f) PROVE Kept
      BY <2>3, <3>1 DEF RejectFails, ReadFails
    <3> QED
      BY <2>1, <2>4, <3>1 DEF Consume, Poll, Drained, Deliver, PollEmpty, RejectInvalid,
         Buffer, Claim
  <2>5. ASSUME NEW q \in Procs, Flush(q) PROVE Kept
    BY <2>1, <2>5 DEF Flush, FlushTick, WriteOk, WriteFails, AckBatch, AckFails, MoveToDlq,
       MoveToDlqFails
  <2>6. ASSUME NEW q \in Procs, Replay(q) PROVE Kept
    <3>1. CASE q = p
      BY <1>3, <2>6, <3>1 DEF Replay, ReplayStart, ReplayAcquire, ReplayAcquireFails,
         ReplayRead, ReplayDelete, ReplayReset, ReplayFails, CountFailure,
         CountFailureFails, ReplayRelease, ReplayReleaseFails, EndReplay, ReplayTo
    <3>2. CASE q # p
      BY <2>6, <3>2 DEF Replay, ReplayStart, ReplayAcquire, ReplayAcquireFails,
         ReplayRead, ReplayWrite, ReplayDelete, ReplayReset, ReplayFails, CountFailure,
         CountFailureFails, ReplayRelease, ReplayReleaseFails, EndReplay, ReplayTo
    <3> QED
      BY <3>1, <3>2
  <2>7. ASSUME NEW q \in Procs, Lifecycle(q) \/ LockOverrun(q) PROVE Kept
    BY <2>1, <2>2, <2>7 DEF Lifecycle, Crash, Shutdown, StopDlq, FinalFlush, Exit,
       LockOverrun
  <2>8. Produce \/ LockExpire \/ CircuitExpire \/ FailuresExpire \/ UNCHANGED vars => Kept
    BY <2>1 DEF Produce, LockExpire, CircuitExpire, FailuresExpire, vars
  <2>9. Kept
    BY <2>4, <2>5, <2>6, <2>7, <2>8 DEF Next
  <2> QED
    BY <1>1, <2>9 DEF LossInv, ReplayInv, EventsOf, Grows
<1> QED
  BY <1>2, <1>3

LEMMA LossInit == Init => LossInv
  BY SizesAssumption
  DEF Init, LossInv, NoLoss, FlushInv, ReplayInv, NextUndelivered

(* No crash, failed call, shutdown or overrun lock loses an event that      *)
(* ingest wrote, for any number of replicas, claim runs, events and faults. *)
THEOREM NothingLost == Spec => []NoLoss
<1>1. TypeOK /\ LossInv /\ [Next]_vars => LossInv'
  BY NoLossStep, FlushStep, ReplayStep DEF LossInv
<1>2. LossInv => NoLoss
  BY DEF LossInv
<1> QED
  BY <1>1, <1>2, LossInit, TypeCorrect, PTL DEF Spec

(* A replay deletes from the dead-letter stream only what is stored.        *)
THEOREM ReplayKeepsUnstored == Spec => DlqKeepsUnstored
<1>1. TypeOK /\ LossInv /\ [Next]_vars => LossInv'
  BY NoLossStep, FlushStep, ReplayStep DEF LossInv
<1>2. TypeOK /\ LossInv /\ [Next]_vars
      => [\A e \in dlq \ dlq' : e.ev \in ch' \/ e.ev \in evicted']_vars
  BY GrowsStep DEF Grows
<1> QED
  BY <1>1, <1>2, LossInit, TypeCorrect, PTL DEF Spec, DlqKeepsUnstored
-----------------------------------------------------------------------------
(* LockInv is inductive by itself, given the types.                         *)
LEMMA LockStep == TypeOK /\ LockInv /\ [Next]_vars => LockInv'
<1> SUFFICES ASSUME TypeOK, LockInv, [Next]_vars PROVE LockInv'
  OBVIOUS
<1> USE NamesAssumption DEF TypeOK, ReplayType, LockType
<1>1. UNCHANGED <<replay, lock, overran>> => LockInv'
  BY DEF LockInv, InReplay
<1>2. ASSUME NEW q \in Procs, Restart(q) PROVE LockInv'
  BY <1>2 DEF Restart, LockInv, InReplay
<1>3. ASSUME NEW q \in Procs, NEW f \in Fibers, Throw(q, f) PROVE LockInv'
  BY <1>1, <1>2, <1>3 DEF Throw, replayVars, lockVars
<1>4. ASSUME NEW q \in Procs, Consume(q) PROVE LockInv'
  <2>1. ASSUME NEW f \in Fibers, RejectFails(q, f) \/ ReadFails(q, f) PROVE LockInv'
    BY <1>3, <2>1 DEF RejectFails, ReadFails
  <2> QED
    BY <1>1, <1>4, <2>1 DEF Consume, Poll, Drained, Deliver, PollEmpty, RejectInvalid,
       Buffer, Claim, replayVars, lockVars
<1>5. ASSUME NEW q \in Procs, Flush(q) PROVE LockInv'
  BY <1>1, <1>5 DEF Flush, FlushTick, WriteOk, WriteFails, AckBatch, AckFails, MoveToDlq,
     MoveToDlqFails, replayVars, lockVars
<1>6. ASSUME NEW q \in Procs, Replay(q) PROVE LockInv'
  <2>1. CASE ReplayAcquire(q)
    BY <2>1 DEF ReplayAcquire, ReplayTo, LockInv, InReplay
  <2>2. CASE ReplayStart(q) \/ ReplayAcquireFails(q)
    BY <2>2 DEF ReplayStart, ReplayAcquireFails, ReplayTo, LockInv, InReplay, lockVars
  <2>3. CASE ReplayRelease(q) \/ ReplayReleaseFails(q)
    BY <2>3 DEF ReplayRelease, ReplayReleaseFails, Release, EndReplay, ReplayTo, LockInv,
       InReplay
  <2>4. CASE ReplayRead(q) \/ ReplayWrite(q) \/ ReplayDelete(q) \/ ReplayReset(q)
    BY <2>4 DEF ReplayRead, ReplayWrite, ReplayDelete, ReplayReset, ReplayTo, LockInv,
       InReplay, lockVars
  <2>5. CASE ReplayFails(q) \/ CountFailure(q) \/ CountFailureFails(q)
    BY <2>5 DEF ReplayFails, CountFailure, CountFailureFails, ReplayTo, LockInv,
       InReplay, lockVars
  <2> QED
    BY <1>6, <2>1, <2>2, <2>3, <2>4, <2>5 DEF Replay
<1>7. ASSUME NEW q \in Procs, Lifecycle(q) PROVE LockInv'
  BY <1>1, <1>2, <1>7 DEF Lifecycle, Crash, Shutdown, StopDlq, FinalFlush, Exit,
     replayVars, lockVars
<1>8. ASSUME NEW q \in Procs, LockOverrun(q) PROVE LockInv'
  BY <1>8 DEF LockOverrun, LockInv, InReplay, replayVars
<1>9. CASE LockExpire
  BY <1>9 DEF LockExpire, LockInv, InReplay, replayVars
<1>10. Produce \/ CircuitExpire \/ FailuresExpire \/ UNCHANGED vars => LockInv'
  BY <1>1 DEF Produce, CircuitExpire, FailuresExpire, vars, replayVars, lockVars
<1> QED
  BY <1>4, <1>5, <1>6, <1>7, <1>8, <1>9, <1>10 DEF Next

(* Two replicas replay at the same time only past the TTL of the lock.      *)
THEOREM ReplaysExclude == Spec => []ReplayExclusive
<1>1. Init => LockInv
  BY DEF Init, LockInv, InReplay
<1>2. TypeOK /\ LockInv => ReplayExclusive
  BY DEF LockInv, ReplayExclusive
<1> QED
  BY <1>1, <1>2, LockStep, TypeCorrect, PTL DEF Spec
=============================================================================
