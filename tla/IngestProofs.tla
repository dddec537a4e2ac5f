---------------------------- MODULE IngestProofs ----------------------------
(* The admission of batches by the length of the stream, and what a 202     *)
(* promises, for every number of replicas, batches, events and faults, and  *)
(* every pair of limits.                                                    *)
EXTENDS Ingest, SequenceTheorems, TLAPS

(* A length len, measured when the stream had had base entries in all,      *)
(* bounds a stream that has had n entries and has lost the first t of them. *)
Sound(len, base, n, t) ==
  /\ len \in Nat /\ base \in Nat
  /\ base <= n /\ base <= len + t
  /\ TooLong(len) => n - t >= Threshold

StreamShape == log \in Seq(Entry) /\ trimmedTo \in Nat /\ trimmedTo <= Len(log)
CacheSound ==
  /\ cached \in [Replicas -> Nat] /\ measured \in [Replicas -> Nat]
  /\ \A p \in Replicas : Sound(cached[p], measured[p], Len(log), trimmedTo)
HandlerSound ==
  /\ handler \in [Batches -> [Slots -> Handler]]
  /\ \A b \in Batches, s \in Slots :
       /\ Sound(handler[b][s].len, handler[b][s].base, Len(log), trimmedTo)
       /\ handler[b][s].step = "write" => ~TooLong(handler[b][s].len)

(* Inductive: every length a replica holds is sound, and a handler that     *)
(* writes was admitted below the threshold.                                 *)
AdmitInv == StreamShape /\ CacheSound /\ HandlerSound

(* The step lets the stream grow, and trims it to MaxLen entries at most.   *)
Grows ==
  /\ Len(log) <= Len(log') /\ trimmedTo <= trimmedTo'
  /\ trimmedTo' # trimmedTo => Len(log') - trimmedTo' >= MaxLen

(* The whole batch is one of the parts that a pipeline may write.           *)
LEMMA WholeChunk == Whole \in Chunks
<1>1. Whole \in [1..BatchLen -> 1..BatchLen] /\ BatchLen \in 0..BatchLen
  BY SizesAssumption DEF Whole
<1>2. \A i, j \in DOMAIN Whole : i < j => Whole[i] < Whole[j]
  BY DEF Whole
<1> QED
  BY <1>1, <1>2 DEF Chunks

(* A write does so.                                                         *)
LEMMA AddGrows ==
  ASSUME StreamShape, NEW b \in Batches, NEW chunk \in Chunks, Add(b, chunk)
  PROVE  StreamShape' /\ Grows
<1> DEFINE new == [i \in DOMAIN chunk |-> [batch |-> b, event |-> chunk[i]]]
<1>1. PICK n \in 0..BatchLen : chunk \in [1..n -> 1..BatchLen]
  BY DEF Chunks
<1>2. new \in [1..n -> Entry] /\ n \in Nat
  BY <1>1, SizesAssumption DEF Entry
<1>3. new \in Seq(Entry) /\ Len(new) = n
  BY <1>2, SeqDef, LenProperties, IsASeq
<1>4. log' = log \o new
  BY DEF Add
<1> HIDE DEF new
<1>5. log' \in Seq(Entry) /\ Len(log') = Len(log) + n
  BY <1>3, <1>4, ConcatProperties DEF StreamShape
<1>6. Len(log) \in Nat
  BY LenProperties DEF StreamShape
<1> QED
  BY <1>2, <1>5, <1>6, SizesAssumption DEF Add, StreamShape, Grows

(* A measured length stays sound meanwhile.                                 *)
LEMMA SoundStays ==
  ASSUME NEW len, NEW base, NEW n \in Nat, NEW t \in Nat, NEW n2 \in Nat, NEW t2 \in Nat,
         Sound(len, base, n, t), n <= n2, t <= t2, t2 # t => n2 - t2 >= MaxLen
  PROVE  Sound(len, base, n2, t2)
<1>1. CASE t2 = t
  BY <1>1, SizesAssumption DEF Sound, TooLong
<1>2. CASE t2 # t
  BY <1>2, SizesAssumption DEF Sound, TooLong
<1> QED
  BY <1>1, <1>2

(* The length that a new replica has in its cache, and one that is new.     *)
LEMMA SoundFirst ==
  ASSUME NEW n \in Nat, NEW t \in Nat, t <= n
  PROVE  /\ Sound(0, 0, n, t) /\ ~TooLong(0)
         /\ n - t \in Nat /\ Sound(n - t, n, n, t)
  BY SizesAssumption DEF Sound, TooLong

(* What a trim says of a length that was below the threshold.               *)
LEMMA SlackUsed ==
  ASSUME NEW len \in Nat, NEW base \in Nat, NEW t \in Nat, NEW t2 \in Nat, NEW n2 \in Nat,
         len < Threshold, base <= len + t, t < t2, n2 - t2 >= MaxLen
  PROVE  n2 - base >= MaxLen - Threshold + 2
  BY SizesAssumption

(* Every step leaves the stream's entries alone or is a write.              *)
LEMMA WritesOnly ==
  ASSUME [Next]_vars
  PROVE  UNCHANGED <<log, trimmedTo>> \/ \E b \in Batches, chunk \in Chunks : Add(b, chunk)
<1>1. Next => \/ UNCHANGED <<log, trimmedTo>>
              \/ \E b \in Batches, s \in Slots : Write(b, s) \/ CallFails(b, s) \/ CallHangs(b, s)
  BY DEF Next, Handle, Send, MeasureLen, CheckLen, Timeout, CacheExpires, Crash, Process,
     streamVars
<1>2. ASSUME NEW b \in Batches, NEW s \in Slots,
             Write(b, s) \/ CallFails(b, s) \/ CallHangs(b, s)
      PROVE  UNCHANGED <<log, trimmedTo>> \/ \E chunk \in Chunks : Add(b, chunk)
  BY <1>2, WholeChunk DEF Write, CallFails, CallHangs, streamVars
<1> QED
  BY <1>1, <1>2 DEF vars, streamVars

(* What every step does to the stream.                                      *)
LEMMA StreamStep ==
  ASSUME StreamShape, [Next]_vars
  PROVE  StreamShape' /\ Grows
<1>1. CASE UNCHANGED <<log, trimmedTo>>
  <2>1. Len(log) \in Nat
    BY LenProperties DEF StreamShape
  <2> QED
    BY <1>1, <2>1 DEF StreamShape, Grows
<1>2. CASE \E b \in Batches, chunk \in Chunks : Add(b, chunk)
  BY <1>2, AddGrows
<1> QED
  BY <1>1, <1>2, WritesOnly

LEMMA AdmitInit ==
  ASSUME Init
  PROVE  AdmitInv
<1>1. log = <<>> /\ trimmedTo = 0 /\ Len(<<>>) = 0 /\ <<>> \in Seq(Entry)
  BY EmptySeq DEF Init
<1>2. Sound(0, 0, 0, 0) /\ ~TooLong(0)
  BY SizesAssumption DEF Sound, TooLong
<1>3. PICK p \in Replicas : handler = [b \in Batches |-> [s \in Slots |-> Idle(p)]]
  BY DEF Init
<1>4. Idle(p) \in Handler /\ Idle(p).step = "none" /\ Idle(p).len = 0 /\ Idle(p).base = 0
  BY DEF Idle, Handler, Steps
<1>5. HandlerSound
  BY <1>1, <1>2, <1>3, <1>4 DEF HandlerSound
<1>6. CacheSound
  BY <1>1, <1>2 DEF CacheSound, Init
<1> QED
  BY <1>1, <1>5, <1>6 DEF AdmitInv, StreamShape

LEMMA AdmitStep ==
  ASSUME AdmitInv, [Next]_vars
  PROVE  AdmitInv'
<1> DEFINE Now(len, base)  == Sound(len, base, Len(log), trimmedTo)
           Then(len, base) == Sound(len, base, Len(log'), trimmedTo')
<1>1. StreamShape' /\ Grows
  BY StreamStep DEF AdmitInv
<1>2. /\ Len(log) \in Nat /\ Len(log') \in Nat /\ trimmedTo \in Nat /\ trimmedTo' \in Nat
      /\ trimmedTo <= Len(log) /\ trimmedTo' <= Len(log')
  BY <1>1, LenProperties DEF AdmitInv, StreamShape
<1>3. \A len, base : Now(len, base) => Then(len, base)
  BY <1>1, <1>2, SoundStays DEF Grows
<1>4. /\ Then(0, 0) /\ ~TooLong(0)
      /\ XLen \in Nat /\ Now(XLen, Len(log))
  BY <1>2, SoundFirst DEF XLen
<1>5. /\ handler \in [Batches -> [Slots -> Handler]]
      /\ cached \in [Replicas -> Nat] /\ measured \in [Replicas -> Nat]
      /\ \A p \in Replicas : Then(cached[p], measured[p])
      /\ \A b \in Batches, s \in Slots :
           /\ Now(handler[b][s].len, handler[b][s].base)
           /\ Then(handler[b][s].len, handler[b][s].base)
           /\ handler[b][s] \in Handler
           /\ handler[b][s].step = "write" => ~TooLong(handler[b][s].len)
  BY <1>3 DEF AdmitInv, CacheSound, HandlerSound
<1>6. \A p \in Replicas : Idle(p) \in Handler /\ Idle(p).step = "none"
                          /\ Idle(p).len = 0 /\ Idle(p).base = 0
  BY DEF Idle, Handler, Steps
<1>7. CacheSound'
  <2>1. CASE UNCHANGED <<cached, measured>>
    BY <1>5, <2>1 DEF CacheSound
  <2>2. ASSUME NEW b \in Batches, NEW s \in Slots, CheckLen(b, s) PROVE CacheSound'
    <3>1. handler[b][s].at \in Replicas /\ handler[b][s].len \in Nat /\ handler[b][s].base \in Nat
      BY <1>5 DEF Handler
    <3>2. /\ cached' = [cached EXCEPT ![handler[b][s].at] = handler[b][s].len]
          /\ measured' = [measured EXCEPT ![handler[b][s].at] = handler[b][s].base]
      BY <2>2 DEF CheckLen
    <3> QED
      BY <1>5, <3>1, <3>2 DEF CacheSound
  <2>3. ASSUME NEW p \in Replicas, Crash(p) PROVE CacheSound'
    BY <1>4, <1>5, <2>3 DEF CacheSound, Crash
  <2>4. Next => \/ UNCHANGED <<cached, measured>> \/ \E p \in Replicas : Crash(p)
                \/ \E b \in Batches, s \in Slots : CheckLen(b, s)
    BY DEF Next, Handle, Send, MeasureLen, Write, CallFails, CallHangs, Timeout, CacheExpires,
       Process, cacheVars
  <2> QED
    BY <2>1, <2>2, <2>3, <2>4 DEF vars, cacheVars
<1>8. HandlerSound'
  <2> DEFINE Fine(h) == /\ h \in Handler /\ Then(h.len, h.base)
                        /\ h.step = "write" => ~TooLong(h.len)
  <2>1. \A b \in Batches, s \in Slots : Fine(handler[b][s])
    BY <1>5
  <2>2. \A p \in Replicas : Fine(Idle(p))
    BY <1>4, <1>6
  <2>3. ASSUME NEW b \in Batches, NEW s \in Slots, NEW h, Fine(h),
               handler' = [handler EXCEPT ![b][s] = h]
        PROVE  HandlerSound'
    BY <1>5, <2>1, <2>3 DEF HandlerSound
  <2>4. CASE handler' = handler
    BY <1>5, <2>4 DEF HandlerSound
  <2>5. ASSUME NEW b \in Batches, NEW s \in Slots, Ends(b, s) PROVE HandlerSound'
    <3>1. handler[b][s].at \in Replicas
      BY <1>5 DEF Handler
    <3>2. handler' = [handler EXCEPT ![b][s] = Idle(handler[b][s].at)]
      BY <1>5, <2>5 DEF Ends
    <3> QED
      BY <2>2, <2>3, <3>1, <3>2
  <2>6. ASSUME NEW b \in Batches, NEW s \in Slots, NEW p \in Replicas, Send(b, s, p)
        PROVE  HandlerSound'
    <3> DEFINE step == IF fresh[p] THEN "write" ELSE "xlen"
               h == [step |-> step, at |-> p, len |-> cached[p], base |-> measured[p]]
    <3>1. handler' = handler \/ (handler' = [handler EXCEPT ![b][s] = h] /\ (fresh[p] => ~TooLong(cached[p])))
      BY <2>6 DEF Send
    <3>2. (fresh[p] => ~TooLong(cached[p])) => Fine(h)
      BY <1>5 DEF Handler, Steps
    <3> QED
      BY <2>3, <2>4, <3>1, <3>2
  <2>7. ASSUME NEW b \in Batches, NEW s \in Slots, MeasureLen(b, s) PROVE HandlerSound'
    <3> DEFINE h == [handler[b][s] EXCEPT !.step = "reply", !.len = XLen, !.base = Len(log)]
    <3>1. handler' = [handler EXCEPT ![b][s] = h]
      BY <2>7 DEF MeasureLen
    <3>2. h \in Handler /\ h.step = "reply" /\ h.len = XLen /\ h.base = Len(log)
      <4> HIDE DEF Now, Then, Fine
      <4> QED
        BY <1>2, <1>4, <1>5 DEF Handler, Steps
    <3>3. Fine(h)
      BY <1>3, <1>4, <3>2
    <3> QED
      BY <2>3, <3>1, <3>3
  <2>8. ASSUME NEW b \in Batches, NEW s \in Slots, CheckLen(b, s) PROVE HandlerSound'
    <3> DEFINE h == [handler[b][s] EXCEPT !.step = "write"]
    <3>1. Ends(b, s) \/ (handler' = [handler EXCEPT ![b][s] = h] /\ ~TooLong(handler[b][s].len))
      BY <2>8 DEF CheckLen, Refuse
    <3>2. ~TooLong(handler[b][s].len) => Fine(h)
      BY <1>5 DEF Handler, Steps
    <3> QED
      BY <2>3, <2>5, <3>1, <3>2
  <2>9. ASSUME NEW b \in Batches, NEW s \in Slots, CallHangs(b, s) PROVE HandlerSound'
    <3> DEFINE h == [handler[b][s] EXCEPT !.step = "hung"]
    <3>1. handler' = [handler EXCEPT ![b][s] = h]
      BY <2>9 DEF CallHangs
    <3>2. Fine(h)
      BY <1>5 DEF Handler, Steps
    <3> QED
      BY <2>3, <3>1, <3>2
  <2>10. ASSUME NEW p \in Replicas, Crash(p) PROVE HandlerSound'
    <3>1. handler' = [b \in Batches |-> [s \in Slots |->
                        IF handler[b][s].at = p THEN Idle(p) ELSE handler[b][s]]]
      BY <2>10 DEF Crash
    <3> QED
      BY <2>1, <2>2, <3>1 DEF HandlerSound
  <2>11. Next => \/ handler' = handler
                 \/ \E b \in Batches, s \in Slots :
                      \/ Ends(b, s) \/ MeasureLen(b, s) \/ CheckLen(b, s) \/ CallHangs(b, s)
                      \/ \E p \in Replicas : Send(b, s, p)
                 \/ \E p \in Replicas : Crash(p)
    BY DEF Next, Handle, Write, CallFails, Timeout, CacheExpires, Process
  <2> QED
    BY <2>4, <2>5, <2>6, <2>7, <2>8, <2>9, <2>10, <2>11 DEF vars
<1> QED
  BY <1>1, <1>7, <1>8 DEF AdmitInv

(* A stale cache refuses no batch while the stream is below the threshold:  *)
(* the length in the cache was reached, and the stream does not shrink      *)
(* below the threshold again.                                               *)
THEOREM RefusalsSound == Spec => RefusalNotStale
<1>1. AdmitInv /\ [Next]_vars => [refused' # refused => XLen >= Threshold]_vars
  <2> SUFFICES ASSUME AdmitInv, Next, refused' # refused PROVE XLen >= Threshold
    OBVIOUS
  <2>1. (\E b \in Batches, s \in Slots, p \in Replicas : Send(b, s, p)) \/ (\E b \in Batches, s \in Slots : CheckLen(b, s))
    BY DEF Next, Handle, MeasureLen, Write, CallFails, CallHangs, Timeout, CacheExpires, Crash,
       Process, clientVars
  <2>2. ASSUME NEW b \in Batches, NEW s \in Slots, NEW p \in Replicas, Send(b, s, p)
        PROVE  XLen >= Threshold
    <3>1. TooLong(cached[p])
      BY <2>2 DEF Send
    <3> QED
      BY <3>1 DEF AdmitInv, CacheSound, Sound, XLen
  <2>3. ASSUME NEW b \in Batches, NEW s \in Slots, CheckLen(b, s) PROVE XLen >= Threshold
    <3>1. TooLong(handler[b][s].len)
      BY <2>3 DEF CheckLen, clientVars
    <3> QED
      BY <3>1 DEF AdmitInv, HandlerSound, Sound, XLen
  <2> QED
    BY <2>1, <2>2, <2>3
<1> QED
  BY <1>1, AdmitInit, AdmitStep, PTL DEF Spec, RefusalNotStale

(* MAXLEN removes entries only after a burst that used up the slack between *)
(* the two limits since the admission of the batch being written.           *)
THEOREM TrimsNeedBursts == Spec => TrimNeedsBurst
<1>1. AdmitInv /\ [Next]_vars =>
        [trimmedTo' # trimmedTo =>
           \E b \in Batches, s \in Slots :
             /\ handler[b][s].step = "write" /\ handler'[b][s].step # "write"
             /\ Len(log') - handler[b][s].base >= MaxLen - Threshold + 2]_vars
  <2> SUFFICES ASSUME AdmitInv, Next, trimmedTo' # trimmedTo
               PROVE  \E b \in Batches, s \in Slots :
                        /\ handler[b][s].step = "write" /\ handler'[b][s].step # "write"
                        /\ Len(log') - handler[b][s].base >= MaxLen - Threshold + 2
    OBVIOUS
  <2>1. PICK b \in Batches, s \in Slots : Write(b, s) \/ CallFails(b, s) \/ CallHangs(b, s)
    BY DEF Next, Handle, Send, MeasureLen, CheckLen, Timeout, CacheExpires, Crash, Process,
       streamVars
  <2>2. /\ handler[b][s].step = "write"
        /\ Ends(b, s) \/ handler' = [handler EXCEPT ![b][s].step = "hung"]
    BY <2>1 DEF Write, CallFails, CallHangs, streamVars
  <2>3. handler[b][s] \in Handler /\ handler \in [Batches -> [Slots -> Handler]]
    BY DEF AdmitInv, HandlerSound
  <2>4. handler'[b][s].step # "write"
    BY <2>2, <2>3 DEF Ends, Idle, Handler
  <2>5. StreamShape' /\ Grows
    BY StreamStep DEF AdmitInv
  <2>6. Len(log') \in Nat /\ trimmedTo \in Nat /\ trimmedTo' \in Nat
    BY <2>5, LenProperties DEF AdmitInv, StreamShape
  <2>7. Len(log') - trimmedTo' >= MaxLen /\ trimmedTo < trimmedTo'
    BY <2>5, <2>6 DEF Grows
  <2>8. /\ handler[b][s].len \in Nat /\ handler[b][s].base \in Nat
        /\ handler[b][s].base <= handler[b][s].len + trimmedTo
        /\ handler[b][s].len < Threshold
    BY <2>2, SizesAssumption DEF AdmitInv, HandlerSound, Sound, TooLong
  <2>9. Len(log') - handler[b][s].base >= MaxLen - Threshold + 2
    BY <2>6, <2>7, <2>8, SlackUsed
  <2> QED
    BY <2>2, <2>4, <2>9
<1> QED
  BY <1>1, AdmitInit, AdmitStep, PTL DEF Spec, TrimNeedsBurst
-----------------------------------------------------------------------------
(* A write appends its events, in their order, to what the stream has.      *)
LEMMA AddAppends ==
  ASSUME StreamShape, NEW b \in Batches, NEW chunk \in Chunks, Add(b, chunk)
  PROVE  /\ \A i \in DOMAIN log : i \in DOMAIN log' /\ log'[i] = log[i]
         /\ \A i \in DOMAIN chunk :
              \E j \in DOMAIN log' : log'[j] = [batch |-> b, event |-> chunk[i]]
<1> DEFINE new == [i \in DOMAIN chunk |-> [batch |-> b, event |-> chunk[i]]]
<1>1. PICK n \in 0..BatchLen : chunk \in [1..n -> 1..BatchLen]
  BY DEF Chunks
<1>2. new \in [1..n -> Entry] /\ n \in Nat
  BY <1>1, SizesAssumption DEF Entry
<1>3. new \in Seq(Entry) /\ Len(new) = n
  BY <1>2, SeqDef, LenProperties, IsASeq
<1>4. log' = log \o new
  BY DEF Add
<1>5. \A i \in DOMAIN chunk : i \in 1..n /\ new[i] = [batch |-> b, event |-> chunk[i]]
  BY <1>1
<1> HIDE DEF new
<1>6. Len(log) \in Nat /\ DOMAIN log = 1..Len(log)
  BY LenProperties DEF StreamShape
<1>7. /\ log' \in Seq(Entry) /\ Len(log') = Len(log) + n
      /\ \A i \in 1..Len(log) + n :
           log'[i] = IF i <= Len(log) THEN log[i] ELSE new[i - Len(log)]
  BY <1>3, <1>4, ConcatProperties DEF StreamShape
<1>8. DOMAIN log' = 1..Len(log) + n
  BY <1>7, LenProperties
<1>9. \A i \in DOMAIN log : i \in DOMAIN log' /\ log'[i] = log[i]
  BY <1>2, <1>6, <1>7, <1>8
<1>10. ASSUME NEW i \in DOMAIN chunk
       PROVE  \E j \in DOMAIN log' : log'[j] = [batch |-> b, event |-> chunk[i]]
  <2>1. i \in 1..n /\ new[i] = [batch |-> b, event |-> chunk[i]]
    BY <1>5
  <2>2. /\ Len(log) + i \in DOMAIN log' /\ ~(Len(log) + i <= Len(log))
        /\ (Len(log) + i) - Len(log) = i
    BY <1>2, <1>6, <1>8, <2>1
  <2>3. log'[Len(log) + i] = new[i]
    BY <1>7, <1>8, <2>2
  <2> QED
    BY <2>1, <2>2, <2>3
<1> QED
  BY <1>9, <1>10

(* No entry is ever replaced: a step leaves the log alone or appends.       *)
LEMMA LogKept ==
  ASSUME StreamShape, [Next]_vars
  PROVE  \A i \in DOMAIN log : i \in DOMAIN log' /\ log'[i] = log[i]
  BY WritesOnly, AddAppends

(* No other action changes what is accepted.                                *)
LEMMA AcceptsOnly ==
  ASSUME [Next]_vars
  PROVE  accepted' = accepted \/ \E b \in Batches, s \in Slots : Write(b, s)
<1>1. ASSUME NEW b \in Batches, NEW s \in Slots, Handle(b, s), ~Write(b, s)
      PROVE  accepted' = accepted
  <2>1. ASSUME NEW p \in Replicas, Send(b, s, p) PROVE accepted' = accepted
    BY <2>1 DEF Send
  <2>2. CASE CheckLen(b, s)
    BY <2>2 DEF CheckLen, Refuse, clientVars
  <2>3. CASE MeasureLen(b, s) \/ CallFails(b, s) \/ CallHangs(b, s)
    BY <2>3 DEF MeasureLen, CallFails, CallHangs, clientVars
  <2> QED
    BY <1>1, <2>1, <2>2, <2>3 DEF Handle
<1>2. ASSUME NEW b \in Batches, Timeout(b) PROVE accepted' = accepted
  BY <1>2 DEF Timeout
<1>3. ASSUME NEW p \in Replicas, CacheExpires(p) \/ Crash(p) PROVE accepted' = accepted
  BY <1>3 DEF CacheExpires, Crash, clientVars
<1>4. CASE Process
  BY <1>4 DEF Process, clientVars
<1> QED
  BY <1>1, <1>2, <1>3, <1>4 DEF Next, vars, clientVars

(* Only a write that adds the whole batch makes it accepted.                *)
LEMMA CompleteStep ==
  ASSUME StreamShape, Complete, [Next]_vars
  PROVE  Complete'
<1> DEFINE In(b, e)   == \E i \in DOMAIN log : log[i] = [batch |-> b, event |-> e]
           InNow(b, e) == \E i \in DOMAIN log' : log'[i] = [batch |-> b, event |-> e]
<1>1. \A b \in accepted : \A e \in 1..BatchLen : In(b, e)
  BY DEF Complete
<1>2. \A b, e : In(b, e) => InNow(b, e)
  BY LogKept
<1>3. SUFFICES ASSUME NEW b \in accepted', NEW e \in 1..BatchLen PROVE InNow(b, e)
  BY DEF Complete
<1>4. CASE b \in accepted
  BY <1>1, <1>2, <1>4
<1>5. CASE b \notin accepted
  <2>1. PICK c \in Batches, s \in Slots : Write(c, s)
    BY <1>5, AcceptsOnly
  <2>2. c = b
    BY <1>5, <2>1 DEF Write
  <2>3. Add(b, Whole) /\ Whole \in Chunks
    BY <2>1, <2>2, WholeChunk DEF Write
  <2>4. e \in DOMAIN Whole /\ Whole[e] = e
    BY DEF Whole
  <2> QED
    BY <2>2, <2>3, <2>4, AddAppends
<1> QED
  BY <1>4, <1>5

(* The answer 202 is never given for a batch that the stream lacks a part   *)
(* of, whatever handlers of it have failed, hung or been left behind.       *)
THEOREM AcceptedBatchesComplete == Spec => []Complete
<1>1. Init => StreamShape /\ Complete
  BY AdmitInit DEF Init, Complete, AdmitInv
<1>2. StreamShape /\ Complete /\ [Next]_vars => (StreamShape /\ Complete)'
  BY StreamStep, CompleteStep
<1> QED
  BY <1>1, <1>2, PTL DEF Spec
-----------------------------------------------------------------------------
(* The variables the admission says nothing of.                             *)
RestTyped ==
  /\ processed \in 0..Len(log)
  /\ fresh \in [Replicas -> BOOLEAN]
  /\ accepted \subseteq Batches /\ refused \subseteq Batches
  /\ faults \in 0..MaxFaults

(* A client awaits a handler that exists.                                   *)
AwaitsHandler ==
  /\ waits \in [Batches -> {0} \cup Slots]
  /\ \A b \in Batches : waits[b] # 0 => handler[b][waits[b]].step # "none"

LEMMA RestStep ==
  ASSUME AdmitInv, RestTyped, [Next]_vars
  PROVE  RestTyped'
<1>1. StreamShape' /\ Grows
  BY StreamStep DEF AdmitInv
<1>2. Len(log) \in Nat /\ Len(log') \in Nat /\ Len(log) <= Len(log')
  BY <1>1, LenProperties DEF AdmitInv, StreamShape, Grows
<1> DEFINE Kept == /\ fresh' \in [Replicas -> BOOLEAN]
                   /\ accepted' \subseteq Batches /\ refused' \subseteq Batches
                   /\ faults' = faults \/ Fault
                   /\ processed' = processed
<1>3. ASSUME NEW b \in Batches, NEW s \in Slots, Handle(b, s) PROVE Kept
  <2>1. ASSUME NEW p \in Replicas, Send(b, s, p) PROVE Kept
    BY <2>1 DEF RestTyped, Send, streamVars, cacheVars
  <2>2. CASE CheckLen(b, s)
    BY <2>2 DEF RestTyped, CheckLen, Refuse, streamVars, clientVars
  <2>3. CASE MeasureLen(b, s)
    BY <2>3 DEF RestTyped, MeasureLen, streamVars, cacheVars, clientVars
  <2>4. CASE Write(b, s)
    BY <2>4 DEF RestTyped, Write, Add, cacheVars
  <2>5. CASE CallFails(b, s) \/ CallHangs(b, s)
    <3>1. processed' = processed /\ Fault
      BY <2>5 DEF CallFails, CallHangs, Add, streamVars
    <3>2. UNCHANGED <<fresh, accepted, refused>>
      BY <2>5 DEF CallFails, CallHangs, cacheVars, clientVars
    <3> QED
      BY <3>1, <3>2 DEF RestTyped
  <2> QED
    BY <1>3, <2>1, <2>2, <2>3, <2>4, <2>5 DEF Handle
<1>4. ASSUME NEW b \in Batches, Timeout(b) PROVE Kept
  BY <1>4 DEF RestTyped, Timeout, streamVars, cacheVars
<1>5. ASSUME NEW p \in Replicas, CacheExpires(p) \/ Crash(p) PROVE Kept
  BY <1>5 DEF RestTyped, CacheExpires, Crash, streamVars, clientVars
<1>6. CASE Process
  <2>1. processed' \in 0..Len(log')
    BY <1>2, <1>6 DEF Process, RestTyped, AdmitInv, StreamShape
  <2> QED
    BY <1>6, <2>1 DEF Process, RestTyped, cacheVars, clientVars
<1>7. CASE Kept
  BY <1>2, <1>7, SizesAssumption DEF RestTyped, Fault
<1>8. CASE UNCHANGED vars
  BY <1>2, <1>8 DEF RestTyped, vars, streamVars, cacheVars, clientVars
<1> QED
  BY <1>3, <1>4, <1>5, <1>6, <1>7, <1>8 DEF Next

(* A step that ends a handler, or starts one, keeps the client's wait right.*)
LEMMA AwaitsStep ==
  ASSUME AdmitInv, AwaitsHandler, [Next]_vars
  PROVE  AwaitsHandler'
<1> DEFINE Awaits(w, h) == w \in {0} \cup Slots /\ (w # 0 => h[w].step # "none")
<1>1. /\ handler \in [Batches -> [Slots -> Handler]] /\ waits \in [Batches -> {0} \cup Slots]
      /\ \A b \in Batches : Awaits(waits[b], handler[b])
      /\ \A b \in Batches, s \in Slots : handler[b][s] \in Handler
  BY DEF AdmitInv, HandlerSound, AwaitsHandler
<1>2. 0 \notin Slots
  BY DEF Slots
<1>3. ASSUME NEW b \in Batches, NEW s \in Slots, NEW h,
             handler' = [handler EXCEPT ![b][s] = h], h.step # "none", waits' = waits
      PROVE  AwaitsHandler'
  BY <1>1, <1>3 DEF AwaitsHandler
<1>4. ASSUME NEW b \in Batches, NEW s \in Slots, Ends(b, s) PROVE AwaitsHandler'
  <2>1. CASE waits[b] = s
    BY <1>1, <1>2, <1>4, <2>1 DEF Ends, AwaitsHandler
  <2>2. CASE waits[b] # s
    BY <1>1, <1>4, <2>2 DEF Ends, AwaitsHandler
  <2> QED
    BY <2>1, <2>2
<1>5. ASSUME NEW b \in Batches, NEW s \in Slots, NEW p \in Replicas, Send(b, s, p)
      PROVE  AwaitsHandler'
  <2> DEFINE h == [step |-> IF fresh[p] THEN "write" ELSE "xlen", at |-> p, len |-> cached[p],
                   base |-> measured[p]]
  <2>1. \/ UNCHANGED <<handler, waits>>
        \/ handler' = [handler EXCEPT ![b][s] = h] /\ waits' = [waits EXCEPT ![b] = s]
    BY <1>5 DEF Send
  <2>2. h.step # "none"
    OBVIOUS
  <2> HIDE DEF h
  <2>3. CASE UNCHANGED <<handler, waits>>
    BY <2>3 DEF AwaitsHandler
  <2>4. CASE handler' = [handler EXCEPT ![b][s] = h] /\ waits' = [waits EXCEPT ![b] = s]
    <3>1. waits' \in [Batches -> {0} \cup Slots]
      BY <1>1, <2>4
    <3>2. \A c \in Batches : waits'[c] # 0 => handler'[c][waits'[c]].step # "none"
      BY <1>1, <2>2, <2>4
    <3> QED
      BY <3>1, <3>2 DEF AwaitsHandler
  <2> QED
    BY <2>1, <2>3, <2>4
<1>6. ASSUME NEW b \in Batches, NEW s \in Slots, CheckLen(b, s) PROVE AwaitsHandler'
  <2>1. \/ Ends(b, s)
        \/ handler' = [handler EXCEPT ![b][s] = [handler[b][s] EXCEPT !.step = "write"]]
           /\ waits' = waits
    BY <1>6 DEF CheckLen, Refuse, clientVars
  <2>2. [handler[b][s] EXCEPT !.step = "write"].step # "none"
    BY <1>1 DEF Handler
  <2> QED
    BY <1>3, <1>4, <2>1, <2>2
<1>7. ASSUME NEW b \in Batches, NEW s \in Slots, MeasureLen(b, s) \/ CallHangs(b, s)
      PROVE  AwaitsHandler'
  <2>1. PICK h : /\ handler' = [handler EXCEPT ![b][s] = h] /\ h.step # "none"
                 /\ waits' = waits
    <3>1. CASE MeasureLen(b, s)
      <4>1. [handler[b][s] EXCEPT !.step = "reply", !.len = XLen, !.base = Len(log)].step = "reply"
        BY <1>1 DEF Handler
      <4> QED
        BY <3>1, <4>1 DEF MeasureLen, clientVars
    <3>2. CASE CallHangs(b, s)
      <4>1. [handler[b][s] EXCEPT !.step = "hung"].step = "hung"
        BY <1>1 DEF Handler
      <4>2. handler' = [handler EXCEPT ![b][s] = [handler[b][s] EXCEPT !.step = "hung"]]
        BY <3>2 DEF CallHangs
      <4> QED
        BY <3>2, <4>1, <4>2 DEF CallHangs, clientVars
    <3> QED
      BY <1>7, <3>1, <3>2
  <2> QED
    BY <1>3, <2>1
<1>8. ASSUME NEW b \in Batches, Timeout(b) PROVE AwaitsHandler'
  BY <1>1, <1>8 DEF Timeout, AwaitsHandler
<1>9. ASSUME NEW p \in Replicas, Crash(p) PROVE AwaitsHandler'
  BY <1>1, <1>9 DEF Crash, AwaitsHandler
<1>10. CASE UNCHANGED <<handler, waits>>
  BY <1>10 DEF AwaitsHandler
<1>11. Next => \/ UNCHANGED <<handler, waits>>
               \/ \E b \in Batches, s \in Slots :
                    \/ Ends(b, s) \/ CheckLen(b, s) \/ MeasureLen(b, s) \/ CallHangs(b, s)
                    \/ \E p \in Replicas : Send(b, s, p)
               \/ (\E b \in Batches : Timeout(b)) \/ \E p \in Replicas : Crash(p)
  BY DEF Next, Handle, Write, CallFails, CacheExpires, Process, clientVars
<1> QED
  BY <1>4, <1>5, <1>6, <1>7, <1>8, <1>9, <1>10, <1>11 DEF vars, clientVars, AwaitsHandler

(* The variables of the ingest keep their types, and no client awaits a     *)
(* handler that has ended.                                                  *)
THEOREM IngestTyped == Spec => []TypeOK
<1> DEFINE Inv == AdmitInv /\ RestTyped /\ AwaitsHandler
<1>1. Init => Inv
  <2> SUFFICES ASSUME Init PROVE Inv
    OBVIOUS
  <2>1. RestTyped
    <3>1. Len(log) = 0
      BY EmptySeq DEF Init
    <3> QED
      BY <3>1, SizesAssumption DEF Init, RestTyped
  <2>2. AwaitsHandler
    BY DEF Init, AwaitsHandler
  <2> QED
    BY <2>1, <2>2, AdmitInit
<1>2. Inv /\ [Next]_vars => Inv'
  BY AdmitStep, RestStep, AwaitsStep
<1>3. Inv => TypeOK
  <2> SUFFICES ASSUME Inv PROVE TypeOK
    OBVIOUS
  <2>1. Len(log) \in Nat
    BY LenProperties DEF AdmitInv, StreamShape
  <2> QED
    BY <2>1 DEF AdmitInv, StreamShape, CacheSound, HandlerSound, RestTyped, AwaitsHandler, TypeOK
<1> QED
  BY <1>1, <1>2, <1>3, PTL DEF Spec
=============================================================================
