--------------------------- MODULE SdkQueueProofs ---------------------------
(* The invariants of SdkQueue for every number of events and every flushSize*)
(* and maxQueueSize, also when the queue is smaller than a batch: BoundInv  *)
(* is about lengths, OrderInv about which events are held, and in which     *)
(* order.                                                                   *)
EXTENDS SdkQueue, SequenceTheorems, TLAPS

Limit == MaxQueueSize + FlushSize

(* A queue of at most n events.                                             *)
Fits(q, n) == q \in Seq(Events) /\ Len(q) <= n

(* Inductive: the batch has at most FlushSize events, and what a new page   *)
(* may restore is within the limit too.                                     *)
BoundInv ==
  /\ queue \in Seq(Events) /\ Fits(inFlight, FlushSize) /\ SizeBound
  /\ payload \in Seq(Events) /\ inFlight \in {<<>>, payload}
  /\ Fits(storage, Limit) /\ drain \in Nat

(* Taking a batch keeps every event: batch and rest add up to the queue.    *)
LEMMA BeginFits ==
  ASSUME NEW q \in Seq(Events), Begin(q)
  PROVE  /\ queue' \in Seq(Events) /\ Fits(inFlight, FlushSize)' /\ payload' = inFlight'
         /\ Len(queue') + Len(inFlight') = Len(q)
<1> USE SizesAssumption
<1>1. Len(q) \in Nat /\ \A i \in 1..Len(q) : q[i] \in Events
  BY LenProperties
<1> DEFINE n == IF Len(q) < FlushSize THEN Len(q) ELSE FlushSize
<1>2. n \in Nat /\ n <= Len(q) /\ n <= FlushSize
  BY <1>1
<1>3. Prefix(q) \in Seq(Events) /\ Len(Prefix(q)) = n
  <2>1. \A i \in 1..n : q[i] \in Events
    BY <1>1, <1>2
  <2>2. SubSeq(q, 1, n) \in Seq(Events) /\ Len(SubSeq(q, 1, n)) = IF 1 <= n THEN n - 1 + 1 ELSE 0
    BY <1>2, <2>1, SubSeqProperties
  <2> QED
    BY <1>2, <2>2 DEF Prefix
<1>4. Suffix(q) \in Seq(Events) /\ Len(Suffix(q)) = Len(q) - n
  <2>1. \A i \in (FlushSize + 1)..Len(q) : q[i] \in Events
    BY <1>1
  <2>2. /\ SubSeq(q, FlushSize + 1, Len(q)) \in Seq(Events)
        /\ Len(SubSeq(q, FlushSize + 1, Len(q)))
             = IF FlushSize + 1 <= Len(q) THEN Len(q) - (FlushSize + 1) + 1 ELSE 0
    BY <1>1, <2>1, SubSeqProperties
  <2>3. CASE Len(q) < FlushSize
    BY <1>1, <2>2, <2>3 DEF Suffix
  <2>4. CASE ~(Len(q) < FlushSize)
    BY <1>1, <2>2, <2>4 DEF Suffix
  <2> QED
    BY <2>3, <2>4
<1> QED
  BY <1>1, <1>2, <1>3, <1>4 DEF Begin, Fits

LEMMA PersistFits ==
  ASSUME NEW q, Fits(q, Limit), Fits(storage, Limit), Persist(q)
  PROVE  Fits(storage, Limit)'
  BY DEF Persist, Fits, Limit

(* What flush() leaves behind is within the limit if the queue it got is.   *)
LEMMA SettleFits ==
  ASSUME NEW q, Fits(q, Limit), Fits(storage, Limit), drain \in Nat, Settle(q)
  PROVE  BoundInv'
<1> USE SizesAssumption
<1>1. q \in Seq(Events) /\ Len(q) \in Nat /\ Len(q) <= Limit
  BY LenProperties DEF Fits
<1>2. Fits(storage, Limit)'
  BY PersistFits DEF Settle
<1>3. CASE drain # 0 /\ q # <<>> /\ Len(q) < drain
  <2>1. Begin(q) /\ drain' = Len(q)
    BY <1>3 DEF Settle
  <2> QED
    BY <1>1, <1>2, <2>1, BeginFits DEF BoundInv, SizeBound, Limit, Fits
<1>4. CASE ~(drain # 0 /\ q # <<>> /\ Len(q) < drain)
  <2>1. queue' = q /\ inFlight' = <<>> /\ payload' = <<>> /\ drain' = 0
    BY <1>4 DEF Settle
  <2>2. <<>> \in Seq(Events) /\ Len(<<>>) = 0
    BY EmptySeq
  <2> QED
    BY <1>1, <1>2, <2>1, <2>2 DEF BoundInv, SizeBound, Limit, Fits
<1> QED
  BY <1>3, <1>4

LEMMA BoundInit == Init => BoundInv
<1>1. <<>> \in Seq(Events) /\ Len(<<>>) = 0
  BY EmptySeq
<1> QED
  BY <1>1, SizesAssumption DEF Init, BoundInv, SizeBound, Fits, Limit

LEMMA BoundStep == BoundInv /\ tracked \in Nat /\ [Next]_vars => BoundInv'
<1> SUFFICES ASSUME BoundInv, tracked \in Nat, [Next]_vars PROVE BoundInv'
  OBVIOUS
<1> USE SizesAssumption
<1>1. /\ queue \in Seq(Events) /\ Len(queue) \in Nat
      /\ inFlight \in Seq(Events) /\ Len(inFlight) \in Nat /\ Len(inFlight) <= FlushSize
      /\ Len(queue) + Len(inFlight) <= Limit /\ Limit \in Nat
      /\ Fits(queue, Limit) /\ Fits(storage, Limit) /\ drain \in Nat
  BY LenProperties DEF BoundInv, Fits, SizeBound, Limit
<1>2. <<>> \in Seq(Events) /\ Len(<<>>) = 0 /\ Fits(<<>>, Limit)
  BY <1>1, EmptySeq DEF Fits
<1>3. CASE Enqueue
  <2> DEFINE e == tracked + 1
             rest == IF Full THEN Tail(queue) ELSE queue
             q == Append(rest, e)
  <2>1. e \in Events
    BY <1>3 DEF Enqueue, Events
  <2>2. /\ rest \in Seq(Events) /\ Len(rest) \in Nat
        /\ Len(rest) + 1 <= Len(queue) \/ Len(rest) + 1 <= MaxQueueSize
    <3>1. CASE Full
      <4>1. queue # <<>>
        BY <1>1, <1>2, <3>1 DEF Full
      <4>2. Tail(queue) \in Seq(Events) /\ Len(Tail(queue)) = Len(queue) - 1
        BY <1>1, <4>1, HeadTailProperties
      <4> QED
        BY <1>1, <3>1, <4>2 DEF Full
    <3>2. CASE ~Full
      BY <1>1, <3>2 DEF Full
    <3> QED
      BY <3>1, <3>2
  <2>3. q \in Seq(Events) /\ Len(q) = Len(rest) + 1
    <3> HIDE DEF rest, e
    <3> QED
      BY <2>1, <2>2, AppendProperties
  <2>4. Len(q) \in Nat /\ Len(q) + Len(inFlight) <= Limit
    <3> HIDE DEF rest, q
    <3> QED
      BY <1>1, <2>2, <2>3 DEF Limit
  <2>5. Persist(q) /\ drain' = drain
    BY <1>3 DEF Enqueue, closeVars
  <2>6. Begin(q) \/ (queue' = q /\ UNCHANGED <<inFlight, payload>>)
    BY <1>3 DEF Enqueue
  <2> HIDE DEF q
  <2>7. Fits(q, Limit)
    BY <1>1, <2>3, <2>4 DEF Fits
  <2>8. Fits(storage, Limit)'
    BY <1>1, <2>5, <2>7, PersistFits
  <2>9. CASE Begin(q)
    <3>1. /\ queue' \in Seq(Events) /\ Fits(inFlight, FlushSize)' /\ payload' = inFlight'
          /\ Len(queue') + Len(inFlight') = Len(q)
      BY <2>3, <2>9, BeginFits
    <3>2. Len(queue') + Len(inFlight') <= MaxQueueSize + FlushSize
      BY <1>1, <2>4, <3>1 DEF Limit
    <3> QED
      BY <1>1, <2>5, <2>8, <3>1, <3>2 DEF BoundInv, SizeBound, Fits
  <2>10. CASE queue' = q /\ UNCHANGED <<inFlight, payload>>
    BY <1>1, <2>3, <2>4, <2>5, <2>8, <2>10 DEF BoundInv, SizeBound, Limit, Fits
  <2> QED
    BY <2>6, <2>9, <2>10
<1>4. CASE Tick
  <2>1. Begin(queue) /\ UNCHANGED <<storage, drain>>
    BY <1>4 DEF Tick, persistVars, closeVars
  <2> QED
    BY <1>1, <2>1, BeginFits DEF BoundInv, SizeBound, Limit, Fits
<1>5. CASE Settle(queue)
  BY <1>1, <1>5, SettleFits
<1>6. CASE SendOverQuota
  BY <1>1, <1>2, <1>6, SettleFits DEF SendOverQuota
<1>7. CASE Throws
  <2>1. /\ Persist(queue) /\ inFlight = <<>> /\ payload' = <<>> /\ drain' = 0
        /\ UNCHANGED <<queue, inFlight>>
    BY <1>7 DEF Throws
  <2>2. Fits(storage, Limit)'
    BY <1>1, <2>1, PersistFits
  <2> QED
    BY <1>1, <1>2, <2>1, <2>2 DEF BoundInv, SizeBound, Limit, Fits
<1>8. CASE Settle(Requeue(queue))
  <2>1. /\ inFlight \o queue \in Seq(Events)
        /\ Len(inFlight \o queue) = Len(inFlight) + Len(queue)
    BY <1>1, ConcatProperties
  <2>2. Fits(Requeue(queue), Limit)
    BY <1>1, <2>1 DEF Requeue, Fits
  <2> QED
    BY <1>1, <1>8, <2>2, SettleFits
<1>9. SendOk \/ SendFails \/ SendRefused => Settle(queue) \/ Throws \/ Settle(Requeue(queue))
  BY DEF SendOk, SendFails, SendRefused
<1>10. CASE Shutdown
  <2>1. UNCHANGED <<storage, stale>>
    BY <1>10 DEF Shutdown, persistVars
  <2>2. CASE UNCHANGED <<queue, inFlight, payload, drain>>
    BY <1>1, <2>1, <2>2 DEF BoundInv, SizeBound, Limit, Fits
  <2>3. CASE drain' = Len(queue) /\ Begin(queue)
    BY <1>1, <2>1, <2>3, BeginFits DEF BoundInv, SizeBound, Limit, Fits
  <2> QED
    BY <1>10, <2>2, <2>3 DEF Shutdown
<1>11. CASE FlushForUnload
  <2>1. /\ queue' = <<>> /\ inFlight' = <<>> /\ Persist(<<>>)
        /\ UNCHANGED <<payload, drain>>
    BY <1>11 DEF FlushForUnload, closeVars
  <2>2. Fits(storage, Limit)'
    BY <1>1, <1>2, <2>1, PersistFits
  <2> QED
    BY <1>1, <1>2, <2>1, <2>2 DEF BoundInv, SizeBound, Limit, Fits
<1>12. CASE Reload
  <2>1. PICK expired \in 0..Len(storage) :
          /\ queue' = SubSeq(storage, expired + 1, Len(storage))
          /\ inFlight' = <<>> /\ payload' = <<>> /\ drain' = 0
    BY <1>12 DEF Reload
  <2>2. storage' = storage
    BY <1>12 DEF Reload, persistVars
  <2>3. Len(storage) \in Nat /\ \A i \in 1..Len(storage) : storage[i] \in Events
    BY <1>1, LenProperties DEF Fits
  <2>4. \A i \in (expired + 1)..Len(storage) : storage[i] \in Events
    BY <2>1, <2>3
  <2>5. /\ queue' \in Seq(Events)
        /\ Len(queue') = IF expired + 1 <= Len(storage) THEN Len(storage) - (expired + 1) + 1 ELSE 0
    BY <2>1, <2>3, <2>4, SubSeqProperties
  <2> QED
    BY <1>1, <1>2, <2>1, <2>2, <2>3, <2>5 DEF BoundInv, SizeBound, Limit, Fits
<1>13. CASE BackoffOver \/ ShutdownTimeout \/ (\E b \in beacons : BeaconEnds(b)) \/ UNCHANGED vars
  <2>1. UNCHANGED <<queue, inFlight, payload, storage, drain>>
    BY <1>13 DEF BackoffOver, ShutdownTimeout, BeaconEnds, vars, closeVars, persistVars
  <2> QED
    BY <1>1, <2>1 DEF BoundInv, SizeBound, Limit, Fits
<1> QED
  BY <1>3, <1>4, <1>5, <1>6, <1>7, <1>8, <1>9, <1>10, <1>11, <1>12, <1>13 DEF Next

(* Whatever fails, fills up, unloads or reloads, the client holds at most   *)
(* maxQueueSize + flushSize events.                                         *)
THEOREM QueueBounded == Spec => []SizeBound
<1>1. Init => tracked \in Nat
  BY DEF Init
<1>2. tracked \in Nat /\ [Next]_vars => (tracked \in Nat)'
  <2> SUFFICES ASSUME tracked \in Nat, [Next]_vars PROVE tracked' \in Nat
    OBVIOUS
  <2>1. tracked' = tracked \/ Enqueue
    BY DEF Next, Tick, SendOk, SendFails, SendRefused, SendOverQuota, BackoffOver,
       Shutdown, ShutdownTimeout, FlushForUnload, Reload, BeaconEnds, vars
  <2>2. Enqueue => tracked' = tracked + 1
    BY DEF Enqueue
  <2> QED
    BY <2>1, <2>2
<1>3. BoundInv => SizeBound
  BY DEF BoundInv
<1> QED
  BY <1>1, <1>2, <1>3, BoundInit, BoundStep, PTL DEF Spec
-----------------------------------------------------------------------------
(* The sequence s in the order of track(), with no event twice, and none    *)
(* that was not tracked yet.                                                *)
Ordered(s, n) ==
  /\ s \in Seq(Events)
  /\ \A i \in 1..Len(s) : s[i] <= n
  /\ \A i, j \in 1..Len(s) : i < j => s[i] < s[j]

(* A batch and the rest make up the queue.                                  *)
LEMMA SplitQueue ==
  ASSUME NEW q \in Seq(Events)
  PROVE  /\ Prefix(q) \in Seq(Events) /\ Suffix(q) \in Seq(Events)
         /\ Prefix(q) \o Suffix(q) = q
<1> USE SizesAssumption
<1>1. Len(q) \in Nat /\ \A i \in 1..Len(q) : q[i] \in Events
  BY LenProperties
<1> DEFINE n == IF Len(q) < FlushSize THEN Len(q) ELSE FlushSize
<1>2. n \in Nat /\ n <= Len(q) /\ n <= FlushSize
  BY <1>1
<1>3. /\ Prefix(q) \in Seq(Events) /\ Len(Prefix(q)) = n
      /\ \A i \in 1..n : Prefix(q)[i] = q[i]
  <2>1. \A i \in 1..n : q[i] \in Events
    BY <1>1, <1>2
  <2>2. /\ SubSeq(q, 1, n) \in Seq(Events) /\ Len(SubSeq(q, 1, n)) = IF 1 <= n THEN n - 1 + 1 ELSE 0
        /\ \A i \in 1..n - 1 + 1 : SubSeq(q, 1, n)[i] = q[1 + i - 1]
    BY <1>2, <2>1, SubSeqProperties
  <2>3. Prefix(q) = SubSeq(q, 1, n)
    BY DEF Prefix
  <2> HIDE DEF n
  <2>4. Len(SubSeq(q, 1, n)) = n
    BY <1>2, <2>2
  <2>5. \A i \in 1..n : SubSeq(q, 1, n)[i] = q[i]
    BY <1>2, <2>2
  <2> QED
    BY <2>2, <2>3, <2>4, <2>5
<1>4. /\ Suffix(q) \in Seq(Events) /\ Len(Suffix(q)) = Len(q) - n
      /\ \A i \in 1..Len(q) - n : Suffix(q)[i] = q[i + n]
  <2>1. \A i \in (FlushSize + 1)..Len(q) : q[i] \in Events
    BY <1>1
  <2>2. /\ SubSeq(q, FlushSize + 1, Len(q)) \in Seq(Events)
        /\ Len(SubSeq(q, FlushSize + 1, Len(q)))
             = IF FlushSize + 1 <= Len(q) THEN Len(q) - (FlushSize + 1) + 1 ELSE 0
        /\ \A i \in 1..Len(q) - (FlushSize + 1) + 1 :
             SubSeq(q, FlushSize + 1, Len(q))[i] = q[FlushSize + 1 + i - 1]
    BY <1>1, <2>1, SubSeqProperties
  <2>3. CASE Len(q) < FlushSize
    <3>1. n = Len(q) /\ Len(Suffix(q)) = 0
      BY <1>1, <2>2, <2>3 DEF Suffix
    <3> HIDE DEF n
    <3> QED
      BY <1>1, <2>2, <3>1 DEF Suffix
  <2>4. CASE ~(Len(q) < FlushSize)
    <3>1. n = FlushSize /\ Len(Suffix(q)) = Len(q) - FlushSize
      BY <1>1, <2>2, <2>4 DEF Suffix
    <3>2. ASSUME NEW i \in 1..Len(q) - FlushSize PROVE Suffix(q)[i] = q[i + FlushSize]
      <4>1. i \in 1..Len(q) - (FlushSize + 1) + 1 /\ FlushSize + 1 + i - 1 = i + FlushSize
        BY <1>1
      <4> QED
        BY <2>2, <4>1 DEF Suffix
    <3> HIDE DEF n
    <3> QED
      BY <2>2, <3>1, <3>2 DEF Suffix
  <2> QED
    BY <2>3, <2>4
<1> HIDE DEF n
<1> DEFINE p == Prefix(q)
           s == Suffix(q)
<1>5. /\ p \o s \in Seq(Events) /\ Len(p \o s) = Len(q)
      /\ \A i \in 1..Len(q) : (p \o s)[i] = IF i <= n THEN p[i] ELSE s[i - n]
  <2>1. p \in Seq(Events) /\ s \in Seq(Events) /\ Len(p) = n /\ Len(s) = Len(q) - n /\ n + (Len(q) - n) = Len(q)
    BY <1>1, <1>2, <1>3, <1>4
  <2> HIDE DEF p, s
  <2>2. /\ p \o s \in Seq(Events) /\ Len(p \o s) = Len(p) + Len(s)
        /\ \A i \in 1..Len(p) + Len(s) : (p \o s)[i] = IF i <= Len(p) THEN p[i] ELSE s[i - Len(p)]
    BY <2>1, ConcatProperties
  <2> QED
    BY <2>1, <2>2
<1>6. ASSUME NEW i \in 1..Len(q) PROVE (p \o s)[i] = q[i]
  <2>1. CASE i <= n
    <3>1. i \in 1..n
      BY <1>2, <2>1
    <3> QED
      BY <1>3, <1>5, <2>1, <3>1
  <2>2. CASE ~(i <= n)
    <3>1. i - n \in 1..Len(q) - n /\ (i - n) + n = i
      BY <1>1, <1>2, <2>2
    <3> QED
      BY <1>4, <1>5, <2>2, <3>1
  <2> QED
    BY <2>1, <2>2
<1>7. p \o s = q
  <2> DEFINE ps == p \o s
  <2>1. ps \in Seq(Events) /\ Len(ps) = Len(q) /\ \A i \in 1..Len(q) : ps[i] = q[i]
    BY <1>5, <1>6
  <2> HIDE DEF ps
  <2>2. ps = q
    BY <2>1, SeqEqual
  <2> QED
    BY <2>2 DEF ps
<1> QED
  BY <1>3, <1>4, <1>7

LEMMA ConcatOrdered ==
  ASSUME NEW s \in Seq(Events), NEW t \in Seq(Events), NEW n \in Nat
  PROVE  /\ Elements(s \o t) = Elements(s) \cup Elements(t)
         /\ Ordered(s \o t, n) => Ordered(s, n) /\ Ordered(t, n)
<1>1. /\ Len(s) \in Nat /\ DOMAIN s = 1..Len(s) /\ Len(t) \in Nat /\ DOMAIN t = 1..Len(t)
      /\ s \o t \in Seq(Events) /\ Len(s \o t) = Len(s) + Len(t)
      /\ \A i \in 1..Len(s) + Len(t) : (s \o t)[i] = IF i <= Len(s) THEN s[i] ELSE t[i - Len(s)]
  BY LenProperties, ConcatProperties
<1>2. DOMAIN (s \o t) = 1..Len(s) + Len(t)
  BY <1>1, LenProperties
<1> DEFINE st == s \o t
<1>3. /\ DOMAIN st = 1..Len(s) + Len(t) /\ st \in Seq(Events) /\ Len(st) = Len(s) + Len(t)
      /\ \A i \in 1..Len(s) + Len(t) : st[i] = IF i <= Len(s) THEN s[i] ELSE t[i - Len(s)]
  BY <1>1, <1>2
<1> HIDE DEF st
<1>4. \A i \in 1..Len(s) : i \in 1..Len(s) + Len(t) /\ st[i] = s[i]
  BY <1>1, <1>3
<1>5. ASSUME NEW i \in 1..Len(t)
      PROVE  i + Len(s) \in 1..Len(s) + Len(t) /\ st[i + Len(s)] = t[i]
  <2>1. i + Len(s) \in 1..Len(s) + Len(t) /\ ~(i + Len(s) <= Len(s)) /\ (i + Len(s)) - Len(s) = i
    BY <1>1
  <2> QED
    BY <1>3, <2>1
<1>6. Elements(st) \subseteq Elements(s) \cup Elements(t)
  <2> SUFFICES ASSUME NEW i \in 1..Len(s) + Len(t) PROVE st[i] \in Elements(s) \cup Elements(t)
    BY <1>3 DEF Elements
  <2>1. CASE i <= Len(s)
    BY <1>1, <1>3, <2>1 DEF Elements
  <2>2. CASE ~(i <= Len(s))
    <3>1. i - Len(s) \in 1..Len(t)
      BY <1>1, <2>2
    <3> QED
      BY <1>1, <1>3, <2>2, <3>1 DEF Elements
  <2> QED
    BY <2>1, <2>2
<1>7. Elements(s) \subseteq Elements(st)
  BY <1>1, <1>3, <1>4 DEF Elements
<1>8. Elements(t) \subseteq Elements(st)
  BY <1>1, <1>3, <1>5 DEF Elements
<1>9. ASSUME Ordered(st, n) PROVE Ordered(s, n)
  <2>1. /\ \A i \in 1..Len(s) + Len(t) : st[i] <= n
        /\ \A i, j \in 1..Len(s) + Len(t) : i < j => st[i] < st[j]
    BY <1>3, <1>9 DEF Ordered
  <2> QED
    BY <1>4, <2>1 DEF Ordered
<1>10. ASSUME Ordered(st, n) PROVE Ordered(t, n)
  <2>1. /\ \A i \in 1..Len(s) + Len(t) : st[i] <= n
        /\ \A i, j \in 1..Len(s) + Len(t) : i < j => st[i] < st[j]
    BY <1>3, <1>10 DEF Ordered
  <2>2. ASSUME NEW i \in 1..Len(t), NEW j \in 1..Len(t), i < j PROVE t[i] < t[j]
    <3>1. i + Len(s) < j + Len(s)
      BY <1>1, <2>2
    <3> QED
      BY <1>5, <2>1, <3>1
  <2> QED
    BY <1>5, <2>1, <2>2 DEF Ordered
<1> QED
  BY <1>6, <1>7, <1>8, <1>9, <1>10 DEF st

LEMMA BeginKeeps ==
  ASSUME NEW q \in Seq(Events), Begin(q)
  PROVE  /\ inFlight' \o queue' = q
         /\ Elements(inFlight') \cup Elements(queue') = Elements(q)
<1>1. inFlight' \o queue' = q /\ inFlight' \in Seq(Events) /\ queue' \in Seq(Events)
  BY SplitQueue DEF Begin
<1> QED
  BY <1>1, ConcatOrdered

LEMMA PersistKeeps ==
  ASSUME NEW n \in Nat, NEW q, Ordered(q, n), Ordered(storage, n), Persist(q)
  PROVE  Ordered(storage', n) /\ (~stale' => storage' = q)
  BY DEF Persist

(* The queue that flush() leaves, and the one that it begins to send.       *)
LEMMA SettleKeeps ==
  ASSUME NEW n \in Nat, NEW q, Ordered(q, n), Ordered(storage, n), Settle(q)
  PROVE  /\ Ordered(inFlight' \o queue', n) /\ Ordered(storage', n)
         /\ ~stale' => Elements(queue') \subseteq Elements(storage')
         /\ Elements(inFlight') \cup Elements(queue') = Elements(q)
<1>1. q \in Seq(Events) /\ Ordered(storage', n) /\ (~stale' => storage' = q)
  BY PersistKeeps DEF Settle, Ordered
<1>2. CASE Begin(q)
  BY <1>1, <1>2, BeginKeeps
<1>3. CASE queue' = q /\ inFlight' = <<>>
  <2>1. <<>> \in Seq(Events) /\ <<>> \o q = q
    BY <1>1, EmptySeq, ConcatEmptySeq
  <2>2. Elements(<<>>) = {}
    BY DEF Elements
  <2> QED
    BY <1>1, <1>3, <2>1, <2>2
<1> QED
  BY <1>2, <1>3 DEF Settle

LEMMA TailOrdered ==
  ASSUME NEW s \in Seq(Events), NEW t \in Seq(Events), t # <<>>, NEW n \in Nat, Ordered(s \o t, n)
  PROVE  Ordered(s \o Tail(t), n) /\ Elements(t) \subseteq {Head(t)} \cup Elements(Tail(t))
<1>1. /\ Len(s) \in Nat /\ Len(t) \in Nat /\ DOMAIN t = 1..Len(t) /\ Len(t) # 0
      /\ Head(t) = t[1] /\ Tail(t) \in Seq(Events) /\ Len(Tail(t)) = Len(t) - 1
      /\ \A i \in 1..Len(Tail(t)) : Tail(t)[i] = t[i + 1]
  BY LenProperties, HeadTailProperties, EmptySeq
<1> DEFINE u == Tail(t)
           st == s \o t
           su == s \o u
<1>2. DOMAIN u = 1..Len(t) - 1
  BY <1>1, LenProperties
<1>3. ASSUME NEW i \in 1..Len(t) PROVE t[i] = Head(t) \/ t[i] \in Elements(u)
  <2>1. CASE i = 1
    BY <1>1, <2>1
  <2>2. CASE i # 1
    <3> DEFINE j == i - 1
    <3>1. j \in 1..Len(t) - 1 /\ j + 1 = i
      BY <1>1, <2>2
    <3> HIDE DEF j
    <3>2. u[j] = t[i]
      BY <1>1, <3>1
    <3> HIDE DEF u
    <3> QED
      BY <1>2, <3>1, <3>2 DEF Elements
  <2> QED
    BY <2>1, <2>2
<1>4. Elements(t) \subseteq {Head(t)} \cup Elements(u)
  <2> HIDE DEF u
  <2> QED
    BY <1>1, <1>3 DEF Elements
<1>5. /\ st \in Seq(Events) /\ Len(st) = Len(s) + Len(t)
      /\ \A i \in 1..Len(s) + Len(t) : st[i] = IF i <= Len(s) THEN s[i] ELSE t[i - Len(s)]
  BY ConcatProperties
<1>6. /\ su \in Seq(Events) /\ Len(su) = Len(s) + Len(t) - 1
      /\ \A i \in 1..Len(s) + Len(t) - 1 : su[i] = IF i <= Len(s) THEN s[i] ELSE u[i - Len(s)]
  <2>1. u \in Seq(Events) /\ Len(u) = Len(t) - 1
    BY <1>1
  <2> HIDE DEF u
  <2>2. /\ su \in Seq(Events) /\ Len(su) = Len(s) + Len(u)
        /\ \A i \in 1..Len(s) + Len(u) : su[i] = IF i <= Len(s) THEN s[i] ELSE u[i - Len(s)]
    BY <2>1, ConcatProperties
  <2>3. Len(s) + Len(u) = Len(s) + Len(t) - 1
    BY <1>1, <2>1
  <2> HIDE DEF su
  <2> QED
    BY <2>2, <2>3
<1> HIDE DEF st, su
<1> DEFINE at(i) == IF i <= Len(s) THEN i ELSE i + 1
<1>7. ASSUME NEW i \in 1..Len(s) + Len(t) - 1
      PROVE  at(i) \in 1..Len(s) + Len(t) /\ su[i] = st[at(i)]
  <2>1. CASE i <= Len(s)
    <3>1. i \in 1..Len(s) + Len(t)
      BY <1>1
    <3> QED
      BY <1>5, <1>6, <2>1, <3>1
  <2>2. CASE ~(i <= Len(s))
    <3>1. i - Len(s) \in 1..Len(t) - 1 /\ i + 1 \in 1..Len(s) + Len(t) /\ ~(i + 1 <= Len(s))
          /\ (i + 1) - Len(s) = (i - Len(s)) + 1
      BY <1>1, <2>2
    <3>2. su[i] = u[i - Len(s)] /\ u[i - Len(s)] = t[(i - Len(s)) + 1]
      BY <1>1, <1>6, <2>2, <3>1
    <3>3. st[i + 1] = t[(i + 1) - Len(s)]
      BY <1>5, <3>1
    <3> QED
      BY <2>2, <3>1, <3>2, <3>3
  <2> QED
    BY <2>1, <2>2
<1>8. \A i, j \in 1..Len(s) + Len(t) - 1 : i < j => at(i) < at(j)
  BY <1>1
<1> HIDE DEF at
<1>9. /\ \A i \in 1..Len(s) + Len(t) : st[i] <= n
      /\ \A i, j \in 1..Len(s) + Len(t) : i < j => st[i] < st[j]
  BY <1>5 DEF Ordered, st
<1>10. Ordered(su, n)
  BY <1>6, <1>7, <1>8, <1>9 DEF Ordered
<1> QED
  BY <1>4, <1>10 DEF su

LEMMA AppendOrdered ==
  ASSUME NEW s \in Seq(Events), NEW t \in Seq(Events), NEW n \in Nat, n + 1 \in Events,
         Ordered(s \o t, n)
  PROVE  /\ Ordered(s \o Append(t, n + 1), n + 1)
         /\ Elements(Append(t, n + 1)) = Elements(t) \cup {n + 1}
<1> DEFINE e == n + 1
           st == s \o t
           te == Append(t, e)
           ste == s \o te
<1>1. /\ Len(s) \in Nat /\ Len(t) \in Nat /\ DOMAIN t = 1..Len(t)
      /\ st \in Seq(Events) /\ Len(st) = Len(s) + Len(t)
      /\ \A i \in 1..Len(s) + Len(t) : st[i] = IF i <= Len(s) THEN s[i] ELSE t[i - Len(s)]
  BY LenProperties, ConcatProperties
<1>2. /\ te \in Seq(Events) /\ Len(te) = Len(t) + 1 /\ te[Len(t) + 1] = e
      /\ \A i \in 1..Len(t) : te[i] = t[i]
  <2>1. e \in Events
    OBVIOUS
  <2> HIDE DEF e
  <2> QED
    BY <2>1, AppendProperties
<1> HIDE DEF te
<1>3. /\ ste \in Seq(Events) /\ Len(ste) = Len(s) + Len(t) + 1
      /\ \A i \in 1..Len(s) + Len(t) + 1 : ste[i] = IF i <= Len(s) THEN s[i] ELSE te[i - Len(s)]
  <2>1. /\ ste \in Seq(Events) /\ Len(ste) = Len(s) + Len(te)
        /\ \A i \in 1..Len(s) + Len(te) : ste[i] = IF i <= Len(s) THEN s[i] ELSE te[i - Len(s)]
    BY <1>2, ConcatProperties
  <2>2. Len(s) + Len(te) = Len(s) + Len(t) + 1
    BY <1>1, <1>2
  <2> HIDE DEF ste
  <2> QED
    BY <2>1, <2>2
<1>4. Elements(te) = Elements(t) \cup {e}
  <2>1. DOMAIN te = 1..Len(t) + 1
    BY <1>2, LenProperties
  <2>2. 1..Len(t) + 1 = 1..Len(t) \cup {Len(t) + 1}
    BY <1>1
  <2> QED
    BY <1>1, <1>2, <2>1, <2>2 DEF Elements
<1> HIDE DEF st, ste
<1>5. ste[Len(s) + Len(t) + 1] = e
  <2>1. /\ Len(s) + Len(t) + 1 \in 1..Len(s) + Len(t) + 1 /\ ~(Len(s) + Len(t) + 1 <= Len(s))
        /\ (Len(s) + Len(t) + 1) - Len(s) = Len(t) + 1
    BY <1>1
  <2> QED
    BY <1>2, <1>3, <2>1
<1>6. ASSUME NEW i \in 1..Len(s) + Len(t) PROVE ste[i] = st[i]
  <2>1. i \in 1..Len(s) + Len(t) + 1
    BY <1>1
  <2>2. CASE i <= Len(s)
    BY <1>1, <1>3, <2>1, <2>2
  <2>3. CASE ~(i <= Len(s))
    <3>1. i - Len(s) \in 1..Len(t)
      BY <1>1, <2>3
    <3> QED
      BY <1>1, <1>2, <1>3, <2>1, <2>3, <3>1
  <2> QED
    BY <2>2, <2>3
<1>7. /\ \A i \in 1..Len(s) + Len(t) : st[i] \in Nat /\ st[i] <= n
      /\ \A i, j \in 1..Len(s) + Len(t) : i < j => st[i] < st[j]
  <2>1. Ordered(st, n) /\ DOMAIN st = 1..Len(st)
    BY <1>1, LenProperties DEF st
  <2>2. \A i \in 1..Len(st) : st[i] \in Nat
    <3>1. \A i \in 1..Len(st) : st[i] \in Events
      BY <1>1, LenProperties
    <3>2. Events \subseteq Nat
      BY SizesAssumption DEF Events
    <3> QED
      BY <3>1, <3>2
  <2> QED
    BY <1>1, <2>1, <2>2 DEF Ordered
<1>8. \A i \in 1..Len(s) + Len(t) + 1 : i \in 1..Len(s) + Len(t) \/ i = Len(s) + Len(t) + 1
  <2>1. \A k \in Nat : \A i \in 1..k + 1 : i \in 1..k \/ i = k + 1
    OBVIOUS
  <2>2. Len(s) + Len(t) \in Nat
    BY <1>1
  <2> QED
    BY <2>1, <2>2
<1>9. ASSUME NEW i \in 1..Len(s) + Len(t) + 1 PROVE ste[i] <= e
  BY <1>5, <1>6, <1>7, <1>8
<1>10. ASSUME NEW i \in 1..Len(s) + Len(t) + 1, NEW j \in 1..Len(s) + Len(t) + 1, i < j
       PROVE  ste[i] < ste[j]
  <2>1. i \in 1..Len(s) + Len(t)
    BY <1>1, <1>10
  <2>2. CASE j \in 1..Len(s) + Len(t)
    BY <1>6, <1>7, <1>10, <2>1, <2>2
  <2>3. CASE j = Len(s) + Len(t) + 1
    <3>1. ste[i] \in Nat /\ ste[i] <= n /\ ste[j] = n + 1
      BY <1>5, <1>6, <1>7, <2>1, <2>3
    <3> QED
      BY <3>1
  <2> QED
    BY <1>8, <2>2, <2>3
<1>11. Ordered(ste, e)
  BY <1>3, <1>9, <1>10 DEF Ordered
<1> QED
  BY <1>4, <1>11 DEF ste, te

LEMMA RestOrdered ==
  ASSUME NEW n \in Nat, NEW s, Ordered(s, n), NEW k \in 0..Len(s)
  PROVE  LET rest == SubSeq(s, k + 1, Len(s))
         IN  Ordered(rest, n) /\ Elements(rest) \subseteq Elements(s)
<1> DEFINE rest == SubSeq(s, k + 1, Len(s))
<1>1. /\ s \in Seq(Events) /\ Len(s) \in Nat /\ DOMAIN s = 1..Len(s)
      /\ \A i \in 1..Len(s) : s[i] \in Events /\ s[i] <= n
      /\ \A i, j \in 1..Len(s) : i < j => s[i] < s[j]
  BY LenProperties DEF Ordered
<1>2. /\ rest \in Seq(Events) /\ Len(rest) = Len(s) - k
      /\ \A i \in 1..Len(s) - k : rest[i] = s[i + k]
  <2>1. \A i \in (k + 1)..Len(s) : s[i] \in Events
    BY <1>1
  <2>2. /\ rest \in Seq(Events)
        /\ Len(rest) = IF k + 1 <= Len(s) THEN Len(s) - (k + 1) + 1 ELSE 0
        /\ \A i \in 1..Len(s) - (k + 1) + 1 : rest[i] = s[k + 1 + i - 1]
    BY <1>1, <2>1, SubSeqProperties
  <2> HIDE DEF rest
  <2>3. ASSUME NEW i \in 1..Len(s) - k PROVE rest[i] = s[i + k]
    <3>1. i \in 1..Len(s) - (k + 1) + 1 /\ k + 1 + i - 1 = i + k
      BY <1>1
    <3> QED
      BY <2>2, <3>1
  <2>4. ASSUME NEW p \in Nat, NEW q \in 0..p
        PROVE  (IF q + 1 <= p THEN p - (q + 1) + 1 ELSE 0) = p - q
    OBVIOUS
  <2>5. Len(rest) = Len(s) - k
    BY <1>1, <2>2, <2>4
  <2> QED
    BY <2>2, <2>3, <2>5
<1> HIDE DEF rest
<1>3. \A i \in 1..Len(s) - k : i + k \in 1..Len(s)
  BY <1>1
<1>4. Ordered(rest, n)
  <2>1. \A i, j \in 1..Len(s) - k : i < j => i + k < j + k
    BY <1>1
  <2> QED
    BY <1>1, <1>2, <1>3, <2>1 DEF Ordered
<1>5. Elements(rest) \subseteq Elements(s)
  <2>1. DOMAIN rest = 1..Len(s) - k
    BY <1>2, LenProperties
  <2> QED
    BY <1>1, <1>2, <1>3, <2>1 DEF Elements
<1> QED
  BY <1>4, <1>5 DEF rest
-----------------------------------------------------------------------------
LEMMA EmptyQueue ==
  /\ <<>> \in Seq(Events) /\ Len(<<>>) = 0 /\ Elements(<<>>) = {} /\ <<>> \o <<>> = <<>>
  /\ \A n \in Nat : Ordered(<<>>, n)
<1>1. <<>> \in Seq(Events) /\ Len(<<>>) = 0
  BY EmptySeq
<1>2. \A i \in 1..Len(<<>>) : FALSE
  BY <1>1
<1> QED
  BY <1>1, <1>2, ConcatEmptySeq DEF Elements, Ordered

LEMMA ElementsIn == ASSUME NEW S, NEW s \in Seq(S) PROVE Elements(s) \subseteq S
  BY LenProperties DEF Elements

LEMMA TypeInit == Init => TypeOK
<1> SUFFICES ASSUME Init PROVE TypeOK
  OBVIOUS
<1>1. tracked \in 0..MaxEvents
  BY SizesAssumption DEF Init
<1>2. /\ queue \in Seq(Events) /\ inFlight \in Seq(Events) /\ payload \in Seq(Events)
      /\ storage \in Seq(Events) /\ inFlight \in {<<>>, payload}
  BY EmptyQueue DEF Init
<1> QED
  BY <1>1, <1>2 DEF Init, TypeOK

LEMMA TypeStep == BoundInv /\ TypeOK /\ [Next]_vars => TypeOK'
<1> SUFFICES ASSUME BoundInv, TypeOK, [Next]_vars PROVE TypeOK'
  OBVIOUS
<1> USE SizesAssumption
<1>1. BoundInv' /\ tracked \in Nat
  BY BoundStep DEF TypeOK
<1>2. /\ Elements(queue) \subseteq Events /\ Elements(inFlight) \subseteq Events
      /\ Elements(payload) \subseteq Events /\ Elements(storage) \subseteq Events
  BY ElementsIn DEF TypeOK
<1>3. tracked' \in 0..MaxEvents
  <2>1. Enqueue => tracked' \in 0..MaxEvents
    BY DEF Enqueue, TypeOK
  <2>2. tracked' = tracked \/ Enqueue
    BY DEF Next, Tick, SendOk, SendFails, SendRefused, SendOverQuota, BackoffOver,
       Shutdown, ShutdownTimeout, FlushForUnload, Reload, BeaconEnds, vars
  <2> QED
    BY <2>1, <2>2 DEF TypeOK
<1>4. backoff' \in BOOLEAN /\ timer' \in BOOLEAN
  BY DEF TypeOK, Next, Enqueue, Tick, SendOk, SendFails, SendRefused, SendOverQuota, BackoffOver,
     Shutdown, ShutdownTimeout, FlushForUnload, Reload, BeaconEnds, vars, closeVars
<1>5. stale' \in BOOLEAN
  BY DEF TypeOK, Next, Enqueue, Tick, SendOk, SendFails, SendRefused, SendOverQuota, BackoffOver,
     Shutdown, ShutdownTimeout, FlushForUnload, Reload, BeaconEnds, vars, persistVars,
     Settle, Throws, Persist
<1>6. closing' \in {"no", "waiting", "resolved", "rejected", "timedOut"}
  BY DEF TypeOK, Next, Enqueue, Tick, SendOk, SendFails, SendRefused, SendOverQuota, BackoffOver,
     Shutdown, ShutdownTimeout, FlushForUnload, Reload, BeaconEnds, vars, closeVars,
     Settle, Throws
<1>7. beacons' \subseteq SUBSET Events
  <2>1. FlushForUnload => beacons' \subseteq SUBSET Events
    <3>1. Elements(inFlight \o queue) \subseteq Events
      <4>1. inFlight \o queue \in Seq(Events)
        BY ConcatProperties DEF TypeOK
      <4> QED
        BY <4>1, ElementsIn
    <3> QED
      BY <3>1 DEF FlushForUnload, TypeOK
  <2> QED
    BY <2>1 DEF TypeOK, Next, Enqueue, Tick, SendOk, SendFails, SendRefused, SendOverQuota,
       BackoffOver, Shutdown, ShutdownTimeout, Reload, BeaconEnds, vars, fateVars
<1>8. settled' \subseteq Events
  <2>1. Enqueue => settled' \subseteq Events
    <3>1. Full => Head(queue) \in Events
      <4>1. Full => queue # <<>>
        BY EmptySeq DEF Full
      <4> QED
        BY <4>1, HeadTailProperties DEF TypeOK
    <3> QED
      BY <3>1 DEF Enqueue, TypeOK
  <2>2. Reload => settled' \subseteq Events
    BY <1>2 DEF Reload, TypeOK
  <2> QED
    BY <1>2, <2>1, <2>2 DEF TypeOK, Next, Tick, SendOk, SendFails, SendRefused, SendOverQuota,
       BackoffOver, Shutdown, ShutdownTimeout, FlushForUnload, BeaconEnds, vars, fateVars
<1>9. /\ queue' \in Seq(Events) /\ inFlight' \in Seq(Events) /\ payload' \in Seq(Events)
      /\ storage' \in Seq(Events) /\ inFlight' \in {<<>>, payload'} /\ drain' \in Nat
  BY <1>1 DEF BoundInv, Fits
<1> QED
  BY <1>3, <1>4, <1>5, <1>6, <1>7, <1>8, <1>9 DEF TypeOK

(* What the client holds and what storage holds are in order, and nothing   *)
(* that was tracked is nowhere.                                             *)
OrderInv ==
  /\ Ordered(inFlight \o queue, tracked) /\ Ordered(storage, tracked)
  /\ StorageCovers /\ Accounted

QueueInv == BoundInv /\ TypeOK /\ OrderInv

LEMMA OrderKept ==
  ASSUME OrderInv, tracked' = tracked,
         Ordered(inFlight' \o queue', tracked), Ordered(storage', tracked),
         ~stale' => Elements(queue') \subseteq Elements(storage'),
         settled \subseteq settled', UNION beacons \subseteq settled' \cup UNION beacons',
         Elements(inFlight) \cup Elements(queue)
           \subseteq Elements(inFlight') \cup Elements(queue') \cup settled' \cup UNION beacons'
  PROVE  OrderInv'
<1>1. Accounted'
  BY DEF OrderInv, Accounted
<1> QED
  BY <1>1 DEF OrderInv, StorageCovers

LEMMA OrderInit == Init => OrderInv
  BY EmptyQueue DEF Init, OrderInv, StorageCovers, Accounted

LEMMA OrderStep == QueueInv /\ [Next]_vars => OrderInv'
<1> SUFFICES ASSUME QueueInv, [Next]_vars PROVE OrderInv'
  OBVIOUS
<1> USE SizesAssumption
<1>1. /\ queue \in Seq(Events) /\ inFlight \in Seq(Events) /\ tracked \in Nat
      /\ OrderInv /\ Ordered(inFlight \o queue, tracked) /\ Ordered(storage, tracked)
      /\ (~stale => Elements(queue) \subseteq Elements(storage))
  BY DEF QueueInv, TypeOK, OrderInv, StorageCovers
<1>2. /\ Ordered(queue, tracked)
      /\ Elements(inFlight \o queue) = Elements(inFlight) \cup Elements(queue)
  BY <1>1, ConcatOrdered
<1>3. Elements(inFlight) \subseteq Elements(payload)
      /\ (~Flushing => inFlight = <<>> /\ Elements(inFlight) = {})
  BY EmptyQueue DEF QueueInv, TypeOK, Flushing
<1>4. CASE Enqueue
  <2> DEFINE e == tracked + 1
             rest == IF Full THEN Tail(queue) ELSE queue
             q == Append(rest, e)
  <2>1. /\ e \in Events /\ tracked' = e /\ Persist(q) /\ beacons' = beacons
        /\ settled' = IF Full THEN settled \cup {Head(queue)} ELSE settled
        /\ (Begin(q) /\ ~Flushing) \/ (queue' = q /\ UNCHANGED <<inFlight, payload>>)
    <3>1. e \in Events
      BY <1>1, <1>4 DEF Enqueue, Events
    <3> QED
      BY <1>4, <3>1 DEF Enqueue
  <2>2. /\ rest \in Seq(Events) /\ Ordered(inFlight \o rest, tracked)
        /\ Elements(queue) \subseteq Elements(rest) \cup settled'
    <3>1. CASE Full
      <4>1. queue # <<>>
        BY <1>1, <3>1, EmptySeq DEF Full
      <4>2. Tail(queue) \in Seq(Events) /\ Ordered(inFlight \o Tail(queue), tracked)
            /\ Elements(queue) \subseteq {Head(queue)} \cup Elements(Tail(queue))
        BY <1>1, <4>1, TailOrdered, HeadTailProperties
      <4> QED
        BY <2>1, <3>1, <4>2
    <3>2. CASE ~Full
      BY <1>1, <3>2
    <3> QED
      BY <3>1, <3>2
  <2> HIDE DEF rest
  <2>3. Ordered(inFlight \o q, e) /\ Elements(q) = Elements(rest) \cup {e}
    BY <1>1, <2>1, <2>2, AppendOrdered
  <2>4. q \in Seq(Events)
    <3> HIDE DEF e
    <3> QED
      BY <2>1, <2>2, AppendProperties
  <2>5. e \in Nat
    BY <1>1
  <2>6. 1..e \subseteq 1..tracked \cup {e}
    BY <1>1
  <2>7. Ordered(storage, e)
    BY <1>1, LenProperties DEF Ordered, Events
  <2> HIDE DEF q, e
  <2>8. Ordered(q, e)
    BY <1>1, <2>3, <2>4, <2>5, ConcatOrdered
  <2>9. Ordered(storage', e) /\ (~stale' => storage' = q)
    BY <2>1, <2>5, <2>7, <2>8, PersistKeeps
  <2>10. /\ Ordered(inFlight' \o queue', e)
         /\ Elements(inFlight') \cup Elements(queue') = Elements(inFlight) \cup Elements(q)
         /\ Elements(queue') \subseteq Elements(q)
    <3>1. CASE Begin(q) /\ ~Flushing
      <4>1. /\ inFlight' \o queue' = q
            /\ Elements(inFlight') \cup Elements(queue') = Elements(q)
        BY <2>4, <3>1, BeginKeeps
      <4> QED
        BY <1>3, <2>8, <3>1, <4>1
    <3>2. CASE queue' = q /\ UNCHANGED <<inFlight, payload>>
      BY <2>3, <3>2
    <3> QED
      BY <2>1, <3>1, <3>2
  <2>11. Accounted'
    <3> SUFFICES ASSUME NEW x \in 1..tracked'
                 PROVE  \/ x \in Elements(queue') \cup Elements(inFlight')
                        \/ x \in settled' \/ \E b \in beacons' : x \in b
      BY DEF Accounted
    <3>1. settled \subseteq settled'
      BY <2>1
    <3>2. CASE x = e
      BY <2>3, <2>10, <3>2
    <3>3. CASE x \in 1..tracked
      BY <1>1, <2>1, <2>2, <2>3, <2>10, <3>1, <3>3 DEF OrderInv, Accounted
    <3> QED
      BY <2>1, <2>6, <3>2, <3>3
  <2> QED
    BY <2>1, <2>9, <2>10, <2>11 DEF OrderInv, StorageCovers
<1>5. CASE ~Flushing /\ Begin(queue) /\ UNCHANGED <<tracked, storage, stale, beacons, settled>>
  <2>1. inFlight' \o queue' = queue /\ Elements(inFlight') \cup Elements(queue') = Elements(queue)
    BY <1>1, <1>5, BeginKeeps
  <2> QED
    BY <1>1, <1>2, <1>3, <1>5, <2>1, OrderKept
<1>6. CASE Settle(queue) /\ (SendOk \/ SendRefused)
  <2>1. /\ Ordered(inFlight' \o queue', tracked) /\ Ordered(storage', tracked)
        /\ ~stale' => Elements(queue') \subseteq Elements(storage')
        /\ Elements(inFlight') \cup Elements(queue') = Elements(queue)
    BY <1>1, <1>2, <1>6, SettleKeeps
  <2>2. settled' = settled \cup Elements(payload) /\ tracked' = tracked /\ beacons' = beacons
    BY <1>6 DEF SendOk, SendRefused
  <2> QED
    BY <1>1, <1>3, <2>1, <2>2, OrderKept
<1>7. CASE SendOverQuota
  <2>1. /\ Ordered(inFlight' \o queue', tracked) /\ Ordered(storage', tracked)
        /\ ~stale' => Elements(queue') \subseteq Elements(storage')
    BY <1>1, <1>7, EmptyQueue, SettleKeeps DEF SendOverQuota
  <2>2. /\ settled' = settled \cup Elements(payload) \cup Elements(queue)
        /\ tracked' = tracked /\ beacons' = beacons
    BY <1>7 DEF SendOverQuota
  <2> QED
    BY <1>1, <1>3, <2>1, <2>2, OrderKept
<1>8. CASE Throws /\ (SendFails \/ SendRefused)
  <2>1. Persist(queue) /\ UNCHANGED <<queue, inFlight>>
    BY <1>8 DEF Throws
  <2>2. Ordered(storage', tracked) /\ (~stale' => storage' = queue)
    BY <1>1, <1>2, <2>1, PersistKeeps
  <2>3. settled \subseteq settled' /\ tracked' = tracked /\ beacons' = beacons
    BY <1>8 DEF SendFails, SendRefused
  <2> QED
    BY <1>1, <2>1, <2>2, <2>3, OrderKept
<1>9. CASE SendFails /\ Settle(Requeue(queue))
  <2>1. /\ Ordered(inFlight' \o queue', tracked) /\ Ordered(storage', tracked)
        /\ ~stale' => Elements(queue') \subseteq Elements(storage')
        /\ Elements(inFlight') \cup Elements(queue') = Elements(inFlight \o queue)
    BY <1>1, <1>9, SettleKeeps DEF Requeue
  <2>2. settled \subseteq settled' /\ tracked' = tracked /\ beacons' = beacons
    BY <1>9 DEF SendFails
  <2> QED
    BY <1>1, <1>2, <2>1, <2>2, OrderKept
<1>10. SendOk \/ SendFails \/ SendRefused
         => \/ Settle(queue) /\ (SendOk \/ SendRefused)
            \/ Throws /\ (SendFails \/ SendRefused)
            \/ SendFails /\ Settle(Requeue(queue))
  BY DEF SendOk, SendFails, SendRefused
<1>11. CASE UNCHANGED <<tracked, queue, inFlight, storage, stale, settled, beacons>>
  BY <1>1, <1>11, OrderKept
<1>12. Tick \/ Shutdown \/ BackoffOver \/ ShutdownTimeout \/ UNCHANGED vars
         => \/ ~Flushing /\ Begin(queue) /\ UNCHANGED <<tracked, storage, stale, beacons, settled>>
            \/ UNCHANGED <<tracked, queue, inFlight, storage, stale, settled, beacons>>
  BY DEF Tick, Shutdown, BackoffOver, ShutdownTimeout, vars, persistVars, fateVars
<1>13. CASE FlushForUnload
  <2>1. /\ beacons' = beacons \cup {Elements(inFlight \o queue)} /\ Persist(<<>>)
        /\ queue' = <<>> /\ inFlight' = <<>> /\ tracked' = tracked /\ settled' = settled
    BY <1>13 DEF FlushForUnload
  <2>2. Ordered(storage', tracked)
    BY <1>1, <2>1, EmptyQueue, PersistKeeps
  <2>3. UNION beacons' = (UNION beacons) \cup Elements(inFlight) \cup Elements(queue)
    BY <1>2, <2>1
  <2>4. Elements(queue') = {} /\ Ordered(inFlight' \o queue', tracked)
    BY <1>1, <2>1, EmptyQueue
  <2> QED
    BY <1>1, <2>1, <2>2, <2>3, <2>4, OrderKept
<1>14. CASE \E b \in beacons : BeaconEnds(b)
  <2>1. PICK b \in beacons : beacons' = beacons \ {b} /\ settled' = settled \cup b
    BY <1>14 DEF BeaconEnds
  <2>2. UNCHANGED <<tracked, queue, inFlight, storage, stale>>
    BY <1>14 DEF BeaconEnds, persistVars
  <2>3. UNION beacons \subseteq settled' \cup UNION beacons'
    BY <2>1
  <2> QED
    BY <1>1, <2>1, <2>2, <2>3, OrderKept
<1>15. CASE Reload
  <2>1. PICK expired \in 0..Len(storage) :
          /\ queue' = SubSeq(storage, expired + 1, Len(storage)) /\ inFlight' = <<>>
          /\ settled' = settled \cup ((Elements(storage) \cup Elements(inFlight) \cup Elements(queue))
                                        \ Elements(SubSeq(storage, expired + 1, Len(storage))))
    BY <1>15 DEF Reload
  <2>2. UNCHANGED <<tracked, storage, stale, beacons>>
    BY <1>15 DEF Reload, persistVars
  <2>3. Ordered(queue', tracked) /\ Elements(queue') \subseteq Elements(storage)
    BY <1>1, <2>1, RestOrdered
  <2>4. inFlight' \o queue' = queue'
    BY <2>1, <2>3, ConcatEmptySeq DEF Ordered
  <2>5. Elements(inFlight) \cup Elements(queue) \subseteq Elements(queue') \cup settled'
    BY <2>1
  <2> QED
    BY <1>1, <2>1, <2>2, <2>3, <2>4, <2>5, OrderKept
<1> QED
  BY <1>4, <1>5, <1>6, <1>7, <1>8, <1>9, <1>10, <1>11, <1>12, <1>13, <1>14, <1>15 DEF Next

LEMMA QueueAlways == Spec => []QueueInv
<1>1. Init => QueueInv
  BY BoundInit, TypeInit, OrderInit DEF QueueInv
<1>2. QueueInv /\ [Next]_vars => QueueInv'
  <2>1. QueueInv => tracked \in Nat
    BY DEF QueueInv, TypeOK
  <2> QED
    BY <2>1, BoundStep, TypeStep, OrderStep DEF QueueInv
<1> QED
  BY <1>1, <1>2, PTL DEF Spec

(* The variables of the queue keep their types for all sizes and any number *)
(* of events.                                                               *)
THEOREM QueueTyped == Spec => []TypeOK
<1>1. QueueInv => TypeOK
  BY DEF QueueInv
<1> QED
  BY <1>1, QueueAlways, PTL

(* No event that track() took is forgotten: it is queued, in flight, on a   *)
(* keepalive request, or settled.                                           *)
THEOREM NothingForgotten == Spec => []Accounted
<1>1. QueueInv => Accounted
  BY DEF QueueInv, OrderInv
<1> QED
  BY <1>1, QueueAlways, PTL

(* No requeue, drop, unload or reload reorders or doubles what the client   *)
(* holds.                                                                   *)
THEOREM OrderPreserved == Spec => []InOrder
<1>1. QueueInv => InOrder
  <2> SUFFICES ASSUME QueueInv PROVE InOrder
    OBVIOUS
  <2>1. Ordered(inFlight \o queue, tracked)
    BY DEF QueueInv, OrderInv
  <2>2. DOMAIN (inFlight \o queue) = 1..Len(inFlight \o queue)
    BY <2>1, LenProperties DEF Ordered
  <2> QED
    BY <2>1, <2>2 DEF InOrder, Ordered
<1> QED
  BY <1>1, QueueAlways, PTL

(* Every queued event is in storage, unless the last save failed: a page    *)
(* that goes loses at most the batch in flight.                             *)
THEOREM StorageAlwaysCovers == Spec => []StorageCovers
<1>1. QueueInv => StorageCovers
  BY DEF QueueInv, OrderInv
<1> QED
  BY <1>1, QueueAlways, PTL
=============================================================================
