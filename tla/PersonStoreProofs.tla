------------------------- MODULE PersonStoreProofs -------------------------
(***************************************************************************)
(* What PersonStore promises, for any replicas, events, persons and limits.*)
(* UpdatesKept, MergesKept and FlushCovers follow from StoreInv: what each  *)
(* call still waits for is settled or on its way, and every step of one    *)
(* replica keeps that for it and for the others (StepOf).                  *)
(***************************************************************************)
EXTENDS PersonStore, SequenceTheorems, WellFoundedInduction, TLAPS

(* SelectInSeq takes the least index: RemoveFirst is LREM with count 1.      *)
LEMMA LeastNatural ==
  ASSUME NEW I \in SUBSET Nat, I # {}
  PROVE  \E k \in I : \A i \in I : k <= i
<1> DEFINE R == {ss \in Nat \X Nat : ss[1] < ss[2]}
<1>1. IsWellFoundedOn(R, Nat)
  BY NatLessThanWellFounded, Zenon DEF OpToRel
<1>2. PICK x \in I : \A y \in I : ~(<<y, x>> \in R)
  <2> HIDE DEF R
  <2> QED BY <1>1, WFMin
<1>3. \A y \in I : ~(y < x)
  BY <1>2
<1> QED
  BY <1>3

LEMMA RemoveFirstKeeps ==
  ASSUME NEW S, NEW s \in Seq(S), NEW m
  PROVE  /\ RemoveFirst(s, m) \in Seq(S) /\ Len(RemoveFirst(s, m)) <= Len(s)
         /\ \A x \in ToSet(s) : x # m => x \in ToSet(RemoveFirst(s, m))
<1> DEFINE I == {i \in 1..Len(s) : s[i] = m}
<1>1. Len(s) \in Nat /\ DOMAIN s = 1..Len(s) /\ \A i \in 1..Len(s) : s[i] \in S
  BY LenProperties
<1>2. CASE ~\E i \in 1..Len(s) : s[i] = m
  BY <1>1, <1>2 DEF RemoveFirst
<1>3. CASE \E i \in 1..Len(s) : s[i] = m
  <2>1. I # {} /\ I \in SUBSET Nat
    BY <1>1, <1>3
  <2>2. PICK k \in I : \A i \in I : k <= i
    BY <2>1, LeastNatural
  <2>3. Min(I) \in I
    BY <2>2 DEF Min
  <2>4. SelectInSeq(s, LAMBDA v : v = m) = Min(I)
    BY <2>1 DEF SelectInSeq
  <2> DEFINE j == Min(I)
  <2>5. RemoveFirst(s, m) = SubSeq(s, 1, j - 1) \o SubSeq(s, j + 1, Len(s))
    BY <1>3, <2>4 DEF RemoveFirst, RemoveAt
  <2>6. j \in 1..Len(s) /\ s[j] = m
    BY <2>3
  <2> HIDE DEF j
  <2> DEFINE a == SubSeq(s, 1, j - 1)
             b == SubSeq(s, j + 1, Len(s))
  <2>7. a \in Seq(S) /\ Len(a) = j - 1 /\ \A i \in 1..(j - 1) : a[i] = s[i]
    <3>1. \A i \in 1..(j - 1) : s[i] \in S
      BY <1>1, <2>6
    <3> QED BY <1>1, <2>6, <3>1, SubSeqProperties
  <2>8. b \in Seq(S) /\ Len(b) = Len(s) - j /\ \A i \in 1..(Len(s) - j) : b[i] = s[i + j]
    <3>1. \A i \in (j + 1)..Len(s) : s[i] \in S
      BY <1>1, <2>6
    <3>2. /\ b \in Seq(S) /\ Len(b) = IF j + 1 <= Len(s) THEN Len(s) - (j + 1) + 1 ELSE 0
          /\ \A i \in 1..(Len(s) - (j + 1) + 1) : b[i] = s[(j + 1) + i - 1]
      <4> j + 1 \in Int /\ Len(s) \in Int
        BY <1>1, <2>6
      <4> QED BY <3>1, SubSeqProperties
    <3> HIDE DEF b
    <3>3. Len(b) = Len(s) - j
      <4>1. CASE j + 1 <= Len(s)
        <5>1. Len(b) = Len(s) - (j + 1) + 1
          BY <3>2, <4>1
        <5> QED BY <1>1, <2>6, <5>1
      <4>2. CASE ~(j + 1 <= Len(s))
        <5>1. Len(b) = 0
          BY <3>2, <4>2
        <5>2. ASSUME NEW p \in Nat, NEW q \in 1..p, ~(q + 1 <= p) PROVE p - q = 0
          BY <5>2
        <5>3. Len(s) - j = 0
          BY <1>1, <2>6, <4>2, <5>2
        <5> QED BY <5>1, <5>3
      <4> QED BY <4>1, <4>2
    <3>4. ASSUME NEW i \in 1..(Len(s) - j) PROVE b[i] = s[i + j]
      <4>1. i \in 1..(Len(s) - (j + 1) + 1) /\ (j + 1) + i - 1 = i + j
        BY <1>1, <2>6
      <4> QED BY <3>2, <4>1
    <3> QED BY <3>2, <3>3, <3>4
  <2> HIDE DEF a, b
  <2>9. /\ a \o b \in Seq(S) /\ Len(a \o b) = Len(s) - 1
        /\ \A i \in 1..(Len(s) - 1) : (a \o b)[i] = IF i < j THEN s[i] ELSE s[i + 1]
    <3>1. /\ a \o b \in Seq(S) /\ Len(a \o b) = Len(a) + Len(b)
          /\ \A i \in 1..(Len(a) + Len(b)) : (a \o b)[i] = IF i <= Len(a) THEN a[i] ELSE b[i - Len(a)]
      BY <2>7, <2>8, ConcatProperties
    <3>2. Len(a) + Len(b) = Len(s) - 1
      BY <1>1, <2>6, <2>7, <2>8
    <3>3. ASSUME NEW i \in 1..(Len(s) - 1) PROVE (a \o b)[i] = IF i < j THEN s[i] ELSE s[i + 1]
      <4>1. CASE i < j
        <5>1. i <= Len(a) /\ i \in 1..(j - 1)
          BY <1>1, <2>6, <2>7, <4>1
        <5> QED BY <2>7, <3>1, <3>2, <4>1, <5>1
      <4>2. CASE ~(i < j)
        <5>1. ~(i <= Len(a)) /\ i - Len(a) \in 1..(Len(s) - j) /\ (i - Len(a)) + j = i + 1
          BY <1>1, <2>6, <2>7, <4>2
        <5> QED BY <2>8, <3>1, <3>2, <4>2, <5>1
      <4> QED BY <4>1, <4>2
    <3> QED BY <3>1, <3>2, <3>3
  <2>10. DOMAIN (a \o b) = 1..(Len(s) - 1)
    BY <2>9, LenProperties
  <2>11. ASSUME NEW x \in ToSet(s), x # m PROVE x \in ToSet(a \o b)
    <3>1. PICK i \in 1..Len(s) : s[i] = x
      BY <1>1, <2>11 DEF ToSet
    <3>2. i # j
      BY <2>6, <2>11, <3>1
    <3>3. CASE i < j
      <4>1. i \in 1..(Len(s) - 1)
        BY <1>1, <2>6, <3>1, <3>3
      <4>2. (a \o b)[i] = s[i]
        BY <2>9, <3>3, <4>1
      <4>3. i \in DOMAIN (a \o b) /\ (a \o b)[i] = x
        BY <2>10, <3>1, <4>1, <4>2
      <4> QED BY <4>3 DEF ToSet
    <3>4. CASE i > j
      <4>1. i - 1 \in 1..(Len(s) - 1) /\ ~(i - 1 < j) /\ (i - 1) + 1 = i
        BY <1>1, <2>6, <3>1, <3>4
      <4>2. (a \o b)[i - 1] = s[i]
        BY <2>9, <4>1
      <4>3. i - 1 \in DOMAIN (a \o b) /\ (a \o b)[i - 1] = x
        BY <2>10, <3>1, <4>1, <4>2
      <4> DEFINE z == i - 1
      <4>4. z \in DOMAIN (a \o b) /\ (a \o b)[z] = x
        BY <4>3
      <4> HIDE DEF z
      <4> QED BY <4>4 DEF ToSet
    <3> QED BY <1>1, <2>6, <3>1, <3>2, <3>3, <3>4
  <2> QED
    BY <1>1, <2>5, <2>9, <2>11 DEF a, b
<1> QED
  BY <1>2, <1>3

LEMMA TrimmedList ==
  ASSUME NEW s \in Seq(Links), NEW m \in Links
  PROVE  LET list == <<m>> \o s
             n == IF Len(list) < MaxFailed THEN Len(list) ELSE MaxFailed
             kept == SubSeq(list, 1, n)
             cut == {list[i] : i \in (MaxFailed + 1)..Len(list)}
         IN  /\ kept \in Seq(Links) /\ Len(kept) <= MaxFailed
             /\ cut \subseteq Links /\ {m} \cup ToSet(s) \subseteq ToSet(kept) \cup cut
<1> DEFINE list == <<m>> \o s
           n == IF Len(list) < MaxFailed THEN Len(list) ELSE MaxFailed
           kept == SubSeq(list, 1, n)
           cut == {list[i] : i \in (MaxFailed + 1)..Len(list)}
<1>1. MaxFailed \in Nat \ {0}
  BY StoreAssumption
<1>2. /\ list \in Seq(Links) /\ Len(list) = 1 + Len(s) /\ Len(s) \in Nat
      /\ DOMAIN s = 1..Len(s)
      /\ list[1] = m /\ \A i \in 1..Len(s) : list[i + 1] = s[i]
  <2>1. /\ <<m>> \in Seq(Links) /\ Len(<<m>>) = 1 /\ <<m>>[1] = m
        /\ Len(s) \in Nat /\ DOMAIN s = 1..Len(s)
    BY LenProperties
  <2>2. /\ list \in Seq(Links) /\ Len(list) = Len(<<m>>) + Len(s)
        /\ \A i \in 1..Len(<<m>>) + Len(s) : list[i] = IF i <= Len(<<m>>) THEN <<m>>[i] ELSE s[i - Len(<<m>>)]
    <3> HIDE DEF list
    <3> QED
      BY <2>1, ConcatProperties DEF list
  <2> HIDE DEF list
  <2>3. list[1] = m
    BY <2>1, <2>2
  <2>4. ASSUME NEW i \in 1..Len(s) PROVE list[i + 1] = s[i]
    <3>1. i + 1 \in 1..1 + Len(s) /\ ~(i + 1 <= 1) /\ (i + 1) - 1 = i
      BY <2>1
    <3> QED
      BY <2>1, <2>2, <3>1
  <2> QED
    BY <2>1, <2>2, <2>3, <2>4
<1> HIDE DEF list
<1>3. Len(list) \in Nat /\ \A i \in 1..Len(list) : list[i] \in Links
  BY <1>2, LenProperties
<1>4. n \in Nat /\ n <= Len(list) /\ n <= MaxFailed /\ (n < Len(list) => n = MaxFailed)
  BY <1>1, <1>3
<1> HIDE DEF n
<1>5. /\ kept \in Seq(Links) /\ Len(kept) = n /\ DOMAIN kept = 1..n
      /\ \A i \in 1..n : kept[i] = list[i]
  <2>1. \A i \in 1..n : list[i] \in Links
    BY <1>3, <1>4
  <2>2. /\ kept \in Seq(Links) /\ Len(kept) = (IF 1 <= n THEN n - 1 + 1 ELSE 0)
        /\ \A i \in 1..n - 1 + 1 : kept[i] = list[1 + i - 1]
    BY <1>4, <2>1, SubSeqProperties
  <2> HIDE DEF kept
  <2>3. Len(kept) = n
    BY <1>4, <2>2
  <2>4. \A i \in 1..n : kept[i] = list[i]
    BY <1>4, <2>2
  <2> QED
    BY <2>2, <2>3, <2>4, LenProperties
<1> HIDE DEF kept
<1>6. cut \subseteq Links
  BY <1>1, <1>3
<1>7. ASSUME NEW i \in 1..Len(list) PROVE list[i] \in ToSet(kept) \cup cut
  <2>1. CASE i <= n
    <3>1. i \in DOMAIN kept /\ kept[i] = list[i]
      BY <1>4, <1>5, <2>1
    <3> QED
      BY <3>1 DEF ToSet
  <2>2. CASE ~(i <= n)
    <3>1. i \in (MaxFailed + 1)..Len(list)
      BY <1>1, <1>3, <1>4, <2>2
    <3> QED
      BY <3>1
  <2> QED
    BY <2>1, <2>2
<1> HIDE DEF cut
<1>8. m \in ToSet(kept) \cup cut
  <2>1. 1 \in 1..Len(list)
    BY <1>2
  <2> QED
    BY <1>2, <1>7, <2>1
<1>9. ASSUME NEW x \in ToSet(s) PROVE x \in ToSet(kept) \cup cut
  <2>1. PICK i \in 1..Len(s) : s[i] = x
    BY <1>2 DEF ToSet
  <2>2. i + 1 \in 1..Len(list) /\ list[i + 1] = x
    BY <1>2, <2>1
  <2> QED
    BY <1>7, <2>2
<1> QED
  BY <1>4, <1>5, <1>6, <1>8, <1>9 DEF kept, cut, n, list

LEMMA HeadOrTail ==
  ASSUME NEW S, NEW s \in Seq(S), s # <<>>
  PROVE  \A x \in ToSet(s) : x = Head(s) \/ x \in ToSet(Tail(s))
<1>1. /\ Len(s) \in Nat /\ DOMAIN s = 1..Len(s) /\ Head(s) = s[1]
      /\ Tail(s) \in Seq(S) /\ Len(Tail(s)) = Len(s) - 1
      /\ \A i \in 1..Len(Tail(s)) : Tail(s)[i] = s[i + 1]
  BY LenProperties, HeadTailProperties
<1>2. DOMAIN Tail(s) = 1..Len(s) - 1
  BY <1>1, LenProperties
<1>3. ASSUME NEW x \in ToSet(s) PROVE x = Head(s) \/ x \in ToSet(Tail(s))
  <2>1. PICK i \in 1..Len(s) : s[i] = x
    BY <1>1 DEF ToSet
  <2>2. CASE i = 1
    BY <1>1, <2>1, <2>2
  <2>3. CASE i # 1
    <3> DEFINE j == i - 1
    <3>1. j \in 1..Len(s) - 1 /\ j + 1 = i
      BY <1>1, <2>1, <2>3
    <3> HIDE DEF j
    <3>2. j \in DOMAIN Tail(s) /\ Tail(s)[j] = x
      BY <1>1, <1>2, <2>1, <3>1
    <3> QED
      BY <3>2 DEF ToSet
  <2> QED
    BY <2>2, <2>3
<1> QED
  BY <1>3

LEMMA ConcatSets ==
  ASSUME NEW S, NEW s \in Seq(S), NEW t \in Seq(S)
  PROVE  ToSet(s) \cup ToSet(t) \subseteq ToSet(s \o t)
<1>1. /\ Len(s) \in Nat /\ DOMAIN s = 1..Len(s) /\ Len(t) \in Nat /\ DOMAIN t = 1..Len(t)
      /\ s \o t \in Seq(S) /\ Len(s \o t) = Len(s) + Len(t)
      /\ \A i \in 1..Len(s) + Len(t) : (s \o t)[i] = IF i <= Len(s) THEN s[i] ELSE t[i - Len(s)]
  BY LenProperties, ConcatProperties
<1>2. DOMAIN (s \o t) = 1..Len(s) + Len(t)
  BY <1>1, LenProperties
<1> DEFINE st == s \o t
<1>3. DOMAIN st = 1..Len(s) + Len(t)
      /\ \A i \in 1..Len(s) + Len(t) : st[i] = IF i <= Len(s) THEN s[i] ELSE t[i - Len(s)]
  BY <1>1, <1>2
<1> HIDE DEF st
<1>4. ASSUME NEW x \in ToSet(s) PROVE x \in ToSet(st)
  <2>1. PICK i \in 1..Len(s) : s[i] = x
    BY <1>1 DEF ToSet
  <2>2. i \in DOMAIN st /\ st[i] = x
    BY <1>1, <1>3, <2>1
  <2> QED
    BY <2>2 DEF ToSet
<1>5. ASSUME NEW x \in ToSet(t) PROVE x \in ToSet(st)
  <2>1. PICK i \in 1..Len(t) : t[i] = x
    BY <1>1 DEF ToSet
  <2> DEFINE j == i + Len(s)
  <2>2. j \in 1..Len(s) + Len(t) /\ ~(j <= Len(s)) /\ j - Len(s) = i
    BY <1>1, <2>1
  <2> HIDE DEF j
  <2>3. j \in DOMAIN st /\ st[j] = x
    BY <1>3, <2>1, <2>2
  <2> QED
    BY <2>3 DEF ToSet
<1> QED
  BY <1>4, <1>5 DEF st
-----------------------------------------------------------------------------
OutsideType ==
  /\ live \subseteq Persons /\ props \in [Persons -> SUBSET Events]
  /\ owner \in [Dids -> Persons \cup {None}]
  /\ failed \in Seq(Links) /\ Len(failed) <= MaxFailed
  /\ dead \subseteq Sent
  /\ handed \subseteq Events
  /\ linked \subseteq Links /\ merged \subseteq Links
  /\ gone \subseteq (Events \cup Links) \X Causes

ReplicaType(r) ==
  /\ pending[r] \in Data /\ flush[r] \in FlushState /\ buffer[r] \subseteq Sent
  /\ calls[r] \in [Kinds -> CallState]
  /\ flush[r].pc = "idle" => flush[r] = NoFlush
  /\ flush[r].pc # "idle" <=> \E k \in Kinds : calls[r][k].pc = "flushes"
  /\ \A k \in Kinds : calls[r][k].pc = "idle" => calls[r][k] = NoCall

(* An event is safe when its update is settled, or kept with a dead letter. *)
Safe(e) == Settled(e) \/ e \in Names(dead)
MergeSettled(m) == m \in merged \cup ToSet(failed) \/ Lost(m)
Swap(r) == EventsOf(flush[r].data)
MergesOf(r) == ToSet(pending[r].merges) \cup ToSet(flush[r].data.merges)
Quiet == {"idle", "merge", "commit", "replay", "recommit", "lrem"}

(* What a flush swapped out is settled once the rows are written; only then *)
(* it forgets it.                                                           *)
FlushInv(r) ==
  /\ flush[r].pc = "ids" => \A e \in Swap(r) : Settled(e)
  /\ flush[r].pc \in Quiet => Swap(r) = {}
  /\ flush[r].pc \in Quiet \ {"merge", "commit"} => ToSet(flush[r].data.merges) = {}
  /\ flush[r].pc = "commit" => flush[r].data.merges # <<>>
  /\ flush[r].pc \in {"recommit", "lrem"} => flush[r].todo # <<>>
  /\ flush[r].pc = "lrem" => Oldest(r) \in merged

(* What a call owes is settled or on its way, and every event it inserts is *)
(* owed or safe already.                                                    *)
CallInv(r, k) ==
  LET c == calls[r][k] IN
  /\ c.pc = "flushes" => \A e \in c.owes : Settled(e) \/ e \in Swap(r)
  /\ c.pc = "waits" => \A e \in c.owes : Settled(e) \/ e \in InMemory(r)
  /\ c.pc = "inserts" => \A e \in c.owes : Settled(e)
  /\ c.pc # "parks" => \A e \in Names(c.events) : e \in c.owes \/ (k = "batch" /\ Safe(e))

BufferInv(r) == \A e \in Names(buffer[r]) : Safe(e) \/ e \in InMemory(r)

Local(r) == ReplicaType(r) /\ FlushInv(r) /\ BufferInv(r) /\ \A k \in Kinds : CallInv(r, k)

StoreInv ==
  /\ OutsideType
  /\ pending \in [Replicas -> Data] /\ flush \in [Replicas -> FlushState]
  /\ buffer \in [Replicas -> SUBSET Sent] /\ calls \in [Replicas -> [Kinds -> CallState]]
  /\ \A r \in Replicas : Local(r)
  /\ \A e \in handed : Safe(e) \/ \E r \in Replicas : e \in Held(r)
  /\ \A m \in linked : MergeSettled(m) \/ \E r \in Replicas : m \in MergesOf(r)

(* A step unsettles nothing.                                                *)
Keeps ==
  /\ \A e : (Settled(e) => Settled(e)') /\ (Safe(e) => Safe(e)')
  /\ \A m \in Links : MergeSettled(m) => MergeSettled(m)'
  /\ merged \subseteq merged'

(* A replica does not notice a step of another.                             *)
LEMMA Others ==
  ASSUME Keeps, NEW q \in Replicas, Local(q), flush'[q] = flush[q], pending'[q] = pending[q],
         buffer'[q] = buffer[q], calls'[q] = calls[q]
  PROVE  Local(q)'
<1>1. ReplicaType(q)'
  BY DEF Local, ReplicaType
<1>2. Swap(q)' = Swap(q) /\ InMemory(q)' = InMemory(q)
  BY DEF Swap, InMemory
<1>3. FlushInv(q)'
  BY <1>2 DEF Local, FlushInv, Keeps, Oldest
<1>4. BufferInv(q)'
  BY <1>2 DEF Local, BufferInv, Keeps
<1>5. ASSUME NEW k \in Kinds PROVE CallInv(q, k)'
  BY <1>2 DEF Local, CallInv, Keeps
<1> QED
  BY <1>1, <1>3, <1>4, <1>5 DEF Local

(* A step of one replica keeps the invariant if it settles what leaves the  *)
(* memory of that replica, and unsettles nothing.                           *)
LEMMA StepOf ==
  ASSUME StoreInv, Keeps, NEW r \in Replicas, OutsideType', Local(r)',
         pending' \in [Replicas -> Data], flush' \in [Replicas -> FlushState],
         buffer' \in [Replicas -> SUBSET Sent], calls' \in [Replicas -> [Kinds -> CallState]],
         \A q \in Replicas \ {r} : /\ flush'[q] = flush[q] /\ pending'[q] = pending[q]
                                  /\ buffer'[q] = buffer[q] /\ calls'[q] = calls[q],
         \A e \in handed' : e \in handed \/ Safe(e)' \/ e \in Held(r)',
         \A e \in Held(r) : e \in handed' => Safe(e)' \/ e \in Held(r)',
         \A m \in linked' : m \in linked \/ m \in MergesOf(r)',
         \A m \in MergesOf(r) : MergeSettled(m)' \/ m \in MergesOf(r)'
  PROVE  StoreInv'
<1>1. ASSUME NEW q \in Replicas PROVE Local(q)'
  <2>1. CASE q = r
    BY <2>1
  <2>2. CASE q # r
    BY <2>2, Others DEF StoreInv
  <2> QED
    BY <2>1, <2>2
<1>2. \A q \in Replicas \ {r} : Held(q)' = Held(q) /\ MergesOf(q)' = MergesOf(q)
  BY DEF Held, MergesOf
<1>3. ASSUME NEW e \in handed' PROVE Safe(e)' \/ \E q \in Replicas : e \in Held(q)'
  <2>1. CASE e \in handed
    <3>1. CASE Safe(e)
      BY <3>1 DEF Keeps
    <3>2. CASE \E q \in Replicas : e \in Held(q)
      BY <1>2, <3>2
    <3> QED
      BY <2>1, <3>1, <3>2 DEF StoreInv
  <2> QED
    BY <2>1
<1>4. ASSUME NEW m \in linked' PROVE MergeSettled(m)' \/ \E q \in Replicas : m \in MergesOf(q)'
  <2>1. CASE m \in linked
    <3>1. m \in Links
      BY <2>1 DEF StoreInv, OutsideType
    <3>2. CASE MergeSettled(m)
      BY <3>1, <3>2 DEF Keeps
    <3>3. CASE \E q \in Replicas : m \in MergesOf(q)
      BY <1>2, <3>3
    <3> QED
      BY <2>1, <3>2, <3>3 DEF StoreInv
  <2> QED
    BY <2>1
<1> QED
  BY <1>1, <1>3, <1>4 DEF StoreInv

(* A type of the parts is the type of the whole.                            *)
LEMMA TypeOfParts == StoreInv => TypeOK
  BY DEF StoreInv, OutsideType, Local, ReplicaType, TypeOK

LEMMA LoseKeeps ==
  ASSUME OutsideType, NEW T \in SUBSET (Events \cup Links), NEW c \in Causes, Lose(T, c), UNCHANGED props
  PROVE  /\ gone' \subseteq (Events \cup Links) \X Causes
         /\ \A x : Settled(x) => Settled(x)'
         /\ \A x : Lost(x) \/ x \in T => Lost(x)'
<1>1. gone' = gone \cup {<<x, c>> : x \in T}
  BY DEF Lose
<1>2. {<<x, c>> : x \in T} \subseteq (Events \cup Links) \X Causes
  OBVIOUS
<1>3. gone' \subseteq (Events \cup Links) \X Causes
  BY <1>1, <1>2 DEF OutsideType
<1>4. \A x : Lost(x) \/ x \in T => Lost(x)'
  BY <1>1 DEF Lost
<1> QED
  BY <1>3, <1>4 DEF Settled, InRows

(* New rows lose nothing but the things that are named.                     *)
LEMMA StoreKeeps ==
  ASSUME OutsideType, NEW rows \in [Persons -> SUBSET Events], NEW T \in SUBSET Events, NEW c \in Causes,
         Store(rows, T, c),
         \A p \in Persons : \A e \in props[p] : e \in T \/ \E q \in Persons : e \in rows[q]
  PROVE  /\ gone' \subseteq (Events \cup Links) \X Causes
         /\ props' \in [Persons -> SUBSET Events]
         /\ \A e : Settled(e) => Settled(e)'
         /\ \A p \in Persons : \A e \in rows[p] : Settled(e)'
         /\ \A m \in Links : Lost(m) => Lost(m)'
<1>1. props' = rows /\ gone' = {x \in gone : x[1] \notin Written(rows)} \cup {<<x, c>> : x \in T}
  BY DEF Store
<1>2. {<<x, c>> : x \in T} \subseteq (Events \cup Links) \X Causes
  OBVIOUS
<1>3. gone' \subseteq (Events \cup Links) \X Causes
  BY <1>1, <1>2 DEF OutsideType
<1>4. \A p \in Persons : \A e \in rows[p] : Settled(e)'
  BY <1>1 DEF Settled, InRows
<1>5. ASSUME NEW e, NEW k \in Causes, <<e, k>> \in gone PROVE e \in Written(rows) \/ Lost(e)'
  BY <1>1, <1>5 DEF Lost
<1>6. ASSUME NEW e \in T PROVE Lost(e)'
  BY <1>1 DEF Lost
<1>7. ASSUME NEW e, Settled(e) PROVE Settled(e)'
  <2>1. CASE InRows(e)
    BY <1>4, <1>6, <2>1 DEF InRows, Settled
  <2>2. CASE Lost(e)
    <3>1. e \in Written(rows) \/ Lost(e)'
      BY <1>5, <2>2 DEF Lost
    <3> QED
      BY <1>4, <3>1 DEF Written, Settled
  <2> QED
    BY <1>7, <2>1, <2>2 DEF Settled
<1>8. ASSUME NEW m \in Links, Lost(m) PROVE Lost(m)'
  <2>1. m \notin Written(rows)
    BY StoreAssumption DEF Written
  <2> QED
    BY <1>5, <1>8, <2>1 DEF Lost
<1> QED
  BY <1>1, <1>3, <1>4, <1>7, <1>8

(* A step of the flush of one replica.                                      *)
FlushTo(r, f) ==
  /\ flush[r].pc # "idle" /\ f.pc # "idle" /\ f \in FlushState
  /\ flush' = [flush EXCEPT ![r] = f]
  /\ UNCHANGED <<dead, pending, buffer, calls, handed, linked>>

LEMMA FlushStep ==
  ASSUME StoreInv, OutsideType', Keeps, NEW r \in Replicas, NEW f, FlushTo(r, f),
         \A e \in Swap(r) : Settled(e)' \/ e \in EventsOf(f.data),
         f.pc = "ids" => \A e \in EventsOf(f.data) : Settled(e)',
         f.pc \in Quiet => EventsOf(f.data) = {},
         f.pc \in Quiet \ {"merge", "commit"} => ToSet(f.data.merges) = {},
         f.pc = "commit" => f.data.merges # <<>>,
         f.pc \in {"recommit", "lrem"} => f.todo # <<>>,
         f.pc = "lrem" => Head(f.todo) \in merged',
         \A m \in ToSet(flush[r].data.merges) : MergeSettled(m)' \/ m \in ToSet(f.data.merges)
  PROVE  StoreInv'
<1>1. /\ flush \in [Replicas -> FlushState] /\ pending \in [Replicas -> Data]
      /\ buffer \in [Replicas -> SUBSET Sent] /\ calls \in [Replicas -> [Kinds -> CallState]]
      /\ Local(r)
  BY DEF StoreInv
<1>2. /\ flush' \in [Replicas -> FlushState] /\ flush'[r] = f
      /\ \A q \in Replicas \ {r} : flush'[q] = flush[q]
      /\ UNCHANGED <<dead, pending, buffer, calls, handed, linked>>
  BY <1>1 DEF FlushTo
<1>3. f.pc # "idle" /\ flush[r].pc # "idle" /\ f \in FlushState
  BY DEF FlushTo
<1>4. ReplicaType(r)'
  BY <1>1, <1>2, <1>3 DEF Local, ReplicaType
<1>5. Swap(r)' = EventsOf(f.data) /\ InMemory(r)' = EventsOf(pending[r]) \cup EventsOf(f.data)
      /\ InMemory(r) = EventsOf(pending[r]) \cup Swap(r)
  BY <1>2 DEF Swap, InMemory, EventsOf
<1>6. FlushInv(r)'
  BY <1>2, <1>3, <1>5 DEF FlushInv, Oldest
<1>7. BufferInv(r)'
  BY <1>1, <1>2, <1>5 DEF Local, BufferInv, Keeps, Safe
<1>8. ASSUME NEW k \in Kinds PROVE CallInv(r, k)'
  BY <1>1, <1>2, <1>5 DEF Local, CallInv, Keeps
<1>9. Local(r)'
  BY <1>4, <1>6, <1>7, <1>8 DEF Local
<1>10. Held(r)' = Held(r) /\ MergesOf(r)' = ToSet(pending[r].merges) \cup ToSet(f.data.merges)
  BY <1>2 DEF Held, MergesOf, ToSet
<1>11. ASSUME NEW m \in MergesOf(r) PROVE MergeSettled(m)' \/ m \in MergesOf(r)'
  BY <1>10 DEF MergesOf
<1> QED
  BY <1>1, <1>2, <1>9, <1>10, <1>11, StepOf

LEMMA NothingType ==
  /\ Nothing \in Data /\ Nothing.merges = <<>> /\ ToSet(Nothing.merges) = {} /\ EventsOf(Nothing) = {}
  /\ NoFlush \in FlushState /\ NoFlush.pc = "idle" /\ NoFlush.data = Nothing /\ NoFlush.todo = <<>>
  /\ NoCall \in CallState /\ NoCall.pc = "idle" /\ NoCall.events = {} /\ NoCall.owes = {}
<1>1. <<>> \in Seq(Links)
  BY EmptySeq
<1>2. Nothing \in Data /\ Nothing.merges = <<>>
  BY <1>1 DEF Nothing, Data
<1>3. EventsOf(Nothing) = {}
  BY DEF Nothing, EventsOf
<1>4. ToSet(Nothing.merges) = {}
  BY <1>2 DEF ToSet
<1>5. NoCall \in CallState /\ NoCall.pc = "idle" /\ NoCall.events = {} /\ NoCall.owes = {}
  BY DEF NoCall, CallState
<1> QED
  BY <1>1, <1>2, <1>3, <1>4, <1>5 DEF NoFlush, FlushState

LEMMA ReadStep == ASSUME StoreInv, NEW r \in Replicas, Read(r) PROVE StoreInv'
<1> DEFINE rows == [p \in Persons |-> IF flush[r].data.persons[p] = {} THEN {} ELSE props[p]]
           f == [flush[r] EXCEPT !.pc = "upsert", !.read = rows]
<1>1. flush[r] \in FlushState /\ flush[r].pc = "read" /\ props \in [Persons -> SUBSET Events]
  BY DEF StoreInv, OutsideType, Read, At
<1>2. rows \in [Persons -> SUBSET Events]
  BY <1>1
<1>3. flush' = [flush EXCEPT ![r] = f]
  BY DEF Read
<1>4. UNCHANGED <<pgVars, failed, dead, pending, buffer, calls, faults, handed, linked, merged, gone>>
  BY DEF Read
<1> HIDE DEF rows
<1>5. f \in FlushState /\ f.pc = "upsert" /\ f.data = flush[r].data
  BY <1>1, <1>2 DEF FlushState
<1> HIDE DEF f
<1>6. FlushTo(r, f)
  BY <1>1, <1>3, <1>4, <1>5 DEF FlushTo
<1>7. Keeps
  BY <1>4 DEF Keeps, Settled, InRows, Lost, Safe, MergeSettled, pgVars
<1>8. OutsideType'
  BY <1>4 DEF StoreInv, OutsideType, pgVars
<1> QED
  BY <1>5, <1>6, <1>7, <1>8, FlushStep DEF Quiet, Swap

LEMMA UpsertStep == ASSUME StoreInv, NEW r \in Replicas, Upsert(r) PROVE StoreInv'
<1> DEFINE touched == {p \in Persons : flush[r].data.persons[p] # {}}
           rows == [p \in Persons |-> IF p \in touched THEN flush[r].read[p] \cup flush[r].data.persons[p]
                                      ELSE props[p]]
           over == UNION {props[p] \ rows[p] : p \in touched}
           f == [flush[r] EXCEPT !.pc = "ids", !.read = NoFlush.read]
<1>1. /\ flush[r] \in FlushState /\ flush[r].pc = "upsert" /\ props \in [Persons -> SUBSET Events]
      /\ flush[r].data \in Data /\ OutsideType
  BY DEF StoreInv, OutsideType, Upsert, At, FlushState
<1>2. live' = live \cup touched /\ Store(rows, over, "overwritten") /\ flush' = [flush EXCEPT ![r] = f]
  BY DEF Upsert
<1>3. UNCHANGED <<owner, failed, dead, pending, buffer, calls, faults, handed, linked, merged>>
  BY DEF Upsert
<1>4. touched \subseteq Persons
  OBVIOUS
<1>5. /\ rows \in [Persons -> SUBSET Events]
      /\ \A p \in Persons : flush[r].data.persons[p] \subseteq rows[p]
      /\ \A p \in Persons \ touched : rows[p] = props[p]
  BY <1>1 DEF FlushState, Data
<1> HIDE DEF rows, touched
<1>6. /\ over \in SUBSET Events
      /\ \A p \in Persons : \A e \in props[p] : e \in over \/ \E q \in Persons : e \in rows[q]
  BY <1>1, <1>4, <1>5
<1>7. f \in FlushState /\ f.pc = "ids" /\ f.data = flush[r].data
  BY <1>1, NothingType DEF FlushState
<1> HIDE DEF f, over
<1>8. /\ gone' \subseteq (Events \cup Links) \X Causes
      /\ props' \in [Persons -> SUBSET Events]
      /\ \A e : Settled(e) => Settled(e)'
      /\ \A p \in Persons : \A e \in rows[p] : Settled(e)'
      /\ \A m \in Links : Lost(m) => Lost(m)'
  <2>1. "overwritten" \in Causes
    BY DEF Causes
  <2> QED
    BY <1>1, <1>2, <1>5, <1>6, <2>1, StoreKeeps
<1>9. Keeps
  BY <1>3, <1>8 DEF Keeps, Safe, MergeSettled
<1>10. OutsideType'
  BY <1>1, <1>2, <1>3, <1>4, <1>8 DEF OutsideType
<1>11. \A e \in Swap(r) : Settled(e)'
  BY <1>5, <1>8 DEF Swap, EventsOf
<1>12. FlushTo(r, f)
  BY <1>1, <1>2, <1>3, <1>7 DEF FlushTo
<1> QED
  BY <1>7, <1>9, <1>10, <1>11, <1>12, FlushStep DEF Quiet, Swap

LEMMA InsertIdsStep == ASSUME StoreInv, NEW r \in Replicas, InsertIds(r) PROVE StoreInv'
<1> DEFINE ids == flush[r].data.ids
           data == [Nothing EXCEPT !.merges = flush[r].data.merges]
           f == [flush[r] EXCEPT !.pc = "merge", !.data = data]
<1>1. /\ flush[r] \in FlushState /\ flush[r].pc = "ids" /\ flush[r].data \in Data
      /\ ids \in [Dids -> Persons \cup {None}] /\ OutsideType /\ FlushInv(r)
  BY DEF StoreInv, Local, InsertIds, At, FlushState, Data
<1>2. /\ owner' = [d \in Dids |-> IF owner[d] = None /\ ids[d] \in live THEN ids[d] ELSE owner[d]]
      /\ flush' = [flush EXCEPT ![r] = f]
  BY DEF InsertIds
<1>3. UNCHANGED <<live, props, failed, dead, pending, buffer, calls, faults, handed, linked, merged, gone>>
  BY DEF InsertIds
<1>4. data \in Data /\ data.merges = flush[r].data.merges /\ EventsOf(data) = {}
  BY <1>1 DEF Nothing, Data, EventsOf
<1>5. owner' \in [Dids -> Persons \cup {None}]
  <2> HIDE DEF ids
  <2> QED
    BY <1>1, <1>2 DEF OutsideType
<1> HIDE DEF data
<1>6. f \in FlushState /\ f.pc = "merge" /\ f.data = data
  BY <1>1, <1>4 DEF FlushState
<1> HIDE DEF f
<1>7. Keeps
  BY <1>3 DEF Keeps, Settled, InRows, Lost, Safe, MergeSettled
<1>8. OutsideType'
  BY <1>1, <1>3, <1>5 DEF OutsideType
<1>9. FlushTo(r, f)
  BY <1>1, <1>2, <1>3, <1>6 DEF FlushTo
<1>10. \A e \in Swap(r) : Settled(e)'
  BY <1>1, <1>7 DEF FlushInv, Keeps
<1> QED
  BY <1>4, <1>6, <1>7, <1>8, <1>9, <1>10, FlushStep DEF Quiet

LEMMA CommitKeeps ==
  ASSUME StoreInv, NEW r \in Replicas, NEW m \in Links, Commit(r, m), UNCHANGED <<failed, dead, handed, linked>>
  PROVE  Keeps /\ OutsideType' /\ m \in merged'
<1> DEFINE tx == flush[r]
           joins == m[2] \in tx.found \cap live
           deletes == m[1] \in tx.found
           joined == [props EXCEPT ![m[1]] = {}, ![m[2]] = tx.read[m[1]] \cup tx.read[m[2]]]
           cleared == [props EXCEPT ![m[1]] = {}]
           late == (props[m[1]] \ tx.read[m[1]]) \cup (props[m[2]] \ tx.read[m[2]])
           row(d) == IF owner[d] # m[1] THEN owner[d]
                     ELSE IF d \in tx.moved THEN m[2] ELSE IF deletes THEN None ELSE m[1]
<1>1. m[1] \in Persons /\ m[2] \in Persons /\ m[1] # m[2]
  BY StoreAssumption
<1>2. /\ tx \in FlushState /\ tx.read \in [Persons -> SUBSET Events]
      /\ props \in [Persons -> SUBSET Events] /\ owner \in [Dids -> Persons \cup {None}] /\ OutsideType
  BY DEF StoreInv, OutsideType, FlushState
<1>3. /\ owner' = [d \in Dids |-> row(d)] /\ merged' = merged \cup {m}
      /\ live' = IF deletes THEN live \ {m[1]} ELSE live
  BY DEF Commit
<1>4. /\ ~deletes => UNCHANGED <<props, gone>>
      /\ deletes /\ joins => Store(joined, late, "merged over")
      /\ deletes /\ ~joins => Store(cleared, props[m[1]], "no user row")
  <2>1. CASE ~deletes
    <3> HIDE DEF joins, joined, cleared, late
    <3> QED BY <2>1 DEF Commit, joins, joined, cleared, late
  <2>2. CASE deletes /\ joins
    BY <2>2 DEF Commit
  <2>3. CASE deletes /\ ~joins
    BY <2>3 DEF Commit
  <2> QED
    BY <2>1, <2>2, <2>3
<1>5. owner' \in [Dids -> Persons \cup {None}] /\ live' \subseteq Persons /\ merged' \subseteq Links
  BY <1>1, <1>2, <1>3 DEF OutsideType
<1> HIDE DEF deletes, joins, row, tx
<1>6. /\ joined \in [Persons -> SUBSET Events] /\ late \in SUBSET Events
      /\ \A p \in Persons : \A e \in props[p] : e \in late \/ \E q \in Persons : e \in joined[q]
  <2>1. joined \in [Persons -> SUBSET Events] /\ late \in SUBSET Events
    BY <1>1, <1>2
  <2>2. /\ joined[m[2]] = tx.read[m[1]] \cup tx.read[m[2]]
        /\ \A p \in Persons \ {m[1], m[2]} : joined[p] = props[p]
    BY <1>1, <1>2
  <2> HIDE DEF joined
  <2>3. \A p \in {m[1], m[2]} : \A e \in props[p] : e \in late \/ e \in joined[m[2]]
    BY <2>2
  <2> QED
    BY <1>1, <2>1, <2>2, <2>3
<1>7. /\ cleared \in [Persons -> SUBSET Events] /\ props[m[1]] \in SUBSET Events
      /\ \A p \in Persons : \A e \in props[p] : e \in props[m[1]] \/ \E q \in Persons : e \in cleared[q]
  BY <1>1, <1>2
<1> HIDE DEF joined, cleared, late
<1>8. "merged over" \in Causes /\ "no user row" \in Causes
  BY DEF Causes
<1>9. /\ gone' \subseteq (Events \cup Links) \X Causes
      /\ props' \in [Persons -> SUBSET Events]
      /\ \A e : Settled(e) => Settled(e)'
      /\ \A n \in Links : Lost(n) => Lost(n)'
  <2>1. CASE ~deletes
    BY <1>2, <1>4, <2>1 DEF OutsideType, Settled, InRows, Lost
  <2>2. CASE deletes /\ joins
    BY <1>2, <1>4, <1>6, <1>8, <2>2, StoreKeeps
  <2>3. CASE deletes /\ ~joins
    BY <1>2, <1>4, <1>7, <1>8, <2>3, StoreKeeps
  <2> QED
    BY <2>1, <2>2, <2>3
<1>10. OutsideType'
  BY <1>2, <1>5, <1>9 DEF OutsideType
<1>11. Keeps
  BY <1>3, <1>9 DEF Keeps, Safe, MergeSettled
<1> QED
  BY <1>3, <1>10, <1>11

(* A transaction that selects, or an entry that is skipped: nothing outside *)
(* the replica changes.                                                     *)
LEMMA Untouched ==
  ASSUME StoreInv, UNCHANGED <<pgVars, failed, dead, handed, linked, merged, gone>>
  PROVE  Keeps /\ OutsideType'
<1>1. Keeps
  BY DEF Keeps, Settled, InRows, Lost, Safe, MergeSettled, pgVars
<1>2. OutsideType'
  BY DEF StoreInv, OutsideType, pgVars
<1> QED
  BY <1>1, <1>2

LEMMA SelectStep ==
  ASSUME StoreInv, NEW r \in Replicas, NEW m, NEW pc, Select(r, m, pc),
         \/ pc = "commit" /\ At(r, "merge") /\ flush[r].data.merges # <<>>
         \/ pc = "recommit" /\ At(r, "replay") /\ flush[r].todo # <<>>
  PROVE  StoreInv'
<1> DEFINE moved == {d \in Dids : owner[d] = m[1]}
           found == live \cap {m[1], m[2]}
           read == [p \in Persons |-> IF p \in found THEN props[p] ELSE {}]
           f == [flush[r] EXCEPT !.pc = pc, !.moved = moved, !.found = found, !.read = read]
<1>1. /\ flush[r] \in FlushState /\ OutsideType /\ FlushInv(r)
      /\ props \in [Persons -> SUBSET Events] /\ live \subseteq Persons
  BY DEF StoreInv, OutsideType, Local
<1>2. flush' = [flush EXCEPT ![r] = f]
  BY DEF Select
<1>3. UNCHANGED <<pgVars, failed, dead, pending, buffer, calls, faults, handed, linked, merged, gone>>
  BY DEF Select
<1>4. moved \subseteq Dids /\ found \subseteq Persons /\ read \in [Persons -> SUBSET Events]
  BY <1>1
<1> HIDE DEF moved, found, read
<1>5. f \in FlushState /\ f.pc = pc /\ f.data = flush[r].data /\ f.todo = flush[r].todo
  BY <1>1, <1>4 DEF FlushState
<1> HIDE DEF f
<1>6. Keeps /\ OutsideType'
  BY <1>3, Untouched
<1>7. FlushTo(r, f)
  BY <1>2, <1>3, <1>5 DEF FlushTo, At
<1>8. Swap(r) = {} /\ (pc = "recommit" => ToSet(flush[r].data.merges) = {})
  BY <1>1 DEF FlushInv, Quiet, At
<1> QED
  BY <1>5, <1>6, <1>7, <1>8, FlushStep DEF Quiet, At, Swap

(* The merge that was at the head of the list is done with.                 *)
LEMMA MergeDoneStep ==
  ASSUME StoreInv, NEW r \in Replicas, flush[r].pc \in {"merge", "commit"}, flush[r].data.merges # <<>>,
         MergeDone(r), UNCHANGED <<dead, pending, buffer, calls, handed, linked>>,
         Keeps, OutsideType', NEW next, next = NextMerge(r), MergeSettled(next)'
  PROVE  StoreInv'
<1> DEFINE rest == Tail(flush[r].data.merges)
           data == [Nothing EXCEPT !.merges = rest]
           f == [NoFlush EXCEPT !.pc = "merge", !.data = data]
<1>1. flush[r] \in FlushState /\ flush[r].data \in Data /\ flush[r].data.merges \in Seq(Links) /\ FlushInv(r)
  BY DEF StoreInv, Local, FlushState, Data
<1>2. rest \in Seq(Links) /\ \A m \in ToSet(flush[r].data.merges) : m = NextMerge(r) \/ m \in ToSet(rest)
  BY <1>1, HeadOrTail, HeadTailProperties DEF NextMerge
<1>3. flush' = [flush EXCEPT ![r] = f]
  BY NothingType DEF MergeDone, NoFlush
<1> HIDE DEF rest
<1>4. data \in Data /\ data.merges = rest /\ EventsOf(data) = {}
  BY <1>2 DEF Nothing, Data, EventsOf
<1> HIDE DEF data
<1>5. f \in FlushState /\ f.pc = "merge" /\ f.data = data
  BY <1>4, NothingType DEF FlushState
<1> HIDE DEF f
<1>6. FlushTo(r, f)
  BY <1>3, <1>5 DEF FlushTo
<1>7. Swap(r) = {}
  BY <1>1 DEF FlushInv, Quiet
<1> QED
  BY <1>2, <1>4, <1>5, <1>6, <1>7, FlushStep DEF Quiet

LEMMA HeadOfSeq ==
  ASSUME NEW S, NEW s \in Seq(S), s # <<>>
  PROVE  Head(s) \in S
  BY HeadTailProperties

LEMMA NextMergeType ==
  ASSUME StoreInv, NEW r \in Replicas, flush[r].data.merges # <<>>
  PROVE  NextMerge(r) \in Links
<1>1. flush[r].data.merges \in Seq(Links)
  BY DEF StoreInv, FlushState, Data
<1> QED
  BY <1>1, HeadOfSeq DEF NextMerge

LEMMA MergePendingStep == ASSUME StoreInv, NEW r \in Replicas, MergePending(r) PROVE StoreInv'
<1>1. CASE At(r, "merge") /\ flush[r].data.merges # <<>> /\ Select(r, NextMerge(r), "commit")
  BY <1>1, SelectStep
<1>2. CASE /\ At(r, "commit") /\ Commit(r, NextMerge(r)) /\ MergeDone(r)
           /\ UNCHANGED <<failed, dead, pending, buffer, calls, faults, handed, linked>>
  <2>1. flush[r].data.merges # <<>>
    BY <1>2 DEF StoreInv, Local, FlushInv, At
  <2>2. NextMerge(r) \in Links
    BY <2>1, NextMergeType
  <2>3. Keeps /\ OutsideType' /\ NextMerge(r) \in merged'
    BY <1>2, <2>2, CommitKeeps
  <2>4. \E next : next = NextMerge(r) /\ MergeSettled(next)'
    BY <2>3 DEF MergeSettled
  <2> QED
    BY <1>2, <2>1, <2>3, <2>4, MergeDoneStep DEF At
<1> QED
  BY <1>1, <1>2 DEF MergePending

LEMMA PersistMergeStep == ASSUME StoreInv, NEW r \in Replicas, PersistMerge(r) PROVE StoreInv'
<1> DEFINE m == NextMerge(r)
           list == <<m>> \o failed
           kept == SubSeq(list, 1, IF Len(list) < MaxFailed THEN Len(list) ELSE MaxFailed)
           cut == {list[i] : i \in (MaxFailed + 1)..Len(list)}
<1>1. flush[r].pc = "merge" /\ flush[r].data.merges # <<>> /\ failed \in Seq(Links) /\ OutsideType
  BY DEF StoreInv, OutsideType, PersistMerge, At
<1>2. m \in Links
  BY <1>1, NextMergeType
<1>3. /\ MergeDone(r) /\ failed' = kept /\ Lose(cut, "trimmed")
      /\ UNCHANGED <<pgVars, dead, pending, buffer, calls, handed, linked, merged>>
  BY DEF PersistMerge
<1>4. /\ kept \in Seq(Links) /\ Len(kept) <= MaxFailed
      /\ cut \subseteq Links /\ {m} \cup ToSet(failed) \subseteq ToSet(kept) \cup cut
  BY <1>1, <1>2, TrimmedList
<1> HIDE DEF kept, cut, list
<1>5. /\ gone' \subseteq (Events \cup Links) \X Causes
      /\ \A x : Settled(x) => Settled(x)'
      /\ \A x : Lost(x) \/ x \in cut => Lost(x)'
  <2>1. UNCHANGED props /\ "trimmed" \in Causes /\ cut \in SUBSET (Events \cup Links)
    BY <1>3, <1>4 DEF pgVars, Causes
  <2> QED
    BY <1>1, <1>3, <2>1, LoseKeeps
<1>6. Keeps
  BY <1>3, <1>4, <1>5 DEF Keeps, Safe, MergeSettled
<1>7. OutsideType'
  BY <1>1, <1>3, <1>4, <1>5 DEF OutsideType, pgVars
<1>8. \E next : next = NextMerge(r) /\ MergeSettled(next)'
  BY <1>3, <1>4, <1>5 DEF MergeSettled
<1> HIDE DEF m
<1> QED
  BY <1>1, <1>3, <1>6, <1>7, <1>8, MergeDoneStep

LEMMA DropMergeStep == ASSUME StoreInv, NEW r \in Replicas, DropMerge(r) PROVE StoreInv'
<1> DEFINE m == NextMerge(r)
<1>1. flush[r].pc = "merge" /\ flush[r].data.merges # <<>> /\ OutsideType
  BY DEF StoreInv, DropMerge, At
<1>2. m \in Links
  BY <1>1, NextMergeType
<1>3. /\ MergeDone(r) /\ Lose({m}, "not persisted")
      /\ UNCHANGED <<pgVars, failed, dead, pending, buffer, calls, handed, linked, merged>>
  BY DEF DropMerge
<1> HIDE DEF m
<1>4. /\ gone' \subseteq (Events \cup Links) \X Causes
      /\ \A x : Settled(x) => Settled(x)'
      /\ \A x : Lost(x) \/ x \in {m} => Lost(x)'
  <2>1. UNCHANGED props /\ "not persisted" \in Causes /\ {m} \in SUBSET (Events \cup Links)
    BY <1>2, <1>3 DEF pgVars, Causes
  <2> QED
    BY <1>1, <1>3, <2>1, LoseKeeps
<1>5. Keeps
  BY <1>3, <1>4 DEF Keeps, Safe, MergeSettled
<1>6. OutsideType'
  BY <1>1, <1>3, <1>4 DEF OutsideType, pgVars
<1>7. \E next : next = NextMerge(r) /\ MergeSettled(next)'
  BY <1>4 DEF MergeSettled, m
<1> QED
  BY <1>1, <1>3, <1>5, <1>6, <1>7, MergeDoneStep

(* The replay goes on with a list of entries: nothing is pending in the     *)
(* flush any more.                                                          *)
LEMMA TodoStep ==
  ASSUME StoreInv, NEW r \in Replicas, NEW pc \in {"replay", "lrem"}, NEW list \in Seq(Links), NEW f,
         pc = "lrem" => list # <<>> /\ Head(list) \in merged', flush[r].pc # "idle", Swap(r) = {}, ToSet(flush[r].data.merges) = {},
         f \in FlushState, f.pc = pc, f.todo = list, f.data = flush[r].data \/ f.data = Nothing,
         flush' = [flush EXCEPT ![r] = f], UNCHANGED <<dead, pending, buffer, calls, handed, linked>>,
         Keeps, OutsideType'
  PROVE  StoreInv'
<1>1. EventsOf(f.data) = {} /\ ToSet(f.data.merges) = {}
  BY NothingType DEF Swap
<1>2. FlushTo(r, f)
  BY DEF FlushTo
<1> QED
  BY <1>1, <1>2, FlushStep DEF Quiet

LEMMA RangeFailedStep == ASSUME StoreInv, NEW r \in Replicas, RangeFailed(r) PROVE StoreInv'
<1> DEFINE n == IF Len(failed) < ReplayBatch THEN Len(failed) ELSE ReplayBatch
           last == SubSeq(failed, Len(failed) - n + 1, Len(failed))
<1>1. /\ flush[r] \in FlushState /\ failed \in Seq(Links) /\ FlushInv(r)
      /\ flush[r].pc = "merge" /\ flush[r].data.merges = <<>>
  BY DEF StoreInv, OutsideType, Local, RangeFailed, At
<1>2. last \in Seq(Links) /\ <<>> \in Seq(Links)
  <2>1. ReplayBatch \in Nat \ {0} /\ Len(failed) \in Nat /\ \A i \in 1..Len(failed) : failed[i] \in Links
    BY <1>1, StoreAssumption, LenProperties
  <2>2. Len(failed) - n + 1 \in Nat /\ Len(failed) - n + 1 >= 1
    BY <2>1
  <2> DEFINE k == Len(failed) - n + 1
  <2> HIDE DEF n
  <2>3. k \in Nat /\ k >= 1
    BY <2>2
  <2> HIDE DEF k
  <2>4. \A i \in k..Len(failed) : failed[i] \in Links
    BY <2>1, <2>3
  <2>5. SubSeq(failed, k, Len(failed)) \in Seq(Links)
    BY <2>1, <2>3, <2>4, SubSeqProperties
  <2> QED
    BY <2>5, EmptySeq DEF k
<1>3. PICK list \in {last, <<>>} : flush' = [flush EXCEPT ![r] = [flush[r] EXCEPT !.pc = "replay", !.todo = list]]
  BY DEF RangeFailed
<1>4. UNCHANGED <<pgVars, failed, dead, pending, buffer, calls, handed, linked, merged, gone>>
  BY DEF RangeFailed
<1> DEFINE f == [flush[r] EXCEPT !.pc = "replay", !.todo = list]
<1> HIDE DEF last
<1>5. f \in FlushState /\ f.pc = "replay" /\ f.todo = list /\ f.data = flush[r].data /\ list \in Seq(Links)
  BY <1>1, <1>2, <1>3 DEF FlushState
<1>6. flush' = [flush EXCEPT ![r] = f]
  BY <1>3
<1> HIDE DEF f
<1>7. Swap(r) = {} /\ ToSet(flush[r].data.merges) = {}
  BY <1>1 DEF FlushInv, Quiet, ToSet
<1>8. Keeps /\ OutsideType'
  BY <1>4, Untouched
<1> QED
  BY <1>1, <1>4, <1>5, <1>6, <1>7, <1>8, TodoStep

LEMMA EntryDoneStep ==
  ASSUME StoreInv, NEW r \in Replicas, flush[r].pc \in {"replay", "lrem"}, flush[r].todo # <<>>,
         EntryDone(r), UNCHANGED <<dead, pending, buffer, calls, handed, linked>>, Keeps, OutsideType'
  PROVE  StoreInv'
<1> DEFINE rest == Tail(flush[r].todo)
           f == [NoFlush EXCEPT !.pc = "replay", !.todo = rest]
<1>1. flush[r] \in FlushState /\ flush[r].todo \in Seq(Links) /\ FlushInv(r)
  BY DEF StoreInv, Local, FlushState
<1>2. rest \in Seq(Links) /\ flush' = [flush EXCEPT ![r] = f]
  BY <1>1, HeadTailProperties DEF EntryDone
<1> HIDE DEF rest
<1>3. f \in FlushState /\ f.pc = "replay" /\ f.todo = rest /\ f.data = Nothing
  BY <1>2, NothingType DEF FlushState
<1> HIDE DEF f
<1>4. Swap(r) = {} /\ ToSet(flush[r].data.merges) = {}
  BY <1>1 DEF FlushInv, Quiet
<1> QED
  BY <1>2, <1>3, <1>4, TodoStep

LEMMA OldestType ==
  ASSUME StoreInv, NEW r \in Replicas, flush[r].todo # <<>>
  PROVE  Oldest(r) \in Links
<1>1. flush[r].todo \in Seq(Links)
  BY DEF StoreInv, FlushState
<1> QED
  BY <1>1, HeadOfSeq DEF Oldest

LEMMA ReplayStep == ASSUME StoreInv, NEW r \in Replicas, Replay(r) PROVE StoreInv'
<1>1. CASE At(r, "replay") /\ flush[r].todo # <<>> /\ Select(r, Oldest(r), "recommit")
  BY <1>1, SelectStep
<1>2. CASE /\ At(r, "recommit") /\ Commit(r, Oldest(r))
           /\ flush' = [flush EXCEPT ![r] = [NoFlush EXCEPT !.pc = "lrem", !.todo = flush[r].todo]]
           /\ UNCHANGED <<failed, dead, pending, buffer, calls, faults, handed, linked>>
  <2> DEFINE f == [NoFlush EXCEPT !.pc = "lrem", !.todo = flush[r].todo]
  <2>1. /\ flush[r] \in FlushState /\ flush[r].todo \in Seq(Links) /\ FlushInv(r)
        /\ flush[r].pc = "recommit"
    BY <1>2 DEF StoreInv, Local, FlushState, At
  <2>2. flush[r].todo # <<>> /\ Swap(r) = {} /\ ToSet(flush[r].data.merges) = {}
    BY <2>1 DEF FlushInv, Quiet
  <2>3. Keeps /\ OutsideType' /\ Head(flush[r].todo) \in merged'
    BY <1>2, <2>2, OldestType, CommitKeeps DEF Oldest
  <2>4. f \in FlushState /\ f.pc = "lrem" /\ f.todo = flush[r].todo /\ f.data = Nothing
    BY <2>1, NothingType DEF FlushState
  <2>5. flush' = [flush EXCEPT ![r] = f]
    BY <1>2
  <2> HIDE DEF f
  <2> QED
    BY <1>2, <2>1, <2>2, <2>3, <2>4, <2>5, TodoStep
<1>3. CASE /\ At(r, "lrem") /\ EntryDone(r) /\ failed' = RemoveFirst(failed, Oldest(r))
           /\ UNCHANGED <<pgVars, dead, pending, buffer, calls, faults, handed, linked, merged, gone>>
  <2>1. FlushInv(r) /\ OutsideType /\ failed \in Seq(Links) /\ Len(failed) <= MaxFailed
    BY DEF StoreInv, OutsideType, Local
  <2>2. flush[r].todo # <<>>
    BY <1>3, <2>1 DEF FlushInv, At
  <2>3. Oldest(r) \in merged
    BY <1>3, <2>1 DEF FlushInv, At
  <2>4. /\ failed' \in Seq(Links) /\ Len(failed') <= MaxFailed
        /\ \A x \in ToSet(failed) : x # Oldest(r) => x \in ToSet(failed')
    <3>1. /\ failed' \in Seq(Links) /\ Len(failed') <= Len(failed)
          /\ \A x \in ToSet(failed) : x # Oldest(r) => x \in ToSet(failed')
      BY <1>3, <2>1, RemoveFirstKeeps
    <3>2. MaxFailed \in Nat /\ Len(failed) \in Nat /\ Len(failed') \in Nat
      BY <2>1, <3>1, StoreAssumption, LenProperties
    <3> QED
      BY <2>1, <3>1, <3>2
  <2>5. Keeps
    BY <1>3, <2>3, <2>4 DEF Keeps, Settled, InRows, Lost, Safe, MergeSettled, pgVars
  <2>6. OutsideType'
    BY <1>3, <2>1, <2>4 DEF OutsideType, pgVars
  <2> QED
    BY <1>3, <2>2, <2>5, <2>6, EntryDoneStep DEF At
<1> QED
  BY <1>1, <1>2, <1>3 DEF Replay

LEMMA ReplayFailsStep == ASSUME StoreInv, NEW r \in Replicas, ReplayFails(r) PROVE StoreInv'
<1>1. /\ flush[r].pc \in {"replay", "lrem"} /\ flush[r].todo # <<>> /\ EntryDone(r)
      /\ UNCHANGED <<pgVars, failed, dead, pending, buffer, calls, handed, linked, merged, gone>>
  BY DEF ReplayFails
<1>2. Keeps /\ OutsideType'
  BY <1>1, Untouched
<1> QED
  BY <1>1, <1>2, EntryDoneStep
-----------------------------------------------------------------------------
LEMMA EventsOfType == ASSUME NEW d \in Data PROVE EventsOf(d) \subseteq Events
  BY DEF EventsOf, Data

LEMMA NamesJoin == ASSUME NEW s, NEW t PROVE Names(s \cup t) = Names(s) \cup Names(t)
  BY DEF Names

LEMMA NamesOne == ASSUME NEW e, NEW w PROVE Names({<<e, w>>}) = {e}
<1>1. <<e, w>>[1] = e
  OBVIOUS
<1>2. Names({<<e, w>>}) = {<<e, w>>[1]}
  BY Zenon DEF Names
<1> QED
  BY <1>1, <1>2

LEMMA EnqueueStep ==
  ASSUME StoreInv, NEW r \in Replicas, NEW e \in Events, NEW way \in Ways, NEW asked \in Seq(Links),
         Enqueue(r, e, way, asked)
  PROVE  StoreInv'
<1> DEFINE old == pending[r]
           d == [persons |-> [old.persons EXCEPT ![way[2]] = @ \cup {e}],
                 ids |-> [old.ids EXCEPT ![way[1]] = way[2]],
                 merges |-> old.merges \o asked]
<1>1. /\ old \in Data /\ way[1] \in Dids /\ way[2] \in Persons /\ <<e, way>> \in Sent
      /\ pending \in [Replicas -> Data] /\ buffer \in [Replicas -> SUBSET Sent] /\ OutsideType /\ Local(r)
  BY StoreAssumption DEF StoreInv, Sent
<1>2. /\ handed' = handed \cup {e} /\ linked' = linked \cup ToSet(asked)
      /\ pending' = [pending EXCEPT ![r] = d]
      /\ buffer' = [buffer EXCEPT ![r] = @ \cup {<<e, way>>}]
      /\ UNCHANGED <<pgVars, failed, dead, flush, calls, faults, merged, gone>>
  BY DEF Enqueue
<1>3. d \in Data
  <2>1. d.merges \in Seq(Links)
    BY <1>1, ConcatProperties DEF Data
  <2> QED
    BY <1>1, <2>1 DEF Data
<1>4. EventsOf(d) = EventsOf(old) \cup {e}
  BY <1>1 DEF EventsOf, Data
<1>5. ToSet(old.merges) \cup ToSet(asked) \subseteq ToSet(d.merges) /\ ToSet(asked) \subseteq Links
  <2>1. old.merges \in Seq(Links)
    BY <1>1 DEF Data
  <2>2. ToSet(old.merges) \cup ToSet(asked) \subseteq ToSet(old.merges \o asked)
    BY <2>1, ConcatSets
  <2> HIDE DEF old
  <2> QED
    BY <2>2 DEF ToSet
<1> HIDE DEF d
<1>6. /\ pending' \in [Replicas -> Data] /\ pending'[r] = d
      /\ buffer' \in [Replicas -> SUBSET Sent] /\ buffer'[r] = buffer[r] \cup {<<e, way>>}
      /\ \A q \in Replicas \ {r} : pending'[q] = pending[q] /\ buffer'[q] = buffer[q]
  BY <1>1, <1>2, <1>3
<1>7. Keeps
  BY <1>2 DEF Keeps, Settled, InRows, Lost, Safe, MergeSettled, pgVars
<1>8. OutsideType'
  BY <1>1, <1>2, <1>5 DEF OutsideType, pgVars
<1>9. Swap(r)' = Swap(r) /\ InMemory(r)' = InMemory(r) \cup {e}
  <2>1. Swap(r)' = Swap(r) /\ InMemory(r)' = EventsOf(d) \cup Swap(r)
    BY <1>2, <1>6 DEF Swap, InMemory, EventsOf
  <2> QED
    BY <1>4, <2>1 DEF Swap, InMemory
<1>10. Names(buffer'[r]) = Names(buffer[r]) \cup {e}
  <2>1. Names({<<e, way>>}) = {e}
    BY NamesOne
  <2>2. Names(buffer[r] \cup {<<e, way>>}) = Names(buffer[r]) \cup Names({<<e, way>>})
    BY NamesJoin
  <2> QED
    BY <1>6, <2>1, <2>2
<1>11. Local(r)'
  <2>1. ReplicaType(r)'
    BY <1>1, <1>2, <1>3, <1>6 DEF Local, ReplicaType
  <2>2. FlushInv(r)'
    BY <1>1, <1>2, <1>7, <1>9 DEF Local, FlushInv, Keeps, Oldest
  <2>3. BufferInv(r)'
    <3>1. \A x \in Names(buffer[r]) : Safe(x)' \/ x \in InMemory(r)
      BY <1>1, <1>7 DEF Local, BufferInv, Keeps
    <3>2. BufferInv(r)' <=> \A x \in Names(buffer'[r]) : Safe(x)' \/ x \in InMemory(r)'
      BY DEF BufferInv, Names
    <3> QED
      BY <1>9, <1>10, <3>1, <3>2
  <2>4. ASSUME NEW k \in Kinds PROVE CallInv(r, k)'
    BY <1>1, <1>2, <1>7, <1>9 DEF Local, CallInv, Keeps
  <2> QED
    BY <2>1, <2>2, <2>3, <2>4 DEF Local
<1>12. Held(r) \cup {e} \subseteq Held(r)'
  <2>1. Held(r)' = Names(buffer'[r] \cup calls[r]["batch"].events)
    BY <1>2 DEF Held, Names
  <2> QED
    BY <1>6, <1>10, <2>1, NamesJoin DEF Held
<1>13. MergesOf(r) \cup ToSet(asked) \subseteq MergesOf(r)'
  <2>1. MergesOf(r)' = ToSet(d.merges) \cup ToSet(flush[r].data.merges)
    BY <1>2, <1>6 DEF MergesOf, ToSet
  <2> QED
    BY <1>5, <2>1 DEF MergesOf
<1>14. flush' \in [Replicas -> FlushState] /\ calls' \in [Replicas -> [Kinds -> CallState]]
       /\ \A q \in Replicas \ {r} : flush'[q] = flush[q] /\ calls'[q] = calls[q]
  BY <1>2 DEF StoreInv
<1> QED
  BY <1>2, <1>6, <1>7, <1>8, <1>11, <1>12, <1>13, <1>14, StepOf

(* A flush that begins with what data holds.                                *)
LEMMA SwappedTo ==
  ASSUME StoreInv, NEW r \in Replicas, NEW data \in Data, Swapped(r, data)
  PROVE  /\ flush' \in [Replicas -> FlushState] /\ pending' \in [Replicas -> Data]
         /\ flush'[r].pc \in {"read", "ids", "merge"} /\ flush'[r].data = data /\ pending'[r] = Nothing
         /\ flush'[r].pc # "read" => EventsOf(data) = {}
         /\ \A q \in Replicas \ {r} : flush'[q] = flush[q] /\ pending'[q] = pending[q]
         /\ Swap(r)' = EventsOf(data) /\ InMemory(r)' = EventsOf(data) /\ FlushInv(r)'
         /\ MergesOf(r)' = ToSet(data.merges)
<1> DEFINE pc == IF EventsOf(data) # {} THEN "read"
                 ELSE IF data.ids # Nothing.ids THEN "ids" ELSE "merge"
           f == [NoFlush EXCEPT !.pc = pc, !.data = data]
<1>1. pc \in {"read", "ids", "merge"} /\ (pc # "read" => EventsOf(data) = {})
  OBVIOUS
<1>2. flush' = [flush EXCEPT ![r] = f] /\ pending' = [pending EXCEPT ![r] = Nothing]
  BY DEF Swapped
<1> HIDE DEF pc
<1>3. f \in FlushState /\ f.pc = pc /\ f.data = data
  BY <1>1, NothingType DEF FlushState
<1> HIDE DEF f
<1>4. /\ flush' \in [Replicas -> FlushState] /\ pending' \in [Replicas -> Data]
      /\ flush'[r] = f /\ pending'[r] = Nothing
      /\ \A q \in Replicas \ {r} : flush'[q] = flush[q] /\ pending'[q] = pending[q]
  BY <1>2, <1>3, NothingType DEF StoreInv
<1>5. Swap(r)' = EventsOf(data) /\ InMemory(r)' = EventsOf(data) /\ MergesOf(r)' = ToSet(data.merges)
  <2>1. Swap(r)' = EventsOf(data)
    BY <1>3, <1>4 DEF Swap, EventsOf
  <2>2. InMemory(r)' = EventsOf(Nothing) \cup EventsOf(data)
    BY <1>3, <1>4 DEF InMemory, EventsOf
  <2>3. MergesOf(r)' = ToSet(Nothing.merges) \cup ToSet(data.merges)
    BY <1>3, <1>4 DEF MergesOf, ToSet
  <2> QED
    BY <2>1, <2>2, <2>3, NothingType
<1>6. FlushInv(r)'
  BY <1>1, <1>3, <1>4, <1>5 DEF FlushInv, Quiet
<1> QED
  BY <1>1, <1>3, <1>4, <1>5, <1>6

LEMMA WriteStep ==
  ASSUME StoreInv, NEW r \in Replicas, NEW k \in Kinds, NEW events \in SUBSET Sent, NEW data \in Data,
         Write(r, k, events, data), calls[r][k].pc = "idle",
         EventsOf(pending[r]) \subseteq EventsOf(data), data.merges = pending[r].merges,
         \A e \in Names(events) : e \in EventsOf(data) \/ e \in Swap(r) \/ (k = "batch" /\ Safe(e)),
         buffer' \in [Replicas -> SUBSET Sent], buffer'[r] \subseteq buffer[r],
         \A q \in Replicas \ {r} : buffer'[q] = buffer[q],
         Held(r) \subseteq Held(r)',
         UNCHANGED <<pgVars, failed, dead, handed, linked, merged, gone>>
  PROVE  StoreInv'
<1> DEFINE pc == IF At(r, "idle") THEN "flushes" ELSE "waits"
           owes == EventsOf(data) \cup EventsOf(flush[r].data)
           c == [pc |-> pc, events |-> events, owes |-> owes]
<1>1. /\ Local(r) /\ calls \in [Replicas -> [Kinds -> CallState]] /\ flush[r] \in FlushState /\ flush[r].data \in Data
      /\ flush \in [Replicas -> FlushState] /\ pending \in [Replicas -> Data]
  BY DEF StoreInv, FlushState
<1>2. calls' = [calls EXCEPT ![r][k] = c]
  BY DEF Write
<1>3. /\ pc \in {"flushes", "waits"} /\ (At(r, "idle") <=> pc = "flushes")
      /\ owes \in SUBSET Events /\ owes = EventsOf(data) \cup Swap(r)
  BY <1>1, EventsOfType DEF Swap
<1> HIDE DEF pc, owes
<1>4. c \in CallState /\ c.pc = pc /\ c.events = events /\ c.owes = owes
  BY <1>3 DEF CallState
<1> HIDE DEF c
<1>5. /\ calls' \in [Replicas -> [Kinds -> CallState]] /\ calls'[r][k] = c
      /\ \A j \in Kinds \ {k} : calls'[r][j] = calls[r][j]
      /\ \A q \in Replicas \ {r} : calls'[q] = calls[q]
  BY <1>1, <1>2, <1>4
<1>6. Keeps /\ OutsideType'
  BY Untouched
<1>7. /\ flush' \in [Replicas -> FlushState] /\ pending' \in [Replicas -> Data]
      /\ \A q \in Replicas \ {r} : flush'[q] = flush[q] /\ pending'[q] = pending[q]
      /\ FlushInv(r)' /\ flush'[r].pc # "idle" /\ MergesOf(r)' = MergesOf(r)
      /\ InMemory(r)' = EventsOf(data) \cup Swap(r)
      /\ IF At(r, "idle") THEN Swap(r)' = EventsOf(data) /\ Swap(r) = {} ELSE Swap(r)' = Swap(r) /\ UNCHANGED flush
  <2>1. CASE At(r, "idle")
    <3>1. Swapped(r, data)
      BY <2>1 DEF Write
    <3>2. Swap(r) = {} /\ ToSet(flush[r].data.merges) = {}
      BY <1>1, <2>1 DEF Local, FlushInv, Quiet, At
    <3>3. MergesOf(r) = ToSet(data.merges)
      BY <3>2 DEF MergesOf
    <3> QED
      BY <2>1, <3>1, <3>2, <3>3, SwappedTo
  <2>2. CASE ~At(r, "idle")
    <3>1. pending' = [pending EXCEPT ![r] = data] /\ UNCHANGED flush
      BY <2>2 DEF Write
    <3>2. pending' \in [Replicas -> Data] /\ pending'[r] = data /\ \A q \in Replicas \ {r} : pending'[q] = pending[q]
      BY <1>1, <3>1
    <3>3. Swap(r)' = Swap(r) /\ InMemory(r)' = EventsOf(data) \cup Swap(r) /\ MergesOf(r)' = MergesOf(r)
      BY <3>1, <3>2 DEF Swap, InMemory, EventsOf, MergesOf, ToSet
    <3>4. FlushInv(r)'
      BY <1>1, <1>6, <3>1, <3>3 DEF Local, FlushInv, Keeps, Oldest
    <3> QED
      BY <1>1, <2>2, <3>1, <3>2, <3>3, <3>4 DEF At
  <2> QED
    BY <2>1, <2>2
<1>8. InMemory(r) \subseteq InMemory(r)'
  BY <1>7 DEF InMemory, Swap
<1>9. ReplicaType(r)'
  <2>1. flush'[r].pc # "idle" <=> \E j \in Kinds : calls'[r][j].pc = "flushes"
    <3>1. CASE At(r, "idle")
      BY <1>3, <1>4, <1>5, <1>7, <3>1
    <3>2. CASE ~At(r, "idle")
      <4>1. PICK j \in Kinds : calls[r][j].pc = "flushes"
        BY <1>1, <3>2 DEF Local, ReplicaType, At
      <4>2. j # k
        BY <4>1
      <4> QED
        BY <1>5, <1>7, <4>1, <4>2
    <3> QED
      BY <3>1, <3>2
  <2>2. \A j \in Kinds : calls'[r][j].pc = "idle" => calls'[r][j] = NoCall
    BY <1>1, <1>3, <1>4, <1>5 DEF Local, ReplicaType
  <2> QED
    BY <1>5, <1>7, <2>1, <2>2 DEF ReplicaType
<1>10. BufferInv(r)'
  <2>1. Names(buffer'[r]) \subseteq Names(buffer[r])
    BY DEF Names
  <2>2. BufferInv(r)' <=> \A x \in Names(buffer'[r]) : Safe(x)' \/ x \in InMemory(r)'
    BY DEF BufferInv, Names
  <2> QED
    BY <1>1, <1>6, <1>8, <2>1, <2>2 DEF Local, BufferInv, Keeps
<1>11. ASSUME NEW j \in Kinds PROVE CallInv(r, j)'
  <2>1. CASE j = k
    BY <1>3, <1>4, <1>5, <1>6, <1>7, <2>1 DEF CallInv, Keeps
  <2>2. CASE j # k
    <3>1. calls'[r][j] = calls[r][j] /\ CallInv(r, j)
      BY <1>1, <1>5, <2>2 DEF Local
    <3>2. calls[r][j].pc = "flushes" => \A e \in calls[r][j].owes : Settled(e)' \/ e \in Swap(r)'
      BY <1>1, <1>6, <1>7, <3>1 DEF CallInv, Keeps, Local, ReplicaType, At
    <3> QED
      BY <1>6, <1>8, <3>1, <3>2 DEF CallInv, Keeps
  <2> QED
    BY <2>1, <2>2
<1>12. Local(r)'
  BY <1>7, <1>9, <1>10, <1>11 DEF Local
<1> QED
  BY <1>5, <1>6, <1>7, <1>12, StepOf

LEMMA StartBatchStep == ASSUME StoreInv, NEW r \in Replicas, StartBatch(r) PROVE StoreInv'
<1>1. /\ pending[r] \in Data /\ buffer \in [Replicas -> SUBSET Sent] /\ Local(r) /\ "batch" \in Kinds
      /\ calls \in [Replicas -> [Kinds -> CallState]]
  BY DEF StoreInv, Kinds
<1>2. /\ calls[r]["batch"].pc = "idle" /\ Write(r, "batch", buffer[r], pending[r])
      /\ buffer' = [buffer EXCEPT ![r] = {}]
      /\ UNCHANGED <<pgVars, failed, dead, faults, handed, linked, merged, gone>>
  BY DEF StartBatch
<1>3. /\ buffer' \in [Replicas -> SUBSET Sent] /\ buffer'[r] \subseteq buffer[r] /\ buffer[r] \in SUBSET Sent
      /\ \A q \in Replicas \ {r} : buffer'[q] = buffer[q]
  BY <1>1, <1>2
<1>4. \A e \in Names(buffer[r]) : e \in EventsOf(pending[r]) \/ e \in Swap(r) \/ Safe(e)
  BY <1>1 DEF Local, BufferInv, InMemory, Swap
<1>5. Held(r) \subseteq Held(r)'
  <2>1. calls[r]["batch"].events = {}
    BY <1>1, <1>2, NothingType DEF Local, ReplicaType
  <2>2. calls'[r]["batch"].events = buffer[r]
    BY <1>1, <1>2 DEF Write
  <2>3. Held(r)' = Names(buffer'[r] \cup calls'[r]["batch"].events)
    BY DEF Held, Names
  <2>4. Held(r) = Names(buffer[r])
    BY <2>1 DEF Held
  <2>5. Held(r)' = Names(buffer'[r]) \cup Names(buffer[r])
    BY <2>2, <2>3, NamesJoin
  <2> QED
    BY <2>4, <2>5
<1> QED
  BY <1>1, <1>2, <1>3, <1>4, <1>5, WriteStep

LEMMA StartReplayStep == ASSUME StoreInv, NEW r \in Replicas, StartReplay(r) PROVE StoreInv'
<1>1. /\ pending[r] \in Data /\ buffer \in [Replicas -> SUBSET Sent] /\ dead \in SUBSET Sent /\ "replay" \in Kinds
      /\ calls \in [Replicas -> [Kinds -> CallState]]
  BY DEF StoreInv, OutsideType, Kinds
<1>2. PICK ids \in [Dids -> Persons \cup {None}] : Write(r, "replay", dead, Again(pending[r], dead, ids))
  BY DEF StartReplay
<1>3. /\ calls[r]["replay"].pc = "idle"
      /\ UNCHANGED <<pgVars, failed, dead, buffer, handed, linked, merged, gone>>
  BY DEF StartReplay
<1> DEFINE data == Again(pending[r], dead, ids)
           resent(p) == Names({x \in dead : x[2][2] = p})
           persons == [p \in Persons |-> pending[r].persons[p] \cup resent(p)]
<1>4. \A p \in Persons : resent(p) \subseteq Events
  BY <1>1 DEF Names, Sent
<1> HIDE DEF resent
<1>5. persons \in [Persons -> SUBSET Events]
  BY <1>1, <1>4 DEF Data
<1>6. data = [pending[r] EXCEPT !.persons = persons, !.ids = ids]
  BY <1>1 DEF Again, Data, resent
<1> HIDE DEF data
<1>7. data \in Data /\ data.merges = pending[r].merges /\ data.persons = persons
  <2> HIDE DEF persons
  <2> QED
    BY <1>1, <1>2, <1>5, <1>6 DEF Data
<1>8. EventsOf(pending[r]) \subseteq EventsOf(data)
  BY <1>7 DEF EventsOf
<1>9. ASSUME NEW e \in Names(dead) PROVE e \in EventsOf(data)
  <2>1. PICK x \in dead : e = x[1]
    BY DEF Names
  <2>2. x[2][2] \in Persons
    BY <1>1, StoreAssumption DEF Sent
  <2>3. e \in resent(x[2][2])
    BY <2>1 DEF resent, Names
  <2> QED
    BY <1>7, <2>2, <2>3 DEF EventsOf
<1>10. Held(r) \subseteq Held(r)'
  <2>1. calls'[r]["batch"] = calls[r]["batch"]
    BY <1>1, <1>2 DEF Write, Kinds
  <2>2. Held(r)' = Names(buffer'[r] \cup calls'[r]["batch"].events)
    BY DEF Held, Names
  <2> QED
    BY <1>3, <2>1, <2>2 DEF Held
<1>11. Write(r, "replay", dead, data)
  BY <1>2 DEF data
<1> QED
  BY <1>1, <1>3, <1>7, <1>8, <1>9, <1>10, <1>11, WriteStep

(* The flush that ran is over: what it swapped out is empty by then.        *)
LEMMA FlushDoneStep == ASSUME StoreInv, NEW r \in Replicas, FlushDone(r) PROVE StoreInv'
<1>1. /\ Local(r) /\ calls \in [Replicas -> [Kinds -> CallState]] /\ pending[r] \in Data
      /\ flush \in [Replicas -> FlushState] /\ pending \in [Replicas -> Data]
      /\ buffer \in [Replicas -> SUBSET Sent]
  BY DEF StoreInv
<1>2. /\ flush[r].pc = "replay" /\ Resolves(r)
      /\ UNCHANGED <<pgVars, failed, dead, buffer, faults, handed, linked, merged, gone>>
  BY DEF FlushDone, At
<1>3. Swap(r) = {} /\ ToSet(flush[r].data.merges) = {}
  BY <1>1, <1>2 DEF Local, FlushInv, Quiet
<1>4. InMemory(r) = EventsOf(pending[r]) /\ MergesOf(r) = ToSet(pending[r].merges)
  BY <1>3 DEF InMemory, MergesOf, Swap
<1>5. Keeps /\ OutsideType'
  BY <1>2, Untouched
<1>6. calls' = [calls EXCEPT ![r] = [k \in Kinds |-> Resolved(calls[r][k])]]
  BY <1>2 DEF Resolves
<1>7. ASSUME NEW c \in CallState
      PROVE  /\ Resolved(c) \in CallState /\ Resolved(c).events = c.events /\ Resolved(c).owes = c.owes
             /\ Resolved(c).pc = IF c.pc = "flushes" THEN "inserts" ELSE IF c.pc = "waits" THEN "flushes" ELSE c.pc
             /\ c.pc \notin {"flushes", "waits"} => Resolved(c) = c
  BY DEF Resolved, CallState
<1>8. /\ calls' \in [Replicas -> [Kinds -> CallState]]
      /\ \A k \in Kinds : calls'[r][k] = Resolved(calls[r][k]) /\ calls[r][k] \in CallState
      /\ \A q \in Replicas \ {r} : calls'[q] = calls[q]
  <2>1. [k \in Kinds |-> Resolved(calls[r][k])] \in [Kinds -> CallState]
    BY <1>1, <1>7
  <2> DEFINE new == [k \in Kinds |-> Resolved(calls[r][k])]
  <2>2. \A k \in Kinds : new[k] = Resolved(calls[r][k]) /\ calls[r][k] \in CallState
    BY <1>1
  <2> HIDE DEF new
  <2>3. calls' = [calls EXCEPT ![r] = new] /\ new \in [Kinds -> CallState]
    BY <1>6, <2>1 DEF new
  <2> QED
    BY <1>1, <2>2, <2>3
<1>9. /\ flush' \in [Replicas -> FlushState] /\ pending' \in [Replicas -> Data]
      /\ \A q \in Replicas \ {r} : flush'[q] = flush[q] /\ pending'[q] = pending[q]
      /\ FlushInv(r)' /\ InMemory(r)' = InMemory(r) /\ MergesOf(r)' = MergesOf(r)
      /\ IF \E k \in Kinds : calls[r][k].pc = "waits" THEN flush'[r].pc # "idle" /\ Swap(r)' = InMemory(r)
         ELSE flush'[r] = NoFlush
  <2>1. CASE \E k \in Kinds : calls[r][k].pc = "waits"
    <3>1. Swapped(r, pending[r])
      BY <1>2, <2>1 DEF Resolves
    <3> QED
      BY <1>1, <1>4, <2>1, <3>1, SwappedTo
  <2>2. CASE ~\E k \in Kinds : calls[r][k].pc = "waits"
    <3>1. flush' = [flush EXCEPT ![r] = NoFlush] /\ UNCHANGED pending
      BY <1>2, <2>2 DEF Resolves
    <3>2. /\ flush' \in [Replicas -> FlushState] /\ flush'[r] = NoFlush
          /\ \A q \in Replicas \ {r} : flush'[q] = flush[q]
      BY <1>1, <3>1, NothingType
    <3>3. Swap(r)' = EventsOf(Nothing) /\ InMemory(r)' = EventsOf(pending[r]) \cup EventsOf(Nothing)
          /\ MergesOf(r)' = ToSet(pending[r].merges) \cup ToSet(Nothing.merges)
      BY <3>1, <3>2, NothingType DEF Swap, InMemory, EventsOf, MergesOf, ToSet
    <3>4. FlushInv(r)'
      BY <3>2, <3>3, NothingType DEF FlushInv
    <3> QED
      BY <1>1, <1>4, <2>2, <3>1, <3>2, <3>3, <3>4, NothingType
  <2> QED
    BY <2>1, <2>2
<1>10. ReplicaType(r)'
  <2>1. flush'[r].pc # "idle" <=> \E k \in Kinds : calls'[r][k].pc = "flushes"
    <3>1. \A k \in Kinds : calls'[r][k].pc = "flushes" <=> calls[r][k].pc = "waits"
      BY <1>7, <1>8
    <3>2. flush'[r].pc # "idle" <=> \E k \in Kinds : calls[r][k].pc = "waits"
      BY <1>9, NothingType
    <3> QED
      BY <3>1, <3>2
  <2>2. \A k \in Kinds : calls'[r][k].pc = "idle" => calls'[r][k] = NoCall
    BY <1>1, <1>7, <1>8 DEF Local, ReplicaType
  <2>3. flush'[r].pc = "idle" => flush'[r] = NoFlush
    BY <1>9
  <2>4. buffer'[r] \subseteq Sent
    BY <1>1, <1>2
  <2> QED
    BY <1>8, <1>9, <2>1, <2>2, <2>3, <2>4 DEF ReplicaType
<1>11. BufferInv(r)'
  BY <1>1, <1>2, <1>5, <1>9 DEF Local, BufferInv, Keeps
<1>12. ASSUME NEW k \in Kinds PROVE CallInv(r, k)'
  <2>1. CallInv(r, k)
    BY <1>1 DEF Local
  <2>2. /\ calls'[r][k].owes = calls[r][k].owes /\ calls'[r][k].events = calls[r][k].events
        /\ calls'[r][k].pc = IF calls[r][k].pc = "flushes" THEN "inserts"
                             ELSE IF calls[r][k].pc = "waits" THEN "flushes" ELSE calls[r][k].pc
    BY <1>7, <1>8
  <2>3. calls[r][k].pc = "waits" => Swap(r)' = InMemory(r)
    BY <1>9
  <2>4. \A e : (Settled(e) => Settled(e)') /\ (Safe(e) => Safe(e)')
    BY <1>5 DEF Keeps
  <2> QED
    BY <1>3, <1>9, <2>1, <2>2, <2>3, <2>4 DEF CallInv
<1>13. Held(r)' = Held(r)
  <2>1. calls'[r]["batch"].events = calls[r]["batch"].events
    BY <1>7, <1>8 DEF Kinds
  <2> QED
    BY <1>2, <2>1 DEF Held, Names
<1>14. Local(r)'
  BY <1>9, <1>10, <1>11, <1>12 DEF Local
<1>15. buffer' \in [Replicas -> SUBSET Sent] /\ handed' = handed /\ linked' = linked
       /\ \A q \in Replicas \ {r} : buffer'[q] = buffer[q]
  BY <1>1, <1>2
<1> QED
  BY <1>5, <1>8, <1>9, <1>13, <1>14, <1>15, StepOf

(* The flush fails: each call that takes part in it fails.                  *)
LEMMA FailedCall ==
  ASSUME NEW c \in CallState, NEW k \in Kinds
  PROVE  /\ Failed(c, k) \in CallState
         /\ k = "batch" => Failed(c, k).pc = "parks" /\ Failed(c, k).owes = {} /\ Failed(c, k).events = c.events
         /\ k # "batch" => Failed(c, k) = NoCall
  BY NothingType DEF Failed, CallState

LEMMA RequeueStep == ASSUME StoreInv, NEW r \in Replicas, Requeue(r) PROVE StoreInv'
<1> DEFINE old == flush[r].data
           new == pending[r]
           over == UNION {old.persons[p] : p \in {q \in Persons : new.persons[q] # {}}}
           gap == (over \cap Names(buffer[r])) \ Names(dead)
           back == [persons |-> [p \in Persons |-> IF new.persons[p] # {} THEN new.persons[p] ELSE old.persons[p]],
                    ids |-> [d \in Dids |-> IF new.ids[d] # None THEN new.ids[d] ELSE old.ids[d]],
                    merges |-> old.merges \o new.merges]
           Fails(k) == IF calls[r][k].pc \in {"flushes", "waits"} THEN Failed(calls[r][k], k) ELSE calls[r][k]
           failing == [k \in Kinds |-> Fails(k)]
<1>1. /\ Local(r) /\ calls \in [Replicas -> [Kinds -> CallState]] /\ pending[r] \in Data /\ flush[r] \in FlushState
      /\ flush \in [Replicas -> FlushState] /\ pending \in [Replicas -> Data] /\ flush[r].data \in Data
      /\ buffer \in [Replicas -> SUBSET Sent] /\ OutsideType
  BY DEF StoreInv, FlushState
<1>2. /\ pending' = [pending EXCEPT ![r] = back] /\ Lose(gap, "requeued over")
      /\ flush' = [flush EXCEPT ![r] = NoFlush] /\ calls' = [calls EXCEPT ![r] = failing]
      /\ UNCHANGED <<pgVars, failed, dead, buffer, handed, linked, merged>>
  BY DEF Requeue, Rejects
<1>3. back \in Data
  <2>1. old.merges \o new.merges \in Seq(Links)
    BY <1>1, ConcatProperties DEF Data
  <2> QED
    BY <1>1, <2>1 DEF Data
<1>4. ToSet(old.merges) \cup ToSet(new.merges) \subseteq ToSet(back.merges)
  <2>1. ToSet(old.merges) \cup ToSet(new.merges) \subseteq ToSet(old.merges \o new.merges)
    BY <1>1, ConcatSets DEF Data
  <2>2. back.merges = old.merges \o new.merges
    OBVIOUS
  <2> HIDE DEF back
  <2> QED
    BY <2>1, <2>2
<1>5. EventsOf(old) \cup EventsOf(new) \subseteq EventsOf(back) \cup over
  <2>1. ASSUME NEW p \in Persons, NEW e \in new.persons[p] PROVE e \in EventsOf(back)
    BY DEF EventsOf
  <2>2. ASSUME NEW p \in Persons, NEW e \in old.persons[p] PROVE e \in EventsOf(back) \cup over
    BY DEF EventsOf
  <2> HIDE DEF back, over
  <2> QED
    BY <2>1, <2>2 DEF EventsOf
<1>6. gap \in SUBSET (Events \cup Links)
  BY <1>1 DEF Data
<1> HIDE DEF back, over, gap
<1>7. /\ gone' \subseteq (Events \cup Links) \X Causes
      /\ \A x : Settled(x) => Settled(x)'
      /\ \A x : Lost(x) \/ x \in gap => Lost(x)'
  <2>1. UNCHANGED props /\ "requeued over" \in Causes
    BY <1>2 DEF pgVars, Causes
  <2> QED
    BY <1>1, <1>2, <1>6, <2>1, LoseKeeps
<1>8. Keeps
  BY <1>2, <1>7 DEF Keeps, Safe, MergeSettled
<1>9. OutsideType'
  BY <1>1, <1>2, <1>7 DEF OutsideType, pgVars
<1>10. \A k \in Kinds : Fails(k) \in CallState
  BY <1>1, FailedCall
<1> HIDE DEF Fails
<1>11. failing \in [Kinds -> CallState] /\ \A k \in Kinds : failing[k] = Fails(k)
  BY <1>10
<1> HIDE DEF failing
<1>12. /\ calls' \in [Replicas -> [Kinds -> CallState]] /\ \A k \in Kinds : calls'[r][k] = Fails(k)
       /\ flush' \in [Replicas -> FlushState] /\ flush'[r] = NoFlush
       /\ pending' \in [Replicas -> Data] /\ pending'[r] = back
       /\ buffer' = buffer /\ handed' = handed /\ linked' = linked /\ dead' = dead
       /\ \A q \in Replicas \ {r} : /\ flush'[q] = flush[q] /\ pending'[q] = pending[q]
                                   /\ buffer'[q] = buffer[q] /\ calls'[q] = calls[q]
  BY <1>1, <1>2, <1>3, <1>11, NothingType
<1>13. /\ Swap(r)' = EventsOf(Nothing) /\ InMemory(r)' = EventsOf(back) \cup EventsOf(Nothing)
       /\ MergesOf(r)' = ToSet(back.merges) \cup ToSet(Nothing.merges)
  BY <1>12, NothingType DEF Swap, InMemory, EventsOf, MergesOf, ToSet
<1>14. \A k \in Kinds : Fails(k).pc \notin {"flushes", "waits"}
  <2>1. \A k \in Kinds : calls[r][k] \in CallState
    BY <1>1
  <2> QED
    BY <2>1, FailedCall, NothingType DEF Fails
<1>15. ReplicaType(r)'
  <2>1. \A k \in Kinds : calls'[r][k].pc = "idle" => calls'[r][k] = NoCall
    <3>1. ASSUME NEW k \in Kinds, Fails(k).pc = "idle" PROVE Fails(k) = NoCall
      <4>1. calls[r][k] \in CallState /\ (calls[r][k].pc = "idle" => calls[r][k] = NoCall)
        BY <1>1 DEF Local, ReplicaType
      <4>2. CASE calls[r][k].pc \in {"flushes", "waits"}
        BY <3>1, <4>1, <4>2, FailedCall DEF Fails
      <4>3. CASE calls[r][k].pc \notin {"flushes", "waits"}
        BY <3>1, <4>1, <4>3 DEF Fails
      <4> QED
        BY <4>2, <4>3
    <3> QED
      BY <1>12, <3>1
  <2>2. flush'[r].pc = "idle" /\ ~\E k \in Kinds : calls'[r][k].pc = "flushes"
    BY <1>12, <1>14, NothingType
  <2> QED
    BY <1>1, <1>12, <2>1, <2>2 DEF ReplicaType
<1>16. FlushInv(r)'
  BY <1>12, <1>13, NothingType DEF FlushInv
<1>17. BufferInv(r)'
  <2>1. ASSUME NEW e \in Names(buffer[r]) PROVE Safe(e)' \/ e \in InMemory(r)'
    <3>1. CASE Safe(e)
      BY <1>8, <3>1 DEF Keeps
    <3>2. CASE e \in EventsOf(back)
      BY <1>13, <3>2
    <3>3. CASE e \in over /\ e \in Names(dead)
      BY <1>12, <3>3 DEF Safe
    <3>4. CASE e \in gap
      BY <1>7, <3>4 DEF Safe, Settled
    <3> QED
      BY <1>1, <1>5, <3>1, <3>2, <3>3, <3>4 DEF Local, BufferInv, InMemory, gap
  <2> QED
    BY <1>12, <2>1 DEF BufferInv
<1>18. ASSUME NEW k \in Kinds PROVE CallInv(r, k)'
  <2>1. calls[r][k] \in CallState /\ CallInv(r, k) /\ calls'[r][k] = Fails(k)
    BY <1>1, <1>12 DEF Local
  <2>2. CASE calls[r][k].pc \in {"flushes", "waits"}
    <3>1. calls'[r][k] = Failed(calls[r][k], k)
      BY <2>1, <2>2 DEF Fails
    <3>2. CASE k = "batch"
      BY <2>1, <3>1, <3>2, FailedCall DEF CallInv
    <3>3. CASE k # "batch"
      <4>1. calls'[r][k] = NoCall
        BY <2>1, <3>1, <3>3, FailedCall
      <4>2. Names(calls'[r][k].events) = {}
        BY <4>1, NothingType DEF Names
      <4> QED
        BY <4>1, <4>2, NothingType DEF CallInv
    <3> QED
      BY <3>2, <3>3
  <2>3. CASE calls[r][k].pc \notin {"flushes", "waits"}
    <3>1. calls'[r][k] = calls[r][k]
      BY <2>1, <2>3 DEF Fails
    <3> QED
      BY <1>8, <2>1, <2>3, <3>1 DEF CallInv, Keeps
  <2> QED
    BY <2>2, <2>3
<1>19. Held(r)' = Held(r)
  <2>1. calls'[r]["batch"].events = calls[r]["batch"].events
    <3>1. "batch" \in Kinds /\ calls[r]["batch"] \in CallState
      BY <1>1 DEF Kinds
    <3>2. Failed(calls[r]["batch"], "batch").events = calls[r]["batch"].events
      BY <3>1, FailedCall
    <3>3. Fails("batch").events = calls[r]["batch"].events
      BY <3>2 DEF Fails
    <3> QED
      BY <1>12, <3>1, <3>3
  <2> QED
    BY <1>12, <2>1 DEF Held, Names
<1>20. Local(r)'
  BY <1>15, <1>16, <1>17, <1>18 DEF Local
<1>21. MergesOf(r) \subseteq MergesOf(r)'
  BY <1>4, <1>13 DEF MergesOf
<1>22. buffer' \in [Replicas -> SUBSET Sent]
  BY <1>1, <1>12
<1> QED
  BY <1>8, <1>9, <1>12, <1>19, <1>20, <1>21, <1>22, StepOf

(* A call ends, or fails: the flush goes on.  Its events that it held are   *)
(* safe, given back, or parked by it.                                       *)
LEMMA CallStep ==
  ASSUME StoreInv, NEW r \in Replicas, NEW k \in Kinds, NEW c \in CallState,
         calls' = [calls EXCEPT ![r][k] = c], calls[r][k].pc \in {"inserts", "parks"},
         c = NoCall \/ (k = "batch" /\ c.pc = "parks"),
         UNCHANGED <<pgVars, failed, pending, flush, buffer, linked, merged, gone>>,
         dead' \subseteq Sent, handed' \subseteq handed, Keeps,
         k = "batch" => \A e \in Names(calls[r][k].events) :
                          e \in handed' => Safe(e)' \/ e \in Names(c.events)
  PROVE  StoreInv'
<1>1. /\ Local(r) /\ calls \in [Replicas -> [Kinds -> CallState]] /\ OutsideType
      /\ flush \in [Replicas -> FlushState] /\ pending \in [Replicas -> Data] /\ buffer \in [Replicas -> SUBSET Sent]
  BY DEF StoreInv
<1>2. /\ calls' \in [Replicas -> [Kinds -> CallState]] /\ calls'[r][k] = c
      /\ \A j \in Kinds \ {k} : calls'[r][j] = calls[r][j]
      /\ \A q \in Replicas \ {r} : calls'[q] = calls[q]
  BY <1>1
<1>3. OutsideType'
  BY <1>1 DEF OutsideType, pgVars
<1>4. Swap(r)' = Swap(r) /\ InMemory(r)' = InMemory(r) /\ MergesOf(r)' = MergesOf(r)
  BY DEF Swap, InMemory, EventsOf, MergesOf, ToSet
<1>5. c.pc \in {"idle", "parks"}
  BY NothingType
<1>6. ReplicaType(r)'
  <2>1. \A j \in Kinds : calls'[r][j].pc = "idle" => calls'[r][j] = NoCall
    BY <1>1, <1>2, <1>5 DEF Local, ReplicaType
  <2>2. \A j \in Kinds : calls'[r][j].pc = "flushes" <=> calls[r][j].pc = "flushes"
    BY <1>2, <1>5
  <2> QED
    BY <1>1, <1>2, <2>1, <2>2 DEF Local, ReplicaType
<1>7. FlushInv(r)' /\ BufferInv(r)'
  BY <1>1, <1>4 DEF Local, FlushInv, BufferInv, Keeps, Oldest
<1>8. ASSUME NEW j \in Kinds PROVE CallInv(r, j)'
  <2>1. CASE j = k
    <3>1. c = NoCall => Names(c.events) = {}
      BY NothingType DEF Names
    <3> QED
      BY <1>2, <1>5, <2>1, <3>1, NothingType DEF CallInv
  <2>2. CASE j # k
    BY <1>1, <1>2, <1>4, <2>2 DEF Local, CallInv, Keeps
  <2> QED
    BY <2>1, <2>2
<1>9. Local(r)'
  BY <1>6, <1>7, <1>8 DEF Local
<1>10. ASSUME NEW e \in Held(r), e \in handed' PROVE Safe(e)' \/ e \in Held(r)'
  <2>1. Held(r) = Names(buffer[r]) \cup Names(calls[r]["batch"].events)
    BY NamesJoin DEF Held
  <2>2. Held(r)' = Names(buffer[r] \cup calls'[r]["batch"].events)
    BY DEF Held, Names
  <2>3. Held(r)' = Names(buffer[r]) \cup Names(calls'[r]["batch"].events)
    BY <2>2, NamesJoin
  <2>4. CASE k = "batch"
    BY <1>2, <1>10, <2>1, <2>3, <2>4
  <2>5. CASE k # "batch"
    BY <1>2, <2>1, <2>3, <2>5 DEF Kinds
  <2> QED
    BY <2>4, <2>5
<1> QED
  BY <1>1, <1>2, <1>3, <1>4, <1>9, <1>10, StepOf

LEMMA InsertStep ==
  ASSUME StoreInv, NEW r \in Replicas, NEW k \in Kinds, Insert(r, k)
  PROVE  StoreInv'
<1>1. /\ calls[r][k].pc = "inserts" /\ calls' = [calls EXCEPT ![r][k] = NoCall]
      /\ dead' = IF k = "replay" THEN dead \ calls[r][k].events ELSE dead
      /\ UNCHANGED <<pgVars, failed, pending, flush, buffer, faults, handed, linked, merged, gone>>
  BY DEF Insert, Ends
<1>2. CallInv(r, k) /\ dead \subseteq Sent /\ calls[r][k] \in CallState
  BY DEF StoreInv, Local, OutsideType
<1>3. \A e : Settled(e) <=> Settled(e)'
  BY <1>1 DEF Settled, InRows, Lost, pgVars
<1>4. \A e : Safe(e) => Safe(e)'
  <2>1. CASE k = "replay"
    <3>1. \A e \in Names(calls[r][k].events) : Settled(e)
      BY <1>1, <1>2, <2>1 DEF CallInv
    <3>2. dead' = dead \ calls[r][k].events
      BY <1>1, <2>1
    <3>3. \A e \in Names(dead) : e \in Names(dead') \/ e \in Names(calls[r][k].events)
      BY <3>2 DEF Names
    <3>4. \A e : Safe(e)' <=> Settled(e)' \/ e \in Names(dead')
      BY DEF Safe, Names
    <3> QED
      BY <1>3, <3>1, <3>3, <3>4 DEF Safe
  <2>2. CASE k # "replay"
    <3>1. dead' = dead
      BY <1>1, <2>2
    <3> QED
      BY <1>3, <3>1 DEF Safe
  <2> QED
    BY <2>1, <2>2
<1>5. Keeps
  BY <1>1, <1>3, <1>4 DEF Keeps, MergeSettled, Lost
<1>6. k = "batch" => \A e \in Names(calls[r][k].events) : e \in handed' => Safe(e)' \/ e \in Names(NoCall.events)
  <2>1. \A e \in Names(calls[r][k].events) : Safe(e)
    BY <1>1, <1>2 DEF CallInv, Safe
  <2> QED
    BY <1>4, <2>1
<1>7. dead' \subseteq Sent /\ NoCall \in CallState
  BY <1>1, <1>2, NothingType
<1> QED
  BY <1>1, <1>5, <1>6, <1>7, CallStep

LEMMA InsertFailsStep ==
  ASSUME StoreInv, NEW r \in Replicas, NEW k \in Kinds, InsertFails(r, k)
  PROVE  StoreInv'
<1> DEFINE c == Failed(calls[r][k], k)
<1>1. calls[r][k] \in CallState /\ calls \in [Replicas -> [Kinds -> CallState]] /\ dead \subseteq Sent
  BY DEF StoreInv, OutsideType
<1>2. /\ calls[r][k].pc = "inserts" /\ calls' = [calls EXCEPT ![r][k] = c]
      /\ UNCHANGED <<pgVars, failed, dead, pending, flush, buffer, handed, linked, merged, gone>>
  BY DEF InsertFails
<1>3. Keeps
  BY <1>2, Untouched
<1>4. /\ c \in CallState /\ (c = NoCall \/ (k = "batch" /\ c.pc = "parks"))
      /\ k = "batch" => c.events = calls[r][k].events
  BY <1>1, FailedCall
<1> HIDE DEF c
<1> QED
  BY <1>1, <1>2, <1>3, <1>4, CallStep

LEMMA ParkStep == ASSUME StoreInv, NEW r \in Replicas, Park(r) PROVE StoreInv'
<1> DEFINE batch == calls[r]["batch"].events
<1>1. /\ "batch" \in Kinds /\ dead \subseteq Sent /\ batch \subseteq Sent /\ OutsideType
  BY DEF StoreInv, OutsideType, Kinds, CallState
<1>2. /\ calls[r]["batch"].pc = "parks" /\ calls' = [calls EXCEPT ![r]["batch"] = NoCall]
      /\ UNCHANGED <<pgVars, failed, pending, flush, buffer, linked, merged, gone>>
  BY DEF Park, Ends
<1>3. \/ dead' = dead \cup batch /\ handed' = handed
      \/ \E parked \in SUBSET batch : dead' = dead \cup parked /\ handed' = handed \ Names(batch)
  BY DEF Park
<1>4. dead \subseteq dead' /\ dead' \subseteq Sent /\ handed' \subseteq handed
  BY <1>1, <1>3
<1>5. \A e : Settled(e) <=> Settled(e)'
  BY <1>2 DEF Settled, InRows, Lost, pgVars
<1>6. \A e : Safe(e)' <=> Settled(e)' \/ e \in Names(dead')
  BY DEF Safe, Names
<1>7. \A e \in Names(dead) : e \in Names(dead')
  BY <1>4 DEF Names
<1>8. Keeps
  BY <1>2, <1>5, <1>6, <1>7 DEF Keeps, Safe, MergeSettled, Lost
<1>9. ASSUME NEW e \in Names(batch), e \in handed' PROVE Safe(e)'
  <2>1. dead' = dead \cup batch
    BY <1>3, <1>9
  <2>2. e \in Names(dead')
    BY <2>1, NamesJoin
  <2> QED
    BY <1>6, <2>2
<1>10. NoCall \in CallState
  BY NothingType
<1> QED
  BY <1>1, <1>2, <1>4, <1>8, <1>9, <1>10, CallStep

LEMMA CrashStep == ASSUME StoreInv, NEW r \in Replicas, Crash(r) PROVE StoreInv'
<1> DEFINE lost == ToSet(pending[r].merges) \cup ToSet(flush[r].data.merges)
           none == [k \in Kinds |-> NoCall]
<1>1. /\ calls \in [Replicas -> [Kinds -> CallState]] /\ OutsideType
      /\ flush \in [Replicas -> FlushState] /\ pending \in [Replicas -> Data] /\ buffer \in [Replicas -> SUBSET Sent]
  BY DEF StoreInv
<1>2. /\ handed' = handed \ Held(r) /\ Lose(lost, "crash")
      /\ pending' = [pending EXCEPT ![r] = Nothing] /\ flush' = [flush EXCEPT ![r] = NoFlush]
      /\ buffer' = [buffer EXCEPT ![r] = {}] /\ calls' = [calls EXCEPT ![r] = none]
      /\ UNCHANGED <<pgVars, failed, dead, linked, merged>>
  BY DEF Crash
<1>3. lost \in SUBSET (Events \cup Links) /\ lost = MergesOf(r)
  <2>1. pending[r].merges \in Seq(Links) /\ flush[r].data.merges \in Seq(Links)
    BY <1>1 DEF FlushState, Data
  <2>2. ToSet(pending[r].merges) \subseteq Links /\ ToSet(flush[r].data.merges) \subseteq Links
    BY <2>1 DEF ToSet
  <2> QED
    BY <2>2 DEF MergesOf
<1> HIDE DEF lost
<1>4. /\ gone' \subseteq (Events \cup Links) \X Causes
      /\ \A x : Settled(x) => Settled(x)'
      /\ \A x : Lost(x) \/ x \in lost => Lost(x)'
  <2>1. UNCHANGED props /\ "crash" \in Causes
    BY <1>2 DEF pgVars, Causes
  <2> QED
    BY <1>1, <1>2, <1>3, <2>1, LoseKeeps
<1>5. Keeps
  BY <1>2, <1>4 DEF Keeps, Safe, MergeSettled
<1>6. OutsideType'
  BY <1>1, <1>2, <1>4 DEF OutsideType, pgVars
<1>7. none \in [Kinds -> CallState] /\ \A k \in Kinds : none[k] = NoCall
  BY NothingType
<1> HIDE DEF none
<1>8. /\ calls' \in [Replicas -> [Kinds -> CallState]] /\ calls'[r] = none
      /\ flush' \in [Replicas -> FlushState] /\ flush'[r] = NoFlush
      /\ pending' \in [Replicas -> Data] /\ pending'[r] = Nothing
      /\ buffer' \in [Replicas -> SUBSET Sent] /\ buffer'[r] = {}
      /\ \A q \in Replicas \ {r} : /\ flush'[q] = flush[q] /\ pending'[q] = pending[q]
                                  /\ buffer'[q] = buffer[q] /\ calls'[q] = calls[q]
  BY <1>1, <1>2, <1>7, NothingType
<1>9. ReplicaType(r)'
  BY <1>7, <1>8, NothingType DEF ReplicaType
<1>10. Swap(r)' = EventsOf(Nothing)
  BY <1>8, NothingType DEF Swap, EventsOf
<1>11. FlushInv(r)'
  BY <1>8, <1>10, NothingType DEF FlushInv
<1>12. Names({}) = {}
  BY DEF Names
<1>13. BufferInv(r)'
  <2>1. BufferInv(r)' <=> \A x \in Names(buffer'[r]) : Safe(x)' \/ x \in InMemory(r)'
    BY DEF BufferInv, Names
  <2> QED
    BY <1>8, <1>12, <2>1
<1>14. ASSUME NEW k \in Kinds PROVE CallInv(r, k)'
  <2>1. calls'[r][k] = NoCall
    BY <1>7, <1>8
  <2>2. Names(calls'[r][k].events) = {}
    BY <1>12, <2>1, NothingType
  <2> QED
    BY <2>1, <2>2, NothingType DEF CallInv
<1>15. Local(r)'
  BY <1>9, <1>11, <1>13, <1>14 DEF Local
<1>16. \A m \in MergesOf(r) : MergeSettled(m)'
  BY <1>3, <1>4 DEF MergeSettled
<1> QED
  BY <1>2, <1>5, <1>6, <1>8, <1>15, <1>16, StepOf
-----------------------------------------------------------------------------
LEMMA StoreInit == Init => StoreInv
<1> SUFFICES ASSUME Init PROVE StoreInv
  OBVIOUS
<1>1. /\ live = {} /\ props = [p \in Persons |-> {}] /\ owner = [d \in Dids |-> None]
      /\ failed = <<>> /\ dead = {} /\ handed = {} /\ linked = {} /\ merged = {} /\ gone = {}
      /\ pending = [r \in Replicas |-> Nothing] /\ flush = [r \in Replicas |-> NoFlush]
      /\ buffer = [r \in Replicas |-> {}] /\ calls = [r \in Replicas |-> [k \in Kinds |-> NoCall]]
  BY DEF Init
<1>2. OutsideType
  <2>1. failed \in Seq(Links) /\ Len(failed) <= MaxFailed
    BY <1>1, EmptySeq, StoreAssumption
  <2> QED
    BY <1>1, <2>1 DEF OutsideType
<1>3. /\ pending \in [Replicas -> Data] /\ flush \in [Replicas -> FlushState]
      /\ buffer \in [Replicas -> SUBSET Sent] /\ calls \in [Replicas -> [Kinds -> CallState]]
  BY <1>1, NothingType
<1>4. ASSUME NEW r \in Replicas PROVE Local(r)
  <2>1. pending[r] = Nothing /\ flush[r] = NoFlush /\ buffer[r] = {} /\ \A k \in Kinds : calls[r][k] = NoCall
    BY <1>1
  <2>2. ReplicaType(r)
    BY <1>3, <2>1, NothingType DEF ReplicaType
  <2>3. Names({}) = {}
    BY DEF Names
  <2>4. FlushInv(r) /\ BufferInv(r)
    BY <2>1, <2>3, NothingType DEF FlushInv, BufferInv, Swap
  <2>5. \A k \in Kinds : CallInv(r, k)
    BY <2>1, <2>3, NothingType DEF CallInv
  <2> QED
    BY <2>2, <2>4, <2>5 DEF Local
<1> QED
  BY <1>1, <1>2, <1>3, <1>4 DEF StoreInv

LEMMA StoreStutters == StoreInv /\ UNCHANGED vars => StoreInv'
<1> SUFFICES ASSUME StoreInv, UNCHANGED vars PROVE StoreInv'
  OBVIOUS
<1>1. UNCHANGED <<pgVars, failed, dead, handed, linked, merged, gone, pending, flush, buffer, calls>>
  BY DEF vars, memory
<1>2. Keeps /\ OutsideType'
  BY <1>1, Untouched
<1>3. \A r \in Replicas : Local(r)'
  BY <1>1, <1>2, Others DEF StoreInv
<1>4. \A r \in Replicas : Held(r)' = Held(r) /\ MergesOf(r)' = MergesOf(r)
  BY <1>1 DEF Held, Names, MergesOf, ToSet
<1> QED
  BY <1>1, <1>2, <1>3, <1>4 DEF StoreInv, Keeps, OutsideType

LEMMA StoreStep == StoreInv /\ [Next]_vars => StoreInv'
<1> SUFFICES ASSUME StoreInv, Next PROVE StoreInv'
  BY StoreStutters
<1>1. ASSUME NEW r \in Replicas, NEW e \in Events, NEW way \in Ways,
             NEW asked \in {<<>>} \cup {<<m>> : m \in Links}, Enqueue(r, e, way, asked)
      PROVE  StoreInv'
  <2>1. asked \in Seq(Links)
    <3>1. CASE asked = <<>>
      BY <3>1, EmptySeq
    <3>2. CASE \E m \in Links : asked = <<m>>
      BY <3>2
    <3> QED
      BY <3>1, <3>2
  <2> QED
    BY <1>1, <2>1, EnqueueStep
<1>2. ASSUME NEW r \in Replicas, Flushing(r) PROVE StoreInv'
  BY <1>2, ReadStep, UpsertStep, InsertIdsStep, RequeueStep, MergePendingStep, PersistMergeStep,
     DropMergeStep, RangeFailedStep, ReplayStep, ReplayFailsStep, FlushDoneStep DEF Flushing
<1>3. ASSUME NEW r \in Replicas, NEW k \in Kinds, Insert(r, k) \/ InsertFails(r, k) PROVE StoreInv'
  BY <1>3, InsertStep, InsertFailsStep
<1> QED
  BY <1>1, <1>2, <1>3, StartBatchStep, StartReplayStep, ParkStep, CrashStep DEF Next

LEMMA StoreAlways == Spec => []StoreInv
  BY StoreInit, StoreStep, PTL DEF Spec

(* The types hold; a flush is in progress exactly when a call runs it.      *)
THEOREM Typed == Spec => []TypeOK
  BY StoreAlways, TypeOfParts, PTL

(* No update of an event that is not delivered again is forgotten: however  *)
(* replicas interleave, fail and crash, it is in a row, in the memory of    *)
(* the replica that holds the event, kept with its dead letter, or lost in  *)
(* one of the ways that Causes names, among them the writes that overwrite  *)
(* what another replica wrote after they read.                              *)
THEOREM NoUpdateForgotten == Spec => []UpdatesKept
<1>1. StoreInv => UpdatesKept
  <2> SUFFICES ASSUME StoreInv, NEW e \in handed, ~Safe(e)
               PROVE  \E r \in Replicas : e \in Parking(r) \/ e \in Held(r) \cap InMemory(r)
    BY DEF UpdatesKept, Safe
  <2>1. PICK r \in Replicas : e \in Held(r)
    BY DEF StoreInv
  <2>2. Local(r) /\ "batch" \in Kinds
    BY DEF StoreInv, Kinds
  <2>3. CASE e \in Names(buffer[r])
    BY <2>1, <2>2, <2>3 DEF Local, BufferInv
  <2>4. CASE e \in Names(calls[r]["batch"].events)
    <3>1. CASE calls[r]["batch"].pc = "parks"
      BY <2>4, <3>1 DEF Parking
    <3>2. CASE calls[r]["batch"].pc = "idle"
      BY <2>2, <2>4, <3>2, NothingType DEF Local, ReplicaType, Names
    <3>3. CASE calls[r]["batch"].pc \in {"waits", "flushes", "inserts"}
      <4>1. CallInv(r, "batch") /\ e \in calls[r]["batch"].owes
        BY <2>2, <2>4, <3>3 DEF Local, CallInv
      <4>2. e \in InMemory(r)
        BY <3>3, <4>1 DEF CallInv, Safe, InMemory, Swap
      <4> QED
        BY <2>1, <4>2
    <3> QED
      BY <2>2, <3>1, <3>2, <3>3 DEF Local, ReplicaType, CallState
  <2> QED
    BY <2>1, <2>3, <2>4, NamesJoin DEF Held
<1> QED
  BY <1>1, StoreAlways, PTL

(* No merge that was asked for is forgotten by flushes, the trimmed list in *)
(* Redis and its replay, except in the ways that Causes names.              *)
THEOREM NoMergeForgotten == Spec => []MergesKept
<1>1. StoreInv => MergesKept
  BY DEF StoreInv, MergesKept, MergeSettled, MergesOf
<1> QED
  BY <1>1, StoreAlways, PTL

(* A flush() that resolves has written what was pending at its call, also   *)
(* for a caller that waited for the flush of another.                       *)
THEOREM FlushKeepsItsPromise == Spec => []FlushCovers
<1>1. StoreInv => FlushCovers
  BY DEF StoreInv, Local, CallInv, FlushCovers
<1> QED
  BY <1>1, StoreAlways, PTL
====
