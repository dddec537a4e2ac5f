--------------------------- MODULE CohortsProofs ---------------------------
(* Materialized cohorts, for every number of cohorts, replicas, jobs and    *)
(* changes.                                                                 *)
EXTENDS Cohorts, TLAPS, FiniteSetTheorems, SequenceTheorems, WellFoundedInduction

(* What waits in a cycle to be queued.                                      *)
Steps(r) == UNION {cycle[r].levels[i] : i \in DOMAIN cycle[r].levels}

(* A cycle that has ended its levels waits for nothing.                     *)
Phases == \A r \in Replicas : cycle[r].pc \in {"count", "sweep"} =>
  cycle[r].levels = <<>> /\ cycle[r].waiting = {} /\ cycle[r].done = {}

(* In a cycle each cohort waits, runs or is done, and once.                 *)
Once == \A r \in Replicas :
  /\ \A i, k \in DOMAIN cycle[r].levels : \A s \in cycle[r].levels[i], t \in cycle[r].levels[k] :
       s.cohort = t.cohort => i = k /\ s = t
  /\ \A j, k \in jobs : j.by = r /\ k.by = r /\ j.step.cohort = k.step.cohort => j = k
  /\ \A d, e \in cycle[r].done : d.cohort = e.cohort => d = e
  /\ \A s \in Steps(r), j \in jobs : j.by = r => j.step.cohort # s.cohort
  /\ \A s \in Steps(r), d \in cycle[r].done : d.cohort # s.cohort
  /\ \A j \in jobs, d \in cycle[r].done : j.by = r => j.step.cohort # d.cohort

(* Every version is of its time and of one job; rows have the definition of *)
(* their job.                                                               *)
Versions ==
  /\ \A j \in jobs : j.pc = "queued" <=> j.version = 0
  /\ \A j, k \in jobs : j.pc # "queued" /\ j.version = k.version => j = k
  /\ \A x \in rows : x.version \in 1..clock
  /\ \A c \in Existing : pg[c].version <= clock
  /\ \A r \in Replicas : \A d \in cycle[r].done : d.version \in 1..clock
  /\ \A j \in jobs : j.pc # "queued" => \A c \in Existing : pg[c].version # j.version
  /\ \A j \in jobs, x \in rows : x.version = j.version => x.gen = j.step.gen

(* In a cycle the cohorts that a cohort refers to are queued before it, and *)
(* done before its version is taken.                                        *)
Ordered == \A r \in Replicas :
  /\ \A i, k \in DOMAIN cycle[r].levels : \A s \in cycle[r].levels[i], t \in cycle[r].levels[k] :
       t.cohort \in s.refs => k < i
  /\ \A j \in jobs : j.by = r =>
       /\ \A s \in Steps(r) : s.cohort \notin j.step.refs
       /\ \A k \in jobs : k.by = r => k.step.cohort \notin j.step.refs
  /\ \A d \in cycle[r].done :
       /\ \A s \in Steps(r) : s.cohort \notin d.refs
       /\ \A k \in jobs : k.by = r => k.step.cohort \notin d.refs
  /\ \A j \in jobs, d \in cycle[r].done :
       j.by = r /\ j.pc # "queued" /\ d.cohort \in j.step.refs => d.version < j.version

(* The definitions that wait or run are those that their cohorts had: older *)
(* ones are noted, and a cohort that is not created has none.               *)
AllSteps == {j.step : j \in jobs} \cup UNION {Steps(r) : r \in Replicas}

Generations == \A s \in AllSteps : s.cohort \in Existing =>
  \/ s.gen = pg[s.cohort].gen
  \/ s.gen < pg[s.cohort].gen /\ s.cohort \in overtaken

NewUnused == \A c \in Cohorts : pg[c] = New =>
  /\ \A s \in AllSteps : s.cohort # c
  /\ \A r \in Replicas : \A d \in cycle[r].done : d.cohort # c

(* One cycle at a time, as long as none goes on without the lock.           *)
Exclusive == ~overlapped => \A r \in Replicas : cycle[r].pc # "idle" => lock = r

(* What a computed job or a cycle relies on is there: rows as new as the    *)
(* version that a job is about to mark and a deletion keeps.  A cohort      *)
(* created after the sweep selected its ids has no membership yet.          *)
KeptFrom(c, v) == \E x \in rows : x.cohort = c /\ x.whole /\ x.version >= v

Kept == ~overlapped =>
  /\ \A j \in jobs : j.pc = "marking" /\ j.step.cohort \in Existing => KeptFrom(j.step.cohort, j.version)
  /\ \A r \in Replicas : \A d \in cycle[r].done : d.cohort \in Existing => KeptFrom(d.cohort, d.version)
  /\ \A r \in Replicas : cycle[r].pc = "sweep" => \A c \in Existing \ cycle[r].ids :
       pg[c].version = 0 /\ \A j \in jobs : j.step.cohort # c

(* Without a fault every job is awaited and newer than what it replaces.    *)
Undisturbed ==
  /\ overlapped => faults > 0
  /\ faults = 0 => \A j \in jobs :
       /\ j.by # None
       /\ j.pc # "queued" /\ j.step.cohort \in Existing => pg[j.step.cohort].version < j.version

LEMMA StepsFacts ==
  ASSUME TypeOK, NEW r \in Replicas
  PROVE  /\ \A s : s \in Steps(r) <=> \E i \in DOMAIN cycle[r].levels : s \in cycle[r].levels[i]
         /\ Steps(r) \subseteq Step
         /\ cycle[r].levels = <<>> => Steps(r) = {}
<1>1. \A s : s \in Steps(r) <=> \E i \in DOMAIN cycle[r].levels : s \in cycle[r].levels[i]
  BY DEF Steps
<1>2. cycle[r].levels \in Seq(SUBSET Step)
  BY DEF TypeOK, Cycle
<1> QED
  BY <1>1, <1>2

LEMMA ExistingFacts ==
  ASSUME TypeOK, NEW c \in Existing
  PROVE  /\ c \in Cohorts /\ pg[c] \in Row /\ pg[c] # New /\ pg[c] # Gone
         /\ pg[c].refs \in SUBSET Cohorts /\ pg[c].gen \in Nat /\ pg[c].version \in Nat
         /\ StepOf(c) \in Step
<1>1. c \in Cohorts /\ pg[c] \in Row /\ pg[c] # New /\ pg[c] # Gone
  BY DEF Existing, TypeOK
<1> QED
  BY <1>1 DEF Row, StepOf, Step
-----------------------------------------------------------------------------
(* The levels of a set of cohorts.                                          *)

(* A chain of references has shorter ones, and one of a cohort that is      *)
(* referred to has a longer one.                                            *)
LEMMA ShorterChain ==
  ASSUME NEW set, NEW c, NEW n \in Nat, NEW m \in 0..n, Chain(set, c, n)
  PROVE  Chain(set, c, m)
<1>1. PICK s \in [0..n -> set] : s[0] = c /\ \A i \in 1..n : s[i] \in pg[s[i - 1]].refs
  BY DEF Chain
<1> DEFINE t == [i \in 0..m |-> s[i]]
<1>2. t \in [0..m -> set] /\ t[0] = c
  BY <1>1
<1>3. ASSUME NEW i \in 1..m PROVE t[i] \in pg[t[i - 1]].refs
  <2>1. i \in 1..n /\ i \in 0..m /\ i - 1 \in 0..m
    BY <1>3
  <2> QED
    BY <1>1, <2>1
<1> QED
  BY <1>2, <1>3 DEF Chain

LEMMA LongerChain ==
  ASSUME NEW set, NEW c \in set, NEW d, NEW n \in Nat, Chain(set, d, n), d \in pg[c].refs
  PROVE  Chain(set, c, n + 1)
<1>1. PICK s \in [0..n -> set] : s[0] = d /\ \A i \in 1..n : s[i] \in pg[s[i - 1]].refs
  BY DEF Chain
<1> DEFINE t == [i \in 0..(n + 1) |-> IF i = 0 THEN c ELSE s[i - 1]]
<1>2. t \in [0..(n + 1) -> set] /\ t[0] = c
  BY <1>1
<1>3. ASSUME NEW i \in 1..(n + 1) PROVE t[i] \in pg[t[i - 1]].refs
  <2>1. CASE i = 1
    BY <1>1, <2>1
  <2>2. CASE i # 1
    <3>1. i - 1 \in 1..n /\ t[i] = s[i - 1] /\ t[i - 1] = s[(i - 1) - 1]
      BY <2>2
    <3> QED
      BY <1>1, <3>1
  <2> QED
    BY <2>1, <2>2
<1> QED
  BY <1>2, <1>3 DEF Chain

(* A cohort is in one level at most, and a cohort of the set that it refers *)
(* to in an earlier one.                                                    *)
LEMMA LevelFacts ==
  ASSUME NEW set, NEW n \in Nat \ {0}, NEW m \in Nat \ {0},
         NEW s \in Level(set, n), NEW t \in Level(set, m)
  PROVE  /\ s.cohort = t.cohort => n = m /\ s = t
         /\ t.cohort \in s.refs => m < n
<1>1. PICK c \in set : s = StepOf(c) /\ Chain(set, c, n - 1) /\ ~Chain(set, c, n)
  BY DEF Level
<1>2. PICK d \in set : t = StepOf(d) /\ Chain(set, d, m - 1) /\ ~Chain(set, d, m)
  BY DEF Level
<1>3. s.cohort = c /\ s.refs = pg[c].refs /\ t.cohort = d
  BY <1>1, <1>2 DEF StepOf
<1>4. ASSUME c = d PROVE n = m
  <2>1. CASE n < m
    <3>1. m - 1 \in Nat /\ n \in 0..(m - 1)
      BY <2>1
    <3> QED
      BY <1>1, <1>2, <1>4, <3>1, ShorterChain
  <2>2. CASE m < n
    <3>1. n - 1 \in Nat /\ m \in 0..(n - 1)
      BY <2>2
    <3> QED
      BY <1>1, <1>2, <1>4, <3>1, ShorterChain
  <2> QED
    BY <2>1, <2>2
<1>5. ASSUME d \in pg[c].refs PROVE m < n
  <2>1. Chain(set, c, (m - 1) + 1)
    BY <1>2, <1>5, LongerChain
  <2>2. SUFFICES ASSUME n <= m PROVE FALSE
    OBVIOUS
  <2>3. m \in Nat /\ n \in 0..m /\ (m - 1) + 1 = m
    BY <2>2
  <2>4. Chain(set, c, n)
    BY <2>1, <2>3, ShorterChain
  <2> QED
    BY <1>1, <2>4
<1> QED
  BY <1>1, <1>2, <1>3, <1>4, <1>5

LEMMA LevelsFacts ==
  ASSUME TypeOK, NEW set \in SUBSET Existing
  PROVE  /\ Levels(set) \in Seq(SUBSET Step)
         /\ \A i \in DOMAIN Levels(set) :
              /\ i \in Nat \ {0}
              /\ Levels(set)[i] = Level(set, i)
              /\ \A s \in Levels(set)[i] : \E c \in set : s = StepOf(c)
<1> DEFINE Full == {k \in 1..Cardinality(set) : Level(set, k) # {}}
<1>1. Cardinality(set) \in Nat
  <2>1. set \in SUBSET Cohorts
    BY DEF Existing
  <2>2. IsFiniteSet(set)
    BY <2>1, FS_Subset, CohortsAssumption
  <2> QED
    BY <2>2, FS_CardinalityType
<1>2. Cardinality(Full) \in Nat
  <2>1. IsFiniteSet(1..Cardinality(set))
    BY <1>1, FS_Interval
  <2>2. Full \in SUBSET (1..Cardinality(set))
    OBVIOUS
  <2>3. IsFiniteSet(Full)
    BY <2>1, <2>2, FS_Subset
  <2> QED
    BY <2>3, FS_CardinalityType
<1>3. \A n : Level(set, n) \in SUBSET Step /\ \A s \in Level(set, n) : \E c \in set : s = StepOf(c)
  BY ExistingFacts DEF Level
<1> DEFINE N == Cardinality(Full)
<1>4. Levels(set) = [n \in 1..N |-> Level(set, n)] /\ N \in Nat
  BY <1>2 DEF Levels
<1> HIDE DEF N, Full
<1>5. [n \in 1..N |-> Level(set, n)] \in Seq(SUBSET Step)
  BY <1>3, <1>4
<1> QED
  BY <1>3, <1>4, <1>5
(* A chain goes on with the chains of the cohorts on it.                    *)
LEMMA JoinedChains ==
  ASSUME NEW set, NEW n \in Nat, NEW m \in Nat, NEW k \in 0..n, NEW s \in [0..n -> set],
         \A i \in 1..n : s[i] \in pg[s[i - 1]].refs, Chain(set, s[k], m)
  PROVE  Chain(set, s[0], k + m)
<1>1. PICK t \in [0..m -> set] : t[0] = s[k] /\ \A i \in 1..m : t[i] \in pg[t[i - 1]].refs
  BY DEF Chain
<1> DEFINE u == [i \in 0..(k + m) |-> IF i <= k THEN s[i] ELSE t[i - k]]
<1>2. u \in [0..(k + m) -> set] /\ u[0] = s[0]
  <2>1. ASSUME NEW i \in 0..(k + m) PROVE u[i] \in set
    <3>1. CASE i <= k
      <4>1. i \in 0..n
        BY <3>1
      <4> QED
        BY <3>1, <4>1
    <3>2. CASE i > k
      <4>1. i - k \in 0..m /\ ~(i <= k)
        BY <3>2
      <4> QED
        BY <1>1, <4>1
    <3> QED
      BY <3>1, <3>2
  <2>2. 0 \in 0..(k + m) /\ 0 <= k
    OBVIOUS
  <2> QED
    BY <2>1, <2>2
<1>3. ASSUME NEW i \in 1..(k + m) PROVE u[i] \in pg[u[i - 1]].refs
  <2>1. CASE i <= k
    <3>1. i \in 1..n /\ i - 1 <= k /\ u[i] = s[i] /\ u[i - 1] = s[i - 1]
      BY <2>1
    <3> QED
      BY <3>1
  <2>2. CASE i = k + 1
    <3>1. 1 \in 1..m /\ 1 - 1 = 0 /\ i - k = 1 /\ ~(i <= k) /\ i - 1 = k /\ i - 1 \in 0..(k + m)
      BY <2>2
    <3>2. u[i] = t[1] /\ u[i - 1] = t[0]
      BY <1>1, <3>1
    <3> HIDE DEF u
    <3> QED
      BY <1>1, <3>1, <3>2
  <2>3. CASE i > k + 1
    <3>1. i - k \in 1..m /\ ~(i <= k) /\ ~(i - 1 <= k) /\ (i - 1) - k = (i - k) - 1 /\ i - 1 \in 0..(k + m)
      BY <2>3
    <3>2. u[i] = t[i - k] /\ u[i - 1] = t[(i - k) - 1]
      BY <3>1
    <3> HIDE DEF u
    <3> QED
      BY <1>1, <3>1, <3>2
  <2> QED
    BY <2>1, <2>2, <2>3
<1>4. k + m \in Nat
  OBVIOUS
<1> QED
  BY <1>2, <1>3, <1>4 DEF Chain

(* A set of naturals has a least one.                                       *)
LEMMA Least ==
  ASSUME NEW T \in SUBSET Nat, T # {}
  PROVE  \E n \in T : \A m \in T : n <= m
<1> DEFINE R == {e \in Nat \X Nat : e[1] < e[2]}
<1>1. IsWellFoundedOn(R, Nat)
  BY NatLessThanWellFounded DEF OpToRel
<1>2. \E x \in T : \A y \in T : ~(<<y, x>> \in R)
  <2> HIDE DEF R
  <2> QED
    BY <1>1, WFMin
<1>3. PICK x \in T : \A y \in T : ~(<<y, x>> \in R)
  BY <1>2
<1>4. \A y \in T : <<y, x>> \in Nat \X Nat /\ (y < x => <<y, x>> \in R)
  OBVIOUS
<1>5. ASSUME NEW y \in T PROVE x <= y
  <2> HIDE DEF R
  <2>1. ~(y < x)
    BY <1>3, <1>4
  <2>2. x \in Nat /\ y \in Nat
    OBVIOUS
  <2> QED
    BY <2>1, <2>2
<1> QED
  BY <1>5

(* Level by level, nothing is left out: a cohort whose chains end is in a   *)
(* level, for as many levels as there are.                                  *)
LEMMA LevelOf ==
  ASSUME NEW set, NEW c \in set, NEW m \in Nat, ~Chain(set, c, m)
  PROVE  \E n \in Nat \ {0} : StepOf(c) \in Level(set, n)
<1> DEFINE Ends == {n \in Nat : ~Chain(set, c, n)}
<1>1. PICK n \in Ends : \A k \in Ends : n <= k
  <2>1. Ends \in SUBSET Nat /\ Ends # {}
    OBVIOUS
  <2> HIDE DEF Ends
  <2> QED
    BY <2>1, Least
<1>2. Chain(set, c, 0)
  <2> DEFINE s == [i \in 0..0 |-> c]
  <2>1. s \in [0..0 -> set] /\ s[0] = c /\ \A i \in 1..0 : s[i] \in pg[s[i - 1]].refs
    OBVIOUS
  <2> QED
    BY <2>1 DEF Chain
<1>3. n \in Nat \ {0} /\ n - 1 \in Nat /\ ~(n <= n - 1)
  BY <1>1, <1>2
<1>4. Chain(set, c, n - 1)
  BY <1>1, <1>3
<1> QED
  BY <1>1, <1>3, <1>4 DEF Level

(* The levels below a level are not empty, and there are not more levels    *)
(* than cohorts.                                                            *)
LEMMA LevelsBelow ==
  ASSUME NEW set, IsFiniteSet(set), NEW n \in Nat \ {0}, Level(set, n) # {}
  PROVE  /\ \A k \in 1..n : Level(set, k) # {}
         /\ n <= Cardinality(set)
<1>1. PICK c \in set : Chain(set, c, n - 1) /\ ~Chain(set, c, n)
  BY DEF Level
<1>2. PICK s \in [0..(n - 1) -> set] : s[0] = c /\ \A i \in 1..(n - 1) : s[i] \in pg[s[i - 1]].refs
  BY <1>1 DEF Chain
<1>3. ASSUME NEW i \in 0..(n - 1) PROVE StepOf(s[i]) \in Level(set, n - i) /\ n - i \in Nat \ {0}
  <2>1. n - 1 \in Nat /\ n - i \in Nat \ {0} /\ (n - i) - 1 \in Nat /\ s[i] \in set
    OBVIOUS
  <2>2. Chain(set, s[i], (n - i) - 1)
    <3> DEFINE t == [k \in 0..((n - i) - 1) |-> s[i + k]]
    <3>1. \A k \in 0..((n - i) - 1) : i + k \in 0..(n - 1)
      OBVIOUS
    <3>2. t \in [0..((n - i) - 1) -> set] /\ t[0] = s[i]
      BY <3>1
    <3>3. ASSUME NEW k \in 1..((n - i) - 1) PROVE t[k] \in pg[t[k - 1]].refs
      <4>1. i + k \in 1..(n - 1) /\ k - 1 \in 0..((n - i) - 1) /\ i + (k - 1) = (i + k) - 1
        OBVIOUS
      <4>2. t[k] = s[i + k] /\ t[k - 1] = s[(i + k) - 1]
        BY <4>1
      <4> QED
        BY <1>2, <4>1, <4>2
    <3> QED
      BY <2>1, <3>2, <3>3 DEF Chain
  <2>3. ~Chain(set, s[i], n - i)
    <3>1. SUFFICES ASSUME Chain(set, s[i], n - i) PROVE FALSE
      OBVIOUS
    <3>2. Chain(set, s[0], i + (n - i))
      BY <1>2, <2>1, <3>1, JoinedChains
    <3>3. i + (n - i) = n
      OBVIOUS
    <3> QED
      BY <1>1, <1>2, <3>2, <3>3
  <2> QED
    BY <2>1, <2>2, <2>3 DEF Level
<1>4. \A k \in 1..n : Level(set, k) # {}
  <2> TAKE k \in 1..n
  <2>1. n - k \in 0..(n - 1) /\ n - (n - k) = k
    OBVIOUS
  <2> QED
    BY <1>3, <2>1
<1>5. n <= Cardinality(set)
  <2>1. s \in Injection(0..(n - 1), set)
    <3>1. ASSUME NEW i \in 0..(n - 1), NEW k \in 0..(n - 1), s[i] = s[k] PROVE i = k
      <4>1. /\ StepOf(s[i]) \in Level(set, n - i) /\ n - i \in Nat \ {0}
            /\ StepOf(s[i]) \in Level(set, n - k) /\ n - k \in Nat \ {0}
        BY <1>3, <3>1
      <4>2. n - i = n - k
        BY <4>1, LevelFacts
      <4> QED
        BY <4>2
    <3> QED
      BY <3>1, <1>2 DEF Injection, IsInjective
  <2>2. Cardinality(0..(n - 1)) <= Cardinality(set)
    BY <2>1, FS_Injection
  <2>3. Cardinality(0..(n - 1)) = n
    BY FS_Interval
  <2> QED
    BY <2>2, <2>3
<1> QED
  BY <1>4, <1>5

(* topologicalSortCohorts (toposort.ts): a cohort is sorted, or else counted *)
(* as cyclic, according to whether its chains of references end.            *)
THEOREM SortedUnlessCyclic ==
  ASSUME TypeOK, NEW set \in SUBSET Existing, NEW c \in set
  PROVE  (\E i \in DOMAIN Levels(set) : StepOf(c) \in Levels(set)[i]) <=> \E n \in Nat : ~Chain(set, c, n)
<1> DEFINE Full == {k \in 1..Cardinality(set) : Level(set, k) # {}}
<1>1. IsFiniteSet(set) /\ Cardinality(set) \in Nat
  <2>1. set \in SUBSET Cohorts
    BY DEF Existing
  <2>2. IsFiniteSet(set)
    BY <2>1, FS_Subset, CohortsAssumption
  <2> QED
    BY <2>2, FS_CardinalityType
<1>2. IsFiniteSet(Full) /\ Cardinality(Full) \in Nat
  <2>1. IsFiniteSet(1..Cardinality(set))
    BY <1>1, FS_Interval
  <2>2. Full \in SUBSET (1..Cardinality(set))
    OBVIOUS
  <2>3. IsFiniteSet(Full)
    BY <2>1, <2>2, FS_Subset
  <2> QED
    BY <2>3, FS_CardinalityType
<1>3. Levels(set) = [n \in 1..Cardinality(Full) |-> Level(set, n)]
  BY DEF Levels
<1>4. ASSUME NEW n \in Nat \ {0}, StepOf(c) \in Level(set, n) PROVE n \in 1..Cardinality(Full)
  <2>1. (\A k \in 1..n : Level(set, k) # {}) /\ n <= Cardinality(set)
    BY <1>1, <1>4, LevelsBelow
  <2>2. 1..n \in SUBSET Full
    BY <1>1, <2>1
  <2>3. Cardinality(1..n) <= Cardinality(Full)
    <3> HIDE DEF Full
    <3> QED
      BY <1>2, <2>2, FS_Subset
  <2>4. Cardinality(1..n) = n
    BY FS_Interval
  <2> HIDE DEF Full
  <2> QED
    BY <1>2, <2>3, <2>4
<1> HIDE DEF Full
<1>5. ASSUME NEW n \in Nat, ~Chain(set, c, n) PROVE \E i \in DOMAIN Levels(set) : StepOf(c) \in Levels(set)[i]
  <2>1. PICK k \in Nat \ {0} : StepOf(c) \in Level(set, k)
    BY <1>5, LevelOf
  <2> QED
    BY <1>3, <1>4, <2>1
<1>6. ASSUME NEW i \in DOMAIN Levels(set), StepOf(c) \in Levels(set)[i] PROVE \E n \in Nat : ~Chain(set, c, n)
  <2>1. i \in Nat /\ StepOf(c) \in Level(set, i)
    BY <1>2, <1>3, <1>6
  <2>2. PICK d \in set : StepOf(c) = StepOf(d) /\ ~Chain(set, d, i)
    BY <2>1 DEF Level
  <2>3. c = d
    BY <2>2 DEF StepOf
  <2> QED
    BY <2>1, <2>2, <2>3
<1> QED
  BY <1>5, <1>6
-----------------------------------------------------------------------------
(* The effect of each action on the rows of cohorts and on the cycles.      *)
LEMMA ErrorsFacts ==
  ASSUME TypeOK, NEW n \in Nat, NEW set
  PROVE  /\ Errors(n, set) \in [Cohorts -> Row \cup {New, Gone}]
         /\ \A c \in Cohorts : c \notin Existing => Errors(n, set)[c] = pg[c]
         /\ \A c \in Existing : /\ Errors(n, set)[c] \in Row
                               /\ Errors(n, set)[c].version = pg[c].version
                               /\ Errors(n, set)[c].gen = pg[c].gen
                               /\ Errors(n, set)[c].refs = pg[c].refs
<1>1. ASSUME NEW c \in Existing
      PROVE  LET x == [pg[c] EXCEPT !.errors = IF @ + n < MaxErrors THEN @ + n ELSE MaxErrors, !.held = TRUE]
             IN  x \in Row /\ x.version = pg[c].version /\ x.gen = pg[c].gen /\ x.refs = pg[c].refs
  <2> DEFINE e == IF pg[c].errors + n < MaxErrors THEN pg[c].errors + n ELSE MaxErrors
  <2>1. pg[c] \in Row /\ pg[c].errors \in 0..MaxErrors
    BY ExistingFacts DEF Row
  <2>2. e \in 0..MaxErrors
    BY <2>1, CohortsAssumption
  <2> HIDE DEF e
  <2>3. [pg[c] EXCEPT !.errors = e, !.held = TRUE] \in Row
    BY <2>1, <2>2 DEF Row
  <2> QED
    BY <2>1, <2>3 DEF Row, e
<1>2. \A c \in Cohorts : c \notin Existing => pg[c] \in {New, Gone}
  BY DEF Existing
<1>3. \A c \in Cohorts : Errors(n, set)[c] = IF c \in set \cap Existing
     THEN [pg[c] EXCEPT !.errors = IF @ + n < MaxErrors THEN @ + n ELSE MaxErrors, !.held = TRUE]
     ELSE pg[c]
  BY DEF Errors
<1>4. \A c \in Existing : c \in Cohorts /\ pg[c] \in Row
  BY ExistingFacts
<1>5. Errors(n, set) = [c \in Cohorts |-> Errors(n, set)[c]]
  BY DEF Errors
<1> QED
  BY <1>1, <1>2, <1>3, <1>4, <1>5

(* A cycle changes in place.                                                *)
LEMMA NewCycle ==
  ASSUME TypeOK, NEW r \in Replicas, NEW c \in Cycle, cycle' = [cycle EXCEPT ![r] = c]
  PROVE  /\ cycle' \in [Replicas -> Cycle]
         /\ cycle'[r] = c
         /\ \A o \in Replicas : o # r => cycle'[o] = cycle[o]
  BY DEF TypeOK

LEMMA IdleCycle == Idle \in Cycle /\ Idle.pc = "idle" /\ Idle.levels = <<>> /\ Idle.waiting = {} /\ Idle.done = {}
<1>1. <<>> \in Seq(SUBSET Step)
  BY EmptySeq
<1> QED
  BY <1>1 DEF Idle, Cycle

LEMMA StartEffect ==
  ASSUME TypeOK, NEW r \in Replicas, StartCycle(r)
  PROVE  /\ cycle' \in [Replicas -> Cycle]
         /\ \A o \in Replicas : o # r => cycle'[o] = cycle[o]
         /\ cycle'[r].pc = "level" /\ cycle'[r].waiting = {} /\ cycle'[r].done = {}
         /\ \E set \in SUBSET Existing : cycle'[r].levels = Levels(set)
         /\ \E set : pg' = Errors(1, set)
<1> DEFINE eligible == {c \in Existing : pg[c].due /\ pg[c].errors < MaxErrors /\ ~pg[c].held}
           c == [Idle EXCEPT !.pc = "level", !.levels = Levels(eligible)]
<1>1. Levels(eligible) \in Seq(SUBSET Step)
  BY LevelsFacts
<1>2. cycle' = [cycle EXCEPT ![r] = c] /\ \E set : pg' = Errors(1, set)
  BY DEF StartCycle
<1>3. eligible \in SUBSET Existing
  OBVIOUS
<1> HIDE DEF eligible
<1>4. /\ c \in Cycle /\ c.pc = "level" /\ c.waiting = {} /\ c.done = {} /\ c.levels = Levels(eligible)
  BY <1>1 DEF Idle, Cycle
<1> HIDE DEF c
<1> QED
  BY <1>2, <1>3, <1>4, NewCycle

LEMMA QueueEffect ==
  ASSUME TypeOK, NEW r \in Replicas, QueueLevel(r)
  PROVE  LET level == cycle[r].levels[1] IN
         /\ cycle' \in [Replicas -> Cycle]
         /\ \A o \in Replicas : o # r => cycle'[o] = cycle[o]
         /\ cycle'[r].pc = "level" /\ cycle'[r].done = cycle[r].done
         /\ 1 \in DOMAIN cycle[r].levels /\ level \in SUBSET Step
         /\ \A i \in DOMAIN cycle'[r].levels :
               /\ i \in Nat /\ i + 1 \in DOMAIN cycle[r].levels
               /\ cycle'[r].levels[i] = cycle[r].levels[i + 1]
         /\ cycle[r].waiting = {} /\ cycle'[r].waiting = {s.cohort : s \in level}
         /\ jobs' = jobs \cup {[step |-> s, pc |-> "queued", version |-> 0, by |-> r] : s \in level}
<1> DEFINE q == cycle[r].levels
           waiting == {s.cohort : s \in q[1]}
           c == [cycle[r] EXCEPT !.levels = Tail(q), !.waiting = waiting]
<1>1. /\ cycle[r] \in Cycle /\ q \in Seq(SUBSET Step) /\ q # <<>>
      /\ At(r, "level") /\ cycle[r].waiting = {}
  BY DEF QueueLevel, TypeOK, Cycle
<1>2. /\ Head(q) = q[1] /\ q[1] \in SUBSET Step /\ Tail(q) \in Seq(SUBSET Step)
      /\ 1 \in DOMAIN q
      /\ \A i \in DOMAIN Tail(q) : i \in Nat /\ i + 1 \in DOMAIN q /\ Tail(q)[i] = q[i + 1]
  <2>1. /\ Head(q) \in SUBSET Step /\ Tail(q) \in Seq(SUBSET Step)
        /\ Len(Tail(q)) = Len(q) - 1
        /\ \A i \in 1..Len(Tail(q)) : Tail(q)[i] = q[i + 1]
    BY <1>1, HeadTailProperties
  <2>2. Len(q) \in Nat \ {0} /\ DOMAIN q = 1..Len(q) /\ DOMAIN Tail(q) = 1..Len(Tail(q)) /\ Head(q) = q[1]
    BY <1>1, <2>1, EmptySeq
  <2> QED
    BY <2>1, <2>2
<1>3. waiting \in SUBSET Cohorts
  BY <1>2 DEF Step
<1>4. cycle' = [cycle EXCEPT ![r] = c] /\ jobs' = jobs \cup {[step |-> s, pc |-> "queued", version |-> 0, by |-> r] : s \in q[1]}
  <2>1. /\ cycle' = [cycle EXCEPT ![r].levels = Tail(q), ![r].waiting = {s.cohort : s \in Head(q)}]
        /\ jobs' = jobs \cup {[step |-> s, pc |-> "queued", version |-> 0, by |-> r] : s \in Head(q)}
    BY DEF QueueLevel
  <2>2. cycle' = [cycle EXCEPT ![r].levels = Tail(q), ![r].waiting = waiting]
    BY <1>2, <2>1
  <2> HIDE DEF waiting, q
  <2>3. cycle' = [cycle EXCEPT ![r] = c]
    BY <2>2 DEF TypeOK
  <2> QED
    BY <1>2, <2>1, <2>3
<1> HIDE DEF waiting
<1>5. c \in Cycle /\ c.pc = "level" /\ c.levels = Tail(q) /\ c.done = cycle[r].done /\ c.waiting = waiting
  BY <1>1, <1>2, <1>3 DEF Cycle, At
<1> HIDE DEF c
<1>6. cycle' \in [Replicas -> Cycle] /\ cycle'[r] = c /\ \A o \in Replicas : o # r => cycle'[o] = cycle[o]
  BY <1>4, <1>5, NewCycle
<1> QED
  BY <1>1, <1>2, <1>4, <1>5, <1>6 DEF waiting

(* A cycle goes on without some of what it held; its jobs may go on alone.  *)
Detached(r) == {IF j.by = r THEN [j EXCEPT !.by = None] ELSE j : j \in jobs}

Shrinks(r) ==
  /\ cycle' \in [Replicas -> Cycle]
  /\ \A o \in Replicas : o # r => cycle'[o] = cycle[o]
  /\ cycle'[r].levels \in {cycle[r].levels, <<>>} /\ cycle'[r].done \in {cycle[r].done, {}}
  /\ cycle'[r].pc = "idle" => cycle'[r] = Idle
  /\ cycle'[r].pc \in {"count", "sweep"} =>
       cycle'[r].levels = <<>> /\ cycle'[r].waiting = {} /\ cycle'[r].done = {}
  /\ \/ jobs' = jobs /\ cycle'[r].waiting = cycle[r].waiting
     \/ jobs' = Detached(r) /\ cycle'[r].waiting = {}
  /\ clock' = clock

LEMMA DetachedFacts ==
  ASSUME TypeOK, NEW r \in Replicas
  PROVE  /\ Detached(r) \subseteq Job
         /\ \A k \in Detached(r) : /\ k.by # r
                                   /\ k.by # None => k \in jobs
                                   /\ \E j \in jobs : /\ j.step = k.step /\ j.pc = k.pc /\ j.version = k.version
                                                      /\ k = IF j.by = r THEN [j EXCEPT !.by = None] ELSE j
         /\ \A j \in jobs : j.by # r => j \in Detached(r)
<1>1. ASSUME NEW j \in jobs
      PROVE  LET k == [j EXCEPT !.by = None]
             IN  k \in Job /\ k.by = None /\ k.step = j.step /\ k.pc = j.pc /\ k.version = j.version
  BY DEF TypeOK, Job
<1>2. None # r /\ jobs \subseteq Job
  BY CohortsAssumption DEF TypeOK
<1>3. ASSUME NEW k \in Detached(r)
      PROVE  /\ k \in Job /\ k.by # r
             /\ k.by # None => k \in jobs
             /\ \E j \in jobs : /\ j.step = k.step /\ j.pc = k.pc /\ j.version = k.version
                                /\ k = IF j.by = r THEN [j EXCEPT !.by = None] ELSE j
  <2>1. PICK j \in jobs : k = IF j.by = r THEN [j EXCEPT !.by = None] ELSE j
    BY DEF Detached
  <2>2. CASE j.by = r
    BY <1>1, <1>2, <2>1, <2>2
  <2>3. CASE j.by # r
    BY <1>2, <2>1, <2>3
  <2> QED
    BY <2>2, <2>3
<1>4. \A j \in jobs : j.by # r => j \in Detached(r)
  BY DEF Detached
<1> QED
  BY <1>3, <1>4

LEMMA ShrinkEffect ==
  ASSUME TypeOK, Phases, NEW r \in Replicas,
         \/ AbortLevels(r) \/ CycleFails(r) \/ DeleteOldVersions(r) \/ Sweep(r) \/ CountCycle(r)
         \/ FinalizeFails(r) \/ Timeout(r) \/ Crash(r)
  PROVE  Shrinks(r)
<1>1. cycle[r] \in Cycle /\ cycle \in [Replicas -> Cycle] /\ Existing \in SUBSET Cohorts /\ <<>> \in Seq(SUBSET Step)
  BY EmptySeq DEF TypeOK, Existing
<1>2. /\ Idle \in Cycle /\ Idle.pc = "idle" /\ Idle.levels = <<>> /\ Idle.waiting = {} /\ Idle.done = {}
  BY IdleCycle
<1>3. ASSUME cycle[r].waiting # {} PROVE cycle[r].pc = "level"
  BY <1>1, <1>2, <1>3 DEF TypeOK, Phases, Cycle
<1>4. CASE AbortLevels(r)
  <2> DEFINE c == [cycle[r] EXCEPT !.levels = <<>>]
  <2>1. /\ c \in Cycle /\ c.levels = <<>> /\ c.done = cycle[r].done /\ c.waiting = cycle[r].waiting /\ c.pc = "level"
    BY <1>1, <1>4 DEF Cycle, AbortLevels, At
  <2>2. cycle' = [cycle EXCEPT ![r] = c] /\ jobs' = jobs /\ clock' = clock
    BY <1>1, <1>4 DEF AbortLevels
  <2> HIDE DEF c
  <2>3. cycle' \in [Replicas -> Cycle] /\ cycle'[r] = c /\ \A o \in Replicas : o # r => cycle'[o] = cycle[o]
    BY <2>1, <2>2, NewCycle
  <2> QED
    BY <2>1, <2>2, <2>3 DEF Shrinks
<1>5. CASE CycleFails(r)
  <2> DEFINE c == [Idle EXCEPT !.pc = "count"]
  <2>1. /\ c \in Cycle /\ c.levels = <<>> /\ c.done = {} /\ c.waiting = {} /\ c.pc = "count"
    BY <1>1 DEF Cycle, Idle
  <2>2. cycle' = [cycle EXCEPT ![r] = c] /\ jobs' = jobs /\ clock' = clock /\ cycle[r].waiting = {}
    BY <1>5 DEF CycleFails
  <2> HIDE DEF c
  <2>3. cycle' \in [Replicas -> Cycle] /\ cycle'[r] = c /\ \A o \in Replicas : o # r => cycle'[o] = cycle[o]
    BY <2>1, <2>2, NewCycle
  <2> QED
    BY <2>1, <2>2, <2>3 DEF Shrinks
<1>6. CASE DeleteOldVersions(r)
  <2> DEFINE c == [cycle[r] EXCEPT !.pc = "count", !.done = {}]
  <2>1. /\ c \in Cycle /\ c.levels = <<>> /\ c.done = {} /\ c.waiting = {} /\ c.pc = "count"
        /\ cycle[r].waiting = {}
    BY <1>1, <1>6 DEF Cycle, DeleteOldVersions
  <2>2. cycle' = [cycle EXCEPT ![r] = c] /\ jobs' = jobs /\ clock' = clock
    BY <1>1, <1>6 DEF DeleteOldVersions
  <2> HIDE DEF c
  <2>3. cycle' \in [Replicas -> Cycle] /\ cycle'[r] = c /\ \A o \in Replicas : o # r => cycle'[o] = cycle[o]
    BY <2>1, <2>2, NewCycle
  <2> QED
    BY <2>1, <2>2, <2>3 DEF Shrinks
<1>7. ASSUME cycle' = [cycle EXCEPT ![r] = Idle], clock' = clock,
             \/ jobs' = jobs /\ cycle[r].waiting = {}
             \/ jobs' = Detached(r)
      PROVE  Shrinks(r)
  <2>1. cycle' \in [Replicas -> Cycle] /\ cycle'[r] = Idle /\ \A o \in Replicas : o # r => cycle'[o] = cycle[o]
    BY <1>2, <1>7, NewCycle
  <2> QED
    BY <1>2, <1>7, <2>1 DEF Shrinks
<1>8. CASE Sweep(r) \/ FinalizeFails(r)
  <2>1. cycle[r].waiting = {}
    BY <1>3, <1>8 DEF Sweep, FinalizeFails, At
  <2> QED
    BY <1>7, <1>8, <2>1 DEF Sweep, FinalizeFails, Released
<1>9. CASE CountCycle(r)
  <2>1. cycle[r].waiting = {} /\ cycle[r].levels = <<>> /\ cycle[r].done = {}
    BY <1>9 DEF CountCycle, At, Phases
  <2>2. CASE Released(r)
    BY <1>7, <1>9, <2>1, <2>2 DEF CountCycle, Released
  <2>3. CASE ~Released(r)
    <3> DEFINE c == [cycle[r] EXCEPT !.pc = "sweep", !.ids = Existing]
    <3>1. /\ c \in Cycle /\ c.levels = <<>> /\ c.done = {} /\ c.waiting = {} /\ c.pc = "sweep"
      BY <1>1, <2>1 DEF Cycle
    <3>2. cycle' = [cycle EXCEPT ![r] = c] /\ jobs' = jobs /\ clock' = clock
      BY <1>1, <1>9, <2>3 DEF CountCycle
    <3> HIDE DEF c
    <3>3. cycle' \in [Replicas -> Cycle] /\ cycle'[r] = c /\ \A o \in Replicas : o # r => cycle'[o] = cycle[o]
      BY <3>1, <3>2, NewCycle
    <3> QED
      BY <2>1, <3>1, <3>2, <3>3 DEF Shrinks
  <2> QED
    BY <2>2, <2>3
<1>10. CASE Timeout(r)
  <2> DEFINE c == [cycle[r] EXCEPT !.waiting = {}]
  <2>1. /\ c \in Cycle /\ c.levels = cycle[r].levels /\ c.done = cycle[r].done /\ c.waiting = {} /\ c.pc = "level"
    BY <1>1, <1>3, <1>10 DEF Cycle, Timeout
  <2>2. cycle' = [cycle EXCEPT ![r] = c] /\ jobs' = Detached(r) /\ clock' = clock
    BY <1>1, <1>10 DEF Timeout, Detached
  <2> HIDE DEF c
  <2>3. cycle' \in [Replicas -> Cycle] /\ cycle'[r] = c /\ \A o \in Replicas : o # r => cycle'[o] = cycle[o]
    BY <2>1, <2>2, NewCycle
  <2> QED
    BY <2>1, <2>2, <2>3 DEF Shrinks
<1>11. CASE Crash(r)
  BY <1>7, <1>11 DEF Crash, Detached
<1> QED
  BY <1>4, <1>5, <1>6, <1>8, <1>9, <1>10, <1>11

(* A job returns to its cycle, or goes on under another version.            *)
Done(j) == [cohort |-> j.step.cohort, refs |-> j.step.refs, version |-> j.version]

Returns(j, success) ==
  /\ cycle' \in [Replicas -> Cycle]
  /\ \A r \in Replicas :
       /\ cycle'[r].pc = cycle[r].pc /\ cycle'[r].levels = cycle[r].levels /\ cycle'[r].ids = cycle[r].ids
       /\ cycle'[r].waiting = {k.step.cohort : k \in {i \in jobs' : i.by = r}}
       /\ r # j.by => cycle'[r] = cycle[r]
       /\ cycle'[r].done = IF r = j.by /\ success THEN cycle[r].done \cup {Done(j)} ELSE cycle[r].done
  /\ j.by # None => cycle[j.by].pc = "level"
  /\ jobs' = jobs \ {j}

GoesOn(j, k) ==
  /\ k \in Job /\ k.step = j.step /\ k.by = j.by
  /\ cycle' = cycle
  /\ jobs' = (jobs \ {j}) \cup {k}

LEMMA JobFacts ==
  ASSUME TypeOK, NEW j \in jobs
  PROVE  /\ j \in Job /\ j.step \in Step /\ j.version \in Nat /\ j.version <= clock
         /\ j.step.cohort \in Cohorts /\ j.step.refs \in SUBSET Cohorts /\ j.step.gen \in Nat
         /\ j.by # None => j.by \in Replicas
         /\ j.pc \in {"queued", "computing", "marking"}
         /\ Done(j) \in [cohort : Cohorts, refs : SUBSET Cohorts, version : Nat]
         /\ Done(j).cohort = j.step.cohort /\ Done(j).refs = j.step.refs /\ Done(j).version = j.version
<1>1. j \in Job /\ j.version <= clock
  BY DEF TypeOK
<1>2. j.step \in Step /\ j.version \in Nat /\ j.by \in Replicas \cup {None} /\ j.pc \in {"queued", "computing", "marking"}
  BY <1>1 DEF Job
<1>3. j.step.cohort \in Cohorts /\ j.step.refs \in SUBSET Cohorts /\ j.step.gen \in Nat
  BY <1>2 DEF Step
<1> QED
  BY <1>1, <1>2, <1>3 DEF Done

LEMMA WaitingFacts ==
  ASSUME TypeOK, NEW r \in Replicas
  PROVE  \A d : d \in cycle[r].waiting <=> \E j \in jobs : j.by = r /\ d = j.step.cohort
<1>1. cycle[r].waiting = {j.step.cohort : j \in {k \in jobs : k.by = r}}
  BY DEF TypeOK
<1> QED
  BY <1>1

LEMMA ReturnEffect ==
  ASSUME TypeOK, Phases, Once, NEW j \in jobs, NEW success \in BOOLEAN, Return(j, success)
  PROVE  Returns(j, success)
<1>1. jobs' = jobs \ {j} /\ cycle \in [Replicas -> Cycle]
  BY DEF Return, TypeOK
<1>2. \A r \in Replicas : cycle[r].waiting = {k.step.cohort : k \in {i \in jobs : i.by = r}}
  BY DEF TypeOK
<1>3. CASE j.by = None
  <2>1. \A r \in Replicas : r # j.by /\ {i \in jobs' : i.by = r} = {i \in jobs : i.by = r}
    BY <1>1, <1>3, CohortsAssumption
  <2>2. cycle' = cycle
    BY <1>3 DEF Return
  <2> QED
    BY <1>1, <1>2, <1>3, <2>1, <2>2 DEF Returns
<1>4. CASE j.by # None
  <2> DEFINE r == j.by
             waiting == cycle[r].waiting \ {j.step.cohort}
             done == IF success THEN cycle[r].done \cup {Done(j)} ELSE cycle[r].done
             c == [cycle[r] EXCEPT !.waiting = waiting, !.done = done]
  <2>1. r \in Replicas /\ Done(j) \in [cohort : Cohorts, refs : SUBSET Cohorts, version : Nat]
    BY <1>4, JobFacts
  <2>2. cycle[r] \in Cycle /\ j.step.cohort \in cycle[r].waiting
    BY <1>1, <1>2, <2>1
  <2>3. cycle[r].pc = "level"
    <3>1. cycle[r].waiting # {} /\ Idle.waiting = {} /\ cycle[r].pc \in {"idle", "level", "count", "sweep"}
      BY <2>2, IdleCycle DEF Cycle
    <3> QED
      BY <2>1, <3>1 DEF TypeOK, Phases
  <2>4. cycle' = [cycle EXCEPT ![r] = c]
    <3>1. cycle' = [cycle EXCEPT ![r].waiting = @ \ {j.step.cohort}, ![r].done = IF success
                      THEN @ \cup {Done(j)} ELSE @]
      BY <1>4 DEF Return, Done
    <3> HIDE DEF r
    <3> QED
      BY <1>1, <2>1, <3>1
  <2>5. waiting = {k.step.cohort : k \in {i \in jobs' : i.by = r}}
    <3>1. \A k \in jobs : k.by = r /\ k.step.cohort = j.step.cohort => k = j
      BY <2>1 DEF Once
    <3>2. ASSUME NEW d
          PROVE  d \in waiting <=> \E k \in jobs' : k.by = r /\ k.step.cohort = d
      BY <1>1, <1>2, <2>1, <3>1
    <3> QED
      BY <3>2
  <2>6. waiting \in SUBSET Cohorts /\ done \in SUBSET [cohort : Cohorts, refs : SUBSET Cohorts, version : Nat]
    BY <2>1, <2>2 DEF Cycle
  <2> HIDE DEF r, waiting, done
  <2>7. c \in Cycle /\ c.pc = cycle[r].pc /\ c.levels = cycle[r].levels /\ c.ids = cycle[r].ids
        /\ c.waiting = waiting /\ c.done = done
    BY <2>2, <2>6 DEF Cycle
  <2> HIDE DEF c
  <2>8. cycle' \in [Replicas -> Cycle] /\ cycle'[r] = c /\ \A o \in Replicas : o # r => cycle'[o] = cycle[o]
    BY <2>1, <2>4, <2>7, NewCycle
  <2>9. \A o \in Replicas : o # r => {i \in jobs' : i.by = o} = {i \in jobs : i.by = o}
    BY <1>1 DEF r
  <2> QED
    BY <1>1, <1>2, <2>3, <2>5, <2>7, <2>8, <2>9 DEF Returns, r, done
<1> QED
  BY <1>3, <1>4

LEMMA GoesOnFacts ==
  ASSUME TypeOK, NEW j \in jobs, StartJob(j) \/ ComputeMembership(j) \/ Stall(j)
  PROVE  \E k \in Job :
           /\ GoesOn(j, k)
           /\ \/ j.pc = "queued" /\ k.pc = "computing" /\ k.version = clock + 1 /\ clock' = clock + 1
                 /\ rows' = rows /\ UNCHANGED faults
              \/ j.pc = "computing" /\ k.pc = "marking" /\ k.version = j.version /\ clock' = clock
                 /\ rows' = rows \cup {RowsOf(j, TRUE)} /\ UNCHANGED faults
              \/ j.pc # "queued" /\ k.pc = "queued" /\ k.version = 0 /\ clock' = clock
                 /\ rows' = rows /\ Fault
<1>1. j \in Job /\ clock \in Nat
  BY DEF TypeOK
<1>2. CASE StartJob(j)
  <2> DEFINE v == clock + 1
             k == [j EXCEPT !.pc = "computing", !.version = v]
  <2>0. v \in Nat
    BY <1>1
  <2> HIDE DEF v
  <2>1. k \in Job /\ k.step = j.step /\ k.by = j.by /\ k.pc = "computing" /\ k.version = v
    BY <1>1, <2>0 DEF Job
  <2>2. jobs' = (jobs \ {j}) \cup {k}
    BY <1>2 DEF StartJob, v
  <2> HIDE DEF k
  <2> QED
    BY <1>2, <2>1, <2>2 DEF StartJob, GoesOn, v
<1>3. CASE ComputeMembership(j)
  <2> DEFINE k == [j EXCEPT !.pc = "marking"]
  <2>1. k \in Job /\ k.step = j.step /\ k.by = j.by /\ k.pc = "marking" /\ k.version = j.version
    BY <1>1 DEF Job
  <2>2. jobs' = (jobs \ {j}) \cup {k}
    BY <1>3 DEF ComputeMembership
  <2> HIDE DEF k
  <2> QED
    BY <1>3, <2>1, <2>2 DEF ComputeMembership, GoesOn
<1>4. CASE Stall(j)
  <2> DEFINE k == [j EXCEPT !.pc = "queued", !.version = 0]
  <2>1. k \in Job /\ k.step = j.step /\ k.by = j.by /\ k.pc = "queued" /\ k.version = 0
    BY <1>1 DEF Job
  <2>2. jobs' = (jobs \ {j}) \cup {k}
    BY <1>4 DEF Stall
  <2> HIDE DEF k
  <2> QED
    BY <1>4, <2>1, <2>2 DEF Stall, GoesOn
<1> QED
  BY <1>2, <1>3, <1>4

(* What a step can do to the cycles and their jobs.                         *)
LEMMA Moves ==
  ASSUME TypeOK, Phases, Once, Next
  PROVE  \/ \E r \in Replicas : StartCycle(r) \/ QueueLevel(r)
         \/ \E r \in Replicas : Shrinks(r)
         \/ \E j \in jobs, success \in BOOLEAN : Returns(j, success) /\ clock' = clock
                                                /\ (success => j.pc = "marking")
         \/ \E j \in jobs : StartJob(j) \/ ComputeMembership(j) \/ Stall(j)
         \/ UNCHANGED <<cycle, jobs, clock>>
<1>1. ASSUME NEW r \in Replicas, CycleStep(r) \/ CycleFails(r) \/ Timeout(r) \/ FinalizeFails(r) \/ Crash(r)
      PROVE  StartCycle(r) \/ QueueLevel(r) \/ Shrinks(r)
  BY <1>1, ShrinkEffect DEF CycleStep
<1>2. ASSUME NEW j \in jobs, ComputeFails(j)
      PROVE  Returns(j, FALSE) /\ clock' = clock
  BY <1>2, ReturnEffect DEF ComputeFails
<1>3. ASSUME NEW j \in jobs, Mark(j)
      PROVE  Returns(j, TRUE) /\ clock' = clock /\ j.pc = "marking"
  BY <1>3, ReturnEffect DEF Mark
<1>4. CASE \E r \in Replicas : CycleStep(r) \/ CycleFails(r) \/ Timeout(r) \/ FinalizeFails(r) \/ Crash(r)
  BY <1>1, <1>4
<1>5. CASE JobStep \/ \E j \in jobs : Stall(j)
  BY <1>2, <1>3, <1>5 DEF JobStep
<1>6. CASE Expire
  BY <1>6 DEF Expire
<1>7. CASE \E c \in Cohorts, refs \in SUBSET Cohorts : CheckUpdate(c, refs) \/ Create(c, refs)
  BY <1>7 DEF CheckUpdate, Create
<1>8. CASE \E e \in edits : WriteUpdate(e)
  BY <1>8 DEF WriteUpdate
<1>9. CASE \E c \in Cohorts : Remove(c) \/ GrowStale(c) \/ BackoffEnds(c)
  BY <1>9 DEF Remove, GrowStale, BackoffEnds
<1> QED
  BY <1>4, <1>5, <1>6, <1>7, <1>8, <1>9 DEF Next
-----------------------------------------------------------------------------
(* Types.                                                                   *)
CycleTypes ==
  /\ cycle \in [Replicas -> Cycle]
  /\ jobs \subseteq Job /\ clock \in Nat
  /\ \A r \in Replicas :
       /\ cycle[r].waiting = {j.step.cohort : j \in {k \in jobs : k.by = r}}
       /\ cycle[r].pc = "idle" => cycle[r] = Idle
  /\ \A j \in jobs : j.version <= clock

LEMMA CycleTypesStep ==
  ASSUME TypeOK, Phases, Once, Next
  PROVE  CycleTypes' /\ Phases'
<1>1. CycleTypes
  BY DEF TypeOK, CycleTypes
<1>2. ASSUME NEW r \in Replicas, StartCycle(r) PROVE CycleTypes' /\ Phases'
  <2>1. jobs' = jobs /\ clock' = clock /\ cycle[r].pc = "idle"
    BY <1>2 DEF StartCycle, At
  <2>2. /\ cycle' \in [Replicas -> Cycle]
        /\ \A o \in Replicas : o # r => cycle'[o] = cycle[o]
        /\ cycle'[r].pc = "level" /\ cycle'[r].waiting = {}
    BY <1>2, StartEffect
  <2>3. cycle[r].waiting = {}
    BY <1>1, <2>1, IdleCycle DEF CycleTypes
  <2> QED
    BY <1>1, <2>1, <2>2, <2>3 DEF CycleTypes, Phases
<1>3. ASSUME NEW r \in Replicas, QueueLevel(r) PROVE CycleTypes' /\ Phases'
  <2> DEFINE level == cycle[r].levels[1]
  <2>1. /\ cycle' \in [Replicas -> Cycle]
        /\ \A o \in Replicas : o # r => cycle'[o] = cycle[o]
        /\ cycle'[r].pc = "level" /\ level \in SUBSET Step /\ cycle[r].waiting = {}
        /\ cycle'[r].waiting = {s.cohort : s \in level}
        /\ jobs' = jobs \cup {[step |-> s, pc |-> "queued", version |-> 0, by |-> r] : s \in level}
    BY <1>3, QueueEffect
  <2>2. clock' = clock
    BY <1>3 DEF QueueLevel
  <2> HIDE DEF level
  <2>3. ASSUME NEW s \in level
        PROVE  LET k == [step |-> s, pc |-> "queued", version |-> 0, by |-> r]
               IN  k \in Job /\ k.version = 0 /\ k.step.cohort = s.cohort /\ k.by = r
    BY <2>1, <2>3 DEF Job
  <2>4. jobs' \subseteq Job /\ \A j \in jobs' : j.version <= clock'
    BY <1>1, <2>1, <2>2, <2>3 DEF CycleTypes
  <2>5. ASSUME NEW o \in Replicas PROVE cycle'[o].waiting = {j.step.cohort : j \in {k \in jobs' : k.by = o}}
    <3>1. CASE o = r
      <4>1. \A j \in jobs : j.by # r
        BY <2>1, WaitingFacts
      <4>2. \A d : d \in cycle'[r].waiting <=> \E s \in level : d = s.cohort
        BY <2>1
      <4>3. \A d : (\E s \in level : d = s.cohort) <=> \E j \in jobs' : j.by = r /\ d = j.step.cohort
        <5>1. ASSUME NEW s \in level PROVE \E j \in jobs' : j.by = r /\ s.cohort = j.step.cohort
          BY <2>1, <2>3
        <5>2. ASSUME NEW j \in jobs', j.by = r PROVE \E s \in level : j.step.cohort = s.cohort
          <6>1. PICK s \in level : j = [step |-> s, pc |-> "queued", version |-> 0, by |-> r]
            BY <2>1, <4>1, <5>2
          <6> QED
            BY <2>3, <6>1
        <5> QED
          BY <5>1, <5>2
      <4>4. \A d : d \in cycle'[r].waiting <=> \E j \in jobs' : j.by = r /\ d = j.step.cohort
        BY <4>2, <4>3
      <4> QED
        BY <3>1, <4>4
    <3>2. CASE o # r
      <4>1. {k \in jobs' : k.by = o} = {k \in jobs : k.by = o}
        BY <2>1, <2>3, <3>2
      <4> QED
        BY <1>1, <2>1, <3>2, <4>1 DEF CycleTypes
    <3> QED
      BY <3>1, <3>2
  <2> QED
    BY <1>1, <2>1, <2>2, <2>4, <2>5 DEF CycleTypes, Phases
<1>4. ASSUME NEW r \in Replicas, Shrinks(r) PROVE CycleTypes' /\ Phases'
  <2>1. CASE jobs' = jobs /\ cycle'[r].waiting = cycle[r].waiting
    BY <1>1, <1>4, <2>1 DEF CycleTypes, Phases, Shrinks
  <2>2. CASE jobs' = Detached(r) /\ cycle'[r].waiting = {}
    <3>1. jobs' \subseteq Job /\ \A j \in jobs' : j.version <= clock'
      BY <1>1, <1>4, <2>2, DetachedFacts DEF CycleTypes, Shrinks
    <3>2. ASSUME NEW o \in Replicas PROVE cycle'[o].waiting = {j.step.cohort : j \in {k \in jobs' : k.by = o}}
      <4>1. None # o
        BY CohortsAssumption
      <4>2. CASE o = r
        BY <2>2, <4>2, DetachedFacts
      <4>3. CASE o # r
        <5>1. {k \in jobs' : k.by = o} = {k \in jobs : k.by = o}
          BY <2>2, <4>1, <4>3, DetachedFacts
        <5> QED
          BY <1>1, <1>4, <4>3, <5>1 DEF CycleTypes, Shrinks
      <4> QED
        BY <4>2, <4>3
    <3> QED
      BY <1>1, <1>4, <3>1, <3>2 DEF CycleTypes, Phases, Shrinks
  <2> QED
    BY <1>4, <2>1, <2>2 DEF Shrinks
<1>5. ASSUME NEW j \in jobs, NEW success \in BOOLEAN, Returns(j, success), clock' = clock PROVE CycleTypes' /\ Phases'
  <2>1. \A r \in Replicas : cycle[r].pc # "level" => cycle'[r] = cycle[r]
    BY <1>5, CohortsAssumption DEF Returns
  <2>2. jobs' \subseteq Job /\ \A i \in jobs' : i.version <= clock'
    BY <1>1, <1>5 DEF CycleTypes, Returns
  <2>3. ASSUME NEW r \in Replicas
        PROVE  /\ cycle'[r].pc = cycle[r].pc
               /\ cycle'[r].waiting = {k.step.cohort : k \in {i \in jobs' : i.by = r}}
    BY <1>5 DEF Returns
  <2>4. /\ \A r \in Replicas : cycle'[r].pc = "idle" => cycle'[r] = Idle
        /\ \A r \in Replicas : cycle'[r].pc \in {"count", "sweep"} => cycle'[r] = cycle[r] /\ cycle[r].pc = cycle'[r].pc
    BY <1>1, <2>1, <2>3 DEF CycleTypes
  <2>5. CycleTypes'
    BY <1>1, <1>5, <2>2, <2>3, <2>4 DEF CycleTypes, Returns
  <2>6. Phases'
    BY <2>4 DEF Phases
  <2> QED
    BY <2>5, <2>6
<1>6. ASSUME NEW j \in jobs, StartJob(j) \/ ComputeMembership(j) \/ Stall(j) PROVE CycleTypes' /\ Phases'
  <2>1. PICK k \in Job : /\ GoesOn(j, k) /\ k.version <= clock' /\ clock' \in {clock, clock + 1}
    <3>1. j.version \in Nat /\ j.version <= clock /\ clock \in Nat
      BY <1>1, JobFacts DEF CycleTypes
    <3>2. PICK k \in Job : /\ GoesOn(j, k)
                           /\ \/ k.version = clock + 1 /\ clock' = clock + 1
                              \/ k.version = j.version /\ clock' = clock
                              \/ k.version = 0 /\ clock' = clock
      BY <1>6, GoesOnFacts
    <3> QED
      BY <3>1, <3>2
  <2>2. \A o : {i.step.cohort : i \in {i \in jobs' : i.by = o}} = {i.step.cohort : i \in {i \in jobs : i.by = o}}
    BY <2>1 DEF GoesOn
  <2>3. jobs' \subseteq Job /\ clock' \in Nat /\ cycle' = cycle
    BY <1>1, <2>1 DEF GoesOn, CycleTypes
  <2>4. \A i \in jobs' : i.version <= clock'
    <3>1. \A i \in jobs : i.version \in Nat /\ i.version <= clock
      BY JobFacts
    <3> QED
      BY <1>1, <2>1, <3>1 DEF GoesOn, CycleTypes
  <2> QED
    BY <1>1, <2>2, <2>3, <2>4 DEF CycleTypes, Phases
<1>7. ASSUME UNCHANGED <<cycle, jobs, clock>> PROVE CycleTypes' /\ Phases'
  BY <1>1, <1>7 DEF CycleTypes, Phases
<1> QED
  BY <1>2, <1>3, <1>4, <1>5, <1>6, <1>7, Moves

LEMMA RowTypesStep ==
  ASSUME TypeOK, Next
  PROVE  /\ pg' \in [Cohorts -> Row \cup {New, Gone}]
         /\ rows' \subseteq [cohort : Cohorts, version : Nat, gen : Nat, whole : BOOLEAN]
<1>1. pg \in [Cohorts -> Row \cup {New, Gone}] /\ rows \subseteq [cohort : Cohorts, version : Nat, gen : Nat, whole : BOOLEAN]
  BY DEF TypeOK
<1>2. ASSUME NEW j \in jobs, NEW whole \in BOOLEAN
      PROVE  RowsOf(j, whole) \in [cohort : Cohorts, version : Nat, gen : Nat, whole : BOOLEAN]
  BY JobFacts DEF RowsOf
<1>3. rows' \subseteq [cohort : Cohorts, version : Nat, gen : Nat, whole : BOOLEAN]
  <2>1. rows' \subseteq rows \/ \E j \in jobs, whole \in BOOLEAN : rows' = rows \cup {RowsOf(j, whole)}
    BY DEF Next, CycleStep, JobStep, StartCycle, QueueLevel, AbortLevels, DeleteOldVersions, CountCycle, Sweep,
           CycleFails, Timeout, FinalizeFails, Crash, StartJob, ComputeMembership, ComputeFails, Mark, Stall,
           Expire, CheckUpdate, Create, WriteUpdate, Remove, GrowStale, BackoffEnds
  <2> QED
    BY <1>1, <1>2, <2>1
<1> SUFFICES pg' \in [Cohorts -> Row \cup {New, Gone}]
  BY <1>3
<1>4. ASSUME NEW c \in Cohorts, NEW x \in Row \cup {New, Gone}, pg' = [pg EXCEPT ![c] = x]
      PROVE  pg' \in [Cohorts -> Row \cup {New, Gone}]
  BY <1>1, <1>4
<1>5. ASSUME NEW n \in Nat, NEW set, pg' = Errors(n, set)
      PROVE  pg' \in [Cohorts -> Row \cup {New, Gone}]
  BY <1>5, ErrorsFacts
<1>6. ASSUME NEW refs \in SUBSET Cohorts, NEW gen \in Nat PROVE Fresh(refs, gen) \in Row
  BY CohortsAssumption DEF Fresh, Row
<1>7. ASSUME NEW r \in Replicas, CycleStep(r) \/ CycleFails(r) \/ Timeout(r) \/ FinalizeFails(r) \/ Crash(r)
      PROVE  pg' \in [Cohorts -> Row \cup {New, Gone}]
  <2>1. pg' = pg \/ \E n \in Nat : \E set : pg' = Errors(n, set)
    BY <1>7 DEF CycleStep, StartCycle, QueueLevel, AbortLevels, DeleteOldVersions, CountCycle, Sweep,
                CycleFails, Timeout, FinalizeFails, Crash
  <2> QED
    BY <1>1, <1>5, <2>1
<1>8. ASSUME NEW j \in jobs, Mark(j) PROVE pg' \in [Cohorts -> Row \cup {New, Gone}]
  <2> DEFINE c == j.step.cohort
             x == [pg[c] EXCEPT !.version = j.version, !.due = FALSE, !.errors = 0, !.held = FALSE]
  <2>1. CASE pg' = pg
    BY <1>1, <2>1
  <2>2. CASE pg' # pg
    <3>1. c \in Existing /\ pg' = [pg EXCEPT ![c].version = j.version, ![c].due = FALSE, ![c].errors = 0, ![c].held = FALSE]
      BY <1>8, <2>2 DEF Mark
    <3>2. c \in Cohorts /\ pg[c] \in Row /\ j.version \in Nat
      BY <3>1, ExistingFacts, JobFacts
    <3>3. x \in Row
      <4>1. 0 \in 0..MaxErrors
        BY CohortsAssumption
      <4>2. \A v \in Nat, e \in 0..MaxErrors :
              [pg[c] EXCEPT !.version = v, !.due = FALSE, !.errors = e, !.held = FALSE] \in Row
        BY <3>2 DEF Row
      <4> QED
        BY <3>2, <4>1, <4>2
    <3>4. pg' = [pg EXCEPT ![c] = x]
      BY <1>1, <3>1, <3>2
    <3> HIDE DEF x
    <3> QED
      BY <1>4, <3>2, <3>3, <3>4
  <2> QED
    BY <2>1, <2>2
<1>9. ASSUME NEW c \in Existing, NEW due \in BOOLEAN, NEW held \in BOOLEAN, pg' = [pg EXCEPT ![c].due = due] \/ pg' = [pg EXCEPT ![c].held = held]
      PROVE  pg' \in [Cohorts -> Row \cup {New, Gone}]
  <2>1. c \in Cohorts /\ pg[c] \in Row
    BY ExistingFacts
  <2>2. [pg[c] EXCEPT !.due = due] \in Row /\ [pg[c] EXCEPT !.held = held] \in Row
    BY <2>1 DEF Row
  <2>3. pg' = [pg EXCEPT ![c] = [pg[c] EXCEPT !.due = due]] \/ pg' = [pg EXCEPT ![c] = [pg[c] EXCEPT !.held = held]]
    BY <1>1, <1>9, <2>1
  <2> QED
    BY <1>4, <2>1, <2>2, <2>3
<1>10. CASE \E e \in edits : WriteUpdate(e)
  <2>1. PICK e \in edits : pg' = IF e.cohort \in Existing THEN [pg EXCEPT ![e.cohort] = Fresh(e.refs, @.gen + 1)] ELSE pg
    BY <1>10 DEF WriteUpdate
  <2>2. e.cohort \in Cohorts /\ e.refs \in SUBSET Cohorts
    BY DEF TypeOK
  <2>3. CASE e.cohort \in Existing
    <3> DEFINE c == e.cohort
               x == Fresh(e.refs, pg[c].gen + 1)
    <3>1. pg[c].gen + 1 \in Nat
      BY <2>3, ExistingFacts
    <3>2. x \in Row
      BY <1>6, <2>2, <3>1
    <3>3. pg' = [pg EXCEPT ![c] = x]
      BY <2>1, <2>3
    <3> HIDE DEF x
    <3> QED
      BY <1>4, <2>2, <3>2, <3>3
  <2> QED
    BY <1>1, <2>1, <2>3
<1>11. CASE JobStep \/ \E j \in jobs : Stall(j)
  <2>1. (\E j \in jobs : Mark(j)) \/ pg' = pg \/ \E set : pg' = Errors(1, set)
    BY <1>11 DEF JobStep, StartJob, ComputeMembership, ComputeFails, Stall
  <2> QED
    BY <1>1, <1>5, <1>8, <2>1
<1>12. CASE \E c \in Cohorts, refs \in SUBSET Cohorts : CheckUpdate(c, refs) \/ Create(c, refs)
  <2>1. pg' = pg \/ \E c \in Cohorts, refs \in SUBSET Cohorts : pg' = [pg EXCEPT ![c] = Fresh(refs, 0)]
    BY <1>12 DEF CheckUpdate, Create
  <2> QED
    BY <1>1, <1>4, <1>6, <2>1
<1>13. CASE \E c \in Cohorts : Remove(c) \/ GrowStale(c) \/ BackoffEnds(c)
  <2>1. PICK c \in Cohorts : Remove(c) \/ GrowStale(c) \/ BackoffEnds(c)
    BY <1>13
  <2>2. /\ c \in Existing
        /\ \/ pg' = [pg EXCEPT ![c] = Gone] \/ pg' = [pg EXCEPT ![c].due = TRUE] \/ pg' = [pg EXCEPT ![c].held = FALSE]
    BY <2>1 DEF Remove, GrowStale, BackoffEnds, Existing
  <2> QED
    BY <1>4, <1>9, <2>2
<1>14. CASE Expire
  BY <1>1, <1>14 DEF Expire
<1> QED
  BY <1>7, <1>10, <1>11, <1>12, <1>13, <1>14 DEF Next

LEMMA OtherTypesStep ==
  ASSUME TypeOK, Next
  PROVE  /\ lock' \in Replicas \cup {"free", "dead"}
         /\ count' \in 0..(GcEvery - 1)
         /\ edits' \subseteq [cohort : Cohorts, refs : SUBSET Cohorts]
         /\ changes' \in 0..MaxChanges /\ faults' \in 0..MaxFaults
         /\ overtaken' \subseteq Cohorts /\ overlapped' \in BOOLEAN
<1>1. lock' \in Replicas \cup {"free", "dead"} /\ overlapped' \in BOOLEAN
  <2>1. lock' \in {lock, "free", "dead"} \cup Replicas /\ overlapped' \in {overlapped, TRUE}
    BY DEF Next, CycleStep, JobStep, StartCycle, QueueLevel, AbortLevels, DeleteOldVersions, CountCycle, Sweep, Released,
           CycleFails, Timeout, FinalizeFails, Crash, StartJob, ComputeMembership, ComputeFails, Mark, Stall,
           Expire, CheckUpdate, Create, WriteUpdate, Remove, GrowStale, BackoffEnds
  <2> QED
    BY <2>1 DEF TypeOK
<1>2. count' \in 0..(GcEvery - 1)
  <2>1. count' = count \/ count' = (count + 1) % GcEvery
    BY DEF Next, CycleStep, JobStep, StartCycle, QueueLevel, AbortLevels, DeleteOldVersions, CountCycle, Sweep,
           CycleFails, Timeout, FinalizeFails, Crash, StartJob, ComputeMembership, ComputeFails, Mark, Stall,
           Expire, CheckUpdate, Create, WriteUpdate, Remove, GrowStale, BackoffEnds
  <2> QED
    BY <2>1, CohortsAssumption DEF TypeOK
<1>3. changes' \in 0..MaxChanges /\ faults' \in 0..MaxFaults
  <2>1. changes' = changes \/ Change
    BY DEF Next, CycleStep, JobStep, StartCycle, QueueLevel, AbortLevels, DeleteOldVersions, CountCycle, Sweep,
           CycleFails, Timeout, FinalizeFails, Crash, StartJob, ComputeMembership, ComputeFails, Mark, Stall,
           Expire, CheckUpdate, Create, WriteUpdate, Remove, GrowStale, BackoffEnds
  <2>2. faults' = faults \/ Fault
    BY DEF Next, CycleStep, JobStep, StartCycle, QueueLevel, AbortLevels, DeleteOldVersions, CountCycle, Sweep,
           CycleFails, Timeout, FinalizeFails, Crash, StartJob, ComputeMembership, ComputeFails, Mark, Stall,
           Expire, CheckUpdate, Create, WriteUpdate, Remove, GrowStale, BackoffEnds
  <2> QED
    BY <2>1, <2>2, CohortsAssumption DEF TypeOK, Change, Fault
<1>4. edits' \subseteq [cohort : Cohorts, refs : SUBSET Cohorts]
  <2>1. edits' \subseteq edits \/ \E c \in Cohorts, refs \in SUBSET Cohorts : edits' = edits \cup {[cohort |-> c, refs |-> refs]}
    BY DEF Next, CycleStep, JobStep, StartCycle, QueueLevel, AbortLevels, DeleteOldVersions, CountCycle, Sweep,
           CycleFails, Timeout, FinalizeFails, Crash, StartJob, ComputeMembership, ComputeFails, Mark, Stall,
           Expire, CheckUpdate, Create, WriteUpdate, Remove, GrowStale, BackoffEnds
  <2> QED
    BY <2>1 DEF TypeOK
<1>5. overtaken' \subseteq Cohorts
  <2>1. overtaken' \subseteq overtaken \/ \E e \in edits : overtaken' = overtaken \cup {e.cohort}
    BY DEF Next, CycleStep, JobStep, StartCycle, QueueLevel, AbortLevels, DeleteOldVersions, CountCycle, Sweep,
           CycleFails, Timeout, FinalizeFails, Crash, StartJob, ComputeMembership, ComputeFails, Mark, Stall,
           Expire, CheckUpdate, Create, WriteUpdate, Remove, GrowStale, BackoffEnds
  <2> QED
    BY <2>1 DEF TypeOK
<1> QED
  BY <1>1, <1>2, <1>3, <1>4, <1>5

LEMMA TypesStep ==
  ASSUME TypeOK, Phases, Once, Next
  PROVE  TypeOK' /\ Phases'
BY CycleTypesStep, RowTypesStep, OtherTypesStep DEF TypeOK, CycleTypes
-----------------------------------------------------------------------------
(* What the cycles hold after each move.                                    *)
LEMMA ShrinkFacts ==
  ASSUME TypeOK, TypeOK', NEW r \in Replicas, Shrinks(r), NEW o \in Replicas
  PROVE  /\ \A i \in DOMAIN cycle'[o].levels : i \in DOMAIN cycle[o].levels /\ cycle'[o].levels[i] = cycle[o].levels[i]
         /\ Steps(o)' \subseteq Steps(o)
         /\ cycle'[o].done \subseteq cycle[o].done
         /\ \A k \in jobs' : k.by = o => k \in jobs
<1>1. cycle'[o].levels \in {cycle[o].levels, <<>>} /\ cycle'[o].done \in {cycle[o].done, {}}
  BY DEF Shrinks
<1>2. \A i \in DOMAIN cycle'[o].levels : i \in DOMAIN cycle[o].levels /\ cycle'[o].levels[i] = cycle[o].levels[i]
  BY <1>1
<1>3. \A k \in jobs' : k.by = o => k \in jobs
  BY DetachedFacts, CohortsAssumption DEF Shrinks
<1>4. Steps(o)' \subseteq Steps(o)
  BY <1>2 DEF Steps
<1> QED
  BY <1>1, <1>2, <1>3, <1>4

LEMMA StartFacts ==
  ASSUME TypeOK, TypeOK', NEW r \in Replicas, StartCycle(r)
  PROVE  /\ jobs' = jobs /\ clock' = clock /\ rows' = rows /\ overtaken' = overtaken
         /\ \A j \in jobs : j.by # r
         /\ cycle'[r].done = {} /\ cycle'[r].pc = "level"
         /\ \A s \in Steps(r)' : s.cohort \in Existing /\ s = StepOf(s.cohort)
         /\ \A i, k \in DOMAIN cycle'[r].levels : \A s \in cycle'[r].levels[i], t \in cycle'[r].levels[k] :
              /\ i \in Nat /\ k \in Nat
              /\ s.cohort = t.cohort => i = k /\ s = t
              /\ t.cohort \in s.refs => k < i
         /\ \A o \in Replicas : o # r => cycle'[o] = cycle[o] /\ Steps(o)' = Steps(o)
<1>1. jobs' = jobs /\ clock' = clock /\ rows' = rows /\ overtaken' = overtaken /\ cycle[r].pc = "idle"
  BY DEF StartCycle, At
<1>2. \A j \in jobs : j.by # r
  <2>1. cycle[r] = Idle
    BY <1>1 DEF TypeOK
  <2>2. cycle[r].waiting = {}
    BY <2>1, IdleCycle
  <2> QED
    BY <2>2, WaitingFacts
<1>3. PICK set \in SUBSET Existing : cycle'[r].levels = Levels(set)
  BY StartEffect
<1>4. /\ cycle'[r].done = {} /\ cycle'[r].pc = "level"
      /\ \A o \in Replicas : o # r => cycle'[o] = cycle[o]
  BY StartEffect
<1>5. \A i \in DOMAIN cycle'[r].levels :
              /\ i \in Nat \ {0}
              /\ cycle'[r].levels[i] = Level(set, i)
              /\ \A s \in cycle'[r].levels[i] : \E c \in set : s = StepOf(c)
  BY <1>3, LevelsFacts
<1>6. \A i, k \in DOMAIN cycle'[r].levels : \A s \in cycle'[r].levels[i], t \in cycle'[r].levels[k] :
              /\ i \in Nat /\ k \in Nat
              /\ s.cohort = t.cohort => i = k /\ s = t
              /\ t.cohort \in s.refs => k < i
  BY <1>5, LevelFacts
<1>7. \A s \in Steps(r)' : s.cohort \in Existing /\ s = StepOf(s.cohort)
  <2>1. \A s \in Steps(r)' : \E c \in set : s = StepOf(c)
    BY <1>5 DEF Steps
  <2>2. \A c : StepOf(c).cohort = c
    BY DEF StepOf
  <2> QED
    BY <2>1, <2>2
<1>8. \A o \in Replicas : o # r => Steps(o)' = Steps(o)
  BY <1>4 DEF Steps
<1> QED
  BY <1>1, <1>2, <1>4, <1>6, <1>7, <1>8

LEMMA QueueFacts ==
  ASSUME TypeOK, TypeOK', Once, NEW r \in Replicas, QueueLevel(r)
  PROVE  /\ clock' = clock /\ rows' = rows /\ pg' = pg /\ overtaken' = overtaken
         /\ \A j \in jobs : j.by # r
         /\ jobs \subseteq jobs'
         /\ \A k \in jobs' : k \notin jobs =>
              /\ k.by = r /\ k.pc = "queued" /\ k.version = 0
              /\ k.step \in Steps(r)
              /\ 1 \in DOMAIN cycle[r].levels /\ k.step \in cycle[r].levels[1]
              /\ k = [step |-> k.step, pc |-> "queued", version |-> 0, by |-> r]
         /\ cycle'[r].done = cycle[r].done /\ cycle'[r].pc = cycle[r].pc
         /\ \A i \in DOMAIN cycle'[r].levels : /\ i \in Nat /\ i + 1 \in DOMAIN cycle[r].levels
                                               /\ cycle'[r].levels[i] = cycle[r].levels[i + 1] /\ i + 1 # 1
         /\ Steps(r)' \subseteq Steps(r)
         /\ \A o \in Replicas : o # r => cycle'[o] = cycle[o] /\ Steps(o)' = Steps(o)
<1> DEFINE level == cycle[r].levels[1]
<1>1. clock' = clock /\ rows' = rows /\ pg' = pg /\ overtaken' = overtaken /\ cycle[r].pc = "level" /\ cycle[r].waiting = {}
  BY DEF QueueLevel, At
<1>2. \A j \in jobs : j.by # r
  BY <1>1, WaitingFacts
<1>3. /\ cycle'[r].done = cycle[r].done /\ cycle'[r].pc = "level"
      /\ \A o \in Replicas : o # r => cycle'[o] = cycle[o]
      /\ 1 \in DOMAIN cycle[r].levels
      /\ \A i \in DOMAIN cycle'[r].levels :
               /\ i \in Nat /\ i + 1 \in DOMAIN cycle[r].levels
               /\ cycle'[r].levels[i] = cycle[r].levels[i + 1]
      /\ jobs' = jobs \cup {[step |-> s, pc |-> "queued", version |-> 0, by |-> r] : s \in level}
  BY QueueEffect
<1>4. \A i \in DOMAIN cycle'[r].levels : i \in Nat \ {0}
  <2>1. cycle'[r].levels \in Seq(SUBSET Step)
    BY DEF TypeOK, Cycle
  <2> QED
    BY <2>1
<1>5. \A o \in Replicas : o # r => Steps(o)' = Steps(o)
  BY <1>3 DEF Steps
<1>6. Steps(r)' \subseteq Steps(r)
  BY <1>3 DEF Steps
<1>7. \A s \in level : s \in Steps(r)
  BY <1>3 DEF Steps
<1> HIDE DEF level
<1>8. ASSUME NEW k \in jobs', k \notin jobs
      PROVE  /\ k.by = r /\ k.pc = "queued" /\ k.version = 0
             /\ k.step \in Steps(r) /\ k.step \in level
             /\ k = [step |-> k.step, pc |-> "queued", version |-> 0, by |-> r]
  <2>1. PICK s \in level : k = [step |-> s, pc |-> "queued", version |-> 0, by |-> r]
    BY <1>3, <1>8
  <2>2. k.by = r /\ k.pc = "queued" /\ k.version = 0 /\ k.step = s
    BY <2>1
  <2> QED
    BY <1>7, <2>1, <2>2
<1>9. jobs \subseteq jobs'
  BY <1>3
<1> QED
  BY <1>1, <1>2, <1>3, <1>4, <1>5, <1>6, <1>8, <1>9 DEF level

LEMMA ReturnsFacts ==
  ASSUME TypeOK, Phases, NEW j \in jobs, NEW success \in BOOLEAN, Returns(j, success), NEW o \in Replicas
  PROVE  /\ jobs' \subseteq jobs /\ \A k \in jobs' : k # j
         /\ cycle'[o].levels = cycle[o].levels /\ Steps(o)' = Steps(o)
         /\ \A d \in cycle'[o].done : d \in cycle[o].done \/ (success /\ o = j.by /\ d = Done(j))
         /\ cycle[o].done \subseteq cycle'[o].done
<1>1. jobs' \subseteq jobs /\ \A k \in jobs' : k # j
  BY DEF Returns
<1>2. cycle'[o].levels = cycle[o].levels
  BY DEF Returns
<1>3. cycle'[o].done = IF o = j.by /\ success THEN cycle[o].done \cup {Done(j)} ELSE cycle[o].done
  BY DEF Returns
<1> QED
  BY <1>1, <1>2, <1>3 DEF Steps

LEMMA GoesOnMove ==
  ASSUME TypeOK, NEW j \in jobs, StartJob(j) \/ ComputeMembership(j) \/ Stall(j)
  PROVE  \E k \in Job :
           /\ GoesOn(j, k)
           /\ \A i \in jobs' : i = k \/ (i \in jobs /\ i # j)
           /\ cycle' = cycle /\ \A r \in Replicas : Steps(r)' = Steps(r)
<1>1. PICK k \in Job : GoesOn(j, k)
  BY GoesOnFacts
<1>2. cycle' = cycle /\ jobs' = (jobs \ {j}) \cup {k}
  BY <1>1 DEF GoesOn
<1>3. \A r \in Replicas : Steps(r)' = Steps(r)
  BY <1>2 DEF Steps
<1>4. \A i \in jobs' : i = k \/ (i \in jobs /\ i # j)
  BY <1>2
<1> QED
  BY <1>1, <1>2, <1>3, <1>4
-----------------------------------------------------------------------------
LEMMA OnceStep ==
  ASSUME TypeOK, TypeOK', Phases, Once, Next
  PROVE  Once'
<1>1. ASSUME NEW r \in Replicas, StartCycle(r) PROVE Once'
  BY <1>1, StartFacts DEF Once
<1>2. ASSUME NEW r \in Replicas, QueueLevel(r) PROVE Once'
  <2> SUFFICES ASSUME NEW o \in Replicas
               PROVE  /\ \A i, k \in DOMAIN cycle'[o].levels : \A s \in cycle'[o].levels[i], t \in cycle'[o].levels[k] :
                           s.cohort = t.cohort => i = k /\ s = t
                      /\ \A j, k \in jobs' : j.by = o /\ k.by = o /\ j.step.cohort = k.step.cohort => j = k
                      /\ \A d, e \in cycle'[o].done : d.cohort = e.cohort => d = e
                      /\ \A s \in Steps(o)', j \in jobs' : j.by = o => j.step.cohort # s.cohort
                      /\ \A s \in Steps(o)', d \in cycle'[o].done : d.cohort # s.cohort
                      /\ \A j \in jobs', d \in cycle'[o].done : j.by = o => j.step.cohort # d.cohort
    BY DEF Once
  <2>1. CASE o # r
    <3>1. \A j \in jobs' : j.by = o => j \in jobs
      BY <1>2, <2>1, QueueFacts
    <3> QED
      BY <1>2, <2>1, <3>1, QueueFacts DEF Once
  <2>2. CASE o = r
    <3>1. \A j \in jobs' : j.by = r =>
             /\ 1 \in DOMAIN cycle[r].levels /\ j.step \in cycle[r].levels[1] /\ j.step \in Steps(r)
             /\ j = [step |-> j.step, pc |-> "queued", version |-> 0, by |-> r]
      BY <1>2, QueueFacts
    <3>2. \A j, k \in jobs' : j.by = r /\ k.by = r /\ j.step.cohort = k.step.cohort => j = k
      BY <3>1 DEF Once
    <3>3. \A i, k \in DOMAIN cycle'[r].levels : \A s \in cycle'[r].levels[i], t \in cycle'[r].levels[k] :
             s.cohort = t.cohort => i = k /\ s = t
      <4>1. \A i \in DOMAIN cycle'[r].levels : i \in Nat /\ i + 1 \in DOMAIN cycle[r].levels /\ cycle'[r].levels[i] = cycle[r].levels[i + 1]
        BY <1>2, QueueFacts
      <4> QED
        BY <4>1 DEF Once
    <3>4. \A s \in Steps(r)', j \in jobs' : j.by = r => j.step.cohort # s.cohort
      <4>1. \A s \in Steps(r)' : \E i \in DOMAIN cycle'[r].levels : s \in cycle'[r].levels[i]
        BY DEF Steps
      <4>2. \A s \in Steps(r)' : \E i \in DOMAIN cycle[r].levels : i # 1 /\ s \in cycle[r].levels[i]
        BY <1>2, <4>1, QueueFacts
      <4> QED
        BY <3>1, <4>2 DEF Once
    <3>5. cycle'[r].done = cycle[r].done /\ Steps(r)' \subseteq Steps(r)
      BY <1>2, QueueFacts
    <3> QED
      BY <2>2, <3>1, <3>2, <3>3, <3>4, <3>5 DEF Once
  <2> QED
    BY <2>1, <2>2
<1>3. ASSUME NEW r \in Replicas, Shrinks(r) PROVE Once'
  BY <1>3, ShrinkFacts DEF Once
<1>4. ASSUME NEW j \in jobs, NEW success \in BOOLEAN, Returns(j, success) PROVE Once'
  <2> SUFFICES ASSUME NEW o \in Replicas
               PROVE  /\ \A i, k \in DOMAIN cycle'[o].levels : \A s \in cycle'[o].levels[i], t \in cycle'[o].levels[k] :
                           s.cohort = t.cohort => i = k /\ s = t
                      /\ \A i, k \in jobs' : i.by = o /\ k.by = o /\ i.step.cohort = k.step.cohort => i = k
                      /\ \A d, e \in cycle'[o].done : d.cohort = e.cohort => d = e
                      /\ \A s \in Steps(o)', k \in jobs' : k.by = o => k.step.cohort # s.cohort
                      /\ \A s \in Steps(o)', d \in cycle'[o].done : d.cohort # s.cohort
                      /\ \A k \in jobs', d \in cycle'[o].done : k.by = o => k.step.cohort # d.cohort
    BY DEF Once
  <2>1. /\ jobs' \subseteq jobs /\ \A k \in jobs' : k # j
        /\ cycle'[o].levels = cycle[o].levels /\ Steps(o)' = Steps(o)
        /\ \A d \in cycle'[o].done : d \in cycle[o].done \/ (success /\ o = j.by /\ d = Done(j))
    BY <1>4, ReturnsFacts
  <2>2. Done(j).cohort = j.step.cohort
    BY JobFacts
  <2> QED
    BY <2>1, <2>2 DEF Once
<1>5. ASSUME NEW j \in jobs, StartJob(j) \/ ComputeMembership(j) \/ Stall(j) PROVE Once'
  <2>1. PICK k \in Job : GoesOn(j, k) /\ (\A i \in jobs' : i = k \/ (i \in jobs /\ i # j))
                         /\ cycle' = cycle /\ \A r \in Replicas : Steps(r)' = Steps(r)
    BY <1>5, GoesOnMove
  <2>2. k.step = j.step /\ k.by = j.by
    BY <2>1 DEF GoesOn
  <2> QED
    BY <2>1, <2>2 DEF Once
<1>6. ASSUME UNCHANGED <<cycle, jobs>> PROVE Once'
  BY <1>6 DEF Once, Steps
<1> QED
  BY <1>1, <1>2, <1>3, <1>4, <1>5, <1>6, Moves
-----------------------------------------------------------------------------
(* The order of a cycle.                                                    *)
LEMMA OrderedStep ==
  ASSUME TypeOK, TypeOK', Phases, Once, Versions, Ordered, DependenciesFirst, Next
  PROVE  Ordered' /\ DependenciesFirst'
<1> DEFINE
      LevelsOf(o) == \A i, k \in DOMAIN cycle'[o].levels : \A s \in cycle'[o].levels[i], t \in cycle'[o].levels[k] :
                       t.cohort \in s.refs => k < i
      JobsOf(o)   == \A j \in jobs' : j.by = o =>
                       /\ \A s \in Steps(o)' : s.cohort \notin j.step.refs
                       /\ \A k \in jobs' : k.by = o => k.step.cohort \notin j.step.refs
      DoneOf(o)   == \A d \in cycle'[o].done :
                       /\ \A s \in Steps(o)' : s.cohort \notin d.refs
                       /\ \A k \in jobs' : k.by = o => k.step.cohort \notin d.refs
      LaterOf(o)  == \A j \in jobs', d \in cycle'[o].done :
                       j.by = o /\ j.pc # "queued" /\ d.cohort \in j.step.refs => d.version < j.version
      FirstOf(o)  == \A x, y \in cycle'[o].done : y.cohort \in x.refs => y.version < x.version
<1> SUFFICES ASSUME NEW o \in Replicas
             PROVE  LevelsOf(o) /\ JobsOf(o) /\ DoneOf(o) /\ LaterOf(o) /\ FirstOf(o)
  BY DEF Ordered, DependenciesFirst
<1>1. ASSUME NEW r \in Replicas, StartCycle(r)
      PROVE  LevelsOf(o) /\ JobsOf(o) /\ DoneOf(o) /\ LaterOf(o) /\ FirstOf(o)
  <2>1. CASE o = r
    BY <1>1, <2>1, StartFacts
  <2>2. CASE o # r
    <3>1. cycle'[o] = cycle[o] /\ Steps(o)' = Steps(o) /\ jobs' = jobs
      BY <1>1, <2>2, StartFacts
    <3> QED
      BY <3>1 DEF Ordered, DependenciesFirst
  <2> QED
    BY <2>1, <2>2
<1>2. ASSUME NEW r \in Replicas, QueueLevel(r)
      PROVE  LevelsOf(o) /\ JobsOf(o) /\ DoneOf(o) /\ LaterOf(o) /\ FirstOf(o)
  <2>1. CASE o # r
    <3>1. \A j \in jobs' : j.by = o => j \in jobs
      BY <1>2, <2>1, QueueFacts
    <3>2. cycle'[o] = cycle[o] /\ Steps(o)' = Steps(o)
      BY <1>2, <2>1, QueueFacts
    <3> QED
      BY <3>1, <3>2 DEF Ordered, DependenciesFirst
  <2>2. CASE o = r
    <3>1. \A j \in jobs' : j.by = r =>
             1 \in DOMAIN cycle[r].levels /\ j.step \in cycle[r].levels[1] /\ j.step \in Steps(r) /\ j.pc = "queued"
      BY <1>2, QueueFacts
    <3>2. /\ \A i \in DOMAIN cycle'[r].levels : i \in Nat /\ i + 1 \in DOMAIN cycle[r].levels /\ i + 1 # 1
                                                /\ cycle'[r].levels[i] = cycle[r].levels[i + 1]
          /\ cycle'[r].done = cycle[r].done /\ Steps(r)' \subseteq Steps(r)
      BY <1>2, QueueFacts
    <3>3. LevelsOf(r)
      <4>1. ASSUME NEW i \in DOMAIN cycle'[r].levels, NEW k \in DOMAIN cycle'[r].levels,
                   NEW s \in cycle'[r].levels[i], NEW t \in cycle'[r].levels[k], t.cohort \in s.refs
            PROVE  k < i
        <5>1. k + 1 < i + 1 /\ k \in Nat /\ i \in Nat
          BY <3>2, <4>1 DEF Ordered
        <5> QED
          BY <5>1
      <4> QED
        BY <4>1
    <3>4. JobsOf(r)
      <4>1. ASSUME NEW j \in jobs', j.by = r, NEW s \in Steps(r)' PROVE s.cohort \notin j.step.refs
        <5>1. PICK i \in DOMAIN cycle'[r].levels : s \in cycle'[r].levels[i]
          BY DEF Steps
        <5>2. i \in Nat /\ i + 1 \in DOMAIN cycle[r].levels /\ i + 1 # 1 /\ s \in cycle[r].levels[i + 1]
          BY <3>2, <5>1
        <5>3. ~(i + 1 < 1)
          BY <5>2
        <5> QED
          BY <3>1, <4>1, <5>2, <5>3 DEF Ordered
      <4>2. ASSUME NEW j \in jobs', j.by = r, NEW k \in jobs', k.by = r PROVE k.step.cohort \notin j.step.refs
        <5>1. ~(1 < 1)
          OBVIOUS
        <5> QED
          BY <3>1, <4>2, <5>1 DEF Ordered
      <4> QED
        BY <4>1, <4>2
    <3>5. DoneOf(r)
      BY <3>1, <3>2 DEF Ordered
    <3>6. LaterOf(r) /\ FirstOf(r)
      BY <3>1, <3>2 DEF Ordered, DependenciesFirst
    <3> QED
      BY <2>2, <3>3, <3>4, <3>5, <3>6
  <2> QED
    BY <2>1, <2>2
<1>3. ASSUME NEW r \in Replicas, Shrinks(r)
      PROVE  LevelsOf(o) /\ JobsOf(o) /\ DoneOf(o) /\ LaterOf(o) /\ FirstOf(o)
  <2>1. /\ \A i \in DOMAIN cycle'[o].levels : i \in DOMAIN cycle[o].levels /\ cycle'[o].levels[i] = cycle[o].levels[i]
        /\ Steps(o)' \subseteq Steps(o)
        /\ cycle'[o].done \subseteq cycle[o].done
        /\ \A k \in jobs' : k.by = o => k \in jobs
    BY <1>3, ShrinkFacts
  <2>2. LevelsOf(o)
    BY <2>1 DEF Ordered
  <2>3. JobsOf(o) /\ DoneOf(o)
    BY <2>1 DEF Ordered
  <2>4. LaterOf(o) /\ FirstOf(o)
    BY <2>1 DEF Ordered, DependenciesFirst
  <2> QED
    BY <2>2, <2>3, <2>4
<1>4. ASSUME NEW j \in jobs, NEW success \in BOOLEAN, Returns(j, success), success => j.pc = "marking"
      PROVE  LevelsOf(o) /\ JobsOf(o) /\ DoneOf(o) /\ LaterOf(o) /\ FirstOf(o)
  <2>1. /\ jobs' \subseteq jobs /\ \A k \in jobs' : k # j
        /\ cycle'[o].levels = cycle[o].levels /\ Steps(o)' = Steps(o)
        /\ \A d \in cycle'[o].done : d \in cycle[o].done \/ (success /\ o = j.by /\ d = Done(j))
    BY <1>4, ReturnsFacts
  <2>2. Done(j).cohort = j.step.cohort /\ Done(j).refs = j.step.refs /\ Done(j).version = j.version
    BY JobFacts
  <2>3. success => j.pc # "queued"
    BY <1>4
  <2>4. LevelsOf(o)
    BY <2>1 DEF Ordered
  <2>5. JobsOf(o) /\ DoneOf(o)
    BY <2>1, <2>2 DEF Ordered
  <2>6. LaterOf(o)
    BY <2>1, <2>2 DEF Ordered
  <2>7. FirstOf(o)
    BY <2>1, <2>2, <2>3 DEF Ordered, DependenciesFirst
  <2> QED
    BY <2>4, <2>5, <2>6, <2>7
<1>5. ASSUME NEW j \in jobs, StartJob(j) \/ ComputeMembership(j) \/ Stall(j)
      PROVE  LevelsOf(o) /\ JobsOf(o) /\ DoneOf(o) /\ LaterOf(o) /\ FirstOf(o)
  <2>1. PICK k \in Job :
           /\ GoesOn(j, k)
           /\ \/ k.version = clock + 1
              \/ j.pc # "queued" /\ k.version = j.version
              \/ k.pc = "queued"
    BY <1>5, GoesOnFacts
  <2>2. /\ k.step = j.step /\ k.by = j.by /\ cycle' = cycle
        /\ \A i \in jobs' : i = k \/ i \in jobs
    BY <2>1 DEF GoesOn
  <2>3. Steps(o)' = Steps(o)
    BY <2>2 DEF Steps
  <2>4. LevelsOf(o) /\ FirstOf(o)
    BY <2>2 DEF Ordered, DependenciesFirst
  <2>5. JobsOf(o) /\ DoneOf(o)
    BY <2>2, <2>3 DEF Ordered
  <2>6. \A d \in cycle[o].done : d.version < clock + 1
    BY DEF Versions, TypeOK
  <2>7. LaterOf(o)
    BY <2>1, <2>2, <2>6 DEF Ordered
  <2> QED
    BY <2>4, <2>5, <2>7
<1>6. ASSUME UNCHANGED <<cycle, jobs>>
      PROVE  LevelsOf(o) /\ JobsOf(o) /\ DoneOf(o) /\ LaterOf(o) /\ FirstOf(o)
  BY <1>6 DEF Ordered, DependenciesFirst, Steps
<1> HIDE DEF LevelsOf, JobsOf, DoneOf, LaterOf, FirstOf
<1> QED
  BY <1>1, <1>2, <1>3, <1>4, <1>5, <1>6, Moves
-----------------------------------------------------------------------------
(* What a step can do to the version and the generation of a cohort.        *)
SameRow(c) == c \in Existing /\ pg'[c].version = pg[c].version /\ pg'[c].gen = pg[c].gen
Created(c) == pg[c] = New /\ pg'[c].version = 0 /\ \E refs \in SUBSET Cohorts : Create(c, refs)
Redefined(c) ==
  /\ c \in Existing /\ pg'[c].version = 0 /\ pg'[c].gen = pg[c].gen + 1
  /\ \E e \in edits : e.cohort = c /\ WriteUpdate(e)
Marked(c) ==
  /\ c \in Existing /\ pg'[c].gen = pg[c].gen
  /\ \E j \in jobs : Mark(j) /\ j.step.cohort = c /\ pg'[c].version = j.version /\ pg[c].version < j.version

RowMoves == \A c \in Cohorts :
  /\ c \in Existing' => SameRow(c) \/ Created(c) \/ Redefined(c) \/ Marked(c)
  /\ pg'[c] = New => pg[c] = New

LEMMA RowMovesStep ==
  ASSUME TypeOK, Next
  PROVE  RowMoves
<1>1. pg \in [Cohorts -> Row \cup {New, Gone}]
  BY DEF TypeOK
<1>2. ASSUME pg' = pg PROVE RowMoves
  BY <1>2 DEF RowMoves, SameRow, Existing
<1>3. ASSUME NEW n \in Nat, NEW set, pg' = Errors(n, set) PROVE RowMoves
  <2>1. ASSUME NEW c \in Cohorts, c \in Existing PROVE pg'[c] # New /\ SameRow(c)
    BY <1>3, <2>1, ErrorsFacts, CohortsAssumption DEF SameRow
  <2>2. ASSUME NEW c \in Cohorts, c \notin Existing PROVE pg'[c] = pg[c] /\ c \notin Existing'
    BY <1>3, <2>2, ErrorsFacts DEF Existing
  <2> QED
    BY <2>1, <2>2 DEF RowMoves
<1>4. ASSUME NEW c \in Cohorts, NEW x, pg' = [pg EXCEPT ![c] = x], x # New,
             x # Gone => SameRow(c) \/ Created(c) \/ Redefined(c) \/ Marked(c)
      PROVE  RowMoves
  <2>1. pg'[c] = x /\ \A d \in Cohorts : d # c => pg'[d] = pg[d]
    BY <1>1, <1>4
  <2>2. \A d \in Cohorts : d \in Existing' <=> pg'[d] # New /\ pg'[d] # Gone
    BY DEF Existing
  <2>3. \A d \in Cohorts : d \in Existing <=> pg[d] # New /\ pg[d] # Gone
    BY DEF Existing
  <2>4. ASSUME NEW d \in Cohorts, d # c, d \in Existing' PROVE SameRow(d)
    BY <2>1, <2>2, <2>3, <2>4 DEF SameRow
  <2> QED
    BY <1>4, <2>1, <2>2, <2>4 DEF RowMoves
<1>5. CASE \E r \in Replicas : CycleStep(r) \/ CycleFails(r) \/ Timeout(r) \/ FinalizeFails(r) \/ Crash(r)
  <2>1. pg' = pg \/ \E n \in Nat : \E set : pg' = Errors(n, set)
    BY <1>5 DEF CycleStep, StartCycle, QueueLevel, AbortLevels, DeleteOldVersions, CountCycle, Sweep,
                CycleFails, Timeout, FinalizeFails, Crash
  <2> QED
    BY <1>2, <1>3, <2>1
<1>6. ASSUME NEW j \in jobs, Mark(j) PROVE RowMoves
  <2> DEFINE c == j.step.cohort
             x == [pg[c] EXCEPT !.version = j.version, !.due = FALSE, !.errors = 0, !.held = FALSE]
  <2>1. CASE pg' # pg
    <3>1. c \in Existing /\ pg[c].version < j.version
          /\ pg' = [pg EXCEPT ![c].version = j.version, ![c].due = FALSE, ![c].errors = 0, ![c].held = FALSE]
      BY <1>6, <2>1 DEF Mark
    <3>2. c \in Cohorts /\ pg[c] \in Row /\ j.version \in Nat
      BY <3>1, ExistingFacts, JobFacts
    <3>3. x \in Row /\ x.version = j.version /\ x.gen = pg[c].gen
      <4>1. 0 \in 0..MaxErrors
        BY CohortsAssumption
      <4>2. \A v \in Nat, e \in 0..MaxErrors :
              LET y == [pg[c] EXCEPT !.version = v, !.due = FALSE, !.errors = e, !.held = FALSE]
              IN  y \in Row /\ y.version = v /\ y.gen = pg[c].gen
        BY <3>2 DEF Row
      <4> QED
        BY <3>2, <4>1, <4>2
    <3>4. pg' = [pg EXCEPT ![c] = x]
      BY <1>1, <3>1, <3>2
    <3> HIDE DEF x
    <3>5. x # New /\ pg'[c] = x
      BY <1>1, <3>2, <3>3, <3>4, CohortsAssumption
    <3>6. Marked(c)
      BY <1>6, <3>1, <3>3, <3>5 DEF Marked
    <3> QED
      BY <1>4, <3>2, <3>4, <3>5, <3>6
  <2> QED
    BY <1>2, <2>1
<1>7. CASE JobStep \/ \E j \in jobs : Stall(j)
  <2>1. (\E j \in jobs : Mark(j)) \/ pg' = pg \/ \E set : pg' = Errors(1, set)
    BY <1>7 DEF JobStep, StartJob, ComputeMembership, ComputeFails, Stall
  <2> QED
    BY <1>2, <1>3, <1>6, <2>1
<1>8. CASE Expire
  BY <1>2, <1>8 DEF Expire
<1>9. ASSUME NEW refs \in SUBSET Cohorts, NEW gen \in Nat
      PROVE  Fresh(refs, gen) # New /\ Fresh(refs, gen).version = 0 /\ Fresh(refs, gen).gen = gen
  <2>1. Fresh(refs, gen) \in Row
    BY CohortsAssumption DEF Fresh, Row
  <2> QED
    BY <2>1, CohortsAssumption DEF Fresh
<1>10. CASE \E c \in Cohorts, refs \in SUBSET Cohorts : CheckUpdate(c, refs) \/ Create(c, refs)
  <2>1. ASSUME NEW c \in Cohorts, NEW refs \in SUBSET Cohorts, Create(c, refs) PROVE RowMoves
    <3> DEFINE x == Fresh(refs, 0)
    <3>1. pg' = [pg EXCEPT ![c] = x] /\ pg[c] = New
      BY <2>1 DEF Create
    <3>2. x # New /\ x.version = 0
      BY <1>9
    <3> HIDE DEF x
    <3>3. pg'[c] = x
      BY <1>1, <3>1
    <3> QED
      BY <1>4, <2>1, <3>1, <3>2, <3>3 DEF Created
  <2>2. ASSUME NEW c \in Cohorts, NEW refs \in SUBSET Cohorts, CheckUpdate(c, refs) PROVE RowMoves
    BY <1>2, <2>2 DEF CheckUpdate
  <2> QED
    BY <1>10, <2>1, <2>2
<1>11. ASSUME NEW e \in edits, WriteUpdate(e) PROVE RowMoves
  <2> DEFINE c == e.cohort
             x == Fresh(e.refs, pg[c].gen + 1)
  <2>1. c \in Cohorts /\ e.refs \in SUBSET Cohorts
    BY DEF TypeOK
  <2>2. CASE c \in Existing
    <3>1. pg' = [pg EXCEPT ![c] = x]
      BY <1>11, <2>2 DEF WriteUpdate
    <3>2. pg[c].gen + 1 \in Nat
      BY <2>2, ExistingFacts
    <3>3. x # New /\ x.version = 0 /\ x.gen = pg[c].gen + 1
      BY <1>9, <2>1, <3>2
    <3> HIDE DEF x
    <3>4. pg'[c] = x
      BY <1>1, <2>1, <3>1
    <3>5. Redefined(c)
      BY <1>11, <2>2, <3>3, <3>4 DEF Redefined
    <3> QED
      BY <1>4, <2>1, <3>1, <3>3, <3>5
  <2>3. CASE c \notin Existing
    BY <1>2, <1>11, <2>3 DEF WriteUpdate
  <2> QED
    BY <2>2, <2>3
<1>12. ASSUME NEW c \in Cohorts, Remove(c) PROVE RowMoves
  <2>1. pg' = [pg EXCEPT ![c] = Gone]
    BY <1>12 DEF Remove
  <2> QED
    BY <1>4, <2>1, CohortsAssumption
<1>13. ASSUME NEW c \in Cohorts, GrowStale(c) \/ BackoffEnds(c) PROVE RowMoves
  <2>1. c \in Existing /\ (pg' = [pg EXCEPT ![c].due = TRUE] \/ pg' = [pg EXCEPT ![c].held = FALSE])
    BY <1>13 DEF GrowStale, BackoffEnds, Existing
  <2>2. pg[c] \in Row
    BY <2>1, ExistingFacts
  <2>3. PICK x \in Row : pg' = [pg EXCEPT ![c] = x] /\ x.version = pg[c].version /\ x.gen = pg[c].gen
    <3> DEFINE y == [pg[c] EXCEPT !.due = TRUE]
               z == [pg[c] EXCEPT !.held = FALSE]
    <3>1. pg' = [pg EXCEPT ![c] = y] \/ pg' = [pg EXCEPT ![c] = z]
      BY <1>1, <2>1
    <3>2. /\ y \in Row /\ y.version = pg[c].version /\ y.gen = pg[c].gen
          /\ z \in Row /\ z.version = pg[c].version /\ z.gen = pg[c].gen
      BY <2>2 DEF Row
    <3> HIDE DEF y, z
    <3> QED
      BY <3>1, <3>2
  <2>4. x # New /\ SameRow(c)
    BY <1>1, <2>1, <2>3, CohortsAssumption DEF SameRow
  <2> QED
    BY <1>4, <2>3, <2>4
<1> QED
  BY <1>5, <1>7, <1>8, <1>10, <1>11, <1>12, <1>13 DEF Next
-----------------------------------------------------------------------------
(* Versions.                                                                *)
RowsOrigin ==
  \/ rows' \subseteq rows
  \/ \E j \in jobs, whole \in BOOLEAN : j.pc = "computing" /\ clock' = clock /\ rows' = rows \cup {RowsOf(j, whole)}

LEMMA RowsOriginStep ==
  ASSUME Next
  PROVE  RowsOrigin
BY DEF RowsOrigin, Next, CycleStep, JobStep, StartCycle, QueueLevel, AbortLevels, DeleteOldVersions, CountCycle, Sweep,
       CycleFails, Timeout, FinalizeFails, Crash, StartJob, ComputeMembership, ComputeFails, Mark, Stall,
       Expire, CheckUpdate, Create, WriteUpdate, Remove, GrowStale, BackoffEnds

(* A job of this version that runs did so before, or begins now.            *)
Origin ==
  /\ \A k \in jobs' : k.pc = "queued" <=> k.version = 0
  /\ \A k, l \in jobs' : k.pc # "queued" /\ k.version = l.version => k = l
  /\ \A k \in jobs' : k.pc # "queued" =>
       \/ \E j \in jobs : j.pc # "queued" /\ j.version = k.version /\ j.step = k.step
       \/ k.version = clock + 1 /\ clock' = clock + 1 /\ rows' = rows /\ UNCHANGED pg

LEMMA OriginStep ==
  ASSUME TypeOK, TypeOK', Phases, Once, Versions, Next
  PROVE  Origin
<1>1. ASSUME NEW r \in Replicas, StartCycle(r) PROVE Origin
  BY <1>1, StartFacts DEF Versions, Origin
<1>2. ASSUME NEW r \in Replicas, QueueLevel(r) PROVE Origin
  <2>1. \A k \in jobs' : k \in jobs \/ (k.pc = "queued" /\ k.version = 0)
    BY <1>2, QueueFacts
  <2> QED
    BY <2>1 DEF Versions, Origin
<1>3. ASSUME NEW r \in Replicas, Shrinks(r) PROVE Origin
  <2>1. CASE jobs' = jobs
    BY <2>1 DEF Versions, Origin
  <2>2. CASE jobs' = Detached(r)
    <3>1. \A k \in jobs' : \E j \in jobs : /\ j.step = k.step /\ j.pc = k.pc /\ j.version = k.version
                                          /\ k = IF j.by = r THEN [j EXCEPT !.by = None] ELSE j
      BY <2>2, DetachedFacts
    <3>2. \A k \in jobs' : k.pc = "queued" <=> k.version = 0
      BY <3>1 DEF Versions
    <3>3. ASSUME NEW k \in jobs', NEW l \in jobs', k.pc # "queued", k.version = l.version PROVE k = l
      <4>1. PICK i \in jobs : /\ i.pc = k.pc /\ i.version = k.version
                              /\ k = IF i.by = r THEN [i EXCEPT !.by = None] ELSE i
        BY <3>1
      <4>2. PICK j \in jobs : /\ j.pc = l.pc /\ j.version = l.version
                              /\ l = IF j.by = r THEN [j EXCEPT !.by = None] ELSE j
        BY <3>1
      <4>3. i = j
        BY <3>3, <4>1, <4>2 DEF Versions
      <4> QED
        BY <4>1, <4>2, <4>3
    <3> QED
      BY <3>1, <3>2, <3>3 DEF Origin
  <2> QED
    BY <1>3, <2>1, <2>2 DEF Shrinks
<1>4. ASSUME NEW j \in jobs, NEW success \in BOOLEAN, Returns(j, success) PROVE Origin
  BY <1>4 DEF Versions, Origin, Returns
<1>5. ASSUME NEW j \in jobs, StartJob(j) \/ ComputeMembership(j) \/ Stall(j) PROVE Origin
  <2>1. PICK k \in Job :
           /\ GoesOn(j, k)
           /\ \/ k.pc = "computing" /\ k.version = clock + 1 /\ clock' = clock + 1 /\ rows' = rows
              \/ j.pc = "computing" /\ k.pc = "marking" /\ k.version = j.version
              \/ k.pc = "queued" /\ k.version = 0
    BY <1>5, GoesOnFacts
  <2>2. k.step = j.step /\ jobs' = (jobs \ {j}) \cup {k} /\ UNCHANGED pg
    BY <1>5, <2>1 DEF GoesOn, StartJob, ComputeMembership, Stall
  <2>3. \A i \in jobs : i.version \in Nat /\ i.version <= clock
    BY JobFacts
  <2>4. clock \in Nat
    BY DEF TypeOK
  <2>5. \A i \in jobs : i.version # clock + 1
    BY <2>3, <2>4
  <2>6. CASE k.pc = "computing" /\ k.version = clock + 1 /\ clock' = clock + 1 /\ rows' = rows
    <3>1. k.version # 0
      BY <2>4, <2>6
    <3> QED
      BY <2>2, <2>5, <2>6, <3>1 DEF Versions, Origin
  <2>7. CASE j.pc = "computing" /\ k.pc = "marking" /\ k.version = j.version
    BY <2>2, <2>7 DEF Versions, Origin
  <2>8. CASE k.pc = "queued" /\ k.version = 0
    BY <2>2, <2>8 DEF Versions, Origin
  <2> QED
    BY <2>1, <2>6, <2>7, <2>8
<1>6. ASSUME UNCHANGED <<cycle, jobs>> PROVE Origin
  BY <1>6 DEF Versions, Origin
<1> QED
  BY <1>1, <1>2, <1>3, <1>4, <1>5, <1>6, Moves

LEMMA VersionsStep ==
  ASSUME TypeOK, TypeOK', Phases, Once, Versions, Next
  PROVE  Versions'
<1>1. Origin /\ RowMoves /\ RowsOrigin
  BY OriginStep, RowMovesStep, RowsOriginStep
<1>2. clock \in Nat /\ clock' \in {clock, clock + 1}
  BY DEF TypeOK, Next, CycleStep, JobStep, StartCycle, QueueLevel, AbortLevels, DeleteOldVersions, CountCycle, Sweep,
         CycleFails, Timeout, FinalizeFails, Crash, StartJob, ComputeMembership, ComputeFails, Mark, Stall,
         Expire, CheckUpdate, Create, WriteUpdate, Remove, GrowStale, BackoffEnds
<1>3. \A j \in jobs : j.version \in Nat /\ j.version <= clock
  BY JobFacts
<1>4. \A j \in jobs : \A whole : RowsOf(j, whole).version = j.version /\ RowsOf(j, whole).gen = j.step.gen
  BY DEF RowsOf
<1>5. ASSUME NEW x \in rows' PROVE x.version \in 1..clock'
  <2>1. CASE x \in rows
    <3>1. x.version \in 1..clock
      BY <2>1 DEF Versions
    <3> QED
      BY <1>2, <3>1
  <2>2. CASE x \notin rows
    <3>1. PICK j \in jobs : j.pc = "computing" /\ clock' = clock /\ x.version = j.version
      BY <1>1, <1>4, <2>2 DEF RowsOrigin
    <3>2. j.version # 0
      BY <3>1 DEF Versions
    <3> QED
      BY <1>2, <1>3, <3>1, <3>2
  <2> QED
    BY <2>1, <2>2
<1>6. ASSUME NEW c \in Existing' PROVE pg'[c].version <= clock'
  <2>1. c \in Cohorts
    BY DEF Existing
  <2>2. CASE SameRow(c)
    <3>1. pg[c].version <= clock /\ pg[c].version \in Nat
      BY <2>2, ExistingFacts DEF Versions, SameRow
    <3> QED
      BY <1>2, <2>2, <3>1 DEF SameRow
  <2>3. CASE pg'[c].version = 0
    BY <1>2, <2>3
  <2>4. CASE Marked(c)
    BY <1>2, <1>3, <2>4 DEF Marked
  <2> QED
    BY <1>1, <2>1, <2>2, <2>3, <2>4 DEF RowMoves, Created, Redefined
<1>7. ASSUME NEW r \in Replicas, NEW d \in cycle'[r].done PROVE d.version \in 1..clock'
  <2>1. ASSUME d \in cycle[r].done PROVE d.version \in 1..clock'
    <3>1. d.version \in 1..clock
      BY <2>1 DEF Versions
    <3> QED
      BY <1>2, <3>1
  <2>2. ASSUME NEW j \in jobs, j.pc = "marking", d = Done(j), clock' = clock PROVE d.version \in 1..clock'
    <3>1. d.version = j.version /\ j.version # 0
      BY <2>2 DEF Done, Versions
    <3> QED
      BY <1>2, <1>3, <2>2, <3>1
  <2>3. ASSUME NEW o \in Replicas, StartCycle(o) PROVE d.version \in 1..clock'
    BY <2>1, <2>3, StartFacts
  <2>4. ASSUME NEW o \in Replicas, QueueLevel(o) PROVE d.version \in 1..clock'
    BY <2>1, <2>4, QueueFacts
  <2>5. ASSUME NEW o \in Replicas, Shrinks(o) PROVE d.version \in 1..clock'
    BY <2>1, <2>5, ShrinkFacts
  <2>6. ASSUME NEW j \in jobs, NEW success \in BOOLEAN, Returns(j, success), clock' = clock, success => j.pc = "marking"
        PROVE  d.version \in 1..clock'
    BY <2>1, <2>2, <2>6, ReturnsFacts
  <2>7. ASSUME NEW j \in jobs, StartJob(j) \/ ComputeMembership(j) \/ Stall(j) PROVE d.version \in 1..clock'
    BY <2>1, <2>7, GoesOnMove
  <2> QED
    BY <2>1, <2>3, <2>4, <2>5, <2>6, <2>7, Moves
<1>8. ASSUME NEW k \in jobs', k.pc # "queued", NEW c \in Existing' PROVE pg'[c].version # k.version
  <2>1. c \in Cohorts /\ k.version # 0
    BY <1>1, <1>8 DEF Existing, Origin
  <2>2. CASE SameRow(c)
    <3>1. c \in Existing /\ pg'[c].version = pg[c].version /\ pg[c].version <= clock /\ pg[c].version \in Nat
      BY <2>2, ExistingFacts DEF SameRow, Versions
    <3>2. pg[c].version # clock + 1
      BY <1>2, <3>1
    <3> QED
      BY <1>1, <1>8, <3>1, <3>2 DEF Origin, Versions
  <2>3. CASE Marked(c)
    <3>1. PICK j \in jobs : Mark(j) /\ pg'[c].version = j.version
      BY <2>3 DEF Marked
    <3>2. jobs' = jobs \ {j}
      BY <3>1 DEF Mark, Return
    <3> QED
      BY <1>8, <3>1, <3>2 DEF Versions
  <2>4. CASE pg'[c].version = 0
    BY <2>1, <2>4
  <2> QED
    BY <1>1, <2>1, <2>2, <2>3, <2>4 DEF RowMoves, Created, Redefined
<1>9. ASSUME NEW k \in jobs', NEW x \in rows', x.version = k.version PROVE x.gen = k.step.gen
  <2>1. k.pc # "queued"
    <3>1. x.version # 0
      BY <1>5
    <3> QED
      BY <1>1, <1>9, <3>1 DEF Origin
  <2>2. ASSUME NEW j \in jobs, j.pc # "queued", j.version = k.version, j.step = k.step PROVE x.gen = k.step.gen
    <3>1. CASE x \in rows
      BY <1>9, <2>2, <3>1 DEF Versions
    <3>2. CASE x \notin rows
      <4>1. PICK i \in jobs : x.version = i.version /\ x.gen = i.step.gen
        BY <1>1, <1>4, <3>2 DEF RowsOrigin
      <4>2. i = j
        BY <1>9, <2>2, <4>1 DEF Versions
      <4> QED
        BY <2>2, <4>1, <4>2
    <3> QED
      BY <3>1, <3>2
  <2>3. ASSUME k.version = clock + 1, rows' = rows PROVE FALSE
    <3>1. x.version \in 1..clock
      BY <2>3 DEF Versions
    <3> QED
      BY <1>2, <1>9, <2>3, <3>1
  <2> QED
    BY <1>1, <2>1, <2>2, <2>3 DEF Origin
<1> QED
  BY <1>1, <1>5, <1>6, <1>7, <1>8, <1>9 DEF Versions, Origin
-----------------------------------------------------------------------------
(* Definitions.                                                             *)
LEMMA AllStepsFacts ==
  ASSUME TypeOK
  PROVE  /\ AllSteps \subseteq Step
         /\ \A j \in jobs : j.step \in AllSteps
         /\ \A r \in Replicas : Steps(r) \subseteq AllSteps
         /\ \A s \in AllSteps : (\E j \in jobs : s = j.step) \/ \E r \in Replicas : s \in Steps(r)
<1>1. \A s \in AllSteps : (\E j \in jobs : s = j.step) \/ \E r \in Replicas : s \in Steps(r)
  BY DEF AllSteps
<1>2. (\A j \in jobs : j.step \in AllSteps) /\ \A r \in Replicas : Steps(r) \subseteq AllSteps
  BY DEF AllSteps
<1>3. AllSteps \subseteq Step
  BY <1>1, JobFacts, StepsFacts
<1> QED
  BY <1>1, <1>2, <1>3

LEMMA PlannedFacts ==
  ASSUME TypeOK, NEW these \in SUBSET jobs
  PROVE  \A c : c \in Planned(these) <=> \/ \E j \in these : j.step.cohort = c
                                         \/ \E r \in Replicas : \E s \in Steps(r) : s.cohort = c
<1> DEFINE L == UNION UNION {{cycle[r].levels[i] : i \in DOMAIN cycle[r].levels} : r \in Replicas}
<1>1. \A s : s \in L <=> \E r \in Replicas : s \in Steps(r)
  <2>1. ASSUME NEW s, NEW r \in Replicas, s \in Steps(r) PROVE s \in L
    BY <2>1 DEF Steps
  <2>2. ASSUME NEW s \in L PROVE \E r \in Replicas : s \in Steps(r)
    BY DEF Steps
  <2> QED
    BY <2>1, <2>2
<1>2. Planned(these) = {j.step.cohort : j \in these} \cup {s.cohort : s \in L}
  BY DEF Planned
<1> HIDE DEF L
<1> QED
  BY <1>1, <1>2

StepsOrigin ==
  \/ AllSteps' \subseteq AllSteps
  \/ /\ \E r \in Replicas : StartCycle(r)
     /\ \A s \in AllSteps' : s \in AllSteps \/ (s.cohort \in Existing /\ s = StepOf(s.cohort))

DoneOrigin == \A r \in Replicas : \A d \in cycle'[r].done :
  d \in cycle[r].done \/ \E j \in jobs : j.pc = "marking" /\ d = Done(j) /\ clock' = clock /\ j.by = r

LEMMA OriginsStep ==
  ASSUME TypeOK, TypeOK', Phases, Once, Next
  PROVE  StepsOrigin /\ DoneOrigin
<1>1. /\ \A j \in jobs : j.step \in AllSteps
      /\ \A r \in Replicas : Steps(r) \subseteq AllSteps
      /\ \A s \in AllSteps' : (\E j \in jobs' : s = j.step) \/ \E r \in Replicas : s \in Steps(r)'
  <2>1. \A s \in AllSteps' : (\E j \in jobs' : s = j.step) \/ \E r \in Replicas : s \in Steps(r)'
    BY DEF AllSteps
  <2> QED
    BY <2>1, AllStepsFacts
<1>2. ASSUME NEW r \in Replicas, StartCycle(r) PROVE StepsOrigin /\ DoneOrigin
  <2>1. \A s \in AllSteps' : s \in AllSteps \/ (s.cohort \in Existing /\ s = StepOf(s.cohort))
    BY <1>1, <1>2, StartFacts
  <2>2. DoneOrigin
    BY <1>2, StartFacts DEF DoneOrigin
  <2> QED
    BY <1>2, <2>1, <2>2 DEF StepsOrigin
<1>3. ASSUME NEW r \in Replicas, QueueLevel(r) PROVE StepsOrigin /\ DoneOrigin
  <2>1. \A j \in jobs' : j.step \in AllSteps
    BY <1>1, <1>3, QueueFacts
  <2>2. \A o \in Replicas : Steps(o)' \subseteq AllSteps
    BY <1>1, <1>3, QueueFacts
  <2>3. AllSteps' \subseteq AllSteps
    BY <1>1, <2>1, <2>2
  <2>4. DoneOrigin
    BY <1>3, QueueFacts DEF DoneOrigin
  <2> QED
    BY <2>3, <2>4 DEF StepsOrigin
<1>4. ASSUME NEW r \in Replicas, Shrinks(r) PROVE StepsOrigin /\ DoneOrigin
  <2>1. \A j \in jobs' : j.step \in AllSteps
    BY <1>1, <1>4, DetachedFacts DEF Shrinks
  <2>2. \A o \in Replicas : Steps(o)' \subseteq AllSteps
    BY <1>1, <1>4, ShrinkFacts
  <2>3. AllSteps' \subseteq AllSteps
    BY <1>1, <2>1, <2>2
  <2>4. DoneOrigin
    BY <1>4, ShrinkFacts DEF DoneOrigin
  <2> QED
    BY <2>3, <2>4 DEF StepsOrigin
<1>5. ASSUME NEW j \in jobs, NEW success \in BOOLEAN, Returns(j, success), clock' = clock, success => j.pc = "marking"
      PROVE  StepsOrigin /\ DoneOrigin
  <2>1. jobs' \subseteq jobs /\ \A o \in Replicas : Steps(o)' = Steps(o)
    BY <1>5, ReturnsFacts DEF Returns
  <2>2. AllSteps' \subseteq AllSteps
    BY <1>1, <2>1
  <2>3. DoneOrigin
    BY <1>5, ReturnsFacts DEF DoneOrigin
  <2> QED
    BY <2>2, <2>3 DEF StepsOrigin
<1>6. ASSUME NEW j \in jobs, StartJob(j) \/ ComputeMembership(j) \/ Stall(j) PROVE StepsOrigin /\ DoneOrigin
  <2>1. PICK k \in Job : GoesOn(j, k) /\ (\A i \in jobs' : i = k \/ (i \in jobs /\ i # j))
                         /\ cycle' = cycle /\ \A r \in Replicas : Steps(r)' = Steps(r)
    BY <1>6, GoesOnMove
  <2>2. k.step = j.step
    BY <2>1 DEF GoesOn
  <2>3. AllSteps' \subseteq AllSteps
    BY <1>1, <2>1, <2>2
  <2> QED
    BY <2>1, <2>3 DEF StepsOrigin, DoneOrigin
<1>7. ASSUME UNCHANGED <<cycle, jobs>> PROVE StepsOrigin /\ DoneOrigin
  BY <1>7 DEF StepsOrigin, DoneOrigin, AllSteps, Steps
<1> QED
  BY <1>2, <1>3, <1>4, <1>5, <1>6, <1>7, Moves

LEMMA NewUnusedStep ==
  ASSUME TypeOK, TypeOK', Phases, Once, NewUnused, Next
  PROVE  NewUnused'
<1>1. StepsOrigin /\ DoneOrigin /\ RowMoves
  BY OriginsStep, RowMovesStep
<1> SUFFICES ASSUME NEW c \in Cohorts, pg'[c] = New
             PROVE  /\ \A s \in AllSteps' : s.cohort # c
                    /\ \A r \in Replicas : \A d \in cycle'[r].done : d.cohort # c
  BY DEF NewUnused
<1>2. pg[c] = New /\ c \notin Existing
  BY <1>1 DEF RowMoves, Existing
<1>3. \A s \in AllSteps' : s.cohort # c
  BY <1>1, <1>2 DEF StepsOrigin, NewUnused
<1>4. \A j \in jobs : Done(j).cohort # c
  BY <1>2, JobFacts, AllStepsFacts DEF NewUnused
<1> QED
  BY <1>1, <1>2, <1>3, <1>4 DEF DoneOrigin, NewUnused

(* A cohort leaves the set of overtaken ones when its own definition is     *)
(* marked and no other one waits or runs.                                   *)
LEMMA OvertakenMoves ==
  ASSUME TypeOK, TypeOK', Phases, Once, Next
  PROVE  /\ \A c \in overtaken : c \notin overtaken' =>
              \E j \in jobs : /\ Mark(j) /\ j.step.cohort = c /\ c \in Existing
                              /\ pg[c].gen = j.step.gen /\ pg[c].version < j.version /\ pg'[c].version = j.version
                              /\ \A s \in AllSteps' : s.cohort # c
         /\ \A e \in edits : WriteUpdate(e) => \A s \in AllSteps : s.cohort = e.cohort => e.cohort \in overtaken'
<1>1. ASSUME NEW c \in overtaken, c \notin overtaken'
      PROVE  \E j \in jobs : /\ Mark(j) /\ j.step.cohort = c /\ c \in Existing
                              /\ pg[c].gen = j.step.gen /\ pg[c].version < j.version /\ pg'[c].version = j.version
                              /\ \A s \in AllSteps' : s.cohort # c
  <2>1. PICK j \in jobs : Mark(j)
    BY <1>1 DEF Next, CycleStep, JobStep, StartCycle, QueueLevel, AbortLevels, DeleteOldVersions, CountCycle, Sweep,
           CycleFails, Timeout, FinalizeFails, Crash, StartJob, ComputeMembership, ComputeFails, Stall,
           Expire, CheckUpdate, Create, WriteUpdate, Remove, GrowStale, BackoffEnds
  <2>2. /\ pg' # pg /\ c = j.step.cohort /\ pg[c].gen = j.step.gen /\ c \notin Planned(jobs \ {j})
    BY <1>1, <2>1 DEF Mark
  <2>3. c \in Existing /\ pg[c].version < j.version
        /\ pg' = [pg EXCEPT ![c].version = j.version, ![c].due = FALSE, ![c].errors = 0, ![c].held = FALSE]
    BY <2>1, <2>2 DEF Mark
  <2>4. pg'[c].version = j.version
    <3>1. pg \in [Cohorts -> Row \cup {New, Gone}] /\ c \in Cohorts /\ pg[c] \in Row
      BY <2>3, ExistingFacts DEF TypeOK
    <3>2. [pg[c] EXCEPT !.version = j.version, !.due = FALSE, !.errors = 0, !.held = FALSE].version = j.version
      BY <3>1 DEF Row
    <3>3. pg'[c] = [pg[c] EXCEPT !.version = j.version, !.due = FALSE, !.errors = 0, !.held = FALSE]
      BY <2>3, <3>1
    <3> QED
      BY <3>2, <3>3
  <2>5. Returns(j, TRUE)
    BY <2>1, ReturnEffect DEF Mark
  <2>6. jobs' = jobs \ {j} /\ \A r \in Replicas : Steps(r)' = Steps(r)
    <3>1. jobs' = jobs \ {j} /\ \A r \in Replicas : cycle'[r].levels = cycle[r].levels
      BY <2>5 DEF Returns
    <3> QED
      BY <3>1 DEF Steps
  <2>7. \A s \in AllSteps' : s.cohort # c
    <3>1. \A s \in AllSteps' : (\E i \in jobs' : s = i.step) \/ \E r \in Replicas : s \in Steps(r)'
      BY DEF AllSteps
    <3>2. jobs \ {j} \in SUBSET jobs
      OBVIOUS
    <3> QED
      BY <2>2, <2>6, <3>1, <3>2, PlannedFacts
  <2> QED
    BY <2>1, <2>2, <2>3, <2>4, <2>7
<1>2. ASSUME NEW e \in edits, WriteUpdate(e), NEW s \in AllSteps, s.cohort = e.cohort
      PROVE  e.cohort \in overtaken'
  <2>1. e.cohort \in Planned(jobs)
    BY <1>2, AllStepsFacts, PlannedFacts
  <2> QED
    BY <1>2, <2>1 DEF WriteUpdate
<1> QED
  BY <1>1, <1>2

LEMMA GenerationsStep ==
  ASSUME TypeOK, TypeOK', Phases, Once, NewUnused, Generations, Next
  PROVE  Generations'
<1>1. StepsOrigin /\ RowMoves
  BY OriginsStep, RowMovesStep
<1> SUFFICES ASSUME NEW s \in AllSteps', s.cohort \in Existing'
             PROVE  \/ s.gen = pg'[s.cohort].gen
                    \/ s.gen < pg'[s.cohort].gen /\ s.cohort \in overtaken'
  BY DEF Generations
<1> DEFINE c == s.cohort
<1>2. c \in overtaken => c \in overtaken'
  BY OvertakenMoves
<1>3. c \in Cohorts
  BY DEF Existing
<1>4. CASE s \in AllSteps
  <2>1. pg[c] # New
    BY <1>3, <1>4 DEF NewUnused
  <2>2. c \in Existing
    BY <1>1, <1>3, <2>1 DEF RowMoves, SameRow, Created, Redefined, Marked
  <2>3. \/ s.gen = pg[c].gen
        \/ s.gen < pg[c].gen /\ c \in overtaken
    BY <1>4, <2>2 DEF Generations
  <2>4. CASE pg'[c].gen = pg[c].gen
    BY <1>2, <2>3, <2>4
  <2>5. CASE Redefined(c)
    <3>1. c \in overtaken'
      BY <1>4, <2>5, OvertakenMoves DEF Redefined
    <3>2. pg[c].gen \in Nat /\ s.gen \in Nat
      BY <1>4, <2>2, ExistingFacts, AllStepsFacts DEF Step
    <3> QED
      BY <2>3, <2>5, <3>1, <3>2 DEF Redefined
  <2> QED
    BY <1>1, <1>3, <2>1, <2>4, <2>5 DEF RowMoves, SameRow, Created, Marked
<1>5. CASE s \notin AllSteps
  <2>1. PICK r \in Replicas : StartCycle(r)
    BY <1>1, <1>5 DEF StepsOrigin
  <2>2. c \in Existing /\ s = StepOf(c)
    BY <1>1, <1>5 DEF StepsOrigin
  <2>3. \E set : pg' = Errors(1, set)
    BY <2>1, StartEffect
  <2>4. pg'[c].gen = pg[c].gen
    BY <2>2, <2>3, ErrorsFacts
  <2> QED
    BY <2>2, <2>4 DEF StepOf
<1> QED
  BY <1>4, <1>5

LEMMA RecomputedStep ==
  ASSUME TypeOK, TypeOK', Phases, Once, Versions, Versions', Generations, RecomputedUnlessOvertaken, Next
  PROVE  RecomputedUnlessOvertaken'
<1> SUFFICES ASSUME NEW c \in Existing', c \notin overtaken', NEW x \in rows', x.cohort = c, x.version = pg'[c].version
             PROVE  x.gen = pg'[c].gen
  BY DEF RecomputedUnlessOvertaken, VersionRows
<1>1. RowMoves /\ RowsOrigin
  BY RowMovesStep, RowsOriginStep
<1>2. c \in Cohorts
  BY DEF Existing
<1>3. pg'[c].version # 0
  <2>1. x.version \in 1..clock'
    BY DEF Versions
  <2> QED
    BY <2>1
<1>4. ASSUME NEW j \in jobs, Mark(j), j.step.cohort = c, pg'[c].version = j.version PROVE x.gen = j.step.gen
  <2>1. rows' = rows
    BY <1>4 DEF Mark
  <2> QED
    BY <1>4, <2>1 DEF Versions
<1>5. CASE Marked(c)
  <2>1. PICK j \in jobs : Mark(j) /\ j.step.cohort = c /\ pg'[c].version = j.version
    BY <1>5 DEF Marked
  <2>2. x.gen = j.step.gen
    BY <1>4, <2>1
  <2>3. c \in Existing /\ pg'[c].gen = pg[c].gen /\ pg[c].gen \in Nat /\ j.step.gen \in Nat
    BY <1>5, ExistingFacts, JobFacts DEF Marked
  <2>4. j.step.gen = pg[c].gen \/ (j.step.gen < pg[c].gen /\ c \in overtaken)
    BY <2>1, <2>3, AllStepsFacts DEF Generations
  <2>5. CASE c \in overtaken
    <3>1. PICK i \in jobs : Mark(i) /\ i.step.cohort = c /\ pg[c].gen = i.step.gen /\ pg'[c].version = i.version
      BY <2>5, OvertakenMoves
    <3>2. x.gen = i.step.gen
      BY <1>4, <3>1
    <3> QED
      BY <2>3, <3>1, <3>2
  <2> QED
    BY <2>2, <2>3, <2>4, <2>5
<1>6. CASE SameRow(c)
  <2>1. c \in Existing /\ pg'[c].version = pg[c].version /\ pg'[c].gen = pg[c].gen /\ pg[c].version \in Nat
    BY <1>6, ExistingFacts DEF SameRow
  <2>2. c \notin overtaken
    <3>1. SUFFICES ASSUME c \in overtaken PROVE FALSE
      OBVIOUS
    <3>2. \E j \in jobs : pg[c].version < j.version /\ pg'[c].version = j.version
      BY <3>1, OvertakenMoves
    <3> QED
      BY <2>1, <3>2
  <2>3. x \in rows
    <3>1. SUFFICES ASSUME x \notin rows PROVE FALSE
      OBVIOUS
    <3>2. PICK j \in jobs, whole \in BOOLEAN : j.pc = "computing" /\ x = RowsOf(j, whole)
      BY <1>1, <3>1 DEF RowsOrigin
    <3>3. x.version = j.version
      BY <3>2 DEF RowsOf
    <3> QED
      BY <2>1, <3>2, <3>3 DEF Versions
  <2> QED
    BY <2>1, <2>2, <2>3 DEF RecomputedUnlessOvertaken, VersionRows
<1> QED
  BY <1>1, <1>2, <1>3, <1>5, <1>6 DEF RowMoves, Created, Redefined
-----------------------------------------------------------------------------
(* The lock.                                                                *)
LockMoves ==
  /\ overlapped => overlapped'
  /\ \A o \in Replicas : cycle'[o].pc # "idle" => cycle[o].pc # "idle" \/ StartCycle(o)
  /\ \A o \in Replicas : cycle'[o].pc = "sweep" =>
       \/ cycle[o].pc = "sweep" /\ cycle'[o].ids = cycle[o].ids
       \/ cycle'[o].ids = Existing /\ UNCHANGED pg
  /\ \/ lock' = lock
     \/ \E r \in Replicas : StartCycle(r) /\ lock' = r /\ lock = "free"
     \/ \E r \in Replicas : lock = r /\ cycle'[r].pc = "idle"
     \/ lock = "dead"
     \/ overlapped'

LEMMA LockMovesStep ==
  ASSUME TypeOK, Phases, Next
  PROVE  LockMoves
<1>1. cycle \in [Replicas -> Cycle] /\ Idle.pc = "idle" /\ Idle \in Cycle
  BY IdleCycle DEF TypeOK
<1>2. ASSUME UNCHANGED cycle, lock' = lock, overlapped' = overlapped PROVE LockMoves
  BY <1>2 DEF LockMoves
<1>3. ASSUME NEW r \in Replicas, StartCycle(r) PROVE LockMoves
  <2>1. \A o \in Replicas : o # r => cycle'[o] = cycle[o]
    BY <1>3, StartEffect
  <2>2. cycle'[r].pc = "level" /\ lock' = r /\ lock = "free" /\ overlapped' = overlapped
    BY <1>3, StartEffect DEF StartCycle
  <2> QED
    BY <1>3, <2>1, <2>2 DEF LockMoves
<1>4. ASSUME NEW r \in Replicas, QueueLevel(r) PROVE LockMoves
  <2>1. \A o \in Replicas : o # r => cycle'[o] = cycle[o]
    BY <1>4, QueueEffect
  <2>2. cycle'[r].pc = "level" /\ cycle[r].pc = "level" /\ lock' = lock /\ overlapped' = overlapped
    BY <1>4, QueueEffect DEF QueueLevel, At
  <2> QED
    BY <2>1, <2>2 DEF LockMoves
<1>5. ASSUME NEW r \in Replicas,
             \/ AbortLevels(r) \/ CycleFails(r) \/ DeleteOldVersions(r) \/ Sweep(r) \/ CountCycle(r)
             \/ FinalizeFails(r) \/ Timeout(r) \/ Crash(r)
      PROVE  LockMoves
  <2>1. \A o \in Replicas : o # r => cycle'[o] = cycle[o]
    BY <1>5, ShrinkEffect DEF Shrinks
  <2>2. ASSUME cycle' = [cycle EXCEPT ![r] = Idle], overlapped' = overlapped, lock' \in {lock} \/ lock = r PROVE LockMoves
    <3>1. cycle'[r].pc = "idle"
      BY <1>1, <2>2
    <3> QED
      BY <2>1, <2>2, <3>1 DEF LockMoves
  <2>3. ASSUME cycle[r].pc # "idle", cycle'[r].pc # "sweep", overlapped => overlapped', lock' = lock \/ overlapped' PROVE LockMoves
    BY <2>1, <2>3 DEF LockMoves
  <2>4. CASE AbortLevels(r)
    <3>1. cycle[r].pc = "level" /\ cycle'[r].pc = "level"
      BY <1>1, <2>4 DEF AbortLevels, At
    <3> QED
      BY <2>3, <2>4, <3>1 DEF AbortLevels
  <2>5. CASE CycleFails(r)
    <3>1. cycle[r].pc = "level" /\ cycle'[r].pc = "count"
      BY <1>1, <2>5 DEF CycleFails, At, Idle
    <3> QED
      BY <2>3, <2>5, <3>1 DEF CycleFails
  <2>6. CASE DeleteOldVersions(r)
    <3>1. cycle[r].pc = "level" /\ cycle'[r].pc = "count"
      BY <1>1, <2>6 DEF DeleteOldVersions, At
    <3> QED
      BY <2>3, <2>6, <3>1 DEF DeleteOldVersions
  <2>7. CASE Sweep(r) \/ FinalizeFails(r) \/ Crash(r)
    <3>1. cycle' = [cycle EXCEPT ![r] = Idle] /\ overlapped' = overlapped /\ (lock' = lock \/ lock = r)
      BY <2>7 DEF Sweep, FinalizeFails, Crash, Released
    <3> QED
      BY <2>2, <3>1
  <2>8. CASE CountCycle(r)
    <3>1. CASE Released(r)
      BY <2>2, <2>8, <3>1 DEF Released, CountCycle
    <3>2. CASE ~Released(r)
      <4>1. cycle' = [cycle EXCEPT ![r].pc = "sweep", ![r].ids = Existing] /\ lock' = lock /\ overlapped' = overlapped /\ pg' = pg
            /\ cycle[r].pc = "count"
        BY <2>8, <3>2 DEF CountCycle, At
      <4>2. cycle'[r].ids = Existing
        BY <1>1, <4>1 DEF Cycle
      <4> QED
        BY <2>1, <4>1, <4>2 DEF LockMoves
    <3> QED
      BY <3>1, <3>2
  <2>9. CASE Timeout(r)
    <3>1. cycle[r].waiting # {} /\ cycle[r] \in Cycle
      BY <1>1, <2>9 DEF Timeout
    <3>2. cycle[r].pc = "level"
      BY <1>1, <3>1, IdleCycle DEF TypeOK, Phases, Cycle
    <3>3. cycle'[r].pc = cycle[r].pc
      BY <1>1, <2>9 DEF Timeout
    <3> QED
      BY <2>3, <2>9, <3>2, <3>3 DEF Timeout
  <2> QED
    BY <1>5, <2>4, <2>5, <2>6, <2>7, <2>8, <2>9
<1>6. ASSUME NEW j \in jobs, NEW success \in BOOLEAN, Return(j, success), lock' = lock, overlapped' = overlapped PROVE LockMoves
  <2>1. \A o \in Replicas : cycle'[o].pc = cycle[o].pc /\ cycle'[o].ids = cycle[o].ids
    <3>1. CASE j.by = None
      BY <1>6, <3>1 DEF Return
    <3>2. CASE j.by # None
      <4>1. j.by \in Replicas /\ cycle[j.by] \in Cycle
        BY <1>1, <3>2, JobFacts
      <4>2. \A o \in Replicas : o # j.by => cycle'[o] = cycle[o]
        BY <1>1, <1>6, <3>2 DEF Return
      <4>3. cycle'[j.by].pc = cycle[j.by].pc /\ cycle'[j.by].ids = cycle[j.by].ids
        BY <1>1, <1>6, <3>2, <4>1 DEF Return
      <4> QED
        BY <4>2, <4>3
    <3> QED
      BY <3>1, <3>2
  <2> QED
    BY <1>6, <2>1 DEF LockMoves
<1>7. ASSUME NEW j \in jobs, ComputeFails(j) \/ Mark(j) PROVE LockMoves
  <2>1. (Return(j, FALSE) \/ Return(j, TRUE)) /\ lock' = lock /\ overlapped' = overlapped
    BY <1>7 DEF ComputeFails, Mark
  <2>2. TRUE \in BOOLEAN /\ FALSE \in BOOLEAN
    OBVIOUS
  <2> QED
    BY <1>6, <2>1, <2>2
<1>8. ASSUME NEW j \in jobs, StartJob(j) \/ ComputeMembership(j) \/ Stall(j) PROVE LockMoves
  <2>1. UNCHANGED cycle /\ lock' = lock /\ overlapped' = overlapped
    BY <1>8 DEF StartJob, ComputeMembership, Stall
  <2> QED
    BY <1>2, <2>1
<1>9. CASE Expire
  BY <1>9 DEF Expire, LockMoves
<1>10. ASSUME \/ \E c \in Cohorts, refs \in SUBSET Cohorts : CheckUpdate(c, refs) \/ Create(c, refs)
              \/ \E e \in edits : WriteUpdate(e)
              \/ \E c \in Cohorts : Remove(c) \/ GrowStale(c) \/ BackoffEnds(c)
       PROVE  LockMoves
  <2>1. UNCHANGED cycle /\ lock' = lock /\ overlapped' = overlapped
    BY <1>10 DEF CheckUpdate, Create, WriteUpdate, Remove, GrowStale, BackoffEnds
  <2> QED
    BY <1>2, <2>1
<1>11. CASE \E r \in Replicas : CycleStep(r) \/ CycleFails(r) \/ Timeout(r) \/ FinalizeFails(r) \/ Crash(r)
  BY <1>3, <1>4, <1>5, <1>11 DEF CycleStep
<1>12. CASE JobStep \/ \E j \in jobs : Stall(j)
  BY <1>7, <1>8, <1>12 DEF JobStep
<1> QED
  BY <1>9, <1>10, <1>11, <1>12 DEF Next

LEMMA ExclusiveStep ==
  ASSUME TypeOK, Phases, Exclusive, Next
  PROVE  Exclusive'
<1> SUFFICES ASSUME ~overlapped', NEW r \in Replicas, cycle'[r].pc # "idle"
             PROVE  lock' = r
  BY DEF Exclusive
<1>1. ~overlapped
  BY LockMovesStep DEF LockMoves
<1>2. \A o \in Replicas : cycle[o].pc # "idle" => lock = o
  BY <1>1 DEF Exclusive
<1>3. "free" \notin Replicas /\ "dead" \notin Replicas
  BY CohortsAssumption
<1>4. CASE StartCycle(r)
  BY <1>4 DEF StartCycle
<1>5. CASE cycle[r].pc # "idle"
  <2>1. lock = r
    BY <1>2, <1>5
  <2> QED
    BY <1>3, <2>1, LockMovesStep DEF LockMoves
<1> QED
  BY <1>4, <1>5, LockMovesStep DEF LockMoves
-----------------------------------------------------------------------------
(* Members.                                                                 *)
LEMMA JobsOrigin ==
  ASSUME TypeOK, TypeOK', Phases, Once, Next
  PROVE  \A k \in jobs' :
           /\ (\E j \in jobs : k.step = j.step) \/ \E r \in Replicas : QueueLevel(r) /\ k.step \in Steps(r)
           /\ k.pc = "marking" =>
                \E j \in jobs : /\ j.step = k.step /\ j.version = k.version
                                /\ j.pc = "marking" \/ (j.pc = "computing" /\ rows' = rows \cup {RowsOf(j, TRUE)})
<1>1. ASSUME NEW k \in jobs', k \in jobs
      PROVE  /\ \E j \in jobs : k.step = j.step
             /\ k.pc = "marking" => \E j \in jobs : j.step = k.step /\ j.version = k.version /\ j.pc = "marking"
  BY <1>1
<1> SUFFICES ASSUME NEW k \in jobs', k \notin jobs
             PROVE  /\ (\E j \in jobs : k.step = j.step) \/ \E r \in Replicas : QueueLevel(r) /\ k.step \in Steps(r)
                    /\ k.pc = "marking" =>
                         \E j \in jobs : /\ j.step = k.step /\ j.version = k.version
                                         /\ j.pc = "marking" \/ (j.pc = "computing" /\ rows' = rows \cup {RowsOf(j, TRUE)})
  BY <1>1
<1>2. ASSUME NEW r \in Replicas, QueueLevel(r)
      PROVE  k.pc = "queued" /\ k.step \in Steps(r)
  BY <1>2, QueueFacts
<1>3. ASSUME NEW r \in Replicas, Shrinks(r)
      PROVE  \E j \in jobs : j.step = k.step /\ j.pc = k.pc /\ j.version = k.version
  BY <1>3, DetachedFacts DEF Shrinks
<1>4. ASSUME NEW j \in jobs, StartJob(j) \/ ComputeMembership(j) \/ Stall(j)
      PROVE  /\ k.step = j.step
             /\ k.pc = "marking" => j.version = k.version /\ j.pc = "computing" /\ rows' = rows \cup {RowsOf(j, TRUE)}
  <2>1. PICK i \in Job :
           /\ GoesOn(j, i)
           /\ \/ i.pc = "computing" \/ i.pc = "queued"
              \/ j.pc = "computing" /\ i.version = j.version /\ rows' = rows \cup {RowsOf(j, TRUE)}
    BY <1>4, GoesOnFacts
  <2>2. k = i /\ i.step = j.step
    BY <2>1 DEF GoesOn
  <2> QED
    BY <2>1, <2>2
<1>5. ASSUME NEW r \in Replicas, StartCycle(r) PROVE FALSE
  BY <1>5, StartFacts
<1>6. ASSUME NEW j \in jobs, NEW success \in BOOLEAN, Returns(j, success) PROVE FALSE
  BY <1>6 DEF Returns
<1>7. CASE \E r \in Replicas : QueueLevel(r)
  BY <1>2, <1>7
<1>8. CASE \E r \in Replicas : Shrinks(r)
  BY <1>3, <1>8
<1>9. CASE \E j \in jobs : StartJob(j) \/ ComputeMembership(j) \/ Stall(j)
  BY <1>4, <1>9
<1> QED
  BY <1>5, <1>6, <1>7, <1>8, <1>9, Moves

(* A deletion leaves the newest rows of a cohort that still exists, and the *)
(* sweep those of the cohorts it selected.                                  *)
KeptAfter(c, v) == \E x \in rows' : x.cohort = c /\ x.whole /\ x.version >= v

LEMMA RowsKept ==
  ASSUME TypeOK, Phases, Once, Versions, Kept, ~overlapped, Next,
         NEW c \in Existing, c \in Existing', NEW v \in Nat, KeptFrom(c, v)
  PROVE  KeptAfter(c, v) \/ \E r \in Replicas : cycle[r].pc = "sweep" /\ c \notin cycle[r].ids
<1>1. PICK x \in rows : x.cohort = c /\ x.whole /\ x.version >= v
  BY DEF KeptFrom
<1>2. ASSUME x \in rows' PROVE KeptAfter(c, v)
  BY <1>1, <1>2 DEF KeptAfter
<1>3. ASSUME NEW r \in Replicas, rows' = rows \ Old(cycle[r].done), x \notin rows' PROVE KeptAfter(c, v)
  <2>1. PICK d \in cycle[r].done : d.cohort = c /\ x.version < d.version
    BY <1>1, <1>3 DEF Old
  <2>2. PICK y \in rows : y.cohort = c /\ y.whole /\ y.version >= d.version
    BY <2>1 DEF Kept, KeptFrom
  <2>3. d.version \in Nat /\ x.version \in Nat /\ y.version \in Nat
    <3>1. d.version \in 1..clock /\ x.version \in 1..clock /\ y.version \in 1..clock
      BY DEF Versions
    <3> QED
      BY <3>1 DEF TypeOK
  <2>4. y \notin Old(cycle[r].done)
    <3>1. SUFFICES ASSUME NEW e \in cycle[r].done, e.cohort = c, y.version < e.version PROVE FALSE
      BY <2>2 DEF Old
    <3>2. e = d
      BY <2>1, <3>1 DEF Once
    <3> QED
      BY <2>2, <2>3, <3>1, <3>2
  <2>5. y \in rows' /\ y.version >= v
    BY <1>1, <1>3, <2>1, <2>2, <2>3, <2>4
  <2> QED
    BY <2>2, <2>5 DEF KeptAfter
<1>4. ASSUME NEW r \in Replicas, Sweep(r), x \notin rows' PROVE cycle[r].pc = "sweep" /\ c \notin cycle[r].ids
  BY <1>1, <1>4 DEF Sweep, At
<1>5. ASSUME NEW d \in Cohorts, Remove(d) PROVE x \in rows'
  <2>1. d # c
    BY <1>5 DEF Remove, Existing, TypeOK
  <2> QED
    BY <1>1, <1>5, <2>1 DEF Remove
<1>6. \/ x \in rows'
      \/ \E r \in Replicas : rows' = rows \ Old(cycle[r].done)
      \/ \E r \in Replicas : Sweep(r)
      \/ \E d \in Cohorts : Remove(d)
  BY DEF Next, CycleStep, JobStep, StartCycle, QueueLevel, AbortLevels, DeleteOldVersions, CountCycle,
         CycleFails, Timeout, FinalizeFails, Crash, StartJob, ComputeMembership, ComputeFails, Mark, Stall,
         Expire, CheckUpdate, Create, WriteUpdate, GrowStale, BackoffEnds
<1> QED
  BY <1>2, <1>3, <1>4, <1>5, <1>6

LEMMA KeptStep ==
  ASSUME TypeOK, TypeOK', Phases, Once, Versions, NewUnused, Exclusive, Kept, MembersKept, Next
  PROVE  Kept' /\ MembersKept'
<1> SUFFICES ASSUME ~overlapped'
             PROVE  /\ \A k \in jobs' : k.pc = "marking" /\ k.step.cohort \in Existing' => KeptAfter(k.step.cohort, k.version)
                    /\ \A r \in Replicas : \A d \in cycle'[r].done : d.cohort \in Existing' => KeptAfter(d.cohort, d.version)
                    /\ \A r \in Replicas : cycle'[r].pc = "sweep" => \A c \in Existing' \ cycle'[r].ids :
                         pg'[c].version = 0 /\ \A j \in jobs' : j.step.cohort # c
                    /\ \A c \in Existing' : pg'[c].version # 0 => KeptAfter(c, pg'[c].version)
  BY DEF Kept, MembersKept, KeptFrom, KeptAfter
<1>1. RowMoves /\ LockMoves /\ DoneOrigin /\ RowsOrigin
  BY RowMovesStep, LockMovesStep, OriginsStep, RowsOriginStep
<1>2. ~overlapped
  BY <1>1 DEF LockMoves
<1>3. \A r \in Replicas : cycle[r].pc # "idle" => lock = r
  BY <1>2 DEF Exclusive
<1>4. \A c \in Existing' : c \in Cohorts /\ (c \in Existing \/ pg[c] = New)
  <2>1. \A c \in Existing' : c \in Cohorts
    BY DEF Existing
  <2> QED
    BY <1>1, <2>1 DEF RowMoves, SameRow, Created, Redefined, Marked
<1>5. \A c \in Cohorts : pg[c] = New => \A s \in AllSteps : s.cohort # c
  BY DEF NewUnused
<1>6. ASSUME NEW r \in Replicas, cycle[r].pc = "sweep", NEW c \in Existing, c \notin cycle[r].ids
      PROVE  /\ pg[c].version = 0 /\ \A j \in jobs : j.step.cohort # c
             /\ \A o \in Replicas : cycle[o].done = {}
             /\ \A o \in Replicas : ~QueueLevel(o)
  <2>1. pg[c].version = 0 /\ \A j \in jobs : j.step.cohort # c
    BY <1>2, <1>6 DEF Kept
  <2>2. ASSUME NEW o \in Replicas PROVE cycle[o].done = {} /\ ~QueueLevel(o)
    <3>1. o = r \/ cycle[o].pc = "idle"
      BY <1>3, <1>6
    <3>2. CASE o = r
      BY <1>6, <3>2 DEF Phases, QueueLevel, At
    <3>3. CASE cycle[o].pc = "idle"
      BY <3>3, IdleCycle DEF TypeOK, QueueLevel, At
    <3> QED
      BY <3>1, <3>2, <3>3
  <2> QED
    BY <2>1, <2>2
<1>7. ASSUME NEW c \in Existing', c \in Existing, NEW v \in Nat, KeptFrom(c, v),
             pg[c].version # 0 \/ (\E j \in jobs : j.step.cohort = c) \/ \E o \in Replicas : cycle[o].done # {}
      PROVE  KeptAfter(c, v)
  BY <1>2, <1>6, <1>7, RowsKept
<1>8. ASSUME NEW j \in jobs, j.pc = "marking", j.step.cohort \in Existing'
      PROVE  KeptAfter(j.step.cohort, j.version)
  <2>1. j.step.cohort \in Existing
    BY <1>4, <1>5, <1>8, AllStepsFacts
  <2>2. KeptFrom(j.step.cohort, j.version) /\ j.version \in Nat
    BY <1>2, <1>8, <2>1, JobFacts DEF Kept
  <2> QED
    BY <1>7, <1>8, <2>1, <2>2
<1>9. ASSUME NEW k \in jobs', k.pc = "marking", k.step.cohort \in Existing'
      PROVE  KeptAfter(k.step.cohort, k.version)
  <2>1. PICK j \in jobs : /\ j.step = k.step /\ j.version = k.version
                          /\ j.pc = "marking" \/ (j.pc = "computing" /\ rows' = rows \cup {RowsOf(j, TRUE)})
    BY <1>9, JobsOrigin
  <2>2. CASE j.pc = "marking"
    BY <1>8, <1>9, <2>1, <2>2
  <2>3. CASE rows' = rows \cup {RowsOf(j, TRUE)}
    <3>1. RowsOf(j, TRUE).cohort = k.step.cohort /\ RowsOf(j, TRUE).whole /\ RowsOf(j, TRUE).version = k.version
      BY <2>1 DEF RowsOf
    <3>2. RowsOf(j, TRUE) \in rows' /\ k.version >= k.version
      BY <2>1, <2>3, JobFacts
    <3> QED
      BY <3>1, <3>2 DEF KeptAfter
  <2> QED
    BY <2>1, <2>2, <2>3
<1>10. ASSUME NEW r \in Replicas, NEW d \in cycle'[r].done, d.cohort \in Existing'
       PROVE  KeptAfter(d.cohort, d.version)
  <2>1. CASE d \in cycle[r].done
    <3>1. d.cohort \in Existing
      BY <1>4, <2>1, <1>10 DEF NewUnused
    <3>2. KeptFrom(d.cohort, d.version)
      BY <1>2, <2>1, <3>1 DEF Kept
    <3>3. d.version \in Nat /\ cycle[r].done # {}
      BY <2>1 DEF Versions
    <3> QED
      BY <1>7, <1>10, <3>1, <3>2, <3>3
  <2>2. ASSUME NEW j \in jobs, j.pc = "marking", d = Done(j) PROVE KeptAfter(d.cohort, d.version)
    <3>1. d.cohort = j.step.cohort /\ d.version = j.version
      BY <2>2, JobFacts
    <3> QED
      BY <1>8, <1>10, <2>2, <3>1
  <2> QED
    BY <1>1, <2>1, <2>2 DEF DoneOrigin
<1>11. ASSUME NEW r \in Replicas, cycle'[r].pc = "sweep", NEW c \in Existing', c \notin cycle'[r].ids
       PROVE  pg'[c].version = 0 /\ \A j \in jobs' : j.step.cohort # c
  <2>1. cycle[r].pc = "sweep" /\ cycle'[r].ids = cycle[r].ids
    <3>1. CASE cycle'[r].ids = Existing /\ UNCHANGED pg
      BY <1>11, <3>1 DEF Existing
    <3> QED
      BY <1>1, <1>11, <3>1 DEF LockMoves
  <2>2. CASE c \in Existing
    <3>1. /\ pg[c].version = 0 /\ \A j \in jobs : j.step.cohort # c
          /\ \A o \in Replicas : ~QueueLevel(o)
      BY <1>6, <1>11, <2>1, <2>2
    <3>2. \A j \in jobs' : j.step.cohort # c
      BY <3>1, JobsOrigin
    <3>3. pg'[c].version = 0
      BY <1>1, <1>4, <3>1 DEF RowMoves, SameRow, Created, Redefined, Marked
    <3> QED
      BY <3>2, <3>3
  <2>3. CASE pg[c] = New
    <3>1. pg'[c].version = 0
      BY <1>1, <1>4, <2>3 DEF RowMoves, SameRow, Created, Redefined, Marked, Existing
    <3>2. \A j \in jobs' : j.step \in AllSteps
      BY JobsOrigin, AllStepsFacts
    <3>3. \A j \in jobs' : j.step.cohort # c
      BY <1>4, <1>5, <2>3, <3>2
    <3> QED
      BY <3>1, <3>3
  <2> QED
    BY <1>4, <2>2, <2>3
<1>12. ASSUME NEW c \in Existing', pg'[c].version # 0 PROVE KeptAfter(c, pg'[c].version)
  <2>1. CASE SameRow(c)
    <3>1. c \in Existing /\ pg'[c].version = pg[c].version /\ pg[c].version \in Nat
      BY <2>1, ExistingFacts DEF SameRow
    <3>2. KeptFrom(c, pg[c].version)
      BY <1>2, <1>12, <3>1 DEF MembersKept, KeptFrom
    <3> QED
      BY <1>7, <1>12, <3>1, <3>2
  <2>2. CASE Marked(c)
    <3>1. PICK j \in jobs : Mark(j) /\ j.step.cohort = c /\ pg'[c].version = j.version
      BY <2>2 DEF Marked
    <3>2. KeptAfter(c, j.version)
      BY <1>8, <1>12, <3>1 DEF Mark
    <3> QED
      BY <3>1, <3>2
  <2> QED
    BY <1>1, <1>4, <1>12, <2>1, <2>2 DEF RowMoves, Created, Redefined
<1> QED
  BY <1>9, <1>10, <1>11, <1>12
-----------------------------------------------------------------------------
(* Without a fault.                                                         *)
LEMMA NoFault ==
  ASSUME TypeOK, Phases, Once, Undisturbed, Next, faults' = 0
  PROVE  /\ faults = 0 /\ overlapped' = overlapped
         /\ \A k \in jobs' : k.by # None
         /\ \A r \in Replicas : cycle[r].done \subseteq cycle'[r].done \/ rows' = rows \ Old(cycle[r].done)
         /\ \A j \in jobs : Mark(j) => Done(j) \in cycle'[j.by].done
<1>1. faults = 0 /\ ~Fault
  <2>1. faults' = faults \/ Fault
    BY DEF Next, CycleStep, JobStep, StartCycle, QueueLevel, AbortLevels, DeleteOldVersions, CountCycle, Sweep,
           CycleFails, Timeout, FinalizeFails, Crash, StartJob, ComputeMembership, ComputeFails, Mark, Stall,
           Expire, CheckUpdate, Create, WriteUpdate, Remove, GrowStale, BackoffEnds
  <2>2. ~Fault
    BY DEF Fault, TypeOK
  <2> QED
    BY <2>1, <2>2
<1>2. overlapped' = overlapped
  BY <1>1 DEF Next, CycleStep, JobStep, StartCycle, QueueLevel, AbortLevels, DeleteOldVersions, CountCycle, Sweep,
         CycleFails, Timeout, FinalizeFails, Crash, StartJob, ComputeMembership, ComputeFails, Mark, Stall,
         Expire, CheckUpdate, Create, WriteUpdate, Remove, GrowStale, BackoffEnds
<1>3. \A j \in jobs : j.by # None /\ j.by \in Replicas
  BY <1>1, JobFacts DEF Undisturbed
<1>4. ASSUME NEW j \in jobs, Mark(j) PROVE Done(j) \in cycle'[j.by].done
  <2>1. Returns(j, TRUE)
    BY <1>4, ReturnEffect DEF Mark
  <2> QED
    BY <1>3, <2>1 DEF Returns
<1> DEFINE DoneStays == \A r \in Replicas : cycle[r].done \subseteq cycle'[r].done \/ rows' = rows \ Old(cycle[r].done)
           Awaited == \A k \in jobs' : k.by # None
<1>5. ASSUME NEW r \in Replicas, StartCycle(r) PROVE DoneStays /\ Awaited
  <2>1. cycle[r].done = {} /\ jobs' = jobs
    BY <1>5, IdleCycle DEF StartCycle, At, TypeOK
  <2>2. \A o \in Replicas : o # r => cycle'[o] = cycle[o]
    BY <1>5, StartEffect
  <2> QED
    BY <1>3, <2>1, <2>2
<1>6. ASSUME NEW r \in Replicas, QueueLevel(r) PROVE DoneStays /\ Awaited
  <2>1. \A o \in Replicas : cycle'[o].done = cycle[o].done
    BY <1>6, QueueEffect
  <2>2. r # None /\ \A s : [step |-> s, pc |-> "queued", version |-> 0, by |-> r].by = r
    BY CohortsAssumption
  <2>3. \A k \in jobs' : k.by = r \/ k \in jobs
    BY <1>6, <2>2 DEF QueueLevel
  <2> QED
    BY <1>3, <2>1, <2>2, <2>3
<1>7. ASSUME NEW r \in Replicas, AbortLevels(r) \/ DeleteOldVersions(r) \/ Sweep(r) \/ CountCycle(r)
      PROVE  DoneStays /\ Awaited
  <2>1. Shrinks(r)
    BY <1>7, ShrinkEffect
  <2>2. jobs' = jobs
    BY <1>7 DEF AbortLevels, DeleteOldVersions, Sweep, CountCycle
  <2>3. \A o \in Replicas : o # r => cycle'[o] = cycle[o]
    BY <2>1 DEF Shrinks
  <2>4. cycle[r].done \subseteq cycle'[r].done \/ rows' = rows \ Old(cycle[r].done)
    <3>1. CASE AbortLevels(r)
      <4>1. cycle[r] \in Cycle /\ cycle' = [cycle EXCEPT ![r].levels = <<>>]
        BY <3>1 DEF AbortLevels, TypeOK
      <4>2. cycle'[r].done = cycle[r].done
        BY <4>1 DEF TypeOK, Cycle
      <4> QED
        BY <4>2
    <3>2. CASE DeleteOldVersions(r)
      BY <1>1, <3>2 DEF DeleteOldVersions
    <3>3. CASE Sweep(r) \/ CountCycle(r)
      BY <3>3 DEF Sweep, CountCycle, At, Phases
    <3> QED
      BY <1>7, <3>1, <3>2, <3>3
  <2> QED
    BY <1>3, <2>2, <2>3, <2>4
<1>8. ASSUME NEW j \in jobs, NEW success \in BOOLEAN, Returns(j, success) PROVE DoneStays /\ Awaited
  <2>1. \A o \in Replicas : cycle[o].done \subseteq cycle'[o].done
    BY <1>8, ReturnsFacts
  <2> QED
    BY <1>3, <1>8, <2>1 DEF Returns
<1>9. ASSUME NEW j \in jobs, StartJob(j) \/ ComputeMembership(j) \/ Stall(j) PROVE DoneStays /\ Awaited
  <2>1. PICK k \in Job : GoesOn(j, k) /\ (\A i \in jobs' : i = k \/ (i \in jobs /\ i # j)) /\ cycle' = cycle
    BY <1>9, GoesOnMove
  <2> QED
    BY <1>3, <2>1 DEF GoesOn
<1>10. ASSUME UNCHANGED <<cycle, jobs>> PROVE DoneStays /\ Awaited
  BY <1>3, <1>10
<1>11. ASSUME NEW r \in Replicas, CycleFails(r) \/ Timeout(r) \/ FinalizeFails(r) \/ Crash(r) PROVE FALSE
  BY <1>1, <1>11 DEF CycleFails, Timeout, FinalizeFails, Crash
<1> HIDE DEF DoneStays, Awaited
<1>12. ASSUME NEW r \in Replicas, CycleStep(r) PROVE DoneStays /\ Awaited
  BY <1>5, <1>6, <1>7, <1>12 DEF CycleStep
<1>13. ASSUME JobStep \/ \E j \in jobs : Stall(j) PROVE DoneStays /\ Awaited
  <2>1. ASSUME NEW j \in jobs, ComputeFails(j) \/ Mark(j) PROVE DoneStays /\ Awaited
    <3>1. Returns(j, FALSE) \/ Returns(j, TRUE)
      BY <2>1, ReturnEffect DEF ComputeFails, Mark
    <3> QED
      BY <1>8, <3>1
  <2> QED
    BY <1>9, <1>13, <2>1 DEF JobStep
<1>14. ASSUME \/ Expire
              \/ \E c \in Cohorts, refs \in SUBSET Cohorts : CheckUpdate(c, refs) \/ Create(c, refs)
              \/ \E e \in edits : WriteUpdate(e)
              \/ \E c \in Cohorts : Remove(c) \/ GrowStale(c) \/ BackoffEnds(c)
       PROVE  UNCHANGED <<cycle, jobs>>
  BY <1>14 DEF Expire, CheckUpdate, Create, WriteUpdate, Remove, GrowStale, BackoffEnds
<1>15. DoneStays /\ Awaited
  BY <1>10, <1>11, <1>12, <1>13, <1>14 DEF Next
<1> QED
  BY <1>1, <1>2, <1>4, <1>15 DEF DoneStays, Awaited

(* Without a fault only the holder of the lock awaits jobs, each of another *)
(* cohort.                                                                  *)
LEMMA OneJob ==
  ASSUME TypeOK, Phases, Once, Exclusive, Undisturbed, faults = 0,
         NEW j \in jobs, NEW k \in jobs, j.step.cohort = k.step.cohort
  PROVE  j = k
<1>1. ASSUME NEW i \in jobs PROVE i.by \in Replicas /\ lock = i.by
  <2>1. i.by \in Replicas
    BY JobFacts DEF Undisturbed
  <2>2. cycle[i.by].waiting # {}
    BY <2>1, WaitingFacts
  <2>3. cycle[i.by].pc # "idle"
    BY <2>1, <2>2, IdleCycle DEF TypeOK
  <2>4. ~overlapped
    BY DEF Undisturbed, TypeOK
  <2> QED
    BY <2>1, <2>3, <2>4 DEF Exclusive
<1> QED
  BY <1>1 DEF Once

LEMMA UndisturbedStep ==
  ASSUME TypeOK, TypeOK', Phases, Once, Versions, NewUnused, Exclusive, Undisturbed, Next
  PROVE  Undisturbed'
<1>1. overlapped' => faults' > 0
  <2>1. faults' \in Nat
    BY CohortsAssumption DEF TypeOK
  <2>2. CASE faults' = 0
    BY <2>2, NoFault DEF Undisturbed
  <2> QED
    BY <2>1, <2>2
<1>2. ASSUME faults' = 0, NEW k \in jobs'
      PROVE  /\ k.by # None
             /\ k.pc # "queued" /\ k.step.cohort \in Existing' => pg'[k.step.cohort].version < k.version
  <2>1. k.by # None /\ faults = 0
    BY <1>2, NoFault
  <2> DEFINE c == k.step.cohort
  <2>2. ASSUME k.pc # "queued", c \in Existing' PROVE pg'[c].version < k.version
    <3>1. Origin /\ RowMoves /\ c \in Cohorts
      BY <2>2, OriginStep, RowMovesStep DEF Existing
    <3>2. k.version > 0
      <4>1. k.version \in Nat
        BY DEF TypeOK, Job
      <4> QED
        BY <2>2, <3>1, <4>1 DEF Origin
    <3>3. CASE pg'[c].version = 0
      BY <3>2, <3>3
    <3>4. CASE SameRow(c)
      <4>1. c \in Existing /\ pg'[c].version = pg[c].version /\ pg[c].version <= clock /\ pg[c].version \in Nat /\ clock \in Nat
        BY <3>4, ExistingFacts DEF SameRow, Versions, TypeOK
      <4>2. CASE k.version = clock + 1
        BY <4>1, <4>2
      <4>3. ASSUME NEW j \in jobs, j.pc # "queued", j.version = k.version, j.step = k.step PROVE pg'[c].version < k.version
        BY <2>1, <4>1, <4>3 DEF Undisturbed
      <4> QED
        BY <2>2, <3>1, <4>2, <4>3 DEF Origin
    <3>5. CASE Marked(c)
      <4>1. PICK j \in jobs : Mark(j) /\ j.step.cohort = c
        BY <3>5 DEF Marked
      <4>2. k \in jobs /\ k # j
        BY <4>1 DEF Mark, Return
      <4> QED
        BY <2>1, <4>1, <4>2, OneJob
    <3> QED
      BY <3>1, <2>2, <3>3, <3>4, <3>5 DEF RowMoves, Created, Redefined
  <2> QED
    BY <2>1, <2>2
<1> QED
  BY <1>1, <1>2 DEF Undisturbed

LEMMA OldRowsStep ==
  ASSUME TypeOK, TypeOK', Phases, Once, Versions, Versions', Undisturbed, OldRowsAwaitDeletion, Next
  PROVE  OldRowsAwaitDeletion'
<1> SUFFICES ASSUME faults' = 0, NEW c \in Existing', NEW x \in rows', x.cohort = c, x.version < pg'[c].version
             PROVE  \E r \in Replicas : \E d \in cycle'[r].done : d.cohort = c /\ x.version < d.version
  BY DEF OldRowsAwaitDeletion, Old
<1>1. RowMoves /\ RowsOrigin /\ c \in Cohorts
  BY RowMovesStep, RowsOriginStep DEF Existing
<1>2. x.version \in Nat /\ faults = 0
  BY NoFault DEF Versions
<1>3. CASE pg'[c].version = 0
  BY <1>2, <1>3
<1>4. CASE Marked(c)
  <2>1. PICK j \in jobs : Mark(j) /\ j.step.cohort = c /\ pg'[c].version = j.version
    BY <1>4 DEF Marked
  <2>2. Done(j) \in cycle'[j.by].done /\ j.by \in Replicas
    BY <1>2, <2>1, NoFault, JobFacts DEF Undisturbed
  <2>3. Done(j).cohort = c /\ Done(j).version = pg'[c].version
    BY <2>1, JobFacts
  <2> QED
    BY <2>2, <2>3
<1>5. CASE SameRow(c)
  <2>1. c \in Existing /\ pg'[c].version = pg[c].version /\ pg[c].version \in Nat
    BY <1>5, ExistingFacts DEF SameRow
  <2>2. x \in rows
    <3>1. SUFFICES ASSUME x \notin rows PROVE FALSE
      OBVIOUS
    <3>2. PICK j \in jobs, whole \in BOOLEAN : j.pc = "computing" /\ x = RowsOf(j, whole)
      BY <1>1, <3>1 DEF RowsOrigin
    <3>3. x.version = j.version /\ j.step.cohort = c
      BY <3>2 DEF RowsOf
    <3>4. pg[c].version < j.version
      BY <1>2, <2>1, <3>2, <3>3 DEF Undisturbed
    <3> QED
      BY <1>2, <2>1, <3>3, <3>4
  <2>3. PICK r \in Replicas : x \in Old(cycle[r].done)
    BY <1>2, <2>1, <2>2 DEF OldRowsAwaitDeletion
  <2>4. PICK d \in cycle[r].done : d.cohort = c /\ x.version < d.version
    BY <2>3 DEF Old
  <2>5. d \in cycle'[r].done
    BY <2>3, <2>4, NoFault
  <2> QED
    BY <2>4, <2>5
<1> QED
  BY <1>1, <1>3, <1>4, <1>5 DEF RowMoves, Created, Redefined
-----------------------------------------------------------------------------
(* The inductive invariant.                                                 *)
IInv ==
  /\ TypeOK /\ Phases /\ Once /\ Versions
  /\ Generations /\ NewUnused /\ RecomputedUnlessOvertaken
  /\ Exclusive /\ Kept /\ MembersKept
  /\ Ordered /\ DependenciesFirst
  /\ Undisturbed /\ OldRowsAwaitDeletion

LEMMA Start == Init => IInv
<1> SUFFICES ASSUME Init PROVE IInv
  OBVIOUS
<1>0. PICK defined \in SUBSET Cohorts : \E refs \in [defined -> SUBSET defined] :
         pg = [c \in Cohorts |-> IF c \in defined THEN Fresh(refs[c], 0) ELSE New]
  BY DEF Init
<1>1. PICK refs \in [defined -> SUBSET defined] :
         pg = [c \in Cohorts |-> IF c \in defined THEN Fresh(refs[c], 0) ELSE New]
  BY <1>0
<1>2. \A r \in Replicas : cycle[r] = Idle
  BY DEF Init
<1>3. jobs = {} /\ rows = {} /\ faults = 0 /\ overlapped = FALSE /\ clock = 0
  BY DEF Init
<1>4. \A c \in defined : Fresh(refs[c], 0) \in Row /\ Fresh(refs[c], 0).version = 0
  <2>1. \A c \in defined : refs[c] \in SUBSET Cohorts
    OBVIOUS
  <2> QED
    BY <2>1, CohortsAssumption DEF Fresh, Row
<1>5. pg \in [Cohorts -> Row \cup {New, Gone}] /\ \A c \in Existing : pg[c].version = 0
  BY <1>1, <1>4 DEF Existing
<1>6. TypeOK
  <2>1. cycle \in [Replicas -> Cycle]
    BY IdleCycle DEF Init
  <2>2. \A r \in Replicas : cycle[r].waiting = {j.step.cohort : j \in {k \in jobs : k.by = r}}
    BY <1>2, <1>3, IdleCycle
  <2> QED
    <3>1. 0 \in 0..(GcEvery - 1) /\ 0 \in 0..MaxChanges /\ 0 \in 0..MaxFaults /\ 0 \in Nat
      BY CohortsAssumption
    <3>2. lock = "free" /\ count = 0 /\ edits = {} /\ changes = 0 /\ overtaken = {}
      BY DEF Init
    <3> QED
      BY <1>2, <1>3, <1>5, <2>1, <2>2, <3>1, <3>2 DEF TypeOK
<1>7. /\ \A r \in Replicas : Steps(r) = {} /\ cycle[r].done = {} /\ cycle[r].levels = <<>> /\ cycle[r].pc = "idle"
      /\ AllSteps = {}
  <2>1. \A r \in Replicas : Steps(r) = {} /\ cycle[r].done = {} /\ cycle[r].levels = <<>> /\ cycle[r].pc = "idle"
    BY <1>2, <1>6, IdleCycle, StepsFacts
  <2> QED
    BY <1>3, <2>1 DEF AllSteps
<1>8. Phases /\ Once /\ Ordered /\ DependenciesFirst
  BY <1>3, <1>7 DEF Phases, Once, Ordered, DependenciesFirst
<1>9. Versions /\ Generations /\ NewUnused
  BY <1>3, <1>5, <1>7 DEF Versions, Generations, NewUnused
<1>10. RecomputedUnlessOvertaken /\ MembersKept /\ OldRowsAwaitDeletion
  BY <1>3, <1>5 DEF RecomputedUnlessOvertaken, VersionRows, MembersKept, OldRowsAwaitDeletion
<1>11. Exclusive /\ Kept /\ Undisturbed
  BY <1>3, <1>7 DEF Exclusive, Kept, Undisturbed
<1> QED
  BY <1>6, <1>8, <1>9, <1>10, <1>11 DEF IInv

LEMMA Inductive == IInv /\ [Next]_vars => IInv'
<1> SUFFICES ASSUME IInv, [Next]_vars PROVE IInv'
  OBVIOUS
<1>1. CASE Next
  <2>1. /\ TypeOK /\ Phases /\ Once /\ Versions /\ Generations /\ NewUnused /\ RecomputedUnlessOvertaken
        /\ Exclusive /\ Kept /\ MembersKept /\ Ordered /\ DependenciesFirst /\ Undisturbed /\ OldRowsAwaitDeletion
    BY DEF IInv
  <2>2. TypeOK' /\ Phases'
    BY <1>1, <2>1, TypesStep
  <2>3. Once' /\ Versions'
    BY <1>1, <2>1, <2>2, OnceStep, VersionsStep
  <2>4. Generations' /\ NewUnused'
    BY <1>1, <2>1, <2>2, GenerationsStep, NewUnusedStep
  <2>5. RecomputedUnlessOvertaken'
    BY <1>1, <2>1, <2>2, <2>3, RecomputedStep
  <2>6. Exclusive'
    BY <1>1, <2>1, ExclusiveStep
  <2>7. Kept' /\ MembersKept'
    BY <1>1, <2>1, <2>2, KeptStep
  <2>8. Ordered' /\ DependenciesFirst'
    BY <1>1, <2>1, <2>2, OrderedStep
  <2>9. Undisturbed'
    BY <1>1, <2>1, <2>2, UndisturbedStep
  <2>10. OldRowsAwaitDeletion'
    BY <1>1, <2>1, <2>2, <2>3, OldRowsStep
  <2> QED
    BY <2>2, <2>3, <2>4, <2>5, <2>6, <2>7, <2>8, <2>9, <2>10 DEF IInv
<1>2. CASE UNCHANGED vars
  <2>1. TypeOK'
    BY <1>2 DEF IInv, TypeOK, vars
  <2>2. Phases' /\ Once' /\ Ordered' /\ DependenciesFirst'
    BY <1>2 DEF IInv, Phases, Once, Ordered, DependenciesFirst, Steps, vars
  <2>3. Versions' /\ Generations' /\ NewUnused'
    BY <1>2 DEF IInv, Versions, Generations, NewUnused, AllSteps, Steps, Existing, vars
  <2>4. RecomputedUnlessOvertaken' /\ Exclusive' /\ Kept' /\ MembersKept'
    BY <1>2 DEF IInv, RecomputedUnlessOvertaken, VersionRows, Exclusive, Kept, KeptFrom, MembersKept, Existing, vars
  <2>5. Undisturbed' /\ OldRowsAwaitDeletion'
    BY <1>2 DEF IInv, Undisturbed, OldRowsAwaitDeletion, Old, Existing, vars
  <2> QED
    BY <2>1, <2>2, <2>3, <2>4, <2>5 DEF IInv
<1> QED
  BY <1>1, <1>2

LEMMA Invariant == Spec => []IInv
  BY Start, Inductive, PTL DEF Spec

(* Types, and: a cycle waits for exactly the cohorts of its own jobs.       *)
THEOREM CohortTypes == Spec => []TypeOK
<1>1. IInv => TypeOK
  BY DEF IInv
<1> QED
  BY <1>1, Invariant, PTL

(* However updates, cycles, jobs and faults interleave, a membership version*)
(* is of the definition that its cohort has, except in the window that      *)
(* overtaken describes (cohorts.service.ts, update).                        *)
THEOREM RecomputedAfterRedefinition == Spec => []RecomputedUnlessOvertaken
<1>1. IInv => RecomputedUnlessOvertaken
  BY DEF IInv
<1> QED
  BY <1>1, Invariant, PTL

(* Neither the deletion of old versions nor the sweep of orphans takes the  *)
(* last complete membership of a cohort (deleteOldVersions,                 *)
(* gcOrphanedMemberships), while no cycle outlives its lock.                *)
THEOREM DeletionsKeepMembers == Spec => []MembersKept
<1>1. IInv => MembersKept
  BY DEF IInv
<1> QED
  BY <1>1, Invariant, PTL

(* The levels of topologicalSortCohorts do what they are for, whatever the  *)
(* references, and whatever happens to the jobs between them.               *)
THEOREM DependenciesComputedFirst == Spec => []DependenciesFirst
<1>1. IInv => DependenciesFirst
  BY DEF IInv
<1> QED
  BY <1>1, Invariant, PTL

(* Without a fault, rows of an old version are in the deletion of a cycle.  *)
THEOREM OldRowsDeleted == Spec => []OldRowsAwaitDeletion
<1>1. IInv => OldRowsAwaitDeletion
  BY DEF IInv
<1> QED
  BY <1>1, Invariant, PTL

(* What a cycle takes up, and whether references of a cohort end within it. *)
Eligible == {c \in Existing : pg[c].due /\ pg[c].errors < MaxErrors /\ ~pg[c].held}
Cyclic(set, c) == \A n \in Nat : Chain(set, c, n)

(* A cycle records an error (recordCyclicErrors) for every cohort it took   *)
(* up whose references never end, and for no other: all others are queued,  *)
(* the ones that refer into a cycle are held back with those on it.         *)
CyclesFail == \A r \in Replicas : StartCycle(r) => \A c \in Existing :
  /\ pg'[c] # pg[c] <=> c \in Eligible /\ Cyclic(Eligible, c)
  /\ c \in Eligible /\ pg'[c] = pg[c] =>
       \E i \in DOMAIN cycle'[r].levels : StepOf(c) \in cycle'[r].levels[i]

(* A cycle leaves out, with an error, exactly the cohorts whose references *)
(* never end (topologicalSortCohorts, recordCyclicErrors).                  *)
THEOREM ErrorsForCyclesOnly == Spec => [][CyclesFail]_vars
<1>1. ASSUME IInv, NEW r \in Replicas, StartCycle(r), NEW c \in Existing
      PROVE  /\ pg'[c] # pg[c] <=> c \in Eligible /\ Cyclic(Eligible, c)
             /\ c \in Eligible /\ pg'[c] = pg[c] =>
                  \E i \in DOMAIN cycle'[r].levels : StepOf(c) \in cycle'[r].levels[i]
  <2> DEFINE levels == Levels(Eligible)
             sorted == {s.cohort : s \in UNION {levels[i] : i \in DOMAIN levels}}
  <2>1. /\ pg' = Errors(1, Eligible \ sorted)
        /\ cycle' = [cycle EXCEPT ![r] = [Idle EXCEPT !.pc = "level", !.levels = levels]]
    BY <1>1 DEF StartCycle, Eligible
  <2>2. TypeOK /\ Eligible \in SUBSET Existing
    BY <1>1 DEF IInv, Eligible
  <2>3. \A i \in DOMAIN levels : \A s \in levels[i] : \E d \in Eligible : s = StepOf(d)
    BY <2>2, LevelsFacts
  <2>4. cycle'[r].levels = levels
    BY <2>1, <2>2 DEF TypeOK, Cycle, Idle
  <2>5. c \in sorted <=> \E i \in DOMAIN levels : StepOf(c) \in levels[i]
    <3>1. ASSUME NEW i \in DOMAIN levels, StepOf(c) \in levels[i] PROVE c \in sorted
      BY <3>1 DEF StepOf
    <3>2. ASSUME c \in sorted PROVE \E i \in DOMAIN levels : StepOf(c) \in levels[i]
      <4>1. PICK i \in DOMAIN levels : \E s \in levels[i] : s.cohort = c
        BY <3>2
      <4>2. PICK s \in levels[i] : s.cohort = c
        BY <4>1
      <4>3. s = StepOf(c)
        BY <2>3, <4>2 DEF StepOf
      <4> QED
        BY <4>2, <4>3
    <3> QED
      BY <3>1, <3>2
  <2>6. c \in Eligible => (c \in sorted <=> ~Cyclic(Eligible, c))
    <3> HIDE DEF sorted
    <3> QED
      BY <2>2, <2>5, SortedUnlessCyclic DEF Cyclic
  <2>7. pg'[c] # pg[c] <=> c \in Eligible \ sorted
    <3> HIDE DEF sorted
    <3>1. c \in Cohorts /\ pg[c] \in Row
      BY <2>2, ExistingFacts
    <3> DEFINE e == IF pg[c].errors + 1 < MaxErrors THEN pg[c].errors + 1 ELSE MaxErrors
    <3>4. pg'[c] = IF c \in (Eligible \ sorted) \cap Existing THEN [pg[c] EXCEPT !.errors = e, !.held = TRUE] ELSE pg[c]
      <4>1. \A set : Errors(1, set)[c] = IF c \in set \cap Existing THEN [pg[c] EXCEPT !.errors = e, !.held = TRUE] ELSE pg[c]
        BY <3>1 DEF Errors
      <4> HIDE DEF e
      <4> QED
        BY <2>1, <4>1
    <3> HIDE DEF e
    <3>2. CASE c \in Eligible \ sorted
      <4>2. pg'[c].held = TRUE /\ pg[c].held = FALSE
        BY <3>1, <3>2, <3>4 DEF Row, Eligible
      <4> QED
        BY <3>2, <4>2
    <3>3. CASE c \notin Eligible \ sorted
      BY <3>3, <3>4
    <3> QED
      BY <3>2, <3>3
  <2> HIDE DEF levels, sorted
  <2> QED
    BY <2>4, <2>5, <2>6, <2>7
<1>2. IInv => CyclesFail
  BY <1>1 DEF CyclesFail
<1> QED
  BY <1>2, Invariant, PTL
=============================================================================
