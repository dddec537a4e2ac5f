------------------------------ MODULE Cohorts ------------------------------
(***************************************************************************)
(* Materialized cohorts: the cycles of the cohort-worker's replicas under  *)
(* their lock, the compute jobs that they queue and the API calls that     *)
(* change cohorts meanwhile.                                               *)
(*                                                                         *)
(* A definition is the set of cohorts that it refers to and a generation.  *)
(* The members of a cohort in ClickHouse are the versions that have rows   *)
(* there: every reader takes the rows of all versions, as none asks for    *)
(* one.  Time is an order only: a cohort is due when its membership is     *)
(* older than the threshold, and held while its error backoff lasts.  The  *)
(* clock ticks at each Date.now() that becomes a version.  Jobs that nobody *)
(* awaits and that would do the same count once; the size history, which   *)
(* nothing here reads, is left out.                                        *)
(***************************************************************************)
EXTENDS Naturals, Sequences, FiniteSets

CONSTANTS
  Cohorts,     \* ids of dynamic cohorts
  Replicas,    \* of the cohort-worker
  None, New, Gone,  \* no replica; no row yet, no row any more
  MaxErrors,   \* COHORT_MAX_ERRORS
  GcEvery,     \* COHORT_GC_EVERY_N_CYCLES
  MaxChanges,  \* bound: calls of the API, and memberships that grow stale
  MaxFaults    \* bound: failing statements, crashes, stalls and timeouts

Row == [refs : SUBSET Cohorts, gen : Nat, version : Nat, due : BOOLEAN, errors : 0..MaxErrors, held : BOOLEAN]

ASSUME CohortsAssumption ==
  /\ IsFiniteSet(Cohorts) /\ None \notin Replicas
  /\ New # Gone /\ New \notin Row /\ Gone \notin Row
  /\ {"free", "dead"} \cap Replicas = {}
  /\ MaxErrors \in Nat \ {0} /\ GcEvery \in Nat \ {0}
  /\ MaxChanges \in Nat /\ MaxFaults \in Nat

VARIABLES
  pg,         \* the rows of cohorts, New before and Gone after
  rows,       \* cohort_members in ClickHouse, by version
  lock,       \* cohort_membership:lock: free, of a replica's cycle, or of one that is dead
  count,      \* cohort_membership:gc_cycle_count, modulo GcEvery
  cycle,      \* runCycle of each replica
  jobs,       \* jobs of the queue cohort-compute that have not finished
  clock,
  edits,      \* updates between the check for cycles and the UPDATE
  changes, faults,
  overtaken,  \* history: cohorts redefined while an older definition waited or ran
  overlapped  \* history: a cycle went on without the lock

vars == <<pg, rows, lock, count, cycle, jobs, clock, edits, changes, faults, overtaken, overlapped>>

Step == [cohort : Cohorts, refs : SUBSET Cohorts, gen : Nat]
Idle == [pc |-> "idle", levels |-> <<>>, waiting |-> {}, done |-> {}, ids |-> {}]

Cycle == [pc : {"idle", "level", "count", "sweep"}, levels : Seq(SUBSET Step), waiting : SUBSET Cohorts,
          done : SUBSET [cohort : Cohorts, refs : SUBSET Cohorts, version : Nat], ids : SUBSET Cohorts]
Job == [step : Step, pc : {"queued", "computing", "marking"}, version : Nat, by : Replicas \cup {None}]

(* The maps keep their types, and results are awaited by the cycle that     *)
(* queued their jobs.                                                       *)
TypeOK ==
  /\ pg \in [Cohorts -> Row \cup {New, Gone}]
  /\ rows \subseteq [cohort : Cohorts, version : Nat, gen : Nat, whole : BOOLEAN]
  /\ lock \in Replicas \cup {"free", "dead"}
  /\ count \in 0..(GcEvery - 1)
  /\ cycle \in [Replicas -> Cycle]
  /\ \A r \in Replicas :
       /\ cycle[r].waiting = {j.step.cohort : j \in {k \in jobs : k.by = r}}
       /\ cycle[r].pc = "idle" => cycle[r] = Idle
  /\ jobs \subseteq Job /\ clock \in Nat
  /\ \A j \in jobs : j.version <= clock
  /\ edits \subseteq [cohort : Cohorts, refs : SUBSET Cohorts]
  /\ changes \in 0..MaxChanges /\ faults \in 0..MaxFaults
  /\ overtaken \subseteq Cohorts /\ overlapped \in BOOLEAN
-----------------------------------------------------------------------------
Existing == {c \in Cohorts : pg[c] \notin {New, Gone}}
Fresh(refs, gen) ==
  [refs |-> refs, gen |-> gen, version |-> 0, due |-> TRUE, errors |-> 0, held |-> FALSE]

(* detectCircularDependency: the definition refs of c refers back to c or   *)
(* into a cycle; a reference to a cohort that is gone leads nowhere.        *)
RefsOf(c) == IF c \in Existing THEN pg[c].refs ELSE {}
Reach(from) ==
  LET R[n \in 0..Cardinality(Cohorts)] ==
        IF n = 0 THEN from ELSE R[n - 1] \cup UNION {RefsOf(d) : d \in R[n - 1]}
  IN  R[Cardinality(Cohorts)]
Circular(c, refs) == c \in Reach(refs) \/ \E d \in Reach(refs) : d \in Reach(RefsOf(d))

StepOf(c) == [cohort |-> c, refs |-> pg[c].refs, gen |-> pg[c].gen]

FlatLevels(set) ==  \* bug: the cohorts of a cycle are not grouped by level
  IF set = {} THEN <<>> ELSE <<{StepOf(c) : c \in set}>>

(* A chain of n references that starts at c and stays in the set.           *)
Chain(set, c, n) == \E s \in [0..n -> set] : s[0] = c /\ \A i \in 1..n : s[i] \in pg[s[i - 1]].refs

(* topologicalSortCohorts and groupCohortsByLevel: a cohort is in the level *)
(* after the longest chain below it; what is on a cycle, or refers into     *)
(* one, has chains of any length and is in no level.                        *)
Level(set, n) == {StepOf(c) : c \in {d \in set : Chain(set, d, n - 1) /\ ~Chain(set, d, n)}}
Levels(set) ==
  [n \in 1..Cardinality({k \in 1..Cardinality(set) : Level(set, k) # {}}) |-> Level(set, n)]

(* Any definitions: two updates that each passed its check before the other *)
(* was written can have closed a cycle.                                     *)
Init ==
  /\ \E defined \in SUBSET Cohorts : \E refs \in [defined -> SUBSET defined] :
       /\ \A c \in defined : c \notin refs[c]
       /\ pg = [c \in Cohorts |-> IF c \in defined THEN Fresh(refs[c], 0) ELSE New]
  /\ rows = {} /\ lock = "free" /\ count = 0
  /\ cycle = [r \in Replicas |-> Idle]
  /\ jobs = {} /\ clock = 0 /\ edits = {}
  /\ changes = 0 /\ faults = 0 /\ overtaken = {} /\ overlapped = FALSE

Fault == faults < MaxFaults /\ faults' = faults + 1
Change == changes < MaxChanges /\ changes' = changes + 1
At(r, pc) == cycle[r].pc = pc

(* Cohorts whose definition is in one of these jobs or waits in a cycle.    *)
Planned(these) ==
  {j.step.cohort : j \in these}
    \cup {s.cohort : s \in UNION UNION {{cycle[r].levels[i] : i \in DOMAIN cycle[r].levels} : r \in Replicas}}

(* recordError, n times.                                                    *)
Errors(n, set) ==
  [c \in Cohorts |-> IF c \in set \cap Existing
     THEN [pg[c] EXCEPT !.errors = IF @ + n < MaxErrors THEN @ + n ELSE MaxErrors, !.held = TRUE]
     ELSE pg[c]]
-----------------------------------------------------------------------------
StartHealthy(r) ==  \* bug: a cohort with an error is never tried again
  LET eligible == {c \in Existing : pg[c].due /\ pg[c].errors = 0}
      levels   == Levels(eligible)
      sorted   == {s.cohort : s \in UNION {levels[i] : i \in DOMAIN levels}}
  IN
  /\ At(r, "idle") /\ lock = "free" /\ lock' = r
  /\ pg' = Errors(1, eligible \ sorted)
  /\ cycle' = [cycle EXCEPT ![r] = [Idle EXCEPT !.pc = "level", !.levels = levels]]
  /\ UNCHANGED <<rows, count, jobs, clock, edits, changes, faults, overtaken, overlapped>>

(* A cycle: take the lock, find the stale cohorts that are not held, sort   *)
(* them and record an error for those on cycles.                            *)
StartCycle(r) ==
  LET eligible == {c \in Existing : pg[c].due /\ pg[c].errors < MaxErrors /\ ~pg[c].held}
      levels   == Levels(eligible)
      sorted   == {s.cohort : s \in UNION {levels[i] : i \in DOMAIN levels}}
  IN
  /\ At(r, "idle") /\ lock = "free" /\ lock' = r
  /\ pg' = Errors(1, eligible \ sorted)
  /\ cycle' = [cycle EXCEPT ![r] = [Idle EXCEPT !.pc = "level", !.levels = levels]]
  /\ UNCHANGED <<rows, count, jobs, clock, edits, changes, faults, overtaken, overlapped>>

(* processLevel, up to the wait for the jobs.                               *)
QueueLevel(r) ==
  /\ At(r, "level") /\ cycle[r].levels # <<>> /\ cycle[r].waiting = {} /\ lock = r
  /\ LET level == Head(cycle[r].levels) IN
       /\ jobs' = jobs \cup {[step |-> s, pc |-> "queued", version |-> 0, by |-> r] : s \in level}
       /\ cycle' = [cycle EXCEPT ![r].levels = Tail(@), ![r].waiting = {s.cohort : s \in level}]
  /\ UNCHANGED <<pg, rows, lock, count, clock, edits, changes, faults, overtaken, overlapped>>

(* lock.extend finds another owner, or fails.                               *)
AbortLevels(r) ==
  /\ At(r, "level") /\ cycle[r].levels # <<>> /\ cycle[r].waiting = {}
  /\ IF lock = r THEN Fault ELSE UNCHANGED faults
  /\ cycle' = [cycle EXCEPT ![r].levels = <<>>]
  /\ UNCHANGED <<pg, rows, lock, count, jobs, clock, edits, changes, overtaken, overlapped>>

TimeoutKeeps(r) ==  \* bug: a job that timed out still reports to the cycle
  /\ cycle[r].waiting # {} /\ Fault
  /\ pg' = Errors(2, cycle[r].waiting)
  /\ lock' = IF lock = r THEN "free" ELSE lock
  /\ cycle' = [cycle EXCEPT ![r].waiting = {}]
  /\ overlapped' = TRUE
  /\ UNCHANGED <<rows, count, jobs, clock, edits, changes, overtaken>>

(* The jobs of a level are awaited together, for as long as the lock lives: *)
(* when they time out, it has expired.  Each error is recorded twice, where *)
(* the wait fails and where its result is collected.  The jobs go on.       *)
Timeout(r) ==
  /\ cycle[r].waiting # {} /\ Fault
  /\ pg' = Errors(2, cycle[r].waiting)
  /\ lock' = IF lock = r THEN "free" ELSE lock
  /\ jobs' = {IF j.by = r THEN [j EXCEPT !.by = None] ELSE j : j \in jobs}
  /\ cycle' = [cycle EXCEPT ![r].waiting = {}]
  /\ overlapped' = TRUE
  /\ UNCHANGED <<rows, count, clock, edits, changes, overtaken>>

(* The query of the stale cohorts or addBulk throws: no deletion follows.   *)
CycleFails(r) ==
  /\ At(r, "level") /\ cycle[r].waiting = {} /\ Fault
  /\ cycle' = [cycle EXCEPT ![r] = [Idle EXCEPT !.pc = "count"]]
  /\ UNCHANGED <<pg, rows, lock, count, jobs, clock, edits, changes, overtaken, overlapped>>

(* The versions that one deletion drops.                                    *)
Old(done) == {x \in rows : \E d \in done : d.cohort = x.cohort /\ x.version < d.version}

DeleteAfterReset(r) ==  \* bug: pendingDeletions is emptied first
  /\ At(r, "level") /\ cycle[r].levels = <<>> /\ cycle[r].waiting = {}
  /\ cycle' = [cycle EXCEPT ![r].pc = "count", ![r].done = {}]
  /\ rows' = rows \ Old(cycle'[r].done)
  /\ UNCHANGED <<pg, lock, count, jobs, clock, edits, changes, faults, overtaken, overlapped>>

(* deleteOldVersions for the whole cycle.                                   *)
DeleteOldVersions(r) ==
  /\ At(r, "level") /\ cycle[r].levels = <<>> /\ cycle[r].waiting = {}
  /\ \/ rows' = rows \ Old(cycle[r].done) /\ UNCHANGED faults
     \/ Old(cycle[r].done) # {} /\ Fault /\ UNCHANGED rows
  /\ cycle' = [cycle EXCEPT ![r].pc = "count", ![r].done = {}]
  /\ UNCHANGED <<pg, lock, count, jobs, clock, edits, changes, overtaken, overlapped>>

(* lock.release, at the end of finalizeCycle.                               *)
Released(r) ==
  /\ lock' = IF lock = r THEN "free" ELSE lock
  /\ cycle' = [cycle EXCEPT ![r] = Idle]

CountToMax(r) ==  \* bug: the counter is compared before it starts over
  /\ At(r, "count") /\ count' = (count + 1) % GcEvery
  /\ IF count = GcEvery /\ Existing # {}
       THEN /\ cycle' = [cycle EXCEPT ![r].pc = "sweep", ![r].ids = Existing]
            /\ UNCHANGED lock
       ELSE Released(r)
  /\ UNCHANGED <<pg, rows, jobs, clock, edits, changes, faults, overtaken, overlapped>>

(* runGcIfDue, with the ids that gcOrphanedMemberships selects.             *)
CountCycle(r) ==
  /\ At(r, "count") /\ count' = (count + 1) % GcEvery
  /\ IF count' = 0 /\ Existing # {}
       THEN /\ cycle' = [cycle EXCEPT ![r].pc = "sweep", ![r].ids = Existing]
            /\ UNCHANGED lock
       ELSE Released(r)
  /\ UNCHANGED <<pg, rows, jobs, clock, edits, changes, faults, overtaken, overlapped>>

(* The DELETE of gcOrphanedMemberships.                                     *)
Sweep(r) ==
  /\ At(r, "sweep")
  /\ \/ rows' = {x \in rows : x.cohort \in cycle[r].ids} /\ UNCHANGED faults
     \/ Fault /\ UNCHANGED rows
  /\ Released(r)
  /\ UNCHANGED <<pg, count, jobs, clock, edits, changes, overtaken, overlapped>>

(* The INCR or the release fails: the lock stays until its time is up.      *)
FinalizeFails(r) ==
  /\ At(r, "count") /\ Fault
  /\ cycle' = [cycle EXCEPT ![r] = Idle]
  /\ lock' = IF lock = r THEN "dead" ELSE lock
  /\ UNCHANGED <<pg, rows, count, jobs, clock, edits, changes, overtaken, overlapped>>

(* The process dies in its cycle.  The next one has another instance id.    *)
Crash(r) ==
  /\ ~At(r, "idle") /\ Fault
  /\ cycle' = [cycle EXCEPT ![r] = Idle]
  /\ lock' = IF lock = r THEN "dead" ELSE lock
  /\ jobs' = {IF j.by = r THEN [j EXCEPT !.by = None] ELSE j : j \in jobs}
  /\ UNCHANGED <<pg, rows, count, clock, edits, changes, overtaken, overlapped>>

(* The time to live of the lock ends: its cycle is dead, or the statements  *)
(* around the jobs took longer than it lasts.                               *)
Expire ==
  /\ lock # "free" /\ lock' = "free"
  /\ \/ lock = "dead" /\ UNCHANGED <<faults, overlapped>>
     \/ lock # "dead" /\ Fault /\ overlapped' = TRUE
  /\ UNCHANGED <<pg, rows, count, cycle, jobs, clock, edits, changes, overtaken>>
-----------------------------------------------------------------------------
(* CohortComputeProcessor.process, which any replica may run.               *)
StartJob(j) ==
  /\ j.pc = "queued"
  /\ jobs' = (jobs \ {j}) \cup {[j EXCEPT !.pc = "computing", !.version = clock + 1]}
  /\ clock' = clock + 1
  /\ UNCHANGED <<pg, rows, lock, count, cycle, edits, changes, faults, overtaken, overlapped>>

RowsOf(j, whole) ==
  [cohort |-> j.step.cohort, version |-> j.version, gen |-> j.step.gen, whole |-> whole]

ComputeMembership(j) ==
  /\ j.pc = "computing"
  /\ rows' = rows \cup {RowsOf(j, TRUE)}
  /\ jobs' = (jobs \ {j}) \cup {[j EXCEPT !.pc = "marking"]}
  /\ UNCHANGED <<pg, lock, count, cycle, clock, edits, changes, faults, overtaken, overlapped>>

ReturnAlways(j, success) ==  \* bug: the version of a failed job is taken too
  /\ jobs' = jobs \ {j}
  /\ cycle' = IF j.by = None THEN cycle
              ELSE [cycle EXCEPT ![j.by].waiting = @ \ {j.step.cohort}, ![j.by].done =
                      @ \cup {[cohort |-> j.step.cohort, refs |-> j.step.refs, version |-> j.version]}]

(* The job returns: its cycle, if it still waits, takes the version of a    *)
(* success for deletion, whether PostgreSQL accepted it or not.             *)
Return(j, success) ==
  /\ jobs' = jobs \ {j}
  /\ cycle' = IF j.by = None THEN cycle
              ELSE [cycle EXCEPT ![j.by].waiting = @ \ {j.step.cohort}, ![j.by].done = IF success
                      THEN @ \cup {[cohort |-> j.step.cohort, refs |-> j.step.refs, version |-> j.version]}
                      ELSE @]

(* An INSERT ... SELECT that fails may leave part of its rows.              *)
ComputeFails(j) ==
  /\ j.pc = "computing" /\ Fault
  /\ \/ UNCHANGED rows
     \/ rows' = rows \cup {RowsOf(j, FALSE)}
  /\ pg' = Errors(1, {j.step.cohort})
  /\ Return(j, FALSE)
  /\ UNCHANGED <<lock, count, clock, edits, changes, overtaken, overlapped>>

(* markComputationSuccess: only a newer version is taken; the UPDATE may    *)
(* fail too.                                                                *)
Mark(j) ==
  LET c == j.step.cohort
      newer == c \in Existing /\ pg[c].version < j.version
  IN
  /\ j.pc = "marking"
  /\ \/ /\ newer /\ UNCHANGED faults
        /\ pg' = [pg EXCEPT ![c].version = j.version, ![c].due = FALSE, ![c].errors = 0, ![c].held = FALSE]
     \/ /\ UNCHANGED pg
        /\ IF newer THEN Fault ELSE UNCHANGED faults
  /\ overtaken' = IF pg' # pg /\ pg[c].gen = j.step.gen /\ c \notin Planned(jobs \ {j})
                   THEN overtaken \ {c} ELSE overtaken
  /\ Return(j, TRUE)
  /\ UNCHANGED <<rows, lock, count, clock, edits, changes, overlapped>>

(* The replica that runs a job dies: BullMQ finds it stalled and queues it. *)
Stall(j) ==
  /\ j.pc # "queued" /\ Fault
  /\ jobs' = (jobs \ {j}) \cup {[j EXCEPT !.pc = "queued", !.version = 0]}
  /\ UNCHANGED <<pg, rows, lock, count, cycle, clock, edits, changes, overtaken, overlapped>>
-----------------------------------------------------------------------------
(* CohortsService.update, up to the check: another update may pass it too.  *)
(* That what a definition refers to exists is not checked; but the ids are  *)
(* UUIDs of the database, and none is known before its cohort was created.  *)
Known == {c \in Cohorts : pg[c] # New}

CheckUpdate(c, refs) ==
  /\ c \in Existing /\ refs \subseteq Known /\ ~Circular(c, refs) /\ Change
  /\ edits' = edits \cup {[cohort |-> c, refs |-> refs]}
  /\ UNCHANGED <<pg, rows, lock, count, cycle, jobs, clock, faults, overtaken, overlapped>>

WriteDefinition(e) ==  \* bug: the membership is not reset with the definition
  LET c == e.cohort IN
  /\ edits' = edits \ {e}
  /\ pg' = IF c \in Existing THEN [pg EXCEPT ![c].refs = e.refs, ![c].gen = @ + 1] ELSE pg
  /\ overtaken' = IF c \in Planned(jobs) THEN overtaken \cup {c} ELSE overtaken
  /\ UNCHANGED <<rows, lock, count, cycle, jobs, clock, changes, faults, overlapped>>

(* Its UPDATE.  Definitions of c that wait in a cycle or a job are older.   *)
WriteUpdate(e) ==
  LET c == e.cohort IN
  /\ edits' = edits \ {e}
  /\ pg' = IF c \in Existing THEN [pg EXCEPT ![c] = Fresh(e.refs, @.gen + 1)] ELSE pg
  /\ overtaken' = IF c \in Planned(jobs) THEN overtaken \cup {c} ELSE overtaken
  /\ UNCHANGED <<rows, lock, count, cycle, jobs, clock, changes, faults, overlapped>>

Create(c, refs) ==
  /\ pg[c] = New /\ refs \subseteq Known /\ ~Circular(c, refs) /\ Change
  /\ pg' = [pg EXCEPT ![c] = Fresh(refs, 0)]
  /\ UNCHANGED <<rows, lock, count, cycle, jobs, clock, edits, faults, overtaken, overlapped>>

(* remove: the row goes, and the members unless that command fails.         *)
Remove(c) ==
  /\ c \in Existing /\ Change
  /\ pg' = [pg EXCEPT ![c] = Gone]
  /\ \/ rows' = {x \in rows : x.cohort # c} /\ UNCHANGED faults
     \/ Fault /\ UNCHANGED rows
  /\ UNCHANGED <<lock, count, cycle, jobs, clock, edits, overtaken, overlapped>>

(* Time: the membership grows stale, the backoff ends.                      *)
GrowStale(c) ==
  /\ c \in Existing /\ ~pg[c].due /\ Change
  /\ pg' = [pg EXCEPT ![c].due = TRUE]
  /\ UNCHANGED <<rows, lock, count, cycle, jobs, clock, edits, faults, overtaken, overlapped>>

BackoffEnds(c) ==
  /\ c \in Existing /\ pg[c].held
  /\ pg' = [pg EXCEPT ![c].held = FALSE]
  /\ UNCHANGED <<rows, lock, count, cycle, jobs, clock, edits, changes, faults, overtaken, overlapped>>
-----------------------------------------------------------------------------
(* What a replica does of itself; jobs and the API do the rest.             *)
CycleStep(r) == \/ StartCycle(r) \/ QueueLevel(r) \/ AbortLevels(r) \/ DeleteOldVersions(r)
                \/ CountCycle(r) \/ Sweep(r)
JobStep == \E j \in jobs : StartJob(j) \/ ComputeMembership(j) \/ ComputeFails(j) \/ Mark(j)

Next ==
  \/ \E r \in Replicas : CycleStep(r) \/ CycleFails(r) \/ Timeout(r) \/ FinalizeFails(r) \/ Crash(r)
  \/ JobStep
  \/ \E j \in jobs : Stall(j)
  \/ Expire
  \/ \E c \in Cohorts, refs \in SUBSET Cohorts : CheckUpdate(c, refs) \/ Create(c, refs)
  \/ \E e \in edits : WriteUpdate(e)
  \/ \E c \in Cohorts : Remove(c) \/ GrowStale(c) \/ BackoffEnds(c)

Spec == Init /\ [][Next]_vars

(* The timers go on, BullMQ hands out every job, and Redis expires the lock *)
(* of a process that is gone.                                               *)
Fairness ==
  /\ \A r \in Replicas : WF_vars(CycleStep(r))
  /\ WF_vars(JobStep)
  /\ WF_vars(lock = "dead" /\ Expire)
  /\ \A c \in Cohorts : WF_vars(BackoffEnds(c))

FairSpec == Spec /\ Fairness
-----------------------------------------------------------------------------
VersionRows(c) == {x \in rows : x.cohort = c /\ x.version = pg[c].version}

(* "Reset materialized membership - force fallback until recomputation"     *)
(* (cohorts.service.ts:133): a cohort with a membership version was computed*)
(* from the definition that it has, unless it was redefined while an older  *)
(* definition was queued, computed or planned; then only until a job of the *)
(* new one ends.                                                            *)
RecomputedUnlessOvertaken ==
  \A c \in Existing \ overtaken : \A x \in VersionRows(c) : x.gen = pg[c].gen

(* Deletions never take the last complete membership of a cohort that       *)
(* readers take as materialized, whatever fails or runs late, as long as no *)
(* cycle outlives its lock.                                                 *)
MembersKept ==
  ~overlapped => \A c \in Existing : pg[c].version # 0 =>
    \E x \in rows : x.cohort = c /\ x.whole /\ x.version >= pg[c].version

(* "so dependencies are computed first" (toposort.ts:15): of two cohorts    *)
(* computed in a cycle, the one that refers to the other began after the    *)
(* other had its rows.                                                      *)
DependenciesFirst ==
  \A r \in Replicas : \A x, y \in cycle[r].done : y.cohort \in x.refs => y.version < x.version

(* Readers do not ask for a version, so rows of an older one are members    *)
(* too: unless something failed they wait only for the deletion at the end  *)
(* of the cycle that replaced them.                                         *)
OldRowsAwaitDeletion ==
  faults = 0 => \A c \in Existing : \A x \in rows :
    x.cohort = c /\ x.version < pg[c].version => \E r \in Replicas : x \in Old(cycle[r].done)

(* A stale cohort is computed, unless it is removed, its definition refers  *)
(* into a cycle or its errors reach the maximum.                            *)
StaleComputed ==
  \A c \in Cohorts : (c \in Existing /\ pg[c].due)
    ~> (c \notin Existing \/ ~pg[c].due \/ pg[c].errors = MaxErrors \/ Circular(c, pg[c].refs))

(* The members of a removed cohort are collected, also those that a late job*)
(* inserts, as long as another cohort exists.                               *)
OrphansCollected ==
  \A c \in Cohorts : (pg[c] = Gone /\ \E x \in rows : x.cohort = c)
    ~> (Existing = {} \/ \A x \in rows : x.cohort # c)
=============================================================================
