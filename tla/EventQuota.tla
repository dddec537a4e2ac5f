----------------------------- MODULE EventQuota -----------------------------
(***************************************************************************)
(* The monthly limit of a project's events: the billing worker compares    *)
(* the usage counters with the plans and replaces the set                  *)
(* billing:quota_limited, BillingGuard looks a project up in the set, and  *)
(* the ingest counts what it has written.                                  *)
(*                                                                         *)
(* There is one worker (strategy Recreate).  A batch counts as one event.  *)
(* The set lives 120 s, four cycles: it expires when the worker is down,   *)
(* or when cycles fail or drag on, which draws on the fault budget.        *)
(***************************************************************************)
EXTENDS Requests

CONSTANTS
  Limits,     \* values of plans.events_limit
  NoLimit,    \* no plan, or a plan without limit
  MaxEvents,  \* bound: events of a project in a month
  Months      \* bound: the months are 1..Months

ASSUME QuotaAssumption ==
  /\ Limits \subseteq Nat /\ NoLimit \notin Limits
  /\ MaxEvents \in Nat /\ Months \in Nat \ {0}

VARIABLES
  limit,    \* events_limit of each project's plan
  month,
  counter,  \* billing:events:<project>:<month>
  limited,  \* billing:quota_limited
  check,    \* the request of each slot, after ApiKeyGuard
  worker,   \* runCycle of BillingCheckService
  down,     \* the worker is not running
  basis     \* history: the month that limited is about, and plans changed since

quotaVars == <<limit, month, counter, limited, check, worker, down, basis>>

NoCheck == [pc |-> "idle"]
NoCycle == [pc |-> "idle"]
Check == [pc : {"billing", "write", "count"}, project : Projects, month : 1..Months]
Cycle == [pc : {"clear", "plan", "read", "replace"}, rows : [Projects -> Limits \cup {NoLimit}],
          month : 1..Months, over : SUBSET Projects, changed : SUBSET Projects]

(* The variables keep their types.                                          *)
QuotaTypeOK ==
  /\ limit \in [Projects -> Limits \cup {NoLimit}]
  /\ month \in 1..Months
  /\ counter \in [Projects -> [1..Months -> Nat]]
  /\ limited \subseteq Projects
  /\ check \in [Slots -> Check \cup {NoCheck}]
  /\ worker \in Cycle \cup {NoCycle}
  /\ down \in BOOLEAN
  /\ basis \in [month : 1..Months, changed : SUBSET Projects]
-----------------------------------------------------------------------------
QuotaInit ==
  /\ limit \in [Projects -> Limits \cup {NoLimit}]
  /\ month = 1
  /\ counter = [p \in Projects |-> [m \in 1..Months |-> 0]]
  /\ limited = {}
  /\ check = [s \in Slots |-> NoCheck]
  /\ worker = NoCycle /\ down = FALSE
  /\ basis = [month |-> 1, changed |-> {}]

AtLimit(count, max) == max # NoLimit /\ count >= max
OverLimit(p) == AtLimit(counter[p][month], limit[p])

(* A request whose token was resolved to p reaches BillingGuard.            *)
Arrive(s, p) ==
  /\ check[s] = NoCheck
  /\ check' = [check EXCEPT ![s] = [pc |-> "billing", project |-> p, month |-> month]]
  /\ UNCHANGED <<limit, month, counter, limited, worker, down, basis>>

(* BillingGuard, and the answer 200 to a batch that is dropped.  An error   *)
(* of Redis lets the batch pass.                                            *)
CheckQuota(s) ==
  /\ check[s].pc = "billing"
  /\ \/ /\ check[s].project \in limited
        /\ check' = [check EXCEPT ![s] = NoCheck] /\ UNCHANGED budget
     \/ /\ check' = [check EXCEPT ![s].pc = "write"]
        /\ IF check[s].project \in limited THEN Fault ELSE UNCHANGED budget
  /\ UNCHANGED <<limit, month, counter, limited, worker, down, basis>>

(* writeToStream, with the key of the counter for the month that it is; or  *)
(* the write fails.                                                         *)
WriteBatch(s) ==
  /\ check[s].pc = "write"
  /\ \/ /\ counter[check[s].project][month] < MaxEvents
        /\ check' = [check EXCEPT ![s].pc = "count", ![s].month = month] /\ UNCHANGED budget
     \/ check' = [check EXCEPT ![s] = NoCheck] /\ Fault
  /\ UNCHANGED <<limit, month, counter, limited, worker, down, basis>>

(* incrementCounters, which nobody awaits and whose failure is logged.      *)
IncrementCounter(s) ==
  LET h == check[s] IN
  /\ h.pc = "count"
  /\ check' = [check EXCEPT ![s] = NoCheck]
  /\ \/ counter' = [counter EXCEPT ![h.project][h.month] = @ + 1] /\ UNCHANGED budget
     \/ UNCHANGED counter /\ Fault
  /\ UNCHANGED <<limit, month, limited, worker, down, basis>>
-----------------------------------------------------------------------------
SelectLimited ==  \* bug: without plans that limit there is nothing to do
  /\ worker = NoCycle /\ ~down
  /\ \E p \in Projects : limit[p] # NoLimit
  /\ worker' = [pc |-> "plan", rows |-> limit, month |-> month, over |-> {}, changed |-> {}]
  /\ UNCHANGED <<limit, month, counter, limited, check, down, basis, budget>>

(* runCycle: the SELECT of the projects with a limit.                       *)
SelectRows ==
  /\ worker = NoCycle /\ ~down
  /\ worker' = [pc |-> IF \E p \in Projects : limit[p] # NoLimit THEN "plan" ELSE "clear",
                rows |-> limit, month |-> month, over |-> {}, changed |-> {}]
  /\ UNCHANGED <<limit, month, counter, limited, check, down, basis, budget>>

(* No project with a limit: DEL of the set.                                 *)
ClearSet ==
  /\ worker.pc = "clear"
  /\ limited' = {}
  /\ worker' = NoCycle
  /\ basis' = [basis EXCEPT !.changed = worker.changed]
  /\ UNCHANGED <<limit, month, counter, check, down, budget>>

(* const now = new Date()                                                   *)
TakeNow ==
  /\ worker.pc = "plan"
  /\ worker' = [worker EXCEPT !.pc = "read", !.month = month]
  /\ UNCHANGED <<limit, month, counter, limited, check, down, basis, budget>>

ReadAbove ==  \* bug: a project is over its limit only above it
  /\ worker.pc = "read"
  /\ worker' = [worker EXCEPT !.pc = "replace",
                  !.over = {p \in Projects : worker.rows[p] # NoLimit
                                             /\ counter[p][worker.month] > worker.rows[p]}]
  /\ UNCHANGED <<limit, month, counter, limited, check, down, basis, budget>>

(* MGET of the counters, and findOverLimitProjects.                         *)
ReadCounters ==
  /\ worker.pc = "read"
  /\ worker' = [worker EXCEPT !.pc = "replace",
                  !.over = {p \in Projects : AtLimit(counter[p][worker.month], worker.rows[p])}]
  /\ UNCHANGED <<limit, month, counter, limited, check, down, basis, budget>>

AddToSet ==  \* bug: the members of the last cycle are not deleted
  /\ worker.pc = "replace"
  /\ limited' = limited \cup worker.over
  /\ worker' = NoCycle
  /\ basis' = [month |-> worker.month, changed |-> worker.changed]
  /\ UNCHANGED <<limit, month, counter, check, down, budget>>

(* The transaction DEL, SADD, EXPIRE.                                       *)
ReplaceSet ==
  /\ worker.pc = "replace"
  /\ limited' = worker.over
  /\ worker' = NoCycle
  /\ basis' = [month |-> worker.month, changed |-> worker.changed]
  /\ UNCHANGED <<limit, month, counter, check, down, budget>>

(* A call of the cycle throws: the next one starts over.                    *)
CycleThrows ==
  /\ worker # NoCycle /\ Fault
  /\ worker' = NoCycle
  /\ UNCHANGED <<limit, month, counter, limited, check, down, basis>>

(* The worker stops, in the middle of a cycle too, or starts again.         *)
WorkerStops ==
  /\ ~down /\ Fault
  /\ worker' = NoCycle /\ down' = TRUE
  /\ UNCHANGED <<limit, month, counter, limited, check, basis>>

WorkerStarts ==
  /\ down /\ down' = FALSE
  /\ UNCHANGED <<limit, month, counter, limited, check, worker, basis, budget>>

(* BILLING_SET_TTL_SECONDS are over.                                        *)
ExpireSet ==
  /\ limited # {} /\ limited' = {}
  /\ IF down THEN UNCHANGED budget ELSE Fault
  /\ UNCHANGED <<limit, month, counter, check, worker, down, basis>>

(* patchProject and patchPlan of AdminService.                              *)
ChangePlan(p, max) ==
  /\ max # limit[p] /\ Change
  /\ limit' = [limit EXCEPT ![p] = max]
  /\ worker' = IF worker = NoCycle THEN worker ELSE [worker EXCEPT !.changed = @ \cup {p}]
  /\ basis' = [basis EXCEPT !.changed = @ \cup {p}]
  /\ UNCHANGED <<month, counter, limited, check, down>>

NextMonth ==
  /\ month < Months /\ Change
  /\ month' = month + 1
  /\ UNCHANGED <<limit, counter, limited, check, worker, down, basis>>
-----------------------------------------------------------------------------
Handling(s) == CheckQuota(s) \/ WriteBatch(s) \/ IncrementCounter(s)
CycleStep == SelectRows \/ ClearSet \/ TakeNow \/ ReadCounters \/ ReplaceSet
QuotaAlone ==
  \/ \E s \in Slots : Handling(s)
  \/ CycleStep \/ CycleThrows \/ WorkerStops \/ WorkerStarts \/ ExpireSet
  \/ \E p \in Projects, max \in Limits \cup {NoLimit} : ChangePlan(p, max)
  \/ NextMonth

QuotaNext == QuotaAlone \/ \E s \in Slots, p \in Projects : Arrive(s, p)

QuotaSpec == QuotaInit /\ [][QuotaNext]_quotaVars
-----------------------------------------------------------------------------
(* A batch of a limited project is answered with 200 and gone.  Within the  *)
(* month that the set is about, it holds only projects that have reached    *)
(* the limit of their plan, except for plans changed since the worker read  *)
(* them.                                                                    *)
LimitedAtLimit ==
  \A p \in limited \ basis.changed : month = basis.month => OverLimit(p)

(* A project at its limit is finally limited, unless the worker stops, the  *)
(* plan changes or the month ends.                                          *)
LimitTakesEffect ==
  \A p \in Projects : OverLimit(p) ~> (p \in limited \/ down \/ ~OverLimit(p))

(* "if worker stops, set auto-expires so ingest doesn't enforce stale       *)
(* limits" (billing-check.service.ts:89): a project below its limit, after  *)
(* a new month or plan, is finally let in again, with or without a worker.  *)
ReleasedFinally ==
  \A p \in Projects : (p \in limited /\ ~OverLimit(p)) ~> (p \notin limited \/ OverLimit(p))
=============================================================================
