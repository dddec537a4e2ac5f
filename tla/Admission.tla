----------------------------- MODULE Admission -----------------------------
(***************************************************************************)
(* A request of POST /v1/batch through its guards: ApiKeyGuard resolves    *)
(* the token (TokenCache), BillingGuard looks up the project (EventQuota), *)
(* the batch is written and counted.  RateLimitGuard between the two is    *)
(* left out.                                                               *)
(***************************************************************************)
EXTENDS TokenCache, EventQuota

vars == <<tokenVars, quotaVars, budget>>

(* Types of both parts; a slot serves one request at a time.                *)
TypeOK ==
  /\ TokenTypeOK /\ QuotaTypeOK /\ BudgetOK
  /\ \A s \in Slots : request[s] = NoRequest \/ check[s] = NoCheck

Init == TokenInit /\ QuotaInit /\ faults = 0 /\ changes = 0

Send(s, t) == check[s] = NoCheck /\ Ask(s, t) /\ UNCHANGED quotaVars

(* The guard sets request.projectId, and the next one reads it.             *)
NextGuard(s) == PassGuard(s) /\ Arrive(s, request[s].project) /\ UNCHANGED budget

Next ==
  \/ \E s \in Slots, t \in Tokens : Send(s, t)
  \/ \E s \in Slots : InGuard(s) /\ UNCHANGED quotaVars
  \/ \E s \in Slots : NextGuard(s)
  \/ \E t \in Tokens : ExpireToken(t) /\ UNCHANGED quotaVars
  \/ ApiStep /\ UNCHANGED quotaVars
  \/ QuotaAlone /\ UNCHANGED tokenVars

Spec == Init /\ [][Next]_vars

(* Calls return, entries of the cache and the set expire, and the timer of  *)
(* a worker that runs is set again after each cycle.                        *)
Fairness ==
  /\ \A s \in Slots : WF_vars((InGuard(s) /\ UNCHANGED quotaVars) \/ NextGuard(s))
  /\ \A t \in Tokens : WF_vars(ExpireToken(t) /\ UNCHANGED quotaVars)
  /\ WF_vars(CycleStep /\ UNCHANGED tokenVars)
  /\ WF_vars(down /\ ExpireSet /\ UNCHANGED tokenVars)

FairSpec == Spec /\ Fairness
=============================================================================
