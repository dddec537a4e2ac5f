------------------------------ MODULE Requests ------------------------------
(* What the modules about the guards of the ingest share.                   *)
EXTENDS Naturals

CONSTANTS
  Projects,
  Slots,       \* places for requests: an ingest replica serves several at a time
  MaxFaults,   \* bound: calls that fail, processes that stop
  MaxChanges   \* bound: rotations, removals, new plans and new months

ASSUME RequestsAssumption == MaxFaults \in Nat /\ MaxChanges \in Nat

VARIABLES faults, changes

budget == <<faults, changes>>

BudgetOK == faults \in 0..MaxFaults /\ changes \in 0..MaxChanges

Fault  == faults < MaxFaults /\ faults' = faults + 1 /\ UNCHANGED changes
Change == changes < MaxChanges /\ changes' = changes + 1 /\ UNCHANGED faults
=============================================================================
