---------------------------- MODULE MCAdmission ----------------------------
(* Admission for TLC: one project, whose first token has a secret.          *)
EXTENDS Admission

CONSTANTS First, Second, Third, Secret

MCTokens == {First, Second, Third, Secret}
MCStored == [p \in Projects |-> First]
MCHash == [t \in MCTokens |-> IF t = Secret THEN First ELSE None]
=============================================================================
