--------------------------- MODULE MCPersonStore ---------------------------
(* PersonStore for TLC: one device on which the users of the persons A and  *)
(* U take turns.  A replica that has not seen the last link of the device   *)
(* still resolves it to the other person.                                   *)
EXTENDS PersonStore, TLC

CONSTANTS a, A, U

TheDids    == {a}
ThePersons == {A, U}
TheWays    == {<<a, A>>, <<a, U>>}
TheLinks   == {<<A, U>>, <<U, A>>}

Symmetry == Permutations(Replicas) \cup Permutations(Events) \cup Permutations(ThePersons)
=============================================================================
