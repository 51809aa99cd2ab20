-------------------------- MODULE MCSpendingLedger --------------------------
(* A small instance of SpendingLedger. *)
EXTENDS SpendingLedger, TLC

\* Only safety is checked under this symmetry.
Alike == Permutations(Principals) \cup Permutations(Requests)

=============================================================================
