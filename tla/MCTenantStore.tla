---------------------------- MODULE MCTenantStore ----------------------------
(* Small instances of TenantStore. *)
EXTENDS TenantStore, TLC

\* Only safety is checked under this symmetry.
Alike == Permutations(Instances) \cup Permutations(Databases)
             \cup Permutations(Operations) \cup Permutations(Requests)

=============================================================================
