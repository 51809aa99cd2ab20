---------------------------- MODULE MCMcpClient ----------------------------
(* Small instances of McpClient. *)
EXTENDS McpClient, TLC

CONSTANTS p1, p2, t1, t2

OneScope == [p \in Turns |-> t1]

\* Only safety is checked under this symmetry.
Alike == Permutations(Conns) \cup Permutations(Turns)

=============================================================================
