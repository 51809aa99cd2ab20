---------------------------- MODULE MCAgentLoop ----------------------------
(* Small instances of AgentLoop. *)
EXTENDS AgentLoop, TLC

CONSTANT account

OnePayer == [t \in Turns |-> account]

\* Only safety is checked under this symmetry.
Alike == Permutations(Turns)

=============================================================================
