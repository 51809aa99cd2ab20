----------------------------- MODULE FiniteSums -----------------------------
(* The sums the ledger computes over its rows. *)
EXTENDS Integers, FiniteSets, Functions

\* The sum of f[x] for the members x of S.
SumOver(f, S) == FoldFunctionOnSet(+, 0, f, S)

=============================================================================
