------------------------------- MODULE MCPgPush -------------------------------
(* Three callers, two keys. *)
EXTENDS PgPush, TLC

CONSTANTS c1, c2, c3, k1, k2

\* The keys are interchangeable.
KeySymmetry == Permutations(Keys)

=============================================================================
