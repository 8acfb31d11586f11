--------------------------- MODULE MCPoolFollower ---------------------------
(* PoolFollower for TLC. *)
EXTENDS PoolFollower, TLC

\* Accounts differ in nothing but their identity.
Symmetry == Permutations(Accounts)
============================================================================
