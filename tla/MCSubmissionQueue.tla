------------------------ MODULE MCSubmissionQueue ------------------------
(* SubmissionQueue for TLC. *)
EXTENDS SubmissionQueue, TLC

\* Submissions differ in nothing but their identity.
Symmetry == Permutations(Subs)
============================================================================
