--------------------------- MODULE MCRecheckQueue ---------------------------
(* RecheckQueue for TLC: accounts are numbers and ties go to the lower one, *)
(* so there is no symmetry to use.                                         *)
EXTENDS RecheckQueue
============================================================================
