------------------------------ MODULE MCChecks ------------------------------
(***************************************************************************)
(* Checks on small instances.                                              *)
(***************************************************************************)
EXTENDS Checks, TLC

\* Workers are alike, and so are releases.
Symmetry == Permutations(Worker) \union Permutations(Release)
=============================================================================
