--------------------------- MODULE MCRunLifecycle ---------------------------
(* Two runs that may share a session or not, two process lives. *)
EXTENDS RunLifecycle, TLC

Symmetry == Permutations(Run) \cup Permutations(Session)
=============================================================================
