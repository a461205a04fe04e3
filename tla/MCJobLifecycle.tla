---------------------------- MODULE MCJobLifecycle ----------------------------
(* Finite instances of JobLifecycle for TLC; their projects stay told apart, *)
(* as symmetry is unsound for the liveness properties.                      *)
EXTENDS JobLifecycle
===============================================================================
