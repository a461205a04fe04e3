----------------------------- MODULE MCServiceLoop -----------------------------
(* A finite instance of ServiceLoop for TLC. *)
EXTENDS ServiceLoop, TLC

CONSTANTS main, quick

OneCommand == <<quick>>
NoPlans == <<>>

(* Projects are interchangeable. *)
ProjectSymmetry == Permutations(Projects)
===============================================================================
