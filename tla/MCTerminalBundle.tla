---------------------------- MODULE MCTerminalBundle ----------------------------
(* Finite instances of TerminalBundle for TLC. *)
EXTENDS TerminalBundle
================================================================================
