------------------------------ MODULE MCAgentLoop ------------------------------
(* Finite instances of AgentLoop for TLC. *)
EXTENDS AgentLoop, TLC

CONSTANTS main, extra, quick, long, known

OneCommand == <<quick>>
TwoCommands == <<quick, long>>
PlansExtra == [d \in {known} |-> [targets |-> {extra}, budget |-> 1]]
PlansMain == [d \in {known} |-> [targets |-> {main}, budget |-> 1]]
===============================================================================
