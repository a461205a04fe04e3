----------------------------- MODULE MCModelAccess -----------------------------
(* Finite instances of ModelAccess for TLC. *)
EXTENDS ModelAccess, TLC

CONSTANTS openai, other, scripted, large, small, dated, plain

Dated == [m \in Models |-> IF m = dated THEN large ELSE m]
Scores == [fast |-> [m \in Models |-> IF m = small THEN 0 ELSE 1],
           strong |-> [m \in Models |-> IF m = small THEN 3 ELSE 0]]
Names == [x \in Providers \cup Models |->
            CASE x \in {openai, large} -> 1 [] x \in {other, small} -> 2 [] x = dated -> 3 [] OTHER -> 4]

Nothing == [shape |-> "none"]
Catalogue == [shape |-> "providers", models |-> (openai :> {large, small})]
Elsewhere == [shape |-> "providers", models |-> (other :> {small})]
NamesOnly == [shape |-> "names", names |-> {other}]
ModelList == [shape |-> "models", list |-> {large}]
SomeReplies == {Nothing, Catalogue, Elsewhere, NamesOnly, ModelList}

Asked == {[provider |-> p, model |-> m, quality |-> q] :
            p \in {NoProvider, other}, m \in {NoModel, dated}, q \in {"balanced", "fast"}}
         \cup {[provider |-> scripted, model |-> NoModel, quality |-> "fast"],
               [provider |-> NoProvider, model |-> NoModel, quality |-> "cheap"]}

SomeAnswers == {<<openai, small>>, <<other, small>>}

Counts == {[prompt |-> 1, completion |-> 1, total |-> 2],
           [prompt |-> NoCount, completion |-> NoCount, total |-> 2],
           [prompt |-> NoCount, completion |-> NoCount, total |-> NoCount]}
================================================================================
