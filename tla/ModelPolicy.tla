------------------------------ MODULE ModelPolicy ------------------------------
(***************************************************************************)
(* DocodeModelPolicy: which provider and model a new job is admitted with.   *)
(* A request without a model reads APICred's catalogue twice, once to choose *)
(* a default and once to check the choice, and the catalogue may change or   *)
(* fail to answer in between.                                               *)
(***************************************************************************)
EXTENDS Integers, Sequences, FiniteSets

CONSTANTS
    Providers, Models,
    DefaultProvider, DefaultModel,  \* config.default_provider, config.default_model
    OpenAI,             \* the provider of a bare model list
    ScriptedProvider, ScriptedModel,
    NoProvider, NoModel,
    BaseModel,          \* the model a dated snapshot is a snapshot of, else itself
    Score,              \* fast_model_score and strong_model_score
    NameOrder,          \* the order of provider and model names
    Replies,            \* what the catalogue endpoints may answer
    Requests,           \* the providers and models that users ask for
    Budgets,            \* the token budgets that users ask for
    ConfiguredBudget,   \* config.max_llm_tokens
    MaxBudget,          \* MAX_LLM_TOKENS_LIMIT
    NoBudget

Qualities == {"fast", "balanced", "strong"}
Option == [provider : Providers, model : Models \cup {NoModel}, source : {"apicred", "config", "local"}]

ASSUME PolicyConstants ==
    /\ DefaultProvider \in Providers /\ DefaultModel \in Models
    /\ ScriptedProvider \in Providers /\ ScriptedModel \in Models
    /\ ScriptedProvider # DefaultProvider /\ ScriptedModel # DefaultModel
    /\ NoModel \notin Models /\ NoProvider \notin Providers
    /\ BaseModel \in [Models -> Models]
    /\ Score \in [{"fast", "strong"} -> [Models -> Nat]]
    /\ NameOrder \in [Providers \cup Models -> Nat]
    /\ \A x, y \in Providers : NameOrder[x] = NameOrder[y] => x = y
    /\ \A x, y \in Models : NameOrder[x] = NameOrder[y] => x = y
    /\ Requests \subseteq [provider : Providers \cup {NoProvider}, model : Models \cup {NoModel},
                           quality : STRING]
    /\ NoBudget \notin Int /\ Budgets \subseteq Int \cup {NoBudget}
    /\ ConfiguredBudget \in 1..MaxBudget /\ MaxBudget \in Nat

VARIABLES
    pc,         \* the call that is awaited
    request,    \* what the user asked for
    choice,     \* requested_provider and requested_model
    catalogs,   \* the catalogues read for this request
    job         \* the provider, model and token budget of the job's row

policyVars == <<request, choice, catalogs, job>>

NoChoice == [provider |-> NoProvider, model |-> NoModel]
NoRequest == [provider |-> NoProvider, model |-> NoModel, quality |-> "balanced", budget |-> NoBudget]
NoJob == [provider |-> NoProvider, model |-> NoModel, budget |-> NoBudget]

--------------------------------------------------------------------------------
(* Catalogues and options.                                                  *)

(* parse_provider_catalog: providers with their models, provider names      *)
(* alone, or a list of models.                                             *)
CatalogOf(reply) ==
    CASE reply.shape = "providers" -> reply.models
      [] reply.shape = "names" -> [p \in reply.names |-> {}]
      [] reply.shape = "models" /\ reply.list # {} -> [p \in {OpenAI} |-> reply.list]
      [] OTHER -> [p \in {} |-> {}]

ASSUME CatalogsOfModels ==
    \A reply \in Replies :
        /\ DOMAIN CatalogOf(reply) \subseteq Providers
        /\ \A p \in DOMAIN CatalogOf(reply) : CatalogOf(reply)[p] \subseteq Models

IsDefault(o) == o.provider = DefaultProvider /\ o.model = DefaultModel
IsScripted(p, m) == p = ScriptedProvider \/ m = ScriptedModel

(* add_option_if_missing *)
WithOption(options, o) ==
    IF \E x \in options : x.provider = o.provider /\ x.model = o.model THEN options ELSE options \cup {o}

OptionsOf(catalog) ==
    LET listed == UNION {{[provider |-> p, model |-> m, source |-> "apicred"] :
                            m \in IF catalog[p] = {} THEN {NoModel} ELSE catalog[p]} : p \in DOMAIN catalog}
        default == [provider |-> DefaultProvider, model |-> DefaultModel, source |-> "config"]
        local == [provider |-> ScriptedProvider, model |-> ScriptedModel, source |-> "local"]
    IN WithOption(WithOption(listed, default), local)

(* model_quality_rank, smallest first. *)
Rank(o, quality) ==
    LET default == IF IsDefault(o) THEN 0 ELSE 1
    IN IF quality = "balanced"
       THEN <<default, 0, NameOrder[o.provider], NameOrder[o.model]>>
       ELSE <<Score[quality][o.model], default, NameOrder[o.provider], NameOrder[o.model]>>

Precedes(r, s) == \E i \in DOMAIN r : r[i] < s[i] /\ \A k \in 1..(i - 1) : r[k] = s[k]

BestOption(options, quality) ==
    CHOOSE o \in options : \A x \in options :
        (x.provider # o.provider \/ x.model # o.model) => Precedes(Rank(o, quality), Rank(x, quality))

(* resolve_default_model *)
DefaultChoice(provider, quality, catalog) ==
    LET options == {o \in OptionsOf(catalog) : o.model # NoModel /\ o.source # "local"}
        scoped == {o \in options : o.provider = provider}
        best == BestOption(options, quality)
    IN CASE provider # NoProvider /\ scoped # {} ->
                [provider |-> provider, model |-> BestOption(scoped, quality).model]
         [] provider # NoProvider /\ scoped = {} -> [provider |-> provider, model |-> DefaultModel]
         [] OTHER -> [provider |-> best.provider, model |-> best.model]

(* The options that let DocodeModelPolicy.resolve accept a choice. *)
Listed(c, options) == \E o \in options : o.provider = c.provider /\ o.model = c.model
Accepted(c, options) ==
    LET same == {o \in options : o.provider = c.provider}
    IN \/ Listed(c, options)
       \/ same # {} /\ \/ \E o \in same : o.model = BaseModel[c.model]
                       \/ \A o \in same : o.source = "config"
                       \/ \E o \in same : o.model = NoModel

(* bounded_int *)
BudgetOf(requested) == IF requested = NoBudget THEN ConfiguredBudget ELSE requested

--------------------------------------------------------------------------------
(* create_coding_job up to the row it writes.                                *)

PolicyInit ==
    /\ pc = "idle"
    /\ request = NoRequest
    /\ choice = NoChoice
    /\ catalogs = <<>>
    /\ job = NoJob

Admit(c) ==
    /\ job' = [provider |-> c.provider, model |-> c.model, budget |-> BudgetOf(request'.budget)]
    /\ pc' = "admitted"

(* The checks that need no catalogue: the ranges, scripted jobs.            *)
CreateJob(r, b) ==
    /\ pc = "idle"
    /\ request' = [provider |-> r.provider, model |-> r.model, quality |-> r.quality, budget |-> b]
    /\ catalogs' = <<>>
    /\ LET p == IF r.provider = NoProvider THEN DefaultProvider ELSE r.provider
           wellFormed == BudgetOf(b) \in 1..MaxBudget /\ r.quality \in Qualities
       IN \/ /\ ~wellFormed
             /\ pc' = "refused"
             /\ UNCHANGED <<choice, job>>
          \/ /\ wellFormed /\ IsScripted(p, r.model)
             /\ choice' = [provider |-> ScriptedProvider, model |-> ScriptedModel]
             /\ Admit(choice')
          \/ /\ wellFormed /\ ~IsScripted(p, r.model)
             /\ choice' = [provider |-> p, model |-> r.model]
             /\ pc' = IF r.model = NoModel THEN "default_catalog" ELSE "catalog"
             /\ UNCHANGED job

(* The first read, when the request names no model. No catalogue lists the   *)
(* scripted model, so the choice is never a scripted one.                   *)
ChooseDefault(reply) ==
    /\ pc = "default_catalog"
    /\ choice' = DefaultChoice(request.provider, request.quality, CatalogOf(reply))
    /\ catalogs' = <<CatalogOf(reply)>>
    /\ pc' = "catalog"
    /\ UNCHANGED <<request, job>>

(* Mutant of CheckChoice: the choice made from the first catalogue stands.  *)
TrustFirstChoice(reply) ==
    /\ pc = "catalog"
    /\ catalogs' = Append(catalogs, CatalogOf(reply))
    /\ UNCHANGED <<request, choice>>
    /\ Admit(choice)

(* The read that decides. *)
CheckChoice(reply) ==
    /\ pc = "catalog"
    /\ catalogs' = Append(catalogs, CatalogOf(reply))
    /\ UNCHANGED <<request, choice>>
    /\ \/ /\ Accepted(choice, OptionsOf(CatalogOf(reply)))
          /\ Admit(choice)
       \/ /\ ~Accepted(choice, OptionsOf(CatalogOf(reply)))
          /\ pc' = "refused"
          /\ UNCHANGED job

PolicyNext ==
    \/ \E r \in Requests, b \in Budgets : CreateJob(r, b)
    \/ \E reply \in Replies : ChooseDefault(reply) \/ CheckChoice(reply)
================================================================================
