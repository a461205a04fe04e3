------------------------------ MODULE ModelAccess ------------------------------
(***************************************************************************)
(* How one job reaches its model: admission (ModelPolicy), authorization,    *)
(* credentials and the provider client, the model calls of the loop with     *)
(* their retries and the metering of tokens, the token budget, and the       *)
(* usage report. The resolver starts in runtime or proxy mode; in mode auto  *)
(* the first missing runtime endpoint switches it to proxy mode for good.    *)
(*                                                                         *)
(* An action is what happens from one awaited call to the next. Requests to  *)
(* APICred and to the provider are read by what comes back: an answer, a     *)
(* failure that is retried, one that is not, or nothing before a timeout.    *)
(***************************************************************************)
EXTENDS ModelPolicy

CONSTANTS
    Modes,              \* the values of config.apicred_mode to consider
    WeavInstalled,      \* may weav_ai_runtime be importable, a subset of BOOLEAN
    LocalProviders,     \* the sets of providers with a local credential to consider
    Answers,            \* the providers and models that APICred may resolve credentials for
    Grants,             \* token budgets that an authorization may return
    CallReplies,        \* token counts that a provider may return with an answer
    NoCount,            \* a count the provider leaves out
    Estimate,           \* estimate_tokens of a prompt or an answer
    RequestAttempts,    \* APICredCredentialResolver.retry_attempts
    CallAttempts,       \* max_attempts of call_provider
    DecisionAttempts,   \* CodingAgentLoop.llm_max_attempts
    MaxIterations       \* job.max_iterations

Kinds == {"direct", "proxy", "local"}
Credential == [provider : Providers, model : Models, kind : Kinds]
NoCredential == [provider |-> NoProvider, model |-> NoModel, kind |-> "none"]
Keys == Providers \X Models

ASSUME AccessConstants ==
    /\ Modes \subseteq {"auto", "runtime", "proxy"} /\ WeavInstalled \subseteq BOOLEAN
    /\ LocalProviders \subseteq SUBSET Providers
    /\ Answers \subseteq Providers \X Models
    /\ Grants \subseteq Nat \cup {NoBudget} /\ NoCount \notin Nat /\ Estimate \in Nat
    /\ CallReplies \subseteq [prompt : Nat \cup {NoCount}, completion : Nat \cup {NoCount},
                              total : Nat \cup {NoCount}]
    /\ {RequestAttempts, CallAttempts, DecisionAttempts, MaxIterations} \subseteq Nat \ {0}

VARIABLES
    deployment, \* mode, weav and local: what stays fixed while the job runs
    proxy,      \* resolver.proxy_active
    attempt,    \* the attempt of the request or provider call under way
    cache,      \* APICredCredentialStore._credentials
    store,      \* its provider and model
    spec,       \* the model specification the runtime resolved
    client,     \* the credentials the client's api_key and base_url come from
    limit,      \* StopPolicy.max_llm_tokens
    iteration, decision,    \* the loop's iteration and its decision attempt
    meter,      \* LLMUsageMeter.total_tokens
    used,       \* state.llm_tokens_used
    billed,     \* tokens that APICred counted from usage reports
    ending      \* how the run ended, and the status of its usage step

assembly == <<cache, store, spec, client>>
loop == <<limit, iteration, decision, meter, used>>
accessVars == <<pc, policyVars, deployment, proxy, attempt, assembly, loop, billed, ending>>

NoSpec == [provider |-> NoProvider, model |-> NoModel]
Fresh == [key |-> NoCredential, url |-> NoCredential]
Running == [how |-> "running", report |-> "none"]

--------------------------------------------------------------------------------
(* Credentials.                                                             *)

Goto(label) == pc' = label /\ attempt' = 1

End(how) ==
    /\ Goto("ended")
    /\ ending' = [ending EXCEPT !.how = how]

(* The loop returned a job; its usage is reported next.                     *)
Return(how) ==
    /\ Goto("report")
    /\ ending' = [ending EXCEPT !.how = how]

Scripted == IsScripted(job.provider, job.model)
Local(p) == p \in deployment.local
AsksAPICred(p) == ~Local(p) /\ ~proxy

(* APICredCredentialResolver.resolve for provider p and model m returns c.   *)
(* APICred may answer with another provider or model than it was asked for.  *)
ResolvesTo(p, m, c) ==
    \/ /\ Local(p) /\ c = [provider |-> p, model |-> m, kind |-> "local"]
       /\ UNCHANGED proxy
    \/ /\ ~Local(p) /\ proxy /\ c = [provider |-> p, model |-> m, kind |-> "proxy"]
       /\ UNCHANGED proxy
    \/ /\ AsksAPICred(p) /\ c.kind = "direct" /\ <<c.provider, c.model>> \in Answers \cup {<<p, m>>}
       /\ UNCHANGED proxy
    \/ /\ AsksAPICred(p) /\ deployment.mode = "auto"
       /\ c = [provider |-> p, model |-> m, kind |-> "proxy"]
       /\ proxy' = TRUE

(* APICredCredentialStore._resolve *)
StoreResolvesTo(p, m, c) ==
    \/ /\ cache[<<p, m>>] # NoCredential /\ c = cache[<<p, m>>]
       /\ UNCHANGED <<proxy, cache>>
    \/ /\ cache[<<p, m>>] = NoCredential
       /\ ResolvesTo(p, m, c)
       /\ cache' = [cache EXCEPT ![<<p, m>>] = c, ![<<c.provider, c.model>>] = c]

(* runtime_budget: the smallest budget that is set and positive.            *)
RuntimeBudget(jobBudget, grant) ==
    LET positive == {b \in {jobBudget, grant} : b # NoBudget /\ b > 0}
    IN IF positive = {} THEN NoBudget ELSE CHOOSE b \in positive : \A x \in positive : b <= x

(* build_docode_runtime: which way the client is made.                      *)
Assemble(grant) ==
    /\ limit' = RuntimeBudget(job.budget, grant)
    /\ Goto(CASE Scripted -> "scripted"
              [] ~Scripted /\ (proxy' \/ ~deployment.weav) -> "fallback"
              [] OTHER -> "resolve_model")

--------------------------------------------------------------------------------
(* Authorization.                                                           *)

(* The user's request has been answered and is forgotten: the worker knows   *)
(* the job's row.                                                           *)
Authorize ==
    /\ pc = "admitted"
    /\ choice' = NoChoice /\ catalogs' = <<>>
    /\ request' = NoRequest
    /\ UNCHANGED <<job, deployment, proxy, assembly, iteration, decision, meter, used, billed, ending>>
    /\ \/ ~AsksAPICred(job.provider) /\ Assemble(NoBudget)
       \/ /\ AsksAPICred(job.provider)
          /\ Goto("authorize")
          /\ UNCHANGED limit

authorizing == <<policyVars, deployment, assembly, iteration, decision, meter, used, billed, ending>>

Authorized(grant) ==
    /\ pc = "authorize"
    /\ UNCHANGED <<authorizing, proxy>>
    /\ Assemble(grant)

(* The endpoint is missing, or the runtime is the scripted one.             *)
AuthorizedWithoutAPICred ==
    /\ pc = "authorize"
    /\ \/ Scripted /\ UNCHANGED proxy
       \/ ~Scripted /\ deployment.mode = "auto" /\ proxy' = TRUE
    /\ Assemble(NoBudget)
    /\ UNCHANGED authorizing

NotAuthorized ==
    /\ pc = "authorize"
    /\ End("failed")
    /\ UNCHANGED <<policyVars, deployment, proxy, assembly, loop, billed>>

(* A request to APICred is under way: nothing local or cached answers it.   *)
Asking ==
    \/ pc = "authorize"
    \/ pc = "report" /\ ~proxy
    \/ /\ AsksAPICred(job.provider)
       /\ \/ pc = "fallback"
          \/ pc = "resolve_model" /\ cache[<<job.provider, job.model>>] = NoCredential
          \/ pc = "api_key" /\ cache[<<job.provider, store.model>>] = NoCredential

(* _request_json tries again after a retryable failure that had no effect.  *)
RetryRequest ==
    /\ Asking
    /\ attempt < RequestAttempts
    /\ attempt' = attempt + 1
    /\ UNCHANGED <<pc, policyVars, deployment, proxy, assembly, loop, billed, ending>>

--------------------------------------------------------------------------------
(* Runtime assembly.                                                        *)

assembling == <<policyVars, deployment, loop, billed, ending>>

(* APICredCredentialStore.resolve_model                                     *)
ResolveModel ==
    /\ pc = "resolve_model"
    /\ \E c \in Credential :
          /\ StoreResolvesTo(job.provider, job.model, c)
          /\ spec' = [provider |-> c.provider, model |-> c.model]
          /\ store' = spec'
    /\ Goto("api_key")
    /\ UNCHANGED <<assembling, client>>

(* get_api_key: nothing when APICred answers for another provider.          *)
GetApiKey ==
    /\ pc = "api_key"
    /\ \E c \in Credential :
          /\ StoreResolvesTo(job.provider, store.model, c)
          /\ store' = [provider |-> c.provider, model |-> c.model]
          /\ \/ /\ c.provider = job.provider
                /\ client' = [client EXCEPT !.key = c]
                /\ Goto("base_url")
             \/ /\ c.provider # job.provider
                /\ Goto("fallback")
                /\ UNCHANGED client
    /\ UNCHANGED <<assembling, spec>>

(* Mutant of GetBaseUrl: the resolver is asked again for the job's model.   *)
ResolveUrlAgain ==
    /\ pc = "base_url"
    /\ \E c \in Credential :
          /\ ResolvesTo(job.provider, job.model, c)
          /\ client' = [client EXCEPT !.url = c]
    /\ Goto(IF spec.provider = job.provider THEN "iterate" ELSE "fallback")
    /\ UNCHANGED <<assembling, cache, store, spec>>

(* get_base_url; the client serves the resolved model only if it is         *)
(* registered under the resolved provider.                                  *)
GetBaseUrl ==
    /\ pc = "base_url"
    /\ \E c \in Credential :
          /\ StoreResolvesTo(job.provider, store.model, c)
          /\ store' = [provider |-> c.provider, model |-> c.model]
          /\ client' = [client EXCEPT !.url = c]
    /\ Goto(IF spec.provider = job.provider THEN "iterate" ELSE "fallback")
    /\ UNCHANGED <<assembling, spec>>

(* AIRuntime raises an error that names the provider.                       *)
RuntimeRefuses ==
    /\ pc \in {"resolve_model", "api_key"}
    /\ Goto("fallback")
    /\ UNCHANGED <<assembling, proxy, assembly>>

(* build_fallback_runtime *)
Fallback ==
    /\ pc = "fallback"
    /\ \E c \in Credential :
          /\ ResolvesTo(job.provider, job.model, c)
          /\ client' = [key |-> c, url |-> c]
          /\ spec' = [provider |-> c.provider, model |-> c.model]
    /\ Goto("iterate")
    /\ UNCHANGED <<assembling, cache, store>>

(* resolve raises.                                                          *)
NotResolved ==
    /\ Asking /\ pc \in {"resolve_model", "api_key", "fallback"}
    /\ End("exception")
    /\ UNCHANGED <<policyVars, deployment, proxy, assembly, loop, billed>>

--------------------------------------------------------------------------------
(* Model calls: metering and retries.                                       *)

(* LLMUsageMeter.record_provider_call *)
MeterOf(r) ==
    LET prompt == CASE r.prompt # NoCount -> r.prompt
                    [] r.prompt = NoCount /\ r.total # NoCount -> 0
                    [] OTHER -> Estimate
        completion == CASE r.completion # NoCount -> r.completion
                        [] r.completion = NoCount /\ r.total # NoCount ->
                               IF r.total > prompt THEN r.total - prompt ELSE 0
                        [] OTHER -> Estimate
    IN prompt + completion

LargestReply == CHOOSE n \in {MeterOf(r) : r \in CallReplies} : \A r \in CallReplies : n >= MeterOf(r)

(* A provider's counts are bounded by what a model can take and return.     *)
ASSUME RepliesBounded == \E r \in CallReplies : \A q \in CallReplies : MeterOf(r) >= MeterOf(q)

Calling == pc \in {"decide", "judge", "review"}
OverBudget(tokens) == limit # NoBudget /\ tokens >= limit
OutOfIterations == iteration >= MaxIterations

calls == <<policyVars, deployment, proxy, assembly, limit, billed>>

(* record_model_failure, and everything else that ends an iteration.        *)
NextIteration ==
    /\ iteration' = iteration + 1
    /\ used' = meter'
    /\ Goto("iterate")
    /\ UNCHANGED <<decision, ending>>

(* Mutant of StartIteration: the budget is not looked at here.              *)
StartIterationUnmetered ==
    /\ pc = "iterate"
    /\ used' = meter
    /\ UNCHANGED <<calls, iteration, meter>>
    /\ \/ ~OutOfIterations /\ Goto("decide") /\ decision' = 1 /\ UNCHANGED ending
       \/ OutOfIterations /\ Return("failed") /\ UNCHANGED decision
       \/ OutOfIterations /\ Goto("judge") /\ UNCHANGED <<decision, ending>>

(* The top of CodingAgentLoop.run: StopPolicy looks at the iterations first. *)
StartIteration ==
    /\ pc = "iterate"
    /\ used' = meter
    /\ UNCHANGED <<calls, iteration, meter>>
    /\ \/ /\ ~OutOfIterations /\ ~OverBudget(used')
          /\ Goto("decide")
          /\ decision' = 1
          /\ UNCHANGED ending
       \/ /\ ~OutOfIterations /\ OverBudget(used')
          /\ Return("failed")
          /\ UNCHANGED decision
       \/ /\ OutOfIterations            \* the workflow is not FINAL_READY
          /\ Return("failed")
          /\ UNCHANGED decision
       \/ /\ OutOfIterations            \* maybe_auto_finalize_before_stop
          /\ Goto("judge")
          /\ UNCHANGED <<decision, ending>>

(* A decision: a tool call or a blocked one, or a final candidate.          *)
DecisionAnswered(r) ==
    /\ pc = "decide"
    /\ meter' = meter + MeterOf(r)
    /\ UNCHANGED calls
    /\ \/ /\ used' = meter'
          /\ OverBudget(used')
          /\ Return("failed")
          /\ UNCHANGED <<iteration, decision>>
       \/ /\ ~OverBudget(meter')
          /\ NextIteration
       \/ /\ used' = meter'
          /\ ~OverBudget(used')
          /\ Goto("judge")
          /\ UNCHANGED <<iteration, decision, ending>>

(* A candidate that is sent back; after the last iteration the loop fails.  *)
SentBack ==
    \/ ~OutOfIterations /\ NextIteration
    \/ /\ OutOfIterations
       /\ iteration' = iteration + 1
       /\ used' = meter'
       /\ Return("failed")
       /\ UNCHANGED decision

(* Mutant of CandidateRefused: the candidate of a loop that is out of        *)
(* iterations is sent back as any other.                                    *)
CandidateRefusedAgain ==
    /\ pc = "judge"
    /\ UNCHANGED <<calls, meter>>
    /\ NextIteration

(* The gates refuse a candidate before its verifier asks the judge.         *)
CandidateRefused ==
    /\ pc = "judge"
    /\ UNCHANGED <<calls, meter>>
    /\ SentBack

(* The verifier's judge; a token budget that ran out fails the job unless   *)
(* StopPolicy names the iterations instead.                                 *)
JudgeAnswered(r) ==
    /\ pc = "judge"
    /\ meter' = meter + MeterOf(r)
    /\ UNCHANGED calls
    /\ \/ /\ used' = meter'
          /\ OverBudget(used') /\ ~OutOfIterations
          /\ Return("failed")
          /\ UNCHANGED <<iteration, decision>>
       \/ /\ ~OverBudget(meter') \/ OutOfIterations
          /\ SentBack
       \/ /\ used' = meter'
          /\ ~OverBudget(used') \/ OutOfIterations
          /\ Goto("review")
          /\ UNCHANGED <<iteration, decision, ending>>

ReviewAnswered(r) ==
    /\ pc = "review"
    /\ meter' = meter + MeterOf(r)
    /\ UNCHANGED calls
    /\ \/ SentBack
       \/ /\ Return("succeeded")
          /\ UNCHANGED <<iteration, decision, used>>

(* IndependentReviewer.review: a reviewer that times out passes.            *)
ReviewTimesOut ==
    /\ pc = "review"
    /\ Return("succeeded")
    /\ UNCHANGED <<calls, iteration, decision, meter, used>>

(* Mutant of RetryCall: the attempt is not counted.                         *)
RetryCallForever ==
    /\ Calling
    /\ attempt' = IF attempt < CallAttempts THEN attempt + 1 ELSE 1
    /\ UNCHANGED <<pc, calls, iteration, decision, meter, used, ending>>

(* call_provider tries again; what the failed attempt cost is not metered.  *)
RetryCall ==
    /\ Calling
    /\ attempt < CallAttempts
    /\ attempt' = attempt + 1
    /\ UNCHANGED <<pc, calls, iteration, decision, meter, used, ending>>

(* decide_with_transient_retries *)
RetryDecision ==
    /\ pc = "decide" /\ decision < DecisionAttempts
    /\ decision' = decision + 1
    /\ used' = meter
    /\ attempt' = 1
    /\ UNCHANGED <<pc, calls, iteration, meter, ending>>

(* The decision fails for good: on a provider failure the job fails, on any *)
(* other error, text that parse_decision rejects among them, the loop goes  *)
(* on, or submits the candidate itself if the workflow is FINAL_READY. The  *)
(* rejected text was metered, and the budget is not looked at.              *)
DecisionFails ==
    /\ pc = "decide"
    /\ UNCHANGED calls
    /\ \/ /\ iteration' = iteration + 1
          /\ used' = meter
          /\ Return("failed")
          /\ UNCHANGED <<decision, meter>>
       \/ /\ \/ UNCHANGED meter
             \/ \E r \in CallReplies : meter' = meter + MeterOf(r)
          /\ \/ NextIteration
             \/ Goto("judge") /\ UNCHANGED <<iteration, decision, used, ending>>

(* maybe_execute_controller_required_command comes before the decision; the *)
(* candidate it may complete is submitted at once.                          *)
ControllerTurn ==
    /\ pc = "decide" /\ decision = 1 /\ attempt = 1
    /\ UNCHANGED <<calls, meter>>
    /\ \/ NextIteration
       \/ Goto("judge") /\ UNCHANGED <<iteration, decision, used, ending>>

(* An error of the judge or the reviewer, the limits on verify and on the   *)
(* run: run_job's handlers fail the job, nothing is reported.               *)
LoopRaises ==
    /\ pc \in {"decide", "judge", "review"}
    /\ End(IF pc = "decide" THEN "timeout" ELSE "exception")
    /\ UNCHANGED <<calls, iteration, decision, meter, used>>

(* The scripted model decides without a call.                               *)
ScriptedLoop ==
    /\ pc = "scripted"
    /\ \E how \in {"succeeded", "failed"} : Return(how)
    /\ UNCHANGED <<calls, iteration, decision, meter, used>>

--------------------------------------------------------------------------------
(* The usage report.                                                        *)

reporting == <<policyVars, deployment, proxy, assembly, loop>>

Reports(status) ==
    /\ Goto("ended")
    /\ ending' = [ending EXCEPT !.report = status]

(* Mutant of UsageReported: proxy mode is not looked at.                     *)
UsageAlwaysReported ==
    /\ pc = "report"
    /\ Reports("reported")
    /\ billed' = billed + meter
    /\ UNCHANGED reporting

(* APICred bills its proxy's chat completions itself.                       *)
UsageReported ==
    /\ pc = "report"
    /\ Reports("reported")
    /\ billed' = IF proxy THEN billed ELSE billed + meter
    /\ UNCHANGED reporting

(* APICred counts the report but the answer is lost: it is sent again.      *)
UsageReportRepeated ==
    /\ pc = "report" /\ ~proxy /\ attempt < RequestAttempts
    /\ attempt' = attempt + 1
    /\ billed' = billed + meter
    /\ UNCHANGED <<reporting, pc, ending>>

(* The report fails, before or after APICred counted it.                    *)
UsageReportFails ==
    /\ pc = "report" /\ ~proxy
    /\ Reports("failed")
    /\ billed' \in {billed, billed + meter}
    /\ UNCHANGED reporting

--------------------------------------------------------------------------------
AccessInit ==
    /\ PolicyInit
    /\ deployment \in [mode : Modes, weav : WeavInstalled, local : LocalProviders]
    /\ proxy = (deployment.mode = "proxy")
    /\ attempt = 1
    /\ cache = [key \in Keys |-> NoCredential]
    /\ store = NoSpec /\ spec = NoSpec /\ client = Fresh
    /\ limit = NoBudget
    /\ iteration = 0 /\ decision = 0 /\ meter = 0 /\ used = 0
    /\ billed = 0
    /\ ending = Running

Admission ==
    /\ PolicyNext
    /\ UNCHANGED <<deployment, proxy, attempt, assembly, loop, billed, ending>>

ModelRequest == \E r \in CallReplies : DecisionAnswered(r) \/ JudgeAnswered(r) \/ ReviewAnswered(r)

Access ==
    \/ Authorize \/ (\E grant \in Grants : Authorized(grant)) \/ AuthorizedWithoutAPICred \/ NotAuthorized
    \/ RetryRequest
    \/ ResolveModel \/ GetApiKey \/ GetBaseUrl \/ RuntimeRefuses \/ Fallback \/ NotResolved
    \/ StartIteration \/ ModelRequest \/ CandidateRefused \/ ReviewTimesOut
    \/ RetryCall \/ RetryDecision \/ DecisionFails \/ ControllerTurn \/ LoopRaises \/ ScriptedLoop
    \/ UsageReported \/ UsageReportRepeated \/ UsageReportFails

AccessNext == Admission \/ Access

AccessSpec == AccessInit /\ [][AccessNext]_accessVars

(* Every awaited request has a timeout, so the run of a job goes on.        *)
AccessFairSpec == AccessSpec /\ WF_accessVars(Access)

--------------------------------------------------------------------------------
(* Properties.                                                              *)

(* Types: what the resolver, the store, the client and the meter may hold.  *)
AccessTypeOK ==
    /\ pc \in {"idle", "refused", "default_catalog", "catalog", "admitted", "authorize", "scripted",
               "resolve_model", "api_key", "base_url", "fallback", "iterate", "decide", "judge",
               "review", "report", "ended"}
    /\ job.budget \in 1..MaxBudget \cup {NoBudget}
    /\ proxy \in BOOLEAN
    /\ attempt \in Nat \ {0}
    /\ cache \in [Keys -> Credential \cup {NoCredential}]
    /\ client.key \in Credential \cup {NoCredential} /\ client.url \in Credential \cup {NoCredential}
    /\ limit \in Nat \cup {NoBudget}
    /\ iteration \in 0..(MaxIterations + 1) /\ decision \in 0..DecisionAttempts
    /\ meter \in Nat /\ used \in Nat /\ billed \in Nat
    /\ ending \in [how : {"running", "failed", "succeeded", "exception", "timeout"},
                   report : {"none", "reported", "failed"}]

(* The client that makes the calls sends one credential's key to the same   *)
(* credential's endpoint and names the model it was resolved for, however   *)
(* the two were looked up and whatever else APICred answered on the way.    *)
KeyFitsEndpoint ==
    Calling =>
        /\ client.key = client.url /\ client.key # NoCredential
        /\ client.key.provider = spec.provider /\ client.key.model = spec.model

(* Tokens are billed one way: what ran through APICred's proxy is never     *)
(* reported as well, and what ran on a credential that APICred resolved is  *)
(* reported, unless the run was cut off or the report failed.               *)
BilledOneWay ==
    pc = "ended" =>
        /\ client.key.kind = "proxy" => billed = 0
        /\ client.key.kind = "direct" /\ billed < meter =>
               ending.how \in {"timeout", "exception"} \/ ending.report = "failed"

(* What a job may spend beyond its budget is the reply that uses it up and   *)
(* two more: the judge's and the reviewer's, which the candidate of a loop   *)
(* out of iterations, or of a failed decision, is still shown to.           *)
OverspendBounded ==
    limit # NoBudget => meter <= (limit - 1) + 3 * LargestReply

(* A job runs on a model that the catalogue offered when it was admitted;   *)
(* without one in the request it is refused only if the catalogue changed   *)
(* between the two reads, or if it does not know the requested provider.    *)
AdmissionFollowsCatalog ==
    /\ pc = "admitted" /\ catalogs # <<>> =>
           Accepted(job, OptionsOf(catalogs[Len(catalogs)]))
    /\ pc = "refused" /\ Len(catalogs) = 2 /\ catalogs[1] = catalogs[2] =>
           request.provider \notin {NoProvider} \cup DOMAIN catalogs[1]

(* Termination as a safety property. From admission on every step spends     *)
(* something that is limited, without earning back what comes before it: an  *)
(* iteration of the loop, the way through one, an attempt of the decision,   *)
(* an attempt of the call.                                                  *)
Place == [admitted |-> 12, authorize |-> 11, resolve_model |-> 10, api_key |-> 9, base_url |-> 8,
          fallback |-> 7, scripted |-> 7, iterate |-> 6, decide |-> 5, judge |-> 4, review |-> 3,
          report |-> 2, ended |-> 1]

Admitted == pc \in DOMAIN Place

Spends ==
    /\ Admitted'
    /\ \/ iteration' > iteration /\ iteration' <= MaxIterations + 1
       \/ /\ iteration' = iteration
          /\ \/ Place[pc'] < Place[pc]
             \/ pc' = pc /\ decision' > decision /\ decision' <= DecisionAttempts
             \/ /\ pc' = pc /\ decision' = decision
                /\ attempt' > attempt /\ attempt' <= RequestAttempts + CallAttempts

AccessRankFalls == [][Admitted => Spends]_accessVars

(* A job that was admitted ends: each retry is counted, each call times out. *)
AccessEnds == pc = "admitted" ~> pc = "ended"
================================================================================
