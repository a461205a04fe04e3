--------------------------- MODULE ModelAccessProofs ---------------------------
(* Theorems about ModelAccess, for every catalogue, deployment and budget.    *)
EXTENDS ModelAccess, TLAPS, WellFoundedInduction, SequenceTheorems

--------------------------------------------------------------------------------
(* The best option exists.                                                  *)

(* A minimum of a set of numbers, from a minimal element of a relation.      *)
LEMMA MinimumBy ==
    ASSUME NEW R, NEW T \in SUBSET Nat,
           \E x \in T : \A y \in T : ~ (<<y, x>> \in R),
           \A x, y \in Nat : <<y, x>> \in R <=> y < x
    PROVE  \E x \in T : \A y \in T : x <= y
<1>1. PICK x \in T : \A y \in T : ~ (<<y, x>> \in R)
  OBVIOUS
<1>2. ASSUME NEW y \in T PROVE x <= y
  <2>1. x \in Nat /\ y \in Nat
    OBVIOUS
  <2>2. ~(y < x)
    BY <1>1, <2>1
  <2> QED
    BY <2>1, <2>2
<1> QED
  BY <1>2

(* Every nonempty set of numbers has a least one.                            *)
LEMMA Minimum ==
    ASSUME NEW T \in SUBSET Nat, T # {}
    PROVE  \E x \in T : \A y \in T : x <= y
<1>1. \E x \in T : \A y \in T : ~ (<<y, x>> \in OpToRel(<, Nat))
  BY NatLessThanWellFounded, WFMin
<1>2. \A x, y \in Nat : <<y, x>> \in OpToRel(<, Nat) <=> y < x
  BY DEF OpToRel
<1> QED
  BY <1>1, <1>2, MinimumBy

(* Some element of S has the least value of f.                               *)
LEMMA LeastBy ==
    ASSUME NEW S, S # {}, NEW f \in [S -> Nat]
    PROVE  \E x \in S : \A y \in S : f[x] <= f[y]
<1> DEFINE T == {f[x] : x \in S}
<1>1. T \in SUBSET Nat /\ T # {}
  OBVIOUS
<1>2. PICK m \in T : \A y \in T : m <= y
  <2> HIDE DEF T
  <2> QED
    BY <1>1, Minimum
<1> QED
  BY <1>2

USE PolicyConstants, AccessConstants

Options == [provider : Providers, model : Models, source : {"apicred", "config", "local"}]

(* A rank is four numbers, the last two of which name the option.            *)
LEMMA RankTyped ==
    ASSUME NEW o \in Options, NEW q \in Qualities
    PROVE  /\ Rank(o, q) \in Seq(Nat) /\ Len(Rank(o, q)) = 4
           /\ Rank(o, q)[3] = NameOrder[o.provider] /\ Rank(o, q)[4] = NameOrder[o.model]
<1>1. NameOrder[o.provider] \in Nat /\ NameOrder[o.model] \in Nat
  BY DEF Options
<1>2. q # "balanced" => Score[q][o.model] \in Nat
  BY DEF Options, Qualities
<1> QED
  BY <1>1, <1>2 DEF Rank

(* No two options have the same rank, so one of them comes first.            *)
LEMMA BestExists ==
    ASSUME NEW options \in SUBSET Options, options # {}, NEW q \in Qualities
    PROVE  BestOption(options, q) \in options
<1>1. \A o \in options : /\ Rank(o, q) \in Seq(Nat) /\ Len(Rank(o, q)) = 4
                         /\ Rank(o, q)[3] = NameOrder[o.provider] /\ Rank(o, q)[4] = NameOrder[o.model]
  BY RankTyped
<1>2. ASSUME NEW o \in options, NEW i \in 1..4 PROVE Rank(o, q)[i] \in Nat
  BY <1>1, ElementOfSeq
<1>3. PICK a \in options : \A x \in options : Rank(a, q)[1] <= Rank(x, q)[1]
  <2> DEFINE f == [o \in options |-> Rank(o, q)[1]]
  <2>1. f \in [options -> Nat]
    BY <1>2
  <2>2. \E x \in options : \A y \in options : f[x] <= f[y]
    <3> HIDE DEF f
    <3> QED
      BY <2>1, LeastBy
  <2> QED
    BY <2>2
<1> DEFINE firsts == {x \in options : Rank(x, q)[1] = Rank(a, q)[1]}
<1>4. PICK b \in firsts : \A x \in firsts : Rank(b, q)[2] <= Rank(x, q)[2]
  <2> DEFINE f == [o \in firsts |-> Rank(o, q)[2]]
  <2>1. f \in [firsts -> Nat] /\ firsts # {}
    BY <1>2
  <2>2. \E x \in firsts : \A y \in firsts : f[x] <= f[y]
    <3> HIDE DEF f, firsts
    <3> QED
      BY <2>1, LeastBy
  <2> QED
    BY <2>2
<1> DEFINE seconds == {x \in firsts : Rank(x, q)[2] = Rank(b, q)[2]}
<1>5. PICK c \in seconds : \A x \in seconds : Rank(c, q)[3] <= Rank(x, q)[3]
  <2> DEFINE f == [o \in seconds |-> Rank(o, q)[3]]
  <2>1. f \in [seconds -> Nat] /\ seconds # {}
    BY <1>2
  <2>2. \E x \in seconds : \A y \in seconds : f[x] <= f[y]
    <3> HIDE DEF f, seconds
    <3> QED
      BY <2>1, LeastBy
  <2> QED
    BY <2>2
<1> DEFINE thirds == {x \in seconds : Rank(x, q)[3] = Rank(c, q)[3]}
<1>6. PICK d \in thirds : \A x \in thirds : Rank(d, q)[4] <= Rank(x, q)[4]
  <2> DEFINE f == [o \in thirds |-> Rank(o, q)[4]]
  <2>1. f \in [thirds -> Nat] /\ thirds # {}
    BY <1>2
  <2>2. \E x \in thirds : \A y \in thirds : f[x] <= f[y]
    <3> HIDE DEF f, thirds
    <3> QED
      BY <2>1, LeastBy
  <2> QED
    BY <2>2
<1>7. ASSUME NEW x \in options, x.provider # d.provider \/ x.model # d.model
      PROVE  Precedes(Rank(d, q), Rank(x, q))
  <2> DEFINE r == Rank(d, q)
             s == Rank(x, q)
  <2>1. DOMAIN r = 1..4 /\ \A i \in 1..4 : r[i] \in Nat /\ s[i] \in Nat
    BY <1>1, <1>2
  <2>2. r[3] # s[3] \/ r[4] # s[4]
    <3>1. d \in options /\ x \in options
      OBVIOUS
    <3> HIDE DEF thirds, seconds, firsts
    <3>2. {x.provider, d.provider} \subseteq Providers /\ {x.model, d.model} \subseteq Models
      BY <3>1 DEF Options
    <3>3. NameOrder[x.provider] # NameOrder[d.provider] \/ NameOrder[x.model] # NameOrder[d.model]
      BY <1>7, <3>2
    <3> QED
      BY <1>1, <3>1, <3>3
  <2>3. \/ r[1] < s[1]
        \/ r[1] = s[1] /\ r[2] < s[2]
        \/ r[1] = s[1] /\ r[2] = s[2] /\ r[3] < s[3]
        \/ r[1] = s[1] /\ r[2] = s[2] /\ r[3] = s[3] /\ r[4] < s[4]
    BY <1>3, <1>4, <1>5, <1>6, <2>1, <2>2
  <2> HIDE DEF r, s
  <2>4. \E i \in 1..4 : r[i] < s[i] /\ \A k \in 1..(i - 1) : r[k] = s[k]
    BY <2>1, <2>3
  <2> QED
    BY <2>1, <2>4 DEF Precedes, r, s
<1> QED
  BY <1>7 DEF BestOption

--------------------------------------------------------------------------------
(* Admission.                                                               *)

Choices == [provider : Providers, model : Models]

(* A catalogue lists models under providers.                                 *)
LEMMA CatalogTyped ==
    ASSUME NEW reply \in Replies
    PROVE  /\ DOMAIN CatalogOf(reply) \subseteq Providers
           /\ \A p \in DOMAIN CatalogOf(reply) : CatalogOf(reply)[p] \subseteq Models
BY CatalogsOfModels

(* What the options of a catalogue are made of.                              *)
LEMMA OptionsTyped ==
    ASSUME NEW catalog, DOMAIN catalog \subseteq Providers,
           \A p \in DOMAIN catalog : catalog[p] \subseteq Models
    PROVE  OptionsOf(catalog) \subseteq Option
BY DEF OptionsOf, WithOption, Option

(* The configured default is an option of every catalogue.                  *)
LEMMA DefaultOffered ==
    ASSUME NEW catalog
    PROVE  \E o \in OptionsOf(catalog) :
               o.provider = DefaultProvider /\ o.model = DefaultModel /\ o.source # "local"
<1> DEFINE listed == UNION {{[provider |-> p, model |-> m, source |-> "apicred"] :
                            m \in IF catalog[p] = {} THEN {NoModel} ELSE catalog[p]} : p \in DOMAIN catalog}
           default == [provider |-> DefaultProvider, model |-> DefaultModel, source |-> "config"]
           local == [provider |-> ScriptedProvider, model |-> ScriptedModel, source |-> "local"]
<1>1. OptionsOf(catalog) = WithOption(WithOption(listed, default), local)
  BY DEF OptionsOf
<1>2. \A o \in listed : o.source # "local"
  OBVIOUS
<1>3. \E o \in WithOption(listed, default) :
          o.provider = DefaultProvider /\ o.model = DefaultModel /\ o.source # "local"
  <2>1. \/ \E x \in listed : x.provider = default.provider /\ x.model = default.model
        \/ default \in WithOption(listed, default)
    BY DEF WithOption
  <2>2. listed \subseteq WithOption(listed, default)
    BY DEF WithOption
  <2>3. default.provider = DefaultProvider /\ default.model = DefaultModel /\ default.source # "local"
    OBVIOUS
  <2> HIDE DEF listed, default
  <2> QED
    BY <1>2, <2>1, <2>2, <2>3
<1> QED
  <2> HIDE DEF listed, default, local
  <2>1. WithOption(listed, default) \subseteq OptionsOf(catalog)
    BY <1>1 DEF WithOption
  <2> QED
    BY <1>3, <2>1

(* The default of a catalogue that knows the provider is accepted by it.     *)
LEMMA DefaultChoiceGood ==
    ASSUME NEW catalog, DOMAIN catalog \subseteq Providers,
           \A p \in DOMAIN catalog : catalog[p] \subseteq Models,
           NEW provider \in Providers \cup {NoProvider}, NEW q \in Qualities
    PROVE  /\ DefaultChoice(provider, q, catalog) \in Choices
           /\ provider \in {NoProvider} \cup DOMAIN catalog =>
                  Accepted(DefaultChoice(provider, q, catalog), OptionsOf(catalog))
<1> DEFINE options == {o \in OptionsOf(catalog) : o.model # NoModel /\ o.source # "local"}
           scoped == {o \in options : o.provider = provider}
           best == BestOption(options, q)
           choice0 == DefaultChoice(provider, q, catalog)
<1>1. options \in SUBSET Options /\ scoped \in SUBSET Options
  BY OptionsTyped DEF Option, Options
<1>2. options # {}
  BY DefaultOffered
<1>3. best \in options
  <2> HIDE DEF options
  <2> QED
    BY <1>1, <1>2, BestExists
<1>4. CASE provider = NoProvider
  <2>1. choice0 = [provider |-> best.provider, model |-> best.model]
    BY <1>4 DEF DefaultChoice
  <2>3. best \in Options /\ best \in OptionsOf(catalog)
    BY <1>1, <1>3
  <2>4. choice0.provider = best.provider /\ choice0.model = best.model
    BY <1>1, <1>3, <2>1
  <2> HIDE DEF choice0, options, scoped
  <2>5. Listed(choice0, OptionsOf(catalog))
    BY <2>3, <2>4 DEF Listed
  <2>6. choice0 \in Choices
    BY <2>1, <2>3 DEF Choices, Options
  <2> QED
    BY <2>5, <2>6 DEF Accepted, choice0
<1>5. CASE provider # NoProvider /\ scoped # {}
  <2>1. choice0 = [provider |-> provider, model |-> BestOption(scoped, q).model]
    BY <1>5 DEF DefaultChoice
  <2>2. BestOption(scoped, q) \in scoped
    <3> HIDE DEF scoped
    <3> QED
      BY <1>1, <1>5, BestExists
  <2>3. BestOption(scoped, q) \in Options /\ BestOption(scoped, q) \in OptionsOf(catalog)
    BY <1>1, <2>2
  <2>4. choice0.provider = BestOption(scoped, q).provider /\ choice0.model = BestOption(scoped, q).model
    BY <1>1, <2>1, <2>2
  <2> HIDE DEF choice0, options, scoped
  <2>5. Listed(choice0, OptionsOf(catalog))
    BY <2>3, <2>4 DEF Listed
  <2>6. choice0 \in Choices
    BY <1>5, <2>1, <2>3 DEF Choices, Options
  <2> QED
    BY <2>5, <2>6 DEF Accepted, choice0
<1>6. CASE provider # NoProvider /\ scoped = {}
  <2>1. choice0 = [provider |-> provider, model |-> DefaultModel]
    BY <1>6 DEF DefaultChoice
  <2>2. ASSUME provider \in DOMAIN catalog
        PROVE  [provider |-> provider, model |-> NoModel, source |-> "apicred"] \in OptionsOf(catalog)
    <3>1. \A m \in Models : [provider |-> provider, model |-> m, source |-> "apicred"] \notin OptionsOf(catalog)
      BY <1>6
    <3>2. \A m \in IF catalog[provider] = {} THEN {NoModel} ELSE catalog[provider] :
              [provider |-> provider, model |-> m, source |-> "apicred"] \in OptionsOf(catalog)
      BY <2>2 DEF OptionsOf, WithOption
    <3>3. catalog[provider] = {}
      BY <2>2, <3>1, <3>2
    <3> QED
      BY <3>2, <3>3
  <2> QED
    BY <1>6, <2>1, <2>2 DEF Choices, Accepted
<1> QED
  BY <1>4, <1>5, <1>6

--------------------------------------------------------------------------------
(* The inductive invariant, in three parts.                                 *)

Deciding == {"idle", "refused", "default_catalog", "catalog"}
Preparing == {"admitted", "authorize", "scripted", "resolve_model", "api_key", "base_url", "fallback"}
InLoop == {"iterate", "decide", "judge", "review"}
Closing == {"report", "ended"}

(* The row of an admitted job is complete, and the choice that waits for the *)
(* second catalogue is the request's own or the first catalogue's default.   *)
PolicyInv ==
    /\ pc \in Deciding \cup Preparing \cup InLoop \cup Closing
    /\ request.provider \in Providers \cup {NoProvider}
    /\ pc \in {"default_catalog", "catalog"} =>
           request.quality \in Qualities /\ BudgetOf(request.budget) \in 1..MaxBudget
    /\ pc = "catalog" => choice \in Choices
    /\ pc \in {"idle", "default_catalog"} => catalogs = <<>>
    /\ pc = "catalog" /\ catalogs # <<>> =>
           /\ catalogs = <<catalogs[1]>>
           /\ DOMAIN catalogs[1] \subseteq Providers
           /\ \A p \in DOMAIN catalogs[1] : catalogs[1][p] \subseteq Models
           /\ choice = DefaultChoice(request.provider, request.quality, catalogs[1])
    /\ job.budget \in 1..MaxBudget \cup {NoBudget}
    /\ pc \in Preparing \cup InLoop \cup Closing =>
           job.provider \in Providers /\ job.model \in Models /\ job.budget \in 1..MaxBudget
    /\ AdmissionFollowsCatalog

(* The credential that names itself by the pair it is resolved for.         *)
PairOf(c) == [provider |-> c.provider, model |-> c.model]
KindFits(c) == (c.kind = "direct" => ~proxy) /\ (c.kind = "proxy" => proxy)

(* What the store has cached when the client reads its key and its address.  *)
WiringInv ==
    /\ proxy \in BOOLEAN
    /\ cache \in [Keys -> Credential \cup {NoCredential}]
    /\ client \in [key : Credential \cup {NoCredential}, url : Credential \cup {NoCredential}]
    /\ spec \in [provider : Providers \cup {NoProvider}, model : Models \cup {NoModel}]
    /\ KindFits(client.key)
    /\ pc \in Deciding \cup {"admitted", "authorize", "scripted", "resolve_model"} =>
           /\ \A k \in Keys : cache[k] = NoCredential
           /\ client = Fresh
    /\ pc = "api_key" => client = Fresh
    /\ pc = "api_key" =>
           \E c \in Credential :
              /\ spec = PairOf(c) /\ store = PairOf(c)
              /\ cache[<<c.provider, c.model>>] = c
              /\ \A k \in Keys : cache[k] \in {NoCredential, c}
              /\ KindFits(c)
    /\ pc = "base_url" =>
           /\ client.key \in Credential /\ client.key.provider = job.provider
           /\ store = PairOf(client.key)
           /\ cache[<<client.key.provider, client.key.model>>] = client.key
           /\ spec.provider = job.provider => spec.model = client.key.model
    /\ pc \in InLoop =>
           client.key \in Credential /\ client.key = client.url /\ spec = PairOf(client.key)

(* How far the tokens can be at each place of the loop.                     *)
MeterInv ==
    /\ attempt \in Nat \ {0}
    /\ limit \in Nat \cup {NoBudget}
    /\ limit # NoBudget => limit > 0
    /\ iteration \in 0..(MaxIterations + 1) /\ decision \in 0..DecisionAttempts
    /\ pc = "decide" => iteration < MaxIterations
    /\ pc \in InLoop => iteration <= MaxIterations
    /\ pc \in Deciding \cup Preparing => iteration = 0
    /\ meter \in Nat /\ used \in Nat /\ billed \in Nat
    /\ ending \in [how : {"running", "failed", "succeeded", "exception", "timeout"},
                   report : {"none", "reported", "failed"}]
    /\ pc \in Deciding \cup Preparing => meter = 0
    /\ limit # NoBudget =>
           /\ pc = "decide" => meter <= limit - 1
           /\ pc \in {"iterate", "judge"} => meter <= (limit - 1) + LargestReply
           /\ pc = "review" /\ iteration < MaxIterations => meter <= limit - 1
           /\ pc = "review" => meter <= (limit - 1) + 2 * LargestReply
           /\ meter <= (limit - 1) + 3 * LargestReply

BillingInv ==
    /\ pc \notin Closing => billed = 0
    /\ proxy => billed = 0
    /\ pc = "ended" /\ ~proxy /\ billed < meter =>
           ending.how \in {"timeout", "exception"} \/ ending.report = "failed"

AccessInv == PolicyInv /\ WiringInv /\ MeterInv /\ BillingInv

--------------------------------------------------------------------------------
(* Lemmas about the operators of the run.                                   *)

(* A call meters a number of tokens, whatever counts are left out.           *)
LEMMA MeterTyped ==
    ASSUME NEW r \in CallReplies PROVE MeterOf(r) \in Nat
<1>1. r.prompt # NoCount => r.prompt \in Nat
  OBVIOUS
<1>2. r.completion # NoCount => r.completion \in Nat
  OBVIOUS
<1>3. r.total # NoCount => r.total \in Nat
  OBVIOUS
<1> QED
  BY <1>1, <1>2, <1>3 DEF MeterOf

(* No reply meters more than the largest one.                                *)
LEMMA LargestTyped ==
    /\ LargestReply \in Nat
    /\ \A r \in CallReplies : MeterOf(r) <= LargestReply
<1> DEFINE M == {MeterOf(r) : r \in CallReplies}
<1>1. \E n \in M : \A r \in CallReplies : n >= MeterOf(r)
  <2>1. PICK r0 \in CallReplies : \A r \in CallReplies : MeterOf(r0) >= MeterOf(r)
    BY RepliesBounded
  <2> WITNESS MeterOf(r0) \in M
  <2> QED
    BY <2>1
<1>2. LargestReply \in M /\ \A r \in CallReplies : LargestReply >= MeterOf(r)
  <2> HIDE DEF M
  <2>1. LargestReply = CHOOSE n \in M : \A r \in CallReplies : n >= MeterOf(r)
    BY DEF LargestReply, M
  <2> QED
    BY <1>1, <2>1
<1> QED
  BY <1>2, MeterTyped

(* The budget of a run is positive and within the job's.                     *)
LEMMA BudgetSmallest ==
    ASSUME NEW b \in 1..MaxBudget, NEW g \in Nat \cup {NoBudget}
    PROVE  RuntimeBudget(b, g) \in 1..b
<1> DEFINE positive == {x \in {b, g} : x # NoBudget /\ x > 0}
<1>1. b \in positive /\ positive \subseteq Nat \ {0}
  OBVIOUS
<1>2. \E m \in positive : \A x \in positive : m <= x
  <2>1. CASE g # NoBudget /\ g > 0 /\ g < b
    BY <2>1
  <2>2. CASE ~(g # NoBudget /\ g > 0 /\ g < b)
    BY <2>2
  <2> QED
    BY <2>1, <2>2
<1>3. RuntimeBudget(b, g) = CHOOSE m \in positive : \A x \in positive : m <= x
  BY <1>1 DEF RuntimeBudget
<1> HIDE DEF positive
<1>4. /\ RuntimeBudget(b, g) \in positive
      /\ \A x \in positive : RuntimeBudget(b, g) <= x
  BY <1>2, <1>3
<1>5. RuntimeBudget(b, g) \in Nat \ {0} /\ RuntimeBudget(b, g) <= b
  BY <1>1, <1>4
<1> QED
  BY <1>5

(* A credential is of the kind that the resolver is in the mode for.         *)
LEMMA ResolvesTyped ==
    ASSUME NEW p, NEW m, NEW c \in Credential, ResolvesTo(p, m, c), proxy \in BOOLEAN
    PROVE  proxy' \in BOOLEAN /\ (proxy => proxy') /\ KindFits(c)'
<1>1. CASE Local(p) /\ c = [provider |-> p, model |-> m, kind |-> "local"] /\ UNCHANGED proxy
  BY <1>1 DEF KindFits
<1>2. CASE proxy /\ c = [provider |-> p, model |-> m, kind |-> "proxy"] /\ UNCHANGED proxy
  BY <1>2 DEF KindFits
<1>3. CASE ~proxy /\ c.kind = "direct" /\ UNCHANGED proxy
  BY <1>3 DEF KindFits
<1>4. CASE c = [provider |-> p, model |-> m, kind |-> "proxy"] /\ proxy' = TRUE
  BY <1>4 DEF KindFits
<1> QED
  BY <1>1, <1>2, <1>3, <1>4 DEF ResolvesTo, AsksAPICred

(* What the store answers with: what it had cached, or what it caches now.  *)
LEMMA StoreTyped ==
    ASSUME NEW k \in Keys, NEW c \in Credential, StoreResolvesTo(k[1], k[2], c),
           cache \in [Keys -> Credential \cup {NoCredential}], proxy \in BOOLEAN
    PROVE  /\ proxy' \in BOOLEAN /\ (proxy => proxy')
           /\ \/ c = cache[k] /\ UNCHANGED <<proxy, cache>>
              \/ /\ cache[k] = NoCredential
                 /\ cache' = [cache EXCEPT ![k] = c, ![<<c.provider, c.model>>] = c]
                 /\ KindFits(c)'
<1>1. <<k[1], k[2]>> = k
  BY DEF Keys
<1> QED
  BY <1>1, ResolvesTyped DEF StoreResolvesTo

(* A credential is cached under a key and is not the absence of one.         *)
LEMMA KeyOf ==
    ASSUME NEW c \in Credential
    PROVE  <<c.provider, c.model>> \in Keys /\ c # NoCredential
BY DEF Credential, NoCredential, Keys, Kinds

--------------------------------------------------------------------------------
(* What each part of the run leaves alone.                                  *)

Authorizing ==
    Authorize \/ (\E grant \in Grants : Authorized(grant)) \/ AuthorizedWithoutAPICred \/ NotAuthorized
Assembling ==
    ResolveModel \/ GetApiKey \/ GetBaseUrl \/ RuntimeRefuses \/ Fallback \/ NotResolved
LoopStep ==
    \/ StartIteration \/ ModelRequest \/ CandidateRefused \/ ReviewTimesOut
    \/ RetryCall \/ RetryDecision \/ DecisionFails \/ ControllerTurn \/ LoopRaises \/ ScriptedLoop
Reporting == UsageReported \/ UsageReportRepeated \/ UsageReportFails

Endings == [how : {"running", "failed", "succeeded", "exception", "timeout"},
            report : {"none", "reported", "failed"}]

(* Admission touches nothing of the run.                                     *)
LEMMA AdmissionFrame ==
    ASSUME Admission
    PROVE  /\ UNCHANGED <<deployment, proxy, attempt, assembly, loop, billed, ending>>
           /\ pc \in Deciding /\ pc' \in Deciding \cup {"admitted"}
BY DEF Admission, PolicyNext, CreateJob, ChooseDefault, CheckChoice, Admit, Deciding

(* What assembly leads to.                                                   *)
LEMMA AssembleShape ==
    ASSUME NEW grant \in Nat \cup {NoBudget}, Assemble(grant), job.budget \in 1..MaxBudget
    PROVE  /\ limit' \in 1..MaxBudget
           /\ attempt' = 1 /\ pc' \in {"scripted", "fallback", "resolve_model"}
<1>1. limit' \in 1..job.budget
  BY BudgetSmallest DEF Assemble
<1>2. attempt' = 1 /\ pc' \in {"scripted", "fallback", "resolve_model"}
  BY DEF Assemble, Goto
<1> QED
  BY <1>1, <1>2

(* Authorization sets the budget and may switch to proxy mode.               *)
LEMMA AuthorizingFrame ==
    ASSUME Authorizing, job.budget \in 1..MaxBudget, ending \in Endings, proxy \in BOOLEAN
    PROVE  /\ pc \in {"admitted", "authorize"}
           /\ pc' \in {"authorize", "scripted", "fallback", "resolve_model", "ended"}
           /\ job' = job /\ (request' = request \/ request' = NoRequest)
           /\ UNCHANGED <<deployment, assembly, iteration, decision, meter, used, billed>>
           /\ proxy' \in BOOLEAN /\ (proxy => proxy')
           /\ limit' = limit \/ limit' \in 1..MaxBudget
           /\ attempt' = 1 /\ ending' \in Endings
<1>1. CASE Authorize
  <2>1. CASE Assemble(NoBudget)
    BY <1>1, <2>1, AssembleShape DEF Authorize
  <2>2. CASE Goto("authorize") /\ UNCHANGED limit
    BY <1>1, <2>2 DEF Authorize, Goto
  <2> QED
    BY <1>1, <2>1, <2>2 DEF Authorize
<1>2. CASE \E grant \in Grants : Authorized(grant)
  BY <1>2, AssembleShape DEF Authorized, authorizing, policyVars
<1>3. CASE AuthorizedWithoutAPICred
  <2>1. pc = "authorize" /\ Assemble(NoBudget) /\ UNCHANGED authorizing
    BY <1>3 DEF AuthorizedWithoutAPICred
  <2>2. proxy' = proxy \/ proxy' = TRUE
    BY <1>3 DEF AuthorizedWithoutAPICred
  <2> QED
    BY <2>1, <2>2, AssembleShape DEF authorizing, policyVars
<1>4. CASE NotAuthorized
  BY <1>4 DEF NotAuthorized, End, Goto, policyVars, loop, Endings
<1> QED
  BY <1>1, <1>2, <1>3, <1>4 DEF Authorizing

(* Runtime assembly touches neither the job nor the meter.                   *)
LEMMA AssemblingFrame ==
    ASSUME Assembling, ending \in Endings
    PROVE  /\ pc \in {"resolve_model", "api_key", "base_url", "fallback"}
           /\ pc' \in {"api_key", "base_url", "fallback", "iterate", "ended"}
           /\ UNCHANGED <<policyVars, deployment, loop, billed>>
           /\ attempt' = 1 /\ ending' \in Endings
<1>1. CASE NotResolved
  BY <1>1 DEF NotResolved, End, Goto, Endings
<1> QED
  BY <1>1 DEF Assembling, ResolveModel, GetApiKey, GetBaseUrl, RuntimeRefuses, Fallback, Goto, assembling

(* A retried request only counts its attempt.                                *)
LEMMA RetryFrame ==
    ASSUME RetryRequest, attempt \in Nat \ {0}
    PROVE  /\ UNCHANGED <<pc, policyVars, deployment, proxy, assembly, loop, billed, ending>>
           /\ attempt' \in Nat \ {0}
BY DEF RetryRequest

(* The loop touches neither the job nor the client.                          *)
LEMMA LoopFrame ==
    ASSUME LoopStep, attempt \in Nat \ {0}, ending \in Endings
    PROVE  /\ pc \in InLoop \cup {"scripted"} /\ pc' \in InLoop \cup Closing
           /\ pc = "scripted" => pc' \in Closing
           /\ UNCHANGED <<policyVars, deployment, proxy, assembly, limit, billed>>
           /\ attempt' \in Nat \ {0} /\ ending' \in Endings
<1> USE DEF calls, Goto, Return, End, InLoop, Closing, Endings, Calling, NextIteration, SentBack
<1>1. CASE StartIteration
  BY <1>1 DEF StartIteration
<1>2. CASE ModelRequest
  BY <1>2 DEF ModelRequest, DecisionAnswered, JudgeAnswered, ReviewAnswered
<1>3. CASE CandidateRefused
  BY <1>3 DEF CandidateRefused
<1>4. CASE ReviewTimesOut
  BY <1>4 DEF ReviewTimesOut
<1>5. CASE RetryCall
  BY <1>5 DEF RetryCall
<1>6. CASE RetryDecision
  BY <1>6 DEF RetryDecision
<1>7. CASE DecisionFails
  BY <1>7 DEF DecisionFails
<1>8. CASE ControllerTurn
  BY <1>8 DEF ControllerTurn
<1>9. CASE LoopRaises
  BY <1>9 DEF LoopRaises
<1>10. CASE ScriptedLoop
  BY <1>10 DEF ScriptedLoop
<1> QED
  BY <1>1, <1>2, <1>3, <1>4, <1>5, <1>6, <1>7, <1>8, <1>9, <1>10 DEF LoopStep

(* The report touches only what APICred counted.                             *)
LEMMA ReportingFrame ==
    ASSUME Reporting, attempt \in Nat \ {0}, ending \in Endings, billed \in Nat, meter \in Nat
    PROVE  /\ pc = "report" /\ pc' \in Closing
           /\ UNCHANGED <<policyVars, deployment, proxy, assembly, loop>>
           /\ attempt' \in Nat \ {0} /\ ending' \in Endings /\ billed' \in {billed, billed + meter}
           /\ proxy => billed' = billed
           /\ pc' = "ended" => \/ ending'.report = "failed"
                               \/ proxy
                               \/ billed' = billed + meter
<1> USE DEF reporting, Reports, Goto, Closing, Endings
<1>1. CASE UsageReported
  BY <1>1 DEF UsageReported
<1>2. CASE UsageReportRepeated
  BY <1>2 DEF UsageReportRepeated
<1>3. CASE UsageReportFails
  BY <1>3 DEF UsageReportFails
<1> QED
  BY <1>1, <1>2, <1>3 DEF Reporting

--------------------------------------------------------------------------------
(* The invariant holds at the start.                                        *)

(* The initial states.                                                       *)
LEMMA InitInv == AccessInit => AccessInv
<1> SUFFICES ASSUME AccessInit PROVE AccessInv
  OBVIOUS
<1> USE DEF AccessInit, PolicyInit, Deciding, Preparing, InLoop, Closing
<1>1. PolicyInv
  BY DEF PolicyInv, AdmissionFollowsCatalog, NoRequest, NoJob
<1>2. WiringInv
  BY DEF WiringInv, KindFits, Fresh, NoCredential, NoSpec
<1>3. MeterInv
  BY DEF MeterInv, Running
<1>4. BillingInv
  BY DEF BillingInv
<1> QED
  BY <1>1, <1>2, <1>3, <1>4 DEF AccessInv

--------------------------------------------------------------------------------
(* PolicyInv.                                                               *)

(* After admission the job's row stays as it is.                             *)
LEMMA PolicyLater ==
    ASSUME PolicyInv, job' = job, request' = request \/ request' = NoRequest,
           pc \in Preparing \cup InLoop \cup Closing,
           pc' \in (Preparing \ {"admitted"}) \cup InLoop \cup Closing
    PROVE  PolicyInv'
<1>1. /\ pc' \in Preparing \cup InLoop \cup Closing
      /\ pc' \notin {"idle", "refused", "default_catalog", "catalog", "admitted"}
  BY DEF Preparing, InLoop, Closing
<1>2. request'.provider \in Providers \cup {NoProvider}
  <2>1. request.provider \in Providers \cup {NoProvider}
    BY DEF PolicyInv
  <2>2. NoRequest.provider = NoProvider
    BY DEF NoRequest
  <2> QED
    BY <2>1, <2>2
<1>3. job'.provider \in Providers /\ job'.model \in Models /\ job'.budget \in 1..MaxBudget
  BY DEF PolicyInv
<1> QED
  BY <1>1, <1>2, <1>3 DEF PolicyInv, AdmissionFollowsCatalog

(* Appending to no or one catalogue.                                         *)
LEMMA AppendOne ==
    ASSUME NEW x, NEW y
    PROVE  Append(<<>>, x) = <<x>> /\ Append(<<x>>, y) = <<x, y>>
<1>1. Append(<<>>, x) = <<x>>
  OBVIOUS
<1>2. Append(<<x>>, y) = <<x, y>>
  <2>1. <<x>> \in Seq({x, y}) /\ <<x, y>> \in Seq({x, y})
    OBVIOUS
  <2>2. /\ Append(<<x>>, y) \in Seq({x, y})
        /\ Len(Append(<<x>>, y)) = 2
        /\ Append(<<x>>, y)[1] = x /\ Append(<<x>>, y)[2] = y
    BY <2>1
  <2> DEFINE s == Append(<<x>>, y)
             t == <<x, y>>
  <2>3. s \in Seq({x, y}) /\ t \in Seq({x, y}) /\ Len(s) = Len(t) /\ Len(s) = 2
    BY <2>1, <2>2
  <2>4. \A i \in 1..2 : s[i] = t[i]
    BY <2>2
  <2> HIDE DEF s, t
  <2>5. s = t
    BY <2>3, <2>4, SeqEqual
  <2> QED
    BY <2>5 DEF s, t
<1> QED
  BY <1>1, <1>2


(* Every step keeps PolicyInv.                                               *)
LEMMA PolicyStep == PolicyInv /\ AccessNext /\ MeterInv /\ WiringInv => PolicyInv'
<1> SUFFICES ASSUME PolicyInv, AccessNext, MeterInv, WiringInv PROVE PolicyInv'
  OBVIOUS
<1>0. job.budget \in 1..MaxBudget \cup {NoBudget} /\ ending \in Endings /\ attempt \in Nat \ {0}
      /\ proxy \in BOOLEAN /\ billed \in Nat /\ meter \in Nat
  BY DEF PolicyInv, MeterInv, WiringInv, Endings
<1>1. ASSUME NEW r \in Requests, NEW b \in Budgets, CreateJob(r, b)
      PROVE  PolicyInv'
  <2>1. /\ r.provider \in Providers \cup {NoProvider} /\ r.model \in Models \cup {NoModel}
        /\ request'.provider = r.provider /\ request'.quality = r.quality /\ request'.budget = b
        /\ catalogs' = <<>>
    BY <1>1 DEF CreateJob
  <2> DEFINE p == IF r.provider = NoProvider THEN DefaultProvider ELSE r.provider
             wellFormed == BudgetOf(b) \in 1..MaxBudget /\ r.quality \in Qualities
  <2>2. p \in Providers
    BY <2>1
  <2> HIDE DEF p
  <2>3. CASE pc' = "refused" /\ job' = job
    BY <2>1, <2>3, <1>0 DEF PolicyInv, AdmissionFollowsCatalog, Deciding, Preparing, InLoop, Closing
  <2>4. CASE wellFormed /\ choice' = [provider |-> ScriptedProvider, model |-> ScriptedModel] /\ Admit(choice')
    BY <2>1, <2>4 DEF Admit, PolicyInv, AdmissionFollowsCatalog, Deciding, Preparing, InLoop, Closing
  <2>5. CASE /\ wellFormed
             /\ choice' = [provider |-> p, model |-> r.model]
             /\ pc' = IF r.model = NoModel THEN "default_catalog" ELSE "catalog"
             /\ job' = job
    BY <2>1, <2>2, <2>5, <1>0
       DEF PolicyInv, AdmissionFollowsCatalog, Choices, Deciding, Preparing, InLoop, Closing
  <2> QED
    BY <1>1, <2>3, <2>4, <2>5 DEF CreateJob, p
<1>2. ASSUME NEW reply \in Replies, ChooseDefault(reply)
      PROVE  PolicyInv'
  <2> DEFINE c == CatalogOf(reply)
  <2>1. DOMAIN c \subseteq Providers /\ \A q \in DOMAIN c : c[q] \subseteq Models
    BY CatalogTyped
  <2>2. /\ request.provider \in Providers \cup {NoProvider}
        /\ request.quality \in Qualities /\ BudgetOf(request.budget) \in 1..MaxBudget
    BY <1>2 DEF PolicyInv, ChooseDefault
  <2>3. /\ pc' = "catalog" /\ request' = request /\ job' = job /\ catalogs' = <<c>>
        /\ choice' = DefaultChoice(request.provider, request.quality, c)
    BY <1>2 DEF ChooseDefault
  <2> HIDE DEF c
  <2>4. choice' \in Choices
    BY <2>1, <2>2, <2>3, DefaultChoiceGood
  <2>5. catalogs'[1] = c
    BY <2>3
  <2> QED
    BY <1>0, <2>1, <2>2, <2>3, <2>4, <2>5
       DEF PolicyInv, AdmissionFollowsCatalog, Deciding, Preparing, InLoop, Closing
<1>3. ASSUME NEW reply \in Replies, CheckChoice(reply)
      PROVE  PolicyInv'
  <2> DEFINE c == CatalogOf(reply)
             first == catalogs[1]
  <2>1. /\ pc = "catalog" /\ request' = request /\ catalogs' = Append(catalogs, c)
        /\ choice' = choice
    BY <1>3 DEF CheckChoice
  <2>2. /\ request.provider \in Providers \cup {NoProvider} /\ choice \in Choices
        /\ request.quality \in Qualities /\ BudgetOf(request.budget) \in 1..MaxBudget
    BY <2>1 DEF PolicyInv
  <2> HIDE DEF c, first
  <2>3. \/ catalogs' = <<c>>
        \/ /\ catalogs' = <<first, c>>
           /\ DOMAIN first \subseteq Providers /\ \A p \in DOMAIN first : first[p] \subseteq Models
           /\ choice = DefaultChoice(request.provider, request.quality, first)
    <3>1. CASE catalogs = <<>>
      BY <2>1, <3>1, AppendOne
    <3>2. CASE catalogs # <<>>
      <4>1. catalogs = <<first>>
        BY <2>1, <3>2 DEF PolicyInv, first
      <4>2. catalogs' = <<first, c>>
        BY <2>1, <4>1, AppendOne
      <4> QED
        BY <2>1, <3>2, <4>2 DEF PolicyInv, first
    <3> QED
      BY <3>1, <3>2
  <2>4. catalogs'[Len(catalogs')] = c
    <3>1. CASE catalogs' = <<c>>
      BY <3>1
    <3>2. CASE catalogs' = <<first, c>>
      BY <3>2
    <3> QED
      BY <2>3, <3>1, <3>2
  <2>5. CASE Accepted(choice, OptionsOf(c)) /\ Admit(choice)
    <3>1. Accepted(job', OptionsOf(c))
      BY <2>5 DEF Admit, Accepted, Listed
    <3>2. pc' = "admitted" /\ job'.provider \in Providers /\ job'.model \in Models /\ job'.budget \in 1..MaxBudget
      BY <2>1, <2>2, <2>5 DEF Admit, Choices
    <3> QED
      BY <2>1, <2>2, <2>4, <3>1, <3>2
         DEF PolicyInv, AdmissionFollowsCatalog, Deciding, Preparing, InLoop, Closing
  <2>6. CASE ~Accepted(choice, OptionsOf(c)) /\ pc' = "refused" /\ job' = job
    <3>1. ASSUME Len(catalogs') = 2, catalogs'[1] = catalogs'[2]
          PROVE  request.provider \notin {NoProvider} \cup DOMAIN catalogs'[1]
      <4>0. catalogs' # <<c>>
        BY <3>1
      <4>1. catalogs'[1] = first /\ first = c
        <5>1. catalogs' = <<first, c>>
          BY <2>3, <4>0
        <5> QED
          BY <3>1, <5>1
      <4>2. choice = DefaultChoice(request.provider, request.quality, first)
            /\ DOMAIN first \subseteq Providers /\ \A p \in DOMAIN first : first[p] \subseteq Models
        BY <2>3, <4>0
      <4>3. request.provider \in {NoProvider} \cup DOMAIN first => Accepted(choice, OptionsOf(first))
        BY <2>2, <4>2, DefaultChoiceGood
      <4> QED
        BY <2>6, <4>1, <4>3
    <3> QED
      BY <1>0, <2>1, <2>2, <2>6, <3>1
         DEF PolicyInv, AdmissionFollowsCatalog, Deciding, Preparing, InLoop, Closing
  <2> QED
    BY <1>3, <2>5, <2>6 DEF CheckChoice, c
<1>4. CASE Authorizing
  <2>1. job.budget \in 1..MaxBudget
    BY <1>4 DEF PolicyInv, Preparing, Authorizing, Authorize, Authorized, AuthorizedWithoutAPICred, NotAuthorized
  <2> QED
    BY <1>0, <1>4, <2>1, AuthorizingFrame, PolicyLater DEF Preparing, Closing
<1>5. CASE RetryRequest
  <2>1. UNCHANGED <<pc, policyVars>>
    BY <1>0, <1>5, RetryFrame
  <2> QED
    BY <2>1 DEF policyVars, PolicyInv, AdmissionFollowsCatalog
<1>6. CASE Assembling
  BY <1>0, <1>6, AssemblingFrame, PolicyLater DEF policyVars, Preparing, InLoop, Closing
<1>7. CASE LoopStep
  BY <1>0, <1>7, LoopFrame, PolicyLater DEF policyVars, Preparing, InLoop, Closing
<1>8. CASE Reporting
  BY <1>0, <1>8, ReportingFrame, PolicyLater DEF policyVars, Preparing, InLoop, Closing
<1> QED
  BY <1>1, <1>2, <1>3, <1>4, <1>5, <1>6, <1>7, <1>8
     DEF AccessNext, Access, Admission, PolicyNext, Authorizing, Assembling, LoopStep, Reporting

--------------------------------------------------------------------------------
(* WiringInv.                                                               *)

(* Once the client is made, its credentials stay.                            *)
LEMMA WiringLater ==
    ASSUME WiringInv, UNCHANGED <<proxy, assembly>>,
           pc \in InLoop \cup Closing \cup {"scripted"}, pc' \in InLoop \cup Closing,
           pc' \in InLoop => pc \in InLoop
    PROVE  WiringInv'
BY DEF WiringInv, KindFits, PairOf, assembly, Fresh, Deciding, Preparing, InLoop, Closing

(* The pair a credential is for.                                             *)
LEMMA PairTyped ==
    ASSUME NEW c \in Credential
    PROVE  PairOf(c) \in [provider : Providers \cup {NoProvider}, model : Models \cup {NoModel}]
BY DEF PairOf, Credential

(* A client without credentials is of no kind.                               *)
LEMMA FreshFits == KindFits(Fresh.key) /\ KindFits(Fresh.key)'
BY DEF KindFits, Fresh, NoCredential

(* Every step keeps WiringInv.                                               *)
LEMMA WiringStep == AccessInv /\ AccessNext => WiringInv'
<1> SUFFICES ASSUME AccessInv, AccessNext PROVE WiringInv'
  OBVIOUS
<1>0. /\ PolicyInv /\ WiringInv /\ MeterInv
      /\ ending \in Endings /\ attempt \in Nat \ {0}
      /\ proxy \in BOOLEAN /\ billed \in Nat /\ meter \in Nat
      /\ cache \in [Keys -> Credential \cup {NoCredential}]
      /\ client \in [key : Credential \cup {NoCredential}, url : Credential \cup {NoCredential}]
  BY DEF AccessInv, MeterInv, WiringInv, Endings
<1>j. pc \in Preparing => job.provider \in Providers /\ job.model \in Models /\ job.budget \in 1..MaxBudget
  BY <1>0 DEF PolicyInv
<1>1. CASE Admission
  BY <1>0, <1>1, AdmissionFrame DEF assembly, WiringInv, KindFits, Fresh, Deciding, InLoop
<1>2. CASE Authorizing
  <2>1. pc \in Preparing
    BY <1>2 DEF Preparing, Authorizing, Authorize, Authorized, AuthorizedWithoutAPICred, NotAuthorized
  <2>2. /\ pc \in {"admitted", "authorize"}
        /\ pc' \in {"authorize", "scripted", "fallback", "resolve_model", "ended"}
        /\ UNCHANGED assembly
        /\ proxy' \in BOOLEAN
    BY <1>0, <1>j, <1>2, <2>1, AuthorizingFrame
  <2>3. client = Fresh /\ client' = Fresh
    BY <1>0, <2>2 DEF WiringInv, assembly
  <2> QED
    BY <1>0, <2>2, <2>3, FreshFits DEF WiringInv, assembly, Deciding, InLoop
<1>3. CASE RetryRequest
  BY <1>0, <1>3, RetryFrame DEF policyVars, assembly, WiringInv, KindFits
<1>4. ASSUME NEW c \in Credential, pc = "resolve_model",
             StoreResolvesTo(job.provider, job.model, c),
             spec' = [provider |-> c.provider, model |-> c.model], store' = spec',
             pc' = "api_key", UNCHANGED client
      PROVE  WiringInv'
  <2> DEFINE k == <<job.provider, job.model>>
             kc == <<c.provider, c.model>>
  <2>1. k \in Keys /\ kc \in Keys /\ c # NoCredential
    BY <1>j, <1>4, KeyOf DEF Keys, Preparing
  <2>2. client = Fresh /\ \A x \in Keys : cache[x] = NoCredential
    BY <1>0, <1>4 DEF WiringInv
  <2>3. /\ proxy' \in BOOLEAN
        /\ cache' = [cache EXCEPT ![k] = c, ![kc] = c]
        /\ KindFits(c)'
    <3>1. StoreResolvesTo(k[1], k[2], c)
      BY <1>4
    <3> HIDE DEF k, kc
    <3> QED
      BY <1>0, <2>1, <2>2, <3>1, StoreTyped DEF kc
  <2> HIDE DEF k, kc
  <2>4. /\ cache' \in [Keys -> Credential \cup {NoCredential}]
        /\ cache'[kc] = c /\ \A x \in Keys : cache'[x] \in {NoCredential, c}
    BY <1>0, <2>1, <2>2, <2>3
  <2>5. client' = Fresh
    BY <1>4, <2>2
  <2>6. client'.key = Fresh.key /\ client' \in [key : Credential \cup {NoCredential}, url : Credential \cup {NoCredential}]
    BY <1>0, <1>4, <2>5
  <2>7. KindFits(client.key)'
    BY <2>6, FreshFits DEF KindFits
  <2>8. spec' = PairOf(c) /\ store' = PairOf(c)
        /\ spec' \in [provider : Providers \cup {NoProvider}, model : Models \cup {NoModel}]
    BY <1>4, PairTyped DEF PairOf
  <2> QED
    BY <1>4, <2>3, <2>4, <2>5, <2>6, <2>7, <2>8 DEF WiringInv, PairOf, kc, Deciding, InLoop, KindFits
<1>5. ASSUME NEW c \in Credential, pc = "api_key",
             StoreResolvesTo(job.provider, store.model, c),
             store' = [provider |-> c.provider, model |-> c.model],
             UNCHANGED <<job, spec>>,
             \/ c.provider = job.provider /\ client' = [client EXCEPT !.key = c] /\ pc' = "base_url"
             \/ c.provider # job.provider /\ pc' = "fallback" /\ UNCHANGED client
      PROVE  WiringInv'
  <2>1. PICK d \in Credential :
           /\ spec = PairOf(d) /\ store = PairOf(d)
           /\ cache[<<d.provider, d.model>>] = d
           /\ \A x \in Keys : cache[x] \in {NoCredential, d}
           /\ KindFits(d)
    BY <1>0, <1>5 DEF WiringInv
  <2> DEFINE k == <<job.provider, store.model>>
             kc == <<c.provider, c.model>>
             kd == <<d.provider, d.model>>
  <2>2. store.model = d.model /\ spec.provider = d.provider /\ spec.model = d.model
    BY <2>1 DEF PairOf
  <2>3. k \in Keys /\ kc \in Keys /\ kd \in Keys /\ c # NoCredential
    BY <1>j, <1>5, <2>2, KeyOf DEF Keys, Preparing, Credential
  <2>4. StoreResolvesTo(k[1], k[2], c)
    BY <1>5
  <2>6. CASE c = cache[k] /\ UNCHANGED <<proxy, cache>>
    <3>1. c = d
      BY <2>1, <2>3, <2>6
    <3>2. CASE c.provider = job.provider /\ client' = [client EXCEPT !.key = c] /\ pc' = "base_url"
      <4>1. client'.key = c /\ client' \in [key : Credential \cup {NoCredential}, url : Credential \cup {NoCredential}]
        BY <1>0, <3>2
      <4>2. cache'[<<c.provider, c.model>>] = c /\ KindFits(c)' /\ spec' = spec
        BY <1>5, <2>1, <2>6, <3>1 DEF KindFits
      <4> QED
        BY <1>0, <1>5, <2>2, <2>6, <3>1, <3>2, <4>1, <4>2 DEF WiringInv, PairOf, Deciding, InLoop, KindFits
    <3>3. CASE pc' = "fallback" /\ UNCHANGED client
      BY <1>0, <1>5, <2>6, <3>3 DEF WiringInv, Deciding, InLoop, KindFits
    <3> QED
      BY <1>5, <3>2, <3>3
  <2>7. CASE /\ cache[k] = NoCredential
             /\ cache' = [cache EXCEPT ![k] = c, ![kc] = c]
             /\ KindFits(c)' /\ proxy' \in BOOLEAN /\ (proxy => proxy')
    <3>1. k # kd
      BY <2>1, <2>7, KeyOf
    <3>2. job.provider # spec.provider
      BY <2>2, <3>1
    <3>3. cache' \in [Keys -> Credential \cup {NoCredential}] /\ cache'[kc] = c
      <4> HIDE DEF k, kc, kd
      <4> QED
        BY <1>0, <2>3, <2>7
    <3>4. CASE c.provider = job.provider /\ client' = [client EXCEPT !.key = c] /\ pc' = "base_url"
      <4>1. client'.key = c /\ client' \in [key : Credential \cup {NoCredential}, url : Credential \cup {NoCredential}]
        BY <1>0, <3>4
      <4> QED
        BY <1>0, <1>5, <2>7, <3>2, <3>3, <3>4, <4>1 DEF WiringInv, PairOf, Deciding, InLoop, KindFits
    <3>5. CASE pc' = "fallback" /\ UNCHANGED client
      <4>1. client = Fresh
        BY <1>0, <1>5 DEF WiringInv
      <4> QED
        BY <1>0, <1>5, <2>7, <3>3, <3>5, <4>1, FreshFits DEF WiringInv, Deciding, InLoop, KindFits
    <3> QED
      BY <1>5, <3>4, <3>5
  <2>8. \/ c = cache[k] /\ UNCHANGED <<proxy, cache>>
        \/ /\ cache[k] = NoCredential
           /\ cache' = [cache EXCEPT ![k] = c, ![kc] = c]
           /\ KindFits(c)' /\ proxy' \in BOOLEAN /\ (proxy => proxy')
    <3> HIDE DEF k
    <3> QED
      BY <1>0, <2>3, <2>4, StoreTyped
  <2> QED
    BY <2>6, <2>7, <2>8
<1>6. ASSUME NEW c \in Credential, pc = "base_url",
             StoreResolvesTo(job.provider, store.model, c),
             client' = [client EXCEPT !.url = c],
             UNCHANGED <<job, spec>>,
             pc' = IF spec.provider = job.provider THEN "iterate" ELSE "fallback"
      PROVE  WiringInv'
  <2> DEFINE d == client.key
             k == <<job.provider, store.model>>
  <2>1. /\ d \in Credential /\ d.provider = job.provider /\ store = PairOf(d)
        /\ cache[<<d.provider, d.model>>] = d
        /\ spec.provider = job.provider => spec.model = d.model
        /\ KindFits(d)
    BY <1>0, <1>6 DEF WiringInv
  <2>2. k = <<d.provider, d.model>> /\ k \in Keys
    BY <2>1, KeyOf DEF PairOf
  <2>3. StoreResolvesTo(k[1], k[2], c)
    BY <1>6
  <2>4. cache[k] # NoCredential
    BY <2>1, <2>2, KeyOf
  <2>5. c = cache[k] /\ UNCHANGED <<proxy, cache>>
    <3> HIDE DEF k
    <3> QED
      BY <1>0, <2>2, <2>3, <2>4, StoreTyped
  <2>6. c = d
    BY <2>1, <2>2, <2>5
  <2>7. /\ client' \in [key : Credential \cup {NoCredential}, url : Credential \cup {NoCredential}]
        /\ client'.key = d /\ client'.url = d
    BY <1>0, <1>6, <2>6
  <2>8. KindFits(client.key)'
    BY <2>1, <2>5, <2>7 DEF KindFits
  <2>9. pc' = "iterate" => spec' = PairOf(d)
    <3>1. spec \in [provider : Providers \cup {NoProvider}, model : Models \cup {NoModel}]
      BY <1>0 DEF WiringInv
    <3> QED
      BY <1>6, <2>1, <3>1 DEF PairOf
  <2> HIDE DEF d, k
  <2> QED
    BY <1>0, <1>6, <2>1, <2>5, <2>7, <2>8, <2>9 DEF WiringInv, Deciding, InLoop, KindFits
<1>7. ASSUME NEW c \in Credential, ResolvesTo(job.provider, job.model, c),
             client' = [key |-> c, url |-> c],
             spec' = [provider |-> c.provider, model |-> c.model],
             UNCHANGED cache, pc' = "iterate"
      PROVE  WiringInv'
  <2>1. proxy' \in BOOLEAN /\ KindFits(c)'
    BY <1>0, <1>7, ResolvesTyped
  <2>2. /\ client' \in [key : Credential \cup {NoCredential}, url : Credential \cup {NoCredential}]
        /\ client'.key = c /\ client'.url = c /\ spec' = PairOf(c)
    BY <1>7 DEF PairOf
  <2>3. spec' \in [provider : Providers \cup {NoProvider}, model : Models \cup {NoModel}]
    BY <2>2, PairTyped
  <2> QED
    BY <1>0, <1>7, <2>1, <2>2, <2>3 DEF WiringInv, Deciding, InLoop, KindFits, PairOf
<1>8. ASSUME pc' \in {"fallback", "ended"}, UNCHANGED <<proxy, assembly>>
      PROVE  WiringInv'
  BY <1>0, <1>8 DEF WiringInv, assembly, KindFits, Deciding, InLoop
<1>9. CASE Assembling
  <2>1. CASE ResolveModel
    BY <1>4, <2>1 DEF ResolveModel, Goto
  <2>2. CASE GetApiKey
    BY <1>5, <2>2 DEF GetApiKey, Goto, assembling, policyVars
  <2>3. CASE GetBaseUrl
    BY <1>6, <2>3 DEF GetBaseUrl, Goto, assembling, policyVars
  <2>4. CASE RuntimeRefuses \/ NotResolved
    BY <1>8, <2>4 DEF RuntimeRefuses, NotResolved, End, Goto
  <2>5. CASE Fallback
    BY <1>7, <2>5 DEF Fallback, Goto
  <2> QED
    BY <1>9, <2>1, <2>2, <2>3, <2>4, <2>5 DEF Assembling
<1>10. CASE LoopStep
  BY <1>0, <1>10, LoopFrame, WiringLater DEF InLoop, Closing
<1>11. CASE Reporting
  BY <1>0, <1>11, ReportingFrame, WiringLater DEF InLoop, Closing
<1> QED
  BY <1>1, <1>2, <1>3, <1>9, <1>10, <1>11
     DEF AccessNext, Access, Authorizing, Assembling, LoopStep, Reporting

--------------------------------------------------------------------------------
(* MeterInv.                                                                *)

(* A budget bounds a meter at zero.                                          *)
LEMMA Slack ==
    \A n \in Nat \ {0}, k \in Nat :
        0 <= n - 1 /\ 0 <= (n - 1) + k /\ 0 <= (n - 1) + 2 * k /\ 0 <= (n - 1) + 3 * k
OBVIOUS

(* Steps that meter nothing.                                                 *)
LEMMA MeterFrame ==
    ASSUME MeterInv, UNCHANGED <<iteration, decision, meter, used>>,
           limit' = limit \/ (limit' \in Nat \ {0} /\ meter = 0),
           attempt' \in Nat \ {0}, ending' \in Endings, billed' \in Nat,
           \/ pc \in Deciding \cup Preparing /\ pc' \in Deciding \cup Preparing \cup {"iterate", "ended"}
           \/ pc \in Closing /\ pc' \in Closing
           \/ pc' = pc /\ limit' = limit
    PROVE  MeterInv'
<1>0. LargestReply \in Nat
  BY LargestTyped
<1>1. limit' # NoBudget => limit' \in Nat \ {0} /\ meter' <= (limit' - 1) + 3 * LargestReply
  <2>1. CASE limit' = limit
    BY <2>1 DEF MeterInv
  <2>2. CASE limit' \in Nat \ {0} /\ meter = 0
    <3>1. meter' = 0
      BY <2>2
    <3>2. 0 <= (limit' - 1) + 3 * LargestReply
      BY <1>0, <2>2, Slack
    <3> QED
      BY <2>2, <3>1, <3>2
  <2> QED
    BY <2>1, <2>2
<1>2. CASE pc \in Deciding \cup Preparing /\ pc' \in Deciding \cup Preparing \cup {"iterate", "ended"}
  <2>1. meter' = 0 /\ iteration' = 0
    BY <1>2 DEF MeterInv
  <2>2. pc' \in InLoop => pc' = "iterate"
    BY <1>2 DEF InLoop, Deciding, Preparing
  <2>3. limit' # NoBudget => meter' <= (limit' - 1) + LargestReply
    BY <1>0, <1>1, <2>1
  <2>4. pc' \notin {"decide", "judge", "review"}
    BY <1>2 DEF Deciding, Preparing
  <2> QED
    BY <1>1, <2>1, <2>2, <2>3, <2>4 DEF MeterInv, Endings
<1>3. CASE pc \in Closing /\ pc' \in Closing
  BY <1>1, <1>3 DEF MeterInv, Endings, Closing, InLoop, Deciding, Preparing
<1>4. CASE pc' = pc /\ limit' = limit
  BY <1>4 DEF MeterInv, Endings
<1> QED
  BY <1>2, <1>3, <1>4

(* Steps of the loop.                                                        *)
LEMMA MeterLoop == MeterInv /\ LoopStep => MeterInv'
<1> SUFFICES ASSUME MeterInv, LoopStep PROVE MeterInv'
  OBVIOUS
<1> DEFINE L == LargestReply
<1>0. /\ attempt \in Nat \ {0} /\ ending \in Endings /\ meter \in Nat /\ L \in Nat
      /\ iteration \in Nat /\ billed \in Nat
  BY LargestTyped DEF MeterInv, Endings
<1>1. /\ pc \in InLoop \cup {"scripted"} /\ pc' \in InLoop \cup Closing
      /\ pc = "scripted" => pc' \in Closing
      /\ limit' = limit /\ billed' = billed
      /\ attempt' \in Nat \ {0} /\ ending' \in Endings
  BY <1>0, LoopFrame
<1>2. limit # NoBudget => limit \in Nat \ {0}
  BY DEF MeterInv
<1>3. \A r \in CallReplies : MeterOf(r) \in Nat /\ MeterOf(r) <= L
  BY MeterTyped, LargestTyped
<1> DEFINE Good ==
      /\ iteration' \in 0..(MaxIterations + 1) /\ decision' \in 0..DecisionAttempts
      /\ pc' = "decide" => iteration' < MaxIterations
      /\ pc' \in InLoop => iteration' <= MaxIterations
      /\ meter' \in Nat /\ used' \in Nat
      /\ limit # NoBudget =>
             /\ pc' = "decide" => meter' <= limit - 1
             /\ pc' \in {"iterate", "judge"} => meter' <= (limit - 1) + L
             /\ pc' = "review" /\ iteration' < MaxIterations => meter' <= limit - 1
             /\ pc' = "review" => meter' <= (limit - 1) + 2 * L
             /\ meter' <= (limit - 1) + 3 * L
<1> SUFFICES Good
  BY <1>0, <1>1, <1>2 DEF MeterInv, Endings, InLoop, Closing, Deciding, Preparing
<1> HIDE DEF L
<1> USE DEF calls, Goto, Return, End, InLoop, Closing, Calling, NextIteration, SentBack,
            OverBudget, OutOfIterations
<1>m. /\ iteration \in 0..(MaxIterations + 1) /\ decision \in 0..DecisionAttempts
      /\ pc = "decide" => iteration < MaxIterations
      /\ pc \in InLoop => iteration <= MaxIterations
      /\ meter \in Nat /\ used \in Nat
      /\ limit # NoBudget =>
             /\ limit \in Nat \ {0}
             /\ pc = "decide" => meter <= limit - 1
             /\ pc \in {"iterate", "judge"} => meter <= (limit - 1) + L
             /\ pc = "review" /\ iteration < MaxIterations => meter <= limit - 1
             /\ pc = "review" => meter <= (limit - 1) + 2 * L
             /\ meter <= (limit - 1) + 3 * L
  BY <1>2 DEF MeterInv, L
<1>c. MaxIterations \in Nat \ {0} /\ DecisionAttempts \in Nat \ {0}
  OBVIOUS
<1>4. CASE StartIteration
  BY <1>0, <1>c, <1>m, <1>4 DEF StartIteration
<1>5. ASSUME NEW r \in CallReplies, DecisionAnswered(r) PROVE Good
  BY <1>0, <1>3, <1>c, <1>m, <1>5 DEF DecisionAnswered
<1>6. ASSUME NEW r \in CallReplies, JudgeAnswered(r) PROVE Good
  BY <1>0, <1>3, <1>c, <1>m, <1>6 DEF JudgeAnswered
<1>7. ASSUME NEW r \in CallReplies, ReviewAnswered(r) PROVE Good
  BY <1>0, <1>3, <1>c, <1>m, <1>7 DEF ReviewAnswered
<1>8. CASE CandidateRefused
  BY <1>0, <1>c, <1>m, <1>8 DEF CandidateRefused
<1>9. CASE ReviewTimesOut
  BY <1>0, <1>c, <1>m, <1>9 DEF ReviewTimesOut
<1>10. CASE RetryCall
  BY <1>0, <1>c, <1>m, <1>10 DEF RetryCall
<1>11. CASE RetryDecision
  BY <1>0, <1>c, <1>m, <1>11 DEF RetryDecision
<1>12. CASE DecisionFails
  <2>1. pc = "decide" /\ (meter' = meter \/ \E r \in CallReplies : meter' = meter + MeterOf(r))
    BY <1>12 DEF DecisionFails
  <2>2. meter' \in Nat /\ meter <= meter' /\ meter' <= meter + L
    BY <1>0, <1>3, <2>1
  <2>3. \/ iteration' = iteration + 1 /\ used' = meter /\ pc' = "report" /\ decision' = decision
        \/ iteration' = iteration + 1 /\ used' = meter' /\ pc' = "iterate" /\ decision' = decision
        \/ UNCHANGED <<iteration, decision, used>> /\ pc' = "judge"
    BY <1>12 DEF DecisionFails
  <2> QED
    BY <1>0, <1>c, <1>m, <2>1, <2>2, <2>3
<1>13. CASE ControllerTurn
  BY <1>0, <1>c, <1>m, <1>13 DEF ControllerTurn
<1>14. CASE LoopRaises
  BY <1>0, <1>c, <1>m, <1>14 DEF LoopRaises
<1>15. CASE ScriptedLoop
  BY <1>0, <1>c, <1>m, <1>15 DEF ScriptedLoop
<1> QED
  BY <1>4, <1>5, <1>6, <1>7, <1>8, <1>9, <1>10, <1>11, <1>12, <1>13, <1>14, <1>15
     DEF LoopStep, ModelRequest

(* Every step keeps MeterInv.                                                *)
LEMMA MeterStep == AccessInv /\ AccessNext => MeterInv'
<1> SUFFICES ASSUME AccessInv, AccessNext PROVE MeterInv'
  OBVIOUS
<1>0. /\ PolicyInv /\ WiringInv /\ MeterInv
      /\ ending \in Endings /\ attempt \in Nat \ {0}
      /\ proxy \in BOOLEAN /\ billed \in Nat /\ meter \in Nat
  BY DEF AccessInv, MeterInv, WiringInv, Endings
<1>1. CASE Admission
  BY <1>0, <1>1, AdmissionFrame, MeterFrame DEF loop, Preparing
<1>2. CASE Authorizing
  <2>1. pc \in Preparing
    BY <1>2 DEF Preparing, Authorizing, Authorize, Authorized, AuthorizedWithoutAPICred, NotAuthorized
  <2>2. job.budget \in 1..MaxBudget /\ meter = 0
    BY <1>0, <2>1 DEF PolicyInv, MeterInv
  <2>3. /\ pc' \in {"authorize", "scripted", "fallback", "resolve_model", "ended"}
        /\ UNCHANGED <<iteration, decision, meter, used, billed>>
        /\ limit' = limit \/ limit' \in 1..MaxBudget
        /\ attempt' = 1 /\ ending' \in Endings
    BY <1>0, <1>2, <2>2, AuthorizingFrame
  <2>4. limit' = limit \/ limit' \in Nat \ {0}
    BY <2>3
  <2> QED
    BY <1>0, <2>1, <2>2, <2>3, <2>4, MeterFrame DEF Preparing
<1>3. CASE RetryRequest
  BY <1>0, <1>3, RetryFrame, MeterFrame DEF loop
<1>4. CASE Assembling
  BY <1>0, <1>4, AssemblingFrame, MeterFrame DEF loop, Preparing
<1>5. CASE LoopStep
  BY <1>0, <1>5, MeterLoop
<1>6. CASE Reporting
  BY <1>0, <1>6, ReportingFrame, MeterFrame DEF loop, Closing
<1> QED
  BY <1>1, <1>2, <1>3, <1>4, <1>5, <1>6
     DEF AccessNext, Access, Authorizing, Assembling, LoopStep, Reporting

(* Every step keeps BillingInv.                                              *)
LEMMA BillingStep == AccessInv /\ AccessNext => BillingInv'
<1> SUFFICES ASSUME AccessInv, AccessNext PROVE BillingInv'
  OBVIOUS
<1>0. /\ PolicyInv /\ WiringInv /\ MeterInv /\ BillingInv
      /\ ending \in Endings /\ attempt \in Nat \ {0}
      /\ proxy \in BOOLEAN /\ billed \in Nat /\ meter \in Nat
  BY DEF AccessInv, MeterInv, WiringInv, Endings
<1>1. CASE Admission
  BY <1>0, <1>1, AdmissionFrame DEF BillingInv, Deciding, Closing
<1>2. CASE Authorizing
  <2>1. pc \in Preparing
    BY <1>2 DEF Preparing, Authorizing, Authorize, Authorized, AuthorizedWithoutAPICred, NotAuthorized
  <2>2. job.budget \in 1..MaxBudget /\ meter = 0 /\ billed = 0
    BY <1>0, <2>1 DEF PolicyInv, MeterInv, BillingInv, Preparing, Closing
  <2>3. UNCHANGED <<meter, billed>>
    BY <1>0, <1>2, <2>2, AuthorizingFrame
  <2> QED
    BY <2>2, <2>3 DEF BillingInv
<1>3. CASE RetryRequest
  BY <1>0, <1>3, RetryFrame DEF loop, BillingInv
<1>4. CASE Assembling
  <2>1. pc \in Preparing /\ meter' = meter /\ billed' = billed
    BY <1>0, <1>4, AssemblingFrame DEF loop, Preparing
  <2>2. meter' = 0 /\ billed' = 0
    BY <1>0, <2>1 DEF MeterInv, BillingInv, Preparing, Closing
  <2> QED
    BY <2>2 DEF BillingInv
<1>5. CASE LoopStep
  <2>1. billed' = 0
    <3>1. pc \notin Closing /\ billed' = billed
      BY <1>0, <1>5, LoopFrame DEF InLoop, Closing
    <3> QED
      BY <1>0, <3>1 DEF BillingInv
  <2>2. pc' = "ended" => ending'.how \in {"timeout", "exception"}
    <3> USE <1>0 DEF Goto, Return, End, NextIteration, SentBack, Endings
    <3>1. CASE LoopRaises
      BY <3>1 DEF LoopRaises
    <3>2. CASE ~LoopRaises
      BY <1>5, <3>2 DEF LoopStep, StartIteration, ModelRequest, DecisionAnswered, JudgeAnswered,
         ReviewAnswered, CandidateRefused, ReviewTimesOut, RetryCall, RetryDecision, DecisionFails,
         ControllerTurn, ScriptedLoop, Calling
    <3> QED
      BY <3>1, <3>2
  <2> QED
    BY <2>1, <2>2 DEF BillingInv
<1>6. CASE Reporting
  <2>1. /\ pc' \in Closing /\ proxy' = proxy /\ meter' = meter
        /\ proxy => billed' = billed
        /\ billed' \in {billed, billed + meter}
        /\ pc' = "ended" => ending'.report = "failed" \/ proxy \/ billed' = billed + meter
    BY <1>0, <1>6, ReportingFrame DEF loop
  <2> QED
    BY <1>0, <2>1 DEF BillingInv
<1> QED
  BY <1>1, <1>2, <1>3, <1>4, <1>5, <1>6
     DEF AccessNext, Access, Authorizing, Assembling, LoopStep, Reporting

--------------------------------------------------------------------------------
(* Theorems.                                                                *)

(* Steps that change nothing.                                                *)
LEMMA StutterInv == AccessInv /\ UNCHANGED accessVars => AccessInv'
<1> SUFFICES ASSUME AccessInv, UNCHANGED accessVars PROVE AccessInv'
  OBVIOUS
<1> USE DEF accessVars, policyVars, assembly, loop, AccessInv
<1>1. PolicyInv'
  BY DEF PolicyInv, AdmissionFollowsCatalog
<1>2. WiringInv'
  BY DEF WiringInv, KindFits
<1>3. MeterInv'
  BY DEF MeterInv
<1>4. BillingInv'
  BY DEF BillingInv
<1> QED
  BY <1>1, <1>2, <1>3, <1>4

(* The inductive invariant: what is decided, wired, metered and billed at    *)
(* each place of the run.                                                   *)
THEOREM AccessInvariant == AccessSpec => []AccessInv
<1>1. AccessInv /\ [AccessNext]_accessVars => AccessInv'
  <2> SUFFICES ASSUME AccessInv, [AccessNext]_accessVars PROVE AccessInv'
    OBVIOUS
  <2>1. CASE AccessNext
    <3>1. PolicyInv'
      BY <2>1, PolicyStep DEF AccessInv
    <3> QED
      BY <2>1, <3>1, WiringStep, MeterStep, BillingStep DEF AccessInv
  <2>2. CASE UNCHANGED accessVars
    BY <2>2, StutterInv
  <2> QED
    BY <2>1, <2>2
<1> QED
  BY <1>1, InitInv, PTL DEF AccessSpec

(* The resolver, the store, the client and the meter hold what they may.     *)
THEOREM AccessTypeCorrect == AccessSpec => []AccessTypeOK
<1>1. AccessInv => AccessTypeOK
  BY DEF AccessInv, PolicyInv, WiringInv, MeterInv, AccessTypeOK, Deciding, Preparing, InLoop, Closing
<1> QED
  BY <1>1, AccessInvariant, PTL

(* A client that calls the model has the key and the address of one         *)
(* credential, and names the model that it was resolved for.                *)
THEOREM KeysFitEndpoints == AccessSpec => []KeyFitsEndpoint
<1>1. AccessInv => KeyFitsEndpoint
  <2> SUFFICES ASSUME AccessInv, Calling PROVE KeyFitsEndpoint
    BY DEF KeyFitsEndpoint
  <2>1. client.key \in Credential /\ client.key = client.url /\ spec = PairOf(client.key)
    BY DEF AccessInv, WiringInv, Calling, InLoop
  <2> QED
    BY <2>1, KeyOf DEF KeyFitsEndpoint, PairOf
<1> QED
  BY <1>1, AccessInvariant, PTL

(* Tokens are billed by APICred's proxy or from the usage report, not both,  *)
(* and a run that is not reported was cut off, or its report failed.        *)
THEOREM TokensBilledOneWay == AccessSpec => []BilledOneWay
<1>1. AccessInv => BilledOneWay
  BY DEF AccessInv, WiringInv, BillingInv, KindFits, BilledOneWay
<1> QED
  BY <1>1, AccessInvariant, PTL

(* A job overspends its token budget by three replies at most, whatever the  *)
(* budget, the replies and the number of iterations.                        *)
THEOREM OverspendIsBounded == AccessSpec => []OverspendBounded
<1>1. AccessInv => OverspendBounded
  BY DEF AccessInv, MeterInv, OverspendBounded
<1> QED
  BY <1>1, AccessInvariant, PTL

(* An admitted job runs on what the last catalogue offered, and a request    *)
(* without a model is refused only when the catalogue changed in between or  *)
(* does not know its provider.                                              *)
THEOREM AdmissionFollows == AccessSpec => []AdmissionFollowsCatalog
<1>1. AccessInv => AdmissionFollowsCatalog
  BY DEF AccessInv, PolicyInv
<1> QED
  BY <1>1, AccessInvariant, PTL

--------------------------------------------------------------------------------
(* Termination. *)

Places == {"admitted", "authorize", "resolve_model", "api_key", "base_url", "fallback", "scripted",
           "iterate", "decide", "judge", "review", "report", "ended"}

(* How far each place is from the end.                                       *)
LEMMA PlaceOf ==
    /\ DOMAIN Place = Places
    /\ Place["admitted"] = 12 /\ Place["authorize"] = 11
    /\ Place["resolve_model"] = 10 /\ Place["api_key"] = 9 /\ Place["base_url"] = 8
    /\ Place["fallback"] = 7 /\ Place["scripted"] = 7 /\ Place["iterate"] = 6
    /\ Place["decide"] = 5 /\ Place["judge"] = 4 /\ Place["review"] = 3
    /\ Place["report"] = 2 /\ Place["ended"] = 1
BY DEF Place, Places

(* The way to the client is walked once.                                     *)
LEMMA AuthorizingSpends ==
    ASSUME Authorizing
    PROVE  /\ pc \in Places /\ pc' \in Places /\ Place[pc'] < Place[pc]
           /\ iteration' = iteration
<1>1. ASSUME NEW grant, Assemble(grant) PROVE pc' \in {"scripted", "fallback", "resolve_model"}
  BY <1>1 DEF Assemble, Goto
<1>2. CASE Authorize
  <2>1. pc = "admitted" /\ iteration' = iteration
    BY <1>2 DEF Authorize
  <2>2. pc' \in {"authorize", "scripted", "fallback", "resolve_model"}
    BY <1>1, <1>2 DEF Authorize, Goto
  <2> QED
    BY <2>1, <2>2, PlaceOf DEF Places
<1>3. ASSUME pc = "authorize", iteration' = iteration, \E grant : Assemble(grant)
      PROVE  pc' \in Places /\ Place[pc'] < Place[pc]
  BY <1>1, <1>3, PlaceOf DEF Places
<1>4. CASE \E grant \in Grants : Authorized(grant)
  BY <1>3, <1>4, PlaceOf DEF Authorized, authorizing, Places
<1>5. CASE AuthorizedWithoutAPICred
  BY <1>3, <1>5, PlaceOf DEF AuthorizedWithoutAPICred, authorizing, Places
<1>6. CASE NotAuthorized
  BY <1>6, PlaceOf DEF NotAuthorized, loop, End, Goto, Places
<1> QED
  BY <1>2, <1>4, <1>5, <1>6 DEF Authorizing

LEMMA AssemblingSpends ==
    ASSUME Assembling
    PROVE  /\ pc \in Places /\ pc' \in Places /\ Place[pc'] < Place[pc]
           /\ iteration' = iteration
<1> USE PlaceOf DEF Goto, End, Places, assembling, loop
<1>1. CASE ResolveModel
  BY <1>1 DEF ResolveModel
<1>2. CASE GetApiKey
  BY <1>2 DEF GetApiKey
<1>3. CASE GetBaseUrl
  BY <1>3 DEF GetBaseUrl
<1>4. CASE RuntimeRefuses
  BY <1>4 DEF RuntimeRefuses
<1>5. CASE Fallback
  BY <1>5 DEF Fallback
<1>6. CASE NotResolved
  BY <1>6 DEF NotResolved
<1> QED
  BY <1>1, <1>2, <1>3, <1>4, <1>5, <1>6 DEF Assembling

(* A turn of the loop comes to its end, or is counted.                       *)
LEMMA LoopSpendsOn ==
    ASSUME MeterInv, LoopStep
    PROVE  Spends
<1> USE PlaceOf DEF Goto, End, Return, Places, NextIteration, SentBack, Admitted, OutOfIterations
<1>0. /\ iteration \in 0..(MaxIterations + 1) /\ decision \in 0..DecisionAttempts
      /\ attempt \in Nat \ {0}
      /\ pc = "decide" => iteration < MaxIterations
      /\ pc \in InLoop => iteration <= MaxIterations
  BY DEF MeterInv
<1>c. /\ MaxIterations \in Nat \ {0} /\ DecisionAttempts \in Nat \ {0}
      /\ CallAttempts \in Nat \ {0} /\ RequestAttempts \in Nat \ {0}
  OBVIOUS
<1> USE <1>0, <1>c DEF Spends, calls, InLoop
<1>1. CASE StartIteration
  BY <1>1 DEF StartIteration
<1>2. ASSUME NEW r \in CallReplies, DecisionAnswered(r) PROVE Spends
  BY <1>2 DEF DecisionAnswered
<1>3. ASSUME NEW r \in CallReplies, JudgeAnswered(r) PROVE Spends
  BY <1>3 DEF JudgeAnswered
<1>4. ASSUME NEW r \in CallReplies, ReviewAnswered(r) PROVE Spends
  BY <1>4 DEF ReviewAnswered
<1>5. CASE CandidateRefused
  BY <1>5 DEF CandidateRefused
<1>6. CASE ReviewTimesOut
  BY <1>6 DEF ReviewTimesOut
<1>7. CASE RetryCall
  BY <1>7 DEF RetryCall, Calling
<1>8. CASE RetryDecision
  BY <1>8 DEF RetryDecision
<1>9. CASE DecisionFails
  BY <1>9 DEF DecisionFails
<1>10. CASE ControllerTurn
  BY <1>10 DEF ControllerTurn
<1>11. CASE LoopRaises
  BY <1>11 DEF LoopRaises
<1>12. CASE ScriptedLoop
  BY <1>12 DEF ScriptedLoop
<1> QED
  BY <1>1, <1>2, <1>3, <1>4, <1>5, <1>6, <1>7, <1>8, <1>9, <1>10, <1>11, <1>12
     DEF LoopStep, ModelRequest

LEMMA ReportingSpends ==
    ASSUME MeterInv, Reporting
    PROVE  Spends
<1> USE PlaceOf DEF Goto, Places, Admitted, Spends, reporting, loop, Reports
<1>1. CASE UsageReported
  BY <1>1 DEF UsageReported, MeterInv
<1>2. CASE UsageReportRepeated
  <2>1. attempt \in Nat /\ RequestAttempts \in Nat /\ CallAttempts \in Nat
    BY DEF MeterInv
  <2> QED
    BY <1>2, <2>1 DEF UsageReportRepeated
<1>3. CASE UsageReportFails
  BY <1>3 DEF UsageReportFails, MeterInv
<1> QED
  BY <1>1, <1>2, <1>3 DEF Reporting

(* An admitted job takes finitely many steps, whatever APICred, the          *)
(* provider and the gates answer: each one lowers a rank that starts from    *)
(* the limits on iterations and attempts, and admission never starts again.  *)
THEOREM AccessRanksFall == AccessSpec => AccessRankFalls
<1>1. ASSUME AccessInv, AccessNext, Admitted PROVE Spends
  <2>0. MeterInv /\ pc \in Places
    BY <1>1, PlaceOf DEF AccessInv, Admitted
  <2>1. CASE Admission
    BY <2>0, <2>1, AdmissionFrame DEF Deciding, Places
  <2>2. CASE Authorizing
    BY <2>2, AuthorizingSpends, PlaceOf DEF Spends, Admitted
  <2>3. CASE RetryRequest
    <3>1. attempt \in Nat /\ RequestAttempts \in Nat /\ CallAttempts \in Nat
      BY <2>0 DEF MeterInv
    <3> QED
      BY <2>0, <2>3, <3>1, PlaceOf DEF RetryRequest, Spends, Admitted, loop
  <2>4. CASE Assembling
    BY <2>4, AssemblingSpends, PlaceOf DEF Spends, Admitted
  <2>5. CASE LoopStep
    BY <2>0, <2>5, LoopSpendsOn
  <2>6. CASE Reporting
    BY <2>0, <2>6, ReportingSpends
  <2> QED
    BY <1>1, <2>1, <2>2, <2>3, <2>4, <2>5, <2>6
       DEF AccessNext, Access, Authorizing, Assembling, LoopStep, Reporting
<1>2. AccessInv /\ [AccessNext]_accessVars => [Admitted => Spends]_accessVars
  BY <1>1
<1> QED
  BY <1>2, AccessInvariant, PTL DEF AccessSpec, AccessRankFalls
================================================================================
