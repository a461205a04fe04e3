CONSTANTS
    openai = openai
    other = other
    scripted = scripted
    large = large
    small = small
    dated = dated
    plain = plain
    NoProvider = noprovider
    NoModel = nomodel
    NoBudget = nobudget
    NoCount = nocount
    Providers = {openai, other, scripted}
    Models = {large, small, dated, plain}
    DefaultProvider = openai
    DefaultModel = large
    OpenAI = openai
    ScriptedProvider = scripted
    ScriptedModel = plain
    BaseModel <- Dated
    Score <- Scores
    NameOrder <- Names
    Replies <- SomeReplies
    Requests <- Asked
    Budgets = {nobudget, 0}
    ConfiguredBudget = 3
    MaxBudget = 3
    Modes = {"auto", "runtime", "proxy"}
    WeavInstalled = {TRUE, FALSE}
    LocalProviders = {{}, {openai}}
    Answers <- SomeAnswers
    Grants = {nobudget, 1}
    CallReplies <- Counts
    Estimate = 1
    RequestAttempts = 2
    CallAttempts = 2
    DecisionAttempts = 2
    MaxIterations = 2
SPECIFICATION AccessFairSpec
INVARIANTS
    AccessTypeOK
    KeyFitsEndpoint
    BilledOneWay
    OverspendBounded
    AdmissionFollowsCatalog
PROPERTIES
    AccessEnds AccessRankFalls
CHECK_DEADLOCK FALSE
