CONSTANTS
    main = main
    extra = extra
    quick = quick
    long = long
    known = known
    Files = {main}
    MustModify = {main}
    Strict = {main}
    TestFiles = {}
    Required <- OneCommand
    Multiline = {quick}
    TestLike = {}
    OtherCommand = other
    Diagnoses = {known}
    Planner <- PlansMain
    Unknown = unknown
    Mentioned = {}
    Tools = {"write", "run"}
    Reviewed = TRUE
    Cancellable = TRUE
    NoArg = noarg
    ExplorationBudget = 2
    DuplicateBudget = 1
    MaxIterations = 5
    MaxToolCalls = 4
    MaxFailures = 2
SPECIFICATION LoopFairSpec
INVARIANTS
    WithinBudget
PROPERTIES
    LoopEnds
    RankFalls
CHECK_DEADLOCK FALSE
