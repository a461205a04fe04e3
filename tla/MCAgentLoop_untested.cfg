CONSTANTS
    main = main
    extra = extra
    quick = quick
    long = long
    known = known
    Files = {main}
    MustModify = {main}
    Strict = {main}
    TestFiles = {}
    Required <- OneCommand
    Multiline = {}
    TestLike = {quick}
    OtherCommand = other
    Diagnoses = {known}
    Planner <- PlansMain
    Unknown = unknown
    Mentioned = {}
    Tools = {"write", "run", "check"}
    Reviewed = FALSE
    Cancellable = FALSE
    NoArg = noarg
    ExplorationBudget = 2
    DuplicateBudget = 1
    MaxIterations = 4
    MaxToolCalls = 4
    MaxFailures = 2
SPECIFICATION LoopSpec
INVARIANTS
    RequiredCommandsRun
CHECK_DEADLOCK FALSE
