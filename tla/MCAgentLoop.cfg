CONSTANTS
    main = main
    extra = extra
    quick = quick
    long = long
    known = known
    Files = {main, extra}
    MustModify = {main}
    Strict = {main}
    TestFiles = {}
    Required <- TwoCommands
    Multiline = {long}
    TestLike = {}
    OtherCommand = other
    Diagnoses = {known}
    Planner <- PlansExtra
    Unknown = unknown
    Mentioned = {}
    Tools = {"write", "patch", "read", "run"}
    Reviewed = FALSE
    Cancellable = FALSE
    NoArg = noarg
    ExplorationBudget = 2
    DuplicateBudget = 1
    MaxIterations = 4
    MaxToolCalls = 4
    MaxFailures = 2
SPECIFICATION LoopSpec
INVARIANTS
    LoopTypeOK
    TestedCandidate
    RepairCoherent
    NeverCornered
    RepairSolvable
CHECK_DEADLOCK FALSE
