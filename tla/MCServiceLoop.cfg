CONSTANTS
    Jobs = {j1}
    Projects = {x1, x2}
    Worker = worker
    NoJob = nojob
    NoProject = noproject
    Retention = "delete_always"
    StaleRequeue = FALSE
    Environment = {"cancel", "exception", "export"}
    MaxQueue = 1
    MaxCrashes = 1
    Detailed = j1
    main = main
    quick = quick
    Files = {main}
    MustModify = {main}
    Strict = {main}
    TestFiles = {}
    Required <- OneCommand
    Multiline = {}
    TestLike = {}
    OtherCommand = other
    Diagnoses = {}
    Planner <- NoPlans
    Unknown = unknown
    Mentioned = {}
    Tools = {"write", "run"}
    Reviewed = FALSE
    NoArg = noarg
    ExplorationBudget = 2
    DuplicateBudget = 1
    MaxIterations = 2
    MaxToolCalls = 2
    MaxFailures = 2
SPECIFICATION ServiceSpec
INVARIANTS
    TypeOK
    OneDriver
    ActiveHasDriver
    NoSandboxLeft
    SucceededIsTested
PROPERTIES
    KeepsContract
    NoSandboxPulled
    ServiceKept
    LoopKept
SYMMETRY ProjectSymmetry
