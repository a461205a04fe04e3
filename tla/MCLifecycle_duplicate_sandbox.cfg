CONSTANTS
    Jobs = {j1}
    Projects = {x1, x2}
    Worker = worker
    NoJob = nojob
    NoProject = noproject
    Retention = "keep"
    StaleRequeue = TRUE
    Environment = {}
    MaxQueue = 3
    MaxCrashes = 0
SPECIFICATION Spec
INVARIANTS
    NoDuplicateSandbox
