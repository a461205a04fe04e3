CONSTANTS
    Jobs = {j1}
    Projects = {x1}
    Worker = worker
    NoJob = nojob
    NoProject = noproject
    Retention = "keep"
    StaleRequeue = FALSE
    Environment = {"cancel"}
    MaxQueue = 3
    MaxCrashes = 0
SPECIFICATION Spec
PROPERTIES
    CancelIsFinal
