CONSTANTS
    Jobs = {j1}
    Projects = {x1}
    Worker = worker
    NoJob = nojob
    NoProject = noproject
    Retention = "keep"
    StaleRequeue = FALSE
    Environment = {"cancel", "exception"}
    MaxQueue = 2
    MaxCrashes = 0
    MaxSteps = 2
SPECIFICATION StreamFairSpec
INVARIANTS
    StreamTypeOK
    DoneIsComplete
    DoneVerdictStays
    DoneHasArtifact
PROPERTIES
    StreamsEnd
