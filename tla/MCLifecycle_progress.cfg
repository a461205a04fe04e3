CONSTANTS
    Jobs = {j1}
    Projects = {x1, x2}
    Worker = worker
    NoJob = nojob
    NoProject = noproject
    Retention = "delete_always"
    StaleRequeue = TRUE
    Environment = {"cancel", "exception", "lost_reply"}
    MaxQueue = 3
    MaxCrashes = 1
SPECIFICATION FairSpec
PROPERTIES
    JobsFinish
    StoppedJobsFinalize
