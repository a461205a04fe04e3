CONSTANTS
    Modes = {"patch", "pr"}
    MaxCrashes = 1
    MaxFaults = 1
    MaxCancels = 1
    MaxExports = 3
SPECIFICATION BundleSpec
INVARIANTS
    BundleTypeOK
    BundleWhole
    NothingStale
    ReportedPullRequest
CHECK_DEADLOCK FALSE
