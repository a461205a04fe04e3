SPECIFICATION CandidateSpec
CONSTANTS
    Jobs <- MCJobs
    Tools <- MCTools
    MaxEdits = 2
    MaxFaults = 1
    MaxStrays = 1
    MaxCandidates = 2
INVARIANTS
    CandidateTypeOK ScratchNeverShips CodeIsTested  ShippedPassesGate
CHECK_DEADLOCK FALSE
