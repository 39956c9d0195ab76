SPECIFICATION Spec
CONSTANTS
    GoDuration <- MCGoDuration
    Times = {"2026-01-01T00:00:00Z"}
    JobStates = {"active", "available"}
    StringClass <- MCStringClass
    Tests <- AllTests
    JobIds <- MCJobIds
    JobRef = "{{steps.step-1.response.body.job.id}}"
    Codes = {"OK", "InvalidArgument", "NotFound", "Internal", "DeadlineExceeded", "Unknown"}
    Messages <- MCMessages
    Durations <- MCDurations
    TolerancePct = 50
    MinToleranceMs = 100
    MatchAssertion <- Match
    ResolveJSONPath <- Resolve
INVARIANTS
    TypeOK
    IntentsAreCalled
    StatusIsTheServers
    UnseenJobsTimedOut
    ReadBack
    LiteralsMatchExactly
    PathsSelectNodes
    DurationVerdicts
