CONSTANTS
    NoTest = NoTest
    Runners = {"http", "grpc"}
    Suites <- AllSuites
    Requests <- AllRequests
SPECIFICATION Spec
INVARIANTS TypeOK ExitZeroIsEarned ExitOneHasCause VerdictIsTheServers RunnersAgree LevelIsCumulative
