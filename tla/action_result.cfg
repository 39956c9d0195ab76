CONSTANTS
    NoTest = NoTest
    Runners = {"http"}
    Suites <- AllSuites
    Requests <- AllRequests
SPECIFICATION Spec
INVARIANTS ResultIsTheReports
