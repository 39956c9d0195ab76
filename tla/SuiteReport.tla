----------------------------- MODULE SuiteReport -----------------------------
(***************************************************************************)
(* From the results of the tests to the conformance report: buildReport of *)
(* runner/http/runner.go and of runner/grpc/runner.go.  A result is the    *)
(* level of its test and its status; the report keeps the counters and the *)
(* two verdicts.                                                           *)
(***************************************************************************)
EXTENDS Integers, Sequences, FiniteSets

Core     == 0..4       \* the conformance levels
Ext      == 99         \* what ParseLevel makes of "ext" and "extension"
Levels   == Core \cup {Ext}
Statuses == {"pass", "fail", "error", "skip"}

TestResult == [level : Levels, status : Statuses]

\* How many results of level l (of any level in Ls) have a status in Ss.
Count(results, Ls, Ss) ==
    Cardinality({k \in DOMAIN results : results[k].level \in Ls /\ results[k].status \in Ss})

\* The counters of ResultsSummary and LevelSummary.
Summary(results, Ls) ==
    [total   |-> Count(results, Ls, Statuses),
     passed  |-> Count(results, Ls, {"pass"}),
     failed  |-> Count(results, Ls, {"fail"}),
     skipped |-> Count(results, Ls, {"skip"}),
     errored |-> Count(results, Ls, {"error"})]

\* The keys of ByLevel: the levels that have a result.
TestedLevels(results) == {results[k].level : k \in DOMAIN results}

Highest(ls) == CHOOSE l \in ls : \A m \in ls : m <= l

-----------------------------------------------------------------------------
(* The HTTP runner: a level is clean without failures and errors, a level  *)
(* without results is passed over.                                         *)

\* Mutant: errors are forgotten.
HttpCleanOfFailures(results, l) == Count(results, {l}, {"fail"}) = 0

HttpClean(results, l) == Count(results, {l}, {"fail", "error"}) = 0

HttpConformant(results) == Count(results, Levels, {"fail", "error"}) = 0

HttpConformantLevel(results) ==
    Highest({-1} \cup {l \in Core \cap TestedLevels(results) :
                          \A m \in TestedLevels(results) : m <= l => HttpClean(results, m)})

(* The gRPC runner: a level is clean when all its results are passes, and   *)
(* the first level without results ends the count.                         *)

GrpcClean(results, l) ==
    /\ l \in TestedLevels(results)
    /\ Count(results, {l}, {"pass"}) = Count(results, {l}, Statuses)

GrpcConformant(results) ==
    /\ results # <<>>
    /\ Count(results, Levels, {"pass"}) = Len(results)

\* Mutant: levels without results are passed over, as in the HTTP runner.
GrpcLevelOverGaps(results) ==
    Highest({-1} \cup {l \in Core \cap TestedLevels(results) :
                          \A m \in TestedLevels(results) : m <= l => GrpcClean(results, m)})

GrpcConformantLevel(results) ==
    Highest({-1} \cup {l \in Core : \A m \in 0..l : GrpcClean(results, m)})

-----------------------------------------------------------------------------
\* The report as its JSON is keyed.
Report(runner, results) ==
    [results          |-> Summary(results, Levels),
     conformant       |-> IF runner = "http" THEN HttpConformant(results)
                                             ELSE GrpcConformant(results),
     conformant_level |-> IF runner = "http" THEN HttpConformantLevel(results)
                                             ELSE GrpcConformantLevel(results)]

=============================================================================
