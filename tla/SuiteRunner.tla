----------------------------- MODULE SuiteRunner -----------------------------
(***************************************************************************)
(* A run of the whole suite: main, loadTests and filterTests of the two    *)
(* runners, from the files of the suites directory to the exit code, and   *)
(* the result that the GitHub action (action/action.yml) derives from it.  *)
(*                                                                         *)
(* Running one test is TestRunner's matter: here a test yields a verdict,  *)
(* or kills the process (TestRunner, NoConcurrentMapAccess).  The server   *)
(* under test is external: what matters of it is whether it still holds    *)
(* what earlier tests left behind, and whether it passes a test when it    *)
(* does not.                                                               *)
(***************************************************************************)
EXTENDS SuiteReport

CONSTANTS
    Runners,    \* the runners considered, a subset of {"http", "grpc"}
    Suites,     \* the sequences of test files considered
    Requests,   \* the command lines considered
    NoTest      \* no -test option

\* A file of the suites directory: the id and level of its test, whether it
\* decodes at all, whether the server passes the test from a clean state, and
\* whether the test can kill the runner.
TestFile == [id : Nat, level : Levels, decodes : BOOLEAN,
             conforms : BOOLEAN, lethal : BOOLEAN]

\* A command line: -level (-1 for all), -test, -redis or (HTTP runner only)
\* -reset-url given, -report-file given.
Request == [level : Levels \cup {-1}, test : Nat \cup {NoTest},
            reset : BOOLEAN, file : BOOLEAN]

ASSUME SuiteRunnerAssumption ==
    /\ Runners \subseteq {"http", "grpc"}
    /\ Suites \subseteq Seq(TestFile)
    /\ \A r \in Requests : r.level \in Levels \cup {-1} /\ r.reset \in BOOLEAN

NoReport == [conformant |-> FALSE]

VARIABLES
    runner,      \* which runner runs; it, suite and request never change
    suite,       \* the files of the suites directory
    request,     \* the command line
    phase,       \* "load", "run", "report" or "exited"
    tests,       \* the tests selected, in order
    results,     \* the results so far, one per test run
    leftovers,   \* does the server hold what earlier tests left behind?
    isolated,    \* has every test so far started without leftovers?
    output,      \* the report printed, NoReport if none
    exit,        \* the exit code, -1 while running
    result       \* the action's result output, "" until it is set

params == <<runner, suite, request>>
vars   == <<runner, suite, request, phase, tests, results, leftovers, isolated,
            output, exit, result>>

Init ==
    /\ runner \in Runners
    /\ suite \in Suites
    /\ request \in Requests
    /\ phase = "load"
    /\ tests = <<>>
    /\ results = <<>>
    /\ leftovers \in BOOLEAN
    /\ isolated = TRUE
    /\ output = NoReport
    /\ exit = -1
    /\ result = ""

Exit(code) == phase' = "exited" /\ exit' = code

-----------------------------------------------------------------------------

\* filterTests
Selected(t) ==
    /\ request.level >= 0 => t.level = request.level
    /\ request.test # NoTest => t.id = request.test

SelectedFiles == {k \in DOMAIN suite : Selected(suite[k])}

\* The tests selected, in the order of their ids; sort.Slice leaves the order of
\* tests with equal ids open.
Chosen ==
    {[k \in DOMAIN s |-> suite[s[k]]] :
        s \in {s \in [1..Cardinality(SelectedFiles) -> SelectedFiles] :
                  \A j, k \in DOMAIN s :
                      j < k => s[j] # s[k] /\ suite[s[j]].id <= suite[s[k]].id}}

\* Mutant: an empty selection is run like any other.
RefusedUnreadable == \E k \in DOMAIN suite : ~suite[k].decodes

\* One file that cannot be decoded stops the run, and so does an empty
\* selection.
Refused == (\E k \in DOMAIN suite : ~suite[k].decodes) \/ SelectedFiles = {}

\* Redis, or the gRPC server, may also turn out to be out of reach.
Load ==
    /\ phase = "load"
    /\ \/ Refused /\ Exit(2) /\ UNCHANGED tests
       \/ (request.reset \/ runner = "grpc") /\ Exit(2) /\ UNCHANGED tests
       \/ ~Refused /\ phase' = "run" /\ tests' \in Chosen /\ UNCHANGED exit
    /\ UNCHANGED <<params, results, leftovers, isolated, output, result>>

\* Is the server's state reset before each test?
Resets == request.reset

\* One turn of the loop over the tests.  The reset is best effort: FlushDB's
\* error and the answer to the reset request are ignored.  On a server with
\* leftovers a test may get any verdict.
RunTest ==
    /\ phase = "run"
    /\ Len(results) < Len(tests)
    /\ \E dirty \in IF Resets THEN {leftovers, FALSE} ELSE {leftovers} :
         LET t == tests[Len(results) + 1]
         IN  /\ isolated' = (isolated /\ ~dirty)
             /\ leftovers' = TRUE
             /\ \/ \E st \in IF dirty THEN {"pass", "fail", "error"}
                             ELSE IF t.conforms THEN {"pass"} ELSE {"fail", "error"} :
                       /\ results' = Append(results, [level |-> t.level, status |-> st])
                       /\ UNCHANGED <<phase, exit>>
                \/ t.lethal /\ Exit(2) /\ UNCHANGED results
    /\ UNCHANGED <<params, tests, output, result>>

TestsOver ==
    /\ phase = "run"
    /\ Len(results) = Len(tests)
    /\ phase' = "report"
    /\ UNCHANGED <<params, tests, results, leftovers, isolated, output,
                   exit, result>>

\* Mutants: the exit code is that of the last test, tells whether any level is
\* reached, counts the tests that did not pass.
CodeOfLastTest(rep) == IF results[Len(results)].status = "pass" THEN 0 ELSE 1
CodeOfLevel(rep)    == IF rep.conformant_level >= 0 THEN 0 ELSE 1
CodeOfFailures(rep) == rep.results.failed + rep.results.errored

ExitCode(rep) == IF rep.conformant THEN 0 ELSE 1

\* The report file, if asked for, is written before the report is printed.
Finish ==
    /\ phase = "report"
    /\ LET rep == Report(runner, results)
       IN  \/ output' = rep /\ Exit(ExitCode(rep))
           \/ request.file /\ Exit(2) /\ UNCHANGED output
    /\ UNCHANGED <<params, tests, results, leftovers, isolated, result>>

\* jq -r '.summary.KEY // 0', or 0 if the output is not JSON.
JqSummary(key) == IF "summary" \in DOMAIN output THEN output.summary[key] ELSE 0

\* The action runs the HTTP runner, with no report file; whatever the exit code,
\* it derives the result from what was printed.
ActionResult ==
    /\ phase = "exited"
    /\ runner = "http" /\ ~request.file
    /\ result = ""
    /\ result' = IF JqSummary("failed") > 0 THEN "FAIL" ELSE "PASS"
    /\ UNCHANGED <<params, phase, tests, results, leftovers, isolated,
                   output, exit>>

\* Not a step of the code: nothing happens any more.
Terminated ==
    /\ phase = "exited"
    /\ runner = "http" /\ ~request.file => result # ""
    /\ UNCHANGED vars

Next == Load \/ RunTest \/ TestsOver \/ Finish \/ ActionResult \/ Terminated

Spec == Init /\ [][Next]_vars

-----------------------------------------------------------------------------

\* The run keeps to its types; its exit code is one of the three that
\* runner/README.md lists.
TypeOK ==
    /\ runner \in Runners /\ suite \in Suites /\ request \in Requests
    /\ phase \in {"load", "run", "report", "exited"}
    /\ Len(results) <= Len(tests)
    /\ \A k \in DOMAIN tests : tests[k] \in TestFile
    /\ \A k \in DOMAIN results : results[k] \in TestResult
    /\ leftovers \in BOOLEAN /\ isolated \in BOOLEAN
    /\ exit \in {-1, 0, 1, 2}
    /\ result \in {"", "PASS", "FAIL"}

\* Exit code 0 is earned: tests were selected, all of them ran, and every one
\* passed; whatever level they belong to.
ExitZeroIsEarned ==
    exit = 0 =>
        /\ tests # <<>> /\ Len(results) = Len(tests)
        /\ \A k \in DOMAIN results : results[k].status = "pass"

\* Exit code 1 tells of a test that did not pass, never of a run that went
\* wrong otherwise: that is exit code 2.
ExitOneHasCause ==
    exit = 1 => /\ Len(results) = Len(tests)
                /\ \E k \in DOMAIN results : results[k].status # "pass"

\* When every test started from a clean server, the exit code tells exactly
\* whether the server conforms to all the tests selected.
VerdictIsTheServers ==
    exit \in {0, 1} /\ isolated =>
        (exit = 0 <=> \A k \in DOMAIN tests : tests[k].conforms)

\* Conformance to a level, as the gRPC runner reports it, covers the levels below:
\* each was tested, and every test of it passed ("Each level builds upon the
\* previous", README.md).  The HTTP runner passes over levels without tests.
LevelIsCumulative ==
    output # NoReport /\ runner = "grpc" =>
        \A m \in 0..output.conformant_level :
            /\ \E k \in DOMAIN results : results[k].level = m
            /\ \A k \in DOMAIN results : results[k].level = m => results[k].status = "pass"

\* The two runners report alike: the same overall verdict on the same results,
\* and the same level when no level below a tested one is left out.
RunnersAgree ==
    results # <<>> =>
        /\ HttpConformant(results) = GrpcConformant(results)
        /\ (\A l \in Core \cap TestedLevels(results) : 0..l \subseteq TestedLevels(results))
              => HttpConformantLevel(results) = GrpcConformantLevel(results)

\* The action's result is the verdict of the run it made: a run whose report, as it
\* was printed, counts failed tests is no PASS (action/action.yml:56, "Overall
\* result: PASS or FAIL").
ResultIsTheReports ==
    result = "PASS" /\ output # NoReport => output.results.failed = 0

=============================================================================
