--------------------------- MODULE SuiteRunner_proofs ---------------------------
(***************************************************************************)
(* Proofs about SuiteRunner: what the exit code and the reported level of  *)
(* a run mean, for suites of any size, any command line and any server.    *)
(***************************************************************************)
EXTENDS SuiteRunner, FiniteSetTheorems, TLAPS

\* A result as a run makes it: no test is ever reported as skipped.
Given == [level : Levels, status : {"pass", "fail", "error"}]

-----------------------------------------------------------------------------
(* Counting results.                                                       *)

LEMMA GivenTypes ==
    ASSUME NEW rs \in Seq(Given)
    PROVE  \A k \in DOMAIN rs :
               rs[k].level \in Levels /\ rs[k].status \in {"pass", "fail", "error"}
<1>1. \A k \in DOMAIN rs : rs[k] \in Given
  OBVIOUS
<1>2. \A r \in Given : r.level \in Levels /\ r.status \in {"pass", "fail", "error"}
  BY DEF Given
<1> QED
  BY <1>1, <1>2

\* The results counted are finitely many.
LEMMA CountedAreFinite ==
    ASSUME NEW rs \in Seq(Given), NEW Ls, NEW Ss
    PROVE  /\ DOMAIN rs = 1..Len(rs) /\ Len(rs) \in Nat
           /\ IsFiniteSet(1..Len(rs)) /\ Cardinality(1..Len(rs)) = Len(rs)
           /\ IsFiniteSet({k \in DOMAIN rs : rs[k].level \in Ls /\ rs[k].status \in Ss})
<1>1. DOMAIN rs = 1..Len(rs) /\ Len(rs) \in Nat
  OBVIOUS
<1>2. IsFiniteSet(1..Len(rs)) /\ Cardinality(1..Len(rs)) = Len(rs)
  <2>1. 1 \in Int /\ Len(rs) \in Int
    BY <1>1
  <2>2. IsFiniteSet(1..Len(rs))
        /\ Cardinality(1..Len(rs)) = IF 1 > Len(rs) THEN 0 ELSE Len(rs) - 1 + 1
    BY <2>1, FS_Interval
  <2> QED
    BY <1>1, <2>2
<1>3. {k \in DOMAIN rs : rs[k].level \in Ls /\ rs[k].status \in Ss} \in SUBSET (1..Len(rs))
  BY <1>1
<1> QED
  BY <1>1, <1>2, <1>3, FS_Subset

\* A count is zero exactly if there is nothing to count.
LEMMA CountIsZero ==
    ASSUME NEW rs \in Seq(Given), NEW Ls, NEW Ss
    PROVE  Count(rs, Ls, Ss) = 0 <=>
               \A k \in DOMAIN rs : ~(rs[k].level \in Ls /\ rs[k].status \in Ss)
<1> DEFINE S == {k \in DOMAIN rs : rs[k].level \in Ls /\ rs[k].status \in Ss}
<1>1. IsFiniteSet(S)
  BY CountedAreFinite
<1>2. Cardinality(S) = 0 <=> S = {}
  <2> HIDE DEF S
  <2> QED
    BY <1>1, FS_EmptySet
<1>3. S = {} <=> \A k \in DOMAIN rs : ~(rs[k].level \in Ls /\ rs[k].status \in Ss)
  OBVIOUS
<1>4. Count(rs, Ls, Ss) = Cardinality(S)
  BY Zenon DEF Count
<1> HIDE DEF S
<1> QED
  BY <1>2, <1>3, <1>4

\* Two counts over some levels agree exactly if the wider one counts nothing else.
LEMMA CountIsAll ==
    ASSUME NEW rs \in Seq(Given), NEW Ls, NEW Ss \in SUBSET Statuses
    PROVE  Count(rs, Ls, Ss) = Count(rs, Ls, Statuses) <=>
               \A k \in DOMAIN rs : rs[k].level \in Ls => rs[k].status \in Ss
<1> DEFINE S == {k \in DOMAIN rs : rs[k].level \in Ls /\ rs[k].status \in Ss}
           T == {k \in DOMAIN rs : rs[k].level \in Ls /\ rs[k].status \in Statuses}
<1>1. IsFiniteSet(T) /\ S \in SUBSET T
  BY CountedAreFinite
<1>2. Cardinality(S) = Cardinality(T) <=> S = T
  <2> HIDE DEF S, T
  <2> QED
    BY <1>1, FS_Subset
<1>3. S = T <=> \A k \in DOMAIN rs : rs[k].level \in Ls => rs[k].status \in Ss
  <2>1. \A k \in DOMAIN rs : rs[k].status \in Statuses
    BY GivenTypes DEF Statuses
  <2> QED
    BY <2>1
<1>4. Count(rs, Ls, Ss) = Cardinality(S) /\ Count(rs, Ls, Statuses) = Cardinality(T)
  BY Zenon DEF Count
<1> HIDE DEF S, T
<1> QED
  BY <1>2, <1>3, <1>4

\* A count is the number of results exactly if it leaves none out.
LEMMA CountIsLen ==
    ASSUME NEW rs \in Seq(Given), NEW Ss
    PROVE  Count(rs, Levels, Ss) = Len(rs) <=> \A k \in DOMAIN rs : rs[k].status \in Ss
<1> DEFINE S == {k \in DOMAIN rs : rs[k].level \in Levels /\ rs[k].status \in Ss}
<1>1. /\ DOMAIN rs = 1..Len(rs) /\ IsFiniteSet(1..Len(rs))
      /\ Cardinality(1..Len(rs)) = Len(rs) /\ S \in SUBSET (1..Len(rs))
  BY CountedAreFinite
<1>2. Cardinality(S) = Len(rs) <=> S = 1..Len(rs)
  <2> HIDE DEF S
  <2> QED
    BY <1>1, FS_Subset
<1>3. S = 1..Len(rs) <=> \A k \in DOMAIN rs : rs[k].status \in Ss
  <2>1. \A k \in DOMAIN rs : rs[k].level \in Levels
    BY GivenTypes
  <2> QED
    BY <1>1, <2>1
<1>4. Count(rs, Levels, Ss) = Cardinality(S)
  BY Zenon DEF Count
<1> HIDE DEF S
<1> QED
  BY <1>2, <1>3, <1>4

-----------------------------------------------------------------------------
(* The verdicts of a report.                                               *)

\* Either runner says "conformant" exactly if every test passed; the gRPC runner
\* wants at least one.
LEMMA ConformantIsAllPass ==
    ASSUME NEW rs \in Seq(Given)
    PROVE  /\ HttpConformant(rs) <=> \A k \in DOMAIN rs : rs[k].status = "pass"
           /\ GrpcConformant(rs) <=> rs # <<>> /\ \A k \in DOMAIN rs : rs[k].status = "pass"
<1>1. \A k \in DOMAIN rs : rs[k].level \in Levels /\ rs[k].status \in {"pass", "fail", "error"}
  BY GivenTypes
<1>2. Count(rs, Levels, {"fail", "error"}) = 0 <=>
          \A k \in DOMAIN rs : ~(rs[k].level \in Levels /\ rs[k].status \in {"fail", "error"})
  BY CountIsZero
<1>3. Count(rs, Levels, {"pass"}) = Len(rs) <=> \A k \in DOMAIN rs : rs[k].status \in {"pass"}
  BY CountIsLen
<1> QED
  BY <1>1, <1>2, <1>3 DEF HttpConformant, GrpcConformant

\* A level is clean for the gRPC runner if it was tested and every test of it passed,
\* and for the HTTP runner if every test of it passed.
LEMMA CleanLevels ==
    ASSUME NEW rs \in Seq(Given), NEW l
    PROVE  /\ HttpClean(rs, l) <=>
                  \A k \in DOMAIN rs : rs[k].level = l => rs[k].status = "pass"
           /\ GrpcClean(rs, l) <=>
                  /\ l \in TestedLevels(rs)
                  /\ \A k \in DOMAIN rs : rs[k].level = l => rs[k].status = "pass"
<1>1. \A k \in DOMAIN rs : rs[k].status \in {"pass", "fail", "error"}
  BY GivenTypes
<1>2. {"pass"} \in SUBSET Statuses
  BY DEF Statuses
<1>3. Count(rs, {l}, {"fail", "error"}) = 0 <=>
          \A k \in DOMAIN rs : ~(rs[k].level \in {l} /\ rs[k].status \in {"fail", "error"})
  BY CountIsZero
<1>4. Count(rs, {l}, {"pass"}) = Count(rs, {l}, Statuses) <=>
          \A k \in DOMAIN rs : rs[k].level \in {l} => rs[k].status \in {"pass"}
  BY <1>2, CountIsAll
<1> QED
  BY <1>1, <1>3, <1>4 DEF HttpClean, GrpcClean

\* The highest of some levels is one of them, or -1 if there is none.
LEMMA HighestType ==
    ASSUME NEW S \in SUBSET Core
    PROVE  /\ Highest({-1} \cup S) \in {-1} \cup S
           /\ \A m \in S : m <= Highest({-1} \cup S)
<1> DEFINE T == {-1} \cup S
<1>1. \E l \in T : \A m \in T : m <= l
  <2>1. CASE 4 \in S
    BY <2>1 DEF Core
  <2>2. CASE 4 \notin S /\ 3 \in S
    BY <2>2 DEF Core
  <2>3. CASE 4 \notin S /\ 3 \notin S /\ 2 \in S
    BY <2>3 DEF Core
  <2>4. CASE 4 \notin S /\ 3 \notin S /\ 2 \notin S /\ 1 \in S
    BY <2>4 DEF Core
  <2>5. CASE 4 \notin S /\ 3 \notin S /\ 2 \notin S /\ 1 \notin S
    BY <2>5 DEF Core
  <2> QED
    BY <2>1, <2>2, <2>3, <2>4, <2>5
<1>2. Highest(T) \in T /\ \A m \in T : m <= Highest(T)
  <2> HIDE DEF T
  <2> QED
    BY <1>1 DEF Highest
<1> QED
  BY <1>2

\* The level the gRPC runner reports covers every level below it.
LEMMA GrpcLevelIsCumulative ==
    ASSUME NEW rs \in Seq(Given), NEW m \in 0..GrpcConformantLevel(rs)
    PROVE  /\ \E k \in DOMAIN rs : rs[k].level = m
           /\ \A k \in DOMAIN rs : rs[k].level = m => rs[k].status = "pass"
<1> DEFINE S == {l \in Core : \A n \in 0..l : GrpcClean(rs, n)}
           h == Highest({-1} \cup S)
<1>1. h \in {-1} \cup S
  BY HighestType
<1>2. m \in 0..h
  BY DEF GrpcConformantLevel
<1>3. h # -1
  <2> HIDE DEF h
  <2> QED
    BY <1>2
<1>4. GrpcClean(rs, m)
  <2>1. h \in S
    BY <1>1, <1>3
  <2> HIDE DEF h
  <2> QED
    BY <1>2, <2>1
<1> QED
  BY <1>4, CleanLevels DEF TestedLevels

\* With every level below a tested one tested, the runners report the same level.
LEMMA LevelsAgree ==
    ASSUME NEW rs \in Seq(Given),
           \A l \in Core \cap TestedLevels(rs) : 0..l \subseteq TestedLevels(rs)
    PROVE  HttpConformantLevel(rs) = GrpcConformantLevel(rs)
<1> DEFINE A == {l \in Core \cap TestedLevels(rs) :
                    \A m \in TestedLevels(rs) : m <= l => HttpClean(rs, m)}
           B == {l \in Core : \A m \in 0..l : GrpcClean(rs, m)}
<1>1. \A m \in TestedLevels(rs) : HttpClean(rs, m) <=> GrpcClean(rs, m)
  BY CleanLevels
<1>2. \A m : GrpcClean(rs, m) => m \in TestedLevels(rs)
  BY DEF GrpcClean
<1>3. TestedLevels(rs) \subseteq Levels
  BY GivenTypes DEF TestedLevels
<1>4. ASSUME NEW l \in A PROVE l \in B
  <2>1. 0..l \subseteq TestedLevels(rs) /\ l \in Core
    OBVIOUS
  <2>2. \A m \in 0..l : m <= l
    BY <2>1 DEF Core
  <2> QED
    BY <1>1, <2>1, <2>2
<1>5. ASSUME NEW l \in B PROVE l \in A
  <2>1. l \in Core /\ l \in 0..l
    BY DEF Core
  <2>2. l \in TestedLevels(rs)
    BY <1>2, <2>1
  <2>3. ASSUME NEW m \in TestedLevels(rs), m <= l PROVE HttpClean(rs, m)
    <3>1. m \in 0..l
      BY <1>3, <2>1, <2>3 DEF Levels, Core, Ext
    <3> QED
      BY <1>1, <3>1
  <2> QED
    BY <2>1, <2>2, <2>3
<1>6. A = B
  BY <1>4, <1>5
<1> QED
  BY <1>6 DEF HttpConformantLevel, GrpcConformantLevel

-----------------------------------------------------------------------------
(* The invariant of a run.                                                 *)

AllPass == \A k \in DOMAIN results : results[k].status = "pass"

SuiteTypes ==
    /\ runner \in Runners /\ suite \in Suites /\ request \in Requests
    /\ phase \in {"load", "run", "report", "exited"}
    /\ tests \in Seq(TestFile) /\ results \in Seq(Given) /\ Len(results) <= Len(tests)
    /\ leftovers \in BOOLEAN /\ isolated \in BOOLEAN
    /\ exit \in {-1, 0, 1, 2}
    /\ result \in {"", "PASS", "FAIL"}

\* There is no exit code before the end, something to run, and a result for each
\* test in the end.
Progress ==
    /\ phase = "load" => results = <<>>
    /\ phase # "exited" => exit = -1 /\ output = NoReport
    /\ phase \in {"run", "report"} => tests # <<>>
    /\ phase = "report" => Len(results) = Len(tests)

\* On a clean server, a test passes exactly if the server conforms to it.
Judged ==
    isolated => \A k \in DOMAIN results : results[k].status = "pass" <=> tests[k].conforms

\* The exit code and the report are those of the results.
Reported ==
    /\ output # NoReport => output = Report(runner, results)
    /\ exit \in {0, 1} =>
          /\ tests # <<>> /\ Len(results) = Len(tests)
          /\ exit = 0 <=> AllPass

SuiteInv == SuiteTypes /\ Progress /\ Judged /\ Reported

LEMMA InitSuiteInv == Init => SuiteInv
<1> SUFFICES ASSUME Init PROVE SuiteInv
  OBVIOUS
<1>1. tests = <<>> /\ results = <<>> /\ phase = "load" /\ exit = -1 /\ output = NoReport
  BY DEF Init
<1>2. tests \in Seq(TestFile) /\ results \in Seq(Given) /\ Len(results) <= Len(tests)
  BY <1>1
<1>3. SuiteTypes
  BY <1>1, <1>2 DEF Init, SuiteTypes
<1>4. Progress /\ Judged /\ Reported
  BY <1>1 DEF Progress, Judged, Reported
<1> QED
  BY <1>3, <1>4 DEF SuiteInv

\* What is chosen is a sequence of test files, of which there is one unless the
\* selection is empty.
LEMMA ChosenTypes ==
    ASSUME suite \in Suites, NEW ts \in Chosen, SelectedFiles # {}
    PROVE  ts \in Seq(TestFile) /\ ts # <<>>
<1>1. suite \in Seq(TestFile)
  BY SuiteRunnerAssumption
<1>2. /\ DOMAIN suite = 1..Len(suite) /\ Len(suite) \in Nat
      /\ \A k \in DOMAIN suite : suite[k] \in TestFile
  BY <1>1
<1>3. SelectedFiles \in SUBSET (1..Len(suite)) /\ IsFiniteSet(1..Len(suite))
  <2>1. 1 \in Int /\ Len(suite) \in Int
    BY <1>2
  <2> QED
    BY <1>2, <2>1, FS_Interval DEF SelectedFiles
<1>4. IsFiniteSet(SelectedFiles)
  BY <1>3, FS_Subset
<1>5. Cardinality(SelectedFiles) \in Nat /\ Cardinality(SelectedFiles) # 0
  BY <1>4, FS_CardinalityType, FS_EmptySet
<1>6. PICK s \in [1..Cardinality(SelectedFiles) -> SelectedFiles] :
          ts = [k \in DOMAIN s |-> suite[s[k]]]
  BY DEF Chosen
<1>7. \A k \in 1..Cardinality(SelectedFiles) : suite[s[k]] \in TestFile
  BY <1>2, <1>3, <1>6
<1>8. ts \in [1..Cardinality(SelectedFiles) -> TestFile]
  BY <1>6, <1>7
<1>9. ts \in Seq(TestFile) /\ Len(ts) = Cardinality(SelectedFiles)
  BY <1>5, <1>8
<1> QED
  BY <1>5, <1>9

\* A test run: its result is added, or the run is over.
LEMMA RunTestInv == SuiteInv /\ RunTest => SuiteInv'
<1> SUFFICES ASSUME SuiteInv, RunTest PROVE SuiteInv'
  OBVIOUS
<1> USE DEF params
<1> DEFINE n == Len(results) + 1
           t == tests[n]
<1>1. /\ phase = "run" /\ Len(results) < Len(tests)
      /\ UNCHANGED <<params, tests, output, result>> /\ leftovers' = TRUE
  BY DEF RunTest
<1>2. /\ tests \in Seq(TestFile) /\ results \in Seq(Given) /\ exit = -1 /\ output = NoReport
      /\ tests # <<>> /\ isolated \in BOOLEAN
  BY <1>1 DEF SuiteInv, SuiteTypes, Progress
<1>3. t \in TestFile /\ t.level \in Levels /\ t.conforms \in BOOLEAN
  <2>1. n \in 1..Len(tests)
    BY <1>1, <1>2
  <2>2. t \in TestFile
    BY <1>2, <2>1
  <2> HIDE DEF t
  <2> QED
    BY <2>2 DEF TestFile
<1>4. PICK dirty \in BOOLEAN :
          /\ isolated' = (isolated /\ ~dirty)
          /\ \/ \E st \in IF dirty THEN {"pass", "fail", "error"}
                          ELSE IF t.conforms THEN {"pass"} ELSE {"fail", "error"} :
                    /\ results' = Append(results, [level |-> t.level, status |-> st])
                    /\ UNCHANGED <<phase, exit>>
             \/ t.lethal /\ Exit(2) /\ UNCHANGED results
  BY DEF RunTest, SuiteInv, SuiteTypes
<1>5. CASE t.lethal /\ Exit(2) /\ UNCHANGED results
  <2>1. phase' = "exited" /\ exit' = 2 /\ results' = results
    BY <1>5 DEF Exit
  <2>2. SuiteTypes'
    BY <1>1, <1>2, <1>4, <2>1 DEF SuiteInv, SuiteTypes
  <2>3. Progress' /\ Judged' /\ Reported'
    BY <1>1, <1>2, <1>4, <2>1 DEF SuiteInv, Progress, Judged, Reported
  <2> QED
    BY <2>2, <2>3 DEF SuiteInv
<1>6. ASSUME NEW st \in IF dirty THEN {"pass", "fail", "error"}
                        ELSE IF t.conforms THEN {"pass"} ELSE {"fail", "error"},
             results' = Append(results, [level |-> t.level, status |-> st]),
             UNCHANGED <<phase, exit>>
      PROVE  SuiteInv'
  <2> DEFINE r == [level |-> t.level, status |-> st]
  <2>1. r \in Given /\ r.status = st
    <3>1. st \in {"pass", "fail", "error"}
      BY <1>6
    <3> HIDE DEF t
    <3> QED
      BY <1>3, <3>1 DEF Given
  <2>2. ~dirty => (st = "pass" <=> t.conforms)
    BY <1>3, <1>6
  <2>3. /\ results' \in Seq(Given) /\ Len(results') = Len(results) + 1
        /\ DOMAIN results' = DOMAIN results \cup {n}
        /\ results'[n] = r
        /\ \A k \in DOMAIN results : results'[k] = results[k]
    <3>1. results' = Append(results, r) /\ r \in Given
      BY <1>6, <2>1
    <3>2. results \in Seq(Given)
      BY <1>2
    <3> HIDE DEF r
    <3> QED
      BY <3>1, <3>2
  <2>4. Len(results') <= Len(tests)
    BY <1>1, <1>2, <2>3
  <2>5. SuiteTypes'
    BY <1>1, <1>4, <1>6, <2>3, <2>4 DEF SuiteInv, SuiteTypes
  <2>6. Judged'
    <3> HIDE DEF t, n, r
    <3>1. ASSUME isolated', NEW k \in DOMAIN results'
          PROVE  results'[k].status = "pass" <=> tests'[k].conforms
      <4>1. isolated /\ ~dirty /\ tests' = tests
        BY <1>1, <1>4, <3>1
      <4>2. CASE k = n
        <5>1. tests[n] = t
          BY DEF t
        <5> QED
          BY <2>1, <2>2, <2>3, <4>1, <4>2, <5>1
      <4>3. CASE k \in DOMAIN results
        BY <2>3, <4>1, <4>3 DEF SuiteInv, Judged
      <4> QED
        BY <2>3, <3>1, <4>2, <4>3
    <3> QED
      BY <3>1 DEF Judged
  <2>7. Progress' /\ Reported'
    BY <1>1, <1>2, <1>6 DEF Progress, Reported
  <2> QED
    BY <2>5, <2>6, <2>7 DEF SuiteInv
<1> QED
  BY <1>4, <1>5, <1>6

\* The end of a run: the exit code is derived from the report.
LEMMA FinishInv == SuiteInv /\ Finish => SuiteInv'
<1> SUFFICES ASSUME SuiteInv, Finish PROVE SuiteInv'
  OBVIOUS
<1> USE DEF params
<1>1. /\ phase = "report" /\ phase' = "exited"
      /\ UNCHANGED <<params, tests, results, leftovers, isolated, result>>
      /\ \/ /\ output' = Report(runner, results)
            /\ exit' = ExitCode(Report(runner, results))
         \/ exit' = 2 /\ UNCHANGED output
  BY DEF Finish, Exit
<1>2. /\ results \in Seq(Given) /\ tests \in Seq(TestFile) /\ tests # <<>>
      /\ Len(results) = Len(tests) /\ runner \in {"http", "grpc"} /\ output = NoReport
  BY <1>1, SuiteRunnerAssumption DEF SuiteInv, SuiteTypes, Progress
<1>3. results # <<>>
  BY <1>2
<1>4. Report(runner, results).conformant <=> AllPass
  <2>1. Report(runner, results).conformant =
            IF runner = "http" THEN HttpConformant(results) ELSE GrpcConformant(results)
    BY DEF Report
  <2> QED
    BY <1>2, <1>3, <2>1, ConformantIsAllPass DEF AllPass
<1>5. exit' \in {0, 1, 2} /\ (exit' \in {0, 1} => (exit' = 0 <=> AllPass))
  BY <1>1, <1>4 DEF ExitCode
<1>6. SuiteTypes'
  BY <1>1, <1>5 DEF SuiteInv, SuiteTypes
<1>7. Progress' /\ Judged'
  BY <1>1 DEF SuiteInv, Progress, Judged
<1>8. Reported'
  BY <1>1, <1>2, <1>5 DEF Reported, AllPass
<1> QED
  BY <1>6, <1>7, <1>8 DEF SuiteInv

LEMMA NextSuiteInv == SuiteInv /\ [Next]_vars => SuiteInv'
<1> SUFFICES ASSUME SuiteInv, [Next]_vars PROVE SuiteInv'
  OBVIOUS
<1> USE DEF params
<1>1. CASE Load
  <2>1. /\ phase = "load" /\ results = <<>> /\ exit = -1 /\ output = NoReport
        /\ UNCHANGED <<params, results, leftovers, isolated, output, result>>
    BY <1>1 DEF Load, SuiteInv, Progress
  <2>2. \/ phase' = "exited" /\ exit' = 2 /\ tests' = tests
        \/ phase' = "run" /\ tests' \in Chosen /\ SelectedFiles # {} /\ exit' = exit
    BY <1>1 DEF Load, Exit, Refused
  <2>3. /\ tests' \in Seq(TestFile)
        /\ phase' = "run" => tests' # <<>>
    BY <2>2, ChosenTypes DEF SuiteInv, SuiteTypes
  <2>4. Len(results') <= Len(tests') /\ results' \in Seq(Given)
    BY <2>1, <2>3
  <2>5. SuiteTypes'
    BY <2>1, <2>2, <2>3, <2>4 DEF SuiteInv, SuiteTypes
  <2>6. Progress' /\ Judged' /\ Reported'
    BY <2>1, <2>2, <2>3 DEF Progress, Judged, Reported
  <2> QED
    BY <2>5, <2>6 DEF SuiteInv
<1>2. CASE RunTest
  BY <1>2, RunTestInv
<1>3. CASE TestsOver
  <2>1. /\ phase = "run" /\ phase' = "report" /\ Len(results) = Len(tests)
        /\ UNCHANGED <<params, tests, results, leftovers, isolated, output, exit, result>>
    BY <1>3 DEF TestsOver
  <2> QED
    BY <2>1 DEF SuiteInv, SuiteTypes, Progress, Judged, Reported, AllPass
<1>4. CASE Finish
  BY <1>4, FinishInv
<1>5. CASE ActionResult
  <2>1. /\ result' \in {"PASS", "FAIL"}
        /\ UNCHANGED <<params, phase, tests, results, leftovers, isolated, output, exit>>
    BY <1>5 DEF ActionResult
  <2> QED
    BY <2>1 DEF SuiteInv, SuiteTypes, Progress, Judged, Reported, AllPass
<1>6. CASE Terminated \/ UNCHANGED vars
  <2>1. UNCHANGED vars
    BY <1>6 DEF Terminated
  <2> QED
    BY <2>1 DEF vars, SuiteInv, SuiteTypes, Progress, Judged, Reported, AllPass
<1> QED
  BY <1>1, <1>2, <1>3, <1>4, <1>5, <1>6 DEF Next

LEMMA SuiteInvCorrect == Spec => []SuiteInv
<1> QED
  BY InitSuiteInv, NextSuiteInv, PTL DEF Spec

-----------------------------------------------------------------------------
(* What a run tells.                                                       *)

\* A run keeps to its types, and its exit code is one of the documented ones.
THEOREM TypesAreKept == Spec => []TypeOK
<1>1. ASSUME SuiteTypes PROVE TypeOK
  <2>1. tests \in Seq(TestFile) /\ results \in Seq(Given)
    BY <1>1 DEF SuiteTypes
  <2>2. \A k \in DOMAIN tests : tests[k] \in TestFile
    BY <2>1
  <2>3. \A k \in DOMAIN results : results[k] \in TestResult
    <3>1. \A k \in DOMAIN results : results[k] \in Given
      BY <2>1
    <3>2. Given \subseteq TestResult
      BY DEF Given, TestResult, Statuses
    <3> QED
      BY <3>1, <3>2
  <2> QED
    BY <1>1, <2>2, <2>3 DEF SuiteTypes, TypeOK
<1>2. SuiteInv => TypeOK
  BY <1>1 DEF SuiteInv
<1> QED
  BY <1>2, SuiteInvCorrect, PTL

\* Exit code 0 means that something was tested, that all of it ran and that every
\* test passed, at whatever level.
THEOREM ZeroIsEarned == Spec => []ExitZeroIsEarned
<1>1. SuiteInv => ExitZeroIsEarned
  BY DEF SuiteInv, Reported, AllPass, ExitZeroIsEarned
<1> QED
  BY <1>1, SuiteInvCorrect, PTL

\* Exit code 1 means that all tests ran and one did not pass; a run that went
\* wrong never ends with it.
THEOREM OneHasCause == Spec => []ExitOneHasCause
<1>1. SuiteInv => ExitOneHasCause
  BY DEF SuiteInv, Reported, AllPass, ExitOneHasCause
<1> QED
  BY <1>1, SuiteInvCorrect, PTL

\* If every test started on a clean server, the exit code tells exactly whether the
\* server conforms to all tests selected.
THEOREM VerdictIsExact == Spec => []VerdictIsTheServers
<1>1. ASSUME SuiteInv, exit \in {0, 1}, isolated
      PROVE  exit = 0 <=> \A k \in DOMAIN tests : tests[k].conforms
  <2>1. Len(results) = Len(tests) /\ (exit = 0 <=> AllPass)
    BY <1>1 DEF SuiteInv, Reported
  <2>2. DOMAIN results = 1..Len(results) /\ DOMAIN tests = 1..Len(tests)
    <3>1. results \in Seq(Given) /\ tests \in Seq(TestFile)
      BY <1>1 DEF SuiteInv, SuiteTypes
    <3> QED
      BY <3>1
  <2>3. DOMAIN results = DOMAIN tests
    BY <2>1, <2>2
  <2>4. \A k \in DOMAIN results : results[k].status = "pass" <=> tests[k].conforms
    BY <1>1 DEF SuiteInv, Judged
  <2> QED
    BY <2>1, <2>3, <2>4 DEF AllPass
<1>2. SuiteInv => VerdictIsTheServers
  BY <1>1 DEF VerdictIsTheServers
<1> QED
  BY <1>2, SuiteInvCorrect, PTL

\* Conformance to a level, as the gRPC runner reports it, covers every level below.
THEOREM LevelsAreCovered == Spec => []LevelIsCumulative
<1>1. ASSUME SuiteInv, output # NoReport, runner = "grpc", NEW m \in 0..output.conformant_level
      PROVE  /\ \E k \in DOMAIN results : results[k].level = m
             /\ \A k \in DOMAIN results : results[k].level = m => results[k].status = "pass"
  <2>1. output = Report(runner, results) /\ results \in Seq(Given)
    BY <1>1 DEF SuiteInv, Reported, SuiteTypes
  <2>2. output.conformant_level = GrpcConformantLevel(results)
    BY <1>1, <2>1 DEF Report
  <2> QED
    BY <1>1, <2>1, <2>2, GrpcLevelIsCumulative
<1>2. SuiteInv => LevelIsCumulative
  BY <1>1 DEF LevelIsCumulative
<1> QED
  BY <1>2, SuiteInvCorrect, PTL

\* On the same results the two runners give the same verdict, and the same level if
\* no level below a tested one is left out.
THEOREM ReportsAgree == Spec => []RunnersAgree
<1>1. SuiteInv => RunnersAgree
  <2>1. SuiteInv => results \in Seq(Given)
    BY DEF SuiteInv, SuiteTypes
  <2>2. ASSUME results \in Seq(Given), results # <<>>
        PROVE  HttpConformant(results) = GrpcConformant(results)
    <3>1. HttpConformant(results) \in BOOLEAN /\ GrpcConformant(results) \in BOOLEAN
      BY DEF HttpConformant, GrpcConformant
    <3> QED
      BY <2>2, <3>1, ConformantIsAllPass
  <2> QED
    BY <2>1, <2>2, LevelsAgree DEF RunnersAgree
<1> QED
  BY <1>1, SuiteInvCorrect, PTL

=============================================================================
