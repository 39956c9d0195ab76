------------------------------ MODULE TestRunner ------------------------------
(***************************************************************************)
(* One test case run by one of the two conformance runners: runTest,       *)
(* executeStepsWithParallel, collectParallelGroup and executeStep of       *)
(* runner/http/runner.go and runner/grpc/runner.go.                        *)
(*                                                                         *)
(* The main goroutine walks the setup, test and teardown steps.  A group   *)
(* of steps linked by parallel_with is handed to one goroutine per step;   *)
(* they store their results in the shared map stepResults under a mutex,   *)
(* but read it, to resolve templates, without one.                         *)
(***************************************************************************)
EXTENDS TestCases

CONSTANTS
    Runners,    \* the runners considered, a subset of {"http", "grpc"}
    Tests,      \* the test cases considered
    NoResult,   \* no entry in stepResults
    Nobody      \* the mutex is free

ASSUME TestRunnerAssumption ==
    /\ Runners \subseteq {"http", "grpc"}
    /\ Tests \subseteq TestCase
    /\ NoResult \notin Response
    /\ Nobody \notin Nat

Lists == {"setup", "steps", "teardown"}
PCs   == {"idle", "resolve", "call", "evaluate", "lock", "store", "over"}

VARIABLES
    runner,       \* which runner executes the test
    tc,           \* the test case; runner and tc never change
    phase,        \* the list being walked, or how the process ended
    at,           \* per list, the position the main goroutine is at
    stepResults,  \* the map every template is resolved against
    executed,     \* ids that executeStepsWithParallel marked as executed
    batch,        \* positions of the group running in parallel, if any
    pc,           \* per position, where its goroutine is
    mu,           \* the goroutine that holds the mutex
    sent,         \* per position, the templates its last request resolved
    reply,        \* per position, its last StepResult
    fails,        \* per position, whether that StepResult came with failures
    reported,     \* per position, its entries in allResults
    failed,       \* the positions with an entry in allFailures
    status        \* result.Status, "" until it is set

params  == <<runner, tc>>
locals  == <<pc, sent, reply, fails>>
report  == <<reported, failed>>
vars    == <<runner, tc, phase, at, stepResults, executed, batch, mu,
             pc, sent, reply, fails, reported, failed, status>>

Pos == DOMAIN tc.steps

Init ==
    /\ runner \in Runners
    /\ tc \in Tests
    /\ phase = "setup"
    /\ at = [l \in Lists |-> 1]
    /\ stepResults = [i \in Ids \cup {NoId} |-> NoResult]
    /\ executed = {}
    /\ batch = {}
    /\ pc = [p \in Pos |-> "idle"]
    /\ mu = Nobody
    /\ sent = [p \in Pos |-> {}]
    /\ reply = [p \in Pos |-> Silent]
    /\ fails = [p \in Pos |-> FALSE]
    /\ reported = [p \in Pos |-> 0]
    /\ failed = {}
    /\ status = ""

-----------------------------------------------------------------------------
(* executeStep *)

\* Mutant: any JSON object will do for a template.
ResolvedByAnyObject(refs, results) ==
    {r \in refs : results[r] # NoResult /\ results[r].kind \in {"object", "full"}}

\* A template resolves against a stored result whose body has the field.
Resolved(refs, results) ==
    {r \in refs : results[r] # NoResult /\ results[r].kind = "full"}

\* Mutant: the loop over the assertions gives up on the first that holds.
AssertionFailsIfAllDo(s, r, known) ==
    /\ s.asserts \cap Evaluated # {}
    /\ \A c \in s.asserts \cap Evaluated : c \notin r.meets

\* Mutant: body matchers are evaluated against a nil Parsed, too.
AssertionFailsOnNil(s, r, known) ==
    \E c \in s.asserts \cap Evaluated :
        c \notin r.meets \/ (c = "body" /\ ~(s.matcherRefs \subseteq known))

\* Some assertion of step s fails on response r, when `known` are the
\* templates of its matchers that resolved.  Without a JSON object the body
\* matchers are not looked at; a matcher left unresolved matches nothing.
AssertionFails(s, r, known) ==
    \E c \in s.asserts \cap Evaluated :
        IF c = "body" THEN /\ r.kind # "opaque"
                           /\ c \notin r.meets \/ ~(s.matcherRefs \subseteq known)
                      ELSE c \notin r.meets

\* The HTTP runner sends any action but WAIT, the word ASSERT included, as an
\* HTTP request.  The gRPC runner finds no RPC for ASSERT and gives up.
HttpReplies(s) == Replies(s)
GrpcReplies(s) == IF s.action = "ASSERT" THEN {} ELSE Replies(s)
RunnerReplies(s) == IF runner = "http" THEN HttpReplies(s) ELSE GrpcReplies(s)

\* Mutant: a WAIT step returns a nil StepResult.
OutcomesNilForWait(s, results) ==
    IF s.action = "WAIT"
    THEN {[reply |-> NoResult, fails |-> FALSE]}
    ELSE {[reply |-> Silent, fails |-> TRUE]} \cup
         {[reply |-> r, fails |-> FALSE] : r \in RunnerReplies(s)}

\* The outcomes of executeStep when no other goroutine touches the results:
\* a pure delay, a request that cannot be built or sent or read, a response.
Outcomes(s, results) ==
    IF s.action = "WAIT"
    THEN {[reply |-> Silent, fails |-> FALSE]}
    ELSE {[reply |-> Silent, fails |-> TRUE]} \cup
         {[reply |-> r,
           fails |-> AssertionFails(s, r, Resolved(s.matcherRefs, results))]
              : r \in RunnerReplies(s)}

-----------------------------------------------------------------------------
(* collectParallelGroup *)

\* parallelGroups: the ids that name or are named in a parallel_with.
ParallelGroups ==
    UNION {{tc.steps[p].id, tc.steps[p].pw} : p \in {q \in Pos : tc.steps[q].pw # NoId}}

InGroup(k) == tc.steps[k].id \in ParallelGroups

\* Mutant: the rest of the list is taken for the group.
RestOfList(p) == p..Len(tc.steps)

\* The HTTP runner stops at the first step that is in no group, and leaves
\* out the steps it passes that are linked only by being named.
HttpGroup(p) ==
    {k \in p..Len(tc.steps) :
        /\ \A m \in p..k : InGroup(m)
        /\ \/ tc.steps[k].id = tc.steps[p].id
           \/ tc.steps[k].pw = tc.steps[p].id
           \/ tc.steps[k].pw # NoId}

\* The gRPC runner takes every step of a group, and only stops at a step
\* outside that does not name the first one.
GrpcGroup(p) ==
    {k \in p..Len(tc.steps) :
        /\ \A m \in p..k : InGroup(m) \/ tc.steps[m].pw = tc.steps[p].id
        /\ InGroup(k)}

Group(p) == IF runner = "http" THEN HttpGroup(p) ELSE GrpcGroup(p)

-----------------------------------------------------------------------------
(* runTest: setup *)

SetupStep ==
    /\ phase = "setup"
    /\ at["setup"] <= Len(tc.setup)
    /\ LET s == tc.setup[at["setup"]]
       IN  \E o \in Outcomes(s, stepResults) :
               /\ stepResults' = [stepResults EXCEPT ![s.id] = o.reply]
               /\ IF o.fails
                  THEN /\ phase' = "done"
                       /\ status' = "error"
                       /\ UNCHANGED at
                  ELSE /\ at' = [at EXCEPT !["setup"] = @ + 1]
                       /\ UNCHANGED <<phase, status>>
    /\ UNCHANGED <<params, executed, batch, mu, locals, report>>

SetupOver ==
    /\ phase = "setup"
    /\ at["setup"] > Len(tc.setup)
    /\ phase' = "steps"
    /\ UNCHANGED <<params, at, stepResults, executed, batch, mu, locals, report, status>>

-----------------------------------------------------------------------------
(* executeStepsWithParallel: the main goroutine *)

\* The main goroutine stands before step p of the test.
AtStep(p) ==
    /\ phase = "steps"
    /\ batch = {}
    /\ p = at["steps"]
    /\ p \in Pos

\* Mutant: the loop does not advance past a step it skips.
SkipStepStays ==
    \E p \in Pos : AtStep(p) /\ tc.steps[p].id \in executed /\ UNCHANGED vars

SkipStep ==
    \E p \in Pos :
        /\ AtStep(p)
        /\ tc.steps[p].id \in executed
        /\ at' = [at EXCEPT !["steps"] = p + 1]
        /\ UNCHANGED <<params, phase, stepResults, executed, batch, mu, locals,
                       report, status>>

StartsGroup(p) == InGroup(p) /\ Group(p) \ {p} # {}

SequentialStep ==
    \E p \in Pos :
        LET s == tc.steps[p]
        IN  /\ AtStep(p)
            /\ s.id \notin executed
            /\ ~StartsGroup(p)
            /\ \E o \in Outcomes(s, stepResults) :
                   /\ stepResults' = [stepResults EXCEPT ![s.id] = o.reply]
                   /\ reply' = [reply EXCEPT ![p] = o.reply]
                   /\ fails' = [fails EXCEPT ![p] = o.fails]
                   /\ failed' = IF o.fails THEN failed \cup {p} ELSE failed
            /\ sent' = [sent EXCEPT ![p] = Resolved(s.refs, stepResults)]
            /\ reported' = [reported EXCEPT ![p] = @ + 1]
            /\ executed' = executed \cup {s.id}
            /\ at' = [at EXCEPT !["steps"] = p + 1]
            /\ UNCHANGED <<params, phase, batch, mu, pc, status>>

StartGroup ==
    \E p \in Pos :
        /\ AtStep(p)
        /\ tc.steps[p].id \notin executed
        /\ StartsGroup(p)
        /\ batch' = Group(p)
        /\ pc' = [k \in Pos |-> IF k \in Group(p) THEN "resolve" ELSE pc[k]]
        /\ UNCHANGED <<params, phase, at, stepResults, executed, mu, sent, reply,
                       fails, report, status>>

\* Mutant: the group's ids are not marked as executed.
MarkedNone == {}

\* What a group adds to executed.
Marked == {tc.steps[p].id : p \in batch}

\* wg.Wait returned: append results and failures in list order, mark the ids
\* as executed, and go on with the next step of the list.
Join ==
    /\ phase = "steps"
    /\ batch # {}
    /\ \A p \in batch : pc[p] = "over"
    /\ reported' = [p \in Pos |-> IF p \in batch THEN reported[p] + 1 ELSE reported[p]]
    /\ failed' = failed \cup {p \in batch : fails[p]}
    /\ executed' = executed \cup Marked
    /\ pc' = [p \in Pos |-> IF p \in batch THEN "idle" ELSE pc[p]]
    /\ batch' = {}
    /\ at' = [at EXCEPT !["steps"] = @ + 1]
    /\ UNCHANGED <<params, phase, stepResults, mu, sent, reply, fails, status>>

-----------------------------------------------------------------------------
(* executeStepsWithParallel: the goroutine of step p *)

\* Mutant: the closure captures the loop's step, not its argument.
StoreKeyOfFirst(p) == tc.steps[at["steps"]].id

\* The key under which the goroutine of step p stores its result.
StoreKey(p) == tc.steps[p].id

\* What an unlocked read of the map can see: the map as it is or, while a
\* goroutine is inside its assignment, the map with that entry in place.
Views ==
    {stepResults} \cup
    {[stepResults EXCEPT ![StoreKey(w)] = reply[w]] : w \in {mu} \ {Nobody}}

\* Go's map detects a read during a write, on a best-effort basis, and kills
\* the process.
MapAccessIsFatal(refs) ==
    /\ refs # {}
    /\ mu # Nobody
    /\ phase' = "crashed"
    /\ UNCHANGED <<params, at, stepResults, executed, batch, mu, locals, report, status>>

GoTo(p, label) == pc' = [pc EXCEPT ![p] = label]

Goroutine == <<params, phase, at, executed, batch, report, status>>

Resolve(p) ==
    /\ phase = "steps"
    /\ pc[p] = "resolve"
    /\ tc.steps[p].action # "WAIT"
    /\ \/ /\ \E view \in Views :
                 sent' = [sent EXCEPT ![p] = Resolved(tc.steps[p].refs, view)]
          /\ GoTo(p, "call")
          /\ UNCHANGED <<Goroutine, stepResults, mu, reply, fails>>
       \/ MapAccessIsFatal(tc.steps[p].refs)

\* Mutant: a request that failed is sent again, however often.
NoResponseRetries(p) ==
    /\ phase = "steps"
    /\ \/ pc[p] = "resolve" /\ tc.steps[p].action = "WAIT"
       \/ pc[p] = "call"
    /\ reply' = [reply EXCEPT ![p] = Silent]
    /\ fails' = [fails EXCEPT ![p] = (pc[p] = "call")]
    /\ GoTo(p, IF pc[p] = "call" THEN "resolve" ELSE "lock")
    /\ UNCHANGED <<Goroutine, stepResults, mu, sent>>

\* A WAIT step returns before it resolves anything; a request that fails
\* returns before its assertions are evaluated.
NoResponse(p) ==
    /\ phase = "steps"
    /\ \/ pc[p] = "resolve" /\ tc.steps[p].action = "WAIT"
       \/ pc[p] = "call"
    /\ reply' = [reply EXCEPT ![p] = Silent]
    /\ fails' = [fails EXCEPT ![p] = (pc[p] = "call")]
    /\ GoTo(p, "lock")
    /\ UNCHANGED <<Goroutine, stepResults, mu, sent>>

Receive(p) ==
    /\ phase = "steps"
    /\ pc[p] = "call"
    /\ \E r \in RunnerReplies(tc.steps[p]) : reply' = [reply EXCEPT ![p] = r]
    /\ GoTo(p, "evaluate")
    /\ UNCHANGED <<Goroutine, stepResults, mu, sent, fails>>

Evaluate(p) ==
    /\ phase = "steps"
    /\ pc[p] = "evaluate"
    /\ \/ /\ \E view \in Views :
                 fails' = [fails EXCEPT ![p] =
                     AssertionFails(tc.steps[p], reply[p],
                                    Resolved(tc.steps[p].matcherRefs, view))]
          /\ GoTo(p, "lock")
          /\ UNCHANGED <<Goroutine, stepResults, mu, sent, reply>>
       \/ /\ reply[p].kind # "opaque"
          /\ MapAccessIsFatal(tc.steps[p].matcherRefs)

Lock(p) ==
    /\ phase = "steps"
    /\ pc[p] = "lock"
    /\ mu = Nobody
    /\ mu' = p
    /\ GoTo(p, "store")
    /\ UNCHANGED <<Goroutine, stepResults, sent, reply, fails>>

\* Mutant: the mutex is not unlocked after the assignment.
StoreKeepsLock(p) ==
    /\ phase = "steps"
    /\ pc[p] = "store"
    /\ stepResults' = [stepResults EXCEPT ![StoreKey(p)] = reply[p]]
    /\ GoTo(p, "over")
    /\ UNCHANGED <<Goroutine, mu, sent, reply, fails>>

Store(p) ==
    /\ phase = "steps"
    /\ pc[p] = "store"
    /\ stepResults' = [stepResults EXCEPT ![StoreKey(p)] = reply[p]]
    /\ mu' = Nobody
    /\ GoTo(p, "over")
    /\ UNCHANGED <<Goroutine, sent, reply, fails>>

-----------------------------------------------------------------------------
(* runTest: teardown and verdict *)

\* Mutant: a failed test is not torn down.
StepsOverUnlessFailed ==
    /\ phase = "steps"
    /\ batch = {}
    /\ at["steps"] > Len(tc.steps)
    /\ phase' = IF failed = {} THEN "teardown" ELSE "done"
    /\ status' = IF failed = {} THEN status ELSE "fail"
    /\ UNCHANGED <<params, at, stepResults, executed, batch, mu, locals, report>>

StepsOver ==
    /\ phase = "steps"
    /\ batch = {}
    /\ at["steps"] > Len(tc.steps)
    /\ phase' = "teardown"
    /\ UNCHANGED <<params, at, stepResults, executed, batch, mu, locals, report, status>>

\* The failures of a teardown step are dropped.
TeardownStep ==
    /\ phase = "teardown"
    /\ at["teardown"] <= Len(tc.teardown)
    /\ LET s == tc.teardown[at["teardown"]]
       IN  \E o \in Outcomes(s, stepResults) :
               stepResults' = [stepResults EXCEPT ![s.id] = o.reply]
    /\ at' = [at EXCEPT !["teardown"] = @ + 1]
    /\ UNCHANGED <<params, phase, executed, batch, mu, locals, report, status>>

Verdict ==
    /\ phase = "teardown"
    /\ at["teardown"] > Len(tc.teardown)
    /\ phase' = "done"
    /\ status' = IF failed = {} THEN "pass" ELSE "fail"
    /\ UNCHANGED <<params, at, stepResults, executed, batch, mu, locals, report>>

\* Not a step of the code: a finished or crashed test run stays as it is.
Terminated == phase \in {"done", "crashed"} /\ UNCHANGED vars

-----------------------------------------------------------------------------

GoroutineStep(p) ==
    \/ Resolve(p)
    \/ NoResponse(p)
    \/ Receive(p)
    \/ Evaluate(p)
    \/ Lock(p)
    \/ Store(p)

Next ==
    \/ SetupStep
    \/ SetupOver
    \/ SkipStep
    \/ SequentialStep
    \/ StartGroup
    \/ \E p \in Pos : GoroutineStep(p)
    \/ Join
    \/ StepsOver
    \/ TeardownStep
    \/ Verdict
    \/ Terminated

Spec == Init /\ [][Next]_vars

(* Every request has a deadline (http.Client.Timeout, rpcTimeout) and every *)
(* delay is finite, so the main goroutine and each step's goroutine keep    *)
(* moving.                                                                  *)
Main == \/ SetupStep \/ SetupOver \/ SkipStep \/ SequentialStep \/ StartGroup
        \/ Join \/ StepsOver \/ TeardownStep \/ Verdict

FairSpec == Spec /\ WF_vars(Main) /\ WF_vars(\E p \in Pos : GoroutineStep(p))

-----------------------------------------------------------------------------
(* Type invariant.                                                         *)

TypeOK ==
    /\ runner \in Runners
    /\ tc \in Tests
    /\ phase \in Lists \cup {"done", "crashed"}
    /\ at \in [Lists -> Nat] /\ \A l \in Lists : at[l] > 0
    /\ stepResults \in [Ids \cup {NoId} -> Response \cup {NoResult}]
    /\ executed \subseteq Ids \cup {NoId}
    /\ batch \subseteq Pos
    /\ pc \in [Pos -> PCs]
    /\ mu \in Pos \cup {Nobody}
    /\ sent \in [Pos -> SUBSET Ids]
    /\ reply \in [Pos -> Response]
    /\ fails \in [Pos -> BOOLEAN]
    /\ reported \in [Pos -> Nat]
    /\ failed \subseteq Pos
    /\ status \in {"", "pass", "fail", "error"}

-----------------------------------------------------------------------------
(* Properties of every test case.                                          *)

\* Step p has been executed, and is not being executed again.
Finished(p) == reported[p] > 0 /\ p \notin batch

\* Response r breaks an assertion of step s which it allows to be evaluated
\* (evaluateAssertions; Parsed is nil for an opaque body).
Breaks(s, r) ==
    /\ r # Silent
    /\ \/ "plain" \in s.asserts \ r.meets
       \/ "body" \in s.asserts \ r.meets /\ r.kind # "opaque"

Broken(p) == Breaks(tc.steps[p], reply[p])

\* The verdict of a test rests on every step that ran: a broken assertion of a
\* finished step, wherever it ran, is among the failures until runTest reads
\* them, and "pass" is never given over one.
NoFailureLost ==
    \A p \in Pos :
        Finished(p) /\ Broken(p) => p \in failed /\ status # "pass"

\* A goroutine writes stepResults only while it holds the mutex, and the
\* mutex is held by no one else than a goroutine of the running group.
WritesAreLocked ==
    \A p \in Pos : pc[p] = "store" <=> mu = p

\* A running group is never stuck: while wg.Wait holds the main goroutine back,
\* some goroutine of the group can go on, and one that waits for the mutex waits
\* for a goroutine that is about to unlock it (executeStepsWithParallel).
SomeoneGoesOn ==
    phase = "steps" /\ (\E p \in batch : pc[p] # "over") =>
        \/ \E p \in batch : pc[p] \in {"resolve", "call", "evaluate"}
        \/ mu = Nobody /\ \E p \in batch : pc[p] = "lock"
        \/ mu \in batch /\ pc[mu] = "store"

\* How far a goroutine is, and how far the test run is.
Stage(label) ==
    CASE label = "idle" -> 0  [] label = "resolve" -> 1  [] label = "call" -> 2
      [] label = "evaluate" -> 3  [] label = "lock" -> 4  [] label = "store" -> 5
      [] label = "over" -> 6

Stretch(ph) ==
    CASE ph = "setup" -> 0  [] ph = "steps" -> 1  [] ph = "teardown" -> 2
      [] ph \in {"done", "crashed"} -> 3

\* The run gets to a later phase, or past one more entry of its list, or starts
\* a group, or a single goroutine of the group gets further.
Headway ==
    \/ Stretch(phase) < Stretch(phase')
    \/ /\ phase' = phase /\ phase \in Lists
       /\ at[phase] <= Len(tc[phase])
       /\ at' = [at EXCEPT ![phase] = @ + 1]
    \/ /\ UNCHANGED <<phase, at>>
       /\ batch = {} /\ batch' # {}
    \/ /\ UNCHANGED <<phase, at, batch>>
       /\ \E p \in batch : /\ Stage(pc[p]) < Stage(pc'[p])
                            /\ \A q \in Pos \ {p} : pc'[q] = pc[q]

\* No step of a test run goes back or round in circles, in whatever order the
\* goroutines of a group take turns: each one uses up part of a finite stock, so
\* a run that can always go on ends (runTest, executeStepsWithParallel).
RunsMakeHeadway == [][Headway]_vars

\* Every test run comes to an end: with a verdict, or killed by the Go
\* runtime.
Ends == <>(phase \in {"done", "crashed"})

-----------------------------------------------------------------------------
(* Properties of well-formed test cases (TestCases, WellFormed).           *)

\* Steps run in list order, except linked ones: whatever precedes a step and
\* is not linked to it has been executed and reported before the step's
\* goroutine starts (comment of executeStepsWithParallel).
StepsInOrder ==
    \A p \in Pos :
        pc[p] # "idle" \/ reported[p] > 0 =>
            \A q \in Before(tc.steps, p) : reported[q] > 0

\* Steps run at the same time only if they are linked.
OverlapIsLinked == \A p, q \in batch : Linked(tc.steps, p, q)

\* No step runs twice, and none is missing once the teardown starts.
OnceEach ==
    \A p \in Pos :
        /\ reported[p] + (IF p \in batch THEN 1 ELSE 0) <= 1
        /\ phase = "teardown" \/ status \in {"pass", "fail"} => reported[p] = 1

\* The request of a step carried the values of exactly those earlier steps it
\* refers to whose answer had the field, in whatever order groups ran; a WAIT has
\* no request (resolveTemplates, executeStep).
TemplatesResolved ==
    \A p \in Pos, q \in Pos :
        /\ pc[p] \notin {"idle", "resolve"} \/ Finished(p)
        /\ tc.steps[p].action # "WAIT"
        /\ tc.steps[q].id \in tc.steps[p].refs
        => (tc.steps[q].id \in sent[p] <=> reply[q].kind = "full")

\* The map holds, for every finished step, the result that step got: no
\* group member's result is lost or taken for another's.
ResultsKept ==
    \A p \in Pos : Finished(p) => stepResults[tc.steps[p].id] = reply[p]

\* A stored result is never replaced: a template means the same whenever it
\* is resolved.
ResultsAreFinal ==
    [][\A i \in Ids : stepResults[i] # NoResult => stepResults'[i] = stepResults[i]]_vars

\* A pass is earned: every step ran once, and unless it is a WAIT got a response
\* that meets its assertions, in whatever order goroutines stored and read the
\* results.  Assertions on the body count over a JSON object only: over any other
\* body evaluateAssertions passes them by (BodyAssertionsCount).
PassIsEarned ==
    status = "pass" =>
        \A p \in Pos :
            /\ reported[p] = 1
            /\ tc.steps[p].action # "WAIT" =>
                   /\ reply[p] # Silent
                   /\ "plain" \in tc.steps[p].asserts => "plain" \in reply[p].meets
                   /\ "body" \in tc.steps[p].asserts =>
                          "body" \in reply[p].meets \/ reply[p].kind = "opaque"

\* A pass covers the assertions on the body, whatever the body is: "Each entry is
\* evaluated independently", and "exists" means "Field must exist"
\* (docs/test-case-reference.md, "Body Assertions" and "String Matchers").
BodyAssertionsCount ==
    status = "pass" =>
        \A p \in Pos : "body" \in tc.steps[p].asserts => "body" \in reply[p].meets

\* A fail has a cause in the server's answers: a step without a response, a
\* broken assertion, or a matcher that refers to an answer without the field.
FailHasCause ==
    status = "fail" =>
        \E p \in Pos :
            /\ tc.steps[p].action # "WAIT"
            /\ \/ reply[p] = Silent
               \/ Broken(p)
               \/ \E i \in tc.steps[p].matcherRefs :
                      stepResults[i] = NoResult \/ stepResults[i].kind # "full"

\* A pass covers the cross-step assertions of ASSERT steps as well
\* (docs/test-case-reference.md, "ASSERT Action").
CrossAssertionsCount ==
    status = "pass" =>
        \A p \in Pos : "cross" \in tc.steps[p].asserts => "cross" \in reply[p].meets

\* The unlocked reads of the map never meet a write: the process is not
\* killed for a concurrent map read and write.
NoConcurrentMapAccess == phase # "crashed"

\* It takes a template inside a group to kill the process: every other test, in
\* whatever order its groups' goroutines store their results, gets its verdict
\* (executeStepsWithParallel, resolveTemplates).
OnlyTemplatesCrash == phase = "crashed" => ~QuietGroups(tc)

\* Once the test's own steps have started, every teardown step is executed, unless
\* the process is killed.
TornDown ==
    (phase = "steps") ~> (at["teardown"] > Len(tc.teardown) \/ phase = "crashed")

-----------------------------------------------------------------------------
(* What a test run promises, as the abstract specification TestVerdict.    *)

TestProtocol ==
    INSTANCE TestVerdict WITH
        before   <- [p \in Pos |-> Before(tc.steps, p)],
        mayDie   <- ~QuietGroups(tc),
        finished <- {p \in Pos : Finished(p)},
        bad      <- failed,
        verdict  <- IF phase = "crashed" THEN "killed" ELSE status

TestProtocolSpec == TestProtocol!FairSpec

=============================================================================
