# Verification of ojs-conformance

TLA+ models of the OJS conformance suite runners and of the two services kept in the same
repository (the certification portal and the execution-history debug adapter), the TLC runs
that check them, and the theorems TLAPS proves about them. Paths are relative to `src/`.

## 1. The system

| Component | State | Operations | Interacts with |
|---|---|---|---|
| Test execution (`runner/http/runner.go`, `runner/grpc/runner.go`) | per test: step results, executed ids, failures, one mutex, the goroutines of a parallel group | set-up, steps in order or in parallel groups, templates, assertions, teardown, verdict | the server under test (external), assertion matchers, timing |
| Suite run and report (same files, `runner/grpc/main.go`) | tests selected, results so far, report | load, filter, reset the server, run each test, report, exit code | test execution; Redis or a reset URL |
| GitHub action (`action/action.yml`) | outputs of the job | run the HTTP runner, parse its JSON, set `result` | suite run through a file and an exit code |
| Types (`lib/schema.go`) | none | decoding of levels, header matchers | everything |
| Matchers (`lib/assertions.go`, `runner/grpc/assertions.go`) | none | matchers, JSON paths | test execution |
| Timing (`lib/timing.go`) | none | tolerances (its polling is called by nothing) | test execution |
| gRPC adapter and client (`runner/grpc/adapter.go`, `client.go`) | a connection | route table, status translation, one call per RPC | gRPC test execution |
| Certification portal (`badge/portal.go`, `cmd/portal/main.go`) | certificates in memory, a read-write lock | certify, read, list, verify, update with results | concurrent HTTP clients, an asynchronous runner (not in the repository) |
| Badge handler (`badge/badge.go`) | none | SVG from the URL | portal |
| Debug adapter (`cmd/exec-history-dap/serve.go`, `main.go`) | spans, cursor, thread ids, variable references | one handler per DAP request; one-shot emitter | an IDE over stdio; `lib.Replay` (not in the repository) |
| Suites, CI, container files | data and scripts | | |

What is hard in it:

* the goroutines of a parallel group share `stepResults`: writes are locked, the reads of
  `resolveTemplates` are not; which steps form a group is decided by a scan; `executed` and
  `stepResults` are keyed by step ids that may repeat or be missing;
* a test can fail in set-up, in a step or in an assertion, and the verdict, the report, the
  exit code and the action's result must each preserve that;
* resets between tests are best effort, so isolation is not certain;
* the portal reads certificates outside the lock while results are written field by field, ids
  are unique per second only, and everything is lost on a restart;
* the gRPC runner turns HTTP steps into calls by a table whose rows overlap, builds HTTP statuses
  before and after it knows how the call ended, and sends options as protobuf scalars, for which
  zero means absent;
* matchers recurse over any JSON, and paths are parsed and followed by hand;
* a DAP client may send its requests in any order, and a launch can fail half way.

The properties that make each component correct are in section 3; `PROJECT.json` lists the
hazards one by one, with the line and the properties for each.

## 2. The modules

### One test

`TestCases` holds what a test case is (lists of steps with an id, an action, a `parallel_with`
link, the steps its templates refer to, and classes of assertions) and what a server may answer.
Paths, bodies and matchers are abstracted to what control depends on: whether an answer is a JSON
object that has the fields the templates name, and which classes of assertions it satisfies.
`WellFormed` says what the documentation asks of a test: unique ids, groups whose members name
each other and stand together, templates that refer to earlier steps only.

`TestRunner` is one test under either runner. `phase` is the list being walked, `at` the position
in each list. The main goroutine's steps are `SetupStep`, `SetupOver`, `SkipStep`,
`SequentialStep`, `StartGroup`, `Join`, `StepsOver`, `TeardownStep` and `Verdict`; those of a
group's goroutines are `Resolve`, `NoResponse`, `Receive`, `Evaluate`, `Lock` and `Store`, so that
the reads of `resolveTemplates` interleave with the writes. A read that overlaps a write kills the
process, because the Go runtime detects it (`MapAccessIsFatal`), but it may also go unnoticed. A
step outside a group runs while nothing else does and is one step. The runners differ in
`HttpGroup`/`GrpcGroup` and in `HttpReplies`/`GrpcReplies`.

`TestVerdict` is the abstract protocol of a test: steps finish, some of them together, each once
and not before the steps it has to wait for; a set-up that fails rules them out; the verdict comes
last and is the one the failures call for; a test that `mayDie` can be killed before. `TestRunner`
implements it through the instance `TestProtocol`, where a step waits for what precedes it
unlinked, and a test may die if one of its groups uses a template.

### One step of the gRPC runner

`JsonValues` are JSON values as Go decodes them, and paths into them; `JsonMatch` is
`lib/assertions.go`: the operators `Match` and `Resolve` for matchers and paths. `GrpcClient` is
the route table (`Method`), the status conversions (`Status`), the request of every method
(`Request`, `EnqueueOptions` and the other builders) and the JSON of its answer (`ResponseJSON`).
The loops that keep the strings, or the objects, of an array are `Elements`: `Parts`, which the debug
adapter shares, defines what a filter keeps of a sequence without recursion.

`GrpcStep` runs steps with them, one after the other: `Wait`, `NoRPC`, `Send` and `Receive` are the
runner's; `Serve`, `Refuse` and `TimeOut` the server's and the network's, which are external. The
server keeps the jobs it is sent, so that what a step sends can be read back by a later one; a
call may take effect and still time out. `TestRunner` abstracts from all this to answers and
classes of assertions; `GrpcStep` abstracts from lists of steps and groups.

Matchers and paths are the constants `MatchAssertion` and `ResolveJSONPath` of `GrpcStep`, so that
what does not depend on them holds for any. `GrpcBodies` extends `GrpcStep` and `JsonMatch` with
the properties that do; the configurations put `Match` and `Resolve` for the two constants.

### A run of a suite

`SuiteReport` is `buildReport` of both runners as operators on the results. `SuiteRunner` is the
run around it: `Load` (decoding, filters, order of ids, refusal), `RunTest` (best-effort reset,
then one test), `TestsOver`, `Finish` (report file, report, exit code) and `ActionResult` (the
shell of the action). Tests are sorted by id with an unstable sort, so `Chosen` leaves the order of
equal ids open. A test yields a verdict that depends on whether the server conforms and on
whether it holds leftovers of earlier tests; a test that can kill the runner (`TestRunner`) is
`lethal`.

### The portal

`Portal` is the certificate store with its handlers. `certs` maps ids to addresses in `heap`,
because the code hands out pointers. `Certify` and `Verify` are atomic under the lock; `Verify`
takes any two of what clients may hold, the ids of certificates handed out and the made-up ones of `Forged`, as id and
as fingerprint: an id is the first digits of the hash that the fingerprint is, so the model takes one for both;
`UpdateCertificate` is `UpdateCounts` then `UpdateLabels`, with the lock held in between; a reader
is `Lookup` under the lock, then `Encode` without it, then `Respond`. A hash is represented by the
data hashed. `Tick` and `Restart` may happen at any time. `HandleCertify` answers "queued", but
nothing in the repository runs the suite for it; `UpdateCounts` stands for a call that may come
with any results at any time.

`CertStore` is what the store promises to whoever takes the lock: under each id one certificate,
issued, given new results and verified in single steps, with labels that are always those of its
counts. `Portal` implements it through the instance `Atomic`. The store is mapped to what it will be
when the update under way has assigned its labels (`Settled`), so that an update takes effect with
`UpdateCounts`, and `UpdateLabels` and the readers stutter; addresses, fingerprints and readers are
left out.

### The debug adapter

`DapServer` is the interactive debug adapter: one action per group of requests, `Send` for a
connection that may break after any message, `Loaded` for what a launch leaves in memory. A client
that `waits` sends nothing that moves the cursor before its launch has succeeded. The
indices are those of TLA+ sequences: cursor -1 in the code is 0 here, and a variables reference
is its distance from 999. Message sequence numbers are left out.

`DapTool` is the whole command: `serve`, which is `DapServer`, and `emit`, the one-shot emitter,
which reads the trace line by line and sends a burst of events for each span (`EmitSpan`), passes
over invalid lines or stops at the first (`Invalidated`), and ends (`EmitEnd`, `EmitFails`).

`TraceSession` is what both commands promise: a session stops on the spans of the trace in order, once
each, and ends when all were shown, unless it breaks off. `DapTool` implements it through the
instance `Session`.

### Instances and proofs

`MCTestRunner`, `MCGrpcStep`, `MCSuiteRunner`, `MCPortal` and `MCDapTool` give the instances.
`TestRunner_proofs`, `TestResults_proofs`, `TestVerdict_proofs`, `GrpcStep_proofs`,
`SuiteRunner_proofs`, `Portal_proofs`, `DapTool_proofs` and `DapTrace_proofs` have the theorems.

Operators introduced by a comment "Mutant" are deliberately wrong variants of the definition that
follows them; none is used by a specification. They show that a property can fail.

## 3. What the runs check

### One test (`MCTestRunner`)

* `well_formed` (84 thousand states): well-formed tests under both runners, with a step that a
  pair depends on, a pair followed by an ASSERT, a group of three with a WAIT in it, and a chain,
  with and without set-up, teardown and templates in groups. Steps finish in order
  (`StepsInOrder`), run exactly once (`OnceEach`), run at the same time only if linked
  (`OverlapIsLinked`), send only resolved templates when the answers had the fields
  (`TemplatesResolved`), their results are kept and not overwritten (`ResultsKept`,
  `ResultsAreFinal`), a pass is earned and a failure has a cause (`PassIsEarned`, `FailHasCause`).
  A pass is earned by an answer to every step but a WAIT that meets the step's assertions; those on the
  body count only if the body is a JSON object, since the runners pass them by otherwise (`skipped_body`).
  Unless the process is killed, every test whose set-up succeeded is torn down (`TornDown`; after a
  failing set-up the code has no teardown, and the protocol says that no step has run either); and
  `TestVerdict` is implemented, with its liveness (`TestProtocolSpec`), so that only a template in a
  group can kill the process.
* `any_test` (501 thousand states): tests as the loader accepts them, in all shapes of three steps
  over repeated and missing ids and links: no failure is lost (`NoFailureLost`), a group that the main goroutine waits for is never stuck (`SomeoneGoesOn`), no
  step of a run goes back or round in circles (`RunsMakeHeadway`), and the run ends (`Ends`).

### One gRPC step (`MCGrpcStep`)

* `grpc_step` (14 thousand states, 589 tests):
  * every documented route and eight others, with six status codes (the theorem of
    `StatusIsTheServers` covers all), with an answer and with a lost one: a step calls the method its route is documented to call, for the thing its path
    names, and a step without one fails (`IntentsAreCalled`); its status tells success, creation
    and the server's code (`StatusIsTheServers`); a job that no step was shown comes from a call
    that timed out and is reported as such (`UnseenJobsTimedOut`, which does not say from which of
    several such calls);
  * six sets of options, in `options`, beside it and in both, read back by the step itself and by
    a later one, which finds the job by a template (`ReadBack`);
  * twelve JSON values against each other as literals and against the operators: literals match
    exactly what has all they have (`LiteralsMatchExactly`, whose reference compares sets of
    nodes, without recursion on the pair);
  * fourteen paths over three values, with fields, indices, `[*]`, filters and combinations of them
    (`PathsSelectNodes`, whose reference selects from the set of all nodes of the body);
  * a call that takes 0, 25, 150, 151 or 450 ms, on both sides of and at the boundaries of 50 %
    and of 100 ms (`DurationVerdicts`, from the documentation's words).

### The suite (`MCSuiteRunner`)

* `suite` (135 thousand states): all trios of tests at levels 0, 1 and extension, under five
  command lines, plus an undecodable and a lethal test, and tests with equal ids. Exit code 0 means that everything selected
  ran and passed (`ExitZeroIsEarned`), 1 that a test did not pass (`ExitOneHasCause`); if every
  test started on a clean server, the code tells whether the server conforms
  (`VerdictIsTheServers`); the two runners report alike (`RunnersAgree`); the level that the gRPC
  runner reports covers every level below (`LevelIsCumulative`).

### The portal (`MCPortal`)

* `portal` (1.4 million states): two certificates, of equal requests in the same second or in different ones, two results,
  a reader, a forged id and fingerprint, a clock with two ticks to the second, one restart. What a client was handed
  verifies until it expires (`VerifiableUntilExpiry`), and nothing else does: no forged id or fingerprint, no id with the
  fingerprint of another certificate, nothing expired (`NothingElseVerifies`). Results are lost only to an equal request
  within the same second or to a restart (`ResultsStay`); a list keeps its order while it is encoded
  (`ListsNewestFirst`); under the lock, the portal is a store of single steps, in which labels and badge are those of
  the counts (`StoreIsAtomic`).

### The debug adapter (`MCDapTool`)

* `dap_session` (11 thousand states): both commands; any client, up to two launches, connections
  that break, traces with and without an invalid line. stackTrace and scopes show the last stop
  (`ShowsLastStop`), a thread is announced once and before its first stop, and an emitted stop
  continues at once (`ThreadsAreAnnouncedByBoth`), variables references stand for spans the session
  stopped on or for what is nested in earlier ones (`RefsAreOfStops`; that a reference goes on standing for the same span
  is not said); `emit`, and `serve` with a client that waits for its launch,
  implement `TraceSession` (`SessionIsTrace`). In the mapping a session has ended or not, so the further `terminated`
  events of a client that continues after the end (`advanceAndStop`) stutter.

### Where the code does not keep what it says

These runs end in a counterexample; the findings in `PROJECT.json` quote the documentation.

| Run | Property | What happens |
|---|---|---|
| `group_template` | `NoConcurrentMapAccess` | a step of a group with a template to an earlier step reads the map during another's write |
| `missing_ids` | `PassIsEarned` | of steps without ids only the first runs, and the test passes |
| `assert_step` | `CrossAssertionsCount` | an ASSERT step is sent to the server, its assertions are dropped |
| `skipped_body` | `BodyAssertionsCount` | the body of an answer is no JSON object, so the assertions on it are passed by |
| `action_result` | `ResultIsTheReports` | the action reads a key the report does not have and says PASS of a report that counts a failure |
| `portal_readers` | `ResponsesAgree` | a response mixes the status of one result with the counts of another |

Others of the same kind have no run of their own, but explain a condition in the models.

* `WellFormed` asks for groups that stand apart and whose members all have a link, because
  otherwise two adjacent pairs run as one group of four, and in A(with B), B, C(with B) the HTTP
  runner runs C twice.
* `LevelIsCumulative` speaks of the gRPC runner, because the HTTP runner passes over a level
  without results: it reports conformance to level 1 after `-level 1`, although README.md says
  that each level builds upon the previous one.
* `SessionIsTrace` speaks of `serve` only with a client that waits: `configurationDone` before
  `launch` ends the session, and the launch that follows skips the first span. And the spans before an
  invalid line stay in memory after a failed launch, so the client must stop there.
* A certificate's fingerprint is that of the placeholder, not of the results it shows, which is
  also what keeps it verifiable.
* `Documented` has no checkpoint routes: rows of the table for them come after those of `/v1/jobs/`,
  which match first. `suites/ext-durable-execution/checkpoint-delete.json` cancels its job.
* `ReadBack` looks for `tags`, `trace_id` and `meta` only in `options` when there are any, unlike
  for the queue, the priority and `max_attempts`; durations like `PT1S` are not Go's and ignored.
  It leaves out zeros: a priority of 0 is a field that is not set in the request, and not shown of a job (runner/grpc/client.go:875), so the step of
  suites/level-0-core/envelope/valid-priority-range.json:39 that expects its priority of 0 back fails under the gRPC
  runner whatever the server does.
* `VerdictIsTheServers` asks that every reset worked, because the runners ignore the errors of a reset
  (runner/http/runner.go:132, runner/grpc/main.go:127): the test after a failed one is judged on leftovers.
* `ResultIsTheReports` speaks of runs that printed a report. A run that is refused with exit code 2 prints none, the
  action drops the code (`|| true`, action/action.yml:106), `jq` yields 0 failures, and the result is PASS, which reading the
  right key would not change.
* Of matchers, "any" passes on a missing value (docs/test-case-reference.md:244 says it must
  exist) and "exists" fails on null (:246); `~` has neither the minimum of 100 ms nor a setting
  (:278); `[*]` within `[*]` does not flatten (:463), so that `PathsSelectNodes` speaks of one
  `[*]`; `$empty` accepts anything, although it "Checks for empty/null body" (:406) and
  "means the body should be empty/null" (lib/assertions.go:394); keys of a literal that begin with `$` beside an operator are not
  looked at; and `$exists: false` fails where the parent is missing.
* As an alternative of a body's `$or`, `{"$empty": true}` is taken for a field of that name and matches no
  body (runner/http/runner.go:513), although suites/level-0-core/operations/fetch-empty-queue.json:45 writes it for a
  204 without one. `TestRunner` has the assertions on a body as one class, so no property speaks of it.

### Bounds

Three or four steps are the fewest with which a pair can stand before, after or between other
steps and with which `any_test` reaches every shape of linking the scan distinguishes: no link, a
mutual link, a link to an earlier and to a later step, a step linked only by being named.
Goroutines are as many as the group has members. A gRPC test has at most three steps: one that
creates a job, one that changes it, one that reads it; its data have at most two levels below the
value put to a matcher, enough for each matcher to recurse once from an object and from an array.
Its server has three job ids and takes no more jobs; no test asks for more than two.
Three tests per suite give every order of a
pass, a failure and an error at equal and at different levels. The portal needs two certificates
for an id to be reissued, two ticks to the second for a collision to be possible but not certain,
and a clock that runs past the validity of the first one. A certificate of another request would have another id like one of
another second, so one request is enough. Three spans on two threads let a session leave a thread
and return to it; two launches let what one leaves meet the other; three references let a nested
map be expanded twice.

### Fairness

`TestRunner!FairSpec` assumes weak fairness of the main goroutine's step and of each goroutine's:
the Go scheduler runs every runnable goroutine, every request ends because the client has a
timeout (`http.Client.Timeout`, the deadline of an RPC), and a WAIT has a fixed length. Fairness
of `Lock` is weak: a mutex is never held for longer than one append and one assignment, and each
member takes it once. Nothing else assumes fairness: gRPC steps, the suite, the portal and the
adapter are checked for safety only, since servers and clients owe them nothing.

## 4. What is proved

Every theorem holds for all values of the constants that satisfy the modules' named assumptions
(`TestCasesAssumption`, `TestRunnerAssumption`, `SuiteRunnerAssumption`, `PortalAssumption` and
so on), which say of what kind they are and that the special values are none of the others: that
`Nil` is not an update, for instance, stands for a nil pointer being none.

### One test

`TestRunner_proofs`, for any test cases and both runners:

* `TypeCorrect`: `Spec => []TypeOK`;
* `FailuresAreKept`: `Spec => []NoFailureLost`: a broken assertion of an executed step is among
  the failures, and the status is not a pass, with any grouping and any interleaving;
* `WritesLocked`: `Spec => []WritesAreLocked`: the map is written by the holder of the mutex only;
* `GroupsNeverDeadlock`: `Spec => []SomeoneGoesOn`;
* `NothingGoesBack`: `Spec => RunsMakeHeadway`, the action property that each step gets to a later
  phase, past one more entry of the list, into a group, or one of its goroutines further. All four are
  finite in number. So the safety half of termination is proved for tests of any size: the run cannot get
  stuck while it waits, and it cannot go on forever. `Ends`, the other half, adds that what can go on
  does.

All but the first rest on one inductive invariant, `FailureInv`. `NoFailureLost` alone is not
inductive: a step can lose a failure only in the steps between the evaluation of its assertions
and the append under the lock, so the invariant also says which goroutines belong to the current
batch (`GoroutinesOfBatch`), that a goroutine carries the failures of the answer it holds until
it has stored them (`JudgedByGoroutine`), that the main goroutine has those of finished steps
(`JudgedByMain`), and that the status is derived from the failures (`StatusFromFailures`). Each
action preserves it by a step of its own. For `NothingGoesBack` the invariant `GroupAtStep` adds that a
running group stands at a step of the list, so that joining it is one entry further.

The other theorems about a test assume that every test in `Tests` is `WellFormed`. The
loader enforces nothing of the kind; `missing_ids`, and the groups described above, are what becomes of
the same properties without it. Nothing else is assumed of tests: any number of steps, and groups of any size.

Of the order of steps, in the same module:

* `RunInOrder` (`StepsInOrder`), `RunOnce` (`OnceEach`), `OverlapsAreLinked` (`OverlapIsLinked`)
  and `QuietTestsSurvive` (`OnlyTemplatesCrash`, which `well_formed` checks as part of
  `TestProtocolSpec`).

The first lemmas turn the shape of a well-formed test into arithmetic: two steps are linked
exactly if all steps from one to the other have a link (`LinkedAreNeighbours`), and what either
runner collects is the run of linked steps from where it stands (`GroupIsRun`). `OrderInv` then
says that all steps before the main goroutine are done (`DoneBefore`), that those ahead are done
only as the rest of a group it has just passed (`DoneAhead`), that a running group is a whole run
with none of it done (`BatchIsRun`), that being done is being reported once (`CountedOnce`), and
that the teardown comes at the end of the list (`OverAtEnd`).

`TestResults_proofs`:

* `ResultsAreKept` (`ResultsKept`), `StoredIsFinal` (the action property `ResultsAreFinal`),
  `TemplatesResolve` (`TemplatesResolved`), `PassesAreEarned` (`PassIsEarned`) and `FailsHaveCause`
  (`FailHasCause`).

`TestInv` adds to the invariants above what the map holds (`StoredInv`: a step's entry is its
reply from the moment it is stored, and nothing before) and what judgements rest on (`VerdictInv`:
a goroutine with failures, and a step among the failures, has a cause in the answers). The lemma
`ViewsShowRefs` is the heart of it: whatever an unlocked read sees of a write in progress, the
entries a step refers to are those of steps that are done, and these do not change.

`TestVerdict_proofs`:

* `RunsKeepProtocol`: `Spec => TestProtocol!Init /\ [][TestProtocol!Next]_(TestProtocol!vars)`, the
  safety part of `TestProtocolSpec`. `SequentialStep` and `Join` are the protocol's `Finish`,
  `Verdict` its `Conclude`, a failing `SetupStep` its `SetupFailed`, a fatal read its `Killed`;
  all other steps stutter.

### One gRPC step

`GrpcStep_proofs`, for any sequences of steps, any server, any matchers and any way of following
paths:

* `StepsHaveResults` (`TypeOK`), `StepsMakeTheirCalls` (`IntentsAreCalled`), `StatusTellsTheCode`
  (`StatusIsTheServers`), `UnseenJobsHaveACause` (`UnseenJobsTimedOut`), `OptionsAreReadBack`
  (`ReadBack`) and `DurationsAreJudged` (`DurationVerdicts`).

The assumptions are that steps and paths are finite sequences, that bounds on durations are natural
numbers, that the server answers with codes of gRPC (`GrpcStepAssumption`), and that a template is
not itself a segment of a route (`TemplateAssumption`). `OptionsAreReadBack` rests on two more:
arrays in the bodies of tests are sequences, at the places where arrays are looked for
(`BodiesAssumption`), as anything decoded from JSON is; and the server, which is external, gives
different jobs different ids, and its other answers about jobs are about none of those it was sent
(`JobIdsAssumption`). The properties of the other theorems hold of a server that breaks both.

The first part reads the route table. `ExactRow` and `PrefixRow` say which row a path ends up at
when others match as well, and `DocumentedCall` that a path of a documented route goes to that
route's method whatever stands in the place of the id: no id, and nothing a template may resolve
to, can make a path that of another route. The invariant `Inv` then says of a step that is over
that it has a call of its own method and target and a verdict that is that of its answer
(`WithCall`), or is of no route (`WithoutCall`); of the call under way, that it is the one its step
means (`UnderWay`); and of each job of the server, that a step was shown it or timed out
(`Explained`) or that the answer that is there will say so (`Pending`), which `UnseenJobsTimedOut`
leaves out, since it speaks of the moments between steps.

`ReadBack` is not inductive, since what a step is shown may have been sent by an earlier one and have
been through the server in between. `ReadInv` follows the options on their way: the request under way is the one
the body of its step makes; the server's jobs have the first of the ids, one each, and keep them
in their fields (`StoreInv`); the job in the answer that is there, or in the result of a step that
is over, is one of the server's with all its options, or has none of their ids, and the answer to
`Enqueue` names one that carries the options it was given (`ShownBy`). That a later step looks at that
same job takes the ids to be different. Lemmas say for each option that what the builder makes of it is
what the answer shows under its name; for `tags` that is a matter of ranks, since only strings are kept.

`DurationsAreJudged` puts the percentage
and the minimum of the code against the documented bounds for all numbers, not only at the
boundaries the run tries.

### The suite

`SuiteRunner_proofs`, for suites of any size, any filters and both runners:

* `TypesAreKept` (`TypeOK`), `ZeroIsEarned` (`ExitZeroIsEarned`), `OneHasCause`
  (`ExitOneHasCause`), `VerdictIsExact` (`VerdictIsTheServers`), `LevelsAreCovered`
  (`LevelIsCumulative`) and `ReportsAgree` (`RunnersAgree`).

`SuiteInv` says how far the run has come (`SuiteTypes`, `Progress`), that as long as every test
started on a clean server a test passed exactly if the server conforms to it (`Judged`), and that
the report and the exit code are those of the results of all tests (`Reported`). The last two theorems are lemmas about the reports' operators, for
any results, carried over to the run.

### The portal

`Portal_proofs`, without bounds on clock, certificates or restarts:

* `CertificatesAgree` (`StoreAgrees`, which `portal` checks as part of `StoreIsAtomic`). It speaks of the free lock only and says nothing
  of the state between `UpdateCounts` and `UpdateLabels`. The invariant `AgreeInv` adds that there
  one certificate, that of the update, already has the new counts and may have old labels, while
  all others agree (`AgreesButUpdated`), and that ids and updates point into the heap
  (`StoreTypes`). The lemma `StatusesAreEqual` carries the rest: `Issue` and `UpdateCertificate`
  decide the status by tests in different orders, with the same result.
* `HandedOutVerifies` (`VerifiableUntilExpiry`) and `OnlyHandedOutVerifies`
  (`NothingElseVerifies`), for any ids and fingerprints presented and any forgeries, from `VerifyInv`: what is stored was handed out, under its fingerprint and
  with that date of issue (`StoredAreHandedOut`), and what was handed out is in the store until a
  restart, perhaps issued anew since (`HandedOutAreStored`).

Of readers, in the same module:

* `PortalTypes` (`TypeOK`) and `ListsStayInOrder` (`ListsNewestFirst`), from `ReadInv`: what a
  reader has encoded, followed by what it still has to encode, is in order, and what it still has
  to encode is in the heap. Dates of issue never change once in the heap, and rounding them down
  to seconds keeps their order (`SecondsKeepOrder`).
* `ResultsAreNotLost` (`ResultsStay`), assuming that the placeholder results of a new certificate
  are not those of a run, so that every run has a test. It follows from `IssuedCerts`: an id is the
  fingerprint of its issue, so only an equal request in the same second replaces a certificate.

Of the store as a whole:

* `StoreRefined`: `Spec => StoreIsAtomic`, the refinement of `CertStore`: each step of the portal issues,
  updates or verifies at most one certificate of the abstract store. It takes the invariants from
  above: ids have addresses of their own (`AddressesDiffer`), so that an update changes one
  certificate and settles no other; the one being updated is in the heap and has the new
  counts already; and what is stored under an id has it for its fingerprint, so that a verification
  is decided by presence, expiry and whether the fingerprint presented is the id's. `StatusesAreEqual` gives issue and update the same labels.

### The debug adapter

`DapTool_proofs`, for traces of any length, both commands, any client:

* `ReferencesStay` (`RefsAreOfStops`) and `AnswersShowLastStop` (`ShowsLastStop`), from
  `SessionInv`: a stopped session has a span under the cursor (`CursorOfStop`), while it runs what
  it would answer is what the client was last told (`PresentIsTold`), and so is what it has
  answered last (`ShownIsTold`), references have spans (`RefsHaveSpans`) and are of stops, and
  `emit` answers nothing (`EmitIsMute`).
* `ThreadsComeFirst` (`ThreadsAreAnnouncedByBoth`), from `AnnounceInv`: the events sent announce
  each thread once, before its first stop, and the announced threads are just those; it is shown
  for a burst of events that breaks off after any number of them.

`DapTrace_proofs` builds on it:

* `TypesAreKept` (`ToolTypeOK`), from `TypeInv`, which adds what `emit` has read so far.
* `SessionRefined`: `ToolSpec => SessionIsTrace`, the refinement of `TraceSession`: the initial
  states are its initial states, and each step of `emit`, or of `serve` with a client that waits, is
  one of its steps or stutters. `TraceInv` says that the stops sent are, in order, the first of the
  trace's valid lines, as many as the cursor or the reader has passed, which the mapping alone does
  not tell.

Both the stops among the events and the valid lines of a trace are parts of a sequence (`PartOf` of
`Parts`), defined by the ranks of their places instead of by a recursive filter. What appending does to such
a part is a matter of arithmetic then, and proved in the first lemmas.

### Only model-checked

* `LiteralsMatchExactly` and `PathsSelectNodes`: what the matchers and paths of `JsonMatch` compute
  is defined by recursion over JSON, which takes RECURSIVE operators and, for a proof, induction
  over data.
* Liveness, which needs fairness and ENABLED: `Ends`, `TornDown` and the fairness in
  `TestProtocolSpec`. What of `Ends` is safety is proved (`GroupsNeverDeadlock`, `NothingGoesBack`).

Every other invariant, action property and refinement of a run that passes is proved.

## 5. What is not modelled

* Of the HTTP runner: headers and `body_contains` (in `TestRunner` they are assertions that hold
  or not), connections, the JSON it prints. `GrpcStep` has the runner's own assertions.
* Of matchers: regular expressions and formats of strings (sets of strings), fractions, and the
  reading of a matcher's text (a matcher is its form). A matcher with several
  operators stands for the one that counts.
* In `lib/timing.go`: `WaitForCondition` and the assertions that nothing in the repository calls.
* Of the gRPC client: connecting, TLS, and fields copied as they are (names of workers, schedules,
  links of workflow steps, counts).
* Printing, the environment captured in the report, the category filter (it is like the id
  filter), the verbose options.
* Of the adapter: the framing of messages, their wording, how a span is shown as a map; reading
  the trace is external (`lib.Replay` is not in the repository).
* Of the portal: requests refused for a missing field, which change nothing.
* The badge handler (a stateless rendering), CI and container files; `portal` is a compiled
  binary. The suites are data: the instances have the shapes found in them.
* In the action: building the runner, waiting for the server, its second run for the table, and what
  GitHub makes of a `json-report` of several lines.

## 6. Plan

Done, in this order: `TestCases`, `TestRunner`, `TestVerdict`; `SuiteReport`, `SuiteRunner`;
`Portal` and `CertStore`; `DapServer`; `DapTool` and `TraceSession`; `JsonValues`, `JsonMatch`, `GrpcClient` and
`GrpcStep`; the theorems of section 4. What is left:

1. `ExclusiveClaim`: `TestRunner` composed with a small model of a job server, to see whether the
   concurrent-fetch test distinguishes a server that hands a job out twice.
2. The matchers as recursive functions over a well-founded set of values, to prove about them.
