------------------------------- MODULE GrpcStep -------------------------------
(***************************************************************************)
(* Steps of a test case as the gRPC runner executes them, one after the    *)
(* other: executeStep and evaluateAssertions of runner/grpc/runner.go with *)
(* the routes, requests and answers of GrpcClient.  The matchers and paths *)
(* of the shared library are parameters, which JsonMatch defines.  How the *)
(* runner walks the lists of steps and runs groups of them in parallel is  *)
(* the subject of TestRunner.                                              *)
(*                                                                         *)
(* The server is external.  It keeps the jobs it is given with the options *)
(* it is sent, gives any status code it likes, and its answer may be late  *)
(* or not come at all.                                                     *)
(***************************************************************************)
EXTENDS GrpcClient

CONSTANTS
    Tests,       \* the sequences of steps considered
    JobIds,      \* the ids the server gives to jobs, in that order; a bound of the
                 \* instance, it takes no more jobs than it has ids
    JobRef,      \* the template for the id of the job in the first step's answer
    Codes,       \* the status codes the server may answer with
    Messages(_), \* what it may send with OK, where that is not made of its jobs
    Durations(_),\* how long the calls of a method may take, in milliseconds
    TolerancePct, MinToleranceMs,   \* lib.TimingConfig
    MatchAssertion(_, _),   \* does a matcher accept a value?
    ResolveJSONPath(_, _)   \* what a path leads to in a value, or Unresolved

IsSequence(s) == s \in Seq({s[k] : k \in DOMAIN s})

ASSUME GrpcStepAssumption ==
    /\ \A t \in Tests :
          /\ IsSequence(t)
          /\ \A k \in DOMAIN t : /\ IsSequence(t[k].path)
                                 /\ \A a \in t[k].asserts.timing : a[2] \in Nat
    /\ Codes \subseteq DOMAIN HTTPStatus \cup {"Unknown", "Aborted"}
    /\ {TolerancePct, MinToleranceMs} \subseteq Nat
    /\ \A m \in KnownMethods : Durations(m) \subseteq Nat

\* An array in a decoded body is a sequence, at the two places where arrays are
\* looked for.
ProperArrays(o) ==
    \A f \in DOMAIN Payload(o) :
        Is(Get(o, f), "array") => /\ Get(o, f) = Arr(Payload(Get(o, f)))
                                  /\ IsSequence(Payload(Get(o, f)))

ASSUME BodiesAssumption ==
    \A t \in Tests : \A k \in DOMAIN t :
        LET body == t[k].body
        IN  Is(body, "object") =>
                ProperArrays(body) /\ (Nested(body) => ProperArrays(Source(body)))

\* The server gives different ids to different jobs, and to none of the jobs that
\* are not in its store.
ASSUME JobIdsAssumption ==
    /\ IsSequence(JobIds)
    /\ \A j, k \in DOMAIN JobIds : JobIds[j] = JobIds[k] => j = k
    /\ \A method \in KnownMethods \ {"Enqueue", "EnqueueBatch", "GetJob", "CancelJob"} :
          \A m \in Messages(method) :
              LET job == Get(ResponseJSON(method, "OK", m), "job")
              IN  Is(job, "object") =>
                      \A k \in DOMAIN JobIds : Get(job, "id") # Str(JobIds[k])

VARIABLES
    test,      \* the steps; they do not change
    pc,        \* "next" step, its call "sent", the answer "here"
    call,      \* the call under way: its method, path and request
    answer,    \* the answer to it: a code, and a message with OK
    jobs,      \* the server's jobs: from ids to Job messages
    calls,     \* per step that was executed, the calls it made
    results,   \* per step that was executed, its StepResult, and the answer's code
    failed     \* the steps that came with failures

vars == <<test, pc, call, answer, jobs, calls, results, failed>>

NoCall   == [method |-> "", path |-> <<>>, request |-> <<>>]
NoAnswer == [code |-> "", message |-> <<>>]

Init ==
    /\ test \in Tests
    /\ pc = "next"
    /\ call = NoCall
    /\ answer = NoAnswer
    /\ jobs = <<>>
    /\ calls = <<>>
    /\ results = <<>>
    /\ failed = {}

-----------------------------------------------------------------------------
(* executeStep: up to the call *)

At      == Len(results) + 1
Current == test[At]

\* The StepResult of a step without an answer.
Silent == [status |-> 0, body |-> Null, ms |-> 0, code |-> ""]

JobIdPath == <<Part("job", <<>>), Part("id", <<>>)>>

\* resolveTemplates: what the template stands for, itself if there is no answer
\* or the answer has no such field.
Templated(s) ==
    LET v == IF results = <<>> \/ ~Is(results[1].body, "object") THEN Null
             ELSE ResolveJSONPath(JobIdPath, results[1].body)
    IN  IF s = JobRef /\ v \notin {Null, Unresolved} THEN Payload(v) ELSE s

\* Templates are looked for in the path and in the fields of the body.
ResolvedPath(path) == [k \in DOMAIN path |-> Templated(path[k])]
ResolvedBody(body) ==
    IF ~Is(body, "object") THEN body
    ELSE Obj([f \in DOMAIN Payload(body) |->
                IF Get(body, f) = Str(JobRef) THEN Str(Templated(JobRef)) ELSE Get(body, f)])

\* Mutant: a step that is over without an answer leaves no result.
OverWithoutResult(fails) ==
    /\ calls' = Append(calls, {})
    /\ failed' = IF fails THEN failed \cup {At} ELSE failed
    /\ UNCHANGED <<test, pc, call, answer, jobs, results>>

\* The step is over without an answer.
Over(fails) ==
    /\ results' = Append(results, Silent)
    /\ calls' = Append(calls, {})
    /\ failed' = IF fails THEN failed \cup {At} ELSE failed
    /\ UNCHANGED <<test, pc, call, answer, jobs>>

Wait ==
    /\ pc = "next" /\ At \in DOMAIN test
    /\ Current.action = "WAIT"
    /\ Over(FALSE)

\* No row of the route table matches, or CallRPC has no case for the method.
NoRPC ==
    /\ pc = "next" /\ At \in DOMAIN test
    /\ Current.action # "WAIT"
    /\ Method(Current.action, ResolvedPath(Current.path)) \notin KnownMethods
    /\ Over(TRUE)

Send ==
    /\ pc = "next" /\ At \in DOMAIN test
    /\ Current.action # "WAIT"
    /\ LET path   == ResolvedPath(Current.path)
           method == Method(Current.action, path)
       IN  /\ method \in KnownMethods
           /\ call' = [method  |-> method, path |-> path,
                       request |-> Request(method, path, ResolvedBody(Current.body))]
    /\ pc' = "sent"
    /\ UNCHANGED <<test, answer, jobs, calls, results, failed>>

-----------------------------------------------------------------------------
(* The server, external *)

\* The job of an entry, new to the server.
Job(id, e) ==
    [id |-> Str(id), state |-> Str("available"), attempt |-> Null,
     type |-> e.type, args |-> e.args,
     queue |-> IF e.options.queue = Null THEN Str("default") ELSE e.options.queue,
     priority |-> e.options.priority, max_attempts |-> e.options.max_attempts,
     tags |-> e.options.tags, trace_id |-> e.options.trace_id,
     scheduled_at |-> e.options.delay_until, meta |-> e.options.meta,
     retry_policy |-> e.options.retry, unique_policy |-> e.options.unique]

\* The jobs of these entries, and their way into the store.
Added(entries) ==
    [k \in 1..Len(entries) |-> Job(JobIds[Cardinality(DOMAIN jobs) + k], entries[k])]
Store(new) ==
    /\ \A k \in DOMAIN new : Cardinality(DOMAIN jobs) + k \in DOMAIN JobIds
    /\ jobs' = [i \in DOMAIN jobs \cup {Payload(new[k].id) : k \in DOMAIN new} |->
                   IF i \in DOMAIN jobs THEN jobs[i]
                   ELSE CHOOSE j \in {new[k] : k \in DOMAIN new} : j.id = Str(i)]

Answers(message) == answer' = [code |-> "OK", message |-> message]
Target == Payload(call.request.id)

Enqueued ==
    /\ call.method = "Enqueue"
    /\ LET new == Added(<<call.request.job>>) IN Store(new) /\ Answers(new[1])
EnqueuedBatch ==
    /\ call.method = "EnqueueBatch"
    /\ LET new == Added(call.request.jobs) IN Store(new) /\ Answers(new)
Got ==
    /\ call.method = "GetJob"
    /\ Target \in DOMAIN jobs
    /\ Answers(jobs[Target])
    /\ UNCHANGED jobs
Cancelled ==
    /\ call.method = "CancelJob"
    /\ Target \in DOMAIN jobs
    /\ jobs' = [jobs EXCEPT ![Target].state = Str("cancelled")]
    /\ Answers(jobs'[Target])
SomethingElse ==
    /\ call.method \notin {"Enqueue", "EnqueueBatch", "GetJob", "CancelJob"}
    /\ \E m \in Messages(call.method) : Answers(m)
    /\ UNCHANGED jobs

\* The call is carried out.
Serve ==
    /\ pc = "sent" /\ "OK" \in Codes
    /\ Enqueued \/ EnqueuedBatch \/ Got \/ Cancelled \/ SomethingElse
    /\ pc' = "here"
    /\ UNCHANGED <<test, call, calls, results, failed>>

\* The call is refused, or the server cannot be reached.
Refuse ==
    /\ pc = "sent"
    /\ \E code \in Codes \ {"OK"} : answer' = [NoAnswer EXCEPT !.code = code]
    /\ pc' = "here"
    /\ UNCHANGED <<test, call, jobs, calls, results, failed>>

\* The answer does not come before rpcTimeout.
TimeOut ==
    /\ pc = "here"
    /\ answer.code = "OK" /\ "DeadlineExceeded" \in Codes
    /\ answer' = [NoAnswer EXCEPT !.code = "DeadlineExceeded"]
    /\ UNCHANGED <<test, pc, call, jobs, calls, results, failed>>

-----------------------------------------------------------------------------
(* executeStep: the answer and the assertions *)

\* evaluateStatusAssertion: a number, $in, one_of and the other matchers that are
\* strings; any other object, array or boolean is an unknown format.
StatusHolds(m, status) ==
    m[1] \in {"number", "$in", "range", "approx", "positive", "non_negative", "any", "exists"}
        /\ MatchAssertion(m, Num(status))

MaxOf(x, y) == IF x < y THEN y ELSE x

\* Mutant: the percentage counts, however little it is.
ApproximatelyWithoutMinimum(expected, actual) ==
    100 * Distance(actual, expected) <= expected * TolerancePct

\* AssertApproximateMs: the tolerance is a percentage, but at least a minimum.
Approximately(expected, actual) ==
    100 * Distance(actual, expected) <= MaxOf(expected * TolerancePct, 100 * MinToleranceMs)

TimingHolds(t, ms) ==
    \/ t[1] = "less_than" /\ ms < t[2]
    \/ t[1] = "greater_than" /\ ms > t[2]
    \/ t[1] = "approximate" /\ Approximately(t[2], ms)

\* A path that cannot be followed passes for absent.
CheckHolds(c, body) ==
    LET v == ResolveJSONPath(c.path, body)
    IN  IF v = Unresolved THEN c.matcher = Absent ELSE MatchAssertion(c.matcher, v)

\* In an alternative of a top-level $or it does not pass for anything.
AlternativeHolds(checks, body) ==
    \A c \in checks : LET v == ResolveJSONPath(c.path, body)
                      IN  v # Unresolved /\ MatchAssertion(c.matcher, v)

\* body_absent
IsAbsent(path, body) == ResolveJSONPath(path, body) \in {Null, Unresolved}

\* evaluateAssertions.  The checks on the body need a JSON object; the
\* alternatives of $or and body_absent are evaluated in any case.
AssertionsHold(a, status, body, ms) ==
    /\ \A m \in a.status : StatusHolds(m, status)
    /\ a.either = {} \/ \E alt \in a.either : AlternativeHolds(alt, body)
    /\ Is(body, "object") => \A c \in a.checks : CheckHolds(c, body)
    /\ \A p \in a.absent : IsAbsent(p, body)
    /\ \A t \in a.timing : TimingHolds(t, ms)

Receive ==
    /\ pc = "here"
    /\ LET status == Status(call.method, answer.code)
           body   == ResponseJSON(call.method, answer.code, answer.message)
       IN  \E ms \in Durations(call.method) :
               /\ results' = Append(results, [status |-> status, body |-> body, ms |-> ms,
                                              code |-> answer.code])
               /\ failed' = IF AssertionsHold(Current.asserts, status, body, ms)
                            THEN failed ELSE failed \cup {At}
    /\ calls' = Append(calls, {call})
    /\ pc' = "next"
    /\ call' = NoCall
    /\ answer' = NoAnswer
    /\ UNCHANGED <<test, jobs>>

\* Not a step of the code: all steps are executed.
Finished == pc = "next" /\ At \notin DOMAIN test /\ UNCHANGED vars

Next == Wait \/ NoRPC \/ Send \/ Serve \/ Refuse \/ TimeOut \/ Receive \/ Finished

Spec == Init /\ [][Next]_vars

-----------------------------------------------------------------------------
(* What the properties look at                                             *)

Done == DOMAIN results
Answered == {k \in Done : results[k].code # ""}
Asserts(k) == test[k].asserts

\* Step k asserts nothing but what is in the given part of its assertions.
AssertsOnly(k, part) ==
    \A p \in {"status", "either", "checks", "absent", "timing"} \ {part} : Asserts(k)[p] = {}

\* The routes the README of the runner documents.
Id == ":id"
Documented ==
    { <<"POST", <<"v1", "jobs">>, "Enqueue">>,
      <<"POST", <<"v1", "jobs", "batch">>, "EnqueueBatch">>,
      <<"GET", <<"v1", "jobs", Id>>, "GetJob">>,
      <<"DELETE", <<"v1", "jobs", Id>>, "CancelJob">>,
      <<"POST", <<"v1", "workers", "fetch">>, "Fetch">>,
      <<"POST", <<"v1", "workers", "ack">>, "Ack">>,
      <<"POST", <<"v1", "workers", "nack">>, "Nack">>,
      <<"POST", <<"v1", "workers", "heartbeat">>, "Heartbeat">>,
      <<"GET", <<"v1", "queues">>, "ListQueues">>,
      <<"GET", <<"v1", "queues", Id, "stats">>, "QueueStats">>,
      <<"POST", <<"v1", "queues", Id, "pause">>, "PauseQueue">>,
      <<"POST", <<"v1", "queues", Id, "resume">>, "ResumeQueue">>,
      <<"GET", <<"v1", "dead-letter">>, "ListDeadLetter">>,
      <<"POST", <<"v1", "dead-letter", Id, "retry">>, "RetryDeadLetter">>,
      <<"DELETE", <<"v1", "dead-letter", Id>>, "DeleteDeadLetter">>,
      <<"POST", <<"v1", "cron">>, "RegisterCron">>,
      <<"DELETE", <<"v1", "cron", Id>>, "UnregisterCron">>,
      <<"GET", <<"v1", "cron">>, "ListCron">>,
      <<"POST", <<"v1", "workflows">>, "CreateWorkflow">>,
      <<"GET", <<"v1", "workflows", Id>>, "GetWorkflow">>,
      <<"DELETE", <<"v1", "workflows", Id>>, "CancelWorkflow">>,
      <<"GET", <<"manifest">>, "Manifest">>,
      <<"GET", <<"v1", "health">>, "Health">> }

\* The template stands for an id, and is itself no segment of a route.
ASSUME TemplateAssumption == \A r \in Documented : \A i \in DOMAIN r[2] : r[2][i] # JobRef

\* Step k is one of route r.
OfRoute(k, r) ==
    /\ test[k].action = r[1] /\ Len(test[k].path) = Len(r[2])
    /\ \A i \in DOMAIN r[2] : r[2][i] \in {Id, test[k].path[i]}

-----------------------------------------------------------------------------
(* Properties                                                              *)

\* Every step that was executed has its result and its calls, only such steps
\* have failures, and a call is under way exactly while a step waits for it.
TypeOK ==
    /\ test \in Tests
    /\ pc \in {"next", "sent", "here"}
    /\ pc # "next" <=> call.method \in KnownMethods
    /\ pc = "here" <=> answer.code \in Codes
    /\ DOMAIN jobs \subseteq {JobIds[k] : k \in DOMAIN JobIds}
    /\ Len(calls) = Len(results) /\ Len(results) <= Len(test)
    /\ failed \subseteq Done
    /\ \A k \in Done : results[k].code \in Codes \cup {""}

\* A step of a documented route calls the method the README gives for it and no
\* other, whatever rows of the table its path fits, and for the thing its path
\* names (ResolveRoute, executeStep, extractIDFromPath).  A step for which no RPC
\* is found does not pass in silence, unless it is a WAIT.
IntentsAreCalled ==
    \A k \in Done :
        /\ \A r \in Documented : OfRoute(k, r) =>
              \E c \in calls[k] :
                  /\ calls[k] = {c} /\ c.method = r[3]
                  /\ \A i \in DOMAIN r[2] :
                        r[2][i] = Id => c.request.id \in {Str(c.path[i])}
        /\ calls[k] = {} <=> results[k].code = ""
        /\ calls[k] = {} => (k \in failed <=> test[k].action # "WAIT")

\* The HTTP status a step sees is a success exactly if the RPC was one, 201 exactly
\* if it created something, and the code that a message about it names is the
\* server's (GRPCCodeToHTTPStatus, HTTPStatusOverride, HTTPStatusToGRPCCode).
StatusIsTheServers ==
    \A k \in Answered : \A c \in calls[k] :
        LET status == results[k].status
            code   == results[k].code
        IN  /\ status < 300 <=> code = "OK"
            /\ status = 201 <=> code = "OK" /\ RPCCreatesResource(c.method)
            /\ code \in DOMAIN HTTPStatus => HTTPStatusToGRPCCode(status) = code

\* A job at the server that no step was shown comes from a step whose call timed
\* out (rpcTimeout) and which is not taken for a success: a step that reports 201
\* has the jobs it created in its body.
JobsIn(body) == IF Is(Get(body, "jobs"), "array")
                THEN {Payload(Get(body, "jobs"))[n] : n \in DOMAIN Payload(Get(body, "jobs"))}
                ELSE {Get(body, "job")}
IdsIn(body)  == {Get(j, "id") : j \in {o \in JobsIn(body) : Is(o, "object")}}
UnseenJobsTimedOut ==
    pc = "next" =>
        \A i \in DOMAIN jobs :
            \/ \E k \in Answered : results[k].status = 201 /\ Str(i) \in IdsIn(results[k].body)
            \/ \E k \in Answered :
                  results[k].status = 504 /\ \E c \in calls[k] : RPCCreatesResource(c.method)

\* Options that are the same in a body and in a job, with their types.
Options == [queue |-> "string", priority |-> "number", max_attempts |-> "number",
            tags |-> "array", trace_id |-> "string", meta |-> "object"]
Defaulted == {"queue", "priority", "max_attempts"}

\* The value a body gives to an option, if it gives one: the first that is there, of
\* the type expected and not the zero value.
Counts(v, f) ==
    /\ Is(v, Options[f]) /\ v \notin {Num(0), Str(""), Arr(<<>>)}
    /\ f = "tags" => \A n \in DOMAIN Payload(v) : Is(Payload(v)[n], "string")
Given(body, f) ==
    LET all == IF ~Is(Get(body, "options"), "object") THEN <<Get(body, f)>>
               ELSE IF f \in Defaulted THEN <<Get(Get(body, "options"), f), Get(body, f)>>
               ELSE <<Get(Get(body, "options"), f)>>
    IN  {all[n] : n \in {m \in DOMAIN all : /\ Counts(all[m], f)
                                            /\ \A l \in 1..m-1 : ~Counts(all[l], f)}}

\* What a step sends with a job, in options or beside them, can be read back from
\* the job under the name it was sent with, by that step and by later ones, if
\* it has the type expected and is neither the zero value nor a template
\* (buildEnqueueOptions, protoJobToMap).
ReadBack ==
    \A k \in Answered : \A j \in 1..k :
        LET job  == Get(results[k].body, "job")
            body == test[j].body
        IN  /\ results[k].code = "OK" /\ Is(job, "object") /\ Is(body, "object")
            /\ \E c \in calls[j] : c.method = "Enqueue"
            /\ results[j].code = "OK"
            /\ Get(job, "id") = Get(Get(results[j].body, "job"), "id")
            => \A f \in DOMAIN Options :
                  Get(body, f) # Str(JobRef) => \A v \in Given(body, f) : Get(job, f) = v

\* With the default tolerance a step that should take about n milliseconds passes
\* from half of n to n and a half, or, when n is small, within 100 of n
\* (AssertApproximateMs; docs/test-case-reference.md, "Approximate").
DurationVerdicts ==
    TolerancePct = 50 /\ MinToleranceMs = 100 =>
        \A k \in Answered :
            \A t \in Asserts(k).timing :
                AssertsOnly(k, "timing") /\ Asserts(k).timing = {t} /\ t[1] = "approximate" =>
                    LET ms == results[k].ms
                    IN  k \notin failed <=> \/ t[2] <= 2 * ms /\ 2 * ms <= 3 * t[2]
                                            \/ t[2] <= ms + 100 /\ ms <= t[2] + 100

=============================================================================
