------------------------------ MODULE GrpcClient ------------------------------
(***************************************************************************)
(* How the gRPC runner turns the HTTP steps of a test into RPCs and their  *)
(* answers back into HTTP ones (runner/grpc/adapter.go, client.go).        *)
(*                                                                         *)
(* A path is the sequence of its segments after /ojs/.  A message is a     *)
(* function from its fields to JSON values; nil stands for the zero value  *)
(* of a scalar field, which protobuf does not send, and for a message that *)
(* is not there.  Numbers are integers that fit 32 bits.                   *)
(***************************************************************************)
EXTENDS JsonValues, Parts, SequencesExt, FiniteSetsExt

CONSTANTS
    GoDuration,   \* the duration strings time.ParseDuration accepts, with their seconds
    Times,        \* the strings time.Parse accepts as RFC 3339 times
    JobStates     \* the job states of the protocol

ASSUME GrpcClientAssumption == \A d \in DOMAIN GoDuration : GoDuration[d] \in Nat

-----------------------------------------------------------------------------
(* Routes *)

Exact(action, path, method) ==
    [action |-> action, path |-> path, method |-> method, exact |-> TRUE]
Prefix(action, path, method) ==
    [action |-> action, path |-> path, method |-> method, exact |-> FALSE]

RouteTable == <<
    Exact("GET", <<"manifest">>, "Manifest"),
    Exact("GET", <<"v1", "health">>, "Health"),
    Exact("POST", <<"v1", "jobs", "batch">>, "EnqueueBatch"),
    Exact("POST", <<"v1", "jobs">>, "Enqueue"),
    Prefix("GET", <<"v1", "jobs">>, "GetJob"),
    Prefix("DELETE", <<"v1", "jobs">>, "CancelJob"),
    Exact("POST", <<"v1", "workers", "fetch">>, "Fetch"),
    Exact("POST", <<"v1", "workers", "ack">>, "Ack"),
    Exact("POST", <<"v1", "workers", "nack">>, "Nack"),
    Exact("POST", <<"v1", "workers", "heartbeat">>, "Heartbeat"),
    Exact("GET", <<"v1", "queues">>, "ListQueues"),
    Prefix("GET", <<"v1", "queues">>, "QueueStats"),
    Prefix("POST", <<"v1", "queues">>, "PauseOrResumeQueue"),
    Exact("GET", <<"v1", "dead-letter">>, "ListDeadLetter"),
    Prefix("POST", <<"v1", "dead-letter">>, "RetryDeadLetter"),
    Prefix("DELETE", <<"v1", "dead-letter">>, "DeleteDeadLetter"),
    Exact("GET", <<"v1", "cron">>, "ListCron"),
    Exact("POST", <<"v1", "cron">>, "RegisterCron"),
    Prefix("DELETE", <<"v1", "cron">>, "UnregisterCron"),
    Exact("POST", <<"v1", "workflows">>, "CreateWorkflow"),
    Prefix("GET", <<"v1", "workflows">>, "GetWorkflow"),
    Prefix("DELETE", <<"v1", "workflows">>, "CancelWorkflow"),
    Prefix("PUT", <<"v1", "jobs">>, "SaveCheckpoint"),
    Prefix("GET", <<"v1", "jobs">>, "GetCheckpointOrJob"),
    Prefix("DELETE", <<"v1", "jobs">>, "DeleteCheckpointOrCancel") >>

\* Rows that match exactly, and rows whose path, with a slash behind it, starts
\* the path.
MatchesExactly(k, action, path) ==
    LET r == RouteTable[k]
    IN  r.exact /\ r.action = action /\ r.path = path
MatchesPrefix(k, action, path) ==
    LET r == RouteTable[k]
    IN  ~r.exact /\ r.action = action /\ Len(path) > Len(r.path) /\ IsPrefix(r.path, path)

\* Mutant: one pass over the table, in its order, an exact row read as a prefix.
ResolveRouteInOnePass(action, path) ==
    LET rows == {k \in DOMAIN RouteTable : /\ RouteTable[k].action = action
                                           /\ IsPrefix(RouteTable[k].path, path)}
    IN  IF rows = {} THEN "" ELSE RouteTable[Min(rows)].method

\* The first exact row, else the first prefix row, else no method.
ResolveRoute(action, path) ==
    LET exact  == {k \in DOMAIN RouteTable : MatchesExactly(k, action, path)}
        prefix == {k \in DOMAIN RouteTable : MatchesPrefix(k, action, path)}
    IN  IF exact # {} THEN RouteTable[Min(exact)].method
        ELSE IF prefix # {} THEN RouteTable[Min(prefix)].method
        ELSE ""

\* What executeStep makes of the methods that stand for two.
Disambiguated(method, path) ==
    CASE method = "PauseOrResumeQueue" ->
            IF Last(path) = "pause" THEN "PauseQueue"
            ELSE IF Last(path) = "resume" THEN "ResumeQueue" ELSE method
      [] method = "SaveCheckpoint" -> IF Last(path) = "checkpoint" THEN method ELSE ""
      [] method = "GetCheckpointOrJob" ->
            IF Last(path) = "checkpoint" THEN "GetCheckpoint" ELSE "GetJob"
      [] method = "DeleteCheckpointOrCancel" ->
            IF Last(path) = "checkpoint" THEN "DeleteCheckpoint" ELSE "CancelJob"
      [] OTHER -> method

Method(action, path) == Disambiguated(ResolveRoute(action, path), path)

\* The methods CallRPC has a case for, by where they find what they act on.
TargetInPath == {"GetJob", "CancelJob", "QueueStats", "PauseQueue", "ResumeQueue",
                 "RetryDeadLetter", "DeleteDeadLetter", "UnregisterCron",
                 "GetWorkflow", "CancelWorkflow"}
KnownMethods == TargetInPath \cup
                {"Enqueue", "EnqueueBatch", "Fetch", "Ack", "Nack", "Heartbeat",
                 "ListQueues", "ListDeadLetter", "RegisterCron", "ListCron",
                 "CreateWorkflow", "Health", "Manifest"}

-----------------------------------------------------------------------------
(* Status codes *)

HTTPStatus == [OK |-> 200, InvalidArgument |-> 400, Unauthenticated |-> 401,
               PermissionDenied |-> 403, NotFound |-> 404, AlreadyExists |-> 409,
               FailedPrecondition |-> 412, ResourceExhausted |-> 429, Internal |-> 500,
               Unimplemented |-> 501, Unavailable |-> 503, DeadlineExceeded |-> 504]

GRPCCodeToHTTPStatus(code) == IF code \in DOMAIN HTTPStatus THEN HTTPStatus[code] ELSE 500

\* HTTPStatusToGRPCCode, which words the message of a failed status assertion.
HTTPStatusToGRPCCode(status) ==
    CASE status = 201 -> "OK"
      [] \E c \in DOMAIN HTTPStatus : HTTPStatus[c] = status ->
            CHOOSE c \in DOMAIN HTTPStatus : HTTPStatus[c] = status
      [] OTHER -> "Unknown"

RPCCreatesResource(method) ==
    method \in {"Enqueue", "EnqueueBatch", "RegisterCron", "CreateWorkflow"}

\* Mutant: the override counts for an error as well.
StatusAlwaysOverridden(method, code) ==
    IF RPCCreatesResource(method) THEN 201 ELSE GRPCCodeToHTTPStatus(code)

\* HTTPStatusOverride, set by the four methods that create something.
Status(method, code) ==
    IF RPCCreatesResource(method) /\ code = "OK" THEN 201 ELSE GRPCCodeToHTTPStatus(code)

-----------------------------------------------------------------------------
(* Requests: the fields of a JSON body are taken if they have the type      *)
(* expected, and passed over otherwise.                                    *)

\* Field f of object o, if it has the type; else nil.
Of(o, f, type) == IF Is(Get(o, f), type) THEN Get(o, f) ELSE Null

\* Of values assigned to one field in this order, the one that stays.
Latest(s) == LET set == {k \in DOMAIN s : s[k] # Null}
             IN  IF set = {} THEN Null ELSE s[Max(set)]

\* A scalar of value zero is as good as not set.
Scalar(v) == IF v \in {Str(""), Num(0)} THEN Null ELSE v

\* The elements of this type in an array.
Elements(v, type) == PartOf(Payload(v), {k \in DOMAIN Payload(v) : Is(Payload(v)[k], type)})

\* The strings among the elements of an array; an empty list is not sent.
Strings(v) == LET s == Elements(v, "string")
              IN  IF ~Is(v, "array") \/ s = <<>> THEN Null ELSE Arr(s)

\* A duration string; one that time.ParseDuration rejects is passed over.
GoString(v) == IF Is(v, "string") /\ Payload(v) \in DOMAIN GoDuration
               THEN Num(GoDuration[Payload(v)]) ELSE Null

\* A duration: seconds, or a string.
Duration(o, f) == Latest(<<Of(o, f, "number"), GoString(Get(o, f))>>)

\* A message of these fields, nil if all of them are.
Message(m) == LET set == {f \in DOMAIN m : m[f] # Null}
              IN  IF set = {} THEN Null ELSE Obj([f \in set |-> m[f]])

RetryPolicy(o) == Message(
    [max_attempts        |-> Scalar(Of(o, "max_attempts", "number")),
     initial_interval    |-> Latest(<<Of(o, "initial_interval", "number"),
                                      Of(o, "initial_delay", "number"),
                                      GoString(Get(o, "initial_interval"))>>),
     max_interval        |-> Latest(<<Of(o, "max_interval", "number"),
                                      Of(o, "max_delay", "number")>>),
     backoff_coefficient |-> Scalar(Latest(<<Of(o, "multiplier", "number"),
                                             Of(o, "backoff_coefficient", "number")>>))])

ConflictActions == {"reject", "replace", "ignore", "replace_except_schedule"}

UniquePolicy(o) == Message(
    [key         |-> IF Is(Get(o, "key"), "string") THEN Arr(<<Get(o, "key")>>)
                     ELSE Strings(Get(o, "key")),
     period      |-> Duration(o, "period"),
     on_conflict |-> IF \E a \in ConflictActions : Get(o, "on_conflict") = Str(a)
                     THEN Get(o, "on_conflict") ELSE Null,
     states      |-> LET known == SelectSeq(Payload(Get(o, "states")),
                                            LAMBDA w : \E s \in JobStates : w = Str(s))
                     IN  IF ~Is(Get(o, "states"), "array") \/ known = <<>>
                         THEN Null ELSE Arr(known)])

\* Where the options of a body are.
Nested(body)  == Is(Get(body, "options"), "object")
Source(body)  == IF Nested(body) THEN Get(body, "options") ELSE body

\* Mutant: the top level is not looked at behind options.
NoFallback(body, f, type) == Scalar(Of(Source(body), f, type))

\* An option that, behind options, the top level of the body stands in for.
WithFallback(body, f, type) ==
    LET v == Scalar(Of(Source(body), f, type))
    IN  IF v = Null /\ Nested(body) THEN Scalar(Of(body, f, type)) ELSE v

\* buildEnqueueOptions
EnqueueOptions(body) ==
    LET o == Source(body)
    IN  [queue        |-> WithFallback(body, "queue", "string"),
         priority     |-> WithFallback(body, "priority", "number"),
         max_attempts |-> WithFallback(body, "max_attempts", "number"),
         tags         |-> Strings(Get(o, "tags")),
         trace_id     |-> Scalar(Of(o, "trace_id", "string")),
         delay_until  |-> IF \E t \in Times : Get(o, "scheduled_at") = Str(t)
                          THEN Get(o, "scheduled_at") ELSE Null,
         timeout      |-> Duration(o, "timeout"),
         ttl          |-> Duration(o, "ttl"),
         retry        |-> IF Is(Get(o, "retry"), "object")
                          THEN RetryPolicy(Get(o, "retry")) ELSE Null,
         unique       |-> IF Is(Get(o, "unique"), "object")
                          THEN UniquePolicy(Get(o, "unique")) ELSE Null,
         meta         |-> Of(o, "meta", "object")]

\* What describes a job: its type, its arguments, its options.
Entry(o) == [type    |-> Scalar(Of(o, "type", "string")),
             args    |-> IF Get(o, "args") = Arr(<<>>) THEN Null ELSE Of(o, "args", "array"),
             options |-> EnqueueOptions(o)]

Objects(v) == IF Is(v, "array") THEN Elements(v, "object") ELSE <<>>

Entries(v) == [k \in DOMAIN Objects(v) |-> Entry(Objects(v)[k])]

\* The requests of workers: fetch, ack, nack, heartbeat.
WorkerRequest(method, body) ==
    LET str(f) == Of(body, f, "string")
    IN  CASE method = "Fetch" ->
                [queues |-> Strings(Get(body, "queues")),
                 count  |-> Scalar(Latest(<<Of(body, "max_jobs", "number"),
                                            Of(body, "count", "number")>>))]
          [] method = "Ack" -> [id |-> str("job_id"), result |-> Of(body, "result", "object")]
          [] method = "Nack" ->
                [id |-> str("job_id"),
                 error |-> LET e == Of(body, "error", "object")
                           IN  IF e = Null THEN Null
                               ELSE Latest(<<Of(e, "type", "string"), Of(e, "code", "string")>>)]
          [] method = "Heartbeat" ->
                [id |-> Latest(<<str("job_id"), str("id")>>),
                 extend_by |-> Duration(body, "extend_by")]

\* Requests that name lists, schedules and workflows; their links and schedules,
\* which are copied as they are, are left out.
NamedRequest(method, body) ==
    LET str(f) == Of(body, f, "string")
    IN  CASE method = "ListDeadLetter" ->
                [queue |-> Scalar(str("queue")), limit |-> Scalar(Of(body, "limit", "number"))]
          [] method = "RegisterCron" -> [id |-> str("name"), job |-> Entry(body)]
          [] method = "CreateWorkflow" ->
                [name |-> Scalar(str("name")), steps |-> Entries(Get(body, "steps"))]

\* The request of a method, without the names of workers and the reasons given.
\* A body that is no object counts as an empty one.
Request(method, path, anyBody) ==
    LET body == IF Is(anyBody, "object") THEN anyBody ELSE Obj(<<>>)
    IN  CASE method \in TargetInPath -> [id |-> Str(path[3])]
          [] method = "Enqueue" -> [job |-> Entry(body)]
          [] method = "EnqueueBatch" ->
                [jobs |-> Entries(Get(body, "jobs")), defaults |-> EnqueueOptions(body)]
          [] method \in {"Fetch", "Ack", "Nack", "Heartbeat"} -> WorkerRequest(method, body)
          [] method \in {"ListDeadLetter", "RegisterCron", "CreateWorkflow"} ->
                NamedRequest(method, body)
          [] OTHER -> <<>>

-----------------------------------------------------------------------------
(* Answers *)

\* Fields that are shown although they are zero.
ShownZero == [attempt |-> Num(0), type |-> Str(""), queue |-> Str("")]

\* A policy without the states in which it counts.
WithoutStates(policy) ==
    IF policy = Null THEN Null
    ELSE Message([f \in DOMAIN Payload(policy) \ {"states"} |-> Get(policy, f)])

\* protoJobToMap: the fields that are set, and those that are always shown.
JobToMap(job) ==
    LET shown == [job EXCEPT !.unique_policy = WithoutStates(@)]
    IN  Obj([f \in {g \in DOMAIN job : shown[g] # Null \/ g \in DOMAIN ShownZero} |->
                IF shown[f] = Null THEN ShownZero[f] ELSE shown[f]])

OneJob   == {"Enqueue", "GetJob", "CancelJob", "RetryDeadLetter"}
ManyJobs == {"EnqueueBatch", "Fetch", "ListDeadLetter"}
Nothing  == {"PauseQueue", "ResumeQueue", "DeleteDeadLetter", "UnregisterCron"}

\* The JSON body made of the server's message: a job, a sequence of jobs, or
\* fields which are copied one by one.  The counts of lists are left out.
ResponseJSON(method, code, message) ==
    CASE code # "OK" -> Obj([error |-> Obj([code |-> Str(code)])])
      [] code = "OK" /\ method \in OneJob -> Obj([job |-> JobToMap(message)])
      [] code = "OK" /\ method \in ManyJobs ->
            Obj([jobs |-> Arr([k \in DOMAIN message |-> JobToMap(message[k])])])
      [] code = "OK" /\ method \in Nothing -> Obj(<<>>)
      [] OTHER -> Obj(message)

=============================================================================
