----------------------------- MODULE MCGrpcStep -----------------------------
(***************************************************************************)
(* Tests for GrpcStep: one for every route, with every status code; jobs   *)
(* with all kinds of options, read back and cancelled; assertions of all   *)
(* kinds on JSON of all kinds, which the server echoes as arguments of a   *)
(* job; durations around the tolerance.                                    *)
(***************************************************************************)
EXTENDS GrpcBodies

MCGoDuration == ("30s" :> 30) @@ ("5m" :> 300)
MCStringClass == ("string:uuidv7" :> {"j1", "j2", "j3"}) @@ ("^a" :> {"a", "ab"})
MCJobIds == <<"j1", "j2", "j3">>

NoAsserts == [status |-> {}, either |-> {}, checks |-> {}, absent |-> {}, timing |-> {}]
Step(action, path, body, asserts) ==
    [action |-> action, path |-> path, body |-> body, asserts |-> asserts]
Plain(action, path, body) == Step(action, path, body, NoAsserts)

Jobs == <<"v1", "jobs">>
JobPath(f) == <<Part("job", <<>>), Part(f, <<>>)>>
JobBody(fields) == Obj([type |-> Str("email"), args |-> Arr(<<Str("a")>>)] @@ fields)

-----------------------------------------------------------------------------
(* Answers that are not made of the server's jobs *)

SampleJob == Job("j9", Entry(JobBody("queue" :> Str("q"))))

MCMessages(method) ==
    CASE method \in Nothing          -> {<<>>}
      [] method \in OneJob           -> {SampleJob}
      [] method \in ManyJobs         -> {<<>>, <<SampleJob, SampleJob>>}
      [] method = "ListQueues"       -> {[queues |-> Arr(<<Obj([name |-> Str("q")])>>)]}
      [] method = "Ack"              -> {[acknowledged |-> Bool(TRUE)]}
      [] OTHER                       -> {[name |-> Str("w")]}

\* Only a call of Health takes its time.
MCDurations(method) == IF method = "Health" THEN {0, 25, 150, 151, 450} ELSE {0}

-----------------------------------------------------------------------------
(* Routes *)

Filled(pattern, id) == [k \in DOMAIN pattern |-> IF pattern[k] = Id THEN id ELSE pattern[k]]

OtherRoutes ==
    { <<"PUT", <<"v1", "jobs", Id, "checkpoint">> >>,
      <<"GET", <<"v1", "jobs", Id, "checkpoint">> >>,
      <<"DELETE", <<"v1", "jobs", Id, "checkpoint">> >>,
      <<"PUT", <<"v1", "jobs", Id>> >>,
      <<"POST", <<"v1", "queues", Id, "drain">> >>,
      <<"POST", <<"v1", "jobs", Id>> >>,
      <<"PATCH", <<"manifest">> >>,
      <<"WAIT", <<>> >> }

ABody == JobBody(("name" :> Str("daily")) @@ ("job_id" :> Str("j1")) @@
                 ("jobs" :> Arr(<<JobBody("priority" :> Num(2)), Num(1), JobBody(<<>>)>>)) @@
                 ("queues" :> Arr(<<Str("q"), Num(3)>>)) @@ ("count" :> Num(2)) @@
                 ("error" :> Obj([code |-> Str("E"), type |-> Str("T")])) @@
                 ("extend_by" :> Str("30s")))

RouteTests == {<<Plain(r[1], Filled(r[2], "x"), ABody)>> : r \in Documented \cup OtherRoutes}

StatusTests ==
    {<<Step("POST", Jobs, b, [NoAsserts EXCEPT !.status = {m}])>> :
        b \in {JobBody(<<>>), Num(1)},
        m \in {Num(201), <<"$in", <<Num(404), Num(201)>>>>, <<"range", 400, 422>>}}

-----------------------------------------------------------------------------
(* Options, read back *)

Policies ==
    ("retry" :> Obj([max_attempts |-> Num(3), initial_interval |-> Str("30s"),
                     initial_delay |-> Num(1), max_delay |-> Num(9), multiplier |-> Num(2)])) @@
    ("unique" :> Obj([key |-> Arr(<<Str("type"), Num(1)>>), period |-> Str("5m"),
                      on_conflict |-> Str("reject"), states |-> Arr(<<Str("active")>>)]))

OptionSets ==
    { <<>>,
      ("queue" :> Str("q")) @@ ("priority" :> Num(5)) @@ ("max_attempts" :> Num(3)),
      ("queue" :> Str("")) @@ ("priority" :> Num(-2)) @@ ("tags" :> Arr(<<Str("t")>>)),
      ("priority" :> Num(0)) @@ ("trace_id" :> Str("tr")) @@ ("meta" :> Obj([k |-> Num(1)])),
      ("queue" :> Num(1)) @@ ("tags" :> Arr(<<>>)) @@ ("timeout" :> Str("PT1S")) @@
          ("scheduled_at" :> Str("2026-01-01T00:00:00Z")) @@ ("ttl" :> Num(60)),
      ("priority" :> Num(1)) @@ Policies }

Bodies == {JobBody(top) : top \in OptionSets} \cup
          {JobBody(("options" :> Obj(in)) @@ top) : in \in OptionSets, top \in OptionSets}

ReadTests ==
    {<<Plain("POST", Jobs, b), Plain("GET", Jobs \o <<JobRef>>, Null)>> : b \in Bodies}

CancelTests ==
    {<<Plain("POST", Jobs, JobBody(<<>>)), Plain(a, Jobs \o <<JobRef>>, Null),
       Plain("GET", Jobs \o <<JobRef>>, Null)>> : a \in {"DELETE", "WAIT"}} \cup
    {<<Plain("POST", Jobs, JobBody(<<>>)),
       Plain("POST", <<"v1", "workers", "ack">>, Obj([job_id |-> Str(JobRef)])),
       Plain("POST", Jobs, JobBody("queue" :> Str("q")))>>}

-----------------------------------------------------------------------------
(* Assertions on bodies *)

Values == { Null, Num(0), Num(1), Str("a"), Bool(TRUE), Arr(<<>>), Arr(<<Num(1)>>),
            Arr(<<Num(1), Str("a")>>), Obj([k |-> Num(1)]), Obj([k |-> Num(1), l |-> Str("a")]),
            Obj([k |-> Arr(<<Num(1)>>), l |-> Null]), Arr(<<Obj([k |-> Num(1)])>>) }

Forms == { <<"nonempty">>, <<"class", "^a">>, <<"positive">>, <<"non_negative">>,
           <<"range", 1, 3>>, <<"at_least", 1>>, <<"at_most", 0>>, <<"approx", 2>>,
           <<"length", 1>>, <<"min_length", 2>>, <<"contains", "a">>, <<"not_contains", "1">>,
           <<"exists">>, <<"absent">>, <<"$exists", FALSE, {"null"}>>, <<"$empty">>,
           <<"$in", <<Num(1), Str("a")>>>>, <<"$or", <<<<"length", 0>>, <<"positive">>>>>>,
           Obj([k |-> <<"positive">>, z |-> <<"absent">>]) }

\* A step that has the server echo v, which is at this path.
Echo(v, asserts) ==
    <<Step("POST", Jobs, Obj([type |-> Str("email"), args |-> Arr(<<v>>)]), asserts)>>
Here == <<Part("job", <<>>), Part("args", << <<"index", 0>> >>)>>
Behind(brackets, parts) ==
    <<Part("job", <<>>), Part("args", << <<"index", 0>> >> \o brackets)>> \o parts

MatchTests ==
    {Echo(v, [NoAsserts EXCEPT !.checks = {Check(Here, m)}]) : v \in Values, m \in Values \cup Forms}

List == Arr(<<Obj([k |-> Num(1), l |-> Str("a"), m |-> Arr(<<Num(7)>>)]),
              Obj([k |-> Num(2), l |-> Str("a"), m |-> Arr(<<>>)]),
              Num(3),
              Obj([k |-> Null, l |-> Str("b")]),
              Obj([k |-> Num(5), m |-> Arr(<<Num(8), Num(9)>>)])>>)
Lists == {List, Arr(<<>>), Obj([k |-> Num(1), l |-> List])}

Field(f) == Part(f, <<>>)
Paths ==
    { Behind(<< <<"all">> >>, <<>>), Behind(<< <<"all">> >>, <<Field("k")>>),
      Behind(<< <<"all">> >>, <<Part("m", << <<"index", 1>> >>)>>),
      Behind(<< <<"all">> >>, <<Part("m", << <<"all">> >>)>>),
      Behind(<< <<"index", 1>> >>, <<Field("k")>>), Behind(<< <<"index", 5>> >>, <<>>),
      Behind(<<>>, <<Field("k")>>), Behind(<<>>, <<Field("z"), Field("k")>>),
      Behind(<<>>, <<Part("l", << <<"first", "l", "a">> >>), Field("k")>>),
      Behind(<<>>, <<Part("l", << <<"first", "k", "<nil>">> >>), Field("l")>>),
      Behind(<<>>, <<Part("l", << <<"first", "l", "z">> >>)>>),
      Behind(<<>>, <<Part("l", << <<"index", 0>>, <<"first", "k", "1">> >>)>>),
      Behind(<<>>, <<Part("l", << <<"all">> >>), Field("l")>>), JobPath("result") }

PathTests ==
    {Echo(v, [NoAsserts EXCEPT !.checks = {Check(p, m)}]) :
        v \in Lists, p \in Paths, m \in {Absent, <<"length", 2>>}} \cup
    {Echo(v, [NoAsserts EXCEPT !.absent = {p}]) : v \in Lists, p \in Paths} \cup
    {Echo(Num(1), [NoAsserts EXCEPT !.either = {{Check(Here, m), Check(JobPath(f), <<"exists">>)},
                                                {Check(JobPath("nothing"), Absent)}}]) :
        m \in {Num(1), Num(2)}, f \in {"id", "result"}}

TimeTests ==
    {<<Step("GET", <<"v1", "health">>, Null, [NoAsserts EXCEPT !.timing = {t}])>> :
        t \in {<<"approximate", 50>>, <<"approximate", 200>>, <<"approximate", 300>>,
               <<"less_than", 150>>, <<"greater_than", 150>>}}

AllTests == RouteTests \cup StatusTests \cup ReadTests \cup CancelTests \cup MatchTests
                \cup PathTests \cup TimeTests

=============================================================================
