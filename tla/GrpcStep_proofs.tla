---------------------------- MODULE GrpcStep_proofs ----------------------------
(***************************************************************************)
(* Proofs about the steps of the gRPC runner: for all tests, servers,      *)
(* matchers and durations, a step of a documented route makes the call it  *)
(* means, the status it sees is the server's, its verdict on a duration is *)
(* the documented one, no job of the server stays unseen unless a call     *)
(* timed out, and what is sent with a job can be read back from it.        *)
(***************************************************************************)
EXTENDS GrpcStep, SequenceTheorems, FiniteSetTheorems, TLAPS

-----------------------------------------------------------------------------
(* Routes *)

\* An exact row has less than three segments, or is one of a few POST rows; no two have
\* the same action and path.
LEMMA ExactRows ==
    /\ DOMAIN RouteTable = 1 .. 25
    /\ \A n \in 1 .. 25 : RouteTable[n].exact =>
          \/ Len(RouteTable[n].path) < 3
          \/ RouteTable[n].action = "POST" /\ RouteTable[n].path[2] \in {"jobs", "workers"}
    /\ \A m, n \in 1 .. 25 :
          /\ RouteTable[m].exact /\ RouteTable[n].exact
          /\ RouteTable[m].action = RouteTable[n].action
          /\ RouteTable[m].path = RouteTable[n].path
          => m = n
<1> DEFINE short == {<<"manifest">>, <<"v1", "health">>, <<"v1", "queues">>, <<"v1", "jobs">>,
                     <<"v1", "dead-letter">>, <<"v1", "cron">>, <<"v1", "workflows">>}
           long  == {<<"v1", "jobs", "batch">>, <<"v1", "workers", "fetch">>,
                     <<"v1", "workers", "ack">>, <<"v1", "workers", "nack">>,
                     <<"v1", "workers", "heartbeat">>}
<1>1. DOMAIN RouteTable = 1 .. 25
  BY DEF RouteTable
<1>2. \A n \in 1 .. 25 : RouteTable[n].exact =>
          \/ RouteTable[n].path \in short
          \/ RouteTable[n].action = "POST" /\ RouteTable[n].path \in long
  BY DEF RouteTable, Exact, Prefix
<1>3. \A p \in short : Len(p) < 3
  <2> TAKE p \in short
  <2>1. CASE p = <<"manifest">>
    BY <2>1
  <2>2. CASE p # <<"manifest">>
    <3>1. PICK b : p = <<"v1", b>>
      BY <2>2
    <3> HIDE DEF short
    <3> QED
      BY <3>1
  <2> QED
    BY <2>1, <2>2
<1>4. \A p \in long : p[2] \in {"jobs", "workers"}
  OBVIOUS
<1>5. \A m, n \in 1 .. 25 :
          /\ RouteTable[m].exact /\ RouteTable[n].exact
          /\ RouteTable[m].action = RouteTable[n].action
          /\ RouteTable[m].path = RouteTable[n].path
          => m = n
  BY SMTT(60) DEF RouteTable, Exact, Prefix
<1> HIDE DEF short, long
<1> QED
  BY <1>1, <1>2, <1>3, <1>4, <1>5

LEMMA PrefixRows ==
    \A n \in 1 .. 25 : ~RouteTable[n].exact =>
        RouteTable[n].path = <<"v1", RouteTable[n].path[2]>>
BY SMTT(60) DEF RouteTable, Exact, Prefix

LEMMA FirstOfRows ==
    ASSUME NEW S \in SUBSET (1 .. 25), NEW n \in S, \A k \in S : n <= k
    PROVE  Min(S) = n
<1>1. \A k \in S : (\A j \in S : k <= j) => k = n
  OBVIOUS
<1> QED
  BY <1>1 DEF Min

\* The path of an exact row goes to its method.
LEMMA ExactRow ==
    ASSUME NEW n \in 1 .. 25, RouteTable[n].exact
    PROVE  ResolveRoute(RouteTable[n].action, RouteTable[n].path) = RouteTable[n].method
<1> DEFINE action == RouteTable[n].action
           path   == RouteTable[n].path
           exact  == {k \in DOMAIN RouteTable : MatchesExactly(k, action, path)}
<1>1. exact = {n}
  BY ExactRows DEF MatchesExactly
<1>2. Min({n}) = n
  BY FirstOfRows
<1> QED
  BY <1>1, <1>2 DEF ResolveRoute

LEMMA PrefixOfTwo ==
    ASSUME NEW q, IsSequence(q), Len(q) > 2
    PROVE  \A a, b : IsPrefix(<<a, b>>, q) <=> q[1] = a /\ q[2] = b
<1> SUFFICES ASSUME NEW a, NEW b
             PROVE  IsPrefix(<<a, b>>, q) <=> q[1] = a /\ q[2] = b
  OBVIOUS
<1>1. ASSUME NEW A, NEW s \in Seq(A), Len(s) >= 2
      PROVE  /\ SubSeq(s, 1, 2) \in Seq(A) /\ Len(SubSeq(s, 1, 2)) = 2
             /\ SubSeq(s, 1, 2)[1] = s[1] /\ SubSeq(s, 1, 2)[2] = s[2]
  <2>1. \A i \in 1 .. 2 : s[i] \in A
    BY <1>1
  <2>2. /\ SubSeq(s, 1, 2) \in Seq(A)
        /\ Len(SubSeq(s, 1, 2)) = IF 1 <= 2 THEN 2 - 1 + 1 ELSE 0
        /\ \A i \in 1 .. 2 - 1 + 1 : SubSeq(s, 1, 2)[i] = s[1 + i - 1]
    BY <2>1, SubSeqProperties
  <2> QED
    BY <2>2
<1>2. <<a, b>> \in Seq({a, b}) /\ Len(<<a, b>>) = 2
  OBVIOUS
<1>8. <<a, b>>[1] = a /\ <<a, b>>[2] = b /\ Len(<<a, b>>) >= 2
  OBVIOUS
<1>3. q \in Seq({q[k] : k \in DOMAIN q}) /\ Len(q) >= 2 /\ Len(q) \in Nat
  BY DEF IsSequence
<1> DEFINE s == SubSeq(<<a, b>>, 1, 2)
           t == SubSeq(q, 1, 2)
<1>4. /\ Len(s) = 2 /\ s[1] = a /\ s[2] = b /\ s \in Seq({a, b})
  BY <1>1, <1>2, <1>8, Zenon
<1>5. /\ Len(t) = 2 /\ t[1] = q[1] /\ t[2] = q[2] /\ t \in Seq({q[k] : k \in DOMAIN q})
  BY <1>1, <1>3, Zenon
<1>6. IsPrefix(<<a, b>>, q) <=> s = t
  BY <1>2, <1>3 DEF IsPrefix
<1> HIDE DEF s, t
<1> QED
  BY <1>4, <1>5, <1>6

\* A longer path that no exact row matches goes to the first row with its thing.
LEMMA PrefixRow ==
    ASSUME NEW n \in 1 .. 25, ~RouteTable[n].exact,
           NEW q, IsSequence(q), Len(q) > 2,
           q[1] = "v1", q[2] = RouteTable[n].path[2],
           RouteTable[n].action = "POST" => q[2] \notin {"jobs", "workers"},
           \A k \in 1 .. 25 : /\ k < n /\ ~RouteTable[k].exact
                              /\ RouteTable[k].action = RouteTable[n].action
                              => RouteTable[k].path[2] # q[2]
    PROVE  ResolveRoute(RouteTable[n].action, q) = RouteTable[n].method
<1> DEFINE action == RouteTable[n].action
           exact  == {k \in DOMAIN RouteTable : MatchesExactly(k, action, q)}
           prefix == {k \in DOMAIN RouteTable : MatchesPrefix(k, action, q)}
<1>0. Len(q) \in Nat
  BY DEF IsSequence
<1>1. exact = {}
  <2>1. SUFFICES ASSUME NEW k \in 1 .. 25, RouteTable[k].exact,
                        RouteTable[k].action = action, RouteTable[k].path = q
                 PROVE  FALSE
    BY ExactRows DEF MatchesExactly
  <2>2. ~(Len(RouteTable[k].path) < 3)
    BY <1>0, <2>1
  <2>3. RouteTable[k].action = "POST" /\ q[2] \in {"jobs", "workers"}
    BY <2>1, <2>2, ExactRows
  <2> QED
    BY <2>1, <2>3
<1>2. \A k \in 1 .. 25 :
         ~RouteTable[k].exact =>
            /\ Len(RouteTable[k].path) = 2
            /\ IsPrefix(RouteTable[k].path, q) <=> q[2] = RouteTable[k].path[2]
  <2>1. \A a, b : IsPrefix(<<a, b>>, q) <=> q[1] = a /\ q[2] = b
    BY PrefixOfTwo
  <2>2. \A a, b : Len(<<a, b>>) = 2
    OBVIOUS
  <2>3. TAKE k \in 1 .. 25
  <2>4. HAVE ~RouteTable[k].exact
  <2>5. RouteTable[k].path = <<"v1", RouteTable[k].path[2]>>
    BY <2>4, PrefixRows
  <2>6. PICK b : b = RouteTable[k].path[2]
    OBVIOUS
  <2> QED
    BY <2>1, <2>2, <2>5, <2>6
<1>3. n \in prefix /\ \A k \in prefix : n <= k
  <2>1. \A k \in 1 .. 25 :
           MatchesPrefix(k, action, q) <=>
              /\ ~RouteTable[k].exact /\ RouteTable[k].action = action
              /\ RouteTable[k].path[2] = q[2]
    BY <1>0, <1>2 DEF MatchesPrefix
  <2>2. n \in prefix
    BY <2>1, ExactRows
  <2>3. ASSUME NEW k \in prefix, k < n
        PROVE  FALSE
    <3>1. k \in 1 .. 25 /\ MatchesPrefix(k, action, q)
      BY ExactRows
    <3> HIDE DEF prefix, exact
    <3> QED
      BY <2>1, <2>3, <3>1
  <2>4. \A k \in prefix : k \in 1 .. 25
    BY ExactRows
  <2> HIDE DEF prefix, exact
  <2> QED
    BY <2>2, <2>3, <2>4
<1>4. Min(prefix) = n
  BY <1>3, FirstOfRows, ExactRows
<1> QED
  BY <1>1, <1>3, <1>4 DEF ResolveRoute

\* Every documented route without an id has its exact row.
LEMMA ExactlyDocumented ==
    \A r \in Documented :
       (\A i \in DOMAIN r[2] : r[2][i] # Id) =>
          /\ r[3] \in KnownMethods \ TargetInPath
          /\ \E n \in 1 .. 25 : RouteTable[n] = Exact(r[1], r[2], r[3])
<1>1. /\ RouteTable[1] = Exact("GET", <<"manifest">>, "Manifest")
      /\ RouteTable[2] = Exact("GET", <<"v1", "health">>, "Health")
      /\ RouteTable[3] = Exact("POST", <<"v1", "jobs", "batch">>, "EnqueueBatch")
      /\ RouteTable[4] = Exact("POST", <<"v1", "jobs">>, "Enqueue")
      /\ RouteTable[7] = Exact("POST", <<"v1", "workers", "fetch">>, "Fetch")
      /\ RouteTable[8] = Exact("POST", <<"v1", "workers", "ack">>, "Ack")
      /\ RouteTable[9] = Exact("POST", <<"v1", "workers", "nack">>, "Nack")
      /\ RouteTable[10] = Exact("POST", <<"v1", "workers", "heartbeat">>, "Heartbeat")
      /\ RouteTable[11] = Exact("GET", <<"v1", "queues">>, "ListQueues")
      /\ RouteTable[14] = Exact("GET", <<"v1", "dead-letter">>, "ListDeadLetter")
      /\ RouteTable[17] = Exact("GET", <<"v1", "cron">>, "ListCron")
      /\ RouteTable[18] = Exact("POST", <<"v1", "cron">>, "RegisterCron")
      /\ RouteTable[20] = Exact("POST", <<"v1", "workflows">>, "CreateWorkflow")
  BY DEF RouteTable
<1> SUFFICES ASSUME NEW r \in Documented, \A i \in DOMAIN r[2] : r[2][i] # Id
             PROVE  /\ r[3] \in KnownMethods \ TargetInPath
                    /\ \E n \in 1 .. 25 : RouteTable[n] = Exact(r[1], r[2], r[3])
  OBVIOUS
<1>2. \/ r = <<"GET", <<"manifest">>, "Manifest">>
      \/ r = <<"GET", <<"v1", "health">>, "Health">>
      \/ r = <<"POST", <<"v1", "jobs", "batch">>, "EnqueueBatch">>
      \/ r = <<"POST", <<"v1", "jobs">>, "Enqueue">>
      \/ r = <<"POST", <<"v1", "workers", "fetch">>, "Fetch">>
      \/ r = <<"POST", <<"v1", "workers", "ack">>, "Ack">>
      \/ r = <<"POST", <<"v1", "workers", "nack">>, "Nack">>
      \/ r = <<"POST", <<"v1", "workers", "heartbeat">>, "Heartbeat">>
      \/ r = <<"GET", <<"v1", "queues">>, "ListQueues">>
      \/ r = <<"GET", <<"v1", "dead-letter">>, "ListDeadLetter">>
      \/ r = <<"GET", <<"v1", "cron">>, "ListCron">>
      \/ r = <<"POST", <<"v1", "cron">>, "RegisterCron">>
      \/ r = <<"POST", <<"v1", "workflows">>, "CreateWorkflow">>
  BY DEF Documented
<1>3. r[3] \in KnownMethods \ TargetInPath
  BY <1>2 DEF KnownMethods, TargetInPath
<1>4. \E n \in 1 .. 25 : RouteTable[n] = Exact(r[1], r[2], r[3])
  BY <1>1, <1>2
<1> QED
  BY <1>3, <1>4

\* A path of a documented route, whatever its id, goes to the route's method.
LEMMA DocumentedCall ==
    ASSUME NEW r \in Documented, NEW q, IsSequence(q), Len(q) = Len(r[2]),
           \A i \in DOMAIN r[2] : r[2][i] \in {Id, q[i]}
    PROVE  /\ Method(r[1], q) = r[3] /\ r[3] \in KnownMethods /\ r[1] # "WAIT"
           /\ \A i \in DOMAIN r[2] : r[2][i] = Id => i = 3 /\ r[3] \in TargetInPath
<1>1. r[1] # "WAIT" /\ DOMAIN r[2] = 1 .. Len(r[2])
  BY DEF Documented
<1>2. CASE \A i \in DOMAIN r[2] : r[2][i] # Id
  <2>1. PICK n \in 1 .. 25 : RouteTable[n] = Exact(r[1], r[2], r[3])
    BY <1>2, ExactlyDocumented
  <2>2. q = r[2]
    <3>1. r[2] = [i \in 1 .. Len(r[2]) |-> r[2][i]]
      BY DEF Documented, Id
    <3>2. q = [i \in 1 .. Len(q) |-> q[i]]
      BY DEF IsSequence
    <3> QED
      BY <1>1, <1>2, <3>1, <3>2
  <2>3. ResolveRoute(r[1], q) = r[3]
    BY <2>1, <2>2, ExactRow DEF Exact
  <2>4. r[3] \in KnownMethods \ TargetInPath
    BY <1>2, ExactlyDocumented
  <2>5. Method(r[1], q) = r[3]
    BY <2>3, <2>4 DEF Method, Disambiguated, KnownMethods, TargetInPath
  <2> QED
    BY <1>1, <1>2, <2>4, <2>5
<1>3. CASE \E i \in DOMAIN r[2] : r[2][i] = Id
  <2>1. \/ r = <<"GET", <<"v1", "jobs", Id>>, "GetJob">>
        \/ r = <<"DELETE", <<"v1", "jobs", Id>>, "CancelJob">>
        \/ r = <<"DELETE", <<"v1", "dead-letter", Id>>, "DeleteDeadLetter">>
        \/ r = <<"DELETE", <<"v1", "cron", Id>>, "UnregisterCron">>
        \/ r = <<"GET", <<"v1", "workflows", Id>>, "GetWorkflow">>
        \/ r = <<"DELETE", <<"v1", "workflows", Id>>, "CancelWorkflow">>
        \/ r = <<"GET", <<"v1", "queues", Id, "stats">>, "QueueStats">>
        \/ r = <<"POST", <<"v1", "dead-letter", Id, "retry">>, "RetryDeadLetter">>
        \/ r = <<"POST", <<"v1", "queues", Id, "pause">>, "PauseQueue">>
        \/ r = <<"POST", <<"v1", "queues", Id, "resume">>, "ResumeQueue">>
    BY <1>3 DEF Documented, Id
  <2>2. /\ RouteTable[5] = Prefix("GET", <<"v1", "jobs">>, "GetJob")
        /\ RouteTable[6] = Prefix("DELETE", <<"v1", "jobs">>, "CancelJob")
        /\ RouteTable[12] = Prefix("GET", <<"v1", "queues">>, "QueueStats")
        /\ RouteTable[13] = Prefix("POST", <<"v1", "queues">>, "PauseOrResumeQueue")
        /\ RouteTable[15] = Prefix("POST", <<"v1", "dead-letter">>, "RetryDeadLetter")
        /\ RouteTable[16] = Prefix("DELETE", <<"v1", "dead-letter">>, "DeleteDeadLetter")
        /\ RouteTable[19] = Prefix("DELETE", <<"v1", "cron">>, "UnregisterCron")
        /\ RouteTable[21] = Prefix("GET", <<"v1", "workflows">>, "GetWorkflow")
        /\ RouteTable[22] = Prefix("DELETE", <<"v1", "workflows">>, "CancelWorkflow")
    BY DEF RouteTable
  <2>3. /\ Len(q) > 2 /\ q[1] = "v1" /\ q[2] = r[2][2]
        /\ \A i \in DOMAIN r[2] : r[2][i] = Id => i = 3
        /\ r[3] \in TargetInPath
    BY <2>1 DEF Id, TargetInPath
  <2>4. \A n \in {5, 6, 12, 13, 15, 16, 19, 21, 22} : \A k \in 1 .. 25 :
            /\ k < n /\ ~RouteTable[k].exact
            /\ RouteTable[k].action = RouteTable[n].action
            => RouteTable[k].path[2] # RouteTable[n].path[2]
    BY SMTT(60) DEF RouteTable, Exact, Prefix
  <2>5. \A n \in {5, 6, 12, 13, 15, 16, 19, 21, 22} :
            /\ ~RouteTable[n].exact
            /\ RouteTable[n].action = "POST" => RouteTable[n].path[2] \notin {"jobs", "workers"}
    BY <2>2 DEF Prefix
  <2>6. \A n \in {5, 6, 12, 13, 15, 16, 19, 21, 22} :
            RouteTable[n].action = r[1] /\ RouteTable[n].path[2] = q[2]
            => ResolveRoute(r[1], q) = RouteTable[n].method
    <3> TAKE n \in {5, 6, 12, 13, 15, 16, 19, 21, 22}
    <3>1. HAVE RouteTable[n].action = r[1] /\ RouteTable[n].path[2] = q[2]
    <3>2. n \in 1 .. 25
      OBVIOUS
    <3>3. /\ ~RouteTable[n].exact
          /\ RouteTable[n].action = "POST" => q[2] \notin {"jobs", "workers"}
      BY <2>5, <3>1
    <3>5. ASSUME NEW k \in 1 .. 25, k < n, ~RouteTable[k].exact,
                 RouteTable[k].action = RouteTable[n].action
          PROVE  RouteTable[k].path[2] # q[2]
      <4>1. RouteTable[k].path[2] # RouteTable[n].path[2]
        BY <2>4, <3>5
      <4> QED
        BY <4>1, <3>1
    <3>4. ResolveRoute(RouteTable[n].action, q) = RouteTable[n].method
      BY <2>3, <3>1, <3>2, <3>3, <3>5, PrefixRow
    <3> QED
      BY <3>1, <3>4
  <2>7. ResolveRoute(r[1], q) = IF r[3] \in {"PauseQueue", "ResumeQueue"}
                                THEN "PauseOrResumeQueue" ELSE r[3]
    BY <2>1, <2>2, <2>3, <2>6 DEF Prefix
  <2>8. /\ r[3] = "PauseQueue" => Last(q) = "pause"
        /\ r[3] = "ResumeQueue" => Last(q) = "resume"
    BY <2>1 DEF Last, Id
  <2>9. Method(r[1], q) = r[3]
    BY <2>3, <2>7, <2>8 DEF Method, Disambiguated, TargetInPath
  <2> QED
    BY <1>1, <2>3, <2>9 DEF KnownMethods
<1> QED
  BY <1>2, <1>3

-----------------------------------------------------------------------------
(* The invariant *)

\* Path q is this one with its templates resolved.
Fits(path, q) ==
    /\ IsSequence(q) /\ Len(q) = Len(path)
    /\ \A i \in DOMAIN path : path[i] # JobRef => q[i] = path[i]

\* c is the call that step k means.
IsCallOf(c, k) ==
    /\ c.method \in KnownMethods
    /\ Fits(test[k].path, c.path)
    /\ c.method = Method(test[k].action, c.path)
    /\ c.method \in TargetInPath => c.request.id = Str(c.path[3])

Shape ==
    /\ test \in Tests
    /\ pc \in {"next", "sent", "here"}
    /\ IsSequence(results) /\ IsSequence(calls)
    /\ Len(calls) = Len(results) /\ Len(results) <= Len(test)
    /\ failed \subseteq Done

UnderWay ==
    /\ pc = "next" => call = NoCall
    /\ pc # "next" => Len(results) < Len(test) /\ IsCallOf(call, At)
    /\ pc # "here" => answer = NoAnswer
    /\ pc = "here" => answer.code \in Codes

\* Step k is over without a call, and is of no route.
WithoutCall(k) ==
    /\ results[k].code = "" /\ calls[k] = {}
    /\ k \in failed <=> test[k].action # "WAIT"
    /\ \A r \in Documented : ~OfRoute(k, r)

\* Step k made its call, and its result and its verdict are of the answer.
WithCall(k) ==
    /\ results[k].code \in Codes
    /\ \E c \in calls[k] :
          /\ calls[k] = {c} /\ IsCallOf(c, k)
          /\ results[k].status = Status(c.method, results[k].code)
    /\ results[k].ms \in Nat
    /\ k \in failed <=>
          ~AssertionsHold(Asserts(k), results[k].status, results[k].body, results[k].ms)

\* A step that is over was shown job i, or its call, which creates something, timed out.
Explained(i) ==
    \/ \E k \in Answered : results[k].status = 201 /\ Str(i) \in IdsIn(results[k].body)
    \/ \E k \in Answered :
          results[k].status = 504 /\ \E c \in calls[k] : RPCCreatesResource(c.method)

\* The answer that is there will say so.
Pending(i) ==
    /\ pc = "here" /\ RPCCreatesResource(call.method)
    /\ \/ answer.code = "DeadlineExceeded"
       \/ /\ answer.code = "OK"
          /\ Str(i) \in IdsIn(ResponseJSON(call.method, "OK", answer.message))

JobsInv ==
    /\ DOMAIN jobs \subseteq {JobIds[k] : k \in DOMAIN JobIds}
    /\ \A i \in DOMAIN jobs : Explained(i) \/ Pending(i)

Inv ==
    /\ Shape
    /\ UnderWay
    /\ \A k \in Done : WithoutCall(k) \/ WithCall(k)
    /\ JobsInv

-----------------------------------------------------------------------------
(* Facts about the operators of the model *)

\* What Append does to a sequence of whatever it has.
LEMMA Appended ==
    ASSUME NEW s, IsSequence(s), NEW x
    PROVE  /\ IsSequence(Append(s, x)) /\ Len(s) \in Nat /\ Len(Append(s, x)) = Len(s) + 1
           /\ DOMAIN s = 1 .. Len(s) /\ DOMAIN Append(s, x) = 1 .. Len(s) + 1
           /\ Append(s, x)[Len(s) + 1] = x
           /\ \A k \in DOMAIN s : Append(s, x)[k] = s[k]
<1> DEFINE A == {s[k] : k \in DOMAIN s} \cup {x}
           t == Append(s, x)
<1>1. s \in Seq({s[k] : k \in DOMAIN s})
  BY DEF IsSequence
<1>2. s \in Seq(A)
  BY <1>1
<1>3. /\ t \in Seq(A) /\ Len(t) = Len(s) + 1
      /\ t[Len(s) + 1] = x /\ \A k \in DOMAIN s : t[k] = s[k]
  BY <1>2, AppendProperties
<1>4. IsSequence(t)
  BY <1>3 DEF IsSequence
<1> QED
  BY <1>2, <1>3, <1>4

LEMMA ResolvedFits ==
    ASSUME NEW path, IsSequence(path)
    PROVE  Fits(path, ResolvedPath(path))
<1> DEFINE q == ResolvedPath(path)
<1>1. DOMAIN path = 1 .. Len(path) /\ Len(path) \in Nat
  BY DEF IsSequence
<1>2. q = [k \in 1 .. Len(path) |-> Templated(path[k])]
  BY <1>1 DEF ResolvedPath
<1>3. DOMAIN q = 1 .. Len(path) /\ Len(q) = Len(path)
  BY <1>1, <1>2
<1>4. q \in Seq({q[k] : k \in DOMAIN q})
  BY <1>1, <1>2, <1>3
<1>5. \A k \in DOMAIN path : path[k] # JobRef => q[k] = path[k]
  BY <1>1, <1>2 DEF Templated
<1>6. Fits(path, q)
  <2> HIDE DEF q
  <2> QED
    BY <1>3, <1>4, <1>5 DEF Fits, IsSequence
<1> QED
  BY <1>6

\* The table of codes is read through these four facts.
LEMMA NamesOfCodes ==
    /\ "" \notin DOMAIN HTTPStatus /\ "OK" \in DOMAIN HTTPStatus
    /\ "DeadlineExceeded" \in DOMAIN HTTPStatus
BY DEF HTTPStatus

LEMMA StatusOfNames == HTTPStatus["OK"] = 200 /\ HTTPStatus["DeadlineExceeded"] = 504
BY DEF HTTPStatus

LEMMA ErrorsAreOver300 ==
    \A c \in DOMAIN HTTPStatus : c # "OK" => HTTPStatus[c] \in 300 .. 599
BY DEF HTTPStatus

LEMMA StatusIsUnique ==
    \A c, d \in DOMAIN HTTPStatus : HTTPStatus[c] = HTTPStatus[d] => c = d
BY DEF HTTPStatus

LEMMA StatusOf ==
    \A method, code :
        Status(method, code) = IF RPCCreatesResource(method) /\ code = "OK" THEN 201
                               ELSE IF code \in DOMAIN HTTPStatus THEN HTTPStatus[code] ELSE 500
BY DEF Status, GRPCCodeToHTTPStatus

LEMMA NoCodeIsEmpty == "" \notin Codes
BY NamesOfCodes, GrpcStepAssumption

LEMMA LateIs504 == \A method : Status(method, "DeadlineExceeded") = 504
BY NamesOfCodes, StatusOfNames, StatusOf

LEMMA StatusOfOK ==
    \A method : Status(method, "OK") = IF RPCCreatesResource(method) THEN 201 ELSE 200
<1>1. \A method : Status(method, "OK") =
                     IF RPCCreatesResource(method) THEN 201 ELSE HTTPStatus["OK"]
  BY NamesOfCodes, StatusOf
<1> QED
  BY <1>1, StatusOfNames

LEMMA StatusOfErrors ==
    \A method : \A code : code # "OK" => Status(method, code) \in 300 .. 599
<1> SUFFICES ASSUME NEW method, NEW code, code # "OK"
             PROVE  Status(method, code) \in 300 .. 599
  OBVIOUS
<1>1. Status(method, code) = IF code \in DOMAIN HTTPStatus THEN HTTPStatus[code] ELSE 500
  BY StatusOf
<1> QED
  BY <1>1, ErrorsAreOver300

LEMMA CodeIsFound ==
    \A method : \A code \in DOMAIN HTTPStatus :
        HTTPStatusToGRPCCode(Status(method, code)) = code
<1> SUFFICES ASSUME NEW method, NEW code \in DOMAIN HTTPStatus
             PROVE  HTTPStatusToGRPCCode(Status(method, code)) = code
  OBVIOUS
<1>1. CASE RPCCreatesResource(method) /\ code = "OK"
  <2>1. Status(method, code) = 201 /\ \A c \in DOMAIN HTTPStatus : HTTPStatus[c] # 201
    <3>1. Status(method, code) = 201
      BY <1>1, StatusOfOK
    <3>2. \A c \in DOMAIN HTTPStatus : HTTPStatus[c] # 201
      BY StatusOfNames, ErrorsAreOver300
    <3> QED
      BY <3>1, <3>2
  <2> QED
    BY <1>1, <2>1 DEF HTTPStatusToGRPCCode
<1>2. CASE ~(RPCCreatesResource(method) /\ code = "OK")
  <2>1. Status(method, code) = HTTPStatus[code] /\ HTTPStatus[code] # 201
    <3>1. Status(method, code) = HTTPStatus[code]
      BY <1>2, StatusOf
    <3>2. HTTPStatus[code] # 201
      BY StatusOfNames, ErrorsAreOver300
    <3> QED
      BY <3>1, <3>2
  <2>2. (CHOOSE c \in DOMAIN HTTPStatus : HTTPStatus[c] = HTTPStatus[code]) = code
    BY StatusIsUnique
  <2> QED
    BY <2>1, <2>2 DEF HTTPStatusToGRPCCode
<1> QED
  BY <1>1, <1>2

\* What is made of a job shows its id.
LEMMA JobShown ==
    ASSUME NEW id, NEW e
    PROVE  LET j == JobToMap(Job(id, e)) IN Is(j, "object") /\ Get(j, "id") = Str(id)
<1> DEFINE job   == Job(id, e)
           shown == [job EXCEPT !.unique_policy = WithoutStates(@)]
           set   == {g \in DOMAIN job : shown[g] # Null \/ g \in DOMAIN ShownZero}
           fields == [f \in set |-> IF shown[f] = Null THEN ShownZero[f] ELSE shown[f]]
<1>1. "id" \in DOMAIN job /\ job.id = Str(id)
  BY DEF Job
<1>2. shown["id"] = Str(id)
  BY DEF Job
<1>3. Str(id) # Null
  BY DEF Str, Null
<1>4. "id" \in DOMAIN fields /\ fields["id"] = Str(id)
  BY <1>1, <1>2, <1>3
<1>5. JobToMap(job) = Obj(fields)
  BY DEF JobToMap
<1> HIDE DEF fields
<1> QED
  BY <1>4, <1>5 DEF Obj, Is, JsonType, Get, Payload

-----------------------------------------------------------------------------
(* What the steps leave alone *)

LEMMA TestsAreSequences ==
    ASSUME Shape
    PROVE  /\ IsSequence(test) /\ DOMAIN test = 1 .. Len(test) /\ Len(test) \in Nat
           /\ \A k \in DOMAIN test : IsSequence(test[k].path)
           /\ DOMAIN results = 1 .. Len(results) /\ DOMAIN calls = 1 .. Len(results)
           /\ Len(results) \in Nat
<1>1. IsSequence(test) /\ \A k \in DOMAIN test : IsSequence(test[k].path)
  BY GrpcStepAssumption DEF Shape
<1>2. IsSequence(results) /\ IsSequence(calls) /\ Len(calls) = Len(results)
  BY DEF Shape
<1>3. ASSUME NEW s, IsSequence(s)
      PROVE  DOMAIN s = 1 .. Len(s) /\ Len(s) \in Nat
  BY <1>3 DEF IsSequence
<1> QED
  BY <1>1, <1>2, <1>3

\* Steps that are over stay as they are while the next one is under way.
LEMMA StepsKept ==
    ASSUME UNCHANGED <<test, calls, results, failed>>
    PROVE  /\ Done' = Done /\ At' = At
           /\ \A k : WithoutCall(k)' = WithoutCall(k) /\ WithCall(k)' = WithCall(k)
           /\ \A i : Explained(i)' = Explained(i)
           /\ \A c, k : IsCallOf(c, k)' = IsCallOf(c, k)
<1>1. Done' = Done /\ At' = At /\ Answered' = Answered
  BY DEF Done, At, Answered
<1>2. ASSUME NEW k
      PROVE  WithoutCall(k)' = WithoutCall(k) /\ WithCall(k)' = WithCall(k)
  BY DEF WithoutCall, WithCall, OfRoute, IsCallOf, Asserts
<1>3. ASSUME NEW i
      PROVE  Explained(i)' = Explained(i)
  BY <1>1 DEF Explained
<1>4. ASSUME NEW c, NEW k
      PROVE  IsCallOf(c, k)' = IsCallOf(c, k)
  BY DEF IsCallOf
<1> QED
  BY <1>1, <1>2, <1>3, <1>4

\* They stay as they are when the next one is over as well.
LEMMA StepsExtended ==
    ASSUME Shape, Len(results) < Len(test), NEW result, NEW made,
           results' = Append(results, result), calls' = Append(calls, made),
           failed' = failed \/ failed' = failed \cup {At}, UNCHANGED test
    PROVE  /\ (Len(calls) = Len(results) /\ Len(results) <= Len(test))'
           /\ (test \in Tests /\ IsSequence(results) /\ IsSequence(calls))'
           /\ (failed \subseteq Done)' /\ At \notin failed
           /\ Done' = Done \cup {At} /\ At \notin Done /\ At \in DOMAIN test
           /\ results'[At] = result /\ calls'[At] = made
           /\ \A k \in Done : /\ WithoutCall(k)' = WithoutCall(k)
                              /\ WithCall(k)' = WithCall(k)
           /\ \A i : Explained(i) => Explained(i)'
<1>1. /\ IsSequence(results) /\ IsSequence(calls) /\ Len(calls) = Len(results)
      /\ failed \subseteq Done /\ test \in Tests
  BY DEF Shape
<1>2. DOMAIN test = 1 .. Len(test) /\ Len(test) \in Nat
  BY TestsAreSequences
<1>3. /\ IsSequence(results') /\ Len(results) \in Nat /\ Len(results') = Len(results) + 1
      /\ DOMAIN results = 1 .. Len(results) /\ DOMAIN results' = 1 .. Len(results) + 1
      /\ results'[Len(results) + 1] = result
      /\ \A k \in DOMAIN results : results'[k] = results[k]
  BY <1>1, Appended
<1>4. /\ IsSequence(calls') /\ Len(calls') = Len(calls) + 1
      /\ DOMAIN calls = 1 .. Len(calls)
      /\ calls'[Len(calls) + 1] = made
      /\ \A k \in DOMAIN calls : calls'[k] = calls[k]
  BY <1>1, Appended
<1>5. Done' = Done \cup {At} /\ At \notin Done /\ At \in DOMAIN test
  BY <1>2, <1>3 DEF Done, At
<1>6. /\ (Len(calls) = Len(results) /\ Len(results) <= Len(test))'
      /\ (test \in Tests /\ IsSequence(results) /\ IsSequence(calls))'
  BY <1>1, <1>2, <1>3, <1>4
<1>7. (failed \subseteq Done)' /\ At \notin failed
  BY <1>1, <1>5
<1>8. results'[At] = result /\ calls'[At] = made
  BY <1>1, <1>3, <1>4 DEF At
<1>9. ASSUME NEW k \in Done
      PROVE  /\ results'[k] = results[k] /\ calls'[k] = calls[k]
             /\ k \in failed' <=> k \in failed
  BY <1>1, <1>3, <1>4, <1>5 DEF Done
<1>10. ASSUME NEW k \in Done
       PROVE  WithoutCall(k)' = WithoutCall(k) /\ WithCall(k)' = WithCall(k)
  BY <1>9 DEF WithoutCall, WithCall, OfRoute, IsCallOf, Asserts
<1>11. ASSUME NEW i, Explained(i)
       PROVE  Explained(i)'
  <2>1. \A k \in Answered : k \in Answered' /\ results'[k] = results[k] /\ calls'[k] = calls[k]
    BY <1>5, <1>9 DEF Answered
  <2>2. CASE \E k \in Answered : results[k].status = 201 /\ Str(i) \in IdsIn(results[k].body)
    <3>1. PICK k \in Answered : results[k].status = 201 /\ Str(i) \in IdsIn(results[k].body)
      BY <2>2
    <3>2. k \in Answered' /\ results'[k].status = 201 /\ Str(i) \in IdsIn(results'[k].body)
      BY <2>1, <3>1
    <3> QED
      BY <3>2 DEF Explained
  <2>3. CASE \E k \in Answered : /\ results[k].status = 504
                                /\ \E c \in calls[k] : RPCCreatesResource(c.method)
    <3>1. PICK k \in Answered : /\ results[k].status = 504
                               /\ \E c \in calls[k] : RPCCreatesResource(c.method)
      BY <2>3
    <3>2. /\ k \in Answered' /\ results'[k].status = 504
          /\ \E c \in calls'[k] : RPCCreatesResource(c.method)
      BY <2>1, <3>1
    <3> QED
      BY <3>2 DEF Explained, RPCCreatesResource
  <2> QED
    BY <1>11, <2>2, <2>3 DEF Explained
<1> QED
  BY <1>5, <1>6, <1>7, <1>8, <1>10, <1>11

LEMMA InvInitially == Init => Inv
<1> SUFFICES ASSUME Init PROVE Inv
  OBVIOUS
<1>1. DOMAIN results = {} /\ DOMAIN jobs = {} /\ Len(results) = 0 /\ Len(calls) = 0
  BY DEF Init
<1>2. IsSequence(results) /\ IsSequence(calls)
  BY DEF Init, IsSequence
<1>3. Shape
  <2>1. Len(test) \in Nat
    BY GrpcStepAssumption DEF Init, IsSequence
  <2> QED
    BY <1>1, <1>2, <2>1 DEF Init, Shape, Done
<1>4. UnderWay
  BY DEF Init, UnderWay
<1>5. JobsInv
  BY <1>1 DEF JobsInv
<1> QED
  BY <1>1, <1>3, <1>4, <1>5 DEF Inv, Done

-----------------------------------------------------------------------------
(* The steps keep the invariant *)

\* A step of a documented route has a method, whatever its templates stand for.
LEMMA RouteIsCalled ==
    ASSUME Shape, NEW k \in DOMAIN test, NEW r \in Documented, OfRoute(k, r),
           NEW q, Fits(test[k].path, q)
    PROVE  /\ Method(test[k].action, q) = r[3] /\ r[3] \in KnownMethods
           /\ test[k].action # "WAIT"
           /\ \A i \in DOMAIN r[2] : r[2][i] = Id => i = 3 /\ r[3] \in TargetInPath
<1> DEFINE path == test[k].path
<1>1. DOMAIN path = 1 .. Len(path)
  BY TestsAreSequences DEF IsSequence
<1>2. DOMAIN r[2] = 1 .. Len(r[2])
  BY DEF Documented
<1>3. /\ r[1] = test[k].action /\ Len(r[2]) = Len(path)
      /\ \A i \in DOMAIN r[2] : r[2][i] \in {Id, path[i]}
  BY DEF OfRoute
<1>4. IsSequence(q) /\ Len(q) = Len(r[2])
  BY <1>3 DEF Fits
<1>5. \A i \in DOMAIN r[2] : r[2][i] \in {Id, q[i]}
  BY <1>1, <1>2, <1>3, TemplateAssumption DEF Fits
<1> QED
  BY <1>3, <1>4, <1>5, DocumentedCall

\* A step that is over without a call, because it is a WAIT or has no method.
LEMMA OverKeepsInv ==
    ASSUME Inv, NEW fails \in BOOLEAN, Over(fails), pc = "next", At \in DOMAIN test,
           fails <=> Current.action # "WAIT",
           \A r \in Documented : ~OfRoute(At, r)
    PROVE  Inv'
<1>1. Shape /\ UnderWay /\ JobsInv
  BY DEF Inv
<1>2. /\ results' = Append(results, Silent) /\ calls' = Append(calls, {})
      /\ failed' = IF fails THEN failed \cup {At} ELSE failed
      /\ UNCHANGED <<test, pc, call, answer, jobs>>
  BY DEF Over
<1>3. Len(results) < Len(test)
  BY <1>1, TestsAreSequences DEF At
<1>4. /\ (Len(calls) = Len(results) /\ Len(results) <= Len(test))'
      /\ (test \in Tests /\ IsSequence(results) /\ IsSequence(calls))'
      /\ (failed \subseteq Done)' /\ At \notin failed
      /\ Done' = Done \cup {At} /\ At \notin Done /\ At \in DOMAIN test
      /\ results'[At] = Silent /\ calls'[At] = {}
      /\ \A k \in Done : WithoutCall(k)' = WithoutCall(k) /\ WithCall(k)' = WithCall(k)
      /\ \A i : Explained(i) => Explained(i)'
  BY <1>1, <1>2, <1>3, StepsExtended
<1>5. Shape'
  BY <1>1, <1>2, <1>4 DEF Shape
<1>6. UnderWay'
  BY <1>1, <1>2 DEF UnderWay
<1>7. \A k \in Done' : WithoutCall(k)' \/ WithCall(k)'
  <2>1. ASSUME NEW k, k = At
        PROVE  WithoutCall(k)'
    <3>1. results'[k].code = "" /\ calls'[k] = {}
      <4>1. Silent.code = ""
        BY DEF Silent
      <4>2. results'[k] = Silent /\ calls'[k] = {}
        BY <1>4, <2>1, Zenon
      <4> QED
        BY <4>1, <4>2
    <3>2. k \in failed' <=> test'[k].action # "WAIT"
      BY <1>2, <1>4, <2>1 DEF Current
    <3>3. \A r \in Documented : ~OfRoute(k, r)'
      BY <1>2, <2>1 DEF OfRoute
    <3> QED
      BY <3>1, <3>2, <3>3 DEF WithoutCall
  <2>2. \A k \in Done : WithoutCall(k)' \/ WithCall(k)'
    BY <1>4 DEF Inv
  <2> QED
    BY <1>4, <2>1, <2>2
<1>8. JobsInv'
  <2>1. \A i : Pending(i) => FALSE
    BY DEF Pending
  <2> QED
    BY <1>1, <1>2, <1>4, <2>1 DEF JobsInv
<1> QED
  BY <1>5, <1>6, <1>7, <1>8 DEF Inv

LEMMA WaitKeepsInv == Inv /\ Wait => Inv'
<1> SUFFICES ASSUME Inv, Wait PROVE Inv'
  OBVIOUS
<1>1. \A r \in Documented : ~OfRoute(At, r)
  <2>1. \A r \in Documented : r[1] # "WAIT"
    BY DEF Documented
  <2> QED
    BY <2>1 DEF Wait, Current, OfRoute
<1> QED
  BY <1>1, OverKeepsInv DEF Wait

LEMMA NoRPCKeepsInv == Inv /\ NoRPC => Inv'
<1> SUFFICES ASSUME Inv, NoRPC PROVE Inv'
  OBVIOUS
<1>1. Shape /\ IsSequence(test[At].path) /\ At \in DOMAIN test
  BY TestsAreSequences DEF Inv, NoRPC
<1>2. Fits(test[At].path, ResolvedPath(test[At].path))
  BY <1>1, ResolvedFits
<1>3. \A r \in Documented : ~OfRoute(At, r)
  BY <1>1, <1>2, RouteIsCalled DEF NoRPC, Current
<1> QED
  BY <1>3, OverKeepsInv DEF NoRPC

LEMMA RequestNamesTarget ==
    ASSUME NEW method \in TargetInPath, NEW path, NEW body
    PROVE  Request(method, path, body).id = Str(path[3])
<1>1. method \notin {"Enqueue", "EnqueueBatch", "Fetch", "Ack", "Nack", "Heartbeat",
                    "ListDeadLetter", "RegisterCron", "CreateWorkflow"}
  BY DEF TargetInPath
<1>2. Request(method, path, body) = [id |-> Str(path[3])]
  BY <1>1 DEF Request
<1> QED
  BY <1>2

LEMMA SendKeepsInv == Inv /\ Send => Inv'
<1> SUFFICES ASSUME Inv, Send PROVE Inv'
  OBVIOUS
<1> DEFINE path   == ResolvedPath(Current.path)
           method == Method(Current.action, path)
<1>1. /\ Shape /\ UnderWay /\ JobsInv
      /\ pc = "next" /\ At \in DOMAIN test /\ IsSequence(test[At].path)
  BY TestsAreSequences DEF Inv, Send
<1>2. /\ method \in KnownMethods
      /\ call' = [method  |-> method, path |-> path,
                  request |-> Request(method, path, ResolvedBody(Current.body))]
      /\ pc' = "sent"
      /\ UNCHANGED <<test, answer, jobs, calls, results, failed>>
  BY DEF Send
<1>3. Done' = Done /\ At' = At
  BY <1>2, StepsKept
<1>4. Len(results) < Len(test)
  BY <1>1, TestsAreSequences DEF At
<1>5. IsCallOf(call', At)
  <2>1. Fits(test[At].path, path)
    BY <1>1, ResolvedFits DEF Current
  <2>2. method \in TargetInPath =>
            Request(method, path, ResolvedBody(Current.body)).id = Str(path[3])
    BY RequestNamesTarget
  <2> HIDE DEF path
  <2> QED
    BY <1>2, <2>1, <2>2 DEF IsCallOf, Current
<1>6. Shape'
  BY <1>1, <1>2, <1>3 DEF Shape
<1>7. UnderWay'
  <2>1. IsCallOf(call, At)'
    BY <1>2, <1>3, <1>5 DEF IsCallOf
  <2>2. (pc # "here" => answer = NoAnswer)'
    BY <1>1, <1>2 DEF UnderWay, NoAnswer
  <2> QED
    BY <1>2, <1>4, <2>1, <2>2 DEF UnderWay
<1>8. \A k \in Done' : WithoutCall(k)' \/ WithCall(k)'
  BY <1>2, StepsKept DEF Inv
<1>9. JobsInv'
  <2>1. \A i : Pending(i) => FALSE
    BY <1>1 DEF Pending
  <2>2. \A i : Explained(i)' = Explained(i)
    BY <1>2, StepsKept
  <2> QED
    BY <1>1, <1>2, <2>1, <2>2 DEF JobsInv
<1> QED
  BY <1>6, <1>7, <1>8, <1>9 DEF Inv

\* A job that is put into the store is made of an entry, under its id.
LEMMA Stored ==
    ASSUME NEW entries, Store(Added(entries))
    PROVE  \A i \in DOMAIN jobs' \ DOMAIN jobs :
              /\ i \in {JobIds[k] : k \in DOMAIN JobIds}
              /\ \E k \in DOMAIN Added(entries) : Added(entries)[k] = Job(i, entries[k])
<1> DEFINE new == Added(entries)
           n   == Cardinality(DOMAIN jobs)
<1>1. \A k \in DOMAIN new : /\ new[k] = Job(JobIds[n + k], entries[k])
                            /\ Payload(new[k].id) = JobIds[n + k]
  BY DEF Added, Job, Str, Payload
<1>2. /\ \A k \in DOMAIN new : n + k \in DOMAIN JobIds
      /\ DOMAIN jobs' = DOMAIN jobs \cup {Payload(new[k].id) : k \in DOMAIN new}
  BY DEF Store
<1> HIDE DEF new, n
<1>3. SUFFICES ASSUME NEW i \in DOMAIN jobs' \ DOMAIN jobs
               PROVE  /\ i \in {JobIds[k] : k \in DOMAIN JobIds}
                      /\ \E k \in DOMAIN new : new[k] = Job(i, entries[k])
  BY DEF new
<1>4. PICK k \in DOMAIN new : i = Payload(new[k].id)
  BY <1>2
<1>5. i = JobIds[n + k] /\ new[k] = Job(i, entries[k])
  BY <1>1, <1>4
<1> QED
  BY <1>2, <1>5

\* An answer that is one job, or jobs, shows their ids.
LEMMA OneIsShown ==
    ASSUME NEW i, NEW e
    PROVE  Str(i) \in IdsIn(ResponseJSON("Enqueue", "OK", Job(i, e)))
<1> DEFINE fields == [job |-> JobToMap(Job(i, e))]
           body   == Obj(fields)
<1>1. ResponseJSON("Enqueue", "OK", Job(i, e)) = body
  <2>1. "Enqueue" \in OneJob /\ "Enqueue" \notin ManyJobs /\ "Enqueue" \notin Nothing
    BY DEF OneJob, ManyJobs, Nothing
  <2> QED
    BY <2>1 DEF ResponseJSON
<1>2. Get(body, "jobs") = Null /\ Get(body, "job") = JobToMap(Job(i, e))
  BY DEF Get, Payload, Obj
<1>3. ~Is(Null, "array")
  BY DEF Is, JsonType, Null
<1>4. JobsIn(body) = {JobToMap(Job(i, e))}
  BY <1>2, <1>3 DEF JobsIn
<1>5. Is(JobToMap(Job(i, e)), "object") /\ Get(JobToMap(Job(i, e)), "id") = Str(i)
  BY JobShown
<1> HIDE DEF body
<1> QED
  BY <1>1, <1>4, <1>5 DEF IdsIn

LEMMA ManyAreShown ==
    ASSUME NEW message, NEW k \in DOMAIN message, NEW i, NEW e, message[k] = Job(i, e)
    PROVE  Str(i) \in IdsIn(ResponseJSON("EnqueueBatch", "OK", message))
<1> DEFINE list == [n \in DOMAIN message |-> JobToMap(message[n])]
           body == Obj([jobs |-> Arr(list)])
<1>1. ResponseJSON("EnqueueBatch", "OK", message) = body
  <2>1. /\ "EnqueueBatch" \in ManyJobs /\ "EnqueueBatch" \notin OneJob
        /\ "EnqueueBatch" \notin Nothing
    BY DEF OneJob, ManyJobs, Nothing
  <2> QED
    BY <2>1 DEF ResponseJSON
<1>2. Get(body, "jobs") = Arr(list)
  BY DEF Get, Payload, Obj
<1>3. Is(Arr(list), "array") /\ Payload(Arr(list)) = list
  BY DEF Is, JsonType, Arr, Payload
<1>4. JobToMap(message[k]) \in JobsIn(body)
  BY <1>2, <1>3 DEF JobsIn
<1>5. Is(JobToMap(Job(i, e)), "object") /\ Get(JobToMap(Job(i, e)), "id") = Str(i)
  BY JobShown
<1> HIDE DEF body, list
<1> QED
  BY <1>1, <1>4, <1>5 DEF IdsIn

\* An answer that comes, or is replaced by DeadlineExceeded.
LEMMA AnswerKeepsInv ==
    ASSUME Inv, pc # "next", pc' = "here", answer'.code \in Codes,
           UNCHANGED <<test, call, calls, results, failed>>,
           DOMAIN jobs' \subseteq {JobIds[k] : k \in DOMAIN JobIds},
           \A i \in DOMAIN jobs' : (i \in DOMAIN jobs /\ Explained(i)) \/ Pending(i)'
    PROVE  Inv'
<1>1. Shape /\ UnderWay
  BY DEF Inv
<1>2. /\ Done' = Done /\ At' = At
      /\ \A k : WithoutCall(k)' = WithoutCall(k) /\ WithCall(k)' = WithCall(k)
      /\ \A i : Explained(i)' = Explained(i)
      /\ \A c, k : IsCallOf(c, k)' = IsCallOf(c, k)
  BY StepsKept
<1>3. Shape'
  BY <1>1, <1>2 DEF Shape
<1>4. UnderWay'
  <2>1. IsCallOf(call, At)
    BY <1>1 DEF UnderWay
  <2>2. IsCallOf(call, At)'
    BY <1>2, <2>1 DEF IsCallOf
  <2> QED
    BY <1>1, <2>2 DEF UnderWay
<1>5. \A k \in Done' : WithoutCall(k)' \/ WithCall(k)'
  BY <1>2 DEF Inv
<1>6. JobsInv'
  BY <1>2 DEF JobsInv
<1> QED
  BY <1>3, <1>4, <1>5, <1>6 DEF Inv

LEMMA ServeKeepsInv == Inv /\ Serve => Inv'
<1> SUFFICES ASSUME Inv, Serve PROVE Inv'
  OBVIOUS
<1>1. /\ pc = "sent" /\ "OK" \in Codes /\ pc' = "here"
      /\ UNCHANGED <<test, call, calls, results, failed>>
      /\ Enqueued \/ EnqueuedBatch \/ Got \/ Cancelled \/ SomethingElse
  BY DEF Serve
<1>2. answer'.code = "OK"
  BY <1>1 DEF Enqueued, EnqueuedBatch, Got, Cancelled, SomethingElse, Answers
<1>3. /\ DOMAIN jobs \subseteq {JobIds[k] : k \in DOMAIN JobIds}
      /\ \A i \in DOMAIN jobs : Explained(i)
  BY <1>1 DEF Inv, JobsInv, Pending
<1>4. /\ DOMAIN jobs' \subseteq {JobIds[k] : k \in DOMAIN JobIds}
      /\ \A i \in DOMAIN jobs' : i \in DOMAIN jobs \/ Pending(i)'
  <2>1. ASSUME Enqueued, NEW i \in DOMAIN jobs' \ DOMAIN jobs
        PROVE  i \in {JobIds[k] : k \in DOMAIN JobIds} /\ Pending(i)'
    <3> DEFINE entries == <<call.request.job>>
    <3>1. Store(Added(entries)) /\ answer'.message = Added(entries)[1] /\ call.method = "Enqueue"
      BY <2>1 DEF Enqueued, Answers
    <3>2. /\ i \in {JobIds[k] : k \in DOMAIN JobIds}
          /\ \E k \in DOMAIN Added(entries) : Added(entries)[k] = Job(i, entries[k])
      BY <2>1, <3>1, Stored
    <3>3. DOMAIN Added(entries) = {1}
      BY DEF Added
    <3>4. answer'.message = Job(i, entries[1])
      BY <3>1, <3>2, <3>3
    <3>5. Str(i) \in IdsIn(ResponseJSON("Enqueue", "OK", answer'.message))
      BY <3>4, OneIsShown
    <3>6. call'.method = "Enqueue" /\ RPCCreatesResource("Enqueue")
      BY <1>1, <3>1 DEF RPCCreatesResource
    <3> QED
      BY <1>1, <1>2, <3>2, <3>5, <3>6 DEF Pending
  <2>2. ASSUME EnqueuedBatch, NEW i \in DOMAIN jobs' \ DOMAIN jobs
        PROVE  i \in {JobIds[k] : k \in DOMAIN JobIds} /\ Pending(i)'
    <3> DEFINE entries == call.request.jobs
    <3>1. Store(Added(entries)) /\ answer'.message = Added(entries) /\ call.method = "EnqueueBatch"
      BY <2>2 DEF EnqueuedBatch, Answers
    <3>2. /\ i \in {JobIds[k] : k \in DOMAIN JobIds}
          /\ \E k \in DOMAIN Added(entries) : Added(entries)[k] = Job(i, entries[k])
      BY <2>2, <3>1, Stored
    <3>3. Str(i) \in IdsIn(ResponseJSON("EnqueueBatch", "OK", answer'.message))
      BY <3>1, <3>2, ManyAreShown
    <3>4. call'.method = "EnqueueBatch" /\ RPCCreatesResource("EnqueueBatch")
      BY <1>1, <3>1 DEF RPCCreatesResource
    <3> QED
      BY <1>1, <1>2, <3>2, <3>3, <3>4 DEF Pending
  <2>3. ASSUME Got \/ Cancelled \/ SomethingElse
        PROVE  DOMAIN jobs' = DOMAIN jobs
    BY <2>3 DEF Got, Cancelled, SomethingElse
  <2> QED
    BY <1>1, <1>3, <2>1, <2>2, <2>3
<1> QED
  BY <1>1, <1>2, <1>3, <1>4, AnswerKeepsInv

LEMMA RefuseKeepsInv == Inv /\ Refuse => Inv'
<1> SUFFICES ASSUME Inv, Refuse PROVE Inv'
  OBVIOUS
<1>1. /\ pc = "sent" /\ pc' = "here" /\ answer'.code \in Codes
      /\ UNCHANGED <<test, call, jobs, calls, results, failed>>
  BY DEF Refuse, NoAnswer
<1>2. /\ DOMAIN jobs' \subseteq {JobIds[k] : k \in DOMAIN JobIds}
      /\ \A i \in DOMAIN jobs' : i \in DOMAIN jobs /\ Explained(i)
  BY <1>1 DEF Inv, JobsInv, Pending
<1> QED
  BY <1>1, <1>2, AnswerKeepsInv

LEMMA TimeOutKeepsInv == Inv /\ TimeOut => Inv'
<1> SUFFICES ASSUME Inv, TimeOut PROVE Inv'
  OBVIOUS
<1>1. /\ pc = "here" /\ pc' = "here" /\ "DeadlineExceeded" \in Codes
      /\ answer'.code = "DeadlineExceeded"
      /\ UNCHANGED <<test, call, jobs, calls, results, failed>>
  BY DEF TimeOut, NoAnswer
<1>2. DOMAIN jobs' \subseteq {JobIds[k] : k \in DOMAIN JobIds}
  BY <1>1 DEF Inv, JobsInv
<1>3. \A i \in DOMAIN jobs' : (i \in DOMAIN jobs /\ Explained(i)) \/ Pending(i)'
  BY <1>1 DEF Inv, JobsInv, Pending, RPCCreatesResource
<1> QED
  BY <1>1, <1>2, <1>3, AnswerKeepsInv

LEMMA ReceiveKeepsInv == Inv /\ Receive => Inv'
<1> SUFFICES ASSUME Inv, Receive PROVE Inv'
  OBVIOUS
<1> DEFINE status == Status(call.method, answer.code)
           body   == ResponseJSON(call.method, answer.code, answer.message)
<1>1. /\ Shape /\ UnderWay /\ JobsInv /\ pc = "here" /\ IsCallOf(call, At)
      /\ answer.code \in Codes /\ answer.code # ""
      /\ Len(results) < Len(test)
  BY NoCodeIsEmpty DEF Inv, Receive, UnderWay
<1>2. PICK ms \in Durations(call.method) :
         /\ results' = Append(results, [status |-> status, body |-> body, ms |-> ms,
                                        code |-> answer.code])
         /\ failed' = IF AssertionsHold(Current.asserts, status, body, ms)
                      THEN failed ELSE failed \cup {At}
  BY DEF Receive
<1>3. /\ calls' = Append(calls, {call})
      /\ pc' = "next" /\ call' = NoCall /\ answer' = NoAnswer
      /\ UNCHANGED <<test, jobs>>
  BY DEF Receive
<1> DEFINE result == [status |-> status, body |-> body, ms |-> ms, code |-> answer.code]
           holds  == AssertionsHold(Current.asserts, status, body, ms)
<1>4. ms \in Nat
  BY <1>1, GrpcStepAssumption DEF IsCallOf
<1>5. failed' = failed \/ failed' = failed \cup {At}
  BY <1>2
<1>6. /\ (Len(calls) = Len(results) /\ Len(results) <= Len(test))'
      /\ (test \in Tests /\ IsSequence(results) /\ IsSequence(calls))'
      /\ (failed \subseteq Done)' /\ At \notin failed
      /\ Done' = Done \cup {At} /\ At \notin Done /\ At \in DOMAIN test
      /\ results'[At] = result /\ calls'[At] = {call}
      /\ \A k \in Done : WithoutCall(k)' = WithoutCall(k) /\ WithCall(k)' = WithCall(k)
      /\ \A i : Explained(i) => Explained(i)'
  BY <1>1, <1>2, <1>3, <1>5, StepsExtended
<1>7. Shape'
  BY <1>3, <1>6 DEF Shape
<1>8. UnderWay'
  BY <1>3 DEF UnderWay, NoCall, NoAnswer
<1>9. At \in failed' <=> ~holds
  BY <1>2, <1>6
<1>10. /\ results'[At].code = answer.code /\ results'[At].status = status
       /\ results'[At].body = body /\ results'[At].ms = ms
  BY <1>6
<1> HIDE DEF status, body, result
<1>11. \A k \in Done' : WithoutCall(k)' \/ WithCall(k)'
  <2>1. ASSUME NEW k, k = At
        PROVE  WithCall(k)'
    <3>1. results'[k].code \in Codes /\ results'[k].ms \in Nat
      BY <1>1, <1>4, <1>10, <2>1
    <3>2. /\ calls'[k] = {call} /\ IsCallOf(call, k)
          /\ results'[k].status = Status(call.method, results'[k].code)
      BY <1>1, <1>6, <1>10, <2>1 DEF status
    <3>3. PICK c : c = call
      OBVIOUS
    <3>4. IsCallOf(c, k)'
      BY <1>3, <3>2, <3>3 DEF IsCallOf
    <3>5. (\E d \in calls[k] : /\ calls[k] = {d} /\ IsCallOf(d, k)
                               /\ results[k].status = Status(d.method, results[k].code))'
      BY <3>2, <3>3, <3>4
    <3>6. k \in failed' <=> ~AssertionsHold(Asserts(k)', results'[k].status,
                                            results'[k].body, results'[k].ms)
      <4>1. Asserts(k)' = Current.asserts
        BY <1>3, <2>1 DEF Asserts, Current
      <4> QED
        BY <1>9, <1>10, <2>1, <4>1
    <3> QED
      BY <3>1, <3>5, <3>6 DEF WithCall
  <2>2. \A k \in Done : WithoutCall(k)' \/ WithCall(k)'
    BY <1>6 DEF Inv
  <2> QED
    BY <1>6, <2>1, <2>2
<1>12. JobsInv'
  <2>1. ASSUME NEW i, Pending(i)
        PROVE  Explained(i)'
    <3>1. At \in Answered'
      BY <1>1, <1>6, <1>10 DEF Answered
    <3>2. RPCCreatesResource(call.method)
      BY <2>1 DEF Pending
    <3>3. CASE answer.code = "DeadlineExceeded"
      <4>1. results'[At].status = 504
        <5>1. Status(call.method, answer.code) = 504
          BY <3>3, LateIs504
        <5> QED
          BY <1>10, <5>1 DEF status
      <4>2. \E c \in calls'[At] : RPCCreatesResource(c.method)
        BY <1>6, <3>2
      <4> QED
        BY <3>1, <4>1, <4>2 DEF Explained, RPCCreatesResource
    <3>4. CASE answer.code = "OK" /\ Str(i) \in IdsIn(ResponseJSON(call.method, "OK", answer.message))
      <4>1. results'[At].status = 201
        <5>1. Status(call.method, answer.code) = 201
          BY <3>2, <3>4, StatusOfOK
        <5> QED
          BY <1>10, <5>1 DEF status
      <4>2. Str(i) \in IdsIn(results'[At].body)
        BY <1>10, <3>4 DEF body
      <4> QED
        BY <3>1, <4>1, <4>2 DEF Explained
    <3> QED
      BY <2>1, <3>3, <3>4 DEF Pending
  <2> QED
    BY <1>1, <1>3, <1>6, <2>1 DEF JobsInv
<1> QED
  BY <1>7, <1>8, <1>11, <1>12 DEF Inv

LEMMA StutterKeepsInv == Inv /\ UNCHANGED vars => Inv'
<1> SUFFICES ASSUME Inv, UNCHANGED vars PROVE Inv'
  OBVIOUS
<1>1. UNCHANGED <<test, pc, call, answer, jobs, calls, results, failed>>
  BY DEF vars
<1>2. /\ Done' = Done /\ At' = At
      /\ \A k : WithoutCall(k)' = WithoutCall(k) /\ WithCall(k)' = WithCall(k)
      /\ \A i : Explained(i)' = Explained(i)
      /\ \A c, k : IsCallOf(c, k)' = IsCallOf(c, k)
  BY <1>1, StepsKept
<1>3. Shape'
  BY <1>1, <1>2 DEF Inv, Shape
<1>4. UnderWay'
  BY <1>1 DEF Inv, UnderWay, IsCallOf, At
<1>5. \A i : Pending(i)' = Pending(i)
  BY <1>1 DEF Pending
<1>6. JobsInv'
  BY <1>1, <1>2, <1>5 DEF Inv, JobsInv
<1> QED
  BY <1>2, <1>3, <1>4, <1>6 DEF Inv

LEMMA InvAlways == Spec => []Inv
<1>1. Init => Inv
  BY InvInitially
<1>2. Inv /\ [Next]_vars => Inv'
  BY WaitKeepsInv, NoRPCKeepsInv, SendKeepsInv, ServeKeepsInv, RefuseKeepsInv,
     TimeOutKeepsInv, ReceiveKeepsInv, StutterKeepsInv DEF Next, Finished
<1> QED
  BY <1>1, <1>2, PTL DEF Spec

-----------------------------------------------------------------------------
(* Jobs that are read back: the invariant *)

JobFields == {"id", "state", "attempt", "type", "args", "queue", "priority", "max_attempts",
              "tags", "trace_id", "scheduled_at", "meta", "retry_policy", "unique_policy"}

\* A job has the options a body gives to it.
Carries(job, body) ==
    \A f \in DOMAIN Options :
        Get(body, f) # Str(JobRef) => \A v \in Given(body, f) : job[f] = v

\* What is shown is this job, with its options.
ShowsJob(shown, job) ==
    /\ Get(shown, "id") = job.id
    /\ \A f \in DOMAIN Options : job[f] # Null => Get(shown, f) = job[f]

\* A job that is shown is one of these, or has none of the ids.
ShowsOneOf(store, shown) ==
    \/ \E i \in DOMAIN store : ShowsJob(shown, store[i])
    \/ \A k \in DOMAIN JobIds : Get(shown, "id") # Str(JobIds[k])

\* What a method is answered shows jobs of the store, and the one it created has the
\* options it was given.
ShownBy(store, given, method, body) ==
    /\ Is(Get(body, "job"), "object") => ShowsOneOf(store, Get(body, "job"))
    /\ method = "Enqueue" /\ Is(given, "object") =>
          \E i \in DOMAIN store :
              Get(Get(body, "job"), "id") = Str(i) /\ Carries(store[i], given)

\* The jobs have the first of the ids, and keep them in their fields.
StoreInv ==
    /\ IsFiniteSet(DOMAIN jobs) /\ Cardinality(DOMAIN jobs) \in 0 .. Len(JobIds)
    /\ DOMAIN jobs = {JobIds[k] : k \in 1 .. Cardinality(DOMAIN jobs)}
    /\ \A i \in DOMAIN jobs : jobs[i].id = Str(i) /\ DOMAIN jobs[i] = JobFields

ReadInv ==
    /\ StoreInv
    /\ pc # "next" =>
          call.request = Request(call.method, call.path, ResolvedBody(test[At].body))
    /\ pc = "here" /\ answer.code = "OK" =>
          ShownBy(jobs, test[At].body, call.method,
                  ResponseJSON(call.method, "OK", answer.message))
    /\ \A k \in Done : results[k].code = "OK" =>
          \A c \in calls[k] : ShownBy(jobs, test[k].body, c.method, results[k].body)

-----------------------------------------------------------------------------
(* Options, from a body to a job and back *)

\* All of a sequence is its part at all its places.
LEMMA PartOfAll ==
    ASSUME NEW s, IsSequence(s)
    PROVE  PartOf(s, DOMAIN s) = s
<1>1. DOMAIN s = 1 .. Len(s) /\ Len(s) \in Nat /\ s = [k \in 1 .. Len(s) |-> s[k]]
  BY DEF IsSequence
<1>2. Cardinality(1 .. Len(s)) = Len(s)
  BY <1>1, FS_Interval
<1>3. \A k \in 1 .. Len(s) : Rank(1 .. Len(s), k) = k
  <2> TAKE k \in 1 .. Len(s)
  <2>1. {j \in 1 .. Len(s) : j <= k} = 1 .. k
    BY <1>1
  <2>2. Cardinality(1 .. k) = k
    BY <1>1, FS_Interval
  <2> QED
    BY <2>1, <2>2 DEF Rank
<1>4. \A n \in 1 .. Len(s) : Place(1 .. Len(s), n) = n
  <2> TAKE n \in 1 .. Len(s)
  <2>1. {j \in 1 .. Len(s) : Rank(1 .. Len(s), j) = n} = {n}
    BY <1>3
  <2> QED
    BY <2>1 DEF Place
<1>5. PartOf(s, 1 .. Len(s)) = [n \in 1 .. Len(s) |-> s[n]]
  BY <1>2, <1>4 DEF PartOf
<1> QED
  BY <1>1, <1>5

\* The kinds of a value exclude each other.
LEMMA TypesDiffer ==
    /\ \A s, t : Is(Str(s), t) <=> t = "string"
    /\ \A n, t : Is(Num(n), t) <=> t = "number"
    /\ \A a, t : Is(Arr(a), t) <=> t = "array"
    /\ \A o, t : Is(Obj(o), t) <=> t = "object"
    /\ \A t : Is(Null, t) <=> t = "null"
    /\ \A o : Payload(Obj(o)) = o
    /\ \A a : Payload(Arr(a)) = a
    /\ \A s : Payload(Str(s)) = s
BY DEF Is, JsonType, Payload, Str, Num, Arr, Obj, Null

\* Templates are resolved in the fields of a body, and nothing else is touched.
LEMMA ResolvedKeeps ==
    ASSUME NEW body, Is(body, "object")
    PROVE  LET r == ResolvedBody(body)
           IN  /\ Is(r, "object") /\ DOMAIN Payload(r) = DOMAIN Payload(body)
               /\ \A f : Get(body, f) # Str(JobRef) => Get(r, f) = Get(body, f)
               /\ \A f : Get(body, f) = Str(JobRef) => Get(r, f) \in {Null, Str(Templated(JobRef))}
               /\ Nested(r) <=> Nested(body)
               /\ Nested(body) => Source(r) = Source(body)
               /\ ~Nested(body) => Source(r) = r
<1> DEFINE fields == [f \in DOMAIN Payload(body) |->
                         IF Get(body, f) = Str(JobRef) THEN Str(Templated(JobRef)) ELSE Get(body, f)]
           r == ResolvedBody(body)
<1>1. r = Obj(fields)
  BY DEF ResolvedBody
<1>2. Is(r, "object") /\ Payload(r) = fields
  BY <1>1, TypesDiffer
<1>3. DOMAIN Payload(r) = DOMAIN Payload(body)
  BY <1>2
<1>4. \A f : Get(body, f) # Str(JobRef) => Get(r, f) = Get(body, f)
  BY <1>2 DEF Get
<1>5. \A f : Get(body, f) = Str(JobRef) => Get(r, f) \in {Null, Str(Templated(JobRef))}
  BY <1>2 DEF Get
<1>6. Nested(r) <=> Nested(body)
  BY <1>4, <1>5, TypesDiffer DEF Nested
<1>7. Nested(body) => Source(r) = Source(body)
  BY <1>4, <1>6, TypesDiffer DEF Nested, Source
<1>8. ~Nested(body) => Source(r) = r
  BY <1>6 DEF Source
<1> HIDE DEF r
<1> QED
  BY <1>2, <1>3, <1>4, <1>5, <1>6, <1>7, <1>8 DEF r

\* The values a body may give to an option, in the order they are looked for.
LEMMA GivenIs ==
    ASSUME NEW body, NEW f, NEW v \in Given(body, f)
    PROVE  /\ Counts(v, f)
           /\ ~Nested(body) => v = Get(body, f)
           /\ Nested(body) => \/ v = Get(Source(body), f)
                              \/ /\ f \in Defaulted /\ v = Get(body, f)
                                 /\ ~Counts(Get(Source(body), f), f)
<1>1. CASE ~Nested(body)
  <2> DEFINE all == <<Get(body, f)>>
  <2>1. PICK n \in DOMAIN all : v = all[n] /\ Counts(all[n], f)
    BY <1>1 DEF Given, Nested
  <2> QED
    BY <1>1, <2>1
<1>2. CASE Nested(body) /\ f \notin Defaulted
  <2> DEFINE all == <<Get(Get(body, "options"), f)>>
  <2>1. PICK n \in DOMAIN all : v = all[n] /\ Counts(all[n], f)
    BY <1>2 DEF Given, Nested
  <2> QED
    BY <1>2, <2>1 DEF Source
<1>3. CASE Nested(body) /\ f \in Defaulted
  <2> DEFINE all == <<Get(Get(body, "options"), f), Get(body, f)>>
  <2>1. PICK n \in DOMAIN all : /\ v = all[n] /\ Counts(all[n], f)
                                /\ \A l \in 1 .. n - 1 : ~Counts(all[l], f)
    BY <1>3 DEF Given, Nested
  <2>2. n = 1 \/ n = 2
    OBVIOUS
  <2>3. CASE n = 1
    BY <1>3, <2>1, <2>3 DEF Source
  <2>4. CASE n = 2
    <3>1. ~Counts(all[1], f)
      BY <2>1, <2>4
    <3> QED
      BY <1>3, <2>1, <2>4, <3>1 DEF Source
  <2> QED
    BY <2>2, <2>3, <2>4
<1> QED
  BY <1>1, <1>2, <1>3

\* An option that counts is a scalar that is sent.
LEMMA ScalarCounts ==
    ASSUME NEW v, NEW f \in DOMAIN Options, f # "tags", f # "meta"
    PROVE  /\ Counts(v, f) => Is(v, Options[f]) /\ Scalar(v) = v /\ v # Null
           /\ ~Counts(v, f) => ~Is(v, Options[f]) \/ Scalar(v) = Null
<1>1. Options[f] \in {"string", "number"}
  BY DEF Options
<1>2. Is(v, Options[f]) => v # Null /\ v # Arr(<<>>)
  BY <1>1, TypesDiffer
<1> QED
  BY <1>2 DEF Counts, Scalar

LEMMA ScalarOfNull == Scalar(Null) = Null
BY DEF Scalar

\* The request has the options that are given, under their names.
LEMMA OptionIsTaken ==
    ASSUME NEW body, Is(body, "object"), ProperArrays(body),
           Nested(body) => ProperArrays(Source(body)),
           NEW f \in DOMAIN Options, Get(body, f) # Str(JobRef), NEW v \in Given(body, f)
    PROVE  EnqueueOptions(ResolvedBody(body))[f] = v /\ v # Null
<1> DEFINE r == ResolvedBody(body)
<1>1. /\ Get(r, f) = Get(body, f)
      /\ Nested(r) <=> Nested(body)
      /\ Nested(body) => Source(r) = Source(body)
      /\ ~Nested(body) => Source(r) = r
  BY ResolvedKeeps
<1>2. /\ Counts(v, f)
      /\ ~Nested(body) => v = Get(r, f)
      /\ Nested(body) => \/ v = Get(Source(r), f)
                         \/ /\ f \in Defaulted /\ v = Get(r, f)
                            /\ ~Counts(Get(Source(r), f), f)
  BY <1>1, GivenIs
<1>3. v = Get(Source(r), f) \/ (Nested(r) /\ f \in Defaulted /\ v = Get(r, f)
                                  /\ ~Counts(Get(Source(r), f), f))
  BY <1>1, <1>2
<1> HIDE DEF r
<1>4. ASSUME f \in Defaulted
      PROVE  WithFallback(r, f, Options[f]) = v /\ v # Null
  <2>1. f # "tags" /\ f # "meta"
    BY <1>4 DEF Defaulted
  <2>2. Is(v, Options[f]) /\ Scalar(v) = v /\ v # Null
    BY <1>2, <2>1, ScalarCounts
  <2>3. CASE v = Get(Source(r), f)
    BY <2>2, <2>3 DEF WithFallback, Of
  <2>4. CASE Nested(r) /\ v = Get(r, f) /\ ~Counts(Get(Source(r), f), f)
    <3>1. Scalar(Of(Source(r), f, Options[f])) = Null
      BY <2>1, <2>4, ScalarCounts, ScalarOfNull DEF Of
    <3>2. Scalar(Of(r, f, Options[f])) = v
      BY <2>2, <2>4 DEF Of
    <3> QED
      BY <2>2, <2>4, <3>1, <3>2 DEF WithFallback
  <2> QED
    BY <1>3, <2>3, <2>4
<1>5. CASE f = "queue"
  <2>1. Options["queue"] = "string" /\ f \in Defaulted
    BY <1>5 DEF Options, Defaulted
  <2> QED
    BY <1>4, <1>5, <2>1 DEF EnqueueOptions, r
<1>6. CASE f = "priority"
  <2>1. Options["priority"] = "number" /\ f \in Defaulted
    BY <1>6 DEF Options, Defaulted
  <2> QED
    BY <1>4, <1>6, <2>1 DEF EnqueueOptions, r
<1>7. CASE f = "max_attempts"
  <2>1. Options["max_attempts"] = "number" /\ f \in Defaulted
    BY <1>7 DEF Options, Defaulted
  <2> QED
    BY <1>4, <1>7, <2>1 DEF EnqueueOptions, r
<1>8. CASE f = "trace_id"
  <2>1. Options["trace_id"] = "string" /\ f \notin Defaulted /\ f # "tags" /\ f # "meta"
    BY <1>8 DEF Options, Defaulted
  <2>2. Is(v, "string") /\ Scalar(v) = v /\ v # Null /\ v = Get(Source(r), f)
    BY <1>2, <1>3, <1>8, <2>1, ScalarCounts
  <2>3. EnqueueOptions(r)["trace_id"] = Scalar(Of(Source(r), "trace_id", "string"))
    BY DEF EnqueueOptions
  <2> QED
    BY <1>8, <2>2, <2>3 DEF Of, r
<1>9. CASE f = "meta"
  <2>1. Options["meta"] = "object" /\ f \notin Defaulted
    BY <1>9 DEF Options, Defaulted
  <2>2. Is(v, "object") /\ v = Get(Source(r), f)
    BY <1>2, <1>3, <1>9, <2>1 DEF Counts
  <2>3. EnqueueOptions(r)["meta"] = Of(Source(r), "meta", "object")
    BY DEF EnqueueOptions
  <2>4. v # Null
    BY <2>2, TypesDiffer
  <2> QED
    BY <1>9, <2>2, <2>3, <2>4 DEF Of, r
<1>10. CASE f = "tags"
  <2>1. Options["tags"] = "array" /\ f \notin Defaulted
    BY <1>10 DEF Options, Defaulted
  <2>2. /\ Is(v, "array") /\ v # Arr(<<>>) /\ v = Get(Source(r), f)
        /\ \A n \in DOMAIN Payload(v) : Is(Payload(v)[n], "string")
    BY <1>2, <1>3, <1>10, <2>1 DEF Counts
  <2>3. v # Null
    BY <2>2, TypesDiffer
  <2>4. v = Arr(Payload(v)) /\ IsSequence(Payload(v))
    <3>1. CASE Nested(body)
      <4>1. v = Get(Source(body), f)
        BY <1>1, <2>2, <3>1
      <4>2. f \in DOMAIN Payload(Source(body))
        BY <2>3, <4>1 DEF Get
      <4> QED
        BY <2>2, <3>1, <4>1, <4>2 DEF ProperArrays
    <3>2. CASE ~Nested(body)
      <4>1. v = Get(body, f)
        BY <1>1, <2>2, <3>2
      <4>2. f \in DOMAIN Payload(body)
        BY <2>3, <4>1 DEF Get
      <4> QED
        BY <2>2, <4>1, <4>2 DEF ProperArrays
    <3> QED
      BY <3>1, <3>2
  <2>5. Elements(v, "string") = Payload(v)
    <3>1. {k \in DOMAIN Payload(v) : Is(Payload(v)[k], "string")} = DOMAIN Payload(v)
      BY <2>2
    <3> QED
      BY <2>4, <3>1, PartOfAll DEF Elements
  <2>6. Payload(v) # <<>>
    BY <2>2, <2>4
  <2>7. Strings(v) = v
    BY <2>2, <2>4, <2>5, <2>6 DEF Strings
  <2>8. EnqueueOptions(r)["tags"] = Strings(Get(Source(r), "tags"))
    BY DEF EnqueueOptions
  <2> QED
    BY <1>10, <2>2, <2>3, <2>7, <2>8 DEF r
<1> QED
  BY <1>5, <1>6, <1>7, <1>8, <1>9, <1>10 DEF Options

\* So does the job that is made of the request, if the body is one of a test.
LEMMA JobCarries ==
    ASSUME Shape, NEW k \in DOMAIN test, Is(test[k].body, "object"), NEW id
    PROVE  Carries(Job(id, Entry(ResolvedBody(test[k].body))), test[k].body)
<1> DEFINE body == test[k].body
           e    == Entry(ResolvedBody(body))
<1>1. ProperArrays(body) /\ (Nested(body) => ProperArrays(Source(body)))
  BY BodiesAssumption DEF Shape
<1>2. e.options = EnqueueOptions(ResolvedBody(body))
  BY DEF Entry
<1>3. \A f \in DOMAIN Options : e.options[f] # Null => Job(id, e)[f] = e.options[f]
  BY DEF Job, Options
<1> HIDE DEF body, e
<1>4. SUFFICES ASSUME NEW f \in DOMAIN Options, Get(body, f) # Str(JobRef), NEW v \in Given(body, f)
               PROVE  Job(id, e)[f] = v
  BY DEF Carries, body, e
<1>5. EnqueueOptions(ResolvedBody(body))[f] = v /\ v # Null
  BY <1>1, <1>4, OptionIsTaken DEF body
<1> QED
  BY <1>2, <1>3, <1>5

\* What is made of a job for its answer shows it.
LEMMA ShownJob ==
    ASSUME NEW job, DOMAIN job = JobFields, NEW i, job.id = Str(i)
    PROVE  Is(JobToMap(job), "object") /\ ShowsJob(JobToMap(job), job)
<1> DEFINE shown  == [job EXCEPT !.unique_policy = WithoutStates(@)]
           set    == {g \in DOMAIN job : shown[g] # Null \/ g \in DOMAIN ShownZero}
           fields == [f \in set |-> IF shown[f] = Null THEN ShownZero[f] ELSE shown[f]]
<1>1. JobToMap(job) = Obj(fields)
  BY DEF JobToMap
<1>2. \A f \in DOMAIN job : f # "unique_policy" => shown[f] = job[f]
  OBVIOUS
<1>3. \A f \in DOMAIN Options \cup {"id"} : f \in DOMAIN job /\ f # "unique_policy"
  BY DEF Options, JobFields
<1> HIDE DEF shown
<1>4. \A f \in DOMAIN Options \cup {"id"} : job[f] # Null => f \in set /\ fields[f] = job[f]
  BY <1>2, <1>3
<1> HIDE DEF set, fields
<1>5. DOMAIN fields = set
  BY DEF fields
<1>6. \A f \in DOMAIN Options \cup {"id"} : job[f] # Null => Get(JobToMap(job), f) = job[f]
  BY <1>1, <1>4, <1>5, TypesDiffer DEF Get
<1>7. job["id"] # Null
  BY DEF Str, Null
<1> QED
  BY <1>1, <1>6, <1>7, TypesDiffer DEF ShowsJob

-----------------------------------------------------------------------------
(* Jobs that are read back: the steps *)

\* What was shown stays so when jobs come and states change.
LEMMA ShownStays ==
    ASSUME NEW store, NEW later, DOMAIN store \subseteq DOMAIN later,
           \A i \in DOMAIN store :
               /\ later[i].id = store[i].id
               /\ \A f \in DOMAIN Options : later[i][f] = store[i][f]
    PROVE  \A given, method, body :
               ShownBy(store, given, method, body) => ShownBy(later, given, method, body)
<1>1. ASSUME NEW shown, ShowsOneOf(store, shown)
      PROVE  ShowsOneOf(later, shown)
  BY <1>1 DEF ShowsOneOf, ShowsJob
<1>2. ASSUME NEW i \in DOMAIN store, NEW body, Carries(store[i], body)
      PROVE  Carries(later[i], body)
  BY <1>2 DEF Carries
<1> QED
  BY <1>1, <1>2 DEF ShownBy

\* The first n ids are n.
LEMMA FirstIds ==
    ASSUME NEW n \in 0 .. Len(JobIds)
    PROVE  /\ IsFiniteSet({JobIds[k] : k \in 1 .. n})
           /\ Cardinality({JobIds[k] : k \in 1 .. n}) = n
<1> DEFINE ids == {JobIds[k] : k \in 1 .. n}
           f   == [k \in 1 .. n |-> JobIds[k]]
<1>1. DOMAIN JobIds = 1 .. Len(JobIds) /\ Len(JobIds) \in Nat
  BY JobIdsAssumption DEF IsSequence
<1>2. IsFiniteSet(1 .. n) /\ Cardinality(1 .. n) = n
  BY <1>1, FS_Interval
<1>3. f \in Bijection(1 .. n, ids)
  BY <1>1, JobIdsAssumption DEF Bijection, Injection, Surjection, IsInjective
<1>4. ExistsBijection(1 .. n, ids)
  BY <1>3 DEF ExistsBijection
<1> QED
  BY <1>2, <1>4, FS_Bijection

\* Jobs that are put into the store have ids of their own, and leave the others alone.
LEMMA NewJobs ==
    ASSUME StoreInv, NEW entries, Len(entries) \in Nat, Store(Added(entries))
    PROVE  /\ StoreInv'
           /\ \A i \in DOMAIN jobs : i \in DOMAIN jobs' /\ jobs'[i] = jobs[i]
           /\ \A k \in 1 .. Len(entries) :
                 \E i \in DOMAIN jobs' : /\ Added(entries)[k] = Job(i, entries[k])
                                         /\ jobs'[i] = Job(i, entries[k])
<1> DEFINE n   == Cardinality(DOMAIN jobs)
           m   == Len(entries)
           new == Added(entries)
           ids == {Payload(new[k].id) : k \in DOMAIN new}
<1>1. /\ DOMAIN JobIds = 1 .. Len(JobIds) /\ Len(JobIds) \in Nat
      /\ \A j, k \in DOMAIN JobIds : JobIds[j] = JobIds[k] => j = k
  BY JobIdsAssumption DEF IsSequence
<1>2. n \in 0 .. Len(JobIds) /\ DOMAIN jobs = {JobIds[k] : k \in 1 .. n}
  BY DEF StoreInv
<1>3. /\ DOMAIN new = 1 .. m /\ m \in Nat
      /\ \A k \in 1 .. m : new[k] = Job(JobIds[n + k], entries[k])
  BY DEF Added
<1>4. \A i, e : Job(i, e).id = Str(i) /\ Payload(Job(i, e).id) = i /\ DOMAIN Job(i, e) = JobFields
  BY DEF Job, Str, Payload, JobFields
<1>5. /\ \A k \in 1 .. m : n + k \in DOMAIN JobIds
      /\ DOMAIN jobs' = DOMAIN jobs \cup ids
      /\ \A i \in DOMAIN jobs : jobs'[i] = jobs[i]
      /\ \A i \in ids \ DOMAIN jobs :
            jobs'[i] = CHOOSE j \in {new[k] : k \in 1 .. m} : j.id = Str(i)
  BY <1>3 DEF Store
<1>6. ids = {JobIds[n + k] : k \in 1 .. m}
  BY <1>3, <1>4
<1> HIDE DEF new, ids, n, m
<1>7. ASSUME NEW k \in 1 .. m
      PROVE  /\ JobIds[n + k] \in DOMAIN jobs'
             /\ new[k] = Job(JobIds[n + k], entries[k])
             /\ jobs'[JobIds[n + k]] = new[k]
  <2> DEFINE i == JobIds[n + k]
  <2>1. i \in ids /\ i \in DOMAIN jobs' /\ new[k] = Job(i, entries[k]) /\ new[k].id = Str(i)
    BY <1>3, <1>4, <1>5, <1>6
  <2>2. i \notin DOMAIN jobs
    <3>1. SUFFICES ASSUME NEW j \in 1 .. n, JobIds[j] = i
                   PROVE  FALSE
      BY <1>2
    <3>2. n + k \in DOMAIN JobIds
      BY <1>5
    <3>3. n \in Nat /\ k \in Nat /\ k > 0 /\ j \in 1 .. n
      BY <1>2, <1>3
    <3>4. j \in DOMAIN JobIds /\ j # n + k
      BY <1>1, <1>2, <3>3
    <3> QED
      BY <1>1, <3>1, <3>2, <3>4
  <2>3. jobs'[i] = CHOOSE j \in {new[l] : l \in 1 .. m} : j.id = Str(i)
    BY <1>5, <2>1, <2>2
  <2>4. \A l \in 1 .. m : new[l].id = Str(i) => l = k
    <3> TAKE l \in 1 .. m
    <3>1. HAVE new[l].id = Str(i)
    <3>2. Str(JobIds[n + l]) = Str(JobIds[n + k])
      BY <1>3, <1>4, <3>1
    <3>3. JobIds[n + l] = JobIds[n + k]
      BY <3>2 DEF Str
    <3>4. n + l = n + k
      BY <1>1, <1>5, <3>3
    <3> QED
      BY <1>2, <3>4
  <2>5. (CHOOSE j \in {new[l] : l \in 1 .. m} : j.id = Str(i)) = new[k]
    BY <2>1, <2>4
  <2> QED
    BY <2>1, <2>3, <2>5
<1>8. StoreInv'
  <2>1. DOMAIN jobs' = {JobIds[k] : k \in 1 .. n + m}
    <3>1. \A k \in 1 .. n + m : k \in 1 .. n \/ (k - n \in 1 .. m /\ n + (k - n) = k)
      BY <1>2, <1>3
    <3>2. \A k \in 1 .. n : k \in 1 .. n + m
      BY <1>2, <1>3
    <3>3. \A k \in 1 .. m : n + k \in 1 .. n + m
      BY <1>2, <1>3
    <3>4. DOMAIN jobs' \subseteq {JobIds[k] : k \in 1 .. n + m}
      BY <1>2, <1>5, <1>6, <3>2, <3>3
    <3>5. {JobIds[k] : k \in 1 .. n + m} \subseteq DOMAIN jobs'
      <4>1. SUFFICES ASSUME NEW k \in 1 .. n + m
                     PROVE  JobIds[k] \in DOMAIN jobs'
        OBVIOUS
      <4>2. CASE k \in 1 .. n
        BY <1>2, <1>5, <4>2
      <4>3. CASE k - n \in 1 .. m /\ n + (k - n) = k
        <5>1. JobIds[n + (k - n)] \in ids
          BY <1>6, <4>3
        <5> QED
          BY <1>5, <4>3, <5>1
      <4> QED
        BY <3>1, <4>2, <4>3
    <3> QED
      BY <3>4, <3>5
  <2>2. n + m \in 0 .. Len(JobIds)
    <3>1. CASE m = 0
      BY <1>2, <3>1
    <3>2. CASE m > 0
      <4>1. n + m \in DOMAIN JobIds
        BY <1>3, <1>5, <3>2
      <4> QED
        BY <1>1, <4>1
    <3> QED
      BY <1>3, <3>1, <3>2
  <2>3. IsFiniteSet(DOMAIN jobs') /\ Cardinality(DOMAIN jobs') = n + m
    BY <2>1, <2>2, FirstIds
  <2>4. ASSUME NEW i \in DOMAIN jobs'
        PROVE  jobs'[i].id = Str(i) /\ DOMAIN jobs'[i] = JobFields
    <3>1. CASE i \in DOMAIN jobs
      BY <1>5, <3>1 DEF StoreInv
    <3>2. CASE i \in ids
      <4>1. PICK k \in 1 .. m : i = JobIds[n + k]
        BY <1>6, <3>2
      <4>2. jobs'[i] = Job(i, entries[k])
        BY <1>7, <4>1
      <4> QED
        BY <1>4, <4>2
    <3> QED
      BY <1>5, <3>1, <3>2
  <2> QED
    BY <2>1, <2>2, <2>3, <2>4 DEF StoreInv
<1>9. \A i \in DOMAIN jobs : i \in DOMAIN jobs' /\ jobs'[i] = jobs[i]
  BY <1>5
<1>10. \A k \in 1 .. m : \E i \in DOMAIN jobs' : /\ new[k] = Job(i, entries[k])
                                                 /\ jobs'[i] = Job(i, entries[k])
  <2> TAKE k \in 1 .. m
  <2>1. /\ JobIds[n + k] \in DOMAIN jobs'
        /\ new[k] = Job(JobIds[n + k], entries[k])
        /\ jobs'[JobIds[n + k]] = new[k]
    BY <1>7
  <2> QED
    BY <2>1
<1> QED
  BY <1>8, <1>9, <1>10 DEF m, new

LEMMA ReadInvInitially == Init => ReadInv
<1> SUFFICES ASSUME Init PROVE ReadInv
  OBVIOUS
<1>1. DOMAIN jobs = {} /\ Done = {} /\ pc = "next"
  BY DEF Init, Done
<1>2. Len(JobIds) \in Nat
  BY JobIdsAssumption DEF IsSequence
<1>3. {JobIds[k] : k \in 1 .. 0} = {}
  OBVIOUS
<1>4. IsFiniteSet({}) /\ Cardinality({}) = 0
  BY FS_EmptySet
<1>5. StoreInv
  BY <1>1, <1>2, <1>3, <1>4 DEF StoreInv
<1> QED
  BY <1>1, <1>5 DEF ReadInv

\* A step that is over without a call shows nothing.
LEMMA OverKeepsReadInv ==
    ASSUME Inv, ReadInv, NEW fails \in BOOLEAN, Over(fails), pc = "next", At \in DOMAIN test
    PROVE  ReadInv'
<1>1. Shape /\ Len(results) < Len(test)
  BY TestsAreSequences DEF Inv, At
<1>2. IsSequence(results) /\ IsSequence(calls) /\ Len(calls) = Len(results)
  BY <1>1 DEF Shape
<1>3. /\ results' = Append(results, Silent) /\ calls' = Append(calls, {})
      /\ UNCHANGED <<test, pc, jobs>>
  BY DEF Over
<1>4. /\ DOMAIN results' = 1 .. Len(results) + 1 /\ Len(results) \in Nat
      /\ DOMAIN results = 1 .. Len(results) /\ DOMAIN calls = 1 .. Len(results)
      /\ calls'[Len(results) + 1] = {}
      /\ \A k \in DOMAIN results : results'[k] = results[k]
      /\ \A k \in DOMAIN calls : calls'[k] = calls[k]
  BY <1>2, <1>3, Appended
<1>5. StoreInv'
  BY <1>3 DEF ReadInv, StoreInv
<1>6. ASSUME NEW k \in Done', results'[k].code = "OK", NEW c \in calls'[k]
      PROVE  ShownBy(jobs', test'[k].body, c.method, results'[k].body)
  <2>1. k # Len(results) + 1
    BY <1>4, <1>6
  <2>2. k \in Done /\ results'[k] = results[k] /\ calls'[k] = calls[k]
    BY <1>4, <2>1 DEF Done
  <2> QED
    BY <1>3, <1>6, <2>2 DEF ReadInv
<1> QED
  BY <1>3, <1>5, <1>6 DEF ReadInv

LEMMA SendKeepsReadInv == Inv /\ ReadInv /\ Send => ReadInv'
<1> SUFFICES ASSUME Inv, ReadInv, Send PROVE ReadInv'
  OBVIOUS
<1> DEFINE path   == ResolvedPath(Current.path)
           method == Method(Current.action, path)
<1>1. /\ call' = [method  |-> method, path |-> path,
                  request |-> Request(method, path, ResolvedBody(test[At].body))]
      /\ pc' = "sent"
      /\ UNCHANGED <<test, answer, jobs, calls, results, failed>>
  BY DEF Send, Current
<1>2. At' = At /\ Done' = Done /\ \A body : ResolvedBody(body)' = ResolvedBody(body)
  BY <1>1 DEF At, Done, ResolvedBody, Templated
<1>3. call'.request = Request(call'.method, call'.path, ResolvedBody(test[At].body))
  <2> HIDE DEF path, method
  <2> QED
    BY <1>1
<1>4. StoreInv'
  BY <1>1 DEF ReadInv, StoreInv
<1>5. (call.request = Request(call.method, call.path, ResolvedBody(test[At].body)))'
  BY <1>1, <1>2, <1>3 DEF ResolvedBody, Templated
<1> QED
  BY <1>1, <1>2, <1>4, <1>5 DEF ReadInv

\* The answer to a call of a method, as the store shows it.
LEMMA AnswersOneJob ==
    ASSUME NEW method \in OneJob, NEW message
    PROVE  Get(ResponseJSON(method, "OK", message), "job") = JobToMap(message)
<1> DEFINE fields == [job |-> JobToMap(message)]
<1>1. ResponseJSON(method, "OK", message) = Obj(fields)
  BY DEF ResponseJSON, OneJob, ManyJobs, Nothing
<1>2. "job" \in DOMAIN fields /\ fields["job"] = JobToMap(message)
  OBVIOUS
<1> HIDE DEF fields
<1> QED
  BY <1>1, <1>2, TypesDiffer DEF Get

LEMMA AnswersJobs ==
    ASSUME NEW message
    PROVE  Get(ResponseJSON("EnqueueBatch", "OK", message), "job") = Null
<1> DEFINE fields == [jobs |-> Arr([k \in DOMAIN message |-> JobToMap(message[k])])]
<1>1. ResponseJSON("EnqueueBatch", "OK", message) = Obj(fields)
  BY DEF ResponseJSON, OneJob, ManyJobs, Nothing
<1>2. "job" \notin DOMAIN fields
  OBVIOUS
<1> HIDE DEF fields
<1> QED
  BY <1>1, <1>2, TypesDiffer DEF Get

\* The jobs of a batch are a list.
LEMMA BatchHasLength ==
    ASSUME Shape, NEW k \in DOMAIN test, NEW path
    PROVE  Len(Request("EnqueueBatch", path, ResolvedBody(test[k].body)).jobs) \in Nat
<1> DEFINE anyBody == ResolvedBody(test[k].body)
           body    == IF Is(anyBody, "object") THEN anyBody ELSE Obj(<<>>)
           list    == Get(body, "jobs")
<1>1. Request("EnqueueBatch", path, anyBody) =
         [jobs |-> Entries(list), defaults |-> EnqueueOptions(body)]
  BY DEF Request, TargetInPath
<1>2. Is(list, "array") => IsSequence(Payload(list))
  <2>1. ASSUME Is(list, "array")
        PROVE  IsSequence(Payload(list))
    <3>1. Get(Obj(<<>>), "jobs") = Null
      BY TypesDiffer DEF Get
    <3>2. Is(anyBody, "object") /\ list = Get(anyBody, "jobs")
      BY <2>1, <3>1, TypesDiffer
    <3>3. Is(test[k].body, "object")
      BY <3>2 DEF ResolvedBody
    <3>4. list = Get(test[k].body, "jobs")
      BY <2>1, <3>2, <3>3, ResolvedKeeps, TypesDiffer
    <3>5. "jobs" \in DOMAIN Payload(test[k].body)
      BY <2>1, <3>4, TypesDiffer DEF Get
    <3>6. ProperArrays(test[k].body)
      BY <3>3, BodiesAssumption DEF Shape
    <3> QED
      BY <2>1, <3>4, <3>5, <3>6 DEF ProperArrays
  <2> QED
    BY <2>1
<1> HIDE DEF list
<1>3. \E n \in Nat : DOMAIN Objects(list) = 1 .. n
  <2>1. CASE Is(list, "array")
    <3> DEFINE S == {j \in DOMAIN Payload(list) : Is(Payload(list)[j], "object")}
    <3>1. DOMAIN Payload(list) = 1 .. Len(Payload(list)) /\ Len(Payload(list)) \in Nat
      BY <1>2, <2>1 DEF IsSequence
    <3>2. IsFiniteSet(DOMAIN Payload(list))
      BY <3>1, FS_Interval
    <3>3. S \in SUBSET DOMAIN Payload(list)
      OBVIOUS
    <3>4. Cardinality(S) \in Nat
      BY <3>2, <3>3, FS_Subset, FS_CardinalityType
    <3>5. DOMAIN Objects(list) = 1 .. Cardinality(S)
      BY <2>1 DEF Objects, Elements, PartOf
    <3> QED
      BY <3>4, <3>5
  <2>2. CASE ~Is(list, "array")
    <3>1. Objects(list) = <<>>
      BY <2>2 DEF Objects
    <3> QED
      BY <3>1
  <2> QED
    BY <2>1, <2>2
<1>4. \E n \in Nat : Len(Entries(list)) = n
  <2>1. PICK n \in Nat : DOMAIN Objects(list) = 1 .. n
    BY <1>3
  <2>2. Entries(list) = [j \in 1 .. n |-> Entry(Objects(list)[j])]
    BY <2>1 DEF Entries
  <2> HIDE DEF list
  <2>3. Len([j \in 1 .. n |-> Entry(Objects(list)[j])]) = n
    OBVIOUS
  <2> QED
    BY <2>2, <2>3
<1> HIDE DEF body
<1> QED
  BY <1>1, <1>4

\* The answer of the server, to each of its methods.
LEMMA ServeKeepsStore ==
    ASSUME Inv, ReadInv, Serve
    PROVE  /\ StoreInv' /\ DOMAIN jobs \subseteq DOMAIN jobs'
           /\ \A i \in DOMAIN jobs :
                 /\ jobs'[i].id = jobs[i].id
                 /\ \A f \in DOMAIN Options : jobs'[i][f] = jobs[i][f]
           /\ answer'.code = "OK"
           /\ ShownBy(jobs', test[At].body, call.method,
                      ResponseJSON(call.method, "OK", answer'.message))
<1> DEFINE body  == test[At].body
           shown == ResponseJSON(call.method, "OK", answer'.message)
<1>1. /\ Shape /\ StoreInv /\ pc = "sent" /\ At \in DOMAIN test
      /\ call.method \in KnownMethods
      /\ call.request = Request(call.method, call.path, ResolvedBody(body))
  <2>1. pc = "sent" /\ Len(results) < Len(test) /\ IsCallOf(call, At)
    BY DEF Inv, Serve, UnderWay
  <2>2. At \in DOMAIN test
    BY <2>1, TestsAreSequences DEF Inv, At
  <2> QED
    BY <2>1, <2>2 DEF Inv, ReadInv, IsCallOf
<1>2. answer'.code = "OK"
  BY DEF Serve, Enqueued, EnqueuedBatch, Got, Cancelled, SomethingElse, Answers
<1>3. \A i \in DOMAIN jobs : DOMAIN jobs[i] = JobFields /\ jobs[i].id = Str(i)
  BY <1>1 DEF StoreInv
<1>4. ASSUME StoreInv', NEW i \in DOMAIN jobs', call.method \in OneJob, answer'.message = jobs'[i]
      PROVE  /\ ShowsOneOf(jobs', Get(shown, "job"))
             /\ Get(Get(shown, "job"), "id") = Str(i)
  <2>1. Get(shown, "job") = JobToMap(jobs'[i])
    BY <1>4, AnswersOneJob
  <2>2. DOMAIN jobs'[i] = JobFields /\ jobs'[i].id = Str(i)
    BY <1>4 DEF StoreInv
  <2>3. ShowsJob(JobToMap(jobs'[i]), jobs'[i])
    BY <2>2, ShownJob
  <2> QED
    BY <2>1, <2>2, <2>3 DEF ShowsOneOf, ShowsJob
<1> HIDE DEF shown
<1>5. CASE Enqueued
  <2> DEFINE e       == call.request.job
             entries == <<e>>
  <2>1. /\ Store(Added(entries)) /\ answer'.message = Added(entries)[1]
        /\ call.method = "Enqueue" /\ Len(entries) = 1
    BY <1>5 DEF Enqueued, Answers
  <2>2. /\ StoreInv'
        /\ \A i \in DOMAIN jobs : i \in DOMAIN jobs' /\ jobs'[i] = jobs[i]
        /\ \A k \in 1 .. Len(entries) :
              \E i \in DOMAIN jobs' : /\ Added(entries)[k] = Job(i, entries[k])
                                      /\ jobs'[i] = Job(i, entries[k])
    BY <1>1, <2>1, NewJobs
  <2>3. PICK i \in DOMAIN jobs' : answer'.message = Job(i, e) /\ jobs'[i] = Job(i, e)
    BY <2>1, <2>2
  <2>4. ShowsOneOf(jobs', Get(shown, "job")) /\ Get(Get(shown, "job"), "id") = Str(i)
    BY <1>4, <2>1, <2>2, <2>3 DEF OneJob
  <2>5. Is(body, "object") => Carries(jobs'[i], body)
    <3>1. HAVE Is(body, "object")
    <3>2. Is(ResolvedBody(body), "object")
      BY <3>1, ResolvedKeeps
    <3>3. e = Entry(ResolvedBody(body))
      <4>1. Request("Enqueue", call.path, ResolvedBody(body)) = [job |-> Entry(ResolvedBody(body))]
        BY <3>2 DEF Request, TargetInPath
      <4> QED
        BY <1>1, <2>1, <4>1
    <3> HIDE DEF e
    <3>4. Carries(Job(i, Entry(ResolvedBody(body))), body)
      BY <1>1, <3>1, JobCarries
    <3> QED
      BY <2>3, <3>3, <3>4
  <2> HIDE DEF body
  <2>6. ShownBy(jobs', body, call.method, shown)
    BY <2>4, <2>5 DEF ShownBy
  <2> QED
    BY <1>2, <2>2, <2>6 DEF body, shown
<1>6. CASE EnqueuedBatch
  <2> DEFINE entries == call.request.jobs
  <2>1. /\ Store(Added(entries)) /\ answer'.message = Added(entries)
        /\ call.method = "EnqueueBatch"
    BY <1>6 DEF EnqueuedBatch, Answers
  <2>2. Len(entries) \in Nat
    BY <1>1, <2>1, BatchHasLength
  <2>3. /\ StoreInv'
        /\ \A i \in DOMAIN jobs : i \in DOMAIN jobs' /\ jobs'[i] = jobs[i]
    BY <1>1, <2>1, <2>2, NewJobs
  <2>4. Get(shown, "job") = Null
    BY <2>1, AnswersJobs DEF shown
  <2>5. ShownBy(jobs', body, call.method, shown)
    BY <2>1, <2>4, TypesDiffer DEF ShownBy
  <2> QED
    BY <1>2, <2>3, <2>5 DEF shown
<1>7. CASE Got
  <2>1. /\ call.method = "GetJob" /\ Target \in DOMAIN jobs /\ jobs' = jobs
        /\ answer'.message = jobs[Target]
    BY <1>7 DEF Got, Answers
  <2>2. StoreInv'
    BY <1>1, <2>1 DEF StoreInv
  <2>3. ShowsOneOf(jobs', Get(shown, "job"))
    BY <1>4, <2>1, <2>2 DEF OneJob
  <2>4. ShownBy(jobs', body, call.method, shown)
    BY <2>1, <2>3 DEF ShownBy
  <2> QED
    BY <1>2, <2>1, <2>2, <2>4 DEF shown
<1>8. CASE Cancelled
  <2>1. /\ call.method = "CancelJob" /\ Target \in DOMAIN jobs
        /\ jobs' = [jobs EXCEPT ![Target].state = Str("cancelled")]
        /\ answer'.message = jobs'[Target]
    BY <1>8 DEF Cancelled, Answers
  <2>2. /\ DOMAIN jobs' = DOMAIN jobs
        /\ \A i \in DOMAIN jobs :
              /\ DOMAIN jobs'[i] = DOMAIN jobs[i]
              /\ \A f \in DOMAIN jobs[i] : f # "state" => jobs'[i][f] = jobs[i][f]
    BY <2>1
  <2>3. \A f \in DOMAIN Options \cup {"id"} : f # "state" /\ f \in JobFields
    BY DEF Options, JobFields
  <2>4. \A i \in DOMAIN jobs :
           \A f \in DOMAIN Options \cup {"id"} : jobs'[i][f] = jobs[i][f]
    BY <1>3, <2>2, <2>3
  <2>5. StoreInv'
    BY <1>1, <2>2, <2>4 DEF StoreInv
  <2>6. ShowsOneOf(jobs', Get(shown, "job"))
    BY <1>4, <2>1, <2>2, <2>5 DEF OneJob
  <2>7. ShownBy(jobs', body, call.method, shown)
    BY <2>1, <2>6 DEF ShownBy
  <2> QED
    BY <1>2, <2>2, <2>4, <2>5, <2>7 DEF shown
<1>9. CASE SomethingElse
  <2>1. /\ call.method \notin {"Enqueue", "EnqueueBatch", "GetJob", "CancelJob"}
        /\ jobs' = jobs
    BY <1>9 DEF SomethingElse
  <2>2. PICK m \in Messages(call.method) : answer'.message = m
    BY <1>9 DEF SomethingElse, Answers
  <2>3. StoreInv'
    BY <1>1, <2>1 DEF StoreInv
  <2>4. Is(Get(shown, "job"), "object") =>
           \A k \in DOMAIN JobIds : Get(Get(shown, "job"), "id") # Str(JobIds[k])
    BY <1>1, <2>1, <2>2, JobIdsAssumption DEF shown
  <2>5. ShownBy(jobs', body, call.method, shown)
    BY <2>1, <2>4 DEF ShownBy, ShowsOneOf
  <2> QED
    BY <1>2, <2>1, <2>3, <2>5 DEF shown
<1> QED
  BY <1>5, <1>6, <1>7, <1>8, <1>9 DEF Serve

LEMMA ServeKeepsReadInv == Inv /\ ReadInv /\ Serve => ReadInv'
<1> SUFFICES ASSUME Inv, ReadInv, Serve PROVE ReadInv'
  OBVIOUS
<1>1. pc = "sent" /\ pc' = "here" /\ UNCHANGED <<test, call, calls, results, failed>>
  BY DEF Serve
<1>2. /\ StoreInv' /\ DOMAIN jobs \subseteq DOMAIN jobs'
      /\ \A i \in DOMAIN jobs :
            /\ jobs'[i].id = jobs[i].id
            /\ \A f \in DOMAIN Options : jobs'[i][f] = jobs[i][f]
      /\ ShownBy(jobs', test[At].body, call.method,
                 ResponseJSON(call.method, "OK", answer'.message))
  BY ServeKeepsStore
<1>3. \A given, method, body :
         ShownBy(jobs, given, method, body) => ShownBy(jobs', given, method, body)
  BY <1>2, ShownStays
<1>4. At' = At /\ Done' = Done
  BY <1>1 DEF At, Done
<1>5. (call.request = Request(call.method, call.path, ResolvedBody(test[At].body)))'
  BY <1>1, <1>4 DEF ReadInv, ResolvedBody, Templated
<1>6. \A k \in Done' : results'[k].code = "OK" =>
         \A c \in calls'[k] : ShownBy(jobs', test'[k].body, c.method, results'[k].body)
  BY <1>1, <1>3, <1>4 DEF ReadInv
<1>7. ShownBy(jobs', test'[At'].body, call'.method,
              ResponseJSON(call'.method, "OK", answer'.message))
  BY <1>1, <1>2, <1>4
<1> QED
  BY <1>2, <1>5, <1>6, <1>7 DEF ReadInv

\* A step that leaves the store and the steps that are over alone, and has no answer
\* that says OK unless it was there.
LEMMA RestKeepsReadInv ==
    ASSUME ReadInv, UNCHANGED <<test, call, jobs, calls, results>>,
           pc' # "next" => pc # "next",
           pc' = "here" /\ answer'.code = "OK" => pc = "here" /\ UNCHANGED answer
    PROVE  ReadInv'
<1>1. At' = At /\ Done' = Done
  BY DEF At, Done
<1>2. StoreInv'
  BY DEF ReadInv, StoreInv
<1>3. pc' # "next" =>
         (call.request = Request(call.method, call.path, ResolvedBody(test[At].body)))'
  BY <1>1 DEF ReadInv, ResolvedBody, Templated
<1>4. \A k \in Done' : results'[k].code = "OK" =>
         \A c \in calls'[k] : ShownBy(jobs', test'[k].body, c.method, results'[k].body)
  BY <1>1 DEF ReadInv
<1>5. pc' = "here" /\ answer'.code = "OK" =>
         ShownBy(jobs', test'[At'].body, call'.method,
                 ResponseJSON(call'.method, "OK", answer'.message))
  BY <1>1 DEF ReadInv
<1> QED
  BY <1>2, <1>3, <1>4, <1>5 DEF ReadInv

LEMMA OthersKeepReadInv == ReadInv /\ (Refuse \/ TimeOut \/ UNCHANGED vars) => ReadInv'
<1> SUFFICES ASSUME ReadInv, Refuse \/ TimeOut \/ UNCHANGED vars PROVE ReadInv'
  OBVIOUS
<1>1. CASE Refuse
  <2>1. /\ pc = "sent" /\ answer'.code # "OK"
        /\ UNCHANGED <<test, call, jobs, calls, results>>
    BY <1>1 DEF Refuse, NoAnswer
  <2> QED
    BY <2>1, RestKeepsReadInv
<1>2. CASE TimeOut
  <2>1. /\ pc = "here" /\ answer'.code # "OK"
        /\ UNCHANGED <<test, call, jobs, calls, results>>
    BY <1>2 DEF TimeOut, NoAnswer
  <2> QED
    BY <2>1, RestKeepsReadInv
<1>3. CASE UNCHANGED vars
  BY <1>3, RestKeepsReadInv DEF vars
<1> QED
  BY <1>1, <1>2, <1>3

LEMMA ReceiveKeepsReadInv == Inv /\ ReadInv /\ Receive => ReadInv'
<1> SUFFICES ASSUME Inv, ReadInv, Receive PROVE ReadInv'
  OBVIOUS
<1> DEFINE status == Status(call.method, answer.code)
           body   == ResponseJSON(call.method, answer.code, answer.message)
<1>1. IsSequence(results) /\ IsSequence(calls) /\ Len(calls) = Len(results)
  BY DEF Inv, Shape
<1>2. PICK result : /\ results' = Append(results, result)
                    /\ result.code = answer.code /\ result.body = body
  <2>1. PICK ms : results' = Append(results, [status |-> status, body |-> body, ms |-> ms,
                                              code |-> answer.code])
    BY DEF Receive
  <2>2. PICK result : result = [status |-> status, body |-> body, ms |-> ms,
                                code |-> answer.code]
    OBVIOUS
  <2> HIDE DEF status, body
  <2> QED
    BY <2>1, <2>2
<1>3. /\ pc = "here" /\ pc' = "next" /\ calls' = Append(calls, {call})
      /\ UNCHANGED <<test, jobs>>
  BY DEF Receive
<1>4. /\ DOMAIN results' = 1 .. Len(results) + 1 /\ Len(results) \in Nat
      /\ DOMAIN results = 1 .. Len(results) /\ DOMAIN calls = 1 .. Len(results)
      /\ results'[Len(results) + 1] = result /\ calls'[Len(results) + 1] = {call}
      /\ \A k \in DOMAIN results : results'[k] = results[k]
      /\ \A k \in DOMAIN calls : calls'[k] = calls[k]
  BY <1>1, <1>2, <1>3, Appended
<1>5. StoreInv'
  BY <1>3 DEF ReadInv, StoreInv
<1>6. ASSUME NEW k \in Done', results'[k].code = "OK", NEW c \in calls'[k]
      PROVE  ShownBy(jobs', test'[k].body, c.method, results'[k].body)
  <2>1. CASE k = Len(results) + 1
    <3>1. results'[k] = result /\ c = call /\ k = At
      BY <1>4, <1>6, <2>1 DEF At
    <3>2. answer.code = "OK"
      BY <1>2, <1>6, <3>1
    <3>3. ShownBy(jobs, test[At].body, call.method,
                  ResponseJSON(call.method, "OK", answer.message))
      BY <1>3, <3>2 DEF ReadInv
    <3>4. results'[k].body = ResponseJSON(call.method, "OK", answer.message)
      BY <1>2, <3>1, <3>2
    <3> QED
      BY <1>3, <3>1, <3>3, <3>4
  <2>2. CASE k # Len(results) + 1
    <3>1. k \in Done /\ results'[k] = results[k] /\ calls'[k] = calls[k]
      BY <1>4, <2>2 DEF Done
    <3> QED
      BY <1>3, <1>6, <3>1 DEF ReadInv
  <2> QED
    BY <2>1, <2>2
<1> QED
  BY <1>3, <1>5, <1>6 DEF ReadInv

LEMMA ReadInvAlways == Spec => []ReadInv
<1>1. Init => ReadInv
  BY ReadInvInitially
<1>2. Inv /\ ReadInv /\ [Next]_vars => ReadInv'
  <2> SUFFICES ASSUME Inv, ReadInv, [Next]_vars PROVE ReadInv'
    OBVIOUS
  <2>1. CASE Wait \/ NoRPC
    BY <2>1, OverKeepsReadInv DEF Wait, NoRPC
  <2>2. CASE Send \/ Serve \/ Receive
    BY <2>2, SendKeepsReadInv, ServeKeepsReadInv, ReceiveKeepsReadInv
  <2>3. CASE Refuse \/ TimeOut \/ Finished \/ UNCHANGED vars
    BY <2>3, OthersKeepReadInv DEF Finished
  <2> QED
    BY <2>1, <2>2, <2>3 DEF Next
<1> QED
  BY <1>1, <1>2, InvAlways, PTL DEF Spec

-----------------------------------------------------------------------------
(* Theorems *)

\* Every step that was executed has its result and its calls, only such steps have
\* failures, and a call is under way exactly while a step waits for it
\* (executeStep): for all tests and all answers.
THEOREM StepsHaveResults == Spec => []TypeOK
<1>1. Inv => TypeOK
  <2> SUFFICES ASSUME Inv PROVE TypeOK
    OBVIOUS
  <2>1. Shape /\ UnderWay /\ JobsInv /\ \A k \in Done : WithoutCall(k) \/ WithCall(k)
    BY DEF Inv
  <2>2. pc # "next" <=> call.method \in KnownMethods
    <3>1. NoCall.method \notin KnownMethods
      BY DEF NoCall, KnownMethods, TargetInPath
    <3> QED
      BY <2>1, <3>1 DEF Shape, UnderWay, IsCallOf
  <2>3. pc = "here" <=> answer.code \in Codes
    <3>1. NoAnswer.code \notin Codes
      BY NoCodeIsEmpty DEF NoAnswer
    <3> QED
      BY <2>1, <3>1 DEF Shape, UnderWay
  <2>4. \A k \in Done : results[k].code \in Codes \cup {""}
    BY <2>1 DEF WithoutCall, WithCall
  <2> QED
    BY <2>1, <2>2, <2>3, <2>4 DEF TypeOK, Shape, JobsInv
<1> QED
  BY <1>1, InvAlways, PTL

\* A step of a documented route makes the one call the README of the runner gives for
\* it, for the thing its path names, whatever other rows of the table the path fits and
\* whatever its templates stand for; a step without a call fails unless it is a WAIT.
THEOREM StepsMakeTheirCalls == Spec => []IntentsAreCalled
<1>1. Inv => IntentsAreCalled
  <2> SUFFICES ASSUME Inv, NEW k \in Done
               PROVE  /\ \A r \in Documented : OfRoute(k, r) =>
                            \E c \in calls[k] :
                               /\ calls[k] = {c} /\ c.method = r[3]
                               /\ \A i \in DOMAIN r[2] :
                                     r[2][i] = Id => c.request.id \in {Str(c.path[i])}
                      /\ calls[k] = {} <=> results[k].code = ""
                      /\ calls[k] = {} => (k \in failed <=> test[k].action # "WAIT")
    BY DEF IntentsAreCalled
  <2>1. Shape /\ (WithoutCall(k) \/ WithCall(k))
    BY DEF Inv
  <2>2. CASE WithoutCall(k)
    BY <2>2 DEF WithoutCall
  <2>3. CASE WithCall(k)
    <3>1. results[k].code # ""
      BY <2>3, NoCodeIsEmpty DEF WithCall
    <3>2. PICK c \in calls[k] : calls[k] = {c} /\ IsCallOf(c, k)
      BY <2>3 DEF WithCall
    <3>3. k \in DOMAIN test
      BY <2>1, TestsAreSequences DEF Shape, Done
    <3>4. ASSUME NEW r \in Documented, OfRoute(k, r)
          PROVE  /\ c.method = r[3]
                 /\ \A i \in DOMAIN r[2] :
                       r[2][i] = Id => c.request.id \in {Str(c.path[i])}
      <4>1. /\ Method(test[k].action, c.path) = r[3]
            /\ \A i \in DOMAIN r[2] : r[2][i] = Id => i = 3 /\ r[3] \in TargetInPath
        BY <2>1, <3>2, <3>3, <3>4, RouteIsCalled DEF IsCallOf
      <4> QED
        BY <3>2, <4>1 DEF IsCallOf
    <3> QED
      BY <3>1, <3>2, <3>4
  <2> QED
    BY <2>1, <2>2, <2>3
<1> QED
  BY <1>1, InvAlways, PTL

\* The status a step sees is a success exactly if the RPC was one, 201 exactly if it
\* created something, and the code named in messages is the server's, for every method
\* and every code of the table (HTTPStatusOverride, GRPCCodeToHTTPStatus).
THEOREM StatusTellsTheCode == Spec => []StatusIsTheServers
<1>1. Inv => StatusIsTheServers
  <2> SUFFICES ASSUME Inv, NEW k \in Answered, NEW c \in calls[k]
               PROVE  LET status == results[k].status
                          code   == results[k].code
                      IN  /\ status < 300 <=> code = "OK"
                          /\ status = 201 <=> code = "OK" /\ RPCCreatesResource(c.method)
                          /\ code \in DOMAIN HTTPStatus => HTTPStatusToGRPCCode(status) = code
    BY DEF StatusIsTheServers
  <2>1. WithCall(k)
    BY DEF Inv, Answered, WithoutCall
  <2>2. results[k].code \in Codes /\ results[k].status = Status(c.method, results[k].code)
    BY <2>1 DEF WithCall
  <2> DEFINE status == Status(c.method, results[k].code)
             code   == results[k].code
  <2>3. status < 300 <=> code = "OK"
    BY StatusOfOK, StatusOfErrors
  <2>4. status = 201 <=> code = "OK" /\ RPCCreatesResource(c.method)
    BY StatusOfOK, StatusOfErrors
  <2>5. code \in DOMAIN HTTPStatus => HTTPStatusToGRPCCode(status) = code
    BY CodeIsFound
  <2>6. results[k].status = status
    BY <2>2
  <2> HIDE DEF status, code
  <2> QED
    BY <2>3, <2>4, <2>5, <2>6 DEF code
<1> QED
  BY <1>1, InvAlways, PTL

\* A job the server has and no step was shown comes from a call that creates something
\* and timed out, and the step that made it reports 504 (rpcTimeout, CallRPC).
THEOREM UnseenJobsHaveACause == Spec => []UnseenJobsTimedOut
<1>1. Inv => UnseenJobsTimedOut
  BY DEF Inv, JobsInv, Explained, Pending, UnseenJobsTimedOut
<1> QED
  BY <1>1, InvAlways, PTL

\* With the default tolerance a step that should take n milliseconds passes from half
\* of n to n and a half, or within 100 of n, and no other, for every n and every
\* duration (AssertApproximateMs).
THEOREM DurationsAreJudged == Spec => []DurationVerdicts
<1>1. Inv => DurationVerdicts
  <2> SUFFICES ASSUME Inv, TolerancePct = 50, MinToleranceMs = 100,
                      NEW k \in Answered, NEW t \in Asserts(k).timing,
                      AssertsOnly(k, "timing"), Asserts(k).timing = {t}, t[1] = "approximate"
               PROVE  LET ms == results[k].ms
                      IN  k \notin failed <=> \/ t[2] <= 2 * ms /\ 2 * ms <= 3 * t[2]
                                              \/ t[2] <= ms + 100 /\ ms <= t[2] + 100
    BY DEF DurationVerdicts
  <2> DEFINE ms == results[k].ms
  <2>1. WithCall(k) /\ k \in Done
    BY DEF Inv, Answered, WithoutCall
  <2>2. /\ Asserts(k).status = {} /\ Asserts(k).either = {} /\ Asserts(k).checks = {}
        /\ Asserts(k).absent = {}
    BY DEF AssertsOnly
  <2>3. AssertionsHold(Asserts(k), results[k].status, results[k].body, ms) <=> TimingHolds(t, ms)
    BY <2>2 DEF AssertionsHold
  <2>4. ms \in Nat /\ (k \notin failed <=> TimingHolds(t, ms))
    BY <2>1, <2>3 DEF WithCall
  <2>5. t[2] \in Nat
    <3>1. k \in DOMAIN test /\ test \in Tests
      BY <2>1, TestsAreSequences DEF Inv, Shape, Done
    <3> QED
      BY <3>1, GrpcStepAssumption DEF Asserts
  <2>6. TimingHolds(t, ms) <=> 100 * Distance(ms, t[2]) <= MaxOf(t[2] * 50, 100 * 100)
    BY DEF TimingHolds, Approximately
  <2>7. \A x, n \in Nat :
            100 * Distance(x, n) <= MaxOf(n * 50, 100 * 100) <=>
               \/ n <= 2 * x /\ 2 * x <= 3 * n
               \/ n <= x + 100 /\ x <= n + 100
    BY DEF Distance, MaxOf
  <2> HIDE DEF ms
  <2>8. k \notin failed <=> \/ t[2] <= 2 * ms /\ 2 * ms <= 3 * t[2]
                            \/ t[2] <= ms + 100 /\ ms <= t[2] + 100
    BY <2>4, <2>5, <2>6, <2>7
  <2> QED
    BY <2>8 DEF ms
<1> QED
  BY <1>1, InvAlways, PTL

\* What a step sends with a job, in options or beside them, can be read back from the job
\* under the name it was sent with, whatever the test, the values and the ids are, and
\* whatever became of the job in between (buildEnqueueOptions, protoJobToMap).
THEOREM OptionsAreReadBack == Spec => []ReadBack
<1>1. Inv /\ ReadInv => ReadBack
  <2> SUFFICES ASSUME Inv, ReadInv,
                      NEW k \in Answered, NEW j \in 1 .. k,
                      results[k].code = "OK", Is(Get(results[k].body, "job"), "object"),
                      Is(test[j].body, "object"),
                      \E c \in calls[j] : c.method = "Enqueue",
                      results[j].code = "OK",
                      Get(Get(results[k].body, "job"), "id")
                          = Get(Get(results[j].body, "job"), "id"),
                      NEW f \in DOMAIN Options, Get(test[j].body, f) # Str(JobRef),
                      NEW v \in Given(test[j].body, f)
               PROVE  Get(Get(results[k].body, "job"), f) = v
    BY Zenon DEF ReadBack
  <2> DEFINE job == Get(results[k].body, "job")
  <2>1. k \in Done /\ j \in Done
    <3>1. DOMAIN results = 1 .. Len(results) /\ Len(results) \in Nat
      BY TestsAreSequences DEF Inv
    <3>2. k \in 1 .. Len(results)
      BY <3>1 DEF Answered, Done
    <3>3. j \in 1 .. Len(results)
      BY <3>1, <3>2
    <3> QED
      BY <3>1, <3>2, <3>3 DEF Done
  <2>2. WithCall(k)
    BY <2>1 DEF Inv, Answered, WithoutCall
  <2>3. PICK d \in calls[k] : ShownBy(jobs, test[k].body, d.method, results[k].body)
    BY <2>1, <2>2 DEF WithCall, ReadInv
  <2>4. ShowsOneOf(jobs, job)
    BY <2>3 DEF ShownBy
  <2>5. PICK c \in calls[j] : c.method = "Enqueue"
    OBVIOUS
  <2>6. ShownBy(jobs, test[j].body, "Enqueue", results[j].body)
    BY <2>1, <2>5 DEF ReadInv
  <2>7. PICK i \in DOMAIN jobs : /\ Get(Get(results[j].body, "job"), "id") = Str(i)
                                 /\ Carries(jobs[i], test[j].body)
    BY <2>6 DEF ShownBy
  <2>8. Get(job, "id") = Str(i) /\ jobs[i][f] = v
    BY <2>7 DEF Carries
  <2>9. v # Null
    <3>1. Counts(v, f)
      BY GivenIs
    <3>2. Options[f] \in {"string", "number", "array", "object"}
      BY DEF Options
    <3> QED
      BY <3>1, <3>2, TypesDiffer DEF Counts
  <2>10. StoreInv /\ \E n \in DOMAIN JobIds : i = JobIds[n]
    <3>1. StoreInv /\ DOMAIN jobs \subseteq {JobIds[n] : n \in DOMAIN JobIds}
      BY DEF Inv, JobsInv, ReadInv
    <3> QED
      BY <3>1
  <2> HIDE DEF job
  <2>11. PICK l \in DOMAIN jobs : ShowsJob(job, jobs[l])
    BY <2>4, <2>8, <2>10 DEF ShowsOneOf
  <2>12. l = i
    <3>1. Str(l) = Str(i)
      BY <2>8, <2>10, <2>11 DEF ShowsJob, StoreInv
    <3> QED
      BY <3>1 DEF Str
  <2> QED
    BY <2>8, <2>9, <2>11, <2>12 DEF ShowsJob, job
<1> QED
  BY <1>1, InvAlways, ReadInvAlways, PTL

=============================================================================
