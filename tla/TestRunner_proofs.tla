--------------------------- MODULE TestRunner_proofs ---------------------------
(***************************************************************************)
(* Proofs about TestRunner, for every set of test cases and both runners.  *)
(***************************************************************************)
EXTENDS TestRunner, TLAPS


-----------------------------------------------------------------------------
(* The operators of the model stay within their types.                     *)

\* The steps of the three lists of a test case are steps.
LEMMA StepTypes ==
    ASSUME tc \in Tests
    PROVE  /\ \A k \in 1..Len(tc.setup) : tc.setup[k] \in Step
           /\ \A k \in 1..Len(tc.teardown) : tc.teardown[k] \in Step
           /\ \A k \in Pos : tc.steps[k] \in Step
           /\ Len(tc.setup) \in Nat /\ Len(tc.steps) \in Nat /\ Len(tc.teardown) \in Nat
           /\ Pos = 1..Len(tc.steps)
  BY TestRunnerAssumption DEF TestCase, Pos

\* Whatever a server answers to a step is a response.
LEMMA ReplyTypes ==
    ASSUME NEW st \in Step
    PROVE  RunnerReplies(st) \subseteq Response
  BY DEF RunnerReplies, HttpReplies, GrpcReplies, Replies, Response, Step, Classes

LEMMA SilentType == Silent \in Response
  BY DEF Silent, Response

\* executeStep returns a response and a verdict on it.
LEMMA OutcomeTypes ==
    ASSUME NEW st \in Step, NEW results
    PROVE  Outcomes(st, results) \subseteq [reply : Response, fails : BOOLEAN]
<1>1. ASSUME NEW r, NEW known
      PROVE  AssertionFails(st, r, known) \in BOOLEAN
  BY DEF AssertionFails
<1>2. ASSUME NEW r \in RunnerReplies(st)
      PROVE  [reply |-> r,
              fails |-> AssertionFails(st, r, Resolved(st.matcherRefs, results))]
                 \in [reply : Response, fails : BOOLEAN]
  BY <1>1, ReplyTypes
<1>3. \A f \in BOOLEAN :
          [reply |-> Silent, fails |-> f] \in [reply : Response, fails : BOOLEAN]
  BY SilentType
<1> QED
  BY <1>2, <1>3 DEF Outcomes

\* collectParallelGroup picks steps of the test, at or after the one it is
\* called for.
LEMMA GroupType ==
    ASSUME tc \in Tests, NEW p \in Pos
    PROVE  Group(p) \subseteq Pos
<1>1. p \in 1..Len(tc.steps) /\ Len(tc.steps) \in Nat /\ Pos = 1..Len(tc.steps)
  BY StepTypes
<1>2. p..Len(tc.steps) \subseteq Pos
  BY <1>1
<1> QED
  BY <1>2 DEF Group, HttpGroup, GrpcGroup

-----------------------------------------------------------------------------
(* Type correctness.                                                       *)

LEMMA InitTypeOK == Init => TypeOK
<1> SUFFICES ASSUME Init PROVE TypeOK
  OBVIOUS
<1>1. at \in [Lists -> Nat] /\ \A l \in Lists : at[l] > 0
  <2>1. at = [l \in Lists |-> 1]
    BY DEF Init
  <2> QED BY <2>1
<1>2. stepResults \in [Ids \cup {NoId} -> Response \cup {NoResult}]
  BY DEF Init
<1>3. reply \in [Pos -> Response]
  BY SilentType DEF Init
<1>4. pc \in [Pos -> PCs] /\ sent \in [Pos -> SUBSET Ids]
      /\ fails \in [Pos -> BOOLEAN] /\ reported \in [Pos -> Nat]
  BY DEF Init, PCs
<1>5. /\ runner \in Runners /\ tc \in Tests
      /\ phase \in Lists \cup {"done", "crashed"}
      /\ executed \subseteq Ids \cup {NoId} /\ batch \subseteq Pos
      /\ mu \in Pos \cup {Nobody} /\ failed \subseteq Pos
      /\ status \in {"", "pass", "fail", "error"}
  BY DEF Init, Lists
<1> QED
  BY <1>1, <1>2, <1>3, <1>4, <1>5 DEF TypeOK

\* Advancing the position in one list keeps the positions' type.
LEMMA AdvanceType ==
    ASSUME at \in [Lists -> Nat], \A l \in Lists : at[l] > 0,
           NEW m \in Lists, NEW n \in Nat, n > 0,
           at' = [at EXCEPT ![m] = n]
    PROVE  at' \in [Lists -> Nat] /\ \A l \in Lists : at'[l] > 0
  OBVIOUS

\* A set-up or teardown step stores a response under an id.
LEMMA StoreType ==
    ASSUME NEW st \in Step, NEW r \in Response,
           stepResults \in [Ids \cup {NoId} -> Response \cup {NoResult}],
           stepResults' = [stepResults EXCEPT ![st.id] = r]
    PROVE  stepResults' \in [Ids \cup {NoId} -> Response \cup {NoResult}]
  BY DEF Step

\* Each action keeps the types: the main goroutine's steps first, then those
\* of a group's goroutines.
LEMMA NextTypeOK == TypeOK /\ [Next]_vars => TypeOK'
<1> SUFFICES ASSUME TypeOK, [Next]_vars
             PROVE  TypeOK'
  OBVIOUS
<1> USE DEF params, locals, report
<1>T. /\ tc \in Tests /\ Pos = 1..Len(tc.steps) /\ Len(tc.steps) \in Nat
      /\ \A k \in Pos : tc.steps[k] \in Step /\ tc.steps[k].id \in Ids \cup {NoId}
                        /\ tc.steps[k].refs \subseteq Ids
  BY StepTypes DEF TypeOK, Step
<1>P. tc' = tc => Pos' = Pos
  BY DEF Pos
<1>A. /\ at \in [Lists -> Nat] /\ \A l \in Lists : at[l] > 0
      /\ stepResults \in [Ids \cup {NoId} -> Response \cup {NoResult}]
      /\ batch \subseteq Pos /\ pc \in [Pos -> PCs] /\ failed \subseteq Pos
      /\ reply \in [Pos -> Response] /\ fails \in [Pos -> BOOLEAN]
      /\ sent \in [Pos -> SUBSET Ids] /\ reported \in [Pos -> Nat]
      /\ executed \subseteq Ids \cup {NoId}
  BY DEF TypeOK
<1>L. "setup" \in Lists /\ "steps" \in Lists /\ "teardown" \in Lists
  BY DEF Lists
<1>R. \A refs, view : refs \subseteq Ids => Resolved(refs, view) \subseteq Ids
  BY DEF Resolved
<1>1. CASE SetupStep
  <2> DEFINE k == at["setup"]
  <2>1. k \in 1..Len(tc.setup)
    BY <1>1, <1>A, <1>L, <1>T, StepTypes DEF SetupStep
  <2>2. tc.setup[k] \in Step
    BY <2>1, <1>T, StepTypes
  <2>3. PICK o \in [reply : Response, fails : BOOLEAN] :
            /\ stepResults' = [stepResults EXCEPT ![tc.setup[k].id] = o.reply]
            /\ IF o.fails
               THEN /\ phase' = "done"
                    /\ status' = "error"
                    /\ UNCHANGED at
               ELSE /\ at' = [at EXCEPT !["setup"] = k + 1]
                    /\ UNCHANGED <<phase, status>>
    BY <1>1, <2>2, OutcomeTypes DEF SetupStep
  <2>4. stepResults' \in [Ids \cup {NoId} -> Response \cup {NoResult}]
    BY <2>2, <2>3, <1>A, StoreType
  <2>5. k + 1 \in Nat /\ k + 1 > 0
    BY <1>A, <1>L
  <2>6. at' \in [Lists -> Nat] /\ \A l \in Lists : at'[l] > 0
    BY <2>3, <2>5, <1>A, <1>L, AdvanceType
  <2>7. phase' \in Lists \cup {"done", "crashed"} /\ status' \in {"", "pass", "fail", "error"}
    BY <2>3 DEF TypeOK
  <2>8. UNCHANGED <<params, executed, batch, mu, locals, report>>
    BY <1>1 DEF SetupStep
  <2> QED BY <2>4, <2>6, <2>7, <2>8, <1>P DEF TypeOK
<1>2. CASE SetupOver
  BY <1>2, <1>P, <1>L DEF SetupOver, TypeOK
<1>3. CASE SkipStep
  <2>1. PICK p \in Pos : at' = [at EXCEPT !["steps"] = p + 1]
    BY <1>3 DEF SkipStep
  <2>2. at' \in [Lists -> Nat] /\ \A l \in Lists : at'[l] > 0
    BY <2>1, <1>A, <1>L, <1>T, AdvanceType
  <2>3. UNCHANGED <<params, phase, stepResults, executed, batch, mu, locals,
                    report, status>>
    BY <1>3 DEF SkipStep
  <2> QED BY <2>2, <2>3, <1>P DEF TypeOK
<1>4. CASE SequentialStep
  <2>1. PICK p \in Pos :
            /\ \E o \in Outcomes(tc.steps[p], stepResults) :
                   /\ stepResults' = [stepResults EXCEPT ![tc.steps[p].id] = o.reply]
                   /\ reply' = [reply EXCEPT ![p] = o.reply]
                   /\ fails' = [fails EXCEPT ![p] = o.fails]
                   /\ failed' = IF o.fails THEN failed \cup {p} ELSE failed
            /\ sent' = [sent EXCEPT ![p] = Resolved(tc.steps[p].refs, stepResults)]
            /\ reported' = [reported EXCEPT ![p] = @ + 1]
            /\ executed' = executed \cup {tc.steps[p].id}
            /\ at' = [at EXCEPT !["steps"] = p + 1]
            /\ UNCHANGED <<params, phase, batch, mu, pc, status>>
    BY <1>4 DEF SequentialStep
  <2>2. PICK o \in [reply : Response, fails : BOOLEAN] :
            /\ stepResults' = [stepResults EXCEPT ![tc.steps[p].id] = o.reply]
            /\ reply' = [reply EXCEPT ![p] = o.reply]
            /\ fails' = [fails EXCEPT ![p] = o.fails]
            /\ failed' = IF o.fails THEN failed \cup {p} ELSE failed
    BY <2>1, <1>T, OutcomeTypes
  <2>3. stepResults' \in [Ids \cup {NoId} -> Response \cup {NoResult}]
    BY <2>2, <1>T, <1>A, StoreType
  <2>4. reply' \in [Pos -> Response] /\ fails' \in [Pos -> BOOLEAN] /\ failed' \subseteq Pos
    BY <2>2, <1>A
  <2>5. sent' \in [Pos -> SUBSET Ids]
    BY <2>1, <1>R, <1>T, <1>A
  <2>6. reported' \in [Pos -> Nat] /\ executed' \subseteq Ids \cup {NoId}
    BY <2>1, <1>A, <1>T
  <2>7. at' \in [Lists -> Nat] /\ \A l \in Lists : at'[l] > 0
    BY <2>1, <1>A, <1>L, <1>T, AdvanceType
  <2> QED BY <2>1, <2>3, <2>4, <2>5, <2>6, <2>7, <1>P DEF TypeOK
<1>5. CASE StartGroup
  <2>1. PICK p \in Pos :
            /\ batch' = Group(p)
            /\ pc' = [k \in Pos |-> IF k \in Group(p) THEN "resolve" ELSE pc[k]]
            /\ UNCHANGED <<params, phase, at, stepResults, executed, mu, sent, reply,
                           fails, report, status>>
    BY <1>5 DEF StartGroup
  <2>2. batch' \subseteq Pos
    BY <2>1, <1>T, GroupType
  <2>3. pc' \in [Pos -> PCs]
    BY <2>1, <1>A DEF PCs
  <2> QED BY <2>1, <2>2, <2>3, <1>P DEF TypeOK
<1>6. CASE \E p \in Pos : GoroutineStep(p)
  <2>1. PICK p \in Pos : GoroutineStep(p)
    BY <1>6
  <2> USE DEF Goroutine
  <2>2. \A label \in PCs : GoTo(p, label) => pc' \in [Pos -> PCs]
    BY <1>A DEF GoTo
  <2>3. \A refs : MapAccessIsFatal(refs) => TypeOK'
    BY <1>P DEF MapAccessIsFatal, TypeOK
  <2>4. CASE Resolve(p)
    <3>1. CASE MapAccessIsFatal(tc.steps[p].refs)
      BY <2>3, <3>1
    <3>2. CASE /\ \E view \in Views :
                      sent' = [sent EXCEPT ![p] = Resolved(tc.steps[p].refs, view)]
               /\ GoTo(p, "call")
               /\ UNCHANGED <<Goroutine, stepResults, mu, reply, fails>>
      <4>1. sent' \in [Pos -> SUBSET Ids]
        <5>1. PICK view \in Views :
                  sent' = [sent EXCEPT ![p] = Resolved(tc.steps[p].refs, view)]
          BY <3>2
        <5>2. Resolved(tc.steps[p].refs, view) \subseteq Ids
          BY <1>R, <1>T
        <5> QED BY <5>1, <5>2, <1>A
      <4>2. pc' \in [Pos -> PCs]
        BY <3>2, <2>2 DEF PCs
      <4> QED BY <3>2, <4>1, <4>2, <1>P DEF TypeOK
    <3> QED BY <2>4, <3>1, <3>2 DEF Resolve
  <2>5. CASE NoResponse(p)
    <3>1. reply' \in [Pos -> Response] /\ fails' \in [Pos -> BOOLEAN]
      BY <2>5, <1>A, SilentType DEF NoResponse
    <3>2. pc' \in [Pos -> PCs]
      BY <2>5, <2>2 DEF PCs, NoResponse
    <3>3. UNCHANGED <<Goroutine, stepResults, mu, sent>>
      BY <2>5 DEF NoResponse
    <3> QED BY <3>1, <3>2, <3>3, <1>P DEF TypeOK
  <2>6. CASE Receive(p)
    <3>1. reply' \in [Pos -> Response]
      BY <2>6, <1>A, <1>T, ReplyTypes DEF Receive
    <3>2. pc' \in [Pos -> PCs]
      BY <2>6, <2>2 DEF PCs, Receive
    <3>3. UNCHANGED <<Goroutine, stepResults, mu, sent, fails>>
      BY <2>6 DEF Receive
    <3> QED BY <3>1, <3>2, <3>3, <1>P DEF TypeOK
  <2>7. CASE Evaluate(p)
    <3>1. CASE MapAccessIsFatal(tc.steps[p].matcherRefs)
      BY <2>3, <3>1
    <3>2. CASE /\ \E view \in Views :
                      fails' = [fails EXCEPT ![p] =
                          AssertionFails(tc.steps[p], reply[p],
                                         Resolved(tc.steps[p].matcherRefs, view))]
               /\ GoTo(p, "lock")
               /\ UNCHANGED <<Goroutine, stepResults, mu, sent, reply>>
      <4>1. ASSUME NEW st, NEW r, NEW known
            PROVE  AssertionFails(st, r, known) \in BOOLEAN
        BY DEF AssertionFails
      <4>2. fails' \in [Pos -> BOOLEAN]
        BY <3>2, <4>1, <1>A
      <4>3. pc' \in [Pos -> PCs]
        BY <3>2, <2>2 DEF PCs
      <4> QED BY <3>2, <4>2, <4>3, <1>P DEF TypeOK
    <3> QED BY <2>7, <3>1, <3>2 DEF Evaluate
  <2>8. CASE Lock(p)
    <3>1. pc' \in [Pos -> PCs]
      BY <2>8, <2>2 DEF PCs, Lock
    <3> QED BY <2>8, <3>1, <1>P DEF Lock, TypeOK
  <2>9. CASE Store(p)
    <3>1. pc' \in [Pos -> PCs]
      BY <2>9, <2>2 DEF PCs, Store
    <3>2. stepResults' \in [Ids \cup {NoId} -> Response \cup {NoResult}]
      BY <2>9, <1>T, <1>A, StoreType DEF Store, StoreKey
    <3>3. mu' = Nobody /\ UNCHANGED <<Goroutine, sent, reply, fails>>
      BY <2>9 DEF Store
    <3> QED BY <3>1, <3>2, <3>3, <1>P DEF TypeOK
  <2> QED BY <2>1, <2>4, <2>5, <2>6, <2>7, <2>8, <2>9 DEF GoroutineStep
<1>7. CASE Join
  <2>1. executed' \subseteq Ids \cup {NoId}
    <3>1. executed' = executed \cup {tc.steps[p].id : p \in batch}
      BY <1>7 DEF Join, Marked
    <3> QED BY <3>1, <1>T, <1>A
  <2>2. reported' \in [Pos -> Nat]
    BY <1>7, <1>A DEF Join
  <2>3. pc' \in [Pos -> PCs]
    BY <1>7, <1>A DEF Join, PCs
  <2>4. at' \in [Lists -> Nat] /\ \A l \in Lists : at'[l] > 0
    <3>1. at' = [at EXCEPT !["steps"] = at["steps"] + 1]
      BY <1>7 DEF Join
    <3> QED BY <3>1, <1>A, <1>L, AdvanceType
  <2>5. failed' \subseteq Pos /\ batch' = {}
    BY <1>7, <1>A DEF Join
  <2>6. UNCHANGED <<params, phase, stepResults, mu, sent, reply, fails, status>>
    BY <1>7 DEF Join
  <2> QED BY <2>1, <2>2, <2>3, <2>4, <2>5, <2>6, <1>P DEF TypeOK
<1>8. CASE StepsOver
  BY <1>8, <1>P, <1>L DEF StepsOver, TypeOK
<1>9. CASE TeardownStep
  <2> DEFINE k == at["teardown"]
  <2>1. k \in 1..Len(tc.teardown)
    BY <1>9, <1>A, <1>L, <1>T, StepTypes DEF TeardownStep
  <2>2. tc.teardown[k] \in Step
    BY <2>1, <1>T, StepTypes
  <2>3. PICK o \in [reply : Response, fails : BOOLEAN] :
            stepResults' = [stepResults EXCEPT ![tc.teardown[k].id] = o.reply]
    BY <1>9, <2>2, OutcomeTypes DEF TeardownStep
  <2>4. stepResults' \in [Ids \cup {NoId} -> Response \cup {NoResult}]
    BY <2>2, <2>3, <1>A, StoreType
  <2>5. at' = [at EXCEPT !["teardown"] = k + 1]
    BY <1>9 DEF TeardownStep
  <2>6. at' \in [Lists -> Nat] /\ \A l \in Lists : at'[l] > 0
    BY <2>5, <1>A, <1>L, AdvanceType
  <2>7. UNCHANGED <<params, phase, executed, batch, mu, locals, report, status>>
    BY <1>9 DEF TeardownStep
  <2> QED BY <2>4, <2>6, <2>7, <1>P DEF TypeOK
<1>10. CASE Verdict
  BY <1>10, <1>P DEF Verdict, TypeOK
<1>11. CASE Terminated \/ UNCHANGED vars
  BY <1>11, <1>P DEF Terminated, vars, TypeOK
<1> QED
  BY <1>1, <1>2, <1>3, <1>4, <1>5, <1>6, <1>7, <1>8, <1>9, <1>10, <1>11 DEF Next

\* Every variable of a test run keeps its type, whatever the test case looks
\* like and whatever the server answers.
THEOREM TypeCorrect == Spec => []TypeOK
<1> QED BY InitTypeOK, NextTypeOK, PTL DEF Spec

-----------------------------------------------------------------------------
(* No failure is lost.  The invariant is strengthened with what the steps   *)
(* of a group know before they are joined: whoever has a verdict on its     *)
(* response, and has not been joined, counts a broken assertion as failure. *)

\* A goroutine exists exactly for the steps of the running group.
GoroutinesOfBatch == \A p \in Pos : p \in batch <=> pc[p] # "idle"

\* Past Evaluate, a broken assertion shows in the step's verdict.
JudgedByGoroutine ==
    \A p \in Pos : pc[p] \in {"lock", "store", "over"} /\ Broken(p) => fails[p]

\* Whatever has been appended to allResults with a broken assertion has been
\* appended to allFailures.
JudgedByMain == \A p \in Pos : Finished(p) /\ Broken(p) => p \in failed

\* The status is set last, and from the failures.
StatusFromFailures ==
    /\ phase # "done" => status = ""
    /\ status = "pass" => failed = {}

FailureInv ==
    /\ TypeOK
    /\ GoroutinesOfBatch
    /\ WritesAreLocked
    /\ JudgedByGoroutine
    /\ JudgedByMain
    /\ StatusFromFailures

\* evaluateAssertions reports a failure for a broken assertion, whichever
\* templates resolved.
LEMMA BreaksFails ==
    ASSUME NEW st, NEW r, NEW known, Breaks(st, r)
    PROVE  AssertionFails(st, r, known)
<1>1. CASE "plain" \in st.asserts \ r.meets
  BY <1>1 DEF AssertionFails, Evaluated
<1>2. CASE "body" \in st.asserts \ r.meets /\ r.kind # "opaque"
  BY <1>2 DEF AssertionFails, Evaluated
<1> QED BY <1>1, <1>2 DEF Breaks

\* executeStep returns a failure with a response that breaks an assertion.
LEMMA BreaksFailsOutcome ==
    ASSUME NEW st, NEW results, NEW o \in Outcomes(st, results), Breaks(st, o.reply)
    PROVE  o.fails
<1>1. o.reply # Silent
  BY DEF Breaks
<1>2. PICK r \in RunnerReplies(st) :
          o = [reply |-> r,
               fails |-> AssertionFails(st, r, Resolved(st.matcherRefs, results))]
  BY <1>1 DEF Outcomes
<1>3. o.reply = r /\ o.fails = AssertionFails(st, r, Resolved(st.matcherRefs, results))
  BY <1>2
<1> QED BY <1>3, BreaksFails

LEMMA PosType == TypeOK => Pos \subseteq Nat
<1> SUFFICES ASSUME TypeOK PROVE Pos \subseteq Nat
  OBVIOUS
<1>1. tc \in Tests
  BY DEF TypeOK
<1> QED BY <1>1, StepTypes

LEMMA InitFailureInv == Init => FailureInv
<1> SUFFICES ASSUME Init PROVE FailureInv
  OBVIOUS
<1>1. TypeOK
  BY InitTypeOK
<1>2. Pos \subseteq Nat
  BY <1>1, PosType
<1>3. \A p \in Pos : pc[p] = "idle" /\ reported[p] = 0
  BY DEF Init
<1>4. batch = {} /\ mu = Nobody /\ status = ""
  BY DEF Init
<1>5. WritesAreLocked
  BY <1>2, <1>3, <1>4, TestRunnerAssumption DEF WritesAreLocked
<1>6. GoroutinesOfBatch /\ JudgedByGoroutine
  BY <1>3, <1>4 DEF GoroutinesOfBatch, JudgedByGoroutine
<1>7. JudgedByMain
  BY <1>3 DEF JudgedByMain, Finished
<1>8. StatusFromFailures
  BY <1>4 DEF StatusFromFailures
<1> QED
  BY <1>1, <1>5, <1>6, <1>7, <1>8 DEF FailureInv

LEMMA NextFailureInv == FailureInv /\ [Next]_vars => FailureInv'
<1> SUFFICES ASSUME FailureInv, [Next]_vars
             PROVE  FailureInv'
  OBVIOUS
<1>0. TypeOK /\ TypeOK'
  BY NextTypeOK DEF FailureInv
<1> USE DEF params, locals, report
<1>P. tc' = tc => Pos' = Pos
  BY DEF Pos
<1>N. Pos \subseteq Nat /\ Nobody \notin Pos
  BY <1>0, PosType, TestRunnerAssumption
<1>A. /\ batch \subseteq Pos /\ pc \in [Pos -> PCs] /\ reply \in [Pos -> Response]
      /\ fails \in [Pos -> BOOLEAN] /\ reported \in [Pos -> Nat] /\ failed \subseteq Pos
  BY <1>0 DEF TypeOK
<1>B. tc' = tc /\ UNCHANGED reply => \A p \in Pos : Broken(p)' <=> Broken(p)
  BY DEF Broken
<1>U. ASSUME UNCHANGED <<tc, batch, mu, pc, reply, fails, reported, failed>>,
             phase' # "done" => status' = "", status' = "pass" => failed = {}
      PROVE  FailureInv'
  BY <1>0, <1>P, <1>B, <1>U DEF FailureInv, GoroutinesOfBatch, WritesAreLocked,
     JudgedByGoroutine, JudgedByMain, StatusFromFailures, Finished
<1>1. CASE SetupStep
  <2>1. UNCHANGED <<tc, batch, mu, pc, reply, fails, reported, failed>>
    BY <1>1 DEF SetupStep
  <2>2. status = ""
    BY <1>1 DEF SetupStep, FailureInv, StatusFromFailures
  <2>3. \/ phase' = "done" /\ status' = "error"
       \/ UNCHANGED <<phase, status>>
    BY <1>1 DEF SetupStep
  <2>4. (phase' # "done" => status' = "") /\ status' # "pass"
    BY <2>2, <2>3
  <2> QED BY <2>1, <2>4, <1>U
<1>2. CASE SetupOver \/ SkipStep \/ StepsOver \/ TeardownStep
  <2>1. UNCHANGED <<tc, batch, mu, pc, reply, fails, reported, failed, status>>
    BY <1>2 DEF SetupOver, SkipStep, StepsOver, TeardownStep
  <2>2. phase # "done"
    BY <1>2 DEF SetupOver, SkipStep, StepsOver, TeardownStep, AtStep
  <2>3. status = ""
    BY <2>2 DEF FailureInv, StatusFromFailures
  <2> QED BY <2>1, <2>3, <1>U
<1>3. CASE SequentialStep
  <2>1. PICK p \in Pos :
            /\ AtStep(p)
            /\ \E o \in Outcomes(tc.steps[p], stepResults) :
                   /\ reply' = [reply EXCEPT ![p] = o.reply]
                   /\ fails' = [fails EXCEPT ![p] = o.fails]
                   /\ failed' = IF o.fails THEN failed \cup {p} ELSE failed
            /\ reported' = [reported EXCEPT ![p] = @ + 1]
            /\ UNCHANGED <<params, phase, batch, mu, pc, status>>
    BY <1>3 DEF SequentialStep
  <2>2. PICK o \in Outcomes(tc.steps[p], stepResults) :
            /\ reply' = [reply EXCEPT ![p] = o.reply]
            /\ failed' = IF o.fails THEN failed \cup {p} ELSE failed
    BY <2>1
  <2>3. tc' = tc /\ phase = "steps" /\ batch = {}
    BY <2>1 DEF AtStep
  <2>4. \A q \in Pos : pc[q] = "idle"
    BY <2>3 DEF FailureInv, GoroutinesOfBatch
  <2>5. GoroutinesOfBatch' /\ WritesAreLocked' /\ JudgedByGoroutine'
    BY <2>1, <2>3, <2>4, <1>P DEF FailureInv, GoroutinesOfBatch, WritesAreLocked,
       JudgedByGoroutine
  <2>6. ASSUME NEW q \in Pos, Finished(q)', Broken(q)' PROVE q \in failed'
    <3>1. CASE q = p
      <4>1. reply'[p] = o.reply
        BY <2>2, <1>A
      <4>2. Breaks(tc.steps[p], o.reply)
        BY <2>6, <3>1, <4>1, <2>3 DEF Broken
      <4> QED BY <4>2, <2>2, <3>1, BreaksFailsOutcome
    <3>2. CASE q # p
      <4>1. reply'[q] = reply[q] /\ reported'[q] = reported[q]
        BY <2>1, <2>2, <3>2, <1>A
      <4>2. Finished(q) /\ Broken(q)
        BY <2>6, <4>1, <2>1, <2>3 DEF Finished, Broken
      <4> QED BY <4>2, <2>2 DEF FailureInv, JudgedByMain
    <3> QED BY <3>1, <3>2
  <2>7. JudgedByMain'
    BY <2>6, <2>3, <1>P DEF JudgedByMain
  <2>8. StatusFromFailures'
    BY <2>1, <2>3 DEF FailureInv, StatusFromFailures
  <2> QED BY <1>0, <2>5, <2>7, <2>8 DEF FailureInv
<1>4. CASE StartGroup
  <2>1. PICK p \in Pos :
            /\ AtStep(p)
            /\ batch' = Group(p)
            /\ pc' = [k \in Pos |-> IF k \in Group(p) THEN "resolve" ELSE pc[k]]
            /\ UNCHANGED <<params, phase, mu, reply, fails, report, status>>
    BY <1>4 DEF StartGroup
  <2>2. tc' = tc /\ phase = "steps" /\ batch = {}
    BY <2>1 DEF AtStep
  <2>3. \A q \in Pos : pc[q] = "idle"
    BY <2>2 DEF FailureInv, GoroutinesOfBatch
  <2>4. \A q \in Pos : pc'[q] = IF q \in batch' THEN "resolve" ELSE "idle"
    BY <2>1, <2>3
  <2>5. GoroutinesOfBatch' /\ JudgedByGoroutine'
    BY <2>2, <2>4, <1>P DEF GoroutinesOfBatch, JudgedByGoroutine
  <2>6. WritesAreLocked'
    BY <2>1, <2>2, <2>3, <2>4, <1>P DEF FailureInv, WritesAreLocked
  <2>7. JudgedByMain'
    BY <2>1, <2>2, <1>P, <1>B DEF FailureInv, JudgedByMain, Finished
  <2>8. StatusFromFailures'
    BY <2>1, <2>2 DEF FailureInv, StatusFromFailures
  <2> QED BY <1>0, <2>5, <2>6, <2>7, <2>8 DEF FailureInv
<1>5. CASE \E p \in Pos : GoroutineStep(p)
  <2>1. PICK p \in Pos : GoroutineStep(p)
    BY <1>5
  <2> USE DEF Goroutine
  <2>2. phase = "steps" /\ tc' = tc /\ UNCHANGED <<batch, reported, failed, status>>
    BY <2>1 DEF GoroutineStep, Resolve, NoResponse, Receive, Evaluate, Lock, Store,
       MapAccessIsFatal
  <2>3. status = "" /\ StatusFromFailures'
    BY <2>2 DEF FailureInv, StatusFromFailures
  <2>4. pc[p] # "idle" /\ p \in batch
    BY <2>1, <1>A DEF GoroutineStep, Resolve, NoResponse, Receive, Evaluate, Lock, Store,
       FailureInv, GoroutinesOfBatch
  <2>5. ASSUME reply' = reply \/ \E r : reply' = [reply EXCEPT ![p] = r]
        PROVE  JudgedByMain'
    <3>1. \A q \in Pos : q \notin batch => reply'[q] = reply[q]
      BY <2>4, <2>5, <1>A
    <3>2. \A q \in Pos : Finished(q)' /\ Broken(q)' => Finished(q) /\ Broken(q)
      BY <3>1, <2>2 DEF Finished, Broken
    <3> QED BY <3>2, <2>2, <1>P DEF FailureInv, JudgedByMain
  <2>6. ASSUME NEW refs, MapAccessIsFatal(refs)
        PROVE  FailureInv'
    <3>1. UNCHANGED <<tc, batch, mu, pc, reply, fails, reported, failed, status>>
      BY <2>6 DEF MapAccessIsFatal
    <3> QED BY <3>1, <2>3, <1>U
  <2>7. ASSUME NEW label \in PCs \ {"idle", "store"}, pc[p] # "store", GoTo(p, label), mu' = mu
        PROVE  GoroutinesOfBatch' /\ WritesAreLocked'
    <3>1. \A q \in Pos : pc'[q] = IF q = p THEN label ELSE pc[q]
      BY <2>7, <1>A DEF GoTo
    <3> QED BY <3>1, <2>2, <2>4, <2>7, <1>P DEF FailureInv, GoroutinesOfBatch, WritesAreLocked
  <2>8. CASE Resolve(p)
    <3>1. CASE MapAccessIsFatal(tc.steps[p].refs)
      BY <2>6, <3>1
    <3>2. CASE GoTo(p, "call") /\ UNCHANGED <<mu, reply, fails>>
      <4>1. GoroutinesOfBatch' /\ WritesAreLocked'
        BY <2>7, <2>8, <3>2 DEF PCs, Resolve
      <4>2. JudgedByGoroutine'
        BY <3>2, <2>2, <1>A, <1>P, <1>B DEF FailureInv, JudgedByGoroutine, GoTo
      <4> QED BY <1>0, <2>3, <2>5, <3>2, <4>1, <4>2 DEF FailureInv
    <3> QED BY <2>8, <3>1, <3>2 DEF Resolve
  <2>9. CASE NoResponse(p)
    <3>1. /\ reply' = [reply EXCEPT ![p] = Silent]
          /\ fails' = [fails EXCEPT ![p] = (pc[p] = "call")]
          /\ GoTo(p, "lock") /\ mu' = mu /\ pc[p] # "store"
      BY <2>9 DEF NoResponse
    <3>2. GoroutinesOfBatch' /\ WritesAreLocked'
      BY <2>7, <3>1 DEF PCs
    <3>3. ~Broken(p)'
      BY <3>1, <1>A DEF Broken, Breaks
    <3>4. \A q \in Pos \ {p} : pc'[q] = pc[q] /\ fails'[q] = fails[q] /\ (Broken(q)' <=> Broken(q))
      BY <3>1, <2>2, <1>A DEF GoTo, Broken
    <3>5. JudgedByGoroutine'
      BY <3>3, <3>4, <2>2, <1>P DEF FailureInv, JudgedByGoroutine
    <3> QED BY <1>0, <2>3, <2>5, <3>1, <3>2, <3>5 DEF FailureInv
  <2>10. CASE Receive(p)
    <3>1. /\ \E r : reply' = [reply EXCEPT ![p] = r]
          /\ GoTo(p, "evaluate") /\ UNCHANGED <<mu, fails>> /\ pc[p] # "store"
      BY <2>10 DEF Receive
    <3>2. GoroutinesOfBatch' /\ WritesAreLocked'
      BY <2>7, <3>1 DEF PCs
    <3>3. pc'[p] = "evaluate"
      BY <3>1, <1>A DEF GoTo
    <3>4. \A q \in Pos \ {p} : pc'[q] = pc[q] /\ (Broken(q)' <=> Broken(q))
      BY <3>1, <2>2, <1>A DEF GoTo, Broken
    <3>5. JudgedByGoroutine'
      BY <3>1, <3>3, <3>4, <2>2, <1>P DEF FailureInv, JudgedByGoroutine
    <3> QED BY <1>0, <2>3, <2>5, <3>1, <3>2, <3>5 DEF FailureInv
  <2>11. CASE Evaluate(p)
    <3>1. CASE MapAccessIsFatal(tc.steps[p].matcherRefs)
      BY <2>6, <3>1
    <3>2. CASE /\ \E view \in Views :
                      fails' = [fails EXCEPT ![p] =
                          AssertionFails(tc.steps[p], reply[p],
                                         Resolved(tc.steps[p].matcherRefs, view))]
               /\ GoTo(p, "lock")
               /\ UNCHANGED <<mu, reply>>
      <4>1. GoroutinesOfBatch' /\ WritesAreLocked'
        BY <2>7, <2>11, <3>2 DEF PCs, Evaluate
      <4>2. Broken(p) => fails'[p]
        <5>1. PICK view : fails' = [fails EXCEPT ![p] =
                          AssertionFails(tc.steps[p], reply[p],
                                         Resolved(tc.steps[p].matcherRefs, view))]
          BY <3>2
        <5> QED BY <5>1, <1>A, BreaksFails DEF Broken
      <4>3. \A q \in Pos \ {p} : pc'[q] = pc[q] /\ fails'[q] = fails[q]
        BY <3>2, <1>A DEF GoTo
      <4>4. JudgedByGoroutine'
        BY <4>2, <4>3, <3>2, <2>2, <1>P, <1>B DEF FailureInv, JudgedByGoroutine
      <4> QED BY <1>0, <2>3, <2>5, <3>2, <4>1, <4>4 DEF FailureInv
    <3> QED BY <2>11, <3>1, <3>2 DEF Evaluate
  <2>12. CASE Lock(p)
    <3>1. /\ pc[p] = "lock" /\ mu = Nobody /\ mu' = p /\ UNCHANGED <<reply, fails>>
          /\ \A q \in Pos : pc'[q] = IF q = p THEN "store" ELSE pc[q]
      BY <2>12, <1>A DEF Lock, GoTo
    <3>2. GoroutinesOfBatch' /\ WritesAreLocked'
      BY <3>1, <2>2, <2>4, <1>N, <1>P DEF FailureInv, GoroutinesOfBatch, WritesAreLocked
    <3>3. JudgedByGoroutine'
      BY <3>1, <2>2, <1>P, <1>B DEF FailureInv, JudgedByGoroutine
    <3> QED BY <1>0, <2>3, <2>5, <3>1, <3>2, <3>3 DEF FailureInv
  <2>13. CASE Store(p)
    <3>1. /\ pc[p] = "store" /\ mu' = Nobody /\ UNCHANGED <<reply, fails>>
          /\ \A q \in Pos : pc'[q] = IF q = p THEN "over" ELSE pc[q]
      BY <2>13, <1>A DEF Store, GoTo
    <3>2. mu = p
      BY <3>1 DEF FailureInv, WritesAreLocked
    <3>3. GoroutinesOfBatch' /\ WritesAreLocked'
      BY <3>1, <3>2, <2>2, <2>4, <1>N, <1>P DEF FailureInv, GoroutinesOfBatch, WritesAreLocked
    <3>4. JudgedByGoroutine'
      BY <3>1, <2>2, <1>P, <1>B DEF FailureInv, JudgedByGoroutine
    <3> QED BY <1>0, <2>3, <2>5, <3>1, <3>3, <3>4 DEF FailureInv
  <2> QED BY <2>1, <2>8, <2>9, <2>10, <2>11, <2>12, <2>13 DEF GoroutineStep
<1>6. CASE Join
  <2>1. /\ phase = "steps" /\ tc' = tc /\ batch' = {}
        /\ \A p \in batch : pc[p] = "over"
        /\ pc' = [p \in Pos |-> IF p \in batch THEN "idle" ELSE pc[p]]
        /\ reported' = [p \in Pos |-> IF p \in batch THEN reported[p] + 1 ELSE reported[p]]
        /\ failed' = failed \cup {p \in batch : fails[p]}
        /\ UNCHANGED <<phase, mu, reply, fails, status>>
    BY <1>6 DEF Join
  <2>2. \A p \in Pos : pc'[p] = "idle" /\ pc[p] # "store"
    BY <2>1 DEF FailureInv, GoroutinesOfBatch
  <2>3. GoroutinesOfBatch' /\ WritesAreLocked' /\ JudgedByGoroutine'
    BY <2>1, <2>2, <1>P DEF FailureInv, GoroutinesOfBatch, WritesAreLocked, JudgedByGoroutine
  <2>4. ASSUME NEW p \in Pos, Finished(p)', Broken(p)' PROVE p \in failed'
    <3>1. Broken(p)
      BY <2>1, <2>4, <1>B
    <3>2. CASE p \in batch
      BY <2>1, <3>1, <3>2 DEF FailureInv, JudgedByGoroutine
    <3>3. CASE p \notin batch
      <4>1. Finished(p)
        BY <2>1, <2>4, <3>3 DEF Finished
      <4> QED BY <2>1, <3>1, <4>1 DEF FailureInv, JudgedByMain
    <3> QED BY <3>2, <3>3
  <2>5. JudgedByMain'
    BY <2>1, <2>4, <1>P DEF JudgedByMain
  <2>6. StatusFromFailures'
    BY <2>1 DEF FailureInv, StatusFromFailures
  <2> QED BY <1>0, <2>3, <2>5, <2>6 DEF FailureInv
<1>7. CASE Verdict
  <2>1. UNCHANGED <<tc, batch, mu, pc, reply, fails, reported, failed>>
    BY <1>7 DEF Verdict
  <2>2. phase' = "done" /\ (status' = "pass" => failed = {})
    BY <1>7 DEF Verdict
  <2> QED BY <2>1, <2>2, <1>U
<1>8. CASE Terminated \/ UNCHANGED vars
  <2>1. UNCHANGED <<tc, batch, mu, pc, reply, fails, reported, failed, phase, status>>
    BY <1>8 DEF Terminated, vars
  <2>2. (phase' # "done" => status' = "") /\ (status' = "pass" => failed = {})
    BY <2>1 DEF FailureInv, StatusFromFailures
  <2> QED BY <2>1, <2>2, <1>U
<1> QED
  BY <1>1, <1>2, <1>3, <1>4, <1>5, <1>6, <1>7, <1>8 DEF Next

LEMMA FailureInvCorrect == Spec => []FailureInv
<1> QED BY InitFailureInv, NextFailureInv, PTL DEF Spec

\* No failure is lost, for any test case: a step that was executed and broke an
\* assertion is among the failures, and the test does not pass.
THEOREM FailuresAreKept == Spec => []NoFailureLost
<1>1. FailureInv => NoFailureLost
  BY DEF FailureInv, JudgedByMain, StatusFromFailures, NoFailureLost
<1> QED BY <1>1, FailureInvCorrect, PTL

\* The shared map is written only under the mutex, for any test case.
THEOREM WritesLocked == Spec => []WritesAreLocked
<1>1. FailureInv => WritesAreLocked
  BY DEF FailureInv
<1> QED BY <1>1, FailureInvCorrect, PTL

-----------------------------------------------------------------------------
(* A running group is never stuck, and the run never goes back: the two     *)
(* halves, for every instance, of the termination that TLC checks as Ends.  *)

\* wg.Wait holds the main goroutine back only as long as a goroutine of the
\* group can go on, for groups of any size: whoever waits for the mutex finds it
\* free, or held by a goroutine that is about to unlock it.
THEOREM GroupsNeverDeadlock == Spec => []SomeoneGoesOn
<1>1. FailureInv => SomeoneGoesOn
  <2> SUFFICES ASSUME FailureInv,
                      NEW p \in batch, pc[p] # "over"
               PROVE  \/ \E q \in batch : pc[q] \in {"resolve", "call", "evaluate"}
                      \/ mu = Nobody /\ \E q \in batch : pc[q] = "lock"
                      \/ mu \in batch /\ pc[mu] = "store"
    BY DEF SomeoneGoesOn
  <2>1. /\ p \in Pos /\ batch \subseteq Pos
        /\ pc[p] \in PCs
        /\ mu \in Pos \cup {Nobody}
    BY DEF FailureInv, TypeOK
  <2>2. pc[p] # "idle"
    BY <2>1 DEF FailureInv, GoroutinesOfBatch
  <2>3. CASE pc[p] \in {"resolve", "call", "evaluate"}
    BY <2>3
  <2>4. CASE pc[p] = "store"
    BY <2>4, <2>1 DEF FailureInv, WritesAreLocked
  <2>5. CASE pc[p] = "lock"
    <3>1. CASE mu = Nobody
      BY <3>1, <2>5
    <3>2. CASE mu # Nobody
      <4>1. mu \in Pos /\ pc[mu] = "store"
        BY <3>2, <2>1 DEF FailureInv, WritesAreLocked
      <4>2. mu \in batch
        BY <4>1 DEF FailureInv, GoroutinesOfBatch
      <4> QED BY <4>1, <4>2
    <3> QED BY <3>1, <3>2
  <2> QED BY <2>1, <2>2, <2>3, <2>4, <2>5 DEF PCs
<1> QED BY <1>1, FailureInvCorrect, PTL

\* The main goroutine waits for a group before a step of the list.
GroupAtStep == batch # {} => at["steps"] \in Pos

LEMMA NextGroupAtStep == TypeOK /\ GroupAtStep /\ [Next]_vars => GroupAtStep'
<1> SUFFICES ASSUME TypeOK, GroupAtStep, [Next]_vars, batch' # {}
             PROVE  at'["steps"] \in Pos'
  BY DEF GroupAtStep
<1> USE DEF params, locals, report
<1>P. tc' = tc => Pos' = Pos
  BY DEF Pos
<1>A. at \in [Lists -> Nat] /\ {"setup", "steps", "teardown"} = Lists
  BY DEF TypeOK, Lists
<1>1. CASE UNCHANGED <<tc, at, batch>>
  BY <1>1, <1>P DEF GroupAtStep
<1>2. CASE SetupStep
  <2>1. tc' = tc /\ batch' = batch /\ (at' = at \/ at' = [at EXCEPT !["setup"] = @ + 1])
    BY <1>2 DEF SetupStep
  <2>2. at'["steps"] = at["steps"]
    BY <2>1, <1>A
  <2> QED BY <2>1, <2>2, <1>P DEF GroupAtStep
<1>3. CASE TeardownStep
  <2>1. tc' = tc /\ batch' = batch /\ at' = [at EXCEPT !["teardown"] = @ + 1]
    BY <1>3 DEF TeardownStep
  <2>2. at'["steps"] = at["steps"]
    BY <2>1, <1>A
  <2> QED BY <2>1, <2>2, <1>P DEF GroupAtStep
<1>4. CASE SkipStep \/ SequentialStep \/ Join
  BY <1>4 DEF SkipStep, SequentialStep, Join, AtStep
<1>5. CASE StartGroup
  BY <1>5, <1>P DEF StartGroup, AtStep
<1>6. CASE \E p \in Pos : GoroutineStep(p)
  BY <1>6, <1>1 DEF GoroutineStep, Resolve, NoResponse, Receive, Evaluate, Lock, Store,
     MapAccessIsFatal, Goroutine
<1>7. CASE SetupOver \/ StepsOver \/ Verdict \/ Terminated \/ UNCHANGED vars
  BY <1>7, <1>1 DEF SetupOver, StepsOver, Verdict, Terminated, vars
<1> QED BY <1>2, <1>3, <1>4, <1>5, <1>6, <1>7 DEF Next

LEMMA GroupAtStepCorrect == Spec => []GroupAtStep
<1>1. Init => GroupAtStep
  BY DEF Init, GroupAtStep
<1> QED BY <1>1, InitTypeOK, NextTypeOK, NextGroupAtStep, PTL DEF Spec

\* A goroutine only ever gets further, or the process is killed.
LEMMA GoroutineHeadway ==
    ASSUME TypeOK, GoroutinesOfBatch, NEW p \in Pos, GoroutineStep(p)
    PROVE  Headway
<1>1. phase = "steps" /\ pc \in [Pos -> PCs]
  BY DEF TypeOK, GoroutineStep, Resolve, NoResponse, Receive, Evaluate, Lock, Store
<1>2. ASSUME NEW refs, MapAccessIsFatal(refs)
      PROVE  Headway
  BY <1>1, <1>2 DEF MapAccessIsFatal, Headway, Stretch
<1>3. ASSUME NEW label, GoTo(p, label), pc[p] # "idle",
             Stage(pc[p]) < Stage(label), UNCHANGED Goroutine
      PROVE  Headway
  <2>1. p \in batch
    BY <1>3 DEF GoroutinesOfBatch
  <2>2. pc'[p] = label /\ \A q \in Pos \ {p} : pc'[q] = pc[q]
    BY <1>3, <1>1 DEF GoTo
  <2>3. UNCHANGED <<phase, at, batch>>
    BY <1>3 DEF Goroutine
  <2> QED BY <2>1, <2>2, <2>3, <1>3 DEF Headway
<1>4. CASE Resolve(p)
  <2>1. CASE GoTo(p, "call") /\ UNCHANGED Goroutine
    BY <2>1, <1>3, <1>4 DEF Resolve, Stage
  <2> QED BY <1>2, <1>4, <2>1 DEF Resolve
<1>5. CASE NoResponse(p)
  BY <1>3, <1>5 DEF NoResponse, Stage
<1>6. CASE Receive(p)
  BY <1>3, <1>6 DEF Receive, Stage
<1>7. CASE Evaluate(p)
  <2>1. CASE GoTo(p, "lock") /\ UNCHANGED Goroutine
    BY <2>1, <1>3, <1>7 DEF Evaluate, Stage
  <2> QED BY <1>2, <1>7, <2>1 DEF Evaluate
<1>8. CASE Lock(p)
  BY <1>3, <1>8 DEF Lock, Stage
<1>9. CASE Store(p)
  BY <1>3, <1>9 DEF Store, Stage
<1> QED BY <1>4, <1>5, <1>6, <1>7, <1>8, <1>9 DEF GoroutineStep

LEMMA NextHeadway ==
    ASSUME TypeOK, GoroutinesOfBatch, GroupAtStep, Next
    PROVE  Headway \/ UNCHANGED vars
<1> USE DEF params, locals, report
<1>T. tc \in Tests /\ Pos = 1..Len(tc.steps) /\ Len(tc.steps) \in Nat
  BY StepTypes DEF TypeOK
<1>1. CASE SetupStep
  <2>1. \/ phase = "setup" /\ phase' = "done"
        \/ /\ phase = "setup" /\ phase' = phase /\ at["setup"] <= Len(tc["setup"])
           /\ at' = [at EXCEPT !["setup"] = @ + 1]
    BY <1>1 DEF SetupStep
  <2> QED BY <2>1 DEF Headway, Stretch, Lists
<1>2. CASE SetupOver \/ StepsOver \/ Verdict
  <2>1. \/ phase = "setup" /\ phase' = "steps"
        \/ phase = "steps" /\ phase' = "teardown"
        \/ phase = "teardown" /\ phase' = "done"
    BY <1>2 DEF SetupOver, StepsOver, Verdict
  <2> QED BY <2>1 DEF Headway, Stretch
<1>3. CASE SkipStep \/ SequentialStep
  <2>1. /\ phase = "steps" /\ phase' = phase /\ at["steps"] \in Pos
        /\ at' = [at EXCEPT !["steps"] = at["steps"] + 1]
    BY <1>3 DEF SkipStep, SequentialStep, AtStep
  <2>2. at["steps"] <= Len(tc["steps"])
    BY <2>1, <1>T
  <2> QED BY <2>1, <2>2 DEF Headway, Lists
<1>4. CASE StartGroup
  <2>1. UNCHANGED <<phase, at>> /\ batch = {} /\ batch' # {}
    BY <1>4 DEF StartGroup, AtStep, StartsGroup
  <2> QED BY <2>1 DEF Headway
<1>5. CASE Join
  <2>1. /\ phase = "steps" /\ phase' = phase /\ at["steps"] \in Pos
        /\ at' = [at EXCEPT !["steps"] = @ + 1]
    BY <1>5 DEF Join, GroupAtStep
  <2>2. at["steps"] <= Len(tc["steps"])
    BY <2>1, <1>T
  <2> QED BY <2>1, <2>2 DEF Headway, Lists
<1>6. CASE TeardownStep
  <2>1. /\ phase = "teardown" /\ phase' = phase
        /\ at["teardown"] <= Len(tc["teardown"])
        /\ at' = [at EXCEPT !["teardown"] = @ + 1]
    BY <1>6 DEF TeardownStep
  <2> QED BY <2>1 DEF Headway, Lists
<1>7. CASE \E p \in Pos : GoroutineStep(p)
  BY <1>7, GoroutineHeadway
<1>8. CASE Terminated
  BY <1>8 DEF Terminated
<1> QED BY <1>1, <1>2, <1>3, <1>4, <1>5, <1>6, <1>7, <1>8 DEF Next

\* Every step of a run of any test, however its groups interleave, uses up some
\* of a finite stock of phases, list entries, groups and goroutine stages.
THEOREM NothingGoesBack == Spec => RunsMakeHeadway
<1>1. FailureInv /\ GroupAtStep /\ [Next]_vars => [Headway]_vars
  BY NextHeadway DEF FailureInv
<1> QED BY <1>1, FailureInvCorrect, GroupAtStepCorrect, PTL DEF Spec, RunsMakeHeadway

-----------------------------------------------------------------------------
(* The order of the steps.                                                 *)

-----------------------------------------------------------------------------
(* The shape of well-formed test cases.                                    *)

\* In a well-formed test the ids tell the steps apart.
LEMMA IdsAreUnique ==
    ASSUME tc \in Tests, WellFormed(tc)
    PROVE  \A j, k \in Pos :
               /\ tc.steps[j].id # NoId
               /\ tc.steps[j].id = tc.steps[k].id => j = k
<1>1. tc \in TestCase
  BY TestRunnerAssumption
<1>2. "steps" \in DOMAIN tc /\ tc["steps"] = tc.steps
  BY <1>1 DEF TestCase
<1> QED
  BY <1>2 DEF WellFormed, UniqueIds, Pos

\* The steps that TestRunner takes for members of groups are those with a link.
LEMMA GroupedAreLinking ==
    ASSUME tc \in Tests, WellFormed(tc), NEW k \in Pos
    PROVE  /\ InGroup(k) <=> tc.steps[k].pw # NoId
           /\ tc.steps[k].pw # NoId <=>
                 \E m \in Pos : tc.steps[k].pw = tc.steps[m].id \/ tc.steps[m].pw = tc.steps[k].id
<1>1. tc.steps[k].pw # NoId <=>
          \E m \in Pos : tc.steps[k].pw = tc.steps[m].id \/ tc.steps[m].pw = tc.steps[k].id
  BY DEF WellFormed, TidyGroups, Pos
<1>2. InGroup(k) <=>
          \E q \in Pos : tc.steps[q].pw # NoId /\ tc.steps[k].id \in {tc.steps[q].id, tc.steps[q].pw}
  BY DEF InGroup, ParallelGroups
<1>3. ASSUME InGroup(k) PROVE tc.steps[k].pw # NoId
  BY <1>1, <1>2, <1>3, IdsAreUnique
<1> QED
  BY <1>1, <1>2, <1>3

\* Two steps are linked exactly if all steps from one to the other have a link.
LEMMA LinkedAreNeighbours ==
    ASSUME tc \in Tests, WellFormed(tc), NEW p \in Pos, NEW q \in Pos, p <= q
    PROVE  Linked(tc.steps, p, q) <=> p = q \/ \A k \in p..q : tc.steps[k].pw # NoId
<1>1. \A k \in p..q : k \in Pos
  BY StepTypes
<1>2. Linked(tc.steps, p, q) <=>
          \/ p = q
          \/ \A k \in p..q :
                \E m \in Pos : tc.steps[k].pw = tc.steps[m].id \/ tc.steps[m].pw = tc.steps[k].id
  BY DEF WellFormed, TidyGroups, Pos
<1> QED
  BY <1>1, <1>2, GroupedAreLinking

\* A link has no direction: what is closed under links on the one side leaves a
\* rest that is closed on the other.
LEMMA LinkedIsSymmetric ==
    ASSUME NEW steps, NEW p \in DOMAIN steps, NEW q \in DOMAIN steps, Linked(steps, p, q)
    PROVE  Linked(steps, q, p)
<1> DEFINE Names(k, m) == \/ steps[k].pw # NoId /\ steps[k].pw = steps[m].id
                          \/ steps[m].pw # NoId /\ steps[m].pw = steps[k].id
           Closed(C) == \A k \in C, m \in DOMAIN steps : Names(k, m) => m \in C
<1>1. \A x, y : Linked(steps, x, y) <=> \A C \in SUBSET DOMAIN steps : x \in C /\ Closed(C) => y \in C
  BY DEF Linked
<1>2. ASSUME NEW C \in SUBSET DOMAIN steps, q \in C, Closed(C), p \notin C
      PROVE  FALSE
  <2> DEFINE D == DOMAIN steps \ C
  <2>1. Closed(D)
    <3>1. \A k, m : Names(k, m) => Names(m, k)
      OBVIOUS
    <3> HIDE DEF Names
    <3> QED
      BY <1>2, <3>1
  <2>2. D \in SUBSET DOMAIN steps /\ p \in D /\ q \notin D
    BY <1>2
  <2> HIDE DEF Closed, D
  <2> QED
    BY <1>1, <2>1, <2>2
<1> HIDE DEF Closed
<1> QED
  BY <1>1, <1>2

\* Either runner takes for the group of a step the linked steps from there on.
LEMMA GroupIsRun ==
    ASSUME tc \in Tests, WellFormed(tc), NEW p \in Pos
    PROVE  Group(p) = {k \in p..Len(tc.steps) : \A m \in p..k : tc.steps[m].pw # NoId}
<1>1. /\ \A k \in p..Len(tc.steps) : k \in Pos /\ k \in p..k /\ p..k \subseteq Pos
      /\ \A m \in Pos : InGroup(m) <=> tc.steps[m].pw # NoId
  BY StepTypes, GroupedAreLinking
<1>2. HttpGroup(p) = {k \in p..Len(tc.steps) : \A m \in p..k : tc.steps[m].pw # NoId}
  BY <1>1 DEF HttpGroup
<1>3. \A m \in Pos : tc.steps[m].pw = tc.steps[p].id => InGroup(m)
  BY <1>1, IdsAreUnique
<1>4. GrpcGroup(p) = {k \in p..Len(tc.steps) : \A m \in p..k : tc.steps[m].pw # NoId}
  BY <1>1, <1>3 DEF GrpcGroup
<1> QED
  BY <1>2, <1>4 DEF Group

-----------------------------------------------------------------------------
(* The invariant: the main goroutine stands before step at["steps"]; all    *)
(* steps before it are done, and of those after it only members of a group  *)
(* it has just passed.                                                     *)

Here == at["steps"]
IsDone(q) == tc.steps[q].id \in executed
AllLinked(i, j) == \A k \in i..j : tc.steps[k].pw # NoId

CountedOnce == \A q \in Pos : reported[q] = (IF IsDone(q) THEN 1 ELSE 0)
DoneBefore  == \A q \in Pos : q < Here => IsDone(q)

\* A step ahead of the main goroutine is done only with all steps up to it, and
\* it is linked to the step the main goroutine has just passed.
DoneAhead ==
    batch = {} =>
        \A q \in Pos : q >= Here /\ IsDone(q) =>
            /\ Here > 1 /\ AllLinked(Here - 1, q)
            /\ \A k \in Here..q : IsDone(k)

\* The group that is running is the whole run of linked steps, none of it done.
BatchIsRun ==
    batch # {} =>
        /\ Here \in Pos
        /\ batch = {k \in Here..Len(tc.steps) : AllLinked(Here, k)}
        /\ \A q \in Pos : q >= Here => ~IsDone(q)

\* The teardown and the verdict come after the last step.
OverAtEnd ==
    phase = "teardown" \/ status \in {"pass", "fail"} => batch = {} /\ Here > Len(tc.steps)

OrderInv ==
    /\ CountedOnce
    /\ DoneBefore
    /\ DoneAhead
    /\ BatchIsRun
    /\ OverAtEnd
    /\ OnlyTemplatesCrash

LEMMA InitOrderInv == Init => OrderInv
<1> SUFFICES ASSUME Init PROVE OrderInv
  OBVIOUS
<1>1. /\ Here = 1
      /\ executed = {} /\ batch = {}
      /\ phase = "setup" /\ status = ""
  BY DEF Init, Here, Lists
<1>2. \A q \in Pos : q \in Nat /\ q >= 1
  <2>1. tc \in Tests
    BY DEF Init
  <2>2. Pos = 1..Len(tc.steps) /\ Len(tc.steps) \in Nat
    BY <2>1, StepTypes
  <2> QED
    BY <2>2
<1>3. CountedOnce
  BY <1>1 DEF Init, CountedOnce, IsDone
<1>4. \A q \in Pos : ~(q < Here) /\ ~IsDone(q)
  <2>1. \A q \in Pos : ~(q < Here)
    <3>1. Here = 1
      BY <1>1
    <3> QED
      BY <1>2, <3>1
  <2>2. \A q \in Pos : ~IsDone(q)
    BY <1>1 DEF IsDone
  <2> QED
    BY <2>1, <2>2
<1>5. DoneBefore /\ DoneAhead /\ BatchIsRun
  BY <1>1, <1>4 DEF DoneBefore, DoneAhead, BatchIsRun
<1> QED
  BY <1>1, <1>3, <1>5 DEF OrderInv, OverAtEnd, OnlyTemplatesCrash

\* What does not touch the progress of the main goroutine keeps what is said of it.
LEMMA OrderUntouched ==
    ASSUME OrderInv, tc' = tc, Here' = Here,
           UNCHANGED <<executed, batch, reported>>
    PROVE  CountedOnce' /\ DoneBefore' /\ DoneAhead' /\ BatchIsRun'
  BY DEF OrderInv, CountedOnce, DoneBefore, DoneAhead, BatchIsRun, IsDone, AllLinked, Pos

\* A goroutine's step is linked, so it dies of a template only if it has one.
LEMMA CrashNeedsTemplate ==
    ASSUME TypeOK, WellFormed(tc), OrderInv, NEW p \in Pos, p \in batch,
           tc.steps[p].refs # {} \/ tc.steps[p].matcherRefs # {}
    PROVE  ~QuietGroups(tc)
<1>1. batch = {k \in Here..Len(tc.steps) : AllLinked(Here, k)}
  BY DEF OrderInv, BatchIsRun
<1>2. p \in Here..p
  <2>1. tc \in Tests /\ Here \in Nat
    BY DEF TypeOK, Here, Lists
  <2>2. p \in Nat
    BY <2>1, StepTypes
  <2>3. p \in Here..Len(tc.steps)
    BY <1>1
  <2>4. Len(tc.steps) \in Nat
    BY <2>1, StepTypes
  <2> QED
    BY <2>1, <2>2, <2>3, <2>4
<1>3. tc.steps[p].pw # NoId
  BY <1>1, <1>2 DEF AllLinked
<1> QED
  BY <1>3 DEF QuietGroups, Pos

\* The steps of a group's goroutines.
LEMMA GoroutineOrderInv ==
    ASSUME FailureInv, WellFormed(tc), OrderInv, NEW p \in Pos, GoroutineStep(p)
    PROVE  OrderInv'
<1> USE DEF Goroutine, params, locals, report
<1>1. /\ tc' = tc /\ Here' = Here /\ status' = status
      /\ UNCHANGED <<executed, batch, reported>>
  BY DEF GoroutineStep, Resolve, NoResponse, Receive, Evaluate, Lock, Store,
     MapAccessIsFatal, GoTo, Here
<1>2. phase = "steps" /\ pc[p] # "idle"
  BY DEF GoroutineStep, Resolve, NoResponse, Receive, Evaluate, Lock, Store
<1>3. p \in batch
  BY <1>2 DEF FailureInv, GoroutinesOfBatch
<1>4. phase' = phase \/ (phase' = "crashed" /\ ~QuietGroups(tc))
  <2>1. phase' = phase \/ MapAccessIsFatal(tc.steps[p].refs)
            \/ MapAccessIsFatal(tc.steps[p].matcherRefs)
    BY DEF GoroutineStep, Resolve, NoResponse, Receive, Evaluate, Lock, Store
  <2> QED
    BY <1>3, <2>1, CrashNeedsTemplate DEF MapAccessIsFatal, FailureInv
<1>5. OverAtEnd'
  BY <1>1, <1>2, <1>4 DEF OrderInv, OverAtEnd, Here
<1>6. OnlyTemplatesCrash'
  BY <1>1, <1>4 DEF OrderInv, OnlyTemplatesCrash
<1> QED
  BY <1>1, <1>5, <1>6, OrderUntouched DEF OrderInv

\* What the types say of positions.
LEMMA OrderTypes ==
    ASSUME TypeOK
    PROVE  /\ Pos = 1..Len(tc.steps) /\ Len(tc.steps) \in Nat /\ Pos \subseteq Nat
           /\ Here \in Nat /\ Here > 0
           /\ at \in [Lists -> Nat] /\ "steps" \in Lists
           /\ reported \in [Pos -> Nat]
<1>1. tc \in Tests
  BY DEF TypeOK
<1>2. Pos = 1..Len(tc.steps) /\ Len(tc.steps) \in Nat
  BY <1>1, StepTypes
<1>3. Here \in Nat /\ Here > 0 /\ at \in [Lists -> Nat] /\ "steps" \in Lists
  BY DEF TypeOK, Here, Lists
<1>4. reported \in [Pos -> Nat]
  BY DEF TypeOK
<1> QED
  BY <1>2, <1>3, <1>4

\* Once the main goroutine stands before a step that is not done, none after it is.
LEMMA NoneAhead ==
    ASSUME TypeOK, OrderInv, batch = {}, Here \in Pos, ~IsDone(Here)
    PROVE  \A q \in Pos : q >= Here => ~IsDone(q)
<1> SUFFICES ASSUME NEW q \in Pos, q >= Here, IsDone(q) PROVE FALSE
  OBVIOUS
<1>1. \A k \in Here..q : IsDone(k)
  BY DEF OrderInv, DoneAhead
<1>2. Here \in Here..q
  BY OrderTypes
<1> QED
  BY <1>1, <1>2

LEMMA SkipOrderInv ==
    ASSUME FailureInv, WellFormed(tc), OrderInv, SkipStep
    PROVE  OrderInv'
<1> USE DEF params, report
<1>0. TypeOK
  BY DEF FailureInv
<1>1. /\ Here \in Pos /\ IsDone(Here) /\ batch = {} /\ phase = "steps"
      /\ at' = [at EXCEPT !["steps"] = Here + 1]
      /\ UNCHANGED <<tc, phase, executed, batch, reported, status>>
  BY DEF SkipStep, AtStep, Here, IsDone
<1>2. Here' = Here + 1
  BY <1>0, <1>1, OrderTypes DEF Here
<1>3. Pos' = Pos /\ \A q : IsDone(q)' <=> IsDone(q)
  BY <1>1 DEF Pos, IsDone
<1>4. CountedOnce' /\ BatchIsRun' /\ OnlyTemplatesCrash'
  BY <1>1, <1>3 DEF OrderInv, CountedOnce, BatchIsRun, OnlyTemplatesCrash
<1>5. DoneBefore'
  <2>1. \A q \in Pos : q < Here + 1 => q < Here \/ q = Here
    BY <1>0, OrderTypes
  <2> QED
    BY <1>1, <1>2, <1>3, <2>1 DEF OrderInv, DoneBefore
<1>6. DoneAhead'
  <2> SUFFICES ASSUME NEW q \in Pos, q >= Here + 1, IsDone(q)
               PROVE  /\ Here + 1 > 1 /\ AllLinked((Here + 1) - 1, q)
                      /\ \A k \in (Here + 1)..q : IsDone(k)
    BY <1>1, <1>2, <1>3 DEF DoneAhead, AllLinked
  <2>1. Here \in Nat /\ Here > 0 /\ q \in Nat
    BY <1>0, OrderTypes
  <2>2. q >= Here
    BY <2>1
  <2>3. AllLinked(Here - 1, q) /\ \A k \in Here..q : IsDone(k)
    BY <1>1, <2>2 DEF OrderInv, DoneAhead
  <2>4. /\ (Here + 1) - 1 = Here /\ Here + 1 > 1
        /\ Here..q \subseteq (Here - 1)..q
        /\ (Here + 1)..q \subseteq Here..q
    BY <2>1
  <2> QED
    BY <2>3, <2>4 DEF AllLinked
<1>7. OverAtEnd'
  BY <1>0, <1>1, <1>2, OrderTypes DEF OrderInv, OverAtEnd
<1> QED
  BY <1>4, <1>5, <1>6, <1>7 DEF OrderInv

LEMMA SequentialOrderInv ==
    ASSUME FailureInv, WellFormed(tc), OrderInv, SequentialStep
    PROVE  OrderInv'
<1> USE DEF params
<1>0. TypeOK /\ tc \in Tests
  BY DEF FailureInv, TypeOK
<1>1. /\ Here \in Pos /\ ~IsDone(Here) /\ batch = {} /\ phase = "steps"
      /\ reported' = [reported EXCEPT ![Here] = @ + 1]
      /\ executed' = executed \cup {tc.steps[Here].id}
      /\ at' = [at EXCEPT !["steps"] = Here + 1]
      /\ UNCHANGED <<tc, phase, batch, status>>
  BY DEF SequentialStep, AtStep, Here, IsDone
<1>2. Here' = Here + 1
  BY <1>0, <1>1, OrderTypes DEF Here
<1>3. Pos' = Pos /\ \A q \in Pos : IsDone(q)' <=> IsDone(q) \/ q = Here
  BY <1>0, <1>1, IdsAreUnique DEF Pos, IsDone
<1>4. CountedOnce'
  <2>1. \A q \in Pos : reported'[q] = IF q = Here THEN reported[q] + 1 ELSE reported[q]
    BY <1>0, <1>1, OrderTypes
  <2>2. reported[Here] = 0
    BY <1>1 DEF OrderInv, CountedOnce
  <2> QED
    BY <1>3, <2>1, <2>2 DEF OrderInv, CountedOnce
<1>5. DoneBefore'
  <2>1. \A q \in Pos : q < Here + 1 => q < Here \/ q = Here
    BY <1>0, OrderTypes
  <2> QED
    BY <1>2, <1>3, <2>1 DEF OrderInv, DoneBefore
<1>6. \A q \in Pos : q >= Here' => ~IsDone(q)'
  <2>1. \A q \in Pos : q >= Here + 1 => q >= Here /\ q # Here
    BY <1>0, OrderTypes
  <2>2. \A q \in Pos : q >= Here => ~IsDone(q)
    BY <1>0, <1>1, NoneAhead
  <2> QED
    BY <1>2, <1>3, <2>1, <2>2
<1>7. DoneAhead' /\ BatchIsRun'
  BY <1>1, <1>3, <1>6 DEF DoneAhead, BatchIsRun
<1>8. OverAtEnd' /\ OnlyTemplatesCrash'
  <2>1. ~(phase = "teardown" \/ status \in {"pass", "fail"})
    BY <1>0, <1>1, OrderTypes DEF OrderInv, OverAtEnd
  <2> QED
    BY <1>1, <2>1 DEF OverAtEnd, OrderInv, OnlyTemplatesCrash
<1> QED
  BY <1>4, <1>5, <1>7, <1>8 DEF OrderInv

LEMMA StartOrderInv ==
    ASSUME FailureInv, WellFormed(tc), OrderInv, StartGroup
    PROVE  OrderInv'
<1> USE DEF params, report
<1>0. TypeOK /\ tc \in Tests
  BY DEF FailureInv, TypeOK
<1>1. /\ Here \in Pos /\ ~IsDone(Here) /\ batch = {} /\ phase = "steps"
      /\ batch' = Group(Here)
      /\ UNCHANGED <<tc, phase, at, executed, reported, status>>
  BY DEF StartGroup, AtStep, Here, IsDone
<1>2. Here' = Here /\ Pos' = Pos /\ \A q : IsDone(q)' <=> IsDone(q)
  BY <1>1 DEF Here, Pos, IsDone
<1>3. CountedOnce' /\ DoneBefore' /\ OnlyTemplatesCrash'
  BY <1>1, <1>2 DEF OrderInv, CountedOnce, DoneBefore, OnlyTemplatesCrash
<1>4. \A q \in Pos : q >= Here => ~IsDone(q)
  BY <1>0, <1>1, NoneAhead
<1>5. DoneAhead'
  BY <1>2, <1>4 DEF DoneAhead
<1>6. BatchIsRun'
  <2>1. batch' = {k \in Here..Len(tc.steps) : AllLinked(Here, k)}
    BY <1>0, <1>1, GroupIsRun DEF AllLinked
  <2> QED
    BY <1>1, <1>2, <1>4, <2>1 DEF BatchIsRun, AllLinked
<1>7. OverAtEnd'
  <2>1. ~(phase = "teardown" \/ status \in {"pass", "fail"})
    BY <1>0, <1>1, OrderTypes DEF OrderInv, OverAtEnd
  <2> QED
    BY <1>1, <2>1 DEF OverAtEnd
<1> QED
  BY <1>3, <1>5, <1>6, <1>7 DEF OrderInv

LEMMA JoinOrderInv ==
    ASSUME FailureInv, WellFormed(tc), OrderInv, Join
    PROVE  OrderInv'
<1> USE DEF params
<1>0. TypeOK /\ tc \in Tests /\ batch \subseteq Pos
  BY DEF FailureInv, TypeOK
<1>1. /\ phase = "steps" /\ batch # {} /\ batch' = {}
      /\ reported' = [p \in Pos |-> IF p \in batch THEN reported[p] + 1 ELSE reported[p]]
      /\ executed' = executed \cup {tc.steps[p].id : p \in batch}
      /\ at' = [at EXCEPT !["steps"] = Here + 1]
      /\ UNCHANGED <<tc, phase, status>>
  BY DEF Join, Marked, Here
<1>2. Here' = Here + 1
  BY <1>0, <1>1, OrderTypes DEF Here
<1>3. Pos' = Pos /\ \A q \in Pos : IsDone(q)' <=> IsDone(q) \/ q \in batch
  BY <1>0, <1>1, IdsAreUnique DEF Pos, IsDone
<1>4. /\ Here \in Pos
      /\ batch = {k \in Here..Len(tc.steps) : AllLinked(Here, k)}
      /\ \A q \in Pos : q >= Here => ~IsDone(q)
  BY <1>1 DEF OrderInv, BatchIsRun
<1>5. \A q \in batch : q >= Here /\ Here..q \subseteq batch
  <2> SUFFICES ASSUME NEW q \in batch PROVE q >= Here /\ Here..q \subseteq batch
    OBVIOUS
  <2>1. /\ Len(tc.steps) \in Nat /\ Here \in Nat /\ q \in Nat
        /\ q \in Here..Len(tc.steps) /\ AllLinked(Here, q)
    BY <1>0, <1>4, OrderTypes
  <2>2. \A k \in Here..q : k \in Here..Len(tc.steps) /\ Here..k \subseteq Here..q
    BY <2>1
  <2>3. \A k \in Here..q : AllLinked(Here, k)
    BY <2>1, <2>2 DEF AllLinked
  <2> QED
    BY <1>4, <2>1, <2>2, <2>3
<1>6. Here \in batch
  <2>1. PICK q : q \in batch
    BY <1>1
  <2>2. Here \in Here..q
    BY <1>0, <1>5, <2>1, OrderTypes
  <2> QED
    BY <1>5, <2>1, <2>2
<1>7. CountedOnce'
  <2>1. \A q \in batch : ~IsDone(q) /\ reported[q] = 0
    BY <1>0, <1>4, <1>5 DEF OrderInv, CountedOnce
  <2> QED
    BY <1>1, <1>3, <2>1 DEF OrderInv, CountedOnce
<1>8. DoneBefore'
  <2>1. \A q \in Pos : q < Here + 1 => q < Here \/ q = Here
    BY <1>0, OrderTypes
  <2> QED
    BY <1>2, <1>3, <1>6, <2>1 DEF OrderInv, DoneBefore
<1>9. DoneAhead'
  <2> SUFFICES ASSUME NEW q \in Pos, q >= Here + 1, IsDone(q)'
               PROVE  /\ Here + 1 > 1 /\ AllLinked((Here + 1) - 1, q)
                      /\ \A k \in (Here + 1)..q : IsDone(k)'
    BY <1>1, <1>2, <1>3 DEF DoneAhead, AllLinked
  <2>1. Here \in Nat /\ Here > 0 /\ q \in Nat
    BY <1>0, OrderTypes
  <2>2. q \in batch
    BY <1>3, <1>4, <2>1
  <2>3. AllLinked(Here, q) /\ Here..q \subseteq batch
    BY <1>4, <1>5, <2>2
  <2>4. (Here + 1) - 1 = Here /\ Here + 1 > 1 /\ (Here + 1)..q \subseteq Here..q
    BY <2>1
  <2>5. \A k \in batch : IsDone(k)'
    BY <1>0, <1>3
  <2> QED
    BY <2>3, <2>4, <2>5
<1>10. BatchIsRun'
  BY <1>1 DEF BatchIsRun
<1>11. OverAtEnd' /\ OnlyTemplatesCrash'
  <2>1. ~(phase = "teardown" \/ status \in {"pass", "fail"})
    BY <1>1 DEF OrderInv, OverAtEnd
  <2> QED
    BY <1>1, <2>1 DEF OverAtEnd, OrderInv, OnlyTemplatesCrash
<1> QED
  BY <1>7, <1>8, <1>9, <1>10, <1>11 DEF OrderInv

-----------------------------------------------------------------------------
(* Every step of a test run keeps the invariant.                           *)

LEMMA NextOrderInv ==
    FailureInv /\ WellFormed(tc) /\ OrderInv /\ [Next]_vars => OrderInv'
<1> SUFFICES ASSUME FailureInv, WellFormed(tc), OrderInv, [Next]_vars
             PROVE  OrderInv'
  OBVIOUS
<1> USE DEF params, locals, report
<1>0. TypeOK
  BY DEF FailureInv
<1>S. phase # "done" => status = ""
  BY DEF FailureInv, StatusFromFailures
<1>1. CASE SetupStep
  <2>1. UNCHANGED <<tc, executed, batch, reported>> /\ phase = "setup"
    BY <1>1 DEF SetupStep
  <2>2. \/ phase' = "done" /\ status' = "error" /\ UNCHANGED at
        \/ at' = [at EXCEPT !["setup"] = @ + 1] /\ UNCHANGED <<phase, status>>
    BY <1>1 DEF SetupStep
  <2>3. Here' = Here
    BY <1>0, <2>2, OrderTypes DEF Here
  <2>4. OverAtEnd' /\ OnlyTemplatesCrash'
    BY <1>S, <2>1, <2>2 DEF OverAtEnd, OnlyTemplatesCrash
  <2> QED
    BY <2>1, <2>3, <2>4, OrderUntouched DEF OrderInv
<1>2. CASE SetupOver
  <2>1. UNCHANGED <<tc, at, executed, batch, reported, status>>
        /\ phase = "setup" /\ phase' = "steps"
    BY <1>2 DEF SetupOver
  <2>2. OverAtEnd' /\ OnlyTemplatesCrash'
    BY <1>S, <2>1 DEF OverAtEnd, OnlyTemplatesCrash
  <2> QED
    BY <2>1, <2>2, OrderUntouched DEF OrderInv, Here
<1>3. CASE SkipStep
  BY <1>3, SkipOrderInv
<1>4. CASE SequentialStep
  BY <1>4, SequentialOrderInv
<1>5. CASE StartGroup
  BY <1>5, StartOrderInv
<1>6. CASE \E p \in Pos : GoroutineStep(p)
  BY <1>6, GoroutineOrderInv
<1>7. CASE Join
  BY <1>7, JoinOrderInv
<1>8. CASE StepsOver
  <2>1. /\ UNCHANGED <<tc, at, executed, batch, reported, status>>
        /\ phase' = "teardown" /\ batch = {} /\ Here > Len(tc.steps)
    BY <1>8 DEF StepsOver, Here
  <2>2. OverAtEnd' /\ OnlyTemplatesCrash'
    BY <2>1 DEF OverAtEnd, OnlyTemplatesCrash, Here
  <2> QED
    BY <2>1, <2>2, OrderUntouched DEF OrderInv, Here
<1>9. CASE TeardownStep
  <2>1. /\ UNCHANGED <<tc, phase, executed, batch, reported, status>>
        /\ at' = [at EXCEPT !["teardown"] = @ + 1]
    BY <1>9 DEF TeardownStep
  <2>2. Here' = Here
    BY <1>0, <2>1, OrderTypes DEF Here
  <2>3. OverAtEnd' /\ OnlyTemplatesCrash'
    BY <2>1, <2>2 DEF OrderInv, OverAtEnd, OnlyTemplatesCrash
  <2> QED
    BY <2>1, <2>2, <2>3, OrderUntouched DEF OrderInv
<1>10. CASE Verdict
  <2>1. /\ UNCHANGED <<tc, at, executed, batch, reported>>
        /\ phase = "teardown" /\ phase' = "done"
    BY <1>10 DEF Verdict
  <2>2. OverAtEnd' /\ OnlyTemplatesCrash'
    BY <2>1 DEF OrderInv, OverAtEnd, OnlyTemplatesCrash, Here
  <2> QED
    BY <2>1, <2>2, OrderUntouched DEF OrderInv, Here
<1>11. CASE Terminated \/ UNCHANGED vars
  <2>1. UNCHANGED <<tc, at, phase, executed, batch, reported, status>>
    BY <1>11 DEF Terminated, vars
  <2>2. OverAtEnd' /\ OnlyTemplatesCrash'
    BY <2>1 DEF OrderInv, OverAtEnd, OnlyTemplatesCrash, Here
  <2> QED
    BY <2>1, <2>2, OrderUntouched DEF OrderInv, Here
<1> QED
  BY <1>1, <1>2, <1>3, <1>4, <1>5, <1>6, <1>7, <1>8, <1>9, <1>10, <1>11 DEF Next

LEMMA OrderInvCorrect ==
    ASSUME \A t \in Tests : WellFormed(t)
    PROVE  Spec => [](FailureInv /\ WellFormed(tc) /\ OrderInv)
<1>1. TypeOK => WellFormed(tc)
  BY DEF TypeOK
<1>2. FailureInv => TypeOK
  BY DEF FailureInv
<1>3. Init => OrderInv
  BY InitOrderInv
<1>4. FailureInv /\ WellFormed(tc) /\ OrderInv /\ [Next]_vars => OrderInv'
  BY NextOrderInv
<1> QED
  BY <1>1, <1>2, <1>3, <1>4, FailureInvCorrect, PTL DEF Spec

-----------------------------------------------------------------------------
(* What the invariant means for well-formed test cases.                    *)

\* The steps of a running group are linked to each other.
LEMMA BatchIsLinked ==
    ASSUME TypeOK, WellFormed(tc), OrderInv
    PROVE  OverlapIsLinked
<1>0. tc \in Tests /\ batch \subseteq Pos
  BY DEF TypeOK
<1>1. ASSUME NEW p \in batch, NEW q \in batch, p <= q
      PROVE  Linked(tc.steps, p, q)
  <2>1. batch = {k \in Here..Len(tc.steps) : AllLinked(Here, k)}
    BY <1>1 DEF OrderInv, BatchIsRun
  <2>2. p \in Here..Len(tc.steps) /\ AllLinked(Here, q)
    BY <2>1
  <2>3. p \in Nat /\ q \in Nat /\ Here \in Nat /\ Len(tc.steps) \in Nat
    BY <1>0, OrderTypes
  <2>4. p..q \subseteq Here..q
    BY <2>2, <2>3
  <2>5. \A k \in p..q : tc.steps[k].pw # NoId
    BY <2>2, <2>4 DEF AllLinked
  <2> QED
    BY <1>0, <1>1, <2>5, LinkedAreNeighbours
<1>2. ASSUME NEW p \in batch, NEW q \in batch
      PROVE  Linked(tc.steps, p, q)
  <2>1. p \in Nat /\ q \in Nat
    BY <1>0, OrderTypes
  <2>2. CASE p <= q
    BY <1>1, <2>2
  <2>3. CASE q <= p
    <3>1. Linked(tc.steps, q, p)
      BY <1>1, <2>3
    <3>2. p \in DOMAIN tc.steps /\ q \in DOMAIN tc.steps
      BY <1>0 DEF Pos
    <3> QED
      BY <3>1, <3>2, LinkedIsSymmetric
  <2> QED
    BY <2>1, <2>2, <2>3
<1> QED
  BY <1>2 DEF OverlapIsLinked

\* A step that has started or is done has all unlinked steps before it done.
LEMMA StartedIsInOrder ==
    ASSUME FailureInv, WellFormed(tc), OrderInv
    PROVE  StepsInOrder
<1>0. TypeOK /\ tc \in Tests
  BY DEF FailureInv, TypeOK
<1> SUFFICES ASSUME NEW p \in Pos, pc[p] # "idle" \/ reported[p] > 0,
                    NEW q \in Pos, q < p, ~Linked(tc.steps, q, p)
             PROVE  reported[q] > 0
  BY DEF StepsInOrder, Before, Pos
<1>1. /\ p \in Nat /\ q \in Nat /\ Here \in Nat /\ Here > 0 /\ Len(tc.steps) \in Nat
      /\ p <= Len(tc.steps) /\ q > 0
  BY <1>0, OrderTypes
<1>2. \E k \in q..p : tc.steps[k].pw = NoId
  BY <1>0, <1>1, LinkedAreNeighbours
<1>3. p \in batch \/ IsDone(p)
  BY DEF FailureInv, GoroutinesOfBatch, OrderInv, CountedOnce
<1>4. IsDone(q)
  <2>1. CASE q < Here
    BY <2>1 DEF OrderInv, DoneBefore
  <2>2. CASE q >= Here /\ batch = {}
    <3>1. p >= Here /\ IsDone(p) /\ q \in Here..p
      BY <1>1, <1>3, <2>2
    <3> QED
      BY <2>2, <3>1 DEF OrderInv, DoneAhead
  <2>3. CASE q >= Here /\ batch # {}
    <3>1. p >= Here
      BY <1>1, <2>3
    <3>2. p \in batch
      BY <1>3, <2>3, <3>1 DEF OrderInv, BatchIsRun
    <3>3. AllLinked(Here, p)
      BY <2>3, <3>2 DEF OrderInv, BatchIsRun
    <3>4. q..p \subseteq Here..p
      BY <1>1, <2>3
    <3> QED
      BY <1>2, <3>3, <3>4 DEF AllLinked
  <2> QED
    BY <1>1, <2>1, <2>2, <2>3
<1> QED
  BY <1>4 DEF OrderInv, CountedOnce

\* No step is reported twice, nor run again, and none is missing at the end.
LEMMA CountsAreRight ==
    ASSUME FailureInv, WellFormed(tc), OrderInv
    PROVE  OnceEach
<1>0. TypeOK
  BY DEF FailureInv
<1>1. ASSUME NEW p \in Pos
      PROVE  reported[p] + (IF p \in batch THEN 1 ELSE 0) <= 1
  <2>1. reported[p] = IF IsDone(p) THEN 1 ELSE 0
    BY DEF OrderInv, CountedOnce
  <2>2. p \in batch => ~IsDone(p)
    <3> SUFFICES ASSUME p \in batch PROVE ~IsDone(p)
      OBVIOUS
    <3>1. p \in Here..Len(tc.steps) /\ \A q \in Pos : q >= Here => ~IsDone(q)
      BY DEF OrderInv, BatchIsRun
    <3>2. p >= Here
      BY <1>0, <3>1, OrderTypes
    <3> QED
      BY <3>1, <3>2
  <2> QED
    BY <2>1, <2>2
<1>2. ASSUME NEW p \in Pos, phase = "teardown" \/ status \in {"pass", "fail"}
      PROVE  reported[p] = 1
  <2>1. Here > Len(tc.steps)
    BY <1>2 DEF OrderInv, OverAtEnd
  <2>2. p < Here
    BY <1>0, <2>1, OrderTypes
  <2> QED
    BY <2>2 DEF OrderInv, DoneBefore, CountedOnce
<1> QED
  BY <1>1, <1>2 DEF OnceEach

\* The steps of well-formed tests run in list order, but for linked ones,
\* whatever their number and however a group's goroutines interleave.
THEOREM RunInOrder ==
    ASSUME \A t \in Tests : WellFormed(t)
    PROVE  Spec => []StepsInOrder
<1>1. FailureInv /\ WellFormed(tc) /\ OrderInv => StepsInOrder
  BY StartedIsInOrder
<1> QED
  BY <1>1, OrderInvCorrect, PTL

\* The steps of well-formed tests run once each, and all of them before the
\* teardown, in groups or on their own.
THEOREM RunOnce ==
    ASSUME \A t \in Tests : WellFormed(t)
    PROVE  Spec => []OnceEach
<1>1. FailureInv /\ WellFormed(tc) /\ OrderInv => OnceEach
  BY CountsAreRight
<1> QED
  BY <1>1, OrderInvCorrect, PTL

\* Only linked steps of well-formed tests run at the same time.
THEOREM OverlapsAreLinked ==
    ASSUME \A t \in Tests : WellFormed(t)
    PROVE  Spec => []OverlapIsLinked
<1>1. FailureInv /\ WellFormed(tc) /\ OrderInv => OverlapIsLinked
  BY BatchIsLinked DEF FailureInv
<1> QED
  BY <1>1, OrderInvCorrect, PTL

\* A well-formed test without templates in its groups never kills the process,
\* although the goroutines of its groups read the shared map without the mutex.
THEOREM QuietTestsSurvive ==
    ASSUME \A t \in Tests : WellFormed(t)
    PROVE  Spec => []OnlyTemplatesCrash
<1>1. FailureInv /\ WellFormed(tc) /\ OrderInv => OnlyTemplatesCrash
  BY DEF OrderInv
<1> QED
  BY <1>1, OrderInvCorrect, PTL

===============================================================================
