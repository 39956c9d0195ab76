-------------------------- MODULE TestResults_proofs --------------------------
(***************************************************************************)
(* Proofs about the results that TestRunner stores in stepResults, for     *)
(* well-formed test cases of any number and length, under both runners:    *)
(* they are final, templates resolve to them, and the verdict rests on     *)
(* them, although they are read without the mutex.                         *)
(***************************************************************************)
EXTENDS TestRunner_proofs

-----------------------------------------------------------------------------
(* The ids of well-formed test cases.                                      *)

\* The lists of a test case, and the ids in them.
LEMMA ListTypes ==
    ASSUME tc \in Tests
    PROVE  /\ DOMAIN tc = Lists
           /\ tc["setup"] = tc.setup /\ tc["steps"] = tc.steps /\ tc["teardown"] = tc.teardown
           /\ DOMAIN tc.setup = 1..Len(tc.setup) /\ DOMAIN tc.teardown = 1..Len(tc.teardown)
           /\ \A k \in DOMAIN tc.setup : tc.setup[k] \in Step
           /\ \A k \in DOMAIN tc.teardown : tc.teardown[k] \in Step
           /\ \A k \in Pos : tc.steps[k] \in Step
<1>1. tc \in TestCase
  BY TestRunnerAssumption
<1>2. /\ DOMAIN tc = Lists
      /\ tc["setup"] = tc.setup /\ tc["steps"] = tc.steps /\ tc["teardown"] = tc.teardown
  BY <1>1 DEF TestCase, Lists
<1>3. tc.setup \in Seq(Step) /\ tc.teardown \in Seq(Step) /\ tc.steps \in Seq(Step)
  BY <1>1 DEF TestCase
<1>4. /\ DOMAIN tc.setup = 1..Len(tc.setup) /\ DOMAIN tc.teardown = 1..Len(tc.teardown)
      /\ \A k \in DOMAIN tc.setup : tc.setup[k] \in Step
      /\ \A k \in DOMAIN tc.teardown : tc.teardown[k] \in Step
      /\ \A k \in DOMAIN tc.steps : tc.steps[k] \in Step
  BY <1>3
<1> QED
  BY <1>2, <1>4 DEF Pos

\* No two steps of a well-formed test share an id, whichever lists they are on.
LEMMA IdsDiffer ==
    ASSUME tc \in Tests, WellFormed(tc)
    PROVE  /\ \A j \in DOMAIN tc.setup, k \in DOMAIN tc.setup :
                  tc.setup[j].id = tc.setup[k].id => j = k
           /\ \A j \in DOMAIN tc.teardown, k \in DOMAIN tc.teardown :
                  tc.teardown[j].id = tc.teardown[k].id => j = k
           /\ \A j \in DOMAIN tc.setup, p \in Pos : tc.setup[j].id # tc.steps[p].id
           /\ \A j \in DOMAIN tc.teardown, p \in Pos : tc.teardown[j].id # tc.steps[p].id
           /\ \A j \in DOMAIN tc.setup, k \in DOMAIN tc.teardown :
                  tc.setup[j].id # tc.teardown[k].id
<1>1. \A l, m \in Lists : \A j \in DOMAIN tc[l], k \in DOMAIN tc[m] :
          tc[l][j].id = tc[m][k].id => l = m /\ j = k
  BY ListTypes DEF WellFormed, UniqueIds
<1>2. {"setup", "steps", "teardown"} = Lists
  BY DEF Lists
<1> QED
  BY <1>1, <1>2, ListTypes DEF Pos

\* What a step's templates name is a set-up step or one that precedes it unlinked.
LEMMA RefsAreScoped ==
    ASSUME tc \in Tests, WellFormed(tc), NEW p \in Pos,
           NEW i \in tc.steps[p].refs \cup tc.steps[p].matcherRefs
    PROVE  /\ \/ \E k \in DOMAIN tc.setup : i = tc.setup[k].id
              \/ \E q \in Before(tc.steps, p) : i = tc.steps[q].id
           /\ \A q \in Pos : i = tc.steps[q].id => q \in Before(tc.steps, p)
<1>1. \/ \E k \in DOMAIN tc.setup : i = tc.setup[k].id
      \/ \E q \in Before(tc.steps, p) : i = tc.steps[q].id
  BY DEF WellFormed, ScopedRefs, Pos
<1>2. Before(tc.steps, p) \subseteq Pos
  BY DEF Before, Pos
<1> QED
  BY <1>1, <1>2, IdsAreUnique, IdsDiffer

-----------------------------------------------------------------------------
(* The invariant: what stepResults holds.                                  *)

Stored(p) == IsDone(p) \/ pc[p] = "over"

\* A step's entry is its reply, from the moment it is stored.
StepsStored ==
    \A p \in Pos : stepResults[tc.steps[p].id] = IF Stored(p) THEN reply[p] ELSE NoResult

SetupStored ==
    /\ \A k \in DOMAIN tc.setup :
          /\ phase = "setup" /\ k >= at["setup"] => stepResults[tc.setup[k].id] = NoResult
          /\ k < at["setup"] => stepResults[tc.setup[k].id] # NoResult
    /\ phase \in {"steps", "teardown", "crashed"} \/ status \in {"pass", "fail"} =>
          at["setup"] > Len(tc.setup)

TeardownNotYet ==
    \A k \in DOMAIN tc.teardown :
        k >= at["teardown"] => stepResults[tc.teardown[k].id] = NoResult

StoredInv == StepsStored /\ SetupStored /\ TeardownNotYet

\* What one step of a test run may do to the results stored before.
Final == \A i \in Ids \cup {NoId} : stepResults[i] # NoResult => stepResults'[i] = stepResults[i]

LEMMA InitStoredInv == Init => StoredInv
<1> SUFFICES ASSUME Init PROVE StoredInv
  OBVIOUS
<1>1. /\ tc \in Tests /\ executed = {} /\ phase = "setup" /\ status = ""
      /\ at = [l \in Lists |-> 1] /\ stepResults = [i \in Ids \cup {NoId} |-> NoResult]
      /\ \A p \in Pos : pc[p] = "idle"
  BY DEF Init
<1>2. /\ \A k \in DOMAIN tc.setup : tc.setup[k].id \in Ids \cup {NoId}
      /\ \A k \in DOMAIN tc.teardown : tc.teardown[k].id \in Ids \cup {NoId}
      /\ \A k \in Pos : tc.steps[k].id \in Ids \cup {NoId}
  BY <1>1, ListTypes DEF Step
<1>3. StepsStored
  <2>1. \A p \in Pos : ~Stored(p)
    BY <1>1 DEF Stored, IsDone
  <2>2. \A p \in Pos : stepResults[tc.steps[p].id] = NoResult
    BY <1>1, <1>2
  <2> QED
    BY <2>1, <2>2 DEF StepsStored
<1>4. SetupStored
  <2>1. at["setup"] = 1
    BY <1>1 DEF Lists
  <2>2. \A k \in DOMAIN tc.setup : ~(k < 1)
    <3>1. DOMAIN tc.setup = 1..Len(tc.setup) /\ Len(tc.setup) \in Nat
      BY <1>1, ListTypes, StepTypes
    <3> QED
      BY <3>1
  <2> QED
    BY <1>1, <1>2, <2>1, <2>2 DEF SetupStored
<1>5. TeardownNotYet
  BY <1>1, <1>2 DEF TeardownNotYet
<1> QED
  BY <1>3, <1>4, <1>5 DEF StoredInv

\* The reply of a step is a response, and no response is a missing result.
LEMMA RepliesAreResults ==
    ASSUME TypeOK
    PROVE  \A p \in Pos : reply[p] \in Response /\ reply[p] # NoResult
<1>1. reply \in [Pos -> Response] /\ NoResult \notin Response
  BY TestRunnerAssumption DEF TypeOK
<1> QED
  BY <1>1

\* The types that the proofs about single steps need.
LEMMA ResultTypes ==
    ASSUME TypeOK
    PROVE  /\ tc \in Tests
           /\ stepResults \in [Ids \cup {NoId} -> Response \cup {NoResult}]
           /\ at \in [Lists -> Nat]
           /\ \A k \in DOMAIN tc.setup : tc.setup[k].id \in Ids \cup {NoId}
           /\ \A k \in DOMAIN tc.teardown : tc.teardown[k].id \in Ids \cup {NoId}
           /\ \A k \in Pos : tc.steps[k].id \in Ids \cup {NoId}
<1>1. tc \in Tests
  BY DEF TypeOK
<1>2. \A st \in Step : st.id \in Ids \cup {NoId}
  BY DEF Step
<1>3. /\ stepResults \in [Ids \cup {NoId} -> Response \cup {NoResult}]
      /\ at \in [Lists -> Nat]
  BY DEF TypeOK
<1> QED
  BY <1>1, <1>2, <1>3, ListTypes

\* Storing a result under an id without one keeps all others.
LEMMA StoreIsFinal ==
    ASSUME TypeOK, NEW i \in Ids \cup {NoId}, NEW r, stepResults[i] = NoResult,
           stepResults' = [stepResults EXCEPT ![i] = r]
    PROVE  /\ Final
           /\ stepResults'[i] = r
           /\ \A j \in Ids \cup {NoId} : j # i => stepResults'[j] = stepResults[j]
<1>1. stepResults \in [Ids \cup {NoId} -> Response \cup {NoResult}]
  BY ResultTypes
<1> QED
  BY <1>1 DEF Final

-----------------------------------------------------------------------------
(* Each step of a test run keeps it.                                       *)

\* Nothing is said of what a step leaves alone.
LEMMA StoredUntouched ==
    ASSUME StoredInv, UNCHANGED <<tc, stepResults>>
    PROVE  /\ Final
           /\ (\A p \in Pos : Stored(p)' <=> Stored(p))
                 /\ (\A p \in Pos : Stored(p) => reply'[p] = reply[p])
                 => StepsStored'
           /\ at'["teardown"] = at["teardown"] => TeardownNotYet'
           /\ /\ at'["setup"] = at["setup"]
              /\ phase' = "setup" => phase = "setup"
              /\ phase' \in {"steps", "teardown", "crashed"} \/ status' \in {"pass", "fail"} =>
                    at["setup"] > Len(tc.setup)
              => SetupStored'
<1>1. Pos' = Pos
  BY DEF Pos
<1>2. Final
  BY DEF Final
<1>3. ASSUME \A p \in Pos : Stored(p)' <=> Stored(p),
             \A p \in Pos : Stored(p) => reply'[p] = reply[p]
      PROVE  StepsStored'
  BY <1>1, <1>3 DEF StoredInv, StepsStored
<1>4. at'["teardown"] = at["teardown"] => TeardownNotYet'
  BY DEF StoredInv, TeardownNotYet
<1>5. ASSUME at'["setup"] = at["setup"],
             phase' = "setup" => phase = "setup",
             phase' \in {"steps", "teardown", "crashed"} \/ status' \in {"pass", "fail"} =>
                 at["setup"] > Len(tc.setup)
      PROVE  SetupStored'
  BY <1>5 DEF StoredInv, SetupStored
<1> QED
  BY <1>2, <1>3, <1>4, <1>5

LEMMA SetupStoredInv ==
    ASSUME FailureInv, WellFormed(tc), OrderInv, StoredInv, SetupStep
    PROVE  StoredInv' /\ Final
<1> USE DEF params, locals, report
<1> DEFINE n == at["setup"]
           i == tc.setup[n].id
<1>0. TypeOK /\ tc \in Tests
  BY DEF FailureInv, TypeOK
<1>1. n \in DOMAIN tc.setup /\ n \in Nat
  <2>1. n <= Len(tc.setup) /\ n \in Nat /\ n > 0
    BY <1>0 DEF SetupStep, TypeOK, Lists
  <2> QED
    BY <1>0, <2>1, ListTypes, StepTypes
<1>2. tc.setup[n] \in Step
  BY <1>0, <1>1, ListTypes
<1>3. PICK o \in [reply : Response, fails : BOOLEAN] :
          /\ stepResults' = [stepResults EXCEPT ![i] = o.reply]
          /\ IF o.fails
             THEN phase' = "done" /\ status' = "error" /\ UNCHANGED at
             ELSE at' = [at EXCEPT !["setup"] = n + 1] /\ UNCHANGED <<phase, status>>
  BY <1>2, OutcomeTypes DEF SetupStep
<1>4. phase = "setup" /\ UNCHANGED <<tc, executed, pc, reply>>
  BY DEF SetupStep
<1>5. i \in Ids \cup {NoId} /\ stepResults[i] = NoResult /\ o.reply # NoResult
  <2>1. o.reply # NoResult
    BY TestRunnerAssumption
  <2>2. stepResults[i] = NoResult
    BY <1>1, <1>4 DEF StoredInv, SetupStored
  <2> QED
    BY <1>0, <1>1, <2>1, <2>2, ResultTypes
<1>6. /\ Final /\ stepResults'[i] = o.reply
      /\ \A j \in Ids \cup {NoId} : j # i => stepResults'[j] = stepResults[j]
  <2> HIDE DEF i
  <2> QED
    BY <1>0, <1>3, <1>5, StoreIsFinal
<1>7. StepsStored'
  <2>1. \A p \in Pos : tc.steps[p].id # i /\ tc.steps[p].id \in Ids \cup {NoId}
    BY <1>0, <1>1, IdsDiffer, ResultTypes
  <2>2. Pos' = Pos /\ \A p \in Pos : Stored(p)' <=> Stored(p)
    BY <1>4 DEF Pos, Stored, IsDone
  <2> HIDE DEF i
  <2> QED
    BY <1>4, <1>6, <2>1, <2>2 DEF StoredInv, StepsStored
<1>8. TeardownNotYet'
  <2>1. at'["teardown"] = at["teardown"]
    BY <1>0, <1>3, ResultTypes DEF Lists
  <2>2. \A k \in DOMAIN tc.teardown : tc.teardown[k].id # i /\ tc.teardown[k].id \in Ids \cup {NoId}
    BY <1>0, <1>1, IdsDiffer, ResultTypes
  <2> HIDE DEF i
  <2> QED
    BY <1>4, <1>6, <2>1, <2>2 DEF StoredInv, TeardownNotYet
<1>9. SetupStored'
  <2>1. /\ at'["setup"] = n \/ at'["setup"] = n + 1
        /\ phase' = "setup" => at'["setup"] = n + 1
        /\ phase' \in {"setup", "done"} /\ status' \notin {"pass", "fail"}
    <3>1. status = ""
      BY <1>4 DEF FailureInv, StatusFromFailures
    <3>2. at \in [Lists -> Nat] /\ "setup" \in Lists
      BY <1>0, ResultTypes DEF Lists
    <3> QED
      BY <1>3, <1>4, <3>1, <3>2
  <2>2. \A k \in DOMAIN tc.setup : k \in Nat
    BY <1>0, ListTypes, StepTypes
  <2>3. \A k \in DOMAIN tc.setup :
            tc.setup[k].id \in Ids \cup {NoId} /\ (k # n => tc.setup[k].id # i)
    BY <1>0, <1>1, IdsDiffer, ResultTypes
  <2>4. \A k \in DOMAIN tc.setup : k # n =>
            stepResults'[tc.setup[k].id] = stepResults[tc.setup[k].id]
    <3> HIDE DEF i
    <3> QED
      BY <1>6, <2>3
  <2>5. stepResults'[tc.setup[n].id] # NoResult
    BY <1>5, <1>6
  <2>6. ASSUME NEW k \in DOMAIN tc.setup, phase' = "setup", k >= at'["setup"]
        PROVE  stepResults'[tc.setup[k].id] = NoResult
    <3>1. k # n /\ k >= n
      BY <1>1, <2>1, <2>2, <2>6
    <3> QED
      BY <1>4, <2>4, <3>1 DEF StoredInv, SetupStored
  <2>7. ASSUME NEW k \in DOMAIN tc.setup, k < at'["setup"]
        PROVE  stepResults'[tc.setup[k].id] # NoResult
    <3>1. CASE k = n
      BY <2>5, <3>1
    <3>2. CASE k # n
      <4>1. k < n
        BY <1>1, <2>1, <2>2, <2>7, <3>2
      <4> QED
        BY <2>4, <3>2, <4>1 DEF StoredInv, SetupStored
    <3> QED
      BY <3>1, <3>2
  <2> QED
    BY <1>4, <2>1, <2>6, <2>7 DEF SetupStored
<1> QED
  BY <1>6, <1>7, <1>8, <1>9 DEF StoredInv

LEMMA TeardownStoredInv ==
    ASSUME FailureInv, WellFormed(tc), OrderInv, StoredInv, TeardownStep
    PROVE  StoredInv' /\ Final
<1> USE DEF params, locals, report
<1> DEFINE n == at["teardown"]
           i == tc.teardown[n].id
<1>0. TypeOK /\ tc \in Tests
  BY DEF FailureInv, TypeOK
<1>1. n \in DOMAIN tc.teardown /\ n \in Nat
  <2>1. n <= Len(tc.teardown) /\ n \in Nat /\ n > 0
    BY <1>0 DEF TeardownStep, TypeOK, Lists
  <2> QED
    BY <1>0, <2>1, ListTypes, StepTypes
<1>2. PICK r : stepResults' = [stepResults EXCEPT ![i] = r]
  BY DEF TeardownStep
<1>3. /\ phase = "teardown" /\ UNCHANGED <<tc, phase, executed, pc, reply, status>>
      /\ at' = [at EXCEPT !["teardown"] = n + 1]
  BY DEF TeardownStep
<1>4. at'["teardown"] = n + 1 /\ at'["setup"] = at["setup"]
  BY <1>0, <1>3, ResultTypes DEF Lists
<1>5. i \in Ids \cup {NoId} /\ stepResults[i] = NoResult
  <2>1. n >= at["teardown"]
    BY <1>1
  <2> QED
    BY <1>0, <1>1, <2>1, ResultTypes DEF StoredInv, TeardownNotYet
<1>6. /\ Final
      /\ \A j \in Ids \cup {NoId} : j # i => stepResults'[j] = stepResults[j]
  <2> HIDE DEF i
  <2> QED
    BY <1>0, <1>2, <1>5, StoreIsFinal
<1>7. StepsStored'
  <2>1. \A p \in Pos : tc.steps[p].id # i /\ tc.steps[p].id \in Ids \cup {NoId}
    BY <1>0, <1>1, IdsDiffer, ResultTypes
  <2>2. Pos' = Pos /\ \A p \in Pos : Stored(p)' <=> Stored(p)
    BY <1>3 DEF Pos, Stored, IsDone
  <2> HIDE DEF i
  <2> QED
    BY <1>3, <1>6, <2>1, <2>2 DEF StoredInv, StepsStored
<1>8. TeardownNotYet'
  <2>1. \A k \in DOMAIN tc.teardown : k \in Nat
    BY <1>0, ListTypes, StepTypes
  <2>2. \A k \in DOMAIN tc.teardown :
            tc.teardown[k].id \in Ids \cup {NoId} /\ (k # n => tc.teardown[k].id # i)
    BY <1>0, <1>1, IdsDiffer, ResultTypes
  <2>3. \A k \in DOMAIN tc.teardown : k >= n + 1 => k # n /\ k >= n
    BY <1>1, <2>1
  <2> HIDE DEF i
  <2> QED
    BY <1>3, <1>4, <1>6, <2>2, <2>3 DEF StoredInv, TeardownNotYet
<1>9. SetupStored'
  <2>1. \A k \in DOMAIN tc.setup : tc.setup[k].id # i /\ tc.setup[k].id \in Ids \cup {NoId}
    BY <1>0, <1>1, IdsDiffer, ResultTypes
  <2>2. at["setup"] > Len(tc.setup)
    BY <1>3 DEF StoredInv, SetupStored
  <2> HIDE DEF i
  <2> QED
    BY <1>3, <1>4, <1>6, <2>1, <2>2 DEF StoredInv, SetupStored
<1> QED
  BY <1>6, <1>7, <1>8, <1>9 DEF StoredInv

\* A sequential step, or a goroutine that stores, adds the entry of a step that has none.
LEMMA StepStoredInv ==
    ASSUME TypeOK, WellFormed(tc), StoredInv, NEW p \in Pos, NEW r, ~Stored(p), Stored(p)',
           stepResults' = [stepResults EXCEPT ![tc.steps[p].id] = r], reply'[p] = r,
           \A q \in Pos : q # p => (Stored(q)' <=> Stored(q)) /\ (Stored(q) => reply'[q] = reply[q]),
           UNCHANGED <<tc, phase, status>>,
           at'["setup"] = at["setup"], at'["teardown"] = at["teardown"]
    PROVE  StoredInv' /\ Final
<1> DEFINE i == tc.steps[p].id
<1>0. tc \in Tests
  BY DEF TypeOK
<1>1. i \in Ids \cup {NoId} /\ stepResults[i] = NoResult
  BY <1>0, ResultTypes DEF StoredInv, StepsStored
<1>2. /\ Final /\ stepResults'[i] = r
      /\ \A j \in Ids \cup {NoId} : j # i => stepResults'[j] = stepResults[j]
  <2>1. stepResults' = [stepResults EXCEPT ![i] = r]
    OBVIOUS
  <2> HIDE DEF i
  <2> QED
    BY <1>1, <2>1, StoreIsFinal
<1>3. /\ \A q \in Pos : tc.steps[q].id \in Ids \cup {NoId} /\ (q # p => tc.steps[q].id # i)
      /\ \A k \in DOMAIN tc.setup : tc.setup[k].id \in Ids \cup {NoId} /\ tc.setup[k].id # i
      /\ \A k \in DOMAIN tc.teardown :
            tc.teardown[k].id \in Ids \cup {NoId} /\ tc.teardown[k].id # i
  BY <1>0, IdsAreUnique, IdsDiffer, ResultTypes
<1>4. Pos' = Pos
  BY DEF Pos
<1>5. StepsStored'
  <2>1. stepResults'[tc.steps[p].id] = reply'[p]
    BY <1>2
  <2>2. ASSUME NEW q \in Pos, q # p
        PROVE  stepResults'[tc.steps[q].id] = IF Stored(q)' THEN reply'[q] ELSE NoResult
    <3>1. stepResults'[tc.steps[q].id] = stepResults[tc.steps[q].id]
      <4> HIDE DEF i
      <4> QED
        BY <1>2, <1>3, <2>2
    <3> QED
      BY <2>2, <3>1 DEF StoredInv, StepsStored
  <2>3. \A q \in Pos :
            stepResults'[tc.steps[q].id] = IF Stored(q)' THEN reply'[q] ELSE NoResult
    BY <2>1, <2>2
  <2> QED
    BY <1>4, <2>3 DEF StepsStored
<1>6. SetupStored'
  <2> HIDE DEF i
  <2> QED
    BY <1>2, <1>3 DEF StoredInv, SetupStored
<1>7. TeardownNotYet'
  <2> HIDE DEF i
  <2> QED
    BY <1>2, <1>3 DEF StoredInv, TeardownNotYet
<1> QED
  BY <1>2, <1>5, <1>6, <1>7 DEF StoredInv

LEMMA SequentialStoredInv ==
    ASSUME FailureInv, WellFormed(tc), OrderInv, StoredInv, SequentialStep
    PROVE  StoredInv' /\ Final
<1> USE DEF params
<1>0. TypeOK /\ tc \in Tests
  BY DEF FailureInv, TypeOK
<1>1. PICK p \in Pos :
          /\ AtStep(p) /\ tc.steps[p].id \notin executed
          /\ \E o \in Outcomes(tc.steps[p], stepResults) :
                 /\ stepResults' = [stepResults EXCEPT ![tc.steps[p].id] = o.reply]
                 /\ reply' = [reply EXCEPT ![p] = o.reply]
          /\ executed' = executed \cup {tc.steps[p].id}
          /\ at' = [at EXCEPT !["steps"] = p + 1]
          /\ UNCHANGED <<params, phase, batch, mu, pc, status>>
  BY DEF SequentialStep
<1>2. PICK r :
          /\ stepResults' = [stepResults EXCEPT ![tc.steps[p].id] = r]
          /\ reply' = [reply EXCEPT ![p] = r]
  BY <1>1
<1>3. \A q \in Pos : pc[q] = "idle"
  BY <1>1 DEF AtStep, FailureInv, GoroutinesOfBatch
<1>4. /\ ~Stored(p) /\ Stored(p)'
      /\ \A q \in Pos : q # p => (Stored(q)' <=> Stored(q))
  BY <1>0, <1>1, <1>3, IdsAreUnique DEF Stored, IsDone
<1>5. reply'[p] = r /\ \A q \in Pos : q # p => reply'[q] = reply[q]
  BY <1>0, <1>2 DEF TypeOK
<1>6. at'["setup"] = at["setup"] /\ at'["teardown"] = at["teardown"]
  BY <1>0, <1>1, ResultTypes DEF Lists
<1> QED
  BY <1>0, <1>1, <1>2, <1>4, <1>5, <1>6, StepStoredInv

LEMMA GoroutineStoredInv ==
    ASSUME FailureInv, WellFormed(tc), OrderInv, StoredInv, NEW p \in Pos, GoroutineStep(p)
    PROVE  StoredInv' /\ Final
<1> USE DEF Goroutine, params, locals, report
<1>0. TypeOK /\ tc \in Tests /\ pc \in [Pos -> PCs] /\ reply \in [Pos -> Response]
  BY DEF FailureInv, TypeOK
<1>1. /\ UNCHANGED <<tc, at, executed, batch, status>>
      /\ phase = "steps" /\ phase' \in {"steps", "crashed"}
  BY DEF GoroutineStep, Resolve, NoResponse, Receive, Evaluate, Lock, Store,
     MapAccessIsFatal, GoTo
<1>2. pc[p] # "idle" /\ p \in batch
  BY DEF GoroutineStep, Resolve, NoResponse, Receive, Evaluate, Lock, Store,
     FailureInv, GoroutinesOfBatch
<1>3. ~IsDone(p)
  <2>1. p \in Here..Len(tc.steps) /\ \A q \in Pos : q >= Here => ~IsDone(q)
    BY <1>2 DEF OrderInv, BatchIsRun
  <2>2. p >= Here
    BY <1>0, <2>1, OrderTypes
  <2> QED
    BY <2>1, <2>2
<1>4. at["setup"] > Len(tc.setup)
  BY <1>1 DEF StoredInv, SetupStored
<1>5. CASE Store(p)
  <2>1. /\ pc[p] = "store" /\ stepResults' = [stepResults EXCEPT ![tc.steps[p].id] = reply[p]]
        /\ pc' = [pc EXCEPT ![p] = "over"] /\ UNCHANGED <<phase, reply>>
    BY <1>5 DEF Store, StoreKey, GoTo
  <2>2. ~Stored(p) /\ Stored(p)'
    BY <1>0, <1>3, <2>1 DEF Stored
  <2>3. \A q \in Pos : q # p => (Stored(q)' <=> Stored(q))
    BY <1>0, <1>1, <2>1 DEF Stored, IsDone
  <2> QED
    BY <1>0, <1>1, <2>1, <2>2, <2>3, StepStoredInv
<1>6. CASE ~Store(p)
  <2>1. /\ stepResults' = stepResults
        /\ \/ UNCHANGED <<pc, reply>>
           \/ /\ pc[p] # "over"
              /\ \E label \in PCs \ {"over"} : pc' = [pc EXCEPT ![p] = label]
              /\ reply' = reply \/ \E r : reply' = [reply EXCEPT ![p] = r]
    BY <1>6 DEF GoroutineStep, Resolve, NoResponse, Receive, Evaluate, Lock,
       MapAccessIsFatal, GoTo, PCs
  <2>2. \A q \in Pos : (pc'[q] = "over" <=> pc[q] = "over")
                       /\ (q # p \/ pc[p] = "over" => reply'[q] = reply[q])
    BY <1>0, <2>1
  <2>3. /\ \A q \in Pos : Stored(q)' <=> Stored(q)
        /\ \A q \in Pos : Stored(q) => reply'[q] = reply[q]
    BY <1>1, <1>3, <2>2 DEF Stored, IsDone
  <2> QED
    BY <1>1, <1>4, <2>1, <2>3, StoredUntouched DEF StoredInv
<1> QED
  BY <1>5, <1>6

LEMMA NextStoredInv ==
    ASSUME FailureInv, WellFormed(tc), OrderInv, StoredInv, [Next]_vars
    PROVE  StoredInv' /\ Final
<1> USE DEF params, locals, report
<1>0. TypeOK /\ at \in [Lists -> Nat] /\ {"setup", "steps", "teardown"} = Lists
  BY DEF FailureInv, TypeOK, Lists
<1>1. CASE SetupStep
  BY <1>1, SetupStoredInv
<1>2. CASE SequentialStep
  BY <1>2, SequentialStoredInv
<1>3. CASE \E p \in Pos : GoroutineStep(p)
  BY <1>3, GoroutineStoredInv
<1>4. CASE TeardownStep
  BY <1>4, TeardownStoredInv
<1>5. CASE SetupOver
  <2>1. /\ UNCHANGED <<tc, stepResults, executed, pc, reply, at>>
        /\ phase' = "steps" /\ at["setup"] > Len(tc.setup)
    BY <1>5 DEF SetupOver
  <2>2. \A p \in Pos : Stored(p)' <=> Stored(p)
    BY <2>1 DEF Stored, IsDone
  <2> QED
    BY <2>1, <2>2, StoredUntouched DEF StoredInv
<1>6. CASE SkipStep \/ StepsOver \/ Verdict \/ Terminated \/ UNCHANGED vars
  <2>1. /\ UNCHANGED <<tc, stepResults, executed, pc, reply>>
        /\ at'["setup"] = at["setup"] /\ at'["teardown"] = at["teardown"]
    BY <1>0, <1>6 DEF SkipStep, StepsOver, Verdict, Terminated, vars
  <2>2. \A p \in Pos : Stored(p)' <=> Stored(p)
    BY <2>1 DEF Stored, IsDone
  <2>3. /\ phase' = "setup" => phase = "setup"
        /\ \/ UNCHANGED <<phase, status>>
           \/ phase \in {"steps", "teardown"}
    BY <1>6 DEF SkipStep, StepsOver, Verdict, Terminated, vars
  <2>4. phase' \in {"steps", "teardown", "crashed"} \/ status' \in {"pass", "fail"} =>
            at["setup"] > Len(tc.setup)
    BY <2>3 DEF StoredInv, SetupStored
  <2> QED
    BY <2>1, <2>2, <2>3, <2>4, StoredUntouched DEF StoredInv
<1>7. CASE StartGroup \/ Join
  <2>1. UNCHANGED <<tc, stepResults, reply, phase, status>>
    BY <1>7 DEF StartGroup, Join
  <2>2. at'["setup"] = at["setup"] /\ at'["teardown"] = at["teardown"]
    BY <1>0, <1>7 DEF StartGroup, Join
  <2>3. \A p \in Pos : Stored(p)' <=> Stored(p)
    <3>1. CASE StartGroup
      <4>1. /\ batch = {} /\ executed' = executed
            /\ \A q \in Pos : pc'[q] \in {"resolve", pc[q]}
        BY <3>1 DEF StartGroup, AtStep
      <4>2. \A q \in Pos : pc[q] = "idle"
        BY <4>1 DEF FailureInv, GoroutinesOfBatch
      <4>3. tc' = tc
        BY <2>1
      <4> QED
        BY <4>1, <4>2, <4>3 DEF Stored, IsDone
    <3>2. CASE Join
      <4>1. /\ \A q \in batch : pc[q] = "over"
            /\ executed' = executed \cup {tc.steps[q].id : q \in batch}
            /\ pc' = [q \in Pos |-> IF q \in batch THEN "idle" ELSE pc[q]]
            /\ tc' = tc
        BY <3>2 DEF Join, Marked
      <4>2. \A q \in Pos : q \in batch <=> pc[q] # "idle"
        BY DEF FailureInv, GoroutinesOfBatch
      <4>3. batch \subseteq Pos /\ tc \in Tests
        BY <1>0 DEF TypeOK
      <4>4. \A q \in Pos : IsDone(q)' <=> IsDone(q) \/ q \in batch
        BY <4>1, <4>3, IdsAreUnique DEF IsDone
      <4> QED
        BY <4>1, <4>2, <4>4 DEF Stored
    <3> QED
      BY <1>7, <3>1, <3>2
  <2>4. phase' = "setup" => phase = "setup"
    BY <2>1
  <2>5. phase' \in {"steps", "teardown", "crashed"} \/ status' \in {"pass", "fail"} =>
            at["setup"] > Len(tc.setup)
    BY <2>1 DEF StoredInv, SetupStored
  <2> QED
    BY <2>1, <2>2, <2>3, <2>4, <2>5, StoredUntouched DEF StoredInv
<1> QED
  BY <1>1, <1>2, <1>3, <1>4, <1>5, <1>6, <1>7 DEF Next

-----------------------------------------------------------------------------
(* The invariant: what the verdict on a step rests on.                     *)

\* Step p was to get a response, and got none.
Unanswered(p) == tc.steps[p].action # "WAIT" /\ reply[p] = Silent

\* An answer that fails step p.
Cause(p) ==
    /\ tc.steps[p].action # "WAIT"
    /\ \/ reply[p] = Silent
       \/ Broken(p)
       \/ \E i \in tc.steps[p].matcherRefs :
              stepResults[i] = NoResult \/ stepResults[i].kind # "full"

\* Step p has begun.
Begun(p) == pc[p] # "idle" \/ IsDone(p)

\* The goroutine of step p fails it for a cause, and if it got no answer.
JudgedForCause(p) ==
    /\ pc[p] \in {"call", "evaluate"} => tc.steps[p].action # "WAIT"
    /\ pc[p] = "evaluate" => reply[p] # Silent
    /\ pc[p] \in {"lock", "store", "over"} =>
          (Unanswered(p) => fails[p]) /\ (fails[p] => Cause(p))

\* So does the main goroutine.
CountedForCause(p) ==
    /\ p \in failed => IsDone(p) /\ Cause(p)
    /\ IsDone(p) /\ Unanswered(p) => p \in failed

\* The request of step p carried the values of the replies it refers to.
Carried(p) ==
    /\ pc[p] \notin {"idle", "resolve"} \/ IsDone(p)
    /\ tc.steps[p].action # "WAIT"
    => \A q \in Pos : tc.steps[q].id \in tc.steps[p].refs =>
           (tc.steps[q].id \in sent[p] <=> reply[q].kind = "full")

VerdictInv ==
    /\ phase = "setup" => executed = {} /\ batch = {}
    /\ status = "fail" => failed # {}
    /\ \A p \in Pos : JudgedForCause(p) /\ CountedForCause(p) /\ Carried(p)

\* What is assumed of the state before a step.
TestInv == FailureInv /\ WellFormed(tc) /\ OrderInv /\ StoredInv /\ VerdictInv

\* The steps that a step's templates refer to are done when it begins.
LEMMA RefsAreDone ==
    ASSUME FailureInv, WellFormed(tc), OrderInv, NEW p \in Pos,
           Begun(p) \/ p = Here,
           NEW i \in tc.steps[p].refs \cup tc.steps[p].matcherRefs
    PROVE  \A q \in Pos : i = tc.steps[q].id => IsDone(q)
<1>0. TypeOK /\ tc \in Tests
  BY DEF FailureInv, TypeOK
<1> SUFFICES ASSUME NEW q \in Pos, i = tc.steps[q].id PROVE IsDone(q)
  OBVIOUS
<1>1. q \in Before(tc.steps, p)
  BY <1>0, RefsAreScoped
<1>2. CASE Begun(p)
  <2>1. pc[p] # "idle" \/ reported[p] > 0
    BY <1>2 DEF Begun, OrderInv, CountedOnce
  <2>2. reported[q] > 0
    BY <1>1, <2>1, StartedIsInOrder DEF StepsInOrder
  <2> QED
    BY <2>2 DEF OrderInv, CountedOnce
<1>3. CASE p = Here
  BY <1>1, <1>3 DEF Before, OrderInv, DoneBefore
<1> QED
  BY <1>2, <1>3

\* The results that a step's templates refer to are stored when it begins.
LEMMA RefsAreStored ==
    ASSUME FailureInv, WellFormed(tc), OrderInv, StoredInv, NEW p \in Pos,
           Begun(p) \/ p = Here, phase \in {"steps", "teardown"},
           NEW i \in tc.steps[p].refs \cup tc.steps[p].matcherRefs
    PROVE  i \in Ids /\ stepResults[i] # NoResult
<1>0. TypeOK /\ tc \in Tests
  BY DEF FailureInv, TypeOK
<1>1. i \in Ids
  <2>1. tc.steps[p] \in Step
    BY <1>0, ListTypes
  <2> QED
    BY <2>1 DEF Step
<1>2. CASE \E k \in DOMAIN tc.setup : i = tc.setup[k].id
  <2>1. PICK k \in DOMAIN tc.setup : i = tc.setup[k].id
    BY <1>2
  <2>2. at["setup"] > Len(tc.setup)
    BY DEF StoredInv, SetupStored
  <2>3. k \in 1..Len(tc.setup) /\ Len(tc.setup) \in Nat /\ at["setup"] \in Nat
    BY <1>0, ListTypes, StepTypes, ResultTypes DEF Lists
  <2>4. k < at["setup"]
    BY <2>2, <2>3
  <2> QED
    BY <1>1, <2>1, <2>4 DEF StoredInv, SetupStored
<1>3. CASE \E q \in Before(tc.steps, p) : i = tc.steps[q].id
  <2>1. PICK q \in Pos : i = tc.steps[q].id
    BY <1>3 DEF Before, Pos
  <2>2. IsDone(q)
    BY <2>1, RefsAreDone
  <2> QED
    BY <1>0, <1>1, <2>1, <2>2, RepliesAreResults DEF StoredInv, StepsStored, Stored
<1> QED
  BY <1>0, <1>2, <1>3, RefsAreScoped

\* A template's result is read as it is stored, even during another's write.
LEMMA ViewsShowRefs ==
    ASSUME FailureInv, WellFormed(tc), OrderInv, NEW p \in Pos, Begun(p),
           NEW view \in Views,
           NEW i \in tc.steps[p].refs \cup tc.steps[p].matcherRefs
    PROVE  view[i] = stepResults[i]
<1>0. TypeOK /\ tc \in Tests /\ Nobody \notin Pos
  <2>1. TypeOK /\ tc \in Tests
    BY DEF FailureInv, TypeOK
  <2> QED
    BY <2>1, PosType, TestRunnerAssumption
<1>1. CASE view = stepResults
  BY <1>1
<1>2. CASE mu # Nobody /\ view = [stepResults EXCEPT ![StoreKey(mu)] = reply[mu]]
  <2>1. mu \in Pos /\ pc[mu] = "store"
    BY <1>0, <1>2 DEF TypeOK, FailureInv, WritesAreLocked
  <2>2. mu \in batch
    BY <2>1 DEF FailureInv, GoroutinesOfBatch
  <2>3. mu >= Here
    <3>1. mu \in Here..Len(tc.steps)
      BY <2>2 DEF OrderInv, BatchIsRun
    <3> QED
      BY <1>0, <3>1, OrderTypes
  <2>4. ~IsDone(mu)
    BY <2>1, <2>2, <2>3 DEF OrderInv, BatchIsRun
  <2>5. i # StoreKey(mu)
    BY <2>1, <2>4, RefsAreDone DEF StoreKey
  <2>6. stepResults \in [Ids \cup {NoId} -> Response \cup {NoResult}]
        /\ i \in Ids
    <3>1. tc.steps[p] \in Step
      BY <1>0, ListTypes
    <3>2. i \in Ids
      BY <3>1 DEF Step
    <3> QED
      BY <1>0, <3>2, ResultTypes
  <2> QED
    BY <1>2, <2>5, <2>6
<1> QED
  BY <1>1, <1>2 DEF Views

\* Of the templates of a step, those resolve that name a result with the field.
LEMMA ResolvedAreFull ==
    ASSUME FailureInv, WellFormed(tc), OrderInv, StoredInv, NEW p \in Pos,
           Begun(p) \/ p = Here, phase = "steps",
           NEW view, \A i \in tc.steps[p].refs : view[i] = stepResults[i],
           NEW q \in Pos, tc.steps[q].id \in tc.steps[p].refs
    PROVE  tc.steps[q].id \in Resolved(tc.steps[p].refs, view) <=> reply[q].kind = "full"
<1>0. TypeOK
  BY DEF FailureInv
<1>1. IsDone(q)
  BY RefsAreDone
<1>2. stepResults[tc.steps[q].id] = reply[q] /\ reply[q] # NoResult
  BY <1>0, <1>1, RepliesAreResults DEF StoredInv, StepsStored, Stored
<1> QED
  BY <1>2 DEF Resolved

\* A step fails on a response only if the response breaks an assertion, or one of
\* its matchers refers to a result without the field.
LEMMA FailsForCause ==
    ASSUME NEW st, NEW r, NEW view, AssertionFails(st, r, Resolved(st.matcherRefs, view))
    PROVE  \/ r = Silent
           \/ Breaks(st, r)
           \/ \E i \in st.matcherRefs : view[i] = NoResult \/ view[i].kind # "full"
<1>1. PICK c \in st.asserts \cap Evaluated :
          IF c = "body"
          THEN /\ r.kind # "opaque"
               /\ c \notin r.meets \/ ~(st.matcherRefs \subseteq Resolved(st.matcherRefs, view))
          ELSE c \notin r.meets
  BY DEF AssertionFails
<1>2. CASE c \notin r.meets
  BY <1>1, <1>2 DEF Breaks, Evaluated
<1>3. CASE ~(st.matcherRefs \subseteq Resolved(st.matcherRefs, view))
  BY <1>3 DEF Resolved
<1> QED
  BY <1>1, <1>2, <1>3

\* A cause does not go away.
LEMMA CauseStays ==
    ASSUME FailureInv, WellFormed(tc), OrderInv, StoredInv, Final, NEW p \in Pos,
           tc' = tc, reply'[p] = reply[p],
           stepResults' = stepResults
               \/ (phase \in {"steps", "teardown"} /\ (Begun(p) \/ p = Here))
    PROVE  Cause(p)' <=> Cause(p)
<1>1. \A i \in tc.steps[p].matcherRefs : stepResults'[i] = stepResults[i]
  BY RefsAreStored DEF Final
<1> QED
  BY <1>1 DEF Cause, Broken

\* What holds of a step goes on to hold while others run.
LEMMA OthersStay ==
    ASSUME TestInv, Final, NEW p \in Pos, tc' = tc,
           pc'[p] = pc[p], reply'[p] = reply[p], fails'[p] = fails[p], sent'[p] = sent[p],
           p \in failed' <=> p \in failed, IsDone(p)' <=> IsDone(p),
           stepResults' = stepResults \/ phase \in {"steps", "teardown"},
           \A q \in Pos : IsDone(q) => reply'[q] = reply[q]
    PROVE  JudgedForCause(p)' /\ CountedForCause(p)' /\ Carried(p)'
<1> USE DEF TestInv
<1>1. Pos' = Pos /\ (Unanswered(p)' <=> Unanswered(p))
  BY DEF Pos, Unanswered
<1>2. Begun(p) => (Cause(p)' <=> Cause(p))
  BY CauseStays
<1>3. JudgedForCause(p) /\ CountedForCause(p) /\ Carried(p)
  BY DEF VerdictInv
<1>4. JudgedForCause(p)'
  BY <1>1, <1>2, <1>3 DEF JudgedForCause, Begun
<1>5. CountedForCause(p)'
  BY <1>1, <1>2, <1>3 DEF CountedForCause, Begun
<1>6. Carried(p)'
  <2>1. ASSUME pc[p] \notin {"idle", "resolve"} \/ IsDone(p), NEW q \in Pos,
               tc.steps[q].id \in tc.steps[p].refs
        PROVE  reply'[q] = reply[q]
    BY <2>1, RefsAreDone DEF Begun
  <2> QED
    BY <1>1, <1>3, <2>1 DEF Carried
<1> QED
  BY <1>4, <1>5, <1>6

LEMMA InitVerdictInv == Init => VerdictInv
<1> SUFFICES ASSUME Init PROVE VerdictInv
  OBVIOUS
<1>1. /\ executed = {} /\ batch = {} /\ status = "" /\ failed = {}
      /\ \A p \in Pos : pc[p] = "idle"
  BY DEF Init
<1> QED
  BY <1>1 DEF VerdictInv, JudgedForCause, CountedForCause, Carried, IsDone

-----------------------------------------------------------------------------
(* Each step of a test run keeps it.                                       *)

\* The steps that touch neither a goroutine nor the main goroutine's progress.
LEMMA QuietVerdictInv ==
    ASSUME TestInv, Final,
           SetupStep \/ SetupOver \/ SkipStep \/ StepsOver \/ TeardownStep \/ Verdict
               \/ Terminated \/ UNCHANGED vars
    PROVE  VerdictInv'
<1> USE DEF params, locals, report
<1>1. UNCHANGED <<tc, executed, batch, pc, reply, fails, sent, failed>>
  BY DEF SetupStep, SetupOver, SkipStep, StepsOver, TeardownStep, Verdict, Terminated, vars
<1>2. Pos' = Pos /\ \A p \in Pos : IsDone(p)' <=> IsDone(p)
  BY <1>1 DEF Pos, IsDone
<1>3. status' = "fail" => failed' # {}
  <2>1. status' = status \/ status' = "error" \/ (status' = "fail" => failed # {})
    BY DEF SetupStep, SetupOver, SkipStep, StepsOver, TeardownStep, Verdict, Terminated, vars
  <2> QED
    BY <1>1, <2>1 DEF TestInv, VerdictInv
<1>4. phase' = "setup" => phase = "setup"
  BY DEF SetupStep, SetupOver, SkipStep, StepsOver, TeardownStep, Verdict, Terminated, vars
<1>5. CASE SetupStep
  <2>1. executed = {} /\ batch = {}
    BY <1>5 DEF SetupStep, TestInv, VerdictInv
  <2>2. \A p \in Pos : ~IsDone(p) /\ pc[p] = "idle" /\ p \notin failed
    BY <2>1 DEF IsDone, TestInv, FailureInv, GoroutinesOfBatch, VerdictInv, CountedForCause
  <2>3. \A p \in Pos : JudgedForCause(p)' /\ CountedForCause(p)' /\ Carried(p)'
    BY <1>1, <1>2, <2>2 DEF JudgedForCause, CountedForCause, Carried
  <2> QED
    BY <1>1, <1>2, <1>3, <2>1, <2>3 DEF VerdictInv
<1>6. CASE ~SetupStep
  <2>1. stepResults' = stepResults \/ phase \in {"steps", "teardown"}
    BY <1>6 DEF SetupOver, SkipStep, StepsOver, TeardownStep, Verdict, Terminated, vars
  <2>2. \A p \in Pos : JudgedForCause(p)' /\ CountedForCause(p)' /\ Carried(p)'
    BY <1>1, <1>2, <2>1, OthersStay
  <2> QED
    BY <1>1, <1>2, <1>3, <1>4, <2>2 DEF VerdictInv, TestInv
<1> QED
  BY <1>5, <1>6

LEMMA StartVerdictInv ==
    ASSUME TestInv, Final, StartGroup
    PROVE  VerdictInv'
<1> USE DEF params, report
<1>1. /\ phase = "steps" /\ batch = {}
      /\ \A p \in Pos : pc'[p] \in {"resolve", pc[p]}
      /\ UNCHANGED <<tc, phase, executed, stepResults, reply, fails, sent, failed, status>>
  BY DEF StartGroup, AtStep
<1>2. Pos' = Pos /\ \A p \in Pos : IsDone(p)' <=> IsDone(p)
  BY <1>1 DEF Pos, IsDone
<1>3. \A p \in Pos : pc[p] = "idle" /\ pc'[p] \in {"idle", "resolve"}
  BY <1>1 DEF TestInv, FailureInv, GoroutinesOfBatch
<1>4. \A p \in Pos : /\ Cause(p)' <=> Cause(p)
                     /\ Unanswered(p)' <=> Unanswered(p)
  BY <1>1 DEF Cause, Broken, Unanswered
<1>5. \A p \in Pos : JudgedForCause(p) /\ CountedForCause(p) /\ Carried(p)
  BY DEF TestInv, VerdictInv
<1>6. \A p \in Pos : JudgedForCause(p)' /\ CountedForCause(p)'
  BY <1>1, <1>2, <1>3, <1>4, <1>5 DEF JudgedForCause, CountedForCause
<1>7. \A p \in Pos : Carried(p)'
  BY <1>1, <1>2, <1>3, <1>5 DEF Carried
<1> QED
  BY <1>1, <1>2, <1>6, <1>7 DEF TestInv, VerdictInv

LEMMA JoinVerdictInv ==
    ASSUME TestInv, Final, Join
    PROVE  VerdictInv'
<1> USE DEF params
<1>0. batch \subseteq Pos /\ tc \in Tests
  BY DEF TestInv, FailureInv, TypeOK
<1>1. /\ phase = "steps"
      /\ \A p \in batch : pc[p] = "over"
      /\ \A p \in Pos : pc'[p] = IF p \in batch THEN "idle" ELSE pc[p]
      /\ executed' = executed \cup {tc.steps[p].id : p \in batch}
      /\ failed' = failed \cup {p \in batch : fails[p]}
      /\ UNCHANGED <<tc, phase, stepResults, reply, fails, sent, status>>
  BY DEF Join, Marked
<1>2. Pos' = Pos /\ \A p \in Pos : IsDone(p)' <=> IsDone(p) \/ p \in batch
  BY <1>0, <1>1, IdsAreUnique DEF TestInv, Pos, IsDone
<1>3. \A p \in Pos : p \in batch <=> pc[p] # "idle"
  BY DEF TestInv, FailureInv, GoroutinesOfBatch
<1>4. \A p \in Pos : /\ Cause(p)' <=> Cause(p)
                     /\ Unanswered(p)' <=> Unanswered(p)
  BY <1>1 DEF Cause, Broken, Unanswered
<1>5. \A p \in Pos : JudgedForCause(p) /\ CountedForCause(p) /\ Carried(p)
  BY DEF TestInv, VerdictInv
<1>6. \A p \in Pos : JudgedForCause(p)'
  BY <1>1, <1>2, <1>3 DEF JudgedForCause
<1>7. ASSUME NEW p \in Pos PROVE CountedForCause(p)'
  <2>1. CASE p \in batch
    <3>1. pc[p] = "over"
      BY <1>1, <2>1
    <3> QED
      BY <1>1, <1>2, <1>4, <1>5, <2>1, <3>1 DEF JudgedForCause, CountedForCause
  <2>2. CASE p \notin batch
    BY <1>1, <1>2, <1>4, <1>5, <2>2 DEF CountedForCause
  <2> QED
    BY <2>1, <2>2
<1>8. ASSUME NEW p \in Pos PROVE Carried(p)'
  <2>1. pc'[p] \notin {"idle", "resolve"} \/ IsDone(p)' =>
            pc[p] \notin {"idle", "resolve"} \/ IsDone(p)
    BY <1>1, <1>2
  <2> QED
    BY <1>1, <1>2, <1>5, <2>1 DEF Carried
<1> QED
  BY <1>1, <1>2, <1>6, <1>7, <1>8 DEF TestInv, VerdictInv

LEMMA SequentialVerdictInv ==
    ASSUME TestInv, Final, SequentialStep
    PROVE  VerdictInv'
<1> USE DEF params
<1>0. TypeOK /\ tc \in Tests
  BY DEF TestInv, FailureInv, TypeOK
<1>1. PICK p \in Pos :
          /\ AtStep(p) /\ ~IsDone(p)
          /\ \E o \in Outcomes(tc.steps[p], stepResults) :
                 /\ stepResults' = [stepResults EXCEPT ![tc.steps[p].id] = o.reply]
                 /\ reply' = [reply EXCEPT ![p] = o.reply]
                 /\ fails' = [fails EXCEPT ![p] = o.fails]
                 /\ failed' = IF o.fails THEN failed \cup {p} ELSE failed
          /\ sent' = [sent EXCEPT ![p] = Resolved(tc.steps[p].refs, stepResults)]
          /\ executed' = executed \cup {tc.steps[p].id}
          /\ UNCHANGED <<params, phase, batch, mu, pc, status>>
  BY DEF SequentialStep, IsDone
<1>2. PICK o \in Outcomes(tc.steps[p], stepResults) :
          /\ stepResults' = [stepResults EXCEPT ![tc.steps[p].id] = o.reply]
          /\ reply' = [reply EXCEPT ![p] = o.reply]
          /\ fails' = [fails EXCEPT ![p] = o.fails]
          /\ failed' = IF o.fails THEN failed \cup {p} ELSE failed
  BY <1>1
<1>3. tc' = tc /\ phase = "steps" /\ batch = {} /\ p = Here
  BY <1>1 DEF AtStep, Here
<1>4. \A q \in Pos : pc[q] = "idle"
  BY <1>3 DEF TestInv, FailureInv, GoroutinesOfBatch
<1>5. Pos' = Pos /\ \A q \in Pos : IsDone(q)' <=> IsDone(q) \/ q = p
  BY <1>0, <1>1, <1>3, IdsAreUnique DEF TestInv, Pos, IsDone
<1>6. /\ reply'[p] = o.reply /\ fails'[p] = o.fails
      /\ sent'[p] = Resolved(tc.steps[p].refs, stepResults)
      /\ \A q \in Pos : q # p =>
            reply'[q] = reply[q] /\ fails'[q] = fails[q] /\ sent'[q] = sent[q]
  BY <1>0, <1>1, <1>2 DEF TypeOK
<1>7. ASSUME NEW q \in Pos, q # p
      PROVE  JudgedForCause(q)' /\ CountedForCause(q)' /\ Carried(q)'
  <2>1. \A k \in Pos : IsDone(k) => reply'[k] = reply[k]
    BY <1>1, <1>6
  <2>2. pc' = pc /\ (q \in failed' <=> q \in failed)
    BY <1>1, <1>2, <1>7
  <2> QED
    BY <1>3, <1>5, <1>6, <1>7, <2>1, <2>2, OthersStay
<1>8. JudgedForCause(p)'
  BY <1>1, <1>4 DEF JudgedForCause
<1>9. CountedForCause(p)'
  <2>1. p \notin failed
    BY <1>1 DEF TestInv, VerdictInv, CountedForCause
  <2>2. Silent.kind = "none" /\ \A r \in RunnerReplies(tc.steps[p]) : r # Silent
    BY TestCasesAssumption DEF RunnerReplies, HttpReplies, GrpcReplies, Replies, Silent,
       NoReply, BodyKinds
  <2>3. tc.steps[p].action # "WAIT" /\ o.reply = Silent => o.fails
    BY <2>2 DEF Outcomes
  <2>4. o.fails =>
            /\ tc.steps[p].action # "WAIT"
            /\ \/ o.reply = Silent
               \/ Breaks(tc.steps[p], o.reply)
               \/ \E i \in tc.steps[p].matcherRefs :
                      stepResults[i] = NoResult \/ stepResults[i].kind # "full"
    <3> SUFFICES ASSUME o.fails, o.reply # Silent
                 PROVE  /\ tc.steps[p].action # "WAIT"
                        /\ \/ Breaks(tc.steps[p], o.reply)
                           \/ \E i \in tc.steps[p].matcherRefs :
                                  stepResults[i] = NoResult \/ stepResults[i].kind # "full"
      BY DEF Outcomes
    <3>1. tc.steps[p].action # "WAIT"
      BY DEF Outcomes
    <3>2. PICK r \in RunnerReplies(tc.steps[p]) :
              o = [reply |-> r,
                   fails |-> AssertionFails(tc.steps[p], r,
                                            Resolved(tc.steps[p].matcherRefs, stepResults))]
      BY <3>1 DEF Outcomes
    <3>3. o.reply = r /\ AssertionFails(tc.steps[p], r,
                                        Resolved(tc.steps[p].matcherRefs, stepResults))
      BY <3>2
    <3> QED
      BY <3>1, <3>3, FailsForCause
  <2>5. \A i \in tc.steps[p].matcherRefs : stepResults'[i] = stepResults[i]
    BY <1>3, RefsAreStored DEF TestInv, Final
  <2>6. o.fails => Cause(p)'
    BY <1>3, <1>6, <2>4, <2>5 DEF Cause, Broken
  <2> QED
    BY <1>2, <1>3, <1>5, <1>6, <2>1, <2>3, <2>6 DEF CountedForCause, Unanswered
<1>10. Carried(p)'
  <2> SUFFICES ASSUME NEW q \in Pos, tc.steps[q].id \in tc.steps[p].refs
               PROVE  tc.steps[q].id \in sent'[p] <=> reply'[q].kind = "full"
    BY <1>3, <1>5 DEF Carried
  <2>1. IsDone(q)
    BY <1>3, RefsAreDone DEF TestInv
  <2>2. reply'[q] = reply[q]
    BY <1>1, <1>6, <2>1
  <2> QED
    BY <1>3, <1>6, <2>2, ResolvedAreFull DEF TestInv
<1>11. \A q \in Pos : JudgedForCause(q)' /\ CountedForCause(q)' /\ Carried(q)'
  BY <1>7, <1>8, <1>9, <1>10
<1>12. status' = "fail" => failed' # {}
  BY <1>1, <1>2 DEF TestInv, VerdictInv
<1>13. phase' # "setup"
  BY <1>1, <1>3
<1> QED
  BY <1>5, <1>11, <1>12, <1>13 DEF VerdictInv

LEMMA GoroutineVerdictInv ==
    ASSUME TestInv, Final, NEW p \in Pos, GoroutineStep(p)
    PROVE  VerdictInv'
<1> USE DEF Goroutine, params, locals, report
<1>0. /\ TypeOK /\ tc \in Tests
      /\ pc \in [Pos -> PCs] /\ reply \in [Pos -> Response]
      /\ fails \in [Pos -> BOOLEAN] /\ sent \in [Pos -> SUBSET Ids]
  BY DEF TestInv, FailureInv, TypeOK
<1>1. /\ UNCHANGED <<tc, executed, batch, failed, status>>
      /\ phase = "steps" /\ phase' \in {"steps", "crashed"}
  BY DEF GoroutineStep, Resolve, NoResponse, Receive, Evaluate, Lock, Store,
     MapAccessIsFatal
<1>2. pc[p] # "idle" /\ p \in batch
  BY DEF GoroutineStep, Resolve, NoResponse, Receive, Evaluate, Lock, Store,
     TestInv, FailureInv, GoroutinesOfBatch
<1>3. ~IsDone(p)
  <2>1. p \in Here..Len(tc.steps) /\ \A q \in Pos : q >= Here => ~IsDone(q)
    BY <1>2 DEF TestInv, OrderInv, BatchIsRun
  <2>2. p >= Here
    BY <1>0, <2>1, OrderTypes
  <2> QED
    BY <2>1, <2>2
<1>4. Pos' = Pos /\ \A q \in Pos : IsDone(q)' <=> IsDone(q)
  BY <1>1 DEF Pos, IsDone
<1>5. \A q \in Pos : q # p =>
          pc'[q] = pc[q] /\ reply'[q] = reply[q] /\ fails'[q] = fails[q] /\ sent'[q] = sent[q]
  BY <1>0 DEF GoroutineStep, Resolve, NoResponse, Receive, Evaluate, Lock, Store,
     MapAccessIsFatal, GoTo
<1>6. \A q \in Pos : IsDone(q) => reply'[q] = reply[q]
  BY <1>3, <1>5
<1>7. \A q \in Pos : q # p => JudgedForCause(q)' /\ CountedForCause(q)' /\ Carried(q)'
  BY <1>1, <1>4, <1>5, <1>6, OthersStay
<1>8. Begun(p) /\ p \notin failed /\ CountedForCause(p)'
  BY <1>1, <1>2, <1>3, <1>4 DEF Begun, TestInv, VerdictInv, CountedForCause
<1>9. JudgedForCause(p) /\ Carried(p)
  BY DEF TestInv, VerdictInv
<1>V. ASSUME NEW view \in Views, NEW i \in tc.steps[p].refs \cup tc.steps[p].matcherRefs
      PROVE  view[i] = stepResults[i]
  BY <1>8, <1>V, ViewsShowRefs DEF TestInv
<1>S. ASSUME UNCHANGED <<pc, reply, fails, sent>>
      PROVE  JudgedForCause(p)' /\ Carried(p)'
  BY <1>1, <1>4, <1>6, <1>S, OthersStay
<1>C. \A q \in Pos : tc.steps[q].id \in tc.steps[p].refs => reply'[q] = reply[q]
  BY <1>6, <1>8, RefsAreDone DEF TestInv
<1>K. ASSUME sent'[p] = sent[p], pc[p] \notin {"idle", "resolve"} PROVE Carried(p)'
  BY <1>1, <1>4, <1>9, <1>C, <1>K DEF Carried
<1>10. JudgedForCause(p)' /\ Carried(p)'
  <2>1. CASE Resolve(p)
    <3>1. CASE MapAccessIsFatal(tc.steps[p].refs)
      BY <1>S, <3>1 DEF MapAccessIsFatal
    <3>2. CASE \E view \in Views :
                   /\ sent' = [sent EXCEPT ![p] = Resolved(tc.steps[p].refs, view)]
                   /\ GoTo(p, "call") /\ UNCHANGED <<stepResults, mu, reply, fails>>
      <4>1. PICK view \in Views :
                /\ sent' = [sent EXCEPT ![p] = Resolved(tc.steps[p].refs, view)]
                /\ GoTo(p, "call") /\ UNCHANGED <<stepResults, mu, reply, fails>>
        BY <3>2
      <4>2. pc'[p] = "call" /\ sent'[p] = Resolved(tc.steps[p].refs, view)
        BY <1>0, <4>1 DEF GoTo
      <4>3. \A i \in tc.steps[p].refs : view[i] = stepResults[i]
        BY <1>V
      <4>4. \A q \in Pos : tc.steps[q].id \in tc.steps[p].refs =>
                (tc.steps[q].id \in sent'[p] <=> reply[q].kind = "full")
        BY <1>1, <1>8, <4>2, <4>3, ResolvedAreFull DEF TestInv
      <4>5. Carried(p)'
        BY <1>1, <1>4, <1>C, <4>4 DEF Carried
      <4>6. JudgedForCause(p)'
        BY <1>1, <2>1, <4>2 DEF Resolve, JudgedForCause
      <4> QED
        BY <4>5, <4>6
    <3> QED
      BY <2>1, <3>1, <3>2 DEF Resolve
  <2>2. CASE NoResponse(p)
    <3>1. /\ pc'[p] = "lock" /\ reply'[p] = Silent /\ fails'[p] = (pc[p] = "call")
          /\ sent' = sent /\ stepResults' = stepResults
          /\ \/ pc[p] = "resolve" /\ tc.steps[p].action = "WAIT"
             \/ pc[p] = "call"
      BY <1>0, <2>2 DEF NoResponse, GoTo
    <3>2. CASE tc.steps[p].action = "WAIT"
      <4>1. ~fails'[p]
        <5>1. pc[p] # "call"
          BY <1>9, <3>2 DEF JudgedForCause
        <5> QED
          BY <3>1, <5>1
      <4>2. JudgedForCause(p)'
        BY <1>1, <3>1, <3>2, <4>1 DEF JudgedForCause, Unanswered
      <4>3. Carried(p)'
        BY <1>1, <3>2 DEF Carried
      <4> QED
        BY <4>2, <4>3
    <3>3. CASE tc.steps[p].action # "WAIT"
      <4>1. pc[p] = "call" /\ fails'[p]
        BY <3>1, <3>3
      <4>2. Cause(p)'
        BY <1>1, <3>1, <3>3 DEF Cause
      <4>3. JudgedForCause(p)'
        BY <3>1, <4>1, <4>2 DEF JudgedForCause
      <4> QED
        BY <1>K, <3>1, <4>1, <4>3
    <3> QED
      BY <3>2, <3>3
  <2>3. CASE Receive(p)
    <3>1. /\ pc[p] = "call" /\ pc'[p] = "evaluate" /\ sent' = sent
          /\ \E r \in RunnerReplies(tc.steps[p]) : reply'[p] = r
      BY <1>0, <2>3 DEF Receive, GoTo
    <3>2. \A r \in RunnerReplies(tc.steps[p]) : r # Silent
      BY TestCasesAssumption DEF RunnerReplies, HttpReplies, GrpcReplies, Replies, Silent,
         NoReply, BodyKinds
    <3>3. JudgedForCause(p)'
      BY <1>1, <1>9, <3>1, <3>2 DEF JudgedForCause
    <3> QED
      BY <1>K, <3>1, <3>3
  <2>4. CASE Evaluate(p)
    <3>1. CASE MapAccessIsFatal(tc.steps[p].matcherRefs)
      BY <1>S, <3>1 DEF MapAccessIsFatal
    <3>2. CASE \E view \in Views :
                   /\ fails' = [fails EXCEPT ![p] =
                          AssertionFails(tc.steps[p], reply[p],
                                         Resolved(tc.steps[p].matcherRefs, view))]
                   /\ GoTo(p, "lock") /\ UNCHANGED <<stepResults, mu, sent, reply>>
      <4>1. PICK view \in Views :
                /\ fails' = [fails EXCEPT ![p] =
                       AssertionFails(tc.steps[p], reply[p],
                                      Resolved(tc.steps[p].matcherRefs, view))]
                /\ GoTo(p, "lock") /\ UNCHANGED <<stepResults, mu, sent, reply>>
        BY <3>2
      <4>2. /\ pc[p] = "evaluate" /\ pc'[p] = "lock"
            /\ fails'[p] = AssertionFails(tc.steps[p], reply[p],
                                          Resolved(tc.steps[p].matcherRefs, view))
        BY <1>0, <2>4, <4>1 DEF Evaluate, GoTo
      <4>3. reply'[p] # Silent
        BY <1>9, <4>1, <4>2 DEF JudgedForCause
      <4>4. fails'[p] => Cause(p)'
        <5>1. \A i \in tc.steps[p].matcherRefs : view[i] = stepResults[i]
          BY <1>V
        <5>2. tc.steps[p].action # "WAIT"
          BY <1>9, <4>2 DEF JudgedForCause
        <5>3. stepResults' = stepResults /\ reply' = reply /\ tc' = tc
          BY <1>1, <4>1
        <5>4. AssertionFails(tc.steps[p], reply[p],
                             Resolved(tc.steps[p].matcherRefs, view)) =>
                  \/ reply[p] = Silent
                  \/ Breaks(tc.steps[p], reply[p])
                  \/ \E i \in tc.steps[p].matcherRefs :
                         view[i] = NoResult \/ view[i].kind # "full"
          BY FailsForCause
        <5>5. fails'[p] => Cause(p)
          BY <4>2, <5>1, <5>2, <5>4 DEF Cause, Broken
        <5> QED
          BY <5>3, <5>5 DEF Cause, Broken
      <4>5. JudgedForCause(p)'
        BY <4>2, <4>3, <4>4 DEF JudgedForCause, Unanswered
      <4> QED
        BY <1>K, <4>1, <4>2, <4>5
    <3> QED
      BY <2>4, <3>1, <3>2 DEF Evaluate
  <2>5. CASE Lock(p) \/ Store(p)
    <3>1. /\ pc[p] \in {"lock", "store"} /\ pc'[p] \in {"store", "over"}
          /\ UNCHANGED <<reply, fails, sent>>
      BY <1>0, <2>5 DEF Lock, Store, GoTo
    <3>2. Cause(p)' <=> Cause(p)
      BY <1>1, <1>8, <3>1, CauseStays DEF TestInv
    <3>3. JudgedForCause(p)'
      BY <1>1, <1>9, <3>1, <3>2 DEF JudgedForCause, Unanswered
    <3> QED
      BY <1>K, <3>1, <3>3
  <2> QED
    BY <2>1, <2>2, <2>3, <2>4, <2>5 DEF GoroutineStep
<1>11. \A q \in Pos : JudgedForCause(q)' /\ CountedForCause(q)' /\ Carried(q)'
  BY <1>7, <1>8, <1>10
<1>12. (status' = "fail" => failed' # {}) /\ phase' # "setup"
  BY <1>1 DEF TestInv, VerdictInv
<1> QED
  BY <1>4, <1>11, <1>12 DEF VerdictInv

-----------------------------------------------------------------------------
(* The invariant holds of every test run, and what follows from it.        *)

LEMMA NextTestInv ==
    ASSUME \A t \in Tests : WellFormed(t), TestInv, [Next]_vars
    PROVE  TestInv' /\ Final
<1>1. StoredInv' /\ Final
  BY NextStoredInv DEF TestInv
<1>2. VerdictInv'
  BY <1>1, QuietVerdictInv, StartVerdictInv, JoinVerdictInv, SequentialVerdictInv,
     GoroutineVerdictInv DEF Next
<1>3. FailureInv'
  BY NextFailureInv DEF TestInv
<1>4. OrderInv'
  BY NextOrderInv DEF TestInv
<1>5. WellFormed(tc)'
  BY <1>3 DEF FailureInv, TypeOK
<1> QED
  BY <1>1, <1>2, <1>3, <1>4, <1>5 DEF TestInv

LEMMA TestInvCorrect ==
    ASSUME \A t \in Tests : WellFormed(t)
    PROVE  Spec => []TestInv
<1>1. Init => TestInv
  BY InitFailureInv, InitOrderInv, InitStoredInv, InitVerdictInv DEF Init, TestInv
<1>2. TestInv /\ [Next]_vars => TestInv'
  BY NextTestInv
<1> QED
  BY <1>1, <1>2, PTL DEF Spec

\* A step that has been executed and is not running is marked as executed.
LEMMA FinishedIsDone ==
    ASSUME TestInv, NEW p \in Pos, Finished(p)
    PROVE  IsDone(p)
  BY DEF TestInv, OrderInv, CountedOnce, Finished

\* The map keeps, for every finished step of a well-formed test, the result that
\* this step got: concurrent stores of a group neither lose nor swap any.
THEOREM ResultsAreKept ==
    ASSUME \A t \in Tests : WellFormed(t)
    PROVE  Spec => []ResultsKept
<1>1. TestInv => ResultsKept
  BY FinishedIsDone DEF TestInv, StoredInv, StepsStored, Stored, ResultsKept
<1> QED
  BY <1>1, TestInvCorrect, PTL

\* No step of a well-formed test, and no other goroutine, replaces a result once
\* it is stored.
THEOREM StoredIsFinal ==
    ASSUME \A t \in Tests : WellFormed(t)
    PROVE  Spec => ResultsAreFinal
<1>1. TestInv /\ [Next]_vars =>
          [\A i \in Ids : stepResults[i] # NoResult => stepResults'[i] = stepResults[i]]_vars
  BY NextTestInv DEF Final
<1> QED
  BY <1>1, TestInvCorrect, PTL DEF Spec, ResultsAreFinal

\* The templates of a well-formed test resolve to the answers of the steps they
\* name, whatever groups run meanwhile and whatever an unlocked read sees of a
\* write in progress.
THEOREM TemplatesResolve ==
    ASSUME \A t \in Tests : WellFormed(t)
    PROVE  Spec => []TemplatesResolved
<1>1. TestInv => TemplatesResolved
  BY FinishedIsDone DEF TestInv, VerdictInv, Carried, TemplatesResolved
<1> QED
  BY <1>1, TestInvCorrect, PTL

\* A well-formed test passes only if every step ran once and, unless it is a WAIT, was
\* answered and met its assertions, those on the body if that is a JSON object
\* (PassIsEarned).
THEOREM PassesAreEarned ==
    ASSUME \A t \in Tests : WellFormed(t)
    PROVE  Spec => []PassIsEarned
<1>1. TestInv => PassIsEarned
  <2> SUFFICES ASSUME TestInv, status = "pass", NEW p \in Pos
               PROVE  /\ reported[p] = 1
                      /\ tc.steps[p].action # "WAIT" =>
                             /\ reply[p] # Silent
                             /\ "plain" \in tc.steps[p].asserts => "plain" \in reply[p].meets
                             /\ "body" \in tc.steps[p].asserts =>
                                    "body" \in reply[p].meets \/ reply[p].kind = "opaque"
    BY DEF PassIsEarned
  <2>1. reported[p] = 1 /\ p \notin batch
    BY CountsAreRight DEF TestInv, OnceEach, OrderInv, OverAtEnd
  <2>2. failed = {}
    BY DEF TestInv, FailureInv, StatusFromFailures
  <2>3. Finished(p)
    BY <2>1 DEF Finished
  <2>4. ~Broken(p)
    BY <2>2, <2>3 DEF TestInv, FailureInv, JudgedByMain
  <2>5. ~Unanswered(p)
    BY <2>2, <2>3, FinishedIsDone DEF TestInv, VerdictInv, CountedForCause
  <2> QED
    BY <2>1, <2>4, <2>5 DEF Unanswered, Broken, Breaks
<1> QED
  BY <1>1, TestInvCorrect, PTL

\* A well-formed test fails only for an answer of the server: one that is missing,
\* breaks an assertion, or lacks the field that a matcher refers to.
THEOREM FailsHaveCause ==
    ASSUME \A t \in Tests : WellFormed(t)
    PROVE  Spec => []FailHasCause
<1>1. TestInv => FailHasCause
  <2> SUFFICES ASSUME TestInv, status = "fail" PROVE FailHasCause
    BY DEF FailHasCause
  <2>1. failed # {} /\ failed \subseteq Pos
    BY DEF TestInv, VerdictInv, FailureInv, TypeOK
  <2>2. PICK p \in Pos : p \in failed
    BY <2>1
  <2>3. Cause(p)
    BY <2>2 DEF TestInv, VerdictInv, CountedForCause
  <2> QED
    BY <2>3 DEF Cause, FailHasCause
<1> QED
  BY <1>1, TestInvCorrect, PTL

=============================================================================
