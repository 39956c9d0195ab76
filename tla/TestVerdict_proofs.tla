-------------------------- MODULE TestVerdict_proofs --------------------------
(***************************************************************************)
(* The safety part of the refinement of TestVerdict by TestRunner, for     *)
(* well-formed test cases of any number and length: initial states are     *)
(* initial, and each step of a test run is one of the protocol, or none.   *)
(***************************************************************************)
EXTENDS TestResults_proofs

\* The variables of the protocol, as TestProtocol gives them.
Waits    == [p \in Pos |-> Before(tc.steps, p)]
FinishedSteps == {p \in Pos : Finished(p)}
Judgement == IF phase = "crashed" THEN "killed" ELSE status

\* The protocol's variables are these.
LEMMA ProtocolVars ==
    TestProtocol!vars = <<Waits, ~QuietGroups(tc), FinishedSteps, failed, Judgement>>
BY DEF TestProtocol!vars, Waits, FinishedSteps, Judgement

LEMMA InitIsProtocol == Init => TestProtocol!Init
<1> SUFFICES ASSUME Init PROVE TestProtocol!Init
  OBVIOUS
<1>1. phase = "setup" /\ status = "" /\ failed = {}
  BY DEF Init
<1>2. \A p \in Pos : ~Finished(p)
  <2>1. \A p \in Pos : reported[p] = 0
    BY DEF Init
  <2> QED
    BY <2>1 DEF Finished
<1> QED
  BY <1>1, <1>2 DEF TestProtocol!Init

\* A step that finishes nothing, fails nothing and gives no verdict.
LEMMA Stutters ==
    ASSUME tc' = tc, FinishedSteps' = FinishedSteps, failed' = failed, Judgement' = Judgement
    PROVE  UNCHANGED TestProtocol!vars
<1>1. Waits' = Waits /\ (~QuietGroups(tc))' = ~QuietGroups(tc)
  BY DEF Waits, Pos
<1> QED
  BY <1>1 DEF TestProtocol!vars, Waits, FinishedSteps, Judgement

\* The steps P finish, B of them fail.
LEMMA Finishes ==
    ASSUME tc' = tc, Judgement = "", Judgement' = "",
           NEW P \in SUBSET Pos, NEW B \in SUBSET P,
           P # {}, P \cap FinishedSteps = {},
           \A p \in P : Before(tc.steps, p) \subseteq FinishedSteps,
           FinishedSteps' = FinishedSteps \cup P, failed' = failed \cup B
    PROVE  TestProtocol!Next
<1>1. Waits' = Waits /\ (~QuietGroups(tc))' = ~QuietGroups(tc)
  BY DEF Waits, Pos
<1>2. \A p \in P : Waits[p] \subseteq FinishedSteps
  BY DEF Waits
<1>3. TestProtocol!Finish(P, B)
  BY <1>1, <1>2 DEF TestProtocol!Finish, Waits, FinishedSteps, Judgement
<1>4. TestProtocol!Steps = Pos
  BY DEF TestProtocol!Steps
<1> QED
  BY <1>3, <1>4 DEF TestProtocol!Next

-----------------------------------------------------------------------------
(* Each step of a test run is a step of the protocol, or none.             *)

ProtocolStep == TestProtocol!Next \/ UNCHANGED TestProtocol!vars

\* What the invariants say of the protocol's variables.
LEMMA ProtocolTypes ==
    ASSUME TestInv
    PROVE  /\ TypeOK /\ WellFormed(tc) /\ tc \in Tests /\ batch \subseteq Pos
           /\ \A q \in Pos : reported[q] = IF IsDone(q) THEN 1 ELSE 0
           /\ \A q \in batch : ~IsDone(q)
           /\ phase # "done" => status = ""
           /\ phase \notin {"done", "crashed"} => Judgement = ""
<1>1. TypeOK /\ WellFormed(tc) /\ OrderInv /\ (phase # "done" => status = "")
  BY DEF TestInv, FailureInv, StatusFromFailures
<1>2. tc \in Tests /\ batch \subseteq Pos
  BY <1>1 DEF TypeOK
<1>3. \A q \in Pos : reported[q] = IF IsDone(q) THEN 1 ELSE 0
  BY <1>1 DEF OrderInv, CountedOnce
<1>4. \A q \in batch : ~IsDone(q)
  <2> SUFFICES ASSUME NEW q \in batch PROVE ~IsDone(q)
    OBVIOUS
  <2>1. q \in Here..Len(tc.steps) /\ \A k \in Pos : k >= Here => ~IsDone(k)
    BY <1>1 DEF OrderInv, BatchIsRun
  <2>2. q >= Here
    <3>1. Len(tc.steps) \in Nat /\ Here \in Nat
      BY <1>1, OrderTypes
    <3> QED
      BY <2>1, <3>1
  <2> QED
    BY <1>2, <2>1, <2>2
<1> QED
  BY <1>1, <1>2, <1>3, <1>4 DEF Judgement

\* Steps that leave the progress of the main goroutine and the failures alone.
LEMMA FinishedUntouched ==
    ASSUME UNCHANGED <<tc, reported, batch>>
    PROVE  FinishedSteps' = FinishedSteps
  BY DEF FinishedSteps, Finished, Pos

LEMMA QuietIsProtocol ==
    ASSUME TestInv,
           SetupStep \/ SetupOver \/ SkipStep \/ StepsOver \/ TeardownStep
               \/ Terminated \/ UNCHANGED vars
    PROVE  ProtocolStep
<1> USE DEF params, locals, report
<1>1. UNCHANGED <<tc, reported, batch, failed>>
  BY DEF SetupStep, SetupOver, SkipStep, StepsOver, TeardownStep, Terminated, vars
<1>2. FinishedSteps' = FinishedSteps
  BY <1>1, FinishedUntouched
<1>3. \/ Judgement' = Judgement
      \/ SetupStep /\ phase' = "done" /\ status' = "error"
  BY DEF SetupStep, SetupOver, SkipStep, StepsOver, TeardownStep, Terminated, vars, Judgement
<1>4. CASE Judgement' = Judgement
  BY <1>1, <1>2, <1>4, Stutters DEF ProtocolStep
<1>5. CASE SetupStep /\ phase' = "done" /\ status' = "error"
  <2>1. phase = "setup" /\ Judgement = "" /\ Judgement' = "error"
    BY <1>5, ProtocolTypes DEF SetupStep, Judgement
  <2>2. FinishedSteps = {}
    <3>1. \A p \in Pos : ~IsDone(p)
      BY <2>1 DEF TestInv, VerdictInv, IsDone
    <3>2. \A p \in Pos : reported[p] = 0
      BY <3>1, ProtocolTypes
    <3> QED
      BY <3>2 DEF FinishedSteps, Finished
  <2>3. Waits' = Waits /\ (~QuietGroups(tc))' = ~QuietGroups(tc)
    BY <1>1 DEF Waits, Pos
  <2>4. TestProtocol!SetupFailed
    BY <1>1, <1>2, <2>1, <2>2, <2>3
    DEF TestProtocol!SetupFailed, Waits, FinishedSteps, Judgement
  <2> QED
    BY <2>4 DEF TestProtocol!Next, ProtocolStep
<1> QED
  BY <1>3, <1>4, <1>5

LEMMA SequentialIsProtocol ==
    ASSUME TestInv, SequentialStep
    PROVE  ProtocolStep
<1> USE DEF params
<1>0. /\ TypeOK /\ tc \in Tests /\ WellFormed(tc) /\ OrderInv
      /\ \A q \in Pos : reported[q] = IF IsDone(q) THEN 1 ELSE 0
  BY ProtocolTypes DEF TestInv
<1>1. PICK p \in Pos :
          /\ AtStep(p) /\ ~IsDone(p)
          /\ failed' = failed \/ failed' = failed \cup {p}
          /\ reported' = [reported EXCEPT ![p] = @ + 1]
          /\ UNCHANGED <<tc, phase, batch, status>>
  BY DEF SequentialStep, IsDone
<1>2. /\ phase = "steps" /\ batch = {} /\ p = Here
      /\ Judgement = "" /\ Judgement' = ""
  BY <1>1, ProtocolTypes DEF AtStep, Here, Judgement
<1>3. p \notin FinishedSteps
  BY <1>0, <1>1 DEF FinishedSteps, Finished
<1>4. Before(tc.steps, p) \subseteq FinishedSteps
  <2> SUFFICES ASSUME NEW q \in Pos, q < p PROVE q \in FinishedSteps
    BY DEF Before, Pos
  <2>1. IsDone(q)
    BY <1>0, <1>2 DEF OrderInv, DoneBefore
  <2>2. reported[q] > 0
    BY <1>0, <2>1
  <2>3. q \notin batch
    BY <1>2
  <2> QED
    BY <2>2, <2>3 DEF FinishedSteps, Finished
<1>5. FinishedSteps' = FinishedSteps \cup {p}
  <2>1. \A q \in Pos : reported'[q] = IF q = p THEN reported[q] + 1 ELSE reported[q]
    BY <1>0, <1>1, OrderTypes
  <2>2. reported[p] = 0 /\ Pos' = Pos /\ batch' = {}
    BY <1>0, <1>1, <1>2 DEF Pos
  <2>3. \A q \in Pos : reported'[q] > 0 <=> reported[q] > 0 \/ q = p
    BY <2>1, <2>2
  <2> QED
    BY <1>2, <2>2, <2>3 DEF FinishedSteps, Finished
<1>6. \E B \in SUBSET {p} : failed' = failed \cup B
  <2>1. failed' = failed \cup {} \/ failed' = failed \cup {p}
    BY <1>1
  <2>2. {} \in SUBSET {p} /\ {p} \in SUBSET {p}
    OBVIOUS
  <2> QED
    BY <2>1, <2>2
<1>7. PICK B \in SUBSET {p} : failed' = failed \cup B
  BY <1>6
<1>8. {p} \in SUBSET Pos /\ {p} # {} /\ {p} \cap FinishedSteps = {}
  BY <1>3
<1> QED
  BY <1>1, <1>2, <1>4, <1>5, <1>7, <1>8, Finishes DEF ProtocolStep

LEMMA JoinIsProtocol ==
    ASSUME TestInv, Join
    PROVE  ProtocolStep
<1> USE DEF params
<1>0. /\ TypeOK /\ tc \in Tests /\ WellFormed(tc) /\ OrderInv /\ batch \subseteq Pos
      /\ \A q \in batch : ~IsDone(q)
      /\ \A q \in Pos : reported[q] = IF IsDone(q) THEN 1 ELSE 0
  BY ProtocolTypes DEF TestInv
<1>1. /\ phase = "steps" /\ batch # {} /\ batch' = {}
      /\ \A p \in batch : pc[p] = "over"
      /\ reported' = [p \in Pos |-> IF p \in batch THEN reported[p] + 1 ELSE reported[p]]
      /\ failed' = failed \cup {p \in batch : fails[p]}
      /\ UNCHANGED <<tc, phase, status>>
  BY DEF Join
<1>2. Judgement = "" /\ Judgement' = ""
  BY <1>1, ProtocolTypes DEF Judgement
<1>3. batch \cap FinishedSteps = {}
  BY DEF FinishedSteps, Finished
<1>4. \A p \in batch : Before(tc.steps, p) \subseteq FinishedSteps
  <2> SUFFICES ASSUME NEW p \in batch, NEW q \in Before(tc.steps, p)
               PROVE  q \in FinishedSteps
    OBVIOUS
  <2>1. q \in Pos /\ ~Linked(tc.steps, q, p)
    BY DEF Before, Pos
  <2>2. reported[q] > 0
    BY <1>0, <1>1, StartedIsInOrder DEF TestInv, StepsInOrder
  <2>3. q \notin batch
    BY <1>0, <2>1, BatchIsLinked DEF OverlapIsLinked
  <2> QED
    BY <2>1, <2>2, <2>3 DEF FinishedSteps, Finished
<1>5. FinishedSteps' = FinishedSteps \cup batch
  <2>1. Pos' = Pos
    BY <1>1 DEF Pos
  <2>2. \A q \in Pos : reported'[q] > 0 <=> reported[q] > 0 \/ q \in batch
    BY <1>0, <1>1
  <2>3. \A q \in batch : q \in Pos
    BY <1>0
  <2> QED
    BY <1>1, <2>1, <2>2, <2>3 DEF FinishedSteps, Finished
<1>6. {p \in batch : fails[p]} \in SUBSET batch /\ batch \in SUBSET Pos
  BY <1>0
<1> QED
  BY <1>1, <1>2, <1>3, <1>4, <1>5, <1>6, Finishes DEF ProtocolStep

\* A group that starts has no finished member, so nothing becomes unfinished.
LEMMA StartIsProtocol ==
    ASSUME TestInv, StartGroup
    PROVE  ProtocolStep
<1> USE DEF params, report
<1>0. /\ TypeOK /\ tc \in Tests /\ WellFormed(tc) /\ OrderInv
      /\ \A q \in Pos : reported[q] = IF IsDone(q) THEN 1 ELSE 0
  BY ProtocolTypes DEF TestInv
<1>1. /\ Here \in Pos /\ ~IsDone(Here) /\ batch = {}
      /\ batch' = Group(Here)
      /\ UNCHANGED <<tc, phase, reported, failed, status>>
  BY DEF StartGroup, AtStep, Here, IsDone
<1>2. \A q \in Pos : q >= Here => reported[q] = 0
  BY <1>0, <1>1, NoneAhead
<1>3. \A q \in Group(Here) : q >= Here
  <2>1. Group(Here) \subseteq Here..Len(tc.steps)
    BY <1>0, <1>1, GroupIsRun
  <2> QED
    BY <1>0, <2>1, OrderTypes
<1>4. FinishedSteps' = FinishedSteps
  <2>1. Pos' = Pos /\ \A q \in Pos : q \in batch' => reported[q] = 0
    BY <1>1, <1>2, <1>3 DEF Pos
  <2>2. \A q \in Pos : Finished(q)' <=> Finished(q)
    BY <1>1, <2>1 DEF Finished
  <2> QED
    BY <2>1, <2>2 DEF FinishedSteps
<1>5. Judgement' = Judgement
  BY <1>1 DEF Judgement
<1> QED
  BY <1>1, <1>4, <1>5, Stutters DEF ProtocolStep

LEMMA GoroutineIsProtocol ==
    ASSUME TestInv, OnlyTemplatesCrash', NEW p \in Pos, GoroutineStep(p)
    PROVE  ProtocolStep
<1> USE DEF Goroutine, params, locals, report
<1>1. /\ UNCHANGED <<tc, reported, batch, failed, status>>
      /\ phase = "steps" /\ phase' \in {"steps", "crashed"}
  BY DEF GoroutineStep, Resolve, NoResponse, Receive, Evaluate, Lock, Store,
     MapAccessIsFatal
<1>2. FinishedSteps' = FinishedSteps
  BY <1>1, FinishedUntouched
<1>3. CASE phase' = "steps"
  BY <1>1, <1>2, <1>3, Stutters DEF Judgement, ProtocolStep
<1>4. CASE phase' = "crashed"
  <2>1. Judgement = "" /\ Judgement' = "killed"
    BY <1>1, <1>4, ProtocolTypes DEF Judgement
  <2>2. ~QuietGroups(tc) /\ (~QuietGroups(tc))' = ~QuietGroups(tc) /\ Waits' = Waits
    BY <1>1, <1>4 DEF OnlyTemplatesCrash, Waits, Pos
  <2>3. TestProtocol!Killed
    BY <1>1, <1>2, <2>1, <2>2
    DEF TestProtocol!Killed, Waits, FinishedSteps, Judgement
  <2> QED
    BY <2>3 DEF TestProtocol!Next, ProtocolStep
<1> QED
  BY <1>1, <1>3, <1>4

LEMMA VerdictIsProtocol ==
    ASSUME TestInv, Verdict
    PROVE  ProtocolStep
<1> USE DEF params, locals, report
<1>1. /\ UNCHANGED <<tc, reported, batch, failed>>
      /\ phase = "teardown" /\ phase' = "done"
      /\ status' = IF failed = {} THEN "pass" ELSE "fail"
  BY DEF Verdict
<1>2. FinishedSteps' = FinishedSteps
  BY <1>1, FinishedUntouched
<1>3. Judgement = "" /\ Judgement' = IF failed = {} THEN "pass" ELSE "fail"
  BY <1>1, ProtocolTypes DEF Judgement
<1>4. FinishedSteps = Pos
  <2>1. batch = {} /\ \A q \in Pos : reported[q] = 1
    BY <1>1, CountsAreRight DEF TestInv, OrderInv, OverAtEnd, OnceEach
  <2> QED
    BY <2>1 DEF FinishedSteps, Finished
<1>5. Waits' = Waits /\ (~QuietGroups(tc))' = ~QuietGroups(tc)
  BY <1>1 DEF Waits, Pos
<1>6. TestProtocol!Conclude
  BY <1>1, <1>2, <1>3, <1>4, <1>5
  DEF TestProtocol!Conclude, TestProtocol!Steps, Waits, FinishedSteps, Judgement
<1> QED
  BY <1>6 DEF TestProtocol!Next, ProtocolStep

LEMMA NextIsProtocol ==
    ASSUME TestInv, OnlyTemplatesCrash', [Next]_vars
    PROVE  ProtocolStep
BY QuietIsProtocol, SequentialIsProtocol, JoinIsProtocol, StartIsProtocol,
   GoroutineIsProtocol, VerdictIsProtocol DEF Next

\* Every run of a well-formed test keeps the protocol, whatever the interleaving of
\* its groups: steps finish once and in order, a set-up that fails rules them out,
\* the verdict comes last and is the one the failures call for, and the process is
\* killed only if a group uses templates.
THEOREM RunsKeepProtocol ==
    ASSUME \A t \in Tests : WellFormed(t)
    PROVE  Spec => TestProtocol!Init /\ [][TestProtocol!Next]_(TestProtocol!vars)
<1>1. Init => TestProtocol!Init
  BY InitIsProtocol
<1>2. TestInv => OnlyTemplatesCrash
  BY DEF TestInv, OrderInv
<1>3. TestInv /\ OnlyTemplatesCrash' /\ [Next]_vars => [TestProtocol!Next]_(TestProtocol!vars)
  BY NextIsProtocol DEF ProtocolStep
<1> QED
  BY <1>1, <1>2, <1>3, TestInvCorrect, PTL DEF Spec

=============================================================================
