----------------------------- MODULE TestVerdict -----------------------------
(***************************************************************************)
(* What running a test case promises: every step is finished exactly once, *)
(* not before the steps it has to wait for, and the verdict comes last and *)
(* is the one the steps' failures call for.  A set-up that fails rules out *)
(* every step.  Some tests may be killed before they get a verdict.        *)
(***************************************************************************)
VARIABLES
    before,    \* per step, the steps that must be finished first; fixed
    mayDie,    \* whether this test may be killed; fixed
    finished,  \* the steps that are finished
    bad,       \* those of them that failed
    verdict    \* "", "pass", "fail", "error" or "killed"

vars == <<before, mayDie, finished, bad, verdict>>

Steps == DOMAIN before

Init ==
    /\ finished = {}
    /\ bad = {}
    /\ verdict = ""

\* The steps of P, which may run concurrently, finish; those in B fail.
Finish(P, B) ==
    /\ verdict = ""
    /\ P # {} /\ P \cap finished = {}
    /\ \A p \in P : before[p] \subseteq finished
    /\ finished' = finished \cup P
    /\ bad' = bad \cup B
    /\ UNCHANGED <<before, mayDie, verdict>>

SetupFailed ==
    /\ verdict = "" /\ finished = {}
    /\ verdict' = "error"
    /\ UNCHANGED <<before, mayDie, finished, bad>>

Conclude ==
    /\ verdict = "" /\ finished = Steps
    /\ verdict' = IF bad = {} THEN "pass" ELSE "fail"
    /\ UNCHANGED <<before, mayDie, finished, bad>>

Killed ==
    /\ verdict = "" /\ mayDie
    /\ verdict' = "killed"
    /\ UNCHANGED <<before, mayDie, finished, bad>>

Next ==
    \/ \E P \in SUBSET Steps : \E B \in SUBSET P : Finish(P, B)
    \/ SetupFailed
    \/ Conclude
    \/ Killed

FairSpec == Init /\ [][Next]_vars /\ WF_vars(Next)

=============================================================================
