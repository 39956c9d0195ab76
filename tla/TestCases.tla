------------------------------ MODULE TestCases ------------------------------
(***************************************************************************)
(* The test cases of the conformance suite, as far as the runners' control *)
(* flow depends on them, and what a server may answer to one step.         *)
(*                                                                         *)
(* A test case (lib/schema.go, TestCase) is three lists of steps.  Of a    *)
(* step the model keeps its id, its action, the step named by              *)
(* parallel_with, the steps its {{steps.ID.response.body...}} templates    *)
(* refer to, and the classes of assertions it carries:                     *)
(*   plain   status, status_in, header, timing, body_contains, $or: they   *)
(*           are evaluated whatever the body of the answer is;             *)
(*   body    JSON-path matchers, evaluated only over a JSON object;        *)
(*   cross   anything else found under "assertions", such as the           *)
(*           exclusive_claim of an ASSERT step: no field of Assertions     *)
(*           holds it, so decoding drops it.                               *)
(***************************************************************************)
EXTENDS Integers, Sequences, FiniteSets

CONSTANTS
    Ids,    \* the step ids that occur in the test cases
    NoId,   \* the empty string: an id or a parallel_with that is left out
    Kinds   \* the bodies a server may answer with, a subset of BodyKinds

BodyKinds == {"opaque",    \* empty, or not a JSON object: Parsed stays nil
              "object",    \* a JSON object without the fields templates name
              "full"}      \* a JSON object that has them

NoReply == "none"    \* no response, hence no body

ASSUME TestCasesAssumption ==
    /\ NoId \notin Ids
    /\ Kinds \subseteq BodyKinds

Actions   == {"CALL", "WAIT", "ASSERT"}
Classes   == {"plain", "body", "cross"}
Evaluated == {"plain", "body"}

Step == [id          : Ids \cup {NoId},
         action      : Actions,
         pw          : Ids \cup {NoId},
         refs        : SUBSET Ids,       \* templates in the path and the body
         matcherRefs : SUBSET Ids,       \* templates in the assertions
         asserts     : SUBSET Classes]

TestCase == [setup : Seq(Step), steps : Seq(Step), teardown : Seq(Step)]

-----------------------------------------------------------------------------
(* Responses (lib/schema.go, StepResult): the kind of its body and which of *)
(* the assertions put to it the response satisfies.                        *)

Response == [kind : Kinds \cup {NoReply}, meets : SUBSET Classes]

\* The StepResult of a step that got no response: only StepID is set.
Silent == [kind |-> NoReply, meets |-> {}]

\* The responses a server can give to step s.
Replies(s) == {r \in [kind : Kinds, meets : SUBSET s.asserts] :
                   r.kind = "opaque" => "body" \notin r.meets}

-----------------------------------------------------------------------------
(* Links between steps.  Two steps are linked when one names the other in  *)
(* parallel_with, or through a chain of such steps.                        *)

Linked(steps, p, q) ==
    \A C \in SUBSET DOMAIN steps :
        /\ p \in C
        /\ \A k \in C, m \in DOMAIN steps :
               \/ steps[k].pw # NoId /\ steps[k].pw = steps[m].id
               \/ steps[m].pw # NoId /\ steps[m].pw = steps[k].id
               => m \in C
        => q \in C

\* What must be over before step p of the list starts, if steps run in order
\* except for linked ones.
Before(steps, p) ==
    {q \in DOMAIN steps : q < p /\ ~Linked(steps, q, p)}

\* The ids of a test case name its steps: none is missing, none occurs twice.
UniqueIds(t) ==
    \A l, m \in DOMAIN t : \A j \in DOMAIN t[l], k \in DOMAIN t[m] :
        /\ t[l][j].id # NoId
        /\ t[l][j].id = t[m][k].id => l = m /\ j = k

(* Every parallel group is written as one run of steps that name each other, *)
(* with an unlinked step between it and the next group: the shape of the    *)
(* suites' only parallel test (fetch-exclusive-claim).                      *)
TidyGroups(t) ==
    LET InGroup(k) == \E m \in DOMAIN t.steps :
                          \/ t.steps[k].pw = t.steps[m].id
                          \/ t.steps[m].pw = t.steps[k].id
    IN  /\ \A k \in DOMAIN t.steps : InGroup(k) <=> t.steps[k].pw # NoId
        /\ \A p, q \in DOMAIN t.steps :
               p <= q => (Linked(t.steps, p, q) <=>
                              p = q \/ \A k \in p..q : InGroup(k))

(* A template refers to a step that is over by the time its step starts.    *)
ScopedRefs(t) ==
    \A p \in DOMAIN t.steps :
        t.steps[p].refs \cup t.steps[p].matcherRefs
            \subseteq {t.setup[k].id : k \in DOMAIN t.setup}
                \cup {t.steps[q].id : q \in Before(t.steps, p)}

(* No step of a parallel group uses a template.                             *)
QuietGroups(t) ==
    \A p \in DOMAIN t.steps :
        t.steps[p].pw # NoId => t.steps[p].refs \cup t.steps[p].matcherRefs = {}

WellFormed(t) == UniqueIds(t) /\ TidyGroups(t) /\ ScopedRefs(t)

=============================================================================
