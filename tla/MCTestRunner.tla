----------------------------- MODULE MCTestRunner -----------------------------
(* Test cases on which TLC runs TestRunner.                                *)
EXTENDS TestRunner

CONSTANTS a, b, c, d, su, td

Call(id, pw, refs, matcherRefs, asserts) ==
    [id |-> id, action |-> "CALL", pw |-> pw, refs |-> refs,
     matcherRefs |-> matcherRefs, asserts |-> asserts]

Plain(id)    == Call(id, NoId, {}, {}, {"plain"})
Wait(id, pw) == [Call(id, pw, {}, {}, {"plain"}) EXCEPT !.action = "WAIT"]
Assert(id, refs) == [Call(id, NoId, {}, refs, {"cross"}) EXCEPT !.action = "ASSERT"]

Only(steps) == [setup |-> <<>>, steps |-> steps, teardown |-> <<>>]

\* One step, then a pair that uses its answer, one of the two in an assertion;
\* set up and torn down.
PairTest ==
    [setup    |-> <<Plain(su)>>,
     steps    |-> <<Call(a, NoId, {su}, {}, {"plain"}),
                    Call(b, c, {a}, {}, {"body"}),
                    Call(c, b, {}, {a}, {"body"})>>,
     teardown |-> <<Plain(td)>>]

\* The shape of fetch-exclusive-claim: enqueue, two fetches at once, ASSERT.
ClaimTest ==
    Only(<<Plain(a), Call(b, c, {}, {}, {"plain"}), Call(c, b, {}, {}, {"plain"}),
           Assert(d, {b, c})>>)

\* Three at once, one of them a WAIT; then a step that uses their answers.
TripleTest ==
    Only(<<Call(a, b, {}, {}, {"plain"}), Call(b, a, {}, {}, {}), Wait(c, a),
           Call(d, NoId, {a}, {b}, {"plain", "body"})>>)

\* One after the other, with a delay between.
ChainTest ==
    [setup    |-> <<Plain(su), Wait(td, NoId)>>,
     steps    |-> <<Call(a, NoId, {su}, {}, {"plain", "body"}), Wait(b, NoId),
                    Call(c, NoId, {a}, {su}, {"body"})>>,
     teardown |-> <<Call(d, NoId, {a}, {}, {"plain"})>>]

WellFormedTests == {PairTest, ClaimTest, TripleTest, ChainTest}

ASSUME WellFormedAssumption == \A x \in WellFormedTests : WellFormed(x)

-----------------------------------------------------------------------------
(* Test cases as the loader accepts them: ids that repeat or are missing,   *)
(* links of any shape, templates that refer to anything.                   *)

AnyTests ==
    {Only(<<Call(x[1], x[4], {x[3]} \ {NoId}, {}, {}),
            Call(x[2], x[5], {}, {x[1]} \ {NoId}, {"plain", "body"}),
            Call(x[3], x[6], {}, {}, {})>>)
        : x \in {a, NoId} \X {a, b} \X {b, c, NoId}
             \X {b, NoId} \X {a, NoId} \X {b, NoId}}

-----------------------------------------------------------------------------
(* Test cases for what the runners do not keep.                            *)

\* A pair, one of whose steps uses the answer of the step before the pair.
GroupTemplateTests == {PairTest}

\* Steps without ids, as in the ext-federation and ext-ml-resources suites.
NoIdTests == {Only(<<Plain(NoId), Plain(NoId)>>)}

ClaimTests == {ClaimTest}

\* A step that asks for a status and for fields of the answer.
BodyTests == {Only(<<Call(a, NoId, {}, {}, {"plain", "body"})>>)}

=============================================================================
