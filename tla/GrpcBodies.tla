------------------------------ MODULE GrpcBodies ------------------------------
(***************************************************************************)
(* GrpcStep with the matchers and paths of JsonMatch (MatchAssertion is    *)
(* Match, ResolveJSONPath is Resolve): what it means for a body that the   *)
(* assertions of a step hold.  Here a value is the set of its nodes, and   *)
(* a path leads to some of them; nothing is taken apart step by step.      *)
(***************************************************************************)
EXTENDS GrpcStep, JsonMatch

\* The nodes of a value: where they are, and the value there.
RECURSIVE Nodes(_)
Nodes(v) ==
    LET under(e, w) == {<<<<e>> \o n[1], n[2]>> : n \in Nodes(w)}
    IN  {<<<<>>, v>>} \cup
        (CASE Is(v, "array")  -> UNION {under(<<"index", k - 1>>, v[2][k]) : k \in DOMAIN v[2]}
           [] Is(v, "object") -> UNION {under(<<"field", f>>, v[2][f]) : f \in DOMAIN v[2]}
           [] OTHER           -> {})

\* The parts of a path, fields and brackets alike.
Flat(path) == FlattenSeq([k \in DOMAIN path |->
    (IF path[k].field = NoField THEN <<>> ELSE << <<"field", path[k].field>> >>)
        \o path[k].brackets])

\* What [?(@.key=='text')] may choose from, in the array at this place.
Hits(nodes, place, filter) ==
    {n[1][Len(place) + 1] : n \in
        {m \in nodes : /\ Len(m[1]) = Len(place) + 2 /\ IsPrefix(place, m[1])
                       /\ Last(m[1]) = <<"field", filter[2]>>
                       /\ Text(m[2]) = filter[3]}}

\* The nodes a path leads to; the filter leads to the first of its hits.
Selected(path, body) ==
    LET nodes == Nodes(body)
        flat  == Flat(path)
        leads(b, place, e) ==
            \/ b = e
            \/ b = <<"all">> /\ e[1] = "index"
            \/ /\ b[1] = "first"
               /\ LET hits == Hits(nodes, place, b)
                  IN  e \in hits /\ \A h \in hits : e[2] <= h[2]
    IN  {n \in nodes : /\ Len(n[1]) = Len(flat)
                       /\ \A i \in DOMAIN flat : leads(flat[i], SubSeq(n[1], 1, i - 1), n[1][i])}

Wildcards(path) == {i \in DOMAIN Flat(path) : Flat(path)[i] = <<"all">>}

\* Value v has everything literal m has, where m has it.
HasAll(v, m) ==
    \A x \in Nodes(m) : \E y \in Nodes(v) :
        /\ x[1] = y[1] /\ JsonType(x[2]) = JsonType(y[2])
        /\ Is(x[2], "array") => Len(Payload(x[2])) = Len(Payload(y[2]))
        /\ JsonType(x[2]) \in {"string", "number", "boolean"} => x[2] = y[2]
Literal(m) ==
    \A x \in Nodes(m) :
        JsonType(x[2]) \in {"null", "string", "number", "boolean", "array", "object"}

-----------------------------------------------------------------------------
(* Properties                                                              *)

\* A step that expects literal JSON passes exactly if the body has it at that
\* path: every field of an object, and others beside them, but every element of an
\* array and no more (MatchAssertion, matchArrayAssertion, matchObjectAssertion).
LiteralsMatchExactly ==
    \A k \in Answered :
        (AssertsOnly(k, "checks") /\ \A c \in Asserts(k).checks :
                c.matcher # Null /\ Literal(c.matcher) /\ Wildcards(c.path) = {})
        => (k \notin failed <=>
               \A c \in Asserts(k).checks :
                   \E n \in Selected(c.path, results[k].body) : HasAll(n[2], c.matcher))

\* A path leads to the node it names, one with [*] to all its nodes in their
\* order, a filter to the first element that fits; and what is asserted to be
\* absent has no node that is not null (ResolveJSONPath, body_absent).
PathsSelectNodes ==
    \A k \in Answered :
        LET body == results[k].body
            found(path, nulls) == {n \in Selected(path, body) : nulls \/ n[2] # Null}
        IN  /\ \A c \in Asserts(k).checks :
                  LET v    == Resolve(c.path, body)
                      wild == Wildcards(c.path)
                      keep == wild # {} /\ Last(Flat(c.path)) = <<"all">>
                      f    == found(c.path, keep)
                      rank(n) == LET w == CHOOSE i \in wild : TRUE
                                 IN  Cardinality({m \in f : m[1][w][2] <= n[1][w][2]})
                  IN  /\ wild = {} /\ f = {} => v \in {Null, Unresolved}
                      /\ wild = {} => \A n \in f : n[2] = v
                      /\ Cardinality(wild) = 1 /\ f # {} =>
                            /\ Is(v, "array") /\ Len(Payload(v)) = Cardinality(f)
                            /\ \A n \in f : Payload(v)[rank(n)] = n[2]
            /\ k \notin failed => \A p \in Asserts(k).absent : found(p, FALSE) = {}
            /\ AssertsOnly(k, "absent") =>
                  (k \in failed => \E p \in Asserts(k).absent :
                                      Wildcards(p) # {} \/ found(p, FALSE) # {})

=============================================================================
