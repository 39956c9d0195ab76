------------------------------ MODULE JsonMatch ------------------------------
(***************************************************************************)
(* The assertions on response bodies (lib/assertions.go): the values a     *)
(* path selects and the matchers put to them.                              *)
(*                                                                         *)
(* A matcher is a JSON value, read as itself, or a special form: a type    *)
(* and its parameters, as in <<"range", 1, 3>>.  Numbers are integers.  An *)
(* object with several operators stands for the one that counts; the       *)
(* regular expressions and formats of strings are the sets of strings they *)
(* accept.                                                                 *)
(***************************************************************************)
EXTENDS JsonValues, SequencesExt, TLC

CONSTANT StringClass    \* the strings each format or pattern accepts

-----------------------------------------------------------------------------
(* MatchAssertion *)

\* An element as fmt prints it with %v; composite ones print like no target.
Text(v) ==
    CASE Is(v, "string")  -> Payload(v)
      [] Is(v, "number")  -> ToString(Payload(v))
      [] Is(v, "boolean") -> IF Payload(v) THEN "true" ELSE "false"
      [] Is(v, "null")    -> "<nil>"
      [] OTHER            -> "composite"

\* A string is accepted by string:nonempty, by a format or a pattern.
StringMatches(m, s) ==
    \/ m[1] = "nonempty" /\ s # ""
    \/ m[1] = "class" /\ s \in StringClass[m[2]]

\* The tolerance of ~n is half of n.
NumberMatches(m, n) ==
    \/ m[1] = "positive" /\ n > 0
    \/ m[1] = "non_negative" /\ n >= 0
    \/ m[1] = "approx" /\ 2 * Distance(n, m[2]) <= m[2]

\* number:range, and the object range with a minimum, a maximum or both.
RangeMatches(m, n) ==
    \/ m[1] = "range" /\ m[2] <= n /\ n <= m[3]
    \/ m[1] = "at_least" /\ m[2] <= n
    \/ m[1] = "at_most" /\ n <= m[2]

\* array:empty is the length 0, array:nonempty the least length 1.
ArrayMatches(m, s) ==
    \/ m[1] = "length" /\ Len(s) = m[2]
    \/ m[1] = "min_length" /\ Len(s) >= m[2]
    \/ m[1] = "contains" /\ \E k \in DOMAIN s : Text(s[k]) = m[2]
    \/ m[1] = "not_contains" /\ \A k \in DOMAIN s : Text(s[k]) # m[2]

PresenceMatches(m, v) ==
    \/ m[1] = "any"
    \/ m[1] = "absent" /\ v = Null
    \/ m[1] = "exists" /\ v # Null

\* $exists, with the types that $type admits.
ExistsMatches(m, v) == m[1] = "$exists" /\ (v # Null <=> m[2]) /\ JsonType(v) \in m[3]

\* Mutant: the array may go on after the elements that are given.
PairedAsFarAsGiven(m, s) == Len(m) <= Len(s)

\* The elements of an array matcher and those of the array pair up.
Paired(m, s) == Len(m) = Len(s)

RECURSIVE Match(_, _), ElementsMatch(_, _), FieldsMatch(_, _)

ElementsMatch(m, s) == Paired(m, s) /\ \A k \in DOMAIN m : Match(m[k], s[k])

\* Fields without a matcher do not matter.
FieldsMatch(m, f) ==
    \A name \in DOMAIN m :
        IF m[name] = Absent THEN name \notin DOMAIN f
        ELSE name \in DOMAIN f /\ Match(m[name], f[name])

Match(m, v) ==
    \/ m[1] \in {"null", "string", "number", "boolean"} /\ m = v
    \/ PresenceMatches(m, v) \/ ExistsMatches(m, v)
    \/ Is(v, "string") /\ StringMatches(m, Payload(v))
    \/ Is(v, "number") /\ (NumberMatches(m, Payload(v)) \/ RangeMatches(m, Payload(v)))
    \/ Is(v, "array") /\ ArrayMatches(m, Payload(v))
    \/ m[1] = "array" /\ Is(v, "array") /\ ElementsMatch(Payload(m), Payload(v))
    \/ m[1] = "object" /\ Is(v, "object") /\ FieldsMatch(Payload(m), Payload(v))
    \/ m[1] \in {"$in", "$or"} /\ \E k \in DOMAIN m[2] : Match(m[2][k], v)
    \/ m[1] = "$empty"

-----------------------------------------------------------------------------
(* ResolveJSONPath *)

\* Mutant: the last one.
LastWith(s, field, text) ==
    LET hits == {k \in DOMAIN s : /\ Is(s[k], "object")
                                  /\ field \in DOMAIN Payload(s[k])
                                  /\ Text(Get(s[k], field)) = text}
    IN  IF hits = {} THEN Null ELSE s[CHOOSE k \in hits : \A j \in hits : k >= j]

\* The first object in s whose field prints as the text, nil if there is none.
FirstWith(s, field, text) ==
    LET hits == {k \in DOMAIN s : /\ Is(s[k], "object")
                                  /\ field \in DOMAIN Payload(s[k])
                                  /\ Text(Get(s[k], field)) = text}
    IN  IF hits = {} THEN Null ELSE s[CHOOSE k \in hits : \A j \in hits : k <= j]

RECURSIVE Resolve(_, _), Follow(_, _, _)

\* The brackets of a part are applied to v, then the parts after it.
Follow(brackets, parts, v) ==
    LET b    == Head(brackets)
        s    == Payload(v)
        rest == (IF Tail(brackets) = <<>> THEN <<>>
                 ELSE <<Part(NoField, Tail(brackets))>>) \o parts
        seen == [k \in DOMAIN s |-> Resolve(rest, s[k])]
    IN  CASE v = Unresolved -> Unresolved
          [] brackets = <<>> -> Resolve(parts, v)
          [] brackets # <<>> /\ ~Is(v, "array") -> Unresolved
          [] OTHER ->
                CASE b[1] = "all" ->
                        Arr(IF rest = <<>> THEN s
                            ELSE SelectSeq(seen, LAMBDA w : w \notin {Null, Unresolved}))
                  [] b[1] = "index" /\ b[2] + 1 \in DOMAIN s ->
                        Follow(Tail(brackets), parts, s[b[2] + 1])
                  [] OTHER -> Unresolved

\* A filter must open the brackets of its part; those behind it are ignored.
\* A field that is missing ends the path, unless brackets follow it.
Resolve(parts, v) ==
    IF parts = <<>> THEN v
    ELSE LET p    == Head(parts)
             here == IF p.field = NoField THEN v
                     ELSE IF Is(v, "object") THEN Get(v, p.field) ELSE Unresolved
             ends == /\ p.brackets = <<>> /\ p.field # NoField
                     /\ Is(v, "object") /\ p.field \notin DOMAIN Payload(v)
         IN  CASE here = Unresolved \/ ends -> here
               [] p.brackets # <<>> /\ Head(p.brackets)[1] = "first" ->
                     IF Is(here, "array")
                     THEN Resolve(Tail(parts), FirstWith(Payload(here), Head(p.brackets)[2],
                                                         Head(p.brackets)[3]))
                     ELSE Unresolved
               [] OTHER -> Follow(p.brackets, Tail(parts), here)

=============================================================================
