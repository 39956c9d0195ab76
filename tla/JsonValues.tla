------------------------------ MODULE JsonValues ------------------------------
(***************************************************************************)
(* JSON values, as encoding/json decodes them into any: a type and a       *)
(* payload.  nil stands for null and for what is missing; the code does    *)
(* not tell the two apart.  A path into a value is a sequence of parts,    *)
(* each a field name (or NoField) and the brackets behind it: <<"index",   *)
(* n>>, <<"all">> for [*], <<"first", key, text>> for [?(@.key=='text')].  *)
(***************************************************************************)
EXTENDS Integers, Sequences

Null    == <<"null">>
Str(s)  == <<"string", s>>
Num(n)  == <<"number", n>>
Bool(b) == <<"boolean", b>>
Arr(s)  == <<"array", s>>       \* a sequence of values
Obj(f)  == <<"object", f>>      \* a function from field names to values

\* jsonType
JsonType(v) == v[1]
Is(v, type) == JsonType(v) = type
Payload(v)  == v[2]

\* The field of an object, nil if the object has none.
Get(v, field) == IF field \in DOMAIN Payload(v) THEN Payload(v)[field] ELSE Null

-----------------------------------------------------------------------------
(* Paths, and checks of what is there *)

NoField == ""

Part(field, brackets) == [field |-> field, brackets |-> brackets]

\* The error result of a path, which is no JSON value.
Unresolved == <<"unresolved">>

\* A matcher for what is at a path.
Check(path, matcher) == [path |-> path, matcher |-> matcher]

\* The matcher that wants nothing there.
Absent == <<"absent">>

Distance(x, y) == IF x < y THEN y - x ELSE x - y

=============================================================================
