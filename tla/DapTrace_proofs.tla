---------------------------- MODULE DapTrace_proofs ----------------------------
(***************************************************************************)
(* DapTool shows a session over the trace: the refinement of TraceSession, *)
(* for traces of any length with any invalid lines, both commands, any     *)
(* requests, and writes and launches that fail at any point.  Type         *)
(* correctness, of which the refinement needs what emit has read.          *)
(***************************************************************************)
EXTENDS DapTool_proofs

-----------------------------------------------------------------------------
(* Parts of sequences.                                                     *)

\* The rank of a place tells it from the others, and there is one of each rank.
LEMMA RankIncreases ==
    ASSUME NEW S \in SUBSET Nat, IsFiniteSet(S), NEW j \in S, NEW k \in S, j < k
    PROVE  Rank(S, j) < Rank(S, k)
<1> DEFINE A == {i \in S : i <= j}
           B == {i \in S : i <= k}
<1>1. IsFiniteSet(B) /\ A \in SUBSET B /\ k \in B /\ k \notin A
  <2>1. IsFiniteSet(B)
    BY FS_Subset
  <2>2. j \in Nat /\ k \in Nat /\ \A i \in S : i \in Nat
    OBVIOUS
  <2>3. \A i \in A : i \in B
    BY <2>2
  <2>4. k \in B /\ k \notin A
    BY <2>2
  <2> QED
    BY <2>1, <2>3, <2>4
<1> HIDE DEF A, B
<1>2. Cardinality(A) <= Cardinality(B) /\ Cardinality(A) # Cardinality(B)
  BY <1>1, FS_Subset
<1>3. Cardinality(A) \in Nat /\ Cardinality(B) \in Nat
  BY <1>1, FS_Subset, FS_CardinalityType
<1> QED
  BY <1>2, <1>3 DEF A, B, Rank

LEMMA RankType ==
    ASSUME NEW S \in SUBSET Nat, IsFiniteSet(S)
    PROVE  /\ Cardinality(S) \in Nat
           /\ \A k \in S : Rank(S, k) \in 1 .. Cardinality(S)
<1>1. Cardinality(S) \in Nat
  BY FS_CardinalityType
<1>2. ASSUME NEW k \in S PROVE Rank(S, k) \in 1 .. Cardinality(S)
  <2> DEFINE A == {i \in S : i <= k}
  <2>1. A \in SUBSET S /\ k \in A
    OBVIOUS
  <2> HIDE DEF A
  <2>2. IsFiniteSet(A) /\ Cardinality(A) <= Cardinality(S) /\ Cardinality(A) \in Nat
    BY <2>1, FS_Subset, FS_CardinalityType
  <2>3. Cardinality(A) # 0
    BY <2>1, <2>2, FS_EmptySet
  <2> QED
    BY <1>1, <2>2, <2>3 DEF A, Rank
<1> QED
  BY <1>1, <1>2

LEMMA PlaceOfRank ==
    ASSUME NEW S \in SUBSET Nat, IsFiniteSet(S)
    PROVE  /\ \A n \in 1 .. Cardinality(S) : Place(S, n) \in S /\ Rank(S, Place(S, n)) = n
           /\ \A k \in S : Place(S, Rank(S, k)) = k
<1> DEFINE N == Cardinality(S)
           f == [k \in S |-> Rank(S, k)]
<1>1. N \in Nat /\ \A k \in S : Rank(S, k) \in 1 .. N
  BY RankType
<1>2. \A j, k \in S : Rank(S, j) = Rank(S, k) => j = k
  <2> SUFFICES ASSUME NEW j \in S, NEW k \in S, Rank(S, j) = Rank(S, k), j # k PROVE FALSE
    OBVIOUS
  <2>1. j < k \/ k < j
    OBVIOUS
  <2>2. Rank(S, j) < Rank(S, k) \/ Rank(S, k) < Rank(S, j)
    BY <2>1, RankIncreases
  <2> QED
    BY <1>1, <2>2
<1>3. f \in Injection(S, 1 .. N)
  <2>1. f \in [S -> 1 .. N]
    BY <1>1
  <2>2. IsInjective(f)
    BY <1>2 DEF IsInjective
  <2> QED
    BY <2>1, <2>2 DEF Injection
<1>4. IsFiniteSet(1 .. N) /\ Cardinality(1 .. N) = N
  BY <1>1, FS_Interval
<1>5. f \in Surjection(S, 1 .. N)
  <2> HIDE DEF f
  <2> QED
    BY <1>3, <1>4, FS_Injection
<1>6. \A n \in 1 .. N : \E k \in S : Rank(S, k) = n
  BY <1>5 DEF Surjection
<1>7. ASSUME NEW n \in 1 .. N PROVE Place(S, n) \in S /\ Rank(S, Place(S, n)) = n
  BY <1>6 DEF Place
<1> QED
  BY <1>1, <1>2, <1>7

\* The places below x come first, and then x.
LEMMA PlacesBelow ==
    ASSUME NEW S \in SUBSET Nat, IsFiniteSet(S), NEW x \in Nat,
           NEW T, T = {k \in S : k < x}
    PROVE  /\ IsFiniteSet(T) /\ Cardinality(T) \in Nat /\ Cardinality(S) \in Nat
           /\ Cardinality(T) <= Cardinality(S)
           /\ \A n \in 1 .. Cardinality(T) : Place(T, n) = Place(S, n)
           /\ x \in S => /\ Cardinality(T) < Cardinality(S)
                         /\ Place(S, Cardinality(T) + 1) = x
<1>0. \A i \in S : i \in Nat
  OBVIOUS
<1>1. T \in SUBSET S /\ T \in SUBSET Nat
  OBVIOUS
<1>2. IsFiniteSet(T) /\ Cardinality(T) \in Nat /\ Cardinality(S) \in Nat
      /\ Cardinality(T) <= Cardinality(S)
  BY <1>1, FS_Subset, FS_CardinalityType
<1>3. ASSUME NEW k \in T PROVE Rank(T, k) = Rank(S, k)
  <2>1. \A j \in S : j <= k => j < x
    BY <1>0
  <2>2. {j \in T : j <= k} = {j \in S : j <= k}
    BY <2>1
  <2> QED
    BY <2>2 DEF Rank
<1>4. ASSUME NEW n \in 1 .. Cardinality(T) PROVE Place(T, n) = Place(S, n)
  <2>1. Place(T, n) \in T /\ Rank(T, Place(T, n)) = n
    BY <1>1, <1>2, PlaceOfRank
  <2>2. Rank(S, Place(T, n)) = n /\ Place(T, n) \in S
    BY <1>1, <1>3, <2>1
  <2> QED
    BY <2>2, PlaceOfRank
<1>5. ASSUME x \in S
      PROVE  Cardinality(T) < Cardinality(S) /\ Place(S, Cardinality(T) + 1) = x
  <2>0. \A j \in S : j <= x <=> j < x \/ j = x
    BY <1>0
  <2>1. x \notin T
    BY <1>0, <1>5
  <2>2. {j \in S : j <= x} = T \cup {x}
    BY <1>5, <2>0
  <2>3. Cardinality(T \cup {x}) = Cardinality(T) + 1
    BY <1>2, <2>1, FS_AddElement
  <2>4. Rank(S, x) = Cardinality(T) + 1
    BY <2>2, <2>3 DEF Rank
  <2>5. Rank(S, x) \in 1 .. Cardinality(S)
    BY <1>5, RankType
  <2> QED
    BY <1>2, <1>5, <2>4, <2>5, PlaceOfRank
<1> QED
  BY <1>2, <1>4, <1>5

LEMMA PartBelow ==
    ASSUME NEW S \in SUBSET Nat, IsFiniteSet(S), NEW x \in Nat,
           NEW T, T = {k \in S : k < x}, NEW s
    PROVE  /\ Cardinality(T) \in Nat /\ Cardinality(S) \in Nat
           /\ Cardinality(T) <= Cardinality(S)
           /\ DOMAIN PartOf(s, T) = 1 .. Cardinality(T)
           /\ \A n \in 1 .. Cardinality(T) : PartOf(s, T)[n] = PartOf(s, S)[n]
           /\ x \in S => /\ Cardinality(T) < Cardinality(S)
                         /\ PartOf(s, S)[Cardinality(T) + 1] = s[x]
<1> DEFINE t == Cardinality(T)
           c == Cardinality(S)
<1>1. /\ t \in Nat /\ c \in Nat /\ t <= c
      /\ \A n \in 1 .. t : Place(T, n) = Place(S, n)
      /\ x \in S => t < c /\ Place(S, t + 1) = x
  BY PlacesBelow
<1>2. /\ PartOf(s, T) = [n \in 1 .. t |-> s[Place(T, n)]]
      /\ PartOf(s, S) = [n \in 1 .. c |-> s[Place(S, n)]]
  BY DEF PartOf
<1> HIDE DEF t, c
<1>3. \A n \in 1 .. t : n \in 1 .. c
  BY <1>1
<1>4. x \in S => t + 1 \in 1 .. c
  BY <1>1
<1>5. DOMAIN PartOf(s, T) = 1 .. t
  BY <1>2
<1>6. \A n \in 1 .. t : PartOf(s, T)[n] = PartOf(s, S)[n]
  BY <1>1, <1>2, <1>3
<1>7. x \in S => t < c /\ PartOf(s, S)[t + 1] = s[x]
  BY <1>1, <1>2, <1>4
<1> QED
  BY <1>1, <1>5, <1>6, <1>7 DEF t, c

\* Only what is at its places matters.
LEMMA PartAgrees ==
    ASSUME NEW S \in SUBSET Nat, IsFiniteSet(S), NEW s, NEW t, \A k \in S : s[k] = t[k]
    PROVE  PartOf(s, S) = PartOf(t, S)
<1>1. \A n \in 1 .. Cardinality(S) : s[Place(S, n)] = t[Place(S, n)]
  BY PlaceOfRank
<1> QED
  BY <1>1 DEF PartOf

-----------------------------------------------------------------------------
(* Types, and what emit has read.                                          *)

\* A part grows at its end.
LEMMA PartAppend ==
    ASSUME NEW T \in SUBSET Nat, IsFiniteSet(T), NEW x \in Nat, \A k \in T : k < x,
           NEW s, NEW A, \A k \in T \cup {x} : s[k] \in A
    PROVE  /\ PartOf(s, T) \in Seq(A) /\ Len(PartOf(s, T)) = Cardinality(T)
           /\ PartOf(s, T \cup {x}) = Append(PartOf(s, T), s[x])
<1> DEFINE S == T \cup {x}
           p == PartOf(s, T)
           q == PartOf(s, S)
<1>1. x \notin T /\ S \in SUBSET Nat /\ T = {k \in S : k < x} /\ x \in S
  <2>1. \A k \in T : k \in Nat /\ k < x /\ k # x
    OBVIOUS
  <2>2. x \notin T /\ x \in S
    BY <2>1
  <2>3. S \in SUBSET Nat
    BY <2>1
  <2>4. \A k \in S : k < x <=> k \in T
    BY <2>1
  <2>5. T = {k \in S : k < x}
    BY <2>4
  <2> QED
    BY <2>2, <2>3, <2>5
<1>2. IsFiniteSet(S) /\ Cardinality(S) = Cardinality(T) + 1
  BY <1>1, FS_AddElement
<1>3. /\ Cardinality(T) \in Nat
      /\ DOMAIN p = 1 .. Cardinality(T)
      /\ \A n \in 1 .. Cardinality(T) : p[n] = q[n]
      /\ q[Cardinality(T) + 1] = s[x]
  <2> HIDE DEF S
  <2> QED
    BY <1>1, <1>2, PartBelow
<1>4. DOMAIN q = 1 .. Cardinality(T) + 1
  BY <1>2 DEF PartOf
<1>5. \A n \in 1 .. Cardinality(T) : p[n] \in A
  BY PlaceOfRank DEF PartOf
<1>6. p = [n \in 1 .. Cardinality(T) |-> p[n]] /\ q = [n \in 1 .. Cardinality(T) + 1 |-> q[n]]
  BY <1>2 DEF PartOf
<1>7. s[x] \in A
  OBVIOUS
<1> HIDE DEF S, p, q
<1>8. p \in Seq(A) /\ Len(p) = Cardinality(T)
  BY <1>3, <1>5, <1>6
<1>9. q = Append(p, s[x])
  <2> DEFINE c == Cardinality(T)
             a == Append(p, s[x])
  <2> HIDE DEF c
  <2>1. a = [n \in 1 .. c + 1 |-> IF n <= c THEN p[n] ELSE s[x]]
    BY <1>3, <1>7, <1>8 DEF c
  <2>2. \A n \in 1 .. c + 1 : n \in 1 .. c \/ n = c + 1
    BY <1>3 DEF c
  <2>3. \A n \in 1 .. c + 1 : q[n] = IF n <= c THEN p[n] ELSE s[x]
    BY <1>3, <2>2 DEF c
  <2> QED
    BY <1>6, <2>1, <2>3 DEF c
<1> QED
  BY <1>8, <1>9 DEF p, q, S

\* The valid lines before a line.
ValidBefore(n) == {k \in ValidLines : k < n}

LEMMA ValidLinesType ==
    ASSUME trace \in Traces
    PROVE  /\ Len(trace) \in Nat /\ DOMAIN trace = 1 .. Len(trace)
           /\ ValidLines \in SUBSET Nat /\ IsFiniteSet(ValidLines)
           /\ Cardinality(ValidLines) \in Nat
           /\ \A k \in ValidLines : k <= Len(trace) /\ trace[k] \in Span
           /\ \A n \in Nat : ValidBefore(n) \in SUBSET Nat /\ IsFiniteSet(ValidBefore(n))
<1>1. trace \in Seq(Span \cup {Invalid})
  BY DapServerAssumption
<1>2. Len(trace) \in Nat /\ DOMAIN trace = 1 .. Len(trace)
      /\ \A k \in 1 .. Len(trace) : trace[k] \in Span \cup {Invalid}
  BY <1>1
<1>3. ValidLines \in SUBSET (1 .. Len(trace))
  BY <1>2 DEF ValidLines
<1>4. IsFiniteSet(ValidLines) /\ Cardinality(ValidLines) \in Nat
  <2>1. IsFiniteSet(1 .. Len(trace))
    BY <1>2, FS_Interval
  <2>2. IsFiniteSet(ValidLines)
    BY <1>3, <2>1, FS_Subset
  <2> QED
    BY <2>2, FS_CardinalityType
<1>5. ASSUME NEW n \in Nat
      PROVE  ValidBefore(n) \in SUBSET Nat /\ IsFiniteSet(ValidBefore(n))
  <2>1. ValidBefore(n) \in SUBSET ValidLines
    BY DEF ValidBefore
  <2>2. IsFiniteSet(ValidBefore(n))
    BY <1>4, <2>1, FS_Subset
  <2>3. \A k \in ValidLines : k \in Nat
    BY <1>2, <1>3
  <2> QED
    BY <2>1, <2>2, <2>3
<1>6. ASSUME NEW k \in ValidLines PROVE k <= Len(trace) /\ trace[k] \in Span
  BY <1>2, <1>3 DEF ValidLines
<1>7. ValidLines \in SUBSET Nat
  BY <1>2, <1>3
<1> QED
  BY <1>2, <1>4, <1>5, <1>6, <1>7

TypeInv ==
    /\ waits \in Waits /\ terminated \in BOOLEAN /\ strict \in BOOLEAN
    /\ launches \in Seq({"ok", "failed"})
    /\ shown \in {Unasked, 0} \cup DOMAIN spans
    /\ line \in 1 .. Len(trace) + 1
    /\ command = "serve" => line = 1 /\ ~strict
    /\ command = "emit" => spans = PartOf(trace, ValidBefore(line))
    /\ strict => \A k \in 1 .. line - 1 : trace[k] # Invalid

\* A line is read: valid, it adds a span; invalid, none.
LEMMA LineRead ==
    ASSUME SessionInv, TypeInv, command = "emit", line \in DOMAIN trace
    PROVE  /\ line + 1 \in 1 .. Len(trace) + 1
           /\ trace[line] # Invalid =>
                 PartOf(trace, ValidBefore(line + 1)) = Append(spans, trace[line])
           /\ trace[line] = Invalid => PartOf(trace, ValidBefore(line + 1)) = spans
<1>1. trace \in Traces /\ line \in Nat /\ spans = PartOf(trace, ValidBefore(line))
  BY ValidLinesType DEF SessionInv, SessionTypes, TypeInv
<1>2. \A k \in ValidLines : k \in Nat
  BY <1>1, ValidLinesType
<1>3. \A k \in ValidLines : k < line + 1 <=> k < line \/ k = line
  BY <1>1, <1>2
<1>4. ASSUME trace[line] # Invalid
      PROVE  PartOf(trace, ValidBefore(line + 1)) = Append(spans, trace[line])
  <2>1. line \in ValidLines
    BY <1>4 DEF ValidLines
  <2>2. ValidBefore(line + 1) = ValidBefore(line) \cup {line}
    BY <1>3, <2>1 DEF ValidBefore
  <2>3. \A k \in ValidBefore(line) \cup {line} : trace[k] \in Span
    BY <1>1, <2>1, ValidLinesType DEF ValidBefore
  <2>4. /\ ValidBefore(line) \in SUBSET Nat /\ IsFiniteSet(ValidBefore(line))
        /\ \A k \in ValidBefore(line) : k < line
    BY <1>1, ValidLinesType DEF ValidBefore
  <2> QED
    BY <1>1, <2>2, <2>3, <2>4, PartAppend
<1>5. ASSUME trace[line] = Invalid PROVE ValidBefore(line + 1) = ValidBefore(line)
  BY <1>3, <1>5 DEF ValidBefore, ValidLines
<1>6. line + 1 \in 1 .. Len(trace) + 1
  BY <1>1, ValidLinesType
<1> QED
  BY <1>1, <1>4, <1>5, <1>6

LEMMA InitTypeInv == ToolInit => TypeInv
<1> SUFFICES ASSUME ToolInit PROVE TypeInv
  OBVIOUS
<1>1. /\ trace \in Traces /\ waits \in Waits /\ line = 1 /\ spans = <<>> /\ launches = <<>>
      /\ shown = Unasked /\ terminated = FALSE /\ strict \in BOOLEAN
      /\ command = "serve" => ~strict
  BY DEF ToolInit, Init
<1>2. ValidBefore(1) = {}
  <2>1. \A k \in ValidLines : k \in 1 .. Len(trace) /\ Len(trace) \in Nat
    BY <1>1, ValidLinesType DEF ValidLines
  <2> QED
    BY <2>1 DEF ValidBefore
<1>3. PartOf(trace, {}) = <<>>
  BY FS_EmptySet DEF PartOf
<1>4. line \in 1 .. Len(trace) + 1 /\ 1 .. line - 1 = {}
  BY <1>1, ValidLinesType
<1>5. launches \in Seq({"ok", "failed"})
  BY <1>1
<1> QED
  BY <1>1, <1>2, <1>3, <1>4, <1>5 DEF TypeInv

LEMMA NextTypeInv == SessionInv /\ TypeInv /\ [ToolNext]_<<vars, tool>> => TypeInv'
<1> SUFFICES ASSUME SessionInv, TypeInv, [ToolNext]_<<vars, tool>> PROVE TypeInv'
  OBVIOUS
<1>0. trace \in Traces /\ spans \in Seq(Span)
  BY DEF SessionInv, SessionTypes
<1>1. CASE UNCHANGED <<vars, tool>>
  BY <1>1 DEF TypeInv, ValidBefore, ValidLines, vars, params, tool
<1>2. CASE command = "serve" /\ Next /\ UNCHANGED tool
  <2> SUFFICES ASSUME /\ waits' = waits /\ trace' = trace
                      /\ terminated' \in BOOLEAN /\ launches' \in Seq({"ok", "failed"})
                      /\ shown' \in {Unasked, 0} \cup DOMAIN spans'
               PROVE  TypeInv'
    <3>1. CASE Launch
      <4>1. launches' \in Seq({"ok", "failed"})
        <5>1. \A r \in {"ok", "failed"} : Append(launches, r) \in Seq({"ok", "failed"})
          BY DEF TypeInv
        <5> QED
          BY <3>1, <5>1 DEF Launch
      <4> QED
        BY <3>1, <4>1 DEF Launch, params, TypeInv
    <3>2. CASE Advance
      BY <3>2 DEF Advance, params, TypeInv
    <3>3. CASE StackTrace
      BY <3>3 DEF StackTrace, CurrentSpan, params, TypeInv
    <3>4. CASE Scopes
      BY <3>4 DEF Scopes, CurrentSpan, params, TypeInv
    <3>5. CASE \E ref \in DOMAIN varRefs : Variables(ref)
      BY <3>5 DEF Variables, params, TypeInv
    <3>6. CASE Disconnect
      BY <3>6 DEF Disconnect, params, TypeInv
    <3>7. CASE InputEnds \/ Other
      BY <3>7 DEF InputEnds, Other, params, TypeInv
    <3>8. CASE Ended
      BY <3>8 DEF Ended, vars, params, TypeInv
    <3> QED
      BY <1>2, <3>1, <3>2, <3>3, <3>4, <3>5, <3>6, <3>7, <3>8 DEF Next
  <2> QED
    BY <1>2 DEF TypeInv, tool
<1>3. CASE EmitSpan
  <2>1. /\ command = "emit" /\ line \in DOMAIN trace /\ trace[line] # Invalid
        /\ spans' = Append(spans, trace[line]) /\ line' = line + 1
        /\ trace' = trace /\ waits' = waits
        /\ UNCHANGED <<command, strict, terminated, launches, shown>>
    BY <1>3 DEF EmitSpan, Emitting, params, Unserved
  <2>2. line' \in 1 .. Len(trace) + 1 /\ spans' = PartOf(trace, ValidBefore(line'))
    BY <2>1, LineRead
  <2>3. \A n \in DOMAIN spans : n \in DOMAIN spans'
    <3>1. trace[line] \in Span
      BY <1>0, <2>1, ValidLinesType DEF ValidLines
    <3> QED
      BY <1>0, <2>1, <3>1
  <2>4. strict => \A k \in 1 .. line' - 1 : trace[k] # Invalid
    <3>1. line \in Nat
      BY <1>0, <2>1, ValidLinesType
    <3>2. \A k \in 1 .. line' - 1 : k \in 1 .. line - 1 \/ k = line
      BY <2>1, <3>1
    <3> QED
      BY <2>1, <3>2 DEF TypeInv
  <2>5. (ValidBefore(line))' = ValidBefore(line')
    BY <2>1 DEF ValidBefore, ValidLines
  <2> QED
    BY <2>1, <2>2, <2>3, <2>4, <2>5 DEF TypeInv
<1>4. CASE Invalidated
  <2>1. /\ command = "emit" /\ line \in DOMAIN trace /\ trace[line] = Invalid
        /\ line' = line \/ (line' = line + 1 /\ ~strict)
        /\ trace' = trace /\ waits' = waits
        /\ UNCHANGED <<spans, command, strict, terminated, launches, shown>>
    BY <1>4 DEF Invalidated, Emitting, params, Unserved, TypeInv
  <2>2. line' \in 1 .. Len(trace) + 1 /\ spans' = PartOf(trace, ValidBefore(line'))
    BY <2>1, LineRead DEF TypeInv
  <2>3. strict => \A k \in 1 .. line' - 1 : trace[k] # Invalid
    BY <2>1 DEF TypeInv
  <2>4. (ValidBefore(line))' = ValidBefore(line')
    BY <2>1 DEF ValidBefore, ValidLines
  <2> QED
    BY <2>1, <2>2, <2>3, <2>4 DEF TypeInv
<1>5. CASE EmitEnd \/ EmitFails
  <2>1. /\ UNCHANGED <<trace, waits, spans, launches, shown, command, strict, line>>
        /\ terminated' \in BOOLEAN
    BY <1>5 DEF EmitEnd, EmitFails, Emitting, params, tool, Unserved, TypeInv
  <2> QED
    BY <2>1 DEF TypeInv, ValidBefore, ValidLines
<1> QED
  BY <1>1, <1>2, <1>3, <1>4, <1>5 DEF ToolNext, Ended

LEMMA TypeInvCorrect == ToolSpec => []TypeInv
<1>1. SessionInv /\ TypeInv /\ [ToolNext]_<<vars, tool>> => TypeInv'
  BY NextTypeInv
<1> QED
  BY <1>1, InitTypeInv, SessionInvCorrect, PTL DEF ToolSpec

\* Only spans that validate are loaded or sent, whatever launches fail and however
\* often; emit numbers the spans by the valid lines it has read; and a reference
\* stands for a span of the session.
THEOREM TypesAreKept == ToolSpec => []ToolTypeOK
<1>1. SessionInv /\ TypeInv => ToolTypeOK
  <2> SUFFICES ASSUME SessionInv, TypeInv PROVE ToolTypeOK
    OBVIOUS
  <2>1. \A r \in DOMAIN varRefs : varRefs[r].span \in DOMAIN spans /\ varRefs[r].level \in Nat
    <3>1. varRefs \in Seq([span : Nat, level : Nat])
      BY DEF SessionInv, SessionTypes
    <3>2. ASSUME NEW A, NEW s \in Seq(A), NEW r \in DOMAIN s PROVE s[r] \in A
      OBVIOUS
    <3>3. \A r \in DOMAIN varRefs : varRefs[r] \in [span : Nat, level : Nat]
      BY <3>1, <3>2, Zenon
    <3> QED
      BY <3>3 DEF SessionInv, RefsHaveSpans
  <2>2. TypeOK
    BY <2>1 DEF TypeOK, SessionInv, SessionTypes, TypeInv
  <2> QED
    BY <2>2 DEF ToolTypeOK, TypeInv, SessionInv, SessionTypes, ValidBefore
<1> QED
  BY <1>1, SessionInvCorrect, TypeInvCorrect, PTL

-----------------------------------------------------------------------------
(* The stops, counted.                                                     *)

Count(es) == Cardinality(Named(es, "stopped"))
Ends(es)  == Named(es, "terminated") # {}

\* The stops are on the spans 1, 2, 3, ...
InOrder(es) == \A n \in 1 .. Count(es) : PartOf(es, Named(es, "stopped"))[n].span = n

\* The session is as far in es as in fs.
AsFar(fs, es) ==
    /\ es \in Seq(Message)
    /\ Count(es) = Count(fs) /\ (InOrder(fs) => InOrder(es)) /\ (Ends(es) <=> Ends(fs))

LEMMA OtherCounts ==
    ASSUME NEW es \in Seq(Message), NEW e \in Message, e.event # "stopped"
    PROVE  /\ Append(es, e) \in Seq(Message)
           /\ Count(Append(es, e)) = Count(es) /\ (InOrder(es) => InOrder(Append(es, e)))
           /\ IF e.event = "terminated" THEN Ends(Append(es, e)) ELSE AsFar(es, Append(es, e))
<1> DEFINE a == Append(es, e)
           S == Named(es, "stopped")
<1>1. /\ a \in Seq(Message)
      /\ Named(a, "stopped") = S
      /\ \A k \in DOMAIN es : a[k] = es[k]
      /\ Named(a, "terminated") = IF e.event = "terminated"
            THEN Named(es, "terminated") \cup {Len(es) + 1} ELSE Named(es, "terminated")
  BY NamedAppended, AppendedEvent
<1>2. S \in SUBSET Nat /\ IsFiniteSet(S) /\ \A k \in S : k \in DOMAIN es
  BY NamedType DEF Named
<1> HIDE DEF a, S
<1>3. PartOf(a, S) = PartOf(es, S)
  BY <1>1, <1>2, PartAgrees
<1>4. Count(a) = Count(es) /\ (InOrder(es) => InOrder(a))
  BY <1>1, <1>3 DEF Count, InOrder, S
<1>5. IF e.event = "terminated" THEN Ends(a) ELSE Ends(a) <=> Ends(es)
  BY <1>1 DEF Ends
<1> QED
  BY <1>1, <1>4, <1>5 DEF AsFar, a

LEMMA StopCounts ==
    ASSUME NEW es \in Seq(Message), NEW t \in Nat, NEW i \in Nat, i = Count(es) + 1
    PROVE  /\ Append(es, Stopped(i, t)) \in Seq(Message)
           /\ Count(Append(es, Stopped(i, t))) = i
           /\ InOrder(es) => InOrder(Append(es, Stopped(i, t)))
           /\ Ends(Append(es, Stopped(i, t))) <=> Ends(es)
<1> DEFINE e == Stopped(i, t)
           a == Append(es, e)
           S == Named(es, "stopped")
           x == Len(es) + 1
<1>0. e \in Message /\ e.event = "stopped" /\ e.span = i
  BY MessageTypes DEF Stopped
<1> HIDE DEF e
<1>1. /\ a \in Seq(Message)
      /\ Named(a, "stopped") = S \cup {x}
      /\ \A k \in DOMAIN es : a[k] = es[k]
      /\ a[x] = e
      /\ Named(a, "terminated") = Named(es, "terminated")
  BY <1>0, NamedAppended, AppendedEvent
<1>2. /\ S \in SUBSET Nat /\ IsFiniteSet(S) /\ Cardinality(S) \in Nat
      /\ x \in Nat /\ \A k \in S : k < x /\ k \in DOMAIN es
  <2>1. \A k \in S : k <= Len(es) /\ k \in Nat /\ Len(es) \in Nat
    BY NamedType
  <2>2. x \in Nat /\ \A k \in S : k < x
    BY <2>1
  <2> QED
    BY <2>2, NamedType DEF Named
<1>3. \A k \in S \cup {x} : a[k] \in Message
  <2>1. \A k \in DOMAIN es : es[k] \in Message
    OBVIOUS
  <2> QED
    BY <1>0, <1>1, <1>2, <2>1
<1>4. Count(es) = Cardinality(S)
  BY DEF Count
<1> HIDE DEF a, S, x
<1>5. /\ PartOf(a, S) \in Seq(Message) /\ Len(PartOf(a, S)) = Cardinality(S)
      /\ PartOf(a, S \cup {x}) = Append(PartOf(a, S), e)
  <2>1. /\ PartOf(a, S) \in Seq(Message) /\ Len(PartOf(a, S)) = Cardinality(S)
        /\ PartOf(a, S \cup {x}) = Append(PartOf(a, S), a[x])
    <3>1. \A k \in S : k < x
      BY <1>2
    <3> QED
      BY <1>2, <1>3, <3>1, PartAppend
  <2> QED
    BY <1>1, <2>1
<1>6. PartOf(a, S) = PartOf(es, S)
  BY <1>1, <1>2, PartAgrees
<1>7. Count(a) = i
  <2>1. x \notin S
    BY <1>2
  <2>2. Cardinality(S \cup {x}) = Cardinality(S) + 1
    BY <1>2, <2>1, FS_AddElement
  <2> QED
    BY <1>1, <1>4, <2>2 DEF Count
<1>8. ASSUME InOrder(es) PROVE InOrder(a)
  <2> DEFINE p == PartOf(es, S)
  <2>1. p \in Seq(Message) /\ Len(p) = i - 1 /\ PartOf(a, S \cup {x}) = Append(p, e)
    <3>1. p \in Seq(Message) /\ Len(p) = Cardinality(S) /\ PartOf(a, S \cup {x}) = Append(p, e)
      BY <1>5, <1>6
    <3>2. Cardinality(S) = i - 1
      BY <1>2, <1>4
    <3> QED
      BY <3>1, <3>2, Zenon
  <2>2. \A n \in 1 .. i - 1 : p[n].span = n
    BY <1>2, <1>4, <1>8 DEF InOrder, S
  <2> HIDE DEF p
  <2>3. \A n \in 1 .. i - 1 : Append(p, e)[n] = p[n]
    BY <1>0, <2>1
  <2>4. Append(p, e)[i] = e
    BY <1>0, <2>1
  <2>5. \A n \in 1 .. i : n = i \/ n \in 1 .. i - 1
    OBVIOUS
  <2>6. \A n \in 1 .. i : Append(p, e)[n].span = n
    BY <1>0, <2>2, <2>3, <2>4, <2>5
  <2> QED
    BY <1>1, <1>7, <2>1, <2>6 DEF InOrder
<1> QED
  BY <1>1, <1>7, <1>8 DEF Ends, a, e

\* A thread that is announced is no progress.
LEMMA NewsCounts ==
    ASSUME events \in Seq(Message), NEW key, ThreadIDFor(key) \in Nat
    PROVE  AsFar(events, events \o News(key))
<1>1. CASE News(key) = <<>>
  <2>1. events \o <<>> = events
    OBVIOUS
  <2> QED
    BY <1>1, <2>1 DEF AsFar
<1>2. CASE News(key) = <<Thread(ThreadIDFor(key))>>
  <2> DEFINE e == Thread(ThreadIDFor(key))
  <2>1. e \in Message /\ e.event = "thread"
    BY MessageTypes DEF Thread
  <2> HIDE DEF e
  <2>2. events \o <<e>> = Append(events, e)
    BY <2>1
  <2> QED
    BY <1>2, <2>1, <2>2, OtherCounts DEF e
<1> QED
  BY <1>1, <1>2 DEF News

-----------------------------------------------------------------------------
(* The invariant.                                                          *)

TraceInv ==
    /\ command = "emit" \/ waits => InOrder(events) /\ Count(events) <= Len(spans)
    /\ command = "emit" /\ running => Count(events) = Len(spans) /\ ~Ends(events)
    /\ command = "serve" /\ waits =>
          /\ Launched => spans = trace
          /\ ~Launched => cursor = 0 /\ Count(events) = 0
          /\ launches = <<>> => spans = <<>>
          /\ running => /\ Count(events) = IF cursor <= Len(spans) THEN cursor ELSE Len(spans)
                        /\ Ends(events) <=> cursor > Len(spans)

\* A step stops once or not at all, not after the end, and does not take back the end.
Progress ==
    /\ Count(events') = Count(events) \/ Count(events') = Count(events) + 1
    /\ Ends(events) => Ends(events') /\ Count(events') = Count(events)
    /\ Count(events') = Count(events) + 1 => ~Ends(events')

\* No stop, and no change of what was loaded or asked for.
LEMMA QuietProgress ==
    ASSUME SessionInv, TraceInv, command = "emit" \/ waits,
           UNCHANGED <<trace, waits, command, spans, cursor, launches>>,
           InOrder(events'), Count(events') = Count(events), Ends(events) => Ends(events'),
           running' => running /\ (Ends(events') <=> Ends(events))
    PROVE  TraceInv' /\ Progress
<1>1. events \in Seq(Message)
  BY DEF SessionInv, SessionTypes
<1>2. Count(events) # Count(events) + 1
  BY <1>1, NamedType DEF Count
<1> QED
  BY <1>2 DEF TraceInv, Launched, Progress

LEMMA AdvanceProgress ==
    ASSUME SessionInv, AnnounceInv, TraceInv, command = "serve", command' = command, waits,
           Advance
    PROVE  TraceInv' /\ Progress
<1>0. /\ SessionTypes /\ events \in Seq(Message) /\ spans \in Seq(Span) /\ running
      /\ UNCHANGED <<trace, waits, spans, launches>> /\ Launched /\ Launched'
      /\ cursor \in Nat /\ cursor' = cursor + 1 /\ Len(spans) \in Nat
      /\ Count(events) \in Nat
  BY NamedType DEF SessionInv, SessionTypes, Advance, Advanced, params, Launched, Count
<1>1. /\ InOrder(events) /\ spans = trace /\ launches # <<>> /\ Count(events) <= Len(spans)
      /\ Count(events) = IF cursor <= Len(spans) THEN cursor ELSE Len(spans)
      /\ Ends(events) <=> cursor > Len(spans)
  <2>1. launches # <<>>
    BY <1>0 DEF Launched
  <2> QED
    BY <1>0, <2>1 DEF TraceInv
<1>2. CASE cursor' > Len(spans)
  <2>1. (events' = events /\ running' = FALSE) \/ events' = Append(events, Terminated)
    BY <1>2, EndSends
  <2>2. /\ Count(Append(events, Terminated)) = Count(events)
        /\ InOrder(Append(events, Terminated)) /\ Ends(Append(events, Terminated))
    BY <1>0, <1>1, MessageTypes, OtherCounts DEF Terminated
  <2>3. /\ Count(events') = Count(events) /\ InOrder(events')
        /\ Ends(events) => Ends(events')
        /\ running' => Ends(events')
    BY <1>1, <2>1, <2>2
  <2>4. Count(events') = IF cursor' <= Len(spans) THEN cursor' ELSE Len(spans)
    BY <1>0, <1>1, <1>2, <2>3
  <2>5. TraceInv'
    BY <1>0, <1>1, <1>2, <2>3, <2>4 DEF TraceInv
  <2>6. Progress
    BY <1>0, <2>3 DEF Progress
  <2> QED
    BY <2>5, <2>6
<1>3. CASE ~(cursor' > Len(spans))
  <2> DEFINE key  == spans[cursor'].key
             t    == ThreadIDFor(key)
             base == events \o News(key)
             last == Append(base, Stopped(cursor', t))
  <2>1. /\ t \in DOMAIN threadIDs' /\ threadIDs' \in Seq(Keys)
        /\ (events' \in {events, base} /\ running' = FALSE) \/ events' = last
    BY <1>3, StopSends
  <2>2. t \in Nat
    BY <2>1
  <2>3. cursor = Count(events) /\ ~Ends(events) /\ cursor' = Count(events) + 1
        /\ cursor' <= Len(spans) /\ cursor' \in Nat
    BY <1>0, <1>1, <1>3
  <2>4. AsFar(events, base)
    BY <1>0, <2>2, NewsCounts
  <2> HIDE DEF t, base
  <2>5. Count(last) = cursor' /\ InOrder(last) /\ ~Ends(last)
    <3>1. /\ base \in Seq(Message) /\ cursor' = Count(base) + 1 /\ InOrder(base)
          /\ ~Ends(base)
      BY <1>1, <2>3, <2>4 DEF AsFar
    <3> QED
      BY <2>2, <2>3, <3>1, StopCounts
  <2>6. /\ InOrder(events') /\ ~Ends(events')
        /\ Count(events') = Count(events) \/ Count(events') = Count(events) + 1
        /\ running' => Count(events') = cursor'
    BY <1>1, <2>1, <2>3, <2>4, <2>5 DEF AsFar
  <2>7. TraceInv'
    BY <1>0, <1>1, <2>3, <2>6 DEF TraceInv
  <2>8. Progress
    BY <2>3, <2>6 DEF Progress
  <2> QED
    BY <2>7, <2>8
<1> QED
  BY <1>2, <1>3

LEMMA EmitProgress ==
    ASSUME SessionInv, AnnounceInv, TraceInv, EmitSpan
    PROVE  TraceInv' /\ Progress
<1> DEFINE key  == trace[line].key
           t    == ThreadIDFor(key)
           i    == Len(spans) + 1
           base == events \o News(key)
           a == Append(base, Output)
           b == Append(a, Stopped(i, t))
           c == Append(b, Continued(t))
<1>0. /\ events \in Seq(Message) /\ spans \in Seq(Span) /\ running
      /\ command = "emit" /\ command' = command /\ trace \in Traces
      /\ spans' = Append(spans, trace[line])
      /\ line \in DOMAIN trace /\ trace[line] # Invalid
  BY DEF SessionInv, SessionTypes, EmitSpan, Emitting
<1>1. /\ threadIDs' \in Seq(Keys) /\ t \in DOMAIN threadIDs'
      /\ spans' \in Seq(Span) /\ i \in DOMAIN spans'
      /\ \/ events' \in {events, base, a, b} /\ running' = FALSE
         \/ events' = c
  <2>1. /\ \A es \in {events, base} :
              /\ threadIDs' \in Seq(Keys) /\ Distinct(threadIDs')
              /\ t \in DOMAIN threadIDs' /\ threadIDs'[t] = key
              /\ es \in Seq(Message)
              /\ Announced(es, Len(threadIDs')) /\ Keyed(es, spans', threadIDs')
              /\ es = base => Complete(es, Len(threadIDs'))
              /\ Continues(es) /\ Rests(es)
        /\ spans' \in Seq(Span) /\ i \in DOMAIN spans' /\ spans'[i].key = key
        /\ \/ events' \in {events, base, a, b} /\ running' = FALSE
           \/ events' = c
    BY EmitSends
  <2> HIDE DEF key, t, i, base, a, b, c
  <2> QED
    BY <2>1
<1>2. i \in Nat /\ t \in Nat /\ Len(spans) \in Nat /\ Len(spans') = i
  <2>1. trace[line] \in Span
    BY <1>0, ValidLinesType DEF ValidLines
  <2> QED
    BY <1>0, <1>1, <2>1
<1>3. InOrder(events) /\ i = Count(events) + 1 /\ ~Ends(events) /\ Count(events) \in Nat
  BY <1>0, <1>2 DEF TraceInv
<1>4. AsFar(events, base)
  BY <1>0, <1>2, NewsCounts
<1> HIDE DEF base, t, i
<1>5. AsFar(events, a)
  <2>1. Output \in Message /\ Output.event \notin {"stopped", "terminated"}
    BY MessageTypes DEF Output
  <2> QED
    BY <1>4, <2>1, OtherCounts DEF AsFar
<1>6. b \in Seq(Message) /\ Count(b) = i /\ InOrder(b) /\ ~Ends(b)
  <2> HIDE DEF a
  <2>1. a \in Seq(Message) /\ i = Count(a) + 1 /\ InOrder(a) /\ ~Ends(a)
    BY <1>3, <1>5 DEF AsFar
  <2> QED
    BY <1>2, <2>1, StopCounts
<1>7. Count(c) = i /\ InOrder(c) /\ ~Ends(c)
  <2>1. Continued(t) \in Message /\ Continued(t).event \notin {"stopped", "terminated"}
    BY <1>2, MessageTypes DEF Continued
  <2> HIDE DEF b
  <2> QED
    BY <1>6, <2>1, OtherCounts DEF AsFar
<1> HIDE DEF a, b, c
<1>8. /\ InOrder(events') /\ ~Ends(events')
      /\ Count(events') = Count(events) \/ Count(events') = i
      /\ running' => Count(events') = i
  BY <1>1, <1>3, <1>4, <1>5, <1>6, <1>7 DEF AsFar
<1>9. Count(events') <= Len(spans')
  BY <1>2, <1>3, <1>8
<1> QED
  BY <1>0, <1>2, <1>3, <1>8, <1>9 DEF TraceInv, Progress

LEMMA LaunchProgress ==
    ASSUME SessionInv, TypeInv, TraceInv, command = "serve", command' = command, waits, Launch
    PROVE  TraceInv' /\ Progress
<1>0. /\ events \in Seq(Message) /\ spans \in Seq(Span) /\ trace \in Traces /\ running
      /\ cursor' = cursor /\ trace' = trace /\ waits' = waits /\ Send(<<>>)
      /\ Len(launches) < 1 /\ launches \in Seq({"ok", "failed"})
  BY DEF SessionInv, SessionTypes, TypeInv, Launch, params
<1>1. events' = events
  BY <1>0, SilentSend
<1>2. launches = <<>>
  BY <1>0
<1>3. /\ ~Launched /\ spans = <<>> /\ cursor = 0 /\ Count(events) = 0 /\ InOrder(events)
      /\ ~Ends(events)
  <2>1. ~Launched
    BY <1>2 DEF Launched
  <2> QED
    BY <1>0, <1>2, <2>1 DEF TraceInv
<1>4. spans' \in Seq(Span) /\ Len(spans') \in Nat
  <2>1. Replayed \in Seq(Span)
    BY <1>0, ReplayedType
  <2>2. spans' = spans \/ spans' = spans \o Replayed
    BY DEF Launch, Loaded
  <2>3. ASSUME NEW s \in Seq(Span), NEW t \in Seq(Span)
        PROVE  s \o t \in Seq(Span) /\ Len(s) \in Nat
    OBVIOUS
  <2>4. spans' \in Seq(Span)
    BY <1>0, <2>1, <2>2, <2>3, Zenon
  <2> QED
    BY <2>3, <2>4, Zenon
<1>5. launches' # <<>> /\ (Launched' => spans' = trace)
  <2>1. \A r : Append(<<>>, r) # <<>> /\ DOMAIN Append(<<>>, r) = {1} /\ Append(<<>>, r)[1] = r
    OBVIOUS
  <2>2. Replayed \in Seq(Span)
    BY <1>0, ReplayedType
  <2> HIDE DEF Replayed
  <2>3. <<>> \o Replayed = Replayed
    BY <2>2
  <2>4. CASE spans' = Loaded
             /\ launches' = Append(launches, IF Replayed = trace THEN "ok" ELSE "failed")
    BY <1>2, <1>3, <2>1, <2>3, <2>4 DEF Launched, Loaded
  <2>5. CASE launches' = Append(launches, "failed")
    BY <1>2, <2>1, <2>5 DEF Launched
  <2> QED
    BY <2>4, <2>5 DEF Launch
<1> QED
  BY <1>0, <1>1, <1>3, <1>4, <1>5 DEF TraceInv, Progress

LEMMA NextProgress ==
    ASSUME SessionInv, AnnounceInv, TypeInv, TraceInv, command = "emit" \/ waits,
           running, ToolNext
    PROVE  TraceInv' /\ Progress
<1>0. events \in Seq(Message) /\ InOrder(events)
  BY DEF SessionInv, SessionTypes, TraceInv
<1>1. CASE command = "serve" /\ Next /\ UNCHANGED tool
  <2>0. command' = command /\ command = "serve" /\ waits
    BY <1>1 DEF tool
  <2>1. CASE Launch
    BY <2>0, <2>1, LaunchProgress
  <2>2. CASE Advance
    BY <2>0, <2>2, AdvanceProgress
  <2>3. CASE StackTrace \/ Scopes \/ Other \/ \E ref \in DOMAIN varRefs : Variables(ref)
    <3>1. /\ UNCHANGED <<trace, waits, spans, cursor, launches>> /\ Send(<<>>)
      BY <2>3 DEF StackTrace, Scopes, Other, Variables, params
    <3>2. events' = events
      BY <1>0, <3>1, SilentSend
    <3> QED
      BY <1>0, <2>0, <3>1, <3>2, QuietProgress
  <2>4. CASE Disconnect \/ InputEnds
    <3>1. /\ UNCHANGED <<trace, waits, spans, cursor, launches>> /\ running' = FALSE
          /\ (events' = events \/ events' = Append(events, Terminated))
      BY <2>4 DEF Disconnect, InputEnds, params
    <3>2. /\ Count(Append(events, Terminated)) = Count(events)
          /\ InOrder(Append(events, Terminated)) /\ Ends(Append(events, Terminated))
      BY <1>0, MessageTypes, OtherCounts DEF Terminated
    <3> QED
      BY <1>0, <2>0, <3>1, <3>2, QuietProgress
  <2> QED
    BY <1>1, <2>1, <2>2, <2>3, <2>4 DEF Next, Ended
<1>2. CASE EmitSpan
  BY <1>2, EmitProgress
<1>3. CASE Invalidated \/ EmitFails
  <2>1. UNCHANGED <<trace, waits, command, spans, cursor, launches, events>>
    BY <1>3 DEF Invalidated, EmitFails, Emitting, tool, params, Unserved
  <2> QED
    BY <1>0, <2>1, QuietProgress
<1>4. CASE EmitEnd
  <2>1. UNCHANGED <<trace, waits, command, spans, cursor, launches>> /\ running' = FALSE
    BY <1>4 DEF EmitEnd, Emitting, tool, params, Unserved
  <2> DEFINE a == Append(events, Output)
             b == Append(a, Terminated)
  <2>2. events' = events \/ events' = a \/ events' = b
    BY <1>4, EmitEndSends
  <2>3. AsFar(events, a)
    <3>1. Output \in Message /\ Output.event \notin {"stopped", "terminated"}
      BY MessageTypes DEF Output
    <3> QED
      BY <1>0, <3>1, OtherCounts
  <2> HIDE DEF a
  <2>4. Count(b) = Count(events) /\ InOrder(b) /\ Ends(b)
    <3>1. Terminated \in Message /\ Terminated.event = "terminated"
      BY MessageTypes DEF Terminated
    <3> QED
      BY <1>0, <2>3, <3>1, OtherCounts DEF AsFar
  <2>5. InOrder(events') /\ Count(events') = Count(events) /\ (Ends(events) => Ends(events'))
    BY <1>0, <2>2, <2>3, <2>4 DEF AsFar
  <2> QED
    BY <2>1, <2>5, QuietProgress
<1> QED
  BY <1>1, <1>2, <1>3, <1>4 DEF ToolNext, Ended

LEMMA InitTraceInv == ToolInit => TraceInv
<1> SUFFICES ASSUME ToolInit PROVE TraceInv
  OBVIOUS
<1>1. /\ events = <<>> /\ spans = <<>> /\ launches = <<>> /\ cursor = 0
  BY DEF ToolInit, Init
<1>2. DOMAIN <<>> = {} /\ Len(<<>>) = 0
  OBVIOUS
<1>3. Count(events) = 0 /\ ~Ends(events) /\ ~Launched
  BY <1>1, <1>2, FS_EmptySet DEF Count, Ends, Named, Launched
<1>4. InOrder(events)
  BY <1>3 DEF InOrder
<1> QED
  BY <1>1, <1>2, <1>3, <1>4 DEF TraceInv

LEMMA NextTraceInv ==
    SessionInv /\ AnnounceInv /\ TypeInv /\ TraceInv /\ [ToolNext]_<<vars, tool>> => TraceInv'
<1> SUFFICES ASSUME SessionInv, AnnounceInv, TypeInv, TraceInv, [ToolNext]_<<vars, tool>>
             PROVE  TraceInv'
  OBVIOUS
<1>1. CASE UNCHANGED <<vars, tool>>
  BY <1>1 DEF TraceInv, Launched, vars, params, tool
<1>2. CASE ToolNext /\ running /\ (command = "emit" \/ waits)
  BY <1>2, NextProgress
<1>3. CASE ToolNext /\ ~running
  BY <1>1, <1>3 DEF ToolNext, Next, Launch, Advance, StackTrace, Scopes, Variables, Disconnect,
                    InputEnds, Other, Ended, EmitSpan, Invalidated, EmitEnd, EmitFails, Emitting
<1>4. CASE ToolNext /\ running /\ ~(command = "emit" \/ waits)
  <2>1. command' = command /\ waits' = waits
    BY <1>4 DEF ToolNext, Next, Launch, Advance, StackTrace, Scopes, Variables, Disconnect,
                InputEnds, Other, Ended, EmitSpan, Invalidated, EmitEnd, EmitFails, Emitting,
                tool, params, vars
  <2> QED
    BY <1>4, <2>1 DEF TraceInv
<1> QED
  BY <1>1, <1>2, <1>3, <1>4

Inv == SessionInv /\ AnnounceInv /\ TypeInv /\ TraceInv

LEMMA InvCorrect == ToolSpec => []Inv
<1>1. SessionInv /\ AnnounceInv /\ TypeInv /\ TraceInv /\ [ToolNext]_<<vars, tool>> => TraceInv'
  BY NextTraceInv
<1>2. SessionInv /\ AnnounceInv /\ TypeInv /\ TraceInv <=> Inv
  BY DEF Inv
<1> QED
  BY <1>1, <1>2, InitTraceInv, SessionInvCorrect, AnnounceInvCorrect, TypeInvCorrect, PTL
     DEF ToolSpec

-----------------------------------------------------------------------------
(* The session a client is shown.                                          *)

LEMMA UpTo ==
    ASSUME NEW n \in Nat
    PROVE  IsFiniteSet(1 .. n) /\ Cardinality(1 .. n) = n
<1>1. 1 \in Int /\ n \in Int /\ (IF 1 > n THEN 0 ELSE n - 1 + 1) = n
  OBVIOUS
<1> QED
  BY <1>1, FS_Interval

\* The part that is everything.
LEMMA PartOfAll ==
    ASSUME NEW A, NEW s \in Seq(A)
    PROVE  PartOf(s, 1 .. Len(s)) = s
<1> DEFINE N == Len(s)
<1>1. N \in Nat /\ s = [n \in 1 .. N |-> s[n]]
  OBVIOUS
<1>2. IsFiniteSet(1 .. N) /\ Cardinality(1 .. N) = N /\ 1 .. N \in SUBSET Nat
  BY <1>1, UpTo
<1>3. ASSUME NEW n \in 1 .. N PROVE Place(1 .. N, n) = n
  <2>1. {j \in 1 .. N : j <= n} = 1 .. n
    BY <1>1
  <2>2. Cardinality(1 .. n) = n
    BY <1>1, UpTo
  <2>3. Rank(1 .. N, n) = n
    BY <2>1, <2>2 DEF Rank
  <2> HIDE DEF N
  <2> QED
    BY <1>2, <2>3, PlaceOfRank
<1>4. [n \in 1 .. N |-> s[Place(1 .. N, n)]] = [n \in 1 .. N |-> s[n]]
  BY <1>3
<1> QED
  BY <1>1, <1>2, <1>4 DEF PartOf

\* The stops are the first valid spans; a session that has ended shows all of them.
Viewed ==
    command = "emit" \/ waits =>
        /\ Recorded \in Seq(Span) /\ Count(events) \in 0 .. Len(Recorded)
        /\ Stops = [n \in 1 .. Count(events) |-> Recorded[n]]
        /\ running /\ Ends(events) => Count(events) = Len(Recorded)

LEMMA View == Inv => Viewed
<1> SUFFICES ASSUME Inv, command = "emit" \/ waits PROVE Viewed
  BY DEF Viewed
<1> DEFINE N == Cardinality(ValidLines)
           c == Count(events)
<1>0. /\ events \in Seq(Message) /\ trace \in Traces /\ spans \in Seq(Span) /\ c \in Nat
      /\ InOrder(events) /\ c <= Len(spans) /\ N \in Nat /\ command \in {"emit", "serve"}
      /\ line \in Nat /\ cursor \in Nat
  BY NamedType, ValidLinesType
     DEF Inv, SessionInv, SessionTypes, TypeInv, TraceInv, Count
<1>1. Recorded \in Seq(Span) /\ Len(Recorded) = N
  <2>1. Recorded = [n \in 1 .. N |-> trace[Place(ValidLines, n)]]
    BY DEF Recorded, PartOf
  <2>2. \A n \in 1 .. N : trace[Place(ValidLines, n)] \in Span
    BY <1>0, ValidLinesType, PlaceOfRank
  <2> HIDE DEF N
  <2> QED
    BY <1>0, <2>1, <2>2
<1>2. /\ c <= N /\ \A n \in 1 .. c : spans[n] = Recorded[n]
      /\ running /\ Ends(events) => c = N
  <2>1. CASE command = "emit"
    <3>1. /\ Cardinality(ValidBefore(line)) \in Nat /\ Cardinality(ValidBefore(line)) <= N
          /\ DOMAIN PartOf(trace, ValidBefore(line)) = 1 .. Cardinality(ValidBefore(line))
          /\ \A n \in 1 .. Cardinality(ValidBefore(line)) :
                PartOf(trace, ValidBefore(line))[n] = PartOf(trace, ValidLines)[n]
      <4> DEFINE S == ValidLines
                 T == ValidBefore(line)
      <4>1. S \in SUBSET Nat /\ IsFiniteSet(S) /\ T = {k \in S : k < line}
        BY <1>0, ValidLinesType DEF ValidBefore
      <4> HIDE DEF S, T
      <4>2. /\ Cardinality(T) \in Nat /\ Cardinality(T) <= Cardinality(S)
            /\ DOMAIN PartOf(trace, T) = 1 .. Cardinality(T)
            /\ \A n \in 1 .. Cardinality(T) : PartOf(trace, T)[n] = PartOf(trace, S)[n]
        BY <1>0, <4>1, PartBelow
      <4> QED
        BY <4>2 DEF S, T
    <3>2. spans = PartOf(trace, ValidBefore(line)) /\ (running => ~Ends(events))
      BY <2>1 DEF Inv, TypeInv, TraceInv
    <3>3. Len(spans) = Cardinality(ValidBefore(line))
      BY <1>0, <3>1, <3>2
    <3>4. \A n \in 1 .. c : n \in 1 .. Cardinality(ValidBefore(line))
      BY <1>0, <3>1, <3>3
    <3> QED
      BY <1>0, <3>1, <3>2, <3>3, <3>4 DEF Recorded
  <2>2. CASE command = "serve" /\ waits /\ ~Launched
    <3>1. c = 0 /\ (running => ~Ends(events))
      BY <1>0, <2>2 DEF Inv, TraceInv
    <3> QED
      BY <1>0, <3>1
  <2>3. CASE command = "serve" /\ waits /\ Launched
    <3>1. spans = trace
      BY <2>3 DEF Inv, TraceInv
    <3>2. ValidLines = 1 .. Len(trace)
      <4>1. \A k \in 1 .. Len(trace) : trace[k] \in Span
        BY <1>0, <3>1
      <4> QED
        BY <1>0, <4>1, ValidLinesType, DapServerAssumption DEF ValidLines
    <3>3. Recorded = spans
      BY <1>0, <3>1, <3>2, PartOfAll DEF Recorded
    <3>4. running /\ Ends(events) => c = Len(spans)
      BY <1>0, <2>3 DEF Inv, TraceInv
    <3> QED
      BY <1>0, <1>1, <3>3, <3>4
  <2> QED
    BY <1>0, <2>1, <2>2, <2>3
<1>3. Stops = [n \in 1 .. c |-> Recorded[n]]
  <2> DEFINE s == PartOf(events, EventsNamed("stopped"))
  <2>1. EventsNamed("stopped") = Named(events, "stopped")
    BY DEF EventsNamed, Named
  <2>2. DOMAIN s = 1 .. c /\ \A n \in 1 .. c : s[n].span = n
    BY <1>0, <2>1 DEF InOrder, Count, PartOf
  <2>3. Stops = [n \in DOMAIN s |-> spans[s[n].span]]
    BY DEF Stops
  <2> HIDE DEF s
  <2> QED
    BY <1>2, <2>2, <2>3
<1> QED
  BY <1>0, <1>1, <1>2, <1>3 DEF Viewed

\* A step of either command is one of the session, or none.
LEMMA NextSequel ==
    Inv /\ Viewed /\ Viewed' /\ [ToolNext]_<<vars, tool>> => [Sequel]_<<vars, tool>>
<1> SUFFICES ASSUME Inv, Viewed, Viewed', ToolNext, command = "emit" \/ waits
             PROVE  Session!Next \/ UNCHANGED Session!vars
  BY DEF Sequel
<1> DEFINE c == Count(events)
           d == Count(events')
           over == IF EventsNamed("terminated") # {} /\ Len(Stops) = Len(Recorded) THEN "ended"
                   ELSE IF EventsNamed("terminated") # {} \/ ~running THEN "broken" ELSE ""
<1>1. CASE ~running
  <2>1. UNCHANGED vars /\ UNCHANGED tool
    BY <1>1 DEF ToolNext, Next, Launch, Advance, StackTrace, Scopes, Variables, Disconnect,
                InputEnds, Other, Ended, EmitSpan, Invalidated, EmitEnd, EmitFails, Emitting
  <2> QED
    BY <2>1 DEF Session!vars, Recorded, Stops, EventsNamed, ValidLines, vars, params
<1>2. CASE running
  <2>1. trace' = trace /\ command' = command /\ waits' = waits
    BY DEF ToolNext, Next, Launch, Advance, StackTrace, Scopes, Variables, Disconnect,
           InputEnds, Other, Ended, EmitSpan, Invalidated, EmitEnd, EmitFails, Emitting,
           tool, params, vars
  <2>2. Recorded' = Recorded
    BY <2>1 DEF Recorded, ValidLines
  <2>3. /\ d = c \/ d = c + 1
        /\ Ends(events) => Ends(events') /\ d = c
        /\ d = c + 1 => ~Ends(events')
    BY <1>2, NextProgress DEF Inv, Progress
  <2>4. /\ Recorded \in Seq(Span) /\ c \in 0 .. Len(Recorded) /\ d \in 0 .. Len(Recorded)
        /\ Stops = [n \in 1 .. c |-> Recorded[n]] /\ Stops' = [n \in 1 .. d |-> Recorded[n]]
        /\ Ends(events) => c = Len(Recorded)
    BY <1>2, <2>1, <2>2 DEF Viewed
  <2>5. /\ Len(Stops) = c /\ Len(Stops') = d
        /\ d = c => Stops' = Stops
        /\ d = c + 1 => Stops' = Append(Stops, Recorded[c + 1])
        /\ c = Len(Recorded) => Stops = Recorded
    <3> HIDE DEF c, d
    <3> QED
      BY <2>4
  <2>6. /\ over = IF Ends(events) THEN "ended" ELSE ""
        /\ over' = IF Ends(events') /\ d = Len(Recorded) THEN "ended"
                   ELSE IF Ends(events') \/ ~running' THEN "broken" ELSE ""
    <3>1. /\ EventsNamed("terminated") # {} <=> Ends(events)
          /\ (EventsNamed("terminated"))' # {} <=> Ends(events')
      BY DEF EventsNamed, Ends, Named
    <3> QED
      BY <1>2, <2>2, <2>4, <2>5, <3>1
  <2> HIDE DEF over, c, d
  <2>7. \/ Recorded' = Recorded /\ Stops' = Stops /\ over' = over
        \/ /\ over = "" /\ c < Len(Recorded) /\ Stops' = Append(Stops, Recorded[c + 1])
           /\ Recorded' = Recorded /\ over' \in {"", "broken"}
        \/ /\ over = "" /\ Stops = Recorded /\ over' = "ended"
           /\ Recorded' = Recorded /\ Stops' = Stops
        \/ over = "" /\ over' = "broken" /\ Recorded' = Recorded /\ Stops' = Stops
    <3>1. CASE Ends(events)
      <4>1. over = "ended" /\ over' = "ended" /\ Stops' = Stops
        BY <2>3, <2>4, <2>5, <2>6, <3>1
      <4> QED
        BY <2>2, <4>1
    <3>2. CASE ~Ends(events) /\ d = c + 1
      <4>0. c < Len(Recorded)
        <5>1. c \in Nat /\ d \in 0 .. Len(Recorded) /\ Len(Recorded) \in Nat
          BY <2>4
        <5> QED
          BY <3>2, <5>1
      <4>1. over = "" /\ over' \in {"", "broken"} /\ c < Len(Recorded)
        BY <2>3, <2>6, <3>2, <4>0
      <4> QED
        BY <2>2, <2>5, <3>2, <4>1
    <3>3. CASE ~Ends(events) /\ d = c
      <4>1. over = "" /\ over' \in {"", "broken", "ended"} /\ Stops' = Stops
            /\ (over' = "ended" => Stops = Recorded)
        BY <2>5, <2>6, <3>3
      <4> QED
        BY <2>2, <4>1
    <3> QED
      BY <2>3, <3>1, <3>2, <3>3
  <2> QED
    BY <2>5, <2>7
       DEF over, Session!vars, Session!Next, Session!Stop, Session!End, Session!Break
<1> QED
  BY <1>1, <1>2

\* What a client is shown is a session over the trace, for traces of any length and
\* any interleaving of requests, failed launches, failed writes and disconnects.
THEOREM SessionRefined == ToolSpec => SessionIsTrace
<1>1. ToolInit => (command = "emit" \/ waits => Session!Init)
  <2> SUFFICES ASSUME ToolInit, command = "emit" \/ waits PROVE Session!Init
    OBVIOUS
  <2>1. events = <<>> /\ running /\ trace \in Traces
    BY DEF ToolInit, Init
  <2>2. DOMAIN <<>> = {}
    OBVIOUS
  <2>3. \A name : EventsNamed(name) = {}
    BY <2>1, <2>2 DEF EventsNamed
  <2>4. Stops = <<>>
    <3>1. PartOf(events, {}) = <<>>
      BY FS_EmptySet DEF PartOf
    <3> QED
      BY <2>2, <2>3, <3>1 DEF Stops
  <2>5. ~(\E x \in EventsNamed("terminated") : TRUE)
    BY <2>3
  <2> QED
    BY <2>1, <2>3, <2>4, <2>5 DEF Session!Init
<1>2. Inv /\ Viewed /\ Viewed' /\ [ToolNext]_<<vars, tool>> => [Sequel]_<<vars, tool>>
  BY NextSequel
<1> QED
  BY <1>1, <1>2, InvCorrect, View, PTL DEF ToolSpec, SessionIsTrace

================================================================================
