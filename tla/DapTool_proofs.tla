---------------------------- MODULE DapTool_proofs ----------------------------
(***************************************************************************)
(* What the debug adapter shows, for traces of any length and requests in  *)
(* any order and number: what it answers is about the last stop it sent,   *)
(* and a variables reference stays with the span it was issued for.        *)
(***************************************************************************)
EXTENDS DapTool, FiniteSetTheorems, WellFoundedInduction, TLAPS

Message ==
    {Terminated, Output} \cup {Thread(t) : t \in Nat} \cup {Continued(t) : t \in Nat}
    \cup {Stopped(i, t) : i \in Nat, t \in Nat}

SessionTypes ==
    /\ trace \in Traces
    /\ spans \in Seq(Span)
    /\ cursor \in Nat
    /\ threadIDs \in Seq(Keys)
    /\ varRefs \in Seq([span : Nat, level : Nat])
    /\ {stopped, running} \subseteq BOOLEAN
    /\ command \in {"serve", "emit"}
    /\ events \in Seq(Message)

-----------------------------------------------------------------------------
(* Sending.                                                                *)

LEMMA MessageTypes ==
    /\ Terminated \in Message /\ Output \in Message
    /\ \A t \in Nat : Thread(t) \in Message /\ Continued(t) \in Message
    /\ \A i, t \in Nat : Stopped(i, t) \in Message
BY DEF Message

\* The events that were sent stay, and new ones follow.
Followed(evs) ==
    /\ events' \in Seq(Message)
    /\ Len(events') = Len(events) + Len(evs)
    /\ \A k \in DOMAIN events : k \in DOMAIN events' /\ events'[k] = events[k]
    /\ \A k \in DOMAIN evs : events'[Len(events) + k] = evs[k]

LEMMA AppendFollows ==
    ASSUME events \in Seq(Message), NEW evs \in Seq(Message), events' = events \o evs
    PROVE  Followed(evs)
<1>1. /\ Len(events) \in Nat /\ DOMAIN events = 1 .. Len(events)
      /\ Len(evs) \in Nat /\ DOMAIN evs = 1 .. Len(evs)
  OBVIOUS
<1>2. events' \in Seq(Message) /\ Len(events') = Len(events) + Len(evs)
  OBVIOUS
<1>3. DOMAIN events' = 1 .. Len(events) + Len(evs)
  BY <1>1, <1>2
<1>4. \A k \in 1 .. Len(events) : events'[k] = events[k]
  BY <1>1
<1>5. \A k \in 1 .. Len(evs) : events'[Len(events) + k] = evs[k]
  BY <1>1
<1> QED
  BY <1>1, <1>2, <1>3, <1>4, <1>5 DEF Followed

LEMMA SendFollows ==
    ASSUME events \in Seq(Message), NEW evs \in Seq(Message), Send(evs)
    PROVE  /\ \E sent \in Seq(Message) : Followed(sent)
           /\ (running' = running /\ Followed(evs)) \/ running' = FALSE
<1>1. CASE events' = events \o evs /\ UNCHANGED running
  BY <1>1, AppendFollows
<1>2. CASE \E n \in 0 .. Len(evs) :
              events' = events \o SubSeq(evs, 1, n) /\ running' = FALSE
  <2>1. PICK n \in 0 .. Len(evs) :
              events' = events \o SubSeq(evs, 1, n) /\ running' = FALSE
    BY <1>2
  <2>2. SubSeq(evs, 1, n) \in Seq(Message)
    OBVIOUS
  <2> QED
    BY <2>1, <2>2, AppendFollows
<1> QED
  BY <1>1, <1>2 DEF Send

\* The valid prefix of a trace is a sequence of spans.
LEMMA ReplayedType ==
    ASSUME trace \in Traces
    PROVE  Replayed \in Seq(Span)
<1>1. trace \in Seq(Span \cup {Invalid}) /\ Len(trace) \in Nat /\ DOMAIN trace = 1 .. Len(trace)
  <2>1. trace \in Seq(Span \cup {Invalid})
    BY DapServerAssumption
  <2> QED
    BY <2>1
<1>2. 0 \in ValidPrefix /\ ValidPrefix \subseteq 0 .. Len(trace)
  BY <1>1 DEF ValidPrefix
<1> DEFINE Rest == {Len(trace) - n : n \in ValidPrefix}
<1>3. \E n \in ValidPrefix : \A m \in ValidPrefix : m <= n
  <2>1. Rest \subseteq Nat /\ Rest # {}
    BY <1>1, <1>2
  <2>2. PICK x \in Rest : \A y \in Rest : ~(<<y, x>> \in OpToRel(<, Nat))
    <3> HIDE DEF Rest
    <3> QED
      BY <2>1, NatLessThanWellFounded, WFMin, Zenon
  <2>3. \A y \in Rest : ~(y < x)
    BY <2>1, <2>2 DEF OpToRel
  <2>4. PICK n \in ValidPrefix : x = Len(trace) - n
    OBVIOUS
  <2>5. ASSUME NEW m \in ValidPrefix PROVE m <= n
    <3>1. Len(trace) - m \in Rest
      OBVIOUS
    <3>2. ~(Len(trace) - m < Len(trace) - n)
      BY <2>3, <2>4, <3>1
    <3>3. m \in Int /\ n \in Int
      BY <1>1, <1>2
    <3> QED
      BY <1>1, <3>2, <3>3
  <2> QED
    BY <2>5
<1> DEFINE n == CHOOSE n \in ValidPrefix : \A m \in ValidPrefix : m <= n
<1>4. n \in ValidPrefix
  BY <1>3
<1>5. n \in 0 .. Len(trace) /\ \A k \in 1 .. n : trace[k] # Invalid
  BY <1>4 DEF ValidPrefix
<1> HIDE DEF n
<1>6. \A k \in 1 .. n : trace[k] \in Span
  <2>1. \A k \in 1 .. Len(trace) : trace[k] \in Span \cup {Invalid}
    BY <1>1
  <2> QED
    BY <1>1, <1>5, <2>1
<1>7. SubSeq(trace, 1, n) \in Seq(Span)
  BY <1>1, <1>5, <1>6
<1> QED
  BY <1>7 DEF n, Replayed

\* A thread id is a number, and so is the position of its key.
LEMMA ThreadIDType ==
    ASSUME threadIDs \in Seq(Keys), NEW key \in Keys
    PROVE  /\ ThreadIDFor(key) \in Nat
           /\ Append(threadIDs, key) \in Seq(Keys)
<1>1. DOMAIN threadIDs \subseteq Nat /\ Len(threadIDs) + 1 \in Nat
  OBVIOUS
<1> QED
  BY <1>1 DEF ThreadIDFor

-----------------------------------------------------------------------------
(* The invariant.                                                          *)

Moves == EventsNamed("stopped") \cup EventsNamed("terminated")

\* The client has been told that the session is at span i: the last stop was
\* there; or, if i is 0, there was no stop, or the end came after it.
Told(i) ==
    IF Moves = {} THEN i = 0
    ELSE \E k \in Moves : /\ \A j \in Moves : j <= k
                          /\ i = IF events[k].event = "stopped" THEN events[k].span ELSE 0

Present == IF stopped THEN cursor ELSE 0

CursorOfStop  == stopped => cursor \in DOMAIN spans
PresentIsTold == running /\ command = "serve" => Told(Present)
ShownIsTold   == shown # Unasked => Told(shown)
EmitIsMute    == command = "emit" => shown = Unasked /\ varRefs = <<>>
RefsHaveSpans == \A r \in DOMAIN varRefs : varRefs[r].span \in DOMAIN spans

SessionInv ==
    /\ SessionTypes
    /\ CursorOfStop
    /\ PresentIsTold
    /\ ShownIsTold
    /\ EmitIsMute
    /\ RefsHaveSpans
    /\ RefsAreOfStops

LEMMA InitSessionInv == ToolInit => SessionInv
<1> SUFFICES ASSUME ToolInit PROVE SessionInv
  OBVIOUS
<1>1. SessionTypes
  <2>1. <<>> \in Seq(Span) /\ <<>> \in Seq(Keys) /\ <<>> \in Seq(Message)
        /\ <<>> \in Seq([span : Nat, level : Nat])
    OBVIOUS
  <2> QED
    BY <2>1 DEF ToolInit, Init, SessionTypes
<1>2. Told(0)
  BY DEF ToolInit, Init, Told, Moves, EventsNamed
<1>3. Present = 0 /\ ~stopped /\ shown = Unasked /\ varRefs = <<>>
  BY DEF ToolInit, Init, Present
<1> QED
  BY <1>1, <1>2, <1>3 DEF SessionInv, CursorOfStop, PresentIsTold, ShownIsTold, EmitIsMute,
     RefsHaveSpans, RefsAreOfStops

\* When nothing is sent, or the sending of nothing fails.
LEMMA SilentSend ==
    ASSUME events \in Seq(Message), Send(<<>>)
    PROVE  events' = events /\ running' \in {running, FALSE}
<1>1. \A n \in 0 .. Len(<<>>) : SubSeq(<<>>, 1, n) = <<>>
  OBVIOUS
<1>2. events \o <<>> = events
  OBVIOUS
<1> QED
  BY <1>1, <1>2 DEF Send

\* The last of the messages sent is the last move, if it is one.
LEMMA LastIsMove ==
    ASSUME events \in Seq(Message), NEW evs \in Seq(Message), evs # <<>>, Followed(evs),
           evs[Len(evs)].event \in {"stopped", "terminated"}
    PROVE  \E k \in Moves' : /\ \A j \in Moves' : j <= k
                             /\ events'[k] = evs[Len(evs)]
<1> DEFINE k == Len(events) + Len(evs)
<1>1. /\ Len(events) \in Nat /\ Len(evs) \in Nat \ {0}
      /\ DOMAIN evs = 1 .. Len(evs)
      /\ events' \in Seq(Message) /\ Len(events') = k
  BY DEF Followed
<1>2. events'[k] = evs[Len(evs)] /\ DOMAIN events' = 1 .. k /\ k \in DOMAIN events'
  BY <1>1 DEF Followed
<1>3. k \in Moves' /\ \A j \in Moves' : j <= k
  BY <1>1, <1>2 DEF Moves, EventsNamed
<1> QED
  BY <1>2, <1>3

\* References go on to stand for what they did, as events and spans are added.
LEMMA RefsStay ==
    ASSUME SessionInv, varRefs' = varRefs,
           \A k \in DOMAIN events : k \in DOMAIN events' /\ events'[k] = events[k],
           \A n \in DOMAIN spans : n \in DOMAIN spans' /\ spans'[n] = spans[n]
    PROVE  RefsHaveSpans' /\ RefsAreOfStops'
<1>1. RefsHaveSpans'
  BY DEF SessionInv, RefsHaveSpans
<1>2. \A k \in EventsNamed("stopped") : k \in EventsNamed("stopped")' /\ events'[k] = events[k]
  BY DEF EventsNamed
<1>3. RefsAreOfStops'
  BY <1>2 DEF SessionInv, RefsHaveSpans, RefsAreOfStops
<1> QED
  BY <1>1, <1>3

-----------------------------------------------------------------------------
(* Each request keeps it.                                                  *)

\* A request that sends nothing and moves nothing.
LEMMA StillSession ==
    ASSUME SessionInv, UNCHANGED <<params, spans, cursor, threadIDs, stopped, command>>,
           events' = events, running' \in {running, FALSE}
    PROVE  /\ CursorOfStop' /\ PresentIsTold'
           /\ varRefs' = varRefs => SessionTypes' /\ RefsHaveSpans' /\ RefsAreOfStops'
           /\ shown' = shown => ShownIsTold'
           /\ running /\ command = "serve" /\ shown' = Present => ShownIsTold'
<1> USE DEF params
<1>1. /\ Told(Present)' <=> Told(Present)
      /\ shown' = shown => (Told(shown)' <=> Told(shown))
      /\ shown' = Present => (Told(shown)' <=> Told(Present))
  BY DEF Told, Moves, EventsNamed, Present
<1>2. (running' => running) /\ running' \in BOOLEAN
  <2>1. running \in BOOLEAN
    BY DEF SessionInv, SessionTypes
  <2>2. CASE running' = running
    BY <2>1, <2>2
  <2>3. CASE running' = FALSE
    BY <2>3
  <2> QED
    BY <2>2, <2>3
<1>3. CursorOfStop'
  BY DEF SessionInv, CursorOfStop
<1>4. PresentIsTold'
  BY <1>1, <1>2 DEF SessionInv, PresentIsTold
<1>5. varRefs' = varRefs => SessionTypes'
  BY <1>2 DEF SessionInv, SessionTypes
<1>6. varRefs' = varRefs => RefsHaveSpans' /\ RefsAreOfStops'
  BY RefsStay
<1>7. shown' = shown => ShownIsTold'
  BY <1>1 DEF SessionInv, ShownIsTold
<1>8. running /\ command = "serve" /\ shown' = Present => ShownIsTold'
  BY <1>1 DEF SessionInv, PresentIsTold, ShownIsTold
<1> QED
  BY <1>3, <1>4, <1>5, <1>6, <1>7, <1>8

LEMMA CurrentIsPresent == ASSUME SessionInv PROVE CurrentSpan = Present
BY DEF SessionInv, SessionTypes, CursorOfStop, CurrentSpan, Present

LEMMA StillRequests ==
    ASSUME SessionInv, command' = command,
           (command = "serve" /\ (StackTrace \/ Other \/ InputEnds)) \/ UNCHANGED vars
    PROVE  SessionInv'
<1> USE DEF vars, params
<1>0. events \in Seq(Message) /\ running \in BOOLEAN
  BY DEF SessionInv, SessionTypes
<1>1. /\ UNCHANGED <<params, spans, cursor, threadIDs, stopped, command, varRefs>>
      /\ events' = events /\ running' \in {running, FALSE}
  BY <1>0, SilentSend DEF StackTrace, Other, InputEnds
<1>2. shown' = shown \/ (running /\ command = "serve" /\ shown' = Present)
  BY CurrentIsPresent DEF StackTrace, Other, InputEnds
<1>3. EmitIsMute'
  BY <1>1, <1>2 DEF SessionInv, EmitIsMute
<1> QED
  BY <1>1, <1>2, <1>3, StillSession DEF SessionInv

\* What appending to a sequence adds, and what it leaves alone.
LEMMA AppendedElement ==
    ASSUME NEW R, NEW s \in Seq(R), NEW x \in R
    PROVE  /\ Append(s, x) \in Seq(R)
           /\ DOMAIN Append(s, x) = DOMAIN s \cup {Len(s) + 1}
           /\ Append(s, x)[Len(s) + 1] = x
           /\ \A r \in DOMAIN s : Append(s, x)[r] = s[r]
<1>1. /\ Append(s, x) \in Seq(R)
      /\ Len(Append(s, x)) = Len(s) + 1 /\ Len(s) \in Nat
  OBVIOUS
<1>2. /\ DOMAIN s = 1..Len(s)
      /\ DOMAIN Append(s, x) = 1..Len(Append(s, x))
  BY <1>1
<1>3. Append(s, x)[Len(s) + 1] = x
  OBVIOUS
<1>4. \A r \in 1..Len(s) : Append(s, x)[r] = s[r]
  OBVIOUS
<1> QED
  BY <1>1, <1>2, <1>3, <1>4

\* A scopes answer hands out a reference to the span of the stop.
LEMMA ScopesSession ==
    ASSUME SessionInv, command = "serve", command' = command, Scopes
    PROVE  SessionInv'
<1> USE DEF params
<1>0. /\ SessionTypes /\ events \in Seq(Message) /\ running
      /\ varRefs \in Seq([span : Nat, level : Nat])
      /\ spans \in Seq(Span)
  BY DEF SessionInv, SessionTypes, Scopes
<1>1. /\ UNCHANGED <<params, spans, cursor, threadIDs, stopped, command>>
      /\ events' = events /\ running' \in {running, FALSE} /\ shown' = Present
  BY <1>0, SilentSend, CurrentIsPresent DEF Scopes
<1>2. CASE Present = 0
  <2>1. varRefs' = varRefs
    BY <1>2, CurrentIsPresent DEF Scopes
  <2> QED
    BY <1>0, <1>1, <2>1, StillSession DEF SessionInv, EmitIsMute
<1>3. CASE Present # 0
  <2> DEFINE ref == [span |-> cursor, level |-> 0]
  <2>1. stopped /\ Present = cursor /\ cursor \in DOMAIN spans /\ cursor \in Nat
    BY <1>0, <1>3 DEF Present, SessionInv, CursorOfStop, SessionTypes
  <2>2. varRefs' = Append(varRefs, ref)
    BY <1>3, <2>1, CurrentIsPresent DEF Scopes
  <2>3. ref \in [span : Nat, level : Nat] /\ ref.span = cursor /\ ref.level = 0
    BY <2>1
  <2>4. /\ varRefs' \in Seq([span : Nat, level : Nat])
        /\ DOMAIN varRefs' = DOMAIN varRefs \cup {Len(varRefs) + 1}
        /\ varRefs'[Len(varRefs) + 1] = ref
        /\ \A r \in DOMAIN varRefs : varRefs'[r] = varRefs[r]
    <3> HIDE DEF ref
    <3> DEFINE R == [span : Nat, level : Nat]
    <3>1. ref \in R /\ varRefs \in Seq(R)
      BY <1>0, <2>3
    <3> HIDE DEF R
    <3>2. /\ varRefs' \in Seq(R)
          /\ DOMAIN varRefs' = DOMAIN varRefs \cup {Len(varRefs) + 1}
          /\ varRefs'[Len(varRefs) + 1] = ref
          /\ \A r \in DOMAIN varRefs : varRefs'[r] = varRefs[r]
      BY <2>2, <3>1, AppendedElement
    <3> QED
      BY <3>2 DEF R
  <2>5. \E k \in EventsNamed("stopped") : events[k].span = cursor
    BY <1>0, <1>3, <2>1 DEF SessionInv, PresentIsTold, Told, Moves, EventsNamed, Message,
       Terminated
  <2>6. spans[cursor].depth \in Nat
    <3>1. spans[cursor] \in Span
      BY <1>0, <2>1
    <3> QED
      BY <3>1 DEF Span
  <2>7. RefsHaveSpans'
    BY <1>1, <2>1, <2>3, <2>4 DEF SessionInv, RefsHaveSpans
  <2>8. RefsAreOfStops'
    <3> SUFFICES ASSUME NEW r \in DOMAIN varRefs'
                 PROVE  /\ \E k \in EventsNamed("stopped") : events[k].span = varRefs'[r].span
                        /\ varRefs'[r].level <= spans[varRefs'[r].span].depth
                        /\ varRefs'[r].level > 0 =>
                              \E q \in 1..r-1 : varRefs'[q] = [varRefs'[r] EXCEPT !.level = @ - 1]
      BY <1>1 DEF RefsAreOfStops, EventsNamed
    <3>1. CASE r = Len(varRefs) + 1
      <4>1. varRefs'[r].span = cursor /\ varRefs'[r].level = 0
        BY <2>3, <2>4, <3>1
      <4> QED
        BY <2>5, <2>6, <4>1
    <3>2. CASE r \in DOMAIN varRefs
      <4>1. varRefs'[r] = varRefs[r] /\ \A q \in 1..r-1 : varRefs'[q] = varRefs[q]
        BY <1>0, <2>4, <3>2
      <4> QED
        BY <3>2, <4>1 DEF SessionInv, RefsAreOfStops
    <3> QED
      BY <2>4, <3>1, <3>2
  <2>9. SessionTypes'
    BY <1>0, <1>1, <2>4 DEF SessionTypes
  <2> QED
    BY <1>0, <1>1, <2>7, <2>8, <2>9, StillSession DEF SessionInv, EmitIsMute
<1> QED
  BY <1>2, <1>3

\* Listing a map hands out a reference to the map nested in it.
LEMMA VariablesSession ==
    ASSUME SessionInv, command = "serve", command' = command,
           NEW ref \in DOMAIN varRefs, Variables(ref)
    PROVE  SessionInv'
<1> USE DEF params
<1>0. /\ SessionTypes /\ events \in Seq(Message)
      /\ varRefs \in Seq([span : Nat, level : Nat])
      /\ spans \in Seq(Span)
  BY DEF SessionInv, SessionTypes
<1>1. /\ UNCHANGED <<params, spans, cursor, threadIDs, stopped, command, shown>>
      /\ events' = events /\ running' \in {running, FALSE}
  BY <1>0, SilentSend DEF Variables
<1> DEFINE v == varRefs[ref]
           new == Nested(v)
<1>2. CASE ~(v.level < spans[v.span].depth)
  <2>1. varRefs' = varRefs
    BY <1>2 DEF Variables
  <2> QED
    BY <1>0, <1>1, <2>1, StillSession DEF SessionInv, EmitIsMute
<1>3. CASE v.level < spans[v.span].depth
  <2>1. varRefs' = Append(varRefs, new)
    BY <1>3 DEF Variables
  <2>2. v \in [span : Nat, level : Nat]
    <3>1. \A R : \A s \in Seq(R) : \A r \in DOMAIN s : s[r] \in R
      OBVIOUS
    <3> QED
      BY <1>0, <3>1, Zenon
  <2>3. /\ new \in [span : Nat, level : Nat]
        /\ new.span = v.span /\ new.level = v.level + 1
        /\ v = [new EXCEPT !.level = @ - 1]
    BY <2>2 DEF Nested
  <2> HIDE DEF new, v
  <2>4. /\ varRefs' \in Seq([span : Nat, level : Nat])
        /\ DOMAIN varRefs' = DOMAIN varRefs \cup {Len(varRefs) + 1}
        /\ varRefs'[Len(varRefs) + 1] = new
        /\ \A r \in DOMAIN varRefs : varRefs'[r] = varRefs[r]
    <3> DEFINE R == [span : Nat, level : Nat]
    <3>1. new \in R /\ varRefs \in Seq(R)
      BY <1>0, <2>3
    <3> HIDE DEF R
    <3>2. /\ varRefs' \in Seq(R)
          /\ DOMAIN varRefs' = DOMAIN varRefs \cup {Len(varRefs) + 1}
          /\ varRefs'[Len(varRefs) + 1] = new
          /\ \A r \in DOMAIN varRefs : varRefs'[r] = varRefs[r]
      BY <2>1, <3>1, AppendedElement
    <3> QED
      BY <3>2 DEF R
  <2>5. /\ v.span \in DOMAIN spans
        /\ \E k \in EventsNamed("stopped") : events[k].span = v.span
    BY DEF v, SessionInv, RefsHaveSpans, RefsAreOfStops
  <2>6. new.level <= spans[v.span].depth /\ v.level \in Nat
    <3>1. spans[v.span] \in Span
      BY <1>0, <2>5
    <3>2. spans[v.span].depth \in Nat /\ v.level \in Nat
      BY <2>2, <3>1 DEF Span
    <3> QED
      BY <1>3, <2>3, <3>2
  <2>7. RefsHaveSpans'
    BY <1>1, <2>3, <2>4, <2>5 DEF SessionInv, RefsHaveSpans
  <2>8. RefsAreOfStops'
    <3> SUFFICES ASSUME NEW r \in DOMAIN varRefs'
                 PROVE  /\ \E k \in EventsNamed("stopped") : events[k].span = varRefs'[r].span
                        /\ varRefs'[r].level <= spans[varRefs'[r].span].depth
                        /\ varRefs'[r].level > 0 =>
                              \E q \in 1..r-1 : varRefs'[q] = [varRefs'[r] EXCEPT !.level = @ - 1]
      BY <1>1 DEF RefsAreOfStops, EventsNamed
    <3>1. CASE r = Len(varRefs) + 1
      <4>1. varRefs'[r] = new
        BY <2>4, <3>1
      <4>2. ref \in 1..r-1 /\ varRefs'[ref] = v
        BY <1>0, <2>4, <3>1 DEF v
      <4> QED
        BY <2>3, <2>5, <2>6, <4>1, <4>2
    <3>2. CASE r \in DOMAIN varRefs
      <4>1. varRefs'[r] = varRefs[r] /\ \A q \in 1..r-1 : varRefs'[q] = varRefs[q]
        BY <1>0, <2>4, <3>2
      <4> QED
        BY <3>2, <4>1 DEF SessionInv, RefsAreOfStops
    <3> QED
      BY <2>4, <3>1, <3>2
  <2>9. SessionTypes'
    BY <1>0, <1>1, <2>4, StillSession DEF SessionTypes
  <2> QED
    BY <1>0, <1>1, <2>7, <2>8, <2>9, StillSession DEF SessionInv, EmitIsMute
<1> QED
  BY <1>2, <1>3

\* A launch appends the spans it read, and forgets what was shown.
LEMMA LaunchSession ==
    ASSUME SessionInv, command = "serve", command' = command, Launch
    PROVE  SessionInv'
<1> USE DEF params
<1>0. SessionTypes /\ events \in Seq(Message) /\ spans \in Seq(Span) /\ trace \in Traces
  BY DEF SessionInv, SessionTypes
<1>1. /\ UNCHANGED <<params, cursor, threadIDs, stopped, command, varRefs>>
      /\ events' = events /\ running' \in {running, FALSE} /\ shown' = Unasked
      /\ spans' = spans \/ spans' = spans \o Replayed
  BY <1>0, SilentSend DEF Launch, Loaded
<1>2. /\ spans' \in Seq(Span)
      /\ \A n \in DOMAIN spans : n \in DOMAIN spans' /\ spans'[n] = spans[n]
  <2>1. CASE spans' = spans
    BY <1>0, <2>1
  <2>2. CASE spans' = spans \o Replayed
    <3>1. Replayed \in Seq(Span)
      BY <1>0, ReplayedType
    <3> HIDE DEF Replayed
    <3> QED
      BY <1>0, <2>2, <3>1
  <2> QED
    BY <1>1, <2>1, <2>2
<1>3. RefsHaveSpans' /\ RefsAreOfStops'
  BY <1>1, <1>2, RefsStay
<1>4. (running' => running) /\ running' \in BOOLEAN
  <2>1. running \in BOOLEAN
    BY <1>0 DEF SessionTypes
  <2>2. CASE running' = running
    BY <2>1, <2>2
  <2>3. CASE running' = FALSE
    BY <2>3
  <2> QED
    BY <1>1, <2>2, <2>3
<1>5. Told(Present)' <=> Told(Present)
  BY <1>1 DEF Told, Moves, EventsNamed, Present
<1>6. PresentIsTold' /\ CursorOfStop'
  BY <1>1, <1>2, <1>4, <1>5 DEF SessionInv, PresentIsTold, CursorOfStop
<1>7. SessionTypes'
  BY <1>0, <1>1, <1>2, <1>4 DEF SessionTypes
<1> QED
  BY <1>1, <1>3, <1>6, <1>7 DEF SessionInv, ShownIsTold, EmitIsMute

\* What has been sent stays, and what is shown is forgotten.
LEMMA SentSession ==
    ASSUME SessionInv, NEW evs \in Seq(Message), Followed(evs), varRefs' = varRefs,
           \A n \in DOMAIN spans : n \in DOMAIN spans' /\ spans'[n] = spans[n]
    PROVE  RefsHaveSpans' /\ RefsAreOfStops' /\ events' \in Seq(Message)
BY RefsStay DEF Followed

\* advanceAndStop: the last message of a burst that was sent tells the position.
LEMMA AdvanceSession ==
    ASSUME SessionInv, command = "serve", command' = command, Advance
    PROVE  SessionInv'
<1> USE DEF params
<1>0. /\ SessionTypes /\ events \in Seq(Message) /\ spans \in Seq(Span) /\ cursor \in Nat
      /\ threadIDs \in Seq(Keys) /\ running \in BOOLEAN
  BY DEF SessionInv, SessionTypes
<1>1. /\ UNCHANGED <<params, spans, command, varRefs>> /\ shown' = Unasked
      /\ cursor' = cursor + 1 /\ cursor' \in Nat /\ running
  BY <1>0 DEF Advance, Advanced
<1>2. CASE cursor' > Len(spans)
  <2>1. stopped' = FALSE /\ Send(<<Terminated>>) /\ UNCHANGED threadIDs
    BY <1>2 DEF Advance
  <2>2. <<Terminated>> \in Seq(Message)
    BY MessageTypes
  <2>3. /\ \E sent \in Seq(Message) : Followed(sent)
        /\ (running' = running /\ Followed(<<Terminated>>)) \/ running' = FALSE
    BY <1>0, <2>1, <2>2, SendFollows
  <2>4. RefsHaveSpans' /\ RefsAreOfStops' /\ events' \in Seq(Message)
    BY <1>1, <2>3, SentSession
  <2>5. ASSUME Followed(<<Terminated>>) PROVE Told(Present)'
    <3>1. \E k \in Moves' : /\ \A j \in Moves' : j <= k
                            /\ events'[k] = Terminated
      <4>1. <<Terminated>> # <<>> /\ <<Terminated>>[Len(<<Terminated>>)] = Terminated
        OBVIOUS
      <4>2. Terminated.event = "terminated"
        BY DEF Terminated
      <4> HIDE DEF Terminated
      <4> QED
        BY <1>0, <2>2, <2>5, <4>1, <4>2, LastIsMove
    <3> QED
      BY <2>1, <3>1 DEF Told, Present, Terminated
  <2>6. PresentIsTold' /\ CursorOfStop'
    BY <2>1, <2>3, <2>5 DEF PresentIsTold, CursorOfStop
  <2>7. running' \in BOOLEAN
    BY <1>0, <2>3
  <2>8. SessionTypes'
    BY <1>0, <1>1, <2>1, <2>4, <2>7 DEF SessionTypes
  <2> QED
    BY <1>1, <2>4, <2>6, <2>8 DEF SessionInv, ShownIsTold, EmitIsMute
<1>3. CASE ~(cursor' > Len(spans))
  <2> DEFINE key == spans[cursor'].key
             tid == ThreadIDFor(key)
             news == IF tid > Len(threadIDs) THEN <<Thread(tid)>> ELSE <<>>
             stop == Stopped(cursor', tid)
  <2>1. /\ threadIDs' = threadIDs \/ threadIDs' = Append(threadIDs, key)
        /\ stopped' = TRUE /\ Send(news \o <<stop>>)
    BY <1>3 DEF Advance
  <2>2. cursor' \in DOMAIN spans /\ key \in Keys
    <3>1. cursor' \in DOMAIN spans
      BY <1>0, <1>1, <1>3
    <3>2. spans[cursor'] \in Span
      BY <1>0, <3>1
    <3> QED
      BY <3>1, <3>2 DEF Span
  <2>3. tid \in Nat /\ threadIDs' \in Seq(Keys)
    BY <1>0, <2>1, <2>2, ThreadIDType
  <2>4. stop \in Message /\ news \in Seq(Message)
    BY <1>1, <2>3, MessageTypes
  <2>5. stop.event = "stopped" /\ stop.span = cursor'
    BY DEF Stopped
  <2> HIDE DEF stop, news
  <2>6. LET evs == news \o <<stop>>
        IN  evs \in Seq(Message) /\ evs # <<>> /\ evs[Len(evs)] = stop
    BY <2>4
  <2>7. /\ \E sent \in Seq(Message) : Followed(sent)
        /\ (running' = running /\ Followed(news \o <<stop>>)) \/ running' = FALSE
    BY <1>0, <2>1, <2>6, SendFollows
  <2>8. RefsHaveSpans' /\ RefsAreOfStops' /\ events' \in Seq(Message)
    BY <1>1, <2>7, SentSession
  <2>9. ASSUME Followed(news \o <<stop>>) PROVE Told(Present)'
    <3>1. \E k \in Moves' : /\ \A j \in Moves' : j <= k
                            /\ events'[k] = stop
      BY <1>0, <2>5, <2>6, <2>9, LastIsMove
    <3> QED
      BY <2>1, <2>5, <3>1 DEF Told, Present
  <2>10. PresentIsTold' /\ CursorOfStop'
    BY <1>1, <2>2, <2>7, <2>9 DEF PresentIsTold, CursorOfStop
  <2>11. running' \in BOOLEAN
    BY <1>0, <2>7
  <2>12. SessionTypes'
    BY <1>0, <1>1, <2>1, <2>3, <2>8, <2>11 DEF SessionTypes
  <2> QED
    BY <1>1, <2>8, <2>10, <2>12 DEF SessionInv, ShownIsTold, EmitIsMute
<1> QED
  BY <1>2, <1>3

\* The server ends, with or without a last message.
LEMMA DisconnectSession ==
    ASSUME SessionInv, command = "serve", command' = command, Disconnect
    PROVE  SessionInv'
<1> USE DEF params
<1>0. SessionTypes /\ events \in Seq(Message)
  BY DEF SessionInv, SessionTypes
<1>1. /\ UNCHANGED <<params, spans, cursor, threadIDs, stopped, command, varRefs>>
      /\ running' = FALSE /\ shown' = Unasked
      /\ events' = events \o <<>> \/ events' = events \o <<Terminated>>
  <2>1. events \o <<>> = events /\ Append(events, Terminated) = events \o <<Terminated>>
    BY <1>0, MessageTypes
  <2> QED
    BY <2>1 DEF Disconnect
<1>2. <<>> \in Seq(Message) /\ <<Terminated>> \in Seq(Message)
  BY MessageTypes
<1>3. \E evs \in Seq(Message) : Followed(evs)
  BY <1>0, <1>1, <1>2, AppendFollows
<1>4. RefsHaveSpans' /\ RefsAreOfStops' /\ events' \in Seq(Message)
  BY <1>1, <1>3, SentSession
<1>5. SessionTypes' /\ CursorOfStop' /\ PresentIsTold'
  BY <1>0, <1>1, <1>4 DEF SessionInv, SessionTypes, CursorOfStop, PresentIsTold
<1> QED
  BY <1>1, <1>4, <1>5 DEF SessionInv, ShownIsTold, EmitIsMute

-----------------------------------------------------------------------------
(* emit keeps it, too, as it shows nothing and issues no references.       *)

LEMMA EmitSession ==
    ASSUME SessionInv, EmitSpan \/ Invalidated \/ EmitEnd \/ EmitFails
    PROVE  SessionInv'
<1> USE DEF params, Unserved, tool
<1>0. /\ SessionTypes /\ events \in Seq(Message) /\ spans \in Seq(Span)
      /\ threadIDs \in Seq(Keys) /\ trace \in Traces /\ running \in BOOLEAN
  BY DEF SessionInv, SessionTypes
<1>1. /\ command = "emit" /\ running
      /\ UNCHANGED <<trace, cursor, varRefs, stopped, shown, command>>
  BY DEF EmitSpan, Invalidated, EmitEnd, EmitFails, Emitting
<1>2. ASSUME spans' \in Seq(Span), threadIDs' \in Seq(Keys), running' \in BOOLEAN,
             \A n \in DOMAIN spans : n \in DOMAIN spans' /\ spans'[n] = spans[n],
             \E evs \in Seq(Message) : Followed(evs)
      PROVE  SessionInv'
  <2>1. RefsHaveSpans' /\ RefsAreOfStops' /\ events' \in Seq(Message)
    BY <1>1, <1>2, SentSession
  <2>2. SessionTypes'
    BY <1>0, <1>1, <1>2, <2>1 DEF SessionTypes
  <2>3. CursorOfStop' /\ PresentIsTold' /\ ShownIsTold' /\ EmitIsMute'
    BY <1>1, <1>2 DEF SessionInv, CursorOfStop, PresentIsTold, ShownIsTold, EmitIsMute
  <2> QED
    BY <2>1, <2>2, <2>3 DEF SessionInv
<1>3. Followed(<<>>) \/ events' # events
  <2>1. events \o <<>> = events /\ <<>> \in Seq(Message)
    BY <1>0
  <2> QED
    BY <1>0, <2>1, AppendFollows
<1>4. CASE EmitSpan
  <2> DEFINE key == trace[line].key
             tid == ThreadIDFor(key)
             news == IF tid > Len(threadIDs) THEN <<Thread(tid)>> ELSE <<>>
             burst == <<Output, Stopped(SpanNumber, tid), Continued(tid)>>
  <2>1. /\ threadIDs' = threadIDs \/ threadIDs' = Append(threadIDs, key)
        /\ Send(news \o burst) /\ spans' = Append(spans, trace[line])
        /\ line \in DOMAIN trace /\ trace[line] # Invalid
    BY <1>4 DEF EmitSpan
  <2>2. trace[line] \in Span /\ key \in Keys
    <3>1. trace \in Seq(Span \cup {Invalid})
      BY <1>0, DapServerAssumption
    <3>2. trace[line] \in Span
      BY <2>1, <3>1
    <3> QED
      BY <3>2 DEF Span
  <2>3. tid \in Nat /\ threadIDs' \in Seq(Keys)
    BY <1>0, <2>1, <2>2, ThreadIDType
  <2>4. SpanNumber \in Nat
    BY <1>0 DEF SpanNumber
  <2>5. news \in Seq(Message) /\ burst \in Seq(Message)
    BY <2>3, <2>4, MessageTypes
  <2> HIDE DEF news, burst
  <2>6. news \o burst \in Seq(Message)
    BY <2>5
  <2>7. /\ \E sent \in Seq(Message) : Followed(sent)
        /\ running' \in BOOLEAN
    <3>1. running' = running \/ running' = FALSE
      BY <1>0, <2>1, <2>6, SendFollows
    <3> QED
      BY <1>0, <2>1, <2>6, <3>1, SendFollows
  <2>8. /\ spans' \in Seq(Span)
        /\ \A n \in DOMAIN spans : n \in DOMAIN spans' /\ spans'[n] = spans[n]
    BY <1>0, <2>1, <2>2
  <2> QED
    BY <1>2, <2>3, <2>7, <2>8
<1>5. CASE Invalidated \/ EmitFails
  <2>1. UNCHANGED <<spans, threadIDs, events>> /\ (running' = running \/ running' = FALSE)
    BY <1>5 DEF Invalidated, EmitFails
  <2>2. <<>> \in Seq(Message)
    OBVIOUS
  <2>3. running' \in BOOLEAN
    <3>1. CASE running' = running
      BY <1>0, <3>1
    <3>2. CASE running' = FALSE
      BY <3>2
    <3> QED
      BY <2>1, <3>1, <3>2
  <2> QED
    BY <1>0, <1>2, <1>3, <2>1, <2>2, <2>3
<1>6. CASE EmitEnd
  <2>1. UNCHANGED <<spans, threadIDs>> /\ running' = FALSE
    BY <1>6 DEF EmitEnd
  <2>2. PICK n \in 0..2 : events' = events \o SubSeq(<<Output, Terminated>>, 1, n)
    BY <1>6 DEF EmitEnd
  <2>3. SubSeq(<<Output, Terminated>>, 1, n) \in Seq(Message)
    <3>1. <<Output, Terminated>> \in Seq(Message)
      BY MessageTypes
    <3>2. Len(<<Output, Terminated>>) = 2
      OBVIOUS
    <3> QED
      BY <3>1, <3>2
  <2>4. \E evs \in Seq(Message) : Followed(evs)
    BY <1>0, <2>2, <2>3, AppendFollows
  <2> QED
    BY <1>0, <1>2, <2>1, <2>4
<1> QED
  BY <1>4, <1>5, <1>6

-----------------------------------------------------------------------------

LEMMA NextSessionInv == SessionInv /\ [ToolNext]_<<vars, tool>> => SessionInv'
<1> SUFFICES ASSUME SessionInv, [ToolNext]_<<vars, tool>> PROVE SessionInv'
  OBVIOUS
<1>1. CASE command = "serve" /\ Next /\ UNCHANGED tool
  <2>1. command' = command
    BY <1>1 DEF tool
  <2> QED
    BY <1>1, <2>1, LaunchSession, AdvanceSession, StillRequests, ScopesSession,
       VariablesSession, DisconnectSession DEF Next, Ended
<1>2. CASE EmitSpan \/ Invalidated \/ EmitEnd \/ EmitFails
  BY <1>2, EmitSession
<1>3. CASE UNCHANGED vars /\ UNCHANGED tool
  BY <1>3, StillRequests DEF tool
<1> QED
  BY <1>1, <1>2, <1>3 DEF ToolNext, Ended

LEMMA SessionInvCorrect == ToolSpec => []SessionInv
BY InitSessionInv, NextSessionInv, PTL DEF ToolSpec

\* A variables reference stands, from when it is issued, for a span the session has
\* stopped on, or for what is nested in what an earlier reference stands for.
THEOREM ReferencesStay == ToolSpec => []RefsAreOfStops
<1>1. SessionInv => RefsAreOfStops
  BY DEF SessionInv
<1> QED
  BY <1>1, SessionInvCorrect, PTL

\* stackTrace and scopes show the span of the last stop the client was sent, and
\* nothing before the first and after the end, whenever they are asked.
THEOREM AnswersShowLastStop == ToolSpec => []ShowsLastStop
<1>1. SessionInv => ShowsLastStop
  <2> SUFFICES ASSUME SessionInv, shown # Unasked PROVE ShowsLastStop
    BY DEF ShowsLastStop
  <2>1. Told(shown)
    BY DEF SessionInv, ShownIsTold
  <2>2. Moves \subseteq Nat
    <3>1. events \in Seq(Message)
      BY DEF SessionInv, SessionTypes
    <3>2. DOMAIN events \subseteq Nat
      BY <3>1
    <3> QED
      BY <3>2 DEF Moves, EventsNamed
  <2>3. CASE Moves = {}
    BY <2>1, <2>3 DEF Told, Moves, ShowsLastStop
  <2>4. CASE Moves # {}
    <3>1. PICK k \in Moves :
              /\ \A j \in Moves : j <= k
              /\ shown = IF events[k].event = "stopped" THEN events[k].span ELSE 0
      BY <2>1, <2>4 DEF Told
    <3> DEFINE last == CHOOSE m \in Moves : \A j \in Moves : j <= m
    <3>2. last = k
      <4>1. last \in Moves /\ \A j \in Moves : j <= last
        BY <3>1
      <4>2. last <= k /\ k <= last
        BY <3>1, <4>1
      <4> HIDE DEF last
      <4> QED
        BY <2>2, <3>1, <4>1, <4>2
    <3> QED
      BY <2>4, <3>1, <3>2 DEF Moves, ShowsLastStop
  <2> QED
    BY <2>3, <2>4
<1> QED
  BY <1>1, SessionInvCorrect, PTL

-----------------------------------------------------------------------------
(* Events, one after the other.                                            *)

Named(es, name) == {k \in DOMAIN es : es[k].event = name}

LEMMA NamedType ==
    ASSUME NEW es \in Seq(Message), NEW name
    PROVE  /\ Named(es, name) \in SUBSET Nat /\ IsFiniteSet(Named(es, name))
           /\ Cardinality(Named(es, name)) \in Nat
           /\ \A k \in Named(es, name) : k <= Len(es)
<1>1. Len(es) \in Nat /\ DOMAIN es = 1 .. Len(es)
  OBVIOUS
<1>2. Named(es, name) \in SUBSET (1 .. Len(es))
  BY <1>1 DEF Named
<1>3. IsFiniteSet(1 .. Len(es))
  BY <1>1, FS_Interval
<1>4. IsFiniteSet(Named(es, name)) /\ Cardinality(Named(es, name)) \in Nat
  BY <1>2, <1>3, FS_Subset, FS_CardinalityType
<1> QED
  BY <1>1, <1>2, <1>4

LEMMA AppendedEvent ==
    ASSUME NEW es \in Seq(Message), NEW e \in Message
    PROVE  /\ Append(es, e) \in Seq(Message)
           /\ Len(es) \in Nat
           /\ Len(Append(es, e)) = Len(es) + 1
           /\ DOMAIN es = 1 .. Len(es)
           /\ DOMAIN Append(es, e) = 1 .. Len(es) + 1
           /\ \A k \in DOMAIN es : k \in Nat /\ k < Len(es) + 1 /\ Append(es, e)[k] = es[k]
           /\ Append(es, e)[Len(es) + 1] = e
OBVIOUS

LEMMA NamedAppended ==
    ASSUME NEW es \in Seq(Message), NEW e \in Message, NEW name
    PROVE  Named(Append(es, e), name) =
              IF e.event = name THEN Named(es, name) \cup {Len(es) + 1} ELSE Named(es, name)
<1> DEFINE a == Append(es, e)
<1>1. /\ DOMAIN a = DOMAIN es \cup {Len(es) + 1} /\ Len(es) + 1 \notin DOMAIN es
      /\ \A k \in DOMAIN es : a[k] = es[k]
      /\ a[Len(es) + 1] = e
  BY AppendedEvent
<1> HIDE DEF a
<1> QED
  BY <1>1 DEF Named, a

\* What is sent of a burst, message by message.
Sent(es, burst, k) == es \o SubSeq(burst, 1, k)

LEMMA SentByOne ==
    ASSUME NEW es \in Seq(Message), NEW burst \in Seq(Message)
    PROVE  /\ Sent(es, burst, 0) = es
           /\ \A k \in 0 .. Len(burst) - 1 :
                 /\ burst[k + 1] \in Message
                 /\ Sent(es, burst, k + 1) = Append(Sent(es, burst, k), burst[k + 1])
           /\ Sent(es, burst, Len(burst)) = es \o burst
<1>1. SubSeq(burst, 1, 0) = <<>> /\ SubSeq(burst, 1, Len(burst)) = burst
  OBVIOUS
<1>2. es \o <<>> = es
  OBVIOUS
<1>3. ASSUME NEW k \in 0 .. Len(burst) - 1
      PROVE  /\ burst[k + 1] \in Message
             /\ Sent(es, burst, k + 1) = Append(Sent(es, burst, k), burst[k + 1])
  <2>1. burst[k + 1] \in Message
    OBVIOUS
  <2>2. /\ SubSeq(burst, 1, k) \in Seq(Message)
        /\ SubSeq(burst, 1, k + 1) = Append(SubSeq(burst, 1, k), burst[k + 1])
    OBVIOUS
  <2>3. ASSUME NEW s \in Seq(Message), NEW m \in Message
        PROVE  es \o Append(s, m) = Append(es \o s, m)
    OBVIOUS
  <2> QED
    BY <2>1, <2>2, <2>3 DEF Sent
<1> QED
  BY <1>1, <1>2, <1>3 DEF Sent

LEMMA SentShort ==
    ASSUME NEW es \in Seq(Message), NEW burst \in Seq(Message)
    PROVE  /\ Sent(es, burst, 0) = es
           /\ Len(burst) \in {1, 2, 3} => Sent(es, burst, 1) = Append(es, burst[1])
           /\ Len(burst) \in {2, 3} =>
                 Sent(es, burst, 2) = Append(Append(es, burst[1]), burst[2])
           /\ Len(burst) = 3 =>
                 Sent(es, burst, 3) = Append(Append(Append(es, burst[1]), burst[2]), burst[3])
<1> DEFINE F(k) == Sent(es, burst, k)
<1>1. /\ F(0) = es
      /\ \A k \in 0 .. Len(burst) - 1 : F(k + 1) = Append(F(k), burst[k + 1])
  BY SentByOne
<1> HIDE DEF F
<1>2. Len(burst) >= 1 => F(0 + 1) = Append(F(0), burst[0 + 1])
  <2>1. Len(burst) >= 1 => 0 \in 0 .. Len(burst) - 1
    OBVIOUS
  <2> QED
    BY <1>1, <2>1, Zenon
<1>3. Len(burst) >= 2 => F(1 + 1) = Append(F(1), burst[1 + 1])
  <2>1. Len(burst) >= 2 => 1 \in 0 .. Len(burst) - 1
    OBVIOUS
  <2> QED
    BY <1>1, <2>1, Zenon
<1>4. Len(burst) >= 3 => F(2 + 1) = Append(F(2), burst[2 + 1])
  <2>1. Len(burst) >= 3 => 2 \in 0 .. Len(burst) - 1
    OBVIOUS
  <2> QED
    BY <1>1, <2>1, Zenon
<1>5. 0 + 1 = 1 /\ 1 + 1 = 2 /\ 2 + 1 = 3 /\ Len(burst) \in Nat
  OBVIOUS
<1>6. Len(burst) >= 1 => F(1) = Append(es, burst[1])
  BY <1>1, <1>2, <1>5
<1>7. Len(burst) >= 2 => F(2) = Append(Append(es, burst[1]), burst[2])
  BY <1>3, <1>5, <1>6
<1>8. Len(burst) >= 3 => F(3) = Append(Append(Append(es, burst[1]), burst[2]), burst[3])
  BY <1>4, <1>5, <1>7
<1> QED
  BY <1>1, <1>6, <1>7, <1>8 DEF F

LEMMA SendSends ==
    ASSUME events \in Seq(Message), NEW burst \in Seq(Message), Send(burst)
    PROVE  \E k \in 0 .. Len(burst) : /\ events' = Sent(events, burst, k)
                                      /\ (k = Len(burst) /\ running' = running) \/ running' = FALSE
<1>1. Sent(events, burst, Len(burst)) = events \o burst /\ Len(burst) \in 0 .. Len(burst)
  BY SentByOne
<1> QED
  BY <1>1 DEF Send, Sent

\* A thread that may be announced comes before the rest of the burst.
LEMMA SendNews ==
    ASSUME events \in Seq(Message), NEW news \in Seq(Message), Len(news) <= 1,
           NEW burst \in Seq(Message), Send(news \o burst)
    PROVE  \/ events' = events /\ running' = FALSE
           \/ \E k \in 0 .. Len(burst) :
                 /\ events' = Sent(events \o news, burst, k)
                 /\ (k = Len(burst) /\ running' = running) \/ running' = FALSE
<1> DEFINE all == news \o burst
<1>1. all \in Seq(Message) /\ Len(all) = Len(news) + Len(burst)
  OBVIOUS
<1>2. PICK k \in 0 .. Len(all) : /\ events' = events \o SubSeq(all, 1, k)
                                 /\ (k = Len(all) /\ running' = running) \/ running' = FALSE
  BY <1>1, SendSends DEF Sent
<1>3. CASE k < Len(news)
  <2>1. k = 0 /\ k # Len(all)
    BY <1>1, <1>3
  <2>2. SubSeq(all, 1, 0) = <<>> /\ events \o <<>> = events
    OBVIOUS
  <2> QED
    BY <1>2, <2>1, <2>2
<1>4. CASE ~(k < Len(news))
  <2>1. k - Len(news) \in 0 .. Len(burst) /\ (k = Len(all) => k - Len(news) = Len(burst))
    BY <1>1, <1>4
  <2>2. SubSeq(all, 1, k) = news \o SubSeq(burst, 1, k - Len(news))
    BY <1>1, <1>4, <2>1
  <2>3. SubSeq(burst, 1, k - Len(news)) \in Seq(Message)
    BY <2>1
  <2>4. ASSUME NEW s \in Seq(Message) PROVE events \o (news \o s) = (events \o news) \o s
    OBVIOUS
  <2>5. events' = Sent(events \o news, burst, k - Len(news))
    BY <1>2, <2>2, <2>3, <2>4 DEF Sent
  <2> QED
    BY <1>2, <2>1, <2>5
<1> QED
  BY <1>2, <1>3, <1>4

-----------------------------------------------------------------------------
(* Threads and stops.                                                      *)

\* In the events es: of n thread ids, none is announced twice, and each is before
\* the first stop on it.
Announced(es, n) ==
    /\ \A k \in Named(es, "thread") : es[k].thread \in 1 .. n
    /\ \A j, k \in Named(es, "thread") : es[j].thread = es[k].thread => j = k
    /\ \A k \in Named(es, "stopped") :
          \E j \in Named(es, "thread") : j < k /\ es[j].thread = es[k].thread

\* All of them are announced.
Complete(es, n) == \A t \in 1 .. n : \E j \in Named(es, "thread") : es[j].thread = t

\* A stop is on one of the spans sp, on the thread that has the key of the span.
Keyed(es, sp, ids) ==
    \A k \in Named(es, "stopped") :
        /\ es[k].span \in DOMAIN sp /\ es[k].thread \in DOMAIN ids
        /\ sp[es[k].span].key = ids[es[k].thread]

\* A stop is continued at once, unless it is the last event.
Continues(es) ==
    \A k \in Named(es, "stopped") : k < Len(es) => es[k + 1] = Continued(es[k].thread)

\* The last event is no stop.
Rests(es) == Len(es) \notin Named(es, "stopped")

\* Nothing changes with an event that is neither a stop nor a thread.
LEMMA OtherEvent ==
    ASSUME NEW es \in Seq(Message), NEW e \in Message, e.event \notin {"thread", "stopped"},
           NEW n, NEW sp, NEW ids
    PROVE  /\ Announced(es, n) => Announced(Append(es, e), n)
           /\ Complete(es, n) => Complete(Append(es, e), n)
           /\ Keyed(es, sp, ids) => Keyed(Append(es, e), sp, ids)
           /\ Rests(Append(es, e))
           /\ Continues(es) /\ Rests(es) => Continues(Append(es, e))
<1> DEFINE a == Append(es, e)
<1>1. /\ Named(a, "thread") = Named(es, "thread") /\ Named(a, "stopped") = Named(es, "stopped")
      /\ \A k \in DOMAIN es : a[k] = es[k] /\ k \in Nat /\ k < Len(es) + 1
      /\ Len(a) = Len(es) + 1 /\ Len(es) \in Nat /\ DOMAIN es = 1 .. Len(es)
  BY NamedAppended, AppendedEvent
<1>2. \A k \in Named(es, "thread") \cup Named(es, "stopped") : k \in DOMAIN es
  BY DEF Named
<1> HIDE DEF a
<1>3. Announced(es, n) => Announced(a, n)
  BY <1>1, <1>2 DEF Announced
<1>4. Complete(es, n) => Complete(a, n)
  BY <1>1, <1>2 DEF Complete
<1>5. Keyed(es, sp, ids) => Keyed(a, sp, ids)
  BY <1>1, <1>2 DEF Keyed
<1>6. Rests(a)
  BY <1>1, <1>2 DEF Rests
<1>7. Continues(es) /\ Rests(es) => Continues(a)
  <2> SUFFICES ASSUME Continues(es), Rests(es), NEW k \in Named(es, "stopped"), k < Len(a)
               PROVE  a[k + 1] = Continued(a[k].thread)
    BY <1>1 DEF Continues
  <2>1. k \in DOMAIN es /\ k # Len(es)
    BY <1>2 DEF Rests
  <2>2. k < Len(es) /\ k + 1 \in DOMAIN es
    BY <1>1, <2>1
  <2> QED
    BY <1>1, <2>1, <2>2 DEF Continues
<1> QED
  BY <1>3, <1>4, <1>5, <1>6, <1>7 DEF a

\* The thread after those announced.
LEMMA ThreadEvent ==
    ASSUME NEW es \in Seq(Message), NEW n \in Nat, Announced(es, n), Complete(es, n)
    PROVE  /\ Announced(es, n + 1)
           /\ Announced(Append(es, Thread(n + 1)), n + 1)
           /\ Complete(Append(es, Thread(n + 1)), n + 1)
<1> DEFINE e == Thread(n + 1)
           a == Append(es, e)
<1>0. e \in Message /\ e.event = "thread" /\ e.thread = n + 1
  BY MessageTypes DEF Thread
<1> HIDE DEF e
<1>1. /\ Named(a, "thread") = Named(es, "thread") \cup {Len(es) + 1}
      /\ Named(a, "stopped") = Named(es, "stopped")
      /\ \A k \in DOMAIN es : a[k] = es[k] /\ k \in Nat /\ k < Len(es) + 1
      /\ a[Len(es) + 1] = e
  BY <1>0, NamedAppended, AppendedEvent
<1>2. \A k \in Named(es, "thread") \cup Named(es, "stopped") : k \in DOMAIN es
  BY DEF Named
<1>3. \A t \in 1 .. n : t \in 1 .. n + 1 /\ t # n + 1
  OBVIOUS
<1>4. n + 1 \in 1 .. n + 1 /\ \A t \in 1 .. n + 1 : t = n + 1 \/ t \in 1 .. n
  OBVIOUS
<1> HIDE DEF a
<1>5. Announced(es, n + 1)
  BY <1>3 DEF Announced
<1>6. Announced(a, n + 1)
  <2>1. \A k \in Named(a, "thread") : a[k].thread \in 1 .. n + 1
    BY <1>0, <1>1, <1>2, <1>3, <1>4 DEF Announced
  <2>2. \A j, k \in Named(a, "thread") : a[j].thread = a[k].thread => j = k
    BY <1>0, <1>1, <1>2, <1>3 DEF Announced
  <2>3. \A k \in Named(a, "stopped") :
            \E j \in Named(a, "thread") : j < k /\ a[j].thread = a[k].thread
    BY <1>1, <1>2 DEF Announced
  <2> QED
    BY <2>1, <2>2, <2>3 DEF Announced
<1>7. Complete(a, n + 1)
  BY <1>0, <1>1, <1>2, <1>4 DEF Complete
<1> QED
  BY <1>5, <1>6, <1>7 DEF a, e

\* A stop on a thread that was announced.
LEMMA StopEvent ==
    ASSUME NEW es \in Seq(Message), NEW sp \in Seq(Span), NEW ids \in Seq(Keys),
           NEW i \in DOMAIN sp, NEW t \in DOMAIN ids, sp[i].key = ids[t],
           Announced(es, Len(ids)), Complete(es, Len(ids)), Keyed(es, sp, ids)
    PROVE  /\ Announced(Append(es, Stopped(i, t)), Len(ids))
           /\ Complete(Append(es, Stopped(i, t)), Len(ids))
           /\ Keyed(Append(es, Stopped(i, t)), sp, ids)
           /\ Continues(es) /\ Rests(es) =>
                 /\ Continues(Append(es, Stopped(i, t)))
                 /\ Continues(Append(Append(es, Stopped(i, t)), Continued(t)))
                 /\ Rests(Append(Append(es, Stopped(i, t)), Continued(t)))
<1> DEFINE e == Stopped(i, t)
           a == Append(es, e)
           c == Continued(t)
           b == Append(a, c)
<1>0. i \in Nat /\ t \in Nat /\ t \in 1 .. Len(ids)
  OBVIOUS
<1>1. e \in Message /\ e.event = "stopped" /\ e.span = i /\ e.thread = t
  BY <1>0, MessageTypes DEF Stopped
<1>2. c \in Message /\ c.event = "continued"
  BY <1>0, MessageTypes DEF Continued
<1> HIDE DEF e, c
<1>3. /\ Named(a, "thread") = Named(es, "thread")
      /\ Named(a, "stopped") = Named(es, "stopped") \cup {Len(es) + 1}
      /\ \A k \in DOMAIN es : a[k] = es[k] /\ k \in Nat /\ k < Len(es) + 1
      /\ a[Len(es) + 1] = e /\ a \in Seq(Message)
      /\ Len(a) = Len(es) + 1 /\ Len(es) \in Nat /\ DOMAIN es = 1 .. Len(es)
      /\ DOMAIN a = 1 .. Len(es) + 1
  BY <1>1, NamedAppended, AppendedEvent
<1>4. \A k \in Named(es, "thread") \cup Named(es, "stopped") : k \in DOMAIN es
  BY DEF Named
<1> HIDE DEF a
<1>5. Announced(a, Len(ids))
  <2>1. \E j \in Named(es, "thread") : es[j].thread = t
    BY <1>0 DEF Complete
  <2>2. \A k \in Named(a, "stopped") :
            \E j \in Named(a, "thread") : j < k /\ a[j].thread = a[k].thread
    <3>1. \A j \in Named(es, "thread") : j < Len(es) + 1 /\ a[j].thread = es[j].thread
      BY <1>3, <1>4
    <3>2. a[Len(es) + 1].thread = t
      BY <1>1, <1>3
    <3>3. \A k \in Named(es, "stopped") : a[k].thread = es[k].thread
      BY <1>3, <1>4
    <3> QED
      BY <1>3, <2>1, <3>1, <3>2, <3>3 DEF Announced
  <2>3. \A k \in Named(a, "thread") : a[k].thread = es[k].thread
    BY <1>3, <1>4
  <2> QED
    BY <1>3, <2>2, <2>3 DEF Announced
<1>6. Complete(a, Len(ids))
  BY <1>3, <1>4 DEF Complete
<1>7. Keyed(a, sp, ids)
  BY <1>1, <1>3, <1>4 DEF Keyed
<1>8. ASSUME Continues(es), Rests(es)
      PROVE  Continues(a) /\ Continues(b) /\ Rests(b)
  <2>1. \A k \in Named(es, "stopped") : k < Len(es) /\ k + 1 \in DOMAIN es
    <3> SUFFICES ASSUME NEW k \in Named(es, "stopped")
                 PROVE  k < Len(es) /\ k + 1 \in DOMAIN es
      OBVIOUS
    <3>1. k \in DOMAIN es /\ k # Len(es)
      BY <1>4, <1>8 DEF Rests
    <3> QED
      BY <1>3, <3>1
  <2>2. \A k \in Named(es, "stopped") : a[k + 1] = Continued(a[k].thread)
    BY <1>3, <1>4, <1>8, <2>1 DEF Continues
  <2>3. Continues(a)
    BY <1>3, <2>2 DEF Continues
  <2>4. /\ Named(b, "stopped") = Named(a, "stopped")
        /\ \A k \in DOMAIN a : b[k] = a[k]
        /\ b[Len(es) + 2] = c /\ Len(b) = Len(es) + 2
    <3>1. Len(a) + 1 = Len(es) + 2
      BY <1>3
    <3> QED
      BY <1>2, <1>3, <3>1, NamedAppended, AppendedEvent
  <2> HIDE DEF b
  <2>5. ASSUME NEW k \in Named(b, "stopped") PROVE b[k + 1] = Continued(b[k].thread)
    <3>1. CASE k = Len(es) + 1
      <4>1. k + 1 = Len(es) + 2 /\ k \in DOMAIN a
        BY <1>3, <3>1
      <4>2. b[k + 1] = c /\ b[k] = e
        BY <1>3, <2>4, <3>1, <4>1
      <4> QED
        BY <1>1, <4>2 DEF c
    <3>2. CASE k \in Named(es, "stopped")
      <4>1. k \in DOMAIN a /\ k + 1 \in DOMAIN a
        BY <1>3, <1>4, <2>1, <3>2
      <4> QED
        BY <2>2, <2>4, <3>2, <4>1
    <3> QED
      BY <1>3, <2>4, <3>1, <3>2
  <2>6. Len(b) \notin Named(b, "stopped")
    <3>1. \A k \in Named(b, "stopped") : k # Len(es) + 2
      BY <1>3, <1>4, <2>4
    <3> QED
      BY <2>4, <3>1
  <2> QED
    BY <2>3, <2>5, <2>6 DEF Continues, Rests, b
<1> QED
  BY <1>5, <1>6, <1>7, <1>8 DEF a, b, c, e

\* What is said of the stops stays true when spans and keys are added.
LEMMA KeyedStays ==
    ASSUME NEW es, NEW sp, NEW ids, NEW sp2, NEW ids2, Keyed(es, sp, ids),
           \A n \in DOMAIN sp : n \in DOMAIN sp2 /\ sp2[n] = sp[n],
           \A n \in DOMAIN ids : n \in DOMAIN ids2 /\ ids2[n] = ids[n]
    PROVE  Keyed(es, sp2, ids2)
BY DEF Keyed

Distinct(ids) == \A i, j \in DOMAIN ids : ids[i] = ids[j] => i = j

\* A key has its id, or is given the next one.
LEMMA ThreadForKey ==
    ASSUME threadIDs \in Seq(Keys), NEW key \in Keys, Distinct(threadIDs),
           NEW t, t = ThreadIDFor(key)
    PROVE  \/ /\ t \in DOMAIN threadIDs /\ threadIDs[t] = key /\ ~(t > Len(threadIDs))
           \/ /\ t = Len(threadIDs) + 1 /\ t > Len(threadIDs)
              /\ Append(threadIDs, key) \in Seq(Keys) /\ Len(Append(threadIDs, key)) = t
              /\ Distinct(Append(threadIDs, key))
              /\ t \in DOMAIN Append(threadIDs, key) /\ Append(threadIDs, key)[t] = key
              /\ \A i \in DOMAIN threadIDs :
                    i \in DOMAIN Append(threadIDs, key) /\ Append(threadIDs, key)[i] = threadIDs[i]
<1>1. Len(threadIDs) \in Nat /\ DOMAIN threadIDs = 1 .. Len(threadIDs)
  OBVIOUS
<1>2. CASE \E i \in DOMAIN threadIDs : threadIDs[i] = key
  <2>1. t \in DOMAIN threadIDs /\ threadIDs[t] = key
    BY <1>2 DEF ThreadIDFor
  <2> QED
    BY <1>1, <2>1
<1>3. CASE ~\E i \in DOMAIN threadIDs : threadIDs[i] = key
  <2> DEFINE ids == Append(threadIDs, key)
  <2>1. t = Len(threadIDs) + 1
    BY <1>3 DEF ThreadIDFor
  <2>2. /\ ids \in Seq(Keys) /\ Len(ids) = Len(threadIDs) + 1
        /\ DOMAIN ids = 1 .. Len(threadIDs) + 1
        /\ ids[Len(threadIDs) + 1] = key
        /\ \A i \in 1 .. Len(threadIDs) : ids[i] = threadIDs[i]
    OBVIOUS
  <2> HIDE DEF ids
  <2>3. Distinct(ids)
    <3> SUFFICES ASSUME NEW i \in DOMAIN ids, NEW j \in DOMAIN ids, ids[i] = ids[j]
                 PROVE  i = j
      BY DEF Distinct
    <3>1. \A k \in DOMAIN ids : k = Len(threadIDs) + 1 \/ k \in DOMAIN threadIDs
      BY <1>1, <2>2
    <3> QED
      BY <1>1, <1>3, <2>2, <3>1 DEF Distinct
  <2>4. t > Len(threadIDs) /\ t \in DOMAIN ids
        /\ \A i \in DOMAIN threadIDs : i \in DOMAIN ids
    BY <1>1, <2>1, <2>2
  <2> QED
    BY <1>1, <2>1, <2>2, <2>3, <2>4 DEF ids
<1> QED
  BY <1>2, <1>3

-----------------------------------------------------------------------------
(* The announcements.                                                      *)

AnnounceInv ==
    /\ Distinct(threadIDs)
    /\ Announced(events, Len(threadIDs)) /\ Keyed(events, spans, threadIDs)
    /\ running => Complete(events, Len(threadIDs))
    /\ command = "emit" => Continues(events) /\ (running => Rests(events))

\* What comes before a stop on a span with this key, and the thread of the stop.
News(key) == IF ThreadIDFor(key) > Len(threadIDs) THEN <<Thread(ThreadIDFor(key))>> ELSE <<>>

LEMMA NewsAnnounced ==
    ASSUME SessionInv, AnnounceInv, running, NEW key \in Keys,
           threadIDs' = IF ThreadIDFor(key) > Len(threadIDs)
                        THEN Append(threadIDs, key) ELSE threadIDs,
           NEW sp \in Seq(Span), \A n \in DOMAIN spans : n \in DOMAIN sp /\ sp[n] = spans[n],
           NEW es \in {events, events \o News(key)}
    PROVE  /\ News(key) \in Seq(Message) /\ Len(News(key)) <= 1
           /\ threadIDs' \in Seq(Keys) /\ Distinct(threadIDs')
           /\ ThreadIDFor(key) \in DOMAIN threadIDs' /\ threadIDs'[ThreadIDFor(key)] = key
           /\ es \in Seq(Message)
           /\ Announced(es, Len(threadIDs')) /\ Keyed(es, sp, threadIDs')
           /\ es = events \o News(key) => Complete(es, Len(threadIDs'))
           /\ command = "emit" => Continues(es) /\ Rests(es)
<1> DEFINE t == ThreadIDFor(key)
<1>0. /\ events \in Seq(Message) /\ threadIDs \in Seq(Keys) /\ Len(threadIDs) \in Nat
      /\ Distinct(threadIDs) /\ Announced(events, Len(threadIDs))
      /\ Complete(events, Len(threadIDs)) /\ Keyed(events, spans, threadIDs)
      /\ command = "emit" => Continues(events) /\ Rests(events)
  BY DEF SessionInv, SessionTypes, AnnounceInv
<1>1. CASE t \in DOMAIN threadIDs /\ threadIDs[t] = key /\ ~(t > Len(threadIDs))
  <2>1. News(key) = <<>> /\ threadIDs' = threadIDs
    BY <1>1 DEF News
  <2>2. events \o <<>> = events /\ <<>> \in Seq(Message) /\ Len(<<>>) = 0
    BY <1>0
  <2>3. es = events /\ Keyed(es, sp, threadIDs)
    BY <1>0, <2>1, <2>2, KeyedStays
  <2> QED
    BY <1>0, <1>1, <2>1, <2>2, <2>3
<1>2. CASE /\ t = Len(threadIDs) + 1 /\ t > Len(threadIDs)
           /\ Append(threadIDs, key) \in Seq(Keys) /\ Len(Append(threadIDs, key)) = t
           /\ Distinct(Append(threadIDs, key))
           /\ t \in DOMAIN Append(threadIDs, key) /\ Append(threadIDs, key)[t] = key
           /\ \A i \in DOMAIN threadIDs :
                 i \in DOMAIN Append(threadIDs, key) /\ Append(threadIDs, key)[i] = threadIDs[i]
  <2> DEFINE n == Len(threadIDs)
             e == Thread(n + 1)
  <2>1. News(key) = <<e>> /\ threadIDs' = Append(threadIDs, key) /\ Len(threadIDs') = n + 1
    BY <1>2 DEF News
  <2>2. e \in Message /\ e.event = "thread"
    BY <1>0, MessageTypes DEF Thread
  <2>3. /\ Announced(events, n + 1) /\ Announced(Append(events, e), n + 1)
        /\ Complete(Append(events, e), n + 1)
    BY <1>0, ThreadEvent
  <2> HIDE DEF e, n
  <2>4. events \o <<e>> = Append(events, e) /\ <<e>> \in Seq(Message) /\ Len(<<e>>) = 1
        /\ Append(events, e) # events /\ Append(events, e) \in Seq(Message)
    <3>1. Len(Append(events, e)) # Len(events)
      BY <1>0, <2>2
    <3> QED
      BY <1>0, <2>2, <3>1
  <2>5. Keyed(events, sp, threadIDs')
    BY <1>0, <1>2, <2>1, KeyedStays
  <2>6. /\ Named(Append(events, e), "stopped") = Named(events, "stopped")
        /\ \A k \in DOMAIN events : Append(events, e)[k] = events[k]
        /\ Len(Append(events, e)) = Len(events) + 1 /\ Len(events) \in Nat
        /\ DOMAIN events = 1 .. Len(events)
    BY <1>0, <2>2, NamedAppended, AppendedEvent
  <2>7. \A k \in Named(events, "stopped") : k \in DOMAIN events
    BY DEF Named
  <2>8. Keyed(Append(events, e), sp, threadIDs')
    <3> DEFINE a == Append(events, e)
    <3>1. /\ Named(a, "stopped") = Named(events, "stopped")
          /\ \A k \in Named(events, "stopped") : a[k] = events[k]
      BY <2>6, <2>7
    <3> HIDE DEF a
    <3> QED
      BY <2>5, <3>1 DEF Keyed, a
  <2>9. command = "emit" => Continues(Append(events, e)) /\ Rests(Append(events, e))
    <3> DEFINE a == Append(events, e)
    <3>1. /\ Named(a, "stopped") = Named(events, "stopped")
          /\ \A k \in DOMAIN events : a[k] = events[k]
          /\ Len(a) = Len(events) + 1
      BY <2>6
    <3> HIDE DEF a
    <3>2. Rests(a)
      BY <2>6, <2>7, <3>1 DEF Rests
    <3>3. ASSUME Continues(events), Rests(events), NEW k \in Named(events, "stopped")
          PROVE  a[k + 1] = Continued(a[k].thread)
      <4>1. k \in DOMAIN events /\ k + 1 \in DOMAIN events /\ k < Len(events)
        BY <2>6, <2>7, <3>3 DEF Rests
      <4> QED
        BY <3>1, <3>3, <4>1 DEF Continues
    <3> QED
      BY <1>0, <3>1, <3>2, <3>3 DEF Continues, a
  <2>10. es = events \/ es = Append(events, e)
    BY <2>1, <2>4
  <2>11. es = events \o News(key) => es = Append(events, e)
    BY <2>1, <2>4
  <2> HIDE DEF News
  <2>12. t \in DOMAIN threadIDs' /\ threadIDs'[t] = key /\ threadIDs' \in Seq(Keys)
         /\ Distinct(threadIDs')
    BY <1>2, <2>1
  <2>13. Announced(es, Len(threadIDs')) /\ Keyed(es, sp, threadIDs') /\ es \in Seq(Message)
    BY <1>0, <2>1, <2>3, <2>4, <2>5, <2>8, <2>10
  <2>14. es = events \o News(key) => Complete(es, Len(threadIDs'))
    BY <2>1, <2>3, <2>11
  <2>15. command = "emit" => Continues(es) /\ Rests(es)
    BY <1>0, <2>9, <2>10
  <2>16. News(key) \in Seq(Message) /\ Len(News(key)) <= 1
    BY <2>1, <2>4
  <2> QED
    BY <2>12, <2>13, <2>14, <2>15, <2>16
<1> QED
  <2>1. t \in Nat
    BY <1>0, ThreadIDType
  <2> QED
    BY <1>0, <1>1, <1>2, ThreadForKey

\* Without messages or with messages of other kinds.
LEMMA OtherAnnounced ==
    ASSUME SessionInv, AnnounceInv, running, UNCHANGED <<command, threadIDs>>,
           \A n \in DOMAIN spans : n \in DOMAIN spans' /\ spans'[n] = spans[n],
           \/ events' = events
           \/ events' = Append(events, Output)
           \/ events' = Append(events, Terminated)
           \/ events' = Append(Append(events, Output), Terminated)
    PROVE  AnnounceInv'
<1>0. /\ events \in Seq(Message) /\ Distinct(threadIDs) /\ Announced(events, Len(threadIDs))
      /\ Complete(events, Len(threadIDs)) /\ Keyed(events, spans', threadIDs)
      /\ command = "emit" => Continues(events) /\ Rests(events)
  BY KeyedStays DEF SessionInv, SessionTypes, AnnounceInv
<1> DEFINE Good(es) == /\ es \in Seq(Message)
                       /\ Announced(es, Len(threadIDs)) /\ Complete(es, Len(threadIDs))
                       /\ Keyed(es, spans', threadIDs)
                       /\ command = "emit" => Continues(es) /\ Rests(es)
<1>1. ASSUME NEW es, Good(es), NEW e \in {Output, Terminated} PROVE Good(Append(es, e))
  <2>1. e \in Message /\ e.event \notin {"thread", "stopped"}
    BY MessageTypes DEF Output, Terminated
  <2>2. Append(es, e) \in Seq(Message)
    BY <1>1, <2>1
  <2> QED
    BY <1>1, <2>1, <2>2, OtherEvent
<1>2. Good(events)
  BY <1>0
<1> HIDE DEF Good
<1>3. Good(events')
  BY <1>1, <1>2
<1>4. Announced(events', Len(threadIDs)) /\ Complete(events', Len(threadIDs))
      /\ Keyed(events', spans', threadIDs)
      /\ (command = "emit" => Continues(events') /\ Rests(events'))
  BY <1>3 DEF Good
<1> QED
  BY <1>0, <1>4 DEF AnnounceInv

\* What advanceAndStop sends at the end of the trace.
LEMMA EndSends ==
    ASSUME SessionInv, Advance, cursor' > Len(spans)
    PROVE  /\ threadIDs' = threadIDs
           /\ (events' = events /\ running' = FALSE) \/ events' = Append(events, Terminated)
<1> DEFINE burst == <<Terminated>>
<1>1. threadIDs' = threadIDs /\ Send(burst) /\ events \in Seq(Message)
  BY DEF Advance, SessionInv, SessionTypes
<1>2. burst \in Seq(Message) /\ Len(burst) = 1 /\ burst[1] = Terminated
  BY MessageTypes
<1> HIDE DEF burst
<1>3. PICK k \in 0 .. 1 : events' = Sent(events, burst, k) /\ (k = 1 \/ running' = FALSE)
  BY <1>1, <1>2, SendSends
<1>4. Sent(events, burst, 0) = events /\ Sent(events, burst, 1) = Append(events, burst[1])
  BY <1>1, <1>2, SentShort, Zenon
<1> QED
  BY <1>1, <1>2, <1>3, <1>4

\* What it sends on a stop.
LEMMA StopSends ==
    ASSUME SessionInv, AnnounceInv, Advance, ~(cursor' > Len(spans)),
           NEW key, key = spans[cursor'].key, NEW t, t = ThreadIDFor(key),
           NEW base, base = events \o News(key)
    PROVE  /\ cursor' \in DOMAIN spans
           /\ \A es \in {events, base} :
                 /\ threadIDs' \in Seq(Keys) /\ Distinct(threadIDs')
                 /\ t \in DOMAIN threadIDs' /\ threadIDs'[t] = key
                 /\ es \in Seq(Message)
                 /\ Announced(es, Len(threadIDs')) /\ Keyed(es, spans, threadIDs')
                 /\ es = base => Complete(es, Len(threadIDs'))
           /\ \/ events' \in {events, base} /\ running' = FALSE
              \/ events' = Append(base, Stopped(cursor', t))
<1> DEFINE stop == <<Stopped(cursor', t)>>
<1>0. /\ SessionTypes /\ events \in Seq(Message) /\ spans \in Seq(Span) /\ running
      /\ spans' = spans /\ cursor' \in Nat \ {0}
  BY DEF SessionInv, SessionTypes, Advance, Advanced
<1>1. cursor' \in DOMAIN spans /\ key \in Keys
  <2>1. cursor' \in DOMAIN spans
    BY <1>0
  <2>2. spans[cursor'] \in Span
    BY <1>0, <2>1
  <2> QED
    BY <2>1, <2>2 DEF Span
<1>2. /\ threadIDs' = IF t > Len(threadIDs) THEN Append(threadIDs, key) ELSE threadIDs
      /\ Send(News(key) \o stop)
  BY DEF Advance, News
<1>3. \A es \in {events, base} :
         /\ News(key) \in Seq(Message) /\ Len(News(key)) <= 1
         /\ threadIDs' \in Seq(Keys) /\ Distinct(threadIDs')
         /\ t \in DOMAIN threadIDs' /\ threadIDs'[t] = key
         /\ es \in Seq(Message)
         /\ Announced(es, Len(threadIDs')) /\ Keyed(es, spans, threadIDs')
         /\ es = base => Complete(es, Len(threadIDs'))
  BY <1>0, <1>1, <1>2, NewsAnnounced
<1>4. t \in Nat /\ cursor' \in Nat
  BY <1>0, <1>3
<1>5. stop \in Seq(Message) /\ Len(stop) = 1 /\ stop[1] = Stopped(cursor', t)
  BY <1>4, MessageTypes
<1> HIDE DEF stop
<1>6. \/ events' = events /\ running' = FALSE
      \/ \E k \in 0 .. 1 : /\ events' = Sent(base, stop, k)
                           /\ k = 1 \/ running' = FALSE
  BY <1>0, <1>2, <1>3, <1>5, SendNews
<1>7. base \in Seq(Message) /\ Len(stop) \in {1, 2, 3}
  BY <1>3, <1>5
<1>8. Sent(base, stop, 0) = base /\ Sent(base, stop, 1) = Append(base, Stopped(cursor', t))
  <2>1. Sent(base, stop, 0) = base /\ Sent(base, stop, 1) = Append(base, stop[1])
    BY <1>5, <1>7, SentShort, Zenon
  <2> QED
    BY <1>5, <2>1, Zenon
<1>9. ASSUME NEW k \in 0 .. 1, events' = Sent(base, stop, k), k = 1 \/ running' = FALSE
      PROVE  \/ events' \in {events, base} /\ running' = FALSE
             \/ events' = Append(base, Stopped(cursor', t))
  <2>1. k = 0 \/ k = 1
    OBVIOUS
  <2> QED
    BY <1>8, <1>9, <2>1
<1>10. \/ events' \in {events, base} /\ running' = FALSE
       \/ events' = Append(base, Stopped(cursor', t))
  BY <1>6, <1>9
<1> QED
  BY <1>1, <1>3, <1>10

LEMMA AdvanceAnnounced ==
    ASSUME SessionInv, AnnounceInv, command = "serve", command' = command, Advance
    PROVE  AnnounceInv'
<1>0. /\ SessionTypes /\ events \in Seq(Message) /\ spans \in Seq(Span) /\ running
      /\ spans' = spans
  BY DEF SessionInv, SessionTypes, Advance
<1>1. CASE cursor' > Len(spans)
  BY <1>0, <1>1, EndSends, OtherAnnounced
<1>2. CASE ~(cursor' > Len(spans))
  <2> DEFINE key  == spans[cursor'].key
             t    == ThreadIDFor(key)
             base == events \o News(key)
  <2>1. /\ cursor' \in DOMAIN spans
        /\ \A es \in {events, base} :
              /\ threadIDs' \in Seq(Keys) /\ Distinct(threadIDs')
              /\ t \in DOMAIN threadIDs' /\ threadIDs'[t] = key
              /\ es \in Seq(Message)
              /\ Announced(es, Len(threadIDs')) /\ Keyed(es, spans, threadIDs')
              /\ es = base => Complete(es, Len(threadIDs'))
        /\ \/ events' \in {events, base} /\ running' = FALSE
           \/ events' = Append(base, Stopped(cursor', t))
    BY <1>2, StopSends
  <2>2. /\ Announced(Append(base, Stopped(cursor', t)), Len(threadIDs'))
        /\ Complete(Append(base, Stopped(cursor', t)), Len(threadIDs'))
        /\ Keyed(Append(base, Stopped(cursor', t)), spans, threadIDs')
    <3>1. /\ base \in Seq(Message) /\ threadIDs' \in Seq(Keys)
          /\ t \in DOMAIN threadIDs' /\ spans[cursor'].key = threadIDs'[t]
          /\ Announced(base, Len(threadIDs')) /\ Keyed(base, spans, threadIDs')
          /\ Complete(base, Len(threadIDs'))
      BY <2>1
    <3> HIDE DEF base, t
    <3> QED
      BY <1>0, <2>1, <3>1, StopEvent
  <2>3. Announced(events', Len(threadIDs')) /\ Keyed(events', spans', threadIDs')
        /\ (running' => Complete(events', Len(threadIDs')))
    BY <1>0, <2>1, <2>2
  <2> QED
    BY <2>1, <2>3 DEF AnnounceInv
<1> QED
  BY <1>1, <1>2

\* What onSpan sends.
LEMMA EmitSends ==
    ASSUME SessionInv, AnnounceInv, EmitSpan,
           NEW key, key = trace[line].key, NEW t, t = ThreadIDFor(key),
           NEW i, i = Len(spans) + 1,
           NEW base, base = events \o News(key), NEW a, a = Append(base, Output),
           NEW b, b = Append(a, Stopped(i, t)), NEW c, c = Append(b, Continued(t))
    PROVE  /\ \A es \in {events, base} :
                 /\ threadIDs' \in Seq(Keys) /\ Distinct(threadIDs')
                 /\ t \in DOMAIN threadIDs' /\ threadIDs'[t] = key
                 /\ es \in Seq(Message)
                 /\ Announced(es, Len(threadIDs')) /\ Keyed(es, spans', threadIDs')
                 /\ es = base => Complete(es, Len(threadIDs'))
                 /\ Continues(es) /\ Rests(es)
           /\ spans' \in Seq(Span) /\ i \in DOMAIN spans' /\ spans'[i].key = key
           /\ \/ events' \in {events, base, a, b} /\ running' = FALSE
              \/ events' = c
<1> DEFINE rest == <<Output, Stopped(i, t), Continued(t)>>
<1>0. /\ SessionTypes /\ events \in Seq(Message) /\ spans \in Seq(Span) /\ trace \in Traces
      /\ running /\ command = "emit" /\ command' = command
  BY DEF SessionInv, SessionTypes, EmitSpan, Emitting
<1>1. trace[line] \in Span /\ key \in Keys
  <2>1. trace \in Seq(Span \cup {Invalid}) /\ line \in DOMAIN trace /\ trace[line] # Invalid
    BY <1>0, DapServerAssumption DEF EmitSpan
  <2>2. trace[line] \in Span
    BY <2>1
  <2> QED
    BY <2>2 DEF Span
<1>2. /\ threadIDs' = IF t > Len(threadIDs) THEN Append(threadIDs, key) ELSE threadIDs
      /\ Send(News(key) \o rest)
      /\ spans' = Append(spans, trace[line])
  BY DEF EmitSpan, News, SpanNumber
<1>3. /\ spans' \in Seq(Span) /\ i \in DOMAIN spans' /\ spans'[i] = trace[line] /\ i \in Nat
      /\ \A n \in DOMAIN spans : n \in DOMAIN spans' /\ spans'[n] = spans[n]
  BY <1>0, <1>1, <1>2
<1>4. \A es \in {events, base} :
         /\ News(key) \in Seq(Message) /\ Len(News(key)) <= 1
         /\ threadIDs' \in Seq(Keys) /\ Distinct(threadIDs')
         /\ t \in DOMAIN threadIDs' /\ threadIDs'[t] = key
         /\ es \in Seq(Message)
         /\ Announced(es, Len(threadIDs')) /\ Keyed(es, spans', threadIDs')
         /\ es = base => Complete(es, Len(threadIDs'))
         /\ Continues(es) /\ Rests(es)
  BY <1>0, <1>1, <1>2, <1>3, NewsAnnounced
<1>5. t \in Nat
  BY <1>4
<1>6. /\ rest \in Seq(Message) /\ Len(rest) = 3
      /\ rest[1] = Output /\ rest[2] = Stopped(i, t) /\ rest[3] = Continued(t)
  <2>1. /\ Output \in Message /\ Stopped(i, t) \in Message /\ Continued(t) \in Message
    BY <1>3, <1>5, MessageTypes
  <2>2. ASSUME NEW m1 \in Message, NEW m2 \in Message, NEW m3 \in Message
        PROVE  /\ <<m1, m2, m3>> \in Seq(Message) /\ Len(<<m1, m2, m3>>) = 3
               /\ <<m1, m2, m3>>[1] = m1 /\ <<m1, m2, m3>>[2] = m2 /\ <<m1, m2, m3>>[3] = m3
    OBVIOUS
  <2> QED
    BY <2>1, <2>2, Zenon
<1> HIDE DEF rest
<1>7. \/ events' = events /\ running' = FALSE
      \/ \E k \in 0 .. 3 : /\ events' = Sent(base, rest, k)
                           /\ k = 3 \/ running' = FALSE
  BY <1>0, <1>2, <1>4, <1>6, SendNews
<1>8. /\ Sent(base, rest, 0) = base /\ Sent(base, rest, 1) = a
      /\ Sent(base, rest, 2) = b /\ Sent(base, rest, 3) = c
  <2>1. base \in Seq(Message)
    BY <1>4
  <2>2. /\ Sent(base, rest, 0) = base
        /\ Sent(base, rest, 1) = Append(base, rest[1])
        /\ Sent(base, rest, 2) = Append(Append(base, rest[1]), rest[2])
        /\ Sent(base, rest, 3) = Append(Append(Append(base, rest[1]), rest[2]), rest[3])
    BY <1>6, <2>1, SentShort, Zenon
  <2> QED
    BY <1>6, <2>2, Zenon
<1>9. ASSUME NEW k \in 0 .. 3, events' = Sent(base, rest, k), k = 3 \/ running' = FALSE
      PROVE  \/ events' \in {events, base, a, b} /\ running' = FALSE
             \/ events' = c
  <2>1. k = 0 \/ k = 1 \/ k = 2 \/ k = 3
    OBVIOUS
  <2> QED
    BY <1>8, <1>9, <2>1
<1> QED
  BY <1>3, <1>4, <1>7, <1>9

LEMMA EmitAnnounced ==
    ASSUME SessionInv, AnnounceInv, EmitSpan
    PROVE  AnnounceInv'
<1> DEFINE key  == trace[line].key
           t    == ThreadIDFor(key)
           i    == Len(spans) + 1
           base == events \o News(key)
           a == Append(base, Output)
           b == Append(a, Stopped(i, t))
           c == Append(b, Continued(t))
<1>1. /\ \A es \in {events, base} :
            /\ threadIDs' \in Seq(Keys) /\ Distinct(threadIDs')
            /\ t \in DOMAIN threadIDs' /\ threadIDs'[t] = key
            /\ es \in Seq(Message)
            /\ Announced(es, Len(threadIDs')) /\ Keyed(es, spans', threadIDs')
            /\ es = base => Complete(es, Len(threadIDs'))
            /\ Continues(es) /\ Rests(es)
      /\ spans' \in Seq(Span) /\ i \in DOMAIN spans' /\ spans'[i].key = key
      /\ \/ events' \in {events, base, a, b} /\ running' = FALSE
         \/ events' = c
  BY EmitSends
<1>2. i \in Nat /\ t \in Nat
  BY <1>1
<1>3. /\ Announced(a, Len(threadIDs')) /\ Complete(a, Len(threadIDs'))
      /\ Keyed(a, spans', threadIDs') /\ Rests(a) /\ Continues(a) /\ a \in Seq(Message)
  <2>1. Output \in Message /\ Output.event \notin {"thread", "stopped"}
    BY MessageTypes DEF Output
  <2>2. base \in Seq(Message) /\ Announced(base, Len(threadIDs'))
        /\ Complete(base, Len(threadIDs')) /\ Keyed(base, spans', threadIDs')
        /\ Continues(base) /\ Rests(base)
    BY <1>1
  <2>3. Append(base, Output) \in Seq(Message)
    BY <2>1, <2>2
  <2> HIDE DEF base
  <2> QED
    BY <2>1, <2>2, <2>3, OtherEvent
<1>4. /\ Announced(b, Len(threadIDs')) /\ Complete(b, Len(threadIDs'))
      /\ Keyed(b, spans', threadIDs') /\ Continues(b) /\ b \in Seq(Message)
      /\ Continues(c) /\ Rests(c)
  <2>1. /\ threadIDs' \in Seq(Keys) /\ t \in DOMAIN threadIDs' /\ spans'[i].key = threadIDs'[t]
        /\ Stopped(i, t) \in Message
    BY <1>1, <1>2, MessageTypes
  <2>2. b \in Seq(Message)
    BY <1>3, <2>1
  <2> HIDE DEF a, t, i
  <2> QED
    BY <1>1, <1>3, <2>1, <2>2, StopEvent
<1>5. /\ Announced(c, Len(threadIDs')) /\ Complete(c, Len(threadIDs'))
      /\ Keyed(c, spans', threadIDs')
  <2>1. Continued(t) \in Message /\ Continued(t).event \notin {"thread", "stopped"}
    BY <1>2, MessageTypes DEF Continued
  <2> HIDE DEF b
  <2> QED
    BY <1>4, <2>1, OtherEvent
<1> HIDE DEF a, b, c, base
<1>6. /\ Announced(events', Len(threadIDs')) /\ Keyed(events', spans', threadIDs')
      /\ Continues(events')
      /\ running' => Complete(events', Len(threadIDs')) /\ Rests(events')
  BY <1>1, <1>3, <1>4, <1>5
<1> QED
  BY <1>1, <1>6 DEF AnnounceInv

\* What terminate sends.
LEMMA EmitEndSends ==
    ASSUME SessionInv, EmitEnd
    PROVE  \/ events' = events \/ events' = Append(events, Output)
           \/ events' = Append(Append(events, Output), Terminated)
<1> DEFINE burst == <<Output, Terminated>>
<1>0. events \in Seq(Message)
  BY DEF SessionInv, SessionTypes
<1>1. burst \in Seq(Message) /\ Len(burst) = 2 /\ burst[1] = Output /\ burst[2] = Terminated
  BY MessageTypes
<1> HIDE DEF burst
<1>2. PICK k \in 0 .. 2 : events' = Sent(events, burst, k)
  BY DEF EmitEnd, Sent, burst
<1>3. /\ Sent(events, burst, 0) = events
      /\ Sent(events, burst, 1) = Append(events, burst[1])
      /\ Sent(events, burst, 2) = Append(Append(events, burst[1]), burst[2])
  BY <1>0, <1>1, SentShort, Zenon
<1>4. k = 0 \/ k = 1 \/ k = 2
  OBVIOUS
<1> QED
  BY <1>1, <1>2, <1>3, <1>4

LEMMA InitAnnounceInv == ToolInit => AnnounceInv
<1> SUFFICES ASSUME ToolInit PROVE AnnounceInv
  OBVIOUS
<1>1. threadIDs = <<>> /\ events = <<>>
  BY DEF ToolInit, Init
<1>2. Len(<<>>) = 0 /\ 1 .. 0 = {} /\ DOMAIN <<>> = {}
  OBVIOUS
<1> QED
  BY <1>1, <1>2 DEF AnnounceInv, Distinct, Announced, Complete, Keyed, Continues, Rests, Named

LEMMA NextAnnounceInv ==
    SessionInv /\ AnnounceInv /\ [ToolNext]_<<vars, tool>> => AnnounceInv'
<1> SUFFICES ASSUME SessionInv, AnnounceInv, [ToolNext]_<<vars, tool>> PROVE AnnounceInv'
  OBVIOUS
<1>0. /\ SessionTypes /\ events \in Seq(Message) /\ spans \in Seq(Span) /\ trace \in Traces
  BY DEF SessionInv, SessionTypes
<1>1. CASE UNCHANGED vars /\ UNCHANGED command
  BY <1>1 DEF AnnounceInv, vars, params
<1>2. CASE command = "serve" /\ Next /\ UNCHANGED tool
  <2>0. command' = command
    BY <1>2 DEF tool
  <2>1. CASE Launch
    <3>1. running /\ threadIDs' = threadIDs /\ events' = events
      BY <1>0, <2>1, SilentSend DEF Launch
    <3>2. \A n \in DOMAIN spans : n \in DOMAIN spans' /\ spans'[n] = spans[n]
      <4>1. CASE spans' = spans \o Replayed
        <5>1. Replayed \in Seq(Span)
          BY <1>0, ReplayedType
        <5> HIDE DEF Replayed
        <5> QED
          BY <1>0, <4>1, <5>1
      <4> QED
        BY <2>1, <4>1 DEF Launch, Loaded
    <3> QED
      BY <2>0, <3>1, <3>2, OtherAnnounced
  <2>2. CASE Advance
    BY <1>2, <2>0, <2>2, AdvanceAnnounced
  <2>3. CASE StackTrace \/ Scopes \/ Other \/ \E ref \in DOMAIN varRefs : Variables(ref)
    <3>1. running /\ UNCHANGED <<spans, threadIDs>> /\ Send(<<>>)
      BY <2>3 DEF StackTrace, Scopes, Other, Variables
    <3>2. events' = events
      BY <1>0, <3>1, SilentSend
    <3> QED
      BY <2>0, <3>1, <3>2, OtherAnnounced
  <2>4. CASE Disconnect \/ InputEnds
    <3>1. running /\ UNCHANGED <<spans, threadIDs>>
          /\ (events' = events \/ events' = Append(events, Terminated))
      BY <2>4 DEF Disconnect, InputEnds
    <3> QED
      BY <2>0, <3>1, OtherAnnounced
  <2>5. CASE Ended
    BY <1>1, <2>0, <2>5 DEF Ended
  <2> QED
    BY <1>2, <2>1, <2>2, <2>3, <2>4, <2>5 DEF Next
<1>3. CASE EmitSpan
  BY <1>3, EmitAnnounced
<1>4. CASE Invalidated \/ EmitFails
  <2>1. running /\ UNCHANGED <<spans, threadIDs, events, command>>
    BY <1>4 DEF Invalidated, EmitFails, Emitting, tool
  <2> QED
    BY <2>1, OtherAnnounced
<1>5. CASE EmitEnd
  <2>1. running /\ UNCHANGED <<spans, threadIDs, command>>
    BY <1>5 DEF EmitEnd, Emitting, tool
  <2> QED
    BY <1>5, <2>1, EmitEndSends, OtherAnnounced
<1> QED
  BY <1>1, <1>2, <1>3, <1>4, <1>5 DEF ToolNext, Ended, tool

LEMMA AnnounceInvCorrect == ToolSpec => []AnnounceInv
<1>1. SessionInv /\ AnnounceInv /\ [ToolNext]_<<vars, tool>> => AnnounceInv'
  BY NextAnnounceInv
<1> QED
  BY <1>1, InitAnnounceInv, SessionInvCorrect, PTL DEF ToolSpec

\* The thread of a stop was announced before it, once; two stops are on the same
\* thread exactly if their spans have the same key; an emitted stop continues at
\* once.  So for traces of any length, over any number of launches.
THEOREM ThreadsComeFirst == ToolSpec => []ThreadsAreAnnouncedByBoth
<1>1. SessionInv /\ AnnounceInv => ThreadsAreAnnouncedByBoth
  <2> SUFFICES ASSUME SessionInv, AnnounceInv PROVE ThreadsAreAnnouncedByBoth
    OBVIOUS
  <2>0. /\ \A name : EventsNamed(name) = Named(events, name)
        /\ Announced(events, Len(threadIDs)) /\ Keyed(events, spans, threadIDs)
        /\ Distinct(threadIDs)
    BY DEF AnnounceInv, EventsNamed, Named
  <2>1. EmittedStopsContinue
    BY <2>0 DEF AnnounceInv, Continues, EmittedStopsContinue
  <2>2. ASSUME NEW k \in EventsNamed("stopped")
        PROVE  Cardinality({j \in EventsNamed("thread") :
                               j < k /\ events[j].thread = events[k].thread}) = 1
    <3> DEFINE first == {j \in EventsNamed("thread") :
                               j < k /\ events[j].thread = events[k].thread}
    <3>1. PICK j \in Named(events, "thread") : j < k /\ events[j].thread = events[k].thread
      BY <2>0 DEF Announced
    <3>2. first = {j}
      BY <2>0, <3>1 DEF Announced
    <3> QED
      BY <3>2, FS_Singleton
  <2>3. ASSUME NEW k \in EventsNamed("stopped"), NEW m \in EventsNamed("stopped")
        PROVE  events[m].thread = events[k].thread
                  <=> spans[events[m].span].key = spans[events[k].span].key
    BY <2>0 DEF Keyed, Distinct
  <2> QED
    BY <2>1, <2>2, <2>3 DEF ThreadsAreAnnouncedByBoth, ThreadsAreAnnounced
<1> QED
  BY <1>1, SessionInvCorrect, AnnounceInvCorrect, PTL

===============================================================================
