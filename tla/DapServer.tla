------------------------------ MODULE DapServer ------------------------------
(***************************************************************************)
(* exec-history-dap serve (cmd/exec-history-dap/serve.go): a debug adapter *)
(* over stdio that presents the trace of a job as a debugging session, one *)
(* stop per span.                                                          *)
(*                                                                         *)
(* The server handles one request at a time.  The client is external: it   *)
(* may send any request at any time, unless it is said to wait, and may go *)
(* away, in which case a message that cannot be written ends the server.   *)
(* Message sequence numbers and the wording of messages are left out.      *)
(***************************************************************************)
EXTENDS Integers, Sequences, FiniteSets

CONSTANTS
    Traces,      \* the traces considered: sequences of lines
    Keys,        \* the envelope ids or SDKs, whichever threads are made of
    Invalid,     \* a line of a trace that does not validate
    Waits,       \* the kinds of clients considered, a subset of BOOLEAN
    MaxLaunches, MaxCursor, MaxRefs   \* bounds of the instance

\* A span, of which matter the key of its thread and how deep its attributes
\* are nested.
Span == [key : Keys, depth : Nat]

ASSUME DapServerAssumption ==
    /\ Invalid \notin Span
    /\ \A t \in Traces : t \in Seq(Span \cup {Invalid})
    /\ Waits \subseteq BOOLEAN
    /\ MaxLaunches \in Nat /\ MaxCursor \in Nat /\ MaxRefs \in Nat

VARIABLES
    trace,       \* the trace file; it does not change
    waits,       \* does the client send launch once, and nothing that moves the
                 \* cursor until the launch has succeeded?  It does not change
    spans,       \* the spans loaded
    cursor,      \* the number of the current span, 0 before the first
    threadIDs,   \* the thread ids given to keys, in the order they were given
    varRefs,     \* what each variables reference stands for, in the order issued:
                 \* the span and the depth in it
    stopped, terminated,
    running,     \* does the server still read requests?
    launches,    \* how often launch was answered: "ok" or "failed"
    events,      \* the events sent, other than "initialized" and "process"
    shown        \* the span the last stackTrace or scopes answer showed, 0 if none,
                 \* and Unasked when the session has moved since

params == <<trace, waits>>
vars   == <<params, spans, cursor, threadIDs, varRefs, stopped, terminated, running,
            launches, events, shown>>

Unasked == -1

Init ==
    /\ trace \in Traces
    /\ waits \in Waits
    /\ spans = <<>>
    /\ cursor = 0
    /\ threadIDs = <<>>
    /\ varRefs = <<>>
    /\ stopped = FALSE /\ terminated = FALSE
    /\ running = TRUE
    /\ launches = <<>>
    /\ events = <<>>
    /\ shown = Unasked

-----------------------------------------------------------------------------

Stopped(i, tid)  == [event |-> "stopped", span |-> i, thread |-> tid]
Thread(tid)      == [event |-> "thread", thread |-> tid]
Terminated       == [event |-> "terminated"]

\* Messages are written one by one; one that cannot be written ends the server,
\* with the messages before it sent.
Send(evs) ==
    \/ events' = events \o evs /\ UNCHANGED running
    \/ \E n \in 0..Len(evs) :
          events' = events \o SubSeq(evs, 1, n) /\ running' = FALSE

\* lib.Replay (external), strict: the valid spans before the first invalid line,
\* and whether there is no such line.
ValidPrefix == {n \in 0..Len(trace) : \A k \in 1..n : trace[k] # Invalid}
Replayed    == SubSeq(trace, 1, CHOOSE n \in ValidPrefix : \A m \in ValidPrefix : m <= n)

\* Mutant: the lines are not validated.
LoadedWhole == spans \o trace

\* loadTrace: whatever was read is kept, after what an earlier launch left.
Loaded == spans \o Replayed

Launched == \E k \in DOMAIN launches : launches[k] = "ok"

\* A launch that cannot open the file fails before anything is read.
Launch ==
    /\ running
    /\ Len(launches) < (IF waits THEN 1 ELSE MaxLaunches)
    /\ \/ /\ spans' = Loaded
          /\ launches' = Append(launches, IF Replayed = trace THEN "ok" ELSE "failed")
       \/ UNCHANGED spans /\ launches' = Append(launches, "failed")
    /\ Send(<<>>)
    /\ shown' = Unasked
    /\ UNCHANGED <<params, cursor, threadIDs, varRefs, stopped, terminated>>

\* Mutant: a thread is announced on every stop, under a fresh id.
FreshThread(key) == Len(threadIDs) + 1

\* threadIDFor: the id the key has, or the next one.
ThreadIDFor(key) ==
    IF \E t \in DOMAIN threadIDs : threadIDs[t] = key
    THEN CHOOSE t \in DOMAIN threadIDs : threadIDs[t] = key
    ELSE Len(threadIDs) + 1

\* Mutants: the first stop is on the second span; continue at the end starts over.
AdvancedPastFirst == IF cursor = 0 THEN 2 ELSE cursor + 1
AdvancedAround    == IF cursor > Len(spans) THEN 1 ELSE cursor + 1

Advanced == cursor + 1

\* configurationDone, continue and next: advanceAndStop.
Advance ==
    /\ running
    /\ waits => Launched
    /\ cursor < MaxCursor
    /\ cursor' = Advanced
    /\ IF cursor' > Len(spans)
       THEN /\ stopped' = FALSE
            /\ terminated' = TRUE
            /\ Send(<<Terminated>>)
            /\ UNCHANGED threadIDs
       ELSE LET key   == spans[cursor'].key
                tid   == ThreadIDFor(key)
                fresh == tid > Len(threadIDs)
            IN  /\ threadIDs' = IF fresh THEN Append(threadIDs, key) ELSE threadIDs
                /\ stopped' = TRUE
                /\ Send((IF fresh THEN <<Thread(tid)>> ELSE <<>>) \o <<Stopped(cursor', tid)>>)
                /\ UNCHANGED terminated
    /\ shown' = Unasked
    /\ UNCHANGED <<params, spans, varRefs, launches>>

\* Mutant: currentSpan does not look at `stopped`, and stays on the last span.
LastSpan == IF spans = <<>> \/ cursor = 0 THEN 0
            ELSE IF cursor > Len(spans) THEN Len(spans) ELSE cursor

\* currentSpan: its number, 0 if there is none.
CurrentSpan == IF stopped /\ cursor \in DOMAIN spans THEN cursor ELSE 0

StackTrace ==
    /\ running
    /\ shown' = CurrentSpan
    /\ Send(<<>>)
    /\ UNCHANGED <<params, spans, cursor, threadIDs, varRefs, stopped, terminated, launches>>

\* Every scopes request issues a new reference to the current span.
Scopes ==
    /\ running
    /\ Len(varRefs) < MaxRefs
    /\ shown' = CurrentSpan
    /\ varRefs' = IF CurrentSpan = 0 THEN varRefs
                  ELSE Append(varRefs, [span |-> CurrentSpan, level |-> 0])
    /\ Send(<<>>)
    /\ UNCHANGED <<params, spans, cursor, threadIDs, stopped, terminated, launches>>

\* Mutant: a nested value is taken from the current span.
NestedInCurrent(v) == [span |-> cursor, level |-> v.level + 1]

\* What the entry of v that is itself a map stands for.
Nested(v) == [span |-> v.span, level |-> v.level + 1]

\* varsFromMap: listing a map issues a new reference to the map nested in it.
Variables(ref) ==
    /\ running
    /\ Len(varRefs) < MaxRefs
    /\ LET v == varRefs[ref]
       IN  varRefs' = IF v.level < spans[v.span].depth
                      THEN Append(varRefs, Nested(v)) ELSE varRefs
    /\ Send(<<>>)
    /\ UNCHANGED <<params, spans, cursor, threadIDs, stopped, terminated, launches, shown>>

\* disconnect and terminate; write errors are ignored, the server ends anyway.
Disconnect ==
    /\ running
    /\ running' = FALSE
    /\ \/ events' = IF terminated THEN events ELSE Append(events, Terminated)
       \/ UNCHANGED events
    /\ terminated' = TRUE
    /\ shown' = Unasked
    /\ UNCHANGED <<params, spans, cursor, threadIDs, varRefs, stopped, launches>>

\* End of input, a message with a bad frame or body, or the answer to a request
\* cannot be written.
InputEnds ==
    /\ running
    /\ running' = FALSE
    /\ UNCHANGED <<params, spans, cursor, threadIDs, varRefs, stopped, terminated,
                   launches, events, shown>>

\* initialize, threads, an unknown reference or command, a message that is no
\* request: answered, or passed over, without a change of state.
Other ==
    /\ running
    /\ Send(<<>>)
    /\ UNCHANGED <<params, spans, cursor, threadIDs, varRefs, stopped, terminated,
                   launches, shown>>

\* Not a step of the code: the process has ended.
Ended == ~running /\ UNCHANGED vars

Next ==
    \/ Launch \/ Advance \/ StackTrace \/ Scopes
    \/ \E ref \in DOMAIN varRefs : Variables(ref)
    \/ Disconnect \/ InputEnds \/ Other \/ Ended

Spec == Init /\ [][Next]_vars

-----------------------------------------------------------------------------

EventsNamed(name) == {k \in DOMAIN events : events[k].event = name}

\* The session keeps to its types: only validated spans are loaded.
TypeOK ==
    /\ trace \in Traces /\ waits \in Waits
    /\ spans \in Seq(Span)
    /\ cursor \in Nat
    /\ threadIDs \in Seq(Keys)
    /\ \A r \in DOMAIN varRefs : varRefs[r].span \in DOMAIN spans /\ varRefs[r].level \in Nat
    /\ {stopped, terminated, running} \subseteq BOOLEAN
    /\ launches \in Seq({"ok", "failed"})
    /\ shown \in {Unasked, 0} \cup DOMAIN spans

\* stackTrace and scopes show the span of the last stop, and nothing before the
\* first stop and after the end, whatever the client asked in between.
ShowsLastStop ==
    shown # Unasked =>
        LET moves == EventsNamed("stopped") \cup EventsNamed("terminated")
            last  == CHOOSE k \in moves : \A j \in moves : j <= k
        IN  shown = IF moves # {} /\ events[last].event = "stopped"
                    THEN events[last].span ELSE 0

\* The thread of a stop was announced before it, once, and two stops are on the
\* same thread exactly when their spans have the same key; so over all launches.
ThreadsAreAnnounced ==
    \A k \in EventsNamed("stopped") :
        /\ Cardinality({j \in EventsNamed("thread") :
                           j < k /\ events[j].thread = events[k].thread}) = 1
        /\ \A m \in EventsNamed("stopped") :
              events[m].thread = events[k].thread
                  <=> spans[events[m].span].key = spans[events[k].span].key

\* A variables reference, at any time after it was issued, stands for a span the
\* session has stopped on or for a value nested in one that an earlier reference
\* stands for; a client may expand what it saw at an earlier stop.
RefsAreOfStops ==
    \A r \in DOMAIN varRefs :
        /\ \E k \in EventsNamed("stopped") : events[k].span = varRefs[r].span
        /\ varRefs[r].level <= spans[varRefs[r].span].depth
        /\ varRefs[r].level > 0 =>
              \E q \in 1..r-1 : varRefs[q] = [varRefs[r] EXCEPT !.level = @ - 1]

=============================================================================
