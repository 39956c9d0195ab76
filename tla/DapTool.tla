------------------------------ MODULE DapTool ------------------------------
(***************************************************************************)
(* The two commands of exec-history-dap over one trace: serve, the debug   *)
(* adapter of DapServer, and emit (cmd/exec-history-dap/main.go), which    *)
(* sends the events of a session to a client that is not asked.            *)
(*                                                                         *)
(* The emitter reads the trace line by line and sends a burst of events    *)
(* for each valid one.  Its variable references, which nothing looks up,   *)
(* are left out.                                                           *)
(***************************************************************************)
EXTENDS DapServer, Parts

VARIABLES
    command,   \* "serve" or "emit"; it does not change
    strict,    \* does emit stop at the first invalid line?  It does not change
    line       \* the number of the line emit reads next

tool == <<command, strict, line>>

ToolInit ==
    /\ Init
    /\ command \in {"serve", "emit"}
    /\ strict \in BOOLEAN
    /\ command = "serve" => ~strict
    /\ line = 1

-----------------------------------------------------------------------------
(* emit *)

Output         == [event |-> "output"]
Continued(tid) == [event |-> "continued", thread |-> tid]

Emitting == command = "emit" /\ running

Unserved == <<cursor, varRefs, stopped, launches, shown>>

\* Mutant: a span is counted by the line it is on.
SpanByLine == line

\* The number of the span that is emitted next.
SpanNumber == Len(spans) + 1

\* onSpan: the thread if it is new, a line of output, the stop, and on.
EmitSpan ==
    /\ Emitting
    /\ line \in DOMAIN trace /\ trace[line] # Invalid
    /\ LET key   == trace[line].key
           tid   == ThreadIDFor(key)
           fresh == tid > Len(threadIDs)
       IN  /\ threadIDs' = IF fresh THEN Append(threadIDs, key) ELSE threadIDs
           /\ Send((IF fresh THEN <<Thread(tid)>> ELSE <<>>)
                       \o <<Output, Stopped(SpanNumber, tid), Continued(tid)>>)
    /\ spans' = Append(spans, trace[line])
    /\ line' = line + 1
    /\ UNCHANGED <<params, command, strict, terminated, Unserved>>

\* lib.Replay (external) passes over an invalid line, or, strict, gives up.
Invalidated ==
    /\ Emitting
    /\ line \in DOMAIN trace /\ trace[line] = Invalid
    /\ IF strict THEN running' = FALSE /\ UNCHANGED line
                 ELSE line' = line + 1 /\ UNCHANGED running
    /\ UNCHANGED <<params, spans, threadIDs, events, command, strict, terminated, Unserved>>

\* terminate, and the end of the process.
EmitEnd ==
    /\ Emitting
    /\ line \notin DOMAIN trace
    /\ running' = FALSE
    /\ \E n \in 0..2 : events' = events \o SubSeq(<<Output, Terminated>>, 1, n)
    /\ terminated' = TRUE
    /\ UNCHANGED <<params, spans, threadIDs, tool, Unserved>>

\* The trace cannot be opened or read, or initialize cannot write.
EmitFails ==
    /\ Emitting
    /\ running' = FALSE
    /\ UNCHANGED <<params, spans, threadIDs, events, tool, terminated, Unserved>>

ToolNext ==
    \/ command = "serve" /\ Next /\ UNCHANGED tool
    \/ EmitSpan \/ Invalidated \/ EmitEnd \/ EmitFails
    \/ command = "emit" /\ Ended /\ UNCHANGED tool

ToolSpec == ToolInit /\ [][ToolNext]_<<vars, tool>>

-----------------------------------------------------------------------------

ValidLines == {k \in DOMAIN trace : trace[k] # Invalid}

\* The types of the session; emit has numbered what it sent by the valid lines it
\* has read, and strict stays in front of the first invalid one.
ToolTypeOK ==
    /\ TypeOK
    /\ command \in {"serve", "emit"} /\ strict \in BOOLEAN
    /\ line \in 1..Len(trace) + 1
    /\ command = "emit" =>
          spans = PartOf(trace, {k \in ValidLines : k < line})
    /\ strict => \A k \in 1..line - 1 : trace[k] # Invalid

\* The client of emit is not left behind on a stop: the thread is said to continue
\* before anything else happens ("the next span isn't queued behind a phantom
\* still paused state", onSpan).
EmittedStopsContinue ==
    command = "emit" =>
        \A k \in EventsNamed("stopped") :
            k < Len(events) => events[k + 1] = Continued(events[k].thread)

\* Thread events come before the stops and pair up with the keys of the spans, for
\* both commands, and an emitted stop continues at once (threadIDFor, onSpan).
ThreadsAreAnnouncedByBoth == ThreadsAreAnnounced /\ EmittedStopsContinue

\* The session a client is shown.
Recorded == PartOf(trace, ValidLines)
Stops    == LET s == PartOf(events, EventsNamed("stopped"))
            IN  [n \in DOMAIN s |-> spans[s[n].span]]

Session ==
    INSTANCE TraceSession WITH
        recorded <- Recorded,
        stops    <- Stops,
        over     <- IF EventsNamed("terminated") # {} /\ Len(Stops) = Len(Recorded) THEN "ended"
                    ELSE IF EventsNamed("terminated") # {} \/ ~running THEN "broken" ELSE ""

\* Both commands show a session over the trace: emit to any client, serve to one
\* that waits for its launch (TraceSession).  The stops are the valid spans, in
\* order, each once, and nothing comes after the end, also when continue is sent
\* again after it, a write fails or the trace has invalid lines (advanceAndStop,
\* onSpan, loadTrace).
Sequel == command = "emit" \/ waits => Session!Next \/ UNCHANGED Session!vars
SessionIsTrace == (command = "emit" \/ waits => Session!Init) /\ [][Sequel]_<<vars, tool>>

=============================================================================
