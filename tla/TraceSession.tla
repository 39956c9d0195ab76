---------------------------- MODULE TraceSession ----------------------------
(***************************************************************************)
(* What a debugging session over a trace promises: it stops on the spans   *)
(* of the trace in their order, on each once, and ends when all were       *)
(* shown, unless it breaks off before.  Nothing follows the end.           *)
(***************************************************************************)
EXTENDS Sequences, Naturals

VARIABLES
    recorded,   \* the valid spans of the trace; it does not change
    stops,      \* the spans the session has stopped on
    over        \* "", "ended" or "broken"

vars == <<recorded, stops, over>>

Init == stops = <<>> /\ over = ""

Stop ==
    /\ over = "" /\ Len(stops) < Len(recorded)
    /\ stops' = Append(stops, recorded[Len(stops) + 1])
    /\ UNCHANGED <<recorded, over>>

End ==
    /\ over = "" /\ stops = recorded
    /\ over' = "ended"
    /\ UNCHANGED <<recorded, stops>>

\* Also at the very moment of a stop that still gets through.
Break ==
    /\ over = ""
    /\ over' = "broken"
    /\ UNCHANGED recorded
    /\ \/ UNCHANGED stops
       \/ Len(stops) < Len(recorded) /\ stops' = Append(stops, recorded[Len(stops) + 1])

Next == Stop \/ End \/ Break

=============================================================================
