------------------------------ MODULE CertStore ------------------------------
(***************************************************************************)
(* What the certification portal promises: under each id one certificate,  *)
(* which is issued, given new results and verified in single steps.  Its   *)
(* labels and its badge are always those of its counts, and it verifies    *)
(* from its issue to its expiry, whatever results it is given.  A restart  *)
(* loses all of them.                                                      *)
(***************************************************************************)
EXTENDS Integers

CONSTANTS
    Requests, Results, NoResults, Validity,
    Forged,         \* what is presented that nobody was handed
    IdOf(_, _),     \* the id of what is certified for a request at a time
    LabelsOf(_)     \* level and status, by the counts

VARIABLES
    now,
    store,       \* id -> certificate
    handedOut,   \* the ids clients got, with the time of issue
    answer       \* the last answer to a verification

vars == <<now, store, handedOut, answer>>

Certificate(c, time) ==
    [counts |-> c, labels |-> LabelsOf(c), badge |-> LabelsOf(c), issued |-> time]

Init == store = <<>> /\ handedOut = {}

Issue ==
    /\ \E req \in Requests :
          LET new == IdOf(req, now)
          IN  /\ store' = [id \in DOMAIN store \cup {new} |->
                              IF id = new THEN Certificate(NoResults, now) ELSE store[id]]
              /\ handedOut' = handedOut \cup {[id |-> new, issued |-> now]}
    /\ UNCHANGED <<now, answer>>

Update ==
    /\ \E id \in DOMAIN store, c \in Results :
          store' = [store EXCEPT ![id] = Certificate(c, store[id].issued)]
    /\ UNCHANGED <<now, handedOut, answer>>

\* Only the id and the fingerprint of one certificate verify; one value is both.
Claims == {h.id : h \in handedOut} \cup Forged
Verify ==
    /\ \E id, fp \in Claims :
          answer' = [id          |-> id,
                     fingerprint |-> fp,
                     valid       |-> /\ id \in DOMAIN store
                                     /\ fp = id
                                     /\ now < store[id].issued + Validity,
                     time        |-> now]
    /\ UNCHANGED <<now, store, handedOut>>

Tick == now' = now + 1 /\ UNCHANGED <<store, handedOut, answer>>

Restart == store' = <<>> /\ UNCHANGED <<now, handedOut, answer>>

Next == Issue \/ Update \/ Verify \/ Tick \/ Restart

=============================================================================
