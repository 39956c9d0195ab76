-------------------------------- MODULE Portal --------------------------------
(***************************************************************************)
(* The certification portal (badge/portal.go): an in-memory store of       *)
(* certificates behind a read-write lock, HTTP handlers that run           *)
(* concurrently, and UpdateCertificate, called with the results of a run.  *)
(*                                                                         *)
(* The store maps ids to pointers: `heap` holds the certificates, `certs`  *)
(* what the ids point to.  Issue and UpdateCertificate hold the lock for   *)
(* all they do; Get and List give it back before the handler encodes what  *)
(* they returned.  A critical section that nothing else can observe half   *)
(* done is one step; UpdateCertificate is one step per group of fields.    *)
(* The runs and their results are external, and so are the clients.        *)
(***************************************************************************)
EXTENDS Integers, Sequences, FiniteSets

CONSTANTS
    Requests,    \* what clients ask to be certified: a name and a server each
    Readers,     \* the connections on which certificates are read
    Results,     \* the results a run may have
    Forged,      \* what clients present that no certificate bears
    NoResults,   \* the placeholder that Issue is given: nothing passed of nothing
    Nil,         \* a nil pointer, no update, no answer
    Validity,    \* how long a certificate is valid, in ticks of the clock
    PerSecond,   \* ticks per second: times are formatted in seconds
    MaxTime, MaxIssued, MaxRestarts   \* bounds of the instance

Counts == [passed : Nat, failed : Nat, total : Nat]

ASSUME PortalAssumption ==
    /\ Results \subseteq Counts
    /\ Nil \notin [cert : Nat, counts : Counts]
    /\ NoResults = [passed |-> 0, failed |-> 0, total |-> 0]
    /\ Validity \in Nat /\ PerSecond \in Nat \ {0}
    /\ {MaxTime, MaxIssued, MaxRestarts} \subseteq Nat

Statuses == {"pass", "partial", "fail"}

VARIABLES
    now,        \* the clock
    certs,      \* id -> address of the certificate
    heap,       \* address -> certificate
    update,     \* the UpdateCertificate that holds the lock, or Nil
    readers,    \* reader -> Nil, or what it still has to encode and has encoded
    answer,     \* the last answer to a verification, or Nil
    handedOut,  \* the ids and fingerprints clients got, with the time of issue
    restarts    \* how often the portal was restarted

vars == <<now, certs, heap, update, readers, answer, handedOut, restarts>>

Init ==
    /\ now = 0
    /\ certs = <<>>
    /\ heap = <<>>
    /\ update = Nil
    /\ readers = [r \in Readers |-> Nil]
    /\ answer = Nil
    /\ handedOut = {}
    /\ restarts = 0

-----------------------------------------------------------------------------
(* What is derived from the results.                                       *)

\* Mutant: the bottom rung of the ladder counts as well.
LevelFromOne(c) == Cardinality({p \in {0, 40, 60, 80, 100} : 100 * c.passed >= p * c.total})

\* computeLevel: the highest level of "L0-L<level>", by the share that passed.
ComputeLevel(c) ==
    IF c.total = 0 THEN 0
    ELSE Cardinality({p \in {40, 60, 80, 100} : 100 * c.passed >= p * c.total})

\* Issue: "fail" is decided last.
IssueStatus(c) ==
    IF c.passed = 0 THEN "fail" ELSE IF c.failed > 0 THEN "partial" ELSE "pass"

\* UpdateCertificate: "pass" is decided first.
UpdateStatus(c) ==
    IF c.failed = 0 /\ c.passed > 0 THEN "pass"
    ELSE IF c.passed > 0 THEN "partial" ELSE "fail"

\* The labels of a certificate, repeated in its badge URL.
Labels(level, status) == [level |-> level, status |-> status]

\* Mutant: the time is not part of the data hashed.
UntimedFingerprint(req, c, t) ==
    [request |-> req, level |-> ComputeLevel(c), passed |-> c.passed, total |-> c.total,
     second |-> 0]

\* The data hashed; the hash, and the part of it the id consists of, are taken
\* to be different for different data, so one value stands for both.
Fingerprint(req, c, t) ==
    [request |-> req, level |-> ComputeLevel(c), passed |-> c.passed, total |-> c.total,
     second |-> t \div PerSecond]

-----------------------------------------------------------------------------
(* The store.                                                              *)

Unlocked == update = Nil

Issue(req, c) ==
    LET fp     == Fingerprint(req, c, now)
        labels == Labels(ComputeLevel(c), IssueStatus(c))
        cert   == [id |-> fp, request |-> req, counts |-> c, labels |-> labels,
                   badge |-> labels, issued |-> now, fingerprint |-> fp]
    IN  /\ heap' = Append(heap, cert)
        /\ certs' = [id \in DOMAIN certs \cup {fp} |->
                        IF id = fp THEN Len(heap) + 1 ELSE certs[id]]
        /\ handedOut' = handedOut \cup {[id |-> fp, issued |-> now]}

\* HandleCertify, for a request that has a name and a server; others are refused
\* and change nothing.
Certify ==
    /\ Unlocked
    /\ Len(heap) < MaxIssued
    /\ \E req \in Requests : Issue(req, NoResults)
    /\ UNCHANGED <<now, update, readers, answer, restarts>>

\* UpdateCertificate, first half: the id is looked up under the lock, an unknown
\* one is an error; then the counts are assigned.
UpdateCounts ==
    /\ Unlocked
    /\ \E h \in handedOut, c \in Results :
          /\ h.id \in DOMAIN certs
          /\ heap' = [heap EXCEPT ![certs[h.id]].counts = c]
          /\ update' = [cert |-> certs[h.id], counts |-> c]
    /\ UNCHANGED <<now, certs, readers, answer, handedOut, restarts>>

\* Mutants: the badge is left as it was; the fingerprint is made anew.
RelabelOnly(cert, c) ==
    [cert EXCEPT !.labels = Labels(ComputeLevel(c), UpdateStatus(c))]
RelabelAndSign(cert, c) ==
    LET labels == Labels(ComputeLevel(c), UpdateStatus(c))
    IN  [cert EXCEPT !.labels = labels, !.badge = labels,
                     !.fingerprint = Fingerprint(cert.request, c, cert.issued)]

Relabelled(cert, c) ==
    LET labels == Labels(ComputeLevel(c), UpdateStatus(c))
    IN  [cert EXCEPT !.labels = labels, !.badge = labels]

\* Second half: level, status and badge URL; the lock is given back.
UpdateLabels ==
    /\ ~Unlocked
    /\ heap' = [heap EXCEPT ![update.cert] = Relabelled(@, update.counts)]
    /\ update' = Nil
    /\ UNCHANGED <<now, certs, readers, answer, handedOut, restarts>>

\* Mutant: the fingerprint is not compared.
ValidById(id, fp) == id \in DOMAIN certs /\ now < heap[certs[id]].issued + Validity

Valid(id, fp) ==
    /\ id \in DOMAIN certs
    /\ heap[certs[id]].fingerprint = fp
    /\ now < heap[certs[id]].issued + Validity

\* HandleVerify, with any id and any fingerprint: those of a certificate, those of
\* two, or forged ones.  An empty one is refused before the store is asked.
Claims == {h.id : h \in handedOut} \cup Forged
Verify ==
    /\ Unlocked
    /\ \E id, fp \in Claims :
          answer' = [id |-> id, fingerprint |-> fp, valid |-> Valid(id, fp), time |-> now]
    /\ UNCHANGED <<now, certs, heap, update, readers, handedOut, restarts>>

-----------------------------------------------------------------------------
(* Reading certificates.                                                   *)

\* Mutant: the list is not sorted.
Unsorted(p, q) == TRUE

\* The certificates in the store, newest first.
NoOlder(p, q) == heap[p].issued >= heap[q].issued
Listings ==
    LET all == {certs[id] : id \in DOMAIN certs}
    IN  {s \in [1..Cardinality(all) -> all] :
            \A j, k \in DOMAIN s : j < k => s[j] # s[k] /\ NoOlder(s[j], s[k])}

Encoding(pointers) == [todo |-> pointers, labels |-> Nil, counts |-> Nil, done |-> <<>>]

\* Get by an id, or List: pointers are copied under the lock.
Lookup(r) ==
    /\ readers[r] = Nil
    /\ Unlocked
    /\ \/ \E id \in DOMAIN certs : readers' = [readers EXCEPT ![r] = Encoding(<<certs[id]>>)]
       \/ \E s \in Listings : readers' = [readers EXCEPT ![r] = Encoding(s)]
    /\ UNCHANGED <<now, certs, heap, update, answer, handedOut, restarts>>

\* Encoding reads the fields in their order, without the lock: level and status,
\* the counts, the badge URL.
Encode(r) ==
    LET e == readers[r]
    IN  /\ e # Nil
        /\ e.todo # <<>>
        /\ LET cert == heap[Head(e.todo)]
           IN  readers' = [readers EXCEPT ![r] =
                   IF e.labels = Nil THEN [e EXCEPT !.labels = cert.labels]
                   ELSE IF e.counts = Nil THEN [e EXCEPT !.counts = cert.counts]
                   ELSE [todo |-> Tail(e.todo), labels |-> Nil, counts |-> Nil,
                         done |-> Append(e.done, [id |-> cert.id, labels |-> e.labels,
                                                  counts |-> e.counts, badge |-> cert.badge])]]
        /\ UNCHANGED <<now, certs, heap, update, answer, handedOut, restarts>>

\* The response is sent; the reader is free for the next request.
Respond(r) ==
    /\ readers[r] # Nil
    /\ readers[r].todo = <<>>
    /\ readers' = [readers EXCEPT ![r] = Nil]
    /\ UNCHANGED <<now, certs, heap, update, answer, handedOut, restarts>>

-----------------------------------------------------------------------------

Tick ==
    /\ now < MaxTime
    /\ now' = now + 1
    /\ UNCHANGED <<certs, heap, update, readers, answer, handedOut, restarts>>

\* The portal is stopped, or crashes, at any time, and is started again: its
\* memory is lost, the clock goes on.
Restart ==
    /\ restarts < MaxRestarts
    /\ restarts' = restarts + 1
    /\ certs' = <<>>
    /\ heap' = <<>>
    /\ update' = Nil
    /\ readers' = [r \in Readers |-> Nil]
    /\ UNCHANGED <<now, answer, handedOut>>

\* Not a step of the code: the bounds of the instance are reached.
Idle == now = MaxTime /\ UNCHANGED vars

Next ==
    \/ Certify \/ UpdateCounts \/ UpdateLabels \/ Verify
    \/ \E r \in Readers : Lookup(r) \/ Encode(r) \/ Respond(r)
    \/ Tick \/ Restart \/ Idle

Spec == Init /\ [][Next]_vars

-----------------------------------------------------------------------------

Agrees(c, labels) == labels = Labels(ComputeLevel(c), UpdateStatus(c))

\* The store keeps to its types; an id points to the certificate that bears it.
TypeOK ==
    /\ now \in Nat
    /\ \A id \in DOMAIN certs : certs[id] \in DOMAIN heap /\ heap[certs[id]].id = id
    /\ \A p \in DOMAIN heap :
          /\ heap[p].counts \in Results \cup {NoResults}
          /\ heap[p].labels.status \in Statuses /\ heap[p].labels.level \in 0..4
          /\ heap[p].issued \in 0..now
    /\ update # Nil => update.cert \in DOMAIN heap
    /\ \A r \in Readers : readers[r] # Nil =>
          \A k \in DOMAIN readers[r].todo : readers[r].todo[k] \in DOMAIN heap

\* Whenever the lock is free, level, status and badge of every certificate are
\* those of its counts, whichever of Issue and UpdateCertificate set them.
StoreAgrees ==
    Unlocked => \A p \in DOMAIN heap :
        Agrees(heap[p].counts, heap[p].labels) /\ heap[p].badge = heap[p].labels

\* A certificate in a response is one that the store held: its labels and badge
\* are those of its counts.
ResponsesAgree ==
    \A r \in Readers : readers[r] # Nil =>
        \A k \in DOMAIN readers[r].done :
            LET c == readers[r].done[k]
            IN  Agrees(c.counts, c.labels) /\ c.badge = c.labels

\* What a client was handed stays verifiable until it expires, through any number
\* of updates and of other requests; only a restart ends it earlier.
VerifiableUntilExpiry ==
    restarts = 0 =>
        \A h \in handedOut : now < h.issued + Validity => Valid(h.id, h.id)

\* Nothing else verifies: no id that no client was handed, no fingerprint but the one
\* that goes with the id, whatever results the certificate was given since, and
\* neither after the expiry of the last certificate issued under that id.
NothingElseVerifies ==
    answer # Nil /\ answer.valid =>
        \E h \in handedOut :
            /\ h.id = answer.id /\ h.id = answer.fingerprint
            /\ answer.time < h.issued + Validity

\* Results are not lost: once a certificate has some, its id shows a placeholder
\* again only through an equal request within the same second, or a restart.
ResultsStay ==
    [][\A id \in DOMAIN certs :
          LET cert == heap[certs[id]]
              last == heap'[Len(heap')]
          IN  cert.counts # NoResults /\ restarts' = restarts =>
                 \/ heap'[certs'[id]].counts # NoResults
                 \/ /\ Len(heap') > Len(heap)
                    /\ last.request = cert.request
                    /\ last.issued \div PerSecond = cert.issued \div PerSecond]_vars

\* A list is in the order of issue, newest first, whatever is issued or updated
\* while it is encoded, and shows no certificate twice.
ListsNewestFirst ==
    \A r \in Readers : readers[r] # Nil =>
        LET done == readers[r].done
        IN  \A j, k \in DOMAIN done : j < k =>
               done[j].id # done[k].id /\ done[j].id.second >= done[k].id.second

-----------------------------------------------------------------------------
(* What the store promises, as the abstract specification CertStore.       *)

LabelsOf(c) == Labels(ComputeLevel(c), UpdateStatus(c))

\* The store as it will be when the update that is under way, if there is one, has
\* assigned its labels; addresses and fingerprints are left out.
Updating(p) == update # Nil /\ update.cert = p
Settled ==
    [id \in DOMAIN certs |->
        LET p == certs[id]
        IN  [counts |-> heap[p].counts,
             labels |-> IF Updating(p) THEN LabelsOf(update.counts) ELSE heap[p].labels,
             badge  |-> IF Updating(p) THEN LabelsOf(update.counts) ELSE heap[p].badge,
             issued |-> heap[p].issued]]

\* The id a request is given.
IdOf(req, time) == Fingerprint(req, NoResults, time)

Atomic == INSTANCE CertStore WITH store <- Settled

\* Under the lock the portal is a store whose certificates are issued, updated and
\* verified in single steps: nobody who takes the lock meets an update half done, or
\* an update of another certificate than the one its id names, and no update makes
\* what was handed out fail to verify (Issue, UpdateCertificate, HandleVerify).
StoreIsAtomic == Atomic!Init /\ [][Atomic!Next]_(Atomic!vars)

=============================================================================
