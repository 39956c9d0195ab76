---------------------------- MODULE Portal_proofs -----------------------------
(***************************************************************************)
(* What Portal keeps for any requests, results and readers, and without    *)
(* the bounds of the instance: the certificates in the store never         *)
(* contradict themselves, a client can verify what it was handed, and      *)
(* the store is one whose certificates change in single steps.             *)
(***************************************************************************)
EXTENDS Portal, FiniteSetTheorems, TLAPS

Prints == [request : Requests, level : Nat, passed : Nat, total : Nat, second : Nat]

Cert == [id : Prints, request : Requests, counts : Counts,
         labels : [level : Nat, status : Statuses],
         badge : [level : Nat, status : Statuses],
         issued : Nat, fingerprint : Prints]

\* The types, of which the store needs that ids and updates point into the heap.
StoreTypes ==
    /\ now \in Nat
    /\ heap \in Seq(Cert)
    /\ \A id \in DOMAIN certs : certs[id] \in DOMAIN heap
    /\ update # Nil => update.cert \in DOMAIN heap /\ update.counts \in Results

\* While an update holds the lock, its certificate already has the new counts,
\* and all others agree with theirs.
AgreesButUpdated ==
    \A p \in DOMAIN heap :
        IF update # Nil /\ p = update.cert
        THEN heap[p].counts = update.counts
        ELSE Agrees(heap[p].counts, heap[p].labels) /\ heap[p].badge = heap[p].labels

AgreeInv == StoreTypes /\ AgreesButUpdated

-----------------------------------------------------------------------------

\* Issue and UpdateCertificate decide the status in different orders, alike.
LEMMA StatusesAreEqual ==
    ASSUME NEW c \in Counts
    PROVE  IssueStatus(c) = UpdateStatus(c) /\ UpdateStatus(c) \in Statuses
BY DEF Counts, IssueStatus, UpdateStatus, Statuses

\* computeLevel yields a level.
LEMMA LevelIsNat ==
    ASSUME NEW c \in Counts
    PROVE  ComputeLevel(c) \in Nat
<1> DEFINE Rungs == {p \in {40, 60, 80, 100} : 100 * c.passed >= p * c.total}
<1>1. IsFiniteSet({40, 60, 80, 100})
  <2> HIDE DEF Rungs
  <2>1. IsFiniteSet(0 .. 100)
    <3>1. 0 \in Int /\ 100 \in Int
      OBVIOUS
    <3> QED BY <3>1, FS_Interval, Zenon
  <2>2. {40, 60, 80, 100} \subseteq 0 .. 100
    OBVIOUS
  <2> QED BY <2>1, <2>2, FS_Subset
<1>2. IsFiniteSet(Rungs)
  BY <1>1, FS_Subset
<1>3. Cardinality(Rungs) \in Nat
  BY <1>2, FS_CardinalityType
<1> QED BY <1>3 DEF ComputeLevel

\* The fingerprint is a fingerprint.
LEMMA FingerprintType ==
    ASSUME NEW req \in Requests, NEW c \in Counts, NEW t \in Nat
    PROVE  Fingerprint(req, c, t) \in Prints
<1>1. t \div PerSecond \in Nat
  BY PortalAssumption
<1> QED BY <1>1, LevelIsNat DEF Fingerprint, Prints, Counts

LEMMA PlaceholderType == NoResults \in Counts
BY PortalAssumption DEF Counts

-----------------------------------------------------------------------------

LEMMA AgreeInit == Init => AgreeInv
BY DEF Init, AgreeInv, StoreTypes, AgreesButUpdated

\* Certify adds a certificate at the end of the heap.
LEMMA CertifyAgrees == AgreeInv /\ Certify => AgreeInv'
<1> SUFFICES ASSUME AgreeInv, NEW req \in Requests, Unlocked, Issue(req, NoResults),
                    UNCHANGED <<now, update>>
             PROVE  AgreeInv'
  BY DEF Certify
<1> DEFINE fp   == Fingerprint(req, NoResults, now)
           lbs  == Labels(ComputeLevel(NoResults), IssueStatus(NoResults))
           cert == [id |-> fp, request |-> req, counts |-> NoResults, labels |-> lbs,
                    badge |-> lbs, issued |-> now, fingerprint |-> fp]
<1>1. /\ now \in Nat /\ heap \in Seq(Cert) /\ update = Nil
      /\ \A id \in DOMAIN certs : certs[id] \in DOMAIN heap
  BY DEF AgreeInv, StoreTypes, Unlocked
<1>2. fp \in Prints
  BY <1>1, FingerprintType, PlaceholderType
<1>3. lbs \in [level : Nat, status : Statuses]
  BY LevelIsNat, StatusesAreEqual, PlaceholderType DEF Labels
<1>4. cert \in Cert
  BY <1>1, <1>2, <1>3, PlaceholderType DEF Cert
<1>5. heap' = Append(heap, cert)
  BY DEF Issue
<1>6. /\ heap' \in Seq(Cert) /\ DOMAIN heap' = DOMAIN heap \cup {Len(heap) + 1}
      /\ heap'[Len(heap) + 1] = cert
      /\ \A p \in DOMAIN heap : heap'[p] = heap[p] /\ p # Len(heap) + 1
  <2> HIDE DEF cert
  <2> QED BY <1>1, <1>4, <1>5
<1>7. certs' = [id \in DOMAIN certs \cup {fp} |->
                   IF id = fp THEN Len(heap) + 1 ELSE certs[id]]
  BY DEF Issue
<1>8. StoreTypes'
  <2> HIDE DEF fp, cert
  <2>1. \A id \in DOMAIN certs' : certs'[id] \in DOMAIN heap'
    BY <1>1, <1>6, <1>7
  <2> QED BY <1>1, <1>6, <2>1 DEF StoreTypes
<1>9. Agrees(NoResults, lbs)
  BY StatusesAreEqual, PlaceholderType DEF Agrees
<1>10. AgreesButUpdated'
  <2>1. \A p \in DOMAIN heap : Agrees(heap[p].counts, heap[p].labels)
                               /\ heap[p].badge = heap[p].labels
    BY <1>1 DEF AgreeInv, AgreesButUpdated
  <2>2. cert.counts = NoResults /\ cert.labels = lbs /\ cert.badge = lbs
    OBVIOUS
  <2> HIDE DEF cert, lbs
  <2> QED BY <1>1, <1>6, <1>9, <2>1, <2>2 DEF AgreesButUpdated, Agrees
<1> QED BY <1>8, <1>10 DEF AgreeInv

\* An update takes the lock and changes the counts of one certificate.
LEMMA UpdateCountsAgrees == AgreeInv /\ UpdateCounts => AgreeInv'
<1> SUFFICES ASSUME AgreeInv, UpdateCounts PROVE AgreeInv'
  OBVIOUS
<1>1. /\ now \in Nat /\ heap \in Seq(Cert) /\ update = Nil
      /\ \A id \in DOMAIN certs : certs[id] \in DOMAIN heap
  BY DEF AgreeInv, StoreTypes, Unlocked, UpdateCounts
<1>2. PICK h \in handedOut, c \in Results :
         /\ h.id \in DOMAIN certs
         /\ heap' = [heap EXCEPT ![certs[h.id]].counts = c]
         /\ update' = [cert |-> certs[h.id], counts |-> c]
  BY DEF UpdateCounts
<1> DEFINE q == certs[h.id]
<1>3. q \in DOMAIN heap /\ c \in Counts
  BY <1>1, <1>2, PortalAssumption
<1>4. heap[q] \in Cert
  BY <1>1, <1>3
<1>5. [heap[q] EXCEPT !.counts = c] \in Cert
  BY <1>3, <1>4 DEF Cert
<1>6. /\ heap' = [heap EXCEPT ![q] = [heap[q] EXCEPT !.counts = c]]
      /\ update'.cert = q /\ update'.counts = c /\ update' # Nil
  BY <1>1, <1>2, <1>3, PortalAssumption
<1>7. /\ heap' \in Seq(Cert) /\ DOMAIN heap' = DOMAIN heap
      /\ heap'[q] = [heap[q] EXCEPT !.counts = c]
      /\ \A p \in DOMAIN heap : p # q => heap'[p] = heap[p]
  <2> HIDE DEF q
  <2> QED BY <1>1, <1>3, <1>5, <1>6
<1>8. heap'[q].counts = c
  BY <1>4, <1>7 DEF Cert
<1>9. UNCHANGED <<now, certs>>
  BY DEF UpdateCounts
<1>10. StoreTypes'
  BY <1>1, <1>3, <1>6, <1>7, <1>9 DEF StoreTypes
<1>11. AgreesButUpdated'
  <2>1. \A p \in DOMAIN heap : Agrees(heap[p].counts, heap[p].labels)
                               /\ heap[p].badge = heap[p].labels
    BY <1>1 DEF AgreeInv, AgreesButUpdated
  <2> HIDE DEF q
  <2> QED BY <1>6, <1>7, <1>8, <2>1 DEF AgreesButUpdated, Agrees
<1> QED BY <1>10, <1>11 DEF AgreeInv

\* The update sets labels and badge to those of the counts, and releases the lock.
LEMMA UpdateLabelsAgrees == AgreeInv /\ UpdateLabels => AgreeInv'
<1> SUFFICES ASSUME AgreeInv, UpdateLabels PROVE AgreeInv'
  OBVIOUS
<1> DEFINE q   == update.cert
           c   == update.counts
           lbs == Labels(ComputeLevel(c), UpdateStatus(c))
<1>1. /\ now \in Nat /\ heap \in Seq(Cert) /\ update # Nil /\ q \in DOMAIN heap
      /\ c \in Counts
      /\ \A id \in DOMAIN certs : certs[id] \in DOMAIN heap
  BY PortalAssumption DEF AgreeInv, StoreTypes, Unlocked, UpdateLabels
<1>2. lbs \in [level : Nat, status : Statuses]
  BY <1>1, LevelIsNat, StatusesAreEqual DEF Labels
<1>3. heap[q] \in Cert /\ heap[q].counts = c
  BY <1>1 DEF AgreeInv, AgreesButUpdated
<1> DEFINE new == [heap[q] EXCEPT !.labels = lbs, !.badge = lbs]
<1>4. new \in Cert /\ new.labels = lbs /\ new.badge = lbs /\ new.counts = c
  <2> HIDE DEF lbs, c, q
  <2> QED BY <1>2, <1>3 DEF Cert
<1>5. heap' = [heap EXCEPT ![q] = new] /\ update' = Nil /\ UNCHANGED <<now, certs>>
  BY DEF UpdateLabels, Relabelled
<1>6. /\ heap' \in Seq(Cert) /\ DOMAIN heap' = DOMAIN heap /\ heap'[q] = new
      /\ \A p \in DOMAIN heap : p # q => heap'[p] = heap[p]
  <2> HIDE DEF new, q
  <2> QED BY <1>1, <1>4, <1>5
<1>7. StoreTypes'
  BY <1>1, <1>5, <1>6 DEF StoreTypes
<1>8. AgreesButUpdated'
  <2>1. \A p \in DOMAIN heap : p # q => Agrees(heap[p].counts, heap[p].labels)
                                        /\ heap[p].badge = heap[p].labels
    BY DEF AgreeInv, AgreesButUpdated
  <2>2. Agrees(c, lbs)
    BY DEF Agrees
  <2> HIDE DEF new, q, c, lbs
  <2> QED BY <1>4, <1>5, <1>6, <2>1, <2>2 DEF AgreesButUpdated, Agrees
<1> QED BY <1>7, <1>8 DEF AgreeInv

LEMMA NextAgrees == AgreeInv /\ [Next]_vars => AgreeInv'
<1> SUFFICES ASSUME AgreeInv, [Next]_vars PROVE AgreeInv'
  OBVIOUS
<1>U. ASSUME UNCHANGED <<certs, heap, update>>, now' \in Nat PROVE AgreeInv'
  BY <1>U DEF AgreeInv, StoreTypes, AgreesButUpdated, Agrees
<1>0. now \in Nat
  BY DEF AgreeInv, StoreTypes
<1>1. CASE Certify
  BY <1>1, CertifyAgrees
<1>2. CASE UpdateCounts
  BY <1>2, UpdateCountsAgrees
<1>3. CASE UpdateLabels
  BY <1>3, UpdateLabelsAgrees
<1>4. CASE Verify
  BY <1>0, <1>4, <1>U DEF Verify
<1>5. ASSUME NEW r \in Readers, Lookup(r) \/ Encode(r) \/ Respond(r) PROVE AgreeInv'
  BY <1>0, <1>5, <1>U DEF Lookup, Encode, Respond
<1>6. CASE Tick
  BY <1>0, <1>6, <1>U DEF Tick
<1>7. CASE Restart
  BY <1>0, <1>7 DEF Restart, AgreeInv, StoreTypes, AgreesButUpdated
<1>8. CASE Idle \/ UNCHANGED vars
  BY <1>0, <1>8, <1>U DEF Idle, vars
<1> QED BY <1>1, <1>2, <1>3, <1>4, <1>5, <1>6, <1>7, <1>8 DEF Next

LEMMA AgreeInvCorrect == Spec => []AgreeInv
BY AgreeInit, NextAgrees, PTL DEF Spec

\* Whenever the lock is free, level, status and badge of every certificate are
\* those of its counts (StoreAgrees), whatever results come in whatever order.
THEOREM CertificatesAgree == Spec => []StoreAgrees
<1>1. AgreeInv => StoreAgrees
  BY DEF AgreeInv, AgreesButUpdated, StoreAgrees, Unlocked
<1> QED BY <1>1, AgreeInvCorrect, PTL

-----------------------------------------------------------------------------
(* Verification.                                                           *)

\* The certificate stored under an id bears it as fingerprint, and was handed out.
StoredAreHandedOut ==
    \A id \in DOMAIN certs :
        /\ heap[certs[id]].fingerprint = id
        /\ heap[certs[id]].issued <= now
        /\ \E h \in handedOut : h.id = id /\ h.issued = heap[certs[id]].issued

\* What was handed out is in the store until a restart, perhaps issued anew.
HandedOutAreStored ==
    \A h \in handedOut :
        /\ h.issued \in Nat
        /\ restarts = 0 => /\ h.id \in DOMAIN certs
                           /\ h.issued <= heap[certs[h.id]].issued

VerifyInv ==
    /\ restarts \in Nat
    /\ StoredAreHandedOut
    /\ HandedOutAreStored
    /\ NothingElseVerifies

\* No update touches the fingerprint of a certificate or the time of its issue.
LEMMA UpdatesKeepPrints ==
    ASSUME AgreeInv, UpdateCounts \/ UpdateLabels
    PROVE  \A id \in DOMAIN certs :
               /\ heap'[certs[id]].fingerprint = heap[certs[id]].fingerprint
               /\ heap'[certs[id]].issued = heap[certs[id]].issued
<1>1. heap \in Seq(Cert) /\ \A id \in DOMAIN certs : certs[id] \in DOMAIN heap
  BY DEF AgreeInv, StoreTypes
<1>2. \A p \in DOMAIN heap : heap[p] \in Cert
  BY <1>1
<1>3. \A p \in DOMAIN heap : heap'[p].fingerprint = heap[p].fingerprint
                             /\ heap'[p].issued = heap[p].issued
  <2>1. CASE UpdateCounts
    <3>1. PICK q, c : heap' = [heap EXCEPT ![q].counts = c]
      BY <2>1 DEF UpdateCounts
    <3> QED BY <1>2, <3>1 DEF Cert
  <2>2. CASE UpdateLabels
    <3>1. PICK q, l : heap' = [heap EXCEPT ![q] = [heap[q] EXCEPT !.labels = l, !.badge = l]]
      BY <2>2 DEF UpdateLabels, Relabelled
    <3> QED BY <1>2, <3>1 DEF Cert
  <2> QED BY <2>1, <2>2
<1> QED BY <1>1, <1>3

\* A step that changes none of what verification rests on.
LEMMA VerifyUntouched ==
    ASSUME VerifyInv, now \in Nat, now' \in Nat, now' >= now,
           UNCHANGED <<certs, handedOut, restarts, answer>>,
           \A id \in DOMAIN certs :
               /\ heap'[certs[id]].fingerprint = heap[certs[id]].fingerprint
               /\ heap'[certs[id]].issued = heap[certs[id]].issued
               /\ heap[certs[id]].issued \in Nat
    PROVE  VerifyInv'
<1>1. StoredAreHandedOut'
  BY DEF VerifyInv, StoredAreHandedOut
<1>2. HandedOutAreStored'
  BY DEF VerifyInv, HandedOutAreStored
<1> QED BY <1>1, <1>2 DEF VerifyInv, NothingElseVerifies

\* A certificate is stored under the id handed out, in place of one that cannot
\* be younger.
LEMMA CertifyVerifies == ASSUME AgreeInv, VerifyInv, Certify PROVE VerifyInv'
<1>1. PICK req \in Requests : Issue(req, NoResults)
  BY DEF Certify
<1> DEFINE fp == Fingerprint(req, NoResults, now)
<1>2. /\ now \in Nat /\ heap \in Seq(Cert)
      /\ \A id \in DOMAIN certs : certs[id] \in DOMAIN heap
      /\ UNCHANGED <<now, answer, restarts>>
  BY DEF AgreeInv, StoreTypes, Certify
<1>3. PICK cert : /\ heap' = Append(heap, cert)
                  /\ cert.fingerprint = fp /\ cert.issued = now
  BY <1>1 DEF Issue
<1>4. /\ certs' = [id \in DOMAIN certs \cup {fp} |->
                      IF id = fp THEN Len(heap) + 1 ELSE certs[id]]
      /\ handedOut' = handedOut \cup {[id |-> fp, issued |-> now]}
  BY <1>1 DEF Issue
<1> HIDE DEF fp
<1>5. /\ heap'[Len(heap) + 1] = cert
      /\ \A p \in DOMAIN heap : heap'[p] = heap[p]
  <2>1. Len(heap) \in Nat /\ DOMAIN heap = 1 .. Len(heap)
    BY <1>2
  <2> QED BY <1>2, <1>3, <2>1
<1>6. /\ fp \in DOMAIN certs' /\ heap'[certs'[fp]] = cert
      /\ \A id \in DOMAIN certs : id # fp =>
            id \in DOMAIN certs' /\ heap'[certs'[id]] = heap[certs[id]]
      /\ \A id \in DOMAIN certs' : id = fp \/ id \in DOMAIN certs
  BY <1>2, <1>4, <1>5
<1>7. \A id \in DOMAIN certs : heap[certs[id]].issued \in Nat /\ heap[certs[id]].issued <= now
  <2>1. \A p \in DOMAIN heap : heap[p] \in Cert
    BY <1>2
  <2> QED BY <1>2, <2>1 DEF Cert, VerifyInv, StoredAreHandedOut
<1>8. StoredAreHandedOut'
  <2> SUFFICES ASSUME NEW id \in DOMAIN certs'
               PROVE  LET c == heap'[certs'[id]]
                      IN  /\ c.fingerprint = id /\ c.issued <= now
                          /\ \E h \in handedOut' : h.id = id /\ h.issued = c.issued
    BY <1>2 DEF StoredAreHandedOut
  <2>1. CASE id = fp
    <3> DEFINE h == [id |-> fp, issued |-> now]
    <3>1. h \in handedOut' /\ h.id = fp /\ h.issued = now
      BY <1>4
    <3>2. heap'[certs'[id]] = cert /\ cert.fingerprint = fp /\ cert.issued = now /\ now \in Nat
      BY <1>2, <1>3, <1>6, <2>1
    <3> HIDE DEF h
    <3> QED BY <2>1, <3>1, <3>2
  <2>2. CASE id # fp
    <3>1. id \in DOMAIN certs /\ heap'[certs'[id]] = heap[certs[id]]
      BY <1>6, <2>2
    <3> QED BY <1>4, <3>1 DEF VerifyInv, StoredAreHandedOut
  <2> QED BY <2>1, <2>2
<1>9. HandedOutAreStored'
  BY <1>2, <1>3, <1>4, <1>6, <1>7 DEF VerifyInv, HandedOutAreStored
<1>10. NothingElseVerifies'
  BY <1>2, <1>4 DEF VerifyInv, NothingElseVerifies
<1> QED BY <1>2, <1>8, <1>9, <1>10 DEF VerifyInv

LEMMA NextVerifies == ASSUME AgreeInv, VerifyInv, [Next]_vars PROVE VerifyInv'
<1>0. /\ now \in Nat
      /\ \A id \in DOMAIN certs : heap[certs[id]].issued \in Nat
  <2>1. heap \in Seq(Cert) /\ now \in Nat /\ \A id \in DOMAIN certs : certs[id] \in DOMAIN heap
    BY DEF AgreeInv, StoreTypes
  <2>2. \A p \in DOMAIN heap : heap[p] \in Cert
    BY <2>1
  <2> QED BY <2>1, <2>2 DEF Cert
<1>1. CASE Certify
  BY <1>1, CertifyVerifies
<1>2. CASE UpdateCounts \/ UpdateLabels
  <2>1. UNCHANGED <<now, certs, handedOut, restarts, answer>>
    BY <1>2 DEF UpdateCounts, UpdateLabels
  <2> QED BY <1>0, <1>2, <2>1, UpdatesKeepPrints, VerifyUntouched
<1>3. CASE Verify
  <2>1. PICK id, fp \in Claims :
           answer' = [id |-> id, fingerprint |-> fp, valid |-> Valid(id, fp), time |-> now]
    BY <1>3 DEF Verify
  <2>2. UNCHANGED <<now, certs, heap, handedOut, restarts>>
    BY <1>3 DEF Verify
  <2>3. NothingElseVerifies'
    <3> SUFFICES ASSUME answer'.valid
                 PROVE  \E h \in handedOut : /\ h.id = id /\ h.id = fp
                                             /\ now < h.issued + Validity
      BY <2>1, <2>2 DEF NothingElseVerifies
    <3>1. Valid(id, fp)
      BY <2>1
    <3> QED BY <3>1 DEF Valid, VerifyInv, StoredAreHandedOut
  <2>4. StoredAreHandedOut' /\ HandedOutAreStored'
    BY <2>2 DEF VerifyInv, StoredAreHandedOut, HandedOutAreStored
  <2> QED BY <2>2, <2>3, <2>4 DEF VerifyInv
<1>4. CASE Restart
  <2>1. certs' = <<>> /\ restarts' = restarts + 1 /\ UNCHANGED <<now, answer, handedOut>>
    BY <1>4 DEF Restart
  <2>2. DOMAIN certs' = {} /\ restarts' \in Nat /\ restarts' # 0
    BY <2>1 DEF VerifyInv
  <2> QED
    BY <2>1, <2>2 DEF VerifyInv, StoredAreHandedOut, HandedOutAreStored, NothingElseVerifies
<1>5. CASE Tick \/ Idle \/ UNCHANGED vars \/ \E r \in Readers : Lookup(r) \/ Encode(r) \/ Respond(r)
  <2>1. UNCHANGED <<certs, heap, handedOut, restarts, answer>> /\ (now' = now \/ now' = now + 1)
    BY <1>5 DEF Tick, Idle, vars, Lookup, Encode, Respond
  <2> QED BY <1>0, <2>1, VerifyUntouched
<1> QED BY <1>1, <1>2, <1>3, <1>4, <1>5 DEF Next

LEMMA VerifyInvCorrect == Spec => [](AgreeInv /\ VerifyInv)
<1>1. Init => VerifyInv
  BY DEF Init, VerifyInv, StoredAreHandedOut, HandedOutAreStored, NothingElseVerifies
<1>2. AgreeInv /\ VerifyInv /\ [Next]_vars => VerifyInv'
  BY NextVerifies
<1> QED BY <1>1, <1>2, AgreeInvCorrect, PTL DEF Spec

\* What a client was handed verifies until it expires, through any number of
\* updates, and of certificates issued under other ids or the same.
THEOREM HandedOutVerifies == Spec => []VerifiableUntilExpiry
<1>1. AgreeInv /\ VerifyInv => VerifiableUntilExpiry
  <2> SUFFICES ASSUME AgreeInv, VerifyInv, restarts = 0, NEW h \in handedOut,
                      now < h.issued + Validity
               PROVE  Valid(h.id, h.id)
    BY DEF VerifiableUntilExpiry
  <2>1. h.id \in DOMAIN certs /\ heap[certs[h.id]].fingerprint = h.id
    BY DEF VerifyInv, HandedOutAreStored, StoredAreHandedOut
  <2>2. h.issued <= heap[certs[h.id]].issued /\ h.issued \in Nat
    BY DEF VerifyInv, HandedOutAreStored
  <2>3. heap[certs[h.id]].issued \in Nat /\ now \in Nat /\ Validity \in Nat
    <3>1. heap \in Seq(Cert) /\ now \in Nat /\ certs[h.id] \in DOMAIN heap
      BY <2>1 DEF AgreeInv, StoreTypes
    <3>2. heap[certs[h.id]] \in Cert
      BY <3>1
    <3> QED BY <3>1, <3>2, PortalAssumption DEF Cert
  <2>4. now < heap[certs[h.id]].issued + Validity
    BY <2>2, <2>3
  <2> QED BY <2>1, <2>4 DEF Valid
<1> QED BY <1>1, VerifyInvCorrect, PTL

\* Whatever id and fingerprint are presented, forged ones and those of two certificates
\* among them, only the pair of a certificate that was handed out verifies, and only
\* before that expires (NothingElseVerifies).
THEOREM OnlyHandedOutVerifies == Spec => []NothingElseVerifies
<1>1. VerifyInv => NothingElseVerifies
  BY DEF VerifyInv
<1> QED BY <1>1, VerifyInvCorrect, PTL

-----------------------------------------------------------------------------
(* What readers see, and what stays in the store.                          *)

\* Division rounds down, so it keeps the order.
LEMMA SecondsKeepOrder ==
    ASSUME NEW a \in Nat, NEW b \in Nat, a >= b
    PROVE  a \div PerSecond >= b \div PerSecond /\ a \div PerSecond \in Nat
<1>1. PerSecond \in Nat /\ PerSecond > 0
  BY PortalAssumption
<1> DEFINE x == a \div PerSecond
           y == b \div PerSecond
<1>2. /\ x \in Nat /\ PerSecond * x <= a /\ a < PerSecond * x + PerSecond
      /\ y \in Nat /\ PerSecond * y <= b
  BY <1>1
<1> HIDE DEF x, y
<1>3. ASSUME x < y PROVE FALSE
  <2>1. y >= x + 1
    BY <1>2, <1>3
  <2>2. PICK d \in Nat : y = x + 1 + d
    BY <1>2, <2>1
  <2>3. PerSecond * y = PerSecond * x + PerSecond + PerSecond * d
    BY <1>1, <1>2, <2>2
  <2>4. PerSecond * d \in Nat /\ PerSecond * x \in Nat
    BY <1>1, <1>2
  <2> QED
    BY <1>1, <1>2, <2>3, <2>4
<1>4. x >= y
  BY <1>2, <1>3
<1> QED
  BY <1>2, <1>4 DEF x, y

-----------------------------------------------------------------------------
(* What a certificate keeps from its issue on.                             *)

\* The ladder has four rungs.
LEMMA LevelBound ==
    ASSUME NEW c \in Counts
    PROVE  ComputeLevel(c) \in 0 .. 4
<1> DEFINE Rungs == {p \in {40, 60, 80, 100} : 100 * c.passed >= p * c.total}
<1>1. IsFiniteSet({40, 60, 80, 100}) /\ Cardinality({40, 60, 80, 100}) = 4
  <2> HIDE DEF Rungs
  <2>1. IsFiniteSet({}) /\ Cardinality({}) = 0
    BY FS_EmptySet
  <2>2. IsFiniteSet({40}) /\ Cardinality({40}) = 1
    BY FS_Singleton
  <2>3. IsFiniteSet({40} \cup {60}) /\ Cardinality({40} \cup {60}) = 2
    BY <2>2, FS_AddElement
  <2>4. {40} \cup {60} = {40, 60}
    OBVIOUS
  <2>5. IsFiniteSet({40, 60} \cup {80}) /\ Cardinality({40, 60} \cup {80}) = 3
    BY <2>3, <2>4, FS_AddElement
  <2>6. {40, 60} \cup {80} = {40, 60, 80}
    OBVIOUS
  <2>7. /\ IsFiniteSet({40, 60, 80} \cup {100})
        /\ Cardinality({40, 60, 80} \cup {100}) = 4
    BY <2>5, <2>6, FS_AddElement
  <2>8. {40, 60, 80} \cup {100} = {40, 60, 80, 100}
    OBVIOUS
  <2> QED
    BY <2>7, <2>8
<1>2. /\ Rungs \subseteq {40, 60, 80, 100} /\ IsFiniteSet(Rungs)
      /\ Cardinality(Rungs) <= Cardinality({40, 60, 80, 100})
  BY <1>1, FS_Subset
<1>3. Cardinality(Rungs) \in Nat
  BY <1>2, FS_CardinalityType
<1> HIDE DEF Rungs
<1>4. Cardinality(Rungs) \in 0 .. 4
  BY <1>1, <1>2, <1>3
<1> QED
  BY <1>4 DEF ComputeLevel, Rungs

\* An id is the fingerprint of the certificate's issue; what else changes later
\* stays among the results and the levels there are.
IssuedCerts ==
    /\ \A id \in DOMAIN certs : heap[certs[id]].id = id
    /\ \A p \in DOMAIN heap :
          /\ heap[p].id.request = heap[p].request
          /\ heap[p].id.second = heap[p].issued \div PerSecond
          /\ heap[p].issued <= now
          /\ heap[p].labels.level \in 0 .. 4
          /\ heap[p].counts \in Results \cup {NoResults}

\* The types of the heap.
LEMMA HeapTypes ==
    ASSUME AgreeInv
    PROVE  /\ now \in Nat /\ heap \in Seq(Cert)
           /\ Len(heap) \in Nat /\ DOMAIN heap = 1 .. Len(heap)
           /\ \A p \in DOMAIN heap : heap[p] \in Cert
           /\ \A id \in DOMAIN certs : certs[id] \in DOMAIN heap
<1>1. now \in Nat /\ heap \in Seq(Cert) /\ \A id \in DOMAIN certs : certs[id] \in DOMAIN heap
  BY DEF AgreeInv, StoreTypes
<1> QED
  BY <1>1

\* A new certificate stands behind the others.
LEMMA CertifyAppends ==
    ASSUME AgreeInv, Certify
    PROVE  \E req \in Requests :
             LET fp == Fingerprint(req, NoResults, now)
             IN  /\ DOMAIN heap' = DOMAIN heap \cup {Len(heap) + 1} /\ Len(heap') = Len(heap) + 1
                 /\ \A p \in DOMAIN heap : heap'[p] = heap[p]
                 /\ heap'[Len(heap) + 1].id = fp
                 /\ heap'[Len(heap) + 1].request = req
                 /\ heap'[Len(heap) + 1].issued = now
                 /\ heap'[Len(heap) + 1].counts = NoResults
                 /\ heap'[Len(heap) + 1].labels.level = ComputeLevel(NoResults)
                 /\ certs' = [id \in DOMAIN certs \cup {fp} |->
                                IF id = fp THEN Len(heap) + 1 ELSE certs[id]]
<1>1. PICK req \in Requests : Issue(req, NoResults)
  BY DEF Certify
<1> DEFINE fp == Fingerprint(req, NoResults, now)
           lv == ComputeLevel(NoResults)
<1>2. PICK cert : /\ heap' = Append(heap, cert)
                  /\ cert.id = fp /\ cert.request = req /\ cert.issued = now
                  /\ cert.counts = NoResults /\ cert.labels.level = lv
  BY <1>1 DEF Issue, Labels
<1>3. certs' = [id \in DOMAIN certs \cup {fp} |-> IF id = fp THEN Len(heap) + 1 ELSE certs[id]]
  BY <1>1 DEF Issue
<1> HIDE DEF fp, lv
<1>4. /\ DOMAIN heap' = DOMAIN heap \cup {Len(heap) + 1} /\ Len(heap') = Len(heap) + 1
      /\ \A p \in DOMAIN heap : heap'[p] = heap[p]
      /\ heap'[Len(heap) + 1] = cert
  BY <1>2, HeapTypes
<1> QED
  BY <1>2, <1>3, <1>4 DEF fp, lv

\* An update leaves everything but results and labels as it is.
LEMMA UpdatesKeepIds ==
    ASSUME AgreeInv, UpdateCounts \/ UpdateLabels
    PROVE  /\ DOMAIN heap' = DOMAIN heap
           /\ \A p \in DOMAIN heap :
                 /\ heap'[p].id = heap[p].id
                 /\ heap'[p].request = heap[p].request
                 /\ heap'[p].issued = heap[p].issued
                 /\ heap'[p].counts = heap[p].counts \/ heap'[p].counts \in Results
                 /\ \/ heap'[p].labels.level = heap[p].labels.level
                    \/ heap'[p].labels.level \in 0 .. 4
<1>1. CASE UpdateCounts
  <2>1. PICK h \in handedOut, c \in Results :
            heap' = [heap EXCEPT ![certs[h.id]].counts = c]
    BY <1>1 DEF UpdateCounts
  <2> QED
    BY <2>1, HeapTypes DEF Cert
<1>2. CASE UpdateLabels
  <2> DEFINE q   == update.cert
             lbs == Labels(ComputeLevel(update.counts), UpdateStatus(update.counts))
  <2>1. heap' = [heap EXCEPT ![q] = [heap[q] EXCEPT !.labels = lbs, !.badge = lbs]]
    BY <1>2 DEF UpdateLabels, Relabelled
  <2>2. lbs.level \in 0 .. 4
    <3>1. update.counts \in Counts
      BY <1>2, PortalAssumption DEF UpdateLabels, Unlocked, AgreeInv, StoreTypes
    <3>2. lbs.level = ComputeLevel(update.counts)
      BY DEF Labels
    <3> QED
      BY <3>1, <3>2, LevelBound
  <2> HIDE DEF q, lbs
  <2> QED
    BY <2>1, <2>2, HeapTypes DEF Cert
<1> QED
  BY <1>1, <1>2

LEMMA NextIssued ==
    ASSUME AgreeInv, IssuedCerts, [Next]_vars
    PROVE  IssuedCerts'
<1>1. CASE Certify
  <2>1. PICK req \in Requests :
           LET fp == Fingerprint(req, NoResults, now)
           IN  /\ DOMAIN heap' = DOMAIN heap \cup {Len(heap) + 1}
               /\ \A p \in DOMAIN heap : heap'[p] = heap[p]
               /\ heap'[Len(heap) + 1].id = fp
               /\ heap'[Len(heap) + 1].request = req
               /\ heap'[Len(heap) + 1].issued = now
               /\ heap'[Len(heap) + 1].counts = NoResults
               /\ heap'[Len(heap) + 1].labels.level = ComputeLevel(NoResults)
               /\ certs' = [id \in DOMAIN certs \cup {fp} |->
                              IF id = fp THEN Len(heap) + 1 ELSE certs[id]]
    BY <1>1, CertifyAppends
  <2> DEFINE fp == Fingerprint(req, NoResults, now)
  <2>2. fp.request = req /\ fp.second = now \div PerSecond
    BY DEF Fingerprint
  <2>3. now' = now /\ now \in Nat /\ \A id \in DOMAIN certs : certs[id] \in DOMAIN heap
    BY <1>1, HeapTypes DEF Certify
  <2>4. ComputeLevel(NoResults) \in 0 .. 4
    BY LevelBound, PlaceholderType
  <2> HIDE DEF fp
  <2>5. \A id \in DOMAIN certs' : heap'[certs'[id]].id = id
    BY <2>1, <2>3 DEF IssuedCerts, fp
  <2>6. ASSUME NEW p \in DOMAIN heap'
        PROVE  /\ heap'[p].id.request = heap'[p].request
               /\ heap'[p].id.second = heap'[p].issued \div PerSecond
               /\ heap'[p].issued <= now
               /\ heap'[p].labels.level \in 0 .. 4
               /\ heap'[p].counts \in Results \cup {NoResults}
    <3>1. CASE p \in DOMAIN heap
      BY <2>1, <3>1 DEF IssuedCerts
    <3>2. CASE p = Len(heap) + 1
      <4>1. /\ heap'[p].id = fp /\ heap'[p].request = req /\ heap'[p].issued = now
            /\ heap'[p].counts = NoResults
            /\ heap'[p].labels.level = ComputeLevel(NoResults)
        BY <2>1, <3>2 DEF fp
      <4>2. now <= now
        BY <2>3
      <4> QED
        BY <2>2, <2>4, <4>1, <4>2
    <3> QED
      BY <2>1, <3>1, <3>2
  <2> QED
    BY <2>3, <2>5, <2>6 DEF IssuedCerts
<1>2. CASE UpdateCounts \/ UpdateLabels
  <2>1. UNCHANGED <<certs, now>> /\ \A id \in DOMAIN certs : certs[id] \in DOMAIN heap
    BY <1>2, HeapTypes DEF UpdateCounts, UpdateLabels
  <2> QED
    BY <1>2, <2>1, UpdatesKeepIds DEF IssuedCerts
<1>3. CASE Restart
  BY <1>3 DEF Restart, IssuedCerts
<1>4. CASE UNCHANGED <<certs, heap>> /\ now' \in Nat /\ now' >= now
  <2>1. \A p \in DOMAIN heap : heap[p].issued \in Nat
    BY HeapTypes DEF Cert
  <2>2. \A p \in DOMAIN heap : heap[p].issued <= now'
    BY <1>4, <2>1, HeapTypes DEF IssuedCerts
  <2> QED
    BY <1>4, <2>2 DEF IssuedCerts
<1>5. CASE Verify \/ Tick \/ Idle \/ UNCHANGED vars
              \/ \E r \in Readers : Lookup(r) \/ Encode(r) \/ Respond(r)
  <2>1. UNCHANGED <<certs, heap>> /\ (now' = now \/ now' = now + 1)
    BY <1>5 DEF Verify, Tick, Idle, vars, Lookup, Encode, Respond
  <2>2. now' \in Nat /\ now' >= now
    BY <2>1, HeapTypes
  <2> QED
    BY <1>4, <2>1, <2>2
<1> QED
  BY <1>1, <1>2, <1>3, <1>5 DEF Next

LEMMA IssuedCorrect == Spec => [](AgreeInv /\ IssuedCerts)
<1>1. Init => IssuedCerts
  BY DEF Init, IssuedCerts
<1>2. AgreeInv /\ IssuedCerts /\ [Next]_vars => IssuedCerts'
  BY NextIssued
<1> QED
  BY <1>1, <1>2, AgreeInvCorrect, PTL DEF Spec

\* Once a certificate has results, its id shows a placeholder again only through an
\* equal request within the same second or a restart (ResultsStay), if every run
\* has at least one test.
THEOREM ResultsAreNotLost ==
    ASSUME NoResults \notin Results
    PROVE  Spec => ResultsStay
<1> DEFINE Stays == \A id \in DOMAIN certs :
              LET cert == heap[certs[id]]
                  last == heap'[Len(heap')]
              IN  cert.counts # NoResults /\ restarts' = restarts =>
                     \/ heap'[certs'[id]].counts # NoResults
                     \/ /\ Len(heap') > Len(heap)
                        /\ last.request = cert.request
                        /\ last.issued \div PerSecond = cert.issued \div PerSecond
<1>1. ASSUME AgreeInv, IssuedCerts, restarts \in Nat, [Next]_vars PROVE Stays
  <2>0. \A id \in DOMAIN certs : certs[id] \in DOMAIN heap
    BY <1>1, HeapTypes
  <2>1. CASE Certify
    <3>1. PICK req \in Requests :
             LET fp == Fingerprint(req, NoResults, now)
             IN  /\ Len(heap') = Len(heap) + 1
                 /\ \A p \in DOMAIN heap : heap'[p] = heap[p]
                 /\ heap'[Len(heap) + 1].request = req
                 /\ heap'[Len(heap) + 1].issued = now
                 /\ certs' = [id \in DOMAIN certs \cup {fp} |->
                                IF id = fp THEN Len(heap) + 1 ELSE certs[id]]
      BY <1>1, <2>1, CertifyAppends
    <3> DEFINE fp == Fingerprint(req, NoResults, now)
    <3>2. fp.request = req /\ fp.second = now \div PerSecond
      BY DEF Fingerprint
    <3>3. Len(heap') > Len(heap)
      BY <1>1, <3>1, HeapTypes
    <3> HIDE DEF fp
    <3> SUFFICES ASSUME NEW id \in DOMAIN certs, heap[certs[id]].counts # NoResults
                 PROVE  \/ heap'[certs'[id]].counts # NoResults
                        \/ /\ heap'[Len(heap')].request = heap[certs[id]].request
                           /\ heap'[Len(heap')].issued \div PerSecond
                                 = heap[certs[id]].issued \div PerSecond
      BY <3>3
    <3>4. CASE id # fp
      BY <2>0, <3>1, <3>4 DEF fp
    <3>5. CASE id = fp
      <4>1. heap[certs[id]].request = req
            /\ heap[certs[id]].issued \div PerSecond = now \div PerSecond
        BY <1>1, <2>0, <3>2, <3>5 DEF IssuedCerts
      <4> QED
        BY <3>1, <4>1
    <3> QED
      BY <3>4, <3>5
  <2>2. CASE UpdateCounts \/ UpdateLabels
    <3>1. certs' = certs
      BY <2>2 DEF UpdateCounts, UpdateLabels
    <3>2. \A p \in DOMAIN heap : heap'[p].counts = heap[p].counts \/ heap'[p].counts \in Results
      BY <1>1, <2>2, UpdatesKeepIds
    <3> QED
      BY <2>0, <3>1, <3>2
  <2>3. CASE Restart
    <3>1. restarts' # restarts
      BY <2>3, <1>1 DEF Restart
    <3> QED
      BY <3>1
  <2>4. CASE Verify \/ Tick \/ Idle \/ UNCHANGED vars
              \/ \E r \in Readers : Lookup(r) \/ Encode(r) \/ Respond(r)
    <3>1. UNCHANGED <<certs, heap>>
      BY <2>4 DEF Verify, Tick, Idle, vars, Lookup, Encode, Respond
    <3> QED
      BY <3>1
  <2> QED
    BY <1>1, <2>1, <2>2, <2>3, <2>4 DEF Next
<1>2. AgreeInv /\ IssuedCerts /\ VerifyInv /\ [Next]_vars => [Stays]_vars
  BY <1>1 DEF VerifyInv
<1> QED
  BY <1>2, IssuedCorrect, VerifyInvCorrect, PTL DEF Spec, ResultsStay

-----------------------------------------------------------------------------
(* Readers.                                                                *)

LabelSet == [level : Nat, status : Statuses]
Entries  == [id : Prints, labels : LabelSet, counts : Counts, badge : LabelSet]
Reads    == [todo : Seq(Nat), labels : LabelSet \cup {Nil}, counts : Counts \cup {Nil},
             done : Seq(Entries)]

Newer(a, b) == a # b /\ a.second >= b.second

\* What is encoded and what is still to be encoded are in order, and all of it is
\* in the heap.
InOrder(e) ==
    /\ \A k \in DOMAIN e.todo : e.todo[k] \in DOMAIN heap
    /\ \A j, k \in DOMAIN e.todo : j < k => Newer(heap[e.todo[j]].id, heap[e.todo[k]].id)
    /\ \A j \in DOMAIN e.done, k \in DOMAIN e.todo : Newer(e.done[j].id, heap[e.todo[k]].id)
    /\ \A j, k \in DOMAIN e.done : j < k => Newer(e.done[j].id, e.done[k].id)

ReadInv ==
    /\ readers \in [Readers -> Reads \cup {Nil}]
    /\ \A r \in Readers : readers[r] # Nil => InOrder(readers[r])

\* A list refers to different certificates, the younger ones first.
LEMMA ListingsInOrder ==
    ASSUME AgreeInv, IssuedCerts, NEW s \in Listings
    PROVE  Encoding(s) \in Reads /\ InOrder(Encoding(s))
<1> DEFINE all == {certs[id] : id \in DOMAIN certs}
<1>0. /\ Len(heap) \in Nat /\ DOMAIN heap = 1 .. Len(heap)
      /\ \A id \in DOMAIN certs : certs[id] \in DOMAIN heap
      /\ \A p \in DOMAIN heap : heap[p] \in Cert
  BY HeapTypes
<1>1. all \subseteq 1 .. Len(heap)
  BY <1>0
<1>2. Cardinality(all) \in Nat
  <2> HIDE DEF all
  <2>1. IsFiniteSet(1 .. Len(heap))
    <3>1. 1 \in Int /\ Len(heap) \in Int
      BY <1>0
    <3> QED
      BY <3>1, FS_Interval, Zenon
  <2> QED
    BY <1>1, <2>1, FS_Subset, FS_CardinalityType
<1>3. /\ s \in [1 .. Cardinality(all) -> all]
      /\ \A j, k \in DOMAIN s : j < k => s[j] # s[k] /\ NoOlder(s[j], s[k])
  BY DEF Listings
<1>4. s \in Seq(Nat) /\ \A k \in DOMAIN s : s[k] \in DOMAIN heap /\ s[k] \in all
  <2> HIDE DEF all
  <2>0. \A k \in 1 .. Cardinality(all) : s[k] \in all
    BY <1>3
  <2>1. \A k \in 1 .. Cardinality(all) : s[k] \in all /\ s[k] \in 1 .. Len(heap) /\ s[k] \in Nat
    <3>1. \A a \in all : a \in 1 .. Len(heap) /\ a \in Nat
      BY <1>0, <1>1
    <3> QED
      BY <2>0, <3>1
  <2>2. s \in [1 .. Cardinality(all) -> Nat]
    BY <1>3, <2>1
  <2> QED
    BY <1>0, <1>2, <1>3, <2>1, <2>2
<1>5. \A j, k \in DOMAIN s : j < k => Newer(heap[s[j]].id, heap[s[k]].id)
  <2> SUFFICES ASSUME NEW j \in DOMAIN s, NEW k \in DOMAIN s, j < k
               PROVE  Newer(heap[s[j]].id, heap[s[k]].id)
    OBVIOUS
  <2>1. s[j] # s[k] /\ heap[s[j]].issued >= heap[s[k]].issued
    BY <1>3 DEF NoOlder
  <2>2. PICK x \in DOMAIN certs, y \in DOMAIN certs : s[j] = certs[x] /\ s[k] = certs[y]
    BY <1>4
  <2>3. heap[s[j]].id = x /\ heap[s[k]].id = y
    BY <2>2 DEF IssuedCerts
  <2>4. x # y
    BY <2>1, <2>2
  <2>5. heap[s[j]].issued \in Nat /\ heap[s[k]].issued \in Nat
    BY <1>0, <1>4 DEF Cert
  <2>6. heap[s[j]].issued \div PerSecond >= heap[s[k]].issued \div PerSecond
    BY <2>1, <2>5, SecondsKeepOrder
  <2>7. heap[s[j]].id.second >= heap[s[k]].id.second
    BY <1>4, <2>6 DEF IssuedCerts
  <2> QED
    BY <2>3, <2>4, <2>7 DEF Newer
<1>6. /\ Encoding(s).todo = s /\ Encoding(s).done = <<>>
      /\ Encoding(s).labels = Nil /\ Encoding(s).counts = Nil
      /\ Encoding(s) = [todo |-> s, labels |-> Nil, counts |-> Nil, done |-> <<>>]
  BY DEF Encoding
<1>7. Encoding(s) \in Reads
  BY <1>4, <1>6 DEF Reads
<1>8. DOMAIN Encoding(s).done = {}
  BY <1>6
<1> QED
  BY <1>4, <1>5, <1>6, <1>7, <1>8 DEF InOrder

\* So does the answer to a request for one certificate.
LEMMA OneInOrder ==
    ASSUME AgreeInv, NEW id \in DOMAIN certs
    PROVE  Encoding(<<certs[id]>>) \in Reads /\ InOrder(Encoding(<<certs[id]>>))
<1>1. certs[id] \in DOMAIN heap /\ certs[id] \in Nat
  BY HeapTypes
<1> DEFINE s == <<certs[id]>>
<1>2. s \in Seq(Nat) /\ DOMAIN s = {1} /\ s[1] = certs[id]
  BY <1>1
<1>3. /\ Encoding(s).todo = s /\ Encoding(s).done = <<>> /\ DOMAIN <<>> = {}
      /\ Encoding(s) = [todo |-> s, labels |-> Nil, counts |-> Nil, done |-> <<>>]
  BY DEF Encoding
<1> HIDE DEF s
<1>4. Encoding(s) \in Reads
  BY <1>2, <1>3 DEF Reads
<1>5. \A j, k \in DOMAIN s : ~(j < k)
  BY <1>2
<1>6. InOrder(Encoding(s))
  BY <1>1, <1>2, <1>3, <1>5 DEF InOrder
<1> QED
  BY <1>4, <1>6 DEF s

\* A certificate moves from what is to be encoded to the end of what is.
LEMMA EncodedInOrder ==
    ASSUME AgreeInv, NEW e \in Reads, InOrder(e), e.todo # <<>>,
           e.labels # Nil, e.counts # Nil, NEW x \in Entries,
           x.id = heap[Head(e.todo)].id,
           NEW n, n = [todo |-> Tail(e.todo), labels |-> Nil, counts |-> Nil,
                       done |-> Append(e.done, x)]
    PROVE  n \in Reads /\ InOrder(n)
<1>1. /\ e.todo \in Seq(Nat) /\ e.done \in Seq(Entries)
      /\ Len(e.todo) \in Nat /\ Len(e.todo) > 0 /\ Len(e.done) \in Nat
      /\ DOMAIN e.todo = 1 .. Len(e.todo) /\ DOMAIN e.done = 1 .. Len(e.done)
  BY DEF Reads
<1>2. /\ n.todo \in Seq(Nat) /\ DOMAIN n.todo = 1 .. Len(e.todo) - 1
      /\ \A k \in DOMAIN n.todo : n.todo[k] = e.todo[k + 1]
      /\ Head(e.todo) = e.todo[1]
  BY <1>1
<1>3. /\ n.done \in Seq(Entries) /\ DOMAIN n.done = 1 .. Len(e.done) + 1
      /\ \A k \in DOMAIN e.done : n.done[k] = e.done[k]
      /\ n.done[Len(e.done) + 1] = x
  BY <1>1
<1>4. n \in Reads
  BY <1>2, <1>3 DEF Reads
<1>5. \A k \in DOMAIN n.todo : k + 1 \in DOMAIN e.todo /\ 1 < k + 1 /\ 1 \in DOMAIN e.todo
  BY <1>1, <1>2
<1>6. \A j, k \in DOMAIN n.todo : j < k => j + 1 < k + 1
  BY <1>2
<1>7. \A k \in DOMAIN n.todo : n.todo[k] \in DOMAIN heap
  BY <1>2, <1>5 DEF InOrder
<1>8. \A j, k \in DOMAIN n.todo : j < k => Newer(heap[n.todo[j]].id, heap[n.todo[k]].id)
  BY <1>2, <1>5, <1>6 DEF InOrder
<1>9. \A k \in DOMAIN n.todo : Newer(x.id, heap[n.todo[k]].id)
  BY <1>2, <1>5 DEF InOrder
<1>10. \A j \in DOMAIN n.done : j \in DOMAIN e.done \/ j = Len(e.done) + 1
  BY <1>1, <1>3
<1>11. \A j \in DOMAIN n.done, k \in DOMAIN n.todo : Newer(n.done[j].id, heap[n.todo[k]].id)
  <2> SUFFICES ASSUME NEW j \in DOMAIN n.done, NEW k \in DOMAIN n.todo
               PROVE  Newer(n.done[j].id, heap[n.todo[k]].id)
    OBVIOUS
  <2>1. CASE j \in DOMAIN e.done
    BY <1>2, <1>3, <1>5, <2>1 DEF InOrder
  <2>2. CASE j = Len(e.done) + 1
    BY <1>3, <1>9, <2>2
  <2> QED
    BY <1>10, <2>1, <2>2
<1>12. \A j, k \in DOMAIN n.done : j < k => Newer(n.done[j].id, n.done[k].id)
  <2> SUFFICES ASSUME NEW j \in DOMAIN n.done, NEW k \in DOMAIN n.done, j < k
               PROVE  Newer(n.done[j].id, n.done[k].id)
    OBVIOUS
  <2>1. j \in DOMAIN e.done
    BY <1>1, <1>3
  <2>2. CASE k \in DOMAIN e.done
    BY <1>3, <2>1, <2>2 DEF InOrder
  <2>3. CASE k = Len(e.done) + 1
    <3>1. 1 \in DOMAIN e.todo
      BY <1>1
    <3> QED
      BY <1>2, <1>3, <2>1, <2>3, <3>1 DEF InOrder
  <2> QED
    BY <1>10, <2>2, <2>3
<1> QED
  BY <1>4, <1>7, <1>8, <1>11, <1>12 DEF InOrder

\* No step but a restart, which drops the readers, takes anything from the heap or
\* changes an id.
LEMMA OrderKept ==
    ASSUME ReadInv, readers' = readers,
           \A p \in DOMAIN heap : p \in DOMAIN heap' /\ heap'[p].id = heap[p].id
    PROVE  ReadInv'
  BY DEF ReadInv, InOrder, Newer

LEMMA NextReads ==
    ASSUME AgreeInv, IssuedCerts, ReadInv, [Next]_vars
    PROVE  ReadInv'
<1>1. CASE Certify
  <2>1. \A p \in DOMAIN heap : p \in DOMAIN heap' /\ heap'[p].id = heap[p].id
    BY <1>1, CertifyAppends
  <2> QED
    BY <1>1, <2>1, OrderKept DEF Certify
<1>2. CASE UpdateCounts \/ UpdateLabels
  <2>1. readers' = readers
    BY <1>2 DEF UpdateCounts, UpdateLabels
  <2> QED
    BY <1>2, <2>1, UpdatesKeepIds, OrderKept
<1>3. CASE Restart
  <2>1. readers' = [r \in Readers |-> Nil]
    BY <1>3 DEF Restart
  <2> QED
    BY <2>1 DEF ReadInv
<1>4. ASSUME NEW r \in Readers, NEW e \in Reads \cup {Nil}, e # Nil => InOrder(e),
             readers' = [readers EXCEPT ![r] = e], heap' = heap
      PROVE  ReadInv'
  <2>1. readers' \in [Readers -> Reads \cup {Nil}]
    BY <1>4 DEF ReadInv
  <2>2. \A q \in Readers : readers'[q] = IF q = r THEN e ELSE readers[q]
    BY <1>4 DEF ReadInv
  <2>3. \A q \in Readers : readers'[q] # Nil => InOrder(readers'[q])
    BY <1>4, <2>2 DEF ReadInv
  <2> QED
    BY <1>4, <2>1, <2>3 DEF ReadInv, InOrder
<1>5. ASSUME NEW r \in Readers, Lookup(r) PROVE ReadInv'
  <2>1. heap' = heap
    BY <1>5 DEF Lookup
  <2>2. CASE \E id \in DOMAIN certs : readers' = [readers EXCEPT ![r] = Encoding(<<certs[id]>>)]
    BY <1>4, <2>1, <2>2, OneInOrder
  <2>3. CASE \E s \in Listings : readers' = [readers EXCEPT ![r] = Encoding(s)]
    BY <1>4, <2>1, <2>3, ListingsInOrder
  <2> QED
    BY <1>5, <2>2, <2>3 DEF Lookup
<1>6. ASSUME NEW r \in Readers, Encode(r) PROVE ReadInv'
  <2> DEFINE e    == readers[r]
             cert == heap[Head(e.todo)]
  <2>1. e \in Reads /\ InOrder(e) /\ e.todo # <<>> /\ heap' = heap
    BY <1>6 DEF Encode, ReadInv
  <2>2. cert \in Cert
    <3>1. Head(e.todo) = e.todo[1] /\ 1 \in DOMAIN e.todo
      BY <2>1 DEF Reads
    <3> QED
      BY <2>1, <3>1, HeapTypes DEF InOrder
  <2>3. \/ e.labels = Nil /\ readers' = [readers EXCEPT ![r] = [e EXCEPT !.labels = cert.labels]]
        \/ e.counts = Nil /\ readers' = [readers EXCEPT ![r] = [e EXCEPT !.counts = cert.counts]]
        \/ /\ e.labels # Nil /\ e.counts # Nil
           /\ readers' = [readers EXCEPT ![r] =
                 [todo |-> Tail(e.todo), labels |-> Nil, counts |-> Nil,
                  done |-> Append(e.done, [id |-> cert.id, labels |-> e.labels,
                                           counts |-> e.counts, badge |-> cert.badge])]]
    BY <1>6 DEF Encode
  <2> HIDE DEF e, cert
  <2>4. CASE readers' = [readers EXCEPT ![r] = [e EXCEPT !.labels = cert.labels]]
    <3>1. [e EXCEPT !.labels = cert.labels] \in Reads
      BY <2>1, <2>2 DEF Reads, Cert, LabelSet
    <3>2. /\ [e EXCEPT !.labels = cert.labels].todo = e.todo
          /\ [e EXCEPT !.labels = cert.labels].done = e.done
      BY <2>1 DEF Reads
    <3>3. InOrder([e EXCEPT !.labels = cert.labels])
      BY <2>1, <3>2 DEF InOrder
    <3> QED
      BY <1>4, <2>1, <2>4, <3>1, <3>3
  <2>5. CASE readers' = [readers EXCEPT ![r] = [e EXCEPT !.counts = cert.counts]]
    <3>1. [e EXCEPT !.counts = cert.counts] \in Reads
      BY <2>1, <2>2 DEF Reads, Cert
    <3>2. /\ [e EXCEPT !.counts = cert.counts].todo = e.todo
          /\ [e EXCEPT !.counts = cert.counts].done = e.done
      BY <2>1 DEF Reads
    <3>3. InOrder([e EXCEPT !.counts = cert.counts])
      BY <2>1, <3>2 DEF InOrder
    <3> QED
      BY <1>4, <2>1, <2>5, <3>1, <3>3
  <2>6. CASE /\ e.labels # Nil /\ e.counts # Nil
             /\ readers' = [readers EXCEPT ![r] =
                   [todo |-> Tail(e.todo), labels |-> Nil, counts |-> Nil,
                    done |-> Append(e.done, [id |-> cert.id, labels |-> e.labels,
                                             counts |-> e.counts, badge |-> cert.badge])]]
    <3> DEFINE x == [id |-> cert.id, labels |-> e.labels, counts |-> e.counts,
                     badge |-> cert.badge]
               n == [todo |-> Tail(e.todo), labels |-> Nil, counts |-> Nil,
                     done |-> Append(e.done, x)]
    <3>1. x \in Entries
      BY <2>1, <2>2, <2>6 DEF Reads, Entries, Cert, LabelSet
    <3>2. x.id = heap[Head(e.todo)].id
      BY DEF cert
    <3> HIDE DEF x
    <3>3. n \in Reads /\ InOrder(n)
      BY <2>1, <2>6, <3>1, <3>2, EncodedInOrder
    <3>4. readers' = [readers EXCEPT ![r] = n]
      BY <2>6 DEF x
    <3> HIDE DEF n
    <3> QED
      BY <1>4, <2>1, <3>3, <3>4
  <2> QED
    BY <2>3, <2>4, <2>5, <2>6
<1>7. ASSUME NEW r \in Readers, Respond(r) PROVE ReadInv'
  BY <1>4, <1>7 DEF Respond
<1>8. CASE Verify \/ Tick \/ Idle \/ UNCHANGED vars
  <2>1. UNCHANGED <<readers, heap>>
    BY <1>8 DEF Verify, Tick, Idle, vars
  <2> QED
    BY <2>1, OrderKept
<1> QED
  BY <1>1, <1>2, <1>3, <1>5, <1>6, <1>7, <1>8 DEF Next

LEMMA ReadInvCorrect == Spec => [](AgreeInv /\ IssuedCerts /\ ReadInv)
<1>1. Init => ReadInv
  BY DEF Init, ReadInv
<1>2. AgreeInv /\ IssuedCerts /\ ReadInv /\ [Next]_vars => ReadInv'
  BY NextReads
<1> QED
  BY <1>1, <1>2, IssuedCorrect, PTL DEF Spec

\* Lists are in the order of issue and show no certificate twice, although they are
\* encoded without the lock, while certificates are issued and updated
\* (ListsNewestFirst).
THEOREM ListsStayInOrder == Spec => []ListsNewestFirst
<1>1. ReadInv => ListsNewestFirst
  BY DEF ReadInv, InOrder, Newer, ListsNewestFirst
<1> QED
  BY <1>1, ReadInvCorrect, PTL

\* Ids point to the certificates that bear them, levels and times keep within their
\* bounds, and no reader or update points to what is not there (TypeOK).
THEOREM PortalTypes == Spec => []TypeOK
<1>1. AgreeInv /\ IssuedCerts /\ ReadInv => TypeOK
  <2> SUFFICES ASSUME AgreeInv, IssuedCerts, ReadInv PROVE TypeOK
    OBVIOUS
  <2>1. \A p \in DOMAIN heap :
            /\ heap[p].counts \in Results \cup {NoResults}
            /\ heap[p].labels.status \in Statuses /\ heap[p].labels.level \in 0 .. 4
            /\ heap[p].issued \in 0 .. now
    BY HeapTypes DEF Cert, IssuedCerts
  <2>2. \A r \in Readers : readers[r] # Nil =>
            \A k \in DOMAIN readers[r].todo : readers[r].todo[k] \in DOMAIN heap
    BY DEF ReadInv, InOrder
  <2>3. now \in Nat /\ (update # Nil => update.cert \in DOMAIN heap)
    BY DEF AgreeInv, StoreTypes
  <2>4. \A id \in DOMAIN certs : certs[id] \in DOMAIN heap /\ heap[certs[id]].id = id
    BY HeapTypes DEF IssuedCerts
  <2> QED
    BY <2>1, <2>2, <2>3, <2>4 DEF TypeOK
<1> QED
  BY <1>1, ReadInvCorrect, PTL

-----------------------------------------------------------------------------
(* The store as one of certificates that change in single steps.           *)

\* Ids point to different certificates.
LEMMA AddressesDiffer ==
    ASSUME VerifyInv
    PROVE  \A i, j \in DOMAIN certs : certs[i] = certs[j] => i = j
BY DEF VerifyInv, StoredAreHandedOut

\* What is stored under an id, taken apart.
LEMMA SettledAt ==
    ASSUME NEW id \in DOMAIN certs
    PROVE  /\ Settled[id].counts = heap[certs[id]].counts
           /\ Settled[id].labels = IF Updating(certs[id]) THEN LabelsOf(update.counts)
                                   ELSE heap[certs[id]].labels
           /\ Settled[id].badge = IF Updating(certs[id]) THEN LabelsOf(update.counts)
                                  ELSE heap[certs[id]].badge
           /\ Settled[id].issued = heap[certs[id]].issued
BY DEF Settled

LEMMA CertifyIsIssue == ASSUME AgreeInv, Certify PROVE Atomic!Issue
<1>1. PICK req \in Requests : Issue(req, NoResults)
  BY DEF Certify
<1> DEFINE fp  == IdOf(req, now)
           lbs == LabelsOf(NoResults)
           n   == Len(heap) + 1
<1>2. /\ heap \in Seq(Cert) /\ update = Nil
      /\ \A id \in DOMAIN certs : certs[id] \in DOMAIN heap
      /\ UNCHANGED <<now, answer, update>>
  BY DEF AgreeInv, StoreTypes, Certify, Unlocked
<1>3. PICK cert : /\ heap' = Append(heap, cert)
                  /\ cert.counts = NoResults /\ cert.labels = lbs /\ cert.badge = lbs
                  /\ cert.issued = now
  <2>1. Labels(ComputeLevel(NoResults), IssueStatus(NoResults)) = lbs
    BY StatusesAreEqual, PlaceholderType DEF LabelsOf
  <2>2. PICK cert : /\ cert = [id |-> fp, request |-> req, counts |-> NoResults,
                               labels |-> lbs, badge |-> lbs, issued |-> now, fingerprint |-> fp]
    OBVIOUS
  <2>3. heap' = Append(heap, cert)
    BY <1>1, <2>1, <2>2 DEF Issue, IdOf
  <2> HIDE DEF fp, lbs
  <2> QED
    BY <2>2, <2>3
<1>4. /\ certs' = [id \in DOMAIN certs \cup {fp} |-> IF id = fp THEN n ELSE certs[id]]
      /\ handedOut' = handedOut \cup {[id |-> fp, issued |-> now]}
  BY <1>1 DEF Issue, IdOf
<1>5. heap'[n] = cert /\ \A p \in DOMAIN heap : heap'[p] = heap[p]
  <2>1. Len(heap) \in Nat /\ DOMAIN heap = 1 .. Len(heap)
    BY <1>2
  <2> QED BY <1>2, <1>3, <2>1
<1>6. \A p : ~Updating(p) /\ ~Updating(p)'
  BY <1>2 DEF Updating
<1> HIDE DEF fp, lbs, n
<1>7. DOMAIN Settled = DOMAIN certs /\ DOMAIN Settled' = DOMAIN certs \cup {fp}
  BY <1>4 DEF Settled
<1>8. ASSUME NEW id \in DOMAIN certs \cup {fp}
      PROVE  Settled'[id] = IF id = fp THEN Atomic!Certificate(NoResults, now) ELSE Settled[id]
  <2>1. Settled'[id] = [counts |-> heap'[certs'[id]].counts, labels |-> heap'[certs'[id]].labels,
                        badge |-> heap'[certs'[id]].badge, issued |-> heap'[certs'[id]].issued]
    BY <1>4, <1>6, <1>8 DEF Settled
  <2>2. CASE id = fp
    <3>1. certs'[id] = n
      BY <1>4, <2>2
    <3> QED
      BY <1>3, <1>5, <2>1, <2>2, <3>1 DEF Atomic!Certificate, lbs
  <2>3. CASE id # fp
    <3>1. id \in DOMAIN certs /\ certs'[id] = certs[id] /\ heap'[certs[id]] = heap[certs[id]]
      BY <1>2, <1>4, <1>5, <1>8, <2>3
    <3>2. Settled[id] = [counts |-> heap[certs[id]].counts, labels |-> heap[certs[id]].labels,
                         badge |-> heap[certs[id]].badge, issued |-> heap[certs[id]].issued]
      BY <1>6, <3>1 DEF Settled
    <3> QED
      BY <2>1, <2>3, <3>1, <3>2
  <2> QED BY <2>2, <2>3
<1>9. Settled' = [id \in DOMAIN Settled \cup {fp} |->
                     IF id = fp THEN Atomic!Certificate(NoResults, now) ELSE Settled[id]]
  <2>1. Settled' = [id \in DOMAIN certs \cup {fp} |-> Settled'[id]]
    BY <1>4 DEF Settled
  <2> QED BY <1>7, <1>8, <2>1
<1> QED BY <1>2, <1>4, <1>9 DEF Atomic!Issue, fp

\* The first half of an update is the whole of it.
LEMMA CountsAreUpdate == ASSUME AgreeInv, VerifyInv, UpdateCounts PROVE Atomic!Update
<1>1. PICK h \in handedOut, c \in Results :
         /\ h.id \in DOMAIN certs
         /\ heap' = [heap EXCEPT ![certs[h.id]].counts = c]
         /\ update' = [cert |-> certs[h.id], counts |-> c]
  BY DEF UpdateCounts
<1> DEFINE q == certs[h.id]
<1>2. /\ heap \in Seq(Cert) /\ update = Nil
      /\ \A id \in DOMAIN certs : certs[id] \in DOMAIN heap
      /\ UNCHANGED <<now, certs, answer, handedOut>>
  BY DEF AgreeInv, StoreTypes, UpdateCounts, Unlocked
<1>3. \A p \in DOMAIN heap : heap[p] \in Cert
  BY <1>2
<1>4. q \in DOMAIN heap /\ q \in Nat /\ c \in Counts
  BY <1>1, <1>2, PortalAssumption
<1>5. /\ heap'[q].counts = c /\ heap'[q].issued = heap[q].issued
      /\ \A p \in DOMAIN heap : p # q => heap'[p] = heap[p]
  BY <1>1, <1>3, <1>4 DEF Cert
<1>6. update' # Nil /\ update'.cert = q /\ update'.counts = c
  BY <1>1, <1>4, PortalAssumption
<1>7. \A p : ~Updating(p) /\ (Updating(p)' <=> p = q)
  BY <1>2, <1>6 DEF Updating
<1>8. ASSUME NEW id \in DOMAIN certs
      PROVE  Settled'[id] = IF id = h.id THEN Atomic!Certificate(c, Settled[h.id].issued)
                            ELSE Settled[id]
  <2>1. CASE id = h.id
    <3>1. Settled'[id] = [counts |-> heap'[q].counts, labels |-> LabelsOf(c), badge |-> LabelsOf(c),
                          issued |-> heap'[q].issued]
      BY <1>2, <1>6, <1>7, <1>8, <2>1 DEF Settled
    <3>2. Settled[h.id].issued = heap[q].issued
      BY <1>1, SettledAt
    <3> QED BY <1>5, <2>1, <3>1, <3>2 DEF Atomic!Certificate
  <2>2. CASE id # h.id
    <3>1. certs[id] # q /\ heap'[certs[id]] = heap[certs[id]]
      BY <1>1, <1>2, <1>5, <1>8, <2>2, AddressesDiffer
    <3>2. Settled'[id] = Settled[id]
      BY <1>2, <1>7, <1>8, <3>1 DEF Settled
    <3> QED BY <2>2, <3>2
  <2> QED BY <2>1, <2>2
<1>9. Settled' = [Settled EXCEPT ![h.id] = Atomic!Certificate(c, Settled[h.id].issued)]
  <2>1. Settled' = [id \in DOMAIN certs |-> Settled'[id]]
    BY <1>2 DEF Settled
  <2>2. DOMAIN Settled = DOMAIN certs
    BY DEF Settled
  <2> QED BY <1>8, <2>1, <2>2
<1>10. h.id \in DOMAIN Settled
  BY <1>1 DEF Settled
<1> QED BY <1>2, <1>9, <1>10 DEF Atomic!Update

\* The second half is nothing new.
LEMMA LabelsAreSettled == ASSUME AgreeInv, UpdateLabels PROVE UNCHANGED Atomic!vars
<1> DEFINE q == update.cert
           c == update.counts
<1>1. /\ heap \in Seq(Cert) /\ update # Nil /\ q \in DOMAIN heap
      /\ \A id \in DOMAIN certs : certs[id] \in DOMAIN heap
      /\ update' = Nil /\ UNCHANGED <<now, certs, answer, handedOut>>
  BY DEF AgreeInv, StoreTypes, UpdateLabels, Unlocked
<1>2. heap' = [heap EXCEPT ![q] = [heap[q] EXCEPT !.labels = LabelsOf(c), !.badge = LabelsOf(c)]]
  BY DEF UpdateLabels, Relabelled, LabelsOf
<1>3. heap[q] \in Cert
  BY <1>1
<1> HIDE DEF q
<1>4. /\ heap'[q].counts = heap[q].counts /\ heap'[q].issued = heap[q].issued
      /\ heap'[q].labels = LabelsOf(c) /\ heap'[q].badge = LabelsOf(c)
      /\ \A p \in DOMAIN heap : p # q => heap'[p] = heap[p]
  BY <1>1, <1>2, <1>3 DEF Cert
<1>5. \A p : ~Updating(p)' /\ (Updating(p) <=> p = q)
  BY <1>1 DEF Updating, q
<1>6. ASSUME NEW id \in DOMAIN certs
      PROVE  Settled'[id] = Settled[id]
  <2>1. Settled'[id] = [counts |-> heap'[certs[id]].counts, labels |-> heap'[certs[id]].labels,
                        badge |-> heap'[certs[id]].badge, issued |-> heap'[certs[id]].issued]
    BY <1>1, <1>5, <1>6 DEF Settled
  <2>2. CASE certs[id] = q
    <3>1. Settled[id] = [counts |-> heap[q].counts, labels |-> LabelsOf(c),
                         badge |-> LabelsOf(c), issued |-> heap[q].issued]
      BY <1>5, <1>6, <2>2 DEF Settled
    <3> QED BY <1>4, <2>1, <2>2, <3>1
  <2>3. CASE certs[id] # q
    <3>1. heap'[certs[id]] = heap[certs[id]]
      BY <1>1, <1>4, <1>6, <2>3
    <3>2. Settled[id] = [counts |-> heap[certs[id]].counts, labels |-> heap[certs[id]].labels,
                         badge |-> heap[certs[id]].badge, issued |-> heap[certs[id]].issued]
      BY <1>5, <1>6, <2>3 DEF Settled
    <3> QED BY <2>1, <3>1, <3>2
  <2> QED BY <2>2, <2>3
<1>7. Settled' = Settled
  <2>1. /\ Settled' = [id \in DOMAIN certs |-> Settled'[id]]
        /\ Settled = [id \in DOMAIN certs |-> Settled[id]]
    BY <1>1 DEF Settled
  <2> QED BY <1>6, <2>1
<1> QED BY <1>1, <1>7 DEF Atomic!vars

\* What verifies is in the store, has not expired, and bears its id as fingerprint.
LEMMA VerifyIsVerify == ASSUME VerifyInv, Verify PROVE Atomic!Verify
<1>1. PICK id, fp \in Claims :
         answer' = [id |-> id, fingerprint |-> fp, valid |-> Valid(id, fp), time |-> now]
  BY DEF Verify
<1>2. UNCHANGED <<now, certs, heap, update, handedOut>>
  BY DEF Verify
<1>3. Settled' = Settled
  BY <1>2 DEF Settled, Updating
<1> DEFINE Bears == id \in DOMAIN Settled /\ fp = id /\ now < Settled[id].issued + Validity
<1>4. Valid(id, fp) <=> Bears
  <2>1. DOMAIN Settled = DOMAIN certs
    BY DEF Settled
  <2>2. id \in DOMAIN certs => /\ heap[certs[id]].fingerprint = id
                               /\ Settled[id].issued = heap[certs[id]].issued
    BY SettledAt DEF VerifyInv, StoredAreHandedOut
  <2> QED BY <2>1, <2>2 DEF Valid
<1>5. Valid(id, fp) = Bears
  BY <1>4, Zenon DEF Valid, Bears
<1>6. Claims = Atomic!Claims
  BY DEF Claims, Atomic!Claims
<1> QED BY <1>1, <1>2, <1>3, <1>5, <1>6 DEF Atomic!Verify

\* Every step of the portal is one of the store, or nothing to it.
LEMMA NextIsAtomic ==
    AgreeInv /\ VerifyInv /\ [Next]_vars => [Atomic!Next]_(Atomic!vars)
<1> SUFFICES ASSUME AgreeInv, VerifyInv, [Next]_vars PROVE Atomic!Next \/ UNCHANGED Atomic!vars
  OBVIOUS
<1>U. ASSUME UNCHANGED <<certs, heap, update>> PROVE Settled' = Settled
  BY <1>U DEF Settled, Updating
<1>1. CASE Certify
  BY <1>1, CertifyIsIssue DEF Atomic!Next
<1>2. CASE UpdateCounts
  BY <1>2, CountsAreUpdate DEF Atomic!Next
<1>3. CASE UpdateLabels
  BY <1>3, LabelsAreSettled
<1>4. CASE Verify
  BY <1>4, VerifyIsVerify DEF Atomic!Next
<1>5. CASE Tick
  BY <1>5, <1>U DEF Tick, Atomic!Next, Atomic!Tick
<1>6. CASE Restart
  <2>1. certs' = <<>> /\ UNCHANGED <<now, answer, handedOut>>
    BY <1>6 DEF Restart
  <2>2. Settled' = <<>>
    BY <2>1 DEF Settled
  <2> QED BY <2>1, <2>2 DEF Atomic!Next, Atomic!Restart
<1>7. CASE (\E r \in Readers : Lookup(r) \/ Encode(r) \/ Respond(r)) \/ Idle \/ UNCHANGED vars
  BY <1>7, <1>U DEF Lookup, Encode, Respond, Idle, vars, Atomic!vars
<1> QED BY <1>1, <1>2, <1>3, <1>4, <1>5, <1>6, <1>7 DEF Next

\* Under the lock the portal is a store whose certificates are issued, updated and
\* verified in single steps (Issue, UpdateCertificate, HandleVerify), for any requests,
\* results and readers: the certificates' labels and badges are always those of their
\* counts, and what was handed out verifies until it expires.
THEOREM StoreRefined == Spec => StoreIsAtomic
<1>1. Init => Atomic!Init
  <2> SUFFICES ASSUME Init PROVE Atomic!Init
    OBVIOUS
  <2>1. certs = <<>> /\ handedOut = {}
    BY DEF Init
  <2>2. Settled = <<>>
    BY <2>1 DEF Settled
  <2> QED BY <2>1, <2>2 DEF Atomic!Init
<1> QED BY <1>1, NextIsAtomic, VerifyInvCorrect, PTL DEF Spec, StoreIsAtomic

===============================================================================
