-------------------------- MODULE Production_proofs --------------------------
(***************************************************************************)
(* Proofs about the records of the production platform that need no job:   *)
(* its audit ledger and its user rows.                                     *)
(*                                                                         *)
(* AuditLedger, for any number of calls, verifiers, retries, crashes and   *)
(* restores.                                                               *)
(*                                                                         *)
(* Accounts, for any number of users, logins and administrative calls, any *)
(* threshold, lock time and token lifetime: guesses on stale readings lose *)
(* no increment and move no lock that is live, and a token stands exactly  *)
(* as long as the row it was issued from.  The lockout rests on the        *)
(* failure count of a row: without a lock it is what was recorded, and     *)
(* under a lock it is the threshold.  The tokens rest on the version: no   *)
(* claims are ahead of the row, and claims of its present version agree    *)
(* with it in everything they say.                                         *)
(***************************************************************************)
EXTENDS AuditLedger, Accounts, FiniteSetTheorems, FunctionTheorems, TLAPS

(* The audit ledger *)

\* An event's hash is a hash.
LEMMA HashType ==
  ASSUME NEW e \in Events
  PROVE  EventHash(e) \in Seq(Appends)
BY DEF EventHash, Events

\* Row(n) is the event numbered n.
LEMMA RowFound ==
  ASSUME Numbered, NEW n \in 1..head.version
  PROVE  Row(n) \in events /\ Row(n).seq = n
BY DEF Numbered, Row

\* Events numbered 1..n, once each, are n events.
LEMMA CountEvents ==
  ASSUME TypeOK, Numbered
  PROVE  Cardinality(events) = head.version
<1> DEFINE F == [i \in 1..head.version |-> Row(i)]
<1>1. head.version \in Nat
  BY DEF TypeOK, Heads
<1>2. F \in [1..head.version -> events]
  BY RowFound
<1>3. ASSUME NEW a \in 1..head.version, NEW b \in 1..head.version, F[a] = F[b]
      PROVE  a = b
  <2>1. F[a].seq = a /\ F[b].seq = b
    BY RowFound
  <2> QED
    BY <2>1, <1>3
<1>4. ASSUME NEW e \in events
      PROVE  \E i \in 1..head.version : F[i] = e
  <2>1. e.seq \in 1..head.version
    BY DEF Numbered
  <2>2. F[e.seq] \in events /\ F[e.seq].seq = e.seq
    BY <2>1, RowFound
  <2> QED
    BY <2>1, <2>2 DEF Numbered
<1>5. F \in Bijection(1..head.version, events)
  <2> HIDE DEF F
  <2> QED
    BY <1>2, <1>3, <1>4, Fun_IsBij
<1>6. ExistsBijection(1..head.version, events)
  BY <1>5, Fun_ExistsBij
<1> QED
  BY <1>1, <1>6, FS_CountingElements

\* The chain that verify() demands is the one the invariant keeps.
LEMMA ChainFromLinks ==
  ASSUME TypeOK, Numbered, Linked
  PROVE  ChainIntact
<1>1. Cardinality(events) = head.version /\ head.version \in Nat
  BY CountEvents DEF TypeOK, Heads
<1>2. \A e, f \in events : e.seq = f.seq => e = f
  BY DEF Numbered
<1>3. /\ \A e \in events : e.seq \in 1..Cardinality(events)
      /\ \A e \in events : e.seq = 1 => e.prev = Zero
      /\ \A e, f \in events : f.seq = e.seq + 1 => f.prev = EventHash(e)
      /\ head.version = Cardinality(events)
  BY <1>1 DEF Numbered, Linked
<1>4. CASE events = {}
  <2>1. head.version = 0
    BY <1>1, <1>4 DEF Numbered
  <2>2. head.hash = Zero
    BY <2>1 DEF Linked
  <2> QED
    BY <1>2, <1>3, <1>4, <2>2 DEF ChainIntact, ChainValid
<1>5. CASE events # {}
  <2>1. head.version \in 1..head.version
    BY <1>1, <1>5 DEF Numbered
  <2>2. PICK e \in events : e.seq = head.version
    BY <2>1 DEF Numbered
  <2>3. head.hash = EventHash(e)
    BY <2>2 DEF Linked
  <2> QED
    BY <1>1, <1>2, <1>3, <1>5, <2>2, <2>3 DEF ChainIntact, ChainValid
<1> QED
  BY <1>4, <1>5

\* Calls only ever pass: when those past their transaction stay past it, the
\* count does not fall; when one more passes, it grows.
LEMMA PassedGrows ==
  ASSUME NEW c \in Appends, Passed(c) \subseteq Passed(c)'
  PROVE  /\ Cardinality(Passed(c)) \in Nat
         /\ Cardinality(Passed(c)') \in Nat
         /\ Cardinality(Passed(c)) <= Cardinality(Passed(c)')
         /\ \A d \in Passed(c)' : d \notin Passed(c) =>
              Cardinality(Passed(c)) + 1 <= Cardinality(Passed(c)')
<1>1. Passed(c) \in SUBSET Appends /\ Passed(c)' \in SUBSET Appends
  BY DEF Passed
<1>2. IsFiniteSet(Passed(c)) /\ IsFiniteSet(Passed(c)')
  BY <1>1, AuditAssumption, FS_Subset
<1>3. Cardinality(Passed(c)) \in Nat /\ Cardinality(Passed(c)') \in Nat
  BY <1>2, FS_CardinalityType
<1>4. Cardinality(Passed(c)) <= Cardinality(Passed(c)')
  BY <1>2, FS_Subset
<1>5. ASSUME NEW d \in Passed(c)', d \notin Passed(c)
      PROVE  Cardinality(Passed(c)) + 1 <= Cardinality(Passed(c)')
  <2>1. Cardinality(Passed(c)) # Cardinality(Passed(c)')
    BY <1>2, <1>5, FS_Subset
  <2> QED
    BY <1>3, <1>4, <2>1
<1> QED
  BY <1>3, <1>4, <1>5

LEMMA InitLedger == Init => LedgerInv
<1> SUFFICES ASSUME Init PROVE LedgerInv
  OBVIOUS
<1>1. TypeOK
  BY AuditAssumption DEF Init, TypeOK, Heads, NoHead, Zero, Labels, Events
<1>2. Numbered /\ Linked /\ SeenInPast /\ CommitsKept
  BY DEF Init, Numbered, Linked, SeenInPast, CommitsKept, NoHead
<1>3. TriesLeft /\ AnchoredOnlyCommitted /\ OneAnchorEach
  BY AuditAssumption DEF Init, TriesLeft, AnchoredOnlyCommitted, OneAnchorEach
<1>4. Paid
  <2> SUFFICES ASSUME NEW c \in Appends PROVE Cardinality(Passed(c)) = 0
    BY DEF Init, Paid
  <2>1. Passed(c) = {}
    BY DEF Init, Passed
  <2> QED
    BY <2>1, FS_EmptySet
<1>5. OwnAnchor
  BY DEF Init, OwnAnchor
<1> QED
  BY <1>1, <1>2, <1>3, <1>4, <1>5 DEF LedgerInv

\* A step that leaves the tables and the restores alone keeps the chain.
LEMMA QuietLedger ==
  ASSUME LedgerInv, UNCHANGED <<events, head, restores>>
  PROVE  Numbered' /\ Linked'
BY DEF LedgerInv, Numbered, Linked, EventHash

LEMMA ReadHeadKeeps ==
  ASSUME LedgerInv, NEW c \in Appends, ReadHead(c)
  PROVE  LedgerInv'
<1> USE DEF LedgerInv
<1>1. TypeOK'
  BY DEF TypeOK, ReadHead, Go, ledgerVars, verifyVars, Labels
<1>2. Numbered' /\ Linked'
  BY QuietLedger DEF ReadHead, ledgerVars
<1>3. SeenInPast'
  BY DEF SeenInPast, ReadHead, Go, ledgerVars, TypeOK, Heads
<1>4. TriesLeft'
  BY DEF TriesLeft, ReadHead, Go, TypeOK
<1>5. CommitsKept'
  BY DEF CommitsKept, ReadHead, Go, ledgerVars, TypeOK, MySeq, MyHash, EventHash
<1>6. AnchoredOnlyCommitted' /\ OneAnchorEach'
  BY DEF AnchoredOnlyCommitted, OneAnchorEach, ReadHead, ledgerVars, EventHash
<1>7. Paid'
  <2> SUFFICES ASSUME NEW d \in Appends
               PROVE  tries'[d] + (IF pc'[d] = "read" THEN head'.version - seen'[d].version ELSE 0)
                        <= Cardinality(Passed(d)')
    BY DEF Paid
  <2>1. Passed(d)' = Passed(d)
    BY DEF Passed, ReadHead, Go, TypeOK
  <2>2. head'.version = head.version /\ head.version \in Nat /\ tries'[d] = tries[d]
        /\ tries[d] \in Nat
    BY DEF ReadHead, ledgerVars, TypeOK, Heads
  <2>3. CASE d = c
    BY <2>1, <2>2, <2>3 DEF ReadHead, Go, TypeOK, Paid
  <2>4. CASE d # c
    BY <2>1, <2>2, <2>4 DEF ReadHead, Go, TypeOK, Paid
  <2> QED
    BY <2>3, <2>4
<1>8. OwnAnchor'
  BY DEF OwnAnchor, AnchorFile, MySeq, MyHash, ReadHead, Go, ledgerVars, TypeOK
<1> QED
  BY <1>1, <1>2, <1>3, <1>4, <1>5, <1>6, <1>7, <1>8

\* What one try appends, once the head is still the one it read.
LEMMA NewEvent ==
  ASSUME LedgerInv, NEW c \in Appends, Commit(c)
  PROVE  \E e \in Events : /\ e = [seq |-> head.version + 1, id |-> c, prev |-> head.hash]
                           /\ events' = events \cup {e}
                           /\ head' = [version |-> e.seq, hash |-> EventHash(e)]
                           /\ e.seq = MySeq(c) /\ EventHash(e) = MyHash(c)
<1> USE DEF LedgerInv
<1>1. seen[c] \in Heads /\ head \in Heads
  BY DEF TypeOK
<1>2. seen[c].version = head.version /\ seen[c].hash = head.hash
  BY DEF Commit, HeadUnchanged, SeenInPast
<1> DEFINE e == [seq |-> head.version + 1, id |-> c, prev |-> head.hash]
<1>3. e \in Events
  BY <1>1 DEF Events, Heads
<1>4. e = [seq |-> seen[c].version + 1, id |-> c, prev |-> seen[c].hash]
  BY <1>2
<1>5. events' = events \cup {e} /\ head' = [version |-> e.seq, hash |-> EventHash(e)]
  <2> HIDE DEF e
  <2> QED
    BY <1>4 DEF Commit
<1>6. e.seq = MySeq(c) /\ EventHash(e) = MyHash(c)
  BY <1>2 DEF MySeq, MyHash, EventHash
<1> QED
  BY <1>3, <1>5, <1>6

LEMMA CommitKeeps ==
  ASSUME LedgerInv, NEW c \in Appends, Commit(c)
  PROVE  LedgerInv'
<1> USE DEF LedgerInv
<1>1. PICK e \in Events : /\ e = [seq |-> head.version + 1, id |-> c, prev |-> head.hash]
                          /\ events' = events \cup {e}
                          /\ head' = [version |-> e.seq, hash |-> EventHash(e)]
                          /\ e.seq = MySeq(c) /\ EventHash(e) = MyHash(c)
  BY NewEvent
<1>2. /\ e.seq = head.version + 1 /\ e.prev = head.hash
      /\ head'.version = head.version + 1 /\ head'.hash = EventHash(e)
      /\ head.version \in Nat
  BY <1>1 DEF TypeOK, Heads
<1>3. /\ pc[c] = "read" /\ pc' = [pc EXCEPT ![c] = "committed"]
      /\ seen' = seen /\ tries' = tries /\ anchors' = anchors /\ restores' = restores
  BY DEF Commit, Go
<1>4. TypeOK'
  <2>1. EventHash(e) \in Seq(Appends)
    BY HashType
  <2>2. head' \in Heads
    BY <1>1, <1>2, <2>1 DEF Heads
  <2>3. events' \subseteq Events
    BY <1>1 DEF TypeOK
  <2>4. pc' \in [Appends -> Labels]
    BY <1>3 DEF TypeOK, Labels
  <2> QED
    BY <2>2, <2>3, <2>4, <1>3 DEF TypeOK, Commit, Disturb
<1>5. Numbered'
  BY <1>1, <1>2 DEF Numbered
<1>6. Linked'
  <2>1. \A f, g \in events : g.seq = f.seq + 1 => g.prev = EventHash(f)
    BY DEF Linked
  <2>2. \A f \in events : f.seq \in 1..head.version
    BY DEF Numbered
  <2>3. \A f, g \in events' : g.seq = f.seq + 1 => g.prev = EventHash(f)
    BY <1>1, <1>2, <2>1, <2>2 DEF Linked
  <2>4. \A f \in events' : f.seq = 1 => f.prev = Zero
    BY <1>1, <1>2 DEF Linked
  <2>5. \A f \in events' : f.seq = head'.version => head'.hash = EventHash(f)
    BY <1>1, <1>2, <2>2
  <2> QED
    BY <1>2, <2>3, <2>4, <2>5 DEF Linked, EventHash
<1>7. SeenInPast'
  BY <1>2, <1>3 DEF SeenInPast, TypeOK, Heads
<1>8. TriesLeft'
  BY <1>3 DEF TriesLeft, TypeOK
<1>9. CommitsKept'
  BY <1>1, <1>3 DEF CommitsKept, TypeOK, MySeq, MyHash, EventHash
<1>10. AnchoredOnlyCommitted' /\ OneAnchorEach'
  BY <1>1, <1>3 DEF AnchoredOnlyCommitted, OneAnchorEach, EventHash
<1>11. Paid'
  <2> SUFFICES ASSUME NEW d \in Appends
               PROVE  tries[d] + (IF pc'[d] = "read" THEN head'.version - seen[d].version ELSE 0)
                        <= Cardinality(Passed(d)')
    BY <1>3 DEF Paid
  <2>1. Passed(d) \subseteq Passed(d)'
    BY <1>3 DEF Passed, TypeOK
  <2>2. Cardinality(Passed(d)) \in Nat /\ Cardinality(Passed(d)') \in Nat
        /\ Cardinality(Passed(d)) <= Cardinality(Passed(d)')
    BY <2>1, PassedGrows
  <2>3. tries[d] \in Nat /\ seen[d].version \in Nat
    BY DEF TypeOK, Heads
  <2>4. tries[d] + (IF pc[d] = "read" THEN head.version - seen[d].version ELSE 0)
          <= Cardinality(Passed(d))
    BY DEF Paid
  <2>5. CASE d = c
    <3>1. seen[d].version = head.version
      BY <2>5 DEF Commit, HeadUnchanged
    <3>2. pc'[d] = "committed"
      BY <1>3, <2>5 DEF TypeOK
    <3> QED
      BY <1>2, <1>3, <2>2, <2>3, <2>4, <2>5, <3>1, <3>2
  <2>6. CASE d # c
    <3>1. c \in Passed(d)' /\ c \notin Passed(d)
      BY <1>3, <2>6 DEF Passed, TypeOK
    <3>2. Cardinality(Passed(d)) + 1 <= Cardinality(Passed(d)')
      BY <2>1, <3>1, PassedGrows
    <3>3. pc'[d] = pc[d]
      BY <1>3, <2>6 DEF TypeOK
    <3> QED
      BY <1>2, <2>2, <2>3, <2>4, <3>2, <3>3
  <2> QED
    BY <2>5, <2>6
<1>12. OwnAnchor'
  BY <1>3 DEF OwnAnchor, AnchorFile, MySeq, MyHash, TypeOK
<1> QED
  BY <1>4, <1>5, <1>6, <1>7, <1>8, <1>9, <1>10, <1>11, <1>12

LEMMA ConflictKeeps ==
  ASSUME LedgerInv, NEW c \in Appends, Conflict(c)
  PROVE  LedgerInv'
<1> USE DEF LedgerInv
<1>1. /\ pc[c] = "read" /\ head.version # seen[c].version
      /\ tries' = [tries EXCEPT ![c] = @ + 1]
      /\ pc' = [pc EXCEPT ![c] = IF tries[c] + 1 < MaxTries THEN "retry" ELSE "raised"]
      /\ events' = events /\ head' = head /\ anchors' = anchors
      /\ seen' = seen /\ restores' = restores
  BY DEF Conflict, HeadUnchanged, Go, RetryLabel, ledgerVars
<1>2. tries[c] < MaxTries /\ tries[c] \in Nat /\ MaxTries \in Nat
  BY <1>1, AuditAssumption DEF TriesLeft, TypeOK
<1>3. TypeOK'
  BY <1>1, <1>2 DEF TypeOK, Labels, Conflict, verifyVars
<1>4. Numbered' /\ Linked'
  BY <1>1, QuietLedger
<1>5. SeenInPast'
  BY <1>1 DEF SeenInPast, TypeOK
<1>6. TriesLeft'
  BY <1>1, <1>2 DEF TriesLeft, TypeOK
<1>7. CommitsKept'
  BY <1>1 DEF CommitsKept, TypeOK, MySeq, MyHash, EventHash
<1>8. AnchoredOnlyCommitted' /\ OneAnchorEach'
  BY <1>1 DEF AnchoredOnlyCommitted, OneAnchorEach, EventHash
<1>9. Paid'
  <2> SUFFICES ASSUME NEW d \in Appends
               PROVE  tries'[d] + (IF pc'[d] = "read" THEN head.version - seen[d].version ELSE 0)
                        <= Cardinality(Passed(d)')
    BY <1>1 DEF Paid
  <2>1. Passed(d) \subseteq Passed(d)'
    BY <1>1 DEF Passed, TypeOK
  <2>2. Cardinality(Passed(d)) \in Nat /\ Cardinality(Passed(d)') \in Nat
        /\ Cardinality(Passed(d)) <= Cardinality(Passed(d)')
    BY <2>1, PassedGrows
  <2>3. tries[d] \in Nat /\ seen[d].version \in Nat /\ head.version \in Nat
    BY DEF TypeOK, Heads
  <2>4. tries[d] + (IF pc[d] = "read" THEN head.version - seen[d].version ELSE 0)
          <= Cardinality(Passed(d))
    BY DEF Paid
  <2>5. CASE d = c
    <3>1. head.version - seen[d].version >= 1
      BY <1>1, <2>3, <2>5 DEF SeenInPast
    <3>2. tries'[d] = tries[d] + 1 /\ pc'[d] # "read"
      BY <1>1, <2>5 DEF TypeOK
    <3> QED
      BY <1>1, <2>2, <2>3, <2>4, <2>5, <3>1, <3>2
  <2>6. CASE d # c
    <3>1. pc'[d] = pc[d] /\ tries'[d] = tries[d]
      BY <1>1, <2>6 DEF TypeOK
    <3> QED
      BY <2>2, <2>3, <2>4, <3>1
  <2> QED
    BY <2>5, <2>6
<1>10. OwnAnchor'
  BY <1>1 DEF OwnAnchor, AnchorFile, MySeq, MyHash, TypeOK
<1> QED
  BY <1>3, <1>4, <1>5, <1>6, <1>7, <1>8, <1>9, <1>10

\* A step in which calls only leave the loop of tries.
LEMMA LeavingKeeps ==
  ASSUME LedgerInv, UNCHANGED <<seen, tries>>,
         \A d \in Appends : \/ pc'[d] = pc[d] /\ (pc[d] = "read" => head' = head)
                            \/ pc'[d] \notin {"new", "retry", "read"}
  PROVE  SeenInPast' /\ TriesLeft' /\ Paid'
<1> USE DEF LedgerInv
<1>1. SeenInPast' /\ TriesLeft'
  BY DEF SeenInPast, TriesLeft
<1>2. Paid'
  <2> SUFFICES ASSUME NEW d \in Appends
               PROVE  tries[d] + (IF pc'[d] = "read" THEN head'.version - seen[d].version ELSE 0)
                        <= Cardinality(Passed(d)')
    BY DEF Paid
  <2>1. Passed(d) \subseteq Passed(d)'
    BY DEF Passed
  <2>2. Cardinality(Passed(d)) \in Nat /\ Cardinality(Passed(d)') \in Nat
        /\ Cardinality(Passed(d)) <= Cardinality(Passed(d)')
    BY <2>1, PassedGrows
  <2>3. tries[d] \in Nat /\ seen[d].version \in Nat /\ head.version \in Nat
    BY DEF TypeOK, Heads
  <2>4. tries[d] + (IF pc[d] = "read" THEN head.version - seen[d].version ELSE 0)
          <= Cardinality(Passed(d))
    BY DEF Paid
  <2>5. pc[d] = "read" => seen[d].version <= head.version
    BY DEF SeenInPast
  <2> QED
    BY <2>2, <2>3, <2>4, <2>5
<1> QED
  BY <1>1, <1>2

\* Calls hash to different values.
LEMMA HashesDiffer ==
  ASSUME LedgerInv, NEW c \in Appends, NEW d \in Appends, c # d
  PROVE  MyHash(c) # MyHash(d)
<1>1. seen[c].hash \in Seq(Appends) /\ seen[d].hash \in Seq(Appends)
  BY DEF LedgerInv, TypeOK, Heads
<1> QED
  BY <1>1 DEF MyHash

\* What a call's anchor says.
LEMMA AnchorSays ==
  ASSUME LedgerInv, NEW c \in Appends
  PROVE  \A whole \in BOOLEAN : /\ AnchorFile(c, whole).seq = MySeq(c)
                                /\ AnchorFile(c, whole).hash = MyHash(c)
                                /\ AnchorFile(c, whole).whole = whole
                                /\ AnchorFile(c, whole) \in Anchors
<1>1. MySeq(c) \in Nat \ {0} /\ MyHash(c) \in Seq(Appends)
  BY DEF MySeq, MyHash, LedgerInv, TypeOK, Heads
<1> QED
  BY <1>1 DEF AnchorFile, Anchors

LEMMA CreateAnchorKeeps ==
  ASSUME LedgerInv, NEW c \in Appends, CreateAnchor(c)
  PROVE  LedgerInv'
<1> USE DEF LedgerInv
<1> DEFINE n == AnchorFile(c, FALSE)
<1>1. /\ pc[c] = "committed" /\ pc' = [pc EXCEPT ![c] = "created"]
      /\ anchors' = anchors \cup {n}
      /\ events' = events /\ head' = head /\ seen' = seen /\ tries' = tries
      /\ restores' = restores
  BY DEF CreateAnchor, Go
<1>2. n.seq = MySeq(c) /\ n.hash = MyHash(c) /\ n \in Anchors
  BY AnchorSays
<1> HIDE DEF n
<1>8. TypeOK'
  BY <1>1, <1>2 DEF TypeOK, Labels, CreateAnchor, Disturb
<1>3. Numbered' /\ Linked'
  BY <1>1, QuietLedger
<1>4. SeenInPast' /\ TriesLeft' /\ Paid'
  <2> \A d \in Appends : pc'[d] = pc[d] \/ pc'[d] \notin {"new", "retry", "read"}
    BY <1>1 DEF TypeOK
  <2> QED
    BY <1>1, LeavingKeeps
<1>5. CommitsKept'
  BY <1>1 DEF CommitsKept, TypeOK, MySeq, MyHash, EventHash
<1>6. AnchoredOnlyCommitted'
  <2> SUFFICES ASSUME restores = 0, NEW a \in anchors'
               PROVE  \E e \in events : a.seq = e.seq /\ a.hash = EventHash(e)
    BY <1>1 DEF AnchoredOnlyCommitted, EventHash
  <2>1. CASE a \in anchors
    BY <2>1 DEF AnchoredOnlyCommitted
  <2>2. CASE a = n
    <3>1. PICK e \in events : e.seq = MySeq(c) /\ EventHash(e) = MyHash(c)
      BY <1>1 DEF CommitsKept
    <3> QED
      BY <1>2, <2>2, <3>1
  <2> QED
    BY <1>1, <2>1, <2>2
<1>7. OneAnchorEach'
  <2>1. \A a \in anchors : a.seq # MySeq(c)
    BY DEF CreateAnchor, AnchorAbsent
  <2> QED
    BY <1>1, <1>2, <2>1 DEF OneAnchorEach
<1>9. OwnAnchor'
  BY <1>1 DEF OwnAnchor, AnchorFile, MySeq, MyHash, TypeOK, n
<1> QED
  BY <1>3, <1>4, <1>5, <1>6, <1>7, <1>8, <1>9

LEMMA WriteAnchorKeeps ==
  ASSUME LedgerInv, NEW c \in Appends, WriteAnchor(c)
  PROVE  LedgerInv'
<1> USE DEF LedgerInv
<1> DEFINE n == AnchorFile(c, TRUE)
<1>1. /\ pc[c] = "created" /\ pc' = [pc EXCEPT ![c] = "done"]
      /\ anchors' = {a \in anchors : a.seq # MySeq(c)} \cup {n}
      /\ events' = events /\ head' = head /\ seen' = seen /\ tries' = tries
      /\ restores' = restores
  BY DEF WriteAnchor, Go
<1>2. n.seq = MySeq(c) /\ n.hash = MyHash(c) /\ n \in Anchors
  BY AnchorSays
<1> HIDE DEF n
<1>3. TypeOK'
  BY <1>1, <1>2 DEF TypeOK, Labels, WriteAnchor, Disturb
<1>4. Numbered' /\ Linked'
  BY <1>1, QuietLedger
<1>5. SeenInPast' /\ TriesLeft' /\ Paid'
  <2> \A d \in Appends : pc'[d] = pc[d] \/ pc'[d] \notin {"new", "retry", "read"}
    BY <1>1 DEF TypeOK
  <2> QED
    BY <1>1, LeavingKeeps
<1>6. CommitsKept'
  BY <1>1 DEF CommitsKept, TypeOK, MySeq, MyHash, EventHash
<1>7. AnchoredOnlyCommitted'
  <2> SUFFICES ASSUME restores = 0, NEW b \in anchors'
               PROVE  \E e \in events : b.seq = e.seq /\ b.hash = EventHash(e)
    BY <1>1 DEF AnchoredOnlyCommitted, EventHash
  <2>1. CASE b \in anchors
    BY <2>1 DEF AnchoredOnlyCommitted
  <2>2. CASE b = n
    <3>1. PICK e \in events : e.seq = MySeq(c) /\ EventHash(e) = MyHash(c)
      BY <1>1 DEF CommitsKept
    <3> QED
      BY <1>2, <2>2, <3>1
  <2> QED
    BY <1>1, <2>1, <2>2
<1>8. OneAnchorEach'
  BY <1>1, <1>2 DEF OneAnchorEach
<1>9. OwnAnchor'
  <2> SUFFICES ASSUME NEW d \in Appends, pc'[d] = "created"
               PROVE  AnchorFile(d, FALSE) \in anchors'
    BY <1>1 DEF OwnAnchor, AnchorFile, MySeq, MyHash
  <2>1. d # c /\ pc[d] = "created"
    BY <1>1 DEF TypeOK
  <2>2. AnchorFile(d, FALSE) \in anchors /\ AnchorFile(c, FALSE) \in anchors
    BY <1>1, <2>1 DEF OwnAnchor
  <2>3. MySeq(d) # MySeq(c)
    <3>1. MyHash(d) # MyHash(c)
      BY <2>1, HashesDiffer
    <3> QED
      BY <2>2, <3>1, AnchorSays DEF OneAnchorEach
  <2> QED
    BY <1>1, <2>2, <2>3, AnchorSays
<1> QED
  BY <1>3, <1>4, <1>5, <1>6, <1>7, <1>8, <1>9

LEMMA AnchorExistsKeeps ==
  ASSUME LedgerInv, NEW c \in Appends, AnchorExists(c)
  PROVE  LedgerInv'
<1> USE DEF LedgerInv
<1>1. /\ \E l \in {"done", "raised"} : pc' = [pc EXCEPT ![c] = l]
      /\ events' = events /\ head' = head /\ anchors' = anchors /\ seen' = seen
      /\ tries' = tries /\ restores' = restores
  BY DEF AnchorExists, Go, ledgerVars
<1>2. TypeOK'
  BY <1>1 DEF TypeOK, Labels, AnchorExists, verifyVars
<1>3. Numbered' /\ Linked'
  BY <1>1, QuietLedger
<1>4. SeenInPast' /\ TriesLeft' /\ Paid'
  <2> \A d \in Appends : pc'[d] = pc[d] \/ pc'[d] \notin {"new", "retry", "read"}
    BY <1>1 DEF TypeOK
  <2> QED
    BY <1>1, LeavingKeeps
<1>5. CommitsKept'
  BY <1>1 DEF CommitsKept, TypeOK, MySeq, MyHash, EventHash
<1>6. AnchoredOnlyCommitted' /\ OneAnchorEach'
  BY <1>1 DEF AnchoredOnlyCommitted, OneAnchorEach, EventHash
<1>7. OwnAnchor'
  BY <1>1 DEF OwnAnchor, AnchorFile, MySeq, MyHash, TypeOK
<1> QED
  BY <1>2, <1>3, <1>4, <1>5, <1>6, <1>7

LEMMA CrashKeeps ==
  ASSUME LedgerInv, NEW c \in Appends, Crash(c)
  PROVE  LedgerInv'
<1> USE DEF LedgerInv
<1>1. /\ pc' = [pc EXCEPT ![c] = "crashed"]
      /\ events' = events /\ head' = head /\ anchors' = anchors /\ seen' = seen
      /\ tries' = tries /\ restores' = restores
  BY DEF Crash, Go, ledgerVars
<1>2. TypeOK'
  BY <1>1, AuditAssumption DEF TypeOK, Labels, Crash, verifyVars
<1>3. Numbered' /\ Linked'
  BY <1>1, QuietLedger
<1>4. SeenInPast' /\ TriesLeft' /\ Paid'
  <2> \A d \in Appends : pc'[d] = pc[d] \/ pc'[d] \notin {"new", "retry", "read"}
    BY <1>1 DEF TypeOK
  <2> QED
    BY <1>1, LeavingKeeps
<1>5. CommitsKept'
  BY <1>1 DEF CommitsKept, TypeOK, MySeq, MyHash, EventHash
<1>6. AnchoredOnlyCommitted' /\ OneAnchorEach'
  BY <1>1 DEF AnchoredOnlyCommitted, OneAnchorEach, EventHash
<1>7. OwnAnchor'
  BY <1>1 DEF OwnAnchor, AnchorFile, MySeq, MyHash, TypeOK
<1> QED
  BY <1>2, <1>3, <1>4, <1>5, <1>6, <1>7

\* The database goes back: what is left is a shorter chain, and no try survives.
LEMMA RestoreKeeps ==
  ASSUME LedgerInv, Restore
  PROVE  LedgerInv'
<1> USE DEF LedgerInv
<1>1. PICK n \in 0..(head.version - 1) :
        /\ events' = {e \in events : e.seq <= n}
        /\ head' = IF n = 0 THEN NoHead ELSE [version |-> n, hash |-> EventHash(Row(n))]
  BY DEF Restore
<1>2. head.version \in Nat /\ n \in Nat /\ n < head.version
  BY DEF TypeOK, Heads
<1>3. /\ pc' = [c \in Appends |-> IF pc[c] \in {"retry", "read"} THEN "raised" ELSE pc[c]]
      /\ anchors' = anchors /\ seen' = seen /\ tries' = tries
      /\ restores < MaxRestores /\ restores' = restores + 1
  BY DEF Restore
<1>4. n # 0 => Row(n) \in events /\ Row(n).seq = n
  BY <1>2, RowFound
<1>5. head' \in Heads /\ head'.version = n
  <2>1. CASE n = 0
    BY <1>1, <2>1 DEF NoHead, Zero, Heads
  <2>2. CASE n # 0
    <3>1. EventHash(Row(n)) \in Seq(Appends)
      BY <1>4, <2>2, HashType DEF TypeOK
    <3> QED
      BY <1>1, <1>2, <2>2, <3>1 DEF Heads
  <2> QED
    BY <2>1, <2>2
<1>6. TypeOK'
  <2>1. events' \subseteq Events
    BY <1>1 DEF TypeOK
  <2>2. pc' \in [Appends -> Labels]
    BY <1>3 DEF TypeOK, Labels
  <2>3. restores' \in 0..MaxRestores
    BY <1>3, AuditAssumption DEF TypeOK
  <2> QED
    BY <1>3, <1>5, <2>1, <2>2, <2>3 DEF TypeOK, Restore, Disturb
<1>7. Numbered'
  BY <1>1, <1>2, <1>5 DEF Numbered
<1>8. Linked'
  <2>1. \A e \in events' : e \in events /\ e.seq <= n
    BY <1>1
  <2>2. head'.version = 0 => head'.hash = Zero
    BY <1>1, <1>5 DEF NoHead
  <2>3. \A e \in events' : e.seq = n => head'.hash = EventHash(e)
    BY <1>1, <1>4, <2>1 DEF Numbered
  <2> QED
    BY <1>5, <2>1, <2>2, <2>3 DEF Linked, EventHash
<1>9. SeenInPast' /\ TriesLeft' /\ Paid'
  <2> \A c \in Appends : \/ pc'[c] = pc[c] /\ pc[c] # "read"
                         \/ pc'[c] \notin {"new", "retry", "read"}
    BY <1>3
  <2> QED
    BY <1>3, LeavingKeeps
<1>10. CommitsKept' /\ AnchoredOnlyCommitted'
  BY <1>3 DEF CommitsKept, AnchoredOnlyCommitted, TypeOK
<1>11. OneAnchorEach'
  BY <1>3 DEF OneAnchorEach
<1>12. OwnAnchor'
  BY <1>3 DEF OwnAnchor, AnchorFile, MySeq, MyHash
<1> QED
  BY <1>6, <1>7, <1>8, <1>9, <1>10, <1>11, <1>12

\* verify() writes nothing that append() reads.
LEMMA VerifyKeeps ==
  ASSUME LedgerInv, NEW v \in Verifiers, VerifyStep(v)
  PROVE  LedgerInv'
<1> USE DEF LedgerInv
<1>1. UNCHANGED <<ledgerVars, callVars, crashes, restores>>
  BY DEF VerifyStep, VerifyRows, VerifyHead, VerifyAnchor
<1>2. TypeOK'
  <2>1. CASE VerifyRows(v)
    BY <1>1, <2>1 DEF TypeOK, VerifyRows, HeadReturned, ledgerVars, callVars
  <2>2. CASE VerifyHead(v)
    BY <1>1, <2>2 DEF TypeOK, VerifyHead, ledgerVars, callVars
  <2>3. CASE VerifyAnchor(v)
    BY <1>1, <2>3 DEF TypeOK, VerifyAnchor, ledgerVars, callVars
  <2> QED
    BY <2>1, <2>2, <2>3 DEF VerifyStep
<1>3. Numbered' /\ Linked'
  BY <1>1, QuietLedger DEF ledgerVars
<1>4. SeenInPast' /\ TriesLeft' /\ Paid'
  BY <1>1, LeavingKeeps DEF ledgerVars, callVars
<1>5. CommitsKept' /\ AnchoredOnlyCommitted' /\ OneAnchorEach' /\ OwnAnchor'
  BY <1>1 DEF CommitsKept, AnchoredOnlyCommitted, OneAnchorEach, OwnAnchor, AnchorFile,
              MySeq, MyHash, EventHash, ledgerVars, callVars
<1> QED
  BY <1>2, <1>3, <1>4, <1>5

LEMMA StutterKeeps ==
  ASSUME LedgerInv, UNCHANGED vars
  PROVE  LedgerInv'
<1> USE DEF LedgerInv
<1>1. UNCHANGED <<ledgerVars, callVars, verifyVars, crashes, restores>>
  BY DEF vars
<1>2. TypeOK'
  BY <1>1 DEF TypeOK, ledgerVars, callVars, verifyVars
<1>3. Numbered' /\ Linked'
  BY <1>1, QuietLedger DEF ledgerVars
<1>4. SeenInPast' /\ TriesLeft' /\ Paid'
  BY <1>1, LeavingKeeps DEF ledgerVars, callVars
<1>5. CommitsKept' /\ AnchoredOnlyCommitted' /\ OneAnchorEach' /\ OwnAnchor'
  BY <1>1 DEF CommitsKept, AnchoredOnlyCommitted, OneAnchorEach, OwnAnchor, AnchorFile,
              MySeq, MyHash, EventHash, ledgerVars, callVars
<1> QED
  BY <1>2, <1>3, <1>4, <1>5

\* The inductive invariant holds throughout.
THEOREM LedgerInvariant == Spec => []LedgerInv
<1>1. LedgerInv /\ [Next]_vars => LedgerInv'
  <2> SUFFICES ASSUME LedgerInv, [Next]_vars PROVE LedgerInv'
    OBVIOUS
  <2>1. ASSUME NEW c \in Appends, AppendStep(c) PROVE LedgerInv'
    BY <2>1, ReadHeadKeeps, CommitKeeps, ConflictKeeps, CreateAnchorKeeps, WriteAnchorKeeps,
       AnchorExistsKeeps DEF AppendStep
  <2>2. ASSUME NEW c \in Appends, Crash(c) PROVE LedgerInv'
    BY <2>2, CrashKeeps
  <2>3. ASSUME NEW v \in Verifiers, VerifyStep(v) PROVE LedgerInv'
    BY <2>3, VerifyKeeps
  <2>4. CASE Restore
    BY <2>4, RestoreKeeps
  <2>5. CASE UNCHANGED vars
    BY <2>5, StutterKeeps
  <2> QED
    BY <2>1, <2>2, <2>3, <2>4, <2>5 DEF Next
<1> QED
  BY <1>1, InitLedger, PTL DEF Spec

\* Every variable keeps its type, for any number of calls and verifiers.
THEOREM LedgerTypeCorrect == Spec => []TypeOK
<1>1. LedgerInv => TypeOK
  BY DEF LedgerInv
<1> QED
  BY <1>1, LedgerInvariant, PTL

\* However many appends race, retry, die and are overtaken by a restore, the events
\* form one unbroken chain that the head closes: the compare-and-swap on the head
\* alone keeps it (audit.py, append).
THEOREM ChainAlwaysIntact == Spec => []ChainIntact
<1>1. LedgerInv => ChainIntact
  BY ChainFromLinks DEF LedgerInv
<1> QED
  BY <1>1, LedgerInvariant, PTL

\* While no old database is restored, every anchor file binds a committed event.
THEOREM AnchorsFollowCommits == Spec => []AnchoredOnlyCommitted
<1>1. LedgerInv => AnchoredOnlyCommitted
  BY DEF LedgerInv
<1> QED
  BY <1>1, LedgerInvariant, PTL

\* append() gives up after MaxTries conflicts only when that many other calls got
\* past their own transaction meanwhile.
THEOREM RetriesMeanProgress == Spec => []RetryMeansProgress
<1>1. ASSUME LedgerInv PROVE RetryMeansProgress
  <2> SUFFICES ASSUME NEW c \in Appends PROVE tries[c] <= Cardinality(Passed(c))
    BY DEF RetryMeansProgress
  <2>1. /\ tries[c] \in Nat /\ seen[c].version \in Nat /\ head.version \in Nat
        /\ pc[c] = "read" => seen[c].version <= head.version
        /\ tries[c] + (IF pc[c] = "read" THEN head.version - seen[c].version ELSE 0)
             <= Cardinality(Passed(c))
    BY <1>1 DEF LedgerInv, TypeOK, Heads, SeenInPast, Paid
  <2>2. Passed(c) \in SUBSET Appends
    BY DEF Passed
  <2>3. Cardinality(Passed(c)) \in Nat
    BY <2>2, AuditAssumption, FS_Subset, FS_CardinalityType
  <2> QED
    BY <2>1, <2>3
<1> QED
  BY <1>1, LedgerInvariant, PTL

LEMMA WholeStays ==
  ASSUME LedgerInv, [Next]_vars, NEW a \in anchors, a.whole
  PROVE  a \in anchors'
<1>1. ASSUME NEW c \in Appends, WriteAnchor(c) PROVE a \in anchors'
  <2>1. AnchorFile(c, FALSE) \in anchors
    BY <1>1 DEF WriteAnchor, LedgerInv, OwnAnchor
  <2>2. a.seq # MySeq(c)
    BY <2>1, AnchorSays DEF LedgerInv, OneAnchorEach
  <2> QED
    BY <1>1, <2>2 DEF WriteAnchor
<1>2. ASSUME NEW c \in Appends, CreateAnchor(c) PROVE a \in anchors'
  BY <1>2 DEF CreateAnchor
<1>3. ASSUME NEW c \in Appends,
             ReadHead(c) \/ Commit(c) \/ Conflict(c) \/ AnchorExists(c) \/ Crash(c)
      PROVE  anchors' = anchors
  BY <1>3 DEF ReadHead, Commit, Conflict, AnchorExists, Crash, ledgerVars
<1>4. ASSUME NEW v \in Verifiers, VerifyStep(v) PROVE anchors' = anchors
  BY <1>4 DEF VerifyStep, VerifyRows, VerifyHead, VerifyAnchor, ledgerVars
<1>5. Restore \/ UNCHANGED vars => anchors' = anchors
  BY DEF Restore, vars, ledgerVars
<1> QED
  BY <1>1, <1>2, <1>3, <1>4, <1>5 DEF Next, AppendStep

\* A finished anchor file is never replaced, changed or doubled, not even when a
\* restored database comes to its sequence number again.
THEOREM AnchorsNeverChange == Spec => AnchorsImmutable
<1> DEFINE Kept == \A a \in anchors :
             a.whole => a \in anchors' /\ \A b \in anchors' : b.seq = a.seq => b = a
<1>1. ASSUME LedgerInv, LedgerInv', [Next]_vars PROVE Kept
  BY <1>1, WholeStays DEF LedgerInv, OneAnchorEach
<1>2. LedgerInv /\ LedgerInv' /\ [Next]_vars => [Kept]_vars
  BY <1>1
<1> QED
  BY <1>2, LedgerInvariant, PTL DEF Spec, AnchorsImmutable
-----------------------------------------------------------------------------
(* verify() raises no false alarm *)

\* A call that has returned has its anchor file, whoever wrote it.
Anchored == \A c \in Appends : pc[c] = "done" => AnchorFile(c, TRUE) \in anchors

\* What a quiet verification has read is what there is, and what there is was anchored.
Undisturbed ==
  /\ DOMAIN vrows = Verifiers
  /\ \A v \in Verifiers :
       /\ vpc[v] # "done" => report[v] = "none"
       /\ quiet[v] => /\ HeadReturned
                      /\ vrows[v] = events
                      /\ vpc[v] \in {"head", "done"} => vhead[v] = head
                      /\ report[v] # "invalid"

\* A call that has returned stays as it is.
LEMMA DoneStays ==
  ASSUME TypeOK, [Next]_vars, NEW c \in Appends, pc[c] = "done"
  PROVE  pc'[c] = "done" /\ seen'[c] = seen[c]
BY DEF TypeOK, Next, AppendStep, VerifyStep, ReadHead, Commit, Conflict, CreateAnchor, WriteAnchor,
       AnchorExists, Crash, Restore, VerifyRows, VerifyHead, VerifyAnchor, Go, vars, callVars

\* A call returns with its file written, or with the same file found.
LEMMA DoneAnchors ==
  ASSUME LedgerInv, [Next]_vars, NEW c \in Appends, pc[c] # "done", pc'[c] = "done"
  PROVE  AnchorFile(c, TRUE) \in anchors' /\ seen' = seen
<1>0. pc \in [Appends -> Labels] /\ anchors \subseteq Anchors
  BY DEF LedgerInv, TypeOK
<1>1. WriteAnchor(c) \/ AnchorExists(c)
  BY <1>0 DEF Next, AppendStep, VerifyStep, ReadHead, Commit, Conflict, CreateAnchor, WriteAnchor,
         AnchorExists, Crash, Restore, VerifyRows, VerifyHead, VerifyAnchor, Go, vars, callVars, RetryLabel
<1>2. CASE WriteAnchor(c)
  BY <1>2 DEF WriteAnchor
<1>3. CASE AnchorExists(c)
  <2>1. PICK a \in anchors : a.seq = MySeq(c) /\ Go(c, IF Accepts(a, c) THEN "done" ELSE "raised")
    BY <1>3 DEF AnchorExists
  <2>2. Accepts(a, c)
    BY <1>0, <2>1 DEF Go
  <2>3. a = AnchorFile(c, TRUE)
    BY <1>0, <2>1, <2>2 DEF Accepts, AnchorFile, Anchors
  <2> QED
    BY <1>3, <2>3 DEF AnchorExists, ledgerVars
<1> QED
  BY <1>1, <1>2, <1>3

LEMMA StepKeepsAnchored ==
  ASSUME LedgerInv, Anchored, [Next]_vars
  PROVE  Anchored'
<1> SUFFICES ASSUME NEW c \in Appends, pc'[c] = "done" PROVE AnchorFile(c, TRUE)' \in anchors'
  BY DEF Anchored
<1>1. CASE pc[c] = "done"
  <2>1. AnchorFile(c, TRUE) \in anchors /\ AnchorFile(c, TRUE).whole
    BY <1>1, AnchorSays DEF Anchored
  <2>2. AnchorFile(c, TRUE) \in anchors'
    BY <2>1, WholeStays
  <2>3. seen'[c] = seen[c]
    BY <1>1, DoneStays DEF LedgerInv
  <2> QED
    BY <2>2, <2>3 DEF AnchorFile, MySeq, MyHash
<1>2. CASE pc[c] # "done"
  BY <1>2, DoneAnchors DEF AnchorFile, MySeq, MyHash
<1> QED
  BY <1>1, <1>2

\* When the head's event is anchored, the newest anchor is the head's.
LEMMA NewestIsHeads ==
  ASSUME LedgerInv, Anchored, HeadReturned
  PROVE  AnchorValid(head, anchors)
<1>1. PICK c \in Appends : pc[c] = "done" /\ MySeq(c) = head.version
  BY DEF HeadReturned
<1> DEFINE f == AnchorFile(c, TRUE)
<1>2. f \in anchors /\ f.seq = head.version /\ f.hash = MyHash(c) /\ f.whole = TRUE
  BY <1>1, AnchorSays DEF Anchored
<1>3. /\ \A a \in anchors : \E e \in events : a.seq = e.seq /\ a.hash = EventHash(e)
      /\ head.version \in Nat
  BY DEF HeadReturned, LedgerInv, AnchoredOnlyCommitted, TypeOK, Heads
<1>4. f.hash = head.hash
  BY <1>2, <1>3 DEF LedgerInv, Linked
<1>5. \A a \in anchors : a.seq \in 1..head.version
  BY <1>3 DEF LedgerInv, Numbered
<1> HIDE DEF f
<1>6. \A b \in anchors : b.seq <= f.seq
  BY <1>2, <1>3, <1>5
<1> DEFINE a == LatestAnchor(anchors)
<1>7. a \in anchors /\ \A b \in anchors : b.seq <= a.seq
  BY <1>2, <1>6 DEF LatestAnchor
<1> HIDE DEF a
<1>8. a.seq = f.seq
  <2>1. a.seq \in Nat /\ f.seq \in Nat /\ a.seq <= f.seq /\ f.seq <= a.seq
    BY <1>2, <1>5, <1>6, <1>7
  <2> QED
    BY <2>1
<1>9. a = f
  BY <1>2, <1>7, <1>8 DEF LedgerInv, OneAnchorEach
<1> QED
  BY <1>2, <1>4, <1>9 DEF AnchorValid, a

\* An append or a crash that disturbs no verification, while none moves.
LEMMA UndisturbedKept ==
  ASSUME LedgerInv, Undisturbed, [Next]_vars, UNCHANGED <<events, head, restores, verifyVars>>
  PROVE  Undisturbed'
<1>1. HeadReturned => HeadReturned'
  <2> SUFFICES ASSUME HeadReturned PROVE HeadReturned'
    OBVIOUS
  <2>1. PICK c \in Appends : pc[c] = "done" /\ MySeq(c) = head.version
    BY DEF HeadReturned
  <2>2. pc'[c] = "done" /\ seen'[c] = seen[c]
    BY <2>1, DoneStays DEF LedgerInv
  <2> QED
    BY <2>1, <2>2 DEF HeadReturned, MySeq
<1> QED
  BY <1>1 DEF Undisturbed, verifyVars

LEMMA StepKeepsUndisturbed ==
  ASSUME LedgerInv, Anchored, Undisturbed, [Next]_vars
  PROVE  Undisturbed'
<1>0. /\ vpc \in [Verifiers -> {"idle", "rows", "head", "done"}]
      /\ report \in [Verifiers -> {"none", "valid", "invalid"}]
      /\ vhead \in [Verifiers -> Heads] /\ quiet \in [Verifiers -> BOOLEAN]
  BY DEF LedgerInv, TypeOK
<1>1. ASSUME NEW c \in Appends, ReadHead(c) \/ Conflict(c) \/ AnchorExists(c) \/ Crash(c)
      PROVE  Undisturbed'
  BY <1>1, UndisturbedKept DEF ReadHead, Conflict, AnchorExists, Crash, ledgerVars
<1>2. CASE Disturb
  BY <1>2 DEF Disturb, Undisturbed
<1>3. ASSUME NEW c \in Appends, Commit(c) \/ CreateAnchor(c) \/ WriteAnchor(c) PROVE Disturb
  BY <1>3 DEF Commit, CreateAnchor, WriteAnchor
<1>4. Restore => Disturb
  BY DEF Restore
<1>5. CASE UNCHANGED vars
  BY <1>5, UndisturbedKept DEF vars, ledgerVars
<1>6. ASSUME NEW v \in Verifiers, VerifyStep(v) PROVE Undisturbed'
  <2>1. UNCHANGED <<ledgerVars, callVars, restores>>
    BY <1>6 DEF VerifyStep, VerifyRows, VerifyHead, VerifyAnchor
  <2>2. events' = events /\ head' = head /\ anchors' = anchors /\ (HeadReturned' <=> HeadReturned)
    BY <2>1 DEF ledgerVars, callVars, HeadReturned, MySeq
  <2>3. ASSUME VerifyRows(v)
        PROVE  Undisturbed'
    <3>1. /\ vpc[v] = "idle" /\ vpc'[v] = "rows" /\ vrows'[v] = events /\ quiet'[v] = HeadReturned
          /\ report' = report /\ vhead' = vhead
          /\ DOMAIN vrows' = Verifiers
          /\ \A w \in Verifiers \ {v} : vpc'[w] = vpc[w] /\ vrows'[w] = vrows[w] /\ quiet'[w] = quiet[w]
      BY <1>0, <2>3 DEF VerifyRows, Undisturbed
    <3> QED
      BY <2>2, <3>1 DEF Undisturbed
  <2>4. ASSUME VerifyHead(v) PROVE Undisturbed'
    <3>1. /\ vpc[v] = "rows" /\ vpc'[v] = "head" /\ vhead'[v] = head
          /\ report' = report /\ vrows' = vrows /\ quiet' = quiet
          /\ \A w \in Verifiers \ {v} : vpc'[w] = vpc[w] /\ vhead'[w] = vhead[w]
      BY <1>0, <2>4 DEF VerifyHead
    <3> QED
      BY <2>2, <3>1 DEF Undisturbed
  <2>5. ASSUME VerifyAnchor(v) PROVE Undisturbed'
    <3>1. /\ vpc[v] = "head" /\ vpc'[v] = "done"
          /\ report'[v] = IF ChainValid(vrows[v], vhead[v]) /\ AnchorValid(vhead[v], anchors)
                          THEN "valid" ELSE "invalid"
          /\ vrows' = vrows /\ quiet' = quiet /\ vhead' = vhead
          /\ \A w \in Verifiers \ {v} : vpc'[w] = vpc[w] /\ report'[w] = report[w]
      BY <1>0, <2>5 DEF VerifyAnchor
    <3>2. quiet[v] => report'[v] = "valid"
      <4> SUFFICES ASSUME quiet[v]
                   PROVE  ChainValid(vrows[v], vhead[v]) /\ AnchorValid(vhead[v], anchors)
        BY <3>1
      <4>1. HeadReturned /\ vrows[v] = events /\ vhead[v] = head
        BY <3>1 DEF Undisturbed
      <4>2. ChainValid(events, head)
        BY ChainFromLinks DEF LedgerInv, ChainIntact
      <4> QED
        BY <4>1, <4>2, NewestIsHeads
    <3> QED
      BY <2>2, <3>1, <3>2 DEF Undisturbed
  <2> QED
    BY <1>6, <2>3, <2>4, <2>5 DEF VerifyStep
<1> QED
  BY <1>1, <1>2, <1>3, <1>4, <1>5, <1>6 DEF Next, AppendStep

\* Once the call that wrote the head's event has returned, a verify() during which nothing
\* moves finds ledger and anchors in agreement, whatever raced and died before.
THEOREM NoFalseAlarmAlways == Spec => []NoFalseAlarm
<1>1. Init => Anchored /\ Undisturbed
  BY DEF Init, Anchored, Undisturbed
<1>2. LedgerInv /\ Anchored /\ Undisturbed /\ [Next]_vars => Anchored' /\ Undisturbed'
  BY StepKeepsAnchored, StepKeepsUndisturbed
<1>3. Undisturbed => NoFalseAlarm
  BY DEF Undisturbed, NoFalseAlarm
<1> QED
  BY <1>1, <1>2, <1>3, LedgerInvariant, PTL DEF Spec
-----------------------------------------------------------------------------
(* The user rows *)

Names == Roles \cup Passwords \cup {None}

UserRow == [active : BOOLEAN, role : Names, hash : Names, version : Nat,
            failures : Nat, lockedUntil : Nat]

LoginState == [user : Users \cup {None}, hash : Names, failures : Nat, now : Nat,
               version : Nat, role : Names]

Token == [user : Users, version : Nat, role : Names, exp : Nat, password : Names]

Kinds == {"role", "password", "deactivate", "reactivate", "revoke"}

OpState == [user : Users \cup {None}, kind : Kinds \cup {"none"}, to : Names, base : Nat]

Typed ==
  /\ now \in Nat
  /\ user \in [Users -> UserRow]
  /\ strikes \in [Users -> Nat]
  /\ lpc \in [Logins -> {"new", "failed", "correct", "issuing"}]
  /\ login \in [Logins -> LoginState]
  /\ \A l \in Logins : /\ lpc[l] # "new" => login[l].user \in Users
                       /\ login[l].now <= now
  /\ tokens \subseteq Token
  /\ opc \in [Ops -> {"new", "read", "done"}]
  /\ op \in [Ops -> OpState]
  /\ \A o \in Ops : opc[o] = "read" => op[o].user \in Users /\ op[o].kind \in Kinds
  /\ clean \in BOOLEAN

LEMMA Absent == NoUser \in UserRow /\ NoUser.active = FALSE
  BY DEF NoUser, UserRow, Names

LEMMA Outside == NoLogin \in LoginState /\ NoOp \in OpState /\ NoLogin.now = 0
  BY DEF NoLogin, LoginState, NoOp, OpState, Names

\* What a failed attempt does to a row.
LEMMA FailureRow ==
  ASSUME NEW r \in UserRow, NEW t \in Nat, NEW first \in Nat
  PROVE  /\ AfterFailure(r, t, first) \in UserRow
         /\ AfterFailure(r, t, first).active = r.active
         /\ AfterFailure(r, t, first).role = r.role
         /\ AfterFailure(r, t, first).hash = r.hash
         /\ AfterFailure(r, t, first).version = r.version
<1>1. CASE LockedAt(r, t)
  <2>1. AfterFailure(r, t, first) = [r EXCEPT !.failures = IF r.failures < Threshold THEN Threshold ELSE r.failures]
    BY <1>1 DEF AfterFailure
  <2>2. QED
    BY <2>1, AccountsAssumption DEF UserRow
<1>2. CASE ~LockedAt(r, t)
  <2> DEFINE n == (IF r.lockedUntil # 0 THEN 0 ELSE r.failures) + 1
  <2>1. AfterFailure(r, t, first) =
          [r EXCEPT !.failures = IF n >= Threshold THEN Threshold ELSE n,
                    !.lockedUntil = IF n >= Threshold THEN t + LockTime ELSE 0]
    BY <1>2 DEF AfterFailure
  <2> DEFINE failures == IF n >= Threshold THEN Threshold ELSE n
             lockedUntil == IF n >= Threshold THEN t + LockTime ELSE 0
  <2>2. failures \in Nat /\ lockedUntil \in Nat
    BY AccountsAssumption DEF UserRow
  <2>3. AfterFailure(r, t, first) = [r EXCEPT !.failures = failures, !.lockedUntil = lockedUntil]
    BY <2>1
  <2> HIDE DEF failures, lockedUntil
  <2>4. QED
    BY <2>2, <2>3 DEF UserRow
<1>3. QED
  BY <1>1, <1>2

LEMMA FailureWhileLocked ==
  ASSUME NEW r \in UserRow, NEW t \in Nat, NEW first \in Nat, LockedAt(r, t)
  PROVE  /\ AfterFailure(r, t, first).lockedUntil = r.lockedUntil
         /\ AfterFailure(r, t, first).failures = IF r.failures < Threshold THEN Threshold ELSE r.failures
<1>1. AfterFailure(r, t, first) = [r EXCEPT !.failures = IF r.failures < Threshold THEN Threshold ELSE r.failures]
  BY DEF AfterFailure
<1>2. QED
  BY <1>1 DEF UserRow

LEMMA FailureUnlocked ==
  ASSUME NEW r \in UserRow, NEW t \in Nat, NEW first \in Nat, ~LockedAt(r, t),
         NEW n, n = (IF r.lockedUntil # 0 THEN 0 ELSE r.failures) + 1
  PROVE  /\ n >= Threshold => /\ AfterFailure(r, t, first).failures = Threshold
                              /\ AfterFailure(r, t, first).lockedUntil = t + LockTime
         /\ n < Threshold => /\ AfterFailure(r, t, first).failures = n
                             /\ AfterFailure(r, t, first).lockedUntil = 0
<1>1. AfterFailure(r, t, first) =
        [r EXCEPT !.failures = IF n >= Threshold THEN Threshold ELSE n,
                  !.lockedUntil = IF n >= Threshold THEN t + LockTime ELSE 0]
  BY DEF AfterFailure
<1>2. n \in Nat /\ Threshold \in Nat
  BY AccountsAssumption DEF UserRow
<1>3. QED
  BY <1>1, <1>2 DEF UserRow

\* What an administrative call does to a row.
LEMMA AppliedRow ==
  ASSUME NEW r \in UserRow, NEW q \in OpState
  PROVE  /\ Applied(r, q) \in UserRow
         /\ Applied(r, q).failures = r.failures
         /\ Applied(r, q).lockedUntil = r.lockedUntil
         /\ Revokes(q.kind) => Applied(r, q).version = q.base + 1
         /\ ~Revokes(q.kind) => /\ Applied(r, q).version = r.version
                                /\ Applied(r, q).role = r.role
                                /\ Applied(r, q).hash = r.hash
                                /\ Applied(r, q).active = TRUE
<1> DEFINE role == IF q.kind = "role" THEN q.to ELSE r.role
           hash == IF q.kind = "password" THEN q.to ELSE r.hash
           active == IF q.kind = "deactivate" THEN FALSE ELSE IF q.kind = "reactivate" THEN TRUE ELSE r.active
           version == IF Revokes(q.kind) THEN q.base + 1 ELSE r.version
<1>1. Applied(r, q) = [r EXCEPT !.role = role, !.hash = hash, !.active = active, !.version = version]
  BY DEF Applied
<1>2. role \in Names /\ hash \in Names /\ version \in Nat
  BY DEF UserRow, OpState
<1>3. active \in BOOLEAN
  BY Zenon DEF UserRow
<1>4. /\ Revokes(q.kind) => version = q.base + 1
      /\ ~Revokes(q.kind) => version = r.version /\ role = r.role /\ hash = r.hash /\ active = TRUE
  BY DEF Revokes
<1> HIDE DEF role, hash, active, version
<1>5. Applied(r, q) = [active |-> active, role |-> role, hash |-> hash, version |-> version,
                       failures |-> r.failures, lockedUntil |-> r.lockedUntil]
  BY <1>1 DEF UserRow
<1>6. Applied(r, q) \in UserRow
  BY <1>2, <1>3, <1>5 DEF UserRow
<1>7. QED
  BY <1>4, <1>5, <1>6

\* What a successful login does to the rows and the calls.
LEMMA SettledType ==
  ASSUME Typed, NEW u, NEW l, NEW version \in Nat, NEW role \in Names
  PROVE  /\ [user EXCEPT ![u].failures = 0, ![u].lockedUntil = 0] \in [Users -> UserRow]
         /\ [login EXCEPT ![l].version = version, ![l].role = role] \in [Logins -> LoginState]
<1>1. [user EXCEPT ![u].failures = 0, ![u].lockedUntil = 0] \in [Users -> UserRow]
  BY DEF Typed, UserRow
<1>2. [login EXCEPT ![l].version = version, ![l].role = role] \in [Logins -> LoginState]
  <2>1. login \in [Logins -> LoginState]
    BY DEF Typed
  <2>2. ASSUME NEW m \in Logins
        PROVE  [login[m] EXCEPT !.version = version, !.role = role] \in LoginState
    BY <2>1 DEF LoginState
  <2>3. QED
    BY <2>1, <2>2
<1>3. QED
  BY <1>1, <1>2

LEMMA TypedInit == AccountsInit => Typed
<1> SUFFICES ASSUME AccountsInit PROVE Typed
  OBVIOUS
<1>1. user \in [Users -> UserRow]
  <2>1. {[active |-> TRUE, role |-> r, hash |-> p, version |-> 1, failures |-> 0, lockedUntil |-> 0] :
           r \in Roles, p \in Passwords} \subseteq UserRow
    <3>1. ASSUME NEW r \in Roles, NEW p \in Passwords
          PROVE  [active |-> TRUE, role |-> r, hash |-> p, version |-> 1, failures |-> 0, lockedUntil |-> 0] \in UserRow
      BY DEF UserRow, Names
    <3>2. QED
      BY <3>1
  <2>2. QED
    BY <2>1 DEF AccountsInit
<1>2. QED
  BY <1>1, Outside DEF AccountsInit, Typed

LEMMA TypedStep ==
  ASSUME Typed, [AccountsNext]_accountsVars
  PROVE  Typed'
<1> USE DEF Typed
<1>1. ASSUME NEW l \in Logins, ReadUser(l) PROVE Typed'
  <2>1. PICK u \in Users, p \in Passwords :
          LET r == user[u]
              valid == r.active /\ ~LockedAt(r, now) /\ Verifies(r.hash, p)
          IN /\ login' = [login EXCEPT ![l] =
                  IF valid THEN [NoLogin EXCEPT !.user = u, !.hash = r.hash]
                  ELSE [NoLogin EXCEPT !.user = u, !.failures = r.failures, !.now = now]]
             /\ lpc' = [lpc EXCEPT ![l] = IF valid THEN "correct" ELSE "failed"]
    BY <1>1 DEF ReadUser
  <2>2. user[u].hash \in Names /\ user[u].failures \in Nat
    BY DEF UserRow
  <2> DEFINE right == [NoLogin EXCEPT !.user = u, !.hash = user[u].hash]
             wrong == [NoLogin EXCEPT !.user = u, !.failures = user[u].failures, !.now = now]
  <2>3. /\ right \in LoginState /\ right.user = u /\ right.now = 0
        /\ wrong \in LoginState /\ wrong.user = u /\ wrong.now = now
    BY <2>2 DEF NoLogin, LoginState, Names
  <2>4. \/ login' = [login EXCEPT ![l] = right] /\ lpc' = [lpc EXCEPT ![l] = "correct"]
        \/ login' = [login EXCEPT ![l] = wrong] /\ lpc' = [lpc EXCEPT ![l] = "failed"]
    BY <2>1
  <2> HIDE DEF right, wrong
  <2>5. /\ lpc' \in [Logins -> {"new", "failed", "correct", "issuing"}]
        /\ login' \in [Logins -> LoginState]
        /\ \A m \in Logins : /\ lpc'[m] # "new" => login'[m].user \in Users
                             /\ login'[m].now <= now
    BY <2>3, <2>4
  <2>6. QED
    BY <1>1, <2>5 DEF ReadUser, userVars, opVars
<1>2. ASSUME NEW l \in Logins, Return(l)
      PROVE  /\ lpc' \in [Logins -> {"new", "failed", "correct", "issuing"}]
             /\ login' \in [Logins -> LoginState]
             /\ \A m \in Logins : /\ lpc'[m] # "new" => login'[m].user \in Users
                                  /\ login'[m].now <= now
  BY <1>2, Outside DEF Return
<1>3. ASSUME NEW l \in Logins, RecordFailure(l) PROVE Typed'
  <2>1. /\ login[l].now \in Nat /\ login[l].failures \in Nat /\ login[l].user \in Users
    BY <1>3 DEF RecordFailure, LoginState
  <2>2. user' \in [Users -> UserRow]
    <3> DEFINE u == login[l].user
               after == AfterFailure(user[u], login[l].now, login[l].failures)
    <3>1. after \in UserRow
      BY <2>1, FailureRow
    <3>2. user' = user \/ user' = [user EXCEPT ![u] = after]
      BY <1>3 DEF RecordFailure, userVars
    <3> HIDE DEF after
    <3>3. QED
      BY <3>1, <3>2
  <2>3. strikes' \in [Users -> Nat]
    BY <1>3, AccountsAssumption DEF RecordFailure, userVars
  <2>4. QED
    BY <1>2, <1>3, <2>2, <2>3 DEF RecordFailure, opVars
<1>4. ASSUME NEW l \in Logins, Settle(l) PROVE Typed'
  <2> DEFINE u == login[l].user
  <2>1. u \in Users
    BY <1>4 DEF Settle
  <2>2. CASE Return(l) /\ UNCHANGED userVars
    BY <1>2, <1>4, <2>2 DEF Settle, userVars, opVars
  <2>3. CASE ~(Return(l) /\ UNCHANGED userVars)
    <3>1. /\ user' = [user EXCEPT ![u].failures = 0, ![u].lockedUntil = 0]
          /\ strikes' = [strikes EXCEPT ![u] = 0]
          /\ login' = [login EXCEPT ![l].version = user[u].version, ![l].role = user[u].role]
          /\ lpc' = [lpc EXCEPT ![l] = "issuing"]
      BY <1>4, <2>3 DEF Settle
    <3>2. user[u].version \in Nat /\ user[u].role \in Names
      BY <2>1 DEF UserRow
    <3>3. user' \in [Users -> UserRow]
      BY <3>1, <3>2, SettledType
    <3>4. login' \in [Logins -> LoginState]
      BY <3>1, <3>2, SettledType
    <3>5. \A m \in Logins : login'[m].user = login[m].user /\ login'[m].now = login[m].now
      BY <3>1 DEF LoginState
    <3>6. QED
      BY <1>4, <2>1, <3>1, <3>3, <3>4, <3>5 DEF Settle, opVars
  <2>4. QED
    BY <2>2, <2>3
<1>5. ASSUME NEW l \in Logins, Issue(l) PROVE Typed'
  <2>1. Claims(login[l].user, login[l].version, login[l].role, login[l].hash) \in Token
    BY <1>5, AccountsAssumption DEF Issue, Claims, Token, LoginState
  <2>2. QED
    BY <1>2, <1>5, <2>1 DEF Issue, userVars, opVars
<1>6. ASSUME NEW o \in Ops, ReadOp(o) PROVE Typed'
  <2>1. PICK u \in Users, q \in Requests :
          op' = [op EXCEPT ![o] = [user |-> u, kind |-> q.kind, to |-> q.to, base |-> user[u].version]]
    BY <1>6 DEF ReadOp
  <2>2. q.kind \in Kinds /\ q.to \in Names /\ user[u].version \in Nat
    BY DEF Requests, Kinds, Names, UserRow
  <2>3. [user |-> u, kind |-> q.kind, to |-> q.to, base |-> user[u].version] \in OpState
    BY <2>2 DEF OpState
  <2>4. /\ op' \in [Ops -> OpState] /\ opc' \in [Ops -> {"new", "read", "done"}]
        /\ \A p \in Ops : opc'[p] = "read" => op'[p].user \in Users /\ op'[p].kind \in Kinds
    BY <1>6, <2>1, <2>2, <2>3 DEF ReadOp
  <2>5. QED
    BY <1>6, <2>4 DEF ReadOp, userVars, loginVars
<1>7. ASSUME NEW o \in Ops, WriteOp(o) PROVE Typed'
  <2>1. op[o] \in OpState /\ op[o].user \in Users
    BY <1>7 DEF WriteOp
  <2>2. user' = user \/ user' = [user EXCEPT ![op[o].user] = Applied(user[op[o].user], op[o])]
    BY <1>7 DEF WriteOp
  <2>3. user' \in [Users -> UserRow]
    <3>1. Applied(user[op[o].user], op[o]) \in UserRow
      BY <2>1, AppliedRow
    <3>2. QED
      BY <2>2, <3>1
  <2>4. clean' \in BOOLEAN
    BY <1>7, Zenon DEF WriteOp
  <2>5. /\ op' \in [Ops -> OpState] /\ opc' \in [Ops -> {"new", "read", "done"}]
        /\ \A p \in Ops : opc'[p] = "read" => op'[p].user \in Users /\ op'[p].kind \in Kinds
    BY <1>7, Outside DEF WriteOp
  <2>6. QED
    BY <1>7, <2>3, <2>4, <2>5 DEF WriteOp, loginVars
<1>8. ASSUME NEW u \in Users, DeleteUser(u) PROVE Typed'
  BY <1>8, Absent DEF DeleteUser, loginVars, opVars
<1>9. CASE Tick
  <2>1. now' = now + 1 /\ login' = login /\ \A l \in Logins : login[l].now \in Nat
    BY <1>9 DEF Tick, loginVars, LoginState
  <2>2. now' \in Nat /\ \A l \in Logins : login'[l].now <= now'
    BY <2>1
  <2>3. QED
    BY <1>9, <2>2 DEF Tick, userVars, loginVars, opVars
<1>10. CASE UNCHANGED accountsVars
  BY <1>10 DEF accountsVars, userVars, loginVars, opVars
<1>11. QED
  BY <1>1, <1>3, <1>4, <1>5, <1>6, <1>7, <1>8, <1>9, <1>10 DEF AccountsNext

\* The types hold of the rows and of every call under way; a reading of the clock is never
\* ahead of it.
THEOREM TypedAlways == AccountsSpec => []Typed
BY TypedInit, TypedStep, PTL DEF AccountsSpec
-----------------------------------------------------------------------------
(* The lockout *)

\* Without a lock the count is what was recorded, short of the threshold; under one it is
\* the threshold.
CountOf(r, n) == IF r.lockedUntil = 0 THEN r.failures = n /\ n < Threshold ELSE r.failures = Threshold

LockoutInv == \A u \in Users : user[u] # NoUser => CountOf(user[u], strikes[u])

LEMMA LockoutInit == AccountsInit => LockoutInv
<1> SUFFICES ASSUME AccountsInit, NEW u \in Users PROVE CountOf(user[u], strikes[u])
  BY DEF LockoutInv
<1>1. user[u].lockedUntil = 0 /\ user[u].failures = 0 /\ strikes[u] = 0
  BY DEF AccountsInit
<1>2. QED
  BY <1>1, AccountsAssumption DEF CountOf

LEMMA LockoutStep ==
  ASSUME Typed, LockoutInv, [AccountsNext]_accountsVars
  PROVE  LockoutInv'
<1>0. user \in [Users -> UserRow] /\ strikes \in [Users -> Nat]
  BY DEF Typed
<1>1. ASSUME NEW l \in Logins, RecordFailure(l) PROVE LockoutInv'
  <2> DEFINE u == login[l].user
             t == login[l].now
             after == AfterFailure(user[u], t, login[l].failures)
  <2>1. u \in Users /\ t \in Nat /\ login[l].failures \in Nat
    BY <1>1 DEF RecordFailure, Typed, LoginState
  <2>2. CASE user[u] = NoUser
    <3>1. UNCHANGED userVars
      BY <1>1, <2>2 DEF RecordFailure
    <3>2. QED
      BY <3>1 DEF LockoutInv, CountOf, userVars
  <2>3. CASE user[u] # NoUser
    <3>1. user' = [user EXCEPT ![u] = after]
      BY <1>1, <2>3 DEF RecordFailure
    <3>2. strikes' = [strikes EXCEPT ![u] = IF ~LockedAt(user[u], t) /\ user[u].lockedUntil # 0 THEN 1
                                            ELSE IF strikes[u] < Threshold THEN strikes[u] + 1 ELSE strikes[u]]
      BY <1>1, <2>3 DEF RecordFailure
    <3>3. CountOf(user[u], strikes[u]) /\ user[u] \in UserRow
      BY <1>0, <2>1, <2>3 DEF LockoutInv
    <3> HIDE DEF after
    <3>4. user'[u] = after
      BY <1>0, <2>1, <3>1
    <3>5. CASE LockedAt(user[u], t)
      <4>1. user[u].lockedUntil # 0 /\ after.lockedUntil = user[u].lockedUntil
        BY <2>1, <3>3, <3>5, FailureWhileLocked DEF LockedAt, UserRow, after
      <4>2. after.failures = Threshold
        <5>1. user[u].failures = Threshold
          BY <3>3, <4>1 DEF CountOf
        <5>2. after.failures = IF user[u].failures < Threshold THEN Threshold ELSE user[u].failures
          BY <2>1, <3>3, <3>5, FailureWhileLocked DEF after
        <5>3. QED
          BY <5>1, <5>2
      <4>3. CountOf(user'[u], strikes'[u])
        BY <3>4, <4>1, <4>2 DEF CountOf
      <4>4. QED
        BY <1>0, <2>1, <3>1, <3>2, <4>3 DEF LockoutInv
    <3>6. CASE ~LockedAt(user[u], t)
      <4> DEFINE n == (IF user[u].lockedUntil # 0 THEN 0 ELSE user[u].failures) + 1
      <4>1. /\ n >= Threshold => after.failures = Threshold /\ after.lockedUntil = t + LockTime
            /\ n < Threshold => after.failures = n /\ after.lockedUntil = 0
        BY <2>1, <3>3, <3>6, FailureUnlocked DEF after
      <4>2. strikes'[u] = n /\ n \in Nat
        BY <1>0, <2>1, <3>2, <3>3, <3>6 DEF CountOf, UserRow
      <4>3. t + LockTime # 0
        BY <2>1, AccountsAssumption
      <4> HIDE DEF n
      <4>4. CountOf(user'[u], strikes'[u])
        BY <3>4, <4>1, <4>2, <4>3, AccountsAssumption DEF CountOf
      <4>5. QED
        BY <1>0, <2>1, <3>1, <3>2, <4>4 DEF LockoutInv
    <3>7. QED
      BY <3>5, <3>6
  <2>4. QED
    BY <2>2, <2>3
<1>2. ASSUME NEW l \in Logins, Settle(l) PROVE LockoutInv'
  <2> DEFINE u == login[l].user
  <2>1. CASE UNCHANGED userVars
    BY <2>1 DEF LockoutInv, CountOf, userVars
  <2>2. CASE ~UNCHANGED userVars
    <3>1. /\ user' = [user EXCEPT ![u].failures = 0, ![u].lockedUntil = 0]
          /\ strikes' = [strikes EXCEPT ![u] = 0]
      BY <1>2, <2>2 DEF Settle
    <3>2. ASSUME NEW v \in Users, v = u PROVE CountOf(user'[v], strikes'[v])
      BY <1>0, <3>1, <3>2, AccountsAssumption DEF CountOf, UserRow
    <3>3. ASSUME NEW v \in Users, v # u PROVE user'[v] = user[v] /\ strikes'[v] = strikes[v]
      BY <1>0, <3>1, <3>3
    <3>4. QED
      BY <3>2, <3>3 DEF LockoutInv
  <2>3. QED
    BY <2>1, <2>2
<1>3. ASSUME NEW o \in Ops, WriteOp(o) PROVE LockoutInv'
  <2> DEFINE u == op[o].user
  <2>1. op[o] \in OpState /\ u \in Users /\ strikes' = strikes
    BY <1>3 DEF WriteOp, Typed
  <2>2. user' = user \/ (user[u] # NoUser /\ user' = [user EXCEPT ![u] = Applied(user[u], op[o])])
    BY <1>3 DEF WriteOp
  <2>3. /\ Applied(user[u], op[o]).failures = user[u].failures
        /\ Applied(user[u], op[o]).lockedUntil = user[u].lockedUntil
    BY <1>0, <2>1, AppliedRow
  <2>4. QED
    BY <1>0, <2>1, <2>2, <2>3 DEF LockoutInv, CountOf
<1>4. ASSUME NEW u \in Users, DeleteUser(u) PROVE LockoutInv'
  BY <1>0, <1>4 DEF DeleteUser, LockoutInv
<1>5. CASE \/ (\E l \in Logins : ReadUser(l) \/ Issue(l)) \/ (\E o \in Ops : ReadOp(o)) \/ Tick \/ UNCHANGED accountsVars
  <2>1. user' = user /\ strikes' = strikes
    BY <1>5 DEF ReadUser, Issue, ReadOp, Tick, accountsVars, userVars
  <2>2. QED
    BY <2>1 DEF LockoutInv
<1>6. QED
  BY <1>1, <1>2, <1>3, <1>4, <1>5 DEF AccountsNext

\* Concurrent wrong guesses, each on a reading of its own, lose no increment: an account on
\* which the threshold was reached is locked.
THEOREM ThresholdLocksAlways == AccountsSpec => []ThresholdLocks
<1>1. Typed /\ LockoutInv => ThresholdLocks
  BY AccountsAssumption DEF Typed, LockoutInv, CountOf, ThresholdLocks
<1>2. QED
  BY <1>1, LockoutInit, LockoutStep, TypedAlways, PTL DEF AccountsSpec

\* No login, right or wrong, however old what it read, clears or moves a live lock.
THEOREM LiveLockKeptAlways == AccountsSpec => LiveLockKept
<1>1. ASSUME Typed, LockoutInv, [AccountsNext]_accountsVars, NEW u \in Users, LockedAt(user[u], now), user'[u] # NoUser
      PROVE  user'[u].lockedUntil = user[u].lockedUntil /\ user'[u].failures = user[u].failures
  <2>0. /\ user \in [Users -> UserRow] /\ now \in Nat
        /\ user[u].lockedUntil > now /\ user[u].lockedUntil \in Nat /\ user[u].failures \in Nat
    BY <1>1 DEF Typed, UserRow, LockedAt
  <2>1. user[u] # NoUser
    BY <2>0 DEF NoUser
  <2>2. user[u].failures = Threshold
    BY <1>1, <2>0, <2>1 DEF LockoutInv, CountOf
  <2>3. ASSUME NEW l \in Logins, RecordFailure(l), login[l].user = u
        PROVE  user'[u].lockedUntil = user[u].lockedUntil /\ user'[u].failures = user[u].failures
    <3> DEFINE t == login[l].now
               after == AfterFailure(user[u], t, login[l].failures)
    <3>1. t \in Nat /\ t <= now /\ login[l].failures \in Nat
      BY <1>1 DEF Typed, LoginState
    <3>2. LockedAt(user[u], t)
      BY <2>0, <3>1 DEF LockedAt
    <3>3. user'[u] = after
      BY <2>0, <2>1, <2>3 DEF RecordFailure
    <3>4. after.lockedUntil = user[u].lockedUntil /\ after.failures = Threshold
      <4>1. after.failures = IF user[u].failures < Threshold THEN Threshold ELSE user[u].failures
        BY <2>0, <3>1, <3>2, FailureWhileLocked
      <4>2. after.lockedUntil = user[u].lockedUntil
        BY <2>0, <3>1, <3>2, FailureWhileLocked
      <4>3. QED
        BY <2>2, <4>1, <4>2
    <3>5. QED
      BY <2>2, <3>3, <3>4
  <2>4. ASSUME NEW l \in Logins, Settle(l), login[l].user = u
        PROVE  user' = user
    BY <1>1, <2>4 DEF Settle, Revalidated, userVars
  <2>5. ASSUME NEW l \in Logins, RecordFailure(l) \/ Settle(l), login[l].user # u
        PROVE  user'[u] = user[u]
    BY <2>0, <2>5 DEF RecordFailure, Settle, userVars
  <2>6. ASSUME NEW o \in Ops, WriteOp(o)
        PROVE  user'[u].lockedUntil = user[u].lockedUntil /\ user'[u].failures = user[u].failures
    <3> DEFINE v == op[o].user
    <3>1. op[o] \in OpState /\ v \in Users
      BY <1>1, <2>6 DEF WriteOp, Typed
    <3>2. user' = user \/ user' = [user EXCEPT ![v] = Applied(user[v], op[o])]
      BY <2>6 DEF WriteOp
    <3>3. /\ Applied(user[v], op[o]).failures = user[v].failures
          /\ Applied(user[v], op[o]).lockedUntil = user[v].lockedUntil
      BY <2>0, <3>1, AppliedRow
    <3>4. QED
      BY <2>0, <3>1, <3>2, <3>3
  <2>7. ASSUME NEW v \in Users, DeleteUser(v) PROVE user'[u] = user[u]
    BY <1>1, <2>0, <2>7 DEF DeleteUser
  <2>8. CASE \/ (\E l \in Logins : ReadUser(l) \/ Issue(l)) \/ (\E o \in Ops : ReadOp(o)) \/ Tick \/ UNCHANGED accountsVars
    BY <2>8 DEF ReadUser, Issue, ReadOp, Tick, accountsVars, userVars
  <2>9. QED
    BY <1>1, <2>3, <2>4, <2>5, <2>6, <2>7, <2>8 DEF AccountsNext
<1>2. Typed /\ LockoutInv /\ [AccountsNext]_accountsVars =>
        [\A u \in Users : LockedAt(user[u], now) /\ user'[u] # NoUser =>
           user'[u].lockedUntil = user[u].lockedUntil /\ user'[u].failures = user[u].failures]_accountsVars
  BY <1>1
<1>3. QED
  BY <1>2, LockoutInit, LockoutStep, TypedAlways, PTL DEF AccountsSpec, LiveLockKept
-----------------------------------------------------------------------------
(* The tokens *)

\* Claims made of row r: not ahead of it, and those of its version are what it says.
Faithful(r, version, role, password) ==
  r # NoUser => /\ version <= r.version
                /\ version = r.version => r.active /\ r.role = role /\ r.hash = password

\* So it is with every token, and with every token about to be signed.
TokenInv == clean =>
  /\ \A t \in tokens : Faithful(user[t.user], t.version, t.role, t.password)
  /\ \A l \in Logins : lpc[l] = "issuing" =>
       Faithful(user[login[l].user], login[l].version, login[l].role, login[l].hash)

LEMMA FaithfulApplied ==
  ASSUME NEW r \in UserRow, NEW q \in OpState, NEW version \in Nat, NEW role, NEW password,
         r # NoUser, Faithful(r, version, role, password), Revokes(q.kind) => r.version = q.base
  PROVE  Faithful(Applied(r, q), version, role, password)
<1>1. r.version \in Nat
  BY DEF UserRow
<1>2. CASE Revokes(q.kind)
  <2>1. Applied(r, q).version = r.version + 1
    <3>1. Applied(r, q).version = q.base + 1
      BY <1>2, AppliedRow
    <3>2. QED
      BY <1>2, <3>1
  <2>2. version <= r.version
    BY DEF Faithful
  <2>3. QED
    BY <1>1, <2>1, <2>2 DEF Faithful
<1>3. CASE ~Revokes(q.kind)
  BY <1>1, <1>3, AppliedRow DEF Faithful
<1>4. QED
  BY <1>2, <1>3

LEMMA TokenStep ==
  ASSUME Typed, Typed', TokenInv, [AccountsNext]_accountsVars
  PROVE  TokenInv'
<1>0. /\ user \in [Users -> UserRow] /\ login \in [Logins -> LoginState]
      /\ lpc \in [Logins -> {"new", "failed", "correct", "issuing"}] /\ tokens \subseteq Token
  BY DEF Typed
<1>1. ASSUME NEW l \in Logins, ReadUser(l) PROVE TokenInv'
  <2>1. tokens' = tokens /\ user' = user /\ clean' = clean
    BY <1>1 DEF ReadUser, userVars, opVars
  <2>2. \A m \in Logins : lpc'[m] = "issuing" => lpc[m] = "issuing" /\ login'[m] = login[m]
    BY <1>0, <1>1 DEF ReadUser
  <2>3. QED
    BY <2>1, <2>2 DEF TokenInv
<1>2. ASSUME NEW l \in Logins, Return(l), NEW m \in Logins, lpc'[m] = "issuing"
      PROVE  lpc[m] = "issuing" /\ login'[m] = login[m]
  BY <1>0, <1>2 DEF Return
<1>3. ASSUME NEW l \in Logins, RecordFailure(l) PROVE TokenInv'
  <2> DEFINE u == login[l].user
             after == AfterFailure(user[u], login[l].now, login[l].failures)
  <2>1. tokens' = tokens /\ clean' = clean /\ Return(l)
    BY <1>3 DEF RecordFailure, opVars
  <2>2. u \in Users /\ login[l].now \in Nat /\ login[l].failures \in Nat
    BY <1>0, <1>3 DEF RecordFailure, Typed, LoginState
  <2>3. user' = user \/ (user[u] # NoUser /\ user' = [user EXCEPT ![u] = after])
    BY <1>3 DEF RecordFailure, userVars
  <2>4. /\ after.version = user[u].version /\ after.role = user[u].role
        /\ after.hash = user[u].hash /\ after.active = user[u].active
    BY <1>0, <2>2, FailureRow
  <2> HIDE DEF after
  <2>5. ASSUME NEW v \in Users, NEW version, NEW role, NEW password, Faithful(user[v], version, role, password)
        PROVE  Faithful(user'[v], version, role, password)
    BY <1>0, <2>2, <2>3, <2>4, <2>5 DEF Faithful
  <2>6. \A m \in Logins : lpc[m] = "issuing" => login[m].user \in Users
    BY DEF Typed
  <2>7. \A t \in tokens : t.user \in Users
    BY <1>0 DEF Token
  <2>8. QED
    BY <1>2, <2>1, <2>5, <2>6, <2>7 DEF TokenInv
<1>4. ASSUME NEW l \in Logins, Settle(l) PROVE TokenInv'
  <2> DEFINE u == login[l].user
  <2>1. tokens' = tokens /\ clean' = clean /\ u \in Users
    BY <1>4 DEF Settle, opVars, Typed
  <2>2. CASE Return(l) /\ UNCHANGED userVars
    BY <1>2, <2>1, <2>2 DEF TokenInv, userVars
  <2>3. CASE ~(Return(l) /\ UNCHANGED userVars)
    <3>1. /\ Revalidated(user[u], login[l].hash)
          /\ user' = [user EXCEPT ![u].failures = 0, ![u].lockedUntil = 0]
          /\ login' = [login EXCEPT ![l].version = user[u].version, ![l].role = user[u].role]
          /\ lpc' = [lpc EXCEPT ![l] = "issuing"]
      BY <1>4, <2>3 DEF Settle
    <3>2. user[u].active /\ user[u].hash = login[l].hash /\ user[u] # NoUser
      BY <3>1, Absent DEF Revalidated
    <3>3. \A v \in Users : /\ user'[v].version = user[v].version /\ user'[v].role = user[v].role
                           /\ user'[v].hash = user[v].hash /\ user'[v].active = user[v].active
                           /\ user[v] = NoUser => user'[v] = user[v]
      BY <1>0, <2>1, <3>1, <3>2 DEF UserRow
    <3>4. ASSUME NEW v \in Users, NEW version, NEW role, NEW password, Faithful(user[v], version, role, password)
          PROVE  Faithful(user'[v], version, role, password)
      BY <3>3, <3>4 DEF Faithful
    <3>5. /\ login'[l].user = u /\ login'[l].version = user[u].version
          /\ login'[l].role = user[u].role /\ login'[l].hash = login[l].hash
      BY <1>0, <3>1 DEF LoginState
    <3>6. user[u].version \in Nat
      BY <1>0, <2>1 DEF UserRow
    <3>7. Faithful(user'[u], login'[l].version, login'[l].role, login'[l].hash)
      BY <2>1, <3>2, <3>3, <3>5, <3>6 DEF Faithful
    <3>8. \A m \in Logins : m # l => login'[m] = login[m] /\ lpc'[m] = lpc[m]
      BY <1>0, <3>1
    <3>9. \A m \in Logins : lpc[m] = "issuing" => login[m].user \in Users
      BY DEF Typed
    <3>10. \A t \in tokens : t.user \in Users
      BY <1>0 DEF Token
    <3>11. QED
      BY <2>1, <3>4, <3>5, <3>7, <3>8, <3>9, <3>10 DEF TokenInv
  <2>4. QED
    BY <2>2, <2>3
<1>5. ASSUME NEW l \in Logins, Issue(l) PROVE TokenInv'
  <2> DEFINE new == Claims(login[l].user, login[l].version, login[l].role, login[l].hash)
  <2>1. /\ tokens' = tokens \cup {new} /\ user' = user /\ clean' = clean /\ Return(l)
        /\ lpc[l] = "issuing"
    BY <1>5 DEF Issue, userVars, opVars
  <2>2. /\ new.user = login[l].user /\ new.version = login[l].version
        /\ new.role = login[l].role /\ new.password = login[l].hash
    BY DEF Claims
  <2> HIDE DEF new
  <2>3. QED
    BY <1>2, <2>1, <2>2 DEF TokenInv
<1>6. ASSUME NEW o \in Ops, WriteOp(o) PROVE TokenInv'
  <2> DEFINE u == op[o].user
  <2> SUFFICES ASSUME clean' PROVE TokenInv'
    BY DEF TokenInv
  <2>1. op[o] \in OpState /\ u \in Users /\ tokens' = tokens /\ login' = login /\ lpc' = lpc
    BY <1>6 DEF WriteOp, Typed, loginVars
  <2>2. \/ user' = user /\ clean
        \/ /\ user[u] # NoUser /\ user' = [user EXCEPT ![u] = Applied(user[u], op[o])]
           /\ clean /\ (Revokes(op[o].kind) => user[u].version = op[o].base)
    BY <1>6, Zenon DEF WriteOp
  <2>3. ASSUME NEW v \in Users, NEW version \in Nat, NEW role, NEW password,
               Faithful(user[v], version, role, password)
        PROVE  Faithful(user'[v], version, role, password)
    <3>1. CASE user'[v] = user[v]
      BY <2>3, <3>1
    <3>2. CASE user'[v] # user[v]
      <4>1. /\ v = u /\ user[u] # NoUser /\ user'[u] = Applied(user[u], op[o])
            /\ Revokes(op[o].kind) => user[u].version = op[o].base
        BY <1>0, <2>1, <2>2, <3>2
      <4>2. user[u] \in UserRow
        BY <1>0, <2>1
      <4>3. QED
        BY <2>1, <2>3, <4>1, <4>2, FaithfulApplied
    <3>3. QED
      BY <3>1, <3>2
  <2>4. \A m \in Logins : login[m].version \in Nat /\ (lpc[m] = "issuing" => login[m].user \in Users)
    BY <1>0 DEF Typed, LoginState
  <2>5. \A t \in tokens : t.user \in Users /\ t.version \in Nat
    BY <1>0 DEF Token
  <2>6. QED
    BY <2>1, <2>2, <2>3, <2>4, <2>5 DEF TokenInv
<1>7. ASSUME NEW u \in Users, DeleteUser(u) PROVE TokenInv'
  <2>1. tokens' = tokens /\ login' = login /\ lpc' = lpc /\ clean' = clean
    BY <1>7 DEF DeleteUser, loginVars, opVars
  <2>2. user' = [user EXCEPT ![u] = NoUser]
    BY <1>7 DEF DeleteUser
  <2>3. ASSUME NEW v \in Users, NEW version, NEW role, NEW password, Faithful(user[v], version, role, password)
        PROVE  Faithful(user'[v], version, role, password)
    BY <1>0, <2>2, <2>3 DEF Faithful
  <2>4. \A m \in Logins : lpc[m] = "issuing" => login[m].user \in Users
    BY DEF Typed
  <2>5. \A t \in tokens : t.user \in Users
    BY <1>0 DEF Token
  <2>6. QED
    BY <2>1, <2>3, <2>4, <2>5 DEF TokenInv
<1>8. CASE (\E o \in Ops : ReadOp(o)) \/ Tick \/ UNCHANGED accountsVars
  <2>1. user' = user /\ tokens' = tokens /\ login' = login /\ lpc' = lpc /\ clean' = clean
    BY <1>8 DEF ReadOp, Tick, accountsVars, userVars, loginVars, opVars
  <2>2. QED
    BY <2>1 DEF TokenInv
<1>9. QED
  BY <1>1, <1>3, <1>4, <1>5, <1>6, <1>7, <1>8 DEF AccountsNext

LEMMA TokenInit == AccountsInit => TokenInv
  BY DEF AccountsInit, TokenInv

\* A login that raced a change of password gets nothing usable.
THEOREM TokensOfCurrentPasswordAlways == AccountsSpec => []TokensOfCurrentPassword
<1>1. Typed /\ TokenInv => TokensOfCurrentPassword
  <2> SUFFICES ASSUME Typed, TokenInv, clean, NEW t \in tokens, Valid(t)
               PROVE  t.password = user[t.user].hash
    BY DEF TokensOfCurrentPassword
  <2>1. user[t.user].active /\ user[t.user].version = t.version
    BY DEF Valid, ClaimsCurrent
  <2>2. user[t.user] # NoUser
    BY <2>1, Absent
  <2>3. QED
    BY <2>1, <2>2 DEF TokenInv, Faithful
<1>2. QED
  BY <1>1, TokenInit, TokenStep, TypedAlways, PTL DEF AccountsSpec

\* While administrative calls do not overlap on a user, what revokes leaves no token of that
\* user valid, and no token that was not valid becomes so.
THEOREM RevocationEffectiveAlways == AccountsSpec => RevocationEffective
<1>1. ASSUME Typed, Typed', TokenInv, [AccountsNext]_accountsVars, clean', NEW t \in tokens,
             ~Valid(t) \/ RevokedNow(t.user), Valid(t)'
      PROVE  FALSE
  <2> DEFINE u == t.user
  <2>0. /\ user \in [Users -> UserRow] /\ now \in Nat /\ t \in Token
        /\ u \in Users /\ t.version \in Nat /\ t.exp \in Nat
    BY <1>1 DEF Typed, Token
  <2>1. /\ user'[u].active /\ user'[u].version = t.version /\ user'[u].role = t.role /\ t.exp > now'
    BY <1>1 DEF Valid, ClaimsCurrent, Unexpired
  <2>2. clean
    BY <1>1, Zenon DEF AccountsNext, ReadUser, RecordFailure, Settle, Issue, ReadOp, WriteOp, DeleteUser, Tick,
                       accountsVars, opVars
  <2>3. Faithful(user[u], t.version, t.role, t.password)
    BY <1>1, <2>2 DEF TokenInv
  <2>4. now' = now \/ now' = now + 1
    BY <1>1 DEF AccountsNext, ReadUser, RecordFailure, Settle, Issue, ReadOp, WriteOp, DeleteUser, Tick, accountsVars
  <2>5. t.exp > now
    BY <2>0, <2>1, <2>4
  <2>6. user'[u] # NoUser
    BY <2>1, Absent
  <2>7. ASSUME user[u] # NoUser, user[u].version = t.version PROVE Valid(t)
    BY <2>3, <2>5, <2>7 DEF Faithful, Valid, ClaimsCurrent, Unexpired
  <2>8. ASSUME NEW o \in Ops, WriteOp(o) PROVE FALSE
    <3> DEFINE v == op[o].user
    <3>1. op[o] \in OpState /\ v \in Users
      BY <1>1, <2>8 DEF WriteOp, Typed
    <3>2. /\ opc' = [opc EXCEPT ![o] = "done"] /\ opc \in [Ops -> {"new", "read", "done"}]
      BY <1>1, <2>8 DEF WriteOp, Typed
    <3>3. ASSUME NEW p \in Ops, opc[p] = "read", opc'[p] = "done" PROVE p = o
      BY <3>2, <3>3
    <3>4. \/ user' = user
          \/ /\ user[v] # NoUser /\ user' = [user EXCEPT ![v] = Applied(user[v], op[o])]
             /\ Revokes(op[o].kind) => user[v].version = op[o].base
      BY <1>1, <2>8, Zenon DEF WriteOp
    <3>5. CASE v = u /\ user[v] # NoUser
      <4>1. /\ user[v] \in UserRow /\ user[v].version \in Nat
            /\ user'[u] = Applied(user[v], op[o])
            /\ Revokes(op[o].kind) => user[v].version = op[o].base
        BY <1>1, <2>0, <2>8, <3>1, <3>5, Zenon DEF WriteOp, UserRow
      <4>2. CASE Revokes(op[o].kind)
        <5>1. Applied(user[v], op[o]).version = op[o].base + 1
          BY <3>1, <4>1, <4>2, AppliedRow
        <5>2. user'[u].version = user[v].version + 1
          BY <4>1, <4>2, <5>1
        <5>3. QED
          BY <2>0, <2>1, <2>3, <3>5, <4>1, <5>2 DEF Faithful
      <4>3. CASE ~Revokes(op[o].kind)
        <5>1. user'[u].version = user[v].version
          <6>1. Applied(user[v], op[o]).version = user[v].version
            BY <3>1, <4>1, <4>3, AppliedRow
          <6>2. QED
            BY <4>1, <6>1
        <5>2. Valid(t)
          BY <2>1, <2>7, <3>5, <5>1
        <5>3. RevokedNow(u)
          BY <1>1, <5>2
        <5>4. op[o].kind # "reactivate"
          BY <3>3, <5>3 DEF RevokedNow
        <5>5. QED
          BY <4>3, <5>4 DEF Revokes
      <4>4. QED
        BY <4>2, <4>3
    <3>6. CASE ~(v = u /\ user[v] # NoUser)
      <4>1. user'[u] = user[u]
        BY <2>0, <3>1, <3>4, <3>6
      <4>2. user[u] # NoUser /\ v # u
        BY <2>6, <3>6, <4>1
      <4>3. Valid(t)
        BY <2>1, <2>7, <4>1, <4>2
      <4>4. ~RevokedNow(u)
        BY <3>3, <4>2 DEF RevokedNow
      <4>5. QED
        BY <1>1, <4>3, <4>4
    <3>7. QED
      BY <3>5, <3>6
  <2>9. ASSUME ~(\E o \in Ops : WriteOp(o)) PROVE FALSE
    <3>1. \A o \in Ops : opc[o] = "read" => opc'[o] = "read"
      BY <1>1, <2>9 DEF AccountsNext, ReadUser, RecordFailure, Settle, Issue, ReadOp, DeleteUser, Tick,
                        accountsVars, opVars, Typed
    <3>2. ~RevokedNow(u)
      BY <3>1 DEF RevokedNow
    <3>3. user[u] # NoUser /\ user'[u].version = user[u].version
      <4>1. ASSUME NEW l \in Logins, RecordFailure(l) PROVE user[u] # NoUser /\ user'[u].version = user[u].version
        <5> DEFINE v == login[l].user
        <5>1. v \in Users /\ login[l].now \in Nat /\ login[l].failures \in Nat
          BY <1>1, <4>1 DEF RecordFailure, Typed, LoginState
        <5>2. \/ user' = user
              \/ user[v] # NoUser /\ user' = [user EXCEPT ![v] = AfterFailure(user[v], login[l].now, login[l].failures)]
          BY <4>1 DEF RecordFailure, userVars
        <5>3. AfterFailure(user[v], login[l].now, login[l].failures).version = user[v].version
          <6>1. user[v] \in UserRow
            BY <2>0, <5>1
          <6>2. QED
            BY <5>1, <6>1, FailureRow
        <5>4. QED
          BY <2>0, <2>6, <5>1, <5>2, <5>3
      <4>2. ASSUME NEW l \in Logins, Settle(l) PROVE user[u] # NoUser /\ user'[u].version = user[u].version
        <5> DEFINE v == login[l].user
        <5>1. \/ user' = user
              \/ user[v].active /\ user' = [user EXCEPT ![v].failures = 0, ![v].lockedUntil = 0]
          BY <4>2 DEF Settle, Revalidated, userVars
        <5>2. QED
          BY <2>0, <2>6, <5>1, Absent DEF UserRow
      <4>3. ASSUME NEW v \in Users, DeleteUser(v) PROVE user[u] # NoUser /\ user'[u].version = user[u].version
        BY <2>0, <2>6, <4>3 DEF DeleteUser
      <4>4. CASE \/ (\E l \in Logins : ReadUser(l) \/ Issue(l)) \/ (\E o \in Ops : ReadOp(o)) \/ Tick \/ UNCHANGED accountsVars
        BY <2>6, <4>4 DEF ReadUser, Issue, ReadOp, Tick, accountsVars, userVars
      <4>5. QED
        BY <1>1, <2>9, <4>1, <4>2, <4>3, <4>4 DEF AccountsNext
    <3>4. Valid(t)
      BY <2>1, <2>7, <3>3
    <3>5. QED
      BY <1>1, <3>2, <3>4
  <2>10. QED
    BY <2>8, <2>9
<1>2. Typed /\ Typed' /\ TokenInv /\ [AccountsNext]_accountsVars =>
        [clean' => \A t \in tokens : ~Valid(t) \/ RevokedNow(t.user) => ~Valid(t)']_accountsVars
  BY <1>1
<1>3. QED
  BY <1>2, TokenInit, TokenStep, TypedAlways, PTL DEF AccountsSpec, RevocationEffective
=============================================================================
