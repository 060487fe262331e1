---------------------------- MODULE AuditLedger -----------------------------
(***************************************************************************)
(* The hash-chained audit log of one tenant (production/audit.py): calls   *)
(* of AuditLedger.append from API replicas and workers, the directory of   *)
(* immutable signed anchors they write after the commit, and calls of      *)
(* AuditLedger.verify that read events, head and anchors one after the     *)
(* other.  Processes die between any two steps, and an operator may        *)
(* restore an older database generation while the anchors stay.            *)
(*                                                                         *)
(* A hash is modelled by what it commits to, the sequence of audit ids up  *)
(* to its event, so that hashes are equal exactly when the chains are.     *)
(* Signatures always check: nobody forges them here.  An append call       *)
(* writes at most one event and its audit id is the call's name.           *)
(*                                                                         *)
(* Bounds: the set Appends of calls, MaxCrashes, MaxRestores.              *)
(***************************************************************************)
EXTENDS Integers, Sequences, FiniteSets

CONSTANTS Appends,      \* calls of append()
          Verifiers,    \* callers of verify(), one call each
          MaxTries,     \* 16 in the code
          MaxCrashes,   \* bound on process deaths
          MaxRestores   \* bound on database restores

ASSUME AuditAssumption ==
  /\ IsFiniteSet(Appends)
  /\ MaxTries \in Nat \ {0}
  /\ MaxCrashes \in Nat
  /\ MaxRestores \in Nat

VARIABLES
  events,    \* platform_audit_events: rows [seq, id, prev]
  head,      \* platform_audit_heads: [version, hash]; version 0 is no row
  anchors,   \* anchor files [seq, hash, whole]; whole is FALSE until written
  pc,        \* where each append call is
  seen,      \* the head its transaction read
  tries,     \* failed tries of its loop
  vpc,       \* where each verify call is
  vrows,     \* the events it read
  vhead,     \* the head it read
  report,    \* what it returned
  quiet,     \* auxiliary: it began with the newest append returned, and nothing moved since
  crashes, restores

ledgerVars == <<events, head, anchors>>
callVars == <<pc, seen, tries>>
verifyVars == <<vpc, vrows, vhead, report, quiet>>
vars == <<ledgerVars, callVars, verifyVars, crashes, restores>>

Zero == <<>>
NoHead == [version |-> 0, hash |-> Zero]

EventHash(e) == Append(e.prev, e.id)

Row(s) == CHOOSE e \in events : e.seq = s

\* SignedDirectoryAuditAnchorStore.latest: the highest sequence.  (Mutant: the lowest.)
EarliestAnchor(as) == CHOOSE a \in as : \A b \in as : a.seq <= b.seq
LatestAnchor(as) == CHOOSE a \in as : \A b \in as : b.seq <= a.seq

\* The checks of verify() on the rows, head and anchors it read.
ChainValid(rows, h) ==
  /\ \A e \in rows : e.seq \in 1..Cardinality(rows)
  /\ \A e \in rows : e.seq = 1 => e.prev = Zero
  /\ \A e, f \in rows : f.seq = e.seq + 1 => f.prev = EventHash(e)
  /\ h.version = Cardinality(rows)
  /\ IF rows = {} THEN h.hash = Zero
     ELSE \E e \in rows : e.seq = Cardinality(rows) /\ h.hash = EventHash(e)

AnchorValid(h, as) ==
  as # {} /\ LET a == LatestAnchor(as) IN a.whole /\ a.seq = h.version /\ a.hash = h.hash

\* What the anchor of a call's event binds.  (Mutant: the event before it.)
PreviousHash(c) == seen[c].hash
MySeq(c) == seen[c].version + 1
MyHash(c) == Append(seen[c].hash, c)
AnchorFile(c, whole) == [seq |-> MySeq(c), hash |-> MyHash(c), whole |-> whole]

\* The call that wrote the head's event has returned.
HeadReturned == restores = 0 /\ \E c \in Appends : pc[c] = "done" /\ MySeq(c) = head.version
-----------------------------------------------------------------------------
Init == /\ events = {} /\ head = NoHead /\ anchors = {}
        /\ pc = [c \in Appends |-> "new"]
        /\ seen = [c \in Appends |-> NoHead]
        /\ tries = [c \in Appends |-> 0]
        /\ vpc = [v \in Verifiers |-> "idle"]
        /\ vrows = [v \in Verifiers |-> {}]
        /\ vhead = [v \in Verifiers |-> NoHead]
        /\ report = [v \in Verifiers |-> "none"]
        /\ quiet = [v \in Verifiers |-> FALSE]
        /\ crashes = 0 /\ restores = 0

Go(c, l) == pc' = [pc EXCEPT ![c] = l]

\* Something a verify call reads has moved.
Disturb == /\ quiet' = [v \in Verifiers |-> FALSE]
           /\ UNCHANGED <<vpc, vrows, vhead, report>>

\* One try begins: SELECT the head.
ReadHead(c) ==
  /\ pc[c] \in {"new", "retry"}
  /\ seen' = [seen EXCEPT ![c] = head]
  /\ Go(c, "read")
  /\ UNCHANGED <<ledgerVars, tries, verifyVars, crashes, restores>>

\* The UPDATE on the version read, or the INSERT of a first head.  (Mutant: the
\* version is not compared.)
HeadIsFree(s) == TRUE
HeadUnchanged(s) == head.version = s.version

\* The transaction commits head and event together.  (The UNIQUE constraint on the
\* sequence is left out: ChainIntact must follow from the compare-and-swap alone.)
Commit(c) ==
  LET s == seen[c]
      e == [seq |-> s.version + 1, id |-> c, prev |-> s.hash]
  IN
  /\ pc[c] = "read"
  /\ HeadUnchanged(s)
  /\ head' = [version |-> e.seq, hash |-> EventHash(e)]
  /\ events' = events \cup {e}
  /\ Go(c, "committed")
  /\ Disturb
  /\ UNCHANGED <<anchors, seen, tries, crashes, restores>>

\* The compare-and-swap fails, or another replica inserted the first head.
\* (Mutant: the next try reuses the head it read.)
RetryLabelStale == "read"
RetryLabel == "retry"
Conflict(c) ==
  /\ pc[c] = "read"
  /\ ~HeadUnchanged(seen[c])
  /\ tries' = [tries EXCEPT ![c] = @ + 1]
  /\ Go(c, IF tries[c] + 1 < MaxTries THEN RetryLabel ELSE "raised")
  /\ UNCHANGED <<ledgerVars, seen, verifyVars, crashes, restores>>

\* The anchor file is created O_EXCL ...  (Mutant: O_TRUNC.)
AnchorReplaceable(c) == TRUE
AnchorAbsent(c) == \A a \in anchors : a.seq # MySeq(c)
CreateAnchor(c) ==
  /\ pc[c] = "committed"
  /\ AnchorAbsent(c)
  /\ anchors' = anchors \cup {AnchorFile(c, FALSE)}
  /\ Go(c, "created")
  /\ Disturb
  /\ UNCHANGED <<events, head, seen, tries, crashes, restores>>

\* ... and written and synced.
WriteAnchor(c) ==
  /\ pc[c] = "created"
  /\ anchors' = {a \in anchors : a.seq # MySeq(c)} \cup {AnchorFile(c, TRUE)}
  /\ Go(c, "done")
  /\ Disturb
  /\ UNCHANGED <<events, head, seen, tries, crashes, restores>>

\* An existing file for the sequence is accepted when it says the same.
Accepts(a, c) == a.whole /\ a.hash = MyHash(c)

\* The file exists: it is compared, and a difference raises after the commit.
AnchorExists(c) ==
  /\ pc[c] = "committed"
  /\ \E a \in anchors : /\ a.seq = MySeq(c)
                        /\ Go(c, IF Accepts(a, c) THEN "done" ELSE "raised")
  /\ UNCHANGED <<ledgerVars, seen, tries, verifyVars, crashes, restores>>

Crash(c) ==
  /\ pc[c] \in {"retry", "read", "committed", "created"}
  /\ crashes < MaxCrashes
  /\ crashes' = crashes + 1
  /\ Go(c, "crashed")
  /\ UNCHANGED <<ledgerVars, seen, tries, verifyVars, restores>>

\* The database goes back to an earlier generation; calls in flight fail.
Restore ==
  /\ restores < MaxRestores
  /\ \E n \in 0..(head.version - 1) :
       /\ events' = {e \in events : e.seq <= n}
       /\ head' = IF n = 0 THEN NoHead ELSE [version |-> n, hash |-> EventHash(Row(n))]
  /\ pc' = [c \in Appends |-> IF pc[c] \in {"retry", "read"} THEN "raised" ELSE pc[c]]
  /\ restores' = restores + 1
  /\ Disturb
  /\ UNCHANGED <<anchors, seen, tries, crashes>>
-----------------------------------------------------------------------------
\* verify(): SELECT the events, SELECT the head (its own snapshot), list the anchors.
VerifyRows(v) ==
  /\ vpc[v] = "idle"
  /\ vrows' = [vrows EXCEPT ![v] = events]
  /\ quiet' = [quiet EXCEPT ![v] = HeadReturned]
  /\ vpc' = [vpc EXCEPT ![v] = "rows"]
  /\ UNCHANGED <<ledgerVars, callVars, vhead, report, crashes, restores>>

VerifyHead(v) ==
  /\ vpc[v] = "rows"
  /\ vhead' = [vhead EXCEPT ![v] = head]
  /\ vpc' = [vpc EXCEPT ![v] = "head"]
  /\ UNCHANGED <<ledgerVars, callVars, vrows, report, quiet, crashes, restores>>

VerifyAnchor(v) ==
  /\ vpc[v] = "head"
  /\ report' = [report EXCEPT ![v] =
       IF ChainValid(vrows[v], vhead[v]) /\ AnchorValid(vhead[v], anchors)
       THEN "valid" ELSE "invalid"]
  /\ vpc' = [vpc EXCEPT ![v] = "done"]
  /\ UNCHANGED <<ledgerVars, callVars, vrows, vhead, quiet, crashes, restores>>

AppendStep(c) == \/ ReadHead(c) \/ Commit(c) \/ Conflict(c) \/ CreateAnchor(c)
                 \/ WriteAnchor(c) \/ AnchorExists(c)
VerifyStep(v) == VerifyRows(v) \/ VerifyHead(v) \/ VerifyAnchor(v)

Next == \/ \E c \in Appends : AppendStep(c) \/ Crash(c)
        \/ \E v \in Verifiers : VerifyStep(v)
        \/ Restore

Spec == Init /\ [][Next]_vars
-----------------------------------------------------------------------------
Labels == {"new", "retry", "read", "committed", "created", "done", "raised", "crashed"}
Events == [seq : Nat \ {0}, id : Appends, prev : Seq(Appends)]
Anchors == [seq : Nat \ {0}, hash : Seq(Appends), whole : BOOLEAN]
Heads == [version : Nat, hash : Seq(Appends)]

TypeOK ==
  /\ events \subseteq Events
  /\ head \in Heads
  /\ anchors \subseteq Anchors
  /\ pc \in [Appends -> Labels]
  /\ seen \in [Appends -> Heads]
  /\ tries \in [Appends -> 0..MaxTries]
  /\ vpc \in [Verifiers -> {"idle", "rows", "head", "done"}]
  /\ \A v \in Verifiers : vrows[v] \subseteq Events
  /\ vhead \in [Verifiers -> Heads]
  /\ report \in [Verifiers -> {"none", "valid", "invalid"}]
  /\ quiet \in [Verifiers -> BOOLEAN]
  /\ crashes \in 0..MaxCrashes /\ restores \in 0..MaxRestores

\* However appends interleave, retry and die, and through a restore: sequences
\* are 1..n without gap or repetition, every event names its predecessor's hash,
\* and the head is the last event's.
ChainIntact == /\ ChainValid(events, head)
               /\ \A e, f \in events : e.seq = f.seq => e = f

\* Nothing is anchored that is not committed: the anchors never run ahead of the
\* database, and each binds the event with its sequence.
AnchoredOnlyCommitted ==
  restores = 0 => \A a \in anchors : \E e \in events : a.seq = e.seq /\ a.hash = EventHash(e)

\* The calls past their transaction, c aside.
Passed(c) == {d \in Appends \ {c} : pc[d] \notin {"new", "retry", "read"}}

\* A try fails only because another call went past its transaction: append() gives
\* up only when MaxTries others got through, never by contending with itself.
RetryMeansProgress == \A c \in Appends : tries[c] <= Cardinality(Passed(c))

\* Once the call that wrote the head's event has returned, a verify() during which
\* nothing moves finds ledger and anchors in agreement, in whatever order the replicas
\* created their anchor files and whatever died before: the mismatch a crash leaves
\* lasts until the next append, and the three reads disagree only across one.
NoFalseAlarm == \A v \in Verifiers : report[v] = "invalid" => ~quiet[v]

\* An anchor once written keeps its sequence and its hash, also when a restored
\* database reaches the sequence again with another event.
AnchorsImmutable ==
  [][\A a \in anchors : a.whole => a \in anchors' /\ \A b \in anchors' : b.seq = a.seq => b = a]_vars
-----------------------------------------------------------------------------
(* The inductive invariant behind the safety properties. *)

\* The sequence numbers are those up to the head's version, once each.
Numbered == /\ \A e \in events : e.seq \in 1..head.version
            /\ \A i \in 1..head.version : \E e \in events : e.seq = i
            /\ \A e, f \in events : e.seq = f.seq => e = f

\* Each event names the one before it, the head the last.
Linked == /\ \A e \in events : e.seq = 1 => e.prev = Zero
          /\ \A e, f \in events : f.seq = e.seq + 1 => f.prev = EventHash(e)
          /\ head.version = 0 => head.hash = Zero
          /\ \A e \in events : e.seq = head.version => head.hash = EventHash(e)

\* The head a transaction read is an old one, or still the head.
SeenInPast == \A c \in Appends : pc[c] = "read" =>
  /\ seen[c].version <= head.version
  /\ seen[c].version = head.version => seen[c].hash = head.hash

TriesLeft == \A c \in Appends : pc[c] \in {"new", "retry", "read"} => tries[c] < MaxTries

\* A call on its way to its anchor has its event in the ledger.
CommitsKept == restores = 0 => \A c \in Appends : pc[c] \in {"committed", "created"} =>
  \E e \in events : e.seq = MySeq(c) /\ EventHash(e) = MyHash(c)

OneAnchorEach == \A a, b \in anchors : a.seq = b.seq => a = b

\* The file a call is writing is the one it created.
OwnAnchor == \A c \in Appends : pc[c] = "created" => AnchorFile(c, FALSE) \in anchors

\* What a call has lost and is about to lose is paid by calls that passed it.
Paid == \A c \in Appends :
  tries[c] + (IF pc[c] = "read" THEN head.version - seen[c].version ELSE 0) <= Cardinality(Passed(c))

LedgerInv == /\ TypeOK /\ Numbered /\ Linked /\ SeenInPast /\ TriesLeft
             /\ CommitsKept /\ AnchoredOnlyCommitted /\ OneAnchorEach /\ OwnAnchor /\ Paid
=============================================================================
