--------------------------- MODULE Daughter_proofs --------------------------
(***************************************************************************)
(* Theorems about Daughter, for any threads, events, branches and routes   *)
(* of any contract that keeps the routes' owners apart.                    *)
(*                                                                         *)
(* Typed is what every argument starts from.  The *Moves lemmas say what a *)
(* step makes of the one thread it moves, so that the arguments need not   *)
(* look into the actions again.  Then each property has an invariant of    *)
(* its own, kept by one lemma per kind of step:                            *)
(*   Once       a delivery past its insertion holds its key alone, and no  *)
(*              target was called for what it has yet to execute;          *)
(*   Isolation  a failure a branch was met with is either answered by its  *)
(*              isolation or still owed it by the thread that met it, and  *)
(*              what that thread has yet to try on the branch belongs to   *)
(*              the same delivery;                                         *)
(*   Backed, Repaired                                                      *)
(*              a replay that may succeed had an answer from some target;  *)
(*   Orderly    a row that was replayed with success is about to be marked *)
(*              by the only thread that recovers.                          *)
(***************************************************************************)
EXTENDS Daughter, SequenceTheorems, TLAPS

Places == {"idle", "recording", "planning", "unplanned", "executing", "outcome", "marking",
           "quarantining", "isolating"}
Fields == {"at", "event", "dry", "row", "rest", "plan", "active", "left", "failed", "drift"}

\* What is known of a thread while there are n rows; nothing is asked of the specialists.
State(x, n) ==
  /\ DOMAIN x = Fields
  /\ x.at \in Places /\ x.dry \in BOOLEAN
  /\ x.event \in Events \cup {None} /\ (x.at # "idle" => x.event \in Events)
  /\ x.row \in 0..n /\ (x.at \in {"idle", "recording", "quarantining", "isolating"} => x.row = 0)
  /\ (x.at = "marking" => x.row # 0) /\ (x.row # 0 => ~x.dry)
  /\ x.rest \subseteq 1..n
  /\ x.plan \in [Routes -> Branches \cup {None}]
  /\ \A r \in Routes : x.plan[r] # None => x.plan[r] \in Owned(r)
  /\ x.left \subseteq Actions /\ x.drift \subseteq x.failed /\ x.failed \subseteq Actions
  /\ \A a \in x.left \cup x.drift : x.plan[RouteOf[a]] # None
  /\ x.at \in {"idle", "recording", "planning", "unplanned"} =>
       x.left = {} /\ x.failed = {} /\ \A r \in Routes : x.plan[r] = None

Row == [event : Events, owner : Branches \cup {None}, status : {"quarantined", "recovered"}]

TissueTyped ==
  /\ tissue = [b \in Branches |-> tissue[b]]
  /\ \A b \in Branches : DOMAIN tissue[b] = {"disabled", "specialists"} /\ tissue[b].disabled \in BOOLEAN
RowsTyped == rows \in Seq(Row) /\ redone \in Seq(Nat) /\ Len(redone) = Len(rows)
ThreadsTyped == thread = [t \in Threads |-> thread[t]] /\ \A t \in Threads : State(thread[t], Len(rows))
GhostsTyped ==
  /\ calls \in [Events -> [Actions -> Nat]]
  /\ missed \in [Threads -> [Branches -> SUBSET Events]]
  /\ worked \subseteq Nat
  /\ overlapped \in BOOLEAN /\ crashed \in BOOLEAN
Typed == TissueTyped /\ seen \subseteq Events /\ RowsTyped /\ ThreadsTyped /\ GhostsTyped

LEMMA IdleTyped == \A n \in Nat : State(Idle, n)
  BY DEF State, Idle, Fields, Places

LEMMA InitTyped == Init => Typed
<1> SUFFICES ASSUME Init PROVE Typed
  OBVIOUS
<1>1. TissueTyped
  BY DEF Init, TissueTyped
<1>2. RowsTyped /\ Len(rows) = 0
  BY DEF Init, RowsTyped
<1>3. ThreadsTyped
  BY <1>2, IdleTyped DEF Init, ThreadsTyped
<1>4. GhostsTyped
  BY DEF Init, GhostsTyped, Unharmed
<1> QED
  BY <1>1, <1>2, <1>3, <1>4 DEF Init, Typed

LEMMA RowTyped ==
  ASSUME Typed, NEW q \in 1..Len(rows)
  PROVE  rows[q].event \in Events /\ rows[q].owner \in Branches \cup {None} /\ redone[q] \in Nat
<1>1. rows[q] \in Row /\ redone[q] \in Nat
  BY DEF Typed, RowsTyped
<1> QED
  BY <1>1 DEF Row

\* One thread moves while the rows stay or grow.
LEMMA Moves ==
  ASSUME Typed, NEW t \in Threads, NEW x, thread' = [thread EXCEPT ![t] = x],
         RowsTyped', Len(rows) <= Len(rows'), State(x, Len(rows'))
  PROVE  ThreadsTyped'
<1>1. \A u \in Threads : State(thread[u], Len(rows'))
  BY DEF Typed, ThreadsTyped, RowsTyped, State
<1> QED
  BY <1>1 DEF Typed, ThreadsTyped

LEMMA OfThread ==
  ASSUME Typed, NEW t \in Threads
  PROVE  State(thread[t], Len(rows)) /\ Len(rows) \in Nat
  BY DEF Typed, ThreadsTyped, RowsTyped

\* A thread alone moves.
LEMMA Alone ==
  ASSUME Typed, NEW t \in Threads, NEW x, thread' = [thread EXCEPT ![t] = x],
         State(x, Len(rows)), UNCHANGED <<rows, redone>>
  PROVE  ThreadsTyped' /\ RowsTyped'
<1>1. RowsTyped' /\ Len(rows') = Len(rows) /\ Len(rows) <= Len(rows')
  BY DEF Typed, RowsTyped
<1>2. State(x, Len(rows'))
  BY <1>1
<1> QED
  BY <1>1, <1>2, Moves

\* A row is appended while the thread moves.
LEMMA Appends ==
  ASSUME Typed, NEW t \in Threads, NEW x, thread' = [thread EXCEPT ![t] = x],
         State(x, Len(rows)), NEW owner \in Branches \cup {None}, thread[t].event \in Events,
         rows' = NewRow(t, owner), redone' = Append(redone, 0)
  PROVE  /\ ThreadsTyped' /\ RowsTyped' /\ Len(rows') = Len(rows) + 1
         /\ \A q \in DOMAIN rows : rows'[q] = rows[q] /\ redone'[q] = redone[q]
         /\ rows'[Len(rows) + 1].status = "quarantined" /\ redone'[Len(rows) + 1] = 0
<1>1. [event |-> thread[t].event, owner |-> owner, status |-> "quarantined"] \in Row
  BY DEF Row
<1>2. /\ RowsTyped' /\ Len(rows') = Len(rows) + 1 /\ Len(rows) \in Nat
      /\ \A q \in DOMAIN rows : rows'[q] = rows[q] /\ redone'[q] = redone[q]
      /\ rows'[Len(rows) + 1].status = "quarantined" /\ redone'[Len(rows) + 1] = 0
  BY <1>1 DEF Typed, RowsTyped, NewRow
<1>3. State(x, Len(rows')) /\ Len(rows) <= Len(rows')
  BY <1>2 DEF State
<1>4. ThreadsTyped'
  BY <1>2, <1>3, Moves
<1> QED
  BY <1>2, <1>4

LEMMA FollowTyped ==
  ASSUME Typed, NEW t \in Threads, NEW next \in NextRow(t)
  PROVE  /\ State(next, Len(rows))
         /\ \/ next = Idle
            \/ /\ next.at = "planning" /\ next.row \in thread[t].rest /\ next.row # 0
               /\ next.rest = thread[t].rest \ {next.row}
<1>1. CASE thread[t].rest = {}
  BY <1>1, IdleTyped, OfThread DEF NextRow
<1>2. CASE thread[t].rest # {}
  <2>1. PICK q \in thread[t].rest : next = Replay(q, thread[t].rest)
    BY <1>2 DEF NextRow, Oldest
  <2>2. q \in 1..Len(rows) /\ thread[t].rest \subseteq 1..Len(rows) /\ Len(rows) \in Nat
    BY <2>1, OfThread DEF State
  <2>3. rows[q].event \in Events
    BY <2>2, RowTyped
  <2> QED
    BY <2>1, <2>2, <2>3 DEF Replay, State, Idle, Fields, Places
<1> QED
  BY <1>1, <1>2

LEMMA Routed == \A a \in Actions : RouteOf[a] \in Routes
  BY DaughterAssumption

LEMMA Blamed ==
  ASSUME Typed, NEW t \in Threads, NEW a \in Actions, Owner(t, a) \in Branches,
         thread[t].event \in Events
  PROVE  Blame(t, a) \in [Threads -> [Branches -> SUBSET Events]]
<1>1. missed \in [Threads -> [Branches -> SUBSET Events]]
  BY DEF Typed, GhostsTyped
<1>2. missed[t] \in [Branches -> SUBSET Events] /\ missed[t][Owner(t, a)] \cup {thread[t].event} \subseteq Events
  BY <1>1
<1>3. [missed[t] EXCEPT ![Owner(t, a)] = @ \cup {thread[t].event}] \in [Branches -> SUBSET Events]
  BY <1>2
<1>4. [missed EXCEPT ![t][Owner(t, a)] = @ \cup {thread[t].event}] \in [Threads -> [Branches -> SUBSET Events]]
  BY <1>1, <1>3
<1> QED
  BY <1>1, <1>4 DEF Blame
-----------------------------------------------------------------------------
LEMMA DeliverTyped ==
  ASSUME Typed, NEW t \in Threads, NEW e \in Events, NEW dry \in BOOLEAN, Deliver(t, e, dry)
  PROVE  Typed'
<1>1. State([Idle EXCEPT !.at = "recording", !.event = e, !.dry = dry], Len(rows))
  BY OfThread DEF State, Idle, Fields, Places
<1>2. ThreadsTyped' /\ RowsTyped'
  BY <1>1, Alone DEF Deliver, ghosts
<1> QED
  BY <1>2 DEF Deliver, Typed, ghosts, TissueTyped, GhostsTyped

LEMMA RecordTyped == ASSUME Typed, NEW t \in Threads, Record(t) PROVE Typed'
<1>1. State([thread[t] EXCEPT !.at = "planning"], Len(rows)) /\ State(Idle, Len(rows))
  BY OfThread, IdleTyped DEF State, Fields, Places, Record
<1>2. ThreadsTyped' /\ RowsTyped'
  BY <1>1, Alone DEF Record, ghosts
<1>3. thread[t].event \in Events
  BY OfThread DEF State, Record
<1> QED
  BY <1>2, <1>3 DEF Record, Typed, ghosts, TissueTyped, GhostsTyped

LEMMA OwnedBranches == \A r \in Routes : Owned(r) \subseteq Branches
  BY DaughterAssumption DEF Owned

LEMMA SelectedOwned ==
  \A p : \A r \in Routes : Selected(r, p) # None => Selected(r, p) \in Owned(r) /\ Owns(r, Selected(r, p), p)
  BY DEF Selected

\* What planning makes of a thread.
PlannedTo(t, x) ==
  /\ thread' = [thread EXCEPT ![t] = x] /\ DOMAIN x = Fields
  /\ x.event = thread[t].event /\ x.row = thread[t].row /\ x.rest = thread[t].rest
  /\ x.dry = thread[t].dry /\ x.failed = {} /\ x.drift = {}
  /\ \/ x.at = "unplanned" /\ x.plan = thread[t].plan /\ x.left = {}
     \/ /\ x.at = "executing"
        /\ x.plan = [r \in Routes |-> Selected(r, PatternOf[thread[t].event])]
        /\ x.left = {a \in Actions : x.plan[RouteOf[a]] # None}

LEMMA PlanMoves == ASSUME Typed, NEW t \in Threads, Plan(t) PROVE \E x : PlannedTo(t, x)
<1> DEFINE p == PatternOf[thread[t].event]
           choice == [r \in Routes |-> Selected(r, p)]
           active(c) == [r \in Routes |-> IF c[r] = None THEN {}
                                          ELSE Leading(tissue[c[r]].specialists, p, TopK)]
           void == [thread[t] EXCEPT !.at = "unplanned"]
           made(c) == [thread[t] EXCEPT !.at = "executing", !.plan = c, !.active = active(c),
                                        !.left = {a \in Actions : c[RouteOf[a]] # None}]
<1>1. /\ DOMAIN thread[t] = Fields /\ thread[t].failed = {} /\ thread[t].drift = {}
      /\ thread[t].left = {}
  BY OfThread DEF State, Plan
<1> DEFINE voided == \E a \in {c \in Actions : choice[RouteOf[c]] # None} : ~Mappable[a][p]
<1>2. CASE voided
  <2>1. PlannedTo(t, void)
    BY <1>1, <1>2 DEF Plan, PlannedTo, Fields
  <2> QED
    BY <2>1
<1>3. CASE ~voided
  <2>1. PICK c \in {choice} : thread' = [thread EXCEPT ![t] = made(c)]
    BY <1>3 DEF Plan
  <2> HIDE DEF active
  <2>2. PlannedTo(t, made(c))
    BY <1>1, <2>1 DEF PlannedTo, Fields
  <2> QED
    BY <2>2
<1> QED
  BY <1>2, <1>3

LEMMA PlanTyped == ASSUME Typed, NEW t \in Threads, Plan(t) PROVE Typed'
<1>1. PICK x : PlannedTo(t, x)
  BY PlanMoves
<1>2. State(x, Len(rows))
  <2>1. \A r \in Routes : Selected(r, PatternOf[thread[t].event]) \in Branches \cup {None}
    BY SelectedOwned, OwnedBranches
  <2> QED
    BY <1>1, <2>1, OfThread, SelectedOwned DEF PlannedTo, State, Places, Plan
<1>3. ThreadsTyped' /\ RowsTyped'
  BY <1>1, <1>2, Alone DEF PlannedTo, Plan, ghosts
<1> QED
  BY <1>3 DEF Plan, Typed, ghosts, TissueTyped, GhostsTyped

\* What a call of a target changes.
ExecutedTo(t, a, x) ==
  /\ thread' = [thread EXCEPT ![t] = x]
  /\ x.at = "outcome" /\ x.event = thread[t].event /\ x.row = thread[t].row /\ x.left = thread[t].left
  /\ x.plan = thread[t].plan /\ x.dry = thread[t].dry /\ x.rest = thread[t].rest
  /\ \/ /\ x.failed = thread[t].failed /\ x.drift = thread[t].drift
        /\ missed' = missed /\ worked' = worked \cup ({thread[t].row} \ {0})
     \/ /\ x.failed = thread[t].failed \cup {a} /\ worked' = worked
        /\ \/ x.drift = thread[t].drift \cup {a} /\ missed' = Blame(t, a)
           \/ x.drift = thread[t].drift /\ missed' = missed

LEMMA ExecuteMoves ==
  ASSUME Typed, NEW t \in Threads, NEW a \in Actions, Execute(t, a)
  PROVE  \E x : ExecutedTo(t, a, x)
<1> DEFINE good == [thread[t] EXCEPT !.at = "outcome"]
           silent == [thread[t] EXCEPT !.at = "outcome", !.failed = @ \cup {a}]
           bad == [thread[t] EXCEPT !.at = "outcome", !.failed = @ \cup {a}, !.drift = @ \cup {a}]
           kept(x) == /\ x.at = "outcome" /\ x.event = thread[t].event /\ x.row = thread[t].row
                      /\ x.left = thread[t].left /\ x.plan = thread[t].plan /\ x.dry = thread[t].dry
                      /\ x.rest = thread[t].rest
<1>0. DOMAIN thread[t] = Fields /\ thread = [u \in Threads |-> thread[u]]
  BY OfThread DEF State, Typed, ThreadsTyped
<1>1. CASE thread' = [thread EXCEPT ![t].at = "outcome"] /\ missed' = missed
           /\ worked' = worked \cup ({thread[t].row} \ {0})
  <2>1. thread' = [thread EXCEPT ![t] = good]
    BY <1>0, <1>1
  <2>2. kept(good) /\ good.failed = thread[t].failed /\ good.drift = thread[t].drift
    BY <1>0 DEF Fields
  <2> HIDE DEF good
  <2>3. ExecutedTo(t, a, good)
    BY <1>1, <2>1, <2>2 DEF ExecutedTo
  <2> QED
    BY <2>3
<1>2. CASE /\ thread' = [thread EXCEPT ![t].at = "outcome", ![t].failed = @ \cup {a}, ![t].drift = @ \cup {a}]
           /\ missed' = Blame(t, a) /\ worked' = worked
  <2>1. thread' = [thread EXCEPT ![t] = bad]
    BY <1>0, <1>2
  <2>2. kept(bad) /\ bad.failed = thread[t].failed \cup {a} /\ bad.drift = thread[t].drift \cup {a}
    BY <1>0 DEF Fields
  <2> HIDE DEF bad
  <2>3. ExecutedTo(t, a, bad)
    BY <1>2, <2>1, <2>2 DEF ExecutedTo
  <2> QED
    BY <2>3
<1>3. CASE /\ thread' = [thread EXCEPT ![t].at = "outcome", ![t].failed = @ \cup {a}]
           /\ missed' = missed /\ worked' = worked
  <2>1. thread' = [thread EXCEPT ![t] = silent]
    BY <1>0, <1>3
  <2>2. kept(silent) /\ silent.failed = thread[t].failed \cup {a} /\ silent.drift = thread[t].drift
    BY <1>0 DEF Fields
  <2> HIDE DEF silent
  <2>3. ExecutedTo(t, a, silent)
    BY <1>3, <2>1, <2>2 DEF ExecutedTo
  <2> QED
    BY <2>3
<1> QED
  BY <1>1, <1>2, <1>3 DEF Execute

\* The branch an action is planned for, at a thread that executes.
LEMMA PlannedBranch ==
  ASSUME Typed, NEW t \in Threads, NEW a \in thread[t].left \cup thread[t].drift
  PROVE  a \in Actions /\ Owner(t, a) \in Branches /\ Owner(t, a) # None
<1>1. a \in Actions /\ thread[t].plan[RouteOf[a]] # None
  BY OfThread DEF State
<1> QED
  BY <1>1, OfThread, Routed DEF State, Owner

LEMMA BlockTyped == ASSUME Typed, NEW t \in Threads, NEW a \in Actions, Block(t, a) PROVE Typed'
<1>1. Owner(t, a) \in Branches /\ thread[t].plan[RouteOf[a]] # None /\ thread[t].event \in Events
  BY PlannedBranch, OfThread DEF Block, Current, State, Owner
<1>2. State([thread[t] EXCEPT !.left = @ \ {a}, !.failed = @ \cup {a}, !.drift = @ \cup {a}], Len(rows))
  BY <1>1, OfThread DEF State, Fields, Block
<1>3. ThreadsTyped' /\ RowsTyped'
  BY <1>2, Alone DEF Block, Typed, ThreadsTyped
<1> QED
  BY <1>1, <1>3, Blamed DEF Block, Typed, TissueTyped, GhostsTyped

LEMMA SimulateTyped == ASSUME Typed, NEW t \in Threads, NEW a \in Actions, Simulate(t, a) PROVE Typed'
<1>1. State([thread[t] EXCEPT !.left = @ \ {a}], Len(rows))
  BY OfThread DEF State, Fields, Simulate
<1>2. ThreadsTyped' /\ RowsTyped'
  BY <1>1, Alone DEF Simulate, Typed, ThreadsTyped, ghosts
<1> QED
  BY <1>2 DEF Simulate, Typed, ghosts, TissueTyped, GhostsTyped

LEMMA ExecuteTyped == ASSUME Typed, NEW t \in Threads, NEW a \in Actions, Execute(t, a) PROVE Typed'
<1>1. /\ Owner(t, a) \in Branches /\ thread[t].plan[RouteOf[a]] # None
      /\ thread[t].event \in Events /\ thread[t].row \in Nat
  BY OfThread, PlannedBranch DEF State, Execute, Current, Owner
<1>2. /\ State([thread[t] EXCEPT !.at = "outcome"], Len(rows))
      /\ State([thread[t] EXCEPT !.at = "outcome", !.failed = @ \cup {a}], Len(rows))
      /\ State([thread[t] EXCEPT !.at = "outcome", !.failed = @ \cup {a}, !.drift = @ \cup {a}], Len(rows))
  BY <1>1, OfThread DEF State, Fields, Places, Execute
<1>3. ThreadsTyped' /\ RowsTyped'
  BY <1>2, Alone DEF Execute, Typed, ThreadsTyped
<1>4. calls' \in [Events -> [Actions -> Nat]] /\ worked' \subseteq Nat
  BY <1>1 DEF Execute, Typed, GhostsTyped
<1>5. missed' \in [Threads -> [Branches -> SUBSET Events]]
  BY <1>1, Blamed DEF Execute, Typed, GhostsTyped
<1> QED
  BY <1>3, <1>4, <1>5 DEF Execute, Typed, TissueTyped, GhostsTyped

LEMMA OutcomeTyped == ASSUME Typed, NEW t \in Threads, NEW a \in Actions, Outcome(t, a) PROVE Typed'
<1>1. State([thread[t] EXCEPT !.at = "executing", !.left = @ \ {a}], Len(rows))
  BY OfThread DEF State, Fields, Places, Outcome
<1>2. ThreadsTyped' /\ RowsTyped'
  BY <1>1, Alone DEF Outcome, Typed, ThreadsTyped, ghosts
<1>3. TissueTyped'
  BY DEF Outcome, Typed, TissueTyped
<1> QED
  BY <1>2, <1>3 DEF Outcome, Typed, ghosts, GhostsTyped

LEMMA ConcludeTyped == ASSUME Typed, NEW t \in Threads, Conclude(t) PROVE Typed'
<1>1. /\ (thread[t].row # 0 => State([thread[t] EXCEPT !.at = "marking"], Len(rows))) /\ State(Idle, Len(rows))
      /\ thread[t].row = 0 => State([thread[t] EXCEPT !.at = "quarantining"], Len(rows))
  BY OfThread, IdleTyped DEF State, Fields, Places, Conclude
<1>2. CASE thread[t].row # 0 /\ Succeeded(t)
  <2>1. RowsTyped' /\ Len(rows') = Len(rows) /\ Len(rows) \in Nat
    BY <1>2, OfThread DEF Conclude, Typed, RowsTyped
  <2>2. ThreadsTyped'
    BY <1>1, <1>2, <2>1, Moves DEF Conclude, Typed, ThreadsTyped
  <2> QED
    BY <2>1, <2>2 DEF Conclude, Typed, TissueTyped, GhostsTyped
<1>3. CASE ~(thread[t].row # 0 /\ Succeeded(t))
  <2>1. PICK x : State(x, Len(rows)) /\ thread' = [thread EXCEPT ![t] = x]
    BY <1>1, <1>3, FollowTyped DEF Conclude, Typed, ThreadsTyped
  <2>2. ThreadsTyped' /\ RowsTyped'
    BY <1>3, <2>1, Alone DEF Conclude
  <2> QED
    BY <2>2 DEF Conclude, Typed, TissueTyped, GhostsTyped
<1> QED
  BY <1>2, <1>3

LEMMA ConcludeUnplannedTyped == ASSUME Typed, NEW t \in Threads, ConcludeUnplanned(t) PROVE Typed'
<1>1. PICK x : State(x, Len(rows)) /\ thread' = [thread EXCEPT ![t] = x]
  BY FollowTyped, OfThread, IdleTyped DEF ConcludeUnplanned
<1>2. thread[t].event \in Events
  BY OfThread DEF ConcludeUnplanned, State
<1>3. ThreadsTyped' /\ RowsTyped'
  BY <1>1, <1>2, Alone, Appends DEF ConcludeUnplanned
<1> QED
  BY <1>3 DEF ConcludeUnplanned, Typed, TissueTyped, GhostsTyped

LEMMA QuarantineTyped == ASSUME Typed, NEW t \in Threads, NEW a \in Actions, Quarantine(t, a) PROVE Typed'
<1>1. State([thread[t] EXCEPT !.at = "isolating"], Len(rows))
  BY OfThread DEF Quarantine, State, Fields, Places
<1>2. thread[t].event \in Events /\ Owner(t, a) \in Branches
  BY OfThread, PlannedBranch DEF Quarantine, State, Drifted
<1>3. ThreadsTyped' /\ RowsTyped'
  BY <1>1, <1>2, Appends DEF Quarantine, Typed, ThreadsTyped
<1> QED
  BY <1>3 DEF Quarantine, Typed, TissueTyped, GhostsTyped

LEMMA IsolateTyped == ASSUME Typed, NEW t \in Threads, NEW a \in Actions, Isolate(t, a) PROVE Typed'
<1>1. State([thread[t] EXCEPT !.at = "quarantining", !.drift = @ \ {a}], Len(rows)) /\ State(Idle, Len(rows))
  BY OfThread, IdleTyped DEF Isolate, State, Fields, Places
<1> DEFINE x == IF thread[t].drift = {a} THEN Idle
                ELSE [thread[t] EXCEPT !.at = "quarantining", !.drift = thread[t].drift \ {a}]
<1>2. State(x, Len(rows)) /\ thread' = [thread EXCEPT ![t] = x]
  BY <1>1 DEF Isolate
<1> HIDE DEF x
<1>3. ThreadsTyped' /\ RowsTyped'
  BY <1>2, Alone DEF Isolate, ghosts
<1>4. TissueTyped'
  BY DEF Isolate, Typed, TissueTyped
<1> QED
  BY <1>3, <1>4 DEF Isolate, Typed, ghosts, GhostsTyped

LEMMA RecoverTyped ==
  ASSUME Typed, NEW t \in Threads, NEW some \in Branches \cup {None}, Recover(t, some)
  PROVE  Typed'
<1> DEFINE mine == {q \in Pending : some = None \/ rows[q].owner = some}
<1>1. PICK q \in mine : thread' = [thread EXCEPT ![t] = Replay(q, mine)]
  BY DEF Recover, Oldest
<1>2. q \in 1..Len(rows) /\ mine \subseteq 1..Len(rows) /\ Len(rows) \in Nat
  BY <1>1 DEF Pending, Typed, RowsTyped
<1> HIDE DEF mine
<1>3. State(Replay(q, mine), Len(rows))
  BY <1>2, RowTyped DEF Replay, State, Idle, Fields, Places
<1>4. ThreadsTyped' /\ RowsTyped'
  BY <1>1, <1>3, Alone DEF Recover
<1>5. overlapped' \in BOOLEAN
  BY DEF Recover, Typed, GhostsTyped
<1> QED
  BY <1>4, <1>5 DEF Recover, Typed, TissueTyped, GhostsTyped

LEMMA MarkTyped == ASSUME Typed, NEW t \in Threads, Mark(t) PROVE Typed'
<1>1. PICK next \in NextRow(t) : thread' = [thread EXCEPT ![t] = next]
  BY DEF Mark
<1>2. RowsTyped' /\ Len(rows') = Len(rows) /\ Len(rows) <= Len(rows')
  <2> DEFINE k == thread[t].row
  <2>1. k \in 1..Len(rows) /\ rows \in Seq(Row)
    BY OfThread DEF State, Mark, Typed, RowsTyped
  <2>2. rows[k] \in Row
    BY <2>1
  <2>3. [rows[k] EXCEPT !.status = "recovered"] \in Row
    BY <2>2 DEF Row
  <2>4. rows' = [rows EXCEPT ![k] = [rows[k] EXCEPT !.status = "recovered"]]
    BY DEF Mark, Marked
  <2> HIDE DEF k
  <2>5. rows' \in Seq(Row) /\ Len(rows') = Len(rows) /\ Len(rows) \in Nat
    BY <2>1, <2>3, <2>4, ExceptSeq
  <2> QED
    BY <2>5 DEF Mark, ghosts, Typed, RowsTyped
<1>3. State(next, Len(rows'))
  BY <1>2, FollowTyped
<1>4. ThreadsTyped'
  BY <1>1, <1>2, <1>3, Moves
<1> QED
  BY <1>2, <1>4 DEF Mark, ghosts, Typed, TissueTyped, GhostsTyped

LEMMA EnableTyped == ASSUME Typed, NEW b \in Branches, Enable(b) PROVE Typed'
<1>1. missed' \in [Threads -> [Branches -> SUBSET Events]]
  BY DEF Enable, Typed, GhostsTyped
<1>2. TissueTyped'
  BY DEF Enable, Typed, TissueTyped
<1> QED
  BY <1>1, <1>2 DEF Enable, Typed, RowsTyped, ThreadsTyped, GhostsTyped

LEMMA TrainTyped == ASSUME Typed, NEW set \in TrainingSets, Train(set) PROVE Typed'
<1>1. TissueTyped' /\ \A b \in Branches : tissue'[b].disabled = tissue[b].disabled
  BY DEF Train, Typed, TissueTyped
<1> QED
  BY <1>1 DEF Train, Typed, ghosts, RowsTyped, ThreadsTyped, GhostsTyped

LEMMA CrashTyped == ASSUME Typed, Crash PROVE Typed'
<1>1. ThreadsTyped'
  BY IdleTyped DEF Crash, Typed, ThreadsTyped, RowsTyped
<1>2. GhostsTyped'
  BY DEF Crash, Typed, GhostsTyped, Unharmed
<1> QED
  BY <1>1, <1>2 DEF Crash, Typed, TissueTyped, RowsTyped

LEMMA NextTyped == ASSUME Typed, [Next]_vars PROVE Typed'
<1>1. CASE UNCHANGED vars
  BY <1>1 DEF vars, ghosts, Typed, TissueTyped, RowsTyped, ThreadsTyped, GhostsTyped
<1>2. CASE Next
  BY <1>2, DeliverTyped, RecordTyped, PlanTyped, BlockTyped, SimulateTyped, ExecuteTyped, OutcomeTyped,
     ConcludeTyped, ConcludeUnplannedTyped, QuarantineTyped, IsolateTyped, RecoverTyped, MarkTyped,
     EnableTyped, TrainTyped, CrashTyped DEF Next
<1> QED
  BY <1>1, <1>2

\* The records of the threads, the rows and the ghosts are what the actions take them for.
THEOREM TypedAlways == Spec => []Typed
  BY InitTyped, NextTyped, PTL DEF Spec
-----------------------------------------------------------------------------
\* r is the next of the plan; a delivery past its insertion; a route it has yet to execute.
Smallest(x, a) == a \in x.left /\ \A q \in x.left : a <= q
Delivers(x) == x.row = 0 /\ x.at \notin {"idle", "recording"}
Unasked(x, a) ==
  /\ Delivers(x)
  /\ \/ x.at = "planning"
     \/ x.at = "executing" /\ a \in x.left
     \/ x.at = "outcome" /\ a \in x.left /\ ~Smallest(x, a)

Keyed == \A t \in Threads : Delivers(thread[t]) => thread[t].event \in seen
Apart == \A t, u \in Threads :
  Delivers(thread[t]) /\ Delivers(thread[u]) /\ thread[t].event = thread[u].event => t = u
Fresh == \A e \in Events \ seen, a \in Actions : calls[e][a] = 0
Awaited == \A t \in Threads, a \in Actions : Unasked(thread[t], a) => calls[thread[t].event][a] = 0
Once == Keyed /\ Apart /\ Fresh /\ Awaited /\ ExecutedOnce

LEMMA InitOnce == Init => Once
  BY DEF Init, Once, Keyed, Apart, Fresh, Awaited, ExecutedOnce, Delivers, Unasked, Idle

LEMMA StillOnce == ASSUME Once, UNCHANGED <<thread, seen, calls>> PROVE Once'
  BY DEF Once, Keyed, Apart, Fresh, Awaited, ExecutedOnce

\* A thread that neither calls nor inserts.
LEMMA QuietOnce ==
  ASSUME Typed, Once, NEW t \in Threads, NEW x, thread' = [thread EXCEPT ![t] = x],
         UNCHANGED <<seen, calls>>,
         Delivers(x) => Delivers(thread[t]) /\ x.event = thread[t].event,
         \A a \in Actions : Unasked(x, a) => Unasked(thread[t], a)
  PROVE  Once'
<1>1. thread'[t] = x /\ \A u \in Threads \ {t} : thread'[u] = thread[u]
  BY DEF Typed, ThreadsTyped
<1>2. Keyed' /\ Apart'
  BY <1>1 DEF Once, Keyed, Apart
<1>3. Awaited'
  BY <1>1 DEF Once, Awaited, Unasked
<1> QED
  BY <1>2, <1>3 DEF Once, Fresh, ExecutedOnce

LEMMA RecordOnce == ASSUME Typed, Once, NEW t \in Threads, Record(t) PROVE Once'
<1> DEFINE x == [thread[t] EXCEPT !.at = "planning"]
<1>1. thread[t].event \in Events /\ thread[t].at = "recording" /\ DOMAIN thread[t] = Fields
  BY OfThread DEF Record, State
<1>2. CASE thread[t].event \in seen
  <2>1. thread' = [thread EXCEPT ![t] = Idle] /\ UNCHANGED <<seen, calls>>
    BY <1>2 DEF Record, Inserted, ghosts
  <2>2. ~Delivers(Idle) /\ \A a \in Actions : ~Unasked(Idle, a)
    BY DEF Delivers, Unasked, Idle
  <2> QED
    BY <2>1, <2>2, QuietOnce
<1>3. CASE thread[t].event \notin seen
  <2>1. /\ thread' = [thread EXCEPT ![t] = x] /\ UNCHANGED calls
        /\ seen' = seen \cup {thread[t].event}
    BY <1>3 DEF Record, Inserted, ghosts
  <2>2. thread'[t] = x /\ \A u \in Threads \ {t} : thread'[u] = thread[u]
    BY <2>1 DEF Typed, ThreadsTyped
  <2>3. x.event = thread[t].event /\ x.at = "planning"
    BY <1>1 DEF Fields
  <2> HIDE DEF x
  <2>4. Keyed' /\ Apart'
    BY <1>3, <2>1, <2>2, <2>3 DEF Once, Keyed, Apart, Delivers
  <2>5. Fresh' /\ ExecutedOnce'
    BY <2>1 DEF Once, Fresh, ExecutedOnce
  <2>6. Awaited'
    BY <1>1, <1>3, <2>1, <2>2, <2>3 DEF Once, Awaited, Unasked, Fresh
  <2> QED
    BY <2>4, <2>5, <2>6 DEF Once
<1> QED
  BY <1>2, <1>3

LEMMA ExecuteOnce == ASSUME Typed, Once, NEW t \in Threads, NEW a \in Actions, Execute(t, a) PROVE Once'
<1>1. PICK x : /\ thread' = [thread EXCEPT ![t] = x] /\ x.event = thread[t].event
               /\ x.at = "outcome" /\ x.row = thread[t].row /\ x.left = thread[t].left
  BY ExecuteMoves DEF ExecutedTo
<1>2. /\ thread[t].at = "executing" /\ Smallest(thread[t], a) /\ UNCHANGED seen
      /\ thread[t].event \in Events
  BY OfThread DEF Execute, Current, Smallest, State
<1>3. \A q \in Actions : Unasked(x, q) => Unasked(thread[t], q) /\ q # a
  BY <1>1, <1>2 DEF Unasked, Delivers, Smallest
<1>4. CASE thread[t].row # 0
  BY <1>1, <1>2, <1>3, <1>4, QuietOnce DEF Execute, Delivers
<1>5. CASE thread[t].row = 0
  <2>1. calls' = [calls EXCEPT ![thread[t].event][a] = @ + 1]
    BY <1>5 DEF Execute
  <2>2. thread'[t] = x /\ \A u \in Threads \ {t} : thread'[u] = thread[u]
    BY <1>1 DEF Typed, ThreadsTyped
  <2>3. Unasked(thread[t], a) /\ Delivers(thread[t]) /\ Delivers(x)
    BY <1>1, <1>2, <1>5 DEF Unasked, Delivers, Smallest
  <2>4. /\ \A e \in Events, q \in Actions : e # thread[t].event \/ q # a => calls'[e][q] = calls[e][q]
        /\ calls'[thread[t].event][a] = 1
    BY <1>2, <2>1, <2>3 DEF Once, Awaited, Typed, GhostsTyped
  <2>5. Keyed' /\ Apart' /\ Fresh' /\ ExecutedOnce'
    BY <1>1, <1>2, <2>2, <2>3, <2>4 DEF Once, Keyed, Apart, Fresh, ExecutedOnce
  <2>6. Awaited'
    <3> SUFFICES ASSUME NEW u \in Threads, NEW q \in Actions, Unasked(thread'[u], q)
                 PROVE  calls'[thread'[u].event][q] = 0
      BY DEF Awaited
    <3>1. CASE u = t
      BY <1>1, <1>2, <1>3, <2>2, <2>4, <3>1 DEF Once, Awaited
    <3>2. CASE u # t
      <4>1. thread[u].event # thread[t].event /\ thread[u].event \in Events
        BY <2>2, <2>3, <3>2, OfThread DEF Once, Apart, Unasked, Delivers, State
      <4> QED
        BY <2>2, <2>4, <3>2, <4>1 DEF Once, Awaited
    <3> QED
      BY <3>1, <3>2
  <2> QED
    BY <2>5, <2>6 DEF Once
<1> QED
  BY <1>4, <1>5

LEMMA CrashOnce == ASSUME Typed, Once, Crash PROVE Once'
<1>1. \A t \in Threads : ~Delivers(thread'[t]) /\ \A a \in Actions : ~Unasked(thread'[t], a)
  BY DEF Crash, Delivers, Unasked, Idle
<1> QED
  BY <1>1 DEF Crash, Once, Keyed, Apart, Fresh, Awaited, ExecutedOnce

LEMMA PlanOnce == ASSUME Typed, Once, NEW t \in Threads, Plan(t) PROVE Once'
<1>1. PICK x : /\ thread' = [thread EXCEPT ![t] = x]
               /\ x.at \in {"unplanned", "executing"} /\ x.row = thread[t].row /\ x.event = thread[t].event
  BY PlanMoves DEF PlannedTo
<1>2. thread[t].at = "planning"
  BY DEF Plan
<1> QED
  BY <1>1, <1>2, QuietOnce DEF Plan, Delivers, Unasked, ghosts

\* What the other steps of a thread change in it.
Keeps(x, y) == /\ x.event = y.event /\ x.row = y.row /\ x.rest = y.rest
               /\ x.plan = y.plan /\ x.dry = y.dry
Steps(t, a, x) ==
  \/ /\ Block(t, a) /\ Keeps(x, thread[t]) /\ x.at = "executing"
     /\ x.left = thread[t].left \ {a}
     /\ x.failed = thread[t].failed \cup {a} /\ x.drift = thread[t].drift \cup {a}
  \/ /\ Simulate(t, a) \/ Outcome(t, a)
     /\ Keeps(x, thread[t]) /\ x.at = "executing"
     /\ x.left = thread[t].left \ {a} /\ x.failed = thread[t].failed /\ x.drift = thread[t].drift
  \/ Quarantine(t, a) /\ Keeps(x, thread[t]) /\ x.at = "isolating" /\ x.drift = thread[t].drift
  \/ /\ Isolate(t, a)
     /\ \/ thread[t].drift = {a} /\ x = Idle
        \/ Keeps(x, thread[t]) /\ x.at = "quarantining" /\ x.drift = thread[t].drift \ {a}

LEMMA StepMoves ==
  ASSUME Typed, NEW t \in Threads, NEW a \in Actions,
         Block(t, a) \/ Simulate(t, a) \/ Outcome(t, a) \/ Quarantine(t, a) \/ Isolate(t, a)
  PROVE  \E x : thread' = [thread EXCEPT ![t] = x] /\ Steps(t, a, x)
<1>0. DOMAIN thread[t] = Fields /\ thread = [u \in Threads |-> thread[u]]
  BY OfThread DEF State, Typed, ThreadsTyped
<1>1. CASE Block(t, a)
  <2> DEFINE x == [thread[t] EXCEPT !.left = @ \ {a}, !.failed = @ \cup {a}, !.drift = @ \cup {a}]
  <2>1. thread' = [thread EXCEPT ![t] = x]
    BY <1>0, <1>1 DEF Block
  <2>2. /\ Keeps(x, thread[t]) /\ x.at = "executing"
        /\ x.left = thread[t].left \ {a}
        /\ x.failed = thread[t].failed \cup {a} /\ x.drift = thread[t].drift \cup {a}
    BY <1>0, <1>1 DEF Block, Keeps, Fields
  <2> HIDE DEF x
  <2> QED
    BY <1>1, <2>1, <2>2 DEF Steps
<1>2. CASE Simulate(t, a)
  <2> DEFINE x == [thread[t] EXCEPT !.left = @ \ {a}]
  <2>1. thread' = [thread EXCEPT ![t] = x]
    BY <1>0, <1>2 DEF Simulate
  <2>2. /\ Keeps(x, thread[t]) /\ x.at = "executing"
        /\ x.left = thread[t].left \ {a}
        /\ x.failed = thread[t].failed /\ x.drift = thread[t].drift
    BY <1>0, <1>2 DEF Simulate, Keeps, Fields
  <2> HIDE DEF x
  <2> QED
    BY <1>2, <2>1, <2>2 DEF Steps
<1>3. CASE Outcome(t, a)
  <2> DEFINE x == [thread[t] EXCEPT !.at = "executing", !.left = @ \ {a}]
  <2>1. thread' = [thread EXCEPT ![t] = x]
    BY <1>0, <1>3 DEF Outcome
  <2>2. /\ Keeps(x, thread[t]) /\ x.at = "executing"
        /\ x.left = thread[t].left \ {a}
        /\ x.failed = thread[t].failed /\ x.drift = thread[t].drift
    BY <1>0, <1>3 DEF Outcome, Keeps, Fields
  <2> HIDE DEF x
  <2> QED
    BY <1>3, <2>1, <2>2 DEF Steps
<1>4. CASE Quarantine(t, a)
  <2> DEFINE x == [thread[t] EXCEPT !.at = "isolating"]
  <2>1. thread' = [thread EXCEPT ![t] = x]
    BY <1>0, <1>4 DEF Quarantine
  <2>2. Keeps(x, thread[t]) /\ x.at = "isolating" /\ x.drift = thread[t].drift
    BY <1>0, <1>4 DEF Quarantine, Keeps, Fields
  <2> HIDE DEF x
  <2> QED
    BY <1>4, <2>1, <2>2 DEF Steps
<1>5. CASE Isolate(t, a)
  <2> DEFINE x == IF thread[t].drift = {a} THEN Idle
                  ELSE [thread[t] EXCEPT !.at = "quarantining", !.drift = thread[t].drift \ {a}]
  <2>1. thread' = [thread EXCEPT ![t] = x]
    BY <1>0, <1>5 DEF Isolate
  <2>2. \/ thread[t].drift = {a} /\ x = Idle
        \/ Keeps(x, thread[t]) /\ x.at = "quarantining" /\ x.drift = thread[t].drift \ {a}
    BY <1>0, <1>5 DEF Isolate, Keeps, Fields
  <2> HIDE DEF x
  <2> QED
    BY <1>5, <2>1, <2>2 DEF Steps
<1> QED
  BY <1>1, <1>2, <1>3, <1>4, <1>5

\* ... and what concluding, recovering and marking do.
Follows(t, next) ==
  \/ next = Idle
  \/ /\ next.at = "planning" /\ next.row \in thread[t].rest /\ next.row # 0
     /\ next.rest = thread[t].rest \ {next.row}

Concludes(t, x) ==
  \/ /\ thread[t].row # 0 /\ Succeeded(t) /\ Keeps(x, thread[t]) /\ x.at = "marking"
     /\ redone' = [redone EXCEPT ![thread[t].row] = @ + 1]
  \/ thread[t].row # 0 /\ ~Succeeded(t) /\ Follows(t, x) /\ UNCHANGED redone
  \/ thread[t].row = 0 /\ (thread[t].drift = {} \/ thread[t].dry) /\ x = Idle /\ UNCHANGED redone
  \/ /\ thread[t].row = 0 /\ thread[t].drift # {} /\ ~thread[t].dry
     /\ Keeps(x, thread[t]) /\ x.at = "quarantining" /\ x.drift = thread[t].drift /\ UNCHANGED redone

LEMMA ConcludeMoves ==
  ASSUME Typed, NEW t \in Threads, Conclude(t)
  PROVE  \E x : thread' = [thread EXCEPT ![t] = x] /\ Concludes(t, x)
<1>0. DOMAIN thread[t] = Fields
  BY OfThread DEF State
<1>1. CASE thread[t].row # 0 /\ Succeeded(t)
  <2> DEFINE x == [thread[t] EXCEPT !.at = "marking"]
  <2>1. thread' = [thread EXCEPT ![t] = x] /\ redone' = [redone EXCEPT ![thread[t].row] = @ + 1]
    BY <1>1 DEF Conclude
  <2>2. Keeps(x, thread[t]) /\ x.at = "marking"
    BY <1>0 DEF Keeps, Fields
  <2> HIDE DEF x
  <2> QED
    BY <1>1, <2>1, <2>2 DEF Concludes
<1>2. CASE thread[t].row # 0 /\ ~Succeeded(t)
  <2>1. PICK x \in NextRow(t) : thread' = [thread EXCEPT ![t] = x]
    BY <1>2 DEF Conclude
  <2>2. Follows(t, x)
    BY <2>1, FollowTyped DEF Follows
  <2> QED
    BY <1>2, <2>1, <2>2 DEF Concludes, Conclude
<1>3. CASE thread[t].row = 0 /\ (thread[t].drift = {} \/ thread[t].dry)
  BY <1>3 DEF Concludes, Conclude
<1>4. CASE thread[t].row = 0 /\ thread[t].drift # {} /\ ~thread[t].dry
  <2> DEFINE x == [thread[t] EXCEPT !.at = "quarantining"]
  <2>1. thread' = [thread EXCEPT ![t] = x] /\ UNCHANGED redone
    BY <1>4 DEF Conclude
  <2>2. Keeps(x, thread[t]) /\ x.at = "quarantining" /\ x.drift = thread[t].drift
    BY <1>0 DEF Keeps, Fields
  <2> HIDE DEF x
  <2> QED
    BY <1>4, <2>1, <2>2 DEF Concludes
<1> QED
  BY <1>1, <1>2, <1>3, <1>4

LEMMA UnplannedMoves ==
  ASSUME Typed, NEW t \in Threads, ConcludeUnplanned(t)
  PROVE  \E x : thread' = [thread EXCEPT ![t] = x] /\ (x = Idle \/ (thread[t].row # 0 /\ Follows(t, x)))
  BY FollowTyped DEF ConcludeUnplanned, Follows

LEMMA MarkMoves ==
  ASSUME Typed, NEW t \in Threads, Mark(t)
  PROVE  \E x : thread' = [thread EXCEPT ![t] = x] /\ Follows(t, x)
  BY FollowTyped DEF Mark, Follows

LEMMA RecoverMoves ==
  ASSUME Typed, NEW t \in Threads, NEW some \in Branches \cup {None}, Recover(t, some)
  PROVE  \E x : /\ thread' = [thread EXCEPT ![t] = x] /\ x.at = "planning" /\ x.row # 0
                /\ x.row \in Pending /\ x.rest \subseteq Pending /\ x.row \notin x.rest
<1> DEFINE mine == {q \in Pending : some = None \/ rows[q].owner = some}
<1>1. PICK q \in mine : thread' = [thread EXCEPT ![t] = Replay(q, mine)]
  BY DEF Recover, Oldest
<1>2. q \in Pending /\ q # 0 /\ mine \subseteq Pending
  BY <1>1 DEF Pending, Typed, RowsTyped
<1>3. Replay(q, mine).at = "planning" /\ Replay(q, mine).row = q /\ Replay(q, mine).rest = mine \ {q}
  BY DEF Replay, Idle
<1> HIDE DEF mine
<1> QED
  BY <1>1, <1>2, <1>3
-----------------------------------------------------------------------------
LEMMA ActionOnce ==
  ASSUME Typed, Once, NEW t \in Threads, NEW a \in Actions,
         Block(t, a) \/ Simulate(t, a) \/ Outcome(t, a) \/ Quarantine(t, a) \/ Isolate(t, a)
  PROVE  Once'
<1>1. PICK x : thread' = [thread EXCEPT ![t] = x] /\ Steps(t, a, x)
  BY StepMoves
<1>2. UNCHANGED <<seen, calls>>
  BY DEF Block, Simulate, Outcome, Quarantine, Isolate, ghosts
<1>3. Delivers(x) => Delivers(thread[t]) /\ x.event = thread[t].event
  <2>1. thread[t].at \in {"executing", "outcome", "quarantining", "isolating"}
    BY DEF Block, Simulate, Outcome, Quarantine, Isolate
  <2>2. x = Idle \/ Keeps(x, thread[t])
    BY <1>1 DEF Steps
  <2> QED
    BY <2>1, <2>2 DEF Keeps, Delivers, Idle
<1>4. ASSUME NEW q \in Actions, Unasked(x, q) PROVE Unasked(thread[t], q)
  <2>1. x.at = "executing" /\ q \in thread[t].left /\ q # a /\ Delivers(x)
    BY <1>1, <1>4 DEF Unasked, Steps, Keeps, Idle, Delivers
  <2>2. CASE thread[t].at = "executing"
    BY <1>3, <2>1, <2>2 DEF Unasked
  <2>3. CASE thread[t].at = "outcome"
    BY <1>1, <1>3, <2>1, <2>3 DEF Unasked, Smallest, Steps, Outcome, Current, Actions,
       Block, Simulate, Quarantine, Isolate
  <2>4. thread[t].at \in {"executing", "outcome"}
    <3>1. Block(t, a) \/ Simulate(t, a) \/ Outcome(t, a)
      BY <1>1, <2>1 DEF Steps, Idle
    <3> QED
      BY <3>1 DEF Block, Simulate, Outcome
  <2> QED
    BY <2>2, <2>3, <2>4
<1> QED
  BY <1>1, <1>2, <1>3, <1>4, QuietOnce

LEMMA OtherOnce ==
  ASSUME Typed, Once, NEW t \in Threads,
         \/ \E e \in Events, dry \in BOOLEAN : Deliver(t, e, dry)
         \/ \E some \in Branches \cup {None} : Recover(t, some)
         \/ Conclude(t) \/ ConcludeUnplanned(t) \/ Mark(t)
  PROVE  Once'
<1> DEFINE fits(x) == /\ thread' = [thread EXCEPT ![t] = x]
                      /\ Delivers(x) => Delivers(thread[t]) /\ x.event = thread[t].event
                      /\ \A a \in Actions : ~Unasked(x, a)
<1>1. PICK x : fits(x)
  <2>1. ASSUME NEW e \in Events, NEW dry \in BOOLEAN, Deliver(t, e, dry) PROVE \E x : fits(x)
    <3> DEFINE x == [Idle EXCEPT !.at = "recording", !.event = e, !.dry = dry]
    <3>1. ~Delivers(x) /\ \A a \in Actions : ~Unasked(x, a)
      BY DEF Delivers, Unasked, Idle
    <3> QED
      BY <2>1, <3>1 DEF Deliver
  <2>2. CASE Conclude(t)
    BY <2>2, ConcludeMoves DEF Concludes, Follows, Keeps, Delivers, Unasked, Idle, Conclude
  <2>3. CASE ConcludeUnplanned(t)
    BY <2>3, UnplannedMoves DEF Follows, Delivers, Unasked, Idle
  <2>4. CASE Mark(t)
    BY <2>4, MarkMoves DEF Follows, Delivers, Unasked, Idle
  <2>5. ASSUME NEW some \in Branches \cup {None}, Recover(t, some) PROVE \E x : fits(x)
    BY <2>5, RecoverMoves DEF Delivers, Unasked
  <2> QED
    BY <2>1, <2>2, <2>3, <2>4, <2>5
<1>2. UNCHANGED <<seen, calls>>
  BY DEF Deliver, Recover, Conclude, ConcludeUnplanned, Mark, ghosts
<1> QED
  BY <1>1, <1>2, QuietOnce

LEMMA NextOnce == ASSUME Typed, Once, [Next]_vars PROVE Once'
<1>1. CASE UNCHANGED vars
  BY <1>1, StillOnce DEF vars, ghosts
<1>2. ASSUME NEW b \in Branches, Enable(b) PROVE Once'
  BY <1>2, StillOnce DEF Enable
<1>3. ASSUME NEW set \in TrainingSets, Train(set) PROVE Once'
  BY <1>3, StillOnce DEF Train, ghosts
<1> QED
  BY <1>1, <1>2, <1>3, RecordOnce, PlanOnce, ExecuteOnce, ActionOnce, OtherOnce, CrashOnce DEF Next

\* No target is called twice for one delivered event (IntegrationSimulator.process), however
\* many threads deliver it.
THEOREM ExecutedOnceAlways == Spec => []ExecutedOnce
<1>1. Once => ExecutedOnce
  BY DEF Once
<1> QED
  BY <1>1, InitTyped, NextTyped, InitOnce, NextOnce, PTL DEF Spec
-----------------------------------------------------------------------------
\* The thread has still to isolate b; a is on its plan and not yet tried.
Executes(x) == x.row = 0 /\ ~x.dry
Owing(x, b) == /\ Executes(x) /\ x.at \in {"executing", "outcome", "quarantining", "isolating"}
               /\ \E a \in x.drift : x.plan[RouteOf[a]] = b
Untried(x, a) == /\ Executes(x) /\ a \in x.left
                 /\ (x.at = "executing" \/ (x.at = "outcome" /\ ~Smallest(x, a)))

Answered == \A t \in Threads, b \in Branches :
  missed[t][b] # {} => tissue[b].disabled \/ Owing(thread[t], b)
Spared == \A t \in Threads, a \in Actions :
  Untried(thread[t], a) => missed[t][Owner(t, a)] \subseteq {thread[t].event}
Isolation == Answered /\ Spared /\ IsolationHolds

LEMMA InitIsolation == Init => Isolation
  BY DEF Init, Isolation, Answered, Spared, IsolationHolds, Untried, Executes, Idle, Unharmed

\* Who fails nowhere only has to keep what it owes.
LEMMA QuietIsolation ==
  ASSUME Typed, Typed', Isolation, NEW t \in Threads, NEW x, thread' = [thread EXCEPT ![t] = x],
         UNCHANGED missed,
         \A b \in Branches : tissue[b].disabled => tissue'[b].disabled,
         \A b \in Branches : missed[t][b] # {} /\ Owing(thread[t], b) => tissue'[b].disabled \/ Owing(x, b),
         \A a \in Actions : Untried(x, a) => missed[t][x.plan[RouteOf[a]]] \subseteq {x.event}
  PROVE  Isolation'
<1>1. thread'[t] = x /\ \A u \in Threads \ {t} : thread'[u] = thread[u]
  BY DEF Typed, ThreadsTyped
<1>2. Answered'
  BY <1>1 DEF Isolation, Answered
<1>3. Spared'
  BY <1>1 DEF Isolation, Spared, Owner
<1> QED
  BY <1>2, <1>3 DEF Isolation, IsolationHolds

\* A failure: what the branch was met with before is of the same delivery, and it is owed.
LEMMA FailIsolation ==
  ASSUME Typed, Typed', Isolation, NEW t \in Threads, NEW a \in Actions, NEW x,
         thread' = [thread EXCEPT ![t] = x], Keeps(x, thread[t]), UNCHANGED tissue,
         thread[t].at = "executing", Smallest(thread[t], a), missed' = Blame(t, a),
         x.drift = thread[t].drift \cup {a}, x.at \in {"executing", "outcome"},
         x.left \subseteq thread[t].left
  PROVE  Isolation'
<1>1. thread'[t] = x /\ \A u \in Threads \ {t} : thread'[u] = thread[u]
  BY DEF Typed, ThreadsTyped
<1>2. \A q \in Actions : Untried(x, q) => Untried(thread[t], q)
  BY DEF Untried, Executes, Keeps
<1>3. CASE ~Executes(thread[t])
  <2>1. ~Executes(x) /\ missed' = missed
    BY <1>3 DEF Executes, Keeps, Blame
  <2> QED
    BY <1>3, <2>1, QuietIsolation DEF Owing, Untried
<1>4. CASE Executes(thread[t])
  <2> DEFINE b == Owner(t, a)
             e == thread[t].event
  <2>1. b \in Branches /\ b = x.plan[RouteOf[a]] /\ x.event = e /\ a \in Actions
    BY PlannedBranch DEF Smallest, Keeps, Owner
  <2>2. missed \in [Threads -> [Branches -> SUBSET Events]] /\ missed[t] \in [Branches -> SUBSET Events]
    BY DEF Typed, GhostsTyped
  <2>3. missed' = [missed EXCEPT ![t][b] = @ \cup {e}]
    BY <1>4 DEF Blame, Executes
  <2>4. missed[t][b] \subseteq {e}
    <3>1. Untried(thread[t], a)
      BY <1>4 DEF Untried, Smallest
    <3> QED
      BY <3>1 DEF Isolation, Spared
  <2>5. Executes(x) /\ Owing(x, b) /\ \A c \in Branches : Owing(thread[t], c) => Owing(x, c)
    BY <1>4, <2>1 DEF Executes, Owing, Keeps
  <2> HIDE DEF b, e
  <2>6. /\ missed'[t][b] = {e}
        /\ \A u \in Threads, c \in Branches : u # t \/ c # b => missed'[u][c] = missed[u][c]
    BY <2>1, <2>2, <2>3, <2>4
  <2>7. Answered' /\ IsolationHolds'
    BY <1>1, <2>5, <2>6 DEF Isolation, Answered, IsolationHolds
  <2>8. Spared'
    <3> SUFFICES ASSUME NEW u \in Threads, NEW q \in Actions, Untried(thread'[u], q)
                 PROVE  missed'[u][thread'[u].plan[RouteOf[q]]] \subseteq {thread'[u].event}
      BY DEF Spared, Owner
    <3>1. Untried(thread[u], q) /\ thread'[u].plan = thread[u].plan /\ thread'[u].event = thread[u].event
      BY <1>1, <1>2 DEF Keeps
    <3>2. missed[u][Owner(u, q)] \subseteq {thread[u].event} /\ Owner(u, q) \in Branches
      BY <3>1, PlannedBranch DEF Isolation, Spared, Untried
    <3>3. missed'[u][Owner(u, q)] \subseteq {thread[u].event}
      BY <2>6, <3>2 DEF e
    <3> QED
      BY <3>1, <3>3 DEF Owner
  <2> QED
    BY <2>7, <2>8 DEF Isolation
<1> QED
  BY <1>3, <1>4

LEMMA PlanIsolation == ASSUME Typed, Typed', Isolation, NEW t \in Threads, Plan(t) PROVE Isolation'
<1>1. PICK x : PlannedTo(t, x)
  BY PlanMoves
<1>2. /\ thread' = [thread EXCEPT ![t] = x] /\ UNCHANGED <<tissue, missed>>
      /\ thread[t].at = "planning"
  BY <1>1 DEF PlannedTo, Plan, ghosts
<1>3. \A a \in Actions : Untried(x, a) => missed[t][x.plan[RouteOf[a]]] = {}
  <2> SUFFICES ASSUME NEW a \in Actions, Untried(x, a) PROVE missed[t][x.plan[RouteOf[a]]] = {}
    OBVIOUS
  <2> DEFINE p == PatternOf[thread[t].event]
             b == x.plan[RouteOf[a]]
  <2>1. b = Selected(RouteOf[a], p) /\ b # None /\ RouteOf[a] \in Routes
    BY <1>1, Routed DEF PlannedTo, Untried
  <2>2. b \in Branches /\ Eligible(b, p)
    BY <2>1, SelectedOwned, OwnedBranches DEF Owns
  <2>3. ~tissue[b].disabled /\ ~Owing(thread[t], b)
    BY <1>2, <2>2 DEF Eligible, Owing
  <2> QED
    BY <2>2, <2>3 DEF Isolation, Answered
<1>4. \A b \in Branches : ~Owing(thread[t], b)
  BY <1>2 DEF Owing
<1> QED
  BY <1>2, <1>3, <1>4, QuietIsolation

LEMMA ExecuteIsolation ==
  ASSUME Typed, Typed', Isolation, NEW t \in Threads, NEW a \in Actions, Execute(t, a)
  PROVE  Isolation'
<1>1. PICK x : ExecutedTo(t, a, x)
  BY ExecuteMoves
<1>2. /\ thread' = [thread EXCEPT ![t] = x] /\ Keeps(x, thread[t]) /\ UNCHANGED tissue
      /\ thread[t].at = "executing" /\ Smallest(thread[t], a)
      /\ x.at = "outcome" /\ x.left = thread[t].left
  BY <1>1 DEF ExecutedTo, Keeps, Execute, Current, Smallest
<1>3. \A q \in Actions : Untried(x, q) => Untried(thread[t], q)
  BY <1>2 DEF Untried, Executes, Keeps
<1>4. CASE x.drift = thread[t].drift \cup {a} /\ missed' = Blame(t, a)
  <2>1. x.left \subseteq thread[t].left /\ x.at \in {"executing", "outcome"}
    BY <1>2
  <2>2. x.drift = thread[t].drift \cup {a} /\ missed' = Blame(t, a)
    BY <1>4
  <2> QED
    BY <1>2, <2>1, <2>2, FailIsolation
<1>5. CASE x.drift = thread[t].drift /\ missed' = missed
  <2>1. \A b \in Branches : Owing(thread[t], b) => Owing(x, b)
    BY <1>2, <1>5 DEF Owing, Executes, Keeps
  <2>2. \A q \in Actions : Untried(x, q) => missed[t][x.plan[RouteOf[q]]] \subseteq {x.event}
    BY <1>2, <1>3 DEF Isolation, Spared, Keeps, Owner
  <2> QED
    BY <1>2, <1>5, <2>1, <2>2, QuietIsolation
<1> QED
  BY <1>1, <1>4, <1>5 DEF ExecutedTo

LEMMA StepIsolation ==
  ASSUME Typed, Typed', Isolation, NEW t \in Threads, NEW a \in Actions,
         Block(t, a) \/ Simulate(t, a) \/ Outcome(t, a) \/ Quarantine(t, a) \/ Isolate(t, a)
  PROVE  Isolation'
<1>1. PICK x : thread' = [thread EXCEPT ![t] = x] /\ Steps(t, a, x)
  BY StepMoves
<1>2. CASE Block(t, a) /\ Keeps(x, thread[t]) /\ x.at = "executing"
           /\ x.left = thread[t].left \ {a} /\ x.drift = thread[t].drift \cup {a}
  <2>1. /\ UNCHANGED tissue /\ thread[t].at = "executing" /\ Smallest(thread[t], a)
        /\ missed' = Blame(t, a)
    BY <1>2 DEF Block, Smallest, Current
  <2> QED
    BY <1>1, <1>2, <2>1, FailIsolation
<1>3. CASE (Simulate(t, a) \/ Outcome(t, a)) /\ Keeps(x, thread[t]) /\ x.at = "executing"
           /\ x.left = thread[t].left \ {a} /\ x.drift = thread[t].drift
  <2>1. /\ UNCHANGED missed /\ \A b \in Branches : tissue'[b].disabled = tissue[b].disabled
        /\ thread[t].at = "executing" \/ (thread[t].at = "outcome" /\ Smallest(thread[t], a))
    <3>1. CASE Simulate(t, a)
      BY <3>1 DEF Simulate, ghosts
    <3>2. CASE Outcome(t, a)
      BY <3>2 DEF Outcome, ghosts, Typed, TissueTyped, Smallest, Current
    <3> QED
      BY <1>3, <3>1, <3>2
  <2>2. \A b \in Branches : Owing(thread[t], b) => Owing(x, b)
    BY <1>3 DEF Owing, Executes, Keeps
  <2>3. \A q \in Actions : Untried(x, q) => Untried(thread[t], q)
    BY <1>3, <2>1 DEF Untried, Executes, Keeps, Smallest, Actions
  <2>4. \A q \in Actions : Untried(x, q) => missed[t][x.plan[RouteOf[q]]] \subseteq {x.event}
    BY <1>3, <2>3 DEF Isolation, Spared, Keeps, Owner
  <2> QED
    BY <1>1, <2>1, <2>2, <2>4, QuietIsolation
<1>4. CASE Quarantine(t, a) /\ Keeps(x, thread[t]) /\ x.at = "isolating" /\ x.drift = thread[t].drift
  <2>1. UNCHANGED <<tissue, missed>>
    BY <1>4 DEF Quarantine
  <2>2. \A b \in Branches : Owing(thread[t], b) => Owing(x, b)
    BY <1>4 DEF Owing, Executes, Keeps
  <2>3. \A q \in Actions : ~Untried(x, q)
    BY <1>4 DEF Untried
  <2> QED
    BY <1>1, <2>1, <2>2, <2>3, QuietIsolation
<1>5. CASE Isolate(t, a) /\ (\/ thread[t].drift = {a} /\ x = Idle
                             \/ Keeps(x, thread[t]) /\ x.at = "quarantining" /\ x.drift = thread[t].drift \ {a})
  <2>1. /\ UNCHANGED missed /\ tissue' = [tissue EXCEPT ![Owner(t, a)].disabled = TRUE]
        /\ a \in thread[t].drift
    BY <1>5 DEF Isolate, ghosts, Drifted
  <2>2. /\ tissue'[Owner(t, a)].disabled
        /\ \A b \in Branches : tissue[b].disabled => tissue'[b].disabled
    BY <2>1, PlannedBranch DEF Typed, TissueTyped
  <2>3. ASSUME NEW b \in Branches, Owing(thread[t], b) PROVE tissue'[b].disabled \/ Owing(x, b)
    <3>1. PICK q \in thread[t].drift : Owner(t, q) = b
      BY <2>3 DEF Owing, Owner
    <3>2. CASE q = a
      BY <2>2, <3>1, <3>2
    <3>3. CASE q # a
      BY <1>5, <2>3, <3>1, <3>3 DEF Owing, Executes, Keeps, Owner
    <3> QED
      BY <3>2, <3>3
  <2>4. \A q \in Actions : ~Untried(x, q)
    BY <1>5 DEF Untried, Idle
  <2> QED
    BY <1>1, <2>1, <2>2, <2>3, <2>4, QuietIsolation
<1> QED
  BY <1>1, <1>2, <1>3, <1>4, <1>5 DEF Steps

LEMMA OtherIsolation ==
  ASSUME Typed, Typed', Isolation, NEW t \in Threads,
         \/ \E e \in Events, dry \in BOOLEAN : Deliver(t, e, dry)
         \/ \E some \in Branches \cup {None} : Recover(t, some)
         \/ Record(t) \/ Conclude(t) \/ ConcludeUnplanned(t) \/ Mark(t)
  PROVE  Isolation'
<1> DEFINE fits(x) == /\ thread' = [thread EXCEPT ![t] = x]
                      /\ \A b \in Branches : Owing(thread[t], b) => Owing(x, b)
                      /\ x.at \in {"idle", "recording", "planning", "marking", "quarantining"}
<1>1. PICK x : fits(x)
  <2>1. ASSUME NEW e \in Events, NEW dry \in BOOLEAN, Deliver(t, e, dry) PROVE \E x : fits(x)
    <3> DEFINE x == [Idle EXCEPT !.at = "recording", !.event = e, !.dry = dry]
    <3>1. x.at = "recording"
      BY DEF Idle
    <3> QED
      BY <2>1, <3>1 DEF Deliver, Owing
  <2>2. CASE Record(t)
    <3> DEFINE x == [thread[t] EXCEPT !.at = "planning"]
    <3>1. x.at = "planning" /\ Idle.at = "idle"
      BY OfThread DEF State, Fields, Idle
    <3> HIDE DEF x
    <3>2. thread' = [thread EXCEPT ![t] = x] \/ thread' = [thread EXCEPT ![t] = Idle]
      BY <2>2 DEF Record, x
    <3> QED
      BY <2>2, <3>1, <3>2 DEF Record, Owing
  <2>3. CASE Conclude(t)
    <3>1. PICK x : thread' = [thread EXCEPT ![t] = x] /\ Concludes(t, x)
      BY <2>3, ConcludeMoves
    <3>2. \A b \in Branches : Owing(thread[t], b) => Owing(x, b)
      BY <3>1 DEF Concludes, Owing, Executes, Keeps
    <3>3. x.at \in {"idle", "planning", "marking", "quarantining"}
      BY <3>1 DEF Concludes, Follows, Idle
    <3> QED
      BY <3>1, <3>2, <3>3
  <2>4. CASE ConcludeUnplanned(t)
    BY <2>4, UnplannedMoves DEF Follows, Idle, Owing, ConcludeUnplanned
  <2>5. CASE Mark(t)
    <3>1. PICK x : thread' = [thread EXCEPT ![t] = x] /\ Follows(t, x)
      BY <2>5, MarkMoves
    <3>2. x.at \in {"idle", "planning"}
      BY <3>1 DEF Follows, Idle
    <3> QED
      BY <2>5, <3>1, <3>2 DEF Mark, Owing
  <2>6. ASSUME NEW some \in Branches \cup {None}, Recover(t, some) PROVE \E x : fits(x)
    <3>1. PICK x : thread' = [thread EXCEPT ![t] = x] /\ x.at = "planning"
      BY <2>6, RecoverMoves
    <3> QED
      BY <2>6, <3>1 DEF Recover, Owing
  <2> QED
    BY <2>1, <2>2, <2>3, <2>4, <2>5, <2>6
<1>2. UNCHANGED <<tissue, missed>>
  BY DEF Deliver, Recover, Record, Conclude, ConcludeUnplanned, Mark, ghosts
<1>3. \A a \in Actions : ~Untried(x, a)
  BY <1>1 DEF Untried
<1> QED
  BY <1>1, <1>2, <1>3, QuietIsolation

LEMMA EnableIsolation == ASSUME Typed, Isolation, NEW b \in Branches, Enable(b) PROVE Isolation'
<1>1. /\ \A t \in Threads, c \in Branches : missed'[t][c] = IF c = b THEN {} ELSE missed[t][c]
      /\ \A c \in Branches \ {b} : tissue'[c] = tissue[c]
      /\ UNCHANGED thread
  BY DEF Enable, Typed, GhostsTyped, TissueTyped
<1>2. Answered' /\ IsolationHolds'
  BY <1>1 DEF Isolation, Answered, IsolationHolds
<1>3. Spared'
  BY <1>1, PlannedBranch DEF Isolation, Spared, Untried, Owner
<1> QED
  BY <1>2, <1>3 DEF Isolation

LEMMA TrainIsolation == ASSUME Typed, Isolation, NEW set \in TrainingSets, Train(set) PROVE Isolation'
<1>1. UNCHANGED <<thread, missed>> /\ \A b \in Branches : tissue'[b].disabled = tissue[b].disabled
  BY DEF Train, ghosts, Typed, TissueTyped
<1> QED
  BY <1>1 DEF Isolation, Answered, Spared, IsolationHolds, Owner

LEMMA CrashIsolation == ASSUME Isolation, Crash PROVE Isolation'
<1>1. \A t \in Threads : thread'[t] = Idle /\ \A b \in Branches : missed'[t][b] = {}
  BY DEF Crash, Unharmed
<1> QED
  BY <1>1 DEF Isolation, Answered, Spared, IsolationHolds, Untried, Executes, Idle

LEMMA NextIsolation == ASSUME Typed, Typed', Isolation, [Next]_vars PROVE Isolation'
<1>1. CASE UNCHANGED vars
  BY <1>1 DEF vars, ghosts, Isolation, Answered, Spared, IsolationHolds, Owner
<1> QED
  BY <1>1, PlanIsolation, ExecuteIsolation, StepIsolation, OtherIsolation, EnableIsolation,
     TrainIsolation, CrashIsolation DEF Next

\* A thread meets failures with an error text on a branch in at most one delivery until the
\* branch is enabled again or the process restarts (Phase3Runtime.process), although the
\* delivery goes on after a failure and isolates at its end.
THEOREM IsolationAlways == Spec => []IsolationHolds
<1>1. Isolation => IsolationHolds
  BY DEF Isolation
<1> QED
  BY <1>1, InitTyped, NextTyped, InitIsolation, NextIsolation, PTL DEF Spec
-----------------------------------------------------------------------------
\* A replay some action of which was executed and did not fail.
Served(x) == /\ x.row # 0 /\ x.at \in {"executing", "outcome"}
             /\ \E a \in Actions : /\ x.plan[RouteOf[a]] # None /\ a \notin x.failed
                                  /\ (a \notin x.left \/ (x.at = "outcome" /\ Smallest(x, a)))
\* Some target answered for what is about to be marked, and for what was marked.
Backed == \A t \in Threads :
  Served(thread[t]) \/ thread[t].at = "marking" => thread[t].row \in worked
Repaired == \A q \in DOMAIN rows : rows[q].status = "recovered" => q \in worked

\* One recovery at a time works through rows that wait.
OneRecovery == ~overlapped => \A t, u \in Threads : Recovering(t) /\ Recovering(u) => t = u
Waiting(q) == q \in DOMAIN rows /\ rows[q].status = "quarantined"
Ahead == \A t \in Threads : Recovering(t) =>
  Waiting(thread[t].row) /\ thread[t].row \notin thread[t].rest /\ \A q \in thread[t].rest : Waiting(q)
Replayed == \A q \in DOMAIN rows :
  /\ redone[q] <= 1
  /\ redone[q] # 0 /\ rows[q].status = "quarantined" =>
       \E t \in Threads : thread[t].at = "marking" /\ thread[t].row = q
Orderly == OneRecovery /\ (~overlapped /\ ~crashed => Ahead /\ Replayed)

\* What becomes of the rows.
Grows == /\ Len(rows) \in Nat /\ DOMAIN rows = 1..Len(rows) /\ DOMAIN rows' = 1..Len(rows')
         /\ \A q \in DOMAIN rows : q \in DOMAIN rows' /\ rows'[q] = rows[q] /\ redone'[q] = redone[q]
         /\ \A q \in DOMAIN rows' \ DOMAIN rows : rows'[q].status = "quarantined" /\ redone'[q] = 0

LEMMA QuarantineRows ==
  ASSUME Typed, NEW t \in Threads, NEW a \in Actions, Quarantine(t, a) PROVE Grows
<1>1. thread[t].event \in Events /\ Owner(t, a) \in Branches /\ State(thread[t], Len(rows))
  BY OfThread, PlannedBranch DEF Quarantine, State, Drifted
<1>2. State([thread[t] EXCEPT !.at = "isolating"], Len(rows))
  BY <1>1 DEF Quarantine, State, Fields, Places
<1>3. /\ RowsTyped' /\ Len(rows') = Len(rows) + 1
      /\ \A q \in DOMAIN rows : rows'[q] = rows[q] /\ redone'[q] = redone[q]
      /\ rows'[Len(rows) + 1].status = "quarantined" /\ redone'[Len(rows) + 1] = 0
  BY <1>1, <1>2, Appends DEF Quarantine
<1> QED
  BY <1>3 DEF Grows, Typed, RowsTyped

LEMMA UnplannedRows ==
  ASSUME Typed, NEW t \in Threads, ConcludeUnplanned(t) PROVE Grows
<1>1. CASE UNCHANGED <<rows, redone>>
  BY <1>1 DEF Grows, Typed, RowsTyped
<1>2. CASE thread' = [thread EXCEPT ![t] = Idle] /\ rows' = NewRow(t, None) /\ redone' = Append(redone, 0)
  <2>1. thread[t].event \in Events /\ State(Idle, Len(rows))
    BY OfThread, IdleTyped DEF ConcludeUnplanned, State
  <2>2. /\ RowsTyped' /\ Len(rows') = Len(rows) + 1
        /\ \A q \in DOMAIN rows : rows'[q] = rows[q] /\ redone'[q] = redone[q]
        /\ rows'[Len(rows) + 1].status = "quarantined" /\ redone'[Len(rows) + 1] = 0
    BY <1>2, <2>1, Appends
  <2> QED
    BY <2>2 DEF Grows, Typed, RowsTyped
<1> QED
  BY <1>1, <1>2 DEF ConcludeUnplanned

LEMMA MarkRows ==
  ASSUME Typed, NEW t \in Threads, Mark(t)
  PROVE  /\ DOMAIN rows' = DOMAIN rows /\ redone' = redone /\ DOMAIN rows = 1..Len(rows)
         /\ rows'[thread[t].row].status = "recovered"
         /\ \A q \in DOMAIN rows : q # thread[t].row => rows'[q] = rows[q]
<1>1. thread[t].row \in 1..Len(rows) /\ rows \in Seq(Row)
  BY OfThread DEF State, Mark, Typed, RowsTyped
<1>2. rows[thread[t].row] \in Row
  BY <1>1
<1>3. [rows[thread[t].row] EXCEPT !.status = "recovered"].status = "recovered"
  BY <1>2 DEF Row
<1> QED
  BY <1>1, <1>3 DEF Mark, Marked, ghosts

LEMMA InitBacked == Init => Backed /\ Repaired
  BY DEF Init, Backed, Repaired, Served, Idle

LEMMA InitOrderly == Init => Orderly
  BY DEF Init, Orderly, OneRecovery, Ahead, Replayed, Recovering, Idle

\* A thread that is answered for wherever it goes.
LEMMA QuietBacked ==
  ASSUME Typed, Backed, Repaired, NEW t \in Threads, NEW x, thread' = [thread EXCEPT ![t] = x],
         worked \subseteq worked',
         \A q \in DOMAIN rows' : rows'[q].status = "recovered" =>
           q \in worked \/ (q \in DOMAIN rows /\ rows[q].status = "recovered"),
         Served(x) \/ x.at = "marking" => x.row \in worked'
  PROVE  Backed' /\ Repaired'
<1>1. thread'[t] = x /\ \A u \in Threads \ {t} : thread'[u] = thread[u]
  BY DEF Typed, ThreadsTyped
<1>2. Backed'
  BY <1>1 DEF Backed
<1>3. Repaired'
  BY DEF Repaired
<1> QED
  BY <1>2, <1>3

LEMMA PlanBacked == ASSUME Typed, Backed, Repaired, NEW t \in Threads, Plan(t) PROVE Backed' /\ Repaired'
<1>1. PICK x : PlannedTo(t, x)
  BY PlanMoves
<1>2. x.at # "marking" /\ ~Served(x)
  BY <1>1 DEF PlannedTo, Served
<1>3. thread' = [thread EXCEPT ![t] = x] /\ UNCHANGED <<rows, worked>>
  BY <1>1 DEF PlannedTo, Plan, ghosts
<1> QED
  BY <1>2, <1>3, QuietBacked

LEMMA ExecuteBacked ==
  ASSUME Typed, Backed, Repaired, NEW t \in Threads, NEW a \in Actions, Execute(t, a)
  PROVE  Backed' /\ Repaired'
<1>1. PICK x : ExecutedTo(t, a, x)
  BY ExecuteMoves
<1>2. /\ thread' = [thread EXCEPT ![t] = x] /\ UNCHANGED rows /\ worked \subseteq worked'
      /\ x.at = "outcome"
  BY <1>1 DEF ExecutedTo, Execute
<1>3. thread[t].at = "executing" /\ Smallest(thread[t], a)
  BY DEF Execute, Current, Smallest
<1>4. ASSUME Served(x) PROVE x.row \in worked'
  <2>1. CASE x.failed = thread[t].failed /\ worked' = worked \cup ({thread[t].row} \ {0})
    BY <1>1, <1>4, <2>1 DEF ExecutedTo, Served
  <2>2. CASE x.failed = thread[t].failed \cup {a} /\ worked' = worked
    <3>1. Served(thread[t])
      BY <1>1, <1>3, <1>4, <2>2, OfThread DEF ExecutedTo, Served, Smallest, State, Actions
    <3> QED
      BY <1>1, <2>2, <3>1 DEF Backed, ExecutedTo
  <2> QED
    BY <1>1, <2>1, <2>2 DEF ExecutedTo
<1> QED
  BY <1>2, <1>4, QuietBacked

LEMMA StepBacked ==
  ASSUME Typed, Backed, Repaired, NEW t \in Threads, NEW a \in Actions,
         Block(t, a) \/ Simulate(t, a) \/ Outcome(t, a) \/ Quarantine(t, a) \/ Isolate(t, a)
  PROVE  Backed' /\ Repaired'
<1>1. PICK x : thread' = [thread EXCEPT ![t] = x] /\ Steps(t, a, x)
  BY StepMoves
<1>2. worked' = worked /\ x.at # "marking"
  <2>1. worked' = worked
    BY DEF Block, Simulate, Outcome, Quarantine, Isolate, ghosts
  <2>2. x.at \in {"executing", "isolating", "quarantining", "idle"}
    BY <1>1 DEF Steps, Idle
  <2> QED
    BY <2>1, <2>2
<1>3. Served(x) => Served(thread[t]) /\ x.row = thread[t].row
  <2>1. CASE Block(t, a) /\ Steps(t, a, x) /\ x.at = "executing" /\ Keeps(x, thread[t])
             /\ x.left = thread[t].left \ {a} /\ x.failed = thread[t].failed \cup {a}
    BY <2>1 DEF Block, Keeps, Served
  <2>2. CASE Simulate(t, a)
    BY <1>1, <2>2, OfThread DEF Simulate, Steps, Keeps, Served, State, Block, Quarantine, Isolate, Outcome
  <2>3. CASE Outcome(t, a) /\ x.at = "executing" /\ Keeps(x, thread[t])
             /\ x.left = thread[t].left \ {a} /\ x.failed = thread[t].failed
    BY <2>3 DEF Outcome, Current, Smallest, Keeps, Served
  <2>4. CASE x.at \in {"idle", "quarantining", "isolating"}
    BY <2>4 DEF Served
  <2> QED
    BY <1>1, <2>1, <2>2, <2>3, <2>4 DEF Steps, Idle
<1>4. \A q \in DOMAIN rows' : rows'[q].status = "recovered" =>
        q \in DOMAIN rows /\ rows[q].status = "recovered"
  <2>1. CASE Quarantine(t, a)
    BY <2>1, QuarantineRows DEF Grows
  <2>2. CASE ~Quarantine(t, a)
    BY <2>2 DEF Block, Simulate, Outcome, Isolate, ghosts
  <2> QED
    BY <2>1, <2>2
<1>5. Served(x) => x.row \in worked'
  BY <1>2, <1>3 DEF Backed
<1> QED
  BY <1>1, <1>2, <1>4, <1>5, QuietBacked

LEMMA ConcludeBacked ==
  ASSUME Typed, Backed, Repaired, NEW t \in Threads, Conclude(t)
  PROVE  Backed' /\ Repaired'
<1>1. PICK x : thread' = [thread EXCEPT ![t] = x] /\ Concludes(t, x)
  BY ConcludeMoves
<1>2. UNCHANGED <<rows, worked>> /\ thread[t].at = "executing" /\ thread[t].left = {}
  BY DEF Conclude
<1>3. ~Served(x)
  BY <1>1 DEF Concludes, Follows, Served, Idle
<1>4. x.at = "marking" => x.row \in worked
  <2> SUFFICES ASSUME x.at = "marking" PROVE x.row \in worked
    OBVIOUS
  <2>1. thread[t].row # 0 /\ Succeeded(t) /\ x.row = thread[t].row
    BY <1>1 DEF Concludes, Follows, Idle, Keeps
  <2>2. Served(thread[t])
    BY <1>2, <2>1 DEF Served, Succeeded, Planned, Owner
  <2> QED
    BY <2>1, <2>2 DEF Backed
<1> QED
  BY <1>1, <1>2, <1>3, <1>4, QuietBacked

LEMMA OtherBacked ==
  ASSUME Typed, Backed, Repaired, NEW t \in Threads,
         \/ \E e \in Events, dry \in BOOLEAN : Deliver(t, e, dry)
         \/ \E some \in Branches \cup {None} : Recover(t, some)
         \/ Record(t) \/ ConcludeUnplanned(t) \/ Mark(t)
  PROVE  Backed' /\ Repaired'
<1> DEFINE fits(x) == thread' = [thread EXCEPT ![t] = x] /\ x.at \in {"idle", "recording", "planning"}
<1>1. PICK x : fits(x)
  <2>1. ASSUME NEW e \in Events, NEW dry \in BOOLEAN, Deliver(t, e, dry) PROVE \E x : fits(x)
    <3> DEFINE x == [Idle EXCEPT !.at = "recording", !.event = e, !.dry = dry]
    <3>1. x.at = "recording"
      BY DEF Idle
    <3> QED
      BY <2>1, <3>1 DEF Deliver
  <2>2. CASE Record(t)
    <3> DEFINE x == [thread[t] EXCEPT !.at = "planning"]
    <3>1. x.at = "planning" /\ Idle.at = "idle"
      BY OfThread DEF State, Fields, Idle
    <3> HIDE DEF x
    <3>2. thread' = [thread EXCEPT ![t] = x] \/ thread' = [thread EXCEPT ![t] = Idle]
      BY <2>2 DEF Record, x
    <3> QED
      BY <3>1, <3>2
  <2>3. CASE ConcludeUnplanned(t)
    BY <2>3, UnplannedMoves DEF Follows, Idle
  <2>4. CASE Mark(t)
    BY <2>4, MarkMoves DEF Follows, Idle
  <2>5. ASSUME NEW some \in Branches \cup {None}, Recover(t, some) PROVE \E x : fits(x)
    BY <2>5, RecoverMoves
  <2> QED
    BY <2>1, <2>2, <2>3, <2>4, <2>5
<1>2. worked' = worked
  BY DEF Deliver, Recover, Record, ConcludeUnplanned, Mark, ghosts
<1>3. ~Served(x) /\ x.at # "marking"
  BY <1>1 DEF Served
<1>4. \A q \in DOMAIN rows' : rows'[q].status = "recovered" =>
        q \in worked \/ (q \in DOMAIN rows /\ rows[q].status = "recovered")
  <2>1. CASE Mark(t)
    <3>1. thread[t].row \in worked
      BY <2>1 DEF Mark, Backed
    <3> QED
      BY <2>1, <3>1, MarkRows
  <2>2. CASE ConcludeUnplanned(t)
    BY <2>2, UnplannedRows DEF Grows
  <2>3. CASE UNCHANGED rows
    BY <2>3
  <2> QED
    BY <2>1, <2>2, <2>3 DEF Deliver, Recover, Record, ghosts
<1> QED
  BY <1>1, <1>2, <1>3, <1>4, QuietBacked

LEMMA NextBacked == ASSUME Typed, Backed, Repaired, [Next]_vars PROVE Backed' /\ Repaired'
<1>1. CASE UNCHANGED <<thread, rows, worked>>
  BY <1>1 DEF Backed, Repaired
<1>2. CASE Crash
  BY <1>2 DEF Crash, Backed, Repaired, Served, Idle
<1>3. ASSUME NEW b \in Branches, Enable(b) PROVE UNCHANGED <<thread, rows, worked>>
  BY <1>3 DEF Enable
<1>4. ASSUME NEW set \in TrainingSets, Train(set) PROVE UNCHANGED <<thread, rows, worked>>
  BY <1>4 DEF Train, ghosts
<1>5. CASE UNCHANGED vars
  BY <1>1, <1>5 DEF vars, ghosts
<1> QED
  BY <1>1, <1>2, <1>3, <1>4, <1>5, PlanBacked, ExecuteBacked, StepBacked, ConcludeBacked, OtherBacked DEF Next
-----------------------------------------------------------------------------
\* A thread that recovers nothing, or goes on with its row.
LEMMA QuietOrderly ==
  ASSUME Typed, Orderly, NEW t \in Threads, NEW x, thread' = [thread EXCEPT ![t] = x],
         x.row # 0 => x.row = thread[t].row /\ x.rest = thread[t].rest,
         thread[t].at # "marking", Grows, UNCHANGED <<overlapped, crashed>>
  PROVE  Orderly'
<1>1. thread'[t] = x /\ \A u \in Threads \ {t} : thread'[u] = thread[u]
  BY DEF Typed, ThreadsTyped
<1>2. OneRecovery'
  BY <1>1 DEF Orderly, OneRecovery, Recovering
<1>3. \A q : Waiting(q) => Waiting(q)'
  BY DEF Waiting, Grows
<1>4. ASSUME Ahead PROVE Ahead'
  BY <1>1, <1>3, <1>4 DEF Ahead, Recovering
<1>5. ASSUME Replayed PROVE Replayed'
  BY <1>1, <1>5 DEF Replayed, Grows
<1> QED
  BY <1>2, <1>4, <1>5 DEF Orderly

\* A recovery that goes on to its next row, or ends.
LEMMA FollowOrderly ==
  ASSUME Typed, Orderly, NEW t \in Threads, NEW x, thread' = [thread EXCEPT ![t] = x],
         thread[t].row # 0, Follows(t, x), UNCHANGED <<overlapped, crashed, redone>>,
         DOMAIN rows' = DOMAIN rows,
         \A q \in DOMAIN rows : rows'[q] = rows[q] \/ (q = thread[t].row /\ rows'[q].status = "recovered"),
         thread[t].at = "marking" => rows'[thread[t].row].status = "recovered"
  PROVE  Orderly'
<1>1. thread'[t] = x /\ \A u \in Threads \ {t} : thread'[u] = thread[u]
  BY DEF Typed, ThreadsTyped
<1>2. x.row # 0 => /\ x.row \in thread[t].rest /\ x.rest = thread[t].rest \ {x.row}
  BY DEF Follows, Idle
<1>3. OneRecovery'
  BY <1>1 DEF Orderly, OneRecovery, Recovering
<1>4. ASSUME ~overlapped, Ahead PROVE Ahead'
  <2>1. /\ \A u \in Threads \ {t} : ~Recovering(u)
        /\ thread[t].row \notin thread[t].rest /\ \A q \in thread[t].rest : Waiting(q)
    BY <1>4 DEF Orderly, OneRecovery, Ahead, Recovering
  <2>2. \A q \in thread[t].rest : Waiting(q)'
    BY <2>1 DEF Waiting
  <2> QED
    BY <1>1, <1>2, <2>1, <2>2 DEF Ahead, Recovering
<1>5. ASSUME Replayed PROVE Replayed'
  <2> SUFFICES ASSUME NEW q \in DOMAIN rows'
               PROVE  /\ redone'[q] <= 1
                      /\ redone'[q] # 0 /\ rows'[q].status = "quarantined" =>
                           \E u \in Threads : thread'[u].at = "marking" /\ thread'[u].row = q
    BY DEF Replayed
  <2>1. redone'[q] = redone[q] /\ redone[q] <= 1
    BY <1>5 DEF Replayed
  <2>2. ASSUME redone'[q] # 0, rows'[q].status = "quarantined"
        PROVE  \E u \in Threads : thread'[u].at = "marking" /\ thread'[u].row = q
    <3>1. rows[q].status = "quarantined" /\ ~(thread[t].at = "marking" /\ thread[t].row = q)
      BY <2>2
    <3>2. PICK u \in Threads : thread[u].at = "marking" /\ thread[u].row = q
      BY <1>5, <2>1, <2>2, <3>1 DEF Replayed
    <3> QED
      BY <1>1, <3>1, <3>2
  <2> QED
    BY <2>1, <2>2
<1> QED
  BY <1>3, <1>4, <1>5 DEF Orderly

LEMMA UnchangedRows == ASSUME Typed, UNCHANGED <<rows, redone>> PROVE Grows
  BY DEF Grows, Typed, RowsTyped

LEMMA StepOrderly ==
  ASSUME Typed, Orderly, NEW t \in Threads, NEW a \in Actions,
         \/ Block(t, a) \/ Simulate(t, a) \/ Execute(t, a) \/ Outcome(t, a)
         \/ Quarantine(t, a) \/ Isolate(t, a)
  PROVE  Orderly'
<1>1. PICK x : thread' = [thread EXCEPT ![t] = x] /\ (x = Idle \/ Keeps(x, thread[t]))
  BY StepMoves, ExecuteMoves DEF Steps, ExecutedTo, Keeps
<1>2. x.row # 0 => x.row = thread[t].row /\ x.rest = thread[t].rest
  BY <1>1 DEF Keeps, Idle
<1>3. Grows
  BY UnchangedRows, QuarantineRows DEF Block, Simulate, Execute, Outcome, Isolate, ghosts
<1>4. thread[t].at # "marking" /\ UNCHANGED <<overlapped, crashed>>
  BY DEF Block, Simulate, Execute, Outcome, Quarantine, Isolate, ghosts
<1> QED
  BY <1>1, <1>2, <1>3, <1>4, QuietOrderly

LEMMA BeginOrderly ==
  ASSUME Typed, Orderly, NEW t \in Threads,
         \/ \E e \in Events, dry \in BOOLEAN : Deliver(t, e, dry)
         \/ Record(t) \/ Plan(t)
  PROVE  Orderly'
<1>1. PICK x : /\ thread' = [thread EXCEPT ![t] = x]
               /\ x.row # 0 => x.row = thread[t].row /\ x.rest = thread[t].rest
  <2>1. CASE \E e \in Events, dry \in BOOLEAN : Deliver(t, e, dry)
    <3>1. PICK e \in Events, dry \in BOOLEAN : Deliver(t, e, dry)
      BY <2>1
    <3>2. [Idle EXCEPT !.at = "recording", !.event = e, !.dry = dry].row = 0
      BY DEF Idle
    <3> QED
      BY <3>1, <3>2 DEF Deliver
  <2>2. CASE Record(t)
    <3> DEFINE x == [thread[t] EXCEPT !.at = "planning"]
    <3>1. x.row = thread[t].row /\ x.rest = thread[t].rest /\ Idle.row = 0
      BY OfThread DEF State, Fields, Idle
    <3>2. thread' = [thread EXCEPT ![t] = x] \/ thread' = [thread EXCEPT ![t] = Idle]
      BY <2>2 DEF Record
    <3> HIDE DEF x
    <3> QED
      BY <3>1, <3>2
  <2>3. CASE Plan(t)
    BY <2>3, PlanMoves DEF PlannedTo
  <2> QED
    BY <2>1, <2>2, <2>3
<1>2. thread[t].at # "marking" /\ UNCHANGED <<overlapped, crashed, rows, redone>>
  BY DEF Deliver, Record, Plan, ghosts
<1> QED
  BY <1>1, <1>2, UnchangedRows, QuietOrderly

LEMMA SucceedOrderly ==
  ASSUME Typed, Orderly, NEW t \in Threads, NEW x, thread' = [thread EXCEPT ![t] = x],
         thread[t].at = "executing", thread[t].row # 0, Keeps(x, thread[t]), x.at = "marking",
         redone' = [redone EXCEPT ![thread[t].row] = @ + 1], UNCHANGED <<rows, overlapped, crashed>>
  PROVE  Orderly'
<1> DEFINE k == thread[t].row
<1>1. /\ thread'[t] = x /\ \A u \in Threads \ {t} : thread'[u] = thread[u]
      /\ x.row = k /\ x.rest = thread[t].rest
  BY DEF Typed, ThreadsTyped, Keeps
<1>2. OneRecovery'
  BY <1>1 DEF Orderly, OneRecovery, Recovering
<1>3. ASSUME Ahead PROVE Ahead'
  BY <1>1, <1>3 DEF Ahead, Recovering, Waiting
<1>4. ASSUME ~overlapped, Ahead, Replayed PROVE Replayed'
  <2>1. Waiting(k) /\ k \in DOMAIN rows
    BY <1>4 DEF Ahead, Recovering, Waiting
  <2>2. redone[k] = 0
    <3> SUFFICES ASSUME redone[k] # 0 PROVE FALSE
      OBVIOUS
    <3>1. PICK u \in Threads : thread[u].at = "marking" /\ thread[u].row = k
      BY <1>4, <2>1 DEF Replayed, Waiting
    <3>2. u = t
      BY <1>4, <3>1 DEF Orderly, OneRecovery, Recovering
    <3> QED
      BY <3>1, <3>2
  <2>3. redone'[k] = 1 /\ \A q \in DOMAIN rows \ {k} : redone'[q] = redone[q]
    BY <2>1, <2>2 DEF Typed, RowsTyped
  <2> HIDE DEF k
  <2> SUFFICES ASSUME NEW q \in DOMAIN rows
               PROVE  /\ redone'[q] <= 1
                      /\ redone'[q] # 0 /\ rows[q].status = "quarantined" =>
                           \E u \in Threads : thread'[u].at = "marking" /\ thread'[u].row = q
    BY DEF Replayed
  <2>4. CASE q = k
    BY <1>1, <2>3, <2>4
  <2>5. CASE q # k
    BY <1>1, <1>4, <2>3, <2>5 DEF Replayed
  <2> QED
    BY <2>4, <2>5
<1> QED
  BY <1>2, <1>3, <1>4 DEF Orderly

LEMMA ConcludeOrderly == ASSUME Typed, Orderly, NEW t \in Threads, Conclude(t) PROVE Orderly'
<1>1. PICK x : thread' = [thread EXCEPT ![t] = x] /\ Concludes(t, x)
  BY ConcludeMoves
<1>2. thread[t].at = "executing" /\ UNCHANGED <<rows, overlapped, crashed>>
  BY DEF Conclude
<1>3. CASE thread[t].row # 0 /\ Keeps(x, thread[t]) /\ x.at = "marking"
           /\ redone' = [redone EXCEPT ![thread[t].row] = @ + 1]
  BY <1>1, <1>2, <1>3, SucceedOrderly
<1>4. CASE thread[t].row # 0 /\ Follows(t, x) /\ UNCHANGED redone
  BY <1>1, <1>2, <1>4, FollowOrderly
<1>5. CASE thread[t].row = 0 /\ (x = Idle \/ Keeps(x, thread[t])) /\ UNCHANGED redone
  <2>1. x.row = 0
    BY <1>5 DEF Keeps, Idle
  <2> QED
    BY <1>1, <1>2, <1>5, <2>1, UnchangedRows, QuietOrderly
<1> QED
  BY <1>1, <1>3, <1>4, <1>5 DEF Concludes

LEMMA UnplannedOrderly == ASSUME Typed, Orderly, NEW t \in Threads, ConcludeUnplanned(t) PROVE Orderly'
<1>1. thread[t].at = "unplanned" /\ UNCHANGED <<overlapped, crashed>>
  BY DEF ConcludeUnplanned
<1>2. CASE thread[t].row # 0
  <2>1. PICK x \in NextRow(t) : thread' = [thread EXCEPT ![t] = x] /\ UNCHANGED <<rows, redone>>
    BY <1>2 DEF ConcludeUnplanned
  <2>2. Follows(t, x)
    BY <2>1, FollowTyped DEF Follows
  <2> QED
    BY <1>1, <1>2, <2>1, <2>2, FollowOrderly
<1>3. CASE thread[t].row = 0
  <2>1. thread' = [thread EXCEPT ![t] = Idle] /\ Idle.row = 0
    BY <1>3 DEF ConcludeUnplanned, Idle
  <2> QED
    BY <1>1, <2>1, UnplannedRows, QuietOrderly
<1> QED
  BY <1>2, <1>3

LEMMA MarkOrderly == ASSUME Typed, Orderly, NEW t \in Threads, Mark(t) PROVE Orderly'
<1>1. PICK x : thread' = [thread EXCEPT ![t] = x] /\ Follows(t, x)
  BY MarkMoves
<1>2. thread[t].row # 0 /\ UNCHANGED <<overlapped, crashed, redone>>
  BY OfThread DEF Mark, ghosts, State
<1> QED
  BY <1>1, <1>2, MarkRows, FollowOrderly

LEMMA RecoverOrderly ==
  ASSUME Typed, Orderly, NEW t \in Threads, NEW some \in Branches \cup {None}, Recover(t, some)
  PROVE  Orderly'
<1>1. PICK x : /\ thread' = [thread EXCEPT ![t] = x] /\ x.at = "planning" /\ x.row # 0
               /\ x.row \in Pending /\ x.rest \subseteq Pending /\ x.row \notin x.rest
  BY RecoverMoves
<1>2. thread'[t] = x /\ \A u \in Threads \ {t} : thread'[u] = thread[u]
  BY <1>1 DEF Typed, ThreadsTyped
<1>3. /\ UNCHANGED <<rows, redone, crashed>>
      /\ ~overlapped' => ~overlapped /\ \A u \in Threads : ~Recovering(u)
  BY DEF Recover
<1>4. OneRecovery'
  BY <1>2, <1>3 DEF OneRecovery, Recovering
<1>5. ASSUME ~overlapped' PROVE Ahead'
  BY <1>1, <1>2, <1>3, <1>5 DEF Ahead, Recovering, Waiting, Pending
<1>6. ASSUME ~overlapped', Replayed PROVE Replayed'
  <2>1. \A q \in DOMAIN rows : q # 0
    BY DEF Typed, RowsTyped
  <2> QED
    BY <1>3, <1>6, <2>1 DEF Replayed, Recovering
<1> QED
  BY <1>3, <1>4, <1>5, <1>6 DEF Orderly

LEMMA NextOrderly == ASSUME Typed, Orderly, [Next]_vars PROVE Orderly'
<1>1. CASE UNCHANGED <<thread, rows, redone, overlapped, crashed>>
  BY <1>1 DEF Orderly, OneRecovery, Ahead, Replayed, Waiting, Recovering
<1>2. CASE Crash
  BY <1>2 DEF Crash, Orderly, OneRecovery, Recovering, Idle
<1>3. ASSUME NEW b \in Branches, Enable(b) PROVE Orderly'
  BY <1>1, <1>3 DEF Enable
<1>4. ASSUME NEW set \in TrainingSets, Train(set) PROVE Orderly'
  BY <1>1, <1>4 DEF Train, ghosts
<1>5. CASE UNCHANGED vars
  BY <1>1, <1>5 DEF vars, ghosts
<1> QED
  BY <1>2, <1>3, <1>4, <1>5, BeginOrderly, StepOrderly, ConcludeOrderly, UnplannedOrderly, MarkOrderly,
     RecoverOrderly DEF Next

\* Recovery marks no row without an answer from some target, and where recoveries neither
\* overlap nor die replays each row with success once (Phase3Runtime.recover).
THEOREM RecoveredAlways == Spec => []RecoveredOnce
<1>1. Repaired /\ Orderly => RecoveredOnce
  BY DEF Repaired, Orderly, Replayed, RecoveredOnce
<1> QED
  BY <1>1, InitTyped, NextTyped, InitBacked, NextBacked, InitOrderly, NextOrderly, PTL DEF Spec
-----------------------------------------------------------------------------
\* A branch's place among the owners of its route.
LEMMA Placed ==
  ASSUME NEW r \in Routes, NEW b \in Owned(r)
  PROVE  Place(r, b) \in DOMAIN Owners[r] /\ Place(r, b) \in Int
<1>1. \E i \in DOMAIN Owners[r] : Owners[r][i] = b
  BY DEF Owned
<1>2. Place(r, b) \in DOMAIN Owners[r]
  BY <1>1 DEF Place
<1>3. Owners[r] \in Seq(Branches)
  BY DaughterAssumption
<1> QED
  BY <1>2, <1>3

\* At most one branch comes before all the others.
LEMMA OneOwner ==
  ASSUME NEW r \in Routes, NEW p \in Patterns, NEW b \in Owned(r), NEW c \in Owned(r),
         Owns(r, b, p), Owns(r, c, p),
         \A d \in Owned(r) : Activation(r, d, p) \in Int
  PROVE  b = c
<1> SUFFICES ASSUME b # c PROVE FALSE
  OBVIOUS
<1>1. /\ Priority[b] \in Int /\ Priority[c] \in Int
      /\ Place(r, b) \in Int /\ Place(r, c) \in Int
      /\ Activation(r, b, p) \in Int /\ Activation(r, c, p) \in Int
  BY OwnedBranches, Placed, DaughterAssumption
<1>2. Before(r, b, c, p) /\ Before(r, c, b, p)
  BY DEF Owns
<1> QED
  BY <1>1, <1>2 DEF Before

\* A tissue that has learned nothing and isolated nothing selects what the declared router
\* would (DendritronRoutingTissue.select, DendriticOwnedRouter.select), where the branches'
\* minimum_activation lies in (0, 1], as its default does; and whatever it is, where the
\* conditions of the branch that router declares hold.  Elsewhere the two may differ: the
\* one tests the minimum of its first branch alone and is content with an activation of 0,
\* the other tests every branch's and wants more than 0.
THEOREM UntrainedAsDeclared ==
  ASSUME NEW r \in Routes, NEW p \in Patterns,
         \A b \in Owned(r) : ~tissue[b].disabled /\ tissue[b].specialists = <<>>
  PROVE  /\ (\A b \in Owned(r) : Minimum[b] > 0 /\ Minimum[b] <= 100) => Selected(r, p) = Declared(r, p)
         /\ Declared(r, p) # None /\ Hard[Declared(r, p)][p] => Selected(r, p) = Declared(r, p)
<1>1. \A b \in Owned(r) : /\ b \in Branches /\ b # None /\ Priority[b] \in Int
                          /\ Hard[b][p] \in BOOLEAN /\ Minimum[b] \in Int
  BY OwnedBranches, DaughterAssumption
<1>2. ~Trained(r)
  BY DEF Trained
<1>3. \A b \in Owned(r) : /\ Learned(r, b, p) = 10000
                          /\ Eligible(b, p) <=> Weight(b, p) >= Minimum[b]
  BY <1>2 DEF Learned, Eligible
<1>4. ASSUME NEW b \in Owned(r)
      PROVE  /\ Weight(b, p) = IF Hard[b][p] THEN 100 ELSE 0
             /\ Activation(r, b, p) = IF Hard[b][p] /\ Minimum[b] <= 100 THEN 10000 ELSE 0
  <2>0. Learned(r, b, p) = 10000 /\ Minimum[b] \in Int
    BY <1>1, <1>3
  <2>1. Eligible(b, p) <=> Weight(b, p) >= Minimum[b]
    BY DEF Eligible
  <2>2. CASE Hard[b][p]
    <3>1. Weight(b, p) = 100
      BY <2>2 DEF Weight
    <3>2. Activation(r, b, p) = IF Minimum[b] <= 100 THEN (100 * (4000 + (6 * 10000) \div 10)) \div 100 ELSE 0
      BY <2>0, <2>1, <3>1 DEF Activation
    <3> QED
      BY <2>0, <2>2, <3>1, <3>2
  <2>3. CASE ~Hard[b][p]
    <3>1. Weight(b, p) = 0
      BY <2>3 DEF Weight
    <3>2. Activation(r, b, p) = IF 0 >= Minimum[b] THEN (0 * (4000 + (6 * 10000) \div 10)) \div 100 ELSE 0
      BY <2>0, <2>1, <3>1 DEF Activation
    <3> QED
      BY <2>0, <2>3, <3>1, <3>2
  <2> QED
    BY <2>2, <2>3
<1>5. \A b \in Owned(r) : Activation(r, b, p) \in Int
  BY <1>4
<1>6. ASSUME \A b \in Owned(r) : Minimum[b] > 0 /\ Minimum[b] <= 100 PROVE Selected(r, p) = Declared(r, p)
  <2>1. ASSUME NEW b \in Owned(r)
        PROVE  /\ Hard[b][p] => /\ Weight(b, p) = 100 /\ Activation(r, b, p) = 10000
                                /\ Weight(b, p) >= Minimum[b]
               /\ ~Hard[b][p] => /\ Weight(b, p) = 0 /\ Activation(r, b, p) = 0
                                 /\ ~(Weight(b, p) >= Minimum[b])
    <3>1. Minimum[b] \in Int /\ Minimum[b] <= 100 /\ Minimum[b] > 0
      BY <1>1, <1>6
    <3>2. CASE Hard[b][p]
      <4>1. Weight(b, p) = 100
        BY <3>2 DEF Weight
      <4>2. Activation(r, b, p) = 10000
        BY <1>4, <3>1, <3>2
      <4> QED
        BY <3>1, <3>2, <4>1, <4>2
    <3>3. CASE ~Hard[b][p]
      <4>1. Weight(b, p) = 0
        BY <3>3 DEF Weight
      <4>2. Activation(r, b, p) = 0
        BY <1>4, <3>3
      <4> QED
        BY <3>1, <3>3, <4>1, <4>2
    <3> QED
      BY <3>2, <3>3
  <2>2. ASSUME NEW b \in Owned(r), NEW c \in Owned(r)
        PROVE  /\ Before(r, b, c, p) <=> Precedes(r, b, c, p)
               /\ Activation(r, b, p) = Activation(r, c, p) <=> Weight(b, p) = Weight(c, p)
    <3>1. /\ Activation(r, b, p) > Activation(r, c, p) <=> Weight(b, p) > Weight(c, p)
          /\ Activation(r, b, p) = Activation(r, c, p) <=> Weight(b, p) = Weight(c, p)
      BY <2>1
    <3> QED
      BY <3>1 DEF Before, Precedes
  <2>3. ASSUME NEW b \in Owned(r) PROVE Owns(r, b, p) <=> Declares(r, b, p)
    <3>1. /\ Activation(r, b, p) > 0 <=> Weight(b, p) >= Minimum[b]
          /\ Eligible(b, p) <=> Weight(b, p) >= Minimum[b]
      BY <1>3, <2>1
    <3> QED
      BY <1>2, <2>2, <3>1 DEF Owns, Declares, Tied
  <2>4. ASSUME NEW b \in Owned(r), NEW c \in Owned(r), Declares(r, b, p), Declares(r, c, p) PROVE b = c
    BY <1>5, <2>3, <2>4, OneOwner
  <2> QED
    BY <2>3, <2>4 DEF Selected, Declared
<1>7. ASSUME Declared(r, p) # None, Hard[Declared(r, p)][p] PROVE Selected(r, p) = Declared(r, p)
  <2> DEFINE b == Declared(r, p)
  <2>1. b \in Owned(r) /\ Declares(r, b, p) /\ Hard[b][p]
    BY <1>7 DEF Declared
  <2> HIDE DEF b
  <2>2. Weight(b, p) = 100 /\ Minimum[b] <= 100 /\ Activation(r, b, p) = 10000
    BY <1>1, <1>4, <2>1 DEF Declares
  <2>3. ASSUME NEW c \in Owned(r) \ {b}
        PROVE  /\ Before(r, b, c, p)
               /\ TiesAbstain[r] => ~(Activation(r, b, p) = Activation(r, c, p) /\ Priority[b] = Priority[c])
    <3>1. CASE Activation(r, c, p) = 0
      BY <2>2, <3>1 DEF Before
    <3>2. CASE Hard[c][p] /\ Activation(r, c, p) = 10000
      <4>1. Weight(c, p) = 100 /\ Precedes(r, b, c, p) /\ ~(TiesAbstain[r] /\ Tied(r, b, c, p))
        BY <1>4, <2>1, <3>2 DEF Declares
      <4> QED
        BY <2>2, <3>2, <4>1 DEF Before, Precedes, Tied
    <3> QED
      BY <1>4, <3>1, <3>2
  <2>4. Owns(r, b, p)
    BY <1>2, <1>3, <2>1, <2>2, <2>3 DEF Owns
  <2> QED
    BY <1>5, <2>1, <2>4, OneOwner DEF Selected, b
<1> QED
  BY <1>6, <1>7
====
