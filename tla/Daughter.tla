------------------------------ MODULE Daughter ------------------------------
(***************************************************************************)
(* The runtime of a generated daughter: an event is looked up in the       *)
(* ledger, planned by the routing tissue, executed action by action, and   *)
(* what failed is quarantined and its branch isolated (simulator.py,       *)
(* planner.py, tissue.py, ledger.py, the runtime of repair.py).  Several   *)
(* threads deliver and recover; the tissue and each ledger have a lock of  *)
(* their own, so every locked call is one step and a delivery is many.     *)
(*                                                                         *)
(* An event's features are a pattern; Alike is the weighted Jaccard        *)
(* measure in hundredths, scores are in ten-thousandths.  A route has a    *)
(* list of actions, all of which are executed for the branch that owns the *)
(* event, whatever became of those before; a target answers, or the call   *)
(* raises, with an error text or without.  The branches' counters that     *)
(* nothing reads and the simulator's replay() are left out.  The tissue    *)
(* and the ledgers are files: a crash loses the threads only.              *)
(*                                                                         *)
(* Bounds: the sets of Threads and Events, Limit.                          *)
(***************************************************************************)
EXTENDS Integers, Sequences, FiniteSets, TLC

CONSTANTS
  Threads, Events, Patterns, None,
  Branches,     \* the tissue's owners
  RouteCount,   \* the routes are numbered in the contract's order
  Owners,       \* the branches of each route, in the contract's order
  ActionCount,  \* the actions are numbered in the contract's order, route by route
  RouteOf,      \* the route of each action
  PatternOf,    \* of each event
  Alike,        \* similarity of two patterns, 0..100
  Hard,         \* the declared conditions of the branch hold for the pattern
  Minimum,      \* minimum_activation of each branch, in hundredths
  Priority,     \* of each branch
  TiesAbstain,  \* abstain_on_tie of each route
  Mappable,     \* the mappings of the action accept the pattern
  Certifies,    \* what they make of it passes the mandatory certifiers
  Silent,       \* the actions whose target may raise an error without a text
  TrainingSets, \* sequences of examples that may be posted: [branch, pattern, positive]
  Limit         \* bounds: request (deliver, recover), change (train, enable, crash)

Routes == 1..RouteCount
Actions == 1..ActionCount
Asks == {"request", "change"}

ASSUME DaughterAssumption ==
  /\ RouteCount \in Nat /\ ActionCount \in Nat /\ None \notin Branches /\ None \notin Events
  /\ Owners \in [Routes -> Seq(Branches)]
  /\ \A r, q \in Routes : \A i \in DOMAIN Owners[r], j \in DOMAIN Owners[q] :
       Owners[r][i] = Owners[q][j] => r = q /\ i = j
  /\ RouteOf \in [Actions -> Routes] /\ \A a, c \in Actions : a < c => RouteOf[a] <= RouteOf[c]
  /\ PatternOf \in [Events -> Patterns]
  /\ Hard \in [Branches -> [Patterns -> BOOLEAN]] /\ Priority \in [Branches -> Int]
  /\ Minimum \in [Branches -> Int] /\ Silent \subseteq Actions
  /\ \A set \in TrainingSets : \A i \in DOMAIN set : set[i].branch \in Branches
  /\ Limit \in [Asks -> Nat]

VARIABLES
  tissue,    \* each branch: disabled, specialists
  seen,      \* the event ledger's idempotency keys
  rows,      \* the repair ledger's quarantines
  thread,    \* what each thread is doing
  asked,     \* what was asked so far, of each kind
  calls,     \* calls of each action's target for each delivered event
  missed,    \* the deliveries in which a thread saw the branch fail since it was last enabled
  redone,    \* successful replays of each quarantine row
  worked,    \* the quarantine rows for whose replay some target answered
  overlapped,\* two recoveries have run at the same time
  crashed    \* the process has died

vars == <<tissue, seen, rows, thread, asked, calls, missed, redone, worked, overlapped, crashed>>
ghosts == <<calls, missed, redone, worked, overlapped, crashed>>

\* rest: the quarantine rows a recovery has yet to replay, row the one it replays (0: none);
\* left: the actions yet to execute; failed: those that failed or were blocked; drift: those
\* of them with an error text; dry: simulate.
Idle == [at |-> "idle", event |-> None, dry |-> FALSE, row |-> 0, rest |-> {},
         plan |-> [r \in Routes |-> None], active |-> [r \in Routes |-> {}],
         left |-> {}, failed |-> {}, drift |-> {}]

Unharmed == [t \in Threads |-> [b \in Branches |-> {}]]

Init ==
  /\ tissue = [b \in Branches |-> [disabled |-> FALSE, specialists |-> <<>>]]
  /\ seen = {} /\ rows = <<>>
  /\ thread = [t \in Threads |-> Idle]
  /\ asked = [k \in Asks |-> 0]
  /\ calls = [e \in Events |-> [a \in Actions |-> 0]]
  /\ missed = Unharmed /\ redone = <<>> /\ worked = {} /\ overlapped = FALSE /\ crashed = FALSE

Ask(k) == asked[k] < Limit[k] /\ asked' = [asked EXCEPT ![k] = @ + 1]
-----------------------------------------------------------------------------
\* DendritronTissueConfig
TopK == 2
MaxSpecialists == 2
SpawnBelow == 72
NoveltyThreshold == 4300
OwnershipMargin == 400

\* A specialist's similarity, tempered by its record of successes.
Score(s, p) == (Alike[s.prototype][p] * (8500 + (1500 * (s.ok + 1)) \div (s.ok + s.bad + 2))) \div 100

\* The places of a branch's specialists that k others do not outdo.
Leading(specialists, p, k) ==
  {n \in DOMAIN specialists :
     Cardinality({m \in DOMAIN specialists :
        \/ Score(specialists[m], p) > Score(specialists[n], p)
        \/ Score(specialists[m], p) = Score(specialists[n], p) /\ m < n}) < k}

Owned(r) == {Owners[r][i] : i \in DOMAIN Owners[r]}
Place(r, b) == CHOOSE i \in DOMAIN Owners[r] : Owners[r][i] = b
Trained(r) == \E b \in Owned(r) : tissue[b].specialists # <<>>

\* A branch weighs as much as the least of its conditions, 1 or 0, in hundredths.
Weight(b, p) == IF Hard[b][p] THEN 100 ELSE 0

\* (Mutant: an isolated branch stays in the running.)
IgnoreIsolation(b, p) == Weight(b, p) >= Minimum[b]
Eligible(b, p) == ~tissue[b].disabled /\ Weight(b, p) >= Minimum[b]

Learned(r, b, p) ==
  IF Eligible(b, p) /\ tissue[b].specialists # <<>>
  THEN Score(tissue[b].specialists[CHOOSE n \in Leading(tissue[b].specialists, p, 1) : TRUE], p)
  ELSE IF Trained(r) THEN 0 ELSE 10000

Activation(r, b, p) ==
  IF Eligible(b, p) THEN (Weight(b, p) * (4000 + (6 * Learned(r, b, p)) \div 10)) \div 100 ELSE 0

\* b comes before c: by activation, then priority, then the contract's order.
Before(r, b, c, p) ==
  \/ Activation(r, b, p) > Activation(r, c, p)
  \/ Activation(r, b, p) = Activation(r, c, p) /\ Priority[b] > Priority[c]
  \/ /\ Activation(r, b, p) = Activation(r, c, p) /\ Priority[b] = Priority[c]
     /\ Place(r, b) < Place(r, c)

\* b wins the route: the gate holds, the event is not novel to it, and the next one is
\* neither tied with it nor too close.
Owns(r, b, p) ==
  /\ \A c \in Owned(r) \ {b} : Before(r, b, c, p)
  /\ Eligible(b, p) /\ Activation(r, b, p) > 0
  /\ Trained(r) => Learned(r, b, p) >= NoveltyThreshold
  /\ \A c \in Owned(r) \ {b} :
       /\ TiesAbstain[r] => ~(Activation(r, b, p) = Activation(r, c, p) /\ Priority[b] = Priority[c])
       /\ Trained(r) => Activation(r, b, p) - Activation(r, c, p) >= OwnershipMargin

\* select: the owner of each route, None where it abstains.
Selected(r, p) == IF \E b \in Owned(r) : Owns(r, b, p)
                  THEN CHOOSE b \in Owned(r) : Owns(r, b, p) ELSE None

\* DendriticOwnedRouter.select, the router a planner has without a tissue: by the declared
\* conditions and priorities alone, the first of them against its own minimum.
Precedes(r, b, c, p) ==
  \/ Weight(b, p) > Weight(c, p)
  \/ Weight(b, p) = Weight(c, p) /\ Priority[b] > Priority[c]
  \/ Weight(b, p) = Weight(c, p) /\ Priority[b] = Priority[c] /\ Place(r, b) < Place(r, c)

Tied(r, b, c, p) == Weight(b, p) = Weight(c, p) /\ Priority[b] = Priority[c]

Declares(r, b, p) ==
  /\ Weight(b, p) >= Minimum[b]
  /\ \A c \in Owned(r) \ {b} : Precedes(r, b, c, p) /\ ~(TiesAbstain[r] /\ Tied(r, b, c, p))

Declared(r, p) == IF \E b \in Owned(r) : Declares(r, b, p)
                  THEN CHOOSE b \in Owned(r) : Declares(r, b, p) ELSE None
-----------------------------------------------------------------------------
\* Phase3Runtime.process calls IntegrationSimulator.process: the key is looked up first...
Deliver(t, e, dry) ==
  /\ thread[t].at = "idle" /\ Ask("request")
  /\ e \notin seen
  /\ thread' = [thread EXCEPT ![t] = [Idle EXCEPT !.at = "recording", !.event = e, !.dry = dry]]
  /\ UNCHANGED <<tissue, seen, rows, ghosts>>

\* ... and inserted in another locked call, where a key taken meanwhile raises.
\* (Mutant: the insertion replaces the row.)
InsertOrReplace(t) == TRUE
Inserted(t) == thread[t].event \notin seen

Record(t) ==
  /\ thread[t].at = "recording"
  /\ seen' = seen \cup {thread[t].event}
  /\ thread' = [thread EXCEPT ![t] = IF Inserted(t) THEN [@ EXCEPT !.at = "planning"] ELSE Idle]
  /\ UNCHANGED <<tissue, rows, asked, ghosts>>

\* plan: every action of each route that has an owner; a mapping that raises voids it all.
Plan(t) ==
  LET pattern == PatternOf[thread[t].event] IN
  /\ thread[t].at = "planning"
  /\ \E choice \in {[r \in Routes |-> Selected(r, pattern)]} :
       LET chosen == {a \in Actions : choice[RouteOf[a]] # None} IN
       IF \E a \in chosen : ~Mappable[a][pattern]
       THEN thread' = [thread EXCEPT ![t].at = "unplanned"]
       ELSE thread' = [thread EXCEPT ![t] = [@ EXCEPT
              !.at = "executing",
              !.plan = choice,
              !.active = [r \in Routes |-> IF choice[r] = None THEN {}
                                           ELSE Leading(tissue[choice[r]].specialists, pattern, TopK)],
              !.left = chosen]]
  /\ UNCHANGED <<tissue, seen, rows, asked, ghosts>>

\* The next action of the plan, and the branch it is planned for.
Current(t, a) == a \in thread[t].left /\ \A c \in thread[t].left : a <= c
Owner(t, a) == thread[t].plan[RouteOf[a]]
Certain(t, a) == Certifies[a][PatternOf[thread[t].event]]
Blame(t, a) == IF thread[t].row = 0 /\ ~thread[t].dry
               THEN [missed EXCEPT ![t][Owner(t, a)] = @ \cup {thread[t].event}] ELSE missed

\* A mandatory certification failed: the action is blocked, and its details are the error.
Block(t, a) ==
  /\ thread[t].at = "executing" /\ Current(t, a) /\ ~Certain(t, a)
  /\ thread' = [thread EXCEPT ![t].left = @ \ {a}, ![t].failed = @ \cup {a}, ![t].drift = @ \cup {a}]
  /\ missed' = Blame(t, a)
  /\ UNCHANGED <<tissue, seen, rows, asked, calls, redone, worked, overlapped, crashed>>

Simulate(t, a) ==
  /\ thread[t].at = "executing" /\ Current(t, a) /\ Certain(t, a) /\ thread[t].dry
  /\ thread' = [thread EXCEPT ![t].left = @ \ {a}]
  /\ UNCHANGED <<tissue, seen, rows, asked, ghosts>>

\* The target answers, or the call raises; detect() passes over an error without a text.
Execute(t, a) ==
  /\ thread[t].at = "executing" /\ Current(t, a) /\ Certain(t, a) /\ ~thread[t].dry
  /\ calls' = IF thread[t].row = 0 THEN [calls EXCEPT ![thread[t].event][a] = @ + 1] ELSE calls
  /\ \/ /\ thread' = [thread EXCEPT ![t].at = "outcome"]
        /\ worked' = worked \cup ({thread[t].row} \ {0})
        /\ UNCHANGED missed
     \/ /\ thread' = [thread EXCEPT ![t].at = "outcome", ![t].failed = @ \cup {a}, ![t].drift = @ \cup {a}]
        /\ missed' = Blame(t, a)
        /\ UNCHANGED worked
     \/ /\ a \in Silent
        /\ thread' = [thread EXCEPT ![t].at = "outcome", ![t].failed = @ \cup {a}]
        /\ UNCHANGED <<missed, worked>>
  /\ UNCHANGED <<tissue, seen, rows, asked, redone, overlapped, crashed>>

\* record_outcome: the specialists that took part.
Credit(s, success) == IF success THEN [s EXCEPT !.ok = @ + 1] ELSE [s EXCEPT !.bad = @ + 1]

Outcome(t, a) ==
  /\ thread[t].at = "outcome" /\ Current(t, a)
  /\ tissue' = [tissue EXCEPT ![Owner(t, a)].specialists =
                  [n \in DOMAIN @ |-> IF n \in thread[t].active[RouteOf[a]]
                                      THEN Credit(@[n], a \notin thread[t].failed) ELSE @[n]]]
  /\ thread' = [thread EXCEPT ![t].at = "executing", ![t].left = @ \ {a}]
  /\ UNCHANGED <<seen, rows, asked, ghosts>>

\* A recovery replays the rows it has read in the order of the table.
Oldest(ids) == {q \in ids : \A other \in ids : q <= other}
Replay(q, rest) == [Idle EXCEPT !.at = "planning", !.event = rows[q].event, !.row = q, !.rest = rest \ {q}]
NextRow(t) == IF thread[t].rest = {} THEN {Idle} ELSE {Replay(q, thread[t].rest) : q \in Oldest(thread[t].rest)}

Planned(t) == \E a \in Actions : Owner(t, a) # None

\* The status of the result that is recorded.
Succeeded(t) == thread[t].failed = {} /\ Planned(t)

\* record_result; then the drifts of a delivery that was executed are dealt with.
Conclude(t) ==
  /\ thread[t].at = "executing" /\ thread[t].left = {}
  /\ IF thread[t].row # 0
     THEN IF Succeeded(t)
          THEN /\ thread' = [thread EXCEPT ![t].at = "marking"]
               /\ redone' = [redone EXCEPT ![thread[t].row] = @ + 1]
          ELSE /\ \E next \in NextRow(t) : thread' = [thread EXCEPT ![t] = next]
               /\ UNCHANGED redone
     ELSE /\ thread' = [thread EXCEPT ![t] =
                IF thread[t].drift = {} \/ thread[t].dry THEN Idle ELSE [@ EXCEPT !.at = "quarantining"]]
          /\ UNCHANGED redone
  /\ UNCHANGED <<tissue, seen, rows, asked, calls, missed, worked, overlapped, crashed>>

NewRow(t, owner) == Append(rows, [event |-> thread[t].event, owner |-> owner, status |-> "quarantined"])

\* The plan was voided: there is a drift, but no owner to isolate.
ConcludeUnplanned(t) ==
  /\ thread[t].at = "unplanned"
  /\ IF thread[t].row # 0
     THEN /\ \E next \in NextRow(t) : thread' = [thread EXCEPT ![t] = next]
          /\ UNCHANGED <<rows, redone>>
     ELSE /\ thread' = [thread EXCEPT ![t] = Idle]
          /\ IF thread[t].dry THEN UNCHANGED <<rows, redone>>
             ELSE rows' = NewRow(t, None) /\ redone' = Append(redone, 0)
  /\ UNCHANGED <<tissue, seen, asked, calls, missed, worked, overlapped, crashed>>

Drifted(t, a) == a \in thread[t].drift /\ \A c \in thread[t].drift : a <= c

Quarantine(t, a) ==
  /\ thread[t].at = "quarantining" /\ Drifted(t, a)
  /\ rows' = NewRow(t, Owner(t, a))
  /\ redone' = Append(redone, 0)
  /\ thread' = [thread EXCEPT ![t].at = "isolating"]
  /\ UNCHANGED <<tissue, seen, asked, calls, missed, worked, overlapped, crashed>>

Isolate(t, a) ==
  /\ thread[t].at = "isolating" /\ Drifted(t, a)
  /\ tissue' = [tissue EXCEPT ![Owner(t, a)].disabled = TRUE]
  /\ thread' = [thread EXCEPT ![t] = IF thread[t].drift = {a} THEN Idle
                                     ELSE [@ EXCEPT !.at = "quarantining", !.drift = thread[t].drift \ {a}]]
  /\ UNCHANGED <<seen, rows, asked, ghosts>>
-----------------------------------------------------------------------------
Pending == {q \in DOMAIN rows : rows[q].status = "quarantined"}
Recovering(t) == thread[t].row # 0

\* recover, of one owner's rows or of all; each is replayed whole, under a fresh key.
Recover(t, some) ==
  /\ thread[t].at = "idle" /\ Ask("request")
  /\ LET mine == {q \in Pending : some = None \/ rows[q].owner = some} IN
       /\ mine # {}
       /\ \E q \in Oldest(mine) : thread' = [thread EXCEPT ![t] = Replay(q, mine)]
  /\ overlapped' = (overlapped \/ \E u \in Threads : Recovering(u))
  /\ UNCHANGED <<tissue, seen, rows, calls, missed, redone, worked, crashed>>

\* mark_recovered.  (Mutant: only the result is stored.)
KeepStatus(t) == rows
Marked(t) == [rows EXCEPT ![thread[t].row].status = "recovered"]

Mark(t) ==
  /\ thread[t].at = "marking"
  /\ rows' = Marked(t)
  /\ \E next \in NextRow(t) : thread' = [thread EXCEPT ![t] = next]
  /\ UNCHANGED <<tissue, seen, asked, ghosts>>
-----------------------------------------------------------------------------
\* set_branch_enabled, once the branch is repaired.
Enable(b) ==
  /\ tissue[b].disabled /\ Ask("change")
  /\ tissue' = [tissue EXCEPT ![b].disabled = FALSE]
  /\ missed' = [t \in Threads |-> [missed[t] EXCEPT ![b] = {}]]
  /\ UNCHANGED <<seen, rows, thread, calls, redone, worked, overlapped, crashed>>

\* The specialist the event is most like; the first of equals.
Nearest(specialists, p) ==
  {n \in DOMAIN specialists : \A m \in DOMAIN specialists :
     \/ Alike[specialists[n].prototype][p] > Alike[specialists[m].prototype][p]
     \/ Alike[specialists[n].prototype][p] = Alike[specialists[m].prototype][p] /\ n <= m}

Spawns(specialists, p) ==
  \/ specialists = <<>>
  \/ /\ Len(specialists) < MaxSpecialists
     /\ \A n \in Nearest(specialists, p) : Alike[specialists[n].prototype][p] < SpawnBelow

\* The prototype moves toward the event, or away from it: it may come to count as the
\* event's own pattern, or as none.
Moved(specialists, p, to) ==
  {[specialists EXCEPT ![n].prototype = to] : n \in Nearest(specialists, p)} \cup {specialists}

Trainings(specialists, p, positive) ==
  IF positive /\ Spawns(specialists, p)
  THEN {Append(specialists, [prototype |-> p, ok |-> 0, bad |-> 0])}
  ELSE IF specialists = <<>> THEN {}
  ELSE Moved(specialists, p, IF positive THEN p ELSE None)

\* _learn_unlocked: what an example makes of the specialists; it raises for a branch that
\* is disabled, and where there is nothing to move away.
Taught(x, known) ==
  IF tissue[x.branch].disabled THEN {}
  ELSE {[known EXCEPT ![x.branch] = s] : s \in Trainings(known[x.branch], x.pattern, x.positive)}

Example(x, so) ==
  IF so.raised THEN {so}
  ELSE IF Taught(x, so.known) = {} THEN {[so EXCEPT !.raised = TRUE]}
  ELSE {[so EXCEPT !.known = known] : known \in Taught(x, so.known)}

Examples(set) ==
  LET after[n \in 0..Len(set)] ==
        IF n = 0 THEN {[known |-> [b \in Branches |-> tissue[b].specialists], raised |-> FALSE]}
        ELSE UNION {Example(set[n], so) : so \in after[n - 1]}
  IN after[Len(set)]

\* train: the examples in turn, under one lock; one that raises ends it, and those before
\* it stay learned.
Train(set) ==
  /\ Ask("change")
  /\ \E so \in Examples(set) :
       tissue' = [b \in Branches |-> [tissue[b] EXCEPT !.specialists = so.known[b]]]
  /\ UNCHANGED <<seen, rows, thread, ghosts>>

\* The process dies; what it was doing is not taken up again.
Crash ==
  /\ Ask("change")
  /\ thread' = [t \in Threads |-> Idle]
  /\ missed' = Unharmed /\ crashed' = TRUE
  /\ UNCHANGED <<tissue, seen, rows, calls, redone, worked, overlapped>>

Next ==
  \/ \E t \in Threads :
       \/ \E e \in Events, dry \in BOOLEAN : Deliver(t, e, dry)
       \/ \E some \in Branches \cup {None} : Recover(t, some)
       \/ Record(t) \/ Plan(t) \/ Conclude(t) \/ ConcludeUnplanned(t) \/ Mark(t)
       \/ \E a \in Actions : \/ Block(t, a) \/ Simulate(t, a) \/ Execute(t, a) \/ Outcome(t, a)
                             \/ Quarantine(t, a) \/ Isolate(t, a)
  \/ \E b \in Branches : Enable(b)
  \/ \E set \in TrainingSets : Train(set)
  \/ Crash

Spec == Init /\ [][Next]_vars
-----------------------------------------------------------------------------
\* However two deliveries of one event interleave between the look-up of its key and the
\* insertion, and whatever crashes, no target is called twice for it (recoveries apart,
\* which replay it under keys of their own).
ExecutedOnce == \A e \in Events, a \in Actions : calls[e][a] <= 1

\* The blast radius of a broken branch: the failures with an error text a thread sees on it
\* are all of one delivery, which may fail in several of its actions, until somebody enables
\* it again or the process restarts; although plans made before the isolation are still
\* executed after it and the isolation comes after the whole delivery and its quarantine.
IsolationHolds == \A t \in Threads, b \in Branches : \A e, f \in missed[t][b] : e = f

\* Unless recoveries overlap or the process dies between a replay and its mark, a
\* quarantine row is replayed with success at most once; and no row is marked recovered by
\* replays in which nothing was planned and no target was asked anything.
RecoveredOnce ==
  /\ ~overlapped /\ ~crashed => \A q \in DOMAIN rows : redone[q] <= 1
  /\ \A q \in DOMAIN rows : rows[q].status = "recovered" => q \in worked
=============================================================================
