-------------------------- MODULE LiteRunner_proofs ---------------------------
(***************************************************************************)
(* What holds of the runner of Foundry Lite and its clients for any number *)
(* of connections, records, events, client threads and restarts: an event  *)
(* reaches its targets at most once, switching a connection off lets at    *)
(* most one delivery still go out, and no change a poll has recorded is    *)
(* without its event.                                                      *)
(*                                                                         *)
(* The first rests on what ties the queue to the runner: an event that was *)
(* not claimed yet was not delivered, and the event in the runner's hands  *)
(* is no longer queued.  The second rests on the only place where a switch *)
(* that was seen is used later, between Start and Deliver.  The third      *)
(* rests on the order of a poll: the only record whose fingerprint may be  *)
(* ahead of the events is the one the runner is about to queue.            *)
(***************************************************************************)
EXTENDS LiteRunner, WellFoundedInduction, TLAPS

Statuses == {"unborn", "ready", "questions", "on", "paused", "deleted"}

ConnRow == [status : Statuses, enabled : BOOLEAN, open : BOOLEAN]

ClientState == [do : Calls \cup {"none", "learn", "chat"}, conn : Conns \cup {0},
                open : BOOLEAN, sys : Systems \cup {None}]

Event == [id : Nat, conn : Conns \cup {0}, status : {"queued", "running", "failed", "succeeded"}]

Labels == {"wait", "pass", "drain", "fetched", "records", "check", "insert", "claimed",
           "executing", "refused", "ran"}

\* A runner that has fetched records has a connection they are of.
RunnerState == {r \in [pc : Labels, todo : SUBSET Conns, conn : Conns \cup {0},
                       batch : [Keys -> Nat], left : SUBSET Keys, polled : BOOLEAN,
                       key : Keys \cup {None}, event : Nat] :
                  r.pc = "fetched" => r.conn \in Conns}

\* The types the arguments below need; what only the polls read is left out.
Typed ==
  /\ conn \in [Conns -> ConnRow]
  /\ source \in [Conns -> [Keys -> Nat]]
  /\ polled \in [Conns -> BOOLEAN]
  /\ events \subseteq Event
  /\ made \in Nat
  /\ client \in [Clients -> ClientState]
  /\ runner \in RunnerState
  /\ runs \in [1..MaxEvents -> Nat]
  /\ overrun \in [Conns -> Nat]

LEMMA WaitingType == Waiting \in RunnerState
  BY DEF Waiting, RunnerState, Labels

LEMMA TypedInit == Init => Typed
<1> SUFFICES ASSUME Init PROVE Typed
  OBVIOUS
<1>1. conn \in [Conns -> ConnRow]
  BY DEF Init, Unborn, ConnRow, Statuses
<1>2. client \in [Clients -> ClientState]
  BY DEF Init, Idle, ClientState
<1>3. runner \in RunnerState
  BY WaitingType DEF Init
<1>4. source \in [Conns -> [Keys -> Nat]]
  <2>1. source \in [Conns -> [Keys -> 0..1]] /\ 0..1 \subseteq Nat
    BY DEF Init
  <2>2. \A c \in Conns : source[c] \in [Keys -> Nat]
    BY <2>1
  <2>3. QED
    BY <2>1, <2>2
<1>5. QED
  BY <1>1, <1>2, <1>3, <1>4 DEF Init, Typed

LEMMA InsertedType ==
  ASSUME Typed, NEW c \in Conns \cup {0}, Inserted(c)
  PROVE  made' \in Nat /\ events' \subseteq Event
BY DEF Typed, Inserted, Event

LEMMA SetStatusType ==
  ASSUME Typed, NEW n, NEW s \in {"queued", "running", "failed", "succeeded"}, SetStatus(n, s)
  PROVE  events' \subseteq Event
BY DEF Typed, SetStatus, Event

LEMMA SwitchedType ==
  ASSUME Typed, NEW d, NEW on \in BOOLEAN, NEW st \in Statuses
  PROVE  [conn EXCEPT ![d].enabled = on, ![d].status = st] \in [Conns -> ConnRow]
BY DEF Typed, ConnRow

LEMMA AnsweredType ==
  ASSUME Typed, NEW d, NEW st \in Statuses, NEW open \in BOOLEAN
  PROVE  [conn EXCEPT ![d].status = st, ![d].open = open] \in [Conns -> ConnRow]
BY DEF Typed, ConnRow

\* A client's step leaves the runner and the deliveries alone.
LEMMA TypedClient ==
  ASSUME Typed, NEW x \in Clients, ClientStep(x)
  PROVE  Typed'
<1> USE DEF Typed
<1>0. Idle \in ClientState
  BY DEF Idle, ClientState
<1>1. ASSUME NEW s \in Systems, AddSystem(x, s) PROVE Typed'
  <2>1. client' \in [Clients -> ClientState]
    BY <1>1, <1>0 DEF AddSystem, ClientState, Idle
  <2>2. QED
    BY <1>1, <2>1 DEF AddSystem, auxVars
<1>2. CASE Learn(x)
  BY <1>2, <1>0 DEF Learn, Finish, auxVars
<1>3. ASSUME NEW c, Composed(c) PROVE conn' \in [Conns -> ConnRow]
  <2>1. PICK open \in BOOLEAN :
          conn' = [conn EXCEPT ![c] = [status |-> AnswerStatus(open), enabled |-> FALSE, open |-> open]]
    BY <1>3 DEF Composed
  <2>2. [status |-> AnswerStatus(open), enabled |-> FALSE, open |-> open] \in ConnRow
    BY DEF ConnRow, Statuses, AnswerStatus
  <2>3. QED
    BY <2>1, <2>2
<1>4. ASSUME NEW c \in Conns, Compose(x, c) PROVE Typed'
  BY <1>4, <1>3 DEF Compose, auxVars
<1>5. ASSUME NEW c \in Conns, Chat(x, c) PROVE Typed'
  <2>1. client' \in [Clients -> ClientState]
    BY <1>5 DEF Chat, ClientState, Idle
  <2>2. QED
    BY <1>5, <2>1 DEF Chat, auxVars, tableVars
<1>6. CASE Reply(x)
  <2>1. conn' \in [Conns -> ConnRow]
    BY <1>6, <1>3 DEF Reply
  <2>2. QED
    BY <1>6, <1>0, <2>1 DEF Reply, Finish, auxVars
<1>7. ASSUME NEW do \in Calls, NEW c \in Conns, Call(x, do, c) PROVE Typed'
  <2>1. conn[c].open \in BOOLEAN
    BY DEF ConnRow
  <2>2. client' \in [Clients -> ClientState]
    BY <1>7, <1>0, <2>1 DEF Call, ClientState
  <2>3. QED
    BY <1>7, <2>2 DEF Call, auxVars, tableVars
<1>8. CASE SetEnabled(x)
  <2>1. conn' \in [Conns -> ConnRow]
    BY <1>8, SwitchedType DEF SetEnabled, Statuses
  <2>2. overrun' \in [Conns -> Nat]
    BY <1>8 DEF SetEnabled
  <2>3. QED
    BY <1>8, <1>0, <2>1, <2>2 DEF SetEnabled, Finish
<1>9. CASE Answer(x)
  <2>1. client[x].open \in BOOLEAN
    BY DEF ClientState
  <2>2. conn' \in [Conns -> ConnRow]
    <3> DEFINE c == client[x].conn
    <3>1. PICK open \in BOOLEAN :
            conn' \in {conn, IF Exists(c) THEN [conn EXCEPT ![c].status = AnswerStatus(open), ![c].open = open]
                              ELSE conn}
      BY <1>9, <2>1 DEF Answer
    <3>2. AnswerStatus(open) \in Statuses
      BY DEF AnswerStatus, Statuses
    <3>3. [conn EXCEPT ![c].status = AnswerStatus(open), ![c].open = open] \in [Conns -> ConnRow]
      BY <3>2, AnsweredType
    <3>4. QED
      BY <3>1, <3>3
  <2>3. QED
    BY <1>9, <1>0, <2>2 DEF Answer, Finish, auxVars
<1>10. CASE Delete(x)
  <2>1. conn' \in [Conns -> ConnRow]
    BY <1>10 DEF Delete, Gone, Unborn, ConnRow, Statuses
  <2>2. overrun' \in [Conns -> Nat]
    BY <1>10 DEF Delete
  <2>3. events' \subseteq Event /\ polled' \in [Conns -> BOOLEAN]
    BY <1>10 DEF Delete
  <2>4. QED
    BY <1>10, <1>0, <2>1, <2>2, <2>3 DEF Delete, Finish
<1>11. CASE Hook(x)
  <2>1. client[x].conn \in Conns \cup {0}
    BY DEF ClientState
  <2>2. made' \in Nat /\ events' \subseteq Event
    BY <1>11, <2>1, InsertedType DEF Hook
  <2>3. QED
    BY <1>11, <1>0, <2>2 DEF Hook, Finish, auxVars
<1>12. QED
  BY <1>1, <1>2, <1>4, <1>5, <1>6, <1>7, <1>8, <1>9, <1>10, <1>11 DEF ClientStep

LEMMA NextConnType ==
  ASSUME Typed, runner.todo # {}
  PROVE  NextConn \in Conns
<1>1. runner.todo \subseteq Nat /\ runner.todo \subseteq Conns
  BY LiteAssumption DEF Typed, RunnerState, Conns
<1>2. PICK c \in runner.todo : \A d \in runner.todo : <<d, c>> \notin OpToRel(<, Nat)
  BY <1>1, WFMin, NatLessThanWellFounded, Zenon
<1>3. \A d \in runner.todo : ~(d < c)
  BY <1>1, <1>2, Zenon DEF OpToRel
<1>4. \A d \in runner.todo : c <= d
  BY <1>1, <1>3
<1>5. QED
  BY <1>1, <1>4 DEF NextConn

\* A connection that is passed over leaves the list of the pass, and nothing else changes.
LEMMA Skipped ==
  ASSUME Typed, Skip
  PROVE  /\ runner' \in RunnerState
         /\ runner.pc = "pass" /\ runner'.pc = "pass" /\ runner'.event = runner.event
<1> DEFINE rest == runner.todo \ {NextConn}
<1>1. runner' = [runner EXCEPT !.todo = rest] /\ runner.pc = "pass"
  BY DEF Skip, RunnerAt
<1>2. rest \in SUBSET Conns
  BY DEF Typed, RunnerState
<1> HIDE DEF rest
<1>3. QED
  BY <1>1, <1>2 DEF Typed, RunnerState

LEMMA TypedRunner ==
  ASSUME Typed, RunnerStep
  PROVE  Typed'
<1> USE DEF Typed
<1>0. Waiting \in RunnerState
  BY WaitingType
<1>1. CASE StartPass
  <2>1. runner' \in RunnerState
    BY <1>1 DEF StartPass, RunnerState, Labels
  <2>2. QED
    BY <1>1, <2>1 DEF StartPass, tableVars, auxVars
<1>2. CASE StartDrain \/ Skip \/ ReadStatus
  <2>1. CASE StartDrain
    BY <2>1 DEF StartDrain, Go, RunnerState, Labels, tableVars, auxVars
  <2>2. CASE Skip
    BY <2>2, Skipped DEF Skip, tableVars, auxVars
  <2>3. CASE ReadStatus
    <3>1. runner' = [runner EXCEPT !.pc = "records", !.polled = polled[runner.conn]]
      BY <2>3 DEF ReadStatus
    <3>2. polled[runner.conn] \in BOOLEAN
      BY <2>3 DEF ReadStatus, RunnerAt, RunnerState
    <3>3. runner' \in RunnerState
      BY <3>1, <3>2 DEF RunnerState, Labels
    <3>4. QED
      BY <2>3, <3>3 DEF ReadStatus, tableVars, auxVars
  <2>4. QED
    BY <1>2, <2>1, <2>2, <2>3
<1>3. CASE Fetch
  <2>1. NextConn \in Conns
    BY <1>3, NextConnType DEF Fetch
  <2>2. source[NextConn] \in [Keys -> Nat]
    BY <2>1
  <2>3. runner' \in RunnerState
    BY <1>3, <2>1, <2>2 DEF Fetch, RunnerState, Labels
  <2>4. QED
    BY <1>3, <2>3 DEF Fetch, tableVars, auxVars
<1>4. CASE FetchError
  <2>1. runner' \in RunnerState
    BY <1>4, <1>0 DEF FetchError, AfterPollError, RunnerState, Labels
  <2>2. QED
    BY <1>4, <2>1 DEF FetchError, tableVars, auxVars
<1>5. ASSUME NEW k \in Keys, Record(k) PROVE Typed'
  <2>1. runner' \in RunnerState
    BY <1>5 DEF Record, RunnerState, Labels
  <2>2. QED
    BY <1>5, <2>1 DEF Record
<1>6. CASE Check
  <2>1. runner' \in RunnerState
    <3>1. Go("insert") \/ runner' = [Waiting EXCEPT !.pc = "drain"]
      BY <1>6 DEF Check, AfterPollError
    <3>2. QED
      BY <1>0, <3>1 DEF Go, RunnerState, Labels
  <2>2. QED
    BY <1>6, <2>1 DEF Check, tableVars
<1>7. CASE Insert
  <2>1. runner.conn \in Conns \cup {0}
    BY DEF RunnerState
  <2>2. made' \in Nat /\ events' \subseteq Event
    BY <1>7, <2>1, InsertedType DEF Insert
  <2>3. runner' \in RunnerState
    BY <1>7 DEF Insert, RunnerState, Labels
  <2>4. QED
    BY <1>7, <2>2, <2>3 DEF Insert
<1>8. CASE MarkPolled
  <2>1. runner' \in RunnerState
    BY <1>8, <1>0 DEF MarkPolled, RunnerState, Labels
  <2>2. polled' \in [Conns -> BOOLEAN]
    BY <1>8 DEF MarkPolled
  <2>3. QED
    BY <1>8, <2>1, <2>2 DEF MarkPolled, auxVars
<1>9. CASE Claim
  <2>1. PICK e \in Claimable : /\ SetStatus(e.id, "running")
                               /\ runner' = [Waiting EXCEPT !.pc = "claimed", !.conn = e.conn, !.event = e.id]
    BY <1>9 DEF Claim
  <2>2. e.conn \in Conns \cup {0} /\ e.id \in Nat
    BY DEF Claimable, Event
  <2>3. runner' \in RunnerState
    BY <2>1, <2>2, <1>0 DEF RunnerState, Labels
  <2>4. events' \subseteq Event
    BY <2>1, SetStatusType
  <2>5. QED
    BY <1>9, <2>3, <2>4 DEF Claim, auxVars
<1>10. CASE Drained
  BY <1>10, <1>0 DEF Drained, tableVars, auxVars
<1>11. CASE Start
  <2>1. runner' \in RunnerState
    BY <1>11 DEF Start, Go, RunnerState, Labels
  <2>2. QED
    BY <1>11, <2>1 DEF Start, tableVars, auxVars
<1>12. CASE Deliver
  <2>1. runner' \in RunnerState
    BY <1>12 DEF Deliver, Go, RunnerState, Labels
  <2>2. runs' \in [1..MaxEvents -> Nat] /\ overrun' \in [Conns -> Nat]
    <3>1. \/ UNCHANGED <<runs, overrun>>
          \/ /\ runs' = [runs EXCEPT ![runner.event] = @ + 1]
             /\ overrun' = [overrun EXCEPT ![runner.conn] = IF Enabled(runner.conn) THEN 0 ELSE @ + 1]
      BY <1>12 DEF Deliver
    <3>2. QED
      BY <3>1
  <2>3. QED
    BY <1>12, <2>1, <2>2 DEF Deliver, tableVars
<1>13. CASE Settle
  <2>1. runner' \in RunnerState
    BY <1>13, <1>0 DEF Settle, RunnerState, Labels
  <2>2. events' \subseteq Event
    BY <1>13, SetStatusType DEF Settle
  <2>3. QED
    BY <1>13, <2>1, <2>2 DEF Settle, auxVars
<1>14. QED
  BY <1>1, <1>2, <1>3, <1>4, <1>5, <1>6, <1>7, <1>8, <1>9, <1>10, <1>11, <1>12, <1>13 DEF RunnerStep

\* The types hold of the loop, its clients and the database, whoever moves and whenever the
\* process ends and is started again.
THEOREM TypedAlways == Spec => []Typed
<1>1. ASSUME Typed, [Next]_vars PROVE Typed'
  <2>1. ASSUME NEW x \in Clients, ClientStep(x) PROVE Typed'
    BY <1>1, <2>1, TypedClient
  <2>2. ASSUME NEW c \in Conns, NEW k \in Keys, SourceChanges(c, k) PROVE Typed'
    <3>1. source' \in [Conns -> [Keys -> Nat]]
      BY <1>1, <2>2 DEF SourceChanges, Typed
    <3>2. QED
      BY <1>1, <2>2, <3>1 DEF SourceChanges, Typed, tableVars, auxVars
  <2>3. CASE RunnerStep
    BY <1>1, <2>3, TypedRunner
  <2>4. CASE Crash
    <3>1. client' \in [Clients -> ClientState] /\ runner' \in RunnerState
      BY <2>4, WaitingType DEF Crash, Rebuilt, Idle, ClientState
    <3>2. QED
      BY <1>1, <2>4, <3>1 DEF Crash, Typed, tableVars
  <2>5. CASE UNCHANGED vars
    BY <1>1, <2>5 DEF Typed, vars, auxVars
  <2>6. QED
    BY <1>1, <2>1, <2>2, <2>3, <2>4, <2>5 DEF Next
<1>2. QED
  BY <1>1, TypedInit, PTL DEF Spec
-----------------------------------------------------------------------------
(* An event reaches its targets at most once *)

InHand == runner.pc \in {"claimed", "executing"}

\* Events are numbered as they are made, and no number is used twice.
Numbered == /\ \A e \in events : e.id <= made
            /\ \A e, f \in events : e.id = f.id => e = f
            /\ runner.event <= made

\* An event not yet made, or waiting in the queue, was not delivered; neither was the one
\* the runner is about to deliver, and that one waits no more.
OnceInv ==
  /\ Numbered
  /\ \A n \in 1..MaxEvents :
       /\ runs[n] <= 1
       /\ n > made => runs[n] = 0
       /\ \A e \in events : e.id = n /\ e.status = "queued" => runs[n] = 0
       /\ InHand /\ runner.event = n =>
            runs[n] = 0 /\ \A e \in events : e.id = n => e.status # "queued"

\* A step that makes nothing, delivers nothing and queues nothing again keeps it, when the
\* runner has taken nothing new into its hands.
LEMMA OnceKept ==
  ASSUME Typed, Typed', OnceInv, runs' = runs, made' = made, events' \subseteq events,
         \/ runner' = runner
         \/ runner'.event = runner.event /\ (InHand' => InHand)
         \/ runner'.event = 0 /\ ~InHand'
  PROVE  OnceInv'
<1>1. Numbered'
  BY DEF OnceInv, Numbered, Typed
<1>2. InHand' => InHand /\ runner'.event = runner.event
  BY DEF InHand
<1>3. QED
  BY <1>1, <1>2 DEF OnceInv

LEMMA OnceInserted ==
  ASSUME Typed, Typed', OnceInv, NEW c, Inserted(c), runs' = runs,
         runner'.event = runner.event, InHand' => InHand
  PROVE  OnceInv'
<1>1. /\ made \in Nat /\ made' = made + 1
      /\ \A e \in events' : e \in events \/ (e.id = made + 1 /\ e = [id |-> made + 1, conn |-> c, status |-> "queued"])
      /\ \A e \in events : e.id \in Nat
  BY DEF Typed, Inserted, Event
<1>2. runner.event \in Nat /\ runs \in [1..MaxEvents -> Nat]
  BY DEF Typed, RunnerState
<1>3. Numbered'
  BY <1>1, <1>2 DEF OnceInv, Numbered
<1>4. ASSUME NEW n \in 1..MaxEvents
      PROVE  /\ runs'[n] <= 1
             /\ n > made' => runs'[n] = 0
             /\ \A e \in events' : e.id = n /\ e.status = "queued" => runs'[n] = 0
             /\ InHand' /\ runner'.event = n =>
                  runs'[n] = 0 /\ \A e \in events' : e.id = n => e.status # "queued"
  BY <1>1, <1>2 DEF OnceInv, Numbered
<1>5. QED
  BY <1>3, <1>4 DEF OnceInv

\* Writing a status other than "queued" on one event.
LEMMA Stamped ==
  ASSUME Typed, Numbered, NEW n, NEW s \in {"running", "failed", "succeeded"}, SetStatus(n, s)
  PROVE  /\ \A e \in events' : \E f \in events : /\ e.id = f.id
                                                 /\ e.status = "queued" => f.status = "queued" /\ f.id # n
         /\ \A e, f \in events' : e.id = f.id => e = f
<1> DEFINE Stamp(e) == IF e.id = n THEN [e EXCEPT !.status = s] ELSE e
<1>1. \A e \in events : /\ Stamp(e).id = e.id
                        /\ Stamp(e).status = "queued" => e.status = "queued" /\ e.id # n
  BY DEF Typed, Event
<1>2. \A e \in events' : \E f \in events : e = Stamp(f)
  BY DEF SetStatus
<1>3. \A e, f \in events : e.id = f.id => e = f
  BY DEF Numbered
<1> HIDE DEF Stamp
<1>4. \A e \in events' : \E f \in events : /\ e.id = f.id
                                           /\ e.status = "queued" => f.status = "queued" /\ f.id # n
  BY <1>1, <1>2
<1>5. \A e, f \in events' : e.id = f.id => e = f
  BY <1>1, <1>2, <1>3
<1>6. QED
  BY <1>4, <1>5

LEMMA OnceStamped ==
  ASSUME Typed, Typed', OnceInv, NEW n, NEW s \in {"running", "failed", "succeeded"}, SetStatus(n, s),
         runs' = runs, made' = made,
         \/ runner'.event = 0 /\ ~InHand'
         \/ runner'.event = n /\ n <= made /\ \E e \in events : e.id = n /\ e.status = "queued"
  PROVE  OnceInv'
<1>1. Numbered
  BY DEF OnceInv
<1>2. /\ \A e \in events' : \E f \in events : /\ e.id = f.id
                                              /\ e.status = "queued" => f.status = "queued" /\ f.id # n
      /\ \A e, f \in events' : e.id = f.id => e = f
  BY <1>1, Stamped
<1>3. made \in Nat
  BY DEF Typed
<1>4. Numbered'
  BY <1>1, <1>2, <1>3 DEF Numbered
<1>5. ASSUME NEW m \in 1..MaxEvents
      PROVE  /\ runs[m] <= 1
             /\ m > made => runs[m] = 0
             /\ \A e \in events' : e.id = m /\ e.status = "queued" => runs[m] = 0
             /\ InHand' /\ runner'.event = m =>
                  runs[m] = 0 /\ \A e \in events' : e.id = m => e.status # "queued"
  BY <1>2, <1>3 DEF OnceInv
<1>6. QED
  BY <1>4, <1>5 DEF OnceInv

LEMMA OnceClient ==
  ASSUME Typed, Typed', OnceInv, NEW x \in Clients, ClientStep(x)
  PROVE  OnceInv'
<1>1. CASE Hook(x)
  <2>1. runs' = runs /\ runner' = runner /\ Inserted(client[x].conn)
    BY <1>1 DEF Hook, auxVars
  <2>2. InHand' => InHand
    BY <2>1 DEF InHand
  <2>3. QED
    BY <2>1, <2>2, OnceInserted
<1>2. CASE ~Hook(x)
  <2>1. runner' = runner /\ runs' = runs /\ made' = made
    BY <1>2 DEF ClientStep, AddSystem, Learn, Compose, Chat, Reply, Call, SetEnabled, Answer, Delete,
                tableVars, auxVars
  <2>2. events' \subseteq events
    BY <1>2 DEF ClientStep, AddSystem, Learn, Compose, Chat, Reply, Call, SetEnabled, Answer, Delete,
                tableVars, auxVars
  <2>3. QED
    BY <2>1, <2>2, OnceKept
<1>3. QED
  BY <1>1, <1>2

LEMMA OnceRunner ==
  ASSUME Typed, Typed', OnceInv, RunnerStep
  PROVE  OnceInv'
<1>0. runner \in RunnerState
  BY DEF Typed
<1>1. CASE \/ StartPass \/ StartDrain \/ Skip \/ Fetch \/ ReadStatus \/ FetchError
           \/ Check \/ MarkPolled \/ Drained \/ (\E k \in Keys : Record(k))
  <2>1. runs' = runs /\ made' = made /\ events' = events
    BY <1>1 DEF StartPass, StartDrain, Skip, Fetch, ReadStatus, FetchError, Check, MarkPolled, Drained, Record,
                tableVars, auxVars
  <2>2. CASE StartPass \/ StartDrain \/ Skip \/ Fetch \/ ReadStatus \/ (\E k \in Keys : Record(k))
    <3>1. runner'.event = runner.event /\ ~InHand'
      <4>1. CASE Skip
        BY <4>1, Skipped DEF InHand
      <4>2. CASE StartPass \/ StartDrain \/ Fetch \/ ReadStatus \/ (\E k \in Keys : Record(k))
        BY <1>0, <4>2 DEF StartPass, StartDrain, Fetch, ReadStatus, Record, Go, RunnerState, InHand
      <4>3. QED
        BY <2>2, <4>1, <4>2
    <3>2. QED
      BY <2>1, <3>1, OnceKept
  <2>3. CASE FetchError \/ Check \/ MarkPolled \/ Drained
    <3>1. ~InHand' /\ (runner'.event = runner.event \/ runner'.event = 0)
      <4>1. \/ Go("insert") \/ runner' = Waiting
            \/ \E todo : runner' = [Waiting EXCEPT !.pc = "pass", !.todo = todo]
            \/ runner' = [Waiting EXCEPT !.pc = "drain"]
        BY <2>3 DEF FetchError, Check, MarkPolled, Drained, AfterPollError
      <4>2. CASE Go("insert")
        BY <1>0, <4>2 DEF Go, RunnerState, InHand
      <4>3. CASE runner' = Waiting
        BY <4>3 DEF Waiting, InHand
      <4>4. ASSUME NEW todo, runner' = [Waiting EXCEPT !.pc = "pass", !.todo = todo]
            PROVE  ~InHand' /\ runner'.event = 0
        BY <4>4 DEF Waiting, InHand
      <4>5. CASE runner' = [Waiting EXCEPT !.pc = "drain"]
        BY <4>5 DEF Waiting, InHand
      <4>6. QED
        BY <4>1, <4>2, <4>3, <4>4, <4>5
    <3>2. QED
      BY <2>1, <3>1, OnceKept
  <2>4. QED
    BY <1>1, <2>2, <2>3
<1>2. CASE Insert
  <2>1. Inserted(runner.conn) /\ runs' = runs
    BY <1>2 DEF Insert
  <2>2. runner'.event = runner.event /\ ~InHand'
    BY <1>0, <1>2 DEF Insert, InHand, RunnerState
  <2>3. QED
    BY <2>1, <2>2, OnceInserted
<1>3. CASE Claim
  <2>1. PICK e \in Claimable : /\ SetStatus(e.id, "running")
                               /\ runner' = [Waiting EXCEPT !.pc = "claimed", !.conn = e.conn, !.event = e.id]
    BY <1>3 DEF Claim
  <2>2. runs' = runs /\ made' = made
    BY <1>3 DEF Claim, auxVars
  <2>3. runner'.event = e.id
    BY <2>1 DEF Waiting
  <2>4. e \in events /\ e.status = "queued" /\ e.id <= made
    BY DEF Claimable, OnceInv, Numbered
  <2>5. QED
    BY <2>1, <2>2, <2>3, <2>4, OnceStamped
<1>4. CASE Start
  <2>1. runs' = runs /\ made' = made /\ events' = events
    BY <1>4 DEF Start, tableVars, auxVars
  <2>2. runner'.event = runner.event /\ InHand
    BY <1>0, <1>4 DEF Start, Go, RunnerAt, RunnerState, InHand
  <2>3. QED
    BY <2>1, <2>2, OnceKept
<1>5. CASE Deliver
  <2>1. made' = made /\ events' = events /\ InHand
    BY <1>5 DEF Deliver, tableVars, RunnerAt, InHand
  <2>2. runner'.event = runner.event /\ ~InHand'
    BY <1>0, <1>5 DEF Deliver, Go, RunnerState, InHand
  <2>3. runs' = runs \/ runs' = [runs EXCEPT ![runner.event] = @ + 1]
    BY <1>5 DEF Deliver
  <2>4. runs \in [1..MaxEvents -> Nat] /\ runner.event \in Nat /\ made \in Nat
    BY DEF Typed, RunnerState
  <2>5. Numbered'
    BY <2>1, <2>2 DEF OnceInv, Numbered
  <2>6. ASSUME NEW n \in 1..MaxEvents
        PROVE  /\ runs'[n] <= 1
               /\ n > made => runs'[n] = 0
               /\ \A e \in events : e.id = n /\ e.status = "queued" => runs'[n] = 0
    <3>1. CASE n = runner.event
      <4>1. runs[n] = 0 /\ n <= made /\ \A e \in events : e.id = n => e.status # "queued"
        BY <2>1, <3>1 DEF OnceInv, Numbered
      <4>2. runs'[n] = runs[n] \/ runs'[n] = runs[n] + 1
        BY <2>3, <2>4, <3>1, Zenon
      <4>3. QED
        BY <2>4, <4>1, <4>2
    <3>2. CASE n # runner.event
      <4>1. runs'[n] = runs[n]
        BY <2>3, <2>4, <3>2
      <4>2. QED
        BY <4>1 DEF OnceInv
    <3>3. QED
      BY <3>1, <3>2
  <2>7. QED
    BY <2>1, <2>2, <2>5, <2>6 DEF OnceInv
<1>6. CASE Settle
  <2>1. PICK s \in {"failed", "succeeded"} : SetStatus(runner.event, s)
    BY <1>6 DEF Settle
  <2>2. runs' = runs /\ made' = made
    BY <1>6 DEF Settle, auxVars
  <2>3. runner'.event = 0 /\ ~InHand'
    BY <1>6 DEF Settle, Waiting, InHand
  <2>4. QED
    BY <2>1, <2>2, <2>3, OnceStamped
<1>7. QED
  BY <1>1, <1>2, <1>3, <1>4, <1>5, <1>6 DEF RunnerStep

\* Whatever the clients do and however often the process ends in the middle and is started
\* again, no event reaches its targets twice.
THEOREM DeliveredAtMostOnceAlways == Spec => []DeliveredAtMostOnce
<1>1. Init => OnceInv
  BY DEF Init, OnceInv, Numbered, InHand, Waiting
<1>2. ASSUME Typed, Typed', OnceInv, [Next]_vars PROVE OnceInv'
  <2>1. ASSUME NEW x \in Clients, ClientStep(x) PROVE OnceInv'
    BY <1>2, <2>1, OnceClient
  <2>2. ASSUME NEW c \in Conns, NEW k \in Keys, SourceChanges(c, k) PROVE OnceInv'
    <3>1. runs' = runs /\ made' = made /\ events' = events /\ runner' = runner
      BY <2>2 DEF SourceChanges, tableVars, auxVars
    <3>2. QED
      BY <1>2, <3>1, OnceKept
  <2>3. CASE RunnerStep
    BY <1>2, <2>3, OnceRunner
  <2>4. CASE Crash
    <3>1. runs' = runs /\ made' = made /\ events' = events /\ runner' = Waiting
      BY <2>4 DEF Crash, Rebuilt, tableVars
    <3>2. runner'.event = 0 /\ ~InHand'
      BY <3>1 DEF Waiting, InHand
    <3>3. QED
      BY <1>2, <3>1, <3>2, OnceKept
  <2>5. CASE UNCHANGED vars
    <3>1. runs' = runs /\ made' = made /\ events' = events /\ runner' = runner
      BY <2>5 DEF vars, auxVars
    <3>2. QED
      BY <1>2, <3>1, OnceKept
  <2>6. QED
    BY <1>2, <2>1, <2>2, <2>3, <2>4, <2>5 DEF Next
<1>3. OnceInv => DeliveredAtMostOnce
  BY DEF OnceInv, DeliveredAtMostOnce
<1>4. QED
  BY <1>1, <1>2, <1>3, TypedAlways, PTL DEF Spec
-----------------------------------------------------------------------------
(* A switch lets at most one delivery still go out *)

\* Nothing has overrun a connection that is on, nor one whose switch was just looked at:
\* there the one delivery that may overrun is still to come.
OvershootInv == \A c \in Conns :
  /\ overrun[c] <= 1
  /\ Enabled(c) => overrun[c] = 0
  /\ runner.pc = "executing" /\ runner.conn = c => overrun[c] = 0

\* A step after which only connections that were on are on, and the runner executes only
\* what it executed, keeps it.
LEMMA OvershootKept ==
  ASSUME Typed, Typed', OvershootInv, overrun' = overrun,
         \A c \in Conns : Enabled(c)' => Enabled(c),
         runner'.pc = "executing" => runner' = runner
  PROVE  OvershootInv'
BY DEF OvershootInv

LEMMA OvershootClient ==
  ASSUME Typed, Typed', OvershootInv, NEW x \in Clients, ClientStep(x)
  PROVE  OvershootInv'
<1>0. conn \in [Conns -> ConnRow] /\ overrun \in [Conns -> Nat]
  BY DEF Typed
<1>1. CASE SetEnabled(x)
  <2> DEFINE d == client[x].conn
             on == client[x].do = "enable"
  <2>1. runner' = runner
    BY <1>1 DEF SetEnabled
  <2>2. overrun' = [overrun EXCEPT ![d] = IF on \/ Enabled(d) THEN 0 ELSE @]
    BY <1>1 DEF SetEnabled
  <2>3. \A c \in Conns : Enabled(c)' => Enabled(c) \/ (c = d /\ on)
    BY <1>0, <1>1 DEF SetEnabled, Enabled, Exists, ConnRow
  <2>4. QED
    BY <1>0, <2>1, <2>2, <2>3 DEF OvershootInv
<1>2. CASE Delete(x)
  <2> DEFINE d == client[x].conn
  <2>1. runner' = runner
    BY <1>2 DEF Delete
  <2>2. overrun' = [overrun EXCEPT ![d] = IF Enabled(d) THEN 0 ELSE @]
    BY <1>2 DEF Delete
  <2>3. \A c \in Conns : Enabled(c)' => Enabled(c)
    BY <1>0, <1>2 DEF Delete, Enabled, Exists, Gone, Unborn
  <2>4. QED
    BY <1>0, <2>1, <2>2, <2>3 DEF OvershootInv
<1>3. ASSUME NEW c \in Conns, NEW d, Composed(d), Enabled(c)' PROVE Enabled(c)
  <2>1. conn[d] = Unborn
    BY <1>3 DEF Composed
  <2>2. PICK open \in BOOLEAN :
          conn' = [conn EXCEPT ![d] = [status |-> AnswerStatus(open), enabled |-> FALSE, open |-> open]]
    BY <1>3 DEF Composed
  <2>3. QED
    BY <1>0, <1>3, <2>2 DEF Enabled, Exists
<1>4. CASE Answer(x)
  <2>1. runner' = runner /\ overrun' = overrun
    BY <1>4 DEF Answer, auxVars
  <2>2. \A c \in Conns : Enabled(c)' => Enabled(c)
    BY <1>0, <1>4 DEF Answer, Enabled, Exists, ConnRow
  <2>3. QED
    BY <2>1, <2>2, OvershootKept
<1>5. CASE (\E c \in Conns : Compose(x, c)) \/ Reply(x)
  <2>1. runner' = runner /\ overrun' = overrun
    BY <1>5 DEF Compose, Reply, auxVars
  <2>2. (\E d : Composed(d)) \/ conn' = conn
    BY <1>5 DEF Compose, Reply
  <2>3. \A c \in Conns : Enabled(c)' => Enabled(c)
    BY <1>3, <2>2 DEF Enabled, Exists
  <2>4. QED
    BY <2>1, <2>3, OvershootKept
<1>6. CASE \/ (\E s \in Systems : AddSystem(x, s)) \/ Learn(x) \/ (\E c \in Conns : Chat(x, c))
           \/ (\E do \in Calls, c \in Conns : Call(x, do, c)) \/ Hook(x)
  <2>1. runner' = runner /\ overrun' = overrun /\ conn' = conn
    BY <1>6 DEF AddSystem, Learn, Chat, Call, Hook, tableVars, auxVars
  <2>2. \A c \in Conns : Enabled(c)' => Enabled(c)
    BY <2>1 DEF Enabled, Exists
  <2>3. QED
    BY <2>1, <2>2, OvershootKept
<1>7. QED
  BY <1>1, <1>2, <1>4, <1>5, <1>6 DEF ClientStep

LEMMA OvershootRunner ==
  ASSUME Typed, Typed', OvershootInv, RunnerStep
  PROVE  OvershootInv'
<1>0. runner \in RunnerState /\ overrun \in [Conns -> Nat]
  BY DEF Typed
<1>1. conn' = conn
  BY DEF RunnerStep, StartPass, StartDrain, Skip, Fetch, ReadStatus, FetchError, Record, Check, Insert,
         MarkPolled, Claim, Drained, Start, Deliver, Settle, tableVars
<1>2. \A c \in Conns : Enabled(c)' <=> Enabled(c)
  BY <1>1 DEF Enabled, Exists
<1>3. CASE Start
  <2>1. overrun' = overrun
    BY <1>3 DEF Start, auxVars
  <2>2. runner'.pc = "executing" => Enabled(runner.conn) /\ runner'.conn = runner.conn
    BY <1>0, <1>3 DEF Start, Go, MayRun, Enabled, RunnerState
  <2>3. QED
    BY <1>2, <2>1, <2>2 DEF OvershootInv
<1>4. CASE Deliver
  <2> DEFINE d == runner.conn
  <2>1. runner.pc = "executing" /\ runner'.pc = "ran"
    BY <1>0, <1>4 DEF Deliver, Go, RunnerAt, RunnerState
  <2>2. overrun' = overrun \/ overrun' = [overrun EXCEPT ![d] = IF Enabled(d) THEN 0 ELSE @ + 1]
    BY <1>4 DEF Deliver
  <2>3. QED
    BY <1>0, <1>2, <2>1, <2>2 DEF OvershootInv
<1>5. CASE ~Start /\ ~Deliver
  <2>1. overrun' = overrun
    BY <1>5 DEF RunnerStep, StartPass, StartDrain, Skip, Fetch, ReadStatus, FetchError, Record, Check, Insert,
                MarkPolled, Claim, Drained, Settle, auxVars
  <2>2. runner'.pc # "executing"
    <3>1. CASE StartPass \/ StartDrain \/ Fetch \/ ReadStatus \/ (\E k \in Keys : Record(k)) \/ Insert
      BY <1>0, <3>1 DEF StartPass, StartDrain, Fetch, ReadStatus, Record, Insert, Go, RunnerState
    <3>2. CASE Check
      BY <1>0, <3>2 DEF Check, Go, AfterPollError, Waiting, RunnerState
    <3>3. CASE FetchError \/ MarkPolled \/ Claim \/ Drained \/ Settle
      <4>1. \/ runner' = Waiting
            \/ \E todo : runner' = [Waiting EXCEPT !.pc = "pass", !.todo = todo]
            \/ \E c, n : runner' = [Waiting EXCEPT !.pc = "claimed", !.conn = c, !.event = n]
            \/ runner' = [Waiting EXCEPT !.pc = "drain"]
        BY <3>3 DEF FetchError, MarkPolled, Claim, Drained, Settle, AfterPollError
      <4>2. ASSUME NEW todo, runner' = [Waiting EXCEPT !.pc = "pass", !.todo = todo]
            PROVE  runner'.pc # "executing"
        BY <4>2 DEF Waiting
      <4>3. ASSUME NEW c, NEW n, runner' = [Waiting EXCEPT !.pc = "claimed", !.conn = c, !.event = n]
            PROVE  runner'.pc # "executing"
        BY <4>3 DEF Waiting
      <4>4. CASE runner' = Waiting \/ runner' = [Waiting EXCEPT !.pc = "drain"]
        BY <4>4 DEF Waiting
      <4>5. QED
        BY <4>1, <4>2, <4>3, <4>4
    <3>4. CASE Skip
      BY <3>4, Skipped
    <3>5. QED
      BY <1>5, <3>1, <3>2, <3>3, <3>4 DEF RunnerStep
  <2>3. QED
    BY <1>2, <2>1, <2>2, OvershootKept
<1>6. QED
  BY <1>3, <1>4, <1>5

\* However many events are queued, and however the switch, a deletion and the runner
\* interleave, what goes out after a connection is off is the delivery under way.
THEOREM PauseOvershootAlways == Spec => []PauseOvershoot
<1>1. Init => OvershootInv
  BY DEF Init, OvershootInv, Enabled, Exists, Unborn, Waiting
<1>2. ASSUME Typed, Typed', OvershootInv, [Next]_vars PROVE OvershootInv'
  <2>1. ASSUME NEW x \in Clients, ClientStep(x) PROVE OvershootInv'
    BY <1>2, <2>1, OvershootClient
  <2>2. ASSUME NEW c \in Conns, NEW k \in Keys, SourceChanges(c, k) PROVE OvershootInv'
    <3>1. overrun' = overrun /\ conn' = conn /\ runner' = runner
      BY <2>2 DEF SourceChanges, tableVars, auxVars
    <3>2. QED
      BY <1>2, <3>1, OvershootKept DEF Enabled, Exists
  <2>3. CASE RunnerStep
    BY <1>2, <2>3, OvershootRunner
  <2>4. CASE Crash
    <3>1. overrun' = overrun /\ conn' = conn /\ runner' = Waiting
      BY <2>4 DEF Crash, Rebuilt, tableVars
    <3>2. runner'.pc # "executing"
      BY <3>1 DEF Waiting
    <3>3. QED
      BY <1>2, <3>1, <3>2, OvershootKept DEF Enabled, Exists
  <2>5. CASE UNCHANGED vars
    <3>1. overrun' = overrun /\ conn' = conn /\ runner' = runner
      BY <2>5 DEF vars, auxVars
    <3>2. QED
      BY <1>2, <3>1, OvershootKept DEF Enabled, Exists
  <2>6. QED
    BY <1>2, <2>1, <2>2, <2>3, <2>4, <2>5 DEF Next
<1>3. OvershootInv => PauseOvershoot
  BY DEF OvershootInv, PauseOvershoot
<1>4. QED
  BY <1>1, <1>2, <1>3, TypedAlways, PTL DEF Spec
-----------------------------------------------------------------------------
(* Every change is queued, but those dropped on the way *)

Midway(c, k) == runner.pc \in {"check", "insert"} /\ runner.conn = c /\ runner.key = k

Polling == /\ runner.pc \in {"fetched", "records", "check", "insert"} => runner.conn \in Conns
           /\ runner.pc \in {"check", "insert"} => runner.key \in Keys

\* The record the runner is about to queue is the one whose fingerprint is ahead; of every
\* other record of a connection that was not deleted, what is recorded was queued.
EmittedInv ==
  /\ trigger \in [Conns -> [Keys -> Nat]]
  /\ emitted \in [Conns -> [Keys -> Nat]]
  /\ Polling
  /\ \A c \in Conns, k \in Keys : conn[c].status # "deleted" =>
       /\ Midway(c, k) => trigger[c][k] = runner.batch[k]
       /\ ~Midway(c, k) => trigger[c][k] = emitted[c][k] \/ <<c, k>> \in lapsed

\* No step brings a deleted connection back; then one that records and queues nothing keeps
\* it, wherever the runner goes from a place where it has nothing to queue.
LEMMA EmittedKept ==
  ASSUME EmittedInv, trigger' = trigger, emitted' = emitted, lapsed' = lapsed,
         \A c \in Conns : conn[c].status = "deleted" => conn'[c].status = "deleted",
         \/ runner' = runner
         \/ /\ runner.pc \notin {"check", "insert"} /\ runner'.pc \notin {"check", "insert"}
            /\ runner'.pc \in {"fetched", "records"} => runner'.conn \in Conns
  PROVE  EmittedInv'
BY DEF EmittedInv, Polling, Midway

LEMMA DeletedStays ==
  ASSUME Typed, NEW x \in Clients, ClientStep(x), NEW c \in Conns, conn[c].status = "deleted"
  PROVE  conn'[c].status = "deleted"
<1>0. conn \in [Conns -> ConnRow] /\ ~Exists(c) /\ conn[c] # Unborn
  BY DEF Typed, Exists, Unborn
<1>1. ASSUME NEW d, Composed(d) PROVE conn'[c] = conn[c]
  BY <1>0, <1>1 DEF Composed
<1>2. CASE (\E d \in Conns : Compose(x, d)) \/ Reply(x)
  BY <1>1, <1>2 DEF Compose, Reply
<1>3. CASE SetEnabled(x)
  BY <1>0, <1>3 DEF SetEnabled
<1>4. CASE Answer(x)
  BY <1>0, <1>4 DEF Answer
<1>5. CASE Delete(x)
  BY <1>0, <1>5 DEF Delete, Gone, Unborn
<1>6. CASE \/ (\E s \in Systems : AddSystem(x, s)) \/ Learn(x) \/ (\E d \in Conns : Chat(x, d))
           \/ (\E do \in Calls, d \in Conns : Call(x, do, d)) \/ Hook(x)
  BY <1>6 DEF AddSystem, Learn, Chat, Call, Hook, tableVars
<1>7. QED
  BY <1>2, <1>3, <1>4, <1>5, <1>6 DEF ClientStep

LEMMA EmittedClient ==
  ASSUME Typed, EmittedInv, NEW x \in Clients, ClientStep(x)
  PROVE  EmittedInv'
<1>0. \A c \in Conns : conn[c].status = "deleted" => conn'[c].status = "deleted"
  BY DeletedStays
<1>1. runner' = runner /\ emitted' = emitted /\ lapsed' = lapsed
  BY DEF ClientStep, AddSystem, Learn, Compose, Chat, Reply, Call, SetEnabled, Answer, Delete, Hook,
         tableVars, auxVars
<1>2. CASE Delete(x)
  <2> DEFINE d == client[x].conn
  <2>1. trigger' = [trigger EXCEPT ![d] = [k \in Keys |-> 0]] /\ conn' = [conn EXCEPT ![d] = Gone]
    BY <1>2 DEF Delete
  <2>2. trigger' \in [Conns -> [Keys -> Nat]]
    BY <2>1 DEF EmittedInv
  <2>3. \A c \in Conns : conn'[c].status # "deleted" => trigger'[c] = trigger[c]
    BY <2>1 DEF Typed, EmittedInv, Gone, Unborn
  <2>4. QED
    BY <1>0, <1>1, <2>2, <2>3 DEF EmittedInv, Polling, Midway
<1>3. CASE ~Delete(x)
  <2>1. trigger' = trigger
    BY <1>3 DEF ClientStep, AddSystem, Learn, Compose, Chat, Reply, Call, SetEnabled, Answer, Hook,
                tableVars, auxVars
  <2>2. QED
    BY <1>0, <1>1, <2>1, EmittedKept
<1>4. QED
  BY <1>2, <1>3

LEMMA EmittedRunner ==
  ASSUME Typed, EmittedInv, RunnerStep
  PROVE  EmittedInv'
<1>0. runner \in RunnerState
  BY DEF Typed
<1>1. conn' = conn
  BY DEF RunnerStep, StartPass, StartDrain, Skip, Fetch, ReadStatus, FetchError, Record, Check, Insert,
         MarkPolled, Claim, Drained, Start, Deliver, Settle, tableVars
<1>2. ASSUME NEW k \in Keys, Record(k) PROVE EmittedInv'
  <2> DEFINE c == runner.conn
             v == runner.batch[k]
             news == IsNews(trigger[c][k], v)
  <2>1. c \in Conns /\ v \in Nat /\ runner.pc = "records"
    BY <1>0, <1>2 DEF Record, RunnerAt, EmittedInv, Polling, RunnerState
  <2>2. trigger' = [trigger EXCEPT ![c][k] = v] /\ lapsed' = lapsed
    BY <1>2 DEF Record
  <2>3. emitted' = [emitted EXCEPT ![c][k] = IF runner.polled THEN @ ELSE v]
    BY <1>2 DEF Record
  <2>4. /\ runner'.conn = c /\ runner'.batch = runner.batch
        /\ news => runner'.pc = "check" /\ runner'.key = k
        /\ ~news => runner'.pc = "records"
    BY <1>0, <1>2 DEF Record, RunnerState
  <2>5. trigger' \in [Conns -> [Keys -> Nat]] /\ emitted' \in [Conns -> [Keys -> Nat]]
    BY <2>1, <2>2, <2>3 DEF EmittedInv
  <2>6. ASSUME NEW d \in Conns, NEW l \in Keys, d # c \/ l # k
        PROVE  trigger'[d][l] = trigger[d][l] /\ emitted'[d][l] = emitted[d][l]
    BY <2>1, <2>2, <2>3, <2>6 DEF EmittedInv
  <2>7. trigger'[c][k] = v
    BY <2>1, <2>2 DEF EmittedInv
  <2>8. ~news => emitted'[c][k] = v \/ (v = trigger[c][k] /\ emitted'[c][k] = emitted[c][k])
    BY <2>1, <2>3 DEF EmittedInv, IsNews
  <2>9. Polling'
    BY <2>1, <2>4 DEF Polling
  <2>10. ASSUME NEW d \in Conns, NEW l \in Keys, conn[d].status # "deleted"
         PROVE  /\ Midway(d, l)' => trigger'[d][l] = runner'.batch[l]
                /\ ~Midway(d, l)' => trigger'[d][l] = emitted'[d][l] \/ <<d, l>> \in lapsed'
    <3>1. trigger[d][l] = emitted[d][l] \/ <<d, l>> \in lapsed
      BY <2>1, <2>10 DEF EmittedInv, Midway
    <3>2. CASE d = c /\ l = k
      BY <2>2, <2>4, <2>7, <2>8, <3>1, <3>2 DEF Midway
    <3>3. CASE d # c \/ l # k
      BY <2>2, <2>4, <2>6, <3>1, <3>3 DEF Midway
    <3>4. QED
      BY <3>2, <3>3
  <2>11. QED
    BY <1>1, <2>5, <2>9, <2>10 DEF EmittedInv
<1>3. CASE Check
  <2>1. trigger' = trigger /\ emitted' = emitted
    BY <1>3 DEF Check, tableVars
  <2>2. runner.pc = "check" /\ runner.conn \in Conns /\ runner.key \in Keys
    BY <1>3 DEF Check, RunnerAt, EmittedInv, Polling
  <2>3. CASE Enabled(runner.conn)
    <3>1. lapsed' = lapsed /\ runner' = [runner EXCEPT !.pc = "insert"]
      BY <1>3, <2>3 DEF Check, Go
    <3>2. /\ runner'.pc = "insert" /\ runner'.conn = runner.conn
          /\ runner'.key = runner.key /\ runner'.batch = runner.batch
      BY <1>0, <3>1 DEF RunnerState
    <3>3. QED
      BY <1>1, <2>1, <2>2, <3>1, <3>2 DEF EmittedInv, Polling, Midway
  <2>4. CASE ~Enabled(runner.conn)
    <3>1. /\ runner' = [Waiting EXCEPT !.pc = "drain"]
          /\ lapsed' = lapsed \cup {<<runner.conn, runner.key>>}
      BY <1>3, <2>4 DEF Check, AfterPollError
    <3>2. runner'.pc = "drain"
      BY <3>1 DEF Waiting
    <3>3. QED
      BY <1>1, <2>1, <2>2, <3>1, <3>2 DEF EmittedInv, Polling, Midway
  <2>5. QED
    BY <2>3, <2>4
<1>4. CASE Insert
  <2> DEFINE c == runner.conn
             k == runner.key
  <2>1. runner.pc = "insert" /\ c \in Conns /\ k \in Keys /\ runner.batch[k] \in Nat
    BY <1>0, <1>4 DEF Insert, RunnerAt, EmittedInv, Polling, RunnerState
  <2>2. /\ trigger' = trigger /\ lapsed' = lapsed \ {<<c, k>>}
        /\ emitted' = [emitted EXCEPT ![c][k] = runner.batch[k]]
    BY <1>4 DEF Insert
  <2>3. runner'.pc = "records" /\ runner'.conn = c
    BY <1>0, <1>4 DEF Insert, RunnerState
  <2>4. emitted' \in [Conns -> [Keys -> Nat]]
    BY <2>1, <2>2 DEF EmittedInv
  <2>5. emitted'[c][k] = runner.batch[k]
    BY <2>1, <2>2 DEF EmittedInv
  <2>6. ASSUME NEW d \in Conns, NEW l \in Keys, d # c \/ l # k
        PROVE  emitted'[d][l] = emitted[d][l] /\ (<<d, l>> \in lapsed => <<d, l>> \in lapsed')
    BY <2>1, <2>2, <2>6 DEF EmittedInv
  <2>7. ASSUME NEW d \in Conns, NEW l \in Keys, conn[d].status # "deleted"
        PROVE  trigger[d][l] = emitted'[d][l] \/ <<d, l>> \in lapsed'
    <3>1. CASE d = c /\ l = k
      BY <2>1, <2>5, <2>7, <3>1 DEF EmittedInv, Midway
    <3>2. CASE d # c \/ l # k
      BY <2>6, <2>7, <3>2 DEF EmittedInv, Midway
    <3>3. QED
      BY <3>1, <3>2
  <2>8. QED
    BY <1>1, <2>1, <2>2, <2>3, <2>4, <2>7 DEF EmittedInv, Polling, Midway
<1>5. CASE StartPass \/ StartDrain \/ Start \/ Deliver
  <2>1. trigger' = trigger /\ emitted' = emitted /\ lapsed' = lapsed
    BY <1>5 DEF StartPass, StartDrain, Start, Deliver, tableVars, auxVars
  <2>2. /\ runner.pc \in {"wait", "pass", "claimed", "executing"}
        /\ runner'.pc \in {"pass", "drain", "executing", "refused", "ran"}
    BY <1>0, <1>5 DEF StartPass, StartDrain, Start, Deliver, Go, RunnerAt, RunnerState
  <2>3. QED
    BY <1>1, <2>1, <2>2, EmittedKept
<1>6. CASE Fetch
  <2>1. trigger' = trigger /\ emitted' = emitted /\ lapsed' = lapsed
    BY <1>6 DEF Fetch, tableVars, auxVars
  <2>2. runner.pc = "pass" /\ runner'.pc = "fetched" /\ runner'.conn = NextConn
    BY <1>0, <1>6 DEF Fetch, RunnerAt, RunnerState
  <2>3. NextConn \in Conns
    BY <1>6, NextConnType DEF Fetch
  <2>4. QED
    BY <1>1, <2>1, <2>2, <2>3, EmittedKept
<1>7. CASE FetchError \/ MarkPolled \/ Claim \/ Drained \/ Settle
  <2>1. trigger' = trigger /\ emitted' = emitted /\ lapsed' = lapsed
    BY <1>7 DEF FetchError, MarkPolled, Claim, Drained, Settle, tableVars, auxVars
  <2>2. runner.pc \in {"pass", "records", "drain", "ran", "refused"}
    BY <1>7 DEF FetchError, MarkPolled, Claim, Drained, Settle, RunnerAt
  <2>3. CASE FetchError \/ Drained \/ Settle
    <3>1. runner' = Waiting \/ runner' = [Waiting EXCEPT !.pc = "drain"]
      BY <2>3 DEF FetchError, Drained, Settle, AfterPollError
    <3>2. runner'.pc \in {"wait", "drain"}
      BY <3>1 DEF Waiting
    <3>3. QED
      BY <1>1, <2>1, <2>2, <3>2, EmittedKept
  <2>4. CASE MarkPolled
    <3>1. runner'.pc = "pass"
      BY <2>4 DEF MarkPolled, Waiting
    <3>2. QED
      BY <1>1, <2>1, <2>2, <3>1, EmittedKept
  <2>5. CASE Claim
    <3>1. runner'.pc = "claimed"
      BY <2>5 DEF Claim, Waiting
    <3>2. QED
      BY <1>1, <2>1, <2>2, <3>1, EmittedKept
  <2>6. QED
    BY <1>7, <2>3, <2>4, <2>5
<1>8. CASE Skip
  <2>1. trigger' = trigger /\ emitted' = emitted /\ lapsed' = lapsed
    BY <1>8 DEF Skip, tableVars, auxVars
  <2>2. QED
    BY <1>1, <1>8, <2>1, Skipped, EmittedKept
<1>9. CASE ReadStatus
  <2>1. trigger' = trigger /\ emitted' = emitted /\ lapsed' = lapsed
    BY <1>9 DEF ReadStatus, tableVars, auxVars
  <2>2. runner.pc = "fetched" /\ runner'.pc = "records" /\ runner'.conn = runner.conn
    BY <1>0, <1>9 DEF ReadStatus, RunnerAt, RunnerState
  <2>3. runner.conn \in Conns
    BY <2>2 DEF EmittedInv, Polling
  <2>4. QED
    BY <1>1, <2>1, <2>2, <2>3, EmittedKept
<1>10. QED
  BY <1>2, <1>3, <1>4, <1>5, <1>6, <1>7, <1>8, <1>9 DEF RunnerStep

\* What the trigger state records was queued, for every number of connections, records and
\* restarts; the exceptions are the changes dropped between the two transactions.
THEOREM ChangesEmittedAlways == Spec => []ChangesEmitted
<1>1. Init => EmittedInv
  BY DEF Init, EmittedInv, Polling, Midway, Waiting
<1>2. ASSUME Typed, EmittedInv, [Next]_vars PROVE EmittedInv'
  <2>1. ASSUME NEW x \in Clients, ClientStep(x) PROVE EmittedInv'
    BY <1>2, <2>1, EmittedClient
  <2>2. ASSUME NEW c \in Conns, NEW k \in Keys, SourceChanges(c, k) PROVE EmittedInv'
    BY <1>2, <2>2, EmittedKept DEF SourceChanges, tableVars, auxVars
  <2>3. CASE RunnerStep
    BY <1>2, <2>3, EmittedRunner
  <2>4. CASE Crash
    <3>1. trigger' = trigger /\ emitted' = emitted /\ conn' = conn /\ runner' = Waiting
      BY <2>4 DEF Crash, Rebuilt, tableVars
    <3>2. lapsed' = IF runner.pc \in {"check", "insert"} THEN lapsed \cup {<<runner.conn, runner.key>>}
                    ELSE lapsed
      BY <2>4 DEF Crash
    <3>3. runner'.pc = "wait"
      BY <3>1 DEF Waiting
    <3>4. QED
      BY <1>2, <3>1, <3>2, <3>3 DEF EmittedInv, Polling, Midway
  <2>5. CASE UNCHANGED vars
    BY <1>2, <2>5, EmittedKept DEF vars, auxVars
  <2>6. QED
    BY <1>2, <2>1, <2>2, <2>3, <2>4, <2>5 DEF Next
<1>3. Typed /\ EmittedInv => ChangesEmitted
  BY DEF EmittedInv, ChangesEmitted, Midway, Exists
<1>4. QED
  BY <1>1, <1>2, <1>3, TypedAlways, PTL DEF Spec
=============================================================================
