----------------------------- MODULE LiteRunner ------------------------------
(***************************************************************************)
(* Connections of Foundry Lite and the one runner thread that polls their  *)
(* sources and drains their event queue (lite/service.py), beside the      *)
(* threads that serve the local console and the webhooks.  All share one   *)
(* SQLite file; a step is one transaction or one read, and every method    *)
(* that reads, computes and writes is split there.  The process may end    *)
(* between any two steps (a crash, or a shutdown that outlasts the three   *)
(* seconds stop_runner waits) and is started again.  A connection is built *)
(* over systems whose discovery has finished.                              *)
(*                                                                         *)
(* A record of a source is its current version, which is also its          *)
(* fingerprint; 0 is a record the source does not list.  Chat messages,    *)
(* activities and error counts are written and never read back by what is  *)
(* modelled, and are left out.  Bounds:                                    *)
(* MaxVersion changes of a record, MaxHooks events from webhooks (no call  *)
(* arrives once that many events were made), MaxCrashes.                   *)
(***************************************************************************)
EXTENDS Integers, FiniteSets

CONSTANTS NConns,      \* connections, named 1..NConns in the order composed
          Systems,     \* systems a user may add
          Uses,        \* [Conns -> SUBSET Systems]: the source and targets of a connection
          Keys,        \* records of a source
          Clients,     \* threads serving the console and the webhooks
          None,
          MaxVersion, MaxHooks, MaxCrashes

ASSUME LiteAssumption ==
  /\ NConns \in Nat \ {0}
  /\ MaxVersion \in Nat /\ MaxHooks \in Nat /\ MaxCrashes \in Nat
  /\ None \notin Keys \cup Systems
  /\ Uses \in [1..NConns -> SUBSET Systems]

Conns == 1..NConns

\* A polled event needs a change of its record, so the poll never meets this bound.
MaxEvents == MaxHooks + NConns * Cardinality(Keys) * MaxVersion

VARIABLES
  system,    \* lite_systems: status; profile_json is written with "ready"
  conn,      \* lite_connections: status, enabled, open (required questions left)
  source,    \* external: what each connection's source lists
  trigger,   \* lite_trigger_state: fingerprint per record, 0 for no row
  polled,    \* lite_poll_status.initialized
  events,    \* lite_events
  made,      \* events inserted so far; they are numbered in that order
  client,    \* what each client thread is in the middle of
  runner,    \* the runner thread
  runs,      \* auxiliary: how often an event reached its targets
  overrun,   \* auxiliary: deliveries since the connection was switched off
  emitted,   \* auxiliary: version last baselined or queued for a record
  lapsed,    \* auxiliary: records whose last change was dropped
  crashes

tableVars == <<system, conn, trigger, polled, events, made>>
auxVars == <<runs, overrun, emitted, lapsed>>
vars == <<system, conn, source, trigger, polled, events, made, client, runner, auxVars, crashes>>

Exists(c) == conn[c].status \in {"ready", "questions", "on", "paused"}
Enabled(c) == Exists(c) /\ conn[c].enabled

Unborn == [status |-> "unborn", enabled |-> FALSE, open |-> FALSE]
Gone == [Unborn EXCEPT !.status = "deleted"]
Idle == [do |-> "none", conn |-> 0, open |-> FALSE, sys |-> None]
Waiting == [pc |-> "wait", todo |-> {}, conn |-> 0, batch |-> [k \in Keys |-> 0], left |-> {},
            polled |-> FALSE, key |-> None, event |-> 0]

Init == /\ system = [s \in Systems |-> "none"]
        /\ conn = [c \in Conns |-> Unborn]
        /\ source \in [Conns -> [Keys -> 0..1]]
        /\ trigger = [c \in Conns |-> [k \in Keys |-> 0]]
        /\ polled = [c \in Conns |-> FALSE]
        /\ events = {} /\ made = 0
        /\ client = [x \in Clients |-> Idle]
        /\ runner = Waiting
        /\ runs = [e \in 1..MaxEvents |-> 0]
        /\ overrun = [c \in Conns |-> 0]
        /\ emitted = [c \in Conns |-> [k \in Keys |-> 0]]
        /\ lapsed = {}
        /\ crashes = 0
-----------------------------------------------------------------------------

Finish(x) == client' = [client EXCEPT ![x] = Idle]

\* add_system: the row is inserted as "learning", then discovery runs in the request's
\* thread.  Nothing takes up a discovery that a crash has cut short.
AddSystem(x, s) ==
  /\ client[x] = Idle /\ system[s] = "none"
  /\ system' = [system EXCEPT ![s] = "learning"]
  /\ client' = [client EXCEPT ![x] = [Idle EXCEPT !.do = "learn", !.sys = s]]
  /\ UNCHANGED <<conn, source, trigger, polled, events, made, runner, auxVars, crashes>>

\* Discovery returns a profile, or raises.
Learn(x) ==
  /\ client[x].do = "learn"
  /\ \E found \in {"ready", "needs_attention"} : system' = [system EXCEPT ![client[x].sys] = found]
  /\ Finish(x)
  /\ UNCHANGED <<conn, source, trigger, polled, events, made, runner, auxVars, crashes>>

\* _profile: only a system that was learned has one.
Learned(s) == system[s] = "ready"

\* compose() ends in one INSERT: not enabled, "questions" while required ones are open.
AnswerStatus(open) == IF open THEN "questions" ELSE "ready"

Composed(c) ==
  /\ conn[c] = Unborn
  /\ \A d \in 1..(c - 1) : conn[d] # Unborn
  /\ \A s \in Uses[c] : Learned(s)
  /\ \E open \in BOOLEAN :
       conn' = [conn EXCEPT ![c] = [status |-> AnswerStatus(open), enabled |-> FALSE,
                                    open |-> open]]

Compose(x, c) ==
  /\ client[x] = Idle
  /\ Composed(c)
  /\ UNCHANGED <<system, source, trigger, polled, events, made, client, runner, auxVars, crashes>>

\* chat() stores the message, then composes; an exception becomes the assistant's answer.
Chat(x, c) ==
  /\ client[x] = Idle /\ conn[c] = Unborn
  /\ client' = [client EXCEPT ![x] = [Idle EXCEPT !.do = "chat", !.conn = c]]
  /\ UNCHANGED <<tableVars, source, runner, auxVars, crashes>>

Reply(x) ==
  /\ client[x].do = "chat"
  /\ Finish(x)
  /\ Composed(client[x].conn) \/ UNCHANGED conn
  /\ UNCHANGED <<system, source, trigger, polled, events, made, runner, auxVars, crashes>>

\* set_enabled reads the row; enabling demands status "ready".
MayEnable(c) == conn[c].status = "ready"

\* A client thread calls a method: it reads the connection and goes on, or raises.
Accepted(do, c) == CASE do = "enable" -> MayEnable(c)
                     [] do = "hook" -> conn[c].enabled
                     [] OTHER -> TRUE

Call(x, do, c) ==
  /\ client[x] = Idle
  /\ Exists(c)
  /\ client' = [client EXCEPT ![x] = IF Accepted(do, c)
                  THEN [do |-> do, conn |-> c, open |-> conn[c].open, sys |-> None] ELSE Idle]
  /\ UNCHANGED <<tableVars, source, runner, auxVars, crashes>>

\* set_enabled: the UPDATE, which a deleted row ignores.
SetEnabled(x) ==
  LET c == client[x].conn
      on == client[x].do = "enable" IN
  /\ client[x].do \in {"enable", "pause"}
  /\ Finish(x)
  /\ conn' = IF Exists(c) THEN [conn EXCEPT ![c].enabled = on, ![c].status = IF on THEN "on" ELSE "paused"]
             ELSE conn
  /\ overrun' = [overrun EXCEPT ![c] = IF on \/ Enabled(c) THEN 0 ELSE @]
  /\ UNCHANGED <<system, source, trigger, polled, events, made, runner, runs, emitted, lapsed, crashes>>

\* answer_questions: the UPDATE, from the questions read; "enabled" is left alone.  An
\* answer that names no field of the source, or no action, raises before it.
Answer(x) ==
  LET c == client[x].conn IN
  /\ client[x].do = "answer"
  /\ Finish(x)
  /\ \E all \in BOOLEAN :
       LET open == client[x].open /\ ~all IN
       conn' \in {conn, IF Exists(c) THEN [conn EXCEPT ![c].status = AnswerStatus(open), ![c].open = open]
                        ELSE conn}
  /\ UNCHANGED <<system, source, trigger, polled, events, made, runner, auxVars, crashes>>

\* delete_connection: one transaction over four tables.
Delete(x) ==
  LET c == client[x].conn IN
  /\ client[x].do = "delete"
  /\ Finish(x)
  /\ conn' = [conn EXCEPT ![c] = Gone]
  /\ events' = {e \in events : e.conn # c}
  /\ trigger' = [trigger EXCEPT ![c] = [k \in Keys |-> 0]]
  /\ polled' = [polled EXCEPT ![c] = FALSE]
  /\ overrun' = [overrun EXCEPT ![c] = IF Enabled(c) THEN 0 ELSE @]
  /\ UNCHANGED <<system, source, made, runner, runs, emitted, lapsed, crashes>>

\* enqueue: the INSERT.  Nobody looks again whether the connection is still enabled.
Inserted(c) == /\ made' = made + 1
               /\ events' = events \cup {[id |-> made + 1, conn |-> c, status |-> "queued"]}

Hook(x) ==
  /\ client[x].do = "hook" /\ made < MaxHooks
  /\ Finish(x)
  /\ Inserted(client[x].conn)
  /\ UNCHANGED <<system, conn, source, trigger, polled, runner, auxVars, crashes>>

\* External: a record appears or changes.
SourceChanges(c, k) ==
  /\ source[c][k] < MaxVersion
  /\ source' = [source EXCEPT ![c][k] = @ + 1]
  /\ UNCHANGED <<tableVars, client, runner, auxVars, crashes>>
-----------------------------------------------------------------------------
Go(l) == runner' = [runner EXCEPT !.pc = l]
RunnerAt(l) == runner.pc = l

\* The loop of start_runner: a poll pass when one is due, then the queue.
\* poll_sources_once lists the enabled connections once.
StartPass ==
  /\ RunnerAt("wait")
  /\ runner' = [runner EXCEPT !.pc = "pass", !.todo = {c \in Conns : Enabled(c)}]
  /\ UNCHANGED <<tableVars, source, client, auxVars, crashes>>

StartDrain ==
  /\ \/ RunnerAt("wait")
     \/ RunnerAt("pass") /\ runner.todo = {}
  /\ Go("drain")
  /\ UNCHANGED <<tableVars, source, client, auxVars, crashes>>

NextConn == CHOOSE c \in runner.todo : \A d \in runner.todo : c <= d

\* The contract's source has no operation to read it with.
Skip ==
  /\ RunnerAt("pass") /\ runner.todo # {}
  /\ runner' = [runner EXCEPT !.todo = @ \ {NextConn}]
  /\ UNCHANGED <<tableVars, source, client, auxVars, crashes>>

\* The adapter reads the source: a call that takes as long as the source does.
Fetch ==
  /\ RunnerAt("pass") /\ runner.todo # {}
  /\ LET c == NextConn IN
     runner' = [runner EXCEPT !.pc = "fetched", !.conn = c, !.batch = source[c],
                              !.left = {k \in Keys : source[c][k] # 0}]
  /\ UNCHANGED <<tableVars, source, client, auxVars, crashes>>

\* Only then the poll status is read, which a deletion may have removed meanwhile.
ReadStatus ==
  /\ RunnerAt("fetched")
  /\ runner' = [runner EXCEPT !.pc = "records", !.polled = polled[runner.conn]]
  /\ UNCHANGED <<tableVars, source, client, auxVars, crashes>>

\* Where the loop goes on after an exception in a pass.  (Mutant: the thread ends.)
ThreadEnds == "ended"
AfterPollError == "drain"

\* The source fails: the exception ends the pass, for every connection after it too.
FetchError ==
  /\ RunnerAt("pass") /\ runner.todo # {}
  /\ runner' = [Waiting EXCEPT !.pc = AfterPollError]
  /\ UNCHANGED <<tableVars, source, client, auxVars, crashes>>

\* A record of an initialised connection is news.  (Mutant: only when it was known.)
NewsOnlyWhenKnown(old, new) == runner.polled /\ old # 0 /\ old # new
IsNews(old, new) == runner.polled /\ old # new

\* One record: its fingerprint is recorded, and committed, before the event is queued.
Record(k) ==
  LET c == runner.conn
      v == runner.batch[k]
      news == IsNews(trigger[c][k], v)
  IN
  /\ RunnerAt("records") /\ k \in runner.left
  /\ trigger' = [trigger EXCEPT ![c][k] = v]
  /\ runner' = [runner EXCEPT !.left = @ \ {k}, !.pc = IF news THEN "check" ELSE "records",
                              !.key = IF news THEN k ELSE None]
  /\ emitted' = [emitted EXCEPT ![c][k] = IF runner.polled THEN @ ELSE v]
  /\ UNCHANGED <<system, conn, source, polled, events, made, client, runs, overrun, lapsed, crashes>>

\* enqueue() looks whether the connection is enabled; otherwise it raises through
\* poll_sources_once, and the change is dropped.
Check ==
  /\ RunnerAt("check")
  /\ IF Enabled(runner.conn)
     THEN Go("insert") /\ UNCHANGED lapsed
     ELSE /\ runner' = [Waiting EXCEPT !.pc = AfterPollError]
          /\ lapsed' = lapsed \cup {<<runner.conn, runner.key>>}
  /\ UNCHANGED <<tableVars, source, client, runs, overrun, emitted, crashes>>

Insert ==
  LET c == runner.conn
      k == runner.key IN
  /\ RunnerAt("insert")
  /\ Inserted(c)
  /\ runner' = [runner EXCEPT !.pc = "records", !.key = None]
  /\ emitted' = [emitted EXCEPT ![c][k] = runner.batch[k]]
  /\ lapsed' = lapsed \ {<<c, k>>}
  /\ UNCHANGED <<system, conn, source, trigger, polled, client, runs, overrun, crashes>>

\* All records done: the connection counts as initialised.
MarkPolled ==
  /\ RunnerAt("records") /\ runner.left = {}
  /\ polled' = [polled EXCEPT ![runner.conn] = TRUE]
  /\ runner' = [Waiting EXCEPT !.pc = "pass", !.todo = runner.todo \ {runner.conn}]
  /\ UNCHANGED <<system, conn, source, trigger, events, made, client, auxVars, crashes>>
-----------------------------------------------------------------------------
\* run_once: the oldest queued event is claimed.  (Mutant: an interrupted one too.)
ClaimableAgain == {e \in events : e.status \in {"queued", "running"}}
Claimable == {e \in events : e.status = "queued"}

SetStatus(id, s) == events' = {IF e.id = id THEN [e EXCEPT !.status = s] ELSE e : e \in events}

Claim ==
  /\ RunnerAt("drain")
  /\ \E e \in Claimable :
       /\ \A f \in Claimable : e.id <= f.id
       /\ SetStatus(e.id, "running")
       /\ runner' = [Waiting EXCEPT !.pc = "claimed", !.conn = e.conn, !.event = e.id]
  /\ UNCHANGED <<system, conn, source, trigger, polled, made, client, auxVars, crashes>>

Drained ==
  /\ RunnerAt("drain") /\ Claimable = {}
  /\ runner' = Waiting
  /\ UNCHANGED <<tableVars, source, client, auxVars, crashes>>

\* _execute_connection reads the row.  (Mutant: only that it exists matters.)
MayRunExisting(c) == Exists(c)
MayRun(c) == Exists(c) /\ conn[c].enabled

\* The profiles and credentials of its systems are looked up: a look-up may raise, too.
Start ==
  /\ RunnerAt("claimed")
  /\ \E found \in BOOLEAN : Go(IF MayRun(runner.conn) /\ found THEN "executing" ELSE "refused")
  /\ UNCHANGED <<tableVars, source, client, auxVars, crashes>>

\* The simulator runs the contract on the event: the targets are called and may fail,
\* or no action applies; whatever happens, it returns and the run is noted in the row.
Deliver ==
  LET c == runner.conn IN
  /\ RunnerAt("executing")
  /\ Go("ran")
  /\ \/ UNCHANGED <<runs, overrun>>      \* no action applied
     \/ /\ runs' = [runs EXCEPT ![runner.event] = @ + 1]
        /\ overrun' = [overrun EXCEPT ![c] = IF Enabled(c) THEN 0 ELSE @ + 1]
  /\ UNCHANGED <<tableVars, source, client, emitted, lapsed, crashes>>

\* The event's last transaction: only an exception makes it "failed".
Settle ==
  /\ runner.pc \in {"ran", "refused"}
  /\ SetStatus(runner.event, IF RunnerAt("refused") THEN "failed" ELSE "succeeded")
  /\ runner' = [Waiting EXCEPT !.pc = "drain"]
  /\ UNCHANGED <<system, conn, source, trigger, polled, made, client, auxVars, crashes>>

\* LiteContext.build opens the database as it is (a damaged one is refused) and makes a
\* new service; the runner starts with an empty pass.
Rebuilt == runner' = Waiting /\ client' = [x \in Clients |-> Idle]

\* The process ends and is started again; nothing is recovered.
Crash ==
  /\ crashes < MaxCrashes
  /\ crashes' = crashes + 1
  /\ Rebuilt
  /\ lapsed' = IF runner.pc \in {"check", "insert"} THEN lapsed \cup {<<runner.conn, runner.key>>}
               ELSE lapsed
  /\ UNCHANGED <<tableVars, source, runs, overrun, emitted>>
-----------------------------------------------------------------------------
Calls == {"enable", "pause", "answer", "delete", "hook"}

ClientStep(x) == \/ (\E s \in Systems : AddSystem(x, s)) \/ Learn(x)
                 \/ (\E c \in Conns : Compose(x, c) \/ Chat(x, c)) \/ Reply(x)
                 \/ (\E do \in Calls, c \in Conns : Call(x, do, c))
                 \/ SetEnabled(x) \/ Answer(x) \/ Delete(x) \/ Hook(x)

RunnerStep == \/ StartPass \/ StartDrain \/ Skip \/ Fetch \/ ReadStatus \/ FetchError
              \/ (\E k \in Keys : Record(k)) \/ Check \/ Insert \/ MarkPolled
              \/ Claim \/ Drained \/ Start \/ Deliver \/ Settle

Next == \/ \E x \in Clients : ClientStep(x)
        \/ \E c \in Conns, k \in Keys : SourceChanges(c, k)
        \/ RunnerStep
        \/ Crash

Spec == Init /\ [][Next]_vars

\* The runner is a thread of a running process: it takes its next step.
FairSpec == Spec /\ WF_vars(RunnerStep)
-----------------------------------------------------------------------------
\* An event reaches its targets at most once, also when the process ends in the
\* middle and starts again (lite/service.py:662-687 has no recovery of "running").
DeliveredAtMostOnce == \A e \in 1..MaxEvents : runs[e] <= 1

\* Switching a connection off, or deleting it, lets at most the delivery that was
\* already under way go out, however many events are queued or being queued.
PauseOvershoot == \A c \in Conns : overrun[c] <= 1

\* docs/FOUNDRY_LITE.md:74, "baselines the first result set and later emits changes":
\* what the trigger state records of an initialised connection has been queued.  The
\* code keeps this but for the changes it drops: the process ended, or the connection
\* was off, between the fingerprint's commit and the insert.
ChangesEmitted == \A c \in Conns, k \in Keys :
  Exists(c) /\ polled[c] /\ ~(runner.pc \in {"check", "insert"} /\ runner.conn = c /\ runner.key = k)
    => trigger[c][k] = emitted[c][k] \/ <<c, k>> \in lapsed

\* Every queued event is claimed, or deleted with its connection, in the end: neither a
\* source that fails at every poll nor a restart leaves the queue unattended.
QueuedServed == \A n \in 1..MaxEvents :
  (\E e \in events : e.id = n /\ e.status = "queued")
    ~> ~(\E e \in events : e.id = n /\ e.status = "queued")
=============================================================================
