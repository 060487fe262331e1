------------------------------ MODULE Platform ------------------------------
(***************************************************************************)
(* Systems, credentials, connections and the chat of the production        *)
(* platform (production/service.py, chat.py), its secret store             *)
(* (production/security.py), and the job handlers that compose a           *)
(* connection and check its health.                                        *)
(*                                                                         *)
(* The queue is the abstract one of FencedLease, which JobWorker           *)
(* implements: a job may be granted again while an earlier grant's handler *)
(* still runs, and only the newest grant settles it.  What a composition   *)
(* yields is Composition's Compose on the systems' profiles.               *)
(*                                                                         *)
(* A request is a list of steps, one per transaction, run by an API        *)
(* thread; Todo says which requests a client makes.  Every request has     *)
(* passed the role test.  Discovery is a constant: Profile gives what it   *)
(* yields for a system.  Audit records, names, descriptions and time are   *)
(* left out.  Bounds: the requests of Scripts, the identifiers in Conns,   *)
(* Jobs and Refs, and MaxGrants.                                           *)
(***************************************************************************)
EXTENDS Composition

CONSTANTS
  Systems, Registered,  \* systems, and those that exist already
  Profile,              \* what discovery yields for a system, or Null
  Kind,                 \* its credential_kind, "none" or another
  Clients, Replica,     \* API threads and the process each belongs to
  Workers,
  Conns, Jobs, Refs,    \* identifiers that new_id() may return
  Keys, FirstKey,       \* vault keyring, and the version active at start
  Values,               \* credentials
  Scripts,              \* what the clients may be about to ask for
  MaxTargets,           \* of a connection
  MaxGrants, MaxAttempts

\* The requests, by route.
Calls ==
  [op : {"create_system"}, system : Systems, value : Values \cup {Null}]
    \cup [op : {"set_credentials"}, system : Systems, value : Values]
    \cup [op : {"rotate"}, key : Keys]
    \cup [op : {"connect"}, source : Systems, targets : Seq(Systems)]
    \cup [op : {"check"}, conn : Conns]
    \cup [op : {"say"}, attach : Seq(Systems), source : Systems \cup {Null}, target : Systems \cup {Null},
          goal : BOOLEAN, build : BOOLEAN]

\* The rows of the tables, the draft of a session, and what a job is.  Some targets, not
\* too many.
TargetLists == UNION {[1..n -> Systems] : n \in 1..MaxTargets}
SystemRow == [ref : Refs \cup {Null}, status : {"registered", "configured", "credentials_required", "needs_discovery"}]
Envelope == [system : Systems, value : Values, key : Keys]
ConnRow == [source : Systems, targets : TargetLists, contract : {Null, "open", "clear"},
            status : {"queued", "needs_discovery", "review_required", "shadow", "degraded", "healthy",
                      "needs_composition"}]
Draft == [systems : Seq(Systems), source : Systems \cup {Null}, targets : Seq(Systems), goal : BOOLEAN,
          conn : Conns \cup {Null}]
Kinds == {"compose_connection", "connection_health"}
Work == [kind : Kinds, conn : Conns]

\* Identifiers have a prefix that tells systems from connections; Null is no row.
ASSUME PlatformAssumption ==
  /\ Registered \subseteq Systems
  /\ Systems \cap Conns = {}
  /\ Null \notin Systems \cup Conns \cup Values \cup {"open", "clear"} /\ Null \notin Jobs /\ Null \notin Refs
  /\ Null \notin SystemRow \cup Envelope \cup ConnRow \cup Draft \cup Work
  /\ Replica \in [Clients -> Range(Replica)]
  /\ FirstKey \in Keys
  /\ \A s \in Systems : Profile[s] = Null \/ WellFormed(Profile[s])
  /\ Scripts \subseteq [Clients -> Seq(Calls)]
  /\ MaxTargets \in Nat /\ MaxAttempts \in Nat \ {0} /\ MaxGrants \in Nat /\ MaxAttempts <= MaxGrants

VARIABLES
  system, secret, conn, chat,       \* tables
  active,                           \* active_key_version of a replica's store
  jobState, grants, grant, work,    \* the queue, and what each job is
  todo, at, mem,                    \* clients: requests left, place, locals
  doing,                            \* workers: place and row read
  overlapped, orphans, mixed, said, lastPut, raced   \* auxiliary, see the properties

queueVars == <<jobState, grants, grant>>
clientVars == <<todo, at, mem>>
history == <<overlapped, orphans, mixed, said, lastPut, raced>>
vars == <<system, secret, conn, chat, active, queueVars, work, clientVars, doing, history>>

Queue == INSTANCE FencedLease WITH Clients <- Workers, None <- Null,
           state <- jobState, grants <- grants, grant <- grant

NoMem == [ref |-> Null, value |-> Null, rows |-> {}, conn |-> Null, draft |-> Null]
Idle == [step |-> "idle", row |-> Null, issues |-> FALSE]
EmptyDraft == [systems |-> <<>>, source |-> Null, targets |-> <<>>, goal |-> FALSE, conn |-> Null]

Init ==
  /\ system = [s \in Systems |-> IF s \in Registered THEN [ref |-> Null, status |-> "registered"] ELSE Null]
  /\ secret = [r \in Refs |-> Null]
  /\ conn = [c \in Conns |-> Null]
  /\ chat = EmptyDraft
  /\ active = [r \in Range(Replica) |-> FirstKey]
  /\ Queue!Init /\ work = [j \in Jobs |-> Null]
  /\ todo \in Scripts /\ at = [c \in Clients |-> "idle"] /\ mem = [c \in Clients |-> NoMem]
  /\ doing = [w \in Workers |-> Idle]
  /\ overlapped = {} /\ orphans = {} /\ mixed = FALSE /\ said = {} /\ raced = {}
  /\ lastPut = [r \in Refs |-> Null]
-----------------------------------------------------------------------------
Fresh(ids, table) == CHOOSE i \in ids : table[i] = Null
Free(ids, table) == \E i \in ids : table[i] = Null

Asked(c, op) == todo[c] # <<>> /\ Head(todo[c]).op = op
Starts(c, op) == at[c] = "idle" /\ Asked(c, op)
Goto(c, step, m) == at' = [at EXCEPT ![c] = step] /\ mem' = [mem EXCEPT ![c] = m] /\ UNCHANGED todo
Return(c) == /\ at' = [at EXCEPT ![c] = "idle"]
             /\ mem' = [mem EXCEPT ![c] = NoMem]
             /\ todo' = [todo EXCEPT ![c] = Tail(@)]

(* Secrets: put() is one transaction, with the version active in this process. *)
Put(c, r, s, v) == secret' = [secret EXCEPT ![r] = [system |-> s, value |-> v, key |-> active[Replica[c]]]]
NotePut(r, v) ==
  /\ lastPut' = [lastPut EXCEPT ![r] = v]
  /\ raced' = IF \E d \in Clients : at[d] = "reput" /\ mem[d].ref = r THEN raced \cup {r} ELSE raced \ {r}

\* create_system: the envelope is committed before the row that refers to it.
SystemStatus(s, credentials) ==
  IF Profile[s] = Null THEN "needs_discovery"
  ELSE IF credentials \/ Kind[s] = "none" THEN "configured" ELSE "credentials_required"

\* new_id() returns what nobody else was given.
NewId(s) == system[s] = Null /\ \A d \in Clients : at[d] = "insert" => Head(todo[d]).system # s

CreateSystem(c) ==
  LET call == Head(todo[c]) IN
  /\ Starts(c, "create_system") /\ NewId(call.system)
  /\ IF call.value = Null
     THEN Goto(c, "insert", NoMem) /\ UNCHANGED <<secret, lastPut, raced>>
     ELSE /\ Free(Refs, secret)
          /\ LET r == Fresh(Refs, secret) IN
             Put(c, r, call.system, call.value) /\ NotePut(r, call.value)
               /\ Goto(c, "insert", [NoMem EXCEPT !.ref = r])
  /\ UNCHANGED <<system, conn, chat, active, queueVars, work, doing, overlapped, orphans, mixed, said>>

InsertSystem(c) ==
  LET s == Head(todo[c]).system IN
  /\ at[c] = "insert"
  /\ system' = [system EXCEPT ![s] = [ref |-> mem[c].ref, status |-> SystemStatus(s, mem[c].ref # Null)]]
  /\ Return(c)
  /\ UNCHANGED <<secret, conn, chat, active, queueVars, work, doing, history>>

\* (Mutant: the row is pointed at a new envelope before the envelope exists.)
EarlyReadSystem(c) ==
  LET s == Head(todo[c]).system
      r == Fresh(Refs, secret) IN
  /\ Starts(c, "set_credentials") /\ Free(Refs, secret)
  /\ IF system[s] = Null THEN Return(c) /\ UNCHANGED system
     ELSE /\ Goto(c, "put", [NoMem EXCEPT !.ref = IF system[s].ref # Null THEN system[s].ref ELSE r])
          /\ system' = [system EXCEPT ![s].ref = IF @ # Null THEN @ ELSE r]
  /\ UNCHANGED <<secret, conn, chat, active, queueVars, work, doing, history>>

\* set_credentials: the row is read, the envelope put, the row updated.
ReadSystem(c) ==
  LET s == Head(todo[c]).system IN
  /\ Starts(c, "set_credentials")
  /\ IF system[s] = Null THEN Return(c)
     ELSE Goto(c, "put", [NoMem EXCEPT !.ref = system[s].ref])
  /\ UNCHANGED <<system, secret, conn, chat, active, queueVars, work, doing, history>>

PutSecret(c) ==
  LET call == Head(todo[c])
      r == IF mem[c].ref # Null THEN mem[c].ref ELSE Fresh(Refs, secret) IN
  /\ at[c] = "put" /\ (mem[c].ref # Null \/ Free(Refs, secret))
  /\ Put(c, r, call.system, call.value) /\ NotePut(r, call.value)
  /\ Goto(c, "point", [NoMem EXCEPT !.ref = r])
  /\ UNCHANGED <<system, conn, chat, active, queueVars, work, doing, overlapped, orphans, mixed, said>>

PointSystem(c) ==
  LET s == Head(todo[c]).system IN
  /\ at[c] = "point"
  /\ system' = [system EXCEPT ![s] =
       [ref |-> mem[c].ref, status |-> IF Profile[s] # Null THEN "configured" ELSE "needs_discovery"]]
  /\ Return(c)
  /\ UNCHANGED <<secret, conn, chat, active, queueVars, work, doing, history>>

\* rotate_tenant: list the envelopes, make the target version active in this process,
\* then decrypt and put back one envelope after the other.
ListSecrets(c) ==
  /\ Starts(c, "rotate")
  /\ Goto(c, "activate", [NoMem EXCEPT !.rows =
       {r \in Refs : secret[r] # Null /\ secret[r].key # Head(todo[c]).key}])
  /\ UNCHANGED <<system, secret, conn, chat, active, queueVars, work, doing, history>>

Activate(c) ==
  /\ at[c] = "activate"
  /\ active' = [active EXCEPT ![Replica[c]] = Head(todo[c]).key]
  /\ Goto(c, "resolve", mem[c])
  /\ UNCHANGED <<system, secret, conn, chat, queueVars, work, doing, history>>

Resolve(c) == \E r \in mem[c].rows :
  /\ at[c] = "resolve"
  /\ Goto(c, "reput", [mem[c] EXCEPT !.ref = r, !.value = secret[r].value])
  /\ UNCHANGED <<system, secret, conn, chat, active, queueVars, work, doing, history>>

Reput(c) ==
  /\ at[c] = "reput"
  /\ Put(c, mem[c].ref, secret[mem[c].ref].system, mem[c].value)
  /\ Goto(c, "resolve", [mem[c] EXCEPT !.rows = @ \ {mem[c].ref}, !.ref = Null, !.value = Null])
  /\ UNCHANGED <<system, conn, chat, active, queueVars, work, doing, history>>

EndRotation(c) ==
  /\ at[c] = "resolve" /\ mem[c].rows = {}
  /\ active' = [active EXCEPT ![Replica[c]] = Head(todo[c]).key]
  /\ Return(c)
  /\ UNCHANGED <<system, secret, conn, chat, queueVars, work, doing, history>>
-----------------------------------------------------------------------------
(* Connections: the row is inserted, its job enqueued in another transaction. *)
Exists(s) == s \in Systems /\ system[s] # Null

Insert(c, source, targets, draft) ==
  /\ Free(Conns, conn)
  /\ LET i == Fresh(Conns, conn) IN
     /\ conn' = [conn EXCEPT ![i] = [source |-> source, targets |-> targets, status |-> "queued", contract |-> Null]]
     /\ Goto(c, "enqueue", [NoMem EXCEPT !.conn = i, !.draft = draft])

Submit(kind, i) ==
  /\ Free(Jobs, work)
  /\ LET j == Fresh(Jobs, work) IN
     Queue!Submit(j) /\ work' = [work EXCEPT ![j] = [kind |-> kind, conn |-> i]]

\* Source and targets exist and are distinct.
Connectable(source, targets) ==
  /\ Len(targets) \in 1..MaxTargets
  /\ Exists(source) /\ \A t \in Range(targets) : Exists(t)
  /\ source \notin Range(targets)

CreateConnection(c) ==
  LET call == Head(todo[c]) IN
  /\ Starts(c, "connect")
  /\ IF Connectable(call.source, call.targets)
     THEN Insert(c, call.source, call.targets, Null)
     ELSE Return(c) /\ UNCHANGED conn
  /\ UNCHANGED <<system, secret, chat, active, queueVars, work, doing, history>>

Enqueue(c) ==
  /\ at[c] = "enqueue"
  /\ Submit("compose_connection", mem[c].conn)
  /\ IF Asked(c, "say") THEN Goto(c, "save", [mem[c] EXCEPT !.draft.conn = mem[c].conn]) ELSE Return(c)
  /\ UNCHANGED <<system, secret, conn, chat, active, doing, history>>

\* queue_health_check
Check(c) ==
  LET i == Head(todo[c]).conn IN
  /\ Starts(c, "check")
  /\ IF conn[i] = Null THEN UNCHANGED <<queueVars, work>> ELSE Submit("connection_health", i)
  /\ Return(c)
  /\ UNCHANGED <<system, secret, conn, chat, active, doing, history>>

(* The chat.  A message may attach systems, name a source, a target and a goal, and   *)
(* ask to build.  Setdefault keeps what the draft already has; naming replaces it.    *)

\* The elements of a list at the given places, in order.
Nth(places, k) == CHOOSE i \in places : Cardinality({j \in places : j <= i}) = k
Picked(list, places) == [k \in 1..Cardinality(places) |-> list[Nth(places, k)]]

\* The systems a message adds to those of the draft: dict.fromkeys keeps the first of each.
Added(old, attach) ==
  Picked(attach, {i \in DOMAIN attach : /\ Exists(attach[i]) /\ attach[i] \notin Range(old)
                                       /\ \A j \in 1..(i - 1) : attach[j] # attach[i]})
Extended(draft, call, systems) ==
  LET both == Len(systems) >= 2 /\ \E s \in Range(call.attach) : Exists(s)
  IN  [draft EXCEPT
        !.systems = systems,
        !.source = IF Exists(call.source) THEN call.source ELSE IF both /\ @ = Null THEN systems[1] ELSE @,
        !.targets = IF Exists(call.target) THEN <<call.target>> ELSE IF both /\ @ = <<>> THEN Tail(systems) ELSE @,
        !.goal = @ \/ call.goal]
\* (Mutant: the systems of the message replace those of the draft.)
ForgetfulReplied(draft, call) == Extended(draft, call, Added(<<>>, call.attach))
Replied(draft, call) == Extended(draft, call, draft.systems \o Added(draft.systems, call.attach))
Complete(draft) == draft.source # Null /\ draft.targets # <<>> /\ draft.goal

ReadDraft(c) ==
  /\ Starts(c, "say")
  /\ Goto(c, "respond", [NoMem EXCEPT !.draft = chat])
  /\ mixed' = (mixed \/ \E d \in Clients \ {c} : Asked(d, "say") /\ at[d] # "idle")
  /\ UNCHANGED <<system, secret, conn, chat, active, queueVars, work, doing,
                 overlapped, orphans, said, lastPut, raced>>

\* The reply is computed; when it says "compose" the connection is inserted, and a
\* connection that the service refuses ends the call with nothing saved.
Respond(c) ==
  LET call == Head(todo[c])
      draft == Replied(mem[c].draft, call) IN
  /\ at[c] = "respond"
  /\ IF call.build /\ Complete(draft)
     THEN IF Connectable(draft.source, draft.targets)
          THEN Insert(c, draft.source, draft.targets, draft)
          ELSE Return(c) /\ UNCHANGED conn
     ELSE Goto(c, "save", [mem[c] EXCEPT !.draft = draft]) /\ UNCHANGED conn
  /\ UNCHANGED <<system, secret, chat, active, queueVars, work, doing, history>>

SaveDraft(c) ==
  /\ at[c] = "save"
  /\ chat' = mem[c].draft
  /\ said' = said \cup (Range(Head(todo[c]).attach) \cap Range(mem[c].draft.systems)) \cup ({mem[c].conn} \ {Null})
  /\ Return(c)
  /\ UNCHANGED <<system, secret, conn, active, queueVars, work, doing,
                 overlapped, orphans, mixed, lastPut, raced>>

\* A statement fails: the call ends where it is.  A rotation leaves its version active.
Fail(c) ==
  /\ at[c] # "idle"
  /\ active' = IF at[c] \in {"resolve", "reput"}
               THEN [active EXCEPT ![Replica[c]] = Head(todo[c]).key] ELSE active
  /\ orphans' = IF at[c] = "enqueue" THEN orphans \cup {mem[c].conn} ELSE orphans
  /\ Return(c)
  /\ UNCHANGED <<system, secret, conn, chat, queueVars, work, doing, overlapped, mixed, said, lastPut, raced>>

\* An API process is replaced: its calls are lost and its store is built anew.
Restart(r) ==
  LET lost == {c \in Clients : Replica[c] = r /\ at[c] # "idle"} IN
  /\ lost # {} \/ active[r] # FirstKey
  /\ active' = [active EXCEPT ![r] = FirstKey]
  /\ orphans' = orphans \cup {mem[c].conn : c \in {d \in lost : at[d] = "enqueue"}}
  /\ at' = [c \in Clients |-> IF c \in lost THEN "idle" ELSE at[c]]
  /\ mem' = [c \in Clients |-> IF c \in lost THEN NoMem ELSE mem[c]]
  /\ todo' = [c \in Clients |-> IF c \in lost THEN Tail(todo[c]) ELSE todo[c]]
  /\ UNCHANGED <<system, secret, conn, chat, queueVars, work, doing, overlapped, mixed, said, lastPut, raced>>
-----------------------------------------------------------------------------
(* The handlers, execute_job *)
Working(w) == work[grant[w].job]

Take(w, j) ==
  /\ doing[w] = Idle /\ grants[j] < MaxGrants
  /\ Queue!Grant(w, j)
  /\ doing' = [doing EXCEPT ![w].step = "read"]
  /\ UNCHANGED <<system, secret, conn, chat, active, work, clientVars, history>>

ReadRow(w) ==
  LET i == Working(w).conn IN
  /\ doing[w].step = "read"
  /\ doing' = [doing EXCEPT ![w] = [step |-> IF Working(w).kind = "connection_health" THEN "inspect" ELSE "write",
                                    row |-> conn[i], issues |-> FALSE]]
  /\ overlapped' = IF \E v \in Workers \ {w} : doing[v].step \in {"inspect", "write"} /\ Working(v).conn = i
                   THEN overlapped \cup {i} ELSE overlapped
  /\ UNCHANGED <<system, secret, conn, chat, active, queueVars, work, clientVars,
                 orphans, mixed, said, lastPut, raced>>

\* _health_connection: profiles and credentials of the row's systems.
Inspect(w) ==
  /\ doing[w].step = "inspect"
  /\ doing' = [doing EXCEPT ![w].step = "write",
       ![w].issues = \E s \in {doing[w].row.source} \cup Range(doing[w].row.targets) :
                        Profile[s] = Null \/ (Kind[s] # "none" /\ system[s].ref = Null)]
  /\ UNCHANGED <<system, secret, conn, chat, active, queueVars, work, clientVars, history>>

\* (Mutant: a connection that has been composed is reported as one that has not.)
ForgetfulHealth(row, issues) == IF issues THEN "degraded" ELSE "needs_composition"
Health(row, issues) ==
  IF issues THEN "degraded" ELSE IF row.contract # Null THEN "healthy" ELSE "needs_composition"
\* The operation a target is written with: the first that writes, or the first of all.
Writable == {"create", "update", "upsert", "publish", "custom"}
Intent(p) ==
  LET writing == SelectSeq(p.operations, LAMBDA op : op.kind \in Writable)
      op == IF writing # <<>> THEN writing[1] ELSE p.operations[1]
  IN  [profile |-> p, object |-> op.object, operation |-> op.id]

\* _compose_connection: the status it writes, and the contract, if it writes one: "open"
\* while the composition has questions, "clear" when it has none.
Unfinished(status) == [status |-> status, contract |-> Null]
Judgement(result) ==
  CASE result = Null                                     -> Unfinished("review_required")
    [] result # Null /\ ~(result.ready /\ result.questions = {}) ->
         [status |-> "review_required", contract |-> "open"]
    [] OTHER                                             -> [status |-> "shadow", contract |-> "clear"]
CompositionOf(source, targets) ==
  Compose(source, IF source.objects = <<>> THEN Null ELSE source.objects[1].id,
          [k \in DOMAIN targets |-> Intent(targets[k])])
Composed(source, targets) ==
  CASE Null \in {source} \cup Range(targets) -> Unfinished("needs_discovery")
    [] Null \notin {source} \cup Range(targets) /\ \E p \in Range(targets) : p.operations = <<>> ->
         Unfinished("review_required")
    [] OTHER -> Judgement(CompositionOf(source, targets))
OutcomeOf(source, targets) == Composed(Profile[source], [k \in DOMAIN targets |-> Profile[targets[k]]])
Compositions == {[source |-> s, targets |-> t, outcome |-> OutcomeOf(s, t)] : s \in Systems, t \in TargetLists}
Outcome(row) == (CHOOSE o \in Compositions : o.source = row.source /\ o.targets = row.targets).outcome

WriteBack(w) ==
  LET i == Working(w).conn
      row == doing[w].row
      health == [status |-> Health(row, doing[w].issues), contract |-> Null]
      new == IF Working(w).kind = "connection_health" THEN health ELSE Outcome(row) IN
  /\ doing[w].step = "write"
  /\ conn' = [conn EXCEPT ![i].status = new.status, ![i].contract = IF new.contract = Null THEN @ ELSE new.contract]
  /\ doing' = [doing EXCEPT ![w] = [Idle EXCEPT !.step = "done"]]
  /\ UNCHANGED <<system, secret, chat, active, queueVars, work, clientVars, history>>

\* Only the newest grant settles the job; a worker that lost it just goes on.
Newest(w) == grant[w].number = grants[grant[w].job]
\* (Mutant: a handler that failed is settled as one that succeeded.)
SwallowingSettle(w, outcome) == IF Newest(w) THEN Queue!Settle(w, "succeeded") ELSE Queue!Drop(w)
Settle(w, outcome) == IF Newest(w) THEN Queue!Settle(w, outcome) ELSE Queue!Drop(w)

Finish(w) ==
  /\ doing[w].step = "done"
  /\ Settle(w, "succeeded")
  /\ doing' = [doing EXCEPT ![w] = Idle]
  /\ UNCHANGED <<system, secret, conn, chat, active, work, clientVars, history>>

HandlerFails(w) ==
  /\ doing[w].step \in {"read", "inspect", "write"}
  /\ Settle(w, IF grants[grant[w].job] < MaxAttempts THEN "queued" ELSE "dead")
  /\ doing' = [doing EXCEPT ![w] = Idle]
  /\ UNCHANGED <<system, secret, conn, chat, active, work, clientVars, history>>

WorkerCrash(w) ==
  /\ doing[w] # Idle
  /\ grants[grant[w].job] < MaxGrants \/ ~Newest(w)
  /\ Queue!Drop(w)
  /\ doing' = [doing EXCEPT ![w] = Idle]
  /\ UNCHANGED <<system, secret, conn, chat, active, work, clientVars, history>>
-----------------------------------------------------------------------------
ApiStep(c) ==
  \/ CreateSystem(c) \/ InsertSystem(c)
  \/ ReadSystem(c) \/ PutSecret(c) \/ PointSystem(c)
  \/ ListSecrets(c) \/ Activate(c) \/ Resolve(c) \/ Reput(c) \/ EndRotation(c)
  \/ CreateConnection(c) \/ Enqueue(c) \/ Check(c)
  \/ ReadDraft(c) \/ Respond(c) \/ SaveDraft(c)
WorkerStep(w) ==
  (\E j \in Jobs : Take(w, j)) \/ ReadRow(w) \/ Inspect(w) \/ WriteBack(w) \/ Finish(w)
Next == \/ \E c \in Clients : ApiStep(c) \/ Fail(c)
        \/ \E r \in Range(Replica) : Restart(r)
        \/ \E w \in Workers : WorkerStep(w) \/ HandlerFails(w) \/ WorkerCrash(w)

\* Server threads and worker loops run on; failures are not owed.
Spec == Init /\ [][Next]_vars /\ \A c \in Clients : WF_vars(ApiStep(c))
             /\ \A w \in Workers : WF_vars(WorkerStep(w))
-----------------------------------------------------------------------------
\* A connection is composed in the end (it leaves "queued"), whatever workers crash or
\* are overtaken, unless its job died or its creator failed between the row and the job.
ComposedInTheEnd == \A i \in Conns :
  (conn[i] # Null) ~> \/ conn[i] # Null /\ conn[i].status # "queued"
                      \/ i \in orphans
                      \/ \E j \in Jobs : work[j] = [kind |-> "compose_connection", conn |-> i] /\ jobState[j] = "dead"

\* What a connection's status claims is so, as long as no two handlers of that
\* connection overlapped (then a health check may report one as not composed that is).
StatusTrue(row) ==
  LET systems == {row.source} \cup Range(row.targets) IN
  CASE row.status = "queued"            -> row.contract = Null
    [] row.status = "needs_discovery"   -> \E s \in systems : Profile[s] = Null
    [] row.status = "review_required"   -> row.contract # "clear"
    [] row.status = "shadow"            -> row.contract = "clear"
    [] row.status = "needs_composition" -> row.contract = Null
    [] row.status = "healthy"           -> /\ row.contract # Null
                                           /\ \A s \in systems : Kind[s] = "none" \/ system[s].ref # Null
    [] row.status = "degraded"          -> TRUE
StatusHonest == \A i \in Conns : conn[i] # Null /\ i \notin overlapped => StatusTrue(conn[i])

\* A system never refers to an envelope that is missing, another system's, or sealed
\* with an unknown key, wherever a call or a process stops; and the envelope holds what
\* was put last, unless that put fell between a rotation's read and its write.
CredentialsIntact == \A s \in Systems :
  system[s] # Null /\ system[s].ref # Null =>
    LET e == secret[system[s].ref] IN
    /\ e # Null /\ e.system = s /\ e.key \in Keys
    /\ system[s].ref \notin raced => e.value = lastPut[system[s].ref]

\* Unless two messages of the session overlapped, its draft holds every system attached
\* by a message that was saved, and names a connection if one was built.
DraftKept == ~mixed =>
  /\ said \cap Systems \subseteq Range(chat.systems)
  /\ said \cap Conns # {} => chat.conn \in said

\* "The connection will remain review-gated if any business meaning is ambiguous"
\* (chat.py): a composition with open questions never makes a connection run.
ReviewGateKept == \A i \in Conns :
  conn[i] # Null /\ conn[i].contract = "open" => conn[i].status \notin {"shadow", "healthy"}
=============================================================================
