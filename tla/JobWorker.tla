----------------------------- MODULE JobWorker ------------------------------
(***************************************************************************)
(* production/worker.py over the job table: worker processes that poll,    *)
(* execute a job while a heartbeat thread renews its lease, and commit the *)
(* outcome.  Every queue call is two steps, because queue.py reads the     *)
(* clock before it enters the transaction: the call (which stores the      *)
(* reading in readAt) and the statement (which uses it).  Workers crash at *)
(* any point, an uncaught database error included, and are restarted by    *)
(* their supervisor.                                                       *)
(*                                                                         *)
(* Bounds: MaxTime (JobQueue) and MaxCrashes.                              *)
(***************************************************************************)
EXTENDS JobQueue

CONSTANTS
  Workers,     \* worker processes
  IdOf,        \* the worker_id each presents (--worker-id may repeat)
  MaxCrashes   \* bound on process crashes in a behaviour

ASSUME WorkerAssumption ==
  /\ IdOf \in [Workers -> Ids]
  /\ None \notin Workers
  /\ MaxCrashes \in Nat

VARIABLES
  pc,       \* where the main thread is in run_once()
  task,     \* what claim() returned: the job, its attempts and the lease token
  readAt,   \* the clock reading of the main thread's current queue call
  cands,    \* SQLite: the candidate list still to try
  lost,     \* lease_lost of the current run_once()
  outcome,  \* how execution ended, then the status fail() decided on
  hb,       \* the heartbeat thread started for each token
  crashes

workerVars == <<pc, task, readAt, cands, lost, outcome>>
vars == <<now, row, workerVars, hb, crashes>>

PCs == {"idle", "claiming", "trying", "executing", "joining", "completing",
        "failing", "failWrite", "auditing", "down"}
NoTask == [job |-> None, attempts |-> 0, token |-> None]
Tasks == [job : Jobs, attempts : Nat, token : Tokens]
NoThread == [st |-> "none", worker |-> None, job |-> None, readAt |-> 0]
Threads == [st : {"waiting", "renewing"}, worker : Workers, job : Jobs, readAt : Nat]

\* A token is fresh when neither a row, a main thread nor a heartbeat holds it.
\* (Mutant: one token for all claims.)
InUse == {row[j].token : j \in Jobs} \cup {task[w].token : w \in Workers}
           \cup {tk \in Tokens : hb[tk] # NoThread}
FixedToken == CHOOSE tk \in Tokens : TRUE
FreshToken == CHOOSE tk \in Tokens : tk \notin InUse

\* Rows that another statement in flight may have locked (SKIP LOCKED).
InFlight(w) == {hb[tk].job : tk \in {t \in Tokens : hb[t].st = "renewing"}}
                 \cup {task[v].job : v \in {u \in Workers \ {w} :
                         pc[u] \in {"completing", "failing", "failWrite"}}}

DueJobs(t) == {j \in Jobs : Due(row[j], t)}
-----------------------------------------------------------------------------
Init == /\ QueueInit
        /\ pc = [w \in Workers |-> "idle"]
        /\ task = [w \in Workers |-> NoTask]
        /\ readAt = [w \in Workers |-> 0]
        /\ cands = [w \in Workers |-> <<>>]
        /\ lost = [w \in Workers |-> FALSE]
        /\ outcome = [w \in Workers |-> "none"]
        /\ hb = [tk \in Tokens |-> NoThread]
        /\ crashes = 0

\* enqueue(): one INSERT, by the platform service.
Enqueue(j) ==
  /\ row[j].status = "absent"
  /\ row' = [row EXCEPT ![j] = NewRow(now)]
  /\ UNCHANGED <<now, workerVars, hb, crashes>>

\* run_once() calls claim(), which reads the clock.
Poll(w) ==
  /\ pc[w] = "idle"
  /\ pc' = [pc EXCEPT ![w] = "claiming"]
  /\ readAt' = [readAt EXCEPT ![w] = now]
  /\ UNCHANGED <<now, row, task, cands, lost, outcome, hb, crashes>>

\* The main thread leaves run_once().
Leave(w) == /\ pc' = [pc EXCEPT ![w] = "idle"]
            /\ task' = [task EXCEPT ![w] = NoTask]
            /\ readAt' = [readAt EXCEPT ![w] = 0]
            /\ cands' = [cands EXCEPT ![w] = <<>>]
            /\ lost' = [lost EXCEPT ![w] = FALSE]
            /\ outcome' = [outcome EXCEPT ![w] = "none"]

\* claim()'s UPDATE takes j and run_once() starts the heartbeat and the job.
Grant(w, j) ==
  LET tk == FreshToken IN
  /\ \E t \in Tokens : t \notin InUse
  /\ row' = [row EXCEPT ![j] = Leased(@, IdOf[w], tk, readAt[w])]
  /\ task' = [task EXCEPT ![w] = [job |-> j, attempts |-> row[j].attempts + 1, token |-> tk]]
  /\ hb' = [hb EXCEPT ![tk] = [st |-> "waiting", worker |-> w, job |-> j, readAt |-> 0]]
  /\ pc' = [pc EXCEPT ![w] = "executing"]
  /\ readAt' = [readAt EXCEPT ![w] = 0]
  /\ cands' = [cands EXCEPT ![w] = <<>>]
  /\ UNCHANGED <<now, lost, outcome, crashes>>

\* PostgreSQL: SELECT ... FOR UPDATE SKIP LOCKED LIMIT 1 and UPDATE, one transaction.
ClaimPostgres(w) ==
  /\ Backend = "postgres"
  /\ pc[w] = "claiming"
  /\ LET due == DueJobs(readAt[w])
         free == due \ InFlight(w)
     IN \/ \E j \in due : /\ \A k \in free : ~Precedes(row[k], row[j])
                          /\ Grant(w, j)
        \/ /\ free = {}
           /\ Leave(w)
           /\ UNCHANGED <<now, row, hb, crashes>>

\* SQLite: list the candidates in order ...
ListCandidates(w) ==
  /\ Backend = "sqlite"
  /\ pc[w] = "claiming"
  /\ \E s \in [1..Cardinality(DueJobs(readAt[w])) -> DueJobs(readAt[w])] :
       /\ \A a, b \in DOMAIN s : a < b => s[a] # s[b] /\ ~Precedes(row[s[b]], row[s[a]])
       /\ cands' = [cands EXCEPT ![w] = s]
  /\ pc' = [pc EXCEPT ![w] = "trying"]
  /\ UNCHANGED <<now, row, task, readAt, lost, outcome, hb, crashes>>

\* ... and compare-and-swap them one transaction at a time.
TryCandidate(w) ==
  /\ pc[w] = "trying"
  /\ \/ /\ cands[w] = <<>>
        /\ Leave(w)
        /\ UNCHANGED <<now, row, hb, crashes>>
     \/ /\ cands[w] # <<>>
        /\ Claimable(row[Head(cands[w])], readAt[w])
        /\ Grant(w, Head(cands[w]))
     \/ /\ cands[w] # <<>>
        /\ ~Claimable(row[Head(cands[w])], readAt[w])
        /\ cands' = [cands EXCEPT ![w] = Tail(@)]
        /\ UNCHANGED <<now, row, pc, task, readAt, lost, outcome, hb, crashes>>
-----------------------------------------------------------------------------
\* stop_heartbeat is set once the worker that started the thread stopped executing.
Stopped(tk) == LET w == hb[tk].worker IN ~(task[w].token = tk /\ pc[w] = "executing")

\* The thread's wait() times out and it calls renew(), which reads the clock.
HeartbeatCall(tk) ==
  /\ hb[tk].st = "waiting"
  /\ ~Stopped(tk)
  /\ hb' = [hb EXCEPT ![tk].st = "renewing", ![tk].readAt = now]
  /\ UNCHANGED <<now, row, workerVars, crashes>>

\* wait() returns True and the thread ends.
HeartbeatExit(tk) ==
  /\ hb[tk].st = "waiting"
  /\ Stopped(tk)
  /\ hb' = [hb EXCEPT ![tk] = NoThread]
  /\ UNCHANGED <<now, row, workerVars, crashes>>

\* renew() raises (lease lost or database error): lease_lost is set, the thread
\* ends.  The event belongs to one run_once(): a later run does not see it.
LoseLease(tk) ==
  LET w == hb[tk].worker IN
  /\ lost' = IF task[w].token = tk THEN [lost EXCEPT ![w] = TRUE] ELSE lost
  /\ hb' = [hb EXCEPT ![tk] = NoThread]

\* renew()'s UPDATE.
HeartbeatRenew(tk) ==
  LET t == hb[tk] IN
  /\ t.st = "renewing"
  /\ \/ /\ Holds(row[t.job], IdOf[t.worker], tk, t.readAt)
        /\ row' = [row EXCEPT ![t.job] = Renewed(@, t.readAt)]
        /\ hb' = [hb EXCEPT ![tk].st = "waiting", ![tk].readAt = 0]
        /\ UNCHANGED lost
     \/ /\ ~Holds(row[t.job], IdOf[t.worker], tk, t.readAt)
        /\ LoseLease(tk)
        /\ UNCHANGED row
  /\ UNCHANGED <<now, pc, task, readAt, cands, outcome, crashes>>

HeartbeatError(tk) ==
  /\ hb[tk].st = "renewing"
  /\ LoseLease(tk)
  /\ UNCHANGED <<now, row, pc, task, readAt, cands, outcome, crashes>>
-----------------------------------------------------------------------------
\* execute_job() returns or raises; stop_heartbeat is set.
Execute(w) ==
  /\ pc[w] = "executing"
  /\ \E o \in {"ok", "error"} : outcome' = [outcome EXCEPT ![w] = o]
  /\ pc' = [pc EXCEPT ![w] = "joining"]
  /\ UNCHANGED <<now, row, task, readAt, cands, lost, hb, crashes>>

\* join() returns because the thread ended, or times out on one stuck in renew();
\* lease_lost is tested, then complete() or fail() is called and reads the clock.
Join(w) ==
  /\ pc[w] = "joining"
  /\ hb[task[w].token].st # "waiting"
  /\ \/ /\ lost[w]
        /\ Leave(w)
     \/ /\ ~lost[w]
        /\ pc' = [pc EXCEPT ![w] = IF outcome[w] = "ok" THEN "completing" ELSE "failing"]
        /\ readAt' = [readAt EXCEPT ![w] = now]
        /\ UNCHANGED <<task, cands, lost, outcome>>
  /\ UNCHANGED <<now, row, hb, crashes>>

\* The main thread has committed and goes on to the audit record.
Committed(w) == /\ pc' = [pc EXCEPT ![w] = "auditing"]
                /\ task' = [task EXCEPT ![w] = NoTask]
                /\ readAt' = [readAt EXCEPT ![w] = 0]
                /\ outcome' = [outcome EXCEPT ![w] = "none"]
                /\ UNCHANGED <<cands, lost>>

\* complete()'s UPDATE; JobLeaseLostError ends run_once().
Complete(w) ==
  LET j == task[w].job
      mine == Holds(row[j], IdOf[w], task[w].token, readAt[w])
  IN
  /\ pc[w] = "completing"
  /\ \/ mine /\ row' = [row EXCEPT ![j] = Released(@, "succeeded")] /\ Committed(w)
     \/ ~mine /\ Leave(w) /\ UNCHANGED row
  /\ UNCHANGED <<now, hb, crashes>>

\* fail()'s SELECT decides the status, and run_after from another reading of the clock ...
FailRead(w) ==
  LET r == row[task[w].job]
      mine == Holds(r, IdOf[w], task[w].token, readAt[w])
  IN
  /\ pc[w] = "failing"
  /\ \/ /\ mine
        /\ outcome' = [outcome EXCEPT ![w] = FailStatus(r)]
        /\ pc' = [pc EXCEPT ![w] = "failWrite"]
        /\ readAt' = [readAt EXCEPT ![w] = now]
        /\ UNCHANGED <<task, cands, lost>>
     \/ ~mine /\ Leave(w)
  /\ UNCHANGED <<now, row, hb, crashes>>

\* ... and its UPDATE tests owner and token again: the SELECT took no lock.
FailWrite(w) ==
  LET j == task[w].job
      mine == Owned(row[j], IdOf[w], task[w].token)
  IN
  /\ pc[w] = "failWrite"
  /\ \/ mine /\ row' = [row EXCEPT ![j] = FailedRow(@, outcome[w], readAt[w])] /\ Committed(w)
     \/ ~mine /\ Leave(w) /\ UNCHANGED row
  /\ UNCHANGED <<now, hb, crashes>>

\* The audit record after the commit; a failing append is a Crash.
Audit(w) == /\ pc[w] = "auditing"
            /\ Leave(w)
            /\ UNCHANGED <<now, row, hb, crashes>>

\* The process ends (killed, or an uncaught error); its daemon threads with it.
Crash(w) ==
  /\ pc[w] # "down"
  /\ crashes < MaxCrashes
  /\ crashes' = crashes + 1
  /\ pc' = [pc EXCEPT ![w] = "down"]
  /\ task' = [task EXCEPT ![w] = NoTask]
  /\ readAt' = [readAt EXCEPT ![w] = 0]
  /\ cands' = [cands EXCEPT ![w] = <<>>]
  /\ lost' = [lost EXCEPT ![w] = FALSE]
  /\ outcome' = [outcome EXCEPT ![w] = "none"]
  /\ hb' = [tk \in Tokens |-> IF hb[tk].worker = w THEN NoThread ELSE hb[tk]]
  /\ UNCHANGED <<now, row>>

Restart(w) == /\ pc[w] = "down"
              /\ pc' = [pc EXCEPT ![w] = "idle"]
              /\ UNCHANGED <<now, row, task, readAt, cands, lost, outcome, hb, crashes>>

Tick == now < MaxTime /\ now' = now + 1 /\ UNCHANGED <<row, workerVars, hb, crashes>>
-----------------------------------------------------------------------------
Claim(w) == ClaimPostgres(w) \/ ListCandidates(w) \/ TryCandidate(w)

WorkerStep(w) == \/ Poll(w) \/ Claim(w) \/ Execute(w) \/ Join(w) \/ Complete(w)
                 \/ FailRead(w) \/ FailWrite(w) \/ Audit(w) \/ Restart(w)

\* A database call of the heartbeat returns, and a stopped thread ends.
ThreadStep(tk) == HeartbeatExit(tk) \/ HeartbeatRenew(tk)

Next == \/ \E j \in Jobs : Enqueue(j)
        \/ \E w \in Workers : WorkerStep(w) \/ Crash(w)
        \/ \E tk \in Tokens : ThreadStep(tk) \/ HeartbeatCall(tk) \/ HeartbeatError(tk)
        \/ Tick

Spec == Init /\ [][Next]_vars

\* The worker loop runs, jobs return, the database answers, a supervisor
\* restarts a process that ended; time need not advance and no heartbeat,
\* enqueue or crash has to happen.
FairSpec == /\ Spec
            /\ \A w \in Workers : WF_vars(WorkerStep(w))
            /\ \A tk \in Tokens : WF_vars(ThreadStep(tk))
-----------------------------------------------------------------------------
TypeOK ==
  /\ QueueTypeOK
  /\ pc \in [Workers -> PCs]
  /\ task \in [Workers -> Tasks \cup {NoTask}]
  /\ readAt \in [Workers -> 0..MaxTime]
  /\ cands \in [Workers -> Seq(Jobs)]
  /\ lost \in [Workers -> BOOLEAN]
  /\ outcome \in [Workers -> {"none", "ok", "error", "queued", "dead"}]
  /\ hb \in [Tokens -> Threads \cup {NoThread}]
  /\ crashes \in 0..MaxCrashes
-----------------------------------------------------------------------------
\* The token of a row is carried by nobody but the process the row names as
\* owner, working on that job: the fence that makes complete(), fail() and
\* renew() refuse every earlier claim of the job, a zombie heartbeat's included.
TokenFencing ==
  /\ \A w \in Workers, j \in Jobs :
       task[w].token # None /\ row[j].token = task[w].token =>
         task[w].job = j /\ row[j].status = "running" /\ row[j].owner = IdOf[w]
  /\ \A v, w \in Workers :
       task[v].token # None /\ task[v].token = task[w].token => v = w
  /\ \A tk \in Tokens, j \in Jobs :
       hb[tk].st # "none" /\ row[j].token = tk =>
         hb[tk].job = j /\ row[j].status = "running" /\ row[j].owner = IdOf[hb[tk].worker]

\* A job waits to be retried only while it has attempts left, and is dead only
\* when they are used up: fail()'s decision, made on a row read in an earlier
\* statement, was never about an older attempt.  (attempts itself may exceed
\* max_attempts: claim() does not look at it.)
RetryBudget ==
  \A j \in Jobs : /\ row[j].status = "queued" => row[j].attempts < MaxAttempts
                  /\ row[j].status = "dead" => row[j].attempts >= MaxAttempts

\* No later statement of any worker, heartbeat or claim changes a job that
\* succeeded or is dead.
OutcomeFinal == [][\A j \in Jobs : row[j].status \in Terminal => row'[j] = row[j]]_vars

\* claim() takes a running job from its holder only after the lease has passed,
\* whichever clock reading and candidate list it works from.
LeaseRespected ==
  [][\A j \in Jobs : row[j].status = "running" /\ row'[j].attempts # row[j].attempts
        => row[j].leasedUntil < now]_vars

\* A job stops running only by the process whose claim the row still carries:
\* a worker that lost its lease commits nothing, success or failure.
OutcomeByHolder ==
  [][\A j \in Jobs : row[j].status = "running" /\ row'[j].status # "running"
        => \E w \in Workers : /\ task[w].job = j
                              /\ task[w].token = row[j].token
                              /\ task[w].attempts = row[j].attempts
                              /\ pc[w] \in {"completing", "failWrite"}]_vars

\* A job that failed is not started again before the run_after fail() gave it.
BackoffRespected ==
  [][\A j \in Jobs : row[j].status = "queued" /\ row'[j].status = "running"
        => row[j].runAfter <= now]_vars

\* No job is left behind, whatever happens to the workers.  One whose worker crashed or
\* stalled does not stay leased to it: once the lease has passed somebody renews it,
\* commits, or takes the job over.  (claim() asks for run_after too, which SQLite's
\* compare-and-swap can leave ahead.)  And one that is queued is started when it is due.
Stranded(j) == row[j].status = "running" /\ row[j].leasedUntil < now /\ row[j].runAfter <= now
Waiting(j) == row[j].status = "queued" /\ row[j].runAfter <= now
NoneLeftBehind == /\ \A j \in Jobs : Stranded(j) ~> ~Stranded(j)
                  /\ \A j \in Jobs : Waiting(j) ~> row[j].status = "running"

\* The queue implements fenced leases: a token stands for the grant's number.
Fenced == INSTANCE FencedLease WITH
  Clients <- Workers,
  state <- [j \in Jobs |-> IF row[j].status = "running" THEN "leased" ELSE row[j].status],
  grants <- [j \in Jobs |-> row[j].attempts],
  grant <- [w \in Workers |-> IF task[w].token = None THEN None
                              ELSE [job |-> task[w].job, number |-> task[w].attempts]]

\* Every step of the workers is a step of module FencedLease or leaves it alone.
FencedSpec == Fenced!Spec
-----------------------------------------------------------------------------
(* The inductive invariant behind the safety properties. *)

Busy == {"executing", "joining", "completing", "failing", "failWrite"}

\* A main thread holds a task exactly between claim() and the end of its run.
Working == \A w \in Workers : /\ pc[w] \in Busy => task[w] \in Tasks
                              /\ pc[w] \notin Busy => task[w] = NoTask

\* A row has a lease exactly while it is running.
LeaseColumns == \A j \in Jobs : row[j].token # None <=> row[j].status = "running"

DistinctTokens == \A j, k \in Jobs :
  row[j].token # None /\ row[j].token = row[k].token => j = k

\* The attempt a worker was granted is the row's until somebody else claims it.
AttemptsAgree == \A w \in Workers, j \in Jobs :
  task[w].token # None /\ row[j].token = task[w].token => task[w].attempts = row[j].attempts

\* fail()'s decision still fits the row while its UPDATE would match.
Decided == \A w \in Workers : pc[w] = "failWrite" =>
  /\ outcome[w] \in {"queued", "dead"}
  /\ row[task[w].job].token = task[w].token => outcome[w] = FailStatus(row[task[w].job])

\* Clock readings are old, never ahead.
ReadInPast == \A w \in Workers : readAt[w] <= now

FencingInv == /\ TypeOK /\ Working /\ LeaseColumns /\ DistinctTokens /\ AttemptsAgree
              /\ Decided /\ ReadInPast /\ TokenFencing /\ RetryBudget
=============================================================================
