------------------------------ MODULE JobQueue ------------------------------
(***************************************************************************)
(* The durable job table of production/queue.py (DurableJobQueue) and the  *)
(* clock its statements read.  A row carries what the statements test and  *)
(* assign; payload, tenant, kind and last_error are left out.  The         *)
(* operators below are the WHERE clauses and SET lists of the statements;  *)
(* module JobWorker runs them from concurrent worker processes.            *)
(*                                                                         *)
(* Time is a counter.  Bounds: MaxTime ends the clock's advance.           *)
(***************************************************************************)
EXTENDS Integers, Sequences, FiniteSets

CONSTANTS
  Jobs,         \* job identifiers
  Ids,          \* the lease_owner strings workers present
  Tokens,       \* lease tokens (uuid4 values); reused only once nobody holds them
  None,         \* SQL NULL
  MaxAttempts,  \* max_attempts of every job
  LeaseTime,    \* lease_seconds
  RetryDelay,   \* retry_delay_seconds of fail()
  MaxTime,      \* bound on the clock
  Backend       \* "postgres" or "sqlite": which path claim() takes

ASSUME QueueAssumption ==
  /\ IsFiniteSet(Jobs)
  /\ None \notin Jobs \cup Ids \cup Tokens
  /\ MaxAttempts \in Nat \ {0}
  /\ LeaseTime \in Nat \ {0}
  /\ RetryDelay \in Nat
  /\ MaxTime \in Nat \ {0}
  /\ Backend \in {"postgres", "sqlite"}

VARIABLES
  now,   \* datetime.now(timezone.utc)
  row    \* the platform_jobs table

Statuses == {"absent", "queued", "running", "succeeded", "dead"}
Terminal == {"succeeded", "dead"}

Rows == [status : Statuses, attempts : Nat, runAfter : Nat, createdAt : Nat,
         owner : Ids \cup {None}, token : Tokens \cup {None}, leasedUntil : Nat]

\* No row: the job has not been enqueued.
AbsentRow == [status |-> "absent", attempts |-> 0, runAfter |-> 0, createdAt |-> 0,
              owner |-> None, token |-> None, leasedUntil |-> 0]

\* The row enqueue() inserts at instant t; leased_until NULL is 0.
NewRow(t) == [AbsentRow EXCEPT !.status = "queued", !.runAfter = t, !.createdAt = t]

\* The part of claim()'s condition that the SQLite compare-and-swap repeats.
\* (Mutants: the status test dropped, the expiry test dropped, no takeover of
\* expired leases.)
ClaimableAnyStatus(r, t) == r.leasedUntil < t
ClaimableRunning(r, t) == r.status \in {"queued", "running"}
ClaimableQueued(r, t) == r.status = "queued"

Claimable(r, t) == \/ r.status = "queued"
                   \/ r.status = "running" /\ r.leasedUntil < t

\* The condition under which claim() lists a row.  (Mutant: no run_after test.)
DueAnyTime(r, t) == Claimable(r, t)
Due(r, t) == r.runAfter <= t /\ Claimable(r, t)

\* ORDER BY run_after, created_at.
Precedes(r, s) == \/ r.runAfter < s.runAfter
                  \/ r.runAfter = s.runAfter /\ r.createdAt < s.createdAt

\* The row still names this owner and this claim.  (Mutant: by owner only.)
OwnedById(r, id, tk) == r.owner = id
Owned(r, id, tk) == r.owner = id /\ r.token = tk

\* The guard shared by renew(), complete() and fail()'s SELECT.
Holds(r, id, tk, t) == /\ r.status = "running"
                       /\ Owned(r, id, tk)
                       /\ r.leasedUntil >= t

\* claim()'s SET list.  (Mutant: attempts not counted.)
LeasedUncounted(r, id, tk, t) ==
  [r EXCEPT !.status = "running", !.owner = id, !.token = tk, !.leasedUntil = t + LeaseTime]
Leased(r, id, tk, t) ==
  [r EXCEPT !.status = "running", !.owner = id, !.token = tk,
            !.leasedUntil = t + LeaseTime, !.attempts = @ + 1]

\* renew()'s SET list.
Renewed(r, t) == [r EXCEPT !.leasedUntil = t + LeaseTime]

\* complete() and fail() clear the lease and write the new status.
Released(r, st) ==
  [r EXCEPT !.status = st, !.owner = None, !.token = None, !.leasedUntil = 0]

\* The status fail() decides on.  (Mutant: one attempt too many.)
FailStatusLate(r) == IF r.attempts > MaxAttempts THEN "dead" ELSE "queued"
FailStatus(r) == IF r.attempts >= MaxAttempts THEN "dead" ELSE "queued"

\* fail()'s SET list: the lease is cleared and run_after backs off from t.
FailedRow(r, st, t) == [Released(r, st) EXCEPT !.runAfter = t + RetryDelay]

QueueTypeOK == now \in 1..MaxTime /\ row \in [Jobs -> Rows]

QueueInit == now = 1 /\ row = [j \in Jobs |-> AbsentRow]
=============================================================================
