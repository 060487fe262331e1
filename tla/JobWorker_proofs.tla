-------------------------- MODULE JobWorker_proofs --------------------------
(***************************************************************************)
(* Proofs about JobWorker, for any number of jobs, workers and tokens and  *)
(* any worker ids, shared ones included.                                   *)
(***************************************************************************)
EXTENDS JobWorker, FiniteSetTheorems, TLAPS

\* A fresh token is one that no row, main thread or heartbeat holds.
LEMMA FreshTokenIsFresh ==
  ASSUME \E t \in Tokens : t \notin InUse
  PROVE  FreshToken \in Tokens /\ FreshToken \notin InUse
BY DEF FreshToken

\* The operators on rows keep a row a row.
LEMMA RowTypes ==
  ASSUME NEW r \in Rows, NEW t \in Nat
  PROVE  /\ NewRow(t) \in Rows
         /\ \A id \in Ids, tk \in Tokens : Leased(r, id, tk, t) \in Rows
         /\ Renewed(r, t) \in Rows
         /\ \A st \in Statuses : Released(r, st) \in Rows /\ FailedRow(r, st, t) \in Rows
<1>1. LeaseTime \in Nat /\ RetryDelay \in Nat
  BY QueueAssumption
<1>2. AbsentRow \in Rows
  BY DEF AbsentRow, Rows, Statuses
<1>3. NewRow(t) \in Rows
  BY <1>2 DEF NewRow, Rows, Statuses
<1>4. \A id \in Ids, tk \in Tokens : Leased(r, id, tk, t) \in Rows
  <2> SUFFICES ASSUME NEW id \in Ids, NEW tk \in Tokens PROVE Leased(r, id, tk, t) \in Rows
    OBVIOUS
  <2>1. t + LeaseTime \in Nat /\ r.attempts + 1 \in Nat
    BY <1>1 DEF Rows
  <2> QED
    BY <2>1 DEF Leased, Rows, Statuses
<1>5. Renewed(r, t) \in Rows
  BY <1>1 DEF Renewed, Rows, Statuses
<1>6. \A st \in Statuses : Released(r, st) \in Rows
  BY DEF Released, Rows
<1>7. \A st \in Statuses : FailedRow(r, st, t) \in Rows
  BY <1>1, <1>6 DEF FailedRow, Rows
<1> QED
  BY <1>3, <1>4, <1>5, <1>6, <1>7

LEMMA InitType == Init => TypeOK
<1>1. AbsentRow \in Rows
  BY DEF AbsentRow, Rows, Statuses
<1>2. 1 \in 1..MaxTime /\ 0 \in 0..MaxTime /\ 0 \in 0..MaxCrashes
  BY QueueAssumption, WorkerAssumption
<1> QED
  BY <1>1, <1>2 DEF Init, QueueInit, TypeOK, QueueTypeOK, PCs

LEMMA LeaveType ==
  ASSUME TypeOK, NEW w \in Workers, Leave(w)
  PROVE  /\ pc' \in [Workers -> PCs]
         /\ task' \in [Workers -> Tasks \cup {NoTask}]
         /\ readAt' \in [Workers -> 0..MaxTime]
         /\ cands' \in [Workers -> Seq(Jobs)]
         /\ lost' \in [Workers -> BOOLEAN]
         /\ outcome' \in [Workers -> {"none", "ok", "error", "queued", "dead"}]
BY QueueAssumption DEF TypeOK, Leave, PCs

LEMMA GrantType ==
  ASSUME TypeOK, NEW w \in Workers, NEW j \in Jobs, Grant(w, j)
  PROVE  TypeOK'
<1> DEFINE tk == FreshToken
<1>1. tk \in Tokens
  BY FreshTokenIsFresh DEF Grant
<1>2. row[j] \in Rows /\ readAt[w] \in Nat /\ IdOf[w] \in Ids /\ row[j].attempts \in Nat
  BY WorkerAssumption DEF TypeOK, QueueTypeOK, Rows
<1>3. Leased(row[j], IdOf[w], tk, readAt[w]) \in Rows
  BY <1>1, <1>2, RowTypes
<1>4. row' \in [Jobs -> Rows]
  BY <1>3 DEF Grant, TypeOK, QueueTypeOK
<1>5. task' \in [Workers -> Tasks \cup {NoTask}]
  BY <1>1, <1>2 DEF Grant, TypeOK, Tasks
<1>6. hb' \in [Tokens -> Threads \cup {NoThread}]
  BY <1>1 DEF Grant, TypeOK, Threads
<1>7. /\ pc' \in [Workers -> PCs]
      /\ readAt' \in [Workers -> 0..MaxTime]
      /\ cands' \in [Workers -> Seq(Jobs)]
  BY QueueAssumption DEF Grant, TypeOK, PCs
<1> QED
  BY <1>4, <1>5, <1>6, <1>7 DEF Grant, TypeOK, QueueTypeOK

\* Every step keeps the types; fail()'s second statement needs Decided.
LEMMA NextType == TypeOK /\ Decided /\ [Next]_vars => TypeOK'
<1> SUFFICES ASSUME TypeOK, Decided, [Next]_vars PROVE TypeOK'
  OBVIOUS
<1>0. 1 \in 1..MaxTime /\ 1..MaxTime \subseteq Nat /\ 0 \in 0..MaxTime /\ now \in 0..MaxTime
  BY QueueAssumption DEF TypeOK, QueueTypeOK
<1>1. ASSUME NEW j \in Jobs, Enqueue(j) PROVE TypeOK'
  <2>1. NewRow(now) \in Rows
    BY <1>0, RowTypes DEF TypeOK, QueueTypeOK
  <2> QED
    BY <1>1, <2>1 DEF Enqueue, TypeOK, QueueTypeOK, workerVars
<1>2. ASSUME NEW w \in Workers, Poll(w) PROVE TypeOK'
  BY <1>2, <1>0 DEF Poll, TypeOK, QueueTypeOK, PCs
<1>3. ASSUME NEW w \in Workers, ClaimPostgres(w) PROVE TypeOK'
  <2>1. ASSUME NEW j \in Jobs, Grant(w, j) PROVE TypeOK'
    BY <2>1, GrantType
  <2>2. ASSUME Leave(w), UNCHANGED <<now, row, hb, crashes>> PROVE TypeOK'
    BY <2>2, LeaveType DEF TypeOK, QueueTypeOK
  <2> QED
    BY <1>3, <2>1, <2>2 DEF ClaimPostgres, DueJobs
<1>4. ASSUME NEW w \in Workers, ListCandidates(w) PROVE TypeOK'
  <2> DEFINE D == DueJobs(readAt[w])
  <2>1. D \subseteq Jobs /\ Cardinality(D) \in Nat
    BY QueueAssumption, FS_Subset, FS_CardinalityType DEF DueJobs
  <2>2. PICK s \in [1..Cardinality(D) -> D] : cands' = [cands EXCEPT ![w] = s]
    BY <1>4 DEF ListCandidates
  <2>3. s \in Seq(Jobs)
    BY <2>1, <2>2
  <2> QED
    BY <1>4, <2>2, <2>3 DEF ListCandidates, TypeOK, QueueTypeOK, PCs
<1>5. ASSUME NEW w \in Workers, TryCandidate(w) PROVE TypeOK'
  <2>1. cands[w] \in Seq(Jobs)
    BY DEF TypeOK
  <2>2. ASSUME cands[w] = <<>>, Leave(w), UNCHANGED <<now, row, hb, crashes>> PROVE TypeOK'
    BY <2>2, LeaveType DEF TypeOK, QueueTypeOK
  <2>3. ASSUME cands[w] # <<>>, Grant(w, Head(cands[w])) PROVE TypeOK'
    BY <2>1, <2>3, GrantType
  <2>4. ASSUME cands[w] # <<>>, cands' = [cands EXCEPT ![w] = Tail(@)],
               UNCHANGED <<now, row, pc, task, readAt, lost, outcome, hb, crashes>>
        PROVE  TypeOK'
    BY <2>1, <2>4 DEF TypeOK, QueueTypeOK
  <2> QED
    BY <1>5, <2>2, <2>3, <2>4 DEF TryCandidate
<1>6. ASSUME NEW w \in Workers, Execute(w) PROVE TypeOK'
  BY <1>6 DEF Execute, TypeOK, QueueTypeOK, PCs
<1>7. ASSUME NEW w \in Workers, Join(w) PROVE TypeOK'
  <2>1. CASE lost[w]
    BY <1>7, <2>1, LeaveType DEF Join, TypeOK, QueueTypeOK
  <2>2. CASE ~lost[w]
    BY <1>7, <2>2, <1>0 DEF Join, TypeOK, QueueTypeOK, PCs
  <2> QED
    BY <2>1, <2>2
<1>8. ASSUME NEW w \in Workers, Committed(w)
      PROVE  /\ pc' \in [Workers -> PCs]
             /\ task' \in [Workers -> Tasks \cup {NoTask}]
             /\ readAt' \in [Workers -> 0..MaxTime]
             /\ cands' = cands /\ lost' = lost
             /\ outcome' \in [Workers -> {"none", "ok", "error", "queued", "dead"}]
  BY <1>8, <1>0 DEF Committed, TypeOK, PCs
<1>9. ASSUME NEW w \in Workers, Complete(w) PROVE TypeOK'
  <2> DEFINE j == task[w].job
  <2>1. CASE Leave(w) /\ UNCHANGED row
    BY <1>9, <2>1, LeaveType DEF Complete, TypeOK, QueueTypeOK
  <2>2. CASE row' = [row EXCEPT ![j] = Released(@, "succeeded")] /\ Committed(w)
    <3>1. \A k \in Jobs : Released(row[k], "succeeded") \in Rows
      BY <1>0, RowTypes DEF TypeOK, QueueTypeOK, Statuses
    <3>2. row' \in [Jobs -> Rows]
      BY <2>2, <3>1 DEF TypeOK, QueueTypeOK
    <3> QED
      BY <1>8, <1>9, <2>2, <3>2 DEF Complete, TypeOK, QueueTypeOK
  <2> QED
    BY <1>9, <2>1, <2>2 DEF Complete
<1>10. ASSUME NEW w \in Workers, FailRead(w) PROVE TypeOK'
  <2>1. CASE Leave(w)
    BY <1>10, <2>1, LeaveType DEF FailRead, TypeOK, QueueTypeOK
  <2>2. CASE ~Leave(w)
    <3>1. readAt' = [readAt EXCEPT ![w] = now] /\ now \in 0..MaxTime
      BY <1>10, <2>2, QueueAssumption DEF FailRead, TypeOK, QueueTypeOK
    <3> QED
      BY <1>10, <2>2, <3>1 DEF FailRead, FailStatus, TypeOK, QueueTypeOK, PCs
  <2> QED
    BY <2>1, <2>2
<1>11. ASSUME NEW w \in Workers, FailWrite(w) PROVE TypeOK'
  <2> DEFINE j == task[w].job
  <2>1. CASE Leave(w) /\ UNCHANGED row
    BY <1>11, <2>1, LeaveType DEF FailWrite, TypeOK, QueueTypeOK
  <2>2. CASE row' = [row EXCEPT ![j] = FailedRow(@, outcome[w], readAt[w])] /\ Committed(w)
    <3>0. outcome[w] \in Statuses
      BY <1>11 DEF Decided, FailWrite, Statuses
    <3>1. \A k \in Jobs : FailedRow(row[k], outcome[w], readAt[w]) \in Rows
      BY <1>0, <3>0, RowTypes, QueueAssumption DEF TypeOK, QueueTypeOK
    <3>2. row' \in [Jobs -> Rows]
      BY <2>2, <3>1 DEF TypeOK, QueueTypeOK
    <3> QED
      BY <1>8, <1>11, <2>2, <3>2 DEF FailWrite, TypeOK, QueueTypeOK
  <2> QED
    BY <1>11, <2>1, <2>2 DEF FailWrite
<1>12. ASSUME NEW w \in Workers, Audit(w) PROVE TypeOK'
  BY <1>12, LeaveType DEF Audit, TypeOK, QueueTypeOK
<1>13. ASSUME NEW w \in Workers, Crash(w) PROVE TypeOK'
  BY <1>13, <1>0, WorkerAssumption DEF Crash, TypeOK, QueueTypeOK, PCs
<1>14. ASSUME NEW w \in Workers, Restart(w) PROVE TypeOK'
  BY <1>14 DEF Restart, TypeOK, QueueTypeOK, PCs
<1>15. ASSUME NEW tk \in Tokens, HeartbeatExit(tk) PROVE TypeOK'
  BY <1>15 DEF HeartbeatExit, TypeOK, QueueTypeOK, workerVars
<1>16. ASSUME NEW tk \in Tokens, LoseLease(tk), hb[tk].st = "renewing"
       PROVE  lost' \in [Workers -> BOOLEAN] /\ hb' \in [Tokens -> Threads \cup {NoThread}]
  BY <1>16 DEF LoseLease, TypeOK
<1>17. ASSUME NEW tk \in Tokens, HeartbeatRenew(tk) PROVE TypeOK'
  <2>1. hb[tk] \in Threads
    BY <1>17 DEF HeartbeatRenew, TypeOK, NoThread
  <2>2. CASE LoseLease(tk) /\ UNCHANGED row
    BY <1>16, <1>17, <2>2 DEF HeartbeatRenew, TypeOK, QueueTypeOK
  <2>3. CASE /\ row' = [row EXCEPT ![hb[tk].job] = Renewed(@, hb[tk].readAt)]
             /\ hb' = [hb EXCEPT ![tk].st = "waiting", ![tk].readAt = 0]
             /\ UNCHANGED lost
    <3>1. \A k \in Jobs : Renewed(row[k], hb[tk].readAt) \in Rows
      BY <2>1, RowTypes DEF TypeOK, QueueTypeOK, Threads
    <3>2. row' \in [Jobs -> Rows]
      BY <2>3, <3>1 DEF TypeOK, QueueTypeOK
    <3>3. hb' \in [Tokens -> Threads \cup {NoThread}]
      BY <2>1, <2>3 DEF TypeOK, Threads
    <3> QED
      BY <1>17, <2>3, <3>2, <3>3 DEF HeartbeatRenew, TypeOK, QueueTypeOK
  <2> QED
    BY <1>17, <2>2, <2>3 DEF HeartbeatRenew
<1>18. ASSUME NEW tk \in Tokens, HeartbeatCall(tk) PROVE TypeOK'
  <2>1. hb[tk] \in Threads
    BY <1>18 DEF HeartbeatCall, TypeOK, NoThread
  <2> QED
    BY <1>18, <2>1, <1>0 DEF HeartbeatCall, TypeOK, QueueTypeOK, workerVars, Threads
<1>19. ASSUME NEW tk \in Tokens, HeartbeatError(tk) PROVE TypeOK'
  BY <1>16, <1>19 DEF HeartbeatError, TypeOK, QueueTypeOK
<1>20. ASSUME Tick PROVE TypeOK'
  BY <1>20, QueueAssumption DEF Tick, TypeOK, QueueTypeOK, workerVars
<1>21. ASSUME UNCHANGED vars PROVE TypeOK'
  BY <1>21 DEF vars, workerVars, TypeOK, QueueTypeOK
<1> QED
  BY <1>1, <1>2, <1>3, <1>4, <1>5, <1>6, <1>7, <1>9, <1>10, <1>11, <1>12, <1>13, <1>14,
     <1>15, <1>17, <1>18, <1>19, <1>20, <1>21 DEF Next, WorkerStep, Claim, ThreadStep
-----------------------------------------------------------------------------
LEMMA InitFencing == Init => FencingInv
<1> SUFFICES ASSUME Init PROVE FencingInv
  OBVIOUS
<1>1. TypeOK
  BY InitType
<1>2. /\ \A j \in Jobs : row[j].status = "absent" /\ row[j].token = None
      /\ \A w \in Workers : task[w] = NoTask /\ pc[w] = "idle" /\ readAt[w] = 0
      /\ \A tk \in Tokens : hb[tk] = NoThread
      /\ now = 1
  BY DEF Init, QueueInit, AbsentRow
<1> QED
  BY <1>1, <1>2 DEF FencingInv, Working, Busy, LeaseColumns, DistinctTokens, AttemptsAgree,
     Decided, ReadInPast, TokenFencing, RetryBudget, NoTask, NoThread

\* A step that leaves the table alone, forgets tasks and threads at most, and
\* keeps the main threads' own books, keeps the fence.
LEMMA QuietStep ==
  ASSUME FencingInv, TypeOK', Working', Decided', ReadInPast',
         row' = row,
         \A w \in Workers : task'[w] \in {task[w], NoTask},
         \A tk \in Tokens : hb'[tk].st # "none" =>
           /\ hb[tk].st # "none"
           /\ hb'[tk].worker = hb[tk].worker
           /\ hb'[tk].job = hb[tk].job
  PROVE  FencingInv'
<1>1. LeaseColumns' /\ DistinctTokens' /\ RetryBudget'
  BY DEF FencingInv, LeaseColumns, DistinctTokens, RetryBudget
<1>2. AttemptsAgree'
  BY DEF FencingInv, AttemptsAgree, NoTask
<1>3. TokenFencing'
  BY DEF FencingInv, TokenFencing, NoTask
<1> QED
  BY <1>1, <1>2, <1>3 DEF FencingInv

\* What Leave does to the main thread's books.
LEMMA LeaveBooks ==
  ASSUME FencingInv, NEW w \in Workers, Leave(w), UNCHANGED <<now, row>>
  PROVE  /\ Working' /\ Decided' /\ ReadInPast'
         /\ \A v \in Workers : task'[v] \in {task[v], NoTask}
<1>1. /\ pc'[w] = "idle" /\ task'[w] = NoTask /\ readAt'[w] = 0 /\ 0 <= now
      /\ \A v \in Workers \ {w} : /\ pc'[v] = pc[v] /\ task'[v] = task[v]
                                  /\ readAt'[v] = readAt[v] /\ outcome'[v] = outcome[v]
  BY QueueAssumption DEF Leave, FencingInv, TypeOK, QueueTypeOK
<1>2. Working'
  BY <1>1 DEF FencingInv, Working, Busy
<1>3. Decided'
  BY <1>1 DEF FencingInv, Decided
<1>4. ReadInPast'
  BY <1>1 DEF FencingInv, ReadInPast
<1> QED
  BY <1>1, <1>2, <1>3, <1>4

LEMMA LeaveStep ==
  ASSUME FencingInv, TypeOK', NEW w \in Workers, Leave(w), UNCHANGED <<now, row, hb>>
  PROVE  FencingInv'
BY LeaveBooks, QuietStep

\* A claim hands the row a token nobody holds, so it cannot break the fence.
LEMMA GrantStep ==
  ASSUME FencingInv, TypeOK', NEW w \in Workers, NEW j \in Jobs, Grant(w, j),
         pc[w] \notin Busy, row[j].status \in {"queued", "running"}
  PROVE  FencingInv'
<1> DEFINE tk == FreshToken
<1>1. tk \in Tokens /\ tk \notin InUse
  BY FreshTokenIsFresh DEF Grant
<1>2. /\ tk # None
      /\ \A k \in Jobs : row[k].token # tk
      /\ \A v \in Workers : task[v].token # tk
      /\ hb[tk] = NoThread
  BY <1>1, QueueAssumption DEF InUse
<1>3. /\ row'[j].status = "running" /\ row'[j].token = tk /\ row'[j].owner = IdOf[w]
      /\ row'[j].attempts = row[j].attempts + 1
      /\ \A k \in Jobs \ {j} : row'[k] = row[k]
  BY DEF Grant, Leased, FencingInv, TypeOK, QueueTypeOK, Rows
<1>4. /\ task'[w] = [job |-> j, attempts |-> row[j].attempts + 1, token |-> tk]
      /\ pc'[w] = "executing" /\ readAt'[w] = 0
      /\ \A v \in Workers \ {w} : /\ task'[v] = task[v] /\ pc'[v] = pc[v]
                                  /\ readAt'[v] = readAt[v] /\ outcome'[v] = outcome[v]
  BY DEF Grant, FencingInv, TypeOK
<1>5. /\ hb'[tk] = [st |-> "waiting", worker |-> w, job |-> j, readAt |-> 0]
      /\ \A t \in Tokens \ {tk} : hb'[t] = hb[t]
  BY <1>1 DEF Grant, FencingInv, TypeOK
<1>6. now' = now /\ now \in Nat
  BY QueueAssumption DEF Grant, FencingInv, TypeOK, QueueTypeOK
<1>7. Working'
  <2>1. row[j].attempts + 1 \in Nat
    BY DEF FencingInv, TypeOK, QueueTypeOK, Rows
  <2>2. task'[w] \in Tasks
    BY <1>1, <1>4, <2>1 DEF Tasks
  <2> QED
    BY <1>4, <2>2 DEF FencingInv, Working, Busy
<1>8. LeaseColumns' /\ DistinctTokens' /\ RetryBudget'
  BY <1>2, <1>3 DEF FencingInv, LeaseColumns, DistinctTokens, RetryBudget
<1>9. AttemptsAgree'
  BY <1>2, <1>3, <1>4 DEF FencingInv, AttemptsAgree
<1>10. Decided'
  <2> SUFFICES ASSUME NEW v \in Workers, pc'[v] = "failWrite"
               PROVE  /\ outcome'[v] \in {"queued", "dead"}
                      /\ row'[task'[v].job].token = task'[v].token
                           => outcome'[v] = FailStatus(row'[task'[v].job])
    BY DEF Decided, FailStatus
  <2>1. v # w /\ pc[v] = "failWrite" /\ task[v] \in Tasks
    BY <1>4 DEF FencingInv, Working, Busy
  <2>2. task[v].job \in Jobs /\ task[v].token # tk
    BY <2>1, <1>2 DEF Tasks
  <2> QED
    BY <2>1, <2>2, <1>3, <1>4 DEF FencingInv, Decided
<1>11. ReadInPast'
  BY <1>4, <1>6 DEF FencingInv, ReadInPast
<1>12. TokenFencing'
  BY <1>1, <1>2, <1>3, <1>4, <1>5 DEF FencingInv, TokenFencing, NoThread
<1> QED
  BY <1>7, <1>8, <1>9, <1>10, <1>11, <1>12 DEF FencingInv

\* A commit clears the lease of the row and the committing worker's task.
LEMMA CommitStep ==
  ASSUME FencingInv, TypeOK', NEW w \in Workers, Committed(w), UNCHANGED <<now, hb>>,
         NEW j \in Jobs, NEW r, row' = [row EXCEPT ![j] = r], r.token = None,
         r.status # "running",
         r.status = "queued" => r.attempts < MaxAttempts,
         r.status = "dead" => r.attempts >= MaxAttempts
  PROVE  FencingInv'
<1>1. /\ pc'[w] = "auditing" /\ task'[w] = NoTask /\ readAt'[w] = 0 /\ 0 <= now
      /\ \A v \in Workers \ {w} : /\ pc'[v] = pc[v] /\ task'[v] = task[v]
                                  /\ readAt'[v] = readAt[v] /\ outcome'[v] = outcome[v]
  BY QueueAssumption DEF Committed, FencingInv, TypeOK, QueueTypeOK
<1>2. row'[j] = r /\ \A k \in Jobs \ {j} : row'[k] = row[k]
  BY DEF FencingInv, TypeOK, QueueTypeOK
<1>3. Working' /\ ReadInPast'
  BY <1>1 DEF FencingInv, Working, Busy, ReadInPast
<1>4. LeaseColumns' /\ DistinctTokens' /\ RetryBudget'
  BY <1>2 DEF FencingInv, LeaseColumns, DistinctTokens, RetryBudget
<1>5. AttemptsAgree'
  BY <1>1, <1>2 DEF FencingInv, AttemptsAgree, NoTask
<1>6. Decided'
  <2> SUFFICES ASSUME NEW v \in Workers, pc'[v] = "failWrite"
               PROVE  /\ outcome'[v] \in {"queued", "dead"}
                      /\ row'[task'[v].job].token = task'[v].token
                           => outcome'[v] = FailStatus(row'[task'[v].job])
    BY DEF Decided, FailStatus
  <2>1. v # w /\ pc[v] = "failWrite" /\ task[v] \in Tasks
    BY <1>1 DEF FencingInv, Working, Busy
  <2>2. task[v].job \in Jobs /\ task[v].token # None
    BY <2>1, QueueAssumption DEF Tasks
  <2> QED
    BY <2>1, <2>2, <1>1, <1>2 DEF FencingInv, Decided
<1>7. TokenFencing'
  <2>1. \A tk \in Tokens : tk # None
    BY QueueAssumption
  <2> QED
    BY <1>1, <1>2, <2>1 DEF FencingInv, TokenFencing, NoTask
<1> QED
  BY <1>3, <1>4, <1>5, <1>6, <1>7 DEF FencingInv
-----------------------------------------------------------------------------
\* No step breaks the inductive invariant.
LEMMA NextFencing == FencingInv /\ [Next]_vars => FencingInv'
<1> SUFFICES ASSUME FencingInv, [Next]_vars PROVE FencingInv'
  OBVIOUS
<1>0. TypeOK' /\ now \in Nat
  BY NextType, QueueAssumption DEF FencingInv, TypeOK, QueueTypeOK
<1>1. ASSUME NEW j \in Jobs, Enqueue(j) PROVE FencingInv'
  <2>1. /\ row'[j].status = "queued" /\ row'[j].token = None /\ row'[j].attempts = 0
        /\ row[j].token = None
        /\ \A k \in Jobs \ {j} : row'[k] = row[k]
    BY <1>1 DEF Enqueue, NewRow, AbsentRow, FencingInv, TypeOK, QueueTypeOK, LeaseColumns
  <2>2. LeaseColumns' /\ DistinctTokens' /\ RetryBudget'
    BY <2>1, QueueAssumption DEF FencingInv, LeaseColumns, DistinctTokens, RetryBudget
  <2>3. Working' /\ ReadInPast' /\ AttemptsAgree'
    BY <1>1, <2>1 DEF Enqueue, workerVars, FencingInv, Working, ReadInPast, AttemptsAgree
  <2>4. Decided'
    <3> SUFFICES ASSUME NEW v \in Workers, pc'[v] = "failWrite"
                 PROVE  /\ outcome'[v] \in {"queued", "dead"}
                        /\ row'[task'[v].job].token = task'[v].token
                             => outcome'[v] = FailStatus(row'[task'[v].job])
      BY DEF Decided, FailStatus
    <3>1. pc[v] = "failWrite" /\ task'[v] = task[v] /\ outcome'[v] = outcome[v] /\ task[v] \in Tasks
      BY <1>1 DEF Enqueue, workerVars, FencingInv, Working, Busy
    <3>2. task[v].job \in Jobs /\ task[v].token # None
      BY <3>1, QueueAssumption DEF Tasks
    <3> QED
      BY <2>1, <3>1, <3>2 DEF FencingInv, Decided
  <2>5. TokenFencing'
    <3>1. \A tk \in Tokens : tk # None
      BY QueueAssumption
    <3> QED
      BY <1>1, <2>1, <3>1 DEF Enqueue, workerVars, FencingInv, TokenFencing
  <2> QED
    BY <1>0, <2>2, <2>3, <2>4, <2>5 DEF FencingInv
<1>2. ASSUME NEW w \in Workers, Poll(w) PROVE FencingInv'
  <2>1. Working' /\ Decided' /\ ReadInPast'
    BY <1>2, <1>0 DEF Poll, FencingInv, TypeOK, Working, Busy, Decided, FailStatus, ReadInPast
  <2> QED
    BY <1>0, <1>2, <2>1, QuietStep DEF Poll
<1>3. ASSUME NEW w \in Workers, ClaimPostgres(w) PROVE FencingInv'
  <2>1. ASSUME NEW j \in DueJobs(readAt[w]), Grant(w, j) PROVE FencingInv'
    <3>1. j \in Jobs /\ row[j].status \in {"queued", "running"} /\ pc[w] \notin Busy
      BY <1>3 DEF ClaimPostgres, DueJobs, Due, Claimable, Busy
    <3> QED
      BY <1>0, <2>1, <3>1, GrantStep
  <2>2. ASSUME Leave(w), UNCHANGED <<now, row, hb, crashes>> PROVE FencingInv'
    BY <1>0, <2>2, LeaveStep
  <2> QED
    BY <1>3, <2>1, <2>2 DEF ClaimPostgres
<1>4. ASSUME NEW w \in Workers, ListCandidates(w) PROVE FencingInv'
  <2>1. Working' /\ Decided' /\ ReadInPast'
    BY <1>4 DEF ListCandidates, FencingInv, TypeOK, Working, Busy, Decided, FailStatus, ReadInPast
  <2> QED
    BY <1>0, <1>4, <2>1, QuietStep DEF ListCandidates
<1>5. ASSUME NEW w \in Workers, TryCandidate(w) PROVE FencingInv'
  <2> DEFINE j == Head(cands[w])
  <2>1. ASSUME cands[w] # <<>>, Claimable(row[j], readAt[w]), Grant(w, j) PROVE FencingInv'
    <3>1. j \in Jobs /\ row[j].status \in {"queued", "running"} /\ pc[w] \notin Busy
      <4>1. cands[w] \in Seq(Jobs)
        BY DEF FencingInv, TypeOK
      <4> QED
        BY <1>5, <2>1, <4>1 DEF TryCandidate, Claimable, Busy
    <3> QED
      BY <1>0, <2>1, <3>1, GrantStep
  <2>2. ASSUME Leave(w), UNCHANGED <<now, row, hb, crashes>> PROVE FencingInv'
    BY <1>0, <2>2, LeaveStep
  <2>3. ASSUME UNCHANGED <<now, row, pc, task, readAt, lost, outcome, hb, crashes>>
        PROVE  FencingInv'
    <3>1. Working' /\ Decided' /\ ReadInPast'
      BY <2>3 DEF FencingInv, Working, Decided, FailStatus, ReadInPast
    <3> QED
      BY <1>0, <2>3, <3>1, QuietStep
  <2> QED
    BY <1>5, <2>1, <2>2, <2>3 DEF TryCandidate
<1>6. ASSUME NEW w \in Workers, Execute(w) PROVE FencingInv'
  <2>1. Working' /\ Decided' /\ ReadInPast'
    BY <1>6 DEF Execute, FencingInv, TypeOK, Working, Busy, Decided, FailStatus, ReadInPast
  <2> QED
    BY <1>0, <1>6, <2>1, QuietStep DEF Execute
<1>7. ASSUME NEW w \in Workers, Join(w) PROVE FencingInv'
  <2>1. CASE lost[w]
    BY <1>0, <1>7, <2>1, LeaveStep DEF Join
  <2>2. CASE ~lost[w]
    <3>1. /\ pc[w] = "joining" /\ pc'[w] \in {"completing", "failing"} /\ readAt'[w] = now
          /\ \A v \in Workers \ {w} : pc'[v] = pc[v] /\ readAt'[v] = readAt[v]
          /\ UNCHANGED <<now, row, task, outcome, hb>>
      BY <1>7, <2>2 DEF Join, FencingInv, TypeOK
    <3>2. Working' /\ ReadInPast'
      BY <1>0, <3>1 DEF FencingInv, Working, Busy, ReadInPast
    <3>3. Decided'
      BY <3>1 DEF FencingInv, Decided, FailStatus
    <3> QED
      BY <1>0, <3>1, <3>2, <3>3, QuietStep
  <2> QED
    BY <2>1, <2>2
<1>8. ASSUME NEW w \in Workers, Complete(w) PROVE FencingInv'
  <2> DEFINE j == task[w].job
  <2>1. CASE Leave(w) /\ UNCHANGED row
    BY <1>0, <1>8, <2>1, LeaveStep DEF Complete
  <2>2. CASE row' = [row EXCEPT ![j] = Released(@, "succeeded")] /\ Committed(w)
    <3>1. j \in Jobs
      BY <1>8 DEF Complete, FencingInv, Working, Busy, Tasks
    <3> DEFINE r == Released(row[j], "succeeded")
    <3>2. r.token = None /\ r.status = "succeeded" /\ row' = [row EXCEPT ![j] = r]
      BY <2>2, <3>1 DEF Released, FencingInv, TypeOK, QueueTypeOK, Rows
    <3> HIDE DEF r
    <3> QED
      BY <1>0, <1>8, <2>2, <3>1, <3>2, CommitStep DEF Complete
  <2> QED
    BY <1>8, <2>1, <2>2 DEF Complete
<1>9. ASSUME NEW w \in Workers, FailRead(w) PROVE FencingInv'
  <2>1. CASE Leave(w)
    BY <1>0, <1>9, <2>1, LeaveStep DEF FailRead
  <2>2. CASE ~Leave(w)
    <3>1. /\ pc[w] = "failing"
          /\ outcome' = [outcome EXCEPT ![w] = FailStatus(row[task[w].job])]
          /\ pc' = [pc EXCEPT ![w] = "failWrite"]
          /\ readAt' = [readAt EXCEPT ![w] = now]
          /\ UNCHANGED <<now, row, task, hb>>
      BY <1>9, <2>2 DEF FailRead
    <3>2. Working' /\ ReadInPast'
      BY <3>1, QueueAssumption DEF FencingInv, TypeOK, QueueTypeOK, Working, Busy, ReadInPast
    <3>3. Decided'
      <4>1. outcome'[w] \in {"queued", "dead"} /\ outcome'[w] = FailStatus(row'[task'[w].job])
        <5>1. w \in Workers /\ outcome'[w] = FailStatus(row[task[w].job])
          BY <3>1 DEF FencingInv, TypeOK
        <5>2. FailStatus(row[task[w].job]) \in {"queued", "dead"}
          BY DEF FailStatus
        <5>3. row' = row /\ task' = task
          BY <3>1
        <5>4. FailStatus(row'[task'[w].job]) = FailStatus(row[task[w].job])
          BY <5>3 DEF FailStatus
        <5> QED
          BY <5>1, <5>2, <5>4
      <4>2. \A v \in Workers \ {w} : pc'[v] = pc[v] /\ outcome'[v] = outcome[v]
        BY <3>1 DEF FencingInv, TypeOK
      <4> QED
        BY <3>1, <4>1, <4>2 DEF FencingInv, Decided, FailStatus
    <3> QED
      BY <1>0, <3>1, <3>2, <3>3, QuietStep
  <2> QED
    BY <2>1, <2>2
<1>10. ASSUME NEW w \in Workers, FailWrite(w) PROVE FencingInv'
  <2> DEFINE j == task[w].job
  <2>1. CASE Leave(w) /\ UNCHANGED row
    BY <1>0, <1>10, <2>1, LeaveStep DEF FailWrite
  <2>2. CASE /\ row[j].token = task[w].token
             /\ row' = [row EXCEPT ![j] = FailedRow(@, outcome[w], readAt[w])] /\ Committed(w)
    <3>1. j \in Jobs /\ row[j] \in Rows
      BY <1>10 DEF FailWrite, FencingInv, Working, Busy, Tasks, TypeOK, QueueTypeOK
    <3>2. outcome[w] \in {"queued", "dead"} /\ outcome[w] = FailStatus(row[j])
      BY <1>10, <2>2 DEF FailWrite, FencingInv, Decided
    <3> DEFINE r == FailedRow(row[j], outcome[w], readAt[w])
    <3>3. /\ r.token = None /\ r.status = outcome[w] /\ r.attempts = row[j].attempts
          /\ row' = [row EXCEPT ![j] = r]
      BY <2>2, <3>1 DEF FailedRow, Released, FencingInv, TypeOK, QueueTypeOK, Rows
    <3>4. /\ outcome[w] = "queued" => r.attempts < MaxAttempts
          /\ outcome[w] = "dead" => r.attempts >= MaxAttempts
      BY <3>1, <3>2, <3>3, QueueAssumption DEF FailStatus, Rows
    <3> HIDE DEF r
    <3> QED
      BY <1>0, <1>10, <2>2, <3>1, <3>2, <3>3, <3>4, CommitStep DEF FailWrite
  <2> QED
    BY <1>10, <2>1, <2>2 DEF FailWrite, Owned
<1>11. ASSUME NEW w \in Workers, Audit(w) PROVE FencingInv'
  BY <1>0, <1>11, LeaveStep DEF Audit
<1>12. ASSUME NEW w \in Workers, Crash(w) PROVE FencingInv'
  <2>1. /\ pc'[w] = "down" /\ task'[w] = NoTask /\ readAt'[w] = 0
        /\ \A v \in Workers \ {w} : /\ pc'[v] = pc[v] /\ task'[v] = task[v]
                                    /\ readAt'[v] = readAt[v] /\ outcome'[v] = outcome[v]
        /\ UNCHANGED <<now, row>>
    BY <1>12 DEF Crash, FencingInv, TypeOK
  <2>2. Working' /\ Decided' /\ ReadInPast'
    BY <1>0, <2>1 DEF FencingInv, Working, Busy, Decided, FailStatus, ReadInPast
  <2>3. \A tk \in Tokens : hb'[tk] = NoThread \/ hb'[tk] = hb[tk]
    BY <1>12 DEF Crash
  <2> QED
    BY <1>0, <2>1, <2>2, <2>3, QuietStep DEF NoThread
<1>13. ASSUME NEW w \in Workers, Restart(w) PROVE FencingInv'
  <2>1. Working' /\ Decided' /\ ReadInPast'
    BY <1>13 DEF Restart, FencingInv, TypeOK, Working, Busy, Decided, FailStatus, ReadInPast
  <2> QED
    BY <1>0, <1>13, <2>1, QuietStep DEF Restart
<1>14. ASSUME NEW tk \in Tokens, HeartbeatExit(tk) PROVE FencingInv'
  <2>1. Working' /\ Decided' /\ ReadInPast'
    BY <1>14 DEF HeartbeatExit, workerVars, FencingInv, Working, Decided, FailStatus, ReadInPast
  <2> QED
    BY <1>0, <1>14, <2>1, QuietStep DEF HeartbeatExit, workerVars, FencingInv, TypeOK, NoThread
<1>15. ASSUME NEW tk \in Tokens, LoseLease(tk),
              UNCHANGED <<now, row, pc, task, readAt, outcome>>
       PROVE  FencingInv'
  <2>1. Working' /\ Decided' /\ ReadInPast'
    BY <1>15 DEF FencingInv, Working, Decided, FailStatus, ReadInPast
  <2> QED
    BY <1>0, <1>15, <2>1, QuietStep DEF LoseLease, FencingInv, TypeOK, NoThread
<1>16. ASSUME NEW tk \in Tokens, HeartbeatRenew(tk) PROVE FencingInv'
  <2>1. hb[tk] \in Threads
    BY <1>16 DEF HeartbeatRenew, FencingInv, TypeOK, NoThread
  <2> DEFINE j == hb[tk].job
  <2>2. CASE LoseLease(tk) /\ UNCHANGED row
    BY <1>15, <1>16, <2>2 DEF HeartbeatRenew
  <2>3. CASE /\ row' = [row EXCEPT ![j] = Renewed(@, hb[tk].readAt)]
             /\ hb' = [hb EXCEPT ![tk].st = "waiting", ![tk].readAt = 0]
    <3>1. UNCHANGED <<now, pc, task, readAt, outcome>>
      BY <1>16 DEF HeartbeatRenew
    <3>2. /\ j \in Jobs
          /\ \A k \in Jobs : /\ row'[k].status = row[k].status /\ row'[k].token = row[k].token
                             /\ row'[k].owner = row[k].owner /\ row'[k].attempts = row[k].attempts
      BY <2>1, <2>3 DEF Threads, Renewed, FencingInv, TypeOK, QueueTypeOK, Rows
    <3>3. \A t \in Tokens : /\ hb'[t].worker = hb[t].worker /\ hb'[t].job = hb[t].job
                            /\ hb'[t].st # "none" => hb[t].st # "none"
      BY <2>1, <2>3 DEF FencingInv, TypeOK, Threads
    <3>4. Working' /\ ReadInPast' /\ LeaseColumns' /\ DistinctTokens' /\ AttemptsAgree' /\ RetryBudget'
      BY <3>1, <3>2 DEF FencingInv, Working, ReadInPast, LeaseColumns, DistinctTokens,
                        AttemptsAgree, RetryBudget
    <3>5. Decided'
      <4> SUFFICES ASSUME NEW v \in Workers, pc'[v] = "failWrite"
                   PROVE  /\ outcome'[v] \in {"queued", "dead"}
                          /\ row'[task'[v].job].token = task'[v].token
                               => outcome'[v] = FailStatus(row'[task'[v].job])
        BY DEF Decided, FailStatus
      <4>1. task[v].job \in Jobs
        BY <3>1 DEF FencingInv, Working, Busy, Tasks
      <4> QED
        BY <3>1, <3>2, <4>1 DEF FencingInv, Decided, FailStatus
    <3>6. TokenFencing'
      BY <3>1, <3>2, <3>3 DEF FencingInv, TokenFencing
    <3> QED
      BY <1>0, <3>4, <3>5, <3>6 DEF FencingInv
  <2> QED
    BY <1>16, <2>2, <2>3 DEF HeartbeatRenew
<1>17. ASSUME NEW tk \in Tokens, HeartbeatCall(tk) PROVE FencingInv'
  <2>1. Working' /\ Decided' /\ ReadInPast'
    BY <1>17 DEF HeartbeatCall, workerVars, FencingInv, Working, Decided, FailStatus, ReadInPast
  <2>2. hb[tk] \in Threads
    BY <1>17 DEF HeartbeatCall, FencingInv, TypeOK, NoThread
  <2>3. \A t \in Tokens : /\ hb'[t].worker = hb[t].worker /\ hb'[t].job = hb[t].job
                          /\ hb'[t].st # "none" => hb[t].st # "none"
    BY <1>17, <2>2 DEF HeartbeatCall, FencingInv, TypeOK, Threads
  <2> QED
    BY <1>0, <1>17, <2>1, <2>3, QuietStep DEF HeartbeatCall, workerVars
<1>18. ASSUME NEW tk \in Tokens, HeartbeatError(tk) PROVE FencingInv'
  BY <1>15, <1>18 DEF HeartbeatError
<1>19. ASSUME Tick PROVE FencingInv'
  <2>1. Working' /\ Decided' /\ ReadInPast'
    BY <1>0, <1>19 DEF Tick, workerVars, FencingInv, TypeOK, Working, Decided, FailStatus, ReadInPast
  <2> QED
    BY <1>0, <1>19, <2>1, QuietStep DEF Tick, workerVars
<1>20. ASSUME UNCHANGED vars PROVE FencingInv'
  <2>1. Working' /\ Decided' /\ ReadInPast'
    BY <1>20 DEF vars, workerVars, FencingInv, Working, Decided, FailStatus, ReadInPast
  <2> QED
    BY <1>0, <1>20, <2>1, QuietStep DEF vars, workerVars
<1> QED
  BY <1>1, <1>2, <1>3, <1>4, <1>5, <1>6, <1>7, <1>8, <1>9, <1>10, <1>11, <1>12, <1>13, <1>14,
     <1>16, <1>17, <1>18, <1>19, <1>20 DEF Next, WorkerStep, Claim, ThreadStep
-----------------------------------------------------------------------------
\* The fence and its supporting facts hold in every state of every behaviour.
THEOREM FencingInvariant == Spec => []FencingInv
<1>1. Init => FencingInv
  BY InitFencing
<1>2. FencingInv /\ [Next]_vars => FencingInv'
  BY NextFencing
<1> QED
  BY <1>1, <1>2, PTL DEF Spec

\* Types of the table and of the workers' state, for any number of workers and jobs.
THEOREM TypeCorrect == Spec => []TypeOK
BY FencingInvariant, PTL DEF FencingInv

\* Only the process whose claim a row carries has the row's token: the guard of
\* complete(), fail() and renew() refuses all the others, with shared ids too.
THEOREM TokensFence == Spec => []TokenFencing
BY FencingInvariant, PTL DEF FencingInv

\* A job is requeued only with attempts left and dead only without.
THEOREM RetriesBudgeted == Spec => []RetryBudget
BY FencingInvariant, PTL DEF FencingInv

\* What one step can do to the row of one job.
LEMMA RowStep ==
  ASSUME FencingInv, [Next]_vars, NEW j \in Jobs
  PROVE  \/ row'[j] = row[j]
         \/ row[j].status = "absent" /\ row'[j].status = "queued"
         \/ \E w \in Workers : /\ Claimable(row[j], readAt[w])
                               /\ row'[j] = Leased(row[j], IdOf[w], FreshToken, readAt[w])
         \/ \E t \in Nat : row[j].status = "running" /\ row'[j] = Renewed(row[j], t)
         \/ \E w \in Workers : /\ pc[w] \in {"completing", "failWrite"}
                               /\ task[w].job = j /\ task[w].token = row[j].token
                               /\ task[w].token # None /\ row'[j].status \in {"queued", "succeeded", "dead"}
                               /\ row'[j].attempts = row[j].attempts
<1>0. row \in [Jobs -> Rows]
  BY DEF FencingInv, TypeOK, QueueTypeOK
<1>1. ASSUME NEW k \in Jobs, Enqueue(k) PROVE row'[j] = row[j] \/ (row[j].status = "absent" /\ row'[j].status = "queued")
  BY <1>0, <1>1 DEF Enqueue, NewRow, AbsentRow
<1>2. ASSUME NEW w \in Workers, NEW k \in Jobs, Claimable(row[k], readAt[w]), Grant(w, k)
      PROVE  \/ row'[j] = row[j]
             \/ /\ Claimable(row[j], readAt[w])
                /\ row'[j] = Leased(row[j], IdOf[w], FreshToken, readAt[w])
  BY <1>0, <1>2 DEF Grant
<1>3. ASSUME NEW w \in Workers, Claim(w)
      PROVE  \/ row'[j] = row[j]
             \/ /\ Claimable(row[j], readAt[w])
                /\ row'[j] = Leased(row[j], IdOf[w], FreshToken, readAt[w])
  <2>1. CASE ClaimPostgres(w)
    BY <1>2, <2>1 DEF ClaimPostgres, DueJobs, Due
  <2>2. CASE ListCandidates(w)
    BY <2>2 DEF ListCandidates
  <2>3. CASE TryCandidate(w)
    <3>1. cands[w] \in Seq(Jobs)
      BY DEF FencingInv, TypeOK
    <3> QED
      BY <1>2, <2>3, <3>1 DEF TryCandidate
  <2> QED
    BY <1>3, <2>1, <2>2, <2>3 DEF Claim
<1>4. ASSUME NEW w \in Workers, Complete(w) \/ FailWrite(w)
      PROVE  \/ row'[j] = row[j]
             \/ /\ pc[w] \in {"completing", "failWrite"}
                /\ task[w].job = j /\ task[w].token = row[j].token
                /\ task[w].token # None /\ row'[j].status \in {"queued", "succeeded", "dead"}
                /\ row'[j].attempts = row[j].attempts
  <2>1. task[w] \in Tasks /\ task[w].token # None
    BY <1>4, QueueAssumption DEF Complete, FailWrite, FencingInv, Working, Busy, Tasks
  <2>2. CASE Complete(w)
    <3>1. CASE row' = row
      BY <3>1
    <3>2. CASE /\ row[task[w].job].token = task[w].token
               /\ row' = [row EXCEPT ![task[w].job] = Released(@, "succeeded")]
      BY <1>0, <2>1, <2>2, <3>2 DEF Complete, Released, Rows
    <3> QED
      BY <2>2, <3>1, <3>2 DEF Complete, Holds, Owned
  <2>3. CASE FailWrite(w)
    <3>1. outcome[w] \in {"queued", "dead"}
      BY <2>3 DEF FailWrite, FencingInv, Decided
    <3>2. CASE row' = row
      BY <3>2
    <3>3. CASE /\ row[task[w].job].token = task[w].token
               /\ row' = [row EXCEPT ![task[w].job] = FailedRow(@, outcome[w], readAt[w])]
      BY <1>0, <2>1, <2>3, <3>1, <3>3 DEF FailWrite, FailedRow, Released, Rows
    <3> QED
      BY <2>3, <3>2, <3>3 DEF FailWrite, Owned
  <2> QED
    BY <1>4, <2>2, <2>3
<1>5. ASSUME NEW tk \in Tokens, HeartbeatRenew(tk)
      PROVE  row'[j] = row[j] \/ \E t \in Nat : row[j].status = "running" /\ row'[j] = Renewed(row[j], t)
  <2>1. hb[tk] \in Threads
    BY <1>5 DEF HeartbeatRenew, FencingInv, TypeOK, NoThread
  <2> QED
    BY <1>0, <1>5, <2>1 DEF HeartbeatRenew, Holds, Threads
<1>6. ASSUME NEW w \in Workers,
             Poll(w) \/ Execute(w) \/ Join(w) \/ FailRead(w) \/ Audit(w) \/ Restart(w) \/ Crash(w)
      PROVE  row' = row
  BY <1>6 DEF Poll, Execute, Join, FailRead, Audit, Restart, Crash
<1>7. ASSUME NEW tk \in Tokens, HeartbeatExit(tk) \/ HeartbeatCall(tk) \/ HeartbeatError(tk)
      PROVE  row' = row
  BY <1>7 DEF HeartbeatExit, HeartbeatCall, HeartbeatError
<1>8. ASSUME Tick \/ UNCHANGED vars PROVE row' = row
  BY <1>8 DEF Tick, vars
<1> QED
  BY <1>1, <1>3, <1>4, <1>5, <1>6, <1>7, <1>8 DEF Next, WorkerStep, ThreadStep

\* No statement, however late or from whatever zombie, changes a settled job.
THEOREM OutcomesFinal == Spec => OutcomeFinal
<1>1. ASSUME FencingInv, [Next]_vars, NEW j \in Jobs, row[j].status \in Terminal
      PROVE  row'[j] = row[j]
  <2>1. row[j].token = None /\ row[j].status \notin {"absent", "queued", "running"}
    BY <1>1 DEF FencingInv, LeaseColumns, Terminal
  <2> QED
    BY <1>1, <2>1, RowStep DEF Claimable
<1>2. FencingInv /\ [Next]_vars => [\A j \in Jobs : row[j].status \in Terminal => row'[j] = row[j]]_vars
  BY <1>1
<1> QED
  BY <1>2, FencingInvariant, PTL DEF Spec, OutcomeFinal

\* A running job changes hands only after its lease has passed, on both backends.
THEOREM LeasesRespected == Spec => LeaseRespected
<1>1. ASSUME FencingInv, [Next]_vars, NEW j \in Jobs, row[j].status = "running",
             row'[j].attempts # row[j].attempts
      PROVE  row[j].leasedUntil < now
  <2>1. row[j] \in Rows /\ now \in Nat
    BY <1>1, QueueAssumption DEF FencingInv, TypeOK, QueueTypeOK
  <2>2. CASE \E w \in Workers : Claimable(row[j], readAt[w])
    <3>1. PICK w \in Workers : row[j].leasedUntil < readAt[w]
      BY <1>1, <2>2 DEF Claimable
    <3>2. readAt[w] \in Nat /\ readAt[w] <= now /\ row[j].leasedUntil \in Nat
      BY <1>1, <2>1, QueueAssumption DEF FencingInv, TypeOK, ReadInPast, Rows
    <3> QED
      BY <2>1, <3>1, <3>2
  <2>3. CASE \E t \in Nat : row'[j] = Renewed(row[j], t)
    BY <1>1, <2>1, <2>3 DEF Renewed, Rows
  <2> QED
    BY <1>1, <2>2, <2>3, RowStep
<1>2. FencingInv /\ [Next]_vars =>
        [\A j \in Jobs : row[j].status = "running" /\ row'[j].attempts # row[j].attempts
           => row[j].leasedUntil < now]_vars
  BY <1>1
<1> QED
  BY <1>2, FencingInvariant, PTL DEF Spec, LeaseRespected

\* A running job is released only by the process holding the newest claim.
THEOREM OutcomesByHolder == Spec => OutcomeByHolder
<1>1. ASSUME FencingInv, [Next]_vars, NEW j \in Jobs, row[j].status = "running",
             row'[j].status # "running"
      PROVE  \E w \in Workers : /\ task[w].job = j
                                /\ task[w].token = row[j].token
                                /\ task[w].attempts = row[j].attempts
                                /\ pc[w] \in {"completing", "failWrite"}
  <2>1. row[j] \in Rows
    BY <1>1 DEF FencingInv, TypeOK, QueueTypeOK
  <2>2. \A w \in Workers : Leased(row[j], IdOf[w], FreshToken, readAt[w]).status = "running"
    BY <2>1 DEF Leased, Rows
  <2>3. \A t \in Nat : Renewed(row[j], t).status = row[j].status
    BY <2>1 DEF Renewed, Rows
  <2>4. PICK w \in Workers : /\ pc[w] \in {"completing", "failWrite"}
                             /\ task[w].job = j /\ task[w].token = row[j].token
                             /\ task[w].token # None
    BY <1>1, <2>2, <2>3, RowStep
  <2>5. task[w].attempts = row[j].attempts
    BY <1>1, <2>4 DEF FencingInv, AttemptsAgree
  <2> QED
    BY <2>4, <2>5
<1>2. FencingInv /\ [Next]_vars =>
        [\A j \in Jobs : row[j].status = "running" /\ row'[j].status # "running"
           => \E w \in Workers : /\ task[w].job = j
                                 /\ task[w].token = row[j].token
                                 /\ task[w].attempts = row[j].attempts
                                 /\ pc[w] \in {"completing", "failWrite"}]_vars
  BY <1>1
<1> QED
  BY <1>2, FencingInvariant, PTL DEF Spec, OutcomeByHolder
-----------------------------------------------------------------------------
\* PostgreSQL: claim() has no second phase.
OneStatement == Backend = "postgres" => \A w \in Workers : pc[w] # "trying"

LEMMA OneStatementAlways == Spec => []OneStatement
<1>1. Init => OneStatement
  BY DEF Init, OneStatement
<1>2. ASSUME TypeOK, OneStatement, [Next]_vars PROVE OneStatement'
  <2>0. pc \in [Workers -> PCs]
    BY <1>2 DEF TypeOK
  <2>1. ASSUME NEW w \in Workers, NEW v \in Workers, Backend = "postgres", WorkerStep(w) \/ Crash(w)
        PROVE  pc'[v] # "trying"
    <3>1. ASSUME Leave(w) PROVE pc'[v] # "trying"
      BY <1>2, <2>0, <2>1, <3>1 DEF Leave, OneStatement
    <3>2. ASSUME Committed(w) PROVE pc'[v] # "trying"
      BY <1>2, <2>0, <2>1, <3>2 DEF Committed, OneStatement
    <3>3. ASSUME NEW j, Grant(w, j) PROVE pc'[v] # "trying"
      BY <1>2, <2>0, <2>1, <3>3 DEF Grant, OneStatement
    <3>4. CASE Claim(w)
      BY <1>2, <2>1, <3>1, <3>3, <3>4 DEF Claim, ClaimPostgres, ListCandidates, TryCandidate, OneStatement
    <3>5. CASE Join(w)
      <4>1. CASE lost[w]
        BY <3>1, <3>5, <4>1 DEF Join
      <4>2. CASE ~lost[w]
        BY <1>2, <2>0, <2>1, <3>5, <4>2 DEF Join, OneStatement
      <4> QED
        BY <4>1, <4>2
    <3>6. CASE FailRead(w)
      <4>1. CASE Leave(w)
        BY <3>1, <4>1
      <4>2. CASE pc' = [pc EXCEPT ![w] = "failWrite"]
        BY <1>2, <2>0, <2>1, <4>2 DEF OneStatement
      <4> QED
        BY <3>6, <4>1, <4>2 DEF FailRead
    <3>7. CASE Complete(w) \/ FailWrite(w) \/ Audit(w)
      BY <3>1, <3>2, <3>7 DEF Complete, FailWrite, Audit
    <3>8. CASE Poll(w) \/ Execute(w) \/ Restart(w) \/ Crash(w)
      BY <1>2, <2>0, <2>1, <3>8 DEF Poll, Execute, Restart, Crash, OneStatement
    <3> QED
      BY <2>1, <3>4, <3>5, <3>6, <3>7, <3>8 DEF WorkerStep
  <2>2. ASSUME \/ \E j \in Jobs : Enqueue(j)
               \/ \E tk \in Tokens : ThreadStep(tk) \/ HeartbeatCall(tk) \/ HeartbeatError(tk)
               \/ Tick \/ UNCHANGED vars
        PROVE  pc' = pc
    BY <2>2 DEF Enqueue, ThreadStep, HeartbeatExit, HeartbeatRenew, HeartbeatCall,
                HeartbeatError, Tick, workerVars, vars
  <2> QED
    BY <1>2, <2>1, <2>2 DEF Next, OneStatement
<1> QED
  BY <1>1, <1>2, TypeCorrect, PTL DEF Spec

\* On PostgreSQL a failed job is not started before its run_after: the SELECT
\* and the UPDATE of claim() are one transaction, on a reading of the clock
\* that is never ahead.  (SQLite's compare-and-swap does not repeat the test.)
THEOREM BackoffsRespected == Backend = "postgres" => (Spec => BackoffRespected)
<1> SUFFICES ASSUME Backend = "postgres" PROVE Spec => BackoffRespected
  OBVIOUS
<1>1. ASSUME FencingInv, OneStatement, [Next]_vars, NEW j \in Jobs,
             row[j].status = "queued", row'[j].status = "running"
      PROVE  row[j].runAfter <= now
  <2>1. row \in [Jobs -> Rows] /\ now \in Nat
    BY <1>1, QueueAssumption DEF FencingInv, TypeOK, QueueTypeOK
  <2>2. ASSUME NEW w \in Workers, row[j].runAfter <= readAt[w] PROVE row[j].runAfter <= now
    <3>1. readAt[w] \in Nat /\ readAt[w] <= now /\ row[j].runAfter \in Nat
      BY <1>1, <2>1, QueueAssumption DEF FencingInv, TypeOK, ReadInPast, Rows
    <3> QED
      BY <2>1, <2>2, <3>1
  <2>3. ASSUME NEW w \in Workers, Claim(w) PROVE row[j].runAfter <= readAt[w]
    <3>1. ASSUME NEW k \in Jobs, k # j, Grant(w, k) PROVE FALSE
      BY <1>1, <2>1, <3>1 DEF Grant
    <3>2. ~TryCandidate(w) /\ ~ListCandidates(w)
      BY <1>1 DEF OneStatement, TryCandidate, ListCandidates
    <3>3. ClaimPostgres(w)
      BY <2>3, <3>2 DEF Claim
    <3> QED
      BY <1>1, <3>1, <3>3 DEF ClaimPostgres, DueJobs, Due
  <2>4. ASSUME NEW w \in Workers, WorkerStep(w), ~Claim(w) PROVE row'[j] = row[j] \/ row'[j].status # "running"
    <3>1. ASSUME row' = [row EXCEPT ![task[w].job] = Released(@, "succeeded")]
          PROVE  row'[j] = row[j] \/ row'[j].status # "running"
      BY <2>1, <3>1 DEF Released, Rows
    <3>2. ASSUME FailWrite(w), row' = [row EXCEPT ![task[w].job] = FailedRow(@, outcome[w], readAt[w])]
          PROVE  row'[j] = row[j] \/ row'[j].status # "running"
      <4>1. outcome[w] # "running"
        BY <1>1, <3>2 DEF FailWrite, FencingInv, Decided
      <4> QED
        BY <2>1, <3>2, <4>1 DEF FailedRow, Released, Rows
    <3> QED
      BY <2>4, <3>1, <3>2 DEF WorkerStep, Poll, Execute, Join, Complete, FailRead, FailWrite, Audit, Restart
  <2>5. ASSUME NEW k \in Jobs, Enqueue(k) PROVE row'[j] = row[j] \/ row'[j].status # "running"
    BY <2>1, <2>5 DEF Enqueue, NewRow, AbsentRow
  <2>6. ASSUME NEW tk \in Tokens, HeartbeatRenew(tk) PROVE row'[j] = row[j] \/ row'[j].status # "running"
    BY <1>1, <2>1, <2>6 DEF HeartbeatRenew, Holds, Renewed, Rows
  <2>7. ASSUME \/ \E w \in Workers : Crash(w)
               \/ \E tk \in Tokens : HeartbeatExit(tk) \/ HeartbeatCall(tk) \/ HeartbeatError(tk)
               \/ Tick \/ UNCHANGED vars
        PROVE  row' = row
    BY <2>7 DEF Crash, HeartbeatExit, HeartbeatCall, HeartbeatError, Tick, vars
  <2> QED
    BY <1>1, <2>2, <2>3, <2>4, <2>5, <2>6, <2>7 DEF Next, ThreadStep
<1>2. FencingInv /\ OneStatement /\ [Next]_vars =>
        [\A j \in Jobs : row[j].status = "queued" /\ row'[j].status = "running"
           => row[j].runAfter <= now]_vars
  BY <1>1
<1> QED
  BY <1>2, FencingInvariant, OneStatementAlways, PTL DEF Spec, BackoffRespected
-----------------------------------------------------------------------------
(* The workers implement fenced leases. *)

\* A job that was never enqueued was never attempted.
Untouched == \A j \in Jobs : row[j].status = "absent" => row[j].attempts = 0

LEMMA UntouchedAlways == Spec => []Untouched
<1>1. Init => Untouched
  BY DEF Init, QueueInit, AbsentRow, Untouched
<1>2. ASSUME FencingInv, Untouched, [Next]_vars PROVE Untouched'
  <2> SUFFICES ASSUME NEW j \in Jobs, row'[j].status = "absent" PROVE row'[j].attempts = 0
    BY DEF Untouched
  <2>1. row[j] \in Rows
    BY <1>2 DEF FencingInv, TypeOK, QueueTypeOK
  <2>2. \A w \in Workers : Leased(row[j], IdOf[w], FreshToken, readAt[w]).status = "running"
    BY <2>1 DEF Leased, Rows
  <2>3. \A t \in Nat : Renewed(row[j], t).status = row[j].status
    BY <2>1 DEF Renewed, Rows
  <2>4. row'[j] = row[j]
    BY <1>2, <2>2, <2>3, RowStep
  <2> QED
    BY <1>2, <2>4 DEF Untouched
<1> QED
  BY <1>1, <1>2, FencingInvariant, PTL DEF Spec

\* The variables of FencedLease, read off the table and the workers.
LeaseState == [j \in Jobs |-> IF row[j].status = "running" THEN "leased" ELSE row[j].status]
LeaseGrants == [j \in Jobs |-> row[j].attempts]
LeaseGrant == [w \in Workers |-> IF task[w].token = None THEN None
                                 ELSE [job |-> task[w].job, number |-> task[w].attempts]]

LEMMA InitLease == Init => Fenced!Init
BY DEF Init, QueueInit, AbsentRow, NoTask, Fenced!Init

\* What leaves the status and attempts of the rows and the tasks is a stutter.
LEMMA LeaseStutter ==
  ASSUME task' = task,
         \A j \in Jobs : row'[j].status = row[j].status /\ row'[j].attempts = row[j].attempts
  PROVE  UNCHANGED Fenced!leaseVars
<1>1. LeaseState' = LeaseState /\ LeaseGrants' = LeaseGrants /\ LeaseGrant' = LeaseGrant
  BY DEF LeaseState, LeaseGrants, LeaseGrant
<1> QED
  BY <1>1 DEF Fenced!leaseVars, LeaseState, LeaseGrants, LeaseGrant

\* A worker that ends its run without an outcome drops its grant.
LEMMA LeaseDrop ==
  ASSUME TypeOK, NEW w \in Workers, task' = [task EXCEPT ![w] = NoTask], row' = row
  PROVE  [Fenced!Next]_(Fenced!leaseVars)
<1>1. LeaseGrant' = [LeaseGrant EXCEPT ![w] = None]
  BY DEF LeaseGrant, NoTask, TypeOK
<1>2. LeaseState' = LeaseState /\ LeaseGrants' = LeaseGrants
  BY DEF LeaseState, LeaseGrants
<1>3. CASE LeaseGrant[w] # None
  <2>1. Fenced!Drop(w)
    BY <1>1, <1>2, <1>3 DEF Fenced!Drop, LeaseState, LeaseGrants, LeaseGrant
  <2> QED
    BY <2>1 DEF Fenced!Next
<1>4. CASE LeaseGrant[w] = None
  <2>1. LeaseGrant' = LeaseGrant
    BY <1>1, <1>4 DEF LeaseGrant
  <2> QED
    BY <1>2, <2>1 DEF Fenced!leaseVars, LeaseState, LeaseGrants, LeaseGrant
<1> QED
  BY <1>3, <1>4

\* claim() is a grant with the next number, to a worker that had none.
LEMMA LeaseGranted ==
  ASSUME FencingInv, NEW w \in Workers, NEW j \in Jobs, pc[w] \notin Busy,
         Claimable(row[j], readAt[w]), Grant(w, j)
  PROVE  Fenced!Next
<1>1. row \in [Jobs -> Rows] /\ task \in [Workers -> Tasks \cup {NoTask}] /\ task[w] = NoTask
  BY DEF FencingInv, TypeOK, QueueTypeOK, Working
<1>2. FreshToken \in Tokens /\ FreshToken # None
  BY FreshTokenIsFresh, QueueAssumption DEF Grant
<1>3. LeaseState' = [LeaseState EXCEPT ![j] = "leased"]
  BY <1>1 DEF LeaseState, Grant, Leased, Rows
<1>4. LeaseGrants' = [LeaseGrants EXCEPT ![j] = @ + 1]
  BY <1>1 DEF LeaseGrants, Grant, Leased, Rows
<1>5. LeaseGrant' = [LeaseGrant EXCEPT ![w] = [job |-> j, number |-> LeaseGrants[j] + 1]]
  BY <1>1, <1>2 DEF LeaseGrant, LeaseGrants, Grant
<1>6. LeaseState[j] \in {"queued", "leased"} /\ LeaseGrant[w] = None
  BY <1>1 DEF LeaseState, LeaseGrant, Claimable, NoTask
<1>7. Fenced!Grant(w, j)
  BY <1>3, <1>4, <1>5, <1>6 DEF Fenced!Grant, LeaseState, LeaseGrants, LeaseGrant
<1> QED
  BY <1>7 DEF Fenced!Next

\* complete() and fail() settle the newest grant.
LEMMA LeaseSettled ==
  ASSUME FencingInv, NEW w \in Workers, NEW st \in {"queued", "succeeded", "dead"},
         pc[w] \in Busy, row[task[w].job].token = task[w].token,
         row' = [row EXCEPT ![task[w].job] = row'[task[w].job]],
         row'[task[w].job].status = st,
         row'[task[w].job].attempts = row[task[w].job].attempts,
         Committed(w)
  PROVE  Fenced!Next
<1> DEFINE j == task[w].job
<1>1. row \in [Jobs -> Rows] /\ task \in [Workers -> Tasks \cup {NoTask}] /\ task[w] \in Tasks
  BY DEF FencingInv, TypeOK, QueueTypeOK, Working
<1>2. j \in Jobs /\ task[w].token # None
  BY <1>1, QueueAssumption DEF Tasks
<1>3. row[j].status = "running" /\ task[w].attempts = row[j].attempts
  BY <1>2 DEF FencingInv, LeaseColumns, AttemptsAgree
<1>4. LeaseState' = [LeaseState EXCEPT ![j] = st]
  BY <1>1, <1>2 DEF LeaseState
<1>5. LeaseGrants' = LeaseGrants
  BY <1>1, <1>2 DEF LeaseGrants
<1>6. LeaseGrant' = [LeaseGrant EXCEPT ![w] = None]
  BY <1>1 DEF LeaseGrant, Committed, NoTask
<1>7. LeaseGrant[w] = [job |-> j, number |-> LeaseGrants[j]] /\ LeaseState[j] = "leased"
  BY <1>2, <1>3 DEF LeaseGrant, LeaseGrants, LeaseState
<1>8. Fenced!Settle(w, st)
  BY <1>2, <1>4, <1>5, <1>6, <1>7 DEF Fenced!Settle, LeaseState, LeaseGrants, LeaseGrant
<1> QED
  BY <1>8 DEF Fenced!Next

\* Each step of the workers is one step of FencedLease, or none.
LEMMA NextLease ==
  ASSUME FencingInv, Untouched, [Next]_vars
  PROVE  [Fenced!Next]_(Fenced!leaseVars)
<1>0. TypeOK /\ row \in [Jobs -> Rows]
  BY DEF FencingInv, TypeOK, QueueTypeOK
<1>1. ASSUME NEW j \in Jobs, Enqueue(j) PROVE Fenced!Next
  <2>1. LeaseState' = [LeaseState EXCEPT ![j] = "queued"] /\ LeaseState[j] = "absent"
    BY <1>0, <1>1 DEF LeaseState, Enqueue, NewRow, AbsentRow
  <2>2. LeaseGrants' = LeaseGrants /\ LeaseGrant' = LeaseGrant
    BY <1>0, <1>1 DEF LeaseGrants, LeaseGrant, Untouched, Enqueue, NewRow, AbsentRow, workerVars
  <2>3. Fenced!Submit(j)
    BY <2>1, <2>2 DEF Fenced!Submit, LeaseState, LeaseGrants, LeaseGrant
  <2> QED
    BY <2>3 DEF Fenced!Next
<1>2. ASSUME NEW w \in Workers, Leave(w), row' = row PROVE [Fenced!Next]_(Fenced!leaseVars)
  BY <1>0, <1>2, LeaseDrop DEF Leave
<1>3. ASSUME NEW w \in Workers, Claim(w) PROVE [Fenced!Next]_(Fenced!leaseVars)
  <2>1. CASE ClaimPostgres(w)
    BY <1>2, <2>1, LeaseGranted DEF ClaimPostgres, DueJobs, Due, Busy
  <2>2. CASE ListCandidates(w)
    BY <2>2, LeaseStutter DEF ListCandidates
  <2>3. CASE TryCandidate(w)
    <3>1. cands[w] \in Seq(Jobs)
      BY <1>0 DEF TypeOK
    <3>2. CASE cands[w] = <<>> /\ Leave(w) /\ UNCHANGED row
      BY <1>2, <3>2
    <3>3. CASE cands[w] # <<>> /\ Claimable(row[Head(cands[w])], readAt[w]) /\ Grant(w, Head(cands[w]))
      <4>1. Head(cands[w]) \in Jobs /\ pc[w] \notin Busy
        BY <2>3, <3>1, <3>3 DEF TryCandidate, Busy
      <4> QED
        BY <3>3, <4>1, LeaseGranted
    <3>4. CASE UNCHANGED <<row, task>>
      BY <3>4, LeaseStutter
    <3> QED
      BY <2>3, <3>2, <3>3, <3>4 DEF TryCandidate
  <2> QED
    BY <1>3, <2>1, <2>2, <2>3 DEF Claim
<1>4. ASSUME NEW w \in Workers, Join(w) PROVE [Fenced!Next]_(Fenced!leaseVars)
  <2>1. CASE lost[w]
    BY <1>2, <1>4, <2>1 DEF Join
  <2>2. CASE ~lost[w]
    BY <1>4, <2>2, LeaseStutter DEF Join
  <2> QED
    BY <2>1, <2>2
<1>5. ASSUME NEW w \in Workers, Complete(w) PROVE [Fenced!Next]_(Fenced!leaseVars)
  <2>1. CASE Leave(w) /\ UNCHANGED row
    BY <1>2, <2>1
  <2>2. CASE /\ row[task[w].job].token = task[w].token
             /\ row' = [row EXCEPT ![task[w].job] = Released(@, "succeeded")] /\ Committed(w)
    <3>1. pc[w] \in Busy /\ task[w].job \in Jobs
      BY <1>5 DEF Complete, Busy, FencingInv, Working, Tasks
    <3>2. /\ row' = [row EXCEPT ![task[w].job] = row'[task[w].job]]
          /\ row'[task[w].job].status = "succeeded"
          /\ row'[task[w].job].attempts = row[task[w].job].attempts
      BY <1>0, <2>2, <3>1 DEF Released, Rows
    <3> QED
      BY <2>2, <3>1, <3>2, LeaseSettled
  <2> QED
    BY <1>5, <2>1, <2>2 DEF Complete, Holds, Owned
<1>6. ASSUME NEW w \in Workers, FailWrite(w) PROVE [Fenced!Next]_(Fenced!leaseVars)
  <2>1. CASE Leave(w) /\ UNCHANGED row
    BY <1>2, <2>1
  <2>2. CASE /\ row[task[w].job].token = task[w].token
             /\ row' = [row EXCEPT ![task[w].job] = FailedRow(@, outcome[w], readAt[w])] /\ Committed(w)
    <3>1. pc[w] \in Busy /\ task[w].job \in Jobs /\ outcome[w] \in {"queued", "dead"}
      BY <1>6 DEF FailWrite, Busy, FencingInv, Working, Decided, Tasks
    <3>2. /\ row' = [row EXCEPT ![task[w].job] = row'[task[w].job]]
          /\ row'[task[w].job].status = outcome[w]
          /\ row'[task[w].job].attempts = row[task[w].job].attempts
      BY <1>0, <2>2, <3>1 DEF FailedRow, Released, Rows
    <3> QED
      BY <2>2, <3>1, <3>2, LeaseSettled
  <2> QED
    BY <1>6, <2>1, <2>2 DEF FailWrite, Owned
<1>7. ASSUME NEW w \in Workers, FailRead(w) PROVE [Fenced!Next]_(Fenced!leaseVars)
  BY <1>2, <1>7, LeaseStutter DEF FailRead
<1>8. ASSUME NEW w \in Workers, Audit(w) \/ Crash(w) PROVE [Fenced!Next]_(Fenced!leaseVars)
  BY <1>0, <1>2, <1>8, LeaseDrop DEF Audit, Crash
<1>9. ASSUME NEW tk \in Tokens, HeartbeatRenew(tk) PROVE [Fenced!Next]_(Fenced!leaseVars)
  <2>1. \A j \in Jobs : row'[j].status = row[j].status /\ row'[j].attempts = row[j].attempts
    BY <1>0, <1>9 DEF HeartbeatRenew, Renewed, Rows
  <2> QED
    BY <1>9, <2>1, LeaseStutter DEF HeartbeatRenew
<1>10. ASSUME \/ \E w \in Workers : Poll(w) \/ Execute(w) \/ Restart(w)
              \/ \E tk \in Tokens : HeartbeatExit(tk) \/ HeartbeatCall(tk) \/ HeartbeatError(tk)
              \/ Tick \/ UNCHANGED vars
       PROVE  UNCHANGED <<row, task>>
  BY <1>10 DEF Poll, Execute, Restart, HeartbeatExit, HeartbeatCall, HeartbeatError, Tick,
               workerVars, vars
<1> QED
  BY <1>1, <1>3, <1>4, <1>5, <1>6, <1>7, <1>8, <1>9, <1>10, LeaseStutter
     DEF Next, WorkerStep, ThreadStep

\* The job queue with its workers implements fenced leases: a claim is a grant
\* with the next number, an outcome is committed only upon the newest grant,
\* and everything else, clocks, heartbeats and lost leases included, is no
\* step of the promise or the loss of a grant.
THEOREM ImplementsFencedLease == Spec => FencedSpec
<1>1. Init => Fenced!Init
  BY InitLease
<1>2. FencingInv /\ Untouched /\ [Next]_vars => [Fenced!Next]_(Fenced!leaseVars)
  BY NextLease
<1> QED
  BY <1>1, <1>2, FencingInvariant, UntouchedAlways, PTL DEF Spec, FencedSpec, Fenced!Spec
=============================================================================
