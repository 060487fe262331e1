---------------------------- MODULE FencedLease -----------------------------
(***************************************************************************)
(* What the job queue promises, without clocks, tokens or threads: a job   *)
(* is granted any number of times, each grant has the next number, and     *)
(* only the client with the newest grant of a job can settle it, once.     *)
(* Module JobWorker implements it.                                         *)
(***************************************************************************)
EXTENDS Integers

CONSTANTS Jobs, Clients, None

VARIABLES
  state,   \* "absent", "queued", "leased", "succeeded" or "dead"
  grants,  \* how often the job was granted
  grant    \* the grant a client believes it has: a job and its number, or None


leaseVars == <<state, grants, grant>>

Init == /\ state = [j \in Jobs |-> "absent"]
        /\ grants = [j \in Jobs |-> 0]
        /\ grant = [c \in Clients |-> None]

Submit(j) == /\ state[j] = "absent"
             /\ state' = [state EXCEPT ![j] = "queued"]
             /\ UNCHANGED <<grants, grant>>

\* A queued job, or one whose grant lapsed, goes to a client that has none.
Grant(c, j) == /\ state[j] \in {"queued", "leased"}
               /\ grant[c] = None
               /\ state' = [state EXCEPT ![j] = "leased"]
               /\ grants' = [grants EXCEPT ![j] = @ + 1]
               /\ grant' = [grant EXCEPT ![c] = [job |-> j, number |-> grants[j] + 1]]

\* The client with the newest grant settles the job or gives it back.
Settle(c, outcome) == \E j \in Jobs :
  /\ grant[c] = [job |-> j, number |-> grants[j]]
  /\ state[j] = "leased"
  /\ state' = [state EXCEPT ![j] = outcome]
  /\ grant' = [grant EXCEPT ![c] = None]
  /\ UNCHANGED grants

\* A client forgets its grant: it crashed, or was told the lease is lost.
Drop(c) == /\ grant[c] # None
           /\ grant' = [grant EXCEPT ![c] = None]
           /\ UNCHANGED <<state, grants>>

Next == \/ \E j \in Jobs : Submit(j)
        \/ \E c \in Clients : \/ \E j \in Jobs : Grant(c, j)
                              \/ \E o \in {"queued", "succeeded", "dead"} : Settle(c, o)
                              \/ Drop(c)

Spec == Init /\ [][Next]_leaseVars
=============================================================================
