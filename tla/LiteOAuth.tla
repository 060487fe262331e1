----------------------------- MODULE LiteOAuth -----------------------------
(***************************************************************************)
(* OAuth in Foundry Lite: signing in to a provider, refreshing and         *)
(* revoking its tokens (lite/oauth.py, lite/service.py) and the vault that *)
(* keeps them (lite/vault.py).                                             *)
(*                                                                         *)
(* One process serves any number of threads: HTTP requests and the runner. *)
(* A thread is between two steps whenever it calls the provider or has     *)
(* committed a transaction.  The provider is external: it keeps the set of *)
(* refresh tokens it still accepts, and may replace one when it is used.   *)
(* Time is two events, Lapse of an authorization and Expire of an access   *)
(* token.  Bounds: the identifiers in Systems, Refs and States, MaxTokens, *)
(* MaxCrashes and the client identifiers in ClientIds.                     *)
(***************************************************************************)
EXTENDS Integers, FiniteSets

CONSTANTS
  Systems, Refs, States,  \* identifiers that may be drawn
  Providers, Rotating,    \* those that replace a refresh token when it is used
  Revocable,              \* those with a revocation endpoint
  ClientIds,              \* client identifiers a user may configure
  Threads,
  Null, Gone,             \* no value yet; what a deleted secret leaves (it is never drawn again)
  MaxTokens, MaxCrashes

\* What the rows hold, and what the vault does.
Authorizations == [provider : Providers, lapsed : BOOLEAN]
SystemRows == [ref : Refs \cup {Null}, status : {"ready", "needs_attention"}, provider : Providers]
ClientRows == [id : ClientIds, ref : Refs]
TokenSets == [refresh : Nat, due : BOOLEAN]
ClientSecrets == [client : ClientIds]

ASSUME OAuthAssumption ==
  /\ Rotating \subseteq Providers /\ Revocable \subseteq Providers
  /\ MaxTokens \in Nat /\ MaxCrashes \in Nat
  /\ Null \notin Systems /\ Null \notin Refs /\ Null \notin States /\ Null \notin Providers
  /\ Null \notin Authorizations \cup SystemRows \cup ClientRows \cup TokenSets \cup ClientSecrets
  /\ Gone \notin TokenSets \cup ClientSecrets /\ Gone # Null

VARIABLES
  system,    \* lite_systems: [ref, status, provider], or Null
  secret,    \* lite_secrets: tokens or a client secret, Null or Gone
  client,    \* lite_oauth_providers: [id, ref], or Null
  pending,   \* authorizations under way: [provider, lapsed], or Null
  task,      \* what a thread is doing
  live,      \* refresh tokens the provider accepts (external)
  issued,    \* how many it issued
  crashes,
  used, started, forgotten, disturbed  \* auxiliary, see the properties

vars == <<system, secret, client, pending, task, live, issued, crashes, used, started, forgotten, disturbed>>
rows == <<system, secret, client>>
provider == <<live, issued>>
history == <<used, started, forgotten, disturbed>>

Idle == [step |-> "idle", state |-> Null, provider |-> Null, system |-> Null, ref |-> Null,
         tokens |-> Null, revoke |-> FALSE]
Tokens(n) == [refresh |-> n, due |-> FALSE]

Init ==
  /\ system = [s \in Systems |-> Null] /\ secret = [r \in Refs |-> Null]
  /\ client = [p \in Providers |-> Null] /\ pending = [a \in States |-> Null]
  /\ task = [t \in Threads |-> Idle]
  /\ live = {} /\ issued = 0 /\ crashes = 0
  /\ used = [a \in States |-> 0] /\ started = [a \in States |-> Null]
  /\ forgotten = [s \in Systems |-> Null] /\ disturbed = {}
-----------------------------------------------------------------------------
Free(S, table) == {i \in S : table[i] = Null}
Drawn(S, table) == CHOOSE i \in Free(S, table) : TRUE
At(t, step) == task[t].step = step
Do(t, step) == task' = [task EXCEPT ![t].step = step]
Done(t) == task' = [task EXCEPT ![t] = Idle]
Put(r, value) == secret' = [secret EXCEPT ![r] = value]

\* Threads that have a reference in hand, and may write or remove what it names.
Handles(r) == {t \in Threads : task[t].ref = r}

\* configure(): the row is read, the client secret put, the row written.
ReadProvider(t, p) ==
  /\ At(t, "idle")
  /\ LET r == IF client[p] = Null THEN Null ELSE client[p].ref IN
     /\ task' = [task EXCEPT ![t] = [Idle EXCEPT !.step = "put_client", !.provider = p, !.ref = r]]
     /\ disturbed' = IF \E u \in Threads \ {t} : task[u].provider = p /\ task[u].step \in {"put_client", "save"}
                     THEN disturbed \cup {p} ELSE disturbed
  /\ UNCHANGED <<rows, pending, provider, crashes, used, started, forgotten>>

PutClientSecret(t, id) ==
  LET r == IF task[t].ref = Null THEN Drawn(Refs, secret) ELSE task[t].ref IN
  /\ At(t, "put_client") /\ (task[t].ref # Null \/ Free(Refs, secret) # {})
  /\ Put(r, [client |-> id])
  /\ task' = [task EXCEPT ![t].step = "save", ![t].ref = r, ![t].tokens = id]
  /\ UNCHANGED <<system, client, pending, provider, crashes, history>>

SaveProvider(t) ==
  /\ At(t, "save")
  /\ client' = [client EXCEPT ![task[t].provider] = [id |-> task[t].tokens, ref |-> task[t].ref]]
  /\ Done(t)
  /\ UNCHANGED <<system, secret, pending, provider, crashes, history>>

\* start(): an authorization is pending from now on, for ten minutes.
Start(p) ==
  /\ client[p] # Null
  /\ \E a \in States :
       /\ started[a] = Null
       /\ pending' = [pending EXCEPT ![a] = [provider |-> p, lapsed |-> FALSE]]
       /\ started' = [started EXCEPT ![a] = p]
  /\ UNCHANGED <<rows, task, provider, crashes, used, forgotten, disturbed>>

Lapse(a) ==
  /\ pending[a] # Null /\ ~pending[a].lapsed
  /\ pending' = [pending EXCEPT ![a].lapsed = TRUE]
  /\ UNCHANGED <<rows, task, provider, crashes, history>>

\* The callback, which a browser may send twice.  The authorization is removed under the
\* lock, then tested.  (Mutant: it is removed when the system is added.)
Admitted(a, p) == pending[a] # Null /\ pending[a].provider = p /\ ~pending[a].lapsed
LateRemaining(a) == [pending EXCEPT ![a] = IF @ # Null /\ @.lapsed THEN Null ELSE @]
Remaining(a) == [pending EXCEPT ![a] = Null]
Callback(t, a, p) ==
  /\ At(t, "idle") /\ started[a] # Null
  /\ pending' = Remaining(a)
  /\ task' = IF Admitted(a, p) THEN [task EXCEPT ![t] = [Idle EXCEPT !.step = "exchange", !.state = a, !.provider = p]]
             ELSE task
  /\ UNCHANGED <<rows, provider, crashes, history>>

\* exchange(): the provider issues tokens, or refuses.
Exchange(t) ==
  /\ At(t, "exchange") /\ issued < MaxTokens
  /\ issued' = issued + 1 /\ live' = live \cup {issued + 1}
  /\ task' = [task EXCEPT ![t].step = "put_tokens", ![t].tokens = Tokens(issued + 1)]
  /\ UNCHANGED <<rows, pending, crashes, history>>
Refuse(t) ==
  /\ task[t].step \in {"exchange", "refresh", "revoke"}
  /\ Done(t)
  /\ UNCHANGED <<rows, pending, provider, crashes, history>>

\* add_profiled_system(): the tokens are committed before the row that refers to them.
PutTokens(t) ==
  LET r == Drawn(Refs, secret) IN
  /\ At(t, "put_tokens") /\ Free(Refs, secret) # {}
  /\ Put(r, task[t].tokens)
  /\ task' = [task EXCEPT ![t].step = "insert", ![t].ref = r]
  /\ UNCHANGED <<system, client, pending, provider, crashes, history>>
InsertSystem(t) ==
  /\ At(t, "insert") /\ Free(Systems, system) # {}
  /\ system' = [system EXCEPT ![Drawn(Systems, system)] =
                  [ref |-> task[t].ref, status |-> "ready", provider |-> task[t].provider]]
  /\ used' = [used EXCEPT ![task[t].state] = @ + 1]
  /\ Done(t)
  /\ UNCHANGED <<secret, client, pending, provider, crashes, started, forgotten, disturbed>>
-----------------------------------------------------------------------------
(* _system_credentials, for a run, or for a revocation *)
ReadRow(t, s, revoke) ==
  /\ At(t, "idle") /\ system[s] # Null /\ system[s].ref # Null
  /\ task' = [task EXCEPT ![t] = [Idle EXCEPT !.step = "resolve", !.system = s, !.ref = system[s].ref,
                                              !.provider = system[s].provider, !.revoke = revoke]]
  /\ disturbed' = IF Handles(system[s].ref) # {} THEN disturbed \cup {system[s].ref} ELSE disturbed
  /\ UNCHANGED <<rows, pending, provider, crashes, used, started, forgotten>>

Proceed(t, tokens) ==
  task' = [task EXCEPT ![t] = IF task[t].revoke THEN [@ EXCEPT !.step = "revoke", !.tokens = tokens] ELSE Idle]

\* A token that is due is refreshed; a secret that is gone ends the call.
Resolve(t) ==
  LET found == secret[task[t].ref] IN
  /\ At(t, "resolve")
  /\ IF found = Gone THEN Done(t)
     ELSE IF ~found.due THEN Proceed(t, found)
     ELSE task' = [task EXCEPT ![t].step = "refresh", ![t].tokens = found]
  /\ UNCHANGED <<rows, pending, provider, crashes, history>>

Refreshed(old, p) == IF p \in Rotating THEN Tokens(issued + 1) ELSE [old EXCEPT !.due = FALSE]
Refresh(t) ==
  LET old == task[t].tokens
      new == Refreshed(old, task[t].provider) IN
  /\ At(t, "refresh") /\ old.refresh \in live /\ issued < MaxTokens
  /\ live' = (live \ {old.refresh}) \cup {new.refresh}
  /\ issued' = IF new.refresh = old.refresh THEN issued ELSE issued + 1
  /\ task' = [task EXCEPT ![t].step = "store", ![t].tokens = new]
  /\ UNCHANGED <<rows, pending, crashes, history>>

\* The vault's put is an upsert.  (Mutant: the answer is used and not stored.)
NotStored(t) == UNCHANGED secret
Stored(t) == Put(task[t].ref, task[t].tokens)
Store(t) ==
  /\ At(t, "store")
  /\ Stored(t)
  /\ Proceed(t, task[t].tokens)
  /\ UNCHANGED <<system, client, pending, provider, crashes, history>>

\* revoke(): at the provider if it can, then the secret is deleted, then the row cleared.
Revoke(t) ==
  /\ At(t, "revoke")
  /\ IF task[t].provider \in Revocable
     THEN task[t].tokens.refresh \in live /\ live' = live \ {task[t].tokens.refresh}
     ELSE UNCHANGED live
  /\ Do(t, "delete")
  /\ UNCHANGED <<rows, pending, issued, crashes, history>>
\* (Mutant: only the row is cleared.)
NotDeleted(t) == UNCHANGED secret
Deleted(t) == Put(task[t].ref, Gone)
DeleteSecret(t) ==
  /\ At(t, "delete")
  /\ Deleted(t)
  /\ Do(t, "clear")
  /\ UNCHANGED <<system, client, pending, provider, crashes, history>>
ClearRow(t) ==
  /\ At(t, "clear")
  /\ system' = [system EXCEPT ![task[t].system].ref = Null, ![task[t].system].status = "needs_attention"]
  /\ forgotten' = [forgotten EXCEPT ![task[t].system] = task[t].ref]
  /\ Done(t)
  /\ UNCHANGED <<secret, client, pending, provider, crashes, used, started, disturbed>>

Expire(r) ==
  /\ secret[r] \notin {Null, Gone} /\ "due" \in DOMAIN secret[r] /\ ~secret[r].due
  /\ secret' = [secret EXCEPT ![r].due = TRUE]
  /\ UNCHANGED <<system, client, pending, task, provider, crashes, history>>

\* The process ends, and with it its threads and what is pending; or a statement or a
\* call fails, and with it its thread.
Broken(T) == {task[t].ref : t \in {u \in T : task[u].step \in {"store", "delete", "clear"}}}
             \cup {task[t].provider : t \in {u \in T : task[u].step = "save"}}
Crash ==
  /\ crashes < MaxCrashes /\ crashes' = crashes + 1
  /\ pending' = [a \in States |-> Null]
  /\ task' = [t \in Threads |-> Idle]
  /\ disturbed' = disturbed \cup Broken(Threads)
  /\ UNCHANGED <<rows, provider, used, started, forgotten>>
Fail(t) ==
  /\ task[t] # Idle /\ crashes < MaxCrashes /\ crashes' = crashes + 1
  /\ Done(t)
  /\ disturbed' = disturbed \cup Broken({t})
  /\ UNCHANGED <<rows, pending, provider, used, started, forgotten>>

Next ==
  \/ \E t \in Threads :
       \/ \E p \in Providers : ReadProvider(t, p) \/ \E a \in States : Callback(t, a, p)
       \/ \E id \in ClientIds : PutClientSecret(t, id)
       \/ SaveProvider(t) \/ Exchange(t) \/ Refuse(t) \/ PutTokens(t) \/ InsertSystem(t)
       \/ \E s \in Systems, revoke \in BOOLEAN : ReadRow(t, s, revoke)
       \/ Resolve(t) \/ Refresh(t) \/ Store(t) \/ Revoke(t) \/ DeleteSecret(t) \/ ClearRow(t) \/ Fail(t)
  \/ \E p \in Providers : Start(p)
  \/ \E a \in States : Lapse(a)
  \/ \E r \in Refs : Expire(r)
  \/ Crash

Spec == Init /\ [][Next]_vars
-----------------------------------------------------------------------------
\* One sign-in adds one system at most, of the provider it was started for, however often
\* and wherever its callback arrives.
AuthorizedOnce ==
  /\ \A a \in States : used[a] <= 1
  /\ \A t \in Threads : task[t].state # Null => task[t].provider = started[task[t].state]

\* A system whose access was revoked has no secret left, unless another thread was using
\* it at that time (its refresh may then store the deleted secret again).
Forgotten == \A s \in Systems :
  LET r == forgotten[s] IN
  r # Null /\ r \notin disturbed =>
    system[s].ref = Null /\ secret[r] = Gone

\* Undisturbed (no two threads at it at once, no crash between its steps), a system keeps
\* a refresh token the provider accepts, and a client identifier its own secret.
Busy(r) == \E t \in Handles(r) : task[t].step \in {"store", "delete", "clear"}
CredentialsKept ==
  /\ \A s \in Systems : system[s] # Null /\ system[s].ref # Null =>
       LET r == system[s].ref IN
       r \notin disturbed /\ ~Busy(r) => secret[r] # Gone /\ secret[r].refresh \in live
  /\ \A p \in Providers : client[p] # Null /\ p \notin disturbed /\ ~(\E t \in Threads : At(t, "save") /\ task[t].provider = p) =>
       secret[client[p].ref] = [client |-> client[p].id]
=============================================================================
