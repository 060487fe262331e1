-------------------------- MODULE LiteOAuth_proofs ---------------------------
(***************************************************************************)
(* Theorems about LiteOAuth, for any identifiers, providers, threads,      *)
(* tokens and crashes.  A sign-in in the hands of a thread is pending no   *)
(* more and in no other hands (Single).  A reference belongs to one system *)
(* or one provider (Owned, Configured) and names one kind of secret for    *)
(* good (Kinds); a refresh token is known under one reference (OneHolder). *)
(* So one system's refresh never makes another's token void, and what goes *)
(* wrong with a system is the doing of those who have its own reference in *)
(* hand: one thread, while nobody disturbs it (Alone, Cleared, Accepted).  *)
(***************************************************************************)
EXTENDS LiteOAuth, TLAPS

Opt(S) == S \cup {Null}

Configuring == {"put_client", "save"}
SigningIn == {"exchange", "put_tokens", "insert"}
Using == {"resolve", "refresh", "store", "revoke", "delete", "clear"}
Steps == {"idle"} \cup Configuring \cup SigningIn \cup Using

Task == [step : Steps, state : Opt(States), provider : Opt(Providers), system : Opt(Systems),
         ref : Opt(Refs), tokens : Opt(TokenSets \cup ClientIds), revoke : BOOLEAN]

\* What a thread has in hand at its step.
Shaped(x) ==
  /\ x.step # "idle" => x.provider \in Providers
  /\ x.step \in SigningIn <=> x.state # Null
  /\ x.step \in Using <=> x.system # Null
  /\ x.step \in Using \cup {"save", "insert"} => x.ref \in Refs
  /\ x.step \in {"idle", "exchange", "put_tokens"} => x.ref = Null
  /\ x.step \in {"put_tokens", "refresh", "store", "revoke"} => x.tokens \in TokenSets
  /\ x.step = "save" => x.tokens \in ClientIds

Tasks == {x \in Task : Shaped(x)}

\* The secrets behind the rows and tasks are of their kind.
OfSystem(r) == r \in Refs => secret[r] \in TokenSets \cup {Gone}
OfClient(r) == r \in Refs => secret[r] \in ClientSecrets
Kinds ==
  /\ \A t \in Threads : /\ task[t].step \in Using \cup {"insert"} => OfSystem(task[t].ref)
                        /\ task[t].step \in Configuring => OfClient(task[t].ref)
  /\ \A s \in Systems : /\ system[s] # Null => OfSystem(system[s].ref)
                        /\ OfSystem(forgotten[s])
  /\ \A p \in Providers : client[p] # Null => OfClient(client[p].ref)

Typed ==
  /\ system \in [Systems -> Opt(SystemRows)]
  /\ secret \in [Refs -> Opt(TokenSets \cup ClientSecrets \cup {Gone})]
  /\ client \in [Providers -> Opt(ClientRows)]
  /\ pending \in [States -> Opt(Authorizations)]
  /\ task \in [Threads -> Tasks]
  /\ issued \in Nat /\ live \in SUBSET (1..issued)
  /\ used \in [States -> Nat]
  /\ started \in [States -> Opt(Providers)]
  /\ forgotten \in [Systems -> Opt(Refs)]
-----------------------------------------------------------------------------
(* A sign-in is used once *)

Unused(a) == pending[a] = Null /\ used[a] = 0

Single ==
  /\ \A a \in States :
       /\ used[a] <= 1
       /\ started[a] = Null => Unused(a)
       /\ pending[a] # Null => pending[a].provider = started[a] /\ used[a] = 0
  /\ \A t \in Threads : task[t].state # Null =>
       /\ task[t].provider = started[task[t].state] /\ Unused(task[t].state)
       /\ \A u \in Threads : task[u].state = task[t].state => u = t

(* The references of a system and of a provider are theirs *)

\* The reference a system was added with.
Own(s) == IF forgotten[s] = Null THEN system[s].ref ELSE forgotten[s]

Owned ==
  /\ \A s \in Systems :
       /\ system[s] = Null => forgotten[s] = Null
       /\ system[s] # Null => /\ Own(s) \in Refs
                              /\ (forgotten[s] # Null <=> system[s].ref = Null)
                              /\ \A q \in Systems : system[q] # Null /\ Own(q) = Own(s) => (q = s)
  /\ \A t \in Threads : task[t].system # Null =>
       system[task[t].system] # Null /\ task[t].ref = Own(task[t].system)
  /\ \A t \in Threads : At(t, "insert") =>
       /\ \A s \in Systems : system[s] # Null => Own(s) # task[t].ref
       /\ \A u \in Threads : task[u].ref = task[t].ref => u = t

\* Without a disturbance a system's secret is in the hands of one thread, and while it
\* is there the row still refers to it.
Alone ==
  \A t \in Threads : task[t].step \in Using /\ task[t].ref \notin disturbed =>
    /\ forgotten[task[t].system] = Null
    /\ \A u \in Threads : task[u].step \in Using /\ task[u].ref = task[t].ref => u = t

Cleared ==
  /\ \A t \in Threads : At(t, "clear") /\ task[t].ref \notin disturbed =>
       secret[task[t].ref] = Gone
  /\ \A s \in Systems : forgotten[s] # Null /\ forgotten[s] \notin disturbed => secret[forgotten[s]] = Gone

(* A refresh token is known under one reference *)

Carrying == {"refresh", "store", "revoke"}
Holds(r, n) ==
  \/ secret[r] \in TokenSets /\ secret[r].refresh = n
  \/ \E t \in Threads : task[t].step \in Carrying /\ task[t].ref = r /\ task[t].tokens.refresh = n
Fresh(t, n) == At(t, "put_tokens") /\ task[t].tokens.refresh = n

OneHolder ==
  /\ \A r \in Refs : \A n \in Nat : Holds(r, n) =>
       /\ n <= issued
       /\ \A q \in Refs : Holds(q, n) => q = r
  /\ \A t \in Threads : \A n \in Nat : Fresh(t, n) =>
       /\ n <= issued
       /\ \A q \in Refs : ~Holds(q, n)
       /\ \A u \in Threads : Fresh(u, n) => u = t

\* Accepted by the provider.
Alive(r) == secret[r] \in TokenSets /\ secret[r].refresh \in live
Accepted ==
  /\ \A t \in Threads :
       /\ At(t, "put_tokens") => task[t].tokens.refresh \in live
       /\ At(t, "insert") => Alive(task[t].ref)
       /\ At(t, "store") /\ task[t].ref \notin disturbed => task[t].tokens.refresh \in live
  /\ \A s \in Systems :
       system[s] # Null /\ system[s].ref # Null /\ system[s].ref \notin disturbed /\ ~Busy(system[s].ref) =>
         Alive(system[s].ref)

(* A client identifier has its own secret *)

Knows(p, r) == \/ client[p] # Null /\ client[p].ref = r
               \/ \E t \in Threads : task[t].step \in Configuring /\ task[t].provider = p /\ task[t].ref = r
Configured ==
  /\ \A p \in Providers, q \in Providers : \A r \in Refs : Knows(p, r) /\ Knows(q, r) => p = q
  /\ \A t \in Threads : task[t].step \in Configuring /\ task[t].provider \notin disturbed =>
       /\ \A u \in Threads : task[u].step \in Configuring /\ task[u].provider = task[t].provider => u = t
       /\ At(t, "save") => secret[task[t].ref] = [client |-> task[t].tokens]
  /\ \A p \in Providers : client[p] # Null /\ p \notin disturbed =>
       \/ \E t \in Threads : At(t, "save") /\ task[t].provider = p
       \/ secret[client[p].ref] = [client |-> client[p].id]

\* Between two states: the other threads are where they were.
Others(t) == \A u \in Threads \ {t} : task'[u] = task[u]
-----------------------------------------------------------------------------
LEMMA IdleTask == Idle \in Tasks
  BY OAuthAssumption DEF Idle, Tasks, Task, Shaped, Opt, Steps, SigningIn, Using, Configuring

LEMMA TypedInit == Init => Typed
  BY IdleTask DEF Init, Typed, Opt

LEMMA TokensType ==
  ASSUME NEW n \in Nat
  PROVE  Tokens(n) \in TokenSets /\ Tokens(n).refresh = n
BY DEF Tokens, TokenSets

LEMMA DrawnFree ==
  ASSUME NEW S, NEW table, Free(S, table) # {}
  PROVE  Drawn(S, table) \in S /\ table[Drawn(S, table)] = Null
BY DEF Free, Drawn

\* No secret is of both kinds.
LEMMA KindsDiffer ==
  ASSUME NEW x, x \in TokenSets \cup {Gone}, x \in ClientSecrets
  PROVE  FALSE
<1>1. CASE x = Gone
  BY <1>1, OAuthAssumption
<1>2. CASE x \in TokenSets
  <2>1. DOMAIN x = {"refresh", "due"}
    BY <1>2 DEF TokenSets
  <2>2. DOMAIN x = {"client"}
    BY DEF ClientSecrets
  <2> QED
    BY <2>1, <2>2
<1> QED
  BY <1>1, <1>2

-----------------------------------------------------------------------------
(* What each step of a thread makes of its task *)

Is(x, step, state, p, s, r) ==
  x.step = step /\ x.state = state /\ x.provider = p /\ x.system = s /\ x.ref = r

\* A thread's next place, and what it takes with it.
LEMMA NextTask ==
  ASSUME Typed, NEW t \in Threads, NEW x, x \in Task, Shaped(x), task' = [task EXCEPT ![t] = x]
  PROVE  task' \in [Threads -> Tasks] /\ task'[t] = x /\ Others(t)
BY DEF Typed, Others, Tasks

LEMMA TaskType ==
  ASSUME Typed, NEW t \in Threads
  PROVE  task[t] \in Task /\ Shaped(task[t])
BY DEF Typed, Tasks

LEMMA Ends ==
  ASSUME Typed, NEW t \in Threads, Done(t)
  PROVE  task' \in [Threads -> Tasks] /\ task'[t] = Idle /\ Others(t)
BY IdleTask, NextTask DEF Done, Tasks

LEMMA ReadProviderDoes ==
  ASSUME Typed, NEW t \in Threads, NEW p \in Providers, ReadProvider(t, p)
  PROVE  /\ task' \in [Threads -> Tasks] /\ Others(t) /\ task[t].step = "idle"
         /\ Is(task'[t], "put_client", Null, p, Null, IF client[p] = Null THEN Null ELSE client[p].ref)
<1> DEFINE r == IF client[p] = Null THEN Null ELSE client[p].ref
           x == [Idle EXCEPT !.step = "put_client", !.provider = p, !.ref = r]
<1>1. r \in Opt(Refs)
  BY DEF Typed, ClientRows, Opt
<1>2. task' = [task EXCEPT ![t] = x] /\ task[t].step = "idle"
  BY DEF ReadProvider, At
<1> HIDE DEF r
<1>3. x \in Task /\ Is(x, "put_client", Null, p, Null, r)
  BY <1>1 DEF Task, Idle, Opt, Steps, Configuring, Is
<1> HIDE DEF x
<1>4. Shaped(x)
  BY <1>3 DEF Is, Shaped, SigningIn, Using
<1> QED
  BY <1>2, <1>3, <1>4, NextTask DEF r

LEMMA PutClientSecretDoes ==
  ASSUME Typed, NEW t \in Threads, NEW id \in ClientIds, PutClientSecret(t, id)
  PROVE  \E r \in Refs :
           /\ task[t].step = "put_client"
           /\ r = task[t].ref \/ (task[t].ref = Null /\ secret[r] = Null)
           /\ secret' = [secret EXCEPT ![r] = [client |-> id]]
           /\ task' \in [Threads -> Tasks] /\ Others(t)
           /\ Is(task'[t], "save", Null, task[t].provider, Null, r) /\ task'[t].tokens = id
<1> DEFINE r == IF task[t].ref = Null THEN Drawn(Refs, secret) ELSE task[t].ref
           x == [task[t] EXCEPT !.step = "save", !.ref = r, !.tokens = id]
<1>0. task[t] \in Task /\ Shaped(task[t])
  BY TaskType
<1>1. task' = [task EXCEPT ![t] = x] /\ task[t].step = "put_client" /\ secret' = [secret EXCEPT ![r] = [client |-> id]]
  BY DEF PutClientSecret, At, Put, Typed
<1>2. r \in Refs /\ (r = task[t].ref \/ (task[t].ref = Null /\ secret[r] = Null))
  <2>1. task[t].ref # Null => task[t].ref \in Refs
    BY <1>0 DEF Task, Opt
  <2>2. task[t].ref = Null => Free(Refs, secret) # {}
    BY DEF PutClientSecret
  <2> QED
    BY <2>1, <2>2, DrawnFree
<1>3. task[t].state = Null /\ task[t].system = Null /\ task[t].provider \in Providers
  BY <1>0, <1>1 DEF Shaped, SigningIn, Using
<1> HIDE DEF r
<1>4. x \in Task /\ Is(x, "save", Null, task[t].provider, Null, r) /\ x.tokens = id
  BY <1>0, <1>2, <1>3 DEF Task, Opt, Steps, Configuring, Is
<1> HIDE DEF x
<1>5. Shaped(x)
  BY <1>2, <1>3, <1>4 DEF Is, Shaped, SigningIn, Using
<1>6. task' \in [Threads -> Tasks] /\ task'[t] = x /\ Others(t)
  BY <1>1, <1>4, <1>5, NextTask
<1> QED
  BY <1>1, <1>2, <1>4, <1>6

LEMMA CallbackDoes ==
  ASSUME Typed, NEW t \in Threads, NEW a \in States, NEW p \in Providers, Callback(t, a, p)
  PROVE  /\ task' \in [Threads -> Tasks] /\ Others(t) /\ task[t].step = "idle"
         /\ IF Admitted(a, p) THEN Is(task'[t], "exchange", a, p, Null, Null)
            ELSE task'[t] = task[t]
<1> DEFINE x == [Idle EXCEPT !.step = "exchange", !.state = a, !.provider = p]
<1>1. x \in Task /\ Is(x, "exchange", a, p, Null, Null)
  BY DEF Task, Idle, Opt, Steps, SigningIn, Is
<1>2. task[t].step = "idle" /\ task' = IF Admitted(a, p) THEN [task EXCEPT ![t] = x] ELSE task
  BY DEF Callback, At
<1> HIDE DEF x
<1>3. Shaped(x)
  BY <1>1, OAuthAssumption DEF Is, Shaped, SigningIn, Using
<1>4. CASE Admitted(a, p)
  BY <1>1, <1>2, <1>3, <1>4, NextTask
<1>5. CASE ~Admitted(a, p)
  BY <1>2, <1>5 DEF Typed, Others
<1> QED
  BY <1>4, <1>5

LEMMA ExchangeDoes ==
  ASSUME Typed, NEW t \in Threads, Exchange(t)
  PROVE  /\ task' \in [Threads -> Tasks] /\ Others(t) /\ task[t].step = "exchange"
         /\ Is(task'[t], "put_tokens", task[t].state, task[t].provider, Null, Null)
         /\ task'[t].tokens \in TokenSets /\ task'[t].tokens.refresh = issued + 1
<1> DEFINE k == Tokens(issued + 1)
           x == [task[t] EXCEPT !.step = "put_tokens", !.tokens = k]
<1>0. task[t] \in Task /\ Shaped(task[t])
  BY TaskType
<1>1. k \in TokenSets /\ k.refresh = issued + 1
  BY TokensType DEF Typed
<1>2. task' = [task EXCEPT ![t] = x] /\ task[t].step = "exchange"
  BY DEF Exchange, At, Typed
<1>3. task[t].state # Null /\ task[t].system = Null /\ task[t].ref = Null /\ task[t].provider \in Providers
  BY <1>0, <1>2 DEF Shaped, SigningIn, Using
<1> HIDE DEF k
<1>4. x \in Task /\ Is(x, "put_tokens", task[t].state, task[t].provider, Null, Null) /\ x.tokens = k
  BY <1>0, <1>1, <1>3 DEF Task, Opt, Steps, SigningIn, Is
<1> HIDE DEF x
<1>5. Shaped(x)
  BY <1>1, <1>3, <1>4 DEF Is, Shaped, SigningIn, Using
<1> QED
  BY <1>1, <1>2, <1>4, <1>5, NextTask

LEMMA PutTokensDoes ==
  ASSUME Typed, NEW t \in Threads, PutTokens(t)
  PROVE  \E r \in Refs :
           /\ task[t].step = "put_tokens" /\ secret[r] = Null
           /\ secret' = [secret EXCEPT ![r] = task[t].tokens]
           /\ task' \in [Threads -> Tasks] /\ Others(t)
           /\ Is(task'[t], "insert", task[t].state, task[t].provider, Null, r)
<1> DEFINE r == Drawn(Refs, secret)
           x == [task[t] EXCEPT !.step = "insert", !.ref = r]
<1>0. task[t] \in Task /\ Shaped(task[t])
  BY TaskType
<1>1. r \in Refs /\ secret[r] = Null
  BY DrawnFree DEF PutTokens
<1>2. task' = [task EXCEPT ![t] = x] /\ task[t].step = "put_tokens" /\ secret' = [secret EXCEPT ![r] = task[t].tokens]
  BY DEF PutTokens, At, Put, Typed
<1>3. task[t].state # Null /\ task[t].system = Null /\ task[t].provider \in Providers
  BY <1>0, <1>2 DEF Shaped, SigningIn, Using
<1> HIDE DEF r
<1>4. x \in Task /\ Is(x, "insert", task[t].state, task[t].provider, Null, r)
  BY <1>0, <1>1, <1>3 DEF Task, Opt, Steps, SigningIn, Is
<1> HIDE DEF x
<1>5. Shaped(x)
  BY <1>1, <1>3, <1>4 DEF Is, Shaped, SigningIn, Using
<1>6. task' \in [Threads -> Tasks] /\ task'[t] = x /\ Others(t)
  BY <1>2, <1>4, <1>5, NextTask
<1> QED
  BY <1>1, <1>2, <1>4, <1>6

LEMMA ReadRowDoes ==
  ASSUME Typed, NEW t \in Threads, NEW s \in Systems, NEW revoke \in BOOLEAN, ReadRow(t, s, revoke)
  PROVE  /\ task' \in [Threads -> Tasks] /\ Others(t) /\ task[t].step = "idle"
         /\ system[s] \in SystemRows /\ system[s].ref \in Refs
         /\ Is(task'[t], "resolve", Null, system[s].provider, s, system[s].ref)
<1> DEFINE r == system[s].ref
           p == system[s].provider
           x == [Idle EXCEPT !.step = "resolve", !.system = s, !.ref = r, !.provider = p, !.revoke = revoke]
<1>1. system[s] \in SystemRows /\ r \in Refs /\ p \in Providers
  BY DEF ReadRow, Typed, SystemRows, Opt
<1>2. task' = [task EXCEPT ![t] = x] /\ task[t].step = "idle"
  BY DEF ReadRow, At
<1> HIDE DEF r, p
<1>3. x \in Task /\ Is(x, "resolve", Null, p, s, r)
  BY <1>1 DEF Task, Idle, Opt, Steps, Using, Is
<1> HIDE DEF x
<1>4. Shaped(x)
  BY <1>1, <1>3, OAuthAssumption DEF Is, Shaped, SigningIn, Using
<1>5. task' \in [Threads -> Tasks] /\ task'[t] = x /\ Others(t)
  BY <1>2, <1>3, <1>4, NextTask
<1> QED
  BY <1>1, <1>2, <1>3, <1>5 DEF r, p

\* From one step with a system's credentials to another.
Goes(t, step, k) == task' = [task EXCEPT ![t] = [task[t] EXCEPT !.step = step, !.tokens = k]]

LEMMA UsingGoesOn ==
  ASSUME Typed, NEW t \in Threads, task[t].step \in Using, NEW step \in Using, NEW k,
         Goes(t, step, k),
         k \in TokenSets \/ (k = task[t].tokens /\ step \in {"delete", "clear"})
  PROVE  /\ task' \in [Threads -> Tasks] /\ Others(t)
         /\ Is(task'[t], step, Null, task[t].provider, task[t].system, task[t].ref)
         /\ task'[t].tokens = k
<1> DEFINE x == [task[t] EXCEPT !.step = step, !.tokens = k]
<1>0. task[t] \in Task /\ Shaped(task[t])
  BY TaskType
<1>1. /\ task[t].state = Null /\ task[t].system # Null /\ task[t].ref \in Refs
      /\ task[t].provider \in Providers
  BY <1>0 DEF Shaped, SigningIn, Using
<1>2. k \in Opt(TokenSets \cup ClientIds)
  BY <1>0 DEF Task, Opt
<1>3. x \in Task /\ Is(x, step, Null, task[t].provider, task[t].system, task[t].ref) /\ x.tokens = k
  BY <1>0, <1>1, <1>2 DEF Task, Steps, Is
<1> HIDE DEF x
<1>4. Shaped(x)
  BY <1>1, <1>3 DEF Is, Shaped, SigningIn, Using
<1> QED
  BY <1>3, <1>4, NextTask DEF x, Goes

LEMMA ResolveDoes ==
  ASSUME Typed, Kinds, NEW t \in Threads, Resolve(t)
  PROVE  /\ task' \in [Threads -> Tasks] /\ Others(t) /\ task[t].step = "resolve"
         /\ \/ task'[t] = Idle
            \/ \E step \in {"revoke", "refresh"} :
                 /\ Is(task'[t], step, Null, task[t].provider, task[t].system, task[t].ref)
                 /\ task'[t].tokens = secret[task[t].ref] /\ task'[t].tokens \in TokenSets
<1> DEFINE k == secret[task[t].ref]
<1>1. task[t].step = "resolve" /\ task[t].step \in Using /\ task[t].step \in Using \cup {"insert"}
  BY DEF Resolve, At, Using
<1>2. k \in TokenSets \cup {Gone}
  BY <1>1, TaskType DEF Kinds, OfSystem, Shaped
<1>3. CASE Done(t)
  BY <1>1, <1>3, Ends
<1>4. ASSUME k # Gone, NEW step \in {"revoke", "refresh"},
             Goes(t, step, k)
      PROVE  /\ task' \in [Threads -> Tasks] /\ Others(t)
             /\ Is(task'[t], step, Null, task[t].provider, task[t].system, task[t].ref)
             /\ task'[t].tokens = k /\ k \in TokenSets
  <2>1. k \in TokenSets /\ step \in Using
    BY <1>2, <1>4 DEF Using
  <2> HIDE DEF k
  <2> QED
    BY <1>1, <1>4, <2>1, UsingGoesOn
<1>5. \/ Done(t)
      \/ k # Gone /\ \E step \in {"revoke", "refresh"} : Goes(t, step, k)
  <2>1. task \in [Threads -> Tasks]
    BY DEF Typed
  <2> QED
    BY <2>1 DEF Resolve, Proceed, Done, Goes
<1> QED
  BY <1>1, <1>3, <1>4, <1>5

LEMMA RefreshDoes ==
  ASSUME Typed, NEW t \in Threads, Refresh(t)
  PROVE  LET n == task[t].tokens.refresh
             m == task'[t].tokens.refresh IN
         /\ task' \in [Threads -> Tasks] /\ Others(t) /\ task[t].step = "refresh"
         /\ Is(task'[t], "store", Null, task[t].provider, task[t].system, task[t].ref)
         /\ task'[t].tokens \in TokenSets
         /\ n \in live
         /\ \/ m = n /\ live' = live /\ issued' = issued
            \/ m = issued + 1 /\ live' = (live \ {n}) \cup {m} /\ issued' = issued + 1
<1> DEFINE old == task[t].tokens
           k == Refreshed(old, task[t].provider)
<1>1. /\ task[t].step = "refresh" /\ task[t].step \in Using /\ "store" \in Using /\ old.refresh \in live
      /\ live' = (live \ {old.refresh}) \cup {k.refresh}
      /\ issued' = IF k.refresh = old.refresh THEN issued ELSE issued + 1
  BY DEF Refresh, At, Using
<1>2. Goes(t, "store", k)
  BY DEF Refresh, Typed, Goes
<1>3. old \in TokenSets
  BY <1>1, TaskType DEF Shaped
<1>4. k \in TokenSets /\ (k.refresh = issued + 1 \/ k.refresh = old.refresh)
  <2>1. issued + 1 \in Nat
    BY DEF Typed
  <2>2. CASE task[t].provider \in Rotating
    BY <2>1, <2>2, TokensType DEF Refreshed
  <2>3. CASE task[t].provider \notin Rotating
    BY <1>3, <2>3 DEF Refreshed, TokenSets
  <2> QED
    BY <2>2, <2>3
<1> HIDE DEF k
<1>5. /\ task' \in [Threads -> Tasks] /\ Others(t) /\ task'[t].tokens = k
      /\ Is(task'[t], "store", Null, task[t].provider, task[t].system, task[t].ref)
  BY <1>1, <1>2, <1>4, UsingGoesOn
<1> QED
  BY <1>1, <1>4, <1>5

LEMMA StoreDoes ==
  ASSUME Typed, NEW t \in Threads, Store(t)
  PROVE  /\ task' \in [Threads -> Tasks] /\ Others(t) /\ task[t].step = "store"
         /\ task[t].ref \in Refs /\ task[t].tokens \in TokenSets
         /\ secret' = [secret EXCEPT ![task[t].ref] = task[t].tokens]
         /\ \/ task'[t] = Idle
            \/ /\ Is(task'[t], "revoke", Null, task[t].provider, task[t].system, task[t].ref)
               /\ task'[t].tokens = task[t].tokens
<1> DEFINE k == task[t].tokens
<1>1. /\ task[t].step = "store" /\ task[t].step \in Using /\ "revoke" \in Using
      /\ secret' = [secret EXCEPT ![task[t].ref] = k]
  BY DEF Store, At, Using, Stored, Put
<1>2. task[t].ref \in Refs /\ k \in TokenSets
  BY <1>1, TaskType DEF Shaped
<1>3. Done(t) \/ Goes(t, "revoke", k)
  BY DEF Store, Proceed, Done, Typed, Goes
<1> HIDE DEF k
<1>4. CASE Done(t)
  BY <1>1, <1>2, <1>4, Ends DEF k
<1>5. CASE Goes(t, "revoke", k)
  BY <1>1, <1>2, <1>5, UsingGoesOn DEF k
<1> QED
  BY <1>3, <1>4, <1>5

LEMMA GoesOn ==
  ASSUME Typed, NEW t \in Threads, task[t].step \in Using, NEW step \in {"delete", "clear"}, Do(t, step)
  PROVE  /\ task' \in [Threads -> Tasks] /\ Others(t)
         /\ Is(task'[t], step, Null, task[t].provider, task[t].system, task[t].ref)
<1>1. Goes(t, step, task[t].tokens)
  <2>1. task[t] \in Task
    BY TaskType
  <2>2. [task[t] EXCEPT !.step = step] = [task[t] EXCEPT !.step = step, !.tokens = task[t].tokens]
    BY <2>1 DEF Task
  <2> QED
    BY <2>2 DEF Do, Typed, Goes
<1>2. step \in Using
  BY DEF Using
<1> QED
  BY <1>1, <1>2, UsingGoesOn

LEMMA RevokeDoes ==
  ASSUME Typed, NEW t \in Threads, Revoke(t)
  PROVE  /\ task' \in [Threads -> Tasks] /\ Others(t) /\ task[t].step = "revoke"
         /\ Is(task'[t], "delete", Null, task[t].provider, task[t].system, task[t].ref)
         /\ live' \subseteq live
         /\ \A n \in live \ live' : n = task[t].tokens.refresh
<1>1. task[t].step = "revoke" /\ task[t].step \in Using /\ Do(t, "delete")
  BY DEF Revoke, At, Using
<1>2. live' = live \/ live' = live \ {task[t].tokens.refresh}
  BY DEF Revoke
<1> QED
  BY <1>1, <1>2, GoesOn

LEMMA DeleteSecretDoes ==
  ASSUME Typed, NEW t \in Threads, DeleteSecret(t)
  PROVE  /\ task' \in [Threads -> Tasks] /\ Others(t) /\ task[t].step = "delete"
         /\ Is(task'[t], "clear", Null, task[t].provider, task[t].system, task[t].ref)
         /\ task[t].ref \in Refs
         /\ secret' = [secret EXCEPT ![task[t].ref] = Gone]
<1>1. task[t].step = "delete" /\ task[t].step \in Using /\ Do(t, "clear")
  BY DEF DeleteSecret, At, Using
<1>2. secret' = [secret EXCEPT ![task[t].ref] = Gone]
  BY DEF DeleteSecret, Deleted, Put
<1>3. task[t].ref \in Refs
  BY <1>1, TaskType DEF Shaped
<1> QED
  BY <1>1, <1>2, <1>3, GoesOn

LEMMA ClearRowDoes ==
  ASSUME Typed, Owned, NEW t \in Threads, ClearRow(t)
  PROVE  LET s == task[t].system IN
         /\ task' \in [Threads -> Tasks] /\ Others(t) /\ task[t].step = "clear" /\ task'[t] = Idle
         /\ s \in Systems /\ system[s] # Null /\ task[t].ref = Own(s) /\ task[t].ref \in Refs
         /\ system' \in [Systems -> Opt(SystemRows)]
         /\ system'[s] # Null /\ system'[s].ref = Null
         /\ \A q \in Systems \ {s} : system'[q] = system[q]
         /\ forgotten' = [forgotten EXCEPT ![s] = task[t].ref]
<1> DEFINE s == task[t].system
           row == [system[s] EXCEPT !.ref = Null, !.status = "needs_attention"]
<1>1. task[t].step = "clear" /\ task[t].step \in Using /\ Done(t) /\ forgotten' = [forgotten EXCEPT ![s] = task[t].ref]
  BY DEF ClearRow, At, Using
<1>2. s \in Systems /\ s # Null /\ task[t].ref \in Refs
  BY <1>1, TaskType DEF Shaped, Task, Opt
<1>3. system[s] # Null /\ task[t].ref = Own(s)
  BY <1>2 DEF Owned
<1>4. system[s] \in SystemRows
  BY <1>2, <1>3 DEF Typed, Opt
<1>5. row \in SystemRows /\ row.ref = Null /\ system' = [system EXCEPT ![s] = row]
  BY <1>2, <1>4 DEF SystemRows, ClearRow, Typed
<1> HIDE DEF row, s
<1>6. row # Null
  BY <1>5, OAuthAssumption
<1>7. system \in [Systems -> Opt(SystemRows)]
  BY DEF Typed
<1>8. /\ system' \in [Systems -> Opt(SystemRows)] /\ system'[s] = row
      /\ \A q \in Systems \ {s} : system'[q] = system[q]
  BY <1>2, <1>5, <1>7 DEF Opt
<1> QED
  BY <1>1, <1>2, <1>3, <1>5, <1>6, <1>8, Ends DEF s

LEMMA InsertSystemDoes ==
  ASSUME Typed, NEW t \in Threads, InsertSystem(t)
  PROVE  \E s \in Systems :
           /\ task' \in [Threads -> Tasks] /\ Others(t) /\ task[t].step = "insert" /\ task'[t] = Idle
           /\ task[t].ref \in Refs /\ task[t].state \in States
           /\ system[s] = Null /\ system' \in [Systems -> Opt(SystemRows)]
           /\ system'[s] # Null /\ system'[s].ref = task[t].ref
           /\ \A q \in Systems \ {s} : system'[q] = system[q]
           /\ used' = [used EXCEPT ![task[t].state] = @ + 1]
<1> DEFINE s == Drawn(Systems, system)
           row == [ref |-> task[t].ref, status |-> "ready", provider |-> task[t].provider]
<1>1. /\ task[t].step = "insert" /\ Done(t) /\ Free(Systems, system) # {}
      /\ used' = [used EXCEPT ![task[t].state] = @ + 1]
      /\ system' = [system EXCEPT ![s] = row]
  BY DEF InsertSystem, At
<1>2. s \in Systems /\ system[s] = Null
  BY <1>1, DrawnFree
<1>3. task[t].ref \in Refs /\ task[t].provider \in Providers /\ task[t].state \in States
  BY <1>1, TaskType DEF Shaped, SigningIn, Task, Opt
<1>4. row \in SystemRows /\ row.ref = task[t].ref
  BY <1>3 DEF SystemRows
<1> HIDE DEF row, s
<1>5. row # Null
  BY <1>4, OAuthAssumption
<1>6. system \in [Systems -> Opt(SystemRows)]
  BY DEF Typed
<1>7. /\ system' \in [Systems -> Opt(SystemRows)] /\ system'[s] = row
      /\ \A q \in Systems \ {s} : system'[q] = system[q]
  BY <1>1, <1>2, <1>4, <1>6 DEF Opt
<1> QED
  BY <1>1, <1>2, <1>3, <1>4, <1>5, <1>7, Ends

LEMMA SaveProviderDoes ==
  ASSUME Typed, NEW t \in Threads, SaveProvider(t)
  PROVE  LET p == task[t].provider IN
         /\ task' \in [Threads -> Tasks] /\ Others(t) /\ task[t].step = "save" /\ task'[t] = Idle
         /\ p \in Providers /\ task[t].ref \in Refs
         /\ client' \in [Providers -> Opt(ClientRows)]
         /\ client'[p] # Null /\ client'[p].ref = task[t].ref /\ client'[p].id = task[t].tokens
         /\ \A q \in Providers \ {p} : client'[q] = client[q]
<1> DEFINE p == task[t].provider
           row == [id |-> task[t].tokens, ref |-> task[t].ref]
<1>1. task[t].step = "save" /\ Done(t) /\ client' = [client EXCEPT ![p] = row]
  BY DEF SaveProvider, At
<1>2. p \in Providers /\ task[t].ref \in Refs /\ task[t].tokens \in ClientIds
  BY <1>1, TaskType DEF Shaped
<1>3. row \in ClientRows /\ row.ref = task[t].ref /\ row.id = task[t].tokens
  BY <1>2 DEF ClientRows
<1> HIDE DEF row, p
<1>4. row # Null
  BY <1>3, OAuthAssumption
<1>5. client \in [Providers -> Opt(ClientRows)]
  BY DEF Typed
<1>6. /\ client' \in [Providers -> Opt(ClientRows)] /\ client'[p] = row
      /\ \A q \in Providers \ {p} : client'[q] = client[q]
  BY <1>1, <1>2, <1>3, <1>5 DEF Opt
<1> QED
  BY <1>1, <1>2, <1>3, <1>4, <1>6, Ends DEF p

LEMMA StartDoes ==
  ASSUME Typed, NEW p \in Providers, Start(p)
  PROVE  \E a \in States :
           /\ started[a] = Null
           /\ pending' \in [States -> Opt(Authorizations)] /\ pending'[a].provider = p
           /\ \A b \in States \ {a} : pending'[b] = pending[b]
           /\ started' = [started EXCEPT ![a] = p]
<1> DEFINE row == [provider |-> p, lapsed |-> FALSE]
<1>1. PICK a \in States : /\ started[a] = Null /\ started' = [started EXCEPT ![a] = p]
                          /\ pending' = [pending EXCEPT ![a] = row]
  BY DEF Start
<1>2. row \in Authorizations /\ row.provider = p
  BY DEF Authorizations
<1> HIDE DEF row
<1>3. /\ pending' \in [States -> Opt(Authorizations)] /\ pending'[a] = row
      /\ \A b \in States \ {a} : pending'[b] = pending[b]
  BY <1>1, <1>2 DEF Typed, Opt
<1> QED
  BY <1>1, <1>2, <1>3

LEMMA LapseDoes ==
  ASSUME Typed, NEW a \in States, Lapse(a)
  PROVE  /\ pending' \in [States -> Opt(Authorizations)]
         /\ pending[a] # Null /\ pending'[a] # Null /\ pending'[a].provider = pending[a].provider
         /\ \A b \in States \ {a} : pending'[b] = pending[b]
<1> DEFINE row == [pending[a] EXCEPT !.lapsed = TRUE]
<1>1. pending[a] \in Authorizations /\ pending[a] # Null /\ pending' = [pending EXCEPT ![a] = row]
  BY DEF Lapse, Typed, Opt
<1>2. row \in Authorizations /\ row.provider = pending[a].provider
  BY <1>1 DEF Authorizations
<1> HIDE DEF row
<1>3. row # Null
  BY <1>2, OAuthAssumption
<1>4. /\ pending' \in [States -> Opt(Authorizations)] /\ pending'[a] = row
      /\ \A b \in States \ {a} : pending'[b] = pending[b]
  BY <1>1, <1>2 DEF Typed, Opt
<1> QED
  BY <1>1, <1>2, <1>3, <1>4

LEMMA ExpireDoes ==
  ASSUME Typed, NEW r \in Refs, Expire(r)
  PROVE  /\ secret[r] \in TokenSets /\ secret'[r] \in TokenSets /\ secret'[r].refresh = secret[r].refresh
         /\ secret' \in [Refs -> Opt(TokenSets \cup ClientSecrets \cup {Gone})]
         /\ \A q \in Refs \ {r} : secret'[q] = secret[q]
<1> DEFINE k == [secret[r] EXCEPT !.due = TRUE]
<1>1. secret[r] \in TokenSets \cup ClientSecrets /\ "due" \in DOMAIN secret[r] /\ secret' = [secret EXCEPT ![r] = k]
  BY DEF Expire, Typed, Opt
<1>2. secret[r] \in TokenSets
  BY <1>1 DEF ClientSecrets
<1>3. k \in TokenSets /\ k.refresh = secret[r].refresh
  BY <1>2 DEF TokenSets
<1> HIDE DEF k
<1>4. /\ secret'[r] = k /\ \A q \in Refs \ {r} : secret'[q] = secret[q]
      /\ secret' \in [Refs -> Opt(TokenSets \cup ClientSecrets \cup {Gone})]
  BY <1>1, <1>3 DEF Typed, Opt
<1> QED
  BY <1>2, <1>3, <1>4

LEMMA CrashDoes ==
  ASSUME Typed, Crash
  PROVE  /\ task' \in [Threads -> Tasks] /\ (\A u \in Threads : task'[u] = Idle)
         /\ pending' \in [States -> Opt(Authorizations)] /\ (\A a \in States : pending'[a] = Null)
BY IdleTask DEF Crash, Opt

\* What the actions leave alone.
LEMMA Frames ==
  /\ \A t \in Threads :
       /\ \A p \in Providers : ReadProvider(t, p) =>
            UNCHANGED <<system, secret, client, pending, live, issued, used, started, forgotten>>
       /\ \A id \in ClientIds : PutClientSecret(t, id) =>
            UNCHANGED <<system, client, pending, live, issued, used, started, forgotten, disturbed>>
       /\ SaveProvider(t) =>
            UNCHANGED <<system, secret, pending, live, issued, used, started, forgotten, disturbed>>
       /\ \A a \in States, p \in Providers : Callback(t, a, p) =>
            UNCHANGED <<system, secret, client, live, issued, used, started, forgotten, disturbed>>
       /\ Exchange(t) =>
            UNCHANGED <<system, secret, client, pending, used, started, forgotten, disturbed>>
       /\ Refuse(t) =>
            UNCHANGED <<system, secret, client, pending, live, issued, used, started, forgotten, disturbed>>
       /\ PutTokens(t) =>
            UNCHANGED <<system, client, pending, live, issued, used, started, forgotten, disturbed>>
       /\ InsertSystem(t) =>
            UNCHANGED <<secret, client, pending, live, issued, started, forgotten, disturbed>>
       /\ \A s \in Systems, revoke \in BOOLEAN : ReadRow(t, s, revoke) =>
            UNCHANGED <<system, secret, client, pending, live, issued, used, started, forgotten>>
       /\ Resolve(t) =>
            UNCHANGED <<system, secret, client, pending, live, issued, used, started, forgotten, disturbed>>
       /\ Refresh(t) =>
            UNCHANGED <<system, secret, client, pending, used, started, forgotten, disturbed>>
       /\ Store(t) =>
            UNCHANGED <<system, client, pending, live, issued, used, started, forgotten, disturbed>>
       /\ Revoke(t) =>
            UNCHANGED <<system, secret, client, pending, issued, used, started, forgotten, disturbed>>
       /\ DeleteSecret(t) =>
            UNCHANGED <<system, client, pending, live, issued, used, started, forgotten, disturbed>>
       /\ ClearRow(t) =>
            UNCHANGED <<secret, client, pending, live, issued, used, started, disturbed>>
       /\ Fail(t) =>
            UNCHANGED <<system, secret, client, pending, live, issued, used, started, forgotten>>
  /\ \A p \in Providers : Start(p) =>
       UNCHANGED <<system, secret, client, task, live, issued, used, forgotten, disturbed>>
  /\ \A a \in States : Lapse(a) =>
       UNCHANGED <<system, secret, client, task, live, issued, used, started, forgotten, disturbed>>
  /\ \A r \in Refs : Expire(r) =>
       UNCHANGED <<system, client, pending, task, live, issued, used, started, forgotten, disturbed>>
  /\ Crash => UNCHANGED <<system, secret, client, live, issued, used, started, forgotten>>
BY DEF ReadProvider, PutClientSecret, SaveProvider, Callback, Exchange, Refuse, PutTokens, InsertSystem, ReadRow,
       Resolve, Refresh, Store, Revoke, DeleteSecret, ClearRow, Fail, Start, Lapse, Expire, Crash,
       rows, provider, history

\* A task that ends, in any way.
LEMMA FailDoes ==
  ASSUME Typed, NEW t \in Threads, Fail(t) \/ Refuse(t)
  PROVE  task' \in [Threads -> Tasks] /\ task'[t] = Idle /\ Others(t)
BY Ends DEF Fail, Refuse
-----------------------------------------------------------------------------
(* Types *)

LEMMA TypedStep ==
  ASSUME Typed, Kinds, Owned, [Next]_vars
  PROVE  Typed'
<1> USE DEF Typed
<1>1. ASSUME NEW t \in Threads, NEW p \in Providers, ReadProvider(t, p) PROVE Typed'
  BY <1>1, ReadProviderDoes, Frames
<1>2. ASSUME NEW t \in Threads, NEW id \in ClientIds, PutClientSecret(t, id) PROVE Typed'
  <2>1. [client |-> id] \in ClientSecrets
    BY DEF ClientSecrets
  <2>2. PICK r \in Refs : secret' = [secret EXCEPT ![r] = [client |-> id]] /\ task' \in [Threads -> Tasks]
    BY <1>2, PutClientSecretDoes
  <2>3. secret' \in [Refs -> Opt(TokenSets \cup ClientSecrets \cup {Gone})]
    BY <2>1, <2>2 DEF Opt
  <2> QED
    BY <1>2, <2>2, <2>3, Frames
<1>3. ASSUME NEW t \in Threads, SaveProvider(t) PROVE Typed'
  BY <1>3, SaveProviderDoes, Frames
<1>4. ASSUME NEW t \in Threads, NEW a \in States, NEW p \in Providers, Callback(t, a, p) PROVE Typed'
  <2>1. pending' \in [States -> Opt(Authorizations)]
    BY <1>4 DEF Callback, Remaining, Opt
  <2> QED
    BY <1>4, <2>1, CallbackDoes, Frames
<1>5. ASSUME NEW t \in Threads, Exchange(t) PROVE Typed'
  <2>1. issued' = issued + 1 /\ live' = live \cup {issued + 1}
    BY <1>5 DEF Exchange
  <2>2. issued' \in Nat /\ live' \in SUBSET (1..issued')
    BY <2>1
  <2>3. task' \in [Threads -> Tasks]
    BY <1>5, ExchangeDoes
  <2> QED
    BY <1>5, <2>2, <2>3, Frames
<1>6. ASSUME NEW t \in Threads, Refuse(t) \/ Fail(t) PROVE Typed'
  BY <1>6, FailDoes, Frames
<1>7. ASSUME NEW t \in Threads, PutTokens(t) PROVE Typed'
  <2>1. task[t].step = "put_tokens" => task[t].tokens \in TokenSets
    BY TaskType DEF Shaped
  <2> QED
    BY <1>7, <2>1, PutTokensDoes, Frames DEF Opt
<1>8. ASSUME NEW t \in Threads, InsertSystem(t) PROVE Typed'
  <2>1. used' \in [States -> Nat] /\ system' \in [Systems -> Opt(SystemRows)] /\ task' \in [Threads -> Tasks]
    <3>1. /\ task[t].state \in States /\ used' = [used EXCEPT ![task[t].state] = @ + 1]
          /\ system' \in [Systems -> Opt(SystemRows)] /\ task' \in [Threads -> Tasks]
      BY <1>8, InsertSystemDoes
    <3> QED
      BY <3>1
  <2> QED
    BY <1>8, <2>1, Frames
<1>9. ASSUME NEW t \in Threads, NEW s \in Systems, NEW revoke \in BOOLEAN, ReadRow(t, s, revoke) PROVE Typed'
  BY <1>9, ReadRowDoes, Frames
<1>10. ASSUME NEW t \in Threads, Resolve(t) PROVE Typed'
  BY <1>10, ResolveDoes, Frames
<1>11. ASSUME NEW t \in Threads, Refresh(t) PROVE Typed'
  <2>1. issued' \in Nat /\ live' \in SUBSET (1..issued')
    <3>1. \/ issued' = issued /\ live' = live
          \/ issued' = issued + 1 /\ live' \subseteq live \cup {issued + 1}
      BY <1>11, RefreshDoes
    <3>2. CASE issued' = issued /\ live' = live
      BY <3>2
    <3>3. CASE issued' = issued + 1 /\ live' \subseteq live \cup {issued + 1}
      <4>1. issued + 1 \in Nat /\ \A n \in live' : n \in 1..(issued + 1)
        BY <3>3
      <4> QED
        BY <3>3, <4>1
    <3> QED
      BY <3>1, <3>2, <3>3
  <2>2. task' \in [Threads -> Tasks]
    BY <1>11, RefreshDoes
  <2> QED
    BY <1>11, <2>1, <2>2, Frames
<1>12. ASSUME NEW t \in Threads, Store(t) PROVE Typed'
  BY <1>12, StoreDoes, Frames DEF Opt
<1>13. ASSUME NEW t \in Threads, Revoke(t) PROVE Typed'
  BY <1>13, RevokeDoes, Frames
<1>14. ASSUME NEW t \in Threads, DeleteSecret(t) PROVE Typed'
  BY <1>14, DeleteSecretDoes, Frames DEF Opt
<1>15. ASSUME NEW t \in Threads, ClearRow(t) PROVE Typed'
  BY <1>15, ClearRowDoes, Frames DEF Opt
<1>16. ASSUME NEW p \in Providers, Start(p) PROVE Typed'
  BY <1>16, StartDoes, Frames DEF Opt
<1>17. ASSUME NEW a \in States, Lapse(a) PROVE Typed'
  BY <1>17, LapseDoes, Frames
<1>18. ASSUME NEW r \in Refs, Expire(r) PROVE Typed'
  BY <1>18, ExpireDoes, Frames
<1>19. CASE Crash
  BY <1>19, CrashDoes, Frames
<1>20. CASE UNCHANGED vars
  BY <1>20 DEF vars, rows
<1> QED
  BY <1>1, <1>2, <1>3, <1>4, <1>5, <1>6, <1>7, <1>8, <1>9, <1>10, <1>11, <1>12, <1>13, <1>14, <1>15,
     <1>16, <1>17, <1>18, <1>19, <1>20 DEF Next
-----------------------------------------------------------------------------
(* A reference names one kind of secret for good *)

LEMMA PutClientKeeps ==
  ASSUME Typed, Kinds, NEW t \in Threads, NEW id \in ClientIds, PutClientSecret(t, id), NEW r \in Refs
  PROVE  /\ secret[r] \in TokenSets \cup {Gone} => secret'[r] = secret[r]
         /\ secret[r] \in ClientSecrets => secret'[r] \in ClientSecrets
<1>1. PICK q \in Refs : /\ task[t].step = "put_client" /\ (q = task[t].ref \/ (task[t].ref = Null /\ secret[q] = Null))
                        /\ secret' = [secret EXCEPT ![q] = [client |-> id]]
  BY PutClientSecretDoes
<1>2. [client |-> id] \in ClientSecrets
  BY DEF ClientSecrets
<1>3. secret[q] \in ClientSecrets \/ secret[q] = Null
  BY <1>1 DEF Kinds, OfClient, Configuring
<1>4. secret[q] \notin TokenSets \cup {Gone}
  BY <1>3, KindsDiffer, OAuthAssumption
<1>5. secret'[q] = [client |-> id] /\ (r # q => secret'[r] = secret[r])
  BY <1>1 DEF Typed
<1> QED
  BY <1>2, <1>4, <1>5

LEMMA SecretKept ==
  ASSUME Typed, Kinds, [Next]_vars, NEW r \in Refs
  PROVE  /\ secret[r] \in TokenSets \cup {Gone} => secret'[r] \in TokenSets \cup {Gone}
         /\ secret[r] \in ClientSecrets => secret'[r] \in ClientSecrets
<1>0. secret \in [Refs -> Opt(TokenSets \cup ClientSecrets \cup {Gone})]
  BY DEF Typed
<1>1. ASSUME NEW t \in Threads, NEW id \in ClientIds, PutClientSecret(t, id)
      PROVE  /\ secret[r] \in TokenSets \cup {Gone} => secret'[r] \in TokenSets \cup {Gone}
             /\ secret[r] \in ClientSecrets => secret'[r] \in ClientSecrets
  BY <1>1, PutClientKeeps
<1>2. ASSUME NEW t \in Threads, PutTokens(t)
      PROVE  /\ secret[r] \in TokenSets \cup {Gone} => secret'[r] \in TokenSets \cup {Gone}
             /\ secret[r] \in ClientSecrets => secret'[r] \in ClientSecrets
  <2>1. PICK q \in Refs : secret[q] = Null /\ secret' = [secret EXCEPT ![q] = task[t].tokens]
    BY <1>2, PutTokensDoes
  <2> QED
    BY <1>0, <2>1, OAuthAssumption
<1>3. ASSUME NEW t \in Threads, Store(t) \/ DeleteSecret(t)
      PROVE  /\ secret[r] \in TokenSets \cup {Gone} => secret'[r] \in TokenSets \cup {Gone}
             /\ secret[r] \in ClientSecrets => secret'[r] \in ClientSecrets
  <2>1. /\ task[t].step \in Using \cup {"insert"} /\ task[t].ref \in Refs
        /\ \E k \in TokenSets \cup {Gone} : secret' = [secret EXCEPT ![task[t].ref] = k]
    BY <1>3, StoreDoes, DeleteSecretDoes DEF Using
  <2>2. secret[task[t].ref] \notin ClientSecrets
    BY <2>1, KindsDiffer DEF Kinds, OfSystem
  <2> QED
    BY <1>0, <2>1, <2>2
<1>4. ASSUME NEW q \in Refs, Expire(q)
      PROVE  /\ secret[r] \in TokenSets \cup {Gone} => secret'[r] \in TokenSets \cup {Gone}
             /\ secret[r] \in ClientSecrets => secret'[r] \in ClientSecrets
  <2>1. secret[q] \notin ClientSecrets
    BY <1>4, ExpireDoes, KindsDiffer
  <2> QED
    BY <1>4, <2>1, ExpireDoes
<1> QED
  BY <1>1, <1>2, <1>3, <1>4, Frames DEF Next, vars, rows

LEMMA KindsStep ==
  ASSUME Typed, Typed', Kinds, Owned, [Next]_vars
  PROVE  Kinds'
<1> USE DEF Kinds, OfSystem, OfClient
<1>0. /\ ~("idle" \in Using \cup {"insert"}) /\ ~("idle" \in Configuring)
      /\ Configuring \cap (Using \cup {"insert"}) = {}
      /\ ~("put_tokens" \in Using \cup {"insert"}) /\ ~("put_tokens" \in Configuring)
      /\ ~("exchange" \in Using \cup {"insert"}) /\ ~("exchange" \in Configuring)
  BY DEF Using, Configuring
<1>1. ASSUME NEW t \in Threads, NEW p \in Providers, ReadProvider(t, p) PROVE Kinds'
  <2>1. Null \notin Refs /\ "put_client" \notin Using \cup {"insert"}
    BY OAuthAssumption DEF Using
  <2> QED
    BY <1>1, <2>1, ReadProviderDoes, Frames DEF Is, Others
<1>2. ASSUME NEW t \in Threads, NEW id \in ClientIds, PutClientSecret(t, id) PROVE Kinds'
  <2>1. PICK r \in Refs : /\ secret' = [secret EXCEPT ![r] = [client |-> id]] /\ Others(t)
                          /\ task'[t].step = "save" /\ task'[t].ref = r
    BY <1>2, PutClientSecretDoes DEF Is
  <2>2. secret'[r] \in ClientSecrets
    BY <2>1 DEF ClientSecrets, Typed
  <2>3. "save" \notin Using \cup {"insert"}
    BY DEF Using
  <2> QED
    BY <1>2, <2>1, <2>2, <2>3, SecretKept, Frames DEF Others, Next
<1>3. ASSUME NEW t \in Threads, SaveProvider(t) PROVE Kinds'
  <2>1. task'[t].step = "idle" /\ task[t].step \in Configuring
    BY <1>3, SaveProviderDoes DEF Idle, Configuring
  <2> QED
    BY <1>0, <1>3, <2>1, SaveProviderDoes, Frames DEF Others
<1>4. ASSUME NEW t \in Threads, NEW a \in States, NEW p \in Providers, Callback(t, a, p) PROVE Kinds'
  BY <1>0, <1>4, CallbackDoes, Frames DEF Is, Others
<1>5. ASSUME NEW t \in Threads, Exchange(t) PROVE Kinds'
  BY <1>0, <1>5, ExchangeDoes, Frames DEF Is, Others
<1>6. ASSUME NEW t \in Threads, Refuse(t) \/ Fail(t) PROVE Kinds'
  <2>1. task'[t].step = "idle"
    BY <1>6, FailDoes DEF Idle
  <2> QED
    BY <1>0, <1>6, <2>1, FailDoes, Frames DEF Others
<1>7. ASSUME NEW t \in Threads, PutTokens(t) PROVE Kinds'
  <2>1. PICK r \in Refs : /\ secret' = [secret EXCEPT ![r] = task[t].tokens] /\ Others(t)
                          /\ task'[t].step = "insert" /\ task'[t].ref = r /\ task[t].step = "put_tokens"
    BY <1>7, PutTokensDoes DEF Is
  <2>2. secret'[r] \in TokenSets
    BY <2>1, TaskType DEF Typed, Shaped
  <2>3. "insert" \notin Configuring
    BY DEF Configuring
  <2> QED
    BY <1>7, <2>1, <2>2, <2>3, SecretKept, Frames DEF Others, Next
<1>8. ASSUME NEW t \in Threads, InsertSystem(t) PROVE Kinds'
  <2>1. task'[t].step = "idle"
    BY <1>8, InsertSystemDoes DEF Idle
  <2> QED
    BY <1>0, <1>8, <2>1, InsertSystemDoes, Frames DEF Others
<1>9. ASSUME NEW t \in Threads, NEW s \in Systems, NEW revoke \in BOOLEAN, ReadRow(t, s, revoke) PROVE Kinds'
  <2>1. "resolve" \notin Configuring /\ system[s] # Null
    BY <1>9 DEF Configuring, ReadRow
  <2> QED
    BY <1>9, <2>1, ReadRowDoes, Frames DEF Is, Others
<1>10. ASSUME NEW t \in Threads, \/ Resolve(t) \/ Refresh(t) \/ Store(t) \/ Revoke(t) \/ DeleteSecret(t)
       PROVE  Kinds'
  <2>1. /\ task[t].step \in Using /\ Others(t)
        /\ task'[t].step = "idle" \/ (task'[t].step \in Using /\ task'[t].ref = task[t].ref)
    BY <1>10, ResolveDoes, RefreshDoes, StoreDoes, RevokeDoes, DeleteSecretDoes DEF Is, Idle, Using
  <2>2. UNCHANGED <<system, client, forgotten>>
    BY <1>10, Frames
  <2> QED
    BY <1>0, <1>10, <2>1, <2>2, SecretKept DEF Others, Next
<1>15. ASSUME NEW t \in Threads, ClearRow(t) PROVE Kinds'
  <2>1. task'[t].step = "idle" /\ task[t].step \in Using /\ Null \notin Refs
    BY <1>15, ClearRowDoes, OAuthAssumption DEF Idle, Using
  <2>2. forgotten' = [forgotten EXCEPT ![task[t].system] = task[t].ref] /\ forgotten \in [Systems -> Opt(Refs)]
    BY <1>15, ClearRowDoes DEF Typed
  <2> QED
    BY <1>0, <1>15, <2>1, <2>2, ClearRowDoes, Frames DEF Others
<1>16. ASSUME NEW p \in Providers, Start(p) PROVE Kinds'
  BY <1>16, Frames
<1>17. ASSUME NEW a \in States, Lapse(a) PROVE Kinds'
  BY <1>17, Frames
<1>18. ASSUME NEW r \in Refs, Expire(r) PROVE Kinds'
  BY <1>18, SecretKept, Frames DEF Next
<1>19. CASE Crash
  <2>1. \A u \in Threads : task'[u].step = "idle"
    BY <1>19, CrashDoes DEF Idle
  <2> QED
    BY <1>0, <1>19, <2>1, Frames
<1>20. CASE UNCHANGED vars
  BY <1>20 DEF vars, rows
<1> QED
  BY <1>1, <1>2, <1>3, <1>4, <1>5, <1>6, <1>7, <1>8, <1>9, <1>10, <1>15,
     <1>16, <1>17, <1>18, <1>19, <1>20 DEF Next
-----------------------------------------------------------------------------
(* References belong to one system *)

\* A reference in use is not free.
LEMMA RefsTaken ==
  ASSUME Typed, Kinds, Owned
  PROVE  /\ \A u \in Threads : task[u].ref \in Refs => secret[task[u].ref] # Null
         /\ \A s \in Systems : system[s] # Null => secret[Own(s)] \in TokenSets \cup {Gone}
         /\ \A p \in Providers : client[p] # Null =>
              client[p].ref \in Refs /\ secret[client[p].ref] \in ClientSecrets
<1>1. Null \notin TokenSets \cup {Gone} /\ Null \notin ClientSecrets /\ Null \notin Refs
  BY OAuthAssumption
<1>2. ASSUME NEW u \in Threads, task[u].ref \in Refs PROVE secret[task[u].ref] # Null
  <2>1. task[u].step \in Using \cup {"insert"} \cup Configuring
    BY <1>1, <1>2, TaskType DEF Shaped, Task, Steps, SigningIn
  <2> QED
    BY <1>1, <1>2, <2>1 DEF Kinds, OfSystem, OfClient
<1>3. ASSUME NEW s \in Systems, system[s] # Null PROVE secret[Own(s)] \in TokenSets \cup {Gone}
  BY <1>3 DEF Owned, Own, Kinds, OfSystem
<1>4. ASSUME NEW p \in Providers, client[p] # Null
      PROVE  client[p].ref \in Refs /\ secret[client[p].ref] \in ClientSecrets
  <2>1. client[p].ref \in Refs
    BY <1>4 DEF Typed, Opt, ClientRows
  <2> QED
    BY <1>4, <2>1 DEF Kinds, OfClient
<1> QED
  BY <1>2, <1>3, <1>4

\* The systems are what they were, and the acting thread is not one that adds one: its
\* reference is none, its own, one it reads from a row, or one of another kind.
LEMMA OwnedKept ==
  ASSUME Typed, Typed', Kinds, Owned, NEW t \in Threads, Others(t), UNCHANGED <<system, forgotten>>,
         task'[t].step # "insert",
         task'[t].system # Null => /\ system[task'[t].system] # Null
                                   /\ task'[t].ref = Own(task'[t].system),
         \/ task'[t].ref = Null
         \/ task'[t].ref = task[t].ref /\ task[t].step # "insert"
         \/ task'[t].system # Null
         \/ task'[t].ref \in Refs /\ secret[task'[t].ref] \in ClientSecrets \cup {Null}
  PROVE  Owned'
<1>1. \A s \in Systems : Own(s)' = Own(s)
  BY DEF Own
<1>2. \A u \in Threads : task[u].step = "insert" =>
        task[u].ref \in Refs /\ secret[task[u].ref] \in TokenSets \cup {Gone}
  <2>1. \A u \in Threads : task[u].step = "insert" => task[u].ref \in Refs
    BY TaskType DEF Shaped
  <2> QED
    BY <2>1 DEF Kinds, OfSystem
<1>3. \A u \in Threads : task[u].step = "insert" /\ u # t => task'[t].ref # task[u].ref
  <2> SUFFICES ASSUME NEW u \in Threads, task[u].step = "insert", u # t PROVE task'[t].ref # task[u].ref
    OBVIOUS
  <2>1. CASE task'[t].ref = Null
    BY <1>2, <2>1, OAuthAssumption
  <2>2. CASE task'[t].ref = task[t].ref
    BY <2>2 DEF Owned, At
  <2>3. CASE task'[t].system # Null
    <3>1. task'[t].system \in Systems
      BY <2>3 DEF Typed, Tasks, Task, Opt
    <3> QED
      BY <2>3, <3>1 DEF Owned, At
  <2>4. CASE task'[t].ref \in Refs /\ secret[task'[t].ref] \in ClientSecrets \cup {Null}
    BY <1>2, <2>4, KindsDiffer, OAuthAssumption
  <2> QED
    BY <2>1, <2>2, <2>3, <2>4
<1>4. (\A s \in Systems :
         /\ system[s] = Null => forgotten[s] = Null
         /\ system[s] # Null => /\ Own(s) \in Refs
                                /\ (forgotten[s] # Null <=> system[s].ref = Null)
                                /\ \A q \in Systems : system[q] # Null /\ Own(q) = Own(s) => (q = s))'
  BY <1>1 DEF Owned
<1>5. (\A u \in Threads : task[u].system # Null =>
         system[task[u].system] # Null /\ task[u].ref = Own(task[u].system))'
  <2> SUFFICES ASSUME NEW u \in Threads, task'[u].system # Null
               PROVE  system[task'[u].system] # Null /\ task'[u].ref = Own(task'[u].system)
    <3>1. \A u \in Threads : task'[u].system # Null => task'[u].system \in Systems
      BY DEF Typed, Tasks, Task, Opt
    <3> QED
      BY <1>1, <3>1
  <2> QED
    BY DEF Owned, Others
<1>6. (\A u \in Threads : At(u, "insert") =>
         /\ \A s \in Systems : system[s] # Null => Own(s) # task[u].ref
         /\ \A v \in Threads : task[v].ref = task[u].ref => v = u)'
  <2> SUFFICES ASSUME NEW u \in Threads, task'[u].step = "insert"
               PROVE  /\ \A s \in Systems : system[s] # Null => Own(s) # task'[u].ref
                      /\ \A v \in Threads : task'[v].ref = task'[u].ref => v = u
    BY <1>1 DEF At
  <2>1. u # t /\ task'[u] = task[u]
    BY DEF Others
  <2> QED
    BY <1>3, <2>1 DEF Owned, At, Others
<1> QED
  BY <1>4, <1>5, <1>6 DEF Owned

LEMMA OwnedStep ==
  ASSUME Typed, Typed', Kinds, Owned, [Next]_vars
  PROVE  Owned'
<1>0. Idle.step = "idle" /\ Idle.ref = Null /\ Idle.system = Null
  BY DEF Idle
<1>1. ASSUME NEW t \in Threads, NEW p \in Providers, ReadProvider(t, p) PROVE Owned'
  BY <1>1, ReadProviderDoes, RefsTaken, Frames, OwnedKept DEF Is
<1>2. ASSUME NEW t \in Threads, NEW id \in ClientIds, PutClientSecret(t, id) PROVE Owned'
  <2>1. PICK r \in Refs :
          /\ task[t].step = "put_client" /\ (r = task[t].ref \/ (task[t].ref = Null /\ secret[r] = Null))
          /\ Others(t) /\ Is(task'[t], "save", Null, task[t].provider, Null, r)
    BY <1>2, PutClientSecretDoes
  <2>2. UNCHANGED <<system, forgotten>>
    BY <1>2, Frames
  <2> QED
    BY <2>1, <2>2, OwnedKept DEF Is
<1>3. ASSUME NEW t \in Threads, SaveProvider(t) \/ Refuse(t) \/ Fail(t) PROVE Owned'
  BY <1>0, <1>3, SaveProviderDoes, FailDoes, Frames, OwnedKept
<1>4. ASSUME NEW t \in Threads, NEW a \in States, NEW p \in Providers, Callback(t, a, p) PROVE Owned'
  <2>1. task[t].ref = Null /\ task[t].system = Null
    BY <1>4, CallbackDoes, TaskType DEF Shaped, Using
  <2> QED
    BY <1>4, <2>1, CallbackDoes, Frames, OwnedKept DEF Is
<1>5. ASSUME NEW t \in Threads, Exchange(t) PROVE Owned'
  BY <1>5, ExchangeDoes, Frames, OwnedKept DEF Is
<1>7. ASSUME NEW t \in Threads, PutTokens(t) PROVE Owned'
  <2>1. PICK r \in Refs : /\ secret[r] = Null /\ Others(t) /\ Is(task'[t], "insert", task[t].state, task[t].provider, Null, r)
    BY <1>7, PutTokensDoes
  <2>2. UNCHANGED <<system, forgotten>> /\ \A s \in Systems : Own(s)' = Own(s)
    BY <1>7, Frames DEF Own
  <2>3. /\ \A u \in Threads \ {t} : task'[u].ref # r
        /\ \A s \in Systems : system[s] # Null => Own(s) # r
    BY <2>1, RefsTaken, OAuthAssumption DEF Others
  <2>4. (\A s \in Systems :
           /\ system[s] = Null => forgotten[s] = Null
           /\ system[s] # Null => /\ Own(s) \in Refs
                                  /\ (forgotten[s] # Null <=> system[s].ref = Null)
                                  /\ \A q \in Systems : system[q] # Null /\ Own(q) = Own(s) => (q = s))'
    BY <2>2 DEF Owned
  <2>5. (\A u \in Threads : task[u].system # Null =>
           system[task[u].system] # Null /\ task[u].ref = Own(task[u].system))'
    <3>1. \A u \in Threads : task'[u].system # Null => task'[u].system \in Systems /\ u # t
      BY <2>1 DEF Is, Typed, Tasks, Task, Opt
    <3> QED
      BY <2>1, <2>2, <3>1 DEF Owned, Others
  <2>6. (\A u \in Threads : At(u, "insert") =>
           /\ \A s \in Systems : system[s] # Null => Own(s) # task[u].ref
           /\ \A v \in Threads : task[v].ref = task[u].ref => v = u)'
    BY <2>1, <2>2, <2>3 DEF Owned, At, Others, Is
  <2> QED
    BY <2>4, <2>5, <2>6 DEF Owned
<1>8. ASSUME NEW t \in Threads, InsertSystem(t) PROVE Owned'
  <2> DEFINE r == task[t].ref
  <2>1. PICK q \in Systems :
          /\ Others(t) /\ task[t].step = "insert" /\ task'[t] = Idle /\ r \in Refs
          /\ system[q] = Null /\ system'[q] # Null /\ system'[q].ref = r
          /\ \A s \in Systems \ {q} : system'[s] = system[s]
    BY <1>8, InsertSystemDoes
  <2>2. forgotten' = forgotten /\ forgotten[q] = Null
    BY <1>8, <2>1, Frames DEF Owned
  <2>3. Own(q)' = r /\ \A s \in Systems \ {q} : Own(s)' = Own(s)
    BY <2>1, <2>2 DEF Own
  <2>4. /\ \A s \in Systems : system[s] # Null => Own(s) # r
        /\ \A u \in Threads : task[u].ref = r => u = t
    BY <2>1 DEF Owned, At
  <2>5. (\A s \in Systems :
           /\ system[s] = Null => forgotten[s] = Null
           /\ system[s] # Null => /\ Own(s) \in Refs
                                  /\ (forgotten[s] # Null <=> system[s].ref = Null)
                                  /\ \A z \in Systems : system[z] # Null /\ Own(z) = Own(s) => (z = s))'
    <3> HIDE DEF r
    <3>1. Null \notin Refs
      BY OAuthAssumption
    <3> QED
      BY <2>1, <2>2, <2>3, <2>4, <3>1 DEF Owned
  <2>6. (\A u \in Threads : task[u].system # Null =>
           system[task[u].system] # Null /\ task[u].ref = Own(task[u].system))'
    <3>1. \A u \in Threads : task'[u].system # Null => task'[u].system \in Systems /\ u # t
      BY <1>0, <2>1 DEF Typed, Tasks, Task, Opt
    <3>2. \A u \in Threads : task'[u].system # Null => task'[u].system # q /\ task'[u] = task[u]
      BY <2>1, <3>1 DEF Owned, Others
    <3> QED
      BY <2>1, <2>3, <3>1, <3>2 DEF Owned
  <2>7. (\A u \in Threads : At(u, "insert") =>
           /\ \A s \in Systems : system[s] # Null => Own(s) # task[u].ref
           /\ \A v \in Threads : task[v].ref = task[u].ref => v = u)'
    <3> SUFFICES ASSUME NEW u \in Threads, task'[u].step = "insert"
                 PROVE  /\ \A s \in Systems : system'[s] # Null => Own(s)' # task'[u].ref
                        /\ \A v \in Threads : task'[v].ref = task'[u].ref => v = u
      BY DEF At
    <3>1. u # t /\ task'[u] = task[u] /\ task[u].ref # r /\ task[u].ref \in Refs
      BY <1>0, <2>1, <2>4, TaskType DEF Others, Shaped
    <3>2. Null \notin Refs
      BY OAuthAssumption
    <3> QED
      BY <1>0, <2>1, <2>3, <3>1, <3>2 DEF Owned, At, Others
  <2> QED
    BY <2>5, <2>6, <2>7 DEF Owned
<1>9. ASSUME NEW t \in Threads, NEW s \in Systems, NEW revoke \in BOOLEAN, ReadRow(t, s, revoke) PROVE Owned'
  <2>1. /\ Others(t) /\ Is(task'[t], "resolve", Null, system[s].provider, s, system[s].ref)
        /\ system[s] # Null /\ system[s].ref \in Refs
    BY <1>9, ReadRowDoes DEF ReadRow
  <2>2. Own(s) = system[s].ref
    BY <2>1, OAuthAssumption DEF Owned, Own
  <2>3. s # Null /\ UNCHANGED <<system, forgotten>>
    BY <1>9, OAuthAssumption, Frames
  <2> QED
    BY <2>1, <2>2, <2>3, OwnedKept DEF Is
<1>10. ASSUME NEW t \in Threads, \/ Resolve(t) \/ Refresh(t) \/ Store(t) \/ Revoke(t) \/ DeleteSecret(t)
       PROVE  Owned'
  <2>1. /\ task[t].step \in Using /\ Others(t)
        /\ \/ task'[t] = Idle
           \/ task'[t].step # "insert" /\ task'[t].ref = task[t].ref /\ task'[t].system = task[t].system
    BY <1>10, ResolveDoes, RefreshDoes, StoreDoes, RevokeDoes, DeleteSecretDoes DEF Is, Using
  <2>2. UNCHANGED <<system, forgotten>>
    BY <1>10, Frames
  <2>3. task[t].system # Null /\ system[task[t].system] # Null /\ task[t].ref = Own(task[t].system)
    BY <2>1, TaskType DEF Shaped, Owned
  <2> QED
    BY <1>0, <2>1, <2>2, <2>3, OwnedKept
<1>15. ASSUME NEW t \in Threads, ClearRow(t) PROVE Owned'
  <2> DEFINE s == task[t].system
  <2>1. /\ Others(t) /\ task'[t] = Idle /\ s \in Systems /\ system[s] # Null
        /\ task[t].ref = Own(s) /\ task[t].ref \in Refs
        /\ system'[s] # Null /\ system'[s].ref = Null
        /\ \A q \in Systems \ {s} : system'[q] = system[q]
        /\ forgotten' = [forgotten EXCEPT ![s] = task[t].ref]
    BY <1>15, ClearRowDoes
  <2>2. forgotten'[s] = Own(s) /\ \A q \in Systems \ {s} : forgotten'[q] = forgotten[q]
    BY <2>1 DEF Typed
  <2> HIDE DEF s
  <2>3. \A q \in Systems : Own(q)' = Own(q) /\ (system'[q] = Null <=> system[q] = Null)
    BY <2>1, <2>2, OAuthAssumption DEF Own
  <2>4. (\A q \in Systems :
           /\ system[q] = Null => forgotten[q] = Null
           /\ system[q] # Null => /\ Own(q) \in Refs
                                  /\ (forgotten[q] # Null <=> system[q].ref = Null)
                                  /\ \A z \in Systems : system[z] # Null /\ Own(z) = Own(q) => (z = q))'
    BY <2>1, <2>2, <2>3, OAuthAssumption DEF Owned
  <2>5. (\A u \in Threads : task[u].system # Null =>
           system[task[u].system] # Null /\ task[u].ref = Own(task[u].system))'
    <3>1. \A u \in Threads : task'[u].system # Null => task'[u].system \in Systems /\ u # t
      BY <1>0, <2>1 DEF Typed, Tasks, Task, Opt
    <3> QED
      BY <2>1, <2>3, <3>1 DEF Owned, Others
  <2>6. (\A u \in Threads : At(u, "insert") =>
           /\ \A q \in Systems : system[q] # Null => Own(q) # task[u].ref
           /\ \A v \in Threads : task[v].ref = task[u].ref => v = u)'
    <3> SUFFICES ASSUME NEW u \in Threads, task'[u].step = "insert"
                 PROVE  /\ \A q \in Systems : system'[q] # Null => Own(q)' # task'[u].ref
                        /\ \A v \in Threads : task'[v].ref = task'[u].ref => v = u
      BY DEF At
    <3>1. u # t /\ task'[u] = task[u] /\ task[u].ref \in Refs
      BY <1>0, <2>1, TaskType DEF Others, Shaped
    <3> QED
      BY <1>0, <2>1, <2>3, <3>1, OAuthAssumption DEF Owned, At, Others
  <2> QED
    BY <2>4, <2>5, <2>6 DEF Owned
<1>16. CASE UNCHANGED <<task, system, forgotten>>
  BY <1>16 DEF Owned, Own, At
<1>19. CASE Crash
  <2>1. /\ \A u \in Threads : task'[u].step = "idle" /\ task'[u].system = Null
        /\ UNCHANGED <<system, forgotten>>
    BY <1>0, <1>19, CrashDoes, Frames
  <2> QED
    BY <2>1 DEF Owned, Own, At
<1> QED
  BY <1>1, <1>2, <1>3, <1>4, <1>5, <1>7, <1>8, <1>9, <1>10, <1>15, <1>16, <1>19, Frames DEF Next, vars, rows
-----------------------------------------------------------------------------
(* A sign-in adds one system *)

Carries(u) == task'[u].state # Null => task'[u].state = task[u].state /\ task'[u].provider = task[u].provider

LEMMA SignInCarried ==
  ASSUME Typed, Kinds, NEW t \in Threads,
         \/ \E p \in Providers : ReadProvider(t, p)
         \/ \E id \in ClientIds : PutClientSecret(t, id)
         \/ SaveProvider(t) \/ Exchange(t) \/ Refuse(t) \/ PutTokens(t)
         \/ \E s \in Systems, revoke \in BOOLEAN : ReadRow(t, s, revoke)
         \/ Resolve(t) \/ Refresh(t) \/ Store(t) \/ Revoke(t) \/ DeleteSecret(t) \/ Fail(t)
  PROVE  Others(t) /\ Carries(t)
<1>0. Idle.state = Null
  BY DEF Idle
<1>1. ASSUME NEW p \in Providers, ReadProvider(t, p) PROVE Others(t) /\ Carries(t)
  BY <1>1, ReadProviderDoes DEF Is, Carries
<1>2. ASSUME NEW id \in ClientIds, PutClientSecret(t, id) PROVE Others(t) /\ Carries(t)
  BY <1>2, PutClientSecretDoes DEF Is, Carries
<1>3. ASSUME NEW s \in Systems, NEW revoke \in BOOLEAN, ReadRow(t, s, revoke) PROVE Others(t) /\ Carries(t)
  BY <1>3, ReadRowDoes DEF Is, Carries
<1>4. ASSUME SaveProvider(t) \/ Refuse(t) \/ Fail(t) PROVE Others(t) /\ Carries(t)
  BY <1>0, <1>4, SaveProviderDoes, FailDoes DEF Carries
<1>5. ASSUME Exchange(t) \/ PutTokens(t) PROVE Others(t) /\ Carries(t)
  BY <1>5, ExchangeDoes, PutTokensDoes DEF Is, Carries
<1>6. ASSUME Refresh(t) \/ Revoke(t) \/ DeleteSecret(t) PROVE Others(t) /\ Carries(t)
  BY <1>6, RefreshDoes, RevokeDoes, DeleteSecretDoes DEF Is, Carries
<1>7. ASSUME Resolve(t) PROVE Others(t) /\ Carries(t)
  <2>1. Others(t) /\ (task'[t] = Idle \/ task'[t].state = Null)
    BY <1>7, ResolveDoes DEF Is
  <2> QED
    BY <1>0, <2>1 DEF Carries
<1>8. ASSUME Store(t) PROVE Others(t) /\ Carries(t)
  BY <1>0, <1>8, StoreDoes DEF Is, Carries
<1> QED
  BY <1>1, <1>2, <1>3, <1>4, <1>5, <1>6, <1>7, <1>8

LEMMA SingleStep ==
  ASSUME Typed, Typed', Kinds, Owned, Single, [Next]_vars
  PROVE  Single'
<1>0. Idle.state = Null
  BY DEF Idle
<1>1. ASSUME \A u \in Threads : Carries(u), UNCHANGED <<pending, used, started>> PROVE Single'
  <2>1. \A u \in Threads : task'[u].state # Null => task'[u].state \in States
    BY DEF Typed, Tasks, Task, Opt
  <2> QED
    BY <1>1, <2>1 DEF Single, Unused, Carries
<1>2. ASSUME NEW t \in Threads,
             \/ \E p \in Providers : ReadProvider(t, p)
             \/ \E id \in ClientIds : PutClientSecret(t, id)
             \/ SaveProvider(t) \/ Exchange(t) \/ Refuse(t) \/ PutTokens(t)
             \/ \E s \in Systems, revoke \in BOOLEAN : ReadRow(t, s, revoke)
             \/ Resolve(t) \/ Refresh(t) \/ Store(t) \/ Revoke(t) \/ DeleteSecret(t) \/ Fail(t)
      PROVE  Single'
  <2>1. \A u \in Threads : Carries(u)
    BY <1>2, SignInCarried DEF Others, Carries
  <2> QED
    BY <1>1, <1>2, <2>1, Frames
<1>3. ASSUME NEW t \in Threads, ClearRow(t) PROVE Single'
  <2>1. \A u \in Threads : Carries(u)
    BY <1>0, <1>3, ClearRowDoes DEF Others, Carries
  <2> QED
    BY <1>1, <1>3, <2>1, Frames
<1>4. ASSUME NEW t \in Threads, NEW a \in States, NEW p \in Providers, Callback(t, a, p) PROVE Single'
  <2>1. /\ pending' = [pending EXCEPT ![a] = Null] /\ started[a] # Null
        /\ UNCHANGED <<used, started>>
    BY <1>4, Frames DEF Callback, Remaining
  <2>2. \A b \in States : pending'[b] = IF b = a THEN Null ELSE pending[b]
    BY <2>1 DEF Typed
  <2>3. CASE Admitted(a, p)
    <3>1. pending[a] # Null /\ pending[a].provider = p
      BY <2>3 DEF Admitted
    <3>2. Others(t) /\ task'[t].state = a /\ task'[t].provider = p
      BY <1>4, <2>3, CallbackDoes DEF Is
    <3>3. \A u \in Threads : task[u].state # a
      BY <3>1, OAuthAssumption DEF Single, Unused
    <3>4. \A u \in Threads : task'[u].state # Null => task'[u].state \in States
      BY DEF Typed, Tasks, Task, Opt
    <3> QED
      BY <2>1, <2>2, <3>1, <3>2, <3>3, <3>4 DEF Single, Unused, Others
  <2>4. CASE ~Admitted(a, p)
    <3>1. \A u \in Threads : task'[u] = task[u]
      BY <1>4, <2>4, CallbackDoes DEF Others
    <3>2. \A u \in Threads : task'[u].state # Null => task'[u].state \in States
      BY DEF Typed, Tasks, Task, Opt
    <3> QED
      BY <2>1, <2>2, <3>1, <3>2 DEF Single, Unused
  <2> QED
    BY <2>3, <2>4
<1>5. ASSUME NEW t \in Threads, InsertSystem(t) PROVE Single'
  <2> DEFINE a == task[t].state
  <2>1. /\ Others(t) /\ task'[t].state = Null /\ a \in States /\ used' = [used EXCEPT ![a] = @ + 1]
        /\ UNCHANGED <<pending, started>>
    BY <1>0, <1>5, InsertSystemDoes, Frames
  <2>2. pending[a] = Null /\ used[a] = 0 /\ started[a] # Null /\ \A u \in Threads : task[u].state = a => u = t
    <3>1. task[t].provider \in Providers
      BY <1>5, TaskType, InsertSystemDoes DEF Shaped
    <3> QED
      BY <2>1, <3>1, OAuthAssumption DEF Single, Unused
  <2> HIDE DEF a
  <2>3. used'[a] = 1 /\ \A b \in States \ {a} : used'[b] = used[b]
    BY <2>1, <2>2 DEF Typed
  <2>4. \A u \in Threads : task'[u].state # Null => u # t /\ task'[u].state \in States \ {a}
    BY <2>1, <2>2 DEF Typed, Tasks, Task, Opt, Others
  <2> QED
    BY <2>1, <2>2, <2>3, <2>4 DEF Single, Unused, Others
<1>6. ASSUME NEW p \in Providers, Start(p) PROVE Single'
  <2>1. PICK a \in States :
          /\ started[a] = Null /\ started' = [started EXCEPT ![a] = p] /\ pending'[a].provider = p
          /\ \A b \in States \ {a} : pending'[b] = pending[b]
    BY <1>6, StartDoes
  <2>2. UNCHANGED <<task, used>> /\ used[a] = 0
    BY <1>6, <2>1, Frames DEF Single, Unused
  <2>3. started'[a] = p /\ p # Null /\ \A b \in States \ {a} : started'[b] = started[b]
    BY <2>1, OAuthAssumption DEF Typed
  <2>4. \A u \in Threads : task[u].state # Null => task[u].state \in States \ {a}
    <3>1. \A u \in Threads : task[u].state # Null => task[u].provider \in Providers /\ task[u].state \in States
      BY TaskType DEF Shaped, SigningIn, Task, Opt
    <3> QED
      BY <2>1, <3>1, OAuthAssumption DEF Single
  <2> QED
    BY <2>1, <2>2, <2>3, <2>4 DEF Single, Unused
<1>7. ASSUME NEW a \in States, Lapse(a) PROVE Single'
  <2>1. UNCHANGED <<task, used, started>>
    BY <1>7, Frames
  <2>2. \A u \in Threads : task[u].state # Null => task[u].state \in States \ {a}
    BY <1>7, LapseDoes, OAuthAssumption DEF Single, Unused, Typed, Tasks, Task, Opt
  <2> QED
    BY <1>7, <2>1, <2>2, LapseDoes DEF Single, Unused
<1>8. CASE Crash
  <2>1. (\A u \in Threads : task'[u].state = Null) /\ (\A a \in States : pending'[a] = Null)
    BY <1>0, <1>8, CrashDoes
  <2> QED
    BY <1>8, <2>1, Frames DEF Single, Unused
<1>9. CASE UNCHANGED <<task, pending, used, started>>
  BY <1>9 DEF Single, Unused
<1> QED
  BY <1>2, <1>3, <1>4, <1>5, <1>6, <1>7, <1>8, <1>9, Frames DEF Next, vars, history
-----------------------------------------------------------------------------
(* One thread at a time, and what it leaves *)

\* Who writes the secret of a system.
LEMMA SecretWritten ==
  ASSUME Typed, Kinds, [Next]_vars, NEW r \in Refs, secret[r] \in TokenSets \cup {Gone}
  PROVE  \/ secret'[r] = secret[r]
         \/ \E t \in Threads : Store(t) /\ task[t].ref = r /\ secret'[r] = task[t].tokens
         \/ \E t \in Threads : DeleteSecret(t) /\ task[t].ref = r /\ secret'[r] = Gone
         \/ secret[r] \in TokenSets /\ secret'[r] \in TokenSets /\ secret'[r].refresh = secret[r].refresh
<1>0. secret \in [Refs -> Opt(TokenSets \cup ClientSecrets \cup {Gone})] /\ secret[r] # Null
  BY OAuthAssumption DEF Typed
<1>1. ASSUME NEW t \in Threads, NEW id \in ClientIds, PutClientSecret(t, id) PROVE secret'[r] = secret[r]
  BY <1>1, PutClientKeeps
<1>2. ASSUME NEW t \in Threads, PutTokens(t) PROVE secret'[r] = secret[r]
  BY <1>0, <1>2, PutTokensDoes
<1>3. ASSUME NEW t \in Threads, Store(t) \/ DeleteSecret(t), task[t].ref # r PROVE secret'[r] = secret[r]
  BY <1>0, <1>3, StoreDoes, DeleteSecretDoes
<1>4. ASSUME NEW t \in Threads, Store(t), task[t].ref = r PROVE secret'[r] = task[t].tokens
  BY <1>0, <1>4, StoreDoes
<1>5. ASSUME NEW t \in Threads, DeleteSecret(t), task[t].ref = r PROVE secret'[r] = Gone
  BY <1>0, <1>5, DeleteSecretDoes
<1>6. ASSUME NEW q \in Refs, Expire(q)
      PROVE  \/ secret'[r] = secret[r]
             \/ secret[r] \in TokenSets /\ secret'[r] \in TokenSets /\ secret'[r].refresh = secret[r].refresh
  BY <1>6, ExpireDoes
<1> QED
  BY <1>1, <1>2, <1>3, <1>4, <1>5, <1>6, Frames DEF Next, vars, rows

\* What has been disturbed stays so.
LEMMA DisturbedGrows ==
  ASSUME [Next]_vars PROVE disturbed \subseteq disturbed'
<1>1. ASSUME NEW t \in Threads,
             \/ \E p \in Providers : ReadProvider(t, p)
             \/ \E s \in Systems, revoke \in BOOLEAN : ReadRow(t, s, revoke)
             \/ Fail(t)
      PROVE  disturbed \subseteq disturbed'
  BY <1>1 DEF ReadProvider, ReadRow, Fail
<1>2. CASE Crash
  BY <1>2 DEF Crash
<1> QED
  BY <1>1, <1>2, Frames DEF Next, vars, history

\* Who has credentials in hand had them before, or reads them.
Uses(u) == task'[u].step \in Using =>
  task[u].step \in Using /\ task'[u].ref = task[u].ref /\ task'[u].system = task[u].system

LEMMA UsersCarried ==
  ASSUME Typed, Kinds, Owned, [Next]_vars, NEW u \in Threads
  PROVE  Uses(u) \/ \E s \in Systems, revoke \in BOOLEAN : ReadRow(u, s, revoke)
<1>0. /\ Idle.step \notin Using /\ "put_client" \notin Using /\ "save" \notin Using
      /\ "exchange" \notin Using /\ "put_tokens" \notin Using /\ "insert" \notin Using
      /\ {"resolve", "refresh", "store", "revoke", "delete", "clear"} \subseteq Using
  BY DEF Idle, Using
<1>1. ASSUME NEW t \in Threads, Others(t), task'[t].step \notin Using PROVE Uses(u)
  BY <1>1 DEF Others, Uses
<1>2. ASSUME NEW t \in Threads, NEW p \in Providers, ReadProvider(t, p) PROVE Uses(u)
  BY <1>0, <1>1, <1>2, ReadProviderDoes DEF Is
<1>3. ASSUME NEW t \in Threads, NEW id \in ClientIds, PutClientSecret(t, id) PROVE Uses(u)
  BY <1>0, <1>1, <1>3, PutClientSecretDoes DEF Is
<1>4. ASSUME NEW t \in Threads, NEW a \in States, NEW p \in Providers, Callback(t, a, p) PROVE Uses(u)
  BY <1>0, <1>1, <1>4, CallbackDoes DEF Is, Others, Uses
<1>5. ASSUME NEW t \in Threads, Exchange(t) \/ PutTokens(t) PROVE Uses(u)
  BY <1>0, <1>1, <1>5, ExchangeDoes, PutTokensDoes DEF Is
<1>6. ASSUME NEW t \in Threads, SaveProvider(t) \/ Refuse(t) \/ Fail(t) \/ InsertSystem(t) \/ ClearRow(t) PROVE Uses(u)
  BY <1>0, <1>1, <1>6, SaveProviderDoes, FailDoes, InsertSystemDoes, ClearRowDoes
<1>7. ASSUME NEW t \in Threads, Resolve(t) \/ Refresh(t) \/ Store(t) \/ Revoke(t) \/ DeleteSecret(t) PROVE Uses(u)
  <2>1. task[t].step \in Using /\ Others(t)
    BY <1>0, <1>7, ResolveDoes, RefreshDoes, StoreDoes, RevokeDoes, DeleteSecretDoes
  <2>2. \/ task'[t].step \notin Using
        \/ task'[t].ref = task[t].ref /\ task'[t].system = task[t].system
    BY <1>0, <1>7, ResolveDoes, RefreshDoes, StoreDoes, RevokeDoes, DeleteSecretDoes DEF Is
  <2> QED
    BY <2>1, <2>2 DEF Others, Uses
<1>8. ASSUME NEW t \in Threads, NEW s \in Systems, NEW revoke \in BOOLEAN, ReadRow(t, s, revoke), u # t PROVE Uses(u)
  BY <1>8, ReadRowDoes DEF Others, Uses
<1>9. CASE Crash
  BY <1>0, <1>9, CrashDoes DEF Uses
<1>10. CASE task' = task
  BY <1>10 DEF Uses
<1> QED
  BY <1>2, <1>3, <1>4, <1>5, <1>6, <1>7, <1>8, <1>9, <1>10, Frames DEF Next, vars

\* A thread comes to a step of its own doing.
LEMMA ComesTo ==
  ASSUME Typed, Kinds, Owned, [Next]_vars, NEW u \in Threads
  PROVE  /\ task'[u].step = "clear" => task'[u] = task[u] \/ DeleteSecret(u)
         /\ task'[u].step = "store" => task'[u] = task[u] \/ Refresh(u)
         /\ task'[u].step = "insert" => task'[u] = task[u] \/ PutTokens(u)
         /\ task'[u].step = "put_tokens" => task'[u] = task[u] \/ Exchange(u)
         /\ task'[u].step = "refresh" => task'[u] = task[u] \/ Resolve(u)
         /\ task'[u].step = "revoke" => task'[u] = task[u] \/ Resolve(u) \/ Store(u)
         /\ task'[u].step = "put_client" => task'[u] = task[u] \/ \E p \in Providers : ReadProvider(u, p)
         /\ task'[u].step = "save" => task'[u] = task[u] \/ \E id \in ClientIds : PutClientSecret(u, id)
<1> DEFINE Awaited == {"clear", "store", "insert", "put_tokens", "refresh", "revoke", "put_client", "save"}
<1>0. Idle.step = "idle"
  BY DEF Idle
<1>1. ASSUME NEW t \in Threads, Others(t), task'[t].step \notin Awaited
      PROVE  task'[u].step \in Awaited => task'[u] = task[u]
  BY <1>1 DEF Others
<1>2. ASSUME NEW t \in Threads, NEW p \in Providers, ReadProvider(t, p)
      PROVE  \/ u # t /\ task'[u] = task[u]
             \/ u = t /\ ReadProvider(u, p) /\ task'[u].step = "put_client"
  BY <1>2, ReadProviderDoes DEF Is, Others
<1>3. ASSUME NEW t \in Threads, NEW id \in ClientIds, PutClientSecret(t, id)
      PROVE  \/ u # t /\ task'[u] = task[u]
             \/ u = t /\ PutClientSecret(u, id) /\ task'[u].step = "save"
  BY <1>3, PutClientSecretDoes DEF Is, Others
<1>4. ASSUME NEW t \in Threads, NEW a \in States, NEW p \in Providers, Callback(t, a, p)
      PROVE  task'[u].step \in Awaited => task'[u] = task[u]
  BY <1>4, CallbackDoes DEF Is, Others
<1>5. ASSUME NEW t \in Threads, NEW s \in Systems, NEW revoke \in BOOLEAN, ReadRow(t, s, revoke)
      PROVE  task'[u].step \in Awaited => task'[u] = task[u]
  BY <1>1, <1>5, ReadRowDoes DEF Is
<1>6. ASSUME NEW t \in Threads, SaveProvider(t) \/ Refuse(t) \/ Fail(t) \/ InsertSystem(t) \/ ClearRow(t)
      PROVE  task'[u].step \in Awaited => task'[u] = task[u]
  BY <1>0, <1>1, <1>6, SaveProviderDoes, FailDoes, InsertSystemDoes, ClearRowDoes
<1>7. ASSUME NEW t \in Threads, Revoke(t)
      PROVE  task'[u].step \in Awaited => task'[u] = task[u]
  BY <1>0, <1>1, <1>7, RevokeDoes DEF Is
<1>11. ASSUME NEW t \in Threads, Resolve(t) \/ Store(t)
       PROVE  \/ task'[u].step \in Awaited => task'[u] = task[u]
              \/ u = t /\ Resolve(u) /\ task'[u].step \in {"refresh", "revoke"}
              \/ u = t /\ Store(u) /\ task'[u].step = "revoke"
  BY <1>0, <1>1, <1>11, ResolveDoes, StoreDoes DEF Is, Others
<1>8. ASSUME NEW t \in Threads, Exchange(t) \/ PutTokens(t) \/ Refresh(t) \/ DeleteSecret(t)
      PROVE  \/ u # t /\ task'[u] = task[u]
             \/ u = t /\ Exchange(u) /\ task'[u].step = "put_tokens"
             \/ u = t /\ PutTokens(u) /\ task'[u].step = "insert"
             \/ u = t /\ Refresh(u) /\ task'[u].step = "store"
             \/ u = t /\ DeleteSecret(u) /\ task'[u].step = "clear"
  BY <1>8, ExchangeDoes, PutTokensDoes, RefreshDoes, DeleteSecretDoes DEF Is, Others
<1>9. CASE Crash
  BY <1>0, <1>9, CrashDoes
<1>10. CASE task' = task
  BY <1>10
<1> QED
  BY <1>2, <1>3, <1>4, <1>5, <1>6, <1>7, <1>8, <1>9, <1>10, <1>11, Frames DEF Next, vars

LEMMA AloneStep ==
  ASSUME Typed, Typed', Kinds, Owned, Alone, [Next]_vars
  PROVE  Alone'
<1>1. disturbed \subseteq disturbed'
  BY DisturbedGrows
<1>2. \A u \in Threads : task'[u].step \in Using => task'[u].system \in Systems
  BY DEF Typed, Tasks, Shaped, Task, Opt
<1>3. CASE \E t \in Threads, s \in Systems, revoke \in BOOLEAN : ReadRow(t, s, revoke)
  <2>1. PICK t \in Threads, s \in Systems, revoke \in BOOLEAN : ReadRow(t, s, revoke)
    BY <1>3
  <2>2. /\ Others(t) /\ task'[t].ref = system[s].ref /\ task'[t].system = s /\ system[s].ref \in Refs
        /\ forgotten' = forgotten
    BY <2>1, ReadRowDoes, Frames DEF Is
  <2>3. forgotten[s] = Null
    <3>1. system[s] # Null /\ system[s].ref # Null
      BY <2>1 DEF ReadRow
    <3> QED
      BY <3>1 DEF Owned
  <2>4. system[s].ref \notin disturbed' => \A u \in Threads : task[u].ref # system[s].ref
    BY <2>1 DEF ReadRow, Handles
  <2> QED
    BY <1>1, <1>2, <2>2, <2>3, <2>4 DEF Alone, Others
<1>4. CASE \A u \in Threads : Uses(u)
  <2>1. CASE forgotten' = forgotten
    BY <1>1, <1>2, <1>4, <2>1 DEF Alone, Uses
  <2>2. CASE \E t \in Threads : ClearRow(t)
    <3>1. PICK t \in Threads : ClearRow(t)
      BY <2>2
    <3>2. /\ forgotten' = [forgotten EXCEPT ![task[t].system] = task[t].ref] /\ task'[t] = Idle
          /\ task[t].ref = Own(task[t].system) /\ task[t].step \in Using
      BY <3>1, ClearRowDoes DEF Using
    <3>3. ASSUME NEW u \in Threads, task'[u].step \in Using, task'[u].ref \notin disturbed'
          PROVE  u # t /\ task[u].system # task[t].system
      <4>1. u # t /\ task[u].step \in Using /\ task[u].ref \notin disturbed
        BY <1>1, <1>4, <3>2, <3>3 DEF Uses, Idle, Using
      <4>2. task[u].system # Null
        BY <4>1, TaskType DEF Shaped
      <4> QED
        BY <3>2, <4>1, <4>2 DEF Alone, Owned
    <3>4. \A u \in Threads : task'[u].step \in Using /\ task'[u].ref \notin disturbed' =>
            forgotten'[task'[u].system] = forgotten[task'[u].system]
      BY <1>2, <1>4, <3>2, <3>3 DEF Uses, Typed
    <3> QED
      BY <1>1, <1>4, <3>4 DEF Alone, Uses
  <2>3. forgotten' = forgotten \/ \E t \in Threads : ClearRow(t)
    BY Frames DEF Next, vars, history
  <2> QED
    BY <2>1, <2>2, <2>3
<1> QED
  BY <1>3, <1>4, UsersCarried

LEMMA ClearedStep ==
  ASSUME Typed, Typed', Kinds, Owned, Alone, Cleared, [Next]_vars
  PROVE  Cleared'
<1>1. disturbed \subseteq disturbed'
  BY DisturbedGrows
<1>2. ASSUME NEW u \in Threads, task[u].step \in Using, task[u].ref \notin disturbed, secret[task[u].ref] = Gone,
             task[u].step # "store"
      PROVE  secret'[task[u].ref] = Gone
  <2>1. task[u].ref \in Refs
    BY <1>2, TaskType DEF Shaped
  <2>2. ASSUME NEW t \in Threads, Store(t), task[t].ref = task[u].ref PROVE FALSE
    BY <1>2, <2>2, StoreDoes DEF Alone, Using
  <2> QED
    BY <1>2, <2>1, <2>2, SecretWritten, OAuthAssumption
<1>3. ASSUME NEW s \in Systems, forgotten[s] # Null, forgotten[s] \notin disturbed PROVE secret'[forgotten[s]] = Gone
  <2>1. forgotten[s] \in Refs /\ secret[forgotten[s]] = Gone /\ system[s] # Null /\ Own(s) = forgotten[s]
    BY <1>3 DEF Cleared, Typed, Opt, Owned, Own
  <2>2. ASSUME NEW t \in Threads, Store(t), task[t].ref = forgotten[s] PROVE FALSE
    <3>1. task[t].step \in Using /\ task[t].system \in Systems /\ task[t].system # Null
      BY <2>2, StoreDoes, TaskType DEF Using, Shaped, Task, Opt
    <3>2. task[t].system = s
      BY <2>1, <2>2, <3>1 DEF Owned
    <3> QED
      BY <1>3, <2>2, <3>1, <3>2 DEF Alone
  <2> QED
    BY <2>1, <2>2, SecretWritten, OAuthAssumption
<1>4. ASSUME NEW u \in Threads, task'[u].step = "clear", task'[u].ref \notin disturbed' PROVE secret'[task'[u].ref] = Gone
  <2>1. CASE DeleteSecret(u)
    <3>1. task'[u].ref = task[u].ref /\ task[u].ref \in Refs /\ secret' = [secret EXCEPT ![task[u].ref] = Gone]
      BY <2>1, DeleteSecretDoes DEF Is
    <3> QED
      BY <3>1 DEF Typed
  <2>2. CASE task'[u] = task[u]
    BY <1>1, <1>2, <1>4, <2>2 DEF Cleared, At, Using
  <2>3. DeleteSecret(u) \/ task'[u] = task[u]
    BY <1>4, ComesTo
  <2> QED
    BY <2>1, <2>2, <2>3
<1>5. ASSUME NEW s \in Systems, forgotten'[s] # Null, forgotten'[s] \notin disturbed' PROVE secret'[forgotten'[s]] = Gone
  <2>1. CASE forgotten'[s] = forgotten[s]
    BY <1>1, <1>3, <1>5, <2>1
  <2>2. CASE \E t \in Threads : ClearRow(t) /\ task[t].system = s
    <3>1. PICK t \in Threads : ClearRow(t) /\ task[t].system = s
      BY <2>2
    <3>2. forgotten'[s] = task[t].ref /\ task[t].step = "clear"
      BY <3>1, ClearRowDoes DEF Typed
    <3> QED
      BY <1>1, <1>2, <1>5, <3>1, <3>2 DEF Cleared, At, Using
  <2>3. forgotten'[s] = forgotten[s] \/ \E t \in Threads : ClearRow(t) /\ task[t].system = s
    <3>1. ASSUME NEW t \in Threads, ClearRow(t), task[t].system # s PROVE forgotten'[s] = forgotten[s]
      BY <3>1, ClearRowDoes DEF Typed
    <3> QED
      BY <3>1, Frames DEF Next, vars, history
  <2> QED
    BY <2>1, <2>2, <2>3
<1> QED
  BY <1>4, <1>5 DEF Cleared, At
-----------------------------------------------------------------------------
(* A refresh token is known under one reference *)

\* Only a sign-in fills a reference with tokens that had none.
LEMMA NewSecret ==
  ASSUME Typed, Kinds, [Next]_vars, NEW r \in Refs, secret[r] \notin TokenSets \cup {Gone}, secret'[r] \in TokenSets
  PROVE  \E t \in Threads : PutTokens(t) /\ secret'[r] = task[t].tokens
<1>0. secret \in [Refs -> Opt(TokenSets \cup ClientSecrets \cup {Gone})] /\ Null \notin TokenSets
  BY OAuthAssumption DEF Typed
<1>1. ASSUME NEW t \in Threads, NEW id \in ClientIds, PutClientSecret(t, id) PROVE secret'[r] \notin TokenSets
  <2>1. PICK q \in Refs : secret' = [secret EXCEPT ![q] = [client |-> id]]
    BY <1>1, PutClientSecretDoes
  <2>2. [client |-> id] \in ClientSecrets
    BY DEF ClientSecrets
  <2> QED
    BY <1>0, <2>1, <2>2, KindsDiffer
<1>2. ASSUME NEW t \in Threads, PutTokens(t) PROVE secret'[r] = secret[r] \/ secret'[r] = task[t].tokens
  BY <1>0, <1>2, PutTokensDoes
<1>3. ASSUME NEW t \in Threads, Store(t) \/ DeleteSecret(t) PROVE secret'[r] = secret[r]
  <2>1. /\ task[t].step \in Using \cup {"insert"} /\ task[t].ref \in Refs
        /\ \E k : secret' = [secret EXCEPT ![task[t].ref] = k]
    BY <1>3, StoreDoes, DeleteSecretDoes DEF Using
  <2>2. task[t].ref # r
    BY <2>1 DEF Kinds, OfSystem
  <2> QED
    BY <1>0, <2>1, <2>2
<1>4. ASSUME NEW q \in Refs, Expire(q) PROVE secret'[r] = secret[r]
  BY <1>4, ExpireDoes
<1> QED
  BY <1>1, <1>2, <1>3, <1>4, Frames DEF Next, vars, rows

\* Where a known token comes from.
LEMMA HeldBefore ==
  ASSUME Typed, Typed', Kinds, Owned, [Next]_vars, NEW r \in Refs, NEW n \in Nat, Holds(r, n)'
  PROVE  \/ Holds(r, n)
         \/ \E t \in Threads : PutTokens(t) /\ Fresh(t, n) /\ secret[r] = Null /\ secret'[r] # Null
         \/ \E t \in Threads : Refresh(t) /\ task[t].ref = r /\ n = issued + 1 /\ issued' = issued + 1
<1>1. CASE secret'[r] \in TokenSets /\ secret'[r].refresh = n
  <2>1. CASE secret[r] \in TokenSets \cup {Gone}
    <3>1. ASSUME NEW t \in Threads, Store(t), task[t].ref = r, secret'[r] = task[t].tokens PROVE Holds(r, n)
      BY <1>1, <3>1, StoreDoes DEF Holds, Carrying
    <3> QED
      BY <1>1, <2>1, <3>1, SecretWritten, OAuthAssumption DEF Holds
  <2>2. CASE secret[r] \notin TokenSets \cup {Gone}
    <3>1. PICK t \in Threads : PutTokens(t) /\ secret'[r] = task[t].tokens
      BY <1>1, <2>2, NewSecret
    <3>2. Fresh(t, n) /\ secret'[r] # secret[r]
      BY <1>1, <2>2, <3>1, PutTokensDoes DEF Fresh, At
    <3>3. secret[r] = Null /\ secret'[r] # Null
      BY <1>1, <3>1, <3>2, PutTokensDoes, OAuthAssumption DEF Typed
    <3> QED
      BY <3>1, <3>2, <3>3
  <2> QED
    BY <2>1, <2>2
<1>2. ASSUME NEW u \in Threads, task'[u].step \in Carrying, task'[u].ref = r, task'[u].tokens.refresh = n
      PROVE  \/ Holds(r, n)
             \/ Refresh(u) /\ task[u].ref = r /\ n = issued + 1 /\ issued' = issued + 1
  <2>1. CASE task'[u] = task[u]
    BY <1>2, <2>1 DEF Holds
  <2>2. CASE Resolve(u)
    <3>1. task'[u] # Idle
      BY <1>2 DEF Idle, Carrying
    <3> QED
      BY <1>2, <2>2, <3>1, ResolveDoes DEF Holds, Is
  <2>3. CASE Store(u)
    <3>1. task'[u] # Idle
      BY <1>2 DEF Idle, Carrying
    <3> QED
      BY <1>2, <2>3, <3>1, StoreDoes DEF Holds, Is, Carrying
  <2>4. CASE Refresh(u)
    BY <1>2, <2>4, RefreshDoes DEF Holds, Is, Carrying
  <2> QED
    BY <1>2, <2>1, <2>2, <2>3, <2>4, ComesTo DEF Carrying
<1> QED
  BY <1>1, <1>2 DEF Holds

LEMMA FreshBefore ==
  ASSUME Typed, Kinds, Owned, [Next]_vars, NEW t \in Threads, NEW n \in Nat, Fresh(t, n)'
  PROVE  \/ Fresh(t, n) /\ task'[t] = task[t]
         \/ Exchange(t) /\ n = issued + 1 /\ issued' = issued + 1
<1>1. task'[t].step = "put_tokens" /\ task'[t].tokens.refresh = n
  BY DEF Fresh, At
<1>2. CASE Exchange(t)
  BY <1>1, <1>2, ExchangeDoes DEF Exchange
<1> QED
  BY <1>1, <1>2, ComesTo DEF Fresh, At

LEMMA IssuedGrows ==
  ASSUME Typed, Typed', [Next]_vars PROVE issued \in Nat /\ issued' \in Nat /\ issued' >= issued
<1>1. ASSUME NEW t \in Threads, Exchange(t) \/ Refresh(t) PROVE issued' = issued \/ issued' = issued + 1
  BY <1>1, RefreshDoes DEF Exchange
<1> QED
  BY <1>1, Frames DEF Typed, Next, vars, provider

\* One thread moves at a time.
LEMMA OneMoves ==
  ASSUME Typed, NEW t \in Threads, NEW u \in Threads,
         Exchange(t) \/ Refresh(t), Exchange(u) \/ Refresh(u) \/ PutTokens(u)
  PROVE  t = u
<1>1. Others(t) /\ task'[u].step # task[u].step
  BY ExchangeDoes, RefreshDoes, PutTokensDoes DEF Is
<1> QED
  BY <1>1 DEF Others

LEMMA OneHolderStep ==
  ASSUME Typed, Typed', Kinds, Owned, OneHolder, [Next]_vars
  PROVE  OneHolder'
<1>0. issued \in Nat /\ issued' \in Nat /\ issued' >= issued
  BY IssuedGrows
<1>1. ASSUME NEW r \in Refs, NEW n \in Nat, Holds(r, n)' PROVE n <= issued'
  BY <1>0, <1>1, HeldBefore DEF OneHolder
<1>2. ASSUME NEW r \in Refs, NEW q \in Refs, NEW n \in Nat, Holds(r, n)', Holds(q, n)' PROVE q = r
  <2>1. CASE Holds(r, n) /\ Holds(q, n)
    BY <2>1 DEF OneHolder
  <2>2. ASSUME NEW t \in Threads, PutTokens(t), Fresh(t, n) PROVE q = r
    <3>1. n <= issued /\ ~Holds(r, n) /\ ~Holds(q, n) /\ \A u \in Threads : Fresh(u, n) => u = t
      BY <2>2 DEF OneHolder
    <3>2. secret[r] = Null /\ secret'[r] # Null /\ secret[q] = Null /\ secret'[q] # Null
      BY <1>0, <1>2, <3>1, HeldBefore
    <3> QED
      BY <2>2, <3>2, PutTokensDoes DEF Typed
  <2>3. CASE n = issued + 1
    <3>1. ~(n <= issued)
      BY <1>0, <2>3
    <3>2. /\ \E t \in Threads : Refresh(t) /\ task[t].ref = r
          /\ \E t \in Threads : Refresh(t) /\ task[t].ref = q
      BY <1>2, <3>1, HeldBefore DEF OneHolder
    <3> QED
      BY <3>2, OneMoves
  <2> QED
    BY <1>2, <2>1, <2>2, <2>3, HeldBefore
<1>3. ASSUME NEW t \in Threads, NEW n \in Nat, Fresh(t, n)'
      PROVE  /\ n <= issued'
             /\ \A q \in Refs : ~Holds(q, n)'
             /\ \A u \in Threads : Fresh(u, n)' => u = t
  <2>1. CASE Fresh(t, n) /\ task'[t] = task[t]
    <3>1. n <= issued /\ (\A q \in Refs : ~Holds(q, n)) /\ \A u \in Threads : Fresh(u, n) => u = t
      BY <2>1 DEF OneHolder
    <3>2. ~PutTokens(t) /\ n # issued + 1
      BY <1>0, <2>1, <3>1, PutTokensDoes DEF Is
    <3>3. \A q \in Refs : ~Holds(q, n)'
      BY <3>1, <3>2, HeldBefore
    <3>4. \A u \in Threads : Fresh(u, n)' => u = t
      BY <3>1, <3>2, FreshBefore
    <3> QED
      BY <1>0, <3>1, <3>3, <3>4
  <2>2. CASE Exchange(t) /\ n = issued + 1 /\ issued' = issued + 1
    <3>1. ~(n <= issued) /\ n <= issued'
      BY <1>0, <2>2
    <3>2. \A q \in Refs : ~Holds(q, n)'
      <4> SUFFICES ASSUME NEW q \in Refs, Holds(q, n)' PROVE FALSE
        OBVIOUS
      <4>1. PICK u \in Threads : Refresh(u)
        BY <3>1, HeldBefore DEF OneHolder
      <4> QED
        BY <2>2, <4>1, OneMoves, ExchangeDoes, RefreshDoes
    <3>3. \A u \in Threads : Fresh(u, n)' => u = t
      BY <2>2, <3>1, FreshBefore, OneMoves DEF OneHolder
    <3> QED
      BY <3>1, <3>2, <3>3
  <2> QED
    BY <1>3, <2>1, <2>2, FreshBefore
<1> QED
  BY <1>1, <1>2, <1>3 DEF OneHolder
-----------------------------------------------------------------------------
(* The provider accepts what is kept *)

\* Only a refresh or a revocation makes a token void.
LEMMA LiveLost ==
  ASSUME Typed, [Next]_vars, NEW n \in live, n \notin live'
  PROVE  \E t \in Threads : /\ Refresh(t) \/ Revoke(t)
                            /\ task[t].ref \in Refs /\ task[t].tokens.refresh = n
                            /\ Holds(task[t].ref, n)
<1>1. ASSUME NEW t \in Threads, Exchange(t) PROVE n \in live'
  BY <1>1 DEF Exchange
<1>2. ASSUME NEW t \in Threads, Refresh(t) \/ Revoke(t) PROVE n = task[t].tokens.refresh
  BY <1>2, RefreshDoes, RevokeDoes
<1>3. ASSUME NEW t \in Threads, Refresh(t) \/ Revoke(t) PROVE task[t].step \in Carrying /\ task[t].ref \in Refs
  BY <1>3, RefreshDoes, RevokeDoes, TaskType DEF Carrying, Using, Shaped
<1>4. \E t \in Threads : Refresh(t) \/ Revoke(t)
  BY <1>1, Frames DEF Next, vars, provider
<1> QED
  BY <1>2, <1>3, <1>4 DEF Holds

Ending == {"store", "delete", "clear"}

\* A thread that has begun to write goes on, or leaves a disturbance.
LEMMA BusyGoesOn ==
  ASSUME Typed, Kinds, Owned, [Next]_vars, NEW u \in Threads, task[u].step \in Ending \cup {"save"}
  PROVE  \/ task'[u] = task[u]
         \/ Store(u)
         \/ DeleteSecret(u)
         \/ ClearRow(u)
         \/ SaveProvider(u)
         \/ IF task[u].step = "save" THEN task[u].provider \in disturbed' ELSE task[u].ref \in disturbed'
<1>1. ASSUME NEW t \in Threads, Others(t), task[t].step \notin Ending \cup {"save"} PROVE task'[u] = task[u]
  BY <1>1 DEF Others
<1>2. ASSUME NEW t \in Threads, NEW p \in Providers, ReadProvider(t, p) PROVE task'[u] = task[u]
  BY <1>1, <1>2, ReadProviderDoes DEF Ending
<1>3. ASSUME NEW t \in Threads, NEW id \in ClientIds, PutClientSecret(t, id) PROVE task'[u] = task[u]
  BY <1>1, <1>3, PutClientSecretDoes DEF Ending
<1>4. ASSUME NEW t \in Threads, NEW a \in States, NEW p \in Providers, Callback(t, a, p) PROVE task'[u] = task[u]
  BY <1>1, <1>4, CallbackDoes DEF Ending
<1>5. ASSUME NEW t \in Threads, NEW s \in Systems, NEW revoke \in BOOLEAN, ReadRow(t, s, revoke) PROVE task'[u] = task[u]
  BY <1>1, <1>5, ReadRowDoes DEF Ending
<1>6. ASSUME NEW t \in Threads,
             Exchange(t) \/ PutTokens(t) \/ InsertSystem(t) \/ Resolve(t) \/ Refresh(t) \/ Revoke(t)
      PROVE  task'[u] = task[u]
  BY <1>1, <1>6, ExchangeDoes, PutTokensDoes, InsertSystemDoes, ResolveDoes, RefreshDoes, RevokeDoes DEF Ending
<1>7. ASSUME NEW t \in Threads, Refuse(t) PROVE task'[u] = task[u]
  <2>1. task[t].step \notin Ending \cup {"save"}
    BY <1>7 DEF Refuse, Ending
  <2> QED
    BY <1>1, <1>7, <2>1, FailDoes
<1>8. ASSUME NEW t \in Threads, Store(t) \/ DeleteSecret(t) \/ ClearRow(t) \/ SaveProvider(t), t # u
      PROVE  task'[u] = task[u]
  BY <1>8, StoreDoes, DeleteSecretDoes, ClearRowDoes, SaveProviderDoes DEF Others
<1>9. ASSUME NEW t \in Threads, Fail(t)
      PROVE  \/ task'[u] = task[u]
             \/ IF task[u].step = "save" THEN task[u].provider \in disturbed' ELSE task[u].ref \in disturbed'
  <2>1. CASE t = u
    BY <1>9, <2>1 DEF Fail, Broken, Ending
  <2>2. CASE t # u
    BY <1>9, <2>2, FailDoes DEF Others
  <2> QED
    BY <2>1, <2>2
<1>10. ASSUME Crash
       PROVE  IF task[u].step = "save" THEN task[u].provider \in disturbed' ELSE task[u].ref \in disturbed'
  BY <1>10 DEF Crash, Broken, Ending
<1>11. CASE task' = task
  BY <1>11
<1> QED
  BY <1>2, <1>3, <1>4, <1>5, <1>6, <1>7, <1>8, <1>9, <1>10, <1>11, Frames DEF Next, vars

\* A system's row is as it was, or the system is added, or its access is revoked.
LEMMA RowBefore ==
  ASSUME Typed, Owned, [Next]_vars, NEW s \in Systems, system'[s] # Null, system'[s].ref # Null
  PROVE  \/ system[s] = system'[s]
         \/ \E t \in Threads : InsertSystem(t) /\ system'[s].ref = task[t].ref
<1>1. ASSUME NEW t \in Threads, InsertSystem(t) PROVE system[s] = system'[s] \/ system'[s].ref = task[t].ref
  BY <1>1, InsertSystemDoes
<1>2. ASSUME NEW t \in Threads, ClearRow(t) PROVE system[s] = system'[s]
  BY <1>2, ClearRowDoes
<1> QED
  BY <1>1, <1>2, Frames DEF Next, vars, rows

LEMMA AcceptedStep ==
  ASSUME Typed, Typed', Kinds, Owned, Alone, OneHolder, Accepted, [Next]_vars
  PROVE  Accepted'
<1>0. disturbed \subseteq disturbed' /\ live \subseteq Nat
  BY DisturbedGrows DEF Typed
\* What is alive stays so, unless its own reference is at work.
<1>1. ASSUME NEW r \in Refs, Alive(r),
             \A t \in Threads : Store(t) \/ DeleteSecret(t) \/ Refresh(t) \/ Revoke(t) => task[t].ref # r
      PROVE  Alive(r)'
  <2> DEFINE n == secret[r].refresh
  <2>1. secret'[r] \in TokenSets /\ secret'[r].refresh = n
    BY <1>1, SecretWritten DEF Alive
  <2>2. n \in live /\ Holds(r, n)
    BY <1>1 DEF Alive, Holds
  <2>3. n \in live'
    BY <1>0, <1>1, <2>2, LiveLost DEF OneHolder
  <2> QED
    BY <2>1, <2>3 DEF Alive
<1>2. ASSUME NEW u \in Threads, task'[u].step = "put_tokens" PROVE task'[u].tokens.refresh \in live'
  <2>1. CASE task'[u] = task[u]
    <3>1. task[u].tokens.refresh \in live /\ Fresh(u, task[u].tokens.refresh)
      BY <1>2, <2>1 DEF Accepted, At, Fresh
    <3> QED
      BY <1>0, <2>1, <3>1, LiveLost DEF OneHolder
  <2>2. CASE Exchange(u)
    <3>1. task'[u].tokens.refresh = issued + 1 /\ live' = live \cup {issued + 1}
      BY <2>2, ExchangeDoes DEF Exchange
    <3> QED
      BY <3>1
  <2> QED
    BY <1>2, <2>1, <2>2, ComesTo
<1>3. ASSUME NEW u \in Threads, task'[u].step = "insert"
      PROVE  secret'[task'[u].ref] \in TokenSets /\ secret'[task'[u].ref].refresh \in live'
  <2>1. CASE task'[u] = task[u]
    <3>1. task[u].step = "insert" /\ task[u].ref \in Refs /\ Alive(task[u].ref)
      BY <1>3, <2>1, TaskType DEF Accepted, At, Shaped
    <3>2. \A t \in Threads : Store(t) \/ DeleteSecret(t) \/ Refresh(t) \/ Revoke(t) => task[t].ref # task[u].ref
      BY <3>1, StoreDoes, DeleteSecretDoes, RefreshDoes, RevokeDoes DEF Owned, At
    <3>3. PICK r \in Refs : r = task[u].ref
      BY <3>1
    <3>4. Alive(r)'
      BY <1>1, <3>1, <3>2, <3>3
    <3> QED
      BY <2>1, <3>3, <3>4 DEF Alive
  <2>2. CASE PutTokens(u)
    <3>1. PICK r \in Refs : secret' = [secret EXCEPT ![r] = task[u].tokens] /\ task'[u].ref = r /\ task[u].step = "put_tokens"
      BY <2>2, PutTokensDoes DEF Is
    <3>2. task[u].tokens \in TokenSets /\ task[u].tokens.refresh \in live /\ live' = live
      BY <2>2, <3>1, TaskType, Frames DEF Accepted, At, Shaped
    <3>3. secret'[r] = task[u].tokens
      BY <3>1 DEF Typed
    <3> QED
      BY <3>1, <3>2, <3>3
  <2> QED
    BY <1>3, <2>1, <2>2, ComesTo
<1>4. ASSUME NEW u \in Threads, task'[u].step = "store", task'[u].ref \notin disturbed'
      PROVE  task'[u].tokens.refresh \in live'
  <2>1. CASE task'[u] = task[u]
    <3> DEFINE n == task[u].tokens.refresh
    <3>1. task[u].step = "store" /\ task[u].ref \in Refs /\ task[u].ref \notin disturbed /\ n \in live
      BY <1>0, <1>4, <2>1, TaskType DEF Accepted, At, Shaped, Using
    <3>2. Holds(task[u].ref, n)
      BY <3>1 DEF Holds, Carrying
    <3>3. ASSUME n \notin live' PROVE FALSE
      <4>1. PICK t \in Threads : (Refresh(t) \/ Revoke(t)) /\ task[t].ref \in Refs /\ Holds(task[t].ref, n)
        BY <3>1, <3>3, LiveLost
      <4>2. task[t].ref = task[u].ref
        BY <1>0, <3>1, <3>2, <4>1 DEF OneHolder
      <4> QED
        BY <3>1, <4>1, <4>2, RefreshDoes, RevokeDoes DEF Alone, Using
    <3> QED
      BY <2>1, <3>3
  <2>2. CASE Refresh(u)
    BY <2>2, RefreshDoes
  <2> QED
    BY <1>4, <2>1, <2>2, ComesTo
<1>5. ASSUME NEW s \in Systems, system'[s] # Null, system'[s].ref # Null, system'[s].ref \notin disturbed',
             \A u \in Threads : task'[u].ref = system'[s].ref => task'[u].step \notin Ending
      PROVE  secret'[system'[s].ref] \in TokenSets /\ secret'[system'[s].ref].refresh \in live'
  <2> DEFINE r == system'[s].ref
  <2>0. r \in Refs
    BY <1>5 DEF Typed, SystemRows, Opt
  <2>1. CASE \E t \in Threads : InsertSystem(t) /\ r = task[t].ref
    <3>1. PICK t \in Threads : InsertSystem(t) /\ r = task[t].ref
      BY <2>1
    <3> HIDE DEF r
    <3>2. Alive(r)
      BY <3>1, InsertSystemDoes DEF Accepted, At
    <3> QED
      BY <3>1, <3>2, Frames DEF Alive, r
  <2>2. CASE system[s] = system'[s]
    <3>1. Own(s) = r /\ r \notin disturbed /\ \A u \in Threads : task'[u].ref = r => task'[u].step \notin Ending
      BY <1>0, <1>5, <2>2 DEF Owned, Own
    <3>2. CASE Busy(r)
      <4>1. PICK u \in Threads : task[u].ref = r /\ task[u].step \in Ending
        BY <3>2 DEF Busy, Handles, Ending
      <4>2. task[u].system \in Systems /\ Own(task[u].system) = r /\ system[task[u].system] # Null
        BY <4>1, TaskType DEF Owned, Ending, Using, Shaped, Task, Opt
      <4>3. task[u].system = s
        BY <1>5, <2>2, <3>1, <4>2 DEF Owned
      <4>4. ~ClearRow(u) /\ ~DeleteSecret(u) /\ task'[u] # task[u]
        BY <1>5, <3>1, <4>1, <4>3, ClearRowDoes, DeleteSecretDoes DEF Is, Ending
      <4>5. Store(u)
        BY <1>5, <4>1, <4>4, BusyGoesOn, SaveProviderDoes DEF Ending
      <4> HIDE DEF r
      <4>6. /\ task[u].step = "store" /\ task[u].tokens \in TokenSets
            /\ secret' = [secret EXCEPT ![r] = task[u].tokens] /\ live' = live
        BY <4>1, <4>5, StoreDoes, Frames
      <4>7. secret'[r] = task[u].tokens /\ task[u].tokens.refresh \in live
        BY <2>0, <3>1, <4>1, <4>6 DEF Accepted, At, Typed
      <4> QED
        BY <4>6, <4>7 DEF r
    <3>3. CASE ~Busy(r)
      <4>1. Alive(r)
        BY <1>5, <2>2, <3>1, <3>3 DEF Accepted
      <4>2. ASSUME NEW t \in Threads, Store(t) \/ DeleteSecret(t) \/ Refresh(t) \/ Revoke(t) PROVE task[t].ref # r
        <5>1. Store(t) \/ DeleteSecret(t) => task[t].ref # r
          BY <3>3, StoreDoes, DeleteSecretDoes DEF Busy, Handles
        <5>2. Refresh(t) \/ Revoke(t) => task'[t].ref = task[t].ref /\ task'[t].step \in Ending
          BY RefreshDoes, RevokeDoes DEF Is, Ending
        <5> QED
          BY <3>1, <4>2, <5>1, <5>2
      <4>3. PICK q \in Refs : q = r
        BY <2>0
      <4>4. Alive(q)'
        BY <1>1, <4>1, <4>2, <4>3
      <4> QED
        BY <4>3, <4>4 DEF Alive
    <3> QED
      BY <3>2, <3>3
  <2> QED
    BY <1>5, <2>1, <2>2, RowBefore
<1> QED
  <2>1. (\A t \in Threads :
           /\ At(t, "put_tokens") => task[t].tokens.refresh \in live
           /\ At(t, "insert") => Alive(task[t].ref)
           /\ At(t, "store") /\ task[t].ref \notin disturbed => task[t].tokens.refresh \in live)'
    BY <1>2, <1>3, <1>4 DEF At, Alive
  <2>2. ASSUME NEW s \in Systems, system'[s] # Null, system'[s].ref # Null, system'[s].ref \notin disturbed',
               \A u \in Threads : ~(task'[u].ref = system'[s].ref /\ task'[u].step \in Ending)
        PROVE  secret'[system'[s].ref] \in TokenSets /\ secret'[system'[s].ref].refresh \in live'
    BY <1>5, <2>2
  <2>3. (\A s \in Systems :
           system[s] # Null /\ system[s].ref # Null /\ system[s].ref \notin disturbed /\ ~Busy(system[s].ref) =>
             Alive(system[s].ref))'
    BY <2>2 DEF Busy, Handles, Ending, Alive
  <2> QED
    BY <2>1, <2>3 DEF Accepted
-----------------------------------------------------------------------------
(* A client identifier keeps its own secret *)

LEMMA ClientSecretWritten ==
  ASSUME Typed, Kinds, [Next]_vars, NEW r \in Refs, secret[r] \in ClientSecrets
  PROVE  \/ secret'[r] = secret[r]
         \/ \E t \in Threads, id \in ClientIds :
              PutClientSecret(t, id) /\ task[t].ref = r /\ secret'[r] = [client |-> id]
<1>0. /\ secret \in [Refs -> Opt(TokenSets \cup ClientSecrets \cup {Gone})]
      /\ secret[r] # Null /\ secret[r] \notin TokenSets \cup {Gone}
  BY KindsDiffer, OAuthAssumption DEF Typed
<1>1. ASSUME NEW t \in Threads, NEW id \in ClientIds, PutClientSecret(t, id)
      PROVE  secret'[r] = secret[r] \/ (task[t].ref = r /\ secret'[r] = [client |-> id])
  BY <1>0, <1>1, PutClientSecretDoes
<1>2. ASSUME NEW t \in Threads, PutTokens(t) PROVE secret'[r] = secret[r]
  BY <1>0, <1>2, PutTokensDoes
<1>3. ASSUME NEW t \in Threads, Store(t) \/ DeleteSecret(t) PROVE secret'[r] = secret[r]
  <2>1. /\ task[t].step \in Using \cup {"insert"} /\ task[t].ref \in Refs
        /\ \E k : secret' = [secret EXCEPT ![task[t].ref] = k]
    BY <1>3, StoreDoes, DeleteSecretDoes DEF Using
  <2>2. task[t].ref # r
    BY <1>0, <2>1 DEF Kinds, OfSystem
  <2> QED
    BY <1>0, <2>1, <2>2
<1>4. ASSUME NEW q \in Refs, Expire(q) PROVE secret'[r] = secret[r]
  BY <1>0, <1>4, ExpireDoes
<1> QED
  BY <1>1, <1>2, <1>3, <1>4, Frames DEF Next, vars, rows

\* Where a client's reference comes from.
LEMMA KnownBefore ==
  ASSUME Typed, Kinds, Owned, [Next]_vars, NEW p \in Providers, NEW r \in Refs, Knows(p, r)'
  PROVE  \/ Knows(p, r)
         \/ \E t \in Threads, id \in ClientIds :
              PutClientSecret(t, id) /\ task[t].provider = p /\ secret[r] = Null
<1>1. CASE client'[p] # Null /\ client'[p].ref = r
  <2>1. ASSUME NEW t \in Threads, SaveProvider(t) PROVE Knows(p, r)
    BY <1>1, <2>1, SaveProviderDoes DEF Knows, Configuring
  <2>2. client' = client \/ \E t \in Threads : SaveProvider(t)
    BY Frames DEF Next, vars, rows
  <2> QED
    BY <1>1, <2>1, <2>2 DEF Knows
<1>2. ASSUME NEW u \in Threads, task'[u].step \in Configuring, task'[u].provider = p, task'[u].ref = r
      PROVE  \/ Knows(p, r)
             \/ \E id \in ClientIds : PutClientSecret(u, id) /\ task[u].provider = p /\ secret[r] = Null
  <2>1. CASE task'[u] = task[u]
    BY <1>2, <2>1 DEF Knows
  <2>2. ASSUME NEW q \in Providers, ReadProvider(u, q) PROVE Knows(p, r)
    BY <1>2, <2>2, ReadProviderDoes, OAuthAssumption DEF Is, Knows
  <2>3. ASSUME NEW id \in ClientIds, PutClientSecret(u, id)
        PROVE  task[u].provider = p /\ (Knows(p, r) \/ secret[r] = Null)
    <3>1. PICK q \in Refs : /\ task[u].step = "put_client" /\ (q = task[u].ref \/ (task[u].ref = Null /\ secret[q] = Null))
                            /\ Is(task'[u], "save", Null, task[u].provider, Null, q)
      BY <2>3, PutClientSecretDoes
    <3> QED
      BY <1>2, <3>1 DEF Is, Knows, Configuring
  <2> QED
    BY <1>2, <2>1, <2>2, <2>3, ComesTo DEF Configuring
<1> QED
  BY <1>1, <1>2 DEF Knows

LEMMA KnownTaken ==
  ASSUME Typed, Kinds, Owned, NEW p \in Providers, NEW r \in Refs, Knows(p, r)
  PROVE  secret[r] \in ClientSecrets /\ secret[r] # Null
BY OAuthAssumption DEF Knows, Kinds, OfClient

\* Who configures a provider did so before, or begins to.
LEMMA ConfiguresBefore ==
  ASSUME Typed, Kinds, Owned, [Next]_vars, NEW u \in Threads, task'[u].step \in Configuring
  PROVE  \/ task[u].step \in Configuring /\ task'[u].provider = task[u].provider
         \/ ReadProvider(u, task'[u].provider) /\ task'[u].provider \in Providers
<1>1. ASSUME NEW id \in ClientIds, PutClientSecret(u, id)
      PROVE  task[u].step \in Configuring /\ task'[u].provider = task[u].provider
  BY <1>1, PutClientSecretDoes DEF Is, Configuring
<1>2. ASSUME NEW p \in Providers, ReadProvider(u, p) PROVE task'[u].provider = p
  BY <1>2, ReadProviderDoes DEF Is
<1> QED
  BY <1>1, <1>2, ComesTo DEF Configuring

LEMMA ConfiguredStep ==
  ASSUME Typed, Typed', Kinds, Owned, Configured, [Next]_vars
  PROVE  Configured'
<1>0. disturbed \subseteq disturbed'
  BY DisturbedGrows
<1>1. ASSUME NEW p \in Providers, NEW q \in Providers, NEW r \in Refs, Knows(p, r)', Knows(q, r)' PROVE p = q
  <2>1. CASE Knows(p, r) /\ Knows(q, r)
    BY <2>1 DEF Configured
  <2>2. CASE secret[r] = Null
    <3>1. PICK t \in Threads, id \in ClientIds : PutClientSecret(t, id) /\ task[t].provider = p
      BY <1>1, <2>2, KnownBefore, KnownTaken
    <3>2. PICK u \in Threads, id2 \in ClientIds : PutClientSecret(u, id2) /\ task[u].provider = q
      BY <1>1, <2>2, KnownBefore, KnownTaken
    <3>3. Others(t) /\ task[u].step = "put_client" /\ task'[u].step = "save"
      BY <3>1, <3>2, PutClientSecretDoes DEF Is
    <3> QED
      BY <3>1, <3>2, <3>3 DEF Others
  <2> QED
    BY <1>1, <2>1, <2>2, KnownBefore
<1>2. ASSUME NEW u \in Threads, NEW v \in Threads, task'[u].step \in Configuring, task'[v].step \in Configuring,
             task'[v].provider = task'[u].provider, task'[u].provider \notin disturbed'
      PROVE  v = u
  <2>1. ASSUME NEW x \in Threads, NEW y \in Threads, x # y, ReadProvider(x, task'[x].provider),
               task'[x].provider \in Providers, task'[y].step \in Configuring, task'[y].provider = task'[x].provider
        PROVE  task'[x].provider \in disturbed'
    <3>1. task'[y] = task[y]
      BY <2>1, ReadProviderDoes DEF Others
    <3> QED
      BY <2>1, <3>1 DEF ReadProvider, Configuring
  <2>2. CASE task[u].step \in Configuring /\ task'[u].provider = task[u].provider
    <3>1. CASE task[v].step \in Configuring /\ task'[v].provider = task[v].provider
      BY <1>0, <1>2, <2>2, <3>1 DEF Configured
    <3> QED
      BY <1>2, <2>1, <3>1, ConfiguresBefore
  <2> QED
    BY <1>2, <2>1, <2>2, ConfiguresBefore
<1>3. ASSUME NEW u \in Threads, task'[u].step = "save", task'[u].provider \notin disturbed'
      PROVE  secret'[task'[u].ref] = [client |-> task'[u].tokens]
  <2>1. CASE task'[u] = task[u]
    <3>1. /\ task[u].step \in Configuring /\ task[u].provider \in Providers /\ task[u].ref \in Refs
          /\ task[u].provider \notin disturbed
          /\ secret[task[u].ref] = [client |-> task[u].tokens] /\ Knows(task[u].provider, task[u].ref)
      BY <1>0, <1>3, <2>1, TaskType DEF Configured, At, Configuring, Shaped, Knows
    <3>2. ASSUME NEW t \in Threads, NEW id \in ClientIds, PutClientSecret(t, id), task[t].ref = task[u].ref PROVE FALSE
      <4>1. /\ task[t].step = "put_client" /\ task[t].provider \in Providers
            /\ task[t].step \in Configuring /\ Knows(task[t].provider, task[u].ref)
        BY <3>2, PutClientSecretDoes, TaskType DEF Shaped, Configuring, Knows
      <4> QED
        BY <1>3, <2>1, <3>1, <4>1 DEF Configured
    <3>3. secret[task[u].ref] \in ClientSecrets
      BY <3>1, KnownTaken
    <3>4. secret'[task[u].ref] = secret[task[u].ref]
      BY <3>1, <3>2, <3>3, ClientSecretWritten
    <3> QED
      BY <2>1, <3>1, <3>4
  <2>2. ASSUME NEW id \in ClientIds, PutClientSecret(u, id) PROVE secret'[task'[u].ref] = [client |-> task'[u].tokens]
    <3>1. PICK r \in Refs : /\ secret' = [secret EXCEPT ![r] = [client |-> id]]
                            /\ task'[u].ref = r /\ task'[u].tokens = id
      BY <2>2, PutClientSecretDoes DEF Is
    <3>2. secret'[r] = [client |-> id]
      BY <3>1 DEF Typed
    <3> QED
      BY <3>1, <3>2
  <2> QED
    BY <1>3, <2>1, <2>2, ComesTo
<1>4. ASSUME NEW p \in Providers, client'[p] # Null, p \notin disturbed'
      PROVE  \/ \E t \in Threads : task'[t].step = "save" /\ task'[t].provider = p
             \/ secret'[client'[p].ref] = [client |-> client'[p].id]
  <2>1. CASE \E t \in Threads : SaveProvider(t) /\ task[t].provider = p
    <3>1. PICK t \in Threads : SaveProvider(t) /\ task[t].provider = p
      BY <2>1
    <3>2. task[t].step = "save" /\ client'[p].ref = task[t].ref /\ client'[p].id = task[t].tokens /\ secret' = secret
      BY <3>1, SaveProviderDoes, Frames
    <3>3. secret[task[t].ref] = [client |-> task[t].tokens]
      BY <1>0, <1>4, <3>1, <3>2 DEF Configured, Configuring, At
    <3> QED
      BY <3>2, <3>3
  <2>2. CASE ~(\E t \in Threads : SaveProvider(t) /\ task[t].provider = p)
    <3>1. client'[p] = client[p]
      <4>1. ASSUME NEW t \in Threads, SaveProvider(t) PROVE client'[p] = client[p]
        BY <2>2, <4>1, SaveProviderDoes
      <4> QED
        BY <4>1, Frames DEF Next, vars, rows
    <3> DEFINE r == client[p].ref
    <3>2. r \in Refs /\ Knows(p, r)
      BY <1>4, <3>1 DEF Typed, Opt, ClientRows, Knows
    <3>3. CASE \E t \in Threads : At(t, "save") /\ task[t].provider = p
      <4>1. PICK t \in Threads : task[t].step = "save" /\ task[t].provider = p
        BY <3>3 DEF At
      <4>2. ~Store(t) /\ ~DeleteSecret(t) /\ ~ClearRow(t) /\ ~SaveProvider(t)
        BY <2>2, <4>1, StoreDoes, DeleteSecretDoes, ClearRowDoes
      <4>3. task'[t] = task[t]
        BY <1>4, <4>1, <4>2, BusyGoesOn
      <4> QED
        BY <4>1, <4>3
    <3>4. CASE secret[r] = [client |-> client[p].id]
      <4>1. secret[r] \in ClientSecrets
        BY <3>2, KnownTaken
      <4>2. CASE secret'[r] = secret[r]
        BY <3>1, <3>4, <4>2
      <4>3. ASSUME NEW t \in Threads, NEW id \in ClientIds, PutClientSecret(t, id), task[t].ref = r
            PROVE  task'[t].step = "save" /\ task'[t].provider = p
        <5>1. /\ task[t].step = "put_client" /\ task[t].provider \in Providers
              /\ task'[t].step = "save" /\ task'[t].provider = task[t].provider
          BY <4>3, PutClientSecretDoes, TaskType DEF Shaped, Is
        <5>2. Knows(task[t].provider, r)
          BY <4>3, <5>1 DEF Knows, Configuring
        <5> QED
          BY <3>2, <5>1, <5>2 DEF Configured
      <4> QED
        BY <3>2, <4>1, <4>2, <4>3, ClientSecretWritten
    <3> QED
      BY <1>0, <1>4, <3>1, <3>3, <3>4 DEF Configured
  <2> QED
    BY <2>1, <2>2
<1>5. (\A p \in Providers, q \in Providers : \A r \in Refs : Knows(p, r) /\ Knows(q, r) => p = q)'
  BY <1>1
<1>6. (\A t \in Threads : task[t].step \in Configuring /\ task[t].provider \notin disturbed =>
         /\ \A u \in Threads : task[u].step \in Configuring /\ task[u].provider = task[t].provider => u = t
         /\ At(t, "save") => secret[task[t].ref] = [client |-> task[t].tokens])'
  BY <1>2, <1>3 DEF At
<1>7. (\A p \in Providers : client[p] # Null /\ p \notin disturbed =>
         \/ \E t \in Threads : At(t, "save") /\ task[t].provider = p
         \/ secret[client[p].ref] = [client |-> client[p].id])'
  BY <1>4 DEF At
<1> QED
  BY <1>5, <1>6, <1>7 DEF Configured
-----------------------------------------------------------------------------
(* The theorems *)

OAuthInv == /\ Typed /\ Kinds /\ Single /\ Owned
            /\ Alone /\ Cleared /\ OneHolder /\ Accepted /\ Configured

LEMMA InitOAuthInv == Init => OAuthInv
<1> SUFFICES ASSUME Init PROVE OAuthInv
  OBVIOUS
<1>1. Typed
  BY TypedInit
<1>2. /\ \A t \in Threads : task[t].step = "idle" /\ task[t].state = Null /\ task[t].system = Null
      /\ "idle" \notin Using \cup {"insert"} /\ "idle" \notin Configuring /\ "idle" \notin Carrying
  BY DEF Init, Idle, Using, Configuring, Carrying
<1>3. Kinds /\ Single /\ Owned /\ Alone /\ Cleared
  BY <1>2, OAuthAssumption DEF Init, Kinds, OfSystem, OfClient, Single, Unused, Owned, Own, At, Alone, Cleared
<1>4. OneHolder
  BY <1>2, OAuthAssumption DEF Init, OneHolder, Holds, Fresh, At
<1>5. Accepted /\ Configured
  BY <1>2 DEF Init, Accepted, At, Configured, Knows
<1> QED
  BY <1>1, <1>3, <1>4, <1>5 DEF OAuthInv

\* The inductive invariant of signing in, refreshing and revoking.
THEOREM OAuthInvariant == Spec => []OAuthInv
<1>1. OAuthInv /\ [Next]_vars => OAuthInv'
  <2> SUFFICES ASSUME OAuthInv, [Next]_vars PROVE OAuthInv'
    OBVIOUS
  <2>1. Typed /\ Kinds /\ Single /\ Owned /\ Alone /\ Cleared /\ OneHolder /\ Accepted /\ Configured
    BY DEF OAuthInv
  <2>2. Typed'
    BY <2>1, TypedStep
  <2>3. Kinds' /\ Single' /\ Owned' /\ Alone' /\ Cleared'
    BY <2>1, <2>2, KindsStep, SingleStep, OwnedStep, AloneStep, ClearedStep
  <2>4. OneHolder' /\ Accepted' /\ Configured'
    BY <2>1, <2>2, OneHolderStep, AcceptedStep, ConfiguredStep
  <2> QED
    BY <2>2, <2>3, <2>4 DEF OAuthInv
<1> QED
  BY <1>1, InitOAuthInv, PTL DEF Spec

\* One sign-in adds one system at most, of the provider it was started for, however often
\* and wherever its callback arrives: callback() takes the authorization away before it
\* tests it.
THEOREM AuthorizedOnceAlways == Spec => []AuthorizedOnce
<1>1. OAuthInv => AuthorizedOnce
  BY DEF OAuthInv, Single, AuthorizedOnce
<1> QED
  BY <1>1, OAuthInvariant, PTL

\* After a revocation that no other thread disturbed the row refers to nothing and the
\* secret is gone, for good.
THEOREM ForgottenAlways == Spec => []Forgotten
<1>1. OAuthInv => Forgotten
  BY DEF OAuthInv, Forgotten, Cleared, Owned
<1> QED
  BY <1>1, OAuthInvariant, PTL

\* While nobody disturbs it, a system has a refresh token its provider accepts, whichever
\* systems are refreshed or revoked meanwhile, and a client identifier its own secret.
THEOREM CredentialsAlwaysKept == Spec => []CredentialsKept
<1>1. OAuthInv => CredentialsKept
  <2> SUFFICES ASSUME OAuthInv PROVE CredentialsKept
    OBVIOUS
  <2>1. Accepted /\ Configured
    BY DEF OAuthInv
  <2>2. \A s \in Systems : system[s] # Null /\ system[s].ref # Null =>
          LET r == system[s].ref IN
          r \notin disturbed /\ ~Busy(r) => secret[r] # Gone /\ secret[r].refresh \in live
    BY <2>1, OAuthAssumption DEF Accepted, Alive
  <2>3. \A p \in Providers :
          client[p] # Null /\ p \notin disturbed /\ ~(\E t \in Threads : At(t, "save") /\ task[t].provider = p) =>
            secret[client[p].ref] = [client |-> client[p].id]
    BY <2>1 DEF Configured
  <2> QED
    BY <2>2, <2>3 DEF CredentialsKept
<1> QED
  BY <1>1, OAuthInvariant, PTL
=============================================================================
