# Dendritron Integration Foundry: TLA+ models

This directory holds the TLA+ models of the Foundry (`src/src/difoundry`), the
TLC configurations that check them on small instances, and TLAPS proofs about
the core. Paths such as `production/queue.py` are relative to
`src/src/difoundry`; `docs/...` is relative to `src`.

Every model keeps the control of the code (each transaction, guard, early
return, exception and the order they come in) and abstracts the data: a
payload, hash, token or password is a value that can be compared and nothing
else. A step of a model is one database transaction, one read outside a
transaction, one file operation, or a stretch of code that touches nothing
shared. Wherever a method reads, computes and then writes in another
transaction, the model has two steps and everything else may come in between.

## 1. The system

The repository holds two programs around one engine.

**Production platform** (`production/`): API replicas and worker processes over
one SQL database (PostgreSQL, or SQLite for development).

| part | state | operations | what is hard |
|---|---|---|---|
| job queue, `queue.py` | `platform_jobs` rows: status, attempts, `run_after`, lease owner, token, expiry | enqueue, claim, renew, complete, fail | leases that expire under a running job, clock readings older than the statement that uses them, competing claims, two backends |
| worker, `worker.py` | main thread, heartbeat thread, `lease_lost` event | `run_once`, heartbeat, loop, signals | late renewals, join that times out, crash at any point |
| audit ledger, `audit.py` | events, head with version, anchor files | append, verify, list | optimistic retries, crash between commit and anchor, restore of the database without the anchors |
| accounts, `service.py` | users: role, active, hash, token version, failures, lock | login, validate, user administration, password change, revocation | Argon2 between two transactions, read-modify-write of the token version |
| systems, connections, chat, `service.py`, `chat.py` | systems, connections, chat drafts | create, credentials, compose, health, chat message | requests and job handlers of several transactions each that overwrite one another |
| secrets, `security.py` | secret envelopes, key ring | put, resolve, rotate (`delete` has no caller) | rotation against a put |
| rate limiter, `rate_limit.py` | token buckets | consume, sweep | clock read before the row lock |
| API, middleware, settings, database | none of their own | routing, sessions, migration | |

**Foundry Lite** (`lite/`): one desktop process over one SQLite file, a runner
thread beside the threads of the local web server.

| part | state | operations | what is hard |
|---|---|---|---|
| connections, `service.py` | status, enabled, open questions | compose, answer, enable, pause, delete, export | every call reads and writes in two transactions |
| runner, `service.py` | events, trigger state, poll status | poll pass, enqueue, `run_once` | fingerprint committed before the event, crash while an event runs, pause between check and insert |
| OAuth, `oauth.py`, vault, `vault.py`, `key_protection.py` | authorization states, tokens, local key | start, callback, refresh, revoke | refresh against revocation, single use of a state, a provider that replaces refresh tokens |
| discovery, intent, catalog, desktop, API | none shared | | |

**Engine**, used by both, and served to developers by `legacy_api.py`:

| part | state | operations | what is hard |
|---|---|---|---|
| composition, `composition.py`, `semantic.py` | none | resolve objects and operation, relate fields, validate | which of many candidates wins, when to ask instead |
| inheritance, `intelligence.py` | pattern registry, packs | export, pack, import, compose with advice | provenance merged over foundries that import from each other |
| tissue, `tissue.py`, `routing.py` | branches with specialists, enabled or isolated | select, train, record an outcome, isolate | everything between two locked calls |
| plan and certification, `planner.py`, `mapping.py`, `transforms.py`, `certification.py`, `features.py` | none | map, certify | raising where it should fail |
| simulator, `simulator.py`, `ledger.py` | idempotency ledger | process, replay | look-up and insertion are two locked calls |
| quarantine and recovery, `repair.py` (`Phase3Runtime`) | repair ledger | process, recover | replay of a whole event, marks in another call |
| repair of contracts, `repair.py` | candidates, patches | propose, verify, approve, sign, deploy | five endpoints without a lock on shared objects |
| coordination, `nervous.py` | workflows, policy, ledgers of daughters | register, coordinate | a workflow that stops halfway and is sent again |
| schema parsers, `discovery/` | none | | |

**Interactions.** The platform service enqueues `compose_connection` and
`connection_health` jobs; workers claim them and call `execute_job`; services
and workers append to the audit ledger after they have committed; API requests
carry a token that `validate_principal` compares with the user row. In Lite,
webhooks and the poll pass fill `lite_events` and the runner drains it through
the simulator. The nervous system calls daughters, each with a tissue, a
planner and a simulator of its own.

**What makes each part correct.** Queue: one holder at a time, outcomes final,
nothing left behind. Ledger: an unbroken chain, anchors that bind it, no false
alarm. Accounts: no lost failure, no cleared lock, no token that outlives its
revocation. Connections: a status claims no more than the last computation
found, and every connection is composed in the end. Secrets: what is put last is
what is read. Lite: an event runs at most once, a change is queued once, pause
means pause; a sign-in counts once, a revoked system has nothing left. Daughter:
an event is executed once, a broken branch fails in one delivery, a quarantined
event is recovered once. Coordination: a step runs only after its dependencies, within
one policy, at most once per key. Repair: nothing is deployed without
verification, approval and signature of exactly that candidate, and what was
applied can be taken back. Inheritance: nothing is accepted on less consensus
than the documents promise.

## 2. Modules

| module | models | state and actions |
|---|---|---|
| `FencedLease` | what the queue promises, abstractly | jobs are granted with increasing numbers; only the newest grant settles a job |
| `JobQueue` | the rows and the WHERE and SET clauses of `production/queue.py` | `row`, `now`; `Claimable`, `Due`, `Holds`, `Leased`, `Renewed`, `Released`, `FailedRow` are the statements |
| `JobWorker` | `production/worker.py` over `JobQueue` | per worker `pc`, `task`, `readAt`, `cands`, `lost`, `outcome`; per lease token the heartbeat thread `hb` |
| `AuditLedger` | `production/audit.py` | `events`, `head`, `anchors`; append calls, verify calls, crash, restore |
| `Accounts` | the user rows of `production/service.py`, the tokens of `security.py` | `user`, logins in flight, issued tokens, administrative calls |
| `Composition` | `composition.py`, `semantic.py`, `validation.py` | operators: objects and operation chosen, fields related, questions, the composed result |
| `Platform` | systems, connections, secrets and chat of `production/`, the job handlers | `system`, `secret`, `conn`, `chat`, jobs granted as in `FencedLease`; requests and handlers as lists of steps |
| `Inheritance` | `intelligence.py`, over `Composition` | per foundry the registry of patterns and the compositions, packs in circulation |
| `LiteRunner` | systems, connections, queue, poller and runner of `lite/service.py` | one row per connection, the runner's place in its loop, one call per client thread |
| `LiteOAuth` | `lite/oauth.py`, `lite/vault.py` and their callers | authorization states, system rows, secrets, the provider's live tokens, per thread its step |
| `Contract` | `routing.py`'s conditions, `mapping.py`, `transforms.py`, `certification.py`, `features.py` | operators on a payload |
| `Daughter` | `tissue.py`, `routing.py`, `planner.py`, `simulator.py`, `ledger.py`, `Phase3Runtime` | the tissue, two ledgers, per thread the delivery or recovery it is in |
| `Nervous` | `coordinate()` and the policy of `nervous.py`, over ledger and `process()` | the workflow, the daughters registered, the policy, each call's request, what became of each step |
| `Repair` | the candidates of `repair.py` and the endpoints of `legacy_api.py` | the registered contract, profiles and tissue, the candidates, and what each client's call has read |
| `Patches` | classification of drift, proposed patches, their policy, application and inverses, in `repair.py` | operators on documents |
| `JobWorker_proofs`, `LiteRunner_proofs`, `LiteOAuth_proofs`, `Daughter_proofs`, `Nervous_proofs`, `Repair_proofs` | theorems about the module of that name; `Repair_proofs` also about `Patches` | |
| `Production_proofs` | theorems about `AuditLedger` and `Accounts` | |
| `Composers_proofs` | theorems about `Composition`, `Platform` and `Inheritance` | |

`MC...` modules extend these and only give constants their values; `MCDaughter`
takes Daughter's constants from `Contract`, so that what is mappable, certified
and alike is what the contract makes of two payloads. `Platform` and
`Inheritance` both extend `Composition`; `MCRepair` joins `Repair` and `Patches`.
Where two modules are proved about in one, the second gives its initial states, steps
and specification names of their own (`AccountsSpec`, `InheritanceSpec`).

Correspondence in detail:

* **JobWorker.** `queue.py` reads the clock before it enters a transaction
  (lines 57, 133, 150, 180). A queue call is therefore a step that stores the
  reading in `readAt` (`Poll`, `HeartbeatCall`, `Join`) and a step that runs the
  statement with it (`ClaimPostgres`, `ListCandidates`/`TryCandidate`,
  `HeartbeatRenew`, `Complete`, `FailRead`/`FailWrite`). `fail()` is two
  statements because its SELECT takes no row lock. PostgreSQL's
  `FOR UPDATE SKIP LOCKED` may pass over rows that another statement in flight
  has locked (`InFlight`). A lease token is a fresh value, drawn from a finite
  set and used again only when no row, worker or thread holds it. A failing
  database call in the main thread ends the process (`Crash`); in the heartbeat
  it sets `lease_lost` (`HeartbeatError`).
* **AuditLedger.** A hash is the sequence of audit ids it commits to. Commit is
  one step (head and event in a transaction); the compare-and-swap stands for
  both the UPDATE and the INSERT of a first head. The UNIQUE constraint on the
  sequence is left out on purpose: the chain must stay whole by the
  compare-and-swap alone. An anchor file is created, then written (`whole`).
  verify() is three reads.
* **Accounts.** `ReadUser` is everything up to and including Argon2;
  `RecordFailure` and `Settle` are the two transactions that may follow;
  `Issue` signs the token after the commit. `update_user`, `change_password` and
  `revoke_tokens` are `ReadOp` and `WriteOp`. A token is its claims.
* **Platform.** A request of the API is a list of steps, one per transaction, and
  so is a job handler; everything else may come between two steps. Jobs are those
  of `FencedLease`: a job may be granted again while the handler of an earlier
  grant runs, and only the newest grant settles it. `rotate_tenant` is a list of
  secrets and then a resolve and a put for each. What a composition yields is
  `Compose` of `Composition` on the profiles the handler read.
* **Composition.** Scores are integers (parts in hundredths, totals in
  ten-thousandths) so that the code's weights and thresholds are exact;
  `lexical_similarity` is a constant. The order of the code's sorts and the ties
  they leave are kept, since they decide which field gets which source.
* **Inheritance.** A foundry is a process of the research API with its registry and its
  compositions; `List` chooses the advice, `Relate` relates all targets with it and
  stores the composition, `Add` adds one pattern of an export or a pack. `compose()`
  asks for the eligible patterns anew for each target and reads their confidence and
  origins after that (`intelligence.py:508`, `532`, `568`); the model lists once and
  reads in one step. Between these reads a registry only gains patterns, origins and
  confidence, so a pattern once listed stays eligible. `Export`, `Pack`, `Import` and
  `RestartFoundry` move provenance about; a pack may be imported anywhere, never, or
  often.
* **LiteRunner.** `Call` is the read a console or webhook call begins with;
  `SetEnabled`, `Answer`, `Delete`, `Hook` are its transaction. The runner walks
  `wait`, `pass`, `fetched`, `records`, `check`, `insert`, `drain`, `claimed`,
  `executing`, `ran`. A source is passed over (`Skip`), or read by its adapter (`Fetch`)
  and then compared with the poll status as it is by then (`ReadStatus`). `Start` looks
  at the connection and looks up profiles and credentials; what is missing raises, and
  the event is failed. The simulator's call is one step that may or may not reach a target:
  it returns instead of raising. Error counts, previews and activity entries
  are left out.
* **LiteOAuth.** A thread is between two steps whenever it has called the
  provider or committed a transaction. `Remaining` takes the state out of the
  table before the code is exchanged; `Refresh` is the provider's answer, `Store`
  what the vault makes of it; revocation is the provider, the secret, the row.
* **Daughter.** The tissue and each ledger have a lock, so a locked call is a
  step and a delivery is many: the key is looked up (`Deliver`) and inserted
  (`Record`), the plan made of every action of each route that has an owner (`Plan`),
  and each action in turn certified and executed (`Block`, `Simulate`, `Execute`) and
  its outcome recorded (`Outcome`), whatever became of the actions before. Only when
  the whole delivery is done (`Conclude`) is what failed quarantined and its branch
  isolated, action by action, and only what failed with an error text: the targets of
  `Silent` actions may also raise without one. `Minimum` is a branch's
  `minimum_activation`, which the tissue's selection (`Owns`) and the declared router
  (`Declares`) test differently. `Recover` reads the rows it will replay, in the order
  of the table; `Mark` is a call of its own. Training applies a
  list of examples under one lock and keeps those before the one that raises.
* **Contract and Patches** are pure. A payload is a function from fields to
  values, a document a tree of objects, lists and leaves; `Numerals` are the texts of
  the positions 0, 1, 2 and so on. Where the code raises, the operators yield a value
  that says so. What drifts is proposed for in `MCRepair` includes an action that is in
  no route (`gone`), on which `propose()` raises.
* **Nervous.** `coordinate()`, `register_workflow()` and the registration of
  daughters hold the system's lock, so one call runs at a time (`cur`);
  `set_nervous_policy` in `legacy_api.py` replaces the policy without it, which is
  why deciding a step takes two steps, `Evaluate` (the policy's answer) and
  `Decide` (the approval is looked up under the id of the policy then in force).
  `Raise` leaves the effects of earlier steps in place and records nothing, as in
  the code. The daughter's process() is one step here, with arbitrary answers,
  also a failure after the action took effect; `Daughter` has its inside.
* **Repair.** The endpoints are plain functions, so the web server runs them in threads,
  and the candidates are shared objects that no lock guards. Each test of an endpoint
  and each group of consecutive writes is a step: `verify()` is `VerifyRead` and
  `VerifyWrite`, `approve()` `ApproveCheck` and `ApproveWrite`, `sign()` `SignCheck`,
  `SignHash` and `SignWrite`, `deploy()` `DeployRead`, the tests `CheckSignature`,
  `CheckStatus` and `CheckReport`, `DeployApply` (or `DeployFail`: the patches do not
  fit, the result is invalid, the bundle cannot be written) and `DeployDone`, after
  which the endpoint registers the contract, the profiles and the tissue one by one. The
  form of an artifact is the sequence of candidates patched into it, a signature the
  report and approval it was computed from, the verdict of a verification arbitrary.

## 3. Runs

| run | question | bounds |
|---|---|---|
| `jobs_postgres` | is every lease fenced, every outcome final, back-off respected, and does the queue implement `FencedLease`? | 1 job, 2 workers with their own ids, 3 tokens, leases of 1, 2 attempts, clock to 4, 1 crash |
| `jobs_sqlite` | the same workers with one shared worker id over the candidate list: are leases respected, does only the holder commit, and are due and stranded jobs started in the end? | as above, clock to 3 |
| `audit` | chain, anchors, retries, verification | 3 appends, 1 verify, 1 crash, 1 restore |
| `accounts` | lockout, password and revocation under races | 1 user, 2 passwords, 2 roles, 2 clients, 2 administrative calls, threshold 2, tokens of 2, clock to 3 |
| `platform` | does a status say what is so, do credentials survive a rotation, is a chat message's answer kept, is every connection composed in the end? | 5 systems, 7 pairs of request lists, 2 API threads in 2 processes, 2 workers, 2 connections, 2 jobs of 2 grants, 2 keys |
| `platform_review_gate` | does a composition with open questions stay gated? (no) | the same |
| `inheritance` | is a mapping inherited, or accepted unseen, on less consensus than promised, and is a question dropped for less? | 2 foundries, 3 threads, 3 origins, 2 scopes, 4 exports, 1 pack, 1 restart |
| `lite_oauth` | does a sign-in count once, is a revoked system's secret gone, does a system keep credentials that work? | 2 systems, 2 providers (one replaces refresh tokens, the other can revoke), 3 secrets, 1 state, 2 threads, 3 tokens, 1 crash |
| `daughter` | is an event executed once, a broken branch stopped after one delivery, a quarantined event recovered once? | 2 threads, 2 events, 2 routes (one of 2 actions), 3 branches, 2 training sets, 3 requests, 1 training, enabling or crash |
| `lite_runner` | deliveries, changes, pause, service of the queue | 1 system, 1 connection, 1 record with 2 changes, 2 webhook events, 1 client, 1 crash |
| `nervous` | causal order, policy and at-most-once effects, through repetition, half-finished calls, late registration and policy changes | 3 steps over 2 daughters, 5 offers, 4 graphs (chain, fork, join, cycle), 3 policies, 1 change of policy, 2 calls of 5 possible requests |
| `repair` | is anything deployed past the gates, more often than it was signed, or half-registered, however the calls overlap; and do rollback patches restore the artifacts? | 2 candidates, 2 clients, 3 verifications, 2 approvals, 2 signings, 2 deployments; 96 structured drifts and all lists of up to 2 of 35 explicit patches, on a contract and two profiles |

**Why these bounds are enough to be interesting.** One job suffices for the
fence, since a statement touches one row; two workers and three tokens allow a
claim, a takeover and a zombie heartbeat of the first claim at once, and a clock
of 3 or 4 with leases of 1 lets a lease expire, be taken over and expire again.
Three appends give every pair a conflict while a third moves the head, and the
restore after a committed and anchored event makes a sequence number repeat. Two
logins and two administrative calls are what every race in `service.py` needs; a
threshold of 2 has one failure below and one at it. In `platform` each pair of
request lists is aimed at one pair of operations that share a row (two credential
changes and a rotation, two chat messages, a composition and a health check), and
two grants let a job be taken over while its first handler runs; the systems
include one without discovery, one without an operation to write with, a pair
that leaves a question and pairs that do not. In `inheritance` three origins are
the smallest number that can accept, two that can advise, and one of the
foundries has two threads so that a pattern may change between its choice and
its use. In `lite_oauth` the refresh of one thread meets the revocation of the
other, with a provider of either kind. In `daughter` one route has two branches,
so that isolation and training move its owner, and two actions, so that one delivery
may fail twice on a branch, once of them without an error text; one of the branches has
no minimum and is in the running without its conditions; and the payloads make some
actions certified, one blocked and one plan void; three requests are two deliveries and a
recovery, or a delivery and two recoveries that overlap. In `lite_runner` one
client thread is enough because the runner is the second actor; every event can
be polled or sent by a webhook and be overtaken by a pause, a deletion or the end
of the process. With one connection the run does not show how a failing source
starves the connections after it. Two calls of `coordinate()` are the
half-finished one and its repetition, under the same or another event id, key
and policy; three steps have a chain longer than the smallest hop limit, a step
with two dependencies and one with two dependents; and one step each is a dry
run, needs an input, and asks for a capability its daughter lacks. In `repair`
three verifications let one candidate pass, be approved and then fail, or pass
under a second report, while the other goes through the gates as well; two
deployments can race for one signature, follow one another on two candidates, or
repeat the same one after it was signed again. Two patches are the least that
disturb each other's places.

**Exemptions.** Some properties hold only where nothing overlapped, and say so
with a ghost variable that records the overlap: `StatusHonest` (two handlers of
one connection), `CredentialsIntact` (a put between a rotation's read and its
write), `DraftKept` (two messages of one session), `RevocationEffective`,
`Settled`, `Forgotten`, `CredentialsKept`, `RecoveredOnce`. In each case the
exempted interleaving is in the model and breaks the property without the
exemption; section 4 lists them.

**Fairness.** `jobs_sqlite` assumes weak fairness of each worker's next step and of a
heartbeat call that is under way: the loop of `worker.py:138` runs, jobs return, the
database answers, and a supervisor restarts a process that ended. The clock need not
advance; heartbeats, enqueues and crashes need not happen. `platform` assumes weak
fairness of each API thread's and each worker's next step, as threads and processes that
run have it, and of no failure. `lite_runner` assumes weak fairness of the runner
thread, which `start_runner` starts with the process. `stop_runner` ends it, and so does
a database error outside the loop's `try` (`lite/service.py:873`, where the note of a
failed pass is written, and `875`, the queue); the run assumes neither. The other runs
assume none: only safety is asked of requests that need not come. `CHECK_DEADLOCK` is
off everywhere: with the bounded clock and the finite sets of calls the models do come
to an end.

## 4. Where code and documents disagree, and what is exempted

Shown by a run:

* `production/chat.py:56`: "The connection will remain review-gated if any
  business meaning is ambiguous." A health check computes the status from the two
  systems alone and writes it over `review_required` (`production/service.py:538`):
  the connection is then `healthy` (`platform_review_gate`).

Met while modelling; each is a behaviour of the models above:

* `docs/PHASE3.md:126`, of the verification report and the approval: "Changing any of
  those invalidates the signature." It does, when the signature is looked at next.
  `deploy()` tests signature, status and report one after the other on a shared object
  (`repair.py:929-934`), and `sign()` tests the report before it hashes it. A failed
  verification that lands inside `sign()`, followed by a passing one that lands after
  `deploy()` has tested signature and status, deploys under a signature that binds the
  failed report. `Gated` states what does hold: the signature was valid when it was
  tested, its approval was given upon a passing report, and the report of the last test
  passed.
* `docs/OPERATIONS.md:81`: "An expired or stolen lease cannot commit". A stolen
  one cannot (`OutcomeByHolder`, proved). An expired one can, when it expired
  between the clock reading (`queue.py:150`, `180`) and the statement and nobody
  has claimed the job.
* `docs/OPERATIONS.md:103`: a restore "with missing or older audit anchors must
  fail audit verification". Older and missing *latest* anchors do; an anchor
  missing below the latest, as a crash after the commit leaves it, does not
  (`audit.py:305`).
* `docs/PHASE6_1_ADVERSARIAL_HARDENING.md:39`: revocations "invalidate tokens
  immediately". Of two overlapping ones the second may not: both write the same
  version (`production/service.py:303`). `RevocationEffective` exempts them.
* `docs/FOUNDRY_LITE_BOUNDARIES.md:26`: "Pause, enable". After a pause,
  `set_enabled(True)` refuses because the status is `paused`, not `ready`
  (`lite/service.py:560`).
* `docs/PHASE3.md:133`: deployment "Reapplies patches from the approved base
  artifacts". `deploy()` applies them to the artifacts registered now
  (`legacy_api.py:402`, `repair.py:935`) and compares neither their version nor
  their content with what was verified. Of two deployments that overlap, the
  later registration drops the patches of the earlier one or leaves contract,
  profiles and tissue from different deployments; `Settled` exempts them.
* `docs/PHASE3.md:48`, rollback patches: an `add` over a key that exists, or past the
  end of a list, is not undone by them; `RollbackRestores` excepts these two cases,
  which only an explicit patch meets (proved, section 5). A permission error that also
  says "required" is classified as a change of schema, so the permission patch is not
  proposed.
* `docs/PHASE2.md:26`: only what failed is quarantined; a route on which no
  branch wins is not, and the event counts as handled. An action that is blocked
  by certification is quarantined and its branch isolated like one that failed.
* `docs/PHASE4.md:106`, three origins for automatic acceptance: the count takes
  in origins that did not share (`intelligence.py:588`); `ConsensusBeforeAcceptance`
  states what holds. An inherited edge that is not good enough to be accepted may
  replace the baseline's, and the composition is then held back without a
  question anyone could answer (`ReviewKept`).
* `docs/FOUNDRY_LITE.md:74`, "later emits changes", holds except for a change
  whose fingerprint is committed just before the process ends or the connection
  is paused (`ChangesEmitted`).
* Lite, OAuth: a crash between the secret's deletion and the update of the row
  leaves a reference to nothing; a refresh in flight stores its tokens after the
  secret was deleted; once the provider no longer knows the token, revoking the
  system locally fails too.
* Lite, service: `answer_questions` (`service.py:505`) writes a status computed
  from the questions it read in an earlier transaction; an event whose targets
  all failed is recorded as succeeded, because the simulator returns a failed
  result and does not raise (`service.py:673`).
* Daughter: `recover()` replays the whole event under a fresh key, so that actions that
  had succeeded run again; it marks a row recovered when any route of the event
  succeeded, though the row's own route abstained; failures during a recovery isolate
  nothing; a failed action whose exception has no text is neither quarantined nor
  isolates its branch (`repair.py:245`); the isolation comes after the whole delivery,
  whose later actions on a branch that has failed are still executed, so that
  `IsolationHolds` bounds the failures to one delivery, not to one action; a dry run
  consumes the event's key; a plan voided by a mapping that raises is quarantined
  without an owner; the certifier of an expression makes all its comparisons, so that
  `eq` of a string and a number voids the plan; a training set that raises keeps the
  examples before it.
* Routers: `routing.py:49` tests the minimum of the first branch alone and takes an
  activation of 0, `tissue.py:410` and `438` test every branch's and want more than 0.
  For a `minimum_activation` outside (0, 1], which `models.py:137` does not forbid, a
  planner with an untrained tissue may choose other branches than one without;
  `UntrainedAsDeclared` says where they agree.
* Platform: the systems' `credential_kind` (`production/service.py:365`) is not kept,
  since nothing modelled reads it where a credential reference is set.

## 5. Proofs

The theorems hold for every value of the constants; their only assumptions are the named
ones in the modules (`QueueAssumption`, `WorkerAssumption`, `AuditAssumption`,
`AccountsAssumption`, `LiteAssumption`, `DaughterAssumption`, `NervousAssumption`,
`RepairAssumption`, `OAuthAssumption`, `CompositionAssumption`, `PlatformAssumption`,
`InheritanceAssumption`, `PatchesAssumption`, and what `RollbackAlwaysRestores` says of
documents: the bounds are numbers, the sets of jobs, workers, calls and origins are
finite, retries and leases are positive, no branch belongs to two routes, as the
contract's validation demands, an object or a schema names a field once, as
`ObjectProfile.unique_fields` does, identifiers of systems and connections differ, as
`new_id` makes them by their prefixes, two list positions have different texts, neither
of them `-`, and "no value" is no row, secret or identifier). Each rests on an inductive
invariant, checked by TLC first and kept by every action.

**`JobWorker_proofs`** (any jobs, workers, lease tokens and worker ids, shared
ones included, both backends). `FencingInv` contains what the code relies on
without saying so:

| conjunct | why it is needed |
|---|---|
| `Working`, `AttemptsAgree` | a process in a job holds a task; while the row carries its token, the row's attempts are the task's, which is what makes the decision in `fail()` on an earlier read safe |
| `LeaseColumns` | token, owner and expiry are set exactly while a row is running |
| `DistinctTokens`, `TokenFencing` | a token is held by one process and one row at most, heartbeats left behind included; this is the fence |
| `Decided`, `RetryBudget` | the outcome `fail()` has chosen still fits the row when it writes it |
| `ReadInPast` | a clock reading is never ahead of the clock |

From it follow `TypeOK`, `TokenFencing` and `RetryBudget` in every state, and as
properties of every step `OutcomeFinal` (no step touches a job that has
succeeded or died), `LeaseRespected` (a running job changes hands only after its
lease) and `OutcomeByHolder` (only the holder of the current lease ends a run).
The step properties use one lemma, `RowStep`, that says which actions write a row.
The same invariant carries the refinement, `Spec => FencedSpec`: under the mapping
of section 3 every action grants a lease, drops it, settles it, or changes nothing
the abstract queue sees; `TokenFencing` and `DistinctTokens` are what make the
settling process the abstract holder. `BackoffRespected` is proved for the
PostgreSQL backend, the only one that promises it.

**`Production_proofs`, the ledger** (any number of appends, verifications, retries,
crashes and restores). `LedgerInv`:

| conjunct | why it is needed |
|---|---|
| `Numbered`, `Linked` | sequences are 1..version once each, each event names the one before it, the head the last; with a bijection from 1..version to the events this gives the count that `verify()` compares |
| `SeenInPast` | a head with the version a transaction read is the head it read: what the compare-and-swap on the version alone relies on |
| `CommitsKept`, `OneAnchorEach`, `OwnAnchor` | a call that anchors has its event in the table, a sequence has one file, and the file being written is the writer's |
| `TriesLeft`, `Paid` | tries lost, plus what the head has moved since the read, are at most the number of calls that got past their transaction |
| `Anchored` | a call that has returned has its anchor file, its own or the one a faster call wrote |
| `Undisturbed` | while nothing has disturbed a verification, what it has read is what there is, and the call that wrote the head has returned |

From these (the last two stand on the others) follow `ChainIntact`,
`AnchoredOnlyCommitted`, `RetryMeansProgress`, `AnchorsImmutable` and
`NoFalseAlarm`. The proof of the chain does not use the UNIQUE constraint on the
sequence, so the constraint is a second line of defence.

**`Production_proofs`, the accounts** (any users, logins and administrative calls,
any threshold and lifetimes).

| invariant | why it is inductive |
|---|---|
| `LockoutInv` | a row without a lock counts what was recorded, one with a lock stands at the threshold; `fail` and `success` recompute the row under the lock of its transaction, so a stale reading of the caller decides nothing |
| `TokenInv` (`Faithful`) | no claims are ahead of the row's version, and claims of the present version agree with the row in role, password and activity; a call that revokes writes the version after the one it read, which is the present one while calls do not overlap |

From them follow `ThresholdLocks`, `LiveLockKept`, `TokensOfCurrentPassword` and
`RevocationEffective`.

**`LiteRunner_proofs`** (any connections, records, events, client threads and
restarts).

| invariant | why it is inductive |
|---|---|
| `Numbered`, `OnceInv` | numbers are given once; an event not yet made, queued, or in the runner's hands was not delivered, and the one in its hands is queued no more, so a restart cannot offer it again |
| `OvershootInv` | nothing has overrun a connection that is on, nor the one whose switch the runner has just looked at: the gap between that look and the delivery holds one delivery |
| `EmittedInv` | the record the runner is about to queue is the only one whose fingerprint may be ahead of the events, the changes dropped on the way (`lapsed`) excepted |

From them follow `DeliveredAtMostOnce`, `PauseOvershoot` and `ChangesEmitted`.

**`LiteOAuth_proofs`** (any identifiers, providers, threads, tokens and crashes).
`OAuthInv`:

| conjunct | why it is needed |
|---|---|
| `Single` | a state in a thread's hands is pending no more, not used yet and in no other hands, so the second callback finds nothing |
| `Kinds`, `Owned`, `Configured` | a reference belongs to one system or one provider, for good, and what it names stays of its kind; `Own` is the reference a system was added with, which its row forgets on revocation but a thread may still hold |
| `OneHolder` | a refresh token is known under one reference, in the vault or in a thread's hands: no refresh and no revocation of one system can void another's token |
| `Alone`, `Cleared` | without a disturbance one thread has a system's reference in hand, and while it has, the row still refers to it; what that thread deletes stays deleted |
| `Accepted` | a token on its way to the vault is accepted by the provider, and so is the one in the vault unless its reference is being written |

From it follow `AuthorizedOnce`, `Forgotten` and `CredentialsKept`.

**`Nervous_proofs`** (any steps, daughters, workflows, policies, requests and
calls). `RunInv`:

| conjunct | why it is needed |
|---|---|
| `Rounds` | nothing a step of the round depends on is still left, and a step that is left is untouched |
| `Decided` | from the evaluation to the dispatch a decision is about the first step of the round and the policy it was taken from, although another policy may be installed meanwhile |
| `Past` | what was done with the steps passed; a step's hops are at least the length of every chain that ends at it, the only place where a whole chain matters |
| `Gates` | the gates a step went through, in terms of the policy it was put to; uses that the rules that match have one that no other outranks (`WinnerExists`) |
| `Ledgers` | whatever a daughter did under a key is on her ledger, and the root event of the call in progress is not recorded yet |

From it follow `Causal`, `PolicyGated` and, for steps, `AtMostOnce`.

**`Repair_proofs`** (any candidates, clients and limits). `GateInv` follows the
evidence through calls that hold no lock:

| conjunct | why it is needed |
|---|---|
| `Working` | a call in progress has a candidate and a contract it read |
| `Approving`, `Approved` | an approval is begun upon a passing report and keeps that report, although a failed verification may be written before the approval is |
| `Signing`, `Sealed`, `Signed` | `sign()` saw an approval, an approval is replaced but never taken away, so what a signature binds was approved; which report it binds is open, since a failed verification may land between the test in `sign()` and the hash |
| `Checked`, `Ready`, `Recorded` | what the tests of `deploy()` leave behind: the signature was valid at the first, the report passed at the third; that the two looked at the same report is not so (section 4) |

From it follow `TypeOK` and `Gated`. Two more strengthenings stand on it:

| invariant | why it is inductive |
|---|---|
| `Assembled`, `BoughtInv` | in every form, registered, read or built, a candidate occurs at most as often as it was signed, and once less while its status is `signed`: a deployment checks that status before it adds the candidate's patches, and signatures are counted up only |
| `Agreed`, `Lone` | while no two deployments have overlapped, one runs at most, what it has read is what is registered until it registers the contract, and the artifacts agree except while it registers them |

From them follow `OncePerSignature` and `Settled`.

**`Repair_proofs`, rollbacks.** `RollbackAlwaysRestores`: for any documents and any
drifts on them a deployed repair's rollback restores the documents. It assumes of the
constants that a document is in a set of trees closed under objects and lists, with a
null; that every list position has its text, no two the same (`Numerals`, finite in the
run); that a drift names a contract and profiles, whose names are not `contract`, that the
contract's permissions are an object, as its Python class has it, and that explicit
patches are made of such parts. They may be any such patches on any paths, in any
number, except one that adds blindly (section 4).

| lemma | what it says |
|---|---|
| `Inductive` | a set of numbers that holds 0 and every successor holds all of them: induction without an operator as parameter |
| `ReadRules`, `PutRules`, `ApplyRules`, `UndoneRules` | what the recursive functions under `LET` compute, one key or one patch at a time: that the function exists is proved by induction, then it is unfolded |
| `OnObject`, `OnList` | what a patch does at one key of an object or one place of a list its inverse takes back: an element appended is removed where it ended up, one removed is put in again at its place |
| `Unapplied` | so does the inverse at the end of any path, written from the documents as they are before the patch, tests included, which change nothing and have no inverse |
| `AllUnapplied` | each inverse goes in front, so the list of inverses takes back the list of patches, by induction on how many are applied |
| `GeneratedIsSighted` | the patches `propose()` makes itself are sighted: a grant is added only where there is none, what else is added is added at a list's end |

**`Daughter_proofs`** (any threads, events and branches, any similarity of
patterns, any training). What is proved uses nothing of how specialists score:
only that a branch that is selected belongs to its route and is enabled.

| invariant | why it is inductive |
|---|---|
| `Once` (`Keyed`, `Apart`, `Fresh`, `Awaited`) | whoever gets past the insertion of an event's key is alone with it, since the key stays; before that nothing was called, and until a route is executed nothing was called for it |
| `Isolation` (`Answered`, `Spared`) | a failure on a branch is answered by its isolation or still owed to it by the delivery that met it; what that delivery has yet to execute on the branch is its own, and the thread plans nothing else before it has paid |
| `Backed`, `Repaired` | a replay about to be marked has a route that was executed and did not fail, so some target answered |
| `Orderly` (`OneRecovery`, `Ahead`, `Replayed`) | while recoveries do not overlap, the one that runs works through rows that wait, and a row replayed with success is the one it is about to mark |

From them follow `ExecutedOnce`, `IsolationHolds` and `RecoveredOnce`. The theorem
`UntrainedAsDeclared` relates the two routers of the code: a tissue that has
learned and isolated nothing selects the owner the declared router does, if the
branches' minimum activations lie in (0, 1], and whatever they are if the conditions
of the declared branch hold.

**`Composers_proofs`, the platform** (any systems, credentials, keys, processes,
clients, workers, connections, jobs and request lists, whatever discovery yields).
A call or a handler holds what it read in an earlier transaction while others
write; `PlatformInv` says how much of that still holds.

| conjunct | why it is needed |
|---|---|
| `Shape` (`Typed`, `InCall`, `InJob`) | a call is at a step of its request and holds what that step needs; a job that was submitted is about a connection that exists, and a handler's row has that connection's ends, which no step moves |
| `Sealed`, `Latest` | a reference, in a row or in a call's hands, names an envelope sealed for that system; a rotation that has decrypted one holds its value unless a put came between |
| `Named` (`Unborn`, `Found`, `Linked`) | a system is being created by one call at most and a system that was found stays, so a connection's systems exist whenever its handler looks at them |
| `Alone` | of the handlers of a connection that never overlapped one is between its read and its write, and it holds the row as it is |
| `Inspected` | a health check that found no issue found credentials, and credentials once there stay |
| `OwnContract` | a contract is the one the connection's own systems compose to |
| `OneMessage`, `Drafting` | while messages do not overlap one is under way, which holds the draft as it is, or has added to it |

From it follow `CredentialsIntact`, `StatusHonest` and `DraftKept`. The step
property `NothingTakenBack` (no row, reference or connection's end is ever taken
back) is what the first four conjuncts lean on. `DraftKept` needs that the
systems a message adds are picked out of what it attaches in order
(`NthPlace`, `PickedList`).

**`Composers_proofs`, the matcher and inheritance** (any foundries, threads,
profiles, similarities, origins and scopes). `InheritanceInv`:

| conjunct | why it is needed |
|---|---|
| `Provenance` | whatever a registry, a pack or an unfinished call says of a pattern's origins was exported by them under that scope: merging keeps a scope that is known, and restarts only forget |
| `Chosen` | a pattern chosen by a composition is still registered when it is used, and the two origins that made it eligible did share it |
| `Results` | a composition's inherited edges have the votes they need, and each question of the deterministic matcher is still there or answered by an edge three origins exported |

`ConsensusBeforeAcceptance` and `ReviewKept` are `Results`. Under them lie facts
about the operators: a matched edge is to be reviewed just when it raises a
question (`MatchIs`), a field has the edges the matcher gave it because no name
occurs twice (`BaselineEdgesTo`), a question goes only with an accepted edge
(`GraphIs`), a composition has such a graph for each of its targets (`ResultIs`).
The theorem `ReadyMapsRequired` sums them up for any profiles and intents: a
composition that is ready maps every required field of every target from a field
of the source, a question being the only way for one to be missing; and
`ClearIsFinished` carries this to the platform: a connection whose contract has no
open question has systems that compose in this way, however its handlers were
overtaken.

**Only model-checked.** Liveness (`NoneLeftBehind`, `ComposedInTheEnd`,
`QueuedServed`), since fairness and `ENABLED` are out of the prover's reach;
and what `Contract` computes, except where `MCDaughter`'s properties use it.
`ReviewGateKept` is violated, see section 4.

## 6. Not modelled

Cryptography (password hashing, token signatures, envelope encryption, anchor
signatures) is taken to work. Tenants are independent of each other, so one is
modelled; `bootstrap()` and the creation of users are the initial state. The rate
limiter is arithmetic on one row. Schema parsers, text heuristics, HTTP routing,
settings, the desktop shell and the benchmarks hold no protocol.
`SignedFileAuditAnchorStore` (the append-only file) is not modelled; the
directory store is. Backup, export and support bundles of Lite, `replay()` of the
simulator, snapshots and integrity hashes of the tissue, and the topology bundle
of the nervous system only read what is modelled. `reject()` of `repair.py` has no
caller.

## 7. What is left

Proofs: the lemmas of `Contract` (a certified payload satisfies every certifier). A run
of `LiteRunner` over two connections, for the starvation a failing source causes; the
append-only anchor file; the rate limiter with its clock read before the row's lock.
