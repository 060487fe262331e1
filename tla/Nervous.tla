------------------------------ MODULE Nervous -------------------------------
(***************************************************************************)
(* The nervous system (nervous.py): coordinate() runs the steps of a       *)
(* workflow in dependency order, each through the global policy and then   *)
(* through its daughter's simulator (simulator.py), which keeps a ledger   *)
(* of idempotency keys (ledger.py).  Calls hold the system's lock for      *)
(* their whole run and wait for it otherwise; the policy is replaced       *)
(* without the lock (legacy_api.py, set_nervous_policy).                   *)
(*                                                                         *)
(* Daughters are registered while the system runs and never changed.       *)
(*                                                                         *)
(* A payload that cannot be mapped, a plan and an adapter's answer are     *)
(* arbitrary; a route stands for the action it plans, an event kind for    *)
(* an event type and a source object.  One workflow id is modelled;        *)
(* everything is in memory and gone when the process ends.                 *)
(*                                                                         *)
(* Bounds: the set Calls, MaxSwaps.                                        *)
(***************************************************************************)
EXTENDS Integers, Sequences, FiniteSetsExt

CONSTANTS
  Steps,      \* step ids, numbers for their order
  Daughters, DaughterOf,
  Actions,    \* the routes of a daughter's contract
  CapabilityOf, KindOf,  \* of a step: the capability it names, the kind of its event
  Offers,     \* registrations that may be posted: [daughter, fits, enabled, capabilities]
  Required,   \* steps with required = True
  DryRun,     \* steps with execute = False
  Inputs,     \* steps with required inputs that have no default
  Workflows,  \* step graphs that may be posted
  Policies,   \* [id, rules, default, maxHops, fanout, registered]
  Events, Keys,
  Requests,   \* [event, key, approvals, simulate]
  Calls,      \* calls of coordinate()
  None, Wild,
  MaxSwaps    \* bound on policy changes

\* What the models of the requests accept.
Effects == {"allow", "deny", "require_approval"}
Rules == [id : STRING, effect : Effects, source : Daughters \cup {"external", Wild},
          step : Steps \cup {Wild}, priority : Int]
PolicySets == [id : STRING, default : Effects, maxHops : 1..256, fanout : 1..1024,
               registered : BOOLEAN, rules : Seq(Rules)]
Capabilities == [routes : SUBSET (Actions \cup STRING), kinds : SUBSET (STRING \cup {Wild})]
IsRegistration(o) == /\ o.daughter \in Daughters /\ o.fits \in BOOLEAN /\ o.enabled \in BOOLEAN
                     /\ \A i \in DOMAIN o.capabilities : o.capabilities[i] \in Capabilities

ASSUME NervousAssumption ==
  /\ Steps \subseteq Nat /\ IsFiniteSet(Steps)
  /\ DaughterOf \in [Steps -> Daughters]
  /\ Workflows \subseteq [Steps -> SUBSET Steps]
  /\ Policies \subseteq PolicySets
  /\ \A o \in Offers : IsRegistration(o)
  /\ None \notin Calls /\ None \notin Offers /\ None \notin Workflows
  /\ None \notin Policies /\ None \notin STRING

VARIABLES
  daughters,    \* the registration of each daughter, or None
  workflow,     \* the registered graph, or None
  policy, swaps,
  req, pc,      \* of each call: its request, and new, running, done, refused or raised
  cur,          \* the call that holds the lock
  graph,        \* the workflow it took
  left, round,  \* the steps it has not reached; those of them in this round
  exec,         \* what became of each step
  decision,     \* the policy's answer for the step being decided
  fabric,       \* nervous_events: <<event, step>>
  coordinated,  \* coordinations: for each root event the call recorded, or None
  status,       \* the status a call returned
  local,        \* the daughters' ledgers: [step, event, key]
  delivered     \* how often an action took effect for a key

wfVars == <<daughters, workflow, policy, swaps>>
callVars == <<req, pc, cur, graph>>
runVars == <<left, round, exec, decision>>
logVars == <<fabric, coordinated, status>>
daughterVars == <<local, delivered>>
vars == <<wfVars, callVars, runVars, logVars, daughterVars>>

\* _topological_order: whole rounds of the steps without open dependencies.
\* (Mutant: dependencies are ignored.)
UnorderedReady(g, rest) == rest
Ready(g, rest) == {s \in rest : g[s] \cap rest = {}}
Acyclic(g) == \A rest \in SUBSET Steps \ {{}} : {s \in rest : g[s] \cap rest = {}} # {}

\* The complexity and fan-out limits of register_workflow.
WithinLimits(g, p) ==
  /\ Cardinality(Steps) <= p.fanout * p.maxHops
  /\ Cardinality({s \in Steps : g[s] = {}}) <= p.fanout
  /\ \A d \in Steps : Cardinality({s \in Steps : d \in g[s]}) <= p.fanout

\* DaughterRuntime.__init__: the registration fits the contract, whose targets have
\* profiles; a capability names routes of the contract, or the only one by default.
Routes(c) == IF c.routes = {} THEN Actions ELSE c.routes

WellFormed(o) ==
  /\ o.fits
  /\ \A i \in DOMAIN o.capabilities :
       LET c == o.capabilities[i] IN
       /\ c.routes = {} => Cardinality(Actions) = 1
       /\ c.routes \subseteq Actions

Daughter(s) == daughters[DaughterOf[s]]
Knows(s) == CapabilityOf[s] \in DOMAIN Daughter(s).capabilities
Capability(s) == Daughter(s).capabilities[CapabilityOf[s]]

\* supports(): the daughter is enabled and has the capability for events of that kind.
Supports(s) == /\ Daughter(s).enabled
               /\ Knows(s)
               /\ Capability(s).kinds \cap {Wild, KindOf[s]} # {}

Untouched == [state |-> "none", hops |-> 0, basis |-> None]
Completed(s) == exec[s].state \in {"succeeded", "simulated"}

\* A dependency without a response counts as one hop.
Hops(s) == IF graph[s] = {} THEN 1
           ELSE 1 + Max({IF exec[d].hops = 0 THEN 1 ELSE exec[d].hops : d \in graph[s]})

Sources(s) == IF graph[s] = {} THEN {"external"} ELSE {DaughterOf[d] : d \in graph[s]}

\* The rules are tried by priority, those of equal priority as listed.
\* (Mutant: as listed.)
Matching(p, s) == {i \in DOMAIN p.rules : /\ p.rules[i].source \in {Wild} \cup Sources(s)
                                          /\ p.rules[i].step \in {Wild, s}}
Before(r, i, j) == \/ r[i].priority > r[j].priority
                   \/ r[i].priority = r[j].priority /\ i <= j
AsListed(p, s) == Min(Matching(p, s))
Winner(p, s) == CHOOSE i \in Matching(p, s) : \A j \in Matching(p, s) : Before(p.rules, i, j)

\* GlobalPolicyEngine.evaluate
Evaluated(p, s) ==
  IF Hops(s) > p.maxHops \/ (p.registered /\ ~Supports(s)) THEN [effect |-> "deny", rule |-> None]
  ELSE IF Matching(p, s) = {} THEN [effect |-> p.default, rule |-> None]
  ELSE LET r == p.rules[Winner(p, s)] IN [effect |-> r.effect, rule |-> r.id]
-----------------------------------------------------------------------------
NoRequest == CHOOSE r \in Requests : TRUE

Init == /\ daughters = [d \in Daughters |-> None]
        /\ workflow = None /\ policy \in Policies /\ swaps = 0
        /\ req = [c \in Calls |-> NoRequest] /\ pc = [c \in Calls |-> "new"]
        /\ cur = None /\ graph = None
        /\ left = {} /\ round = {} /\ exec = [s \in Steps |-> Untouched] /\ decision = None
        /\ fabric = {} /\ coordinated = [e \in Events |-> None]
        /\ status = [c \in Calls |-> "none"]
        /\ local = {} /\ delivered = [x \in Keys \X Steps \X Actions |-> 0]

\* POST /nervous/daughters: a name is registered once; calls hold the lock meanwhile.
RegisterDaughter(o) ==
  /\ cur = None
  /\ daughters[o.daughter] = None /\ WellFormed(o)
  /\ daughters' = [daughters EXCEPT ![o.daughter] = o]
  /\ UNCHANGED <<workflow, policy, swaps, callVars, runVars, logVars, daughterVars>>

\* PUT /nervous/policy
SetPolicy(p) ==
  /\ swaps < MaxSwaps /\ p # policy
  /\ policy' = p /\ swaps' = swaps + 1
  /\ UNCHANGED <<daughters, workflow, callVars, runVars, logVars, daughterVars>>

\* A workflow without cycles, within the fan-out limit and over registered daughters;
\* it replaces the last one.
RegisterWorkflow(g) ==
  /\ cur = None
  /\ Acyclic(g) /\ WithinLimits(g, policy)
  /\ \A s \in Steps : Daughter(s) # None
  /\ workflow' = g
  /\ UNCHANGED <<daughters, policy, swaps, callVars, runVars, logVars, daughterVars>>

\* The root event has been coordinated.  (Mutant: it is not looked up.)
NeverSeen(e) == FALSE
Seen(e) == coordinated[e] # None

Refuse(c, r) ==
  /\ cur = None /\ pc[c] = "new"
  /\ workflow = None \/ Seen(r.event)
  /\ pc' = [pc EXCEPT ![c] = "refused"]
  /\ req' = [req EXCEPT ![c] = r]
  /\ UNCHANGED <<wfVars, cur, graph, runVars, logVars, daughterVars>>

Begin(c, r) ==
  /\ cur = None /\ pc[c] = "new"
  /\ workflow # None /\ ~Seen(r.event)
  /\ pc' = [pc EXCEPT ![c] = "running"]
  /\ req' = [req EXCEPT ![c] = r]
  /\ cur' = c /\ graph' = workflow
  /\ left' = Steps /\ round' = Ready(workflow, Steps)
  /\ exec' = [s \in Steps |-> Untouched]
  /\ UNCHANGED <<wfVars, decision, logVars, daughterVars>>

\* The step the loop is at.
At(s) == cur # None /\ round # {} /\ s = Min(round)

EndStep(s, x) ==
  /\ exec' = [exec EXCEPT ![s] = x]
  /\ left' = left \ {s}
  /\ round' = IF round = {s} THEN Ready(graph, left \ {s}) ELSE round \ {s}
  /\ decision' = None

Skip(s) ==
  /\ At(s) /\ \E d \in graph[s] : ~Completed(d)
  /\ EndStep(s, [Untouched EXCEPT !.state = "skipped"])
  /\ UNCHANGED <<wfVars, callVars, logVars, daughterVars>>

MayStart(s) == At(s) /\ decision = None /\ \A d \in graph[s] : Completed(d)

\* _map_step_payload: a required input without a default may find no value.
MayMiss(s) == s \in Inputs

MapFails(s) ==
  /\ MayStart(s) /\ MayMiss(s)
  /\ EndStep(s, [Untouched EXCEPT !.state = "blocked"])
  /\ UNCHANGED <<wfVars, callVars, logVars, daughterVars>>

Evaluate(s) ==
  /\ MayStart(s)
  /\ decision' = [answer |-> Evaluated(policy, s), basis |-> policy, go |-> FALSE]
  /\ UNCHANGED <<wfVars, callVars, left, round, exec, logVars, daughterVars>>

\* An approval is looked up by the rule or by the id of the policy now in force.
Approved(d, r) == /\ d.effect = "require_approval"
                  /\ (IF d.rule = None THEN policy.id ELSE d.rule) \in r.approvals

\* NervousLedger: an event of the step, and in the end the coordination's result.
RecordEvent(s) == fabric' = fabric \cup {<<req[cur].event, s>>}
RecordResult(c) == coordinated' = [coordinated EXCEPT ![req[c].event] = c]

\* The event is recorded either way; without leave the step is blocked.
Decide(s) ==
  /\ At(s) /\ decision # None /\ ~decision.go
  /\ RecordEvent(s)
  /\ IF decision.answer.effect = "allow" \/ Approved(decision.answer, req[cur])
     THEN decision' = [decision EXCEPT !.go = TRUE] /\ UNCHANGED <<left, round, exec>>
     ELSE EndStep(s, [Untouched EXCEPT !.state = "blocked"])
  /\ UNCHANGED <<wfVars, callVars, coordinated, status, daughterVars>>

\* The event the daughter gets.
LocalEvent(s, r) == [step |-> s, event |-> r.event, key |-> r.key]

Dispatched(s) == At(s) /\ decision # None /\ decision.go
HasKey(e) == \E l \in local : l.step = e.step /\ l.key = e.key
HasEvent(e) == \E l \in local : l.step = e.step /\ l.event = e.event

\* _step_execution: what a daughter's result makes of the step.
StepStatus(st) == IF st \in {"duplicate", "abstained"} THEN "blocked" ELSE st
Executed(s, st) == [state |-> StepStatus(st), hops |-> Hops(s), basis |-> decision.basis]

\* coordinate() raises and returns nothing: the daughter does not know the capability,
\* or its ledger holds the event under another key.
Raise(s) ==
  /\ Dispatched(s)
  /\ \/ ~Knows(s)
     \/ ~HasKey(LocalEvent(s, req[cur])) /\ HasEvent(LocalEvent(s, req[cur]))
  /\ pc' = [pc EXCEPT ![cur] = "raised"]
  /\ cur' = None /\ left' = {} /\ round' = {} /\ decision' = None
  /\ exec' = [t \in Steps |-> Untouched]
  /\ UNCHANGED <<wfVars, req, graph, logVars, daughterVars>>

Duplicate(s) ==
  /\ Dispatched(s) /\ Knows(s)
  /\ HasKey(LocalEvent(s, req[cur]))
  /\ EndStep(s, Executed(s, "duplicate"))
  /\ UNCHANGED <<wfVars, callVars, logVars, daughterVars>>

Simulates(s, r) == r.simulate \/ s \in DryRun

\* What may become of a planned action: it is not certified, it succeeds, it fails,
\* or it fails after it took effect.
Outcomes == {"uncertified", "ok", "failed", "late"}

LocalStatus(o, dry) ==
  IF \E a \in DOMAIN o : o[a] \in {"failed", "late"} THEN "failed"
  ELSE IF \E a \in DOMAIN o : o[a] = "uncertified" THEN "blocked"
  ELSE IF dry THEN "simulated" ELSE "succeeded"

\* CapabilityScopedRouter: only the capability's own routes are selected.
Scope(s) == Routes(Capability(s))

\* IntegrationSimulator.process on a new event: the event is recorded, planned and its
\* actions executed.  What the tissue makes of their outcomes is in Daughter.
Process(s) ==
  /\ Dispatched(s) /\ Knows(s)
  /\ LET r == req[cur]
         e == LocalEvent(s, r)
         dry == Simulates(s, r)
         Of(o, kinds) == {a \in DOMAIN o : o[a] \in kinds}
     IN
     /\ ~HasKey(e) /\ ~HasEvent(e)
     /\ local' = local \cup {e}
     /\ \/ \* no plan, or a plan without actions
           /\ \E st \in {"failed", "abstained", "blocked"} : EndStep(s, Executed(s, st))
           /\ UNCHANGED delivered
        \/ \E planned \in SUBSET Scope(s) \ {{}} : \E o \in [planned -> Outcomes] :
             /\ EndStep(s, Executed(s, LocalStatus(o, dry)))
             /\ delivered' = [x \in DOMAIN delivered |->
                  IF ~dry /\ x[1] = r.key /\ x[2] = s /\ x[3] \in Of(o, {"ok", "late"})
                  THEN delivered[x] + 1 ELSE delivered[x]]
  /\ UNCHANGED <<wfVars, callVars, logVars>>

Outcome(r) ==
  LET open == {s \in Steps : ~Completed(s)} IN
  IF open \cap Required # {}
  THEN IF \E s \in open \cap Required : exec[s].state = "failed" THEN "failed" ELSE "blocked"
  ELSE IF open # {} THEN "partial" ELSE IF r.simulate THEN "simulated" ELSE "succeeded"

Finish ==
  /\ cur # None /\ left = {}
  /\ status' = [status EXCEPT ![cur] = Outcome(req[cur])]
  /\ RecordResult(cur)
  /\ pc' = [pc EXCEPT ![cur] = "done"]
  /\ cur' = None
  /\ UNCHANGED <<wfVars, req, graph, runVars, fabric, daughterVars>>

Run(s) == Skip(s) \/ MapFails(s) \/ Evaluate(s) \/ Decide(s) \/ Raise(s) \/ Duplicate(s) \/ Process(s)

Next == \/ \E c \in Calls, r \in Requests : Refuse(c, r) \/ Begin(c, r)
        \/ \E s \in Steps : Run(s)
        \/ Finish
        \/ \E o \in Offers : RegisterDaughter(o)
        \/ \E p \in Policies : SetPolicy(p)
        \/ \E g \in Workflows : RegisterWorkflow(g)

Spec == Init /\ [][Next]_vars
-----------------------------------------------------------------------------
Went(s) == exec[s].basis # None

\* A step is skipped only over a dependency that came to nothing, it reaches its
\* daughter only when everything it depends on has, and no daughter acts on an event
\* that is not on record: no order of the rounds loses or fabricates a cause.
Causal ==
  /\ \A s \in Steps :
       /\ exec[s].state = "skipped" => \E d \in graph[s] : exec[d].state \in {"skipped", "blocked", "failed"}
       /\ Went(s) => \A d \in graph[s] : Went(d) /\ exec[d].state \in {"succeeded", "simulated"}
  /\ \A l \in local : <<l.event, l.step>> \in fabric

\* A chain of n steps, each depending on the one before, that ends at s.
Chain(n, s) == \E f \in [1..n -> Steps] : /\ f[n] = s
                                          /\ \A i \in 1..(n - 1) : f[i] \in graph[f[i + 1]]

\* Whatever policies replace each other meanwhile, a step reaches its daughter only
\* within the hop limit of the policy it was put to, with a capability that policy may
\* demand, and when no rule of that policy outranks one that lets it pass, with the
\* approval that rule asks for.
PolicyGated == cur # None => \A s \in Steps : Went(s) =>
  LET p == exec[s].basis
      given == req[cur].approvals
  IN
  /\ ~Chain(p.maxHops + 1, s)
  /\ p.registered => Supports(s)
  /\ \/ /\ Matching(p, s) = {}
        /\ \/ p.default = "allow"
           \/ p.default = "require_approval" /\ \E q \in Policies : q.id \in given
     \/ \E i \in Matching(p, s) :
          /\ \A j \in Matching(p, s) \ {i} : ~Before(p.rules, j, i)
          /\ \/ p.rules[i].effect = "allow"
             \/ p.rules[i].effect = "require_approval" /\ p.rules[i].id \in given

\* Nothing takes effect twice for one idempotency key, through calls that are repeated,
\* raise halfway or come under another event id, and nothing at all once the root
\* event is recorded.
AtMostOnce ==
  [][\A x \in Keys \X Steps \X Actions : delivered'[x] # delivered[x] =>
       delivered'[x] = 1 /\ coordinated[req[cur].event] = None]_vars
=============================================================================
