--------------------------- MODULE Nervous_proofs ----------------------------
(***************************************************************************)
(* What holds of the nervous system for any steps, daughters, workflows,   *)
(* policies and requests: a workflow's steps keep to their causes, a step  *)
(* reaches its daughter only with leave of the policy it was put to, and   *)
(* no action takes effect twice for one key.                               *)
(*                                                                         *)
(* The steps are run in rounds; what the argument needs of them is that    *)
(* nothing a step of the round depends on is still left (Rounds), and that *)
(* a decision, from the evaluation to the dispatch, is about the first     *)
(* step of the round and the policy it was taken from (Decided).  The hop  *)
(* limit is the one thing that speaks of a whole chain of steps: a step's  *)
(* hops are at least the length of every chain that ends at it (Past).     *)
(***************************************************************************)
EXTENDS Nervous, FiniteSetTheorems, WellFoundedInduction, TLAPS

States == {"none", "skipped", "blocked", "failed", "succeeded", "simulated"}
Hopping == 0..256
Execs == [state : States, hops : Hopping, basis : Policies \cup {None}]

Typed ==
  /\ policy \in Policies
  /\ workflow \in Workflows \cup {None}
  /\ cur # None => graph \in Workflows
  /\ exec \in [Steps -> Execs]
  /\ req \in [Calls -> Requests \cup {NoRequest}]
  /\ cur \in Calls \cup {None}

\* What is left of a run, and of the round it is in.
Rounds ==
  /\ left \subseteq Steps /\ round \subseteq left
  /\ cur # None =>
       /\ \A s \in round : graph[s] \cap left = {}
       /\ \A s \in left : exec[s] = Untouched
       /\ \A s \in Steps \ left : exec[s].state # "none"

\* The approval an answer asks for was given.
Given(d, approvals) ==
  \/ d.effect = "allow"
  \/ /\ d.effect = "require_approval"
     /\ IF d.rule = None THEN \E q \in Policies : q.id \in approvals ELSE d.rule \in approvals

\* A decision is about the first step of the round, on the policy it was taken from.
Decided == decision # None =>
  /\ cur # None /\ round # {}
  /\ decision = [answer |-> decision.answer, basis |-> decision.basis, go |-> decision.go]
  /\ decision.basis \in Policies
  /\ decision.answer = Evaluated(decision.basis, Min(round))
  /\ \A d \in graph[Min(round)] : Completed(d)
  /\ decision.go => /\ <<req[cur].event, Min(round)>> \in fabric
                    /\ Given(decision.answer, req[cur].approvals)

\* What was done with the steps a run has passed.
Past == \A s \in Steps :
  /\ exec[s].state = "skipped" => \E d \in graph[s] : exec[d].state \in {"skipped", "blocked", "failed"}
  /\ Went(s) => \A d \in graph[s] : Went(d) /\ exec[d].state \in {"succeeded", "simulated"}
  /\ Completed(s) => Went(s)
  /\ Went(s) => exec[s].hops > 0
  /\ Went(s) => \A n \in Nat : Chain(n, s) => n <= exec[s].hops

\* The rules of p let s pass, with the approvals given.
Leave(p, s, approvals) ==
  \/ /\ Matching(p, s) = {}
     /\ \/ p.default = "allow"
        \/ p.default = "require_approval" /\ \E q \in Policies : q.id \in approvals
  \/ \E i \in Matching(p, s) :
       /\ \A j \in Matching(p, s) \ {i} : ~Before(p.rules, j, i)
       /\ \/ p.rules[i].effect = "allow"
          \/ p.rules[i].effect = "require_approval" /\ p.rules[i].id \in approvals

Gate(s) ==
  LET p == exec[s].basis IN
  /\ exec[s].hops <= p.maxHops
  /\ p.registered => Supports(s)
  /\ Leave(p, s, req[cur].approvals)

Gates == cur # None => \A s \in Steps : Went(s) => Gate(s)

\* What the daughters recorded and did.
Ledgers ==
  /\ \A l \in local : <<l.event, l.step>> \in fabric
  /\ delivered \in [Keys \X Steps \X Actions -> Nat]
  /\ \A x \in Keys \X Steps \X Actions :
       delivered[x] # 0 => \E l \in local : l.step = x[2] /\ l.key = x[1]
  /\ cur # None => coordinated[req[cur].event] = None

RunInv == Typed /\ Rounds /\ Decided /\ Past /\ Gates /\ Ledgers
-----------------------------------------------------------------------------
(* Least and greatest elements. *)

LEMMA LeastNatural ==
  ASSUME NEW S \in SUBSET Nat, S # {}
  PROVE  Min(S) \in S /\ \A y \in S : Min(S) <= y
<1>1. PICK x \in S : \A y \in S : <<y, x>> \notin OpToRel(<, Nat)
  BY WFMin, NatLessThanWellFounded, Zenon
<1>2. \A y \in S : ~(y < x)
  BY <1>1, Zenon DEF OpToRel
<1>3. \A y \in S : x <= y
  BY <1>2
<1> QED
  BY <1>3 DEF Min

LEMMA GreatestNatural ==
  ASSUME NEW b \in Nat, NEW S \in SUBSET (0..b), S # {}
  PROVE  Max(S) \in S /\ \A y \in S : y <= Max(S)
<1> DEFINE T == {b - y : y \in S}
<1>1. T \in SUBSET Nat /\ T # {}
  <2>1. \A y \in S : b - y \in Nat
    OBVIOUS
  <2> QED
    BY <2>1, Zenon
<1>2. PICK m \in T : \A z \in T : m <= z
  BY <1>1, LeastNatural
<1>3. PICK x \in S : m = b - x
  BY <1>2
<1>4. \A y \in S : x >= y
  BY <1>2, <1>3
<1> QED
  BY <1>4 DEF Max

\* The steps of a round have a first one.
LEMMA FirstOfRound ==
  ASSUME Rounds, round # {}
  PROVE  Min(round) \in round /\ Min(round) \in Steps
BY LeastNatural, NervousAssumption DEF Rounds
-----------------------------------------------------------------------------
(* The policy's answer. *)

LEMMA PolicyTyped ==
  ASSUME NEW p \in Policies
  PROVE  /\ p.maxHops \in Nat /\ p.maxHops <= 256
         /\ p.rules \in Seq(Rules) /\ p.default \in Effects
         /\ p # None
<1>1. p \in PolicySets /\ p # None
  BY NervousAssumption, Zenon
<1>2. p.maxHops \in 1..256 /\ p.rules \in Seq(Rules) /\ p.default \in Effects
  BY <1>1 DEF PolicySets
<1>3. \A n \in 1..256 : n \in Nat /\ n <= 256
  OBVIOUS
<1> QED
  BY <1>1, <1>2, <1>3, Zenon

LEMMA BeforeIsLinear ==
  ASSUME NEW p \in Policies
  PROVE  \A i, j, k \in DOMAIN p.rules :
           /\ Before(p.rules, i, j) \/ Before(p.rules, j, i)
           /\ Before(p.rules, i, j) /\ Before(p.rules, j, i) => i = j
           /\ Before(p.rules, i, j) /\ Before(p.rules, j, k) => Before(p.rules, i, k)
<1>1. p.rules \in Seq(Rules)
  BY PolicyTyped
<1>2. /\ DOMAIN p.rules \subseteq Nat
      /\ \A i \in DOMAIN p.rules : p.rules[i] \in Rules
  BY <1>1
<1>3. \A i \in DOMAIN p.rules : i \in Int /\ p.rules[i].priority \in Int
  BY <1>2 DEF Rules
<1> QED
  BY <1>3 DEF Before

\* Of rules that match there is one that none of the others outranks: the one
\* with the fewest before it.
LEMMA WinnerExists ==
  ASSUME NEW p \in Policies, NEW s, Matching(p, s) # {}
  PROVE  /\ Winner(p, s) \in Matching(p, s)
         /\ \A j \in Matching(p, s) : Before(p.rules, Winner(p, s), j)
<1> DEFINE M == Matching(p, s)
           Ahead(i) == {j \in M : Before(p.rules, j, i)}
           T == {Cardinality(Ahead(i)) : i \in M}
<1>1. p.rules \in Seq(Rules)
  BY PolicyTyped
<1>2. M \subseteq DOMAIN p.rules /\ IsFiniteSet(M)
  <2>1. DOMAIN p.rules = 1..Len(p.rules) /\ Len(p.rules) \in Nat
    BY <1>1
  <2>2. IsFiniteSet(1..Len(p.rules))
    BY <2>1, FS_Interval
  <2>3. M \subseteq DOMAIN p.rules
    BY DEF Matching
  <2> QED
    BY <2>1, <2>2, <2>3, FS_Subset
<1>3. \A i \in M : IsFiniteSet(Ahead(i)) /\ Cardinality(Ahead(i)) \in Nat
  BY <1>2, FS_Subset, FS_CardinalityType
<1>4. T \in SUBSET Nat /\ T # {}
  BY <1>3
<1>5. PICK m \in T : \A z \in T : m <= z
  BY <1>4, LeastNatural
<1>6. PICK i \in M : m = Cardinality(Ahead(i))
  BY <1>5
<1>7. ASSUME NEW j \in M, ~Before(p.rules, i, j) PROVE FALSE
  <2>1. Ahead(j) \subseteq Ahead(i) /\ i \in Ahead(i) /\ i \notin Ahead(j)
    BY <1>2, <1>7, BeforeIsLinear
  <2>2. /\ Cardinality(Ahead(j)) <= Cardinality(Ahead(i))
        /\ Cardinality(Ahead(i)) = Cardinality(Ahead(j)) => Ahead(i) = Ahead(j)
    BY <1>3, <2>1, FS_Subset
  <2>3. Cardinality(Ahead(i)) <= Cardinality(Ahead(j))
    BY <1>5, <1>6
  <2>4. Ahead(i) = Ahead(j)
    BY <1>3, <2>2, <2>3
  <2> QED
    BY <2>1, <2>4
<1>8. \A j \in M : Before(p.rules, i, j)
  BY <1>7
<1> QED
  BY <1>8 DEF Winner

\* What a step that was let pass can rely on.
LEMMA AnswerLets ==
  ASSUME NEW p \in Policies, NEW s, NEW approvals, Hops(s) \in Nat,
         Given(Evaluated(p, s), approvals)
  PROVE  /\ Hops(s) <= p.maxHops
         /\ p.registered => Supports(s)
         /\ Leave(p, s, approvals)
<1>0. p.maxHops \in Nat /\ p.rules \in Seq(Rules)
  BY PolicyTyped, Zenon
<1>1. ~(Hops(s) > p.maxHops \/ (p.registered /\ ~Supports(s)))
  BY DEF Given, Evaluated
<1>2. CASE Matching(p, s) = {}
  <2>1. Evaluated(p, s) = [effect |-> p.default, rule |-> None]
    BY <1>1, <1>2 DEF Evaluated
  <2> QED
    BY <1>0, <1>1, <1>2, <2>1 DEF Given, Leave
<1>3. CASE Matching(p, s) # {}
  <2> DEFINE i == Winner(p, s)
  <2>1. i \in Matching(p, s) /\ \A j \in Matching(p, s) : Before(p.rules, i, j)
    BY <1>3, WinnerExists
  <2>2. Evaluated(p, s) = [effect |-> p.rules[i].effect, rule |-> p.rules[i].id]
    BY <1>1, <1>3 DEF Evaluated
  <2>3. i \in DOMAIN p.rules /\ p.rules[i] \in Rules
    BY <1>0, <2>1 DEF Matching
  <2>4. p.rules[i].id # None
    BY <2>3, NervousAssumption DEF Rules
  <2>5. \A j \in Matching(p, s) \ {i} : ~Before(p.rules, j, i)
    BY <2>1, <2>3, BeforeIsLinear DEF Matching
  <2> HIDE DEF i
  <2> QED
    BY <1>0, <1>1, <2>1, <2>2, <2>4, <2>5 DEF Given, Leave
<1> QED
  BY <1>2, <1>3
-----------------------------------------------------------------------------
(* What the answer depends on. *)

LEMMA SupportsSame ==
  ASSUME UNCHANGED daughters, NEW s
  PROVE  Supports(s)' = Supports(s)
BY DEF Supports, Daughter, Knows, Capability

LEMMA HopsSame ==
  ASSUME UNCHANGED <<exec, graph>>, NEW s
  PROVE  Hops(s)' = Hops(s)
BY DEF Hops

LEMMA MatchingSame ==
  ASSUME UNCHANGED graph, NEW p, NEW s
  PROVE  Matching(p, s)' = Matching(p, s)
BY DEF Matching, Sources

LEMMA LeaveSame ==
  ASSUME UNCHANGED graph, NEW p, NEW s, NEW approvals
  PROVE  Leave(p, s, approvals)' = Leave(p, s, approvals)
BY MatchingSame DEF Leave

LEMMA EvaluatedSame ==
  ASSUME UNCHANGED <<exec, graph, daughters>>, NEW p, NEW s
  PROVE  Evaluated(p, s)' = Evaluated(p, s)
<1>1. Supports(s)' = Supports(s) /\ Hops(s)' = Hops(s) /\ Matching(p, s)' = Matching(p, s)
  BY SupportsSame, HopsSame, MatchingSame
<1>2. Winner(p, s)' = Winner(p, s)
  BY <1>1 DEF Winner
<1> QED
  BY <1>1, <1>2 DEF Evaluated

LEMMA GraphTyped ==
  ASSUME Typed, cur # None
  PROVE  graph \in [Steps -> SUBSET Steps]
BY NervousAssumption DEF Typed

LEMMA UntouchedTyped == Untouched \in Execs /\ Untouched.state = "none" /\ Untouched.basis = None
BY DEF Untouched, Execs, States, Hopping

\* A step that is put to the policy has more hops than any chain that ends at it.
LEMMA HopsCount ==
  ASSUME Typed, Past, cur # None, NEW s \in Steps, \A d \in graph[s] : Completed(d)
  PROVE  /\ Hops(s) \in Nat /\ Hops(s) > 0
         /\ \A n \in Nat : Chain(n, s) => n <= Hops(s)
<1> DEFINE HD == {IF exec[d].hops = 0 THEN 1 ELSE exec[d].hops : d \in graph[s]}
<1>0. graph \in [Steps -> SUBSET Steps]
  BY GraphTyped
<1>1. \A d \in graph[s] : /\ d \in Steps /\ Went(d)
                          /\ exec[d].hops \in 1..256
                          /\ \A n \in Nat : Chain(n, d) => n <= exec[d].hops
  <2> SUFFICES ASSUME NEW d \in graph[s]
               PROVE  /\ d \in Steps /\ Went(d)
                      /\ exec[d].hops \in 1..256
                      /\ \A n \in Nat : Chain(n, d) => n <= exec[d].hops
    OBVIOUS
  <2>1. d \in Steps /\ exec[d].hops \in 0..256
    BY <1>0 DEF Typed, Execs, Hopping
  <2> QED
    BY <2>1 DEF Past
<1>2. CASE graph[s] = {}
  <2>1. Hops(s) = 1
    BY <1>2 DEF Hops
  <2>2. ASSUME NEW n \in Nat, Chain(n, s), n > 1 PROVE FALSE
    <3>1. PICK f \in [1..n -> Steps] : /\ f[n] = s
                                       /\ \A i \in 1..(n - 1) : f[i] \in graph[f[i + 1]]
      BY <2>2 DEF Chain
    <3>2. n - 1 \in 1..(n - 1) /\ (n - 1) + 1 = n
      BY <2>2
    <3> QED
      BY <1>2, <3>1, <3>2
  <2> QED
    BY <2>1, <2>2
<1>3. CASE graph[s] # {}
  <2>1. HD \in SUBSET (0..256) /\ HD # {}
    BY <1>1, <1>3
  <2>2. Max(HD) \in HD /\ \A y \in HD : y <= Max(HD)
    <3> HIDE DEF HD
    <3>1. 256 \in Nat
      OBVIOUS
    <3> QED
      BY <2>1, <3>1, GreatestNatural
  <2>3. Hops(s) = 1 + Max(HD)
    BY <1>3 DEF Hops
  <2>4. Hops(s) \in Nat /\ Hops(s) > 0 /\ \A d \in graph[s] : exec[d].hops + 1 <= Hops(s)
    <3>1. \A d \in graph[s] : exec[d].hops \in HD
      BY <1>1
    <3>2. Max(HD) \in 0..256
      BY <2>1, <2>2
    <3>3. \A d \in graph[s] : exec[d].hops \in 1..256 /\ exec[d].hops <= Max(HD)
      BY <1>1, <2>2, <3>1, Zenon
    <3>4. \A m \in 0..256 : 1 + m \in Nat /\ 1 + m > 0 /\ \A h \in 1..256 : h <= m => h + 1 <= 1 + m
      OBVIOUS
    <3> QED
      BY <2>3, <3>2, <3>3, <3>4, Zenon
  <2>5. ASSUME NEW n \in Nat, Chain(n, s), n > 1 PROVE n <= Hops(s)
    <3>1. PICK f \in [1..n -> Steps] : /\ f[n] = s
                                       /\ \A i \in 1..(n - 1) : f[i] \in graph[f[i + 1]]
      BY <2>5 DEF Chain
    <3> DEFINE d == f[n - 1]
               g == [i \in 1..(n - 1) |-> f[i]]
    <3>2. d \in graph[s]
      <4>1. n - 1 \in 1..(n - 1) /\ (n - 1) + 1 = n
        BY <2>5
      <4> QED
        BY <3>1, <4>1
    <3>3. Chain(n - 1, d)
      <4>1. g \in [1..(n - 1) -> Steps] /\ g[n - 1] = d
        BY <2>5, <3>1
      <4>2. \A i \in 1..((n - 1) - 1) : g[i] \in graph[g[i + 1]]
        <5> SUFFICES ASSUME NEW i \in 1..((n - 1) - 1) PROVE g[i] \in graph[g[i + 1]]
          OBVIOUS
        <5>1. i \in 1..(n - 1) /\ i + 1 \in 1..(n - 1)
          BY <2>5
        <5> QED
          BY <3>1, <5>1
      <4> QED
        BY <4>1, <4>2 DEF Chain
    <3>4. n - 1 \in Nat
      BY <2>5
    <3>5. n - 1 <= exec[d].hops
      BY <1>1, <3>2, <3>3, <3>4
    <3>6. exec[d].hops \in 1..256 /\ exec[d].hops + 1 <= Hops(s) /\ Hops(s) \in Nat
      BY <1>1, <2>4, <3>2, Zenon
    <3>7. \A h \in 1..256, H \in Nat : n - 1 <= h /\ h + 1 <= H => n <= H
      BY <2>5
    <3> HIDE DEF d
    <3> QED
      BY <3>5, <3>6, <3>7, Zenon
  <2> QED
    BY <2>4, <2>5
<1> QED
  BY <1>2, <1>3
-----------------------------------------------------------------------------
(* Steps of a run. *)

\* The loop leaves a step with x.
LEMMA EndStepKeeps ==
  ASSUME RunInv, NEW s \in Steps, At(s), NEW x \in Execs, EndStep(s, x), x.state # "none",
         UNCHANGED <<daughters, workflow, policy, req, cur, graph>>,
         x.state = "skipped" => \E d \in graph[s] : exec[d].state \in {"skipped", "blocked", "failed"},
         x.state \in {"succeeded", "simulated"} => x.basis # None,
         x.basis # None => /\ x.hops > 0 /\ x.hops <= x.basis.maxHops
                           /\ \A n \in Nat : Chain(n, s) => n <= x.hops
                           /\ \A d \in graph[s] : Completed(d)
                           /\ x.basis.registered => Supports(s)
                           /\ Leave(x.basis, s, req[cur].approvals)
  PROVE  Typed' /\ Rounds' /\ Decided' /\ Past' /\ Gates'
<1> USE DEF RunInv
<1>0. /\ cur # None /\ s \in round /\ s \in left /\ exec[s] = Untouched
      /\ graph \in [Steps -> SUBSET Steps]
  BY FirstOfRound, GraphTyped DEF At, Rounds
<1>1. /\ exec'[s] = x /\ \A t \in Steps \ {s} : exec'[t] = exec[t]
      /\ exec' \in [Steps -> Execs]
  BY DEF EndStep, Typed
<1>2. Typed'
  BY <1>1 DEF Typed
<1>3. \A d \in graph[s] : d \in Steps /\ d # s /\ exec'[d] = exec[d]
  BY <1>0, <1>1 DEF Rounds
<1>4. Rounds'
  <2>1. left' = left \ {s} /\ left' \subseteq Steps
    BY DEF EndStep, Rounds
  <2>2. round' \subseteq left' /\ \A t \in round' : graph[t] \cap left' = {}
    BY <1>0, <2>1 DEF EndStep, Ready, Rounds
  <2>3. \A t \in left' : exec'[t] = Untouched
    BY <1>0, <1>1, <2>1 DEF Rounds
  <2>4. \A t \in Steps \ left' : exec'[t].state # "none"
    BY <1>0, <1>1, <2>1 DEF Rounds
  <2> QED
    BY <2>1, <2>2, <2>3, <2>4 DEF Rounds
<1>5. Decided'
  BY DEF EndStep, Decided
<1>6. Past'
  <2> SUFFICES ASSUME NEW t \in Steps
               PROVE  /\ exec'[t].state = "skipped" =>
                           \E d \in graph[t] : exec'[d].state \in {"skipped", "blocked", "failed"}
                      /\ exec'[t].basis # None => \A d \in graph[t] :
                           exec'[d].basis # None /\ exec'[d].state \in {"succeeded", "simulated"}
                      /\ exec'[t].state \in {"succeeded", "simulated"} => exec'[t].basis # None
                      /\ exec'[t].basis # None => exec'[t].hops > 0
                      /\ exec'[t].basis # None => \A n \in Nat : Chain(n, t) => n <= exec'[t].hops
    BY DEF Past, Went, Completed, Chain
  <2>1. CASE t = s
    BY <1>0, <1>1, <1>3, <2>1 DEF Past, Went, Completed
  <2>2. CASE t # s
    <3>1. exec'[t] = exec[t] /\ graph[t] \subseteq Steps
      BY <1>0, <1>1, <2>2
    <3>2. \A d \in Steps : exec[d] # Untouched => exec'[d] = exec[d]
      BY <1>0, <1>1
    <3>3. \A d \in Steps : exec[d].basis # None \/ exec[d].state # "none" => exec'[d] = exec[d]
      BY <3>2, UntouchedTyped
    <3> QED
      BY <3>1, <3>3 DEF Past, Went, Completed
  <2> QED
    BY <2>1, <2>2
<1>7. Gates'
  <2> SUFFICES ASSUME NEW t \in Steps, exec'[t].basis # None PROVE Gate(t)'
    BY DEF Gates, Went
  <2>1. Supports(t)' = Supports(t)
    BY SupportsSame
  <2>2. \A p, approvals : Leave(p, t, approvals)' = Leave(p, t, approvals)
    BY LeaveSame
  <2>3. CASE t = s
    BY <1>1, <2>1, <2>2, <2>3 DEF Gate
  <2>4. CASE t # s
    <3>1. exec'[t] = exec[t] /\ Gate(t)
      BY <1>0, <1>1, <2>4 DEF Gates, Went
    <3> QED
      BY <2>1, <2>2, <3>1 DEF Gate
  <2> QED
    BY <2>3, <2>4
<1> QED
  BY <1>2, <1>4, <1>5, <1>6, <1>7

\* A step that is dispatched has what its policy asks for.
LEMMA DispatchedMay ==
  ASSUME RunInv, NEW s \in Steps, Dispatched(s)
  PROVE  LET p == decision.basis IN
         /\ p \in Policies /\ p # None
         /\ \A d \in graph[s] : Completed(d)
         /\ Hops(s) \in Hopping /\ Hops(s) > 0 /\ Hops(s) <= p.maxHops
         /\ \A n \in Nat : Chain(n, s) => n <= Hops(s)
         /\ p.registered => Supports(s)
         /\ Leave(p, s, req[cur].approvals)
         /\ <<req[cur].event, s>> \in fabric
<1> USE DEF RunInv
<1> DEFINE p == decision.basis
<1>1. /\ cur # None /\ s = Min(round) /\ decision # None /\ decision.go
      /\ p \in Policies /\ decision.answer = Evaluated(p, s)
      /\ \A d \in graph[s] : Completed(d)
      /\ <<req[cur].event, s>> \in fabric
      /\ Given(decision.answer, req[cur].approvals)
  BY DEF Dispatched, At, Decided
<1>2. /\ Hops(s) \in Nat /\ Hops(s) > 0
      /\ \A n \in Nat : Chain(n, s) => n <= Hops(s)
  BY <1>1, HopsCount
<1>3. /\ Hops(s) <= p.maxHops
      /\ p.registered => Supports(s)
      /\ Leave(p, s, req[cur].approvals)
  BY <1>1, <1>2, AnswerLets
<1>4. p.maxHops \in Nat /\ p.maxHops <= 256 /\ p # None
  BY <1>1, PolicyTyped
<1>5. \A h, m \in Nat : h <= m /\ m <= 256 => h \in Hopping
  BY DEF Hopping
<1> QED
  BY <1>1, <1>2, <1>3, <1>4, <1>5, Zenon

LEMMA ExecutedKeeps ==
  ASSUME RunInv, NEW s \in Steps, Dispatched(s),
         NEW st \in {"duplicate", "failed", "abstained", "blocked", "simulated", "succeeded"},
         EndStep(s, Executed(s, st)),
         UNCHANGED <<daughters, workflow, policy, req, cur, graph>>
  PROVE  Typed' /\ Rounds' /\ Decided' /\ Past' /\ Gates'
<1> DEFINE x == Executed(s, st)
<1>1. /\ decision.basis \in Policies /\ decision.basis # None
      /\ \A d \in graph[s] : Completed(d)
      /\ Hops(s) \in Hopping /\ Hops(s) > 0 /\ Hops(s) <= decision.basis.maxHops
      /\ \A n \in Nat : Chain(n, s) => n <= Hops(s)
      /\ decision.basis.registered => Supports(s)
      /\ Leave(decision.basis, s, req[cur].approvals)
  BY DispatchedMay
<1>2. /\ x.state \in {"blocked", "failed", "simulated", "succeeded"}
      /\ x.hops = Hops(s) /\ x.basis = decision.basis
      /\ x = [state |-> x.state, hops |-> x.hops, basis |-> x.basis]
  BY DEF Executed, StepStatus
<1>3. x \in Execs
  BY <1>1, <1>2 DEF Execs, States
<1>4. At(s)
  BY DEF Dispatched
<1>5. /\ x.basis = decision.basis /\ x.hops = Hops(s) /\ EndStep(s, x)
      /\ x.state # "skipped" /\ x.state # "none" /\ x.basis # None
  BY <1>1, <1>2
<1>6. /\ x.hops > 0 /\ x.hops <= x.basis.maxHops
      /\ \A n \in Nat : Chain(n, s) => n <= x.hops
      /\ x.basis.registered => Supports(s)
      /\ Leave(x.basis, s, req[cur].approvals)
  BY <1>1, <1>5
<1> HIDE DEF x
<1> QED
  BY <1>1, <1>3, <1>4, <1>5, <1>6, EndStepKeeps

LEMMA SkipKeeps ==
  ASSUME RunInv, NEW s \in Steps, Skip(s)
  PROVE  RunInv'
<1> USE DEF RunInv
<1> DEFINE x == [Untouched EXCEPT !.state = "skipped"]
<1>1. x \in Execs /\ x.state = "skipped" /\ x.basis = None
  BY DEF Untouched, Execs, States, Hopping
<1>2. \E d \in graph[s] : exec[d].state \in {"skipped", "blocked", "failed"}
  <2>1. PICK d \in graph[s] : ~Completed(d)
    BY DEF Skip
  <2>2. cur # None /\ s \in round /\ d \in Steps
    BY <2>1, FirstOfRound, GraphTyped DEF Skip, At
  <2>3. exec[d].state # "none" /\ exec[d].state \in States
    BY <2>1, <2>2 DEF Rounds, Typed, Execs
  <2> QED
    BY <2>1, <2>3 DEF Completed, States
<1>3. At(s) /\ EndStep(s, x) /\ UNCHANGED <<daughters, workflow, policy, req, cur, graph>>
  BY DEF Skip, wfVars, callVars
<1>4. Typed' /\ Rounds' /\ Decided' /\ Past' /\ Gates'
  <2> HIDE DEF x
  <2> QED
    BY <1>1, <1>2, <1>3, EndStepKeeps
<1>5. Ledgers'
  BY DEF Skip, callVars, logVars, daughterVars, Ledgers
<1> QED
  BY <1>4, <1>5

\* A step that is blocked before it was put to its daughter.
LEMMA BlockKeeps ==
  ASSUME RunInv, NEW s \in Steps, At(s), EndStep(s, [Untouched EXCEPT !.state = "blocked"]),
         UNCHANGED <<daughters, workflow, policy, req, cur, graph>>
  PROVE  Typed' /\ Rounds' /\ Decided' /\ Past' /\ Gates'
<1> DEFINE x == [Untouched EXCEPT !.state = "blocked"]
<1>1. x \in Execs /\ x.state = "blocked" /\ x.basis = None
  BY DEF Untouched, Execs, States, Hopping
<1> HIDE DEF x
<1> QED
  BY <1>1, EndStepKeeps DEF x

LEMMA MapFailsKeeps ==
  ASSUME RunInv, NEW s \in Steps, MapFails(s)
  PROVE  RunInv'
<1>1. Typed' /\ Rounds' /\ Decided' /\ Past' /\ Gates'
  BY BlockKeeps DEF MapFails, MayStart, wfVars, callVars
<1>2. Ledgers'
  BY DEF MapFails, callVars, logVars, daughterVars, Ledgers, RunInv
<1> QED
  BY <1>1, <1>2 DEF RunInv

\* Where neither the steps nor what they were put to changes, what was passed stays.
LEMMA PastStays ==
  ASSUME Past, Gates, UNCHANGED <<daughters, exec, graph, cur>>, cur # None => req'[cur] = req[cur]
  PROVE  Past' /\ Gates'
<1>1. Past'
  BY DEF Past, Went, Completed, Chain
<1>2. ASSUME NEW s \in Steps, Gate(s), req'[cur] = req[cur] PROVE Gate(s)'
  <2>1. Supports(s)' = Supports(s)
    BY SupportsSame
  <2>2. \A p, approvals : Leave(p, s, approvals)' = Leave(p, s, approvals)
    BY LeaveSame
  <2> QED
    BY <1>2, <2>1, <2>2 DEF Gate
<1>3. Gates'
  BY <1>2 DEF Gates, Went
<1> QED
  BY <1>1, <1>3

LEMMA EvaluateKeeps ==
  ASSUME RunInv, NEW s \in Steps, Evaluate(s)
  PROVE  RunInv'
<1> USE DEF RunInv
<1>1. /\ UNCHANGED <<daughters, workflow, policy, req, cur, graph, left, round, exec,
                     fabric, coordinated, local, delivered>>
      /\ decision' = [answer |-> Evaluated(policy, s), basis |-> policy, go |-> FALSE]
      /\ cur # None /\ round # {} /\ s = Min(round) /\ \A d \in graph[s] : Completed(d)
  BY DEF Evaluate, MayStart, At, wfVars, callVars, logVars, daughterVars
<1>2. Typed' /\ Rounds' /\ Ledgers'
  BY <1>1 DEF Typed, Rounds, Ledgers
<1>3. Past' /\ Gates'
  BY <1>1, PastStays
<1>4. Decided'
  <2>1. Evaluated(policy, s)' = Evaluated(policy, s)
    BY <1>1, EvaluatedSame
  <2>2. /\ decision'.answer = Evaluated(policy, s) /\ decision'.basis = policy
        /\ ~decision'.go
        /\ decision' = [answer |-> decision'.answer, basis |-> decision'.basis, go |-> decision'.go]
    BY <1>1
  <2> QED
    BY <1>1, <2>1, <2>2 DEF Decided, Typed, Completed
<1> QED
  BY <1>2, <1>3, <1>4

LEMMA DecideKeeps ==
  ASSUME RunInv, NEW s \in Steps, Decide(s)
  PROVE  RunInv'
<1> USE DEF RunInv
<1>1. /\ UNCHANGED <<daughters, workflow, policy, req, cur, graph, coordinated, local, delivered>>
      /\ fabric' = fabric \cup {<<req[cur].event, s>>}
      /\ At(s) /\ cur # None /\ round # {} /\ s = Min(round) /\ decision # None
  BY DEF Decide, At, RecordEvent, wfVars, callVars, daughterVars
<1>2. Ledgers'
  BY <1>1 DEF Ledgers
<1>3. CASE EndStep(s, [Untouched EXCEPT !.state = "blocked"])
  <2>1. Typed' /\ Rounds' /\ Decided' /\ Past' /\ Gates'
    BY <1>1, <1>3, BlockKeeps
  <2> QED
    BY <1>2, <2>1
<1>4. CASE /\ decision.answer.effect = "allow" \/ Approved(decision.answer, req[cur])
           /\ decision' = [decision EXCEPT !.go = TRUE] /\ UNCHANGED <<left, round, exec>>
  <2>1. Typed' /\ Rounds'
    BY <1>1, <1>4 DEF Typed, Rounds
  <2>2. Past' /\ Gates'
    BY <1>1, <1>4, PastStays
  <2>3. Decided'
    <3>1. /\ decision = [answer |-> decision.answer, basis |-> decision.basis, go |-> decision.go]
          /\ decision.basis \in Policies
          /\ decision.answer = Evaluated(decision.basis, s)
          /\ \A d \in graph[s] : Completed(d)
      BY <1>1 DEF Decided
    <3>2. /\ decision' = [answer |-> decision'.answer, basis |-> decision'.basis, go |-> decision'.go]
          /\ decision'.answer = decision.answer /\ decision'.basis = decision.basis
      BY <1>4, <3>1
    <3>3. Given(decision.answer, req[cur].approvals)
      BY <1>4 DEF Given, Approved, Typed
    <3>4. Evaluated(decision.basis, s)' = Evaluated(decision'.basis, s)
      <4>1. \A p : Evaluated(p, s)' = Evaluated(p, s)
        BY <1>1, <1>4, EvaluatedSame
      <4> QED
        BY <4>1
    <3> QED
      BY <1>1, <1>4, <3>1, <3>2, <3>3, <3>4 DEF Decided, Completed
  <2> QED
    BY <1>2, <2>1, <2>2, <2>3
<1> QED
  BY <1>3, <1>4 DEF Decide

LEMMA RaiseKeeps ==
  ASSUME RunInv, NEW s \in Steps, Raise(s)
  PROVE  RunInv'
<1> USE DEF RunInv
<1>1. /\ UNCHANGED <<workflow, policy, req, graph, fabric, coordinated, local, delivered>>
      /\ cur' = None /\ left' = {} /\ round' = {} /\ decision' = None
      /\ exec' = [t \in Steps |-> Untouched]
  BY DEF Raise, wfVars, logVars, daughterVars
<1>2. Typed' /\ Rounds' /\ Decided' /\ Gates' /\ Ledgers'
  BY <1>1, UntouchedTyped DEF Typed, Rounds, Decided, Gates, Ledgers
<1>3. Past'
  BY <1>1, UntouchedTyped DEF Past, Went, Completed
<1> QED
  BY <1>2, <1>3

LEMMA DuplicateKeeps ==
  ASSUME RunInv, NEW s \in Steps, Duplicate(s)
  PROVE  RunInv'
<1>1. Typed' /\ Rounds' /\ Decided' /\ Past' /\ Gates'
  BY ExecutedKeeps DEF Duplicate, wfVars, callVars
<1>2. Ledgers'
  BY DEF Duplicate, callVars, logVars, daughterVars, Ledgers, RunInv
<1> QED
  BY <1>1, <1>2 DEF RunInv

LEMMA ProcessKeeps ==
  ASSUME RunInv, NEW s \in Steps, Process(s)
  PROVE  RunInv'
<1> USE DEF RunInv
<1> DEFINE r == req[cur]
           e == LocalEvent(s, r)
<1>1. /\ Dispatched(s)
      /\ UNCHANGED <<daughters, workflow, policy, req, cur, graph, fabric, coordinated>>
      /\ ~HasKey(e) /\ local' = local \cup {e}
  BY DEF Process, wfVars, callVars, logVars
<1>2. PICK st \in {"duplicate", "failed", "abstained", "blocked", "simulated", "succeeded"} :
        EndStep(s, Executed(s, st))
  BY DEF Process, LocalStatus
<1>3. Typed' /\ Rounds' /\ Decided' /\ Past' /\ Gates'
  BY <1>1, <1>2, ExecutedKeeps
<1>4. Ledgers'
  <2>1. e.step = s /\ e.event = r.event /\ e.key = r.key
    BY DEF LocalEvent
  <2>2. <<r.event, s>> \in fabric
    BY <1>1, DispatchedMay
  <2>3. \A l \in local' : <<l.event, l.step>> \in fabric'
    BY <1>1, <2>1, <2>2 DEF Ledgers
  <2>4. /\ delivered' \in [Keys \X Steps \X Actions -> Nat]
        /\ \A x \in Keys \X Steps \X Actions :
             delivered'[x] = delivered[x] \/ (x[1] = r.key /\ x[2] = s)
    BY DEF Process, Ledgers
  <2>5. \A x \in Keys \X Steps \X Actions :
          delivered'[x] # 0 => \E l \in local' : l.step = x[2] /\ l.key = x[1]
    BY <1>1, <2>1, <2>4 DEF Ledgers
  <2> QED
    BY <1>1, <2>3, <2>4, <2>5 DEF Ledgers
<1> QED
  BY <1>3, <1>4
-----------------------------------------------------------------------------
(* The beginning and the end of a call, and what is set up besides. *)

\* While no call runs, what is set up is only typed.
LEMMA IdleKeeps ==
  ASSUME RunInv, cur = None, cur' = None, UNCHANGED <<left, round, exec, decision, graph>>,
         UNCHANGED <<fabric, coordinated, local, delivered>>,
         policy' \in Policies, workflow' \in Workflows \cup {None},
         req' \in [Calls -> Requests \cup {NoRequest}]
  PROVE  RunInv'
BY DEF RunInv, Typed, Rounds, Decided, Past, Went, Completed, Chain, Gates, Ledgers

LEMMA RefuseKeeps ==
  ASSUME RunInv, NEW c \in Calls, NEW r \in Requests, Refuse(c, r)
  PROVE  RunInv'
<1>1. req' \in [Calls -> Requests \cup {NoRequest}]
  BY DEF Refuse, RunInv, Typed
<1> QED
  BY <1>1, IdleKeeps DEF Refuse, wfVars, runVars, logVars, daughterVars, RunInv, Typed

LEMMA BeginKeeps ==
  ASSUME RunInv, NEW c \in Calls, NEW r \in Requests, Begin(c, r)
  PROVE  RunInv'
<1> USE DEF RunInv
<1>1. /\ UNCHANGED <<workflow, policy, decision, fabric, coordinated, local, delivered>>
      /\ cur = None /\ cur' = c /\ c # None /\ graph' = workflow /\ workflow # None
      /\ left' = Steps /\ round' = Ready(workflow, Steps)
      /\ exec' = [s \in Steps |-> Untouched]
      /\ req' = [req EXCEPT ![c] = r] /\ coordinated[r.event] = None
  BY NervousAssumption DEF Begin, Seen, wfVars, logVars, daughterVars
<1>2. Typed'
  BY <1>1, UntouchedTyped DEF Typed
<1>3. Rounds'
  BY <1>1 DEF Rounds, Ready
<1>4. Decided'
  BY <1>1 DEF Decided
<1>5. Past' /\ Gates'
  BY <1>1, UntouchedTyped DEF Past, Gates, Went, Completed
<1>6. Ledgers'
  <2>1. req'[cur'] = r
    BY <1>1 DEF Typed
  <2> QED
    BY <1>1, <2>1 DEF Ledgers
<1> QED
  BY <1>2, <1>3, <1>4, <1>5, <1>6

LEMMA FinishKeeps ==
  ASSUME RunInv, Finish
  PROVE  RunInv'
<1> USE DEF RunInv
<1>1. /\ UNCHANGED <<workflow, policy, req, graph, left, round, exec, decision, fabric, local, delivered>>
      /\ cur' = None /\ left = {}
  BY DEF Finish, wfVars, runVars, daughterVars
<1>2. decision = None
  BY <1>1 DEF Decided, Rounds
<1>3. Typed' /\ Rounds' /\ Decided' /\ Gates' /\ Ledgers'
  BY <1>1, <1>2 DEF Typed, Rounds, Decided, Gates, Ledgers
<1>4. Past'
  BY <1>1 DEF Past, Went, Completed, Chain
<1> QED
  BY <1>3, <1>4

LEMMA SetPolicyKeeps ==
  ASSUME RunInv, NEW p \in Policies, SetPolicy(p)
  PROVE  RunInv'
<1> USE DEF RunInv
<1>1. /\ UNCHANGED <<daughters, workflow, req, cur, graph, left, round, exec, decision,
                     fabric, coordinated, local, delivered>>
      /\ policy' = p
  BY DEF SetPolicy, callVars, runVars, logVars, daughterVars
<1>2. Typed' /\ Rounds' /\ Ledgers'
  BY <1>1 DEF Typed, Rounds, Ledgers
<1>3. Past' /\ Gates'
  BY <1>1, PastStays
<1>4. Decided'
  <2>1. \A q, s : Evaluated(q, s)' = Evaluated(q, s)
    BY <1>1, EvaluatedSame
  <2>2. Evaluated(decision.basis, Min(round))' = Evaluated(decision.basis, Min(round))
    BY <1>1, <2>1
  <2> QED
    BY <1>1, <2>2 DEF Decided, Completed
<1> QED
  BY <1>2, <1>3, <1>4

LEMMA StutterKeeps == RunInv /\ UNCHANGED vars => RunInv'
<1> SUFFICES ASSUME RunInv, UNCHANGED vars PROVE RunInv'
  OBVIOUS
<1> USE DEF RunInv, vars, wfVars, callVars, runVars, logVars, daughterVars
<1>1. Typed' /\ Rounds' /\ Ledgers'
  BY DEF Typed, Rounds, Ledgers
<1>2. Past' /\ Gates'
  BY PastStays
<1>3. Decided'
  <2>1. \A q, s : Evaluated(q, s)' = Evaluated(q, s)
    BY EvaluatedSame
  <2>2. Evaluated(decision.basis, Min(round))' = Evaluated(decision.basis, Min(round))
    BY <2>1
  <2> QED
    BY <2>2 DEF Decided, Completed
<1> QED
  BY <1>1, <1>2, <1>3

LEMMA InitRuns == Init => RunInv
<1> SUFFICES ASSUME Init PROVE RunInv
  OBVIOUS
<1>1. Typed
  BY UntouchedTyped DEF Init, Typed
<1>2. Rounds /\ Decided /\ Gates
  BY DEF Init, Rounds, Decided, Gates
<1>3. Past
  BY UntouchedTyped DEF Init, Past, Went, Completed
<1>4. Ledgers
  BY DEF Init, Ledgers
<1> QED
  BY <1>1, <1>2, <1>3, <1>4 DEF RunInv

LEMMA NextRuns == RunInv /\ [Next]_vars => RunInv'
<1> SUFFICES ASSUME RunInv, [Next]_vars PROVE RunInv'
  OBVIOUS
<1>1. ASSUME NEW s \in Steps, Run(s) PROVE RunInv'
  BY <1>1, SkipKeeps, MapFailsKeeps, EvaluateKeeps, DecideKeeps, RaiseKeeps, DuplicateKeeps,
     ProcessKeeps DEF Run
<1>2. ASSUME NEW c \in Calls, NEW r \in Requests, Refuse(c, r) \/ Begin(c, r) PROVE RunInv'
  BY <1>2, RefuseKeeps, BeginKeeps
<1>3. ASSUME (\E o \in Offers : RegisterDaughter(o)) \/ (\E g \in Workflows : RegisterWorkflow(g))
      PROVE  RunInv'
  <2>1. /\ cur = None /\ UNCHANGED <<cur, left, round, exec, decision, graph, req, policy>>
        /\ UNCHANGED <<fabric, coordinated, local, delivered>>
        /\ workflow' \in Workflows \cup {None}
    BY <1>3 DEF RegisterDaughter, RegisterWorkflow, callVars, runVars, logVars, daughterVars,
                RunInv, Typed
  <2> QED
    BY <2>1, IdleKeeps DEF RunInv, Typed
<1> QED
  BY <1>1, <1>2, <1>3, FinishKeeps, SetPolicyKeeps, StutterKeeps DEF Next

\* The invariant of the runs, for any workflows, policies, daughters and requests.
THEOREM RunInvariant == Spec => []RunInv
BY InitRuns, NextRuns, PTL DEF Spec
-----------------------------------------------------------------------------
\* No order of the rounds loses or fabricates a cause: skipped only over what
\* came to nothing, dispatched only after everything it depends on, and nothing
\* done upon an event that is not on record.
THEOREM CausalAlways == Spec => []Causal
<1>1. RunInv => Causal
  BY DEF RunInv, Past, Ledgers, Causal
<1> QED
  BY <1>1, RunInvariant, PTL

\* Whatever policies replace each other, a step reaches its daughter only with
\* the leave, and within the hop limit, of the policy it was put to.
THEOREM PolicyGatedAlways == Spec => []PolicyGated
<1>1. ASSUME RunInv, cur # None, NEW s \in Steps, Went(s)
      PROVE  LET p == exec[s].basis IN
             /\ ~Chain(p.maxHops + 1, s)
             /\ p.registered => Supports(s)
             /\ Leave(p, s, req[cur].approvals)
  <2> DEFINE p == exec[s].basis
  <2>1. /\ exec[s].hops <= p.maxHops /\ (p.registered => Supports(s))
        /\ Leave(p, s, req[cur].approvals)
        /\ \A n \in Nat : Chain(n, s) => n <= exec[s].hops
    BY <1>1 DEF RunInv, Gates, Gate, Past
  <2>2. exec[s] \in Execs /\ p # None
    BY <1>1 DEF RunInv, Typed, Went
  <2>3. p \in Policies /\ exec[s].hops \in 0..256
    BY <2>2 DEF Execs, Hopping
  <2>4. p.maxHops \in Nat
    BY <2>3, PolicyTyped
  <2>5. \A h \in 0..256, m \in Nat : h <= m => m + 1 \in Nat /\ ~(m + 1 <= h)
    OBVIOUS
  <2>6. ~Chain(p.maxHops + 1, s)
    BY <2>1, <2>3, <2>4, <2>5, Zenon
  <2> QED
    BY <2>1, <2>6
<1>2. RunInv => PolicyGated
  BY <1>1 DEF PolicyGated, Leave
<1> QED
  BY <1>2, RunInvariant, PTL

\* An action takes effect once for a key, and never again once the root event of
\* the call is recorded: a daughter's ledger holds the key of all it ever did.
THEOREM AtMostOnceAlways == Spec => AtMostOnce
<1>1. ASSUME RunInv, [Next]_vars, NEW x \in Keys \X Steps \X Actions, delivered'[x] # delivered[x]
      PROVE  delivered'[x] = 1 /\ coordinated[req[cur].event] = None
  <2>1. PICK s \in Steps : Process(s)
    BY <1>1 DEF Next, Run, Refuse, Begin, Skip, MapFails, Evaluate, Decide, Raise, Duplicate,
                Finish, RegisterDaughter, SetPolicy, RegisterWorkflow, daughterVars, vars
  <2>2. cur # None /\ ~HasKey(LocalEvent(s, req[cur]))
    BY <2>1 DEF Process, Dispatched, At
  <2>3. x[1] = req[cur].key /\ x[2] = s /\ delivered'[x] = delivered[x] + 1
    BY <1>1, <2>1 DEF Process, RunInv, Ledgers
  <2>4. delivered[x] = 0
    BY <1>1, <2>2, <2>3 DEF RunInv, Ledgers, HasKey, LocalEvent
  <2> QED
    BY <1>1, <2>2, <2>3, <2>4 DEF RunInv, Ledgers
<1>2. RunInv /\ [Next]_vars =>
        [\A x \in Keys \X Steps \X Actions : delivered'[x] # delivered[x] =>
           delivered'[x] = 1 /\ coordinated[req[cur].event] = None]_vars
  BY <1>1
<1> QED
  BY <1>2, RunInvariant, PTL DEF Spec, AtMostOnce
=============================================================================
