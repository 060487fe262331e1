---------------------------- MODULE Inheritance ----------------------------
(***************************************************************************)
(* Inherited intelligence (intelligence.py): a foundry exports the fields  *)
(* it related as patterns, other foundries import them in packs, and the   *)
(* composer of one of them accepts a mapping that enough origins vouch     *)
(* for.                                                                    *)
(*                                                                         *)
(* A foundry is one process of the research API: its registry of patterns  *)
(* and its compositions are in memory, and lost with it.  Its threads      *)
(* compose, export and import at the same time; the patterns of a          *)
(* composition are chosen once and read again, one by one, as it goes on.  *)
(* A pack is a file: it may be imported anywhere, never, or often.         *)
(*                                                                         *)
(* A pattern is its payload, as it is for the hash that merges patterns.   *)
(* Patterns of repairs and tissues, which the composer does not use, the   *)
(* privacy scan, signatures and hand-written patterns are left out.        *)
(* Scores are 0..10000, rounded down where the code rounds to six digits.  *)
(* Bounds: MaxExports, MaxPacks and MaxRestarts.                           *)
(***************************************************************************)
EXTENDS Composition

CONSTANTS
  Foundries, Threads,
  Foundry,          \* of a thread
  Source, Intents,  \* of a foundry: the source profile and the targets it composes
  TermSim,          \* lexical_similarity, from field or object name to terms
  Origins, Scopes,  \* origin_ref and consent_scope of an export
  MaxExports, MaxPacks, MaxRestarts

ASSUME InheritanceAssumption ==
  /\ Foundry \in [Threads -> Foundries]
  /\ TermSim \in [Names -> [Names -> 0..100]]
  /\ IsFiniteSet(Origins)
  /\ \A h \in Foundries : \A i \in DOMAIN Intents[h] : WellFormed(Intents[h][i].profile)

VARIABLES
  registry,      \* of a foundry: pattern -> [provenance, confidence]
  compositions,  \* of a foundry: what it composed and registered
  packs,         \* pack files
  busy,          \* of a thread: what it is doing
  exported,      \* auxiliary: every <<pattern, origin, scope>> ever exported
  restarts

inheritanceVars == <<registry, compositions, packs, busy, exported, restarts>>

MinimumOrigins == 2      \* minimum_distinct_origins
AcceptOrigins == 3       \* automatic_accept_origins
MinimumConfidence == 7200
MinimumFit == 6800
MaximumBoost == 2500
Shared == "sanitized_shared"

None == [p \in {} |-> Null]
Call(step, patterns, adds) == [step |-> step, patterns |-> patterns, adds |-> adds]
NoCall == Call("idle", {}, {})

InheritanceInit ==
  /\ registry = [h \in Foundries |-> None]
  /\ compositions = [h \in Foundries |-> {}]
  /\ packs = {}
  /\ busy = [t \in Threads |-> NoCall]
  /\ exported = {}
  /\ restarts = 0
-----------------------------------------------------------------------------
(* The registry *)
OriginsOf(entry) == DOMAIN entry.provenance
SharedBy(entry) == {o \in OriginsOf(entry) : entry.provenance[o] = Shared}

\* eligible(), for semantic mappings.  (Mutant: whatever the scope.)
ScopelessEligible(reg) ==
  {p \in DOMAIN reg : reg[p].confidence >= MinimumConfidence /\ Cardinality(OriginsOf(reg[p])) >= MinimumOrigins}
Eligible(reg) ==
  {p \in DOMAIN reg : reg[p].confidence >= MinimumConfidence /\ Cardinality(SharedBy(reg[p])) >= MinimumOrigins}

\* add(): an origin that is known keeps its scope.
Joined(f, g) == [o \in DOMAIN f \cup DOMAIN g |-> IF o \in DOMAIN f THEN f[o] ELSE g[o]]
Merged(old, new) ==
  [provenance |-> Joined(old.provenance, new.provenance), confidence |-> Max({old.confidence, new.confidence})]
Recorded(reg, p, entry) ==
  [q \in DOMAIN reg \cup {p} |->
     IF q # p THEN reg[q] ELSE IF p \in DOMAIN reg THEN Merged(reg[p], entry) ELSE entry]
-----------------------------------------------------------------------------
(* The matcher *)
Fit(so, s, to, t, p) ==
  36 * TermSim[s.name][p.source] + 36 * TermSim[t.name][p.target]
    + 5 * (TermSim[so.id][p.sourceObject] + TermSim[to.id][p.targetObject])
    + 9 * (TypeCompatibility(s.type, p.sourceType) + TypeCompatibility(t.type, p.targetType))

InheritedScore(entry, fit) ==
  Min({9900, (72 * entry.confidence + 28 * fit) \div 100 + Min({500, 100 * (Cardinality(OriginsOf(entry)) - 1)})})

\* What the patterns say of target field t: pattern, source field and score.
Says(reg, p, s, fit) == [pattern |-> p, source |-> s.name, score |-> InheritedScore(reg[p], fit)]
Evidence(reg, patterns, so, to, t) ==
  {Says(reg, c[1], c[2], Fit(so, c[2], to, t, c[1])) :
     c \in {d \in patterns \X Range(so.fields) : Fit(so, d[2], to, t, d[1]) >= MinimumFit}}

\* The best of it; of equal scores some one counts (the code's order of patterns).
Strongest(evidence) == {v \in evidence : \A w \in evidence : w.score <= v.score}

\* It raises the score of the edge that there is, if any, and no further than the boost.
Boosted(v, old) == Min({v.score} \cup {e.score + MaximumBoost : e \in old})
Improves(v, old) == \A e \in old : Boosted(v, old) > e.score
InheritedEdge(reg, v, t, score) ==
  [source |-> v.source, target |-> t.name, score |-> score,
   relation |-> IF score >= 9000 THEN "exact" ELSE "likely",
   transforms |-> v.pattern.transforms,
   review |-> score < ReviewBelow \/ Cardinality(OriginsOf(reg[v.pattern])) < AcceptOrigins,
   patterns |-> {v.pattern}]
Raised(reg, v, t, old) == IF Improves(v, old) THEN {InheritedEdge(reg, v, t, Boosted(v, old))} ELSE old
Advised(reg, best, t, old) == IF best = {} THEN old ELSE Raised(reg, CHOOSE v \in best : TRUE, t, old)
Inherited(reg, patterns, so, to, t, old) == Advised(reg, Strongest(Evidence(reg, patterns, so, to, t)), t, old)

EdgesTo(graph, t) == {e \in graph.edges : e.target = t.name}
\* Questions about targets whose edge is accepted are dropped.  (Mutant: about all that
\* inherited an edge.)
Accepted(e) == e.score >= ReviewBelow /\ ~e.review
HastyUnanswered(graph, edges) == {q \in graph.questions : \A e \in edges : e.target = q.target => e.patterns = {}}
Unanswered(graph, edges) == {q \in graph.questions : \A e \in edges : e.target = q.target => ~Accepted(e)}
Answered(graph, edges) == [edges |-> edges, questions |-> Unanswered(graph, edges)]
Raise(reg, patterns, so, to, graph) ==
  Answered(graph, UNION {Inherited(reg, patterns, so, to, t, EdgesTo(graph, t)) : t \in Range(to.fields)})
InheritedGraph(reg, patterns, so, to) ==
  IF patterns = {} THEN BuildGraph(so, to) ELSE Raise(reg, patterns, so, to, BuildGraph(so, to))
-----------------------------------------------------------------------------
(* from_composition(): a pattern for every edge that needs no review *)
FieldNamed(fields, n) == CHOOSE f \in Range(fields) : f.name = n
PatternOf(so, target, e) ==
  [source |-> e.source, target |-> e.target, sourceObject |-> so.id, targetObject |-> target.surface.id,
   sourceType |-> FieldNamed(so.fields, e.source).type, targetType |-> FieldNamed(target.surface.fields, e.target).type,
   required |-> <<FieldNamed(so.fields, e.source).required, FieldNamed(target.surface.fields, e.target).required>>,
   relation |-> e.relation, transforms |-> e.transforms]
Patterns(so, target, origin, scope) ==
  {[pattern |-> PatternOf(so, target, e),
    entry |-> [provenance |-> [o \in {origin} |-> scope], confidence |-> e.score]] :
      e \in {f \in target.graph.edges : f.relation # "ambiguous" /\ ~f.review}}
Exports(h, result, origin, scope) ==
  UNION {Patterns(ResolveSourceObject(Source[h], Null), target, origin, scope) : target \in Range(result.targets)}
-----------------------------------------------------------------------------
Proceed(t, c) == busy' = [busy EXCEPT ![t] = c]

\* compose: the eligible patterns are listed, if it is to inherit; then edges are built.
List(t, inherit) ==
  /\ busy[t].step = "idle"
  /\ Proceed(t, Call("match", IF inherit THEN Eligible(registry[Foundry[t]]) ELSE {}, {}))
  /\ UNCHANGED <<registry, compositions, packs, exported, restarts>>

InheritedOver(reg, patterns, so, places) ==
  ComposeOver(so, places, [i \in DOMAIN places |-> InheritedGraph(reg, patterns, so, places[i].surface)])
InheritedResult(reg, patterns, so, intents) ==
  IF so = Null THEN Null ELSE InheritedOver(reg, patterns, so, Places(so, intents))

Relate(t) ==
  LET h == Foundry[t]
      result == InheritedResult(registry[h], busy[t].patterns, ResolveSourceObject(Source[h], Null), Intents[h]) IN
  /\ busy[t].step = "match"
  /\ compositions' = [compositions EXCEPT ![h] = @ \cup ({result} \ {Null})]
  /\ Proceed(t, NoCall)
  /\ UNCHANGED <<registry, packs, exported, restarts>>

\* The patterns of a composition are exported, then added one after the other.
Export(t, result, origin, scope) ==
  LET adds == Exports(Foundry[t], result, origin, scope) IN
  /\ busy[t].step = "idle" /\ result \in compositions[Foundry[t]]
  /\ Cardinality(exported) < MaxExports
  /\ Proceed(t, Call("add", {}, adds))
  /\ exported' = exported \cup {<<a.pattern, origin, scope>> : a \in adds}
  /\ UNCHANGED <<registry, compositions, packs, restarts>>

Add(t) == \E a \in busy[t].adds :
  /\ busy[t].step = "add"
  /\ registry' = [registry EXCEPT ![Foundry[t]] = Recorded(@, a.pattern, a.entry)]
  /\ Proceed(t, IF busy[t].adds = {a} THEN NoCall ELSE Call("add", {}, busy[t].adds \ {a}))
  /\ UNCHANGED <<compositions, packs, exported, restarts>>

\* A pack of the eligible patterns, or of all.
Pack(h, quarantined) ==
  LET chosen == IF quarantined THEN DOMAIN registry[h] ELSE Eligible(registry[h]) IN
  /\ chosen # {} /\ Cardinality(packs) < MaxPacks
  /\ packs' = packs \cup {{[pattern |-> p, entry |-> registry[h][p]] : p \in chosen}}
  /\ UNCHANGED <<registry, compositions, busy, exported, restarts>>

Import(t, pack) ==
  /\ busy[t].step = "idle" /\ pack \in packs
  /\ Proceed(t, Call("add", {}, pack))
  /\ UNCHANGED <<registry, compositions, packs, exported, restarts>>

RestartFoundry(h) ==
  /\ restarts < MaxRestarts /\ restarts' = restarts + 1
  /\ registry' = [registry EXCEPT ![h] = None]
  /\ compositions' = [compositions EXCEPT ![h] = {}]
  /\ busy' = [t \in Threads |-> IF Foundry[t] = h THEN NoCall ELSE busy[t]]
  /\ UNCHANGED <<packs, exported>>

InheritanceNext ==
  \/ \E t \in Threads :
       \/ Relate(t) \/ Add(t) \/ \E inherit \in BOOLEAN : List(t, inherit)
       \/ \E r \in compositions[Foundry[t]], o \in Origins, s \in Scopes : Export(t, r, o, s)
       \/ \E pack \in packs : Import(t, pack)
  \/ \E h \in Foundries : RestartFoundry(h) \/ \E q \in BOOLEAN : Pack(h, q)

InheritanceSpec == InheritanceInit /\ [][InheritanceNext]_inheritanceVars
-----------------------------------------------------------------------------
Edges(h) == UNION {UNION {target.graph.edges : target \in Range(r.targets)} : r \in compositions[h]}
Vouch(p, scopes) == {o \in Origins : \E s \in scopes : <<p, o, s>> \in exported}

\* "Only sanitized_shared provenance enters the cross-tenant eligible pool", "minimum three
\* distinct origins for automatic semantic acceptance" (PHASE4): a mapping is inherited
\* only if two origins exported its pattern as shared, and accepted without review only if
\* three exported it - however packs travelled and whatever was lost or imported twice.
ConsensusBeforeAcceptance == \A h \in Foundries : \A e \in Edges(h) : \A p \in e.patterns :
  /\ Cardinality(Vouch(p, {Shared})) >= MinimumOrigins
  /\ ~e.review => Cardinality(Vouch(p, Scopes)) >= AcceptOrigins

\* "Stronger consensus is required to resolve review automatically" (PHASE4): a question the
\* deterministic matcher asks is dropped only for a mapping three origins exported.  And a
\* composition that is held back without a question holds an inherited mapping: advice too
\* weak to be accepted replaces the baseline's edge and is not asked about.  A composition
\* that is ready maps every required field.
ReviewKept == \A h \in Foundries : \A r \in compositions[h] :
  /\ \A target \in Range(r.targets) :
       \A q \in BuildGraph(ResolveSourceObject(Source[h], Null), target.surface).questions \ target.graph.questions :
         \E e \in target.graph.edges : \E p \in e.patterns :
           e.target = q.target /\ ~e.review /\ Cardinality(Vouch(p, Scopes)) >= AcceptOrigins
  /\ ~r.ready /\ r.questions = {} =>
       \E target \in Range(r.targets) : \E e \in target.graph.edges : e.review /\ e.patterns # {}
  /\ r.ready => \A target \in Range(r.targets) : Covered(target)
=============================================================================
