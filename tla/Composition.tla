---------------------------- MODULE Composition ----------------------------
(***************************************************************************)
(* How a daughter is composed (composition.py) from two or more system     *)
(* profiles: source object, target object and operation are resolved, the  *)
(* semantic matcher (semantic.py) relates fields, the action is built from *)
(* its edges and validated (validation.py).  These are operators; what     *)
(* composes, and when, is in Platform and Inheritance.                     *)
(*                                                                         *)
(* Scores are integers: a part is 0..100, a total 0..10000, so that the    *)
(* weights and thresholds of the code are exact.  A name or a path is one  *)
(* value; how similar two of them are (naming.py) is given by the constant *)
(* LexSim.  Nested schemas, defaults and constant mappings are left out.   *)
(***************************************************************************)
EXTENDS Integers, Sequences, FiniteSets, FiniteSetsExt, SequencesExt

CONSTANTS
  Names,    \* names of objects and fields
  KeyNames, \* those that name an identifier: "id", "key", "..._id"
  LexSim,   \* lexical_similarity, from source to target name
  Null      \* None, where the code has an optional value

ASSUME CompositionAssumption ==
  /\ KeyNames \subseteq Names
  /\ LexSim \in [Names -> [Names -> 0..100]]
  /\ \A n \in Names : LexSim[n][n] = 100

MinimumScore == 5800     \* minimum_mapping_score
ReviewBelow == 7800      \* require_review_below
Ambiguity == 800         \* the gap below which two candidates are ambiguous

\* A profile is [system, objects, operations]; an object [id, fields, identifiers];
\* a field [name, type, required, words]; an operation [id, object, kind, schema],
\* the schema a sequence of fields, empty when there is none.
Paths(fields) == {f.name : f \in Range(fields)}
RequiredPaths(fields) == {f.name : f \in {g \in Range(fields) : g.required}}
HasObject(p, o) == \E obj \in Range(p.objects) : obj.id = o
ObjectOf(p, o) == CHOOSE obj \in Range(p.objects) : obj.id = o
HasOperation(p, o) == \E op \in Range(p.operations) : op.id = o
OperationOf(p, o) == CHOOSE op \in Range(p.operations) : op.id = o

\* An object, and the one that a schema describes, names a field once.
UniqueFields(fields) == \A i, j \in DOMAIN fields : fields[i].name = fields[j].name => i = j
WellFormed(p) ==
  /\ \A o \in Range(p.objects) : UniqueFields(o.fields)
  /\ \A op \in Range(p.operations) : UniqueFields(op.schema)
-----------------------------------------------------------------------------
(* semantic.py *)

Numeric == {"integer", "number", "float", "decimal"}

TypeCompatibility(s, t) ==
  CASE s = t                                          -> 100
    [] s \in Numeric /\ t \in Numeric                 -> 85
    [] "any" \in {s, t}                               -> 60
    [] {s, t} = {"enum", "string"}                    -> 75
    [] s = "string" /\ t \in Numeric \cup {"boolean"} -> 35
    [] t = "string" /\ s \in Numeric \cup {"boolean"} -> 55
    [] OTHER                                          -> 0

\* Words in common, of all words.
DescriptionSimilarity(v, w) ==
  IF v = {} \/ w = {} THEN 0
  ELSE (100 * Cardinality(v \cap w)) \div Cardinality(v \cup w)

\* The score of mapping field s of object so to field t of object to.
Score(so, s, to, t) ==
  LET both == s.name \in so.identifiers /\ t.name \in to.identifiers
      lexical == IF both THEN Max({LexSim[s.name][t.name], 86}) ELSE LexSim[s.name][t.name]
      total == 58 * lexical + 24 * TypeCompatibility(s.type, t.type)
                 + 10 * DescriptionSimilarity(s.words, t.words) + (IF both THEN 800 ELSE 0)
                 + (IF s.required = t.required THEN 200 ELSE 0)
  IN  Min({10000, total})

SuggestTransforms(s, t) ==
  CASE s.type \in {"integer", "number"} /\ t.type = "string" -> <<"to_string">>
    [] s.type = "string" /\ t.type = "integer"               -> <<"to_int">>
    [] s.type = "string" /\ t.type = "number"                -> <<"to_float">>
    [] OTHER                                                 -> <<>>

\* The first of the highest scores: Python's sort is stable.
Best(score, I) == Min({i \in I : \A j \in I : score[j] <= score[i]})

\* What the matcher makes of one target field, whose best candidate i has the given score:
\* an edge or none, and whether the edge or its absence raises a question.
NoEdge(t) == [edges |-> {}, asks |-> t.required]
Edge(s, t, total, close, review) ==
  [edges |-> {[source |-> s.name, target |-> t.name, score |-> total,
               relation |-> IF close THEN "ambiguous" ELSE IF total >= 9000 THEN "exact" ELSE "likely",
               transforms |-> SuggestTransforms(s, t), review |-> review, patterns |-> {}]},
   asks |-> review]
Close(score, i) ==
  \E j \in DOMAIN score \ {i} : score[i] - score[j] < Ambiguity /\ score[j] >= MinimumScore
Review(score, i) == score[i] < ReviewBelow \/ Close(score, i)
Judged(so, t, score, i) ==
  IF score[i] < MinimumScore THEN NoEdge(t)
  ELSE Edge(so.fields[i], t, score[i], Close(score, i), Review(score, i))
Ranked(so, t, score) == Judged(so, t, score, Best(score, DOMAIN score))
Match(so, to, t) ==
  IF so.fields = <<>> THEN NoEdge(t)
  ELSE Ranked(so, t, [i \in DOMAIN so.fields |-> Score(so, so.fields[i], to, t)])

\* build_graph: at most one edge for a target field, and the open questions.
Graph(found) ==
  [edges |-> UNION {m.edges : m \in Range(found)},
   questions |-> {[target |-> t.name, required |-> t.required] : t \in {u \in DOMAIN found : found[u].asks}}]
BuildGraph(so, to) == Graph([t \in Range(to.fields) |-> Match(so, to, t)])

\* rank_target_objects: how well an object of the target suits the source object.
Suits(so, to) ==
  LET best(n) == Max({LexSim[m][n] : m \in Paths(so.fields)})
      overlap == IF so.fields = <<>> \/ to.fields = <<>> THEN 0
                 ELSE (45 * MapThenSumSet(best, Paths(to.fields))) \div Cardinality(Paths(to.fields))
  IN  Min({10000, 55 * LexSim[so.id][to.id] + overlap})
-----------------------------------------------------------------------------
(* composition.py: what is asked for, resolved; Null where the code raises *)

ResolveSourceObject(p, o) ==
  CASE o # Null                                     -> IF HasObject(p, o) THEN ObjectOf(p, o) ELSE Null
    [] o = Null /\ Len(p.objects) = 1               -> p.objects[1]
    [] OTHER                                        -> Null

\* The object that no other comes close to, as an only one does.
Distinct(score) == {i \in DOMAIN score : \A j \in DOMAIN score \ {i} : score[i] - score[j] >= Ambiguity}
Suited(p, clear) == IF clear = {} THEN Null ELSE p.objects[CHOOSE i \in clear : TRUE]
ResolveTargetObject(so, p, o) ==
  IF o = Null THEN Suited(p, Distinct([i \in DOMAIN p.objects |-> Suits(so, p.objects[i])]))
  ELSE IF HasObject(p, o) THEN ObjectOf(p, o) ELSE Null

Preference == <<"upsert", "create", "update", "publish", "custom">>
Rank(op) == CHOOSE i \in DOMAIN Preference : Preference[i] = op.kind

\* An explicit operation is taken as it is; otherwise the preferred kind must be unique.
OnlyOf(S) == IF Cardinality(S) = 1 THEN CHOOSE x \in S : TRUE ELSE Null
Preferred(candidates) == OnlyOf({op \in candidates : \A other \in candidates : Rank(op) <= Rank(other)})
ResolveOperation(p, o, id) ==
  IF id # Null THEN IF HasOperation(p, id) THEN OperationOf(p, id) ELSE Null
  ELSE Preferred({op \in Range(p.operations) : op.object \in {Null, o} /\ op.kind \in Range(Preference)})

\* The fields to be mapped are those of the request, where the operation has a schema.
MappingObject(to, op) ==
  IF op.schema = <<>> THEN to
  ELSE [id |-> to.id, fields |-> op.schema, identifiers |-> KeyNames \cap Paths(op.schema)]

\* Ambiguous edges are left out of the action; edges that need review are not.
Mappings(graph) ==
  {[source |-> e.source, target |-> e.target] : e \in {f \in graph.edges : f.relation # "ambiguous"}}

\* What ContractValidator finds wrong with the generated action.  A target that the schema
\* does not name is none: schemas allow additional properties.
Errors(so, op, mappings) ==
  {m \in mappings : m.source \notin Paths(so.fields)}
    \cup (RequiredPaths(op.schema) \ {m.target : m \in mappings})

\* Where an intent is to act: the operation and the object whose fields are to be mapped.
Place(op, to) == IF op = Null THEN Null ELSE [operation |-> op, surface |-> MappingObject(to, op)]
Located(intent, to) ==
  IF to = Null THEN Null ELSE Place(ResolveOperation(intent.profile, to.id, intent.operation), to)
Places(so, intents) ==
  [i \in DOMAIN intents |-> Located(intents[i], ResolveTargetObject(so, intents[i].profile, intents[i].object))]

\* One target of compose(): Null where the code raises CompositionError.
Checked(so, place, graph, mappings) ==
  IF Errors(so, place.operation, mappings) # {} THEN Null
  ELSE [operation |-> place.operation.id, graph |-> graph, mappings |-> mappings, surface |-> place.surface]
ComposeTarget(so, place, graph) == Checked(so, place, graph, Mappings(graph))

\* compose(): the targets, the open questions, and whether nothing is left to review.
Ready(targets) ==
  \A t \in Range(targets) : (\A q \in t.graph.questions : ~q.required) /\ (\A e \in t.graph.edges : ~e.review)

\* Every required field of the surface is mapped.
Covered(target) == RequiredPaths(target.surface.fields) \subseteq {m.target : m \in target.mappings}

\* The open questions, each once.
Questions(targets) == UNION {t.graph.questions : t \in Range(targets)}

\* _verification_bundle: what is to be verified of every daughter, and the objects, with
\* their required fields, whose mappings are.
GeneralCases == {"contract", "replay", "idempotency", "permission", "drift", "failure_isolation"}
VerificationBundle(targets) ==
  [cases |-> GeneralCases, mappings |-> {<<t.surface.id, RequiredPaths(t.surface.fields)>> : t \in Range(targets)}]

Result(targets) ==
  IF Null \in Range(targets) THEN Null
  ELSE [targets |-> targets, questions |-> Questions(targets), verification |-> VerificationBundle(targets),
        ready |-> Ready(targets)]
\* Over the graphs the engine builds, one for every place.
ComposeOver(so, places, graphs) ==
  IF Null \in Range(places) THEN Null ELSE Result([i \in DOMAIN places |-> ComposeTarget(so, places[i], graphs[i])])
Baseline(so, places) == ComposeOver(so, places, [i \in DOMAIN places |-> BuildGraph(so, places[i].surface)])
Sourced(so, intents) == IF so = Null THEN Null ELSE Baseline(so, Places(so, intents))
Compose(source, object, intents) == Sourced(ResolveSourceObject(source, object), intents)
=============================================================================
