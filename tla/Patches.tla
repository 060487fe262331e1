------------------------------ MODULE Patches -------------------------------
(***************************************************************************)
(* What a repair is made of (repair.py): the patches generated from a      *)
(* drift, the policy they are held to, how they are applied to a contract  *)
(* and its profiles, and the patches that take them back.                  *)
(*                                                                         *)
(* Documents are trees of objects, lists and leaves; a path is the         *)
(* sequence of its keys, which are texts: a list takes one as a number     *)
(* (Numerals).  Negative positions, and the version that is stamped on a   *)
(* patched contract, are left out.                                         *)
(***************************************************************************)
EXTENDS Integers, Sequences, SequencesExt, FiniteSets

CONSTANTS
  Drifts,     \* the drifts to propose for, each with the documents it was seen on
  Numerals    \* the texts of 0, 1, 2 and so on, as many as there are list places

End == "-"

ASSUME PatchesAssumption ==
  /\ \A i \in DOMAIN Numerals : i \in Nat \ {0} /\ Numerals[i] # End
  /\ \A i, j \in DOMAIN Numerals : Numerals[i] = Numerals[j] => i = j

Least(found) == IF found = {} THEN 0 ELSE CHOOSE i \in found : \A j \in found : i <= j

\* int(part): the position of a list, 0 if the text is no number.
Position(k) == Least({i \in DOMAIN Numerals : Numerals[i] = k})

Object(f) == [object |-> f]
ListOf(s) == [list |-> s]
Leaf(v) == [leaf |-> v]
JsonNull == Leaf("none")
Missing == [missing |-> TRUE]
Raised == [raised |-> TRUE]
NoPatches == <<Raised>>    \* where a list of patches was due
IsObject(t) == "object" \in DOMAIN t
IsList(t) == "list" \in DOMAIN t

Child(t, k) ==
  IF IsObject(t) /\ k \in DOMAIN t.object THEN t.object[k]
  ELSE IF IsList(t) /\ Position(k) \in DOMAIN t.list THEN t.list[Position(k)]
  ELSE Missing

\* A dictionary after an assignment to one of its keys.
Entered(f, k, v) == [j \in DOMAIN f \cup {k} |-> IF j = k THEN v ELSE f[j]]

\* _read_pointer: what is at the path, or Missing.
ReadPointer(t, path) ==
  LET at[i \in 0..Len(path)] == IF i = 0 THEN t ELSE Child(at[i - 1], path[i]) IN at[Len(path)]

With(t, k, new) == IF IsObject(t) THEN Object(Entered(t.object, k, new)) ELSE ListOf([t.list EXCEPT ![Position(k)] = new])

\* The tree in which what is at the path is new.
Put(t, path, new) ==
  LET up[i \in 0..Len(path)] ==   \* the subtree i steps above the path's end
        IF i = 0 THEN new
        ELSE With(ReadPointer(t, SubSeq(path, 1, Len(path) - i)), path[Len(path) - i + 1], up[i - 1])
  IN up[Len(path)]
-----------------------------------------------------------------------------
\* A patch: artifact, operation, path, value.
Held(f, k) == IF k \in DOMAIN f THEN f[k] ELSE JsonNull
ObjectPatched(f, k, p) ==
  CASE p.operation \in {"add", "replace"} -> Object(Entered(f, k, p.value))
    [] p.operation = "remove" -> IF k \in DOMAIN f THEN Object([j \in DOMAIN f \ {k} |-> f[j]]) ELSE Missing
    [] p.operation = "test"   -> IF Held(f, k) = p.value THEN Object(f) ELSE Missing

\* An insertion past the end appends.
Inserted(s, i, v) == IF i > Len(s) THEN Append(s, v) ELSE InsertAt(s, i, v)
ListPatched(s, i, p) ==
  CASE p.operation = "add" -> IF i = 0 THEN Missing ELSE ListOf(Inserted(s, i, p.value))
    [] i \notin DOMAIN s /\ p.operation # "add" -> Missing
    [] i \in DOMAIN s /\ p.operation = "replace" -> ListOf([s EXCEPT ![i] = p.value])
    [] i \in DOMAIN s /\ p.operation = "remove"  -> ListOf(RemoveAt(s, i))
    [] i \in DOMAIN s /\ p.operation = "test"    -> IF s[i] = p.value THEN ListOf(s) ELSE Missing

\* _apply_pointer: the parent as the patch leaves it, or Missing where it raises.
Changed(parent, leaf, p) ==
  IF IsObject(parent) THEN ObjectPatched(parent.object, leaf, p)
  ELSE IF IsList(parent) /\ leaf = End
       THEN IF p.operation = "add" THEN ListOf(Append(parent.list, p.value)) ELSE Missing
  ELSE IF IsList(parent) THEN ListPatched(parent.list, Position(leaf), p)
  ELSE Missing

ApplyPatch(docs, p) ==
  IF docs = Raised THEN Raised
  ELSE IF p.artifact \notin DOMAIN docs \/ p.path = <<>> THEN Raised
  ELSE LET parent == ReadPointer(docs[p.artifact], Front(p.path))
           after == Changed(parent, Last(p.path), p)
       IN IF after = Missing THEN Raised
          ELSE [docs EXCEPT ![p.artifact] = Put(@, Front(p.path), after)]

ApplyAll(docs, patches) ==
  LET after[i \in 0..Len(patches)] == IF i = 0 THEN docs ELSE ApplyPatch(after[i - 1], patches[i]) IN after[Len(patches)]
-----------------------------------------------------------------------------
Patch(artifact, operation, path, value) ==
  [artifact |-> artifact, operation |-> operation, path |-> path, value |-> value]

\* Where an addition will be: an appended element is at the end of the list that was.
ResolvedAddPath(doc, path) ==
  IF Last(path) # End THEN path
  ELSE LET parent == ReadPointer(doc, Front(path))
       IN IF IsList(parent) THEN Append(Front(path), Numerals[Len(parent.list) + 1]) ELSE <<>>

\* The patches that undo one, as things stand: none for a test.
\* (Mutant: an appended element is removed where it was added.)
InversionAtEnd(doc, p) ==
  CASE p.operation = "add"     -> <<Patch(p.artifact, "remove", p.path, JsonNull)>>
    [] p.operation = "remove"  -> <<Patch(p.artifact, "add", p.path, ReadPointer(doc, p.path))>>
    [] p.operation = "replace" -> <<Patch(p.artifact, "replace", p.path, ReadPointer(doc, p.path))>>
    [] p.operation = "test"    -> <<>>
Inversion(doc, p) ==
  CASE p.operation = "add"     -> <<Patch(p.artifact, "remove", ResolvedAddPath(doc, p.path), JsonNull)>>
    [] p.operation = "remove"  -> <<Patch(p.artifact, "add", p.path, ReadPointer(doc, p.path))>>
    [] p.operation = "replace" -> <<Patch(p.artifact, "replace", p.path, ReadPointer(doc, p.path))>>
    [] p.operation = "test"    -> <<>>

\* What cannot be read before it is changed, or appended to, cannot be taken back.
Reversible(doc, p) ==
  CASE p.operation \in {"remove", "replace"} -> ReadPointer(doc, p.path) # Missing
    [] p.operation = "add"                   -> ResolvedAddPath(doc, p.path) # <<>>
    [] p.operation = "test"                  -> TRUE

\* A test is not even made.
Simulated(docs, p) == IF p.operation = "test" THEN docs ELSE ApplyPatch(docs, p)

\* One patch more: its inverse goes before those of the patches it follows.
Undone(so, p) ==
  IF so.docs = Raised THEN so
  ELSE IF p.artifact \notin DOMAIN so.docs \/ p.path = <<>> THEN [so EXCEPT !.docs = Raised]
  ELSE IF ~Reversible(so.docs[p.artifact], p) THEN [so EXCEPT !.docs = Raised]
  ELSE [docs |-> Simulated(so.docs, p), rollback |-> Inversion(so.docs[p.artifact], p) \o so.rollback]

RollbackPatches(docs, patches) ==
  LET so[i \in 0..Len(patches)] ==
        IF i = 0 THEN [docs |-> docs, rollback |-> <<>>] ELSE Undone(so[i - 1], patches[i])
  IN IF so[Len(patches)].docs = Raised THEN NoPatches ELSE so[Len(patches)].rollback
-----------------------------------------------------------------------------
\* The elements of what is a list.
Elements(t) == IF IsList(t) THEN t.list ELSE <<>>

\* The first element of a list with v under the key: 0 if none.
FirstIn(list, key, v) == Least({i \in DOMAIN list : Child(list[i], key) = Leaf(v)})

Actions(route) == Elements(Child(route, "actions"))
HasAction(route, id) == FirstIn(Actions(route), "action_id", id) # 0

\* The place of the drifted action in the contract, if a route has it.
Routes(doc) == Elements(Child(doc, "routes"))
RouteIndex(doc, id) == Least({i \in DOMAIN Routes(doc) : HasAction(Routes(doc)[i], id)})
ActionLocation(doc, id) ==
  LET r == RouteIndex(doc, id)
  IN <<"routes", Numerals[r], "actions", Numerals[FirstIn(Actions(Routes(doc)[r]), "action_id", id)]>>

\* The mapping of the action whose target it is: 0 if none is.
MappingIndex(doc, location, target) ==
  FirstIn(Elements(ReadPointer(doc, Append(location, "mappings"))), "target", target)

OperationIndex(doc, id) == FirstIn(Elements(Child(doc, "operations")), "operation_id", id)
OperationPath(docs, drift) == <<"operations", Numerals[OperationIndex(docs[drift.system], drift.operation)]>>

\* The action, the system and the operation that a drift names are there.
Attributed(docs, drift) ==
  /\ RouteIndex(docs["contract"], drift.action) # 0
  /\ drift.system \in DOMAIN docs /\ OperationIndex(docs[drift.system], drift.operation) # 0

SchemaPatch(docs, drift) ==
  IF drift.schema = Missing THEN <<>>
  ELSE <<Patch(drift.system, "replace", Append(OperationPath(docs, drift), "request_schema"), drift.schema)>>

NewRule(drift) == Object([source |-> Leaf(drift.source), target |-> Leaf(drift.target)])

\* The patches for a drift, by the kind of repair its evidence asks for.
FieldRenamed(docs, drift) ==
  LET location == ActionLocation(docs["contract"], drift.action)
      index == MappingIndex(docs["contract"], location, drift.source)
  IN IF index = 0 THEN NoPatches
     ELSE <<Patch("contract", "replace", location \o <<"mappings", Numerals[index], "target">>, Leaf(drift.target))>>
            \o SchemaPatch(docs, drift)

RequiredFieldAdded(docs, drift) ==
  <<Patch("contract", "add", ActionLocation(docs["contract"], drift.action) \o <<"mappings", End>>, NewRule(drift))>>
    \o SchemaPatch(docs, drift)

\* The grant replaces one that is there.
GrantOperation(docs, drift) ==
  IF Child(Child(docs["contract"], "permissions"), drift.system) # Missing THEN "replace" ELSE "add"

PermissionChanged(docs, drift) ==
  <<Patch(drift.system, "replace", Append(OperationPath(docs, drift), "required_permissions"), drift.value),
    Patch("contract", GrantOperation(docs, drift), <<"permissions", drift.system>>, drift.value)>>

EndpointChanged(docs, drift) == <<Patch(drift.system, "replace", Append(OperationPath(docs, drift), "path"), drift.value)>>

Generated(docs, drift) ==
  IF ~Attributed(docs, drift) THEN NoPatches ELSE
  CASE drift.type = "field_renamed"        -> FieldRenamed(docs, drift)
    [] drift.type = "required_field_added" -> RequiredFieldAdded(docs, drift)
    [] drift.type = "permission_changed"   -> PermissionChanged(docs, drift)
    [] drift.type = "endpoint_changed"     -> EndpointChanged(docs, drift)
    [] drift.type = "explicit_patches"     -> drift.patches
    [] OTHER                               -> NoPatches
-----------------------------------------------------------------------------
\* _classify: the kind the evidence names, or the first one whose words the error has; so
\* "missing required permission" is taken for a drift of the schema.
DriftKinds == {"schema", "endpoint", "permission", "authentication", "behavior", "semantic", "volume", "latency"}
Signs == <<[kind |-> "schema", words |-> {"schema", "required", "field", "property", "type"}],
           [kind |-> "permission", words |-> {"permission", "scope", "forbidden", "403"}],
           [kind |-> "authentication", words |-> {"authentication", "unauthorized", "401", "credential"}],
           [kind |-> "endpoint", words |-> {"endpoint", "404", "method not allowed"}],
           [kind |-> "latency", words |-> {"timeout", "latency"}]>>

Classified(drift) ==
  LET sign == Least({i \in DOMAIN Signs : Signs[i].words \cap drift.error # {}})
  IN IF drift.evidence \in DriftKinds THEN drift.evidence ELSE IF sign = 0 THEN "behavior" ELSE Signs[sign].kind

Mentions(p, keys) == \E i \in DOMAIN p.path : p.path[i] \in keys

\* assess: the first that holds.  Forbidden words and destructive values do not occur here.
Risk(patches, kind) ==
  IF \/ \E i \in DOMAIN patches : patches[i].operation = "remove"
     \/ \E i \in DOMAIN patches : Mentions(patches[i], {"permissions", "required_permissions"})
     \/ kind \in {"permission", "authentication", "endpoint"}
     \/ \E i \in DOMAIN patches : Last(patches[i].path) = "path"
  THEN "high"
  ELSE IF \E i \in DOMAIN patches : Mentions(patches[i], {"branches", "transforms"}) THEN "medium" ELSE "low"

InScope(p) ==
  Head(p.path) \in IF p.artifact = "contract" THEN {"routes", "permissions", "metadata"}
                   ELSE {"operations", "objects", "metadata", "version"}

\* propose: the candidate, or Raised.
Proposed(docs, drift) ==
  LET patches == Generated(docs, drift) IN
  IF patches = NoPatches THEN Raised
  ELSE IF RollbackPatches(docs, patches) = NoPatches \/ \E i \in DOMAIN patches : ~InScope(patches[i]) THEN Raised
  ELSE [patches |-> patches, rollback |-> RollbackPatches(docs, patches), risk |-> Risk(patches, Classified(drift)),
        status |-> IF Risk(patches, Classified(drift)) = "low" THEN "proposed" ELSE "approval_required"]
-----------------------------------------------------------------------------
\* An addition over a value that is there, or past a list's end: its rollback removes
\* what it finds at the path, and does not know what was there.
Blind(docs, p) ==
  LET parent == ReadPointer(docs[p.artifact], Front(p.path))
  IN /\ p.operation = "add" /\ Last(p.path) # End
     /\ \/ IsObject(parent) /\ Child(parent, Last(p.path)) # Missing
        \/ IsList(parent) /\ Position(Last(p.path)) > Len(parent.list) + 1

Sighted(docs, patches) == \A i \in DOMAIN patches : ~Blind(ApplyAll(docs, SubSeq(patches, 1, i - 1)), patches[i])

Restored(docs, candidate) == ApplyAll(ApplyAll(docs, candidate.patches), candidate.rollback) = docs

\* The drifts whose repair is proposed and applied, and not taken back by its rollback.  An
\* explicit patch that adds blindly, which no generated one does, is excepted.
Unrestored ==
  {drift \in Drifts :
     LET candidate == Proposed(drift.documents, drift) IN
     /\ candidate # Raised
     /\ ApplyAll(drift.documents, candidate.patches) # Raised
     /\ drift.type = "explicit_patches" => Sighted(drift.documents, candidate.patches)
     /\ ~Restored(drift.documents, candidate)}

=============================================================================
