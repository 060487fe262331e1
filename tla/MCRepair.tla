------------------------------ MODULE MCRepair ------------------------------
EXTENDS Repair, Patches

MCNumerals == <<"0", "1", "2", "3", "4">>

MCLimit == "verify" :> 3 @@ "approve" :> 2 @@ "sign" :> 2 @@ "deploy" :> 2

\* Candidates and clients are interchangeable.
Symmetric == Permutations(Repairs) \cup Permutations(Clients)
-----------------------------------------------------------------------------
\* Two routes, an action each; the second has no mapping.  The system t has no permissions.
Mapping(to) == Object("source" :> Leaf("x") @@ "target" :> Leaf(to))
Action(id, mappings) == Object("action_id" :> Leaf(id) @@ "mappings" :> ListOf(mappings))
Route(action) == Object("actions" :> ListOf(<<action>>))
Operation(id) == Object("operation_id" :> Leaf(id) @@ "path" :> Leaf("/old") @@ "request_schema" :> Leaf("old")
                        @@ "required_permissions" :> ListOf(<<>>))
Profile == Object("operations" :> ListOf(<<Operation("o1"), Operation("o2")>>))
MCDocuments ==
  "contract" :> Object("routes" :> ListOf(<<Route(Action("a1", <<Mapping("n"), Mapping("m")>>)), Route(Action("a2", <<>>))>>)
                       @@ "permissions" :> Object("s" :> ListOf(<<>>)))
  @@ "s" :> Profile @@ "t" :> Profile

Structured(error, type, action, schema) ==
  {[documents |-> MCDocuments, evidence |-> "none", error |-> error, type |-> type, system |-> s, operation |-> o, action |-> action,
    schema |-> schema, source |-> "n", target |-> "k", value |-> Leaf("new"), patches |-> <<>>] :
      s \in {"s", "t"}, o \in {"o1", "o2"}}

Mappings == <<"routes", "0", "actions", "0", "mappings">>
Paths == {Append(Mappings, k) : k \in {"0", "1", "3", End}} \cup {Mappings \o <<"0", "target">>}
          \cup {<<"permissions", s>> : s \in {"s", "t"}}
MCPatches == {Patch("contract", o, path, Leaf("new")) : o \in {"add", "replace", "test"}, path \in Paths}
             \cup {Patch("contract", o, path, JsonNull) : o \in {"remove", "test"}, path \in Paths}

Explicit == {[documents |-> MCDocuments, evidence |-> "schema", error |-> {"timeout"}, type |-> "explicit_patches", system |-> "s", operation |-> "o1",
              action |-> "a1", schema |-> Missing, source |-> "n", target |-> "k", value |-> Leaf("new"), patches |-> patches] :
                patches \in BoundedSeq(MCPatches, 2)}

MCDrifts ==
  Explicit \cup
  UNION {Structured({"required", "field"}, type, action, schema)
           \cup Structured({"required", "permission"}, "permission_changed", action, schema)
           \cup Structured({"404"}, "endpoint_changed", action, schema) :
           type \in {"field_renamed", "required_field_added"}, action \in {"a1", "a2", "gone"}, schema \in {Missing, Leaf("seen")}}
-----------------------------------------------------------------------------
\* docs/PHASE3.md:48: whichever drift a deployed repair answers, its rollback restores the
\* documents as they were, whatever its patches do to the places of one another.
RollbackRestores == \A r \in Repairs : repair[r].status = "deployed" => Unrestored = {}
=============================================================================
