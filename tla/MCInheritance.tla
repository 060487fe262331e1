---------------------------- MODULE MCInheritance ----------------------------
(* Two foundries, the second with two threads.  Both write a customer's name  *)
(* to a contact; in the second the source field is called "label", which     *)
(* only the patterns of the first relate to it.                              *)
EXTENDS Inheritance, TLC

CONSTANT a

MCNames == {"order", "contact", "name", "label"}
MCLexSim == [m \in MCNames |-> [n \in MCNames |-> IF m = n THEN 100 ELSE 10]]
MCTermSim == [m \in MCNames |-> [n \in MCNames |->
  IF m = n THEN 100 ELSE IF {m, n} = {"name", "label"} THEN 60 ELSE 10]]

F(name) == [name |-> name, type |-> "string", required |-> TRUE, words |-> {}]
Object(id, fields) == [id |-> id, fields |-> fields, identifiers |-> {}]
Profile(object, operations) == [system |-> object.id, objects |-> <<object>>, operations |-> operations]
Save == [id |-> "save", object |-> Null, kind |-> "upsert", schema |-> <<>>]

MCFoundry == [t \in Threads |-> IF t = a THEN "A" ELSE "B"]
MCSource == [A |-> Profile(Object("order", <<F("name")>>), <<>>),
             B |-> Profile(Object("order", <<F("label")>>), <<>>)]
MCIntents == [h \in {"A", "B"} |->
  <<[profile |-> Profile(Object("contact", <<F("name")>>), <<Save>>), object |-> Null, operation |-> Null]>>]
MCScopes == {"private", Shared}
Symmetry == Permutations(Origins) \cup Permutations(Threads \ {a})
=============================================================================
