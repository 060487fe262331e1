------------------------------ MODULE Contract ------------------------------
(***************************************************************************)
(* What a contract makes of an event's payload, as operators on data: the  *)
(* conditions of a branch (routing.py), the mapping rules of an action     *)
(* (mapping.py, transforms.py), its certifiers (certification.py), and the *)
(* features the tissue compares events by (features.py).                   *)
(*                                                                         *)
(* A payload is a function from fields to values (a dotted path is one     *)
(* field).  Numbers are integers; a string is a number of its own, 0 the   *)
(* empty one; a list is the set of its items.  Substring tests and the     *)
(* transforms that only change how a string is written are left out.       *)
(***************************************************************************)
EXTENDS Integers, Sequences, FiniteSets, FiniteSetsExt, SequencesExt

CONSTANTS
  Numerals,  \* the strings int() reads, with their numbers
  Dates,     \* the strings that are ISO dates
  Words      \* the words of each string

Null == [kind |-> "null"]
Number(n) == [kind |-> "number", n |-> n]
String(n) == [kind |-> "string", n |-> n]
List(items) == [kind |-> "list", items |-> items]
Raised == [kind |-> "raised"]
Written == String(1)   \* some string that is not empty

Empty == {Null, String(0), List({})}

At(data, f) == IF f \in DOMAIN data THEN data[f] ELSE Null
Present(data, f) == f \in DOMAIN data

\* Python orders numbers and strings, each among themselves, and raises otherwise.
Ordered(a, b) == a.kind = b.kind /\ a.kind \in {"number", "string"}
Greater(a, b) == Ordered(a, b) /\ a.n > b.n
AtLeast(a, b) == Ordered(a, b) /\ a.n >= b.n
Member(a, list) == list.kind = "list" /\ a \in list.items
-----------------------------------------------------------------------------
\* A condition: path, operator, value.  What cannot be compared does not match.
Matches(payload, c) ==
  LET actual == At(payload, c.path) IN
  \/ c.operator = "eq" /\ actual = c.value
  \/ c.operator = "ne" /\ actual # c.value
  \/ c.operator = "in" /\ Member(actual, c.value)
  \/ c.operator = "not_in" /\ c.value.kind = "list" /\ actual \notin c.value.items
  \/ c.operator = "exists" /\ Present(payload, c.path) = (c.value \notin Empty)
  \/ c.operator = "gt" /\ Greater(actual, c.value)
  \/ c.operator = "gte" /\ AtLeast(actual, c.value)
  \/ c.operator = "lt" /\ Greater(c.value, actual)
  \/ c.operator = "lte" /\ AtLeast(c.value, actual)
  \/ c.operator = "contains" /\ Member(c.value, actual)

\* A condition weighs 1 or 0, and a branch as much as the least of its conditions.
BranchActivation(payload, conditions) == \A c \in conditions : Matches(payload, c)
-----------------------------------------------------------------------------
ToNumber(v) ==
  IF v.kind \in {"null", "number"} THEN v
  ELSE IF v.kind = "string" /\ v.n \in DOMAIN Numerals THEN Number(Numerals[v.n])
  ELSE Raised

Text(v) == IF v = Null THEN String(0) ELSE IF v.kind = "string" THEN v ELSE Written

IsoDatetime(v) == IF v = Null THEN Null ELSE IF v.kind = "string" /\ v.n \in Dates THEN v ELSE Raised

\* A transform: name, value (of its configuration).
Apply(v, x) ==
  CASE v = Raised                                           -> Raised
    [] x.name = "default"                                   -> IF v \in {Null, String(0)} THEN x.value ELSE v
    [] x.name = "to_string"                                 -> Text(v)
    [] x.name = "join"                                      -> IF v = List({}) THEN String(0) ELSE Text(v)
    [] x.name \in {"to_int", "to_float"}                    -> ToNumber(v)
    [] x.name = "iso_datetime"                              -> IsoDatetime(v)
    [] x.name \in {"prefix", "suffix", "replace", "template"} -> Written
    [] OTHER                                                -> Raised   \* not registered

\* A mapping rule: source, target, required, default, transforms.
RuleValue(payload, rule) ==
  LET read == IF Present(payload, rule.source) THEN payload[rule.source] ELSE rule.default
      value == FoldLeft(Apply, read, rule.transforms)
  IN IF rule.required /\ (value = Null \/ (~Present(payload, rule.source) /\ read = Null)) THEN Raised
     ELSE value

\* map_payload: a later rule overwrites; one that raises ends it all.
MapPayload(payload, rules) ==
  LET targets == {rules[i].target : i \in DOMAIN rules}
      last(t) == Max({i \in DOMAIN rules : rules[i].target = t})
  IN IF \E i \in DOMAIN rules : RuleValue(payload, rules[i]) = Raised THEN Raised
     ELSE [t \in targets |-> RuleValue(payload, rules[last(t)])]
-----------------------------------------------------------------------------
\* The expression certifier makes all six comparisons, whichever it is asked for.
Expression(mapped, d) ==
  LET left == At(mapped, d.path) IN
  IF ~Present(mapped, d.path) THEN "failed"
  ELSE IF ~Ordered(left, d.value) THEN "raised"
  ELSE IF Matches(mapped, d) /\ d.operator \in {"eq", "ne", "gt", "gte", "lt", "lte"} THEN "passed"
  ELSE "failed"

Filled(mapped, fields) == \A f \in fields : At(mapped, f) # Null
Allowed(mapped, d) == Present(mapped, d.path) /\ Member(mapped[d.path], d.value)
NotEmpty(mapped, f) == At(mapped, f) \notin Empty
Permitted(operation, granted) == operation.permissions \subseteq granted

\* A certifier's verdict; one of no registered kind fails.
Verdict(mapped, d, operation, granted) ==
  IF d.kind = "expression" THEN Expression(mapped, d)
  ELSE IF \/ d.kind = "required_fields" /\ Filled(mapped, d.fields)
          \/ d.kind = "allowed_values" /\ Allowed(mapped, d)
          \/ d.kind = "not_empty" /\ NotEmpty(mapped, d.path)
          \/ d.kind = "permission" /\ Permitted(operation, granted)
       THEN "passed" ELSE "failed"

SchemaHolds(mapped, operation) ==
  /\ operation.required \subseteq DOMAIN mapped
  /\ \A f \in DOMAIN mapped \cap DOMAIN operation.types : mapped[f].kind = operation.types[f]

\* The permission is certified whether the contract asks for it or not.
Certified(mapped, action, granted) ==
  /\ SchemaHolds(mapped, action.operation)
  /\ \A d \in action.certifiers :
       d.required => Verdict(mapped, d, action.operation, granted) = "passed"
  /\ (\A d \in action.certifiers : d.kind # "permission") => Permitted(action.operation, granted)

\* What planning an action comes to: "void" raises, and takes the whole plan with it.
Planned(payload, action, granted) ==
  LET mapped == MapPayload(payload, action.mappings) IN
  IF \/ mapped = Raised
     \/ \E d \in action.certifiers : Verdict(mapped, d, action.operation, granted) = "raised"
     \/ ~(action.parameters \subseteq DOMAIN mapped)
  THEN "void"
  ELSE IF Certified(mapped, action, granted) THEN "certified" ELSE "blocked"
-----------------------------------------------------------------------------
\* The power of ten a number has: floor(log10).
Magnitude(n) == IF n = 0 THEN 0 ELSE CHOOSE m \in 0..9 : 10^m <= n /\ n < 10^(m + 1)
Abs(n) == IF n < 0 THEN -n ELSE n

ScalarFeatures(f, v) ==
  CASE v.kind = "null"   -> {<<"value", f, v>>}
    [] v.kind = "number" -> {<<"kind", f, "number">>, <<"magnitude", f, Magnitude(Abs(v.n))>>,
                             <<"sign", f, IF v.n = 0 THEN 0 ELSE v.n \div Abs(v.n)>>}
                            \cup (IF Abs(v.n) <= 10000 THEN {<<"value", f, v>>} ELSE {})
    [] v.kind = "string" -> {<<"kind", f, "string">>, <<"value", f, v>>}
                            \cup {<<"token", f, w>> : w \in Words[v.n]}

Features(f, v) ==
  {<<"exists", f>>} \cup
  IF v.kind # "list" THEN ScalarFeatures(f, v)
  ELSE {<<"kind", f, "array">>, <<"length", f, Min({Cardinality(v.items), 16})>>}
         \cup UNION {ScalarFeatures(f \o "[]", i) : i \in v.items}

Encode(payload) == UNION {Features(f, payload[f]) : f \in DOMAIN payload}

\* weighted_jaccard, in hundredths, of two events that share the features of their
\* envelope; a payload is encoded twice, as the event's own and beside the event.
WeightedJaccard(left, right, envelope) ==
  (100 * (2 * Cardinality(left \cap right) + envelope))
    \div (2 * Cardinality(left \cup right) + envelope)
=============================================================================
