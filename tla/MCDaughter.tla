----------------------------- MODULE MCDaughter -----------------------------
(* An order p and a note q at a contract of two routes and three actions; the *)
(* constants of the runtime are what the contract makes of the two payloads.  *)
EXTENDS Daughter

CONSTANTS e1, e2, p, q, a, b, c

MCNumerals == 7 :> 12
MCWords == [n \in 0..9 |-> IF n = 0 THEN {} ELSE {n}]
Rules == INSTANCE Contract WITH Numerals <- MCNumerals, Dates <- {5}, Words <- MCWords

Payload ==
  p :> [total |-> Rules!Number(40), placed |-> Rules!String(5), count |-> Rules!String(7), state |-> Rules!String(3)]
  @@ q :> [text |-> Rules!String(8), state |-> Rules!String(4), pages |-> Rules!List({Rules!Number(2)})]

Condition(path, operator, value) == [path |-> path, operator |-> operator, value |-> value]
Rule(source, target, required, transforms) ==
  [source |-> source, target |-> target, required |-> required, default |-> Rules!Null, transforms |-> transforms]

\* Route 1: the branch a takes what is in state 3 or 4; b takes state 3, but has no minimum
\* and is in the running without it.  Route 2 takes anything with a state.
Conditions ==
  a :> {Condition("state", "in", Rules!List({Rules!String(3), Rules!String(4)}))}
  @@ b :> {Condition("state", "eq", Rules!String(3))}
  @@ c :> {Condition("state", "exists", Rules!Written)}
MCMinimum == a :> 100 @@ b :> 0 @@ c :> 100

\* Route 1 needs a total and a count that is a number; q has none.
Order == [mappings |-> <<Rule("total", "amount", TRUE, <<>>),
                         Rule("count", "quantity", TRUE, <<[name |-> "to_int", value |-> Rules!Null]>>),
                         Rule("placed", "day", FALSE, <<[name |-> "iso_datetime", value |-> Rules!Null]>>)>>,
          certifiers |-> {[kind |-> "expression", required |-> TRUE, path |-> "quantity",
                           operator |-> "gte", value |-> Rules!Number(1)]},
          operation |-> [permissions |-> {"write"}, required |-> {"amount"}, types |-> [amount |-> "number"]],
          parameters |-> {"quantity"}]

\* Route 1 also bills the total at another system.
Bill == [mappings |-> <<Rule("total", "sum", TRUE, <<>>)>>, certifiers |-> {},
         operation |-> [permissions |-> {}, required |-> {"sum"}, types |-> [sum |-> "number"]],
         parameters |-> {}]

\* Route 2 passes the state on, which must be 4; p is in state 3.
Notice == [mappings |-> <<Rule("state", "state", TRUE, <<>>)>>,
           certifiers |-> {[kind |-> "allowed_values", required |-> TRUE, path |-> "state",
                            value |-> Rules!List({Rules!String(4)})]},
           operation |-> [permissions |-> {}, required |-> {}, types |-> [state |-> "string"]],
           parameters |-> {}]

\* The features of an event that are not its payload's.
Envelope == 26

\* Route 1 is owned by two branches, route 2 by one.
MCOwners == <<<<a, b>>, <<c>>>>
MCRouteOf == <<1, 1, 2>>
MCPatternOf == e1 :> p @@ e2 :> q
MCAlike == [x \in {p, q, None} |-> [y \in {p, q} |->
  IF x = None THEN 0
  ELSE Rules!WeightedJaccard(Rules!Encode(Payload[x]), Rules!Encode(Payload[y]), Envelope)]]
MCHard == [x \in {a, b, c} |-> [y \in {p, q} |-> Rules!BranchActivation(Payload[y], Conditions[x])]]
MCPriority == a :> 2 @@ b :> 1 @@ c :> 0
MCTiesAbstain == <<TRUE, TRUE>>
Outcomes == <<[y \in {p, q} |-> Rules!Planned(Payload[y], Order, {"write"})],
              [y \in {p, q} |-> Rules!Planned(Payload[y], Bill, {})],
              [y \in {p, q} |-> Rules!Planned(Payload[y], Notice, {})]>>
MCMappable == [n \in 1..3 |-> [y \in {p, q} |-> Outcomes[n][y] # "void"]]
MCCertified == [n \in 1..3 |-> [y \in {p, q} |-> Outcomes[n][y] = "certified"]]
\* Examples that teach a branch one event and move it away from the other, and that make a
\* branch know both, raise for one that knows none, and leave the last unlearned.
Teach(x, y, positive) == [branch |-> x, pattern |-> y, positive |-> positive]
MCTrainingSets ==
  {<<Teach(a, q, TRUE), Teach(a, p, FALSE)>>,
   <<Teach(c, q, TRUE), Teach(c, p, TRUE), Teach(b, q, FALSE), Teach(a, p, TRUE)>>}
MCLimit == "request" :> 3 @@ "change" :> 1

\* The threads are alike.
Symmetric == Permutations(Threads)
=============================================================================
