-------------------------- MODULE Composers_proofs --------------------------
(***************************************************************************)
(* Proofs about the two that compose: Platform, for any systems,           *)
(* credentials, keys, clients, workers, jobs and requests, any number of   *)
(* processes, and whatever a composition yields; and Inheritance, for any  *)
(* foundries, threads, profiles, origins and scopes.                       *)
(*                                                                         *)
(* In Platform a call or a handler holds what it read in an earlier        *)
(* transaction, and its next one writes over what others wrote meanwhile.  *)
(* The invariants say what of a reading is still so: a reference once      *)
(* found stays, what it refers to stays that system's; a row stays as it   *)
(* was read unless another handler of that connection is or was at work;   *)
(* the draft unless another message is.                                    *)
(*                                                                         *)
(* In Inheritance a pattern may have travelled any way: what is said of    *)
(* its origins was exported by them, and a composition keeps to that.      *)
(***************************************************************************)
EXTENDS Platform, Inheritance, FiniteSetTheorems, WellFoundedInduction, TLAPS

Mem == [ref : Refs \cup {Null}, value : Values \cup {Null}, rows : SUBSET Refs,
        conn : Conns \cup {Null}, draft : Draft \cup {Null}]
Doing == [step : {"idle", "read", "inspect", "write", "done"}, row : ConnRow \cup {Null}, issues : BOOLEAN]
Granted == [job : Jobs, number : Nat]

CallSteps == {"idle", "insert", "put", "point", "activate", "resolve", "reput", "enqueue", "respond", "save"}

\* The requests whose calls go through a step.
OpsAt(step) ==
  CASE step = "insert"                              -> {"create_system"}
    [] step \in {"put", "point"}                    -> {"set_credentials"}
    [] step \in {"activate", "resolve", "reput"}    -> {"rotate"}
    [] step = "enqueue"                             -> {"connect", "say"}
    [] step \in {"respond", "save"}                 -> {"say"}
    [] OTHER                                        -> {}

Typed ==
  /\ system \in [Systems -> SystemRow \cup {Null}]
  /\ secret \in [Refs -> Envelope \cup {Null}]
  /\ conn \in [Conns -> ConnRow \cup {Null}]
  /\ chat \in Draft
  /\ active \in [Range(Replica) -> Keys]
  /\ jobState \in [Jobs -> {"absent", "queued", "leased", "succeeded", "dead"}]
  /\ grants \in [Jobs -> Nat]
  /\ grant \in [Workers -> Granted \cup {Null}]
  /\ work \in [Jobs -> Work \cup {Null}]
  /\ todo \in [Clients -> Seq(Calls)]
  /\ at \in [Clients -> CallSteps]
  /\ mem \in [Clients -> Mem]
  /\ doing \in [Workers -> Doing]
  /\ overlapped \subseteq Conns /\ raced \subseteq Refs
  /\ mixed \in BOOLEAN
  /\ lastPut \in [Refs -> Values \cup {Null}]

\* A call is at a step of its request, and holds what that step needs.
InCall(c) ==
  at[c] # "idle" =>
    /\ todo[c] # <<>>
    /\ Head(todo[c]).op \in OpsAt(at[c])
    /\ at[c] \in {"activate", "resolve", "reput"} => \A r \in mem[c].rows : secret[r] # Null
    /\ at[c] = "reput" => mem[c].ref \in mem[c].rows /\ mem[c].value # Null
    /\ at[c] = "enqueue" => mem[c].conn # Null /\ conn[mem[c].conn] # Null
    /\ Head(todo[c]).op = "say" => mem[c].draft # Null

\* A job that was submitted is about a connection.
JobsNamed ==
  /\ \A j \in Jobs : jobState[j] # "absent" => work[j] # Null
  /\ \A j \in Jobs : work[j] # Null => conn[work[j].conn] # Null

\* A handler runs such a job, and what it has read is a row of that job's connection.
Handling(w) ==
  doing[w].step # "idle" =>
    /\ grant[w] \in Granted /\ jobState[grant[w].job] # "absent"
    /\ doing[w].step \in {"inspect", "write"} =>
         /\ doing[w].row # Null
         /\ doing[w].row.source = conn[Working(w).conn].source
         /\ doing[w].row.targets = conn[Working(w).conn].targets

InJob == JobsNamed /\ \A w \in Workers : Handling(w)

Shape == Typed /\ (\A c \in Clients : InCall(c)) /\ InJob

(* Credentials *)
SealedFor(r, s) == secret[r] # Null /\ secret[r].system = s
Sealed ==
  /\ \A s \in Systems : system[s] # Null /\ system[s].ref # Null => SealedFor(system[s].ref, s)
  /\ \A c \in Clients : at[c] \in {"insert", "put", "point"} /\ mem[c].ref # Null =>
       SealedFor(mem[c].ref, Head(todo[c]).system)
  /\ \A c \in Clients : at[c] = "point" => mem[c].ref # Null

\* What was put last is what is stored, and what a rotation holds.
Latest ==
  /\ \A r \in Refs \ raced : secret[r] # Null => secret[r].value = lastPut[r]
  /\ \A c \in Clients : at[c] = "reput" /\ mem[c].ref \notin raced => mem[c].value = secret[mem[c].ref].value

CredentialInv == Sealed /\ Latest

(* Connections *)
SystemsOf(row) == {row.source} \cup Range(row.targets)

\* A system is named by one call, and what refers to it finds it.
Unborn ==
  /\ \A c \in Clients : at[c] = "insert" => system[Head(todo[c]).system] = Null
  /\ \A c, d \in Clients : at[c] = "insert" /\ at[d] = "insert" /\ Head(todo[c]).system = Head(todo[d]).system => c = d
Found == \A c \in Clients : at[c] \in {"put", "point"} => system[Head(todo[c]).system] # Null
Linked == \A i \in Conns : conn[i] # Null => \A s \in SystemsOf(conn[i]) : system[s] # Null
Named == Unborn /\ Found /\ Linked

Reading(w) == doing[w].step \in {"inspect", "write"}
Credentialed(row) == \A s \in SystemsOf(row) : Kind[s] = "none" \/ system[s].ref # Null

\* The handler of a connection that overlapped no other has that connection's row.
Alone ==
  /\ \A v, w \in Workers :
       Reading(v) /\ Reading(w) /\ Working(v).conn = Working(w).conn /\ Working(v).conn \notin overlapped => v = w
  /\ \A w \in Workers : Reading(w) /\ Working(w).conn \notin overlapped => doing[w].row = conn[Working(w).conn]

\* A check that found no issue found credentials, and they stay.
Inspected == \A w \in Workers :
  /\ doing[w].step = "inspect" => Working(w).kind = "connection_health"
  /\ doing[w].step = "write" /\ Working(w).kind = "connection_health" /\ ~doing[w].issues => Credentialed(doing[w].row)

\* A contract is the one this connection's systems compose to.
OwnContract == \A i \in Conns : conn[i] # Null =>
  conn[i].contract \in {Null, OutcomeOf(conn[i].source, conn[i].targets).contract}

StatusInv == Named /\ Alone /\ Inspected /\ OwnContract /\ StatusHonest

(* The chat *)
Saying(c) == Asked(c, "say") /\ at[c] # "idle"
OneMessage == \A c, d \in Clients : Saying(c) /\ Saying(d) => c = d

\* A message that was read holds the draft as it is, one that was answered adds to it.
Drafting(c) ==
  /\ at[c] = "respond" => mem[c].draft = chat /\ mem[c].conn = Null
  /\ Saying(c) /\ at[c] # "respond" => Range(chat.systems) \subseteq Range(mem[c].draft.systems)
  /\ at[c] = "save" => mem[c].draft.conn = IF mem[c].conn = Null THEN chat.conn ELSE mem[c].conn

DraftInv == ~mixed => OneMessage /\ (\A c \in Clients : Drafting(c)) /\ DraftKept
-----------------------------------------------------------------------------
(* The operators of Platform *)

\* Sets of numbers have a least and, if bounded, a greatest element.
LEMMA LeastNatural ==
  ASSUME NEW S \in SUBSET Nat, S # {}
  PROVE  \E x \in S : \A y \in S : x <= y
<1>1. PICK x \in S : \A y \in S : <<y, x>> \notin OpToRel(<, Nat)
  BY WFMin, NatLessThanWellFounded, Zenon
<1>2. \A y \in S : ~(y < x)
  BY <1>1, Zenon DEF OpToRel
<1>3. \A y \in S : x <= y
  BY <1>2
<1>4. QED
  BY <1>3

LEMMA GreatestNatural ==
  ASSUME NEW b \in Nat, NEW S, S # {}, \A y \in S : y \in 1..b
  PROVE  \E x \in S : \A y \in S : y <= x
<1> DEFINE T == {b - y : y \in S}
<1>1. T \in SUBSET Nat
  <2>1. \A y \in S : b - y \in Nat
    OBVIOUS
  <2>2. QED
    BY <2>1, Zenon
<1>2. PICK m \in T : \A z \in T : m <= z
  <2>1. T # {}
    OBVIOUS
  <2>2. QED
    BY <1>1, <2>1, LeastNatural
<1>3. PICK x \in S : m = b - x
  BY <1>2
<1>4. ASSUME NEW y \in S PROVE y <= x
  <2>1. m <= b - y
    BY <1>2
  <2>2. x \in 1..b /\ y \in 1..b
    OBVIOUS
  <2>3. QED
    BY <1>3, <2>1, <2>2
<1>5. QED
  BY <1>4

\* Among places 1..b there is a k-th one, for every k up to their number: the first at
\* which k of them have been passed.
LEMMA NthPlace ==
  ASSUME NEW b \in Nat, NEW I, \A j \in I : j \in 1..b, NEW k \in 1..Cardinality(I)
  PROVE  Nth(I, k) \in I
<1> DEFINE Upto(i) == {j \in I : j <= i}
           P == {i \in I : k <= Cardinality(Upto(i))}
<1>1. IsFiniteSet(I) /\ Cardinality(I) \in Nat
  <2>1. IsFiniteSet(1..b)
    BY FS_Interval
  <2>2. I \in SUBSET (1..b)
    BY Zenon
  <2>3. QED
    BY <2>1, <2>2, FS_Subset, FS_CardinalityType
<1>2. \A i \in I : IsFiniteSet(Upto(i)) /\ Cardinality(Upto(i)) \in Nat
  <2>1. \A i \in I : Upto(i) \in SUBSET I
    OBVIOUS
  <2>2. QED
    BY <1>1, <2>1, FS_Subset, FS_CardinalityType
<1>3. ASSUME NEW J, J # {}, \A j \in J : j \in I
      PROVE  \E m \in J : \A y \in J : y <= m
  <2>1. \A j \in J : j \in 1..b
    BY <1>3
  <2>2. QED
    BY <1>3, <2>1, GreatestNatural
<1>4. P # {}
  <2>1. I # {}
    BY FS_EmptySet
  <2>2. PICK m \in I : \A y \in I : y <= m
    BY <1>3, <2>1
  <2>3. Upto(m) = I
    BY <2>2
  <2>4. QED
    BY <1>1, <2>3
<1>5. PICK i \in P : \A j \in P : i <= j
  <2>1. \A j \in P : j \in Nat
    OBVIOUS
  <2>2. P \in SUBSET Nat
    BY <2>1, Zenon
  <2>3. QED
    BY <1>4, <2>2, LeastNatural
<1>6. Cardinality(Upto(i)) = k
  <2> DEFINE Before == Upto(i) \ {i}
  <2>1. i \in Upto(i)
    OBVIOUS
  <2>2. Cardinality(Before) = Cardinality(Upto(i)) - 1
    BY <1>2, <2>1, FS_RemoveElement
  <2> DEFINE n == Cardinality(Upto(i))
  <2>3. n \in Nat /\ k \in Nat /\ k >= 1 /\ k <= n /\ i \in I
    BY <1>1, <1>2, <1>5
  <2> HIDE DEF n
  <2>4. Cardinality(Before) < k
    <3>1. CASE Before = {}
      <4>1. Cardinality(Before) = 0
        BY <3>1, FS_EmptySet
      <4>2. QED
        BY <2>3, <4>1
    <3>2. CASE Before # {}
      <4>1. \A j \in Before : j \in I
        OBVIOUS
      <4>2. PICK m \in Before : \A y \in Before : y <= m
        BY <1>3, <3>2, <4>1
      <4>3. m \in I /\ m < i /\ m \notin P
        BY <1>5, <4>2
      <4>4. ASSUME NEW j \in I PROVE j <= m <=> j <= i /\ j # i
        <5>1. j \in 1..b /\ m \in 1..b /\ i \in 1..b
          BY <4>3
        <5>2. j <= i /\ j # i => j <= m
          BY <4>2
        <5>3. QED
          BY <4>3, <5>1, <5>2
      <4>5. Upto(m) = Before
        BY <4>4
      <4>6. ~(k <= Cardinality(Upto(m)))
        BY <4>3
      <4>7. Cardinality(Before) \in Nat
        BY <1>2, <4>3, <4>5
      <4>8. QED
        BY <2>3, <4>5, <4>6, <4>7
    <3>3. QED
      BY <3>1, <3>2
  <2>5. Cardinality(Before) = n - 1
    BY <2>2 DEF n
  <2>6. n = k
    BY <2>3, <2>4, <2>5
  <2>7. QED
    BY <2>6 DEF n
<1>7. QED
  BY <1>6 DEF Nth

\* What is picked from a list is a list of elements of it.
LEMMA PickedList ==
  ASSUME NEW S, NEW list \in Seq(S), NEW I, \A i \in I : i \in DOMAIN list
  PROVE  Picked(list, I) \in Seq(S)
<1>1. (\A i \in I : i \in 1..Len(list)) /\ Len(list) \in Nat
  OBVIOUS
<1>2. IsFiniteSet(I)
  <2>1. IsFiniteSet(1..Len(list))
    BY <1>1, FS_Interval
  <2>2. I \in SUBSET (1..Len(list))
    BY <1>1, Zenon
  <2>3. QED
    BY <2>1, <2>2, FS_Subset
<1>3. Cardinality(I) \in Nat
  BY <1>2, FS_CardinalityType
<1>4. ASSUME NEW k \in 1..Cardinality(I) PROVE list[Nth(I, k)] \in S
  <2>1. Nth(I, k) \in I
    BY <1>1, NthPlace
  <2>2. QED
    BY <2>1
<1>5. QED
  BY <1>3, <1>4 DEF Picked

LEMMA FreshIs ==
  ASSUME NEW ids, NEW table, Free(ids, table)
  PROVE  Fresh(ids, table) \in ids /\ table[Fresh(ids, table)] = Null
BY DEF Free, Fresh

-----------------------------------------------------------------------------
(* Requests and tables *)

\* A request has the fields of its route.
LEMMA CallFields ==
  ASSUME NEW call \in Calls
  PROVE  /\ call.op \in {"create_system", "set_credentials", "rotate", "connect", "check", "say"}
         /\ call.op = "create_system" => call.system \in Systems /\ call.value \in Values \cup {Null}
         /\ call.op = "set_credentials" => call.system \in Systems /\ call.value \in Values
         /\ call.op = "rotate" => call.key \in Keys
         /\ call.op = "connect" => call.source \in Systems /\ call.targets \in Seq(Systems)
         /\ call.op = "check" => call.conn \in Conns
         /\ call.op = "say" => /\ call.attach \in Seq(Systems) /\ call.goal \in BOOLEAN
                               /\ call.source \in Systems \cup {Null} /\ call.target \in Systems \cup {Null}
<1>1. CASE call \in [op : {"create_system"}, system : Systems, value : Values \cup {Null}]
  BY <1>1
<1>2. CASE call \in [op : {"set_credentials"}, system : Systems, value : Values]
  BY <1>2
<1>3. CASE call \in [op : {"rotate"}, key : Keys]
  BY <1>3
<1>4. CASE call \in [op : {"connect"}, source : Systems, targets : Seq(Systems)]
  BY <1>4
<1>5. CASE call \in [op : {"check"}, conn : Conns]
  BY <1>5
<1>6. CASE call \in [op : {"say"}, attach : Seq(Systems), source : Systems \cup {Null}, target : Systems \cup {Null},
                     goal : BOOLEAN, build : BOOLEAN]
  BY <1>6
<1>7. QED
  BY <1>1, <1>2, <1>3, <1>4, <1>5, <1>6 DEF Calls

LEMMA Heads ==
  ASSUME Typed, NEW c \in Clients, todo[c] # <<>>
  PROVE  Head(todo[c]) \in Calls /\ Tail(todo[c]) \in Seq(Calls)
<1>1. todo[c] \in Seq(Calls)
  BY DEF Typed
<1>2. QED
  BY <1>1

\* A list of targets, as a call gives it and as a row holds it.
LEMMA ListOfTargets ==
  ASSUME NEW targets \in Seq(Systems), Len(targets) \in 1..MaxTargets
  PROVE  targets \in TargetLists
BY DEF TargetLists

LEMMA TargetsAreSystems ==
  ASSUME NEW targets \in TargetLists
  PROVE  targets \in Seq(Systems) /\ Range(targets) \subseteq Systems
<1>1. PICK n \in 1..MaxTargets : targets \in [1..n -> Systems]
  BY DEF TargetLists
<1>2. n \in Nat
  BY PlatformAssumption
<1>3. QED
  BY <1>1, <1>2 DEF Range

LEMMA SystemsOfRow ==
  ASSUME NEW row \in ConnRow
  PROVE  SystemsOf(row) \subseteq Systems
<1>1. row.source \in Systems /\ row.targets \in TargetLists
  BY DEF ConnRow
<1>2. QED
  BY <1>1, TargetsAreSystems DEF SystemsOf

\* What a composition yields: the status and the contract go together.
LEMMA JudgementIs ==
  ASSUME NEW result
  PROVE  \/ Judgement(result) = [status |-> "review_required", contract |-> Null]
         \/ Judgement(result) = [status |-> "review_required", contract |-> "open"]
         \/ Judgement(result) = [status |-> "shadow", contract |-> "clear"]
BY DEF Judgement, Unfinished

LEMMA ComposedIs ==
  ASSUME NEW source, NEW targets
  PROVE  \/ Composed(source, targets) = [status |-> "review_required", contract |-> Null]
         \/ Composed(source, targets) = [status |-> "review_required", contract |-> "open"]
         \/ Composed(source, targets) = [status |-> "shadow", contract |-> "clear"]
         \/ /\ Composed(source, targets) = [status |-> "needs_discovery", contract |-> Null]
            /\ Null \in {source} \cup Range(targets)
<1> DEFINE result == Compose(source, IF source.objects = <<>> THEN Null ELSE source.objects[1].id,
                             [k \in DOMAIN targets |-> Intent(targets[k])])
<1>1. CASE Null \in {source} \cup Range(targets)
  BY <1>1 DEF Composed, Unfinished
<1>2. CASE Null \notin {source} \cup Range(targets) /\ \E p \in Range(targets) : p.operations = <<>>
  BY <1>2 DEF Composed, Unfinished
<1>3. CASE Null \notin {source} \cup Range(targets) /\ ~\E p \in Range(targets) : p.operations = <<>>
  <2>1. Composed(source, targets) = Judgement(result)
    BY <1>3 DEF Composed, CompositionOf
  <2> HIDE DEF result
  <2>2. QED
    BY <2>1, JudgementIs
<1>4. QED
  BY <1>1, <1>2, <1>3

LEMMA OutcomeIs ==
  ASSUME NEW row \in ConnRow
  PROVE  /\ Outcome(row) = OutcomeOf(row.source, row.targets)
         /\ \/ Outcome(row) = [status |-> "review_required", contract |-> Null]
            \/ Outcome(row) = [status |-> "review_required", contract |-> "open"]
            \/ Outcome(row) = [status |-> "shadow", contract |-> "clear"]
            \/ /\ Outcome(row) = [status |-> "needs_discovery", contract |-> Null]
               /\ \E s \in SystemsOf(row) : Profile[s] = Null
<1>1. row.source \in Systems /\ row.targets \in TargetLists
  BY DEF ConnRow
<1>2. [source |-> row.source, targets |-> row.targets, outcome |-> OutcomeOf(row.source, row.targets)] \in Compositions
  BY <1>1 DEF Compositions
<1>3. \A o \in Compositions : o.outcome = OutcomeOf(o.source, o.targets)
  <2>1. ASSUME NEW s \in Systems, NEW t \in TargetLists,
               NEW o, o = [source |-> s, targets |-> t, outcome |-> OutcomeOf(s, t)]
        PROVE  o.outcome = OutcomeOf(o.source, o.targets)
    <3>1. o.outcome = OutcomeOf(s, t) /\ o.source = s /\ o.targets = t
      BY <2>1
    <3>2. QED
      BY <3>1, Zenon
  <2>2. QED
    BY <2>1 DEF Compositions
<1>4. \E o \in Compositions : o.source = row.source /\ o.targets = row.targets
  BY <1>2
<1>5. Outcome(row) = OutcomeOf(row.source, row.targets)
  <2> DEFINE o == CHOOSE o \in Compositions : o.source = row.source /\ o.targets = row.targets
  <2>1. o \in Compositions /\ o.source = row.source /\ o.targets = row.targets
    BY <1>4, Zenon
  <2>2. Outcome(row) = o.outcome
    BY Zenon DEF Outcome
  <2> HIDE DEF o
  <2>3. o.outcome = OutcomeOf(o.source, o.targets)
    BY <1>3, <2>1, Zenon
  <2>4. QED
    BY <2>1, <2>2, <2>3, Zenon
<1>6. ASSUME Null \in {Profile[row.source]} \cup Range([k \in DOMAIN row.targets |-> Profile[row.targets[k]]])
      PROVE  \E s \in SystemsOf(row) : Profile[s] = Null
  BY <1>6 DEF Range, SystemsOf
<1>7. QED
  BY <1>5, <1>6, ComposedIs, Zenon DEF OutcomeOf

\* A reply keeps the draft a draft, with the systems and the connection it had.
LEMMA RepliedIs ==
  ASSUME NEW draft \in Draft, NEW call \in Calls, call.op = "say"
  PROVE  /\ Replied(draft, call) \in Draft
         /\ Range(draft.systems) \subseteq Range(Replied(draft, call).systems)
         /\ Replied(draft, call).conn = draft.conn
<1> DEFINE added == Added(draft.systems, call.attach)
           systems == draft.systems \o added
<1>1. /\ call.attach \in Seq(Systems) /\ call.goal \in BOOLEAN
      /\ call.source \in Systems \cup {Null} /\ call.target \in Systems \cup {Null}
  BY CallFields
<1>2. /\ draft.systems \in Seq(Systems) /\ draft.source \in Systems \cup {Null} /\ draft.targets \in Seq(Systems)
      /\ draft.goal \in BOOLEAN /\ draft.conn \in Conns \cup {Null}
  BY DEF Draft
<1>3. added \in Seq(Systems)
  <2> DEFINE I == {i \in DOMAIN call.attach :
                     /\ Exists(call.attach[i]) /\ call.attach[i] \notin Range(draft.systems)
                     /\ \A j \in 1..(i - 1) : call.attach[j] # call.attach[i]}
  <2>1. \A i \in I : i \in DOMAIN call.attach
    OBVIOUS
  <2>2. added = Picked(call.attach, I)
    BY Zenon DEF Added
  <2> HIDE DEF I
  <2>3. QED
    BY <1>1, <2>1, <2>2, PickedList
<1> HIDE DEF added
<1>4. systems \in Seq(Systems) /\ Range(draft.systems) \subseteq Range(systems)
  <2>1. systems \in Seq(Systems)
    BY <1>2, <1>3
  <2>2. ASSUME NEW i \in DOMAIN draft.systems PROVE draft.systems[i] \in Range(systems)
    <3>1. i \in DOMAIN systems /\ systems[i] = draft.systems[i]
      BY <1>2, <1>3
    <3>2. QED
      BY <3>1 DEF Range
  <2>3. Range(draft.systems) \subseteq Range(systems)
    BY <2>2 DEF Range
  <2>4. QED
    BY <2>1, <2>3
<1> HIDE DEF systems
<1> DEFINE both == Len(systems) >= 2 /\ \E s \in Range(call.attach) : Exists(s)
           src == IF Exists(call.source) THEN call.source
                  ELSE IF both /\ draft.source = Null THEN systems[1] ELSE draft.source
           tgt == IF Exists(call.target) THEN <<call.target>>
                  ELSE IF both /\ draft.targets = <<>> THEN Tail(systems) ELSE draft.targets
<1>5. Replied(draft, call) = [draft EXCEPT !.systems = systems, !.source = src, !.targets = tgt,
                                           !.goal = draft.goal \/ call.goal]
  BY <1>2 DEF Replied, Extended, added, systems, Draft
<1>6. src \in Systems \cup {Null}
  BY <1>1, <1>2, <1>4
<1>7. tgt \in Seq(Systems)
  <2>1. Exists(call.target) => <<call.target>> \in Seq(Systems)
    BY DEF Exists
  <2>2. both => Tail(systems) \in Seq(Systems)
    BY <1>4
  <2>3. QED
    BY <1>2, <2>1, <2>2
<1> HIDE DEF src, tgt
<1>8. QED
  BY <1>2, <1>4, <1>5, <1>6, <1>7 DEF Draft

-----------------------------------------------------------------------------
(* Types *)

LEMMA NoMemType == NoMem \in Mem
BY DEF NoMem, Mem

LEMMA MemType ==
  ASSUME NEW m \in Mem
  PROVE  /\ \A r \in Refs \cup {Null} : [m EXCEPT !.ref = r] \in Mem
         /\ \A rows \in SUBSET Refs : [m EXCEPT !.rows = rows] \in Mem
         /\ \A d \in Draft : [m EXCEPT !.draft = d] \in Mem
BY DEF Mem

\* A call goes on, or ends; the other clients are where they were.
LEMMA GotoIs ==
  ASSUME Typed, NEW c \in Clients, NEW step \in CallSteps, NEW m \in Mem, Goto(c, step, m)
  PROVE  /\ at' \in [Clients -> CallSteps] /\ mem' \in [Clients -> Mem] /\ todo' = todo
         /\ at'[c] = step /\ mem'[c] = m
         /\ \A d \in Clients \ {c} : at'[d] = at[d] /\ mem'[d] = mem[d]
BY DEF Typed, Goto

LEMMA ReturnIs ==
  ASSUME Typed, NEW c \in Clients, todo[c] # <<>>, Return(c)
  PROVE  /\ at' \in [Clients -> CallSteps] /\ mem' \in [Clients -> Mem] /\ todo' \in [Clients -> Seq(Calls)]
         /\ at'[c] = "idle" /\ mem'[c] = NoMem /\ todo'[c] = Tail(todo[c])
         /\ \A d \in Clients \ {c} : at'[d] = at[d] /\ mem'[d] = mem[d] /\ todo'[d] = todo[d]
<1>1. Tail(todo[c]) \in Seq(Calls) /\ NoMem \in Mem
  BY Heads, NoMemType
<1>2. QED
  BY <1>1 DEF Typed, Return, CallSteps

\* What a put leaves.
LEMMA PutIs ==
  ASSUME Typed, NEW c \in Clients, NEW r \in Refs, NEW s \in Systems, NEW v \in Values, Put(c, r, s, v)
  PROVE  /\ secret' \in [Refs -> Envelope \cup {Null}]
         /\ secret'[r] \in Envelope /\ secret'[r].system = s /\ secret'[r].value = v
         /\ \A q \in Refs \ {r} : secret'[q] = secret[q]
<1>1. Replica[c] \in Range(Replica)
  BY PlatformAssumption
<1>2. active[Replica[c]] \in Keys
  BY <1>1 DEF Typed
<1>3. [system |-> s, value |-> v, key |-> active[Replica[c]]] \in Envelope
  BY <1>2 DEF Envelope
<1>4. QED
  BY <1>3 DEF Typed, Put

LEMMA NotePutIs ==
  ASSUME Typed, NEW r \in Refs, NEW v \in Values, NotePut(r, v)
  PROVE  /\ lastPut' \in [Refs -> Values \cup {Null}] /\ lastPut'[r] = v
         /\ \A q \in Refs \ {r} : lastPut'[q] = lastPut[q]
         /\ raced' \subseteq Refs
         /\ raced' \ {r} = raced \ {r}
         /\ r \in raced' <=> \E d \in Clients : at[d] = "reput" /\ mem[d].ref = r
BY DEF Typed, NotePut

LEMMA FreshRef ==
  ASSUME Typed, Free(Refs, secret)
  PROVE  Fresh(Refs, secret) \in Refs /\ secret[Fresh(Refs, secret)] = Null
BY FreshIs

\* A connection is inserted, by a call that is to enqueue its job next.
Inserted(c, i, source, targets, draft) ==
  /\ conn[i] = Null
  /\ conn' \in [Conns -> ConnRow \cup {Null}] /\ \A k \in Conns \ {i} : conn'[k] = conn[k]
  /\ conn'[i] \in ConnRow
  /\ conn'[i].source = source /\ conn'[i].targets = targets
  /\ conn'[i].status = "queued" /\ conn'[i].contract = Null
  /\ at' \in [Clients -> CallSteps] /\ mem' \in [Clients -> Mem] /\ todo' = todo
  /\ at'[c] = "enqueue" /\ mem'[c].conn = i /\ mem'[c].draft = draft
  /\ \A d \in Clients \ {c} : at'[d] = at[d] /\ mem'[d] = mem[d]

LEMMA InsertIs ==
  ASSUME Typed, NEW c \in Clients, NEW source \in Systems, NEW targets \in Seq(Systems), Len(targets) \in 1..MaxTargets,
         NEW draft \in Draft \cup {Null}, Insert(c, source, targets, draft)
  PROVE  \E i \in Conns : Inserted(c, i, source, targets, draft)
<1> DEFINE i == Fresh(Conns, conn)
           row == [source |-> source, targets |-> targets, status |-> "queued", contract |-> Null]
           m == [NoMem EXCEPT !.conn = i, !.draft = draft]
<1>1. i \in Conns /\ conn[i] = Null
  BY FreshIs DEF Insert
<1>2. row \in ConnRow /\ row.source = source /\ row.targets = targets /\ row.status = "queued" /\ row.contract = Null
  BY ListOfTargets DEF ConnRow
<1>3. conn' = [conn EXCEPT ![i] = row] /\ Goto(c, "enqueue", m)
  BY DEF Insert
<1> HIDE DEF i, row
<1>4. conn' \in [Conns -> ConnRow \cup {Null}] /\ conn'[i] = row /\ \A k \in Conns \ {i} : conn'[k] = conn[k]
  BY <1>1, <1>2, <1>3 DEF Typed
<1>5. m \in Mem /\ m.conn = i /\ m.draft = draft
  BY <1>1 DEF NoMem, Mem
<1> HIDE DEF m
<1>6. /\ at' \in [Clients -> CallSteps] /\ mem' \in [Clients -> Mem] /\ todo' = todo
      /\ at'[c] = "enqueue" /\ mem'[c] = m
      /\ \A d \in Clients \ {c} : at'[d] = at[d] /\ mem'[d] = mem[d]
  BY <1>3, <1>5, GotoIs DEF CallSteps
<1>7. QED
  BY <1>1, <1>2, <1>4, <1>5, <1>6 DEF Inserted

\* A job is submitted for a connection.
LEMMA SubmitIs ==
  ASSUME Typed, NEW kind \in Kinds, NEW i \in Conns, Submit(kind, i)
  PROVE  \E j \in Jobs :
           /\ work[j] = Null /\ jobState[j] = "absent"
           /\ work' = [work EXCEPT ![j] = [kind |-> kind, conn |-> i]]
           /\ work' \in [Jobs -> Work \cup {Null}]
           /\ jobState' = [jobState EXCEPT ![j] = "queued"]
           /\ grants' = grants /\ grant' = grant
<1>1. Fresh(Jobs, work) \in Jobs /\ work[Fresh(Jobs, work)] = Null
  BY FreshIs DEF Submit
<1>2. [kind |-> kind, conn |-> i] \in Work
  BY DEF Work
<1>3. QED
  BY <1>1, <1>2 DEF Submit, Queue!Submit, Typed

\* The request a call is about.
LEMMA Started ==
  ASSUME Typed, NEW c \in Clients, NEW op, Starts(c, op)
  PROVE  at[c] = "idle" /\ todo[c] # <<>> /\ Head(todo[c]) \in Calls /\ Head(todo[c]).op = op
BY Heads DEF Starts, Asked

LEMMA Under ==
  ASSUME Typed, NEW c \in Clients, InCall(c), at[c] # "idle"
  PROVE  /\ todo[c] # <<>> /\ Head(todo[c]) \in Calls /\ mem[c] \in Mem
         /\ at[c] = "insert" => Head(todo[c]).op = "create_system"
         /\ at[c] \in {"put", "point"} => Head(todo[c]).op = "set_credentials"
         /\ at[c] \in {"activate", "resolve", "reput"} => Head(todo[c]).op = "rotate"
         /\ at[c] = "enqueue" => Head(todo[c]).op \in {"connect", "say"}
         /\ at[c] \in {"respond", "save"} => Head(todo[c]).op = "say"
<1>1. at[c] \in CallSteps /\ mem[c] \in Mem
  BY DEF Typed
<1>2. QED
  BY <1>1, Heads DEF InCall, OpsAt, CallSteps

LEMMA TypedApi ==
  ASSUME Shape, NEW c \in Clients, ApiStep(c) \/ Fail(c)
  PROVE  Typed'
<1> USE DEF queueVars, clientVars, history
<1>1. Typed /\ InCall(c)
  BY DEF Shape
<1>2. CASE CreateSystem(c)
  <2> DEFINE call == Head(todo[c])
  <2>1. call \in Calls /\ call.op = "create_system"
    BY <1>1, <1>2, Started DEF CreateSystem
  <2>2. call.system \in Systems /\ call.value \in Values \cup {Null}
    BY <2>1, CallFields
  <2> HIDE DEF call
  <2>3. CASE call.value = Null
    <3>1. Goto(c, "insert", NoMem) /\ UNCHANGED <<secret, lastPut, raced>>
      BY <1>2, <2>3 DEF CreateSystem, call
    <3>2. at' \in [Clients -> CallSteps] /\ mem' \in [Clients -> Mem] /\ todo' = todo
      BY <1>1, <3>1, GotoIs, NoMemType DEF CallSteps
    <3>3. QED
      BY <1>1, <1>2, <3>1, <3>2 DEF CreateSystem, Typed
  <2>4. CASE call.value # Null
    <3> DEFINE r == Fresh(Refs, secret)
    <3>1. /\ Put(c, r, call.system, call.value) /\ NotePut(r, call.value)
          /\ Goto(c, "insert", [NoMem EXCEPT !.ref = r]) /\ Free(Refs, secret)
      BY <1>2, <2>4 DEF CreateSystem, call
    <3>2. r \in Refs
      BY <1>1, <3>1, FreshRef
    <3> HIDE DEF r
    <3>3. secret' \in [Refs -> Envelope \cup {Null}]
      BY <1>1, <2>2, <2>4, <3>1, <3>2, PutIs
    <3>4. lastPut' \in [Refs -> Values \cup {Null}] /\ raced' \subseteq Refs
      BY <1>1, <2>2, <2>4, <3>1, <3>2, NotePutIs
    <3>5. at' \in [Clients -> CallSteps] /\ mem' \in [Clients -> Mem] /\ todo' = todo
      BY <1>1, <3>1, <3>2, GotoIs, NoMemType, MemType DEF CallSteps
    <3>6. QED
      BY <1>1, <1>2, <3>3, <3>4, <3>5 DEF CreateSystem, Typed
  <2>5. QED
    BY <2>3, <2>4
<1>3. CASE InsertSystem(c)
  <2> DEFINE s == Head(todo[c]).system
  <2>1. todo[c] # <<>> /\ s \in Systems /\ mem[c] \in Mem
    BY <1>1, <1>3, Under, CallFields DEF InsertSystem
  <2>2. [ref |-> mem[c].ref, status |-> SystemStatus(s, mem[c].ref # Null)] \in SystemRow
    BY <2>1 DEF Mem, SystemRow, SystemStatus
  <2>3. Return(c)
    BY <1>3 DEF InsertSystem
  <2>4. system' \in [Systems -> SystemRow \cup {Null}]
    BY <1>1, <1>3, <2>1, <2>2 DEF InsertSystem, Typed
  <2>5. QED
    BY <1>1, <1>3, <2>1, <2>3, <2>4, ReturnIs DEF InsertSystem, Typed
<1>4. CASE ReadSystem(c)
  <2> DEFINE s == Head(todo[c]).system
  <2>1. todo[c] # <<>> /\ s \in Systems
    BY <1>1, <1>4, Started, CallFields DEF ReadSystem
  <2>2. CASE system[s] = Null
    BY <1>1, <1>4, <2>1, <2>2, ReturnIs DEF ReadSystem, Typed
  <2>3. CASE system[s] # Null
    <3>1. system[s] \in SystemRow
      BY <1>1, <2>1, <2>3 DEF Typed
    <3>2. system[s].ref \in Refs \cup {Null}
      BY <3>1 DEF SystemRow
    <3>3. [NoMem EXCEPT !.ref = system[s].ref] \in Mem
      BY <3>2, NoMemType, MemType
    <3>4. Goto(c, "put", [NoMem EXCEPT !.ref = system[s].ref])
      BY <1>4, <2>3 DEF ReadSystem
    <3>5. at' \in [Clients -> CallSteps] /\ mem' \in [Clients -> Mem] /\ todo' = todo
      BY <1>1, <3>3, <3>4, GotoIs DEF CallSteps
    <3>6. QED
      BY <1>1, <1>4, <3>5 DEF ReadSystem, Typed
  <2>4. QED
    BY <2>2, <2>3
<1>5. CASE PutSecret(c)
  <2> DEFINE call == Head(todo[c])
             r == IF mem[c].ref # Null THEN mem[c].ref ELSE Fresh(Refs, secret)
  <2>1. call \in Calls /\ call.op = "set_credentials" /\ mem[c] \in Mem
    BY <1>1, <1>5, Under DEF PutSecret
  <2>2. call.system \in Systems /\ call.value \in Values
    BY <2>1, CallFields
  <2>3. r \in Refs
    BY <1>1, <1>5, <2>1, FreshRef DEF PutSecret, Mem
  <2>4. /\ Put(c, r, call.system, call.value) /\ NotePut(r, call.value)
        /\ Goto(c, "point", [NoMem EXCEPT !.ref = r])
    BY <1>5 DEF PutSecret
  <2> HIDE DEF call, r
  <2>5. secret' \in [Refs -> Envelope \cup {Null}]
    BY <1>1, <2>2, <2>3, <2>4, PutIs
  <2>6. lastPut' \in [Refs -> Values \cup {Null}] /\ raced' \subseteq Refs
    BY <1>1, <2>2, <2>3, <2>4, NotePutIs
  <2>7. at' \in [Clients -> CallSteps] /\ mem' \in [Clients -> Mem] /\ todo' = todo
    BY <1>1, <2>3, <2>4, GotoIs, NoMemType, MemType DEF CallSteps
  <2>8. QED
    BY <1>1, <1>5, <2>5, <2>6, <2>7 DEF PutSecret, Typed
<1>6. CASE PointSystem(c)
  <2> DEFINE s == Head(todo[c]).system
  <2>1. todo[c] # <<>> /\ s \in Systems /\ mem[c] \in Mem
    BY <1>1, <1>6, Under, CallFields DEF PointSystem
  <2>2. [ref |-> mem[c].ref, status |-> IF Profile[s] # Null THEN "configured" ELSE "needs_discovery"] \in SystemRow
    BY <2>1 DEF Mem, SystemRow
  <2>3. Return(c)
    BY <1>6 DEF PointSystem
  <2>4. system' \in [Systems -> SystemRow \cup {Null}]
    BY <1>1, <1>6, <2>1, <2>2 DEF PointSystem, Typed
  <2>5. QED
    BY <1>1, <1>6, <2>1, <2>3, <2>4, ReturnIs DEF PointSystem, Typed
<1>7. CASE ListSecrets(c)
  <2> DEFINE rows == {r \in Refs : secret[r] # Null /\ secret[r].key # Head(todo[c]).key}
  <2>1. Goto(c, "activate", [NoMem EXCEPT !.rows = rows]) /\ rows \in SUBSET Refs
    BY <1>7 DEF ListSecrets
  <2> HIDE DEF rows
  <2>2. at' \in [Clients -> CallSteps] /\ mem' \in [Clients -> Mem] /\ todo' = todo
    BY <1>1, <2>1, GotoIs, NoMemType, MemType DEF CallSteps
  <2>3. QED
    BY <1>1, <1>7, <2>2 DEF ListSecrets, Typed
<1>8. ASSUME NEW a, a = [active EXCEPT ![Replica[c]] = Head(todo[c]).key], at[c] \in {"activate", "resolve", "reput"}
      PROVE  a \in [Range(Replica) -> Keys]
  <2>1. Head(todo[c]).key \in Keys
    BY <1>1, <1>8, Under, CallFields
  <2>2. QED
    BY <1>1, <1>8, <2>1 DEF Typed
<1>9. CASE Activate(c)
  <2>1. mem[c] \in Mem /\ Goto(c, "resolve", mem[c])
    BY <1>1, <1>9 DEF Activate, Typed
  <2>2. at' \in [Clients -> CallSteps] /\ mem' \in [Clients -> Mem] /\ todo' = todo
    BY <1>1, <2>1, GotoIs DEF CallSteps
  <2>3. active' \in [Range(Replica) -> Keys]
    BY <1>8, <1>9 DEF Activate
  <2>4. QED
    BY <1>1, <1>9, <2>2, <2>3 DEF Activate, Typed
<1>10. CASE Resolve(c)
  <2>1. PICK r \in mem[c].rows :
          at[c] = "resolve" /\ Goto(c, "reput", [mem[c] EXCEPT !.ref = r, !.value = secret[r].value])
    BY <1>10 DEF Resolve
  <2>2. mem[c] \in Mem /\ r \in Refs /\ secret[r] \in Envelope
    BY <1>1, <2>1 DEF Typed, InCall, Mem
  <2>3. [mem[c] EXCEPT !.ref = r, !.value = secret[r].value] \in Mem
    BY <2>2 DEF Mem, Envelope
  <2>4. at' \in [Clients -> CallSteps] /\ mem' \in [Clients -> Mem] /\ todo' = todo
    BY <1>1, <2>1, <2>3, GotoIs DEF CallSteps
  <2>5. QED
    BY <1>1, <1>10, <2>4 DEF Resolve, Typed
<1>11. CASE Reput(c)
  <2>1. mem[c] \in Mem /\ mem[c].ref \in mem[c].rows /\ mem[c].value # Null /\ secret[mem[c].ref] # Null
    BY <1>1, <1>11 DEF Reput, InCall, Typed
  <2>2. mem[c].ref \in Refs /\ mem[c].value \in Values
    BY <2>1 DEF Mem
  <2>3. secret[mem[c].ref].system \in Systems
    BY <1>1, <2>1, <2>2 DEF Typed, Envelope
  <2>4. /\ Put(c, mem[c].ref, secret[mem[c].ref].system, mem[c].value)
        /\ Goto(c, "resolve", [mem[c] EXCEPT !.rows = @ \ {mem[c].ref}, !.ref = Null, !.value = Null])
    BY <1>11 DEF Reput
  <2>5. secret' \in [Refs -> Envelope \cup {Null}]
    BY <1>1, <2>2, <2>3, <2>4, PutIs
  <2>6. [mem[c] EXCEPT !.rows = @ \ {mem[c].ref}, !.ref = Null, !.value = Null] \in Mem
    BY <2>1 DEF Mem
  <2>7. at' \in [Clients -> CallSteps] /\ mem' \in [Clients -> Mem] /\ todo' = todo
    BY <1>1, <2>4, <2>6, GotoIs DEF CallSteps
  <2>8. QED
    BY <1>1, <1>11, <2>5, <2>7 DEF Reput, Typed
<1>12. CASE EndRotation(c)
  <2>1. todo[c] # <<>> /\ Return(c)
    BY <1>1, <1>12, Under DEF EndRotation
  <2>2. active' \in [Range(Replica) -> Keys]
    BY <1>8, <1>12 DEF EndRotation
  <2>3. QED
    BY <1>1, <1>12, <2>1, <2>2, ReturnIs DEF EndRotation, Typed
<1>13. CASE CreateConnection(c)
  <2> DEFINE call == Head(todo[c])
  <2>1. todo[c] # <<>> /\ call \in Calls /\ call.op = "connect"
    BY <1>1, <1>13, Started DEF CreateConnection
  <2>2. call.source \in Systems /\ call.targets \in Seq(Systems)
    BY <2>1, CallFields
  <2> HIDE DEF call
  <2>3. CASE Connectable(call.source, call.targets)
    <3>1. Insert(c, call.source, call.targets, Null)
      BY <1>13, <2>3 DEF CreateConnection, call
    <3>2. PICK i \in Conns : Inserted(c, i, call.source, call.targets, Null)
      BY <1>1, <2>2, <2>3, <3>1, InsertIs DEF Connectable
    <3>3. QED
      BY <1>1, <1>13, <3>2 DEF CreateConnection, Inserted, Typed
  <2>4. CASE ~Connectable(call.source, call.targets)
    <3>1. Return(c) /\ UNCHANGED conn
      BY <1>13, <2>4 DEF CreateConnection, call
    <3>2. QED
      BY <1>1, <1>13, <2>1, <3>1, ReturnIs DEF CreateConnection, Typed
  <2>5. QED
    BY <2>3, <2>4
<1>14. CASE Enqueue(c)
  <2>1. todo[c] # <<>> /\ mem[c] \in Mem /\ mem[c].conn \in Conns
    BY <1>1, <1>14, Under DEF Enqueue, InCall, Mem
  <2>2. PICK j \in Jobs : /\ work' \in [Jobs -> Work \cup {Null}]
                          /\ jobState' = [jobState EXCEPT ![j] = "queued"]
                          /\ grants' = grants /\ grant' = grant
    BY <1>1, <1>14, <2>1, SubmitIs DEF Enqueue, Kinds
  <2>3. at' \in [Clients -> CallSteps] /\ mem' \in [Clients -> Mem] /\ todo' \in [Clients -> Seq(Calls)]
    <3>1. CASE Asked(c, "say")
      <4>1. mem[c].draft \in Draft
        BY <1>1, <1>14, <2>1, <3>1 DEF InCall, Enqueue, Asked, Mem
      <4>2. [mem[c] EXCEPT !.draft.conn = mem[c].conn] \in Mem
        BY <2>1, <4>1 DEF Mem, Draft
      <4>3. todo' = todo /\ todo \in [Clients -> Seq(Calls)]
        BY <1>1, <1>14, <3>1 DEF Enqueue, Goto, Typed
      <4>4. QED
        BY <1>1, <1>14, <3>1, <4>2, <4>3, GotoIs DEF Enqueue, CallSteps
    <3>2. CASE ~Asked(c, "say")
      BY <1>1, <1>14, <2>1, <3>2, ReturnIs DEF Enqueue
    <3>3. QED
      BY <3>1, <3>2
  <2>4. QED
    BY <1>1, <1>14, <2>2, <2>3 DEF Enqueue, Typed
<1>15. CASE Check(c)
  <2> DEFINE i == Head(todo[c]).conn
  <2>1. todo[c] # <<>> /\ i \in Conns /\ Return(c)
    BY <1>1, <1>15, Started, CallFields DEF Check
  <2>2. at' \in [Clients -> CallSteps] /\ mem' \in [Clients -> Mem] /\ todo' \in [Clients -> Seq(Calls)]
    BY <1>1, <2>1, ReturnIs
  <2>3. CASE conn[i] = Null
    BY <1>1, <1>15, <2>2, <2>3 DEF Check, Typed
  <2>4. CASE conn[i] # Null
    <3>1. Submit("connection_health", i)
      BY <1>15, <2>4 DEF Check
    <3>2. PICK j \in Jobs : /\ work' \in [Jobs -> Work \cup {Null}]
                            /\ jobState' = [jobState EXCEPT ![j] = "queued"]
                            /\ grants' = grants /\ grant' = grant
      BY <1>1, <2>1, <3>1, SubmitIs DEF Kinds
    <3>3. QED
      BY <1>1, <1>15, <2>2, <3>2 DEF Check, Typed
  <2>5. QED
    BY <2>3, <2>4
<1>16. CASE ReadDraft(c)
  <2>1. Goto(c, "respond", [NoMem EXCEPT !.draft = chat]) /\ chat \in Draft
    BY <1>1, <1>16 DEF ReadDraft, Typed
  <2>2. at' \in [Clients -> CallSteps] /\ mem' \in [Clients -> Mem] /\ todo' = todo
    BY <1>1, <2>1, GotoIs, NoMemType, MemType DEF CallSteps
  <2>3. mixed' \in BOOLEAN
    BY <1>1, <1>16, Zenon DEF ReadDraft, Typed
  <2>4. QED
    BY <1>1, <1>16, <2>2, <2>3 DEF ReadDraft, Typed
<1>17. CASE Respond(c)
  <2> DEFINE call == Head(todo[c])
             draft == Replied(mem[c].draft, call)
  <2>1. todo[c] # <<>> /\ call \in Calls /\ call.op = "say" /\ mem[c] \in Mem
    BY <1>1, <1>17, Under DEF Respond
  <2>2. mem[c].draft \in Draft
    BY <1>1, <1>17, <2>1 DEF InCall, Respond, Mem
  <2>3. draft \in Draft
    BY <2>1, <2>2, RepliedIs
  <2>4. /\ IF call.build /\ Complete(draft)
           THEN IF Connectable(draft.source, draft.targets)
                THEN Insert(c, draft.source, draft.targets, draft)
                ELSE Return(c) /\ UNCHANGED conn
           ELSE Goto(c, "save", [mem[c] EXCEPT !.draft = draft]) /\ UNCHANGED conn
        /\ UNCHANGED <<system, secret, chat, active, queueVars, work, doing, history>>
    BY <1>17 DEF Respond
  <2> HIDE DEF call, draft
  <2>5. CASE call.build /\ Complete(draft) /\ Connectable(draft.source, draft.targets)
    <3>1. Insert(c, draft.source, draft.targets, draft)
      BY <2>4, <2>5
    <3>2. draft.source \in Systems /\ draft.targets \in Seq(Systems) /\ Len(draft.targets) \in 1..MaxTargets
      BY <2>3, <2>5 DEF Connectable, Exists, Draft
    <3>3. PICK i \in Conns : Inserted(c, i, draft.source, draft.targets, draft)
      BY <1>1, <2>3, <3>1, <3>2, InsertIs
    <3>4. QED
      BY <1>1, <2>4, <3>3 DEF Inserted, Typed
  <2>6. CASE call.build /\ Complete(draft) /\ ~Connectable(draft.source, draft.targets)
    <3>1. Return(c) /\ UNCHANGED conn
      BY <2>4, <2>6
    <3>2. QED
      BY <1>1, <2>1, <2>4, <3>1, ReturnIs DEF Typed
  <2>7. CASE ~(call.build /\ Complete(draft))
    <3>1. Goto(c, "save", [mem[c] EXCEPT !.draft = draft]) /\ UNCHANGED conn
      BY <2>4, <2>7
    <3>2. at' \in [Clients -> CallSteps] /\ mem' \in [Clients -> Mem] /\ todo' = todo
      BY <1>1, <2>1, <2>3, <3>1, GotoIs, MemType DEF CallSteps
    <3>3. QED
      BY <1>1, <2>4, <3>1, <3>2 DEF Typed
  <2>8. QED
    BY <2>5, <2>6, <2>7
<1>18. CASE SaveDraft(c)
  <2>1. todo[c] # <<>> /\ mem[c] \in Mem /\ Return(c)
    BY <1>1, <1>18, Under DEF SaveDraft
  <2>2. mem[c].draft \in Draft
    BY <1>1, <1>18, <2>1, Under DEF InCall, SaveDraft, Mem
  <2>3. QED
    BY <1>1, <1>18, <2>1, <2>2, ReturnIs DEF SaveDraft, Typed
<1>19. CASE Fail(c)
  <2>1. todo[c] # <<>> /\ Return(c)
    BY <1>1, <1>19, Under DEF Fail
  <2>2. active' \in [Range(Replica) -> Keys]
    BY <1>1, <1>8, <1>19 DEF Fail, Typed
  <2>3. QED
    BY <1>1, <1>19, <2>1, <2>2, ReturnIs DEF Fail, Typed
<1>20. QED
  BY <1>2, <1>3, <1>4, <1>5, <1>6, <1>7, <1>9, <1>10, <1>11, <1>12, <1>13, <1>14, <1>15, <1>16, <1>17,
     <1>18, <1>19 DEF ApiStep

LEMMA TypedRestart ==
  ASSUME Shape, NEW r \in Range(Replica), Restart(r)
  PROVE  Typed'
<1> DEFINE lost == {c \in Clients : Replica[c] = r /\ at[c] # "idle"}
<1> USE DEF queueVars
<1>1. Typed /\ \A c \in Clients : InCall(c)
  BY DEF Shape
<1>2. active' \in [Range(Replica) -> Keys]
  BY <1>1, PlatformAssumption DEF Restart, Typed
<1>3. \A c \in lost : Tail(todo[c]) \in Seq(Calls)
  BY <1>1, Heads DEF InCall
<1>4. /\ at' = [c \in Clients |-> IF c \in lost THEN "idle" ELSE at[c]]
      /\ mem' = [c \in Clients |-> IF c \in lost THEN NoMem ELSE mem[c]]
      /\ todo' = [c \in Clients |-> IF c \in lost THEN Tail(todo[c]) ELSE todo[c]]
  BY DEF Restart
<1> HIDE DEF lost
<1>5. at' \in [Clients -> CallSteps] /\ mem' \in [Clients -> Mem] /\ todo' \in [Clients -> Seq(Calls)]
  BY <1>1, <1>3, <1>4, NoMemType DEF Typed, CallSteps
<1>6. QED
  BY <1>1, <1>2, <1>5 DEF Restart, Typed

\* The grant of a handler at work, and its job.
LEMMA AtWork ==
  ASSUME Shape, NEW w \in Workers, doing[w].step # "idle"
  PROVE  /\ grant[w] \in Granted /\ grant[w].job \in Jobs
         /\ Working(w) \in Work /\ Working(w).conn \in Conns /\ Working(w).kind \in Kinds
         /\ conn[Working(w).conn] \in ConnRow
<1>1. grant[w] \in Granted /\ jobState[grant[w].job] # "absent"
  BY DEF Shape, Typed, InJob, Handling
<1>2. grant[w].job \in Jobs
  BY <1>1 DEF Granted
<1>3. Working(w) \in Work
  BY <1>1, <1>2 DEF Shape, Typed, InJob, JobsNamed, Working
<1>4. Working(w).conn \in Conns /\ Working(w).kind \in Kinds
  BY <1>3 DEF Work
<1>5. work[grant[w].job] # Null
  BY <1>1, <1>2 DEF Shape, InJob, JobsNamed
<1>6. conn[Working(w).conn] \in ConnRow
  BY <1>2, <1>4, <1>5 DEF Shape, Typed, InJob, JobsNamed, Working
<1>7. QED
  BY <1>1, <1>2, <1>3, <1>4, <1>6

\* What a grant or a settlement leaves of the queue.
LEMMA SettledIs ==
  ASSUME Shape, NEW w \in Workers, NEW outcome \in {"queued", "succeeded", "dead"},
         Settle(w, outcome) \/ Queue!Drop(w)
  PROVE  /\ jobState' \in [Jobs -> {"absent", "queued", "leased", "succeeded", "dead"}]
         /\ grants' = grants
         /\ grant' = [grant EXCEPT ![w] = Null] /\ grant' \in [Workers -> Granted \cup {Null}]
         /\ \A j \in Jobs : jobState'[j] = "absent" <=> jobState[j] = "absent"
<1>1. CASE Queue!Drop(w)
  BY <1>1 DEF Queue!Drop, Shape, Typed
<1>2. CASE Queue!Settle(w, outcome)
  <2>1. PICK j \in Jobs : /\ jobState[j] = "leased"
                          /\ jobState' = [jobState EXCEPT ![j] = outcome]
                          /\ grant' = [grant EXCEPT ![w] = Null]
                          /\ grants' = grants
    BY <1>2 DEF Queue!Settle
  <2>2. QED
    BY <2>1 DEF Shape, Typed
<1>3. QED
  BY <1>1, <1>2 DEF Settle

\* The row a write-back leaves.
Written(w) == IF Working(w).kind = "connection_health"
              THEN [status |-> Health(doing[w].row, doing[w].issues), contract |-> Null]
              ELSE Outcome(doing[w].row)

LEMMA WriteBackIs ==
  ASSUME Shape, NEW w \in Workers, WriteBack(w)
  PROVE  /\ doing[w].row \in ConnRow
         /\ conn'[Working(w).conn] \in ConnRow
         /\ \A i \in Conns \ {Working(w).conn} : conn'[i] = conn[i]
         /\ conn' \in [Conns -> ConnRow \cup {Null}]
         /\ LET old == conn[Working(w).conn]
                new == conn'[Working(w).conn]
            IN  /\ new.source = old.source /\ new.targets = old.targets
                /\ new.status = Written(w).status
                /\ new.contract = IF Written(w).contract = Null THEN old.contract ELSE Written(w).contract
<1> DEFINE i == Working(w).conn
           new == Written(w)
<1>1. doing[w].step = "write"
  BY DEF WriteBack
<1>2. i \in Conns /\ conn[i] \in ConnRow
  BY <1>1, AtWork
<1>3. doing[w].row \in ConnRow
  BY <1>1 DEF Shape, Typed, Doing, InJob, Handling
<1>4. /\ new.status \in {"queued", "needs_discovery", "review_required", "shadow", "degraded", "healthy",
                          "needs_composition"}
      /\ new.contract \in {Null, "open", "clear"}
  <2>1. CASE Working(w).kind = "connection_health"
    BY <2>1 DEF Written, Health
  <2>2. CASE Working(w).kind # "connection_health"
    <3>1. new = Outcome(doing[w].row)
      BY <2>2, Zenon DEF Written
    <3> HIDE DEF new
    <3>2. QED
      BY <3>1, <1>3, OutcomeIs
  <2>3. QED
    BY <2>1, <2>2
<1>5. conn' = [conn EXCEPT ![i].status = new.status,
                           ![i].contract = IF new.contract = Null THEN @ ELSE new.contract]
  BY Zenon DEF WriteBack, Written
<1> HIDE DEF i, new
<1>6. /\ \A k \in Conns \ {i} : conn'[k] = conn[k]
      /\ conn'[i] \in ConnRow /\ conn'[i].source = conn[i].source /\ conn'[i].targets = conn[i].targets
      /\ conn'[i].status = new.status
      /\ conn'[i].contract = IF new.contract = Null THEN conn[i].contract ELSE new.contract
  BY <1>2, <1>4, <1>5 DEF Shape, Typed, ConnRow
<1>7. conn' \in [Conns -> ConnRow \cup {Null}]
  BY <1>5, <1>6 DEF Shape, Typed
<1>8. QED
  BY <1>3, <1>6, <1>7 DEF i, new

HandlerStep(w) == WorkerStep(w) \/ HandlerFails(w) \/ WorkerCrash(w)

LEMMA TypedWorker ==
  ASSUME Shape, NEW w \in Workers, HandlerStep(w)
  PROVE  Typed'
<1> USE DEF queueVars, clientVars, history
<1>1. Typed
  BY DEF Shape
<1>2. Idle \in Doing
  BY DEF Idle, Doing
<1>3. ASSUME NEW j \in Jobs, Take(w, j) PROVE Typed'
  <2>1. /\ jobState' = [jobState EXCEPT ![j] = "leased"]
        /\ grants' = [grants EXCEPT ![j] = @ + 1]
        /\ grant' = [grant EXCEPT ![w] = [job |-> j, number |-> grants[j] + 1]]
    BY <1>3 DEF Take, Queue!Grant
  <2>2. [job |-> j, number |-> grants[j] + 1] \in Granted
    BY <1>1 DEF Typed, Granted
  <2>3. doing' \in [Workers -> Doing]
    BY <1>1, <1>3 DEF Take, Typed, Doing
  <2>4. QED
    BY <1>1, <1>3, <2>1, <2>2, <2>3 DEF Take, Typed
<1>4. CASE ReadRow(w)
  <2>1. Working(w).conn \in Conns /\ conn[Working(w).conn] \in ConnRow
    BY <1>4, AtWork DEF ReadRow
  <2>2. doing' \in [Workers -> Doing]
    BY <1>1, <1>4, <2>1 DEF ReadRow, Typed, Doing
  <2>3. overlapped' \subseteq Conns
    BY <1>1, <1>4, <2>1 DEF ReadRow, Typed
  <2>4. QED
    BY <1>1, <1>4, <2>2, <2>3 DEF ReadRow, Typed
<1>5. CASE Inspect(w)
  <2> DEFINE found == \E s \in {doing[w].row.source} \cup Range(doing[w].row.targets) :
                        Profile[s] = Null \/ (Kind[s] # "none" /\ system[s].ref = Null)
  <2>1. doing' = [doing EXCEPT ![w].step = "write", ![w].issues = found] /\ found \in BOOLEAN
    BY <1>5, Zenon DEF Inspect
  <2> HIDE DEF found
  <2>2. doing \in [Workers -> Doing]
    BY <1>1 DEF Typed
  <2>3. [doing[w] EXCEPT !.step = "write", !.issues = found] \in Doing
    BY <2>1, <2>2 DEF Doing
  <2>4. doing' = [doing EXCEPT ![w] = [doing[w] EXCEPT !.step = "write", !.issues = found]]
    BY <2>1, <2>2
  <2>5. doing' \in [Workers -> Doing]
    BY <2>2, <2>3, <2>4
  <2>6. QED
    BY <1>1, <1>5, <2>5 DEF Inspect, Typed
<1>6. CASE WriteBack(w)
  <2>1. [Idle EXCEPT !.step = "done"] \in Doing
    BY DEF Idle, Doing
  <2>2. doing' \in [Workers -> Doing]
    BY <1>1, <1>6, <2>1 DEF WriteBack, Typed
  <2>3. conn' \in [Conns -> ConnRow \cup {Null}]
    BY <1>6, WriteBackIs
  <2>4. QED
    BY <1>1, <1>6, <2>2, <2>3 DEF WriteBack, Typed
<1>7. CASE Finish(w)
  BY <1>1, <1>2, <1>7, SettledIs DEF Finish, Typed
<1>8. CASE HandlerFails(w)
  BY <1>1, <1>2, <1>8, SettledIs DEF HandlerFails, Typed
<1>9. CASE WorkerCrash(w)
  <2>1. Queue!Drop(w)
    BY <1>9 DEF WorkerCrash
  <2>2. QED
    BY <1>1, <1>2, <1>9, <2>1, SettledIs DEF WorkerCrash, Typed
<1>10. QED
  BY <1>3, <1>4, <1>5, <1>6, <1>7, <1>8, <1>9 DEF HandlerStep, WorkerStep

LEMMA TypedNext ==
  ASSUME Shape, [Next]_vars
  PROVE  Typed'
<1>1. CASE Next
  BY <1>1, TypedApi, TypedRestart, TypedWorker DEF Next, HandlerStep
<1>2. CASE UNCHANGED vars
  BY <1>2 DEF vars, queueVars, clientVars, history, Shape, Typed
<1>3. QED
  BY <1>1, <1>2
-----------------------------------------------------------------------------
(* What every step leaves in place, and the places of calls and handlers *)

\* An envelope is never deleted, nor a connection, whose source and targets never change.
Stay ==
  /\ \A r \in Refs : secret[r] # Null => secret'[r] # Null
  /\ \A i \in Conns : conn[i] # Null =>
       conn'[i] # Null /\ conn'[i].source = conn[i].source /\ conn'[i].targets = conn[i].targets

\* The actions that put an envelope, and those that may insert a connection.
Putting(c) == CreateSystem(c) \/ PutSecret(c) \/ Reput(c)
Inserting(c) == CreateConnection(c) \/ Respond(c)

LEMMA OtherSteps ==
  ASSUME NEW c \in Clients, ApiStep(c) \/ Fail(c)
  PROVE  /\ Putting(c) \/ UNCHANGED secret
         /\ Inserting(c) \/ UNCHANGED conn
         /\ CreateSystem(c) \/ PutSecret(c) \/ UNCHANGED <<lastPut, raced>>
         /\ InsertSystem(c) \/ PointSystem(c) \/ UNCHANGED system
         /\ Enqueue(c) \/ Check(c) \/ UNCHANGED <<jobState, grants, grant, work>>
         /\ UNCHANGED <<doing, overlapped>>
BY DEF ApiStep, Putting, Inserting, CreateSystem, InsertSystem, ReadSystem, PutSecret, PointSystem, ListSecrets,
       Activate, Resolve, Reput, EndRotation, CreateConnection, Enqueue, Check, ReadDraft, Respond, SaveDraft, Fail,
       queueVars, history

\* A put is of one envelope, for a system.
Sets(r, s, v) ==
  /\ secret'[r] \in Envelope /\ secret'[r].system = s /\ secret'[r].value = v
  /\ \A q \in Refs \ {r} : secret'[q] = secret[q]

LEMMA CreateSystemIs ==
  ASSUME Shape, NEW c \in Clients, CreateSystem(c)
  PROVE  LET s == Head(todo[c]).system
         IN  /\ s \in Systems /\ system[s] = Null
             /\ at'[c] = "insert" /\ todo'[c] = todo[c]
             /\ \/ UNCHANGED <<secret, lastPut, raced>> /\ mem'[c].ref = Null
                \/ \E r \in Refs, v \in Values :
                     Sets(r, s, v) /\ secret[r] = Null /\ mem'[c].ref = r /\ NotePut(r, v)
<1> DEFINE call == Head(todo[c])
           r == Fresh(Refs, secret)
<1>1. Typed /\ call \in Calls /\ call.op = "create_system" /\ system[call.system] = Null
  BY Started DEF Shape, CreateSystem, NewId
<1>2. call.system \in Systems /\ call.value \in Values \cup {Null}
  BY <1>1, CallFields
<1>3. CASE call.value = Null
  <2>1. Goto(c, "insert", NoMem) /\ UNCHANGED <<secret, lastPut, raced>>
    BY <1>3 DEF CreateSystem
  <2>2. at'[c] = "insert" /\ mem'[c] = NoMem /\ todo'[c] = todo[c]
    BY <1>1, <2>1, GotoIs, NoMemType DEF CallSteps
  <2>3. NoMem.ref = Null
    BY DEF NoMem
  <2>4. QED
    BY <1>1, <1>2, <2>1, <2>2, <2>3
<1>4. CASE call.value # Null
  <2>1. /\ Put(c, r, call.system, call.value) /\ NotePut(r, call.value)
        /\ Goto(c, "insert", [NoMem EXCEPT !.ref = r]) /\ Free(Refs, secret)
    BY <1>4 DEF CreateSystem
  <2>2. r \in Refs /\ secret[r] = Null
    BY <1>1, <2>1, FreshRef
  <2> DEFINE m == [NoMem EXCEPT !.ref = r]
  <2> HIDE DEF r
  <2>3. m \in Mem /\ m.ref = r
    BY <2>2, NoMemType, MemType DEF NoMem
  <2> HIDE DEF m, call
  <2>4. at'[c] = "insert" /\ mem'[c] = m /\ todo'[c] = todo[c]
    BY <1>1, <2>1, <2>3, GotoIs DEF CallSteps, m
  <2>5. Sets(r, call.system, call.value)
    BY <1>1, <1>2, <1>4, <2>1, <2>2, PutIs DEF Sets
  <2>6. QED
    BY <1>1, <1>2, <1>4, <2>1, <2>2, <2>3, <2>4, <2>5 DEF call
<1>5. QED
  BY <1>3, <1>4

LEMMA PutSecretIs ==
  ASSUME Shape, NEW c \in Clients, PutSecret(c)
  PROVE  LET s == Head(todo[c]).system
         IN  /\ s \in Systems
             /\ at'[c] = "point" /\ todo'[c] = todo[c]
             /\ \E r \in Refs, v \in Values :
                  /\ Sets(r, s, v) /\ mem'[c].ref = r /\ NotePut(r, v)
                  /\ r = mem[c].ref \/ (mem[c].ref = Null /\ secret[r] = Null)
<1> DEFINE call == Head(todo[c])
           r == IF mem[c].ref # Null THEN mem[c].ref ELSE Fresh(Refs, secret)
<1>1. Typed /\ call \in Calls /\ call.op = "set_credentials" /\ mem[c] \in Mem
  BY Under DEF Shape, PutSecret
<1>2. call.system \in Systems /\ call.value \in Values
  BY <1>1, CallFields
<1>3. r \in Refs /\ (r = mem[c].ref \/ (mem[c].ref = Null /\ secret[r] = Null))
  BY <1>1, FreshRef DEF PutSecret, Mem
<1>4. /\ Put(c, r, call.system, call.value) /\ NotePut(r, call.value)
      /\ Goto(c, "point", [NoMem EXCEPT !.ref = r])
  BY DEF PutSecret
<1> HIDE DEF call, r
<1> DEFINE m == [NoMem EXCEPT !.ref = r]
<1>5. m \in Mem /\ m.ref = r
  BY <1>3, NoMemType, MemType DEF NoMem
<1> HIDE DEF m
<1>6. at'[c] = "point" /\ mem'[c] = m /\ todo'[c] = todo[c]
  BY <1>1, <1>4, <1>5, GotoIs DEF CallSteps, m
<1>7. Sets(r, call.system, call.value)
  BY <1>1, <1>2, <1>3, <1>4, PutIs DEF Sets
<1>8. QED
  BY <1>2, <1>3, <1>4, <1>5, <1>6, <1>7 DEF call

LEMMA ReputIs ==
  ASSUME Shape, NEW c \in Clients, Reput(c)
  PROVE  /\ mem[c].ref \in Refs /\ mem[c].value \in Values /\ secret[mem[c].ref] # Null
         /\ Sets(mem[c].ref, secret[mem[c].ref].system, mem[c].value)
         /\ UNCHANGED <<lastPut, raced>>
<1>1. Typed /\ mem[c] \in Mem /\ mem[c].ref \in mem[c].rows /\ mem[c].value # Null /\ secret[mem[c].ref] # Null
  BY DEF Shape, Reput, InCall, Typed
<1>2. mem[c].ref \in Refs /\ mem[c].value \in Values
  BY <1>1 DEF Mem
<1>3. secret[mem[c].ref].system \in Systems
  BY <1>1, <1>2 DEF Typed, Envelope
<1>4. Put(c, mem[c].ref, secret[mem[c].ref].system, mem[c].value) /\ UNCHANGED <<lastPut, raced>>
  BY DEF Reput, history
<1>5. Sets(mem[c].ref, secret[mem[c].ref].system, mem[c].value)
  BY <1>1, <1>2, <1>3, <1>4, PutIs DEF Sets
<1>6. QED
  BY <1>1, <1>2, <1>4, <1>5

\* A message that is answered, and its draft.
LEMMA RespondIs ==
  ASSUME Shape, NEW c \in Clients, Respond(c)
  PROVE  /\ todo[c] # <<>> /\ Head(todo[c]) \in Calls /\ Head(todo[c]).op = "say" /\ mem[c] \in Mem
         /\ mem[c].draft \in Draft /\ Replied(mem[c].draft, Head(todo[c])) \in Draft
<1>1. Typed /\ InCall(c) /\ at[c] = "respond"
  BY DEF Shape, Respond
<1>2. todo[c] # <<>> /\ Head(todo[c]) \in Calls /\ Head(todo[c]).op = "say" /\ mem[c] \in Mem
  BY <1>1, Under
<1>3. mem[c].draft \in Draft
  BY <1>1, <1>2 DEF InCall, Mem
<1>4. QED
  BY <1>2, <1>3, RepliedIs

\* A connection is inserted when its systems exist; otherwise the call ends or goes on
\* to save the draft.
LEMMA InsertingIs ==
  ASSUME Shape, NEW c \in Clients, Inserting(c)
  PROVE  \/ UNCHANGED conn /\ Return(c)
         \/ UNCHANGED conn /\ Respond(c) /\ Goto(c, "save", [mem[c] EXCEPT !.draft = Replied(mem[c].draft, Head(todo[c]))])
         \/ \E i \in Conns, source \in Systems, targets \in Seq(Systems), draft \in Draft \cup {Null} :
              /\ Inserted(c, i, source, targets, draft) /\ Connectable(source, targets)
              /\ \/ CreateConnection(c) /\ draft = Null
                 \/ Respond(c) /\ draft = Replied(mem[c].draft, Head(todo[c]))
<1>1. Typed /\ InCall(c)
  BY DEF Shape
<1>2. CASE CreateConnection(c)
  <2> DEFINE call == Head(todo[c])
  <2>1. todo[c] # <<>> /\ call \in Calls /\ call.op = "connect"
    BY <1>1, <1>2, Started DEF CreateConnection
  <2>2. call.source \in Systems /\ call.targets \in Seq(Systems)
    BY <2>1, CallFields
  <2>3. CASE Connectable(call.source, call.targets)
    <3>1. Insert(c, call.source, call.targets, Null) /\ Len(call.targets) \in 1..MaxTargets
      BY <1>2, <2>3 DEF CreateConnection, Connectable
    <3> HIDE DEF call
    <3>2. QED
      BY <1>1, <1>2, <2>2, <2>3, <3>1, InsertIs
  <2>4. CASE ~Connectable(call.source, call.targets)
    <3>1. Return(c) /\ UNCHANGED conn
      BY <1>2, <2>4 DEF CreateConnection
    <3>2. QED
      BY <3>1
  <2>5. QED
    BY <2>3, <2>4
<1>3. CASE Respond(c)
  <2> DEFINE call == Head(todo[c])
             draft == Replied(mem[c].draft, call)
  <2>1. draft \in Draft
    BY <1>3, RespondIs
  <2>2. IF call.build /\ Complete(draft)
        THEN IF Connectable(draft.source, draft.targets)
             THEN Insert(c, draft.source, draft.targets, draft)
             ELSE Return(c) /\ UNCHANGED conn
        ELSE Goto(c, "save", [mem[c] EXCEPT !.draft = draft]) /\ UNCHANGED conn
    BY <1>3 DEF Respond
  <2>3. CASE call.build /\ Complete(draft) /\ Connectable(draft.source, draft.targets)
    <3> HIDE DEF call, draft
    <3>1. draft.source \in Systems /\ draft.targets \in Seq(Systems) /\ Len(draft.targets) \in 1..MaxTargets
      BY <2>1, <2>3 DEF Connectable, Exists, Draft
    <3>2. PICK i \in Conns : Inserted(c, i, draft.source, draft.targets, draft)
      BY <1>1, <2>1, <2>2, <2>3, <3>1, InsertIs
    <3>3. QED
      BY <1>3, <2>1, <2>3, <3>1, <3>2, Zenon DEF draft, call
  <2>4. CASE call.build /\ Complete(draft) /\ ~Connectable(draft.source, draft.targets)
    BY <2>2, <2>4
  <2>5. CASE ~(call.build /\ Complete(draft))
    BY <1>3, <2>2, <2>5
  <2>6. QED
    BY <2>3, <2>4, <2>5
<1>4. QED
  BY <1>2, <1>3 DEF Inserting

\* Only a write-back changes a connection that is there.
LEMMA OtherHandlerSteps ==
  ASSUME NEW w \in Workers, HandlerStep(w)
  PROVE  /\ WriteBack(w) \/ UNCHANGED conn
         /\ ReadRow(w) \/ UNCHANGED overlapped
         /\ UNCHANGED <<system, secret, chat, work, todo, at, mem, orphans, mixed, said, lastPut, raced>>
BY DEF HandlerStep, WorkerStep, Take, ReadRow, Inspect, WriteBack, Finish, HandlerFails, WorkerCrash,
       queueVars, clientVars, history

LEMMA StayNext ==
  ASSUME Shape, [Next]_vars
  PROVE  Stay
<1>0. Null \notin Envelope /\ Null \notin ConnRow
  BY PlatformAssumption
<1>1. ASSUME NEW c \in Clients, ApiStep(c) \/ Fail(c) PROVE Stay
  <2>1. \A r \in Refs : secret[r] # Null => secret'[r] # Null
    BY <1>0, <1>1, OtherSteps, CreateSystemIs, PutSecretIs, ReputIs DEF Putting, Sets
  <2>2. \A i \in Conns : conn[i] # Null =>
          conn'[i] # Null /\ conn'[i].source = conn[i].source /\ conn'[i].targets = conn[i].targets
    BY <1>0, <1>1, OtherSteps, InsertingIs DEF Inserted
  <2>3. QED
    BY <2>1, <2>2 DEF Stay
<1>2. ASSUME NEW r \in Range(Replica), Restart(r) PROVE Stay
  BY <1>2 DEF Restart, Stay
<1>3. ASSUME NEW w \in Workers, HandlerStep(w) PROVE Stay
  BY <1>0, <1>3, OtherHandlerSteps, WriteBackIs DEF Stay
<1>4. CASE UNCHANGED vars
  BY <1>4 DEF Stay, vars
<1>5. QED
  BY <1>1, <1>2, <1>3, <1>4 DEF Next, HandlerStep

\* A call that does not move is where it was.
LEMMA InCallElse ==
  ASSUME Typed, Stay, NEW d \in Clients, InCall(d), at'[d] = at[d], mem'[d] = mem[d], todo'[d] = todo[d]
  PROVE  InCall(d)'
<1>1. mem[d].rows \subseteq Refs /\ mem[d].conn \in Conns \cup {Null}
  BY DEF Typed, Mem
<1>2. QED
  BY <1>1 DEF InCall, Stay

LEMMA InCallActor ==
  ASSUME Shape, Stay, NEW c \in Clients, ApiStep(c) \/ Fail(c)
  PROVE  InCall(c)' /\ \A d \in Clients \ {c} : at'[d] = at[d] /\ mem'[d] = mem[d] /\ todo'[d] = todo[d]
<1> DEFINE Others == \A d \in Clients \ {c} : at'[d] = at[d] /\ mem'[d] = mem[d] /\ todo'[d] = todo[d]
<1>1. Typed /\ InCall(c) /\ mem[c] \in Mem
  BY DEF Shape, Typed
<1>2. ASSUME Return(c), todo[c] # <<>> PROVE InCall(c)' /\ Others
  BY <1>1, <1>2, ReturnIs DEF InCall
<1>3. ASSUME NEW step \in CallSteps, NEW m \in Mem, Goto(c, step, m), todo[c] # <<>>, Head(todo[c]).op \in OpsAt(step),
             step \in {"insert", "put", "point"}, Head(todo[c]).op # "say"
      PROVE  InCall(c)' /\ Others
  BY <1>1, <1>3, GotoIs DEF InCall
<1>4. CASE CreateSystem(c)
  <2> DEFINE call == Head(todo[c])
             r == Fresh(Refs, secret)
  <2>1. todo[c] # <<>> /\ call.op = "create_system"
    BY <1>1, <1>4, Started DEF CreateSystem
  <2>2. call.op \in OpsAt("insert") /\ "insert" \in CallSteps /\ call.op # "say"
    BY <2>1 DEF OpsAt, CallSteps
  <2>3. Goto(c, "insert", NoMem) \/ (Goto(c, "insert", [NoMem EXCEPT !.ref = r]) /\ Free(Refs, secret))
    BY <1>4 DEF CreateSystem
  <2>4. PICK m \in Mem : Goto(c, "insert", m)
    BY <1>1, <2>3, FreshRef, NoMemType, MemType
  <2>5. QED
    BY <1>3, <2>1, <2>2, <2>4
<1>5. CASE ReadSystem(c)
  <2> DEFINE s == Head(todo[c]).system
  <2>1. todo[c] # <<>> /\ Head(todo[c]).op = "set_credentials" /\ s \in Systems
    BY <1>1, <1>5, Started, CallFields DEF ReadSystem
  <2>2. CASE system[s] = Null
    BY <1>2, <1>5, <2>1, <2>2 DEF ReadSystem
  <2>3. CASE system[s] # Null
    <3>1. system[s].ref \in Refs \cup {Null}
      BY <1>1, <2>1, <2>3 DEF Typed, SystemRow
    <3>2. [NoMem EXCEPT !.ref = system[s].ref] \in Mem
      BY <3>1, NoMemType, MemType
    <3>3. Goto(c, "put", [NoMem EXCEPT !.ref = system[s].ref])
      BY <1>5, <2>3 DEF ReadSystem
    <3>4. Head(todo[c]).op \in OpsAt("put") /\ "put" \in CallSteps
      BY <2>1 DEF OpsAt, CallSteps
    <3>5. QED
      BY <1>3, <2>1, <3>2, <3>3, <3>4
  <2>4. QED
    BY <2>2, <2>3
<1>6. CASE PutSecret(c)
  <2> DEFINE r == IF mem[c].ref # Null THEN mem[c].ref ELSE Fresh(Refs, secret)
  <2>1. todo[c] # <<>> /\ Head(todo[c]).op = "set_credentials"
    BY <1>1, <1>6, Under DEF PutSecret
  <2>2. r \in Refs
    BY <1>1, <1>6, FreshRef DEF PutSecret, Mem
  <2>3. Goto(c, "point", [NoMem EXCEPT !.ref = r])
    BY <1>6 DEF PutSecret
  <2> HIDE DEF r
  <2>4. [NoMem EXCEPT !.ref = r] \in Mem
    BY <2>2, NoMemType, MemType
  <2>5. Head(todo[c]).op \in OpsAt("point") /\ "point" \in CallSteps
    BY <2>1 DEF OpsAt, CallSteps
  <2>6. QED
    BY <1>3, <2>1, <2>3, <2>4, <2>5
<1>7. CASE InsertSystem(c) \/ PointSystem(c) \/ EndRotation(c) \/ SaveDraft(c) \/ Fail(c)
  <2>1. Return(c) /\ at[c] # "idle"
    BY <1>7 DEF InsertSystem, PointSystem, EndRotation, SaveDraft, Fail
  <2>2. QED
    BY <1>1, <1>2, <2>1, Under
<1>8. CASE ListSecrets(c)
  <2> DEFINE rows == {r \in Refs : secret[r] # Null /\ secret[r].key # Head(todo[c]).key}
  <2>1. /\ Goto(c, "activate", [NoMem EXCEPT !.rows = rows]) /\ UNCHANGED secret
        /\ rows \in SUBSET Refs /\ \A r \in rows : secret[r] # Null
    BY <1>8 DEF ListSecrets
  <2>2. todo[c] # <<>> /\ Head(todo[c]).op = "rotate"
    BY <1>1, <1>8, Started DEF ListSecrets
  <2> HIDE DEF rows
  <2> DEFINE m == [NoMem EXCEPT !.rows = rows]
  <2>3. m \in Mem /\ m.rows = rows
    BY <2>1 DEF NoMem, Mem
  <2> HIDE DEF m
  <2>4. at'[c] = "activate" /\ mem'[c] = m /\ todo' = todo /\ Others
    BY <1>1, <2>1, <2>3, GotoIs DEF CallSteps, m
  <2>5. QED
    BY <2>1, <2>2, <2>3, <2>4 DEF InCall, OpsAt
<1>9. CASE Activate(c)
  <2>1. Goto(c, "resolve", mem[c]) /\ UNCHANGED secret /\ at[c] = "activate"
    BY <1>9 DEF Activate
  <2>2. at'[c] = "resolve" /\ mem'[c] = mem[c] /\ todo' = todo /\ Others
    BY <1>1, <2>1, GotoIs DEF CallSteps
  <2>3. QED
    BY <1>1, <2>1, <2>2 DEF InCall, OpsAt
<1>10. CASE Resolve(c)
  <2>1. PICK r \in mem[c].rows : Goto(c, "reput", [mem[c] EXCEPT !.ref = r, !.value = secret[r].value])
    BY <1>10 DEF Resolve
  <2>2. UNCHANGED secret /\ at[c] = "resolve"
    BY <1>10 DEF Resolve
  <2>3. r \in Refs /\ secret[r] \in Envelope /\ secret[r].value \in Values
    BY <1>1, <2>2 DEF Typed, InCall, Mem, Envelope
  <2> DEFINE m == [mem[c] EXCEPT !.ref = r, !.value = secret[r].value]
  <2>4. m \in Mem /\ m.rows = mem[c].rows /\ m.ref = r /\ m.value # Null
    BY <1>1, <2>3, PlatformAssumption DEF Mem
  <2> HIDE DEF m
  <2>5. at'[c] = "reput" /\ mem'[c] = m /\ todo' = todo /\ Others
    BY <1>1, <2>1, <2>4, GotoIs DEF CallSteps, m
  <2>6. QED
    BY <1>1, <2>2, <2>4, <2>5 DEF InCall, OpsAt
<1>11. CASE Reput(c)
  <2> DEFINE m == [mem[c] EXCEPT !.rows = @ \ {mem[c].ref}, !.ref = Null, !.value = Null]
  <2>1. Goto(c, "resolve", m) /\ at[c] = "reput"
    BY <1>11 DEF Reput
  <2>2. m \in Mem /\ m.rows \subseteq mem[c].rows /\ mem[c].rows \subseteq Refs
    BY <1>1 DEF Mem
  <2> HIDE DEF m
  <2>3. at'[c] = "resolve" /\ mem'[c] = m /\ todo' = todo /\ Others
    BY <1>1, <2>1, <2>2, GotoIs DEF CallSteps
  <2>4. QED
    BY <1>1, <2>1, <2>2, <2>3 DEF InCall, OpsAt, Stay
<1>12. CASE Inserting(c)
  <2>1. todo[c] # <<>> /\ Head(todo[c]).op \in {"connect", "say"}
    BY <1>1, <1>12, Started, Under DEF Inserting, CreateConnection, Respond
  <2>2. CASE UNCHANGED conn /\ Return(c)
    BY <1>2, <2>1, <2>2
  <2> DEFINE draft == Replied(mem[c].draft, Head(todo[c]))
  <2>3. CASE Respond(c) /\ Goto(c, "save", [mem[c] EXCEPT !.draft = draft])
    <3>1. Head(todo[c]).op = "say" /\ draft \in Draft
      BY <2>3, RespondIs
    <3> HIDE DEF draft
    <3> DEFINE m == [mem[c] EXCEPT !.draft = draft]
    <3>2. m \in Mem /\ m.draft = draft /\ draft # Null
      BY <1>1, <3>1, PlatformAssumption DEF Mem
    <3> HIDE DEF m
    <3>3. at'[c] = "save" /\ mem'[c] = m /\ todo' = todo /\ Others
      BY <1>1, <2>3, <3>2, GotoIs DEF CallSteps, m
    <3>4. QED
      BY <2>1, <3>1, <3>2, <3>3 DEF InCall, OpsAt
  <2>4. ASSUME NEW i \in Conns, NEW source \in Systems, NEW targets \in Seq(Systems), NEW d \in Draft \cup {Null},
               Inserted(c, i, source, targets, d), Connectable(source, targets),
               (CreateConnection(c) /\ d = Null) \/ (Respond(c) /\ d = draft)
        PROVE  InCall(c)' /\ Others
    <3>1. CreateConnection(c) => Head(todo[c]).op = "connect"
      BY <1>1, Started DEF CreateConnection
    <3>2. Respond(c) => draft \in Draft
      BY RespondIs
    <3>3. Head(todo[c]).op = "say" => d # Null
      BY <2>4, <3>1, <3>2, PlatformAssumption
    <3>4. i # Null /\ conn'[i] # Null
      BY <2>4, PlatformAssumption DEF Inserted
    <3>5. QED
      BY <2>1, <2>4, <3>3, <3>4 DEF Inserted, InCall, OpsAt
  <2> HIDE DEF draft
  <2>5. QED
    BY <1>12, <2>2, <2>3, <2>4, InsertingIs, Zenon DEF draft
<1>13. CASE Enqueue(c)
  <2>1. todo[c] # <<>> /\ at[c] = "enqueue"
    BY <1>1, <1>13, Under DEF Enqueue
  <2>2. CASE Asked(c, "say")
    <3>1. Head(todo[c]).op = "say" /\ mem[c].draft \in Draft /\ mem[c].conn \in Conns
      BY <1>1, <2>1, <2>2 DEF InCall, Asked, Mem
    <3> DEFINE m == [mem[c] EXCEPT !.draft.conn = mem[c].conn]
    <3>2. m \in Mem /\ m.draft \in Draft
      BY <1>1, <3>1 DEF Mem, Draft
    <3>3. Goto(c, "save", m)
      BY <1>13, <2>2 DEF Enqueue
    <3> HIDE DEF m
    <3>4. at'[c] = "save" /\ mem'[c] = m /\ todo' = todo /\ Others
      BY <1>1, <3>2, <3>3, GotoIs DEF CallSteps
    <3>5. QED
      BY <2>1, <3>1, <3>2, <3>4, PlatformAssumption DEF InCall, OpsAt
  <2>3. CASE ~Asked(c, "say")
    BY <1>2, <1>13, <2>1, <2>3 DEF Enqueue
  <2>4. QED
    BY <2>2, <2>3
<1>14. CASE Check(c)
  BY <1>1, <1>2, <1>14, Started DEF Check
<1>15. CASE ReadDraft(c)
  <2> DEFINE m == [NoMem EXCEPT !.draft = chat]
  <2>1. Goto(c, "respond", m) /\ todo[c] # <<>> /\ Head(todo[c]).op = "say"
    BY <1>1, <1>15, Started DEF ReadDraft
  <2>2. m \in Mem /\ m.draft \in Draft
    BY <1>1, NoMemType, MemType DEF Typed, NoMem
  <2> HIDE DEF m
  <2>3. at'[c] = "respond" /\ mem'[c] = m /\ todo' = todo /\ Others
    BY <1>1, <2>1, <2>2, GotoIs DEF CallSteps
  <2>4. QED
    BY <2>1, <2>2, <2>3, PlatformAssumption DEF InCall, OpsAt
<1>16. QED
  BY <1>4, <1>5, <1>6, <1>7, <1>8, <1>9, <1>10, <1>11, <1>12, <1>13, <1>14, <1>15 DEF ApiStep, Inserting

\* A process that is replaced has no call left.
LEMMA InCallRestart ==
  ASSUME Shape, Stay, NEW r \in Range(Replica), Restart(r), NEW d \in Clients
  PROVE  /\ InCall(d)'
         /\ \/ at'[d] = "idle" /\ mem'[d] = NoMem /\ at[d] # "idle"
            \/ at'[d] = at[d] /\ mem'[d] = mem[d] /\ todo'[d] = todo[d]
<1>1. Typed /\ InCall(d)
  BY DEF Shape
<1>2. CASE Replica[d] = r /\ at[d] # "idle"
  BY <1>1, <1>2 DEF Restart, InCall
<1>3. CASE ~(Replica[d] = r /\ at[d] # "idle")
  <2>1. at'[d] = at[d] /\ mem'[d] = mem[d] /\ todo'[d] = todo[d]
    BY <1>3 DEF Restart
  <2>2. QED
    BY <1>1, <2>1, InCallElse
<1>4. QED
  BY <1>2, <1>3

LEMMA InCallNext ==
  ASSUME Shape, [Next]_vars, NEW d \in Clients
  PROVE  InCall(d)'
<1>1. Typed /\ InCall(d) /\ Stay
  BY StayNext DEF Shape
<1>2. ASSUME NEW c \in Clients, ApiStep(c) \/ Fail(c) PROVE InCall(d)'
  BY <1>1, <1>2, InCallActor, InCallElse
<1>3. ASSUME NEW r \in Range(Replica), Restart(r) PROVE InCall(d)'
  BY <1>1, <1>3, InCallRestart
<1>4. ASSUME NEW w \in Workers, HandlerStep(w) PROVE InCall(d)'
  BY <1>1, <1>4, OtherHandlerSteps, InCallElse
<1>5. CASE UNCHANGED vars
  BY <1>1, <1>5, InCallElse DEF vars, clientVars
<1>6. QED
  BY <1>2, <1>3, <1>4, <1>5 DEF Next, HandlerStep

\* A handler that does not move is where it was.
LEMMA HandlingElse ==
  ASSUME Shape, Stay, NEW v \in Workers, doing'[v] = doing[v], grant'[v] = grant[v],
         doing[v].step # "idle" => work'[grant[v].job] = work[grant[v].job],
         \A j \in Jobs : jobState'[j] = "absent" => jobState[j] = "absent"
  PROVE  Handling(v)'
<1>1. CASE doing[v].step = "idle"
  BY <1>1 DEF Handling
<1>2. CASE doing[v].step # "idle"
  <2>1. grant[v].job \in Jobs /\ Working(v).conn \in Conns /\ conn[Working(v).conn] # Null
    BY <1>2, AtWork, PlatformAssumption
  <2>2. Working(v)' = Working(v)
    BY <1>2 DEF Working
  <2>3. Handling(v)
    BY DEF Shape, InJob
  <2>4. conn'[Working(v).conn].source = conn[Working(v).conn].source
        /\ conn'[Working(v).conn].targets = conn[Working(v).conn].targets
    BY <2>1 DEF Stay
  <2>5. QED
    BY <1>2, <2>1, <2>2, <2>3, <2>4 DEF Handling
<1>3. QED
  BY <1>1, <1>2

LEMMA JobsElse ==
  ASSUME Shape, Stay, UNCHANGED work, \A j \in Jobs : jobState'[j] = "absent" <=> jobState[j] = "absent"
  PROVE  JobsNamed'
<1>1. \A j \in Jobs : work[j] # Null => work[j].conn \in Conns
  BY DEF Shape, Typed, Work
<1>2. QED
  BY <1>1 DEF Shape, InJob, JobsNamed, Stay

LEMMA InJobApi ==
  ASSUME Shape, Stay, NEW c \in Clients, ApiStep(c) \/ Fail(c)
  PROVE  InJob'
<1>1. Typed /\ InCall(c) /\ InJob
  BY DEF Shape
<1>2. UNCHANGED doing
  BY OtherSteps
<1>3. CASE UNCHANGED <<jobState, grants, grant, work>>
  BY <1>2, <1>3, HandlingElse, JobsElse DEF InJob
<1>4. ASSUME NEW kind \in Kinds, NEW i \in Conns, Submit(kind, i), conn[i] # Null PROVE InJob'
  <2>1. PICK j \in Jobs : /\ work[j] = Null /\ jobState[j] = "absent"
                          /\ work' = [work EXCEPT ![j] = [kind |-> kind, conn |-> i]]
                          /\ work' \in [Jobs -> Work \cup {Null}]
                          /\ jobState' = [jobState EXCEPT ![j] = "queued"]
                          /\ grants' = grants /\ grant' = grant
    BY <1>1, <1>4, SubmitIs
  <2>2. work'[j] = [kind |-> kind, conn |-> i] /\ \A k \in Jobs \ {j} : work'[k] = work[k]
    BY <1>1, <2>1 DEF Typed
  <2>3. work'[j] # Null /\ work'[j].conn = i
    <3>1. work'[j] \in Work
      BY <2>2 DEF Work
    <3>2. QED
      BY <2>2, <3>1, PlatformAssumption
  <2>4. \A k \in Jobs : work[k] # Null => work[k].conn \in Conns
    BY <1>1 DEF Typed, Work
  <2>5. jobState'[j] = "queued" /\ \A k \in Jobs \ {j} : jobState'[k] = jobState[k]
    BY <1>1, <2>1 DEF Typed
  <2>6. JobsNamed'
    BY <1>1, <1>4, <2>1, <2>2, <2>3, <2>4, <2>5 DEF InJob, JobsNamed, Stay
  <2>7. ASSUME NEW v \in Workers PROVE Handling(v)'
    <3>1. doing[v].step # "idle" => grant[v].job # j /\ grant[v].job \in Jobs
      BY <1>1, <2>1, AtWork DEF InJob, Handling
    <3>2. QED
      BY <1>2, <2>1, <2>2, <2>5, <3>1, HandlingElse
  <2>8. QED
    BY <2>6, <2>7 DEF InJob
<1>5. CASE Enqueue(c)
  <2>1. mem[c].conn \in Conns /\ conn[mem[c].conn] # Null /\ Submit("compose_connection", mem[c].conn)
    BY <1>1, <1>5, Under DEF Enqueue, InCall, Mem
  <2>2. QED
    BY <1>4, <2>1 DEF Kinds
<1>6. CASE Check(c)
  <2>1. Head(todo[c]).conn \in Conns
    BY <1>1, <1>6, Started, CallFields DEF Check
  <2>2. CASE conn[Head(todo[c]).conn] = Null
    BY <1>3, <1>6, <2>2 DEF Check, queueVars
  <2>3. CASE conn[Head(todo[c]).conn] # Null
    BY <1>4, <1>6, <2>1, <2>3 DEF Check, Kinds
  <2>4. QED
    BY <2>2, <2>3
<1>7. QED
  BY <1>3, <1>5, <1>6, OtherSteps

LEMMA InJobWorker ==
  ASSUME Shape, Stay, NEW w \in Workers, HandlerStep(w)
  PROVE  InJob'
<1> USE DEF queueVars
<1>1. Typed /\ InJob
  BY DEF Shape
<1>2. UNCHANGED work
  BY OtherHandlerSteps
<1>3. ASSUME NEW v \in Workers \ {w},
             doing'[v] = doing[v] /\ grant'[v] = grant[v],
             \A j \in Jobs : jobState'[j] = "absent" <=> jobState[j] = "absent"
      PROVE  Handling(v)'
  BY <1>2, <1>3, HandlingElse
<1>4. SUFFICES /\ \A j \in Jobs : jobState'[j] = "absent" <=> jobState[j] = "absent"
               /\ \A v \in Workers \ {w} : doing'[v] = doing[v] /\ grant'[v] = grant[v]
               /\ Handling(w)'
  BY <1>2, <1>3, JobsElse DEF InJob
<1>5. ASSUME NEW j \in Jobs, Take(w, j)
      PROVE  /\ \A k \in Jobs : jobState'[k] = "absent" <=> jobState[k] = "absent"
             /\ \A v \in Workers \ {w} : doing'[v] = doing[v] /\ grant'[v] = grant[v]
             /\ Handling(w)'
  <2>1. /\ jobState[j] # "absent"
        /\ jobState' = [jobState EXCEPT ![j] = "leased"]
        /\ grant' = [grant EXCEPT ![w] = [job |-> j, number |-> grants[j] + 1]]
        /\ doing' = [doing EXCEPT ![w].step = "read"]
    BY <1>5 DEF Take, Queue!Grant
  <2>2. [job |-> j, number |-> grants[j] + 1] \in Granted
    BY <1>1 DEF Typed, Granted
  <2>3. grant'[w] \in Granted /\ grant'[w].job = j /\ doing'[w].step = "read" /\ jobState'[j] = "leased"
    BY <1>1, <2>1, <2>2 DEF Typed, Doing
  <2>4. QED
    BY <1>1, <2>1, <2>3, PlatformAssumption DEF Typed, Handling
<1>6. CASE ReadRow(w)
  <2> DEFINE i == Working(w).conn
  <2>1. doing[w].step = "read" /\ i \in Conns /\ conn[i] \in ConnRow
    BY <1>6, AtWork DEF ReadRow
  <2>2. /\ doing' = [doing EXCEPT ![w] = [step |-> IF Working(w).kind = "connection_health" THEN "inspect" ELSE "write",
                                         row |-> conn[i], issues |-> FALSE]]
        /\ UNCHANGED <<conn, jobState, grants, grant>>
    BY <1>6 DEF ReadRow
  <2>3. /\ doing'[w].row = conn[i] /\ doing'[w].step \in {"inspect", "write"}
        /\ \A v \in Workers \ {w} : doing'[v] = doing[v]
    BY <1>1, <2>2 DEF Typed
  <2>4. Handling(w) /\ Working(w)' = Working(w) /\ conn[i] # Null
    BY <1>1, <1>2, <2>1, <2>2, PlatformAssumption DEF InJob, Working
  <2>5. QED
    BY <2>1, <2>2, <2>3, <2>4 DEF Handling
<1>7. CASE Inspect(w)
  <2>1. doing[w].step = "inspect" /\ UNCHANGED <<conn, jobState, grants, grant>>
    BY <1>7 DEF Inspect
  <2>2. doing'[w].row = doing[w].row /\ doing'[w].step = "write" /\ \A v \in Workers \ {w} : doing'[v] = doing[v]
    BY <1>1, <1>7 DEF Inspect, Typed, Doing
  <2>3. Handling(w) /\ Working(w)' = Working(w)
    BY <1>1, <1>2, <2>1 DEF InJob, Working
  <2>4. QED
    BY <2>1, <2>2, <2>3 DEF Handling
<1>8. CASE WriteBack(w)
  <2>1. doing[w].step = "write" /\ UNCHANGED <<jobState, grants, grant>>
    BY <1>8 DEF WriteBack
  <2>2. doing'[w].step = "done" /\ \A v \in Workers \ {w} : doing'[v] = doing[v]
    BY <1>1, <1>8 DEF WriteBack, Typed, Idle
  <2>3. Handling(w)
    BY <1>1 DEF InJob
  <2>4. QED
    BY <2>1, <2>2, <2>3 DEF Handling
<1>9. ASSUME NEW outcome \in {"queued", "succeeded", "dead"}, Settle(w, outcome) \/ Queue!Drop(w),
             doing' = [doing EXCEPT ![w] = Idle]
      PROVE  /\ \A k \in Jobs : jobState'[k] = "absent" <=> jobState[k] = "absent"
             /\ \A v \in Workers \ {w} : doing'[v] = doing[v] /\ grant'[v] = grant[v]
             /\ Handling(w)'
  <2>1. doing'[w].step = "idle" /\ \A v \in Workers \ {w} : doing'[v] = doing[v]
    BY <1>1, <1>9 DEF Typed, Idle
  <2>2. QED
    BY <1>1, <1>9, <2>1, SettledIs DEF Handling, Typed
<1>10. CASE Finish(w) \/ HandlerFails(w) \/ WorkerCrash(w)
  BY <1>9, <1>10 DEF Finish, HandlerFails, WorkerCrash
<1>11. QED
  BY <1>5, <1>6, <1>7, <1>8, <1>10 DEF HandlerStep, WorkerStep

LEMMA InJobNext ==
  ASSUME Shape, [Next]_vars
  PROVE  InJob'
<1>1. Stay
  BY StayNext
<1>2. ASSUME UNCHANGED <<doing, jobState, grants, grant, work>> PROVE InJob'
  BY <1>1, <1>2, HandlingElse, JobsElse DEF InJob
<1>3. ASSUME NEW r \in Range(Replica), Restart(r) PROVE InJob'
  BY <1>2, <1>3 DEF Restart, queueVars
<1>4. CASE UNCHANGED vars
  BY <1>2, <1>4 DEF vars, queueVars
<1>5. QED
  BY <1>1, <1>3, <1>4, InJobApi, InJobWorker DEF Next, HandlerStep

\* Rows, calls and handlers are well-formed, whatever is interleaved.
LEMMA ShapeInit == Init => Shape
<1> SUFFICES ASSUME Init PROVE Shape
  OBVIOUS
<1>1. EmptyDraft \in Draft /\ NoMem \in Mem /\ Idle \in Doing
  BY NoMemType DEF EmptyDraft, Draft, Idle, Doing
<1>2. \A s \in Registered : [ref |-> Null, status |-> "registered"] \in SystemRow
  BY DEF SystemRow
<1>3. system \in [Systems -> SystemRow \cup {Null}]
  BY <1>2 DEF Init
<1>4. todo \in [Clients -> Seq(Calls)]
  BY PlatformAssumption DEF Init
<1>5. Typed
  BY <1>1, <1>3, <1>4, PlatformAssumption DEF Init, Typed, Queue!Init, CallSteps
<1>6. \A c \in Clients : InCall(c)
  BY DEF Init, InCall
<1>7. InJob
  BY DEF Init, InJob, JobsNamed, Handling, Queue!Init, Idle
<1>8. QED
  BY <1>5, <1>6, <1>7 DEF Shape

LEMMA ShapeNext == Shape /\ [Next]_vars => Shape'
BY TypedNext, InCallNext, InJobNext DEF Shape

-----------------------------------------------------------------------------
(* Credentials *)

\* Which action leads to a place.
LEMMA WayTo ==
  ASSUME Typed, NEW c \in Clients, ApiStep(c) \/ Fail(c)
  PROVE  /\ at'[c] = "insert" => CreateSystem(c)
         /\ at'[c] = "put" => ReadSystem(c)
         /\ at'[c] = "point" => PutSecret(c)
         /\ at'[c] = "activate" => ListSecrets(c)
         /\ at'[c] = "resolve" => Activate(c) \/ Reput(c)
         /\ at'[c] = "reput" => Resolve(c)
         /\ at'[c] = "enqueue" => Inserting(c)
         /\ at'[c] = "respond" => ReadDraft(c)
         /\ at'[c] = "save" => Respond(c) \/ Enqueue(c)
<1>1. c \in DOMAIN at
  BY DEF Typed
<1>2. ASSUME Return(c) PROVE at'[c] = "idle"
  BY <1>1, <1>2 DEF Return
<1>3. ASSUME NEW step, NEW m, Goto(c, step, m) PROVE at'[c] = step
  BY <1>1, <1>3 DEF Goto
<1>4. CASE CreateSystem(c)
  BY <1>3, <1>4 DEF CreateSystem
<1>5. CASE InsertSystem(c) \/ PointSystem(c) \/ EndRotation(c) \/ SaveDraft(c) \/ Check(c) \/ Fail(c)
  BY <1>2, <1>5 DEF InsertSystem, PointSystem, EndRotation, SaveDraft, Check, Fail
<1>6. CASE ReadSystem(c)
  BY <1>2, <1>3, <1>6 DEF ReadSystem
<1>7. CASE PutSecret(c)
  BY <1>3, <1>7 DEF PutSecret
<1>8. CASE ListSecrets(c) \/ Activate(c) \/ Resolve(c) \/ Reput(c) \/ ReadDraft(c)
  BY <1>3, <1>8 DEF ListSecrets, Activate, Resolve, Reput, ReadDraft
<1>9. CASE CreateConnection(c)
  BY <1>2, <1>3, <1>9 DEF CreateConnection, Insert, Inserting
<1>10. CASE Respond(c)
  BY <1>2, <1>3, <1>10 DEF Respond, Insert, Inserting
<1>11. CASE Enqueue(c)
  BY <1>2, <1>3, <1>11 DEF Enqueue
<1>12. QED
  BY <1>4, <1>5, <1>6, <1>7, <1>8, <1>9, <1>10, <1>11 DEF ApiStep

\* The reference a call that read a system holds.
LEMMA ReadSystemIs ==
  ASSUME Shape, NEW c \in Clients, ReadSystem(c), at'[c] = "put"
  PROVE  LET s == Head(todo[c]).system
         IN  /\ s \in Systems /\ system[s] # Null /\ todo'[c] = todo[c] /\ UNCHANGED <<system, secret>>
             /\ mem'[c].ref = system[s].ref
<1> DEFINE s == Head(todo[c]).system
<1>1. Typed /\ s \in Systems /\ todo[c] # <<>>
  BY Started, CallFields DEF Shape, ReadSystem
<1>2. CASE system[s] = Null
  BY <1>1, <1>2, ReturnIs DEF ReadSystem
<1>3. CASE system[s] # Null
  <2>1. system[s].ref \in Refs \cup {Null}
    BY <1>1, <1>3 DEF Typed, SystemRow
  <2> DEFINE m == [NoMem EXCEPT !.ref = system[s].ref]
  <2>2. m \in Mem /\ m.ref = system[s].ref
    BY <2>1, NoMemType, MemType DEF NoMem
  <2>3. Goto(c, "put", m)
    BY <1>3 DEF ReadSystem
  <2> HIDE DEF m
  <2>4. mem'[c] = m /\ todo'[c] = todo[c]
    BY <1>1, <2>2, <2>3, GotoIs DEF CallSteps
  <2>5. QED
    BY <1>1, <1>3, <2>2, <2>4 DEF ReadSystem
<1>4. QED
  BY <1>2, <1>3

\* The row that a call puts in place of a system's.
LEMMA RowWritten ==
  ASSUME Shape, NEW c \in Clients, InsertSystem(c) \/ PointSystem(c)
  PROVE  LET s == Head(todo[c]).system
         IN  /\ s \in Systems /\ system'[s] \in SystemRow /\ system'[s].ref = mem[c].ref
             /\ \A z \in Systems \ {s} : system'[z] = system[z]
             /\ at'[c] = "idle" /\ UNCHANGED secret
<1> DEFINE s == Head(todo[c]).system
<1>1. Typed /\ InCall(c)
  BY DEF Shape
<1>2. todo[c] # <<>> /\ s \in Systems /\ mem[c] \in Mem /\ Return(c) /\ UNCHANGED secret
  BY <1>1, Under, CallFields DEF InsertSystem, PointSystem
<1>3. at'[c] = "idle"
  BY <1>1, <1>2, ReturnIs
<1>4. PICK status \in {"registered", "configured", "credentials_required", "needs_discovery"} :
        system' = [system EXCEPT ![s] = [ref |-> mem[c].ref, status |-> status]]
  BY <1>2 DEF InsertSystem, PointSystem, SystemStatus
<1>5. [ref |-> mem[c].ref, status |-> status] \in SystemRow
  BY <1>2 DEF SystemRow, Mem
<1>6. system'[s] = [ref |-> mem[c].ref, status |-> status] /\ \A z \in Systems \ {s} : system'[z] = system[z]
  BY <1>1, <1>2, <1>4 DEF Typed
<1>7. QED
  BY <1>2, <1>3, <1>5, <1>6

\* An envelope stays its system's.
SealedThen(r, s) == secret'[r] # Null /\ secret'[r].system = s

LEMMA SealKept ==
  ASSUME Shape, Sealed, [Next]_vars, NEW r \in Refs, NEW s, SealedFor(r, s)
  PROVE  SealedThen(r, s)
<1>1. ASSUME NEW c \in Clients, ApiStep(c) \/ Fail(c) PROVE SealedThen(r, s)
  <2>1. CASE UNCHANGED secret
    BY <2>1 DEF SealedFor, SealedThen
  <2>2. CASE CreateSystem(c)
    BY <2>2, CreateSystemIs, PlatformAssumption DEF SealedFor, SealedThen, Sets
  <2>3. CASE PutSecret(c)
    <3>1. mem[c].ref \in Refs => SealedFor(mem[c].ref, Head(todo[c]).system)
      BY <2>3, PlatformAssumption DEF Sealed, PutSecret
    <3>2. QED
      BY <2>3, <3>1, PutSecretIs, PlatformAssumption DEF SealedFor, SealedThen, Sets
  <2>4. CASE Reput(c)
    BY <2>4, ReputIs, PlatformAssumption DEF SealedFor, SealedThen, Sets
  <2>5. QED
    BY <1>1, <2>1, <2>2, <2>3, <2>4, OtherSteps DEF Putting
<1>2. CASE UNCHANGED secret
  BY <1>2 DEF SealedFor, SealedThen
<1>3. QED
  BY <1>1, <1>2, OtherHandlerSteps DEF Next, vars, Restart, HandlerStep

LEMMA SealedNext ==
  ASSUME Shape, Sealed, [Next]_vars
  PROVE  Sealed'
<1>1. Typed /\ Stay /\ (\A c \in Clients : InCall(c)) /\ \A c \in Clients : mem[c].ref \in Refs \cup {Null}
  BY StayNext DEF Shape, Typed, Mem
<1>2. \A r \in Refs : \A s : SealedFor(r, s) => SealedThen(r, s)
  BY SealKept
<1>3. \A s \in Systems : system[s] # Null => system[s].ref \in Refs \cup {Null}
  BY <1>1 DEF Typed, SystemRow
<1>4. ASSUME UNCHANGED system
      PROVE  \A s \in Systems : system'[s] # Null /\ system'[s].ref # Null => SealedThen(system'[s].ref, s)
  BY <1>2, <1>3, <1>4 DEF Sealed
<1>5. ASSUME NEW d \in Clients, \/ at'[d] = at[d] /\ mem'[d] = mem[d] /\ todo'[d] = todo[d]
                                \/ at'[d] \notin {"insert", "put", "point"}
      PROVE  /\ at'[d] \in {"insert", "put", "point"} /\ mem'[d].ref # Null =>
                  SealedThen(mem'[d].ref, Head(todo'[d]).system)
             /\ at'[d] = "point" => mem'[d].ref # Null
  BY <1>1, <1>2, <1>5 DEF Sealed
<1>6. ASSUME NEW c \in Clients, ApiStep(c) \/ Fail(c) PROVE Sealed'
  <2>1. \A d \in Clients \ {c} : at'[d] = at[d] /\ mem'[d] = mem[d] /\ todo'[d] = todo[d]
    BY <1>1, <1>6, InCallActor
  <2>2. \A s \in Systems : system'[s] # Null /\ system'[s].ref # Null => SealedThen(system'[s].ref, s)
    <3>1. CASE UNCHANGED system
      BY <1>4, <3>1
    <3>2. CASE InsertSystem(c) \/ PointSystem(c)
      <4> DEFINE z == Head(todo[c]).system
      <4>1. /\ z \in Systems /\ system'[z] \in SystemRow /\ system'[z].ref = mem[c].ref
            /\ \A s \in Systems \ {z} : system'[s] = system[s]
        BY <3>2, RowWritten
      <4>2. at[c] \in {"insert", "point"}
        BY <3>2 DEF InsertSystem, PointSystem
      <4>3. mem[c].ref # Null => SealedFor(mem[c].ref, z)
        BY <4>2 DEF Sealed
      <4>4. mem[c].ref # Null => SealedThen(mem[c].ref, z)
        BY <1>1, <1>2, <4>3, Zenon
      <4> HIDE DEF z
      <4>5. \A s \in Systems : system[s] # Null /\ system[s].ref # Null => SealedThen(system[s].ref, s)
        BY <1>2, <1>3 DEF Sealed
      <4>6. QED
        BY <4>1, <4>4, <4>5
    <3>3. QED
      BY <1>6, <3>1, <3>2, OtherSteps
  <2>3. /\ at'[c] \in {"insert", "put", "point"} /\ mem'[c].ref # Null => SealedThen(mem'[c].ref, Head(todo'[c]).system)
        /\ at'[c] = "point" => mem'[c].ref # Null
    <3>1. CASE at'[c] = "insert"
      <4>1. CreateSystem(c)
        BY <1>1, <1>6, <3>1, WayTo
      <4>2. CASE UNCHANGED <<secret, lastPut, raced>> /\ mem'[c].ref = Null
        BY <3>1, <4>2
      <4>3. ASSUME NEW r \in Refs, NEW v \in Values, Sets(r, Head(todo[c]).system, v), mem'[c].ref = r
            PROVE  SealedThen(mem'[c].ref, Head(todo[c]).system)
        BY <4>3, PlatformAssumption DEF SealedFor, SealedThen, Sets
      <4>4. QED
        BY <3>1, <4>1, <4>2, <4>3, CreateSystemIs
    <3>2. CASE at'[c] = "put"
      <4> DEFINE s == Head(todo[c]).system
      <4>1. /\ s \in Systems /\ system[s] # Null /\ todo'[c] = todo[c] /\ UNCHANGED <<system, secret>>
            /\ mem'[c].ref = system[s].ref
        BY <1>1, <1>6, <3>2, WayTo, ReadSystemIs
      <4>2. QED
        BY <3>2, <4>1 DEF Sealed, SealedFor, SealedThen
    <3>3. CASE at'[c] = "point"
      <4>1. PutSecret(c)
        BY <1>1, <1>6, <3>3, WayTo
      <4>2. PICK r \in Refs, v \in Values : Sets(r, Head(todo[c]).system, v) /\ mem'[c].ref = r /\ todo'[c] = todo[c]
        BY <4>1, PutSecretIs
      <4>3. QED
        BY <3>3, <4>2, PlatformAssumption DEF SealedFor, SealedThen, Sets
    <3>4. QED
      BY <3>1, <3>2, <3>3
  <2>4. QED
    BY <1>5, <2>1, <2>2, <2>3 DEF Sealed, SealedFor, SealedThen
<1>7. ASSUME NEW r \in Range(Replica), Restart(r) PROVE Sealed'
  <2>1. \A d \in Clients : \/ at'[d] = "idle"
                           \/ at'[d] = at[d] /\ mem'[d] = mem[d] /\ todo'[d] = todo[d]
    BY <1>1, <1>7, InCallRestart
  <2>2. UNCHANGED system
    BY <1>7 DEF Restart
  <2>3. QED
    BY <1>4, <1>5, <2>1, <2>2 DEF Sealed, SealedFor, SealedThen
<1>8. ASSUME UNCHANGED <<system, at, mem, todo>> PROVE Sealed'
  BY <1>4, <1>5, <1>8 DEF Sealed, SealedFor, SealedThen
<1>9. ASSUME NEW w \in Workers, HandlerStep(w) PROVE Sealed'
  BY <1>8, <1>9, OtherHandlerSteps
<1>10. CASE UNCHANGED vars
  BY <1>8, <1>10 DEF vars, clientVars
<1>11. QED
  BY <1>6, <1>7, <1>9, <1>10 DEF Next, HandlerStep

\* A rotation holds the value it read.
LEMMA ResolveIs ==
  ASSUME Shape, NEW c \in Clients, Resolve(c)
  PROVE  mem'[c].ref \in Refs /\ mem'[c].value = secret[mem'[c].ref].value /\ UNCHANGED <<secret, lastPut, raced>>
<1>1. Typed /\ mem[c] \in Mem /\ InCall(c)
  BY DEF Shape, Typed
<1>2. PICK r \in mem[c].rows :
        at[c] = "resolve" /\ Goto(c, "reput", [mem[c] EXCEPT !.ref = r, !.value = secret[r].value])
  BY DEF Resolve
<1>3. r \in Refs /\ secret[r] \in Envelope
  BY <1>1, <1>2 DEF Typed, InCall, Mem
<1> DEFINE m == [mem[c] EXCEPT !.ref = r, !.value = secret[r].value]
<1>4. m \in Mem /\ m.ref = r /\ m.value = secret[r].value
  BY <1>1, <1>3 DEF Mem, Envelope
<1> HIDE DEF m
<1>5. mem'[c] = m
  BY <1>1, <1>2, <1>4, GotoIs DEF CallSteps, m
<1>6. UNCHANGED <<secret, lastPut, raced>>
  BY DEF Resolve, history
<1>7. QED
  BY <1>3, <1>4, <1>5, <1>6

\* A rotation that is to put back an envelope since overwritten is noted as raced.
LEMMA LatestNext ==
  ASSUME Shape, Latest, [Next]_vars
  PROVE  Latest'
<1>1. Typed /\ Stay /\ (\A c \in Clients : InCall(c)) /\ \A c \in Clients : at[c] = "reput" => mem[c].ref \in Refs
  BY StayNext DEF Shape, Typed, Mem, InCall
<1>2. ASSUME UNCHANGED <<secret, lastPut, raced>>,
             \A d \in Clients : \/ at'[d] = at[d] /\ mem'[d] = mem[d]
                                \/ at'[d] # "reput"
                                \/ mem'[d].value = secret[mem'[d].ref].value
      PROVE  Latest'
  BY <1>2 DEF Latest
<1>3. ASSUME NEW c \in Clients, NEW r \in Refs, NEW s \in Systems, NEW v \in Values, Sets(r, s, v),
             \A d \in Clients \ {c} : at'[d] = at[d] /\ mem'[d] = mem[d],
             at'[c] # "reput",
             \/ NotePut(r, v)
             \/ v = mem[c].value /\ at[c] = "reput" /\ r = mem[c].ref /\ secret[r] # Null /\ UNCHANGED <<lastPut, raced>>
      PROVE  Latest'
  <2>1. CASE NotePut(r, v)
    <3>1. /\ lastPut'[r] = v /\ \A q \in Refs \ {r} : lastPut'[q] = lastPut[q]
          /\ raced' \subseteq Refs /\ raced' \ {r} = raced \ {r}
          /\ r \in raced' <=> \E d \in Clients : at[d] = "reput" /\ mem[d].ref = r
      BY <1>1, <2>1, NotePutIs
    <3>2. \A q \in Refs \ raced' : secret'[q] # Null => secret'[q].value = lastPut'[q]
      BY <1>3, <3>1 DEF Latest, Sets
    <3>3. \A d \in Clients : at'[d] = "reput" /\ mem'[d].ref \notin raced' =>
            mem'[d].value = secret'[mem'[d].ref].value
      BY <1>1, <1>3, <3>1 DEF Latest, Sets
    <3>4. QED
      BY <3>2, <3>3 DEF Latest
  <2>2. CASE v = mem[c].value /\ at[c] = "reput" /\ r = mem[c].ref /\ secret[r] # Null /\ UNCHANGED <<lastPut, raced>>
    <3>1. r \notin raced => v = secret[r].value /\ v = lastPut[r]
      BY <2>2 DEF Latest
    <3>2. \A q \in Refs \ raced' : secret'[q] # Null => secret'[q].value = lastPut'[q]
      BY <1>3, <2>2, <3>1 DEF Latest, Sets
    <3>3. \A d \in Clients : at'[d] = "reput" /\ mem'[d].ref \notin raced' =>
            mem'[d].value = secret'[mem'[d].ref].value
      BY <1>1, <1>3, <2>2, <3>1 DEF Latest, Sets
    <3>4. QED
      BY <3>2, <3>3 DEF Latest
  <2>3. QED
    BY <1>3, <2>1, <2>2
<1>4. ASSUME NEW c \in Clients, ApiStep(c) \/ Fail(c) PROVE Latest'
  <2>1. \A d \in Clients \ {c} : at'[d] = at[d] /\ mem'[d] = mem[d]
    BY <1>1, <1>4, InCallActor
  <2>2. CASE Resolve(c)
    BY <1>2, <2>1, <2>2, ResolveIs
  <2>3. CASE ~Resolve(c) /\ UNCHANGED <<secret, lastPut, raced>>
    BY <1>1, <1>2, <1>4, <2>1, <2>3, WayTo
  <2>4. CASE CreateSystem(c)
    <3> DEFINE s == Head(todo[c]).system
    <3>1. /\ s \in Systems /\ at'[c] = "insert"
          /\ \/ UNCHANGED <<secret, lastPut, raced>>
             \/ \E r \in Refs, v \in Values : Sets(r, s, v) /\ NotePut(r, v)
      BY <2>4, CreateSystemIs
    <3> HIDE DEF s
    <3>2. QED
      BY <1>2, <1>3, <2>1, <3>1
  <2>5. CASE PutSecret(c)
    <3> DEFINE s == Head(todo[c]).system
    <3>1. s \in Systems /\ at'[c] = "point" /\ \E r \in Refs, v \in Values : Sets(r, s, v) /\ NotePut(r, v)
      BY <2>5, PutSecretIs
    <3> HIDE DEF s
    <3>2. QED
      BY <1>3, <2>1, <3>1
  <2>6. CASE Reput(c)
    <3>1. at[c] = "reput" /\ at'[c] = "resolve"
      BY <1>1, <2>6 DEF Reput, Goto, Typed
    <3>2. secret[mem[c].ref] # Null => secret[mem[c].ref].system \in Systems
      BY <1>1, <3>1 DEF Typed, Envelope
    <3>3. QED
      BY <1>3, <2>1, <2>6, <3>1, <3>2, ReputIs
  <2>7. QED
    BY <1>4, <2>2, <2>3, <2>4, <2>5, <2>6, OtherSteps DEF Putting
<1>5. ASSUME NEW r \in Range(Replica), Restart(r) PROVE Latest'
  <2>1. \A d \in Clients : at'[d] = "idle" \/ (at'[d] = at[d] /\ mem'[d] = mem[d])
    BY <1>1, <1>5, InCallRestart
  <2>2. UNCHANGED <<secret, lastPut, raced>>
    BY <1>5 DEF Restart
  <2>3. QED
    BY <1>2, <2>1, <2>2
<1>6. ASSUME NEW w \in Workers, HandlerStep(w) PROVE Latest'
  BY <1>2, <1>6, OtherHandlerSteps
<1>7. CASE UNCHANGED vars
  BY <1>2, <1>7 DEF vars, clientVars, history
<1>8. QED
  BY <1>4, <1>5, <1>6, <1>7 DEF Next, HandlerStep

LEMMA CredentialInit == Init => CredentialInv
<1> SUFFICES ASSUME Init PROVE CredentialInv
  OBVIOUS
<1>1. \A s \in Systems : system[s] # Null => system[s].ref = Null
  BY DEF Init
<1>2. QED
  BY <1>1 DEF Init, CredentialInv, Sealed, Latest

LEMMA CredentialIntact ==
  ASSUME Shape, CredentialInv
  PROVE  CredentialsIntact
<1>1. ASSUME NEW s \in Systems, system[s] # Null, system[s].ref # Null
      PROVE  LET e == secret[system[s].ref] IN
             /\ e # Null /\ e.system = s /\ e.key \in Keys
             /\ system[s].ref \notin raced => e.value = lastPut[system[s].ref]
  <2>1. system[s].ref \in Refs
    BY <1>1 DEF Shape, Typed, SystemRow
  <2>2. secret[system[s].ref] # Null /\ secret[system[s].ref].system = s
    BY <1>1 DEF CredentialInv, Sealed, SealedFor
  <2>3. secret[system[s].ref].key \in Keys
    BY <2>1, <2>2 DEF Shape, Typed, Envelope
  <2>4. QED
    BY <2>1, <2>2, <2>3 DEF CredentialInv, Latest
<1>2. QED
  BY <1>1 DEF CredentialsIntact

-----------------------------------------------------------------------------
(* Connections *)

\* How a handler moves.
LEMMA HandlerMoves ==
  ASSUME Shape, NEW w \in Workers, HandlerStep(w)
  PROVE  /\ \A v \in Workers \ {w} : doing'[v] = doing[v] /\ grant'[v] = grant[v]
         /\ doing[w].step # "idle" /\ doing'[w].step # "idle" => grant'[w] = grant[w]
         /\ \/ ReadRow(w) /\ doing'[w].row = conn[Working(w).conn] /\ doing'[w].issues = FALSE
                 /\ doing'[w].step = IF Working(w).kind = "connection_health" THEN "inspect" ELSE "write"
            \/ Inspect(w) /\ doing'[w].row = doing[w].row /\ doing[w].step = "inspect" /\ doing'[w].step = "write"
            \/ doing'[w].step \notin {"inspect", "write"}
<1> USE DEF queueVars
<1>1. Typed
  BY DEF Shape
<1>2. ASSUME NEW j \in Jobs, Take(w, j)
      PROVE  /\ \A v \in Workers \ {w} : doing'[v] = doing[v] /\ grant'[v] = grant[v]
             /\ doing[w].step = "idle" /\ doing'[w].step = "read"
  BY <1>1, <1>2 DEF Take, Queue!Grant, Typed, Doing, Idle
<1>3. CASE ReadRow(w)
  <2>1. doing' = [doing EXCEPT ![w] = [step |-> IF Working(w).kind = "connection_health" THEN "inspect" ELSE "write",
                                       row |-> conn[Working(w).conn], issues |-> FALSE]] /\ grant' = grant
    BY <1>3 DEF ReadRow
  <2>2. QED
    BY <1>1, <1>3, <2>1 DEF Typed
<1>4. CASE Inspect(w)
  <2>1. grant' = grant /\ doing[w].step = "inspect" /\ \A v \in Workers \ {w} : doing'[v] = doing[v]
    BY <1>1, <1>4 DEF Inspect, Typed
  <2>2. doing'[w].row = doing[w].row /\ doing'[w].step = "write"
    BY <1>1, <1>4 DEF Inspect, Typed, Doing
  <2>3. QED
    BY <1>4, <2>1, <2>2
<1>5. CASE WriteBack(w)
  <2>1. doing' = [doing EXCEPT ![w] = [Idle EXCEPT !.step = "done"]] /\ grant' = grant
    BY <1>5 DEF WriteBack
  <2>2. QED
    BY <1>1, <2>1 DEF Typed, Idle
<1>6. ASSUME NEW outcome \in {"queued", "succeeded", "dead"}, Settle(w, outcome) \/ Queue!Drop(w),
             doing' = [doing EXCEPT ![w] = Idle]
      PROVE  /\ \A v \in Workers \ {w} : doing'[v] = doing[v] /\ grant'[v] = grant[v]
             /\ doing'[w].step = "idle"
  <2>1. grant' = [grant EXCEPT ![w] = Null]
    BY <1>6, SettledIs
  <2>2. QED
    BY <1>1, <1>6, <2>1 DEF Typed, Idle
<1>7. CASE Finish(w) \/ HandlerFails(w) \/ WorkerCrash(w)
  BY <1>6, <1>7 DEF Finish, HandlerFails, WorkerCrash
<1>8. QED
  BY <1>2, <1>3, <1>4, <1>5, <1>7 DEF HandlerStep, WorkerStep

\* A handler's job stays what it is.
LEMMA WorkingKept ==
  ASSUME Shape, [Next]_vars, NEW v \in Workers, doing[v].step # "idle", doing'[v].step # "idle"
  PROVE  Working(v)' = Working(v)
<1>1. grant[v].job \in Jobs /\ jobState[grant[v].job] # "absent" /\ work[grant[v].job] # Null
  BY AtWork DEF Shape, InJob, JobsNamed, Handling
<1>2. ASSUME NEW kind \in Kinds, NEW i \in Conns, Submit(kind, i) PROVE Working(v)' = Working(v)
  <2>1. PICK j \in Jobs : /\ work[j] = Null /\ grant' = grant
                          /\ work' = [work EXCEPT ![j] = [kind |-> kind, conn |-> i]]
    BY <1>2, SubmitIs DEF Shape
  <2>2. work'[grant[v].job] = work[grant[v].job]
    BY <1>1, <2>1 DEF Shape, Typed
  <2>3. QED
    BY <2>1, <2>2 DEF Working
<1>3. ASSUME NEW c \in Clients, ApiStep(c) \/ Fail(c) PROVE Working(v)' = Working(v)
  <2>1. Typed /\ InCall(c)
    BY DEF Shape
  <2>2. CASE UNCHANGED <<jobState, grants, grant, work>>
    BY <2>2 DEF Working
  <2>3. CASE Enqueue(c)
    <3>1. mem[c].conn \in Conns /\ Submit("compose_connection", mem[c].conn)
      BY <2>1, <2>3, Under DEF Enqueue, InCall, Mem
    <3>2. QED
      BY <1>2, <3>1 DEF Kinds
  <2>4. CASE Check(c)
    <3>1. Head(todo[c]).conn \in Conns
      BY <2>1, <2>4, Started, CallFields DEF Check
    <3>2. CASE conn[Head(todo[c]).conn] = Null
      BY <2>4, <3>2 DEF Check, queueVars, Working
    <3>3. CASE conn[Head(todo[c]).conn] # Null
      BY <1>2, <2>4, <3>1, <3>3 DEF Check, Kinds
    <3>4. QED
      BY <3>2, <3>3
  <2>5. QED
    BY <1>3, <2>2, <2>3, <2>4, OtherSteps
<1>4. ASSUME NEW w \in Workers, HandlerStep(w) PROVE Working(v)' = Working(v)
  <2>1. grant'[v] = grant[v] /\ work' = work
    BY <1>4, HandlerMoves, OtherHandlerSteps
  <2>2. QED
    BY <2>1 DEF Working
<1>5. ASSUME UNCHANGED <<grant, work>> PROVE Working(v)' = Working(v)
  BY <1>5 DEF Working
<1>6. QED
  BY <1>3, <1>4, <1>5 DEF Next, HandlerStep, Restart, vars, queueVars

\* A system stays, and so does the fact that it has credentials.
References ==
  \A s \in Systems : system[s] # Null =>
    system'[s] # Null /\ (system[s].ref # Null => system'[s].ref # Null)

LEMMA ReferencesKept ==
  ASSUME Shape, Sealed, Named, [Next]_vars
  PROVE  References
<1>1. ASSUME UNCHANGED system PROVE References
  BY <1>1 DEF References
<1>2. ASSUME NEW c \in Clients, InsertSystem(c) PROVE References
  <2> DEFINE z == Head(todo[c]).system
  <2>1. z \in Systems /\ system[z] = Null /\ \A s \in Systems \ {z} : system'[s] = system[s]
    BY <1>2, RowWritten DEF InsertSystem, Named, Unborn
  <2> HIDE DEF z
  <2>2. QED
    BY <2>1 DEF References
<1>3. ASSUME NEW c \in Clients, PointSystem(c) PROVE References
  <2> DEFINE z == Head(todo[c]).system
  <2>1. /\ z \in Systems /\ system'[z] \in SystemRow /\ system'[z].ref = mem[c].ref
        /\ \A s \in Systems \ {z} : system'[s] = system[s]
    BY <1>3, RowWritten
  <2>2. mem[c].ref # Null
    BY <1>3 DEF PointSystem, Sealed
  <2> HIDE DEF z
  <2>3. QED
    BY <2>1, <2>2, PlatformAssumption DEF References
<1>4. ASSUME NEW c \in Clients, ApiStep(c) \/ Fail(c) PROVE References
  BY <1>1, <1>2, <1>3, <1>4, OtherSteps
<1>5. ASSUME NEW w \in Workers, HandlerStep(w) PROVE References
  BY <1>1, <1>5, OtherHandlerSteps
<1>6. QED
  BY <1>1, <1>4, <1>5 DEF Next, HandlerStep, Restart, vars

LEMMA UnbornNext ==
  ASSUME Shape, Named, [Next]_vars
  PROVE  Unborn'
<1>1. Typed /\ Stay /\ \A c \in Clients : InCall(c)
  BY StayNext DEF Shape
<1>2. \A c \in Clients : at[c] \in {"insert", "put", "point"} => Head(todo[c]).system \in Systems
  BY <1>1, Under, CallFields
<1>3. ASSUME UNCHANGED system,
             \A d \in Clients : at'[d] # "insert" \/ (at'[d] = at[d] /\ todo'[d] = todo[d])
      PROVE  Unborn'
  BY <1>3 DEF Named, Unborn
<1>4. ASSUME NEW c \in Clients, ApiStep(c) \/ Fail(c) PROVE Unborn'
  <2>1. \A d \in Clients \ {c} : at'[d] = at[d] /\ todo'[d] = todo[d]
    BY <1>1, <1>4, InCallActor
  <2>2. CASE CreateSystem(c)
    <3>1. at'[c] = "insert" /\ todo'[c] = todo[c] /\ system[Head(todo[c]).system] = Null
      BY <2>2, CreateSystemIs
    <3>2. UNCHANGED system /\ \A d \in Clients : at[d] = "insert" => Head(todo[d]).system # Head(todo[c]).system
      BY <2>2 DEF CreateSystem, NewId
    <3>3. QED
      BY <2>1, <3>1, <3>2 DEF Named, Unborn
  <2>3. CASE InsertSystem(c) \/ PointSystem(c)
    <3> DEFINE z == Head(todo[c]).system
    <3>1. z \in Systems /\ at'[c] = "idle" /\ \A s \in Systems \ {z} : system'[s] = system[s]
      BY <2>3, RowWritten
    <3>2. \A d \in Clients \ {c} : at[d] = "insert" => Head(todo[d]).system # z
      BY <2>3 DEF InsertSystem, PointSystem, Named, Unborn, Found
    <3> HIDE DEF z
    <3>3. QED
      BY <1>2, <2>1, <3>1, <3>2 DEF Named, Unborn
  <2>4. CASE ~CreateSystem(c) /\ UNCHANGED system
    BY <1>1, <1>3, <1>4, <2>1, <2>4, WayTo
  <2>5. QED
    BY <1>4, <2>2, <2>3, <2>4, OtherSteps
<1>5. ASSUME NEW r \in Range(Replica), Restart(r) PROVE Unborn'
  <2>1. \A d \in Clients : at'[d] = "idle" \/ (at'[d] = at[d] /\ todo'[d] = todo[d])
    BY <1>1, <1>5, InCallRestart
  <2>2. UNCHANGED system
    BY <1>5 DEF Restart
  <2>3. QED
    BY <1>3, <2>1, <2>2
<1>6. ASSUME NEW w \in Workers, HandlerStep(w) PROVE Unborn'
  BY <1>3, <1>6, OtherHandlerSteps
<1>7. CASE UNCHANGED vars
  BY <1>3, <1>7 DEF vars, clientVars
<1>8. QED
  BY <1>4, <1>5, <1>6, <1>7 DEF Next, HandlerStep

LEMMA FoundNext ==
  ASSUME Shape, Sealed, Named, [Next]_vars
  PROVE  Found'
<1>1. Typed /\ Stay /\ References /\ \A c \in Clients : InCall(c)
  BY StayNext, ReferencesKept DEF Shape
<1>2. \A c \in Clients : at[c] \in {"insert", "put", "point"} => Head(todo[c]).system \in Systems
  BY <1>1, Under, CallFields
<1>3. ASSUME NEW d \in Clients,
             at'[d] \notin {"put", "point"} \/ (at'[d] = at[d] /\ todo'[d] = todo[d])
      PROVE  at'[d] \in {"put", "point"} => system'[Head(todo'[d]).system] # Null
  BY <1>1, <1>2, <1>3 DEF Named, Found, References
<1>4. ASSUME NEW c \in Clients, ApiStep(c) \/ Fail(c) PROVE Found'
  <2>1. \A d \in Clients \ {c} : at'[d] = at[d] /\ todo'[d] = todo[d]
    BY <1>1, <1>4, InCallActor
  <2>2. at'[c] = "put" => system'[Head(todo'[c]).system] # Null
    BY <1>1, <1>4, WayTo, ReadSystemIs
  <2>3. at'[c] = "point" => system'[Head(todo'[c]).system] # Null
    <3>1. at'[c] = "point" => PutSecret(c)
      BY <1>1, <1>4, WayTo
    <3>2. PutSecret(c) => todo'[c] = todo[c] /\ at[c] = "put"
      BY PutSecretIs DEF PutSecret
    <3>3. QED
      BY <1>1, <1>2, <3>1, <3>2 DEF Named, Found, References
  <2>4. QED
    BY <1>3, <2>1, <2>2, <2>3 DEF Found
<1>5. ASSUME NEW r \in Range(Replica), Restart(r) PROVE Found'
  <2>1. \A d \in Clients : at'[d] = "idle" \/ (at'[d] = at[d] /\ todo'[d] = todo[d])
    BY <1>1, <1>5, InCallRestart
  <2>2. QED
    BY <1>3, <2>1 DEF Found
<1>6. ASSUME UNCHANGED <<at, todo>> PROVE Found'
  BY <1>3, <1>6 DEF Found
<1>7. ASSUME NEW w \in Workers, HandlerStep(w) PROVE Found'
  BY <1>6, <1>7, OtherHandlerSteps
<1>8. QED
  BY <1>4, <1>5, <1>6, <1>7 DEF Next, HandlerStep, vars, clientVars

\* What a step does to one connection: nothing, or it inserts it, or a handler writes it.
LEMMA ConnStep ==
  ASSUME Shape, [Next]_vars, NEW i \in Conns
  PROVE  \/ conn'[i] = conn[i]
         \/ /\ conn[i] = Null /\ conn'[i] \in ConnRow
            /\ conn'[i].status = "queued" /\ conn'[i].contract = Null
            /\ \A s \in SystemsOf(conn'[i]) : system[s] # Null
         \/ \E w \in Workers : WriteBack(w) /\ Working(w).conn = i
<1>1. ASSUME NEW c \in Clients, Inserting(c), conn'[i] # conn[i]
      PROVE  /\ conn[i] = Null /\ conn'[i] \in ConnRow
             /\ conn'[i].status = "queued" /\ conn'[i].contract = Null
             /\ \A s \in SystemsOf(conn'[i]) : system[s] # Null
  <2>1. PICK k \in Conns, source \in Systems, targets \in Seq(Systems), draft \in Draft \cup {Null} :
          Inserted(c, k, source, targets, draft) /\ Connectable(source, targets)
    BY <1>1, InsertingIs
  <2>2. k = i /\ conn'[i].source = source /\ conn'[i].targets = targets
    BY <1>1, <2>1 DEF Inserted
  <2>3. \A s \in SystemsOf(conn'[i]) : system[s] # Null
    BY <2>1, <2>2 DEF SystemsOf, Connectable, Exists
  <2>4. QED
    BY <2>1, <2>2, <2>3 DEF Inserted
<1>2. ASSUME NEW c \in Clients, ApiStep(c) \/ Fail(c) PROVE conn'[i] = conn[i] \/ Inserting(c)
  BY <1>2, OtherSteps
<1>3. ASSUME NEW w \in Workers, HandlerStep(w)
      PROVE  conn'[i] = conn[i] \/ (WriteBack(w) /\ Working(w).conn = i)
  BY <1>3, OtherHandlerSteps, WriteBackIs
<1>4. QED
  BY <1>1, <1>2, <1>3 DEF Next, HandlerStep, Restart, vars

LEMMA LinkedNext ==
  ASSUME Shape, Sealed, Named, [Next]_vars
  PROVE  Linked'
<1>1. Typed /\ Stay /\ References
  BY StayNext, ReferencesKept DEF Shape
<1>2. ASSUME NEW i \in Conns, conn[i] # Null PROVE \A s \in SystemsOf(conn'[i]) : system'[s] # Null
  <2>1. SystemsOf(conn[i]) \subseteq Systems
    BY <1>1, <1>2, SystemsOfRow DEF Typed
  <2>2. SystemsOf(conn'[i]) = SystemsOf(conn[i])
    BY <1>1, <1>2 DEF Stay, SystemsOf
  <2>3. QED
    BY <1>1, <1>2, <2>1, <2>2 DEF Named, Linked, References
<1>3. ASSUME NEW i \in Conns, conn[i] = Null, conn'[i] # Null PROVE \A s \in SystemsOf(conn'[i]) : system'[s] # Null
  <2>1. \A w \in Workers : WriteBack(w) => conn[Working(w).conn] # Null
    BY AtWork, PlatformAssumption DEF WriteBack
  <2>2. conn'[i] \in ConnRow /\ \A s \in SystemsOf(conn'[i]) : system[s] # Null
    BY <1>3, <2>1, ConnStep
  <2>3. SystemsOf(conn'[i]) \subseteq Systems
    BY <2>2, SystemsOfRow
  <2>4. QED
    BY <1>1, <2>2, <2>3 DEF References
<1>4. \A i \in Conns : conn'[i] # Null => \A s \in SystemsOf(conn'[i]) : system'[s] # Null
  BY <1>2, <1>3
<1>5. QED
  BY <1>4 DEF Linked, SystemsOf

\* A handler that has read a row read it earlier, or in this step.
LEMMA ReadingIs ==
  ASSUME Shape, [Next]_vars, NEW v \in Workers, Reading(v)'
  PROVE  /\ Working(v)' = Working(v) /\ Working(v).conn \in Conns /\ conn[Working(v).conn] \in ConnRow
         /\ \/ Reading(v) /\ doing'[v] = doing[v]
            \/ Reading(v) /\ Inspect(v) /\ doing[v].step = "inspect" /\ doing'[v].row = doing[v].row
                 /\ doing'[v].step = "write"
            \/ ReadRow(v) /\ UNCHANGED conn /\ doing'[v].row = conn[Working(v).conn] /\ doing'[v].issues = FALSE
                 /\ doing'[v].step = (IF Working(v).kind = "connection_health" THEN "inspect" ELSE "write")
                 /\ \A u \in Workers \ {v} : doing'[u] = doing[u]
<1>1. \/ doing'[v] = doing[v]
      \/ HandlerStep(v)
  <2>1. ASSUME NEW c \in Clients, ApiStep(c) \/ Fail(c) PROVE doing'[v] = doing[v]
    BY <2>1, OtherSteps
  <2>2. ASSUME NEW w \in Workers, HandlerStep(w) PROVE doing'[v] = doing[v] \/ HandlerStep(v)
    BY <2>2, HandlerMoves
  <2>3. QED
    BY <2>1, <2>2 DEF Next, HandlerStep, Restart, vars
<1>2. CASE doing'[v] = doing[v]
  <2>1. Reading(v) /\ doing[v].step # "idle" /\ doing'[v].step # "idle"
    BY <1>2 DEF Reading
  <2>2. QED
    BY <1>2, <2>1, WorkingKept, AtWork
<1>3. CASE HandlerStep(v)
  <2>1. doing'[v].step \in {"inspect", "write"}
    BY DEF Reading
  <2>2. CASE ReadRow(v)
    <3>1. doing[v].step = "read" /\ UNCHANGED conn
      BY <2>2 DEF ReadRow
    <3>2. Working(v)' = Working(v) /\ Working(v).conn \in Conns /\ conn[Working(v).conn] \in ConnRow
      BY <2>1, <3>1, WorkingKept, AtWork
    <3>3. /\ doing'[v].row = conn[Working(v).conn] /\ doing'[v].issues = FALSE
          /\ doing'[v].step = (IF Working(v).kind = "connection_health" THEN "inspect" ELSE "write")
      BY <1>3, <2>1, <3>1, HandlerMoves
    <3>4. \A u \in Workers \ {v} : doing'[u] = doing[u]
      BY <1>3, HandlerMoves
    <3>5. QED
      BY <2>2, <3>1, <3>2, <3>3, <3>4
  <2>3. CASE ~ReadRow(v)
    <3>1. Inspect(v) /\ doing'[v].row = doing[v].row /\ doing[v].step = "inspect" /\ doing'[v].step = "write"
      BY <1>3, <2>1, <2>3, HandlerMoves
    <3>2. Working(v)' = Working(v) /\ Working(v).conn \in Conns /\ conn[Working(v).conn] \in ConnRow
      BY <2>1, <3>1, WorkingKept, AtWork
    <3>3. QED
      BY <3>1, <3>2 DEF Reading
  <2>4. QED
    BY <2>2, <2>3
<1>4. QED
  BY <1>1, <1>2, <1>3

LEMMA OverlapsStay ==
  ASSUME [Next]_vars
  PROVE  overlapped \subseteq overlapped'
<1>1. ASSUME NEW w \in Workers, HandlerStep(w) PROVE overlapped \subseteq overlapped'
  BY <1>1, OtherHandlerSteps DEF ReadRow
<1>2. ASSUME NEW c \in Clients, ApiStep(c) \/ Fail(c) PROVE overlapped \subseteq overlapped'
  BY <1>2, OtherSteps
<1>3. QED
  BY <1>1, <1>2 DEF Next, HandlerStep, Restart, vars, history

\* Nobody writes the connection of a handler that overlapped no other.
LEMMA RowKept ==
  ASSUME Shape, Alone, [Next]_vars, NEW v \in Workers, Reading(v), Reading(v)', Working(v).conn \notin overlapped
  PROVE  conn'[Working(v).conn] = conn[Working(v).conn]
<1>1. Working(v).conn \in Conns /\ conn[Working(v).conn] \in ConnRow
  BY ReadingIs
<1>2. ASSUME NEW w \in Workers, WriteBack(w), Working(w).conn = Working(v).conn PROVE FALSE
  <2>1. Reading(w)
    BY <1>2 DEF WriteBack, Reading
  <2>2. v = w
    BY <1>2, <2>1 DEF Alone
  <2>3. HandlerStep(w) /\ doing[w].step = "write"
    BY <1>2 DEF HandlerStep, WorkerStep, WriteBack
  <2>4. doing'[w].step = "done"
    BY <1>2 DEF WriteBack, Shape, Typed, Idle
  <2>5. QED
    BY <2>2, <2>4 DEF Reading
<1>3. QED
  BY <1>1, <1>2, ConnStep, PlatformAssumption

LEMMA AloneNext ==
  ASSUME Shape, Alone, [Next]_vars
  PROVE  Alone'
<1>1. ASSUME NEW v \in Workers, Reading(v)', Working(v)'.conn \notin overlapped'
      PROVE  doing'[v].row = conn'[Working(v)'.conn]
  <2>1. Working(v)' = Working(v) /\ Working(v).conn \notin overlapped
    BY <1>1, ReadingIs, OverlapsStay
  <2>2. CASE Reading(v)
    <3>1. conn'[Working(v).conn] = conn[Working(v).conn]
      BY <1>1, <2>1, <2>2, RowKept
    <3>2. doing[v].row = conn[Working(v).conn]
      BY <2>1, <2>2 DEF Alone
    <3>3. doing'[v].row = doing[v].row
      BY <1>1, <2>2, ReadingIs DEF Reading, ReadRow
    <3>4. QED
      BY <2>1, <3>1, <3>2, <3>3
  <2>3. CASE ~Reading(v)
    BY <1>1, <2>1, <2>3, ReadingIs
  <2>4. QED
    BY <2>2, <2>3
<1>2. ASSUME NEW v \in Workers, NEW w \in Workers, Reading(v)', Reading(w)', Working(v)'.conn = Working(w)'.conn,
             Working(v)'.conn \notin overlapped', v # w, ReadRow(v)
      PROVE  FALSE
  <2>1. Working(v)' = Working(v) /\ Working(w)' = Working(w)
    BY <1>2, ReadingIs
  <2>2. doing'[w] = doing[w]
    <3>1. HandlerStep(v)
      BY <1>2 DEF HandlerStep, WorkerStep
    <3>2. QED
      BY <1>2, <3>1, HandlerMoves
  <2>3. doing[w].step \in {"inspect", "write"} /\ Working(w).conn = Working(v).conn
    BY <1>2, <2>1, <2>2 DEF Reading
  <2>4. Working(v).conn \in overlapped'
    BY <1>2, <2>3 DEF ReadRow
  <2>5. QED
    BY <1>2, <2>1, <2>4
<1>3. ASSUME NEW v \in Workers, NEW w \in Workers, Reading(v)', Reading(w)', Working(v)'.conn = Working(w)'.conn,
             Working(v)'.conn \notin overlapped'
      PROVE  v = w
  <2>1. Working(v)' = Working(v) /\ Working(w)' = Working(w) /\ Working(v).conn \notin overlapped
    BY <1>3, ReadingIs, OverlapsStay
  <2>2. CASE Reading(v) /\ Reading(w)
    BY <1>3, <2>1, <2>2 DEF Alone
  <2>3. CASE ReadRow(v)
    BY <1>2, <1>3, <2>3
  <2>4. CASE ReadRow(w)
    BY <1>2, <1>3, <2>4
  <2>5. QED
    BY <1>3, <2>2, <2>3, <2>4, ReadingIs
<1>4. QED
  BY <1>1, <1>3 DEF Alone

LEMMA InspectedNext ==
  ASSUME Shape, Named, Sealed, Inspected, [Next]_vars
  PROVE  Inspected'
<1>1. Typed /\ References
  BY ReferencesKept DEF Shape
<1>2. ASSUME NEW v \in Workers, Reading(v), doing[v].step # "idle"
      PROVE  doing[v].row \in ConnRow /\ \A s \in SystemsOf(doing[v].row) : s \in Systems /\ system[s] # Null
  <2>1. /\ doing[v].row # Null /\ Handling(v) /\ Working(v).conn \in Conns /\ conn[Working(v).conn] \in ConnRow
        /\ doing[v].row.source = conn[Working(v).conn].source
        /\ doing[v].row.targets = conn[Working(v).conn].targets
    BY <1>2, AtWork DEF Shape, InJob, Handling, Reading
  <2>2. doing[v].row \in ConnRow
    BY <1>1, <2>1 DEF Typed, Doing
  <2>3. SystemsOf(doing[v].row) = SystemsOf(conn[Working(v).conn])
    BY <2>1 DEF SystemsOf
  <2>4. QED
    BY <2>1, <2>2, <2>3, SystemsOfRow, PlatformAssumption DEF Named, Linked
<1>3. ASSUME NEW w \in Workers, doing'[w].step = "inspect" PROVE Working(w)'.kind = "connection_health"
  <2>1. Reading(w)'
    BY <1>3 DEF Reading
  <2>2. QED
    BY <1>3, <2>1, ReadingIs DEF Inspected
<1>4. ASSUME NEW w \in Workers, doing'[w].step = "write", Working(w)'.kind = "connection_health", ~doing'[w].issues
      PROVE  \A s \in SystemsOf(doing'[w].row) : Kind[s] = "none" \/ system'[s].ref # Null
  <2>1. Reading(w)'
    BY <1>4 DEF Reading
  <2>2. Working(w)' = Working(w)
    BY <2>1, ReadingIs
  <2>3. CASE Reading(w) /\ doing'[w] = doing[w]
    <3>1. Credentialed(doing[w].row)
      BY <1>4, <2>2, <2>3 DEF Inspected
    <3>2. \A s \in SystemsOf(doing[w].row) : s \in Systems /\ system[s] # Null
      BY <1>2, <2>3 DEF Reading
    <3>3. QED
      BY <1>1, <2>3, <3>1, <3>2 DEF Credentialed, References
  <2>4. CASE Reading(w) /\ Inspect(w) /\ doing[w].step = "inspect" /\ doing'[w].row = doing[w].row
    <3> DEFINE found == \E s \in {doing[w].row.source} \cup Range(doing[w].row.targets) :
                          Profile[s] = Null \/ (Kind[s] # "none" /\ system[s].ref = Null)
    <3>1. doing' = [doing EXCEPT ![w].step = "write", ![w].issues = found] /\ UNCHANGED system
      BY <2>4, Zenon DEF Inspect
    <3>2. found \in BOOLEAN
      OBVIOUS
    <3> HIDE DEF found
    <3>3. doing'[w].issues = found
      BY <1>1, <3>1 DEF Typed, Doing
    <3>4. \A s \in SystemsOf(doing[w].row) : Kind[s] = "none" \/ system[s].ref # Null
      BY <1>4, <3>3 DEF found, SystemsOf
    <3>5. QED
      BY <2>4, <3>1, <3>4
  <2>5. CASE ReadRow(w) /\ doing'[w].step = (IF Working(w).kind = "connection_health" THEN "inspect" ELSE "write")
    BY <1>4, <2>2, <2>5
  <2>6. QED
    BY <2>1, <2>3, <2>4, <2>5, ReadingIs
<1>5. QED
  BY <1>3, <1>4 DEF Inspected, Credentialed, SystemsOf

\* What a compose handler of a connection writes depends on that connection alone.
LEMMA WrittenIs ==
  ASSUME Shape, NEW w \in Workers, WriteBack(w)
  PROVE  LET old == conn[Working(w).conn]
         IN  \/ Working(w).kind = "connection_health"
                  /\ Written(w) = [status |-> Health(doing[w].row, doing[w].issues), contract |-> Null]
             \/ /\ Written(w).contract = OutcomeOf(old.source, old.targets).contract
                /\ \/ Written(w) = [status |-> "review_required", contract |-> Null]
                   \/ Written(w) = [status |-> "review_required", contract |-> "open"]
                   \/ Written(w) = [status |-> "shadow", contract |-> "clear"]
                   \/ /\ Written(w) = [status |-> "needs_discovery", contract |-> Null]
                      /\ \E s \in SystemsOf(old) : Profile[s] = Null
<1> DEFINE old == conn[Working(w).conn]
           row == doing[w].row
<1>1. row \in ConnRow /\ row.source = old.source /\ row.targets = old.targets
  BY WriteBackIs DEF Shape, InJob, Handling, WriteBack
<1>2. SystemsOf(row) = SystemsOf(old)
  BY <1>1 DEF SystemsOf
<1>3. CASE Working(w).kind = "connection_health"
  BY <1>3, Zenon DEF Written
<1>4. CASE Working(w).kind # "connection_health"
  <2>1. Written(w) = Outcome(row)
    BY <1>4, Zenon DEF Written
  <2> HIDE DEF old, row
  <2>2. Outcome(row) = OutcomeOf(old.source, old.targets)
    BY <1>1, OutcomeIs
  <2>3. QED
    BY <1>1, <1>2, <2>1, <2>2, OutcomeIs DEF old
<1>5. QED
  BY <1>3, <1>4

LEMMA OwnContractNext ==
  ASSUME Shape, OwnContract, [Next]_vars
  PROVE  OwnContract'
<1>1. Typed /\ Stay
  BY StayNext DEF Shape
<1>2. ASSUME NEW i \in Conns, conn'[i] # Null
      PROVE  conn'[i].contract \in {Null, OutcomeOf(conn'[i].source, conn'[i].targets).contract}
  <2>1. CASE conn'[i] = conn[i]
    BY <1>2, <2>1 DEF OwnContract
  <2>2. CASE conn'[i].contract = Null
    BY <2>2
  <2>3. ASSUME NEW w \in Workers, WriteBack(w), Working(w).conn = i
        PROVE  conn'[i].contract \in {Null, OutcomeOf(conn'[i].source, conn'[i].targets).contract}
    <3>1. /\ conn'[i].source = conn[i].source /\ conn'[i].targets = conn[i].targets
          /\ conn'[i].contract = IF Written(w).contract = Null THEN conn[i].contract ELSE Written(w).contract
      BY <2>3, WriteBackIs
    <3>2. conn[i] # Null
      BY <2>3, AtWork, PlatformAssumption DEF WriteBack
    <3>3. conn[i].contract \in {Null, OutcomeOf(conn[i].source, conn[i].targets).contract}
      BY <3>2 DEF OwnContract
    <3>4. Written(w).contract \in {Null, OutcomeOf(conn[i].source, conn[i].targets).contract}
      BY <2>3, WrittenIs
    <3>5. QED
      BY <3>1, <3>3, <3>4
  <2>4. QED
    BY <2>1, <2>2, <2>3, ConnStep
<1>3. QED
  BY <1>2 DEF OwnContract

\* What a status that was written claims, of the systems as they then are.
LEMMA HonestWrite ==
  ASSUME Shape, StatusInv, NEW w \in Workers, WriteBack(w), Working(w).conn \notin overlapped
  PROVE  LET new == conn'[Working(w).conn]
         IN  \/ new.status = "degraded"
             \/ new.status = "healthy" /\ new.contract # Null /\ Credentialed(new)
             \/ new.status = "needs_composition" /\ new.contract = Null
             \/ new.status = "review_required" /\ new.contract # "clear"
             \/ new.status = "shadow" /\ new.contract = "clear"
             \/ new.status = "needs_discovery" /\ \E s \in SystemsOf(new) : Profile[s] = Null
<1> DEFINE i == Working(w).conn
           old == conn[i]
           new == conn'[i]
<1>1. i \in Conns /\ old # Null
  BY AtWork, PlatformAssumption DEF WriteBack
<1>2. /\ new.source = old.source /\ new.targets = old.targets
      /\ new.status = Written(w).status
      /\ new.contract = IF Written(w).contract = Null THEN old.contract ELSE Written(w).contract
  BY WriteBackIs
<1>3. SystemsOf(new) = SystemsOf(old)
  BY <1>2 DEF SystemsOf
<1>4. Null \notin {"open", "clear"}
  BY PlatformAssumption
<1>5. old.contract \in {Null, OutcomeOf(old.source, old.targets).contract}
  BY <1>1 DEF StatusInv, OwnContract
<1>6. doing[w].step = "write" /\ doing[w].row = old
  BY DEF StatusInv, Alone, WriteBack, Reading
<1> HIDE DEF old, new
<1>7. CASE Working(w).kind = "connection_health"
             /\ Written(w) = [status |-> Health(doing[w].row, doing[w].issues), contract |-> Null]
  <2>1. new.contract = old.contract /\ new.status = Health(old, doing[w].issues)
    BY <1>2, <1>6, <1>7
  <2>2. ~doing[w].issues => Credentialed(old)
    BY <1>6, <1>7 DEF StatusInv, Inspected
  <2>3. ~doing[w].issues => Credentialed(new)
    BY <1>3, <2>2 DEF Credentialed
  <2>4. QED
    BY <2>1, <2>3 DEF Health, new, i
<1>8. CASE Written(w).contract = OutcomeOf(old.source, old.targets).contract
             /\ Written(w) = [status |-> "review_required", contract |-> Null]
  <2>1. new.contract = Null /\ new.status = "review_required"
    BY <1>2, <1>5, <1>8
  <2>2. QED
    BY <1>4, <2>1 DEF new, i
<1>9. CASE Written(w) = [status |-> "review_required", contract |-> "open"]
  <2>1. new.contract = "open" /\ new.status = "review_required"
    BY <1>2, <1>4, <1>9
  <2>2. QED
    BY <2>1 DEF new, i
<1>10. CASE Written(w) = [status |-> "shadow", contract |-> "clear"]
  <2>1. new.contract = "clear" /\ new.status = "shadow"
    BY <1>2, <1>4, <1>10
  <2>2. QED
    BY <2>1 DEF new, i
<1>11. CASE Written(w) = [status |-> "needs_discovery", contract |-> Null] /\ \E s \in SystemsOf(old) : Profile[s] = Null
  <2>1. new.status = "needs_discovery" /\ \E s \in SystemsOf(new) : Profile[s] = Null
    BY <1>2, <1>3, <1>11
  <2>2. QED
    BY <2>1 DEF new, i
<1>12. QED
  BY <1>7, <1>8, <1>9, <1>10, <1>11, WrittenIs DEF old, i

LEMMA StatusHonestNext ==
  ASSUME Shape, Sealed, StatusInv, [Next]_vars
  PROVE  StatusHonest'
<1>1. Typed /\ References
  BY ReferencesKept DEF Shape, StatusInv
<1>2. ASSUME NEW i \in Conns, conn'[i] # Null, i \notin overlapped'
      PROVE  StatusTrue(conn[i])'
  <2> DEFINE row == conn'[i]
             Creds == \A s \in {row.source} \cup Range(row.targets) : Kind[s] = "none" \/ system'[s].ref # Null
             Goal == CASE row.status = "queued"            -> row.contract = Null
                       [] row.status = "needs_discovery"   -> \E s \in {row.source} \cup Range(row.targets) : Profile[s] = Null
                       [] row.status = "review_required"   -> row.contract # "clear"
                       [] row.status = "shadow"            -> row.contract = "clear"
                       [] row.status = "needs_composition" -> row.contract = Null
                       [] row.status = "healthy"           -> row.contract # Null /\ Creds
                       [] row.status = "degraded"          -> TRUE
  <2>1. StatusTrue(conn[i])' <=> Goal
    BY Zenon DEF StatusTrue
  <2>2. i \notin overlapped
    BY <1>2, OverlapsStay
  <2>3. CASE conn'[i] = conn[i]
    <3>1. StatusTrue(row) /\ row \in ConnRow
      BY <1>1, <1>2, <2>2, <2>3 DEF StatusInv, StatusHonest, Typed
    <3>2. \A s \in {row.source} \cup Range(row.targets) : s \in Systems /\ system[s] # Null
      BY <1>2, <2>3, <3>1, SystemsOfRow DEF StatusInv, Named, Linked, SystemsOf
    <3>3. row.status = "healthy" => Creds
      <4>1. row.status = "healthy" => \A s \in {row.source} \cup Range(row.targets) : Kind[s] = "none" \/ system[s].ref # Null
        BY <3>1 DEF StatusTrue
      <4>2. QED
        BY <1>1, <3>2, <4>1 DEF References
    <3> HIDE DEF Creds
    <3>4. Goal
      BY <3>1, <3>3 DEF StatusTrue, ConnRow
    <3>5. QED
      BY <2>1, <3>4
  <2>4. CASE row.status = "queued" /\ row.contract = Null
    BY <2>1, <2>4
  <2>5. ASSUME NEW w \in Workers, WriteBack(w), Working(w).conn = i PROVE Goal
    <3>1. UNCHANGED system
      BY <2>5 DEF WriteBack
    <3>2. Credentialed(row) => Creds
      BY <3>1 DEF Credentialed, SystemsOf
    <3>3. (\E s \in SystemsOf(row) : Profile[s] = Null) => \E s \in {row.source} \cup Range(row.targets) : Profile[s] = Null
      BY DEF SystemsOf
    <3> HIDE DEF Creds
    <3>4. QED
      BY <2>2, <2>5, <3>2, <3>3, HonestWrite
  <2>6. QED
    BY <2>1, <2>3, <2>4, <2>5, ConnStep
<1>3. QED
  BY <1>2 DEF StatusHonest

-----------------------------------------------------------------------------
(* The chat *)

LEMMA OtherChatSteps ==
  ASSUME NEW c \in Clients, ApiStep(c) \/ Fail(c)
  PROVE  /\ SaveDraft(c) \/ UNCHANGED <<chat, said>>
         /\ ReadDraft(c) \/ UNCHANGED mixed
BY DEF ApiStep, CreateSystem, InsertSystem, ReadSystem, PutSecret, PointSystem, ListSecrets, Activate, Resolve, Reput,
       EndRotation, CreateConnection, Enqueue, Check, ReadDraft, Respond, SaveDraft, Fail, history

\* Which message is being answered, and where.
LEMMA SayingAt ==
  ASSUME NEW c, InCall(c)
  PROVE  /\ at[c] \in {"respond", "save"} => Saying(c)
         /\ Saying(c) => at[c] \in {"enqueue", "respond", "save"}
BY DEF InCall, OpsAt, Saying, Asked

LEMMA SayingAtThen ==
  ASSUME NEW c, InCall(c)'
  PROVE  /\ at'[c] \in {"respond", "save"} => Saying(c)'
         /\ Saying(c)' => at'[c] \in {"enqueue", "respond", "save"}
BY DEF InCall, OpsAt, Saying, Asked

\* A message that was answered holds the draft with what it adds.
LEMMA RespondMoves ==
  ASSUME Shape, NEW c \in Clients, Respond(c), Saying(c)'
  PROVE  LET draft == Replied(mem[c].draft, Head(todo[c]))
         IN  /\ mem'[c].draft = draft
             /\ at'[c] = "enqueue" \/ (at'[c] = "save" /\ mem'[c].conn = mem[c].conn)
<1> DEFINE draft == Replied(mem[c].draft, Head(todo[c]))
<1>1. Typed /\ mem[c] \in Mem /\ draft \in Draft /\ todo[c] # <<>> /\ at[c] = "respond"
  BY RespondIs DEF Shape, Respond
<1> HIDE DEF draft
<1>2. CASE Goto(c, "save", [mem[c] EXCEPT !.draft = draft])
  <2> DEFINE m == [mem[c] EXCEPT !.draft = draft]
  <2>1. m \in Mem /\ m.draft = draft /\ m.conn = mem[c].conn
    BY <1>1 DEF Mem
  <2> HIDE DEF m
  <2>2. at'[c] = "save" /\ mem'[c] = m
    BY <1>1, <1>2, <2>1, GotoIs DEF CallSteps, m
  <2>3. QED
    BY <2>1, <2>2 DEF draft
<1>3. CASE Return(c)
  <2>1. at'[c] = "idle"
    BY <1>1, <1>3, ReturnIs
  <2>2. QED
    BY <2>1 DEF Saying
<1>4. ASSUME NEW i \in Conns, NEW source \in Systems, NEW targets \in Seq(Systems), Inserted(c, i, source, targets, draft)
      PROVE  at'[c] = "enqueue" /\ mem'[c].draft = draft
  BY <1>4 DEF Inserted
<1>5. ~CreateConnection(c)
  BY <1>1 DEF CreateConnection, Starts
<1>6. \/ Return(c)
      \/ Goto(c, "save", [mem[c] EXCEPT !.draft = draft])
      \/ \E i \in Conns, source \in Systems, targets \in Seq(Systems) : Inserted(c, i, source, targets, draft)
  BY <1>5, InsertingIs, Zenon DEF draft, Inserting
<1>7. QED
  BY <1>2, <1>3, <1>4, <1>6 DEF draft

LEMMA EnqueueMoves ==
  ASSUME Shape, NEW c \in Clients, Enqueue(c), Saying(c)'
  PROVE  /\ Saying(c) /\ at'[c] = "save" /\ mem'[c].conn = mem[c].conn /\ mem[c].conn # Null
         /\ mem'[c].draft.systems = mem[c].draft.systems /\ mem'[c].draft.conn = mem[c].conn
<1>1. Typed /\ InCall(c) /\ mem[c] \in Mem /\ at[c] = "enqueue" /\ todo[c] # <<>>
  BY Under DEF Shape, Enqueue
<1>2. Asked(c, "say")
  <2>1. CASE Return(c)
    BY <1>1, <2>1, ReturnIs DEF Saying
  <2>2. QED
    BY <2>1 DEF Enqueue
<1>3. mem[c].draft \in Draft /\ mem[c].conn \in Conns
  BY <1>1, <1>2 DEF InCall, Asked, Mem
<1> DEFINE m == [mem[c] EXCEPT !.draft.conn = mem[c].conn]
<1>4. m \in Mem /\ m.conn = mem[c].conn /\ m.draft.systems = mem[c].draft.systems /\ m.draft.conn = mem[c].conn
  BY <1>1, <1>3 DEF Mem, Draft
<1>5. Goto(c, "save", m)
  BY <1>2 DEF Enqueue
<1> HIDE DEF m
<1>6. at'[c] = "save" /\ mem'[c] = m
  BY <1>1, <1>4, <1>5, GotoIs DEF CallSteps
<1>7. QED
  BY <1>1, <1>2, <1>3, <1>4, <1>6, PlatformAssumption DEF Saying

\* Unless messages overlap, only one message is being answered, with the draft it read.
LEMMA DraftNext ==
  ASSUME Shape, DraftInv, [Next]_vars
  PROVE  DraftInv'
<1> SUFFICES ASSUME ~mixed' PROVE OneMessage' /\ (\A c \in Clients : Drafting(c)') /\ DraftKept'
  BY DEF DraftInv
<1>1. Typed /\ Stay /\ (\A c \in Clients : InCall(c)) /\ \A c \in Clients : InCall(c)'
  BY StayNext, InCallNext DEF Shape
<1>2. ASSUME ~mixed, UNCHANGED <<chat, said>>,
             \A d \in Clients : (at'[d] = at[d] /\ mem'[d] = mem[d] /\ todo'[d] = todo[d]) \/ ~Saying(d)'
      PROVE  OneMessage' /\ (\A c \in Clients : Drafting(c)') /\ DraftKept'
  <2>1. \A d \in Clients : ~Saying(d)' \/ (Saying(d) /\ at'[d] = at[d] /\ mem'[d] = mem[d])
    BY <1>2 DEF Saying, Asked
  <2>2. \A d \in Clients : ~Saying(d)' => at'[d] \notin {"respond", "save"}
    BY <1>1, SayingAtThen
  <2>3. OneMessage'
    BY <1>2, <2>1 DEF DraftInv, OneMessage
  <2>4. \A d \in Clients : Drafting(d)'
    BY <1>2, <2>1, <2>2 DEF DraftInv, Drafting
  <2>5. DraftKept'
    BY <1>2 DEF DraftInv, DraftKept
  <2>6. QED
    BY <2>3, <2>4, <2>5
<1>3. ASSUME NEW c \in Clients, ApiStep(c) \/ Fail(c)
      PROVE  OneMessage' /\ (\A d \in Clients : Drafting(d)') /\ DraftKept'
  <2>1. \A d \in Clients \ {c} : at'[d] = at[d] /\ mem'[d] = mem[d] /\ todo'[d] = todo[d]
    BY <1>1, <1>3, InCallActor
  <2>2. \A d \in Clients \ {c} : Saying(d)' <=> Saying(d)
    BY <2>1 DEF Saying, Asked
  <2>3. CASE ReadDraft(c)
    <3>1. /\ ~mixed /\ (\A d \in Clients \ {c} : ~Saying(d)) /\ UNCHANGED <<chat, said>>
      BY <2>3 DEF ReadDraft, Saying
    <3> DEFINE m == [NoMem EXCEPT !.draft = chat]
    <3>2. m \in Mem /\ m.draft = chat /\ m.conn = Null
      BY <1>1, NoMemType, MemType DEF Typed, NoMem
    <3>3. Goto(c, "respond", m)
      BY <2>3 DEF ReadDraft
    <3> HIDE DEF m
    <3>4. at'[c] = "respond" /\ mem'[c] = m
      BY <1>1, <3>2, <3>3, GotoIs DEF CallSteps
    <3>5. \A d \in Clients \ {c} : at'[d] \notin {"respond", "save"}
      BY <1>1, <2>2, <3>1, SayingAtThen
    <3>6. OneMessage'
      BY <2>2, <3>1 DEF OneMessage
    <3>7. \A d \in Clients : Drafting(d)'
      BY <2>2, <3>1, <3>2, <3>4, <3>5 DEF Drafting
    <3>8. DraftKept'
      BY <3>1 DEF DraftInv, DraftKept
    <3>9. QED
      BY <3>6, <3>7, <3>8
  <2>4. CASE Respond(c) /\ Saying(c)'
    <3>1. ~mixed /\ UNCHANGED <<chat, said>>
      BY <2>4 DEF Respond, history
    <3>2. Saying(c) /\ at[c] = "respond"
      BY <1>1, <2>4, SayingAt DEF Respond
    <3>3. mem[c].draft = chat /\ mem[c].conn = Null
      BY <3>1, <3>2 DEF DraftInv, Drafting
    <3> DEFINE draft == Replied(mem[c].draft, Head(todo[c]))
    <3>4. /\ draft.conn = chat.conn /\ Range(chat.systems) \subseteq Range(draft.systems)
      BY <2>4, <3>3, RespondIs, RepliedIs
    <3>5. mem'[c].draft = draft /\ (at'[c] = "enqueue" \/ (at'[c] = "save" /\ mem'[c].conn = mem[c].conn))
      BY <2>4, RespondMoves
    <3> HIDE DEF draft
    <3>6. \A d \in Clients \ {c} : ~Saying(d)'
      BY <2>2, <3>1, <3>2 DEF DraftInv, OneMessage
    <3>7. OneMessage'
      BY <3>6 DEF OneMessage
    <3>8. \A d \in Clients \ {c} : Drafting(d)'
      BY <1>1, <3>6, SayingAtThen DEF Drafting
    <3>9. Drafting(c)'
      BY <3>1, <3>3, <3>4, <3>5 DEF Drafting
    <3>10. DraftKept'
      BY <3>1 DEF DraftInv, DraftKept
    <3>11. QED
      BY <3>7, <3>8, <3>9, <3>10
  <2>5. CASE Enqueue(c) /\ Saying(c)'
    <3>1. ~mixed /\ UNCHANGED <<chat, said>>
      BY <2>5 DEF Enqueue, history
    <3>2. /\ Saying(c) /\ at'[c] = "save" /\ mem'[c].conn = mem[c].conn /\ mem[c].conn # Null
          /\ mem'[c].draft.systems = mem[c].draft.systems /\ mem'[c].draft.conn = mem[c].conn
      BY <2>5, EnqueueMoves
    <3>3. at[c] = "enqueue"
      BY <2>5 DEF Enqueue
    <3>4. Range(chat.systems) \subseteq Range(mem[c].draft.systems)
      BY <3>1, <3>2, <3>3 DEF DraftInv, Drafting
    <3>5. \A d \in Clients \ {c} : ~Saying(d)'
      BY <2>2, <3>1, <3>2 DEF DraftInv, OneMessage
    <3>6. OneMessage'
      BY <3>5 DEF OneMessage
    <3>7. \A d \in Clients \ {c} : Drafting(d)'
      BY <1>1, <3>5, SayingAtThen DEF Drafting
    <3>8. Drafting(c)'
      BY <3>1, <3>2, <3>4 DEF Drafting
    <3>9. DraftKept'
      BY <3>1 DEF DraftInv, DraftKept
    <3>10. QED
      BY <3>6, <3>7, <3>8, <3>9
  <2>6. CASE SaveDraft(c)
    <3> DEFINE new == (Range(Head(todo[c]).attach) \cap Range(mem[c].draft.systems)) \cup ({mem[c].conn} \ {Null})
    <3>1. ~mixed /\ at[c] = "save" /\ chat' = mem[c].draft /\ said' = said \cup new /\ Return(c)
      BY <2>6 DEF SaveDraft
    <3>2. /\ Saying(c) /\ todo[c] # <<>> /\ Head(todo[c]) \in Calls /\ Head(todo[c]).op = "say" /\ mem[c] \in Mem
      BY <1>1, <3>1, SayingAt, Under
    <3>3. Range(Head(todo[c]).attach) \subseteq Systems /\ mem[c].conn \in Conns \cup {Null}
      <4>1. Head(todo[c]).attach \in Seq(Systems)
        BY <3>2, CallFields
      <4>2. QED
        BY <3>2, <4>1 DEF Range, Mem
    <3>4. /\ Range(chat.systems) \subseteq Range(mem[c].draft.systems)
          /\ mem[c].draft.conn = IF mem[c].conn = Null THEN chat.conn ELSE mem[c].conn
      BY <3>1, <3>2 DEF DraftInv, Drafting
    <3>5. said \cap Systems \subseteq Range(chat.systems) /\ (said \cap Conns # {} => chat.conn \in said)
      BY <3>1 DEF DraftInv, DraftKept
    <3>6. said' \cap Systems \subseteq Range(chat'.systems)
      <4>1. new \cap Systems \subseteq Range(mem[c].draft.systems)
        BY <3>3, PlatformAssumption
      <4> HIDE DEF new
      <4>2. QED
        BY <3>1, <3>4, <3>5, <4>1
    <3>7. said' \cap Conns # {} => chat'.conn \in said'
      <4>1. CASE mem[c].conn = Null
        <5>1. new \cap Conns = {}
          BY <3>3, <4>1, PlatformAssumption
        <5> HIDE DEF new
        <5>2. QED
          BY <3>1, <3>4, <3>5, <4>1, <5>1
      <4>2. CASE mem[c].conn # Null
        BY <3>1, <3>4, <4>2
      <4>3. QED
        BY <4>1, <4>2
    <3>8. at'[c] = "idle"
      BY <1>1, <3>1, <3>2, ReturnIs
    <3>9. \A d \in Clients : ~Saying(d)'
      BY <2>2, <3>1, <3>2, <3>8 DEF DraftInv, OneMessage, Saying
    <3>10. OneMessage'
      BY <3>9 DEF OneMessage
    <3>11. \A d \in Clients : Drafting(d)'
      BY <1>1, <3>9, SayingAtThen DEF Drafting
    <3>12. QED
      BY <3>6, <3>7, <3>10, <3>11 DEF DraftKept
  <2>7. CASE ~ReadDraft(c) /\ ~SaveDraft(c) /\ ~Saying(c)'
    BY <1>2, <1>3, <2>1, <2>7, OtherChatSteps
  <2>8. Saying(c)' => ReadDraft(c) \/ Respond(c) \/ Enqueue(c)
    <3>1. CreateConnection(c) /\ at'[c] = "enqueue" => ~Saying(c)'
      <4>1. ASSUME CreateConnection(c), at'[c] = "enqueue" PROVE ~Saying(c)'
        <5>1. Head(todo[c]).op = "connect" /\ todo[c] # <<>>
          BY <1>1, <4>1, Started DEF CreateConnection
        <5>2. todo'[c] = todo[c]
          <6>1. ~Return(c)
            BY <1>1, <4>1, <5>1, ReturnIs
          <6>2. ~Respond(c)
            BY <4>1 DEF CreateConnection, Respond, Starts
          <6>3. QED
            BY <4>1, <6>1, <6>2, InsertingIs DEF Inserting, Inserted
        <5>3. QED
          BY <5>1, <5>2 DEF Saying, Asked
      <4>2. QED
        BY <4>1
    <3>2. QED
      BY <1>1, <1>3, <3>1, SayingAtThen, WayTo DEF Inserting
  <2>9. QED
    BY <2>3, <2>4, <2>5, <2>6, <2>7, <2>8
<1>4. ASSUME NEW r \in Range(Replica), Restart(r)
      PROVE  OneMessage' /\ (\A d \in Clients : Drafting(d)') /\ DraftKept'
  <2>1. \A d \in Clients : at'[d] = "idle" \/ (at'[d] = at[d] /\ mem'[d] = mem[d] /\ todo'[d] = todo[d])
    BY <1>1, <1>4, InCallRestart
  <2>2. \A d \in Clients : at'[d] = "idle" => ~Saying(d)'
    BY DEF Saying
  <2>3. UNCHANGED <<chat, said, mixed>>
    BY <1>4 DEF Restart
  <2>4. QED
    BY <1>2, <2>1, <2>2, <2>3
<1>5. ASSUME NEW w \in Workers, HandlerStep(w)
      PROVE  OneMessage' /\ (\A d \in Clients : Drafting(d)') /\ DraftKept'
  BY <1>2, <1>5, OtherHandlerSteps
<1>6. CASE UNCHANGED vars
  BY <1>2, <1>6 DEF vars, clientVars, history
<1>7. QED
  BY <1>3, <1>4, <1>5, <1>6 DEF Next, HandlerStep

-----------------------------------------------------------------------------
(* The invariant *)
PlatformInv == Shape /\ CredentialInv /\ StatusInv /\ DraftInv

LEMMA StatusInit == Init => StatusInv
<1> SUFFICES ASSUME Init PROVE StatusInv
  OBVIOUS
<1>1. \A c \in Clients : at[c] = "idle"
  BY DEF Init
<1>2. \A i \in Conns : conn[i] = Null
  BY DEF Init
<1>3. \A w \in Workers : doing[w].step = "idle"
  BY DEF Init, Idle
<1>4. Named
  BY <1>1, <1>2 DEF Named, Unborn, Found, Linked
<1>5. Alone /\ Inspected
  BY <1>3 DEF Alone, Inspected, Reading
<1>6. OwnContract /\ StatusHonest
  BY <1>2 DEF OwnContract, StatusHonest
<1>7. QED
  BY <1>4, <1>5, <1>6 DEF StatusInv

LEMMA DraftInit == Init => DraftInv
<1> SUFFICES ASSUME Init PROVE DraftInv
  OBVIOUS
<1>1. \A c \in Clients : at[c] = "idle"
  BY DEF Init
<1>2. OneMessage /\ \A c \in Clients : Drafting(c)
  BY <1>1 DEF OneMessage, Drafting, Saying
<1>3. DraftKept
  BY DEF Init, DraftKept
<1>4. QED
  BY <1>2, <1>3 DEF DraftInv

LEMMA PlatformNext == PlatformInv /\ [Next]_vars => PlatformInv'
<1> SUFFICES ASSUME PlatformInv, [Next]_vars PROVE PlatformInv'
  OBVIOUS
<1>1. Shape /\ Sealed /\ Latest /\ StatusInv /\ DraftInv
  BY DEF PlatformInv, CredentialInv
<1>2. Shape'
  BY <1>1, ShapeNext
<1>3. CredentialInv'
  BY <1>1, SealedNext, LatestNext DEF CredentialInv
<1>4. Named'
  BY <1>1, UnbornNext, FoundNext, LinkedNext DEF StatusInv, Named
<1>5. Alone' /\ Inspected' /\ OwnContract' /\ StatusHonest'
  BY <1>1, AloneNext, InspectedNext, OwnContractNext, StatusHonestNext DEF StatusInv
<1>6. DraftInv'
  BY <1>1, DraftNext
<1>7. QED
  BY <1>2, <1>3, <1>4, <1>5, <1>6 DEF PlatformInv, StatusInv

\* Every call is at a step of its own request and holds what that step needs, every
\* handler runs a job that names a connection, and what a call or a handler has read is
\* stale only in the ways the parts of PlatformInv allow - through failed statements,
\* replaced processes, crashed workers and jobs granted again (service.py, security.py,
\* chat.py, worker.py).
THEOREM PlatformInvariant == Spec => []PlatformInv
<1>1. Init => PlatformInv
  BY ShapeInit, CredentialInit, StatusInit, DraftInit DEF PlatformInv
<1>2. QED
  BY <1>1, PlatformNext, PTL DEF Spec

\* The reference of a system leads to an envelope of that system's, sealed with a key of
\* the keyring, that holds the value put last unless the put raced a rotation
\* (set_credentials, rotate_tenant, put), wherever a call or a process stopped.
THEOREM CredentialsAlwaysIntact == Spec => []CredentialsIntact
<1>1. PlatformInv => CredentialsIntact
  BY CredentialIntact DEF PlatformInv
<1>2. QED
  BY <1>1, PlatformInvariant, PTL

\* A connection whose handlers did not overlap has the status that its contract, its
\* systems' profiles and their credentials call for (_compose_connection,
\* _health_connection), though both wrote it from a row read in an earlier transaction.
THEOREM StatusAlwaysHonest == Spec => []StatusHonest
<1>1. PlatformInv => StatusHonest
  BY DEF PlatformInv, StatusInv
<1>2. QED
  BY <1>1, PlatformInvariant, PTL

\* A session whose messages did not overlap keeps every system that a saved message
\* attached, and names a connection it built once it has built one (chat.py, post_message).
THEOREM DraftAlwaysKept == Spec => []DraftKept
<1>1. PlatformInv => DraftKept
  BY DEF PlatformInv, DraftInv, DraftKept
<1>2. QED
  BY <1>1, PlatformInvariant, PTL

\* No step of a call, of a handler or of a replaced process deletes an envelope, a
\* connection or a system, changes a connection's source or targets, or takes from a
\* system the credentials it has: what was read of these in an earlier transaction
\* is still so when it is used.
THEOREM NothingTakenBack == Spec => [][Stay /\ References]_vars
<1>1. PlatformInv /\ [Next]_vars => Stay /\ References
  BY StayNext, ReferencesKept DEF PlatformInv, StatusInv, CredentialInv, Shape
<1>2. QED
  BY <1>1, PlatformInvariant, PTL DEF Spec
-----------------------------------------------------------------------------
(* INHERITANCE.  The matcher, of Composition and of Inheritance *)

\* The matcher's own edge has no pattern, and is to be reviewed just when it raises a question,
\* as it does when it is ambiguous; a required field has an edge or a question.
LEMMA MatchIs ==
  ASSUME NEW so, NEW to, NEW t
  PROVE  LET m == Match(so, to, t) IN
         /\ \A e \in m.edges : /\ e.target = t.name /\ e.patterns = {} /\ m.asks = e.review
                               /\ e.relation = "ambiguous" => m.asks
         /\ m.edges = {} => m.asks = t.required
<1> DEFINE score == [i \in DOMAIN so.fields |-> Score(so, so.fields[i], to, t)]
           best == Best(score, DOMAIN score)
           m == Match(so, to, t)
<1> HIDE DEF score, best, m
<1>1. CASE m = NoEdge(t)
  BY <1>1 DEF NoEdge, m
<1>2. CASE m = Edge(so.fields[best], t, score[best], Close(score, best), Review(score, best))
  <2> DEFINE close == Close(score, best)
             e == [source |-> so.fields[best].name, target |-> t.name, score |-> score[best],
                   relation |-> IF close THEN "ambiguous" ELSE IF score[best] >= 9000 THEN "exact" ELSE "likely",
                   transforms |-> SuggestTransforms(so.fields[best], t), review |-> Review(score, best),
                   patterns |-> {}]
  <2>1. m = [edges |-> {e}, asks |-> Review(score, best)]
    BY <1>2 DEF Edge
  <2>2. /\ e.target = t.name /\ e.patterns = {} /\ e.review = Review(score, best)
        /\ e.relation = "ambiguous" => close
    OBVIOUS
  <2>3. close => Review(score, best)
    BY DEF Review
  <2> HIDE DEF e, close
  <2>4. m.edges = {e} /\ m.asks = Review(score, best)
    BY <2>1
  <2>5. QED
    BY <2>2, <2>3, <2>4 DEF m
<1>3. m = NoEdge(t) \/ m = Judged(so, t, score, best)
  BY DEF Match, Ranked, score, best, m
<1>4. QED
  BY <1>1, <1>2, <1>3 DEF Judged

LEMMA BaselineIs ==
  ASSUME NEW so, NEW to
  PROVE  LET base == BuildGraph(so, to) IN
         /\ base.edges = UNION {Match(so, to, t).edges : t \in Range(to.fields)}
         /\ base.questions =
              {[target |-> t.name, required |-> t.required] : t \in {u \in Range(to.fields) : Match(so, to, u).asks}}
<1> DEFINE found == [t \in Range(to.fields) |-> Match(so, to, t)]
<1>1. {u \in DOMAIN found : found[u].asks} = {u \in Range(to.fields) : Match(so, to, u).asks}
  OBVIOUS
<1>2. UNION {m.edges : m \in Range(found)} = UNION {Match(so, to, t).edges : t \in Range(to.fields)}
  BY DEF Range
<1> HIDE DEF found
<1>3. BuildGraph(so, to) = Graph(found)
  BY DEF BuildGraph, found
<1>4. /\ Graph(found).edges = UNION {m.edges : m \in Range(found)}
      /\ Graph(found).questions =
           {[target |-> t.name, required |-> t.required] : t \in {u \in DOMAIN found : found[u].asks}}
  BY DEF Graph
<1>5. QED
  BY <1>1, <1>2, <1>3, <1>4

LEMMA OneOfAName ==
  ASSUME NEW fields, UniqueFields(fields), NEW t \in Range(fields), NEW u \in Range(fields), t.name = u.name
  PROVE  t = u
BY DEF UniqueFields, Range

\* The baseline's edges to a field are the matcher's for it.
LEMMA BaselineEdgesTo ==
  ASSUME NEW so, NEW to, UniqueFields(to.fields), NEW t \in Range(to.fields)
  PROVE  EdgesTo(BuildGraph(so, to), t) = Match(so, to, t).edges
<1>1. ASSUME NEW e \in BuildGraph(so, to).edges, e.target = t.name PROVE e \in Match(so, to, t).edges
  <2>1. PICK u \in Range(to.fields) : e \in Match(so, to, u).edges
    BY BaselineIs
  <2>2. u.name = t.name
    BY <1>1, <2>1, MatchIs
  <2>3. QED
    BY <2>1, <2>2, OneOfAName
<1>2. \A e \in Match(so, to, t).edges : e \in BuildGraph(so, to).edges /\ e.target = t.name
  BY BaselineIs, MatchIs
<1>3. QED
  BY <1>1, <1>2 DEF EdgesTo

\* An edge that a single one of the patterns vouches for.
Vouching(reg, patterns, e) ==
  \E p \in patterns : e.patterns = {p} /\ (~e.review => ~(Cardinality(OriginsOf(reg[p])) < AcceptOrigins))

LEMMA InheritedIs ==
  ASSUME NEW reg, NEW patterns, NEW so, NEW to, NEW t, NEW old
  PROVE  LET new == Inherited(reg, patterns, so, to, t, old) IN
         \/ new = old
         \/ \E e : /\ new = {e} /\ e.target = t.name /\ e.relation # "ambiguous"
                  /\ Vouching(reg, patterns, e)
<1> DEFINE best == Strongest(Evidence(reg, patterns, so, to, t))
           v == CHOOSE w \in best : TRUE
           e == InheritedEdge(reg, v, t, Boosted(v, old))
<1>1. CASE best = {} \/ ~Improves(v, old)
  BY <1>1 DEF Inherited, Advised, Raised
<1>2. CASE best # {} /\ Improves(v, old)
  <2>1. v \in Evidence(reg, patterns, so, to, t)
    BY <1>2 DEF Strongest
  <2>2. Inherited(reg, patterns, so, to, t, old) = {e}
    BY <1>2 DEF Inherited, Advised, Raised
  <2> HIDE DEF best, v
  <2>3. v.pattern \in patterns
    BY <2>1 DEF Evidence, Says
  <2>4. /\ e.target = t.name /\ e.patterns = {v.pattern} /\ e.relation # "ambiguous"
        /\ e.review = (Boosted(v, old) < ReviewBelow \/ Cardinality(OriginsOf(reg[v.pattern])) < AcceptOrigins)
    BY DEF InheritedEdge
  <2> HIDE DEF e
  <2>5. Vouching(reg, patterns, e)
    BY <2>3, <2>4 DEF Vouching
  <2>6. QED
    BY <2>2, <2>4, <2>5
<1>3. QED
  BY <1>1, <1>2

\* What a graph of the inheriting matcher has, and what it keeps of the baseline's questions.
LEMMA GraphIs ==
  ASSUME NEW reg, NEW patterns, NEW so, NEW to, UniqueFields(to.fields)
  PROVE  LET graph == InheritedGraph(reg, patterns, so, to)
             asked == BuildGraph(so, to).questions IN
         /\ \A e \in graph.edges : e.patterns = {} \/ Vouching(reg, patterns, e)
         /\ \A e \in graph.edges : e.relation = "ambiguous" => e.review
         /\ \A q \in asked \ graph.questions : \E e \in graph.edges : e.target = q.target /\ ~e.review /\ e.patterns # {}
         /\ graph.questions = {} => \A e \in graph.edges : e.review => e.patterns # {}
         /\ \A t \in Range(to.fields) :
              ~Match(so, to, t).asks /\ t.required => \E e \in graph.edges : e.target = t.name
<1> DEFINE base == BuildGraph(so, to)
           edges(t) == IF patterns = {} THEN Match(so, to, t).edges
                       ELSE Inherited(reg, patterns, so, to, t, Match(so, to, t).edges)
           graph == InheritedGraph(reg, patterns, so, to)
<1>0. \A e : Vouching(reg, patterns, e) => e.patterns # {}
  BY DEF Vouching
\* The edges to each field, and what became of the questions.
<1>1. graph.edges = UNION {edges(t) : t \in Range(to.fields)}
  <2>1. CASE patterns = {}
    BY <2>1, BaselineIs DEF InheritedGraph
  <2>2. CASE patterns # {}
    <3>1. graph.edges = UNION {Inherited(reg, patterns, so, to, t, EdgesTo(base, t)) : t \in Range(to.fields)}
      BY <2>2 DEF InheritedGraph, Raise, Answered
    <3>2. QED
      BY <2>2, <3>1, BaselineEdgesTo
  <2>3. QED
    BY <2>1, <2>2
<1>2. \A q \in base.questions \ graph.questions : \E e \in graph.edges : e.target = q.target /\ Accepted(e)
  <2>1. CASE patterns = {}
    BY <2>1 DEF InheritedGraph
  <2>2. CASE patterns # {}
    BY <2>2 DEF InheritedGraph, Raise, Answered, Unanswered
  <2>3. QED
    BY <2>1, <2>2
<1>3. ASSUME NEW t \in Range(to.fields)
      PROVE  \/ edges(t) = Match(so, to, t).edges
             \/ \E e : edges(t) = {e} /\ e.target = t.name /\ e.relation # "ambiguous" /\ Vouching(reg, patterns, e)
  BY InheritedIs
<1> HIDE DEF edges, base, graph
<1>4. ASSUME NEW t \in Range(to.fields), NEW e \in edges(t)
      PROVE  /\ e.target = t.name
             /\ e.relation = "ambiguous" => e.review
             /\ Vouching(reg, patterns, e) \/ (e.patterns = {} /\ e.review = Match(so, to, t).asks)
  BY <1>3, <1>4, MatchIs
<1>5. \A e \in graph.edges : \E t \in Range(to.fields) : e \in edges(t)
  BY <1>1
<1>6. ASSUME NEW q \in base.questions, q \notin graph.questions
      PROVE  \E e \in graph.edges : e.target = q.target /\ ~e.review /\ e.patterns # {}
  <2>1. PICK e \in graph.edges : e.target = q.target /\ Accepted(e)
    BY <1>2, <1>6
  <2>2. PICK t \in Range(to.fields) : e \in edges(t)
    BY <1>5
  <2>3. PICK u \in Range(to.fields) : q.target = u.name /\ Match(so, to, u).asks
    BY <1>6, BaselineIs DEF base
  <2>4. u = t
    BY <1>4, <2>1, <2>2, <2>3, OneOfAName
  <2>5. ~e.review
    BY <2>1 DEF Accepted
  <2>6. QED
    BY <1>0, <1>4, <2>1, <2>2, <2>3, <2>4, <2>5
<1>7. ASSUME graph.questions = {}, NEW e \in graph.edges, e.review, e.patterns = {} PROVE FALSE
  <2>1. PICK t \in Range(to.fields) : e \in edges(t)
    BY <1>5
  <2>2. Match(so, to, t).asks
    BY <1>0, <1>4, <1>7, <2>1
  <2>3. [target |-> t.name, required |-> t.required] \in base.questions
    BY <2>2, BaselineIs DEF base
  <2>4. PICK f \in graph.edges : f.target = t.name /\ Accepted(f)
    BY <1>2, <1>7, <2>3
  <2>5. PICK u \in Range(to.fields) : f \in edges(u)
    BY <1>5
  <2>6. u = t
    BY <1>4, <2>4, <2>5, OneOfAName
  <2>7. edges(t) = Match(so, to, t).edges
    BY <1>0, <1>3, <1>7, <2>1
  <2>8. f.review
    BY <2>2, <2>5, <2>6, <2>7, MatchIs
  <2>9. QED
    BY <2>4, <2>8 DEF Accepted
<1>8. ASSUME NEW t \in Range(to.fields), ~Match(so, to, t).asks, t.required
      PROVE  \E e \in graph.edges : e.target = t.name
  <2>1. Match(so, to, t).edges # {}
    BY <1>8, MatchIs
  <2>2. PICK e : e \in edges(t)
    BY <1>3, <2>1
  <2>3. QED
    BY <1>1, <1>4, <2>2
<1>9. QED
  BY <1>4, <1>5, <1>6, <1>7, <1>8 DEF base, graph

LEMMA SurfaceIs ==
  ASSUME NEW so, NEW intents, NEW i \in DOMAIN intents, WellFormed(intents[i].profile), Places(so, intents)[i] # Null
  PROVE  UniqueFields(Places(so, intents)[i].surface.fields)
<1> DEFINE p == intents[i].profile
           to == ResolveTargetObject(so, p, intents[i].object)
           op == ResolveOperation(p, to.id, intents[i].operation)
           clear == Distinct([k \in DOMAIN p.objects |-> Suits(so, p.objects[k])])
<1>1. Places(so, intents)[i] = Located(intents[i], to)
  BY DEF Places
<1>2. to # Null /\ Places(so, intents)[i] = Place(op, to)
  BY <1>1 DEF Located
<1>3. op # Null /\ Places(so, intents)[i].surface = MappingObject(to, op)
  BY <1>2 DEF Place
<1>4. to \in Range(p.objects)
  <2>1. CASE intents[i].object = Null
    <3>1. clear # {} /\ to = p.objects[CHOOSE k \in clear : TRUE]
      BY <1>2, <2>1 DEF ResolveTargetObject, Suited
    <3>2. clear \subseteq DOMAIN p.objects
      BY DEF Distinct
    <3> HIDE DEF clear, p
    <3>3. (CHOOSE k \in clear : TRUE) \in DOMAIN p.objects
      BY <3>1, <3>2
    <3>4. QED
      BY <3>1, <3>3 DEF Range
  <2>2. CASE intents[i].object # Null
    BY <1>2, <2>2 DEF ResolveTargetObject, HasObject, ObjectOf
  <2>3. QED
    BY <2>1, <2>2
<1>5. op \in Range(p.operations)
  <2>1. CASE intents[i].operation = Null
    <3> DEFINE offered == {o \in Range(p.operations) : o.object \in {Null, to.id} /\ o.kind \in Range(Preference)}
               first == {o \in offered : \A other \in offered : Rank(o) <= Rank(other)}
    <3>1. op = OnlyOf(first)
      BY <2>1 DEF ResolveOperation, Preferred
    <3>2. first \subseteq Range(p.operations)
      OBVIOUS
    <3> HIDE DEF first, op
    <3>3. op = (CHOOSE x \in first : TRUE) /\ Cardinality(first) = 1
      BY <1>3, <3>1 DEF OnlyOf
    <3>4. first # {}
      BY <3>3, FS_EmptySet
    <3>5. QED
      BY <3>2, <3>3, <3>4
  <2>2. CASE intents[i].operation # Null
    BY <1>3, <2>2 DEF ResolveOperation, HasOperation, OperationOf
  <2>3. QED
    BY <2>1, <2>2
<1> HIDE DEF p, to, op
<1>6. UniqueFields(to.fields) /\ UniqueFields(op.schema)
  BY <1>4, <1>5 DEF WellFormed, p
<1>7. QED
  BY <1>3, <1>6 DEF MappingObject

\* A composition has a graph of the inheriting matcher for each of its targets.
LEMMA ResultIs ==
  ASSUME NEW reg, NEW patterns, NEW so, NEW intents,
         \A i \in DOMAIN intents : WellFormed(intents[i].profile),
         InheritedResult(reg, patterns, so, intents) # Null
  PROVE  LET r == InheritedResult(reg, patterns, so, intents) IN
         /\ r.ready = Ready(r.targets) /\ r.questions = Questions(r.targets)
         /\ \A target \in Range(r.targets) :
              /\ UniqueFields(target.surface.fields)
              /\ target.graph = InheritedGraph(reg, patterns, so, target.surface)
              /\ target.mappings = Mappings(target.graph)
              /\ \A m \in target.mappings : m.source \in Paths(so.fields)
<1> DEFINE r == InheritedResult(reg, patterns, so, intents)
           places == Places(so, intents)
           graphs == [i \in DOMAIN places |-> InheritedGraph(reg, patterns, so, places[i].surface)]
           targets == [i \in DOMAIN places |-> ComposeTarget(so, places[i], graphs[i])]
<1>1. r = ComposeOver(so, places, graphs)
  BY DEF InheritedResult, InheritedOver
<1>2. Null \notin Range(places) /\ r = Result(targets)
  BY <1>1 DEF ComposeOver
<1>3. /\ Null \notin Range(targets)
      /\ r = [targets |-> targets, questions |-> Questions(targets), verification |-> VerificationBundle(targets),
              ready |-> Ready(targets)]
  BY <1>2 DEF Result
<1>4. r.targets = targets /\ r.questions = Questions(targets) /\ r.ready = Ready(targets)
  BY <1>3
<1>5. ASSUME NEW i \in DOMAIN places
      PROVE  /\ UniqueFields(targets[i].surface.fields)
             /\ targets[i].graph = InheritedGraph(reg, patterns, so, targets[i].surface)
             /\ targets[i].mappings = Mappings(targets[i].graph)
             /\ \A m \in targets[i].mappings : m.source \in Paths(so.fields)
  <2>1. DOMAIN places = DOMAIN intents
    BY DEF Places
  <2>2. places[i] # Null
    BY <1>2 DEF Range
  <2>3. UniqueFields(places[i].surface.fields)
    BY <2>1, <2>2, SurfaceIs
  <2>4. targets[i] # Null /\ targets[i] = ComposeTarget(so, places[i], graphs[i])
    BY <1>3 DEF Range
  <2>5. /\ targets[i].graph = graphs[i] /\ targets[i].surface = places[i].surface
        /\ targets[i].mappings = Mappings(graphs[i])
        /\ Errors(so, places[i].operation, Mappings(graphs[i])) = {}
    <3> HIDE DEF targets, graphs, places
    <3>1. QED
      BY <2>4 DEF ComposeTarget, Checked
  <2>6. \A m \in Mappings(graphs[i]) : m.source \in Paths(so.fields)
    BY <2>5 DEF Errors
  <2>7. graphs[i] = InheritedGraph(reg, patterns, so, places[i].surface)
    OBVIOUS
  <2> HIDE DEF targets, graphs, places
  <2>8. QED
    BY <2>3, <2>5, <2>6, <2>7
<1>6. ASSUME NEW target \in Range(targets)
      PROVE  /\ UniqueFields(target.surface.fields)
             /\ target.graph = InheritedGraph(reg, patterns, so, target.surface)
             /\ target.mappings = Mappings(target.graph)
             /\ \A m \in target.mappings : m.source \in Paths(so.fields)
  <2>1. PICK i \in DOMAIN places : target = targets[i]
    BY <1>6 DEF Range
  <2> HIDE DEF targets, places
  <2>2. QED
    BY <1>5, <2>1
<1>7. QED
  BY <1>4, <1>6

\* A ready composition maps every required field, from a field of the source.
LEMMA ReadyIsCovered ==
  ASSUME NEW reg, NEW patterns, NEW so, NEW intents,
         \A i \in DOMAIN intents : WellFormed(intents[i].profile),
         InheritedResult(reg, patterns, so, intents) # Null,
         InheritedResult(reg, patterns, so, intents).ready,
         NEW target \in Range(InheritedResult(reg, patterns, so, intents).targets)
  PROVE  Covered(target) /\ \A m \in target.mappings : m.source \in Paths(so.fields)
<1> DEFINE graph == InheritedGraph(reg, patterns, so, target.surface)
           base == BuildGraph(so, target.surface)
<1>1. /\ UniqueFields(target.surface.fields) /\ target.graph = graph /\ target.mappings = Mappings(graph)
      /\ \A m \in target.mappings : m.source \in Paths(so.fields)
  BY ResultIs
<1>2. (\A q \in graph.questions : ~q.required) /\ (\A e \in graph.edges : ~e.review)
  BY <1>1, ResultIs DEF Ready
<1>3. /\ \A e \in graph.edges : e.relation # "ambiguous"
      /\ \A q \in base.questions \ graph.questions : \E e \in graph.edges : e.target = q.target
      /\ \A t \in Range(target.surface.fields) :
           ~Match(so, target.surface, t).asks /\ t.required => \E e \in graph.edges : e.target = t.name
  BY <1>1, <1>2, GraphIs
<1> HIDE DEF graph, base
<1>4. ASSUME NEW t \in Range(target.surface.fields), t.required
      PROVE  \E e \in graph.edges : e.target = t.name
  <2>1. CASE Match(so, target.surface, t).asks
    <3> DEFINE q == [target |-> t.name, required |-> t.required]
    <3>1. q \in base.questions
      BY <2>1, BaselineIs DEF base
    <3>2. q.required /\ q.target = t.name
      BY <1>4
    <3> HIDE DEF q
    <3>3. QED
      BY <1>2, <1>3, <3>1, <3>2
  <2>2. CASE ~Match(so, target.surface, t).asks
    BY <1>3, <1>4, <2>2
  <2>3. QED
    BY <2>1, <2>2
<1>5. ASSUME NEW e \in graph.edges
      PROVE  \E m \in Mappings(graph) : m.target = e.target
  <2>1. [source |-> e.source, target |-> e.target] \in Mappings(graph)
    BY <1>3 DEF Mappings
  <2>2. QED
    BY <2>1
<1>6. Covered(target)
  BY <1>1, <1>4, <1>5 DEF Covered, RequiredPaths
<1>7. QED
  BY <1>1, <1>6
-----------------------------------------------------------------------------
(* The invariant *)
Consensus(p) == Cardinality(Vouch(p, {Shared})) >= MinimumOrigins
Backed(p) == Cardinality(Vouch(p, Scopes)) >= AcceptOrigins

\* What a registry, a pack or a call says of a pattern's origins was exported.
Vouched(p, entry) == \A o \in OriginsOf(entry) :
  o \in Origins /\ entry.provenance[o] \in Scopes /\ <<p, o, entry.provenance[o]>> \in exported

Tables ==
  /\ registry = [h \in Foundries |-> registry[h]]
  /\ compositions = [h \in Foundries |-> compositions[h]]
  /\ busy = [t \in Threads |-> Call(busy[t].step, busy[t].patterns, busy[t].adds)]

Provenance ==
  /\ \A h \in Foundries : \A p \in DOMAIN registry[h] : Vouched(p, registry[h][p])
  /\ \A pack \in packs : \A a \in pack : Vouched(a.pattern, a.entry)
  /\ \A t \in Threads : \A a \in busy[t].adds : Vouched(a.pattern, a.entry)

\* The patterns a composition chose are still registered when it uses them.
Chosen == \A t \in Threads : \A p \in busy[t].patterns : p \in DOMAIN registry[Foundry[t]] /\ Consensus(p)

\* A composition's inherited edges are what the origins exported, and its questions kept.
SoundEdge(e) == \A p \in e.patterns : Consensus(p) /\ (~e.review => Backed(p))
KeptFor(so, r) ==
  /\ \A target \in Range(r.targets) :
       \A q \in BuildGraph(so, target.surface).questions \ target.graph.questions :
         \E e \in target.graph.edges : \E p \in e.patterns : e.target = q.target /\ ~e.review /\ Backed(p)
  /\ ~r.ready /\ r.questions = {} =>
       \E target \in Range(r.targets) : \E e \in target.graph.edges : e.review /\ e.patterns # {}
  /\ r.ready => \A target \in Range(r.targets) : Covered(target)
SoundFor(so, r) ==
  KeptFor(so, r) /\ \A target \in Range(r.targets) : \A e \in target.graph.edges : SoundEdge(e)
SourceObject(h) == ResolveSourceObject(Source[h], Null)
Results == \A h \in Foundries : \A r \in compositions[h] : SoundFor(SourceObject(h), r)

InheritanceInv == Tables /\ Provenance /\ Chosen /\ Results

LEMMA ResultsSay == Results <=> ConsensusBeforeAcceptance /\ ReviewKept
<1>1. ReviewKept <=> \A h \in Foundries : \A r \in compositions[h] : KeptFor(SourceObject(h), r)
  BY DEF ReviewKept, KeptFor, SourceObject, Backed
<1>2. ConsensusBeforeAcceptance <=>
        \A h \in Foundries : \A r \in compositions[h] :
          \A target \in Range(r.targets) : \A e \in target.graph.edges : SoundEdge(e)
  <2>1. ConsensusBeforeAcceptance <=> \A h \in Foundries : \A e \in Edges(h) : SoundEdge(e)
    BY DEF ConsensusBeforeAcceptance, SoundEdge, Consensus, Backed
  <2>2. \A h \in Foundries : \A e :
          e \in Edges(h) <=> \E r \in compositions[h] : \E target \in Range(r.targets) : e \in target.graph.edges
    BY DEF Edges
  <2>3. QED
    BY <2>1, <2>2
<1>3. QED
  BY <1>1, <1>2 DEF Results, SoundFor

LEMMA VouchFinite ==
  ASSUME NEW p, NEW scopes
  PROVE  IsFiniteSet(Vouch(p, scopes)) /\ Cardinality(Vouch(p, scopes)) \in Nat
BY InheritanceAssumption, FS_Subset, FS_CardinalityType DEF Vouch

\* An origin that vouches is counted: the origins of an entry are among those that exported.
LEMMA OriginsVouch ==
  ASSUME NEW p, NEW entry, Vouched(p, entry)
  PROVE  /\ Cardinality(SharedBy(entry)) >= MinimumOrigins => Consensus(p)
         /\ ~(Cardinality(OriginsOf(entry)) < AcceptOrigins) => Backed(p)
<1>1. SharedBy(entry) \subseteq Vouch(p, {Shared})
  BY DEF SharedBy, Vouch, Vouched
<1>2. OriginsOf(entry) \subseteq Vouch(p, Scopes)
  BY DEF Vouch, Vouched
<1>3. /\ Cardinality(SharedBy(entry)) \in Nat
      /\ Cardinality(SharedBy(entry)) <= Cardinality(Vouch(p, {Shared}))
  BY <1>1, VouchFinite, FS_Subset, FS_CardinalityType
<1>4. /\ Cardinality(OriginsOf(entry)) \in Nat
      /\ Cardinality(OriginsOf(entry)) <= Cardinality(Vouch(p, Scopes))
  BY <1>2, VouchFinite, FS_Subset, FS_CardinalityType
<1>5. QED
  BY <1>3, <1>4, VouchFinite DEF Consensus, Backed, MinimumOrigins, AcceptOrigins

\* More exports take no vote away.
LEMMA Monotone ==
  ASSUME exported \subseteq exported'
  PROVE  /\ \A p : (Consensus(p) => Consensus(p)') /\ (Backed(p) => Backed(p)')
         /\ \A p, entry : Vouched(p, entry) => Vouched(p, entry)'
         /\ \A so, r : SoundFor(so, r) => SoundFor(so, r)'
<1>1. ASSUME NEW p, NEW scopes
      PROVE  /\ Cardinality(Vouch(p, scopes)) \in Nat /\ Cardinality(Vouch(p, scopes))' \in Nat
             /\ Cardinality(Vouch(p, scopes)) <= Cardinality(Vouch(p, scopes))'
  <2>1. Vouch(p, scopes) \subseteq Vouch(p, scopes)' /\ Vouch(p, scopes)' \subseteq Origins
    BY DEF Vouch
  <2>2. IsFiniteSet(Vouch(p, scopes)')
    BY <2>1, InheritanceAssumption, FS_Subset
  <2>3. QED
    BY <2>1, <2>2, VouchFinite, FS_Subset, FS_CardinalityType
<1>2. \A p : (Consensus(p) => Consensus(p)') /\ (Backed(p) => Backed(p)')
  BY <1>1 DEF Consensus, Backed, MinimumOrigins, AcceptOrigins
<1>3. \A p, entry : Vouched(p, entry) => Vouched(p, entry)'
  BY DEF Vouched
<1>4. \A e : SoundEdge(e) => SoundEdge(e)'
  BY <1>2 DEF SoundEdge
<1>5. \A so, r : KeptFor(so, r) => KeptFor(so, r)'
  BY <1>2 DEF KeptFor
<1>6. QED
  BY <1>2, <1>3, <1>4, <1>5 DEF SoundFor

-----------------------------------------------------------------------------
(* The steps *)
LEMMA InheritanceBegins == InheritanceInit => InheritanceInv
<1> SUFFICES ASSUME InheritanceInit PROVE InheritanceInv
  OBVIOUS
<1>1. \A t \in Threads : busy[t] = NoCall
  BY DEF InheritanceInit
<1>2. Tables
  BY DEF InheritanceInit, Tables, NoCall, Call
<1>3. Provenance
  BY <1>1 DEF InheritanceInit, Provenance, NoCall, Call, None
<1>4. Chosen /\ Results
  BY <1>1 DEF InheritanceInit, Chosen, Results, NoCall, Call
<1>5. QED
  BY <1>2, <1>3, <1>4 DEF InheritanceInv

LEMMA ProceedIs ==
  ASSUME Tables, NEW t \in Threads, NEW c, Proceed(t, c)
  PROVE  busy'[t] = c /\ \A u \in Threads \ {t} : busy'[u] = busy[u]
BY DEF Tables, Proceed

\* The calls stay records of what they hold.
LEMMA CallsAre ==
  ASSUME Tables, NEW t \in Threads, NEW step, NEW patterns, NEW adds,
         Proceed(t, Call(step, patterns, adds))
  PROVE  busy' = [u \in Threads |-> Call(busy'[u].step, busy'[u].patterns, busy'[u].adds)]
<1> DEFINE c == Call(step, patterns, adds)
           old(u) == Call(busy[u].step, busy[u].patterns, busy[u].adds)
           new(u) == Call(busy'[u].step, busy'[u].patterns, busy'[u].adds)
<1>1. busy = [u \in Threads |-> old(u)]
  BY DEF Tables
<1>2. busy'[t] = c /\ \A u \in Threads \ {t} : busy'[u] = busy[u]
  BY ProceedIs
<1>3. new(t) = c
  BY <1>2 DEF Call
<1>4. \A u \in Threads : busy'[u] = new(u)
  BY <1>1, <1>2, <1>3
<1>5. busy' = [u \in Threads |-> busy'[u]]
  <2> HIDE DEF old, c
  <2>1. QED
    BY <1>1 DEF Proceed, c
<1> HIDE DEF new
<1>6. QED
  BY <1>4, <1>5 DEF new

\* The eligible patterns are chosen.
LEMMA ListKeeps ==
  ASSUME InheritanceInv, NEW t \in Threads, NEW inherit \in BOOLEAN, List(t, inherit)
  PROVE  InheritanceInv'
<1> DEFINE chosen == IF inherit THEN Eligible(registry[Foundry[t]]) ELSE {}
           c == Call("match", chosen, {})
<1>1. Tables /\ Provenance /\ Chosen /\ Results
  BY DEF InheritanceInv
<1>2. Proceed(t, c) /\ UNCHANGED <<registry, compositions, packs, exported>>
  BY DEF List
<1>3. busy'[t] = c /\ \A u \in Threads \ {t} : busy'[u] = busy[u]
  BY <1>1, <1>2, ProceedIs
<1>4. Foundry[t] \in Foundries
  BY InheritanceAssumption
<1>5. \A p \in chosen : p \in DOMAIN registry[Foundry[t]] /\ Consensus(p)
  <2>1. TAKE p \in chosen
  <2>2. p \in DOMAIN registry[Foundry[t]] /\ Cardinality(SharedBy(registry[Foundry[t]][p])) >= MinimumOrigins
    BY DEF Eligible
  <2>3. Vouched(p, registry[Foundry[t]][p])
    BY <1>1, <1>4, <2>2 DEF Provenance
  <2>4. QED
    BY <2>2, <2>3, OriginsVouch
<1> HIDE DEF chosen
<1>6. \A u \in Threads : busy'[u].adds = busy[u].adds \/ busy'[u].adds = {}
  BY <1>3 DEF Call
<1>7. Tables'
  BY <1>1, <1>2, CallsAre DEF Tables
<1>8. \A p : Consensus(p)' = Consensus(p)
  BY <1>2 DEF Consensus, Vouch
<1>9. \A p, entry : Vouched(p, entry)' = Vouched(p, entry)
  BY <1>2 DEF Vouched
<1>10. Provenance'
  BY <1>1, <1>2, <1>6, <1>9 DEF Provenance
<1>11. Chosen'
  BY <1>1, <1>2, <1>3, <1>5, <1>8 DEF Chosen, Call
<1>12. Results'
  BY <1>1, <1>2, Monotone DEF Results
<1>13. QED
  BY <1>7, <1>10, <1>11, <1>12 DEF InheritanceInv

\* The composition is registered: what its patterns vouch for, and no more.
LEMMA RelateKeeps ==
  ASSUME InheritanceInv, NEW t \in Threads, Relate(t)
  PROVE  InheritanceInv'
<1> DEFINE h == Foundry[t]
           so == SourceObject(h)
           r == InheritedResult(registry[h], busy[t].patterns, so, Intents[h])
<1>1. Tables /\ Provenance /\ Chosen /\ Results
  BY DEF InheritanceInv
<1>2. h \in Foundries
  BY InheritanceAssumption
<1>3. /\ compositions' = [compositions EXCEPT ![h] = @ \cup ({r} \ {Null})]
      /\ Proceed(t, NoCall) /\ UNCHANGED <<registry, packs, exported>>
  BY DEF Relate, SourceObject
<1>4. busy'[t] = NoCall /\ \A u \in Threads \ {t} : busy'[u] = busy[u]
  BY <1>1, <1>3, ProceedIs
<1>5. r # Null => SoundFor(so, r)
  <2>1. SUFFICES ASSUME r # Null PROVE SoundFor(so, r)
    OBVIOUS
  <2>2. \A i \in DOMAIN Intents[h] : WellFormed(Intents[h][i].profile)
    BY <1>2, InheritanceAssumption
  <2>3. /\ r.ready = Ready(r.targets) /\ r.questions = Questions(r.targets)
        /\ \A target \in Range(r.targets) :
             /\ UniqueFields(target.surface.fields)
             /\ target.graph = InheritedGraph(registry[h], busy[t].patterns, so, target.surface)
             /\ r.ready => Covered(target)
    BY <2>1, <2>2, ResultIs, ReadyIsCovered
  <2> HIDE DEF r, so, h
  <2>4. ASSUME NEW e, Vouching(registry[h], busy[t].patterns, e)
        PROVE  SoundEdge(e) /\ (~e.review => \E p \in e.patterns : Backed(p))
    <3>1. PICK p \in busy[t].patterns :
            e.patterns = {p} /\ (~e.review => ~(Cardinality(OriginsOf(registry[h][p])) < AcceptOrigins))
      BY <2>4 DEF Vouching
    <3>2. p \in DOMAIN registry[h] /\ Consensus(p)
      BY <1>1 DEF Chosen, h
    <3>3. Vouched(p, registry[h][p])
      BY <1>1, <1>2, <3>2 DEF Provenance
    <3>4. QED
      BY <3>1, <3>2, <3>3, OriginsVouch DEF SoundEdge
  <2>5. ASSUME NEW target \in Range(r.targets)
        PROVE  /\ \A e \in target.graph.edges : e.patterns = {} \/ Vouching(registry[h], busy[t].patterns, e)
               /\ \A q \in BuildGraph(so, target.surface).questions \ target.graph.questions :
                    \E e \in target.graph.edges : e.target = q.target /\ ~e.review /\ e.patterns # {}
               /\ target.graph.questions = {} => \A e \in target.graph.edges : e.review => e.patterns # {}
    BY <2>3, GraphIs
  <2>6. \A target \in Range(r.targets) : \A e \in target.graph.edges : SoundEdge(e)
    BY <2>4, <2>5 DEF SoundEdge
  <2>7. \A target \in Range(r.targets) :
          \A q \in BuildGraph(so, target.surface).questions \ target.graph.questions :
            \E e \in target.graph.edges : \E p \in e.patterns : e.target = q.target /\ ~e.review /\ Backed(p)
    <3>1. TAKE target \in Range(r.targets)
    <3>2. TAKE q \in BuildGraph(so, target.surface).questions \ target.graph.questions
    <3>3. PICK e \in target.graph.edges : e.target = q.target /\ ~e.review /\ e.patterns # {}
      BY <2>5
    <3>4. \E p \in e.patterns : Backed(p)
      BY <2>4, <2>5, <3>3
    <3>5. QED
      BY <3>3, <3>4
  <2>8. ~r.ready /\ r.questions = {} =>
          \E target \in Range(r.targets) : \E e \in target.graph.edges : e.review /\ e.patterns # {}
    <3>1. SUFFICES ASSUME ~r.ready, r.questions = {}
                   PROVE  \E target \in Range(r.targets) : \E e \in target.graph.edges : e.review /\ e.patterns # {}
      OBVIOUS
    <3>2. \A target \in Range(r.targets) : target.graph.questions = {}
      BY <2>3, <3>1 DEF Questions
    <3>3. PICK target \in Range(r.targets) : \E e \in target.graph.edges : e.review
      BY <2>3, <3>1, <3>2 DEF Ready
    <3>4. QED
      BY <2>5, <3>2, <3>3
  <2>9. QED
    BY <2>3, <2>6, <2>7, <2>8 DEF SoundFor, KeptFor
<1> HIDE DEF r
<1>6. Tables'
  BY <1>1, <1>2, <1>3 DEF Tables, Proceed, NoCall, Call
<1>7. \A p, entry : Vouched(p, entry)' = Vouched(p, entry)
  BY <1>3 DEF Vouched
<1>8. Provenance'
  BY <1>1, <1>3, <1>4, <1>7 DEF Provenance, NoCall, Call
<1>9. \A p : Consensus(p)' = Consensus(p)
  BY <1>3 DEF Consensus, Vouch
<1>10. Chosen'
  BY <1>1, <1>3, <1>4, <1>9 DEF Chosen, NoCall, Call
<1>11. \A k \in Foundries : \A x \in compositions'[k] : SoundFor(SourceObject(k), x)
  BY <1>1, <1>2, <1>3, <1>5 DEF Tables, Results
<1>12. Results'
  BY <1>3, <1>11, Monotone DEF Results
<1>13. QED
  BY <1>6, <1>8, <1>10, <1>12 DEF InheritanceInv

\* An export, or an import, of what its patterns were exported with.
LEMMA AddingKeeps ==
  ASSUME InheritanceInv, NEW t \in Threads, NEW adds,
         Proceed(t, Call("add", {}, adds)),
         UNCHANGED <<registry, compositions, packs>>, exported \subseteq exported',
         \A a \in adds : Vouched(a.pattern, a.entry)'
  PROVE  InheritanceInv'
<1>1. Tables /\ Provenance /\ Chosen /\ Results
  BY DEF InheritanceInv
<1>2. busy'[t] = Call("add", {}, adds) /\ \A u \in Threads \ {t} : busy'[u] = busy[u]
  BY <1>1, ProceedIs
<1>3. Tables'
  BY <1>1, CallsAre DEF Tables
<1>4. Provenance'
  BY <1>1, <1>2, Monotone DEF Provenance, Call
<1>5. Chosen'
  BY <1>1, <1>2, Monotone DEF Chosen, Call
<1>6. Results'
  BY <1>1, Monotone DEF Results
<1>7. QED
  BY <1>3, <1>4, <1>5, <1>6 DEF InheritanceInv

LEMMA ExportKeeps ==
  ASSUME InheritanceInv, NEW t \in Threads, NEW result, NEW origin \in Origins, NEW scope \in Scopes,
         Export(t, result, origin, scope)
  PROVE  InheritanceInv'
<1> DEFINE adds == Exports(Foundry[t], result, origin, scope)
<1>1. exported' = exported \cup {<<a.pattern, origin, scope>> : a \in adds}
  BY DEF Export
<1>2. \A a \in adds : a.entry.provenance = [o \in {origin} |-> scope]
  BY DEF Exports, Patterns
<1> HIDE DEF adds
<1>3. \A a \in adds : Vouched(a.pattern, a.entry)'
  BY <1>1, <1>2 DEF Vouched, OriginsOf
<1>4. QED
  BY <1>1, <1>3, AddingKeeps DEF Export, adds

LEMMA ImportKeeps ==
  ASSUME InheritanceInv, NEW t \in Threads, NEW pack, Import(t, pack)
  PROVE  InheritanceInv'
<1>1. \A a \in pack : Vouched(a.pattern, a.entry)
  BY DEF InheritanceInv, Provenance, Import
<1>2. \A a \in pack : Vouched(a.pattern, a.entry)'
  BY <1>1, Monotone DEF Import
<1>3. QED
  BY <1>2, AddingKeeps DEF Import

\* A pattern that arrives again keeps the scopes it has and gains the origins it lacks.
LEMMA MergedVouched ==
  ASSUME NEW p, NEW old, NEW new, Vouched(p, old), Vouched(p, new)
  PROVE  Vouched(p, Merged(old, new))
BY DEF Vouched, Merged, Joined, OriginsOf

LEMMA AddKeeps ==
  ASSUME InheritanceInv, NEW t \in Threads, Add(t)
  PROVE  InheritanceInv'
<1> DEFINE h == Foundry[t]
<1>1. Tables /\ Provenance /\ Chosen /\ Results
  BY DEF InheritanceInv
<1>2. h \in Foundries
  BY InheritanceAssumption
<1>3. PICK a \in busy[t].adds :
        /\ registry' = [registry EXCEPT ![h] = Recorded(@, a.pattern, a.entry)]
        /\ Proceed(t, IF busy[t].adds = {a} THEN NoCall ELSE Call("add", {}, busy[t].adds \ {a}))
        /\ UNCHANGED <<compositions, packs, exported>>
  BY DEF Add
<1>4. /\ busy'[t].adds \subseteq busy[t].adds /\ busy'[t].patterns \subseteq busy[t].patterns
      /\ \A u \in Threads \ {t} : busy'[u] = busy[u]
  <2>1. /\ busy'[t] = IF busy[t].adds = {a} THEN NoCall ELSE Call("add", {}, busy[t].adds \ {a})
        /\ \A u \in Threads \ {t} : busy'[u] = busy[u]
    BY <1>1, <1>3, ProceedIs
  <2>2. QED
    BY <2>1 DEF NoCall, Call
<1>5. Vouched(a.pattern, a.entry)
  BY <1>1, <1>3 DEF Provenance
<1>6. \A k \in Foundries : registry'[k] = IF k = h THEN Recorded(registry[h], a.pattern, a.entry) ELSE registry[k]
  BY <1>1, <1>2, <1>3 DEF Tables
<1>7. ASSUME NEW k \in Foundries, NEW p \in DOMAIN registry'[k] PROVE Vouched(p, registry'[k][p])
  <2>1. CASE k # h
    BY <1>1, <1>6, <1>7, <2>1 DEF Provenance
  <2>2. CASE k = h
    <3>1. registry'[k] = Recorded(registry[h], a.pattern, a.entry)
      BY <1>6, <2>2
    <3>2. p \in DOMAIN registry[h] \cup {a.pattern}
      BY <1>7, <3>1 DEF Recorded
    <3>3. registry'[k][p] = IF p # a.pattern THEN registry[h][p]
                            ELSE IF p \in DOMAIN registry[h] THEN Merged(registry[h][p], a.entry) ELSE a.entry
      BY <3>1, <3>2 DEF Recorded
    <3>4. p \in DOMAIN registry[h] => Vouched(p, registry[h][p])
      BY <1>1, <1>2 DEF Provenance
    <3>5. QED
      BY <1>5, <3>2, <3>3, <3>4, MergedVouched
  <2>3. QED
    BY <2>1, <2>2
<1>8. \A k \in Foundries : DOMAIN registry[k] \subseteq DOMAIN registry'[k]
  BY <1>6 DEF Recorded
<1>9. /\ \A p : Consensus(p)' = Consensus(p)
      /\ \A p, entry : Vouched(p, entry)' = Vouched(p, entry)
  BY <1>3 DEF Consensus, Vouch, Vouched
<1>10. Tables'
  <2>1. registry' = [k \in Foundries |-> registry'[k]]
    BY <1>1, <1>3 DEF Tables
  <2>2. CASE busy[t].adds = {a}
    BY <1>1, <1>3, <2>1, <2>2, CallsAre DEF Tables, NoCall
  <2>3. CASE busy[t].adds # {a}
    BY <1>1, <1>3, <2>1, <2>3, CallsAre DEF Tables
  <2>4. QED
    BY <2>2, <2>3
<1>11. Provenance'
  <2>1. \A u \in Threads : busy'[u].adds \subseteq busy[u].adds
    BY <1>4
  <2>2. QED
    BY <1>1, <1>3, <1>7, <1>9, <2>1 DEF Provenance
<1>12. Chosen'
  <2>1. \A u \in Threads : busy'[u].patterns \subseteq busy[u].patterns /\ Foundry[u] \in Foundries
    BY <1>4, InheritanceAssumption
  <2>2. QED
    BY <1>1, <1>8, <1>9, <2>1 DEF Chosen
<1>13. Results'
  BY <1>1, <1>3, Monotone DEF Results
<1>14. QED
  BY <1>10, <1>11, <1>12, <1>13 DEF InheritanceInv

LEMMA PackKeeps ==
  ASSUME InheritanceInv, NEW h \in Foundries, NEW quarantined \in BOOLEAN, Pack(h, quarantined)
  PROVE  InheritanceInv'
<1> DEFINE chosen == IF quarantined THEN DOMAIN registry[h] ELSE Eligible(registry[h])
           pack == {[pattern |-> p, entry |-> registry[h][p]] : p \in chosen}
<1>1. Tables /\ Provenance /\ Chosen /\ Results
  BY DEF InheritanceInv
<1>2. packs' = packs \cup {pack} /\ UNCHANGED <<registry, compositions, busy, exported>>
  BY DEF Pack
<1>3. chosen \subseteq DOMAIN registry[h]
  BY DEF Eligible
<1>4. \A a \in pack : Vouched(a.pattern, a.entry)
  BY <1>1, <1>3 DEF Provenance
<1> HIDE DEF pack
<1>5. Provenance'
  BY <1>1, <1>2, <1>4, Monotone DEF Provenance
<1>6. Tables' /\ Chosen' /\ Results'
  BY <1>1, <1>2, Monotone DEF Tables, Chosen, Results
<1>7. QED
  BY <1>5, <1>6 DEF InheritanceInv

LEMMA RestartFoundryKeeps ==
  ASSUME InheritanceInv, NEW h \in Foundries, RestartFoundry(h)
  PROVE  InheritanceInv'
<1>1. Tables /\ Provenance /\ Chosen /\ Results
  BY DEF InheritanceInv
<1>2. /\ registry' = [registry EXCEPT ![h] = None] /\ compositions' = [compositions EXCEPT ![h] = {}]
      /\ busy' = [t \in Threads |-> IF Foundry[t] = h THEN NoCall ELSE busy[t]]
      /\ UNCHANGED <<packs, exported>>
  BY DEF RestartFoundry
<1>3. \A k \in Foundries : registry'[k] = (IF k = h THEN None ELSE registry[k]) /\ compositions'[k] \subseteq compositions[k]
  BY <1>1, <1>2 DEF Tables
<1>4. Tables'
  BY <1>1, <1>2 DEF Tables, NoCall, Call
<1>5. Provenance'
  BY <1>1, <1>2, <1>3, Monotone DEF Provenance, NoCall, Call, None
<1>6. Chosen'
  BY <1>1, <1>2, <1>3, InheritanceAssumption, Monotone DEF Chosen, NoCall, Call
<1>7. Results'
  BY <1>1, <1>2, <1>3, Monotone DEF Results
<1>8. QED
  BY <1>4, <1>5, <1>6, <1>7 DEF InheritanceInv

LEMMA InheritanceKept == InheritanceInv /\ [InheritanceNext]_inheritanceVars => InheritanceInv'
<1> SUFFICES ASSUME InheritanceInv, [InheritanceNext]_inheritanceVars PROVE InheritanceInv'
  OBVIOUS
<1>1. CASE UNCHANGED inheritanceVars
  <2>1. UNCHANGED <<registry, compositions, packs, busy, exported>>
    BY <1>1 DEF inheritanceVars
  <2>2. QED
    BY <2>1, Monotone DEF InheritanceInv, Tables, Provenance, Chosen, Results
<1>2. CASE InheritanceNext
  BY <1>2, ListKeeps, RelateKeeps, AddKeeps, ExportKeeps, ImportKeeps, PackKeeps, RestartFoundryKeeps
  DEF InheritanceNext
<1>3. QED
  BY <1>1, <1>2

\* What a registry, a pack or an unfinished call says of a pattern's origins was really
\* exported by them, under the scope it says, wherever packs travel and processes restart
\* (registry.add, import_pack, eligible); and a composition's choice of patterns holds
\* until it is used.
THEOREM InheritanceInvariant == InheritanceSpec => []InheritanceInv
BY InheritanceBegins, InheritanceKept, PTL DEF InheritanceSpec

\* A mapping is inherited only upon two origins that shared its pattern and accepted
\* without review only upon three (InheritedSemanticMatcher.build_graph), for any
\* foundries, threads, profiles and origins.
THEOREM ConsensusAlways == InheritanceSpec => []ConsensusBeforeAcceptance
<1>1. InheritanceInv => ConsensusBeforeAcceptance
  BY ResultsSay DEF InheritanceInv
<1>2. QED
  BY <1>1, InheritanceInvariant, PTL

\* No question of the deterministic matcher is dropped but for a mapping three origins
\* exported, and a composition held back without a question holds an inherited mapping
\* (InheritedSemanticMatcher.build_graph, compose).
THEOREM ReviewAlwaysKept == InheritanceSpec => []ReviewKept
<1>1. InheritanceInv => ReviewKept
  BY ResultsSay DEF InheritanceInv
<1>2. QED
  BY <1>1, InheritanceInvariant, PTL

-----------------------------------------------------------------------------
(* What a finished composition is *)

\* A composition that is ready maps every required field of every target, and maps it from
\* a field of the source (build_graph, compose, ContractValidator): no question that was
\* asked is lost on the way from the matcher to the verdict.
THEOREM ReadyMapsRequired ==
  ASSUME NEW source, NEW object, NEW intents,
         \A i \in DOMAIN intents : WellFormed(intents[i].profile),
         Compose(source, object, intents) # Null,
         Compose(source, object, intents).ready
  PROVE  \A target \in Range(Compose(source, object, intents).targets) :
           Covered(target) /\ \A m \in target.mappings : m.source \in Paths(ResolveSourceObject(source, object).fields)
<1> DEFINE so == ResolveSourceObject(source, object)
           places == Places(so, intents)
<1>1. so # Null /\ Compose(source, object, intents) = Baseline(so, places)
  BY DEF Compose, Sourced
<1>2. ASSUME NEW reg PROVE InheritedResult(reg, {}, so, intents) = Baseline(so, places)
  <2>1. \A i : InheritedGraph(reg, {}, so, places[i].surface) = BuildGraph(so, places[i].surface)
    BY DEF InheritedGraph
  <2>2. InheritedResult(reg, {}, so, intents) =
          ComposeOver(so, places, [i \in DOMAIN places |-> InheritedGraph(reg, {}, so, places[i].surface)])
    BY <1>1 DEF InheritedResult, InheritedOver
  <2> HIDE DEF so, places
  <2>3. [i \in DOMAIN places |-> InheritedGraph(reg, {}, so, places[i].surface)] =
          [i \in DOMAIN places |-> BuildGraph(so, places[i].surface)]
    BY <2>1
  <2>4. QED
    BY <2>2, <2>3 DEF Baseline
<1>3. InheritedResult(Null, {}, so, intents) = Compose(source, object, intents)
  BY <1>1, <1>2
<1> HIDE DEF so, places
<1>4. QED
  BY <1>3, ReadyIsCovered DEF so

\* The composition that the handler makes of a connection's systems.
ConnectionResult(row) ==
  CompositionOf(Profile[row.source], [k \in DOMAIN row.targets |-> Profile[row.targets[k]]])

Finished(result) ==
  /\ result # Null /\ result.ready /\ result.questions = {}
  /\ \A target \in Range(result.targets) : Covered(target)

LEMMA ClearOutcome ==
  ASSUME NEW row \in ConnRow, OutcomeOf(row.source, row.targets).contract = "clear"
  PROVE  Finished(ConnectionResult(row))
<1> DEFINE source == Profile[row.source]
           targets == [k \in DOMAIN row.targets |-> Profile[row.targets[k]]]
           object == IF source.objects = <<>> THEN Null ELSE source.objects[1].id
           intents == [k \in DOMAIN targets |-> Intent(targets[k])]
           result == ConnectionResult(row)
<1>1. Composed(source, targets).contract = "clear"
  BY DEF OutcomeOf
<1>2. Null # "clear" /\ "open" # "clear"
  BY PlatformAssumption
<1>3. Null \notin {source} \cup Range(targets) /\ Composed(source, targets) = Judgement(result)
  <2> HIDE DEF source, targets
  <2>1. CASE Null \in {source} \cup Range(targets)
    BY <1>1, <1>2, <2>1 DEF Composed, Unfinished
  <2>2. CASE Null \notin {source} \cup Range(targets) /\ \E p \in Range(targets) : p.operations = <<>>
    BY <1>1, <1>2, <2>2 DEF Composed, Unfinished
  <2>3. CASE Null \notin {source} \cup Range(targets) /\ ~\E p \in Range(targets) : p.operations = <<>>
    BY <2>3 DEF Composed, ConnectionResult, source, targets
  <2>4. QED
    BY <2>1, <2>2, <2>3
<1>4. result = Compose(source, object, intents)
  BY DEF ConnectionResult, CompositionOf
<1>5. ASSUME NEW k \in DOMAIN intents PROVE WellFormed(intents[k].profile)
  <2>1. k \in DOMAIN row.targets /\ intents[k].profile = Profile[row.targets[k]]
    BY DEF Intent
  <2>2. row.targets[k] \in Systems
    <3>1. row.targets \in TargetLists
      BY DEF ConnRow
    <3>2. row.targets \in Seq(Systems)
      BY <3>1, TargetsAreSystems
    <3>3. QED
      BY <2>1, <3>2
  <2>3. Profile[row.targets[k]] # Null
    BY <1>3, <2>1 DEF Range
  <2>4. QED
    BY <2>1, <2>2, <2>3, PlatformAssumption
<1> HIDE DEF source, targets, object, intents, result
<1>6. result # Null /\ result.ready /\ result.questions = {}
  BY <1>1, <1>2, <1>3 DEF Judgement, Unfinished
<1>7. \A target \in Range(result.targets) : Covered(target)
  BY <1>4, <1>5, <1>6, ReadyMapsRequired
<1>8. QED
  BY <1>6, <1>7 DEF Finished, result

\* A connection that has a contract without open questions, the only kind that leaves
\* review, is one whose systems compose with every required field mapped, whatever
\* handlers were overtaken and whoever wrote its row since (_compose_connection,
\* _health_connection).
ClearFinished == \A i \in Conns : conn[i] # Null /\ conn[i].contract = "clear" => Finished(ConnectionResult(conn[i]))
THEOREM ClearIsFinished == Spec => []ClearFinished
<1>1. ASSUME PlatformInv, NEW i \in Conns, conn[i] # Null, conn[i].contract = "clear"
      PROVE  Finished(ConnectionResult(conn[i]))
  <2>1. conn[i] \in ConnRow
    BY <1>1 DEF PlatformInv, Shape, Typed
  <2>2. conn[i].contract \in {Null, OutcomeOf(conn[i].source, conn[i].targets).contract}
    BY <1>1 DEF PlatformInv, StatusInv, OwnContract
  <2>3. OutcomeOf(conn[i].source, conn[i].targets).contract = "clear"
    BY <1>1, <2>2, PlatformAssumption
  <2>4. QED
    BY <2>1, <2>3, ClearOutcome
<1>2. PlatformInv => ClearFinished
  BY <1>1 DEF ClearFinished
<1>3. QED
  BY <1>2, PlatformInvariant, PTL
=============================================================================
