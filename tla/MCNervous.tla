----------------------------- MODULE MCNervous ------------------------------
(* Three steps over two daughters: a chain, a fork, a join, a cycle. *)
EXTENDS Nervous, TLC

MCDaughterOf == 1 :> "d1" @@ 2 :> "d2" @@ 3 :> "d1"

MCCapabilityOf == 1 :> "read" @@ 2 :> "write" @@ 3 :> "close"
MCKindOf == [s \in Steps |-> "changed"]

\* d1 has no capability "close"; d2 may be off, or be offered to the wrong contract.
Offer(d, fits, on, c) == [daughter |-> d, fits |-> fits, enabled |-> on, capabilities |-> c]
Cap(routes, kinds) == [routes |-> routes, kinds |-> kinds]
MCOffers == {Offer("d1", TRUE, TRUE, "read" :> Cap({}, {Wild})),
             Offer("d2", TRUE, TRUE, "write" :> Cap(Actions, {"changed"})),
             Offer("d2", TRUE, FALSE, "write" :> Cap(Actions, {"changed"})),
             Offer("d2", FALSE, TRUE, "write" :> Cap(Actions, {Wild})),
             Offer("d2", TRUE, TRUE, "write" :> Cap({"other"}, {Wild}))}

Chained == 1 :> {} @@ 2 :> {3} @@ 3 :> {1}
Forked == 1 :> {} @@ 2 :> {1} @@ 3 :> {1}
Joined == 1 :> {2, 3} @@ 2 :> {} @@ 3 :> {}
Cyclic == 1 :> {} @@ 2 :> {3} @@ 3 :> {2}
MCWorkflows == {Chained, Forked, Joined, Cyclic}

Rule(i, e, src, s, p) == [id |-> i, effect |-> e, source |-> src, step |-> s, priority |-> p]
Open == [id |-> "open", default |-> "allow", maxHops |-> 2, fanout |-> 2, registered |-> FALSE,
         rules |-> <<>>]
Guarded == [id |-> "guarded", default |-> "require_approval", maxHops |-> 3, fanout |-> 2,
            registered |-> TRUE,
            rules |-> <<Rule("r1", "allow", "external", Wild, 0), Rule("r2", "deny", "d1", Wild, 1),
                        Rule("r3", "require_approval", Wild, 1, 1)>>]
Narrow == [Open EXCEPT !.id = "narrow", !.fanout = 1, !.maxHops = 1]
MCPolicies == {Open, Guarded, Narrow}

Req(e, k, a, sim) == [event |-> e, key |-> k, approvals |-> a, simulate |-> sim]
MCRequests == {Req("e1", "k1", {}, FALSE), Req("e1", "k1", {"open", "r3"}, FALSE),
               Req("e2", "k1", {"guarded"}, FALSE), Req("e1", "k2", {"guarded", "r3"}, FALSE),
               Req("e1", "k1", {}, TRUE)}
=============================================================================
