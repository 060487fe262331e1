---------------------------- MODULE MCLiteRunner -----------------------------
(* LiteRunner on one or two connections, over one system, and one record each. *)
EXTENDS LiteRunner, TLC

Symmetry == Permutations(Clients)

MCUses == [c \in 1..NConns |-> Systems]
=============================================================================
