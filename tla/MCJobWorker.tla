---------------------------- MODULE MCJobWorker -----------------------------
(* Instances of JobWorker for TLC. *)
EXTENDS JobWorker

CONSTANTS j1, j2, w1, w2, idA, idB

\* Two replicas started with the same --worker-id: only the token tells them apart.
SharedId == [w \in Workers |-> idA]
OwnId == [w \in Workers |-> IF w = w1 THEN idA ELSE idB]
=============================================================================
