----------------------------- MODULE MCLiteOAuth -----------------------------
(* Two threads, a provider that replaces refresh tokens and one that does not *)
(* and cannot revoke either.                                                  *)
EXTENDS LiteOAuth, TLC

Symmetry == Permutations(Threads)
=============================================================================
