----------------------------- MODULE MCAccounts -----------------------------
(* Instances of Accounts for TLC. *)
EXTENDS Accounts, TLC

Symmetry == Permutations(Passwords) \cup Permutations(Roles)
              \cup Permutations(Logins) \cup Permutations(Ops)
=============================================================================
