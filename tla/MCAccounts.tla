----------------------------- MODULE MCAccounts -----------------------------
(* Instance of Accounts for TLC. *)
EXTENDS Accounts, TLC

Symmetry == Permutations(Users) \cup Permutations(Organizations)
                \cup Permutations(Workers) \cup Permutations(Clients)
=============================================================================
