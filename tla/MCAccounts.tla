---------------------------- MODULE MCAccounts -----------------------------
(* Accounts for TLC: an admin and a second user, who may be an admin too,   *)
(* two requests and the console at a time.                                  *)
EXTENDS Accounts, TLC

Symmetry == Permutations(Users) \cup Permutations(Tokens) \cup Permutations(Requests)
=============================================================================
