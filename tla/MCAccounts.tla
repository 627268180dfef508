----------------------------- MODULE MCAccounts -----------------------------
(***************************************************************************)
(* Accounts over interchangeable requests.                                 *)
(***************************************************************************)
EXTENDS Accounts, TLC

RequestSymmetry == Permutations(Requests)
=============================================================================
