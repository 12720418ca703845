----------------------------- MODULE MCAccounts -----------------------------
(***************************************************************************)
(* Symmetry for model checking Accounts: requests are interchangeable, and *)
(* so are addresses.                                                       *)
(***************************************************************************)
EXTENDS Accounts, TLC

MCSymmetry == Permutations(Requests) \cup Permutations(Emails)
=============================================================================
