---------------------------- MODULE MCBankAccounts ----------------------------
(***************************************************************************)
(* Symmetry for model checking BankAccounts: calls are interchangeable.    *)
(***************************************************************************)
EXTENDS BankAccounts, TLC

MCSymmetry == Permutations(Calls)
=============================================================================
