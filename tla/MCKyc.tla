------------------------------- MODULE MCKyc -------------------------------
(***************************************************************************)
(* Symmetry for model checking Kyc: requests are interchangeable, and so   *)
(* are users who have the same role.                                       *)
(***************************************************************************)
EXTENDS Kyc, TLC

MCSymmetry ==
    Permutations(Submissions) \cup Permutations(Reviews)
        \cup Permutations(Admins) \cup Permutations(Users \ Admins)
=============================================================================
