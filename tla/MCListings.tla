------------------------------ MODULE MCListings ------------------------------
(***************************************************************************)
(* Model checking Listings: one of three rows is a suspect, and one is     *)
(* another user's.                                                         *)
(***************************************************************************)
EXTENDS Listings

CONSTANTS r1, r2, r3

MCRows == {r1, r2, r3}
MCSuspects == {r1}
MCMine == {r1, r2}
=============================================================================
