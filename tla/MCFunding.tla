------------------------------ MODULE MCFunding ------------------------------
(***************************************************************************)
(* Values for model checking Funding: wallet a is active, wallet b is not, *)
(* and k1 is a key that several requests share.                            *)
(***************************************************************************)
EXTENDS Funding, TLC

CONSTANTS a, b, k1

MCWallets == {a, b}

Funds(w, n, k) == [wallet |-> w, amount |-> n, key |-> k]

(* Two fundings of one wallet, the first with a key that may be sent twice, *)
(* and both reasons to refuse one.                                          *)
AllOffers == {Funds(a, 2, k1), Funds(a, 3, NoKey), Funds(a, 1, NoKey), Funds(b, 2, NoKey)}

(* Two fundings of one wallet. *)
TwoOffers == {Funds(a, 2, k1), Funds(a, 3, NoKey)}

(* Paystack reports the smaller funding as it was asked for, and the larger  *)
(* one as a payment of less.                                                *)
LessForTheLarger == {<<2, 2>>, <<3, 1>>}
=============================================================================
