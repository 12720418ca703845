---------------------------- MODULE MCWithdrawals ----------------------------
(***************************************************************************)
(* Values for model checking Withdrawals: requests that withdraw from or   *)
(* remove one of two bank accounts.                                        *)
(***************************************************************************)
EXTENDS Withdrawals, TLC

CONSTANTS a, b

MCSymmetry == Permutations(Requests) \cup Permutations(Workers)

Withdraw(account, n) == [op |-> "withdraw", account |-> account, amount |-> n]
Remove(account) == [op |-> "remove", account |-> account, amount |-> 0]

(* Requests that get in each other's way, and one that is beyond the funds.  *)
OverlapOffers == {Withdraw(a, 1), Withdraw(b, 3), Remove(a)}

(* 2 fits the limits once a day, 3 is over the single limit.                 *)
CalmOffers == {Withdraw(a, 2), Withdraw(b, 3), Remove(a)}

(* Withdrawals from one account, the whole balance each, and its removal;    *)
(* the third request only meets the rows of the two others.                  *)
ClashingOffers == {Withdraw(a, 1), Remove(a)}
TwoWithdrawals ==
    Cardinality({r \in Requests : req[r] # NoOffer /\ req[r].op = "withdraw"}) <= 2

(* One withdrawal.                                                           *)
OneOffer == {Withdraw(a, 1)}
=============================================================================
