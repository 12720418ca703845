----------------------------- MODULE MCTransfers -----------------------------
(***************************************************************************)
(* Values for model checking Transfers, and small sets of request bodies   *)
(* for each question.  Wallets 1 and 2 belong to users of tier 1 and 2,    *)
(* wallet 3 to a merchant with a webhook URL, the owner of wallet 4 is not *)
(* verified and wallet 5 is inactive.                                      *)
(***************************************************************************)
EXTENDS Transfers, TLC

CONSTANTS k1            \* an idempotency key

MCWallets == 1 .. 5
MCKeys == {k1}
MCInitialBalance == (1 :> 4) @@ (2 :> 1) @@ (3 :> 1) @@ (4 :> 2) @@ (5 :> 1)
MCTier == (1 :> 1) @@ (2 :> 2) @@ (3 :> 1) @@ (4 :> 0) @@ (5 :> 1)
MCSingleLimit == (1 :> 2) @@ (2 :> 3)
MCDailyLimit == (1 :> 3) @@ (2 :> 3)
MCWebhooks == {3}
MCInactive == {5}
MCRequestSymmetry == Permutations(Requests)

Transfer(s, d, a, k) ==
    [kind |-> "transfer", src |-> s, dst |-> d, amount |-> a, key |-> k]
Payment(s, d, a, k) ==
    [kind |-> "merchant_payment", src |-> s, dst |-> d, amount |-> a, key |-> k]

(* What requests that overlap can do to each other: opposite directions, a   *)
(* sender who pays two recipients, more than a wallet holds until it gets a  *)
(* credit, and one key for two pairs of wallets that have none in common.    *)
OverlapOffers ==
    {Transfer(1, 2, 1, k1), Transfer(2, 1, 2, NoKey), Transfer(1, 3, 1, NoKey),
     Payment(3, 4, 1, k1)}

(* One wallet's volume and repetition over two days, in both directions and  *)
(* of both kinds, and each reason to refuse a request.                       *)
IsolatedOffers ==
    {Transfer(1, 2, 1, NoKey), Transfer(1, 2, 2, NoKey), Transfer(2, 1, 2, k1),
     Payment(1, 3, 2, k1), Payment(1, 3, 1, NoKey), Transfer(1, 2, 3, NoKey),
     Transfer(4, 1, 1, NoKey), Transfer(1, 5, 1, NoKey), Payment(5, 3, 1, NoKey)}
=============================================================================
