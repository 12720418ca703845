---------------------------- MODULE AtomicLedger ----------------------------
(***************************************************************************)
(* What a money movement between two wallets promises its caller, without  *)
(* requests, locks or database transactions: one indivisible step that     *)
(* debits the source, credits the destination and records the transaction, *)
(* at most once per idempotency key and never beyond the source's funds.   *)
(***************************************************************************)
EXTENDS Integers

CONSTANTS
    Wallets,            \* every wallet
    Ids,                \* identities a transaction can have
    Offers,             \* movements a caller can ask for
    NoKey,              \* the key of an offer sent without one
    InitialBalance      \* what each wallet holds at the start

VARIABLES
    balance,            \* what each wallet holds
    journal             \* the completed movements, [id, offer]

vars == <<balance, journal>>

Init ==
    /\ balance = InitialBalance
    /\ journal = {}

(* The key is free: no completed movement used it. *)
Unused(key) == key # NoKey => \A j \in journal : j.offer.key # key

Post(id, o) ==
    /\ \A j \in journal : j.id # id
    /\ Unused(o.key)
    /\ o.src # o.dst
    /\ o.amount <= balance[o.src]
    /\ balance' = [balance EXCEPT ![o.src] = @ - o.amount,
                                  ![o.dst] = @ + o.amount]
    /\ journal' = journal \cup {[id |-> id, offer |-> o]}

Next == \E id \in Ids, o \in Offers : Post(id, o)

Spec == Init /\ [][Next]_vars
=============================================================================
