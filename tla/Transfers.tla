------------------------------ MODULE Transfers ------------------------------
(***************************************************************************)
(* The two request handlers that move money between wallets:               *)
(* TransferService.initiate_transfer and                                   *)
(* MerchantPaymentService.initiate_payment, from the first statement of    *)
(* the request to the response, run by any number of concurrent requests   *)
(* against one PostgreSQL database under READ COMMITTED.                   *)
(*                                                                         *)
(* Every await of a database statement is a step of its own.  A request    *)
(* creates at most one transaction row, so the row is named by its request.*)
(*                                                                         *)
(* The balances a handler works with are those of the ORM objects it       *)
(* loaded with get_by_user_id (variable "snap").  lock_for_update selects  *)
(* the row again, but the session's identity map returns the object that   *)
(* is already loaded and, as the query does not ask for populate_existing, *)
(* keeps the attribute values it has.                                      *)
(***************************************************************************)
EXTENDS Integers, Sequences, FiniteSetsExt

CONSTANTS
    Wallets,            \* wallet ids, numbered in the order of their UUID strings
    Requests,           \* request handlers, and the transaction rows they insert
    Offers,             \* request bodies: [kind, src, dst, amount, key]
    Keys,               \* idempotency keys
    NoKey,              \* a request without an idempotency key
    NoOffer,            \* the body of a request that has not arrived
    NoRequest,          \* no lock owner, no transaction
    InitialBalance,     \* the balance of each wallet at the start
    Inactive,           \* wallets with is_active false
    Closed,             \* wallets of merchants that are inactive
    Webhooks,           \* wallets of merchants with a webhook URL
    Tier,               \* the KYC tier of each wallet's owner
    SingleLimit,        \* per tier: KYC_TIERn_SINGLE_LIMIT
    DailyLimit,         \* per tier: KYC_TIERn_DAILY_LIMIT
    DayLength,          \* clock units in a day
    DuplicateWindow,    \* FRAUD_DUPLICATE_WINDOW_SECONDS
    RapidWindow,        \* FRAUD_RAPID_TRANSFER_WINDOW_SECONDS
    RapidCount,         \* FRAUD_RAPID_TRANSFER_COUNT
    FlagThreshold,      \* FRAUD_MERCHANT_PAYMENT_FLAG_THRESHOLD
    MaxClock            \* bound on the clock

Kinds == {"transfer", "merchant_payment"}

ASSUME WalletsAssumption == Wallets \subseteq Nat /\ IsFiniteSet(Wallets)

ASSUME RequestsAssumption == IsFiniteSet(Requests) /\ NoRequest \notin Requests

(* TransferRequest and MerchantPaymentRequest accept positive amounts only. *)
ASSUME OffersAssumption ==
    /\ Offers \subseteq [kind : Kinds, src : Wallets, dst : Wallets,
                         amount : Nat \ {0}, key : Keys \cup {NoKey}]
    /\ NoOffer \notin Offers

ASSUME BalanceAssumption == InitialBalance \in [Wallets -> Nat]

ASSUME LimitsAssumption ==
    /\ Tier \in [Wallets -> 0 .. 2]
    /\ SingleLimit \in [1 .. 2 -> Nat]
    /\ DailyLimit \in [1 .. 2 -> Nat]
    /\ {DayLength, DuplicateWindow, RapidWindow, RapidCount, FlagThreshold, MaxClock}
         \subseteq Nat
    /\ DayLength > 0

VARIABLES
    req,                \* the body each request carries
    pc,                 \* where each handler is
    snap,               \* the balances in the handler's two ORM wallet objects
    stamp,              \* now() of the handler's database transaction
    lock,               \* the holder of each wallet's row lock
    balance,            \* committed wallets.balance
    txns,               \* committed transactions (all of them COMPLETED)
    ledger,             \* committed ledger entries of each wallet, oldest first
    queue,              \* tasks handed to the broker
    deliveries,         \* transactions with a webhook delivery record
    audited,            \* transactions with an audit log entry
    reply,              \* the response to each request
    clock               \* wall clock

db == <<balance, txns, ledger>>
effects == <<queue, deliveries, audited>>
vars == <<req, pc, snap, stamp, lock, db, effects, reply, clock>>

Working == {"source", "destination", "key", "daily", "duplicate", "lock_first",
            "lock_second", "balance", "insert", "commit", "flag", "notify", "audit"}
Statuses == {"none", "created", "refused", "kyc_tier", "daily_limit",
             "duplicate", "insufficient", "error", "lost"}
Tasks == {"flag_transaction_risk", "deliver_merchant_webhook"} \X Requests
NoReply == [status |-> "none", txn |-> NoRequest]

Entry == [txn : Requests, type : {"debit", "credit"}, amount : Nat, after : Nat]

TypeOK ==
    /\ req \in [Requests -> Offers \cup {NoOffer}]
    /\ pc \in [Requests -> Working \cup {"idle", "done"}]
    /\ \A r \in Requests : pc[r] # "idle" => req[r] \in Offers
    /\ snap \in [Requests -> [src : Nat, dst : Nat]]
    /\ stamp \in [Requests -> Nat]
    /\ lock \in [Wallets -> Requests \cup {NoRequest}]
    /\ balance \in [Wallets -> Nat]
    /\ txns \subseteq Requests
    /\ ledger \in [Wallets -> Seq(Entry)]
    /\ queue \subseteq Tasks
    /\ deliveries \subseteq Requests
    /\ audited \subseteq Requests
    /\ reply \in [Requests -> [status : Statuses, txn : Requests \cup {NoRequest}]]
    /\ clock \in Nat

Init ==
    /\ req = [r \in Requests |-> NoOffer]
    /\ pc = [r \in Requests |-> "idle"]
    /\ snap = [r \in Requests |-> [src |-> 0, dst |-> 0]]
    /\ stamp = [r \in Requests |-> 0]
    /\ lock = [w \in Wallets |-> NoRequest]
    /\ balance = InitialBalance
    /\ txns = {}
    /\ ledger = [w \in Wallets |-> <<>>]
    /\ queue = {} /\ deliveries = {} /\ audited = {}
    /\ reply = [r \in Requests |-> NoReply]
    /\ clock = 0
-----------------------------------------------------------------------------
(* What the handlers compute. *)

InFlight(r) == pc[r] \in Working

Src(r) == req[r].src
Dst(r) == req[r].dst
Amount(r) == req[r].amount
Key(r) == req[r].key
Parties(r) == {Src(r), Dst(r)}

(***************************************************************************)
(* Definitions whose comment starts with "Fault" take no part in the       *)
(* specification.  Each is the definition it stands in front of with one   *)
(* slip, and a property is expected to fail when it takes that place.      *)
(***************************************************************************)

(* Fault: the wallets are locked in the order the request names them *)
FirstUnsorted(r) == Src(r)

(* sorted([...], key=str): the wallet locked first and the one locked second *)
First(r) == IF Src(r) < Dst(r) THEN Src(r) ELSE Dst(r)
Second(r) == IF First(r) = Src(r) THEN Dst(r) ELSE Src(r)

(* get_by_idempotency_key *)
KeyHolders(key) == {t \in txns : key # NoKey /\ Key(t) = key}

(* get_daily_outgoing_sum *)
DayStart(now) == now - (now % DayLength)
OutgoingSince(w, kind, since) ==
    {t \in txns : Src(t) = w /\ req[t].kind = kind /\ stamp[t] >= since}
DailySum(r) ==
    MapThenSumSet(Amount, OutgoingSince(Src(r), req[r].kind, DayStart(clock)))

OverSingleLimit(r) == Tier[Src(r)] # 0 => Amount(r) > SingleLimit[Tier[Src(r)]]
OverDailyLimit(r) == DailySum(r) + Amount(r) > DailyLimit[Tier[Src(r)]]

(* Fault: a twin exactly as old as the window no longer counts *)
RecentTwinsAfter(r) ==
    {t \in OutgoingSince(Src(r), "transfer", clock - DuplicateWindow + 1) :
        Dst(t) = Dst(r) /\ Amount(t) = Amount(r)}

(* count_recent_transfers *)
RecentTwins(r) ==
    {t \in OutgoingSince(Src(r), "transfer", clock - DuplicateWindow) :
        Dst(t) = Dst(r) /\ Amount(t) = Amount(r)}

(* Fault: the recipients are those before this transfer *)
EarlierRecipients(r) ==
    {Dst(t) : t \in OutgoingSince(Src(r), "transfer", clock - RapidWindow) \ {r}}

(* count_distinct_recipients_recently *)
RecentRecipients(r) ==
    {Dst(t) : t \in OutgoingSince(Src(r), "transfer", clock - RapidWindow)}

FlagDue(r) ==
    IF req[r].kind = "transfer"
    THEN Cardinality(RecentRecipients(r)) > RapidCount
    ELSE Tier[Src(r)] = 1 /\ Amount(r) > FlagThreshold

(* Parties the handler refuses before it reads anything else of them. *)
SourceRefused(r) ==
    IF req[r].kind = "transfer"
    THEN Src(r) \in Inactive
    ELSE Dst(r) \in Closed \/ Src(r) = Dst(r) \/ Src(r) \in Inactive
DestinationRefused(r) == Src(r) = Dst(r) \/ Dst(r) \in Inactive

(* What the commit writes: balances and ledger entries computed from snap. *)
SourceAfter(r) == snap[r].src - Amount(r)
(* Fault: the locked rows are mapped back to the wrong parties *)
DestinationAfterSwapped(r) == snap[r].src + Amount(r)

DestinationAfter(r) == snap[r].dst + Amount(r)
(* Fault: only the debited wallet's balance is updated *)
PostedDebit(r) == [balance EXCEPT ![Src(r)] = SourceAfter(r)]

Posted(r) ==
    [balance EXCEPT ![Src(r)] = SourceAfter(r), ![Dst(r)] = DestinationAfter(r)]
Debit(r) == [txn |-> r, type |-> "debit", amount |-> Amount(r),
             after |-> SourceAfter(r)]
Credit(r) == [txn |-> r, type |-> "credit", amount |-> Amount(r),
              after |-> DestinationAfter(r)]
DoubleEntry(r) ==
    [w \in Wallets |-> CASE w = Src(r) -> Append(ledger[w], Debit(r))
                         [] w = Dst(r) -> Append(ledger[w], Credit(r))
                         [] OTHER -> ledger[w]]

(* The end of a database transaction frees the row locks it holds. *)
Released(r) == [w \in Wallets |-> IF lock[w] = r THEN NoRequest ELSE lock[w]]
-----------------------------------------------------------------------------
(* Control: a handler at one phase goes on to the next, or ends. *)

Goto(r, from, to) == pc[r] = from /\ pc' = [pc EXCEPT ![r] = to]

Finish(r, status, t) ==
    /\ pc' = [pc EXCEPT ![r] = "done"]
    /\ reply' = [reply EXCEPT ![r] = [status |-> status, txn |-> t]]
    /\ lock' = Released(r)

Reject(r, status) ==
    /\ Finish(r, status, NoRequest)
    /\ UNCHANGED <<req, snap, stamp, db, effects, clock>>

(* A request arrives; get_current_user's query begins the transaction. *)
Arrive(r, o) ==
    /\ Goto(r, "idle", "source")
    /\ req' = [req EXCEPT ![r] = o]
    /\ stamp' = [stamp EXCEPT ![r] = clock]
    /\ UNCHANGED <<snap, lock, db, effects, reply, clock>>

(* get_by_user_id of the sender or payer *)
LoadSource(r) ==
    /\ Goto(r, "source", "destination")
    /\ ~SourceRefused(r)
    /\ snap' = [snap EXCEPT ![r].src = balance[Src(r)]]
    /\ UNCHANGED <<req, stamp, lock, db, effects, reply, clock>>

(* get_by_user_id of the recipient or merchant *)
LoadDestination(r) ==
    /\ Goto(r, "destination", "key")
    /\ ~DestinationRefused(r)
    /\ snap' = [snap EXCEPT ![r].dst = balance[Dst(r)]]
    /\ UNCHANGED <<req, stamp, lock, db, effects, reply, clock>>

Refuse(r) ==
    /\ \/ pc[r] = "source" /\ SourceRefused(r)
       \/ pc[r] = "destination" /\ DestinationRefused(r)
    /\ Reject(r, "refused")

(* A key that was already used: the transaction it created is the answer. *)
Replay(r) ==
    /\ pc[r] = "key"
    /\ \E t \in KeyHolders(Key(r)) : Finish(r, "created", t)
    /\ UNCHANGED <<req, snap, stamp, db, effects, clock>>

KeyUnused(r) ==
    /\ Goto(r, "key", "daily")
    /\ KeyHolders(Key(r)) = {}
    /\ UNCHANGED <<req, snap, stamp, lock, db, effects, reply, clock>>

(* check_transfer, check_merchant_payment: KYC tier and daily volume ... *)
CheckLimits(r) ==
    /\ Goto(r, "daily", IF req[r].kind = "transfer" THEN "duplicate" ELSE "lock_first")
    /\ ~OverSingleLimit(r) /\ ~OverDailyLimit(r)
    /\ UNCHANGED <<req, snap, stamp, lock, db, effects, reply, clock>>

OverLimit(r) ==
    /\ pc[r] = "daily"
    /\ \/ OverSingleLimit(r) /\ Reject(r, "kyc_tier")
       \/ ~OverSingleLimit(r) /\ OverDailyLimit(r) /\ Reject(r, "daily_limit")

(* ... and, for transfers, a recent identical one *)
CheckDuplicate(r) ==
    /\ Goto(r, "duplicate", "lock_first")
    /\ RecentTwins(r) = {}
    /\ UNCHANGED <<req, snap, stamp, lock, db, effects, reply, clock>>

Duplicate(r) ==
    /\ pc[r] = "duplicate"
    /\ RecentTwins(r) # {}
    /\ Reject(r, "duplicate")

(* SELECT ... FOR UPDATE waits for the row, then changes no loaded object. *)
Lock(r, w, from, to) ==
    /\ Goto(r, from, to)
    /\ lock[w] = NoRequest
    /\ lock' = [lock EXCEPT ![w] = r]
    /\ UNCHANGED <<req, snap, stamp, db, effects, reply, clock>>

LockFirst(r) == Lock(r, First(r), "lock_first", "lock_second")
LockSecond(r) == Lock(r, Second(r), "lock_second", "balance")

(* Fault: the balance check is missing *)
AssumeBalance(r) ==
    /\ Goto(r, "balance", "insert")
    /\ UNCHANGED <<req, snap, stamp, lock, db, effects, reply, clock>>

CheckBalance(r) ==
    /\ Goto(r, "balance", "insert")
    /\ snap[r].src >= Amount(r)
    /\ UNCHANGED <<req, snap, stamp, lock, db, effects, reply, clock>>

InsufficientBalance(r) ==
    /\ pc[r] = "balance"
    /\ snap[r].src < Amount(r)
    /\ Reject(r, "insufficient")

(* Fault: no unique constraint, so an uncommitted key holds nobody up *)
NeverPending(r) == FALSE

(* The INSERT waits while another open transaction holds the same key ... *)
KeyPending(r) ==
    \E t \in Requests \ {r} :
        pc[t] = "commit" /\ Key(t) = Key(r) /\ Key(r) # NoKey

Insert(r) ==
    /\ Goto(r, "insert", "commit")
    /\ ~KeyPending(r)
    /\ KeyHolders(Key(r)) = {}
    /\ UNCHANGED <<req, snap, stamp, lock, db, effects, reply, clock>>

(* Fault: the conflicting request answers with its own, rolled back row *)
KeyConflictOwnRow(r) ==
    /\ pc[r] = "insert"
    /\ KeyHolders(Key(r)) # {}
    /\ Finish(r, "created", r)
    /\ UNCHANGED <<req, snap, stamp, db, effects, clock>>

(* ... and raises IntegrityError when that one committed: roll back, fetch  *)
(* the committed transaction and answer with it.                            *)
KeyConflict(r) ==
    /\ pc[r] = "insert"
    /\ ~KeyPending(r)
    /\ \E t \in KeyHolders(Key(r)) : Finish(r, "created", t)
    /\ UNCHANGED <<req, snap, stamp, db, effects, clock>>

Commit(r) ==
    /\ Goto(r, "commit", "flag")
    /\ balance' = Posted(r)
    /\ ledger' = DoubleEntry(r)
    /\ txns' = txns \cup {r}
    /\ lock' = Released(r)
    /\ UNCHANGED <<req, snap, stamp, effects, reply, clock>>

(* maybe_flag_rapid_transfers, maybe_flag_merchant_payment *)
Flag(r) ==
    /\ Goto(r, "flag", IF req[r].kind = "transfer" THEN "audit" ELSE "notify")
    /\ queue' = IF FlagDue(r) THEN queue \cup {<<"flag_transaction_risk", r>>}
                              ELSE queue
    /\ UNCHANGED <<req, snap, stamp, lock, db, deliveries, audited, reply, clock>>

(* The broker refuses the task: nothing catches what .delay raises. *)
FlagFails(r) ==
    /\ pc[r] = "flag"
    /\ FlagDue(r)
    /\ Reject(r, "error")

(* create_and_enqueue: a record, and a task unless the broker refuses it *)
Notify(r) ==
    /\ Goto(r, "notify", "audit")
    /\ IF Dst(r) \in Webhooks
       THEN /\ deliveries' = deliveries \cup {r}
            /\ queue' \in {queue, queue \cup {<<"deliver_merchant_webhook", r>>}}
       ELSE UNCHANGED <<deliveries, queue>>
    /\ UNCHANGED <<req, snap, stamp, lock, db, audited, reply, clock>>

Audit(r) ==
    /\ pc[r] = "audit"
    /\ audited' = audited \cup {r}
    /\ Finish(r, "created", r)
    /\ UNCHANGED <<req, snap, stamp, db, queue, deliveries, clock>>

(* The process dies or the connection breaks: the transaction rolls back. *)
Crash(r) ==
    /\ InFlight(r)
    /\ Reject(r, "lost")

(* Time passes, while nobody but these requests is in flight. *)
Tick(busy) ==
    /\ clock < MaxClock
    /\ \A r \in Requests : InFlight(r) => r \in busy
    /\ clock' = clock + 1
    /\ UNCHANGED <<req, pc, snap, stamp, lock, db, effects, reply>>

(* Every request was served. *)
Served ==
    /\ \A r \in Requests : pc[r] = "done"
    /\ UNCHANGED vars

(* What the handler of r does when it runs. *)
Serve(r) ==
    \/ LoadSource(r) \/ LoadDestination(r) \/ Refuse(r)
    \/ Replay(r) \/ KeyUnused(r)
    \/ CheckLimits(r) \/ OverLimit(r) \/ CheckDuplicate(r) \/ Duplicate(r)
    \/ LockFirst(r) \/ LockSecond(r)
    \/ CheckBalance(r) \/ InsufficientBalance(r)
    \/ Insert(r) \/ KeyConflict(r) \/ Commit(r)
    \/ Flag(r) \/ FlagFails(r) \/ Notify(r) \/ Audit(r)

Next ==
    \/ \E r \in Requests :
        \/ \E o \in Offers : Arrive(r, o)
        \/ Serve(r)
        \/ Crash(r)
    \/ Tick(Requests)
    \/ Served

Spec == Init /\ [][Next]_vars

(* The server runs every handler that is not waiting; clients owe nothing. *)
FairSpec == Spec /\ \A r \in Requests : WF_vars(Serve(r))
-----------------------------------------------------------------------------
(***************************************************************************)
(* What holds however requests overlap.                                    *)
(***************************************************************************)

(* wallets.balance is the balance_after of the wallet's newest ledger       *)
(* entry: both are written by one commit (transfer.py 131-159), whatever    *)
(* other handler commits, crashes or conflicts in between.                  *)
BalanceAfter(w, i) == IF i = 0 THEN InitialBalance[w] ELSE ledger[w][i].after
LatestSnapshot == \A w \in Wallets : balance[w] = BalanceAfter(w, Len(ledger[w]))

(* Two handlers between lock_for_update and commit work on disjoint wallets, *)
(* and the one that has both locks is named in both rows (transfer.py        *)
(* 103-117).                                                                 *)
Locking == {"balance", "insert", "commit"}
MutualExclusion ==
    \A r, s \in Requests :
        r # s /\ pc[r] \in Locking /\ pc[s] \in Locking
            => Parties(r) \cap Parties(s) = {}

(* An idempotency key moves money once, however often it is sent, and       *)
(* whether or not an earlier attempt got its response: the pre-check, the   *)
(* unique column and the IntegrityError path together (transfer.py 89-169). *)
OncePerKey ==
    \A t, u \in txns : Key(t) = Key(u) /\ Key(t) # NoKey => t = u

(* A 201 names a committed transaction with the key the caller sent, so all *)
(* the 201s of a key name the same one, also when the transaction was       *)
(* another request's that committed between the pre-check and the INSERT.   *)
IdempotentReplies ==
    \A r \in Requests : reply[r].status = "created" =>
        /\ reply[r].txn \in txns
        /\ Key(reply[r].txn) = Key(r)
        /\ \A s \in Requests :
              reply[s].status = "created" /\ Key(s) = Key(r) /\ Key(r) # NoKey
                  => reply[s].txn = reply[r].txn

(* A sender who reached more than RapidCount distinct recipients within the *)
(* window has a transaction handed to flag_transaction_risk once its        *)
(* handlers are through: each counts after its own commit, so the last one  *)
(* counts them all (fraud.py 110-134).  Handlers that never got a response  *)
(* out are excepted.                                                        *)
RapidTransfersFlagged ==
    \A w \in Wallets :
        /\ \A r \in Requests : pc[r] # "idle" /\ Src(r) = w =>
              pc[r] = "done" /\ reply[r].status \notin {"error", "lost"}
        /\ Cardinality({Dst(t) : t \in OutgoingSince(w, "transfer", clock - RapidWindow)})
              > RapidCount
        => \E t \in txns : Src(t) = w /\ <<"flag_transaction_risk", t>> \in queue

(* Every request that arrives is answered: waiting for row locks taken in   *)
(* UUID order and for an uncommitted key never closes a cycle (transfer.py  *)
(* 103-108, merchant_payment.py 103-108).                                   *)
EveryRequestAnswered ==
    \A r \in Requests : pc[r] = "source" ~> pc[r] = "done"

(***************************************************************************)
(* What the docs say of every run, and holds when requests do not overlap. *)
(***************************************************************************)

(* Each ledger entry continues the balance the entry before it left, so no  *)
(* movement is computed from a balance that another one already changed.    *)
Change(e) == IF e.type = "credit" THEN e.amount ELSE -e.amount
LedgerChains ==
    \A w \in Wallets : \A i \in 1 .. Len(ledger[w]) :
        ledger[w][i].after = BalanceAfter(w, i - 1) + Change(ledger[w][i])

(* What a user moved on one day, per type, is within the tier's daily limit *)
(* (_enforce_daily_limit reads a sum that it does not lock).                *)
DailyLimitKept ==
    \A w \in Wallets, kind \in Kinds, day \in 0 .. MaxClock :
        LET moved == {t \in OutgoingSince(w, kind, 0) : DayStart(stamp[t]) = day}
        IN  moved # {} => MapThenSumSet(Amount, moved) <= DailyLimit[Tier[w]]

(* Two transfers of one amount from one wallet to another are further apart *)
(* than the duplicate window (_enforce_no_duplicate_transfer).              *)
NoTwins ==
    \A t, u \in txns :
        /\ t # u /\ req[t].kind = "transfer" /\ req[u].kind = "transfer"
        /\ Parties(t) = Parties(u) /\ Src(t) = Src(u) /\ Amount(t) = Amount(u)
        => stamp[t] - stamp[u] > DuplicateWindow \/ stamp[u] - stamp[t] > DuplicateWindow

(* The rules of FraudService that look at earlier movements.                *)
LimitsKept == DailyLimitKept /\ NoTwins

(* A committed movement is acknowledged: the post-commit flag "never blocks *)
(* the response" (transfer.py 171, fraud.py 22-23).                         *)
CommittedIsAcknowledged ==
    \A t \in txns : pc[t] = "done" => reply[t].status # "error"

(* Requests that share a wallet are not in flight together, and the clock   *)
(* stands still while a request is: the load under which a handler's reads  *)
(* cannot go stale.                                                         *)
ArriveAlone(r, o) ==
    /\ Arrive(r, o)
    /\ \A s \in Requests : InFlight(s) => Parties(s) \cap {o.src, o.dst} = {}

IsolatedNext ==
    \/ \E r \in Requests :
        \/ \E o \in Offers : ArriveAlone(r, o)
        \/ Serve(r)
        \/ Crash(r)
    \/ Tick({})
    \/ Served

IsolatedSpec == Init /\ [][IsolatedNext]_vars

(* Under that load the handlers implement the abstract ledger: the commit   *)
(* is its Post, every other step leaves it alone.                           *)
Abstract ==
    INSTANCE AtomicLedger
        WITH Ids <- Requests,
             journal <- {[id |-> t, offer |-> req[t]] : t \in txns}
AtomicTransfers == Abstract!Spec
=============================================================================
