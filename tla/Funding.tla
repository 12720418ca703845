------------------------------- MODULE Funding -------------------------------
(***************************************************************************)
(* Wallet funding through Paystack, from the request that opens a payment  *)
(* to the credit of the wallet:                                            *)
(*   - WalletFundingService.initiate_funding, the request handler;         *)
(*   - the webhook endpoint, which hands charge.success to the broker;     *)
(*   - PaystackWebhookService.process_charge_success, a Celery task;       *)
(*   - reconciliation.check_stale_transactions, the half-hourly beat task. *)
(* Customers, Paystack, the broker and the database's locks are modelled   *)
(* from how this code uses them.                                           *)
(*                                                                         *)
(* A request inserts at most one transaction row, named by its request.    *)
(* update_status checks the status of the loaded object; its UPDATE waits  *)
(* for the row's lock and then overwrites whatever was committed.          *)
(*                                                                         *)
(* Definitions whose comment starts with "Fault" take no part in the       *)
(* specification: each is the next definition with one slip.               *)
(***************************************************************************)
EXTENDS Integers, Sequences, FiniteSets

CONSTANTS
    Requests,           \* funding requests, and the rows they insert
    Offers,             \* request bodies: [wallet, amount, key]
    Wallets,
    Keys,               \* idempotency keys
    NoKey,              \* a request without an idempotency key
    NoOffer,            \* the body of a request that has not arrived
    NoTxn,              \* no transaction
    NoWorker,           \* no lock owner
    Workers,            \* Celery worker processes (CELERY_WORKER_CONCURRENCY)
    Inactive,           \* wallets with is_active false
    MinimumFunding,     \* MINIMUM_FUNDING_NGN
    Reported,           \* pairs: an amount asked for, and one that Paystack reports as paid
    BatchLimit,         \* BATCH_LIMIT of a reconciliation sweep
    MaxSends,           \* bound on the deliveries of one charge.success
    MaxFaults           \* bound on task failures

ASSUME OffersAssumption ==
    /\ Offers \subseteq [wallet : Wallets, amount : Nat \ {0}, key : Keys \cup {NoKey}]
    /\ NoOffer \notin Offers /\ Reported \subseteq Nat \X Nat
ASSUME NamesAssumption ==
    /\ NoTxn \notin Requests /\ NoWorker \notin Workers /\ NoKey \notin Keys
    /\ IsFiniteSet(Requests) /\ IsFiniteSet(Workers)
ASSUME BoundsAssumption ==
    {MinimumFunding, BatchLimit, MaxSends, MaxFaults} \subseteq Nat /\ BatchLimit > 0

VARIABLES
    req,                \* the body each request carries
    pc,                 \* where each request handler is
    reply,              \* the response to each request
    status,             \* committed transactions.status ("absent": no row)
    stale,              \* rows older than STALE_THRESHOLD_MINUTES
    balance,            \* committed wallets.balance
    ledger,             \* committed ledger entries of each wallet
    audited,            \* rows with a wallet.funded audit entry
    paid,               \* payments Paystack has completed
    charged,            \* the amount Paystack reports of each payment
    sends,              \* webhook deliveries of each payment so far
    events,             \* charge.success tasks of each payment at the broker
    worker,             \* what each worker does
    rowLock,            \* the worker that updated the row and has not committed
    walletLock,         \* the worker that holds the wallet's row lock
    faults              \* task failures so far

api == <<req, pc, reply>>
db == <<status, balance, ledger, audited>>
paystack == <<paid, charged, sends>>
vars == <<api, db, stale, paystack, events, worker, rowLock, walletLock, faults>>

Working == {"arrived", "initialize", "insert"}
Steps == {"idle", "read", "mark", "lock", "credit", "audit",
          "verify", "recheck", "mark_failed", "fail"}
Tasks == {"none", "charge", "sweep"}
Idle == [task |-> "none", step |-> "idle", txn |-> NoTxn, todo |-> {}, seen |-> 0]
Entry == [txn : Requests, after : Nat]

TypeOK ==
    /\ req \in [Requests -> Offers \cup {NoOffer}]
    /\ pc \in [Requests -> Working \cup {"idle", "done"}]
    /\ reply \in [Requests ->
          [status : {"none", "url", "refused", "unavailable", "error", "lost"},
           txn : Requests \cup {NoTxn}]]
    /\ status \in [Requests -> {"absent", "pending", "completed", "failed"}]
    /\ stale \subseteq Requests
    /\ balance \in [Wallets -> Nat]
    /\ ledger \in [Wallets -> Seq(Entry)]
    /\ audited \subseteq Requests
    /\ paid \subseteq Requests /\ charged \in [Requests -> Nat]
    /\ sends \in [Requests -> 0 .. MaxSends]
    /\ events \in [Requests -> 0 .. MaxSends]
    /\ worker \in [Workers -> [task : Tasks, step : Steps, txn : Requests \cup {NoTxn},
                               todo : SUBSET Requests, seen : Nat]]
    /\ rowLock \in [Requests -> Workers \cup {NoWorker}]
    /\ walletLock \in [Wallets -> Workers \cup {NoWorker}]
    /\ faults \in 0 .. MaxFaults

Init ==
    /\ req = [r \in Requests |-> NoOffer]
    /\ pc = [r \in Requests |-> "idle"]
    /\ reply = [r \in Requests |-> [status |-> "none", txn |-> NoTxn]]
    /\ status = [r \in Requests |-> "absent"]
    /\ stale = {} /\ audited = {} /\ paid = {}
    /\ charged = [r \in Requests |-> 0]
    /\ balance = [w \in Wallets |-> 0]
    /\ ledger = [w \in Wallets |-> <<>>]
    /\ sends = [r \in Requests |-> 0]
    /\ events = [r \in Requests |-> 0]
    /\ worker = [w \in Workers |-> Idle]
    /\ rowLock = [r \in Requests |-> NoWorker]
    /\ walletLock = [w \in Wallets |-> NoWorker]
    /\ faults = 0

Rows == {t \in Requests : status[t] # "absent"}
Wallet(t) == req[t].wallet
Amount(t) == req[t].amount
Key(t) == req[t].key
-----------------------------------------------------------------------------
(* The request handler. *)

Goto(r, from, to) ==
    /\ pc[r] = from
    /\ pc' = [pc EXCEPT ![r] = to]
    /\ UNCHANGED <<db, stale, paystack, events, worker, rowLock, walletLock, faults>>

Answer(r, from, answer, t) ==
    /\ Goto(r, from, "done")
    /\ reply' = [reply EXCEPT ![r] = [status |-> answer, txn |-> t]]
    /\ req' = req

Refused(r) == Wallet(r) \in Inactive \/ Amount(r) < MinimumFunding

KeyHolders(key) == {t \in Rows : key # NoKey /\ Key(t) = key}

Arrive(r, o) ==
    /\ Goto(r, "idle", "arrived")
    /\ req' = [req EXCEPT ![r] = o]
    /\ reply' = reply

Refuse(r) == Answer(r, "arrived", "refused", NoTxn) /\ Refused(r)

(* A key that was already used: the payment URL of its row, whatever became *)
(* of that row.                                                             *)
Replay(r) ==
    /\ pc[r] = "arrived" /\ ~Refused(r)
    /\ \E t \in KeyHolders(Key(r)) : Answer(r, "arrived", "url", t)

KeyUnused(r) ==
    /\ Goto(r, "arrived", "initialize")
    /\ ~Refused(r) /\ KeyHolders(Key(r)) = {}
    /\ UNCHANGED <<req, reply>>

(* initialize_transaction comes first: no row is written when it fails. *)
Initialize(r) == Goto(r, "initialize", "insert") /\ UNCHANGED <<req, reply>>
PaystackDown(r) == Answer(r, "initialize", "unavailable", NoTxn)

(* The PENDING row is committed; the response that carries the URL may not  *)
(* get through.                                                             *)
Insert(r) ==
    /\ pc[r] = "insert"
    /\ KeyHolders(Key(r)) = {}
    /\ pc' = [pc EXCEPT ![r] = "done"]
    /\ status' = [status EXCEPT ![r] = "pending"]
    /\ reply' \in {[reply EXCEPT ![r] = [status |-> "url", txn |-> r]],
                   [reply EXCEPT ![r] = [status |-> "lost", txn |-> NoTxn]]}
    /\ UNCHANGED <<req, stale, balance, ledger, audited, paystack, events, worker,
                   rowLock, walletLock, faults>>

(* The key was used meanwhile: nothing catches the IntegrityError. *)
KeyConflict(r) ==
    /\ Answer(r, "insert", "error", NoTxn)
    /\ KeyHolders(Key(r)) # {}

ApiCrash(r) == \E p \in Working : Answer(r, p, "lost", NoTxn)
-----------------------------------------------------------------------------
(* Customers, Paystack and the webhook endpoint. *)

(* Whoever holds a row's payment URL can pay it, at any time.  Paystack was  *)
(* asked for the row's amount, but no code compares it with what the event   *)
(* and verify_transaction report.                                            *)
Pay(t) ==
    /\ t \notin paid
    /\ \E r \in Requests : reply[r] = [status |-> "url", txn |-> t]
    /\ paid' = paid \cup {t}
    /\ \E n \in {p[2] : p \in {q \in Reported : q[1] = Amount(t)}} :
          charged' = [charged EXCEPT ![t] = n]
    /\ UNCHANGED <<api, db, stale, sends, events, worker, rowLock, walletLock, faults>>

(* Paystack posts charge.success, possibly again.  The endpoint answers 200 *)
(* also when the broker did not take the task, so that delivery is lost.    *)
Deliver(t) ==
    /\ t \in paid /\ sends[t] < MaxSends
    /\ sends' = [sends EXCEPT ![t] = @ + 1]
    /\ events' \in {events, [events EXCEPT ![t] = @ + 1]}
    /\ UNCHANGED <<api, db, stale, paid, charged, worker, rowLock, walletLock, faults>>

(* STALE_THRESHOLD_MINUTES pass. *)
Age(t) ==
    /\ t \in Rows \ stale
    /\ stale' = stale \cup {t}
    /\ UNCHANGED <<api, db, paystack, events, worker, rowLock, walletLock, faults>>
-----------------------------------------------------------------------------
(* The workers. *)

At(w, step) == worker[w].step = step
Txn(w) == worker[w].txn
Step(w, step) == worker' = [worker EXCEPT ![w].step = step]

(* Where a worker is after a transaction: at the rest of its sweep, or idle. *)
Continue(w, rest) ==
    IF rest # {} THEN [Idle EXCEPT !.task = "sweep", !.step = "verify", !.todo = rest]
                 ELSE Idle
Onward(w) == Continue(w, worker[w].todo)

Release(w) ==
    /\ rowLock' = [t \in Requests |-> IF rowLock[t] = w THEN NoWorker ELSE rowLock[t]]
    /\ walletLock' =
          [v \in Wallets |-> IF walletLock[v] = w THEN NoWorker ELSE walletLock[v]]

(* The transaction is left as it is, and what was locked is rolled back. *)
Leave(w) ==
    /\ worker' = [worker EXCEPT ![w] = Onward(w)]
    /\ Release(w)
    /\ UNCHANGED <<api, db, stale, paystack, events, faults>>

(* Fault: the broker keeps a task that was taken *)
TakeEventKept(w, t) ==
    /\ At(w, "idle") /\ events[t] > 0
    /\ worker' = [worker EXCEPT ![w] =
                     [Idle EXCEPT !.task = "charge", !.step = "read", !.txn = t]]
    /\ UNCHANGED <<api, db, stale, paystack, events, rowLock, walletLock, faults>>

TakeEvent(w, t) ==
    /\ At(w, "idle") /\ events[t] > 0
    /\ events' = [events EXCEPT ![t] = @ - 1]
    /\ worker' = [worker EXCEPT ![w] =
                     [Idle EXCEPT !.task = "charge", !.step = "read", !.txn = t]]
    /\ UNCHANGED <<api, db, stale, paystack, rowLock, walletLock, faults>>

(* Fault: a completed transaction is not skipped *)
ChargeUnguarded(w) == status[Txn(w)] \in {"pending", "completed"}

(* Fault: COMPLETED is the only status that stops it *)
ChargeUnlessCompleted(w) == status[Txn(w)] # "completed"

(* process_charge_success goes on with a PENDING transaction only. *)
Chargeable(w) == status[Txn(w)] = "pending"

ReadCharge(w) ==
    /\ At(w, "read")
    /\ Chargeable(w)
    /\ Step(w, "mark")
    /\ UNCHANGED <<api, db, stale, paystack, events, rowLock, walletLock, faults>>

SkipCharge(w) == At(w, "read") /\ ~Chargeable(w) /\ Leave(w)

(* update_status(PROCESSING): its UPDATE waits for the row. *)
Mark(w, from, to) ==
    /\ At(w, from)
    /\ rowLock[Txn(w)] = NoWorker
    /\ rowLock' = [rowLock EXCEPT ![Txn(w)] = w]
    /\ Step(w, to)
    /\ UNCHANGED <<api, db, stale, paystack, events, walletLock, faults>>

MarkProcessing(w) == Mark(w, "mark", "lock")

(* lock_for_update; the session has no wallet loaded, so this reads it. *)
LockWallet(w) ==
    LET wallet == Wallet(Txn(w))
    IN  /\ At(w, "lock") /\ walletLock[wallet] = NoWorker
        /\ walletLock' = [walletLock EXCEPT ![wallet] = w]
        /\ worker' = [worker EXCEPT ![w].step = "credit", ![w].seen = balance[wallet]]
        /\ UNCHANGED <<api, db, stale, paystack, events, rowLock, faults>>

(* The wallet gets the amount that was reported, not the row's. *)
Credit(w) ==
    LET t == Txn(w)
        after == worker[w].seen + charged[t]
    IN  /\ At(w, "credit")
        /\ balance' = [balance EXCEPT ![Wallet(t)] = after]
        /\ ledger' = [ledger EXCEPT ![Wallet(t)] = Append(@, [txn |-> t, after |-> after])]
        /\ status' = [status EXCEPT ![t] = "completed"]
        /\ Step(w, "audit") /\ Release(w)
        /\ UNCHANGED <<api, audited, stale, paystack, events, faults>>

(* AuditService.log, which swallows its own failures *)
Audit(w) ==
    /\ At(w, "audit")
    /\ audited' \in {audited, audited \cup {Txn(w)}}
    /\ worker' = [worker EXCEPT ![w] = Onward(w)]
    /\ UNCHANGED <<api, status, balance, ledger, stale, paystack, events,
                   rowLock, walletLock, faults>>

(* Fault: only rows whose payment was completed are selected *)
DuePaid == {t \in stale \cap paid : status[t] = "pending"}

(* The sweep's batch: stale PENDING rows in no particular order. *)
Due == {t \in stale : status[t] = "pending"}
Batches ==
    {s \in SUBSET Due : \/ Cardinality(Due) <= BatchLimit /\ s = Due
                        \/ Cardinality(Due) > BatchLimit /\ Cardinality(s) = BatchLimit}

StartSweep(w) ==
    /\ At(w, "idle") /\ Due # {}
    /\ \E batch \in Batches :
          worker' = [worker EXCEPT ![w] =
                        [Idle EXCEPT !.task = "sweep", !.step = "verify", !.todo = batch]]
    /\ UNCHANGED <<api, db, stale, paystack, events, rowLock, walletLock, faults>>

(* Fault: the answer of verify_transaction is misread *)
VerdictFlipped(t) == IF t \in paid THEN "recheck" ELSE "read"

(* verify_transaction tells a completed payment from one that is not (yet). *)
Verdict(t) == IF t \in paid THEN "read" ELSE "recheck"

Verify(w, t) ==
    /\ At(w, "verify") /\ t \in worker[w].todo
    /\ worker' = [worker EXCEPT ![w].step = Verdict(t), ![w].txn = t,
                                ![w].todo = @ \ {t}]
    /\ UNCHANGED <<api, db, stale, paystack, events, rowLock, walletLock, faults>>

(* session.get: the status may have changed since the batch was selected. *)
Recheck(w) ==
    /\ At(w, "recheck")
    /\ status[Txn(w)] = "pending"
    /\ Step(w, "mark_failed")
    /\ UNCHANGED <<api, db, stale, paystack, events, rowLock, walletLock, faults>>

SkipRecheck(w) == At(w, "recheck") /\ status[Txn(w)] # "pending" /\ Leave(w)

MarkFailing(w) == Mark(w, "mark_failed", "fail")

FailTxn(w) ==
    /\ At(w, "fail")
    /\ status' = [status EXCEPT ![Txn(w)] = "failed"]
    /\ worker' = [worker EXCEPT ![w] = Onward(w)]
    /\ Release(w)
    /\ UNCHANGED <<api, balance, ledger, audited, stale, paystack, events, faults>>

(* What follows an exception that _reconcile_funding swallowed *)
Swallowed(w) ==
    IF At(w, "verify") THEN {Continue(w, worker[w].todo \ {t}) : t \in worker[w].todo}
                       ELSE {Onward(w)}

(* Something raises, or the worker dies.  A webhook task is run again, by   *)
(* autoretry or because it was not acknowledged, until its retries are used *)
(* up; a sweep goes on with its next transaction, or ends.                  *)
TaskFails(w) ==
    /\ ~At(w, "idle") /\ faults < MaxFaults
    /\ faults' = faults + 1
    /\ \E next \in {Idle} \cup Swallowed(w) : worker' = [worker EXCEPT ![w] = next]
    /\ Release(w)
    /\ IF worker[w].task = "charge"
       THEN events' \in {events, [events EXCEPT ![Txn(w)] = @ + 1]}
       ELSE events' = events
    /\ UNCHANGED <<api, db, stale, paystack>>

Handle(r) ==
    \/ Refuse(r) \/ Replay(r) \/ KeyUnused(r) \/ Initialize(r) \/ PaystackDown(r)
    \/ Insert(r) \/ KeyConflict(r)

Work(w) ==
    \/ \E t \in Requests : TakeEvent(w, t) \/ Verify(w, t)
    \/ ReadCharge(w) \/ SkipCharge(w) \/ MarkProcessing(w) \/ LockWallet(w)
    \/ Credit(w) \/ Audit(w)
    \/ Recheck(w) \/ SkipRecheck(w) \/ MarkFailing(w) \/ FailTxn(w)

Next ==
    \/ \E r \in Requests :
        \/ \E o \in Offers : Arrive(r, o)
        \/ Handle(r) \/ ApiCrash(r)
        \/ Pay(r) \/ Deliver(r) \/ Age(r)
    \/ \E w \in Workers : Work(w) \/ StartSweep(w) \/ TaskFails(w)

Spec == Init /\ [][Next]_vars

(* Tasks that work on one transaction do not overlap: one worker process, or *)
(* luck.                                                                     *)
Serial ==
    \A v, w \in Workers :
        v # w /\ worker[v].txn = worker[w].txn => worker[v].txn = NoTxn
SerialSpec == Init /\ [][Next /\ Serial']_vars

(* Time passes, workers run the tasks they have and take waiting ones, and   *)
(* some worker gets to the beat's sweep.  Nothing obliges customers to pay   *)
(* or Paystack to deliver.                                                   *)
Fairness ==
    /\ \A t \in Requests : WF_vars(Age(t))
    /\ \A w \in Workers :
        WF_vars(Work(w) /\ Serial') /\ SF_vars(StartSweep(w) /\ Serial')
FairSpec == SerialSpec /\ Fairness
-----------------------------------------------------------------------------
(* Every row is settled one day, with or without a webhook: whatever makes a *)
(* sweep skip it, a later sweep finds it (reconciliation_tasks.py 73-92).    *)
EveryFundingResolved ==
    \A t \in Requests : status[t] = "pending" ~> status[t] \in {"completed", "failed"}

(* A payment that was completed before its row was old enough for a sweep    *)
(* credits the wallet one day, whether or not an event of it is handled: the *)
(* sweep asks Paystack before it fails a row (reconciliation_tasks.py 130-   *)
(* 160).                                                                     *)
PromptPaymentIsCredited ==
    \A t \in Requests : t \in paid /\ t \notin stale ~> status[t] = "completed"

(* The docs say it of every payment.                                         *)
PaidIsCredited == \A t \in Requests : t \in paid ~> status[t] = "completed"

(* An idempotency key opens one payment, however often it is sent            *)
(* (wallet_funding.py 88-108 and the unique column).                         *)
OncePerKey == \A t, u \in Rows : Key(t) = Key(u) /\ Key(t) # NoKey => t = u

(* A key "to safely retry": whoever sends one that has a row gets that row's  *)
(* payment URL (api/v1/wallets.py 38-39, wallet_funding.py 59-62).           *)
RetriesGetTheUrl ==
    \A r \in Requests :
        reply[r].status = "error" => KeyHolders(Key(r)) = {}

(* Ledger entries continue each other by what was paid and end in the        *)
(* balance: two tasks that credit one wallet at the same time wait for each  *)
(* other before they read it (paystack_webhook.py 136-152).                  *)
After(w, i) == IF i = 0 THEN 0 ELSE ledger[w][i].after
LedgerChains ==
    \A w \in Wallets :
        /\ balance[w] = After(w, Len(ledger[w]))
        /\ \A i \in 1 .. Len(ledger[w]) :
              After(w, i) = After(w, i - 1) + charged[ledger[w][i].txn]

(* A funding is credited at most once, and exactly when it is COMPLETED,     *)
(* however often its event is delivered, retried or reconciled.              *)
CreditsOf(t) == {i \in DOMAIN ledger[Wallet(t)] : ledger[Wallet(t)][i].txn = t}
CreditedOnce ==
    \A t \in Rows :
        Cardinality(CreditsOf(t)) = IF status[t] = "completed" THEN 1 ELSE 0

(* One key, one row, one credit that the next ledger entry goes on from.     *)
BooksBalance == OncePerKey /\ LedgerChains /\ CreditedOnce

(* Committed statuses follow VALID_TRANSITIONS: what is settled stays as it  *)
(* is (models/transaction.py 30-38).                                         *)
SettledForGood ==
    [][\A t \in Requests :
          status[t] \in {"completed", "failed"} => status'[t] = status[t]]_vars
=============================================================================
