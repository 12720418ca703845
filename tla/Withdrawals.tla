----------------------------- MODULE Withdrawals -----------------------------
(***************************************************************************)
(* Withdrawals of one user of KYC tier 2 whose wallet is active (others are *)
(* refused before anything is read or written), from request to bank:      *)
(*   - WithdrawalService.initiate_withdrawal and remove_bank_account,      *)
(*     request handlers on the user's wallet and bank accounts;            *)
(*   - execute_payout, the Celery task process_withdrawal;                 *)
(*   - process_payout_success and process_payout_failure, run by the task  *)
(*     of a transfer.success, transfer.failed or transfer.reversed event;  *)
(*   - the part of check_stale_transactions that re-enqueues withdrawals.  *)
(* Paystack, the broker and the database's locks are modelled from how     *)
(* this code uses them.  A request inserts at most one row, named by its   *)
(* request.  All requests fall on one day.                                 *)
(*                                                                         *)
(* initiate_withdrawal loads the wallet first and locks it later, and the  *)
(* locked object keeps the balance that was loaded first ("snap").  The    *)
(* payout handlers lock a wallet they have not loaded and see the          *)
(* committed balance, but decide on a status they read before the lock.    *)
(*                                                                         *)
(* Definitions whose comment starts with "Fault" take no part in the       *)
(* specification: each is the next definition with one slip.               *)
(***************************************************************************)
EXTENDS Integers, Sequences, FiniteSetsExt

CONSTANTS
    Requests,           \* requests, and the withdrawal rows they insert
    Accounts,           \* the user's bank accounts
    Offers,             \* request bodies: [op, account, amount]
    NoOffer,            \* the body of a request that has not arrived
    NoTxn,              \* no transaction
    NoOwner,            \* no lock owner
    Workers,            \* Celery worker processes (CELERY_WORKER_CONCURRENCY)
    InitialBalance,     \* the wallet's balance at the start
    SingleLimit,        \* KYC_TIER2_SINGLE_LIMIT
    DailyLimit,         \* KYC_TIER2_DAILY_LIMIT
    MayReverse,         \* whether the bank may return a successful transfer
    MaxSends,           \* bound on the deliveries of one event
    MaxQueued,          \* bound on the waiting payout tasks of one row
    MaxFaults,          \* bound on failures that leave the task or a sweep to retry
    MaxLost             \* bound on failures that lose an event or a dispatch

ASSUME OffersAssumption ==
    /\ Offers \subseteq [op : {"withdraw", "remove"}, account : Accounts, amount : Nat]
    /\ \A o \in Offers : o.op = "withdraw" => o.amount > 0
    /\ NoOffer \notin Offers
ASSUME NamesAssumption ==
    /\ NoTxn \notin Requests /\ NoOwner \notin Workers
    /\ IsFiniteSet(Requests)
ASSUME BoundsAssumption ==
    /\ {InitialBalance, SingleLimit, DailyLimit, MaxSends, MaxQueued, MaxFaults, MaxLost}
         \subseteq Nat
    /\ MayReverse \in BOOLEAN

VARIABLES
    req,                \* the body each request carries
    pc,                 \* where each request handler is
    snap,               \* the balance in the handler's ORM wallet object
    reply,              \* the response to each request
    removed,            \* soft-deleted bank accounts
    recipients,         \* accounts with a paystack_recipient_code
    status,             \* committed transactions.status ("absent": no row)
    balance,            \* committed wallets.balance
    ledger,             \* committed DEBIT entries of the wallet
    audited,            \* audit entries: [action, txn]
    xfer,               \* the transfer Paystack keeps for each reference
    sends,              \* deliveries of each event so far
    queue,              \* waiting tasks at the broker
    worker,             \* what each worker does
    rowLock,            \* the worker that updated the row and has not committed
    walletLock,         \* the worker that holds the wallet's row lock
    faults, lost        \* failures so far

api == <<req, pc, snap, reply>>
db == <<removed, recipients, status, balance, ledger, audited>>
paystack == <<xfer, sends>>
locks == <<rowLock, walletLock>>
failures == <<faults, lost>>
vars == <<api, db, paystack, queue, worker, locks, failures>>

Working == {"wallet", "limits", "active", "account", "commit", "enqueue",
            "find", "busy", "delete"}
Results == {"success", "failed"}
Tasks == ({"payout"} \cup Results) \X Requests
Steps == {"idle", "read", "account", "mark", "dispatch", "commit", "lock", "settle"}
Idle == [kind |-> "none", txn |-> NoTxn, step |-> "idle", seen |-> 0]
Statuses == {"absent", "pending", "processing", "completed", "failed"}

TypeOK ==
    /\ req \in [Requests -> Offers \cup {NoOffer}]
    /\ pc \in [Requests -> Working \cup {"idle", "done"}]
    /\ snap \in [Requests -> Nat]
    /\ reply \in [Requests -> {"none", "created", "removed", "limit", "already_pending",
                               "not_found", "insufficient", "forbidden", "error", "lost"}]
    /\ removed \subseteq Accounts /\ recipients \subseteq Accounts
    /\ status \in [Requests -> Statuses]
    /\ balance \in Nat
    /\ ledger \in Seq([txn : Requests, after : Nat])
    /\ audited \subseteq [action : {"initiated", "completed", "failed"}, txn : Requests]
    /\ xfer \in [Requests -> {"none", "pending", "success", "failed", "reversed"}]
    /\ sends \in [Results \X Requests -> 0 .. MaxSends]
    /\ queue \in [Tasks -> Nat]
    /\ worker \in [Workers -> [kind : {"none", "payout"} \cup Results,
                               txn : Requests \cup {NoTxn}, step : Steps, seen : Nat]]
    /\ rowLock \in [Requests -> Workers \cup {NoOwner}]
    /\ walletLock \in Workers \cup {NoOwner}
    /\ faults \in 0 .. MaxFaults /\ lost \in 0 .. MaxLost

Init ==
    /\ req = [r \in Requests |-> NoOffer]
    /\ pc = [r \in Requests |-> "idle"]
    /\ snap = [r \in Requests |-> 0]
    /\ reply = [r \in Requests |-> "none"]
    /\ removed = {} /\ recipients = {} /\ audited = {}
    /\ status = [r \in Requests |-> "absent"]
    /\ balance = InitialBalance
    /\ ledger = <<>>
    /\ xfer = [r \in Requests |-> "none"]
    /\ sends = [e \in Results \X Requests |-> 0]
    /\ queue = [k \in Tasks |-> 0]
    /\ worker = [w \in Workers |-> Idle]
    /\ rowLock = [r \in Requests |-> NoOwner]
    /\ walletLock = NoOwner
    /\ faults = 0 /\ lost = 0

Amount(t) == req[t].amount
Account(t) == req[t].account
InFlight(r) == pc[r] \in Working

(* _get_active_withdrawal *)
Active == {t \in Requests : status[t] \in {"pending", "processing"}}
Completed == {t \in Requests : status[t] = "completed"}
-----------------------------------------------------------------------------
(* The request handlers. *)

Goto(r, from, to) == pc[r] = from /\ pc' = [pc EXCEPT ![r] = to]
World == <<db, paystack, queue, worker, locks, failures>>

Pass(r, from, to) == Goto(r, from, to) /\ UNCHANGED <<req, snap, reply, World>>
Answer(r, from, answer) ==
    /\ Goto(r, from, "done")
    /\ reply' = [reply EXCEPT ![r] = answer]
    /\ UNCHANGED <<req, snap, World>>

Arrive(r, o) ==
    /\ Goto(r, "idle", IF o.op = "withdraw" THEN "wallet" ELSE "find")
    /\ req' = [req EXCEPT ![r] = o]
    /\ UNCHANGED <<snap, reply, World>>

LoadWallet(r) ==
    /\ Goto(r, "wallet", "limits")
    /\ snap' = [snap EXCEPT ![r] = balance]
    /\ UNCHANGED <<req, reply, World>>

(* check_withdrawal: COMPLETED withdrawals count towards the day's volume. *)
OverLimit(r) ==
    \/ Amount(r) > SingleLimit
    \/ MapThenSumSet(Amount, Completed) + Amount(r) > DailyLimit
CheckLimits(r) == Pass(r, "limits", "active") /\ ~OverLimit(r)
ExceedLimits(r) == Answer(r, "limits", "limit") /\ OverLimit(r)

(* Fault: only a withdrawal that is being processed counts as active *)
NoneProcessing(r) ==
    Pass(r, "active", "account") /\ {t \in Active : status[t] = "processing"} = {}

(* None active, one, or several, which scalar_one_or_none does not accept *)
NoneActive(r) == Pass(r, "active", "account") /\ Active = {}
AlreadyPending(r) == Answer(r, "active", "already_pending") /\ Cardinality(Active) = 1
SeveralActive(r) ==
    \E p \in {"active", "busy"} : Answer(r, p, "error") /\ Cardinality(Active) > 1

AccountFound(r) == Pass(r, "account", "commit") /\ Account(r) \notin removed
AccountMissing(r) ==
    \E p \in {"account", "find"} : Answer(r, p, "not_found") /\ Account(r) \in removed

(* The wallet's lock is free, and is held from here to the commit. *)
Insufficient(r) ==
    /\ Answer(r, "commit", "insufficient")
    /\ walletLock = NoOwner /\ snap[r] < Amount(r)

(* Fault: the balance check is missing *)
CommitUnchecked(r) ==
    /\ Goto(r, "commit", "enqueue")
    /\ walletLock = NoOwner
    /\ status' = [status EXCEPT ![r] = "pending"]
    /\ balance' = snap[r] - Amount(r)
    /\ UNCHANGED <<req, snap, reply, removed, recipients, ledger, audited, paystack,
                   queue, worker, locks, failures>>

Commit(r) ==
    /\ Goto(r, "commit", "enqueue")
    /\ walletLock = NoOwner /\ snap[r] >= Amount(r)
    /\ status' = [status EXCEPT ![r] = "pending"]
    /\ balance' = snap[r] - Amount(r)
    /\ UNCHANGED <<req, snap, reply, removed, recipients, ledger, audited, paystack,
                   queue, worker, locks, failures>>

(* The broker may refuse the task, which is logged; then the audit entry.    *)
Enqueue(r) ==
    /\ Goto(r, "enqueue", "done")
    /\ reply' = [reply EXCEPT ![r] = "created"]
    /\ queue' \in {queue, [queue EXCEPT ![<<"payout", r>>] = @ + 1]}
    /\ audited' = audited \cup {[action |-> "initiated", txn |-> r]}
    /\ UNCHANGED <<req, snap, removed, recipients, status, balance, ledger, paystack,
                   worker, locks, failures>>

(* remove_bank_account: the account, the active withdrawal, the soft delete *)
FindAccount(r) == Pass(r, "find", "busy") /\ Account(r) \notin removed

AccountFree(r) ==
    /\ Pass(r, "busy", "delete")
    /\ Cardinality(Active) <= 1 /\ \A t \in Active : Account(t) # Account(r)
AccountBusy(r) ==
    /\ Answer(r, "busy", "forbidden")
    /\ \E t \in Requests : Active = {t} /\ Account(t) = Account(r)

Delete(r) ==
    /\ Goto(r, "delete", "done")
    /\ reply' = [reply EXCEPT ![r] = "removed"]
    /\ removed' = removed \cup {Account(r)}
    /\ UNCHANGED <<req, snap, recipients, status, balance, ledger, audited, paystack,
                   queue, worker, locks, failures>>

ApiCrash(r) == \E p \in Working : Answer(r, p, "lost")
-----------------------------------------------------------------------------
(* Paystack and the webhook endpoint. *)

Complete(t) ==
    /\ xfer[t] = "pending"
    /\ \E result \in Results : xfer' = [xfer EXCEPT ![t] = result]
    /\ UNCHANGED <<api, db, sends, queue, worker, locks, failures>>

Reverse(t) ==
    /\ MayReverse /\ xfer[t] = "success"
    /\ xfer' = [xfer EXCEPT ![t] = "reversed"]
    /\ UNCHANGED <<api, db, sends, queue, worker, locks, failures>>

(* transfer.failed and transfer.reversed go to one handler. *)
Happened(result, t) ==
    xfer[t] \in (IF result = "success" THEN {"success", "reversed"}
                                       ELSE {"failed", "reversed"})

(* An event is posted, possibly again, and acknowledged even if the broker *)
(* did not take its task.                                                  *)
Deliver(result, t) ==
    LET e == <<result, t>>
    IN  /\ Happened(result, t) /\ sends[e] < MaxSends
        /\ sends' = [sends EXCEPT ![e] = @ + 1]
        /\ \/ queue' = [queue EXCEPT ![e] = @ + 1] /\ lost' = lost
           \/ lost < MaxLost /\ lost' = lost + 1 /\ queue' = queue
        /\ UNCHANGED <<api, db, xfer, worker, locks, faults>>
-----------------------------------------------------------------------------
(* The workers. *)

At(w, kinds, step) == worker[w].kind \in kinds /\ worker[w].step = step
Txn(w) == worker[w].txn
To(w, step) == worker' = [worker EXCEPT ![w].step = step]

(* The end of a worker's database transaction, committed or not *)
End(w) ==
    /\ worker' = [worker EXCEPT ![w] = Idle]
    /\ rowLock' = [t \in Requests |-> IF rowLock[t] = w THEN NoOwner ELSE rowLock[t]]
    /\ walletLock' = IF walletLock = w THEN NoOwner ELSE walletLock

Quit(w) == End(w) /\ UNCHANGED <<api, db, paystack, queue, failures>>

Take(w, kind, t) ==
    /\ worker[w] = Idle /\ queue[<<kind, t>>] > 0
    /\ queue' = [queue EXCEPT ![<<kind, t>>] = @ - 1]
    /\ worker' = [worker EXCEPT ![w] = [kind |-> kind, txn |-> t, step |-> "read",
                                        seen |-> 0]]
    /\ UNCHANGED <<api, db, paystack, locks, failures>>

(* Fault: the sweep looks for withdrawals that were dispatched *)
SweepProcessing(w, t) ==
    /\ worker[w] = Idle
    /\ status[t] = "processing" /\ queue[<<"payout", t>>] < MaxQueued
    /\ queue' = [queue EXCEPT ![<<"payout", t>>] = @ + 1]
    /\ UNCHANGED <<api, db, paystack, worker, locks, failures>>

(* The sweep finds a PENDING withdrawal.  How old it is is left open: the    *)
(* first task may still be waiting, running or retrying after 30 minutes.   *)
Sweep(w, t) ==
    /\ worker[w] = Idle
    /\ status[t] = "pending" /\ queue[<<"payout", t>>] < MaxQueued
    /\ queue' = [queue EXCEPT ![<<"payout", t>>] = @ + 1]
    /\ UNCHANGED <<api, db, paystack, worker, locks, failures>>

(* execute_payout.  A committed PROCESSING row has its transfer_code, so     *)
(* PENDING is the only status it goes on with.                              *)
StartPayout(w) ==
    /\ At(w, {"payout"}, "read") /\ status[Txn(w)] = "pending"
    /\ To(w, "account")
    /\ UNCHANGED <<api, db, paystack, queue, locks, failures>>
SkipPayout(w) ==
    /\ At(w, {"payout"}, "read") /\ status[Txn(w)] # "pending"
    /\ Quit(w)

(* The account is there, and its recipient is created unless it is cached. *)
FindRecipient(w) ==
    /\ At(w, {"payout"}, "account") /\ Account(Txn(w)) \notin removed
    /\ To(w, "mark")
    /\ UNCHANGED <<api, db, paystack, queue, locks, failures>>
(* Without the account the task ends, and leaves the row as it is. *)
NoAccount(w) ==
    /\ At(w, {"payout"}, "account") /\ Account(Txn(w)) \in removed
    /\ Quit(w)

(* update_status(PROCESSING): its UPDATE waits for the row. *)
MarkProcessing(w) ==
    /\ At(w, {"payout"}, "mark") /\ rowLock[Txn(w)] = NoOwner
    /\ rowLock' = [rowLock EXCEPT ![Txn(w)] = w]
    /\ To(w, "dispatch")
    /\ UNCHANGED <<api, db, paystack, queue, walletLock, failures>>

(* Paystack keeps one transfer per reference. *)
Accepted(t) == IF xfer[t] = "none" THEN [xfer EXCEPT ![t] = "pending"] ELSE xfer

Dispatch(w) ==
    /\ At(w, {"payout"}, "dispatch")
    /\ xfer' = Accepted(Txn(w))
    /\ To(w, "commit")
    /\ UNCHANGED <<api, db, sends, queue, locks, failures>>

CommitPayout(w) ==
    /\ At(w, {"payout"}, "commit")
    /\ status' = [status EXCEPT ![Txn(w)] = "processing"]
    /\ recipients' = recipients \cup {Account(Txn(w))}
    /\ End(w)
    /\ UNCHANGED <<api, removed, balance, ledger, audited, paystack, queue, failures>>

(* Fault: any withdrawal that was not refunded yet is settled *)
UnsettledOrCompleted(w) == status[Txn(w)] \in {"processing", "completed"}

(* process_payout_success and process_payout_failure go on with PROCESSING. *)
Settleable(w) == status[Txn(w)] = "processing"

StartSettling(w) ==
    /\ At(w, Results, "read") /\ Settleable(w)
    /\ To(w, "lock")
    /\ UNCHANGED <<api, db, paystack, queue, locks, failures>>
SkipSettling(w) == At(w, Results, "read") /\ ~Settleable(w) /\ Quit(w)

LockWallet(w) ==
    /\ At(w, Results, "lock") /\ walletLock = NoOwner
    /\ walletLock' = w
    /\ worker' = [worker EXCEPT ![w].step = "settle", ![w].seen = balance]
    /\ UNCHANGED <<api, db, paystack, queue, rowLock, failures>>

(* Fault: transfer.failed is routed to the handler of transfer.success *)
PayoutSucceededAnyway(w) ==
    /\ At(w, Results, "settle") /\ rowLock[Txn(w)] = NoOwner
    /\ ledger' = Append(ledger, [txn |-> Txn(w), after |-> worker[w].seen])
    /\ status' = [status EXCEPT ![Txn(w)] = "completed"]
    /\ audited' = audited \cup {[action |-> "completed", txn |-> Txn(w)]}
    /\ End(w)
    /\ UNCHANGED <<api, removed, recipients, balance, paystack, queue, failures>>

(* The hold becomes a DEBIT entry, the row COMPLETED. *)
PayoutSucceeded(w) ==
    /\ At(w, {"success"}, "settle") /\ rowLock[Txn(w)] = NoOwner
    /\ ledger' = Append(ledger, [txn |-> Txn(w), after |-> worker[w].seen])
    /\ status' = [status EXCEPT ![Txn(w)] = "completed"]
    /\ audited' = audited \cup {[action |-> "completed", txn |-> Txn(w)]}
    /\ End(w)
    /\ UNCHANGED <<api, removed, recipients, balance, paystack, queue, failures>>

(* The hold goes back to the wallet, the row is FAILED. *)
PayoutFailed(w) ==
    /\ At(w, {"failed"}, "settle") /\ rowLock[Txn(w)] = NoOwner
    /\ balance' = worker[w].seen + Amount(Txn(w))
    /\ status' = [status EXCEPT ![Txn(w)] = "failed"]
    /\ audited' = audited \cup {[action |-> "failed", txn |-> Txn(w)]}
    /\ End(w)
    /\ UNCHANGED <<api, removed, recipients, ledger, paystack, queue, failures>>

(* Something raises, or the worker dies: the task is run again, until its   *)
(* retries are used up.  What a later task or a sweep makes good counts as  *)
(* a fault; a result that nobody handles any more, and a transfer that was  *)
(* accepted while its row went back to PENDING, count as lost.              *)
MadeGood(w, again) ==
    worker[w].step # "commit" /\ (again \/ worker[w].kind = "payout")

TaskFails(w) ==
    \E again \in BOOLEAN :
        /\ worker[w] # Idle
        /\ \/ MadeGood(w, again) /\ faults < MaxFaults
              /\ faults' = faults + 1 /\ lost' = lost
           \/ ~MadeGood(w, again) /\ lost < MaxLost
              /\ lost' = lost + 1 /\ faults' = faults
        /\ queue' = IF again THEN [queue EXCEPT ![<<worker[w].kind, Txn(w)>>] = @ + 1]
                             ELSE queue
        /\ End(w)
        /\ UNCHANGED <<api, db, paystack>>

Handle(r) ==
    \/ LoadWallet(r) \/ CheckLimits(r) \/ ExceedLimits(r)
    \/ NoneActive(r) \/ AlreadyPending(r) \/ SeveralActive(r)
    \/ AccountFound(r) \/ AccountMissing(r)
    \/ Insufficient(r) \/ Commit(r) \/ Enqueue(r)
    \/ FindAccount(r) \/ AccountFree(r) \/ AccountBusy(r) \/ Delete(r)

Prepare(w) ==
    \/ \E kind \in {"payout"} \cup Results, t \in Requests : Take(w, kind, t)
    \/ StartPayout(w) \/ SkipPayout(w) \/ FindRecipient(w) \/ NoAccount(w)
    \/ MarkProcessing(w) \/ Dispatch(w) \/ CommitPayout(w)
    \/ StartSettling(w) \/ SkipSettling(w) \/ LockWallet(w)
Settle(w) == PayoutSucceeded(w) \/ PayoutFailed(w)
Work(w) == Prepare(w) \/ Settle(w)

Next ==
    \/ \E r \in Requests :
        \/ \E o \in Offers : Arrive(r, o)
        \/ Handle(r) \/ ApiCrash(r)
        \/ Complete(r) \/ Reverse(r)
        \/ \E result \in Results : Deliver(result, r)
    \/ \E w \in Workers :
        \/ Work(w) \/ TaskFails(w)
        \/ \E t \in Requests : Sweep(w, t)

Spec == Init /\ [][Next]_vars
-----------------------------------------------------------------------------
(* The user has one request in flight, and no withdrawal is settled meanwhile. *)
Quiet == \A r \in Requests : ~InFlight(r)
ArriveAlone(r, o) == Arrive(r, o) /\ Quiet
SettleBetween(w) == Settle(w) /\ Quiet

CalmNext ==
    \/ \E r \in Requests :
        \/ \E o \in Offers : ArriveAlone(r, o)
        \/ Handle(r) \/ ApiCrash(r)
        \/ Complete(r) \/ Reverse(r)
        \/ \E result \in Results : Deliver(result, r)
    \/ \E w \in Workers :
        \/ Prepare(w) \/ SettleBetween(w) \/ TaskFails(w)
        \/ \E t \in Requests : Sweep(w, t)

(* Handlers and workers run, the beat sweeps, Paystack settles transfers and *)
(* posts each event at least once.  What a load keeps back it keeps back for *)
(* a while only, so this asks nothing of it that it cannot do.               *)
Fairness ==
    /\ \A r \in Requests :
        /\ WF_vars(Handle(r)) /\ WF_vars(Complete(r))
        /\ \A result \in Results : WF_vars(Deliver(result, r))
    /\ \A w \in Workers :
        /\ WF_vars(Work(w))
        /\ \A t \in Requests : SF_vars(Sweep(w, t))

CalmSpec == Init /\ [][CalmNext]_vars /\ Fairness
-----------------------------------------------------------------------------
(* What left the balance is held or was paid out: a hold is given back once, *)
(* and no refund or hold overwrites another (withdrawal.py 263-267, 426-435).*)
Held == Active \cup Completed
FundsConserved == balance + MapThenSumSet(Amount, Held) = InitialBalance

(* A withdrawal has one DEBIT entry if it is COMPLETED and none otherwise,   *)
(* however often its events arrive, and the entry's balance_after does not   *)
(* count the hold again (withdrawal.py 351-364).                             *)
DebitsOf(t) == {i \in DOMAIN ledger : ledger[i].txn = t}
DebitedOnce ==
    \A t \in Requests :
        Cardinality(DebitsOf(t)) = IF status[t] = "completed" THEN 1 ELSE 0

(* What was written of a withdrawal, by status, DEBIT entry or audit entry,  *)
(* now or before another task overwrote the status                           *)
PaidOut(t) ==
    \/ status[t] = "completed" \/ DebitsOf(t) # {}
    \/ [action |-> "completed", txn |-> t] \in audited
Refunded(t) == status[t] = "failed" \/ [action |-> "failed", txn |-> t] \in audited

(* The books say of a transfer only what the bank did, whatever overlaps and *)
(* however often or late its events come: no money leaves for a hold that    *)
(* was not committed, PROCESSING is a transfer the bank has, a payout one it *)
(* made, and a refund one it refused or returned, so that only a returned    *)
(* one is ever both (withdrawal.py 321-364, 397-435, 540-558).  Whether one   *)
(* that it returned after the payout is refunded is another matter           *)
(* (ReversedIsRefunded).                                                     *)
OutcomeAgrees ==
    \A t \in Requests :
        /\ xfer[t] # "none" => status[t] # "absent"
        /\ status[t] = "processing" => xfer[t] # "none"
        /\ PaidOut(t) => xfer[t] \in {"success", "reversed"}
        /\ Refunded(t) => xfer[t] \in {"failed", "reversed"}

(* A user has one active withdrawal: the check and the insert are statements *)
(* that nothing ties together (withdrawal.py 228-267).                       *)
OneActive == Cardinality(Active) <= 1

(* The day's withdrawals, held ones included, are within the limit although  *)
(* the sum that is checked counts COMPLETED ones only: the others are none.  *)
DailyLimitKept == MapThenSumSet(Amount, Held) <= DailyLimit

(* The account of an active withdrawal is not removed (withdrawal.py 171-185).*)
NoOrphan == \A t \in Active : Account(t) \notin removed

(* With one request at a time both records of a withdrawal and all three     *)
(* rules hold: the balance and the ledger on one side, what initiate_        *)
(* withdrawal and remove_bank_account check on the other.                    *)
BooksBalance == FundsConserved /\ DebitedOnce
RulesKept == OneActive /\ DailyLimitKept /\ NoOrphan

(* A settled withdrawal stays settled, whatever arrives late.                *)
SettledForGood ==
    [][\A t \in Requests :
          status[t] \in {"completed", "failed"} => status'[t] = status[t]]_vars

(* Every withdrawal is settled one day: a task that the broker refused or    *)
(* that used up its retries is made good by a sweep (withdrawal.py 269-281,  *)
(* reconciliation_tasks.py 94-114).  Nothing makes good an event that was    *)
(* lost, or a dispatch whose commit failed (MaxLost).                        *)
EveryWithdrawalSettled ==
    \A t \in Requests : status[t] = "pending" ~> status[t] \in {"completed", "failed"}

(* A transfer that the bank returned is refunded.                            *)
ReversedIsRefunded ==
    \A t \in Requests : xfer[t] = "reversed" ~> status[t] = "failed"
=============================================================================
