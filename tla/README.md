# PayCore backend: specifications, model checking and proofs

These TLA+ modules describe how PayCore moves money and what runs next to it: requests,
Celery tasks, beat sweeps, Paystack's callbacks and the database they all share. TLC checks
small instances of them, and TLAPS proves theorems about all of them for every size.
Everything is translated from `src/app`; the plans under `src/workplan` and the doc strings
are used only as statements to compare the code with.

## 1. The system

PayCore is a FastAPI application over PostgreSQL (async SQLAlchemy), with Celery workers and
a beat schedule behind a Redis broker, Paystack as the payment provider and S3 for documents.
There are no components that call each other over a network inside PayCore. Everything
interacts through committed rows, through row locks, and through tasks handed to the broker.

| Part | State it keeps | Operations | Module |
|---|---|---|---|
| Transfers (`services/transfer.py`) | `transactions`, `wallets.balance` | `initiate_transfer` | Transfers |
| Merchant payments (`services/merchant_payment.py`) | the same | `initiate_payment` | Transfers |
| Ledger (`services/ledger.py`) | `ledger_entries` | `post_double_entry`, single entries | Transfers, Funding, Withdrawals |
| Fraud checks (`services/fraud.py`) | none, reads `transactions` | tier, daily, duplicate, rapid-transfer checks | Transfers, Withdrawals |
| Wallet funding (`services/wallet_funding.py`) | `transactions` PENDING | `initiate_funding` | Funding |
| Paystack webhook (`api/v1/webhooks.py`, `services/paystack_webhook.py`) | status, balance | `charge.success`, `transfer.*` | Funding, Withdrawals |
| Reconciliation (`workers/reconciliation_tasks.py`) | status | `check_stale_transactions` | Funding, Withdrawals |
| Withdrawals (`services/withdrawal.py`) | status, hold on the balance | initiate, `execute_payout`, payout success and failure | Withdrawals |
| Bank accounts (same file) | `bank_accounts` | add, list, remove | BankAccounts; Withdrawals (removal, recipient code) |
| Outgoing webhooks (`services/webhook_delivery.py`, `workers/webhook_tasks.py`) | `webhook_deliveries` | create, deliver, retry sweep | Deliveries |
| Merchants (`services/merchant.py`) | `merchants`, `users.role` | create, rotate key, authenticate; set URL | Accounts; Deliveries (the URL) |
| User profiles (`services/user.py`) | `users` | update, show | Accounts |
| KYC (`services/kyc.py`) | `kyc_submissions`, `users.kyc_tier`, documents | submit, approve, reject | Kyc |
| Sessions (`services/auth.py`) | `users`, `wallets`, `refresh_tokens` | register, login, refresh, logout | Accounts |
| Risk flags (`workers/fraud_tasks.py`) | `transactions.risk_flagged` | `flag_transaction_risk` | RiskFlags |
| Lists and details (`api/v1/admin.py`, `services/transaction.py`, `services/wallet.py`) | none | pages with totals, one transaction | Listings |
| Audit log (`services/audit.py`) | `audit_logs` | `log`, after the commit it is about | in the module of the caller |

Parts without a module of their own are listed with reasons in section 7.

### Behaviour that is hard

* **Stale objects.** A session's identity map returns an ORM object that is already loaded.
  `SELECT ... FOR UPDATE` in `repositories/wallet.py` waits for the lock, but without
  `populate_existing` it leaves the attributes of a loaded wallet as they were. Transfers,
  payments and `initiate_withdrawal` load the wallet first, so they compute from a balance
  read before the lock. The webhook handlers lock a wallet they have not loaded and therefore
  read the committed one. Each module models the case its code is in (`snap`, `seen`).
* **Decide, wait, write.** `update_status` checks a transition on the loaded object, and the
  UPDATE waits for the row and then overwrites whatever was committed in the meantime.
* **Unlocked pre-checks.** Idempotency keys, daily sums, twins, active withdrawals, active
  KYC submissions, free e-mail addresses and refresh tokens are read long before the write
  that relies on them; only some have a unique index behind them.
* **Things after the commit.** Flags, webhook records, tasks and audit entries follow the
  commit of the money, one by one, and each can fail or be cut off by a crash. An audit
  write that fails rolls the session back, and the objects the answer is built from with it.
* **At-least-once tasks.** `task_acks_late` and `autoretry_for` run a task again; Paystack posts an
  event again; the endpoint answers 200 even if the broker did not take the task.
* **Flushed and forgotten.** `update_profile` flushes and nobody commits: until the session is
  closed its row and its place in the unique index block others.
* **Pages.** A page and the total are two statements, and each page is another request.
* **Sweeps.** Beat sweeps select rows in batches, without knowing whether an earlier task of
  a row still waits or runs.

### What makes each part correct

* Transfers and payments: no money is created or lost, a key moves money once, limits hold,
  every request is answered and no two handlers deadlock.
* Funding: a completed payment is credited exactly once, and every row is settled.
* Withdrawals: what left the balance is held or was paid out, the outcome agrees with the
  bank's, and every withdrawal is settled.
* Deliveries: DELIVERED means that the merchant answered; attempts are bounded and wait for
  their delay; a record ends.
* KYC: tiers are earned one after the other and decided by somebody else; a decision stands.
* Accounts: one account per address, with a wallet; one merchant profile per user; one usable
  refresh token per session; the API key in force is the one that was shown last, or one whose answer the merchant has yet to get or never got.
* Bank accounts: at most one default, and one as long as there is an account.
* Risk flags: a suspect is flagged and audited once, also when its task is run again.
* Lists: a walk from page to page misses nothing that was there when it began.

## 2. Modules

Read them in this order.

1. **AtomicLedger**: the abstract specification of a movement of money. One step, `Post`,
   debits, credits and journals a movement, at most once per key and within the funds.
2. **Transfers**: both handlers that move money between wallets, one action per awaited
   statement. `MCTransfers` gives it values, `TransfersProofs` holds the proofs.
3. **Funding** and `MCFunding`: the request, the event's task and the sweep of a funding.
4. **Withdrawals** and `MCWithdrawals`: the request, the removal of a bank account, the payout
   task, both payout results and the sweep.
5. **Deliveries**: the record of an outgoing webhook, its task and its sweep.
6. **Kyc** and `MCKyc`: submissions and reviews.
7. **Accounts** and `MCAccounts`: registration, sessions, profiles, merchants and API keys.
8. **BankAccounts** and `MCBankAccounts`: adding and removing accounts, and the default.
9. **RiskFlags**: rows that are written and the task that flags some of them.
10. **Listings** and `MCListings`: what lists and details show of those rows meanwhile. It
   EXTENDS RiskFlags, so that a reader sees every step of the writers and the task.

`TransfersProofs`, `FundingProofs`, `WithdrawalsProofs`, `DeliveriesProofs`, `KycProofs`, `AccountsProofs`,
`BankAccountsProofs` and `ListingsProofs` extend the modules they prove about; `ListingsProofs` covers RiskFlags too.

The modules are separate because the parts share few columns at a time: a transfer never
reads a withdrawal's status, and a funding never reads a wallet without its lock. What one
does to another's balance is a concurrent change of a wallet, which each module has in its
own kind. Composing Funding and Withdrawals with Transfers over one wallet is in the plan.

### How state and actions correspond to the code

Every module follows the same conventions.

* A row of a table is named by the request that inserts it. Committed columns are variables
  (`status`, `balance`, `txns`, `row`, ...). What a handler has flushed and not committed is
  in its control state, since READ COMMITTED shows it to nobody, and rolls back by leaving it.
* `pc` (or a worker's `step`) is the statement a handler awaits. Each await that reads or
  writes shared state is one action. `reply` is the response, and `"lost"` means that the
  caller got none.
* Row locks are variables that name their holder (`lock`, `rowLock`, `walletLock`) where they
  are held over more than one step. The end of a database transaction releases them.
* An INSERT that meets an uncommitted row with the same unique value waits (`KeyPending`,
  `EmailPending`) and conflicts once that row is committed.
* `Crash`, `ApiCrash` and `TaskFails` end a handler anywhere: the process dies, the
  connection breaks, or something raises. A task may or may not be run again afterwards.
* Definitions whose comment starts with "Fault" take no part in a specification. Each is the
  next definition with one slip a programmer could make; substituting it has to break the
  property it is paired with in PROJECT.json, which shows that the property depends on it.

`Transfers`: `Arrive` is the request with `get_current_user`, which begins the transaction
whose `now()` becomes `created_at` (`stamp`). `LoadSource`, `LoadDestination` and `Refuse` are
the two `get_by_user_id` and their guards, `Replay` and `KeyUnused` the pre-check of the key,
`CheckLimits`, `OverLimit`, `CheckDuplicate` and `Duplicate` the fraud service, `LockFirst` and
`LockSecond` the sorted locks, `CheckBalance` and `InsufficientBalance` the comparison,
`Insert` and `KeyConflict` the flush with its IntegrityError path, `Commit` the double entry
with both balances, and `Flag`, `FlagFails`, `Notify` and `Audit` what follows the commit.

`Funding`: `Arrive` to `KeyConflict` are `initiate_funding`; `Pay` and `Deliver` the customer,
Paystack and the webhook endpoint; `TakeEvent` to `Audit` are `process_charge_success`;
`StartSweep` to `FailTxn` are the funding half of the reconciliation, which calls the same
charge handler for a payment that Paystack reports as completed. `charged` is the amount that
Paystack reports; the handler credits that amount and compares it with the row's nowhere.

`Withdrawals`: `LoadWallet` to `Enqueue` are `initiate_withdrawal`, `FindAccount` to `Delete`
are `remove_bank_account`, `StartPayout` to `CommitPayout` are `execute_payout`,
`StartSettling` to `PayoutFailed` the two payout results, `Complete`, `Reverse` and `Deliver`
the bank, Paystack and the endpoint, `Sweep` the withdrawal half of the reconciliation.

`Deliveries`: `Create` and `Enqueue` are `create_and_enqueue`, `Start` to `Ack` are
`deliver_merchant_webhook`, `StartSweep` and `Sweep` are `retry_pending_webhooks`, `TaskFails` a
task that ends early, also because its session refuses every commit after one that failed,
`UpdateWebhook` sets or clears the URL. `Written` is SQLAlchemy's flush: a column that is
assigned the value it was loaded with is left out of the UPDATE.

`Kyc`: `Submit` to `AuditSubmission` are `submit_kyc`, the upload before the row included;
`Review` to `AuditReview` are `approve_kyc` and `reject_kyc`, which differ in `Promoted`.

`Accounts`: `EmailFree` to `CommitUser` are `register`, `UserFound` to `Issue` `login`,
`TokenGood` to `Rotate` `refresh`, and `LogoutFound` to `Revoke` `logout`. `ArriveSignedIn` is
any call with an access token, whose first step is `get_current_user`: `PhoneTaken` to
`ShowProfile` are `update_profile`, `MerchantExists` to `CommitMerchant` `create_merchant`, and
`NoMerchant` to `CommitKey` `rotate_api_key`; `HandOut` and `KeyAuditFailed` are the answer that
holds the key, or what becomes of it when the audit entry cannot be written. An address
stands for the phone number too: both are unique columns of `users`.

`BankAccounts`: `Verify` to `InsertAccount` are `add_bank_account`, `FindAccount` to `Promote`
`remove_bank_account` with `soft_delete`, whose first flush locks the row (`Locked`). `Withdraw`
and `Settle` are what withdrawals do to the guard of a removal.

`RiskFlags`: `Begin`, `Commit` and `Complete` are any handler that inserts a row and changes its
status later; `Deliver` to `FailFlag` the flag task, `Die`, `Redeliver`, `DeliverTwice` and `LosePool`
the worker and the broker.

`Listings`: each list is a record of the rows it may show, the filters it offers, its order
and whether it counts first. `ReadPage` and `ReadTotal` are its two statements, `AnswerPage` the
response. `Last` is the client, which either trusts the total or asks until a page is
not full. `FindTransaction`, `FindMyTransaction` and `ReadEntries` are the details.

## 3. Loads: which interleavings a specification allows

Under the full interleaving several promises of the documentation fail (section 5). Each
module has its full `Spec`, and where that breaks a promise also a specification restricted
to the load under which the promise holds. The restriction is a conjunct of the next-state
relation or of some of its actions (`ArriveAlone`, `SettleBetween`, `Tick({})`), so every
behaviour it allows is one of the full specification.

| Module | Specification | What may overlap |
|---|---|---|
| Transfers | `Spec`, `FairSpec` | everything |
| Transfers | `IsolatedSpec` | requests that share no wallet; the clock moves between requests |
| Funding | `SerialSpec`, `FairSpec` | everything except two workers on one transaction |
| Withdrawals | `Spec` | everything |
| Withdrawals | `CalmSpec` | one request of the user at a time, and results are settled between requests; workers, sweeps, events and the bank are free |
| Deliveries | `SingleSpec` | everything except two tasks of one record |
| Kyc | `OrderlySpec` | everything except two applications of one user, or two reviews of one submission |
| Accounts | `CarefulSpec` | everything except two uses of one refresh token, and a rotation of an API key with another call that hands one out |
| BankAccounts | `FormSpec` | everything except two additions |
| RiskFlags | inside Listings' `Spec` | everything; workers die and tasks are run again, but not twice at once |
| RiskFlags | `TwiceSpec`, `PoolSpec` | also a message delivered again while its task runs, or acknowledged by the death of a pool process |
| Listings | `Spec` | everything; flag tasks only where the list filters by the flag (`FlagsSeen`) |

A load says how the system has to be used (or configured, one worker process for `Serial`)
for the promise to be kept. The code does not enforce it.

## 4. Runs

All bounds are CONSTANTS in the cfg: `MaxClock` bounds the clock, `MaxSends` the deliveries
of one event, `MaxQueued` the waiting payout tasks of a row, `MaxFaults` the failures that a
retry or sweep makes good, `MaxLost` those that nothing makes good. Requests and records are
small sets of model values.

Deadlock is checked for Transfers, where the end is the explicit step `Served`. The other
systems stop when every request has been answered and no task is left, so their cfgs say
`CHECK_DEADLOCK FALSE`.

**TransfersOverlap** (`FairSpec`, 3 requests, 4 offers, 5 wallets). Any three of: a transfer
from 1 to 2, one of two units back from 2 to 1 (covered only after a credit), a second
recipient for wallet 1, and a merchant payment with the key of the first transfer. Opposite
directions test the lock order, the common key the pre-check, the unique index and the
conflict path, with no wallet in common to serialise them; two recipients reach the rapid-transfer threshold. Two requests
are enough for a race; the third replays a key or credits what the second spends.
It shows `LatestSnapshot`, `OncePerKey`, `IdempotentReplies`, `RapidTransfersFlagged` and
`EveryRequestAnswered`; mutual exclusion of the locks is proved (section 6).

**TransfersIsolated** (`IsolatedSpec`, 3 requests, 9 offers, clock 0..2, days of 2 units, duplicate
window 1). A volume over two days, twins exactly on the edge of their window, and each
reason to refuse. It shows `LedgerChains`, `LimitsKept` (`DailyLimitKept` and `NoTwins`) and the
refinement `AtomicTransfers`. Three movements are the least that separate a day's sum, its limit and
the next day.

**TransfersLostUpdate** (violation of `LedgerChains` under `Spec`): section 5.

**FundingSerial** (`FairSpec`, 2 requests, 2 workers, one event per payment, one fault, 4 offers). Two
fundings of one wallet, the first with a key that may be sent twice, one below the minimum
and one of an inactive wallet. Paystack reports the larger funding with less than was asked for
(`Reported`), so that crediting the row's amount would show. Two workers credit the wallet at the same time; a sweep runs
before, during and after an event's task, and retries a task that failed. It shows
`BooksBalance` (`OncePerKey`, `LedgerChains` and `CreditedOnce`), `SettledForGood`,
`EveryFundingResolved` and `PromptPaymentIsCredited`; the ledger is a chain of what Paystack reported,
whatever was asked for. One event is enough for a repeated delivery, because a fault after
the commit hands the same event to a worker again, and a sweep handles the payment too.

**FundingDoubleCredit** (violation of `CreditedOnce` under `Spec`): section 5.

**WithdrawalsOverlap** (`Spec`, 3 requests, 2 workers, each result posted up to twice, reversals). Two
withdrawals of the whole balance and the removal of their account, in any overlap with each other, with
the payout tasks and with success, failure and reversal events that come late, twice or the wrong way
round. It shows `OutcomeAgrees` where almost nothing else holds: funds, limits and accounts break here (section 5),
and a returned transfer can be both paid out and refunded, but nothing is written of a transfer that the bank did not do.
A CONSTRAINT (`TwoWithdrawals`) leaves out behaviours with a third withdrawal; the third request then meets the
rows of the two others. Requests and workers are interchangeable (SYMMETRY). Faults and refused tasks are
left to WithdrawalsCalm; `OutcomeAgrees` is proved with all of them.

**WithdrawalsCalm** (`CalmSpec`, 2 requests, 1 worker, events twice, reversals, one
fault). Two withdrawals one after the other, or a withdrawal and a removal; success, failure and
reversal events in any order and repeated; a payout task that fails anywhere before its
dispatch and is retried or swept. It shows `BooksBalance` (`FundsConserved` and `DebitedOnce`),
`RulesKept` (`OneActive`, `DailyLimitKept` and `NoOrphan`), `SettledForGood` and `EveryWithdrawalSettled`. A second request is the first that can
meet what another one left behind. With one worker a task is never run while another task
holds the row; two workers are what some of section 5's disagreements need.

**Deliveries** (`SingleSpec`, 2 records, 2 workers, 3 attempts, batch of 1, two faults). It shows
`DeliveredIsReceived`, `AttemptsBounded`, `DeliveredForGood`, `RetriesWait`,
`EveryRetrySettled`. Two records and a batch of one make a record wait for a later sweep. Two faults allow a task
that ends before its commit and one run again after it in one behaviour.

**Kyc** (`OrderlySpec`, 3 submissions, 3 reviews, 2 tiers, two users who are admins and review each
other). Three submissions are what two tiers and one repeated application take. It shows
`OneActiveSubmission`, `TierIsEarned`, `ReviewIsFinal`.

**Accounts** (`CarefulSpec`, 4 requests, 2 addresses). Any four of: a registration, a login or
second registration, an exchange, a logout, a profile update with either address, a creation of a
merchant and a rotation of its key, with crashes and failing audit writes. A registration
or login comes before any other call, so that three remain: two that race and one that
meets what they left. It shows `UniqueAccounts` (`OneAccountPerEmail` and `OneProfilePerUser`),
`OneLiveToken` and `KeyInForce`. The last says that the key in force is the one the merchant was shown last, or one of a call
of its own that committed it and is yet to answer, failed or was lost. A merchant whose rotation failed
after the commit holds no key that works; `AuditIsHarmless` (section 5) is about that.

**BankAccounts** (`FormSpec`, 5 calls). An addition that is the default, two that are not, and two
removals; or any other five, with a withdrawal that keeps an account in use. It shows
`DefaultsKept`: no two defaults ever, and while no two calls have overlapped the oldest account is
the default. Two removals and an account to promote are the least in which a wrong promotion
can be promoted over again.

**Listings** (`Spec`, 3 rows of which one is a suspect and two are the reader's, pages of one row, one
worker, one retry, one death of a worker). Every list, filter and stopping rule, or one detail,
while the rows are inserted, change their status and are flagged. Three rows and pages of one are
the least in which a row is inserted between two pages. It shows `FlaggedOnce`, `ViewsAreWhole`
(`GrowingListsAreShown` and `DetailsAreWhole`) and `SuspectsFlagged`. Readers change nothing, so that
one walk or detail in a behaviour stands for any number.

Requests are interchangeable in the runs that declare SYMMETRY; none of those checks a
liveness property.

### Fairness

* Handlers (`WF` on `Serve`, `Handle`): the event loop runs every coroutine whose statement has
  been answered. Arrivals and crashes are not fair.
* Workers (`WF` on `Work`): Celery takes waiting tasks and runs them.
* Sweeps (`SF` on `StartSweep`, `Sweep`): beat enqueues them for ever, and a worker gets to them between
  other tasks. Strong fairness says that this happens although the worker is not idle
  continuously.
* Time (`WF` on `Age`, `Elapse`).
* Paystack settles what it accepted and posts each result at least once (`WF` on `Complete` and
  `Deliver`, Withdrawals only). Nothing obliges a customer to pay or Paystack to post `charge.success`: what Funding
  promises holds without it.
* In RiskFlags a worker keeps working (`WF` on `WorkerStep`) and the broker delivers again what was
  not acknowledged (`WF` on `BrokerNext`); writers, readers and faults are not fair.
* Where a load restricts the next-state relation, fairness is stated of the allowed steps
  (`Serial'` in Funding), or asks nothing a load keeps back for good (`CalmSpec`, `SingleSpec`: the
  steps kept back become possible once the other request, task or copy is through).

## 5. Where the code and its documentation disagree

Two runs are expected to end in a counterexample, and PROJECT.json lists them as findings.

* `TransfersLostUpdate`: two transfers load a wallet, the first commits, the second gets the lock
  and writes a balance computed from what it loaded. One movement of money disappears
  (`LedgerChains`).
* `FundingDoubleCredit`: two workers handle two deliveries of one `charge.success`. Both read PENDING, one
  waits for the other's UPDATE, and both credit (`CreditedOnce`).

The same models show the following. TLC ends each cfg with a counterexample to the property; they
are kept for whoever changes that code. Where a cfg stands in two rows (or is that of a run above), it
names another property: replace its INVARIANT or PROPERTY by that of the row.

| cfg | Property | What happens |
|---|---|---|
| TransfersDailyRace | `DailyLimitKept` | two requests read the day's sum before either commits |
| TransfersLostUpdate | `CommittedIsAcknowledged` | the broker refuses the risk flag after the commit, `.delay` raises, the caller gets an error for money that moved |
| FundingKeyRace | `RetriesGetTheUrl` | two requests with one key: the second INSERT raises an IntegrityError that nothing catches |
| FundingDoubleCredit | `SettledForGood` | a sweep fails a row that a webhook task completes at the same time |
| FundingLatePayment | `PaidIsCredited` | the customer pays after a sweep failed the row; the event is skipped and the money stays with Paystack |
| WithdrawalsLimitRace | `DailyLimitKept` | two requests both find no active withdrawal and the same sum |
| WithdrawalsLostRefund | `FundsConserved` | a hold computed from the loaded balance overwrites a refund |
| WithdrawalsDoubleRefund | `FundsConserved` | two workers on two deliveries of `transfer.failed` both refund |
| WithdrawalsLostRefund | `NoOrphan` | the account is removed between a request's look at it and its commit |
| WithdrawalsReversed | `ReversedIsRefunded` | a reversal after COMPLETED is skipped |
| WithdrawalsStuck | `EveryWithdrawalSettled` | the event of a transfer is handled before the payout task commits PROCESSING; it is skipped, and no sweep looks at PROCESSING rows |
| WithdrawalsLostRefund | `OneActive` | two requests overlap; `scalar_one_or_none` then raises for every later request |
| DeliveriesForgotten | `EveryDeliverySettled` | the first task of a record could not be enqueued; its `next_retry_at` is NULL, so the sweep that "will pick it up" never selects it |
| DeliveriesDoubled | `DeliveredForGood` | two tasks of one record overlap and a late failure overwrites DELIVERED |
| KycDuplicates | `OneActiveSubmission` | two applications overlap |
| KycOverruled | `ReviewIsFinal` | two reviews overlap and the later one wins |
| AccountsForked | `OneLiveToken` | one refresh token is exchanged twice, for two live sessions |
| AccountsKeyRace | `KeyInForce` | two rotations of one key overlap, and the answer that comes last holds the key that is dead |
| AccountsAuditFailure | `AuditIsHarmless` | the audit write fails and its rollback expires the objects of the answer: a registration, a merchant or a new key is committed and answered with an error, and the key was never shown |
| AccountsForgotten | `UpdatesStick` | the profile update is answered with "Profile updated." and rolled back |
| BankAccountsTwoDefaults | `AtMostOneDefault` | two additions both count no account |
| BankAccounts | `HasDefault` | a removal promotes an account that another one is removing, or finds none while one is being added |
| RiskFlagsTwice | `FlaggedOnce` | the broker delivers a message again while its task runs, and the flag is audited twice |
| RiskFlagsLost | `SuspectsFlagged` | the pool process dies, Celery acknowledges the message all the same, and nothing flags the row |
| ListingsTotals | `TotalsAreEnough` | where the total is counted before the page is read, a row inserted between the two is not counted and the walk ends a page early |
| ListingsQueue | `QueuesAreShown` | a pending submission is decided between two pages, and the offset skips another one |

Each cfg is run with the MC module of the part it is named after, or with that module itself:
DeliveriesForgotten and DeliveriesDoubled with Deliveries, RiskFlagsTwice and RiskFlagsLost with RiskFlags.

One more was met while reading and is not modelled: with two pending applications for tier 1
(`KycDuplicates`), approving the second one after tier 2 was reached sets the tier back to 1, and
another application for tier 2 is refused because an approved one exists.

## 6. Proofs

`TransfersProofs` proves, for every set of wallets, requests, offers and keys and for every limit:

| Theorem | Statement |
|---|---|
| `TypeCorrect` | `Spec => []TypeOK`; balances are natural numbers, so the CHECK constraint never fires |
| `Exclusive` | `Spec => []MutualExclusion` |
| `KeysMoveMoneyOnce` | `Spec => []OncePerKey` |
| `RepliesAreIdempotent` | `Spec => []IdempotentReplies` |
| `BalanceIsLatestSnapshot` | `Spec => []LatestSnapshot` |
| `RapidSendersAreFlagged` | `Spec => []RapidTransfersFlagged` |
| `LedgerIsAChain` | `IsolatedSpec => []LedgerChains` |
| `LimitsAreKept` | `IsolatedSpec => []LimitsKept` |
| `Refinement` | `IsolatedSpec => AtomicTransfers` |

They assume what the module assumes of its constants: wallets are numbers in lock order,
requests are finite, offers have positive amounts, initial balances and limits are natural.

**The inductive invariant `IInv`.** None of the first five is inductive alone. A balance stays a natural number only if the
handler that commits checked its snapshot (`FundsChecked`) and has two different wallets
(`PartiesDiffer`: otherwise the second write would replace the first). Exclusion needs to know which locks a phase holds (`LocksHeld`); two handlers with
a common wallet would then both hold its lock, whatever the order they locked in. `OncePerKey` survives a commit because an inserted, uncommitted row has its
key to itself (`KeyReserved`), which `Insert` establishes by waiting for `KeyPending` and finding no
committed holder. Replies name committed transactions because rows are
committed before the phases that answer with them (`CommittedPhases`, `AnswersCommitted`). `StepOf` groups the
handler actions into eight kinds of step by their effect on what `IInv` is about, so each part of the invariant
is proved against eight cases (lemmas `ServeSteps` and `NextSteps` justify the grouping).

**`IsolatedInv`.** Under `IsolatedSpec` nobody commits to a wallet of a handler in flight, so a snapshot equals the
committed balance from load to commit (`Fresh`; lemma `IsolatedSteps` shows that the load keeps requests `Isolated`). Then a new entry continues the
last one, and `Commit` is `Post` of the abstract ledger with every other step a stutter.

**Flags and limits.** `SomebodyFlags` is why no rapid sender gets away: as long as a wallet with too many recipients is not flagged, a handler
that has yet to count is on its way, or one was cut off. A commit that adds a recipient brings such a handler
itself, and the last one to count finds everything that was committed before. `LimitsInv` carries what a request has checked to its commit: the day's
sum with its own amount is within the tier's limit and it has no twin (`LimitsChecked`), which stays true because no other request
of that wallet is in flight and the clock stands still (`Clocked`).

**Sums and other recursion.** A sum over a set (`MapThenSumSet`) is defined by recursion, and the library's induction theorems
cannot be cited for a formula of one's own. `NatSetInduction` gets induction from the well-foundedness of `Nat`, for a set of numbers
instead of a predicate. With it the lemmas on sums (`SumsAre`, `SumsRemove`, `SumsAgree`, `TotalGrows`) show that the recursive function exists,
that a sum is the same in whatever order it is taken, and that it grows by an amount when that one is added.

`FundingProofs` proves, for every set of requests, offers, wallets and workers, and any number of events, retries and failures:

| Theorem | Statement |
|---|---|
| `TypeCorrect` | `Spec => []TypeOK` |
| `KeysOpenOnePayment` | `Spec => []OncePerKey` |
| `LedgerIsAChain` | `Spec => []LedgerChains` |
| `InvariantHolds` | `SerialSpec => []IInv`, the inductive invariant |
| `FundingBooksBalance` | `SerialSpec => []BooksBalance` |
| `StatusesStand` | `SerialSpec => SettledForGood` |

They assume finitely many workers, whose tasks are counted. The first three hold even where
FundingDoubleCredit credits twice: the chain of a wallet needs only that what a task read under the wallet's lock is still the
balance when it writes (`LocksHeld`), which no number of tasks of one transaction disturbs, and that the amount it adds
is fixed by then: a task that credits is of a payment that was made (`PaidFirst`), and a payment is made once. `TypeOK` bounds the events at the
broker by what Paystack sent, which holds because every task comes from a delivery of its own and goes back to it once at most
(`EventsCounted`: waiting events and tasks together). For the others what a task read must still hold when it
writes (`StillPending`), which is what `Serial` is for; then an entry belongs to a completed row, in that row's
wallet, and is its only one (`EntriesOfCompleted`, `CompletedHasEntry`), and `CreditedOnce` follows by counting (lemma `EntriesAreCounted`).

`WithdrawalsProofs` proves, for every set of offers, accounts and workers and any number of retries and failures:

| Theorem | Statement |
|---|---|
| `TypeCorrect` | `Spec => []TypeOK` |
| `OutcomesAgree` | `Spec => []OutcomeAgrees` |
| `RefundsAreAdded` | `Spec => RefundsAddUp` |
| `InvariantHolds` | `Spec /\ []Serial => []IInv`, the inductive invariant |
| `WithdrawalsDebitedOnce` | `Spec /\ []Serial => []DebitedOnce` |
| `StatusesStand` | `Spec /\ []Serial => SettledForGood` |
| `OneWithdrawalAtATime` | `CalmSpec /\ []Serial => [](OneActive /\ NoOrphan)` |
| `BooksAreBalanced` | `CalmSpec /\ []Serial => []BooksBalance` |
| `RulesAreKept` | `CalmSpec /\ []Serial => []RulesKept` |

They assume finitely many requests, so that entries can be counted. The first three need no load. `OutcomeAgrees`
speaks of every mark a task leaves, status, DEBIT entry and audit entry, so that it still holds after another task overwrote the status. It
rests on the way of a result: what waits at the broker or is in a worker's hands happened at the bank (`Bodies`, `EventsHappened`,
`TasksSound`), a settlement is written from one of those (lemma `OutcomeStays`), and a task commits PROCESSING after it dispatched (`Dispatched`). `RefundsAddUp` rests on `LockHeld`: what a task read of the wallet
under its lock is still the balance. The others have the hypothesis `[]Serial`: two tasks of one withdrawal are never both past their read, which one
worker gives for nothing (lemma `OneWorkerIsSerial`; WithdrawalsCalm has one) and which WithdrawalsDoubleRefund shows to be needed.
Then what a task read is so when it writes (`StillSo`) and a settlement and its entry go together
(`EntriesOfCompleted`, `CompletedHasEntry`). Under `CalmSpec`, `CalmInv` ties the look of a request to the table: one request
is in flight (`OneInFlight`), what it passed its look with still holds (`NothingActive`, `AccountThere`), and a removal past
its own look is of an account that no active withdrawal uses (`AccountUnused`). The last two add what a request read of the balance and
of the day's sum (`Reads`), and that the balance and the amounts of all withdrawals but the failed ones make up the initial
balance (`Books`). The limit holds although the code sums COMPLETED withdrawals only, because with `NothingActive` these are all that are held.
The lemmas on sums are those of `TransfersProofs`.

`BankAccountsProofs` proves, for every finite set of calls:

| Theorem | Statement |
|---|---|
| `TypeCorrect` | `Spec => []TypeOK` |
| `InvariantHolds` | `FormSpec => []IInv`, the inductive invariant |
| `DefaultsAreKept` | `FormSpec => []DefaultsKept` |

That there is at most one default says nothing of why. `DefaultIsOldest` does: a default is never younger than another live account. A first
account has nothing older (`FirstIsAlone`), a removal promotes the oldest of the others (`PickIsOldest`), and an addition comes
after all of them because additions do not overlap (`OneAddition`, `AddedLast`), so two live defaults would be equally old. That there is one
default as long as no two calls overlapped needs what the call in progress saw to be so (`AloneInv`, `SeenIsSo`).

`DeliveriesProofs` proves, for every set of records and workers, every number of attempts, batch limit and number of failures:

| Theorem | Statement |
|---|---|
| `TypeCorrect` | `Spec => []TypeOK` |
| `DeliveredMeansReceived` | `Spec => []DeliveredIsReceived` |
| `InvariantHolds` | `SingleSpec => []IInv`, the inductive invariant |
| `AttemptsAreBounded` | `SingleSpec => []AttemptsBounded` |
| `DeliveriesStand` | `SingleSpec => DeliveredForGood` |
| `DelaysPass` | `SingleSpec => RetriesWait` |

They too assume finitely many workers. `Single` counts places (the queue, workers, batches of sweeps); lemma `OneTask` turns
the count into what the steps need: where a record has a task it has no other (`Exclusive`). What a task read is then still so when it
writes (`SeenIsCurrent`), and a record that a sweep selected is still due when it is enqueued (`BatchIsDue`). The bound on attempts
is inductive only with the reason why no further task comes: a record with MAX_ATTEMPTS is FAILED or DELIVERED, which no sweep selects, so a task that
waits for it is one that was run again after a failure (`ExhaustedIsSettled`). `NoTaskInDelay` is the same for the
delay.

`KycProofs` proves, for every set of users, admins, submissions and reviews and any number of tiers:

| Theorem | Statement |
|---|---|
| `TypeCorrect` | `Spec => []TypeOK` |
| `NobodyApprovesTheirOwn` | `Spec => []FourEyes`: the reviewer of an approved submission is not its owner |
| `InvariantHolds` | `OrderlySpec => []IInv`, the inductive invariant |
| `OneSubmissionPerTier` | `OrderlySpec => []OneActiveSubmission` |
| `TiersAreEarned` | `OrderlySpec => []TierIsEarned` |
| `DecisionsStand` | `OrderlySpec => ReviewIsFinal` |

`FourEyes` needs no load, since who made a submission never changes (`Reviewers`). The
others tie what was seen to what is: the look for an active submission still holds at the insert (`NoneActive`), a review past its guard is
of a submission still pending (`StillPending`), for the tier above its owner's (`PendingIsNext`), and a user's
tier only rises (`StillHeld`).

`AccountsProofs` proves, for every finite set of requests and every set of addresses, the first two with every call overlapping every other
(`Spec`) and the others under the load of the run (`CarefulSpec`):

| Theorem | Statement |
|---|---|
| `TypeCorrect` | `Spec => []TypeOK` |
| `AccountsAreUnique` | `Spec => []UniqueAccounts` |
| `SessionsStayChains` | `CarefulSpec => []SessionsAreChains`: a token has one successor at most, and is revoked when it has one |
| `KeysInForce` | `CarefulSpec => []KeyInForce` |
| `OneTokenIsLive` | `CarefulSpec => []OneLiveToken` |

Uniqueness is not inductive: the guard of a commit is passed one or more steps before. Its `IInv` says that an inserted,
uncommitted user or merchant has its unique value to itself (`EmailReserved`, `ProfileReserved`), which the waiting
INSERT establishes and no other step undoes; that rows belong to requests that have committed (`RowsOfTheDone`);
and that tokens, answers and signed-in calls lead to users with an account (`TokensOfUsers`, `AnsweredTokens`,
`UsedTokens`, `SignedInCalls`), so that a merchant's wallet is one that exists.

Under `CarefulSpec`, a token that a refresh found good is still so when it rotates (`StillGood`), since no other call with the same
token is in progress; so tokens form chains (`SessionsAreChains`). A merchant always has a key, set by a call of its own that has
committed (`KeysOfCallers`, `KeyIsSet`); a handler about to hand out a key has set it, and no other rotation of that merchant is in
progress that could replace it. So a key in force that was shown is the one shown last (`ShownIsLast`), and `KeysWork` derives `KeyInForce`. `OneLiveToken` speaks of whole
sessions, which `Ancestry` finds by recursion: walking back from two tokens that have an ancestor in common, one walk is a part of the other
(`GoingBack`, `GoingForward`), every token on the way was exchanged and so revoked, and a live one is therefore the end of its chain (`ChainsEnd`).

`ListingsProofs` proves, for every finite set of rows, every set of suspects and workers, every page size and any number of retries and faults:

| Theorem | Statement |
|---|---|
| `FlagsAreSetOnce` | `Spec => []FlaggedOnce` |
| `CompletedDetailsAreWhole` | `Spec => []DetailsAreWhole` |
| `TypeCorrect` | `Spec => []TypeOK` |
| `ListsAreShown` | `Spec => []ViewsAreWhole` |

The first rests on `TakenByOne`: a worker that is not idle has a message that is taken, and has it alone. Then what
it read of the row still holds when it writes (`StillUnflagged`, `StillUnlogged`). `DeliverTwice`, which `Spec`
leaves out, breaks exactly that (section 5). The second rests on `DetailCompleted`: what a request has read as completed stays so.

For the pages, `PageInv` gives every row that matches a place of its own (`InOrder`, lemma `Ranks`), so that a page is never longer than its limit
and is full as long as the list goes on (`Places`, `ThePage`), and a full page ends within the table (`FullPageFits`). In a list that no row leaves,
a row's place only moves back (`LineGrows`). So a row that was asked for and is not shown yet is on the page that was read or behind it (`Ahead`), and as
long as there is one the page is full and a total counted after it is greater (`FullIfLeft`, `CountedIfLeft`): the client does not stop.

**Only model-checked.** Liveness (`EveryRequestAnswered` and all `~>` properties) is out of the prover's reach. Every invariant that a passing
run checks is stated by a theorem.
`Exclusive` needs no run of its own: the theorem holds for every instance.

## 7. What is not modelled

* Signature verification, password hashing, JWTs, formats, rate limits, error envelopes: computation on one request.
* Collisions of generated references and tokens; generated values are taken to be unique.
* Details of one row that are one SELECT (a wallet, a merchant profile, a user, a submission with its presigned URL, a withdrawal's status), migrations and configuration: nothing that other parts read changes.
* Filters by type, actor, action and date in Listings: they never change for a row, so that such a list is a smaller table.
* KYC tiers that change while a transfer or withdrawal of the user is in flight; tiers are constant in those modules.
* The daily funding limit: it is checked by nothing but the funding request, against COMPLETED fundings only.
* `asyncio.run` per task with an engine that outlives it: any statement of a task may fail (`TaskFails`), for whatever reason.
* An audit write that fails: modelled in Funding, Accounts and RiskFlags, taken to succeed or to be cut off by a crash elsewhere.
* Reasons of a risk flag: a transaction has one message with one reason.
* In Withdrawals: the 30 minutes before a sweep (left open) and the change of day (all requests fall on one).
* In Deliveries: payloads, HMAC signatures, the length of the delays (only whether one has passed).
* `set_active`, the `soft_delete` of users and merchants, `revoke_all_for_user`, `set_default`, `get_default`, `create_transaction`, `mark_delivered` and `mark_failed` of the delivery service: nothing calls them.
* The connection pool and its limit.

## 8. Plan

1. **Extend.** Deliveries composed with the payment that creates its records; reversals of KYC tiers
   while transfers are in flight.
2. **Compose.** A wallet that transfers, fundings and withdrawals share, with an abstract book
   (`credit`, `hold`, `release`, `settle`) that generalises AtomicLedger and that the serial loads of Funding and Withdrawals refine.
3. **Prove.** That the composed wallet of item 2 refines its abstract book.

## 9. Running

    tlc -workers 2 -config TransfersOverlap.cfg MCTransfers.tla
    tlc -workers 2 -config Deliveries.cfg Deliveries.tla
    tlapm TransfersProofs.tla
    tlapm FundingProofs.tla
    tlapm WithdrawalsProofs.tla
    tlapm DeliveriesProofs.tla
    tlapm KycProofs.tla
    tlapm AccountsProofs.tla
    tlapm BankAccountsProofs.tla
    tlapm ListingsProofs.tla

PROJECT.json names the module and cfg of every run, the source lines of every definition (`map`), the hazards and the properties that cover them.
