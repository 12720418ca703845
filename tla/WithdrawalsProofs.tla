--------------------------- MODULE WithdrawalsProofs ---------------------------
(***************************************************************************)
(* Machine-checked proofs about Withdrawals, for every set of requests,    *)
(* accounts, offers and workers, every limit, and any number of events,    *)
(* retries and failures.                                                   *)
(***************************************************************************)
EXTENDS Withdrawals, FiniteSetTheorems, SequenceTheorems, WellFoundedInduction, TLAPS

-----------------------------------------------------------------------------
(* What holds whatever overlaps. *)

(* A request that came has a body, and has committed once its row is there. *)
Bodies ==
    \A r \in Requests :
        /\ pc[r] # "idle" => req[r] \in Offers
        /\ status[r] # "absent" => pc[r] \in {"enqueue", "done"}

(* A result at the broker is one that Paystack came to. *)
EventsHappened ==
    \A result \in Results, t \in Requests : queue[<<result, t>>] > 0 => Happened(result, t)

(* So is that of a task, which goes to work on a row that is there. *)
Sound(q) ==
    /\ q # Idle => q.kind # "none" /\ q.txn \in Requests
    /\ q.kind \in Results => Happened(q.kind, q.txn)
    /\ q.step \notin {"idle", "read"} => status[q.txn] # "absent"
TasksSound == \A w \in Workers : Sound(worker[w])

(* The task that settles holds the wallet, whose balance it has read. *)
LockHeld ==
    \A w \in Workers :
        worker[w].step = "settle" => walletLock = w /\ worker[w].seen = balance

(* The task that commits PROCESSING has dispatched the transfer. *)
Dispatched == \A w \in Workers : worker[w].step = "commit" => xfer[Txn(w)] # "none"

InHand == LockHeld /\ Dispatched

BaseInv == TypeOK /\ Bodies /\ EventsHappened /\ TasksSound /\ InHand /\ OutcomeAgrees

-----------------------------------------------------------------------------
(* What holds while tasks of one withdrawal do not overlap. *)

Serial ==
    \A v, w \in Workers :
        v # w /\ worker[v].step \notin {"idle", "read"} /\ worker[w].step \notin {"idle", "read"}
            => Txn(v) # Txn(w)

(* What was read before it is written is still so. *)
StillSo ==
    \A w \in Workers :
        /\ worker[w].step \in {"account", "mark", "dispatch", "commit"} => status[Txn(w)] = "pending"
        /\ worker[w].step \in {"lock", "settle"} => status[Txn(w)] = "processing"

(* Entries are of withdrawals that are completed, one of each. *)
EntriesOfCompleted ==
    \A i \in DOMAIN ledger :
        /\ status[ledger[i].txn] = "completed"
        /\ \A j \in DOMAIN ledger : ledger[j].txn = ledger[i].txn => j = i
CompletedHasEntry ==
    \A t \in Requests : status[t] = "completed" => DebitsOf(t) # {}

SettledInv == StillSo /\ EntriesOfCompleted /\ CompletedHasEntry

-----------------------------------------------------------------------------
(* What holds while the user also makes one request at a time, and results  *)
(* wait for its end.                                                        *)

OneInFlight == \A r, s \in Requests : InFlight(r) /\ InFlight(s) => r = s

(* What a request has looked for is still so when it commits. *)
NothingActive == \A r \in Requests : pc[r] \in {"account", "commit"} => Active = {}
AccountThere == \A r \in Requests : pc[r] = "commit" => Account(r) \notin removed
AccountUnused ==
    \A r \in Requests : pc[r] = "delete" => \A t \in Active : Account(t) # Account(r)
AtMostOneActive == \A s, t \in Active : s = t

CalmInv ==
    /\ OneInFlight /\ NothingActive /\ AccountThere /\ AccountUnused
    /\ AtMostOneActive /\ NoOrphan

IInv == BaseInv /\ SettledInv

-----------------------------------------------------------------------------
LEMMA InitIInv == Init => IInv /\ CalmInv
<1> SUFFICES ASSUME Init PROVE IInv /\ CalmInv
  OBVIOUS
<1> USE NamesAssumption, BoundsAssumption DEF Init, Idle, Txn
<1>1. TypeOK
  BY DEF TypeOK, Steps, Tasks, Results, Statuses, Working
<1>2. Bodies /\ EventsHappened /\ TasksSound /\ InHand /\ OutcomeAgrees
  BY DEF Bodies, EventsHappened, TasksSound, Sound, InHand, LockHeld, Dispatched, Tasks, Results,
         OutcomeAgrees, PaidOut, Refunded, DebitsOf
<1>3. SettledInv
  BY DEF SettledInv, StillSo, EntriesOfCompleted, CompletedHasEntry
<1>4. CalmInv
  BY DEF CalmInv, OneInFlight, NothingActive, AccountThere, AccountUnused, AtMostOneActive,
         NoOrphan, Active, InFlight, Working
<1> QED
  BY <1>1, <1>2, <1>3, <1>4 DEF IInv, BaseInv

-----------------------------------------------------------------------------
(* Kinds of step. *)
WorkerRecords ==
    [kind : {"none", "payout"} \cup Results, txn : Requests \cup {NoTxn}, step : Steps, seen : Nat]
Becomes(w, q) == worker' = [worker EXCEPT ![w] = q]

(* A request goes on without a row. *)
Moves(r) ==
    /\ pc[r] \in Working
    /\ \E to \in Working \cup {"done"} :
          pc' = [pc EXCEPT ![r] = to] /\ (pc[r] = "enqueue" => to = "done")
    /\ snap' \in [Requests -> Nat]
    /\ \E x \in {"none", "created", "removed", "limit", "already_pending", "not_found",
                 "insufficient", "forbidden", "error", "lost"} :
          reply' \in {reply, [reply EXCEPT ![r] = x]}
    /\ UNCHANGED <<req, World>>

(* A worker goes on as q, and takes the wallet, gives it up, or neither.     *)
PayoutSteps == {"account", "mark", "dispatch", "commit"}
SettleSteps == {"lock", "settle"}
GoesOn(w, q) ==
    /\ Becomes(w, q) /\ Sound(q)
    /\ q.step \in PayoutSteps =>
          \/ status[q.txn] = "pending"
          \/ worker[w].step \in PayoutSteps /\ q.txn = Txn(w)
    /\ q.step \in SettleSteps =>
          \/ status[q.txn] = "processing"
          \/ worker[w].step \in SettleSteps /\ q.txn = Txn(w)
    /\ q.step = "settle" => walletLock' = w /\ q.seen = balance
    /\ walletLock' \in Workers \cup {NoOwner}
    /\ \A v \in Workers \ {w} : walletLock = v => walletLock' = v
    /\ rowLock' \in [Requests -> Workers \cup {NoOwner}]
    /\ queue' \in [Tasks -> Nat]
    /\ \A result \in Results, t \in Requests :
          queue'[<<result, t>>] > 0 => Happened(result, t)
    /\ xfer' = xfer \/ (xfer' = Accepted(q.txn) /\ q.step = "commit")
    /\ q.step = "commit" => xfer'[q.txn] # "none"
    /\ faults' \in 0 .. MaxFaults /\ lost' \in 0 .. MaxLost
    /\ UNCHANGED <<api, db, sends>>

LEMMA Released ==
    ASSUME TypeOK, NEW w \in Workers, End(w)
    PROVE  /\ Becomes(w, Idle)
           /\ walletLock' \in Workers \cup {NoOwner}
           /\ \A v \in Workers \ {w} : walletLock = v => walletLock' = v
           /\ rowLock' \in [Requests -> Workers \cup {NoOwner}]
  BY DEF End, TypeOK, Becomes

LEMMA IdleRecord == Idle \in WorkerRecords /\ Sound(Idle) /\ Idle.step = "idle"
  BY DEF Idle, WorkerRecords, Sound, Steps, Results

LEMMA WorkerSteps ==
    ASSUME BaseInv, NEW w \in Workers,
           Work(w) \/ TaskFails(w) \/ \E t \in Requests : Sweep(w, t)
    PROVE  \/ \E q \in WorkerRecords : GoesOn(w, q)
           \/ CommitPayout(w) \/ PayoutSucceeded(w) \/ PayoutFailed(w)
<1> USE DEF BaseInv
<1> DEFINE x == worker[w]
<1>1. x \in WorkerRecords /\ Sound(x) /\ worker \in [Workers -> WorkerRecords]
  BY DEF TypeOK, WorkerRecords, TasksSound
<1>2. /\ walletLock \in Workers \cup {NoOwner}
      /\ rowLock \in [Requests -> Workers \cup {NoOwner}]
      /\ queue \in [Tasks -> Nat] /\ faults \in 0 .. MaxFaults /\ lost \in 0 .. MaxLost
      /\ balance \in Nat
  BY DEF TypeOK
<1>3. \A result \in Results, t \in Requests : queue[<<result, t>>] > 0 => Happened(result, t)
  BY DEF EventsHappened
<1>4. Idle.step = "idle"
  BY DEF Idle
<1>5. ASSUME End(w), queue' \in [Tasks -> Nat], UNCHANGED <<api, db, paystack>>,
             \A result \in Results, t \in Requests :
                queue'[<<result, t>>] > 0 => Happened(result, t),
             faults' \in 0 .. MaxFaults, lost' \in 0 .. MaxLost
      PROVE  GoesOn(w, Idle)
  BY <1>5, <1>4, Released, IdleRecord DEF GoesOn, PayoutSteps, SettleSteps, paystack
<1>6. ASSUME Quit(w)
      PROVE  \E q \in WorkerRecords : GoesOn(w, q)
  BY <1>2, <1>3, <1>5, <1>6, IdleRecord DEF Quit, failures
<1>7. ASSUME NEW step \in Steps, To(w, step), x # Idle,
             step \notin {"idle", "read"} => status[Txn(w)] # "absent",
             step \in PayoutSteps => status[Txn(w)] = "pending" \/ x.step \in PayoutSteps,
             step \in SettleSteps => status[Txn(w)] = "processing" \/ x.step \in SettleSteps,
             step # "settle", walletLock' = walletLock,
             rowLock' \in [Requests -> Workers \cup {NoOwner}],
             queue' = queue,
             xfer' = xfer \/ (xfer' = Accepted(Txn(w)) /\ step = "commit"),
             step = "commit" => xfer'[Txn(w)] # "none",
             UNCHANGED <<api, db, sends, failures>>
      PROVE  \E q \in WorkerRecords : GoesOn(w, q)
  <2> DEFINE q == [x EXCEPT !.step = step]
  <2>1. /\ q \in WorkerRecords /\ q.step = step /\ q.txn = Txn(w) /\ q.kind = x.kind
        /\ Becomes(w, q)
    BY <1>1, <1>7 DEF WorkerRecords, Becomes, To, Txn
  <2>2. Sound(q)
    BY <1>1, <1>7, <2>1 DEF Sound, Txn
  <2> HIDE DEF q, x
  <2>3. GoesOn(w, q)
    BY <1>2, <1>3, <1>7, <2>1, <2>2 DEF GoesOn, failures, x
  <2> QED
    BY <2>1, <2>3
<1>8. ASSUME NEW kind \in {"payout"} \cup Results, NEW t \in Requests, Take(w, kind, t)
      PROVE  \E q \in WorkerRecords : GoesOn(w, q)
  <2> DEFINE q == [kind |-> kind, txn |-> t, step |-> "read", seen |-> 0]
  <2>1. /\ q \in WorkerRecords /\ q.step = "read" /\ q.txn = t /\ q.kind = kind
        /\ Becomes(w, q)
    BY <1>8 DEF WorkerRecords, Becomes, Take, Steps
  <2>2. Sound(q)
    BY <1>3, <1>8 DEF Sound, Take, Results
  <2>3. queue' \in [Tasks -> Nat] /\ \A k \in Tasks : queue'[k] <= queue[k]
    BY <1>2, <1>8 DEF Take, Tasks
  <2>4. \A result \in Results, s \in Requests : queue'[<<result, s>>] > 0 => Happened(result, s)
    BY <1>2, <1>3, <2>3 DEF Tasks
  <2> HIDE DEF q
  <2>5. GoesOn(w, q)
    BY <1>2, <1>8, <2>1, <2>2, <2>3, <2>4
    DEF GoesOn, Take, locks, failures, paystack, PayoutSteps, SettleSteps
  <2> QED
    BY <2>1, <2>5
<1>9. ASSUME StartPayout(w) \/ FindRecipient(w) \/ StartSettling(w)
      PROVE  \E q \in WorkerRecords : GoesOn(w, q)
  <2> HIDE DEF x
  <2>1. CASE StartPayout(w)
    BY <1>1, <1>2, <1>4, <1>7, <2>1
    DEF StartPayout, At, Steps, PayoutSteps, SettleSteps, locks, paystack, x
  <2>2. CASE FindRecipient(w)
    BY <1>1, <1>2, <1>4, <1>7, <2>2
    DEF FindRecipient, At, Sound, Steps, PayoutSteps, SettleSteps, locks, paystack, x, Txn
  <2>3. CASE StartSettling(w)
    BY <1>1, <1>2, <1>4, <1>7, <2>3
    DEF StartSettling, At, Settleable, Steps, PayoutSteps, SettleSteps, locks, paystack, x
  <2> QED
    BY <1>9, <2>1, <2>2, <2>3
<1>10. ASSUME MarkProcessing(w) \/ Dispatch(w)
       PROVE  \E q \in WorkerRecords : GoesOn(w, q)
  <2>1. CASE MarkProcessing(w)
    BY <1>1, <1>2, <1>4, <1>7, <2>1
    DEF MarkProcessing, At, Sound, Steps, PayoutSteps, SettleSteps, paystack, Txn
  <2>2. CASE Dispatch(w)
    <3>1. x.step = "dispatch" /\ x # Idle /\ Txn(w) \in Requests /\ status[Txn(w)] # "absent"
      BY <1>1, <1>4, <2>2 DEF Dispatch, At, Sound, Txn
    <3>2. xfer' = Accepted(Txn(w)) /\ xfer'[Txn(w)] # "none"
      BY <2>2, <3>1 DEF Dispatch, Accepted, TypeOK
    <3> QED
      BY <1>2, <1>7, <2>2, <3>1, <3>2
      DEF Dispatch, Steps, PayoutSteps, SettleSteps, locks
  <2> QED
    BY <1>10, <2>1, <2>2
<1>11. ASSUME LockWallet(w)
       PROVE  \E q \in WorkerRecords : GoesOn(w, q)
  <2> DEFINE q == [x EXCEPT !.step = "settle", !.seen = balance]
  <2>1. /\ q \in WorkerRecords /\ q.step = "settle" /\ q.txn = Txn(w) /\ q.kind = x.kind
        /\ q.seen = balance /\ Becomes(w, q)
    BY <1>1, <1>2, <1>11 DEF WorkerRecords, Becomes, LockWallet, Txn, Steps
  <2>2. x.step = "lock" /\ x # Idle
    BY <1>4, <1>11 DEF LockWallet, At
  <2>3. Sound(q)
    BY <1>1, <2>1, <2>2 DEF Sound, Txn
  <2> HIDE DEF q, x
  <2>4. GoesOn(w, q)
    BY <1>2, <1>3, <1>11, <2>1, <2>2, <2>3, NamesAssumption
    DEF GoesOn, LockWallet, failures, paystack, PayoutSteps, SettleSteps, x
  <2> QED
    BY <2>1, <2>4
<1>12. ASSUME NEW t \in Requests, Sweep(w, t)
       PROVE  \E q \in WorkerRecords : GoesOn(w, q)
  <2>1. Becomes(w, Idle)
    BY <1>1, <1>12 DEF Sweep, Becomes
  <2>2. /\ queue' \in [Tasks -> Nat]
        /\ \A result \in Results, s \in Requests : queue'[<<result, s>>] = queue[<<result, s>>]
    BY <1>2, <1>12 DEF Sweep, Tasks, Results
  <2>3. GoesOn(w, Idle)
    BY <1>2, <1>3, <1>4, <1>12, <2>1, <2>2, IdleRecord
    DEF GoesOn, Sweep, locks, failures, paystack, PayoutSteps, SettleSteps
  <2> QED
    BY <2>3, IdleRecord
<1>13. ASSUME TaskFails(w)
       PROVE  \E q \in WorkerRecords : GoesOn(w, q)
  <2>1. PICK again \in BOOLEAN :
            queue' = IF again THEN [queue EXCEPT ![<<worker[w].kind, Txn(w)>>] = @ + 1] ELSE queue
    BY <1>13 DEF TaskFails
  <2>0. <<x.kind, x.txn>> \in Tasks
    BY <1>1, <1>13 DEF TaskFails, Sound, WorkerRecords, Tasks
  <2>2. queue' \in [Tasks -> Nat]
    BY <1>2, <2>0, <2>1 DEF Txn
  <2>3. \A result \in Results, s \in Requests :
            queue'[<<result, s>>] = queue[<<result, s>>] \/ (x.kind = result /\ x.txn = s)
    BY <1>2, <2>1 DEF Tasks, Txn
  <2>4. \A result \in Results, s \in Requests : queue'[<<result, s>>] > 0 => Happened(result, s)
    BY <1>1, <1>3, <2>3 DEF Sound
  <2>5. faults' \in 0 .. MaxFaults /\ lost' \in 0 .. MaxLost
    BY <1>2, <1>13, BoundsAssumption DEF TaskFails
  <2>6. GoesOn(w, Idle)
    BY <1>5, <1>13, <2>2, <2>4, <2>5 DEF TaskFails
  <2> QED
    BY <2>6, IdleRecord
<1> HIDE DEF x
<1> QED
  BY <1>6, <1>8, <1>9, <1>10, <1>11, <1>12, <1>13
  DEF Work, Prepare, Settle, SkipPayout, NoAccount, SkipSettling

LEMMA RequestSteps ==
    ASSUME TypeOK, NEW r \in Requests, Handle(r) \/ ApiCrash(r)
    PROVE  Moves(r) \/ Commit(r) \/ Enqueue(r) \/ Delete(r)
<1> USE DEF Moves, Working
<1>1. ASSUME NEW from \in Working, NEW to \in Working \cup {"done"}, Pass(r, from, to),
             from # "enqueue"
      PROVE  Moves(r)
  BY <1>1 DEF Pass, Goto, TypeOK
<1>2. ASSUME NEW from \in Working,
             NEW x \in {"none", "created", "removed", "limit", "already_pending", "not_found",
                        "insufficient", "forbidden", "error", "lost"},
             Answer(r, from, x)
      PROVE  Moves(r)
  BY <1>2 DEF Answer, Goto, TypeOK
<1>3. CASE LoadWallet(r)
  BY <1>3 DEF LoadWallet, Goto, TypeOK
<1>4. CASE CheckLimits(r) \/ NoneActive(r) \/ AccountFound(r) \/ FindAccount(r) \/ AccountFree(r)
  BY <1>1, <1>4 DEF CheckLimits, NoneActive, AccountFound, FindAccount, AccountFree
<1>5. CASE ExceedLimits(r) \/ AlreadyPending(r) \/ Insufficient(r) \/ AccountBusy(r)
  BY <1>2, <1>5 DEF ExceedLimits, AlreadyPending, Insufficient, AccountBusy
<1>6. CASE SeveralActive(r) \/ AccountMissing(r) \/ ApiCrash(r)
  BY <1>2, <1>6 DEF SeveralActive, AccountMissing, ApiCrash
<1> QED
  BY <1>3, <1>4, <1>5, <1>6 DEF Handle

LEMMA NextSteps ==
    ASSUME BaseInv, [Next]_vars
    PROVE  \/ \E r \in Requests :
                \/ \E o \in Offers : Arrive(r, o)
                \/ Moves(r) \/ Commit(r) \/ Enqueue(r) \/ Delete(r)
                \/ Complete(r) \/ Reverse(r) \/ \E result \in Results : Deliver(result, r)
           \/ \E w \in Workers :
                \/ \E q \in WorkerRecords : GoesOn(w, q)
                \/ CommitPayout(w) \/ PayoutSucceeded(w) \/ PayoutFailed(w)
           \/ UNCHANGED vars
  BY RequestSteps, WorkerSteps DEF Next, BaseInv

-----------------------------------------------------------------------------
(* Whatever overlaps. *)

(* What Paystack came to, it does not take back, but for a reversal. *)
Onwards ==
    /\ \A t \in Requests :
          \/ xfer'[t] = xfer[t] \/ xfer[t] \in {"none", "pending"}
          \/ xfer[t] = "success" /\ xfer'[t] = "reversed"
    /\ \A t \in Requests : xfer[t] # "none" => xfer'[t] # "none"
    /\ \A t \in Requests : status[t] # "absent" => status'[t] # "absent"

LEMMA HappenedStays ==
    ASSUME Onwards, NEW result \in Results, NEW t \in Requests, Happened(result, t)
    PROVE  Happened(result, t)'
  BY DEF Onwards, Happened, Results

LEMMA SoundStays ==
    ASSUME Onwards, NEW q \in WorkerRecords, Sound(q)
    PROVE  Sound(q)'
<1>1. CASE q = Idle
  BY <1>1 DEF Sound, Idle, Results
<1>2. CASE q # Idle
  <2>1. q.txn \in Requests /\ q.kind # "none"
    BY <1>2 DEF Sound
  <2>2. q.kind \in Results => Happened(q.kind, q.txn)'
    BY <2>1, HappenedStays DEF Sound
  <2>3. q.step \notin {"idle", "read"} => status'[q.txn] # "absent"
    BY <2>1 DEF Sound, Onwards
  <2> QED
    BY <2>1, <2>2, <2>3 DEF Sound
<1> QED
  BY <1>1, <1>2

(* What was written stays true of a transfer that goes on. *)
LEMMA OutcomeStays ==
    ASSUME OutcomeAgrees, Onwards, ledger' = ledger,
           \A t \in Requests :
              status'[t] = status[t] \/ (status[t] = "absent" /\ status'[t] = "pending"),
           \A e \in audited' \ audited : e.action = "initiated",
           \A t \in Requests : xfer'[t] = "none" \/ xfer[t] # "none"
    PROVE  OutcomeAgrees'
<1> SUFFICES ASSUME NEW t \in Requests
             PROVE  /\ xfer'[t] # "none" => status'[t] # "absent"
                    /\ status'[t] = "processing" => xfer'[t] # "none"
                    /\ PaidOut(t)' => xfer'[t] \in {"success", "reversed"}
                    /\ Refunded(t)' => xfer'[t] \in {"failed", "reversed"}
  BY DEF OutcomeAgrees
<1>1. /\ [action |-> "completed", txn |-> t] \in audited' => [action |-> "completed", txn |-> t] \in audited
      /\ [action |-> "failed", txn |-> t] \in audited' => [action |-> "failed", txn |-> t] \in audited
  OBVIOUS
<1>2. DebitsOf(t)' = DebitsOf(t)
  BY DEF DebitsOf
<1>3. (PaidOut(t)' => PaidOut(t)) /\ (Refunded(t)' => Refunded(t))
  BY <1>1, <1>2 DEF PaidOut, Refunded
<1> QED
  BY <1>3 DEF OutcomeAgrees, Onwards

(* What depends on the tasks alone. *)
LEMMA OneGoesOn ==
    ASSUME BaseInv, Onwards, NEW w \in Workers, NEW q \in WorkerRecords,
           Becomes(w, q), Sound(q)
    PROVE  /\ worker' \in [Workers -> WorkerRecords]
           /\ worker'[w] = q /\ \A v \in Workers \ {w} : worker'[v] = worker[v]
           /\ TasksSound'
<1>1. worker \in [Workers -> WorkerRecords]
  BY DEF BaseInv, TypeOK, WorkerRecords
<1>2. /\ worker' \in [Workers -> WorkerRecords]
      /\ worker'[w] = q /\ \A v \in Workers \ {w} : worker'[v] = worker[v]
  BY <1>1 DEF Becomes
<1>3. SUFFICES ASSUME NEW v \in Workers PROVE Sound(worker[v])'
  BY <1>2 DEF TasksSound
<1>4. PICK x \in WorkerRecords : x = worker'[v] /\ Sound(x)
  BY <1>1, <1>2 DEF BaseInv, TasksSound
<1>5. Sound(x)'
  BY <1>4, SoundStays
<1> QED
  BY <1>4, <1>5 DEF Sound

LEMMA GoesOnBase ==
    ASSUME BaseInv, NEW w \in Workers, NEW q \in WorkerRecords, GoesOn(w, q)
    PROVE  BaseInv' /\ Onwards
<1> USE DEF BaseInv
<1>1. /\ UNCHANGED <<req, pc, snap, reply, removed, recipients, status, balance, ledger, audited, sends>>
      /\ xfer' = xfer \/ (xfer' = Accepted(q.txn) /\ q.step = "commit")
  BY DEF GoesOn, api, db
<1>2. /\ \A t \in Requests :
            \/ xfer'[t] = xfer[t]
            \/ xfer[t] = "none" /\ xfer'[t] # "none" /\ status[t] # "absent"
      /\ xfer' \in [Requests -> {"none", "pending", "success", "failed", "reversed"}]
  <2>1. q.step = "commit" => q.txn \in Requests /\ status[q.txn] # "absent"
    BY DEF GoesOn, Sound, Idle
  <2> QED
    BY <1>1, <2>1 DEF Accepted, TypeOK
<1>3. Onwards
  BY <1>1, <1>2 DEF Onwards
<1>4. /\ worker' \in [Workers -> WorkerRecords]
      /\ worker'[w] = q /\ \A v \in Workers \ {w} : worker'[v] = worker[v]
      /\ TasksSound'
  BY <1>3, OneGoesOn DEF GoesOn
<1>5. TypeOK'
  BY <1>1, <1>2, <1>4 DEF TypeOK, GoesOn, WorkerRecords
<1>6. Bodies'
  BY <1>1 DEF Bodies
<1>7. EventsHappened'
  BY <1>3, HappenedStays DEF EventsHappened, GoesOn
<1>8. LockHeld'
  <2> SUFFICES ASSUME NEW v \in Workers, worker'[v].step = "settle"
               PROVE  walletLock' = v /\ worker'[v].seen = balance'
    BY DEF LockHeld
  <2>1. CASE v = w
    BY <1>1, <1>4, <2>1 DEF GoesOn
  <2>2. CASE v # w
    BY <1>1, <1>4, <2>2 DEF GoesOn, InHand, LockHeld
  <2> QED
    BY <2>1, <2>2
<1>9. OutcomeAgrees'
  <2>1. \A t \in Requests : PaidOut(t)' = PaidOut(t) /\ Refunded(t)' = Refunded(t)
    BY <1>1 DEF PaidOut, Refunded, DebitsOf
  <2> QED
    BY <1>1, <1>2, <2>1 DEF OutcomeAgrees
<1>10. Dispatched'
  <2> SUFFICES ASSUME NEW v \in Workers, worker'[v].step = "commit"
               PROVE  xfer'[worker'[v].txn] # "none"
    BY DEF Dispatched, Txn
  <2>1. CASE v = w
    BY <1>4, <2>1 DEF GoesOn
  <2>2. CASE v # w
    <3>1. worker[v].step = "commit" /\ worker'[v].txn = Txn(v) /\ xfer[Txn(v)] # "none"
      BY <1>4, <2>2 DEF InHand, Dispatched, Txn
    <3>2. Txn(v) \in Requests
      BY <3>1 DEF TasksSound, Sound, Idle, Txn
    <3> QED
      BY <1>2, <3>1, <3>2
  <2> QED
    BY <2>1, <2>2
<1> QED
  BY <1>3, <1>4, <1>5, <1>6, <1>7, <1>8, <1>9, <1>10 DEF InHand

(* A task that writes a withdrawal's status ends with it. *)
Writes(w, s) ==
    /\ status' = [status EXCEPT ![Txn(w)] = s]
    /\ End(w)
    /\ UNCHANGED <<api, removed, paystack, queue, failures>>

LEMMA WritesBase ==
    ASSUME BaseInv, NEW w \in Workers, NEW s \in {"processing", "completed", "failed"},
           worker[w].step \in {"commit", "settle"}, Writes(w, s),
           s = "processing" => xfer[Txn(w)] # "none",
           s = "completed" => Happened("success", Txn(w)),
           s = "failed" => Happened("failed", Txn(w)),
           \/ ledger' = ledger
           \/ s = "completed" /\ ledger' = Append(ledger, [txn |-> Txn(w), after |-> balance]),
           \A e \in audited' \ audited : e = [action |-> s, txn |-> Txn(w)],
           balance' = balance \/ (walletLock = w /\ balance' \in Nat),
           recipients' \subseteq Accounts, ledger' \in Seq([txn : Requests, after : Nat]),
           audited' \subseteq [action : {"initiated", "completed", "failed"}, txn : Requests]
    PROVE  BaseInv' /\ Onwards
<1> USE DEF BaseInv
<1>1. /\ UNCHANGED <<req, pc, snap, reply, removed, xfer, sends, queue, faults, lost>>
      /\ status' = [status EXCEPT ![Txn(w)] = s]
  BY DEF Writes, api, paystack, failures
<1>2. Onwards
  BY <1>1 DEF Onwards, TypeOK
<1>3. worker[w] # Idle /\ worker[w] \in WorkerRecords
  BY DEF Idle, TypeOK, WorkerRecords
<1>4. Txn(w) \in Requests /\ status[Txn(w)] # "absent"
  BY <1>3 DEF TasksSound, Sound, Txn
<1>5. /\ worker' \in [Workers -> WorkerRecords] /\ TasksSound'
      /\ worker'[w] = Idle /\ \A v \in Workers \ {w} : worker'[v] = worker[v]
      /\ walletLock' \in Workers \cup {NoOwner}
      /\ \A v \in Workers \ {w} : walletLock = v => walletLock' = v
      /\ rowLock' \in [Requests -> Workers \cup {NoOwner}]
  BY <1>2, Released, IdleRecord, OneGoesOn DEF Writes
<1>6. TypeOK'
  <2>1. balance' \in Nat /\ status' \in [Requests -> Statuses]
    BY <1>1 DEF TypeOK, Statuses
  <2> QED
    BY <1>1, <1>5, <2>1 DEF TypeOK, WorkerRecords
<1>7. Bodies'
  BY <1>1, <1>4 DEF Bodies, TypeOK
<1>8. EventsHappened'
  BY <1>1 DEF EventsHappened, Happened
<1>9. InHand'
  BY <1>1, <1>5, IdleRecord DEF InHand, LockHeld, Dispatched, Txn
<1>10. OutcomeAgrees'
  <2>1. \A t \in Requests : t # Txn(w) => status'[t] = status[t]
    BY <1>1 DEF TypeOK
  <2>2. status'[Txn(w)] = s
    BY <1>1, <1>4 DEF TypeOK
  <2>3. \A t \in Requests :
           DebitsOf(t)' # {} => DebitsOf(t) # {} \/ (t = Txn(w) /\ s = "completed")
    <3> SUFFICES ASSUME NEW t \in Requests, NEW i \in DOMAIN ledger', ledger'[i].txn = t
                 PROVE  DebitsOf(t) # {} \/ (t = Txn(w) /\ s = "completed")
      BY DEF DebitsOf
    <3>1. CASE ledger' = ledger
      BY <3>1 DEF DebitsOf
    <3>2. CASE /\ s = "completed"
               /\ ledger' = Append(ledger, [txn |-> Txn(w), after |-> balance])
      <4> DEFINE e == [txn |-> Txn(w), after |-> balance]
      <4>0. e.txn = Txn(w) /\ e \in [txn : Requests, after : Nat]
        BY <1>4 DEF TypeOK
      <4>1. ledger \in Seq([txn : Requests, after : Nat]) /\ ledger' = Append(ledger, e)
        BY <3>2 DEF TypeOK
      <4> HIDE DEF e
      <4>2. (i \in DOMAIN ledger /\ ledger'[i] = ledger[i]) \/ ledger'[i] = e
        BY <4>0, <4>1, AppendProperties
      <4> QED
        BY <3>2, <4>0, <4>2 DEF DebitsOf
    <3> QED
      BY <3>1, <3>2
  <2>4. \A t \in Requests :
           /\ PaidOut(t)' => PaidOut(t) \/ (t = Txn(w) /\ s = "completed")
           /\ Refunded(t)' => Refunded(t) \/ (t = Txn(w) /\ s = "failed")
    BY <2>1, <2>2, <2>3 DEF PaidOut, Refunded
  <2> QED
    BY <1>1, <1>4, <2>1, <2>2, <2>4 DEF OutcomeAgrees, Happened
<1> QED
  BY <1>2, <1>5, <1>6, <1>7, <1>8, <1>9, <1>10

(* What a request leaves alone, tasks and Paystack's transfers among it. *)
LEMMA OthersBase ==
    ASSUME BaseInv, Onwards, UNCHANGED <<worker, walletLock>>,
           balance' = balance \/ walletLock = NoOwner,
           \A result \in Results, t \in Requests :
              queue'[<<result, t>>] > 0 => Happened(result, t)
    PROVE  TasksSound' /\ InHand' /\ EventsHappened'
<1>1. TasksSound'
  <2> SUFFICES ASSUME NEW v \in Workers PROVE Sound(worker[v])'
    BY DEF TasksSound
  <2>1. PICK x \in WorkerRecords : x = worker[v] /\ x = worker'[v] /\ Sound(x)
    BY DEF BaseInv, TypeOK, TasksSound, WorkerRecords
  <2>2. Sound(x)'
    BY <2>1, SoundStays
  <2> QED
    BY <2>1, <2>2 DEF Sound
<1>2. InHand'
  <2>1. LockHeld'
    BY NamesAssumption DEF InHand, LockHeld, BaseInv
  <2>2. \A w \in Workers : worker[w].step = "commit" => Txn(w) \in Requests
    BY DEF BaseInv, TasksSound, Sound, Idle, Txn
  <2> QED
    BY <2>1, <2>2 DEF InHand, Dispatched, BaseInv, Onwards, Txn
<1>3. EventsHappened'
  BY HappenedStays DEF EventsHappened
<1> QED
  BY <1>1, <1>2, <1>3

LEMMA RequestStepBase ==
    ASSUME BaseInv, NEW r \in Requests,
           (\E o \in Offers : Arrive(r, o)) \/ Moves(r) \/ Commit(r) \/ Enqueue(r) \/ Delete(r)
    PROVE  BaseInv'
<1> USE DEF BaseInv
<1>1. \A result \in Results, t \in Requests : queue[<<result, t>>] > 0 => Happened(result, t)
  BY DEF EventsHappened
<1>2. CASE \E o \in Offers : Arrive(r, o)
  <2>1. PICK o \in Offers : Arrive(r, o)
    BY <1>2
  <2>2. /\ pc[r] = "idle" /\ req' = [req EXCEPT ![r] = o]
        /\ \E to \in Working : pc' = [pc EXCEPT ![r] = to]
        /\ UNCHANGED <<snap, reply, World>>
    BY <2>1 DEF Arrive, Goto, Working
  <2>3. TypeOK'
    BY <2>2 DEF TypeOK, World, db, paystack, locks, failures
  <2>4. Bodies'
    BY <2>2 DEF Bodies, TypeOK, World, db
  <2>5. Onwards /\ OutcomeAgrees'
    <3>1. UNCHANGED <<xfer, status, ledger, audited>> /\ Onwards
      BY <2>2 DEF Onwards, World, db, paystack
    <3> QED
      BY <3>1, OutcomeStays
  <2>6. TasksSound' /\ InHand' /\ EventsHappened'
    BY <1>1, <2>2, <2>5, OthersBase DEF World, db, locks
  <2> QED
    BY <2>3, <2>4, <2>5, <2>6
<1>3. CASE Moves(r)
  <2>0. /\ pc' \in [Requests -> Working \cup {"idle", "done"}]
        /\ reply' \in [Requests -> {"none", "created", "removed", "limit", "already_pending",
                                   "not_found", "insufficient", "forbidden", "error", "lost"}]
    <3>1. PICK to \in Working \cup {"done"} : pc' = [pc EXCEPT ![r] = to]
      BY <1>3 DEF Moves
    <3>2. PICK x \in {"none", "created", "removed", "limit", "already_pending", "not_found",
                       "insufficient", "forbidden", "error", "lost"} :
              reply' \in {reply, [reply EXCEPT ![r] = x]}
      BY <1>3 DEF Moves
    <3>3. pc' \in [Requests -> Working \cup {"idle", "done"}]
      BY <3>1 DEF TypeOK
    <3> QED
      BY <3>2, <3>3 DEF TypeOK
  <2>1. TypeOK'
    BY <1>3, <2>0 DEF Moves, TypeOK, World, db, paystack, locks, failures
  <2>2. Bodies'
    BY <1>3 DEF Moves, Bodies, TypeOK, World, db, Working
  <2>3. Onwards /\ OutcomeAgrees'
    <3>1. UNCHANGED <<xfer, status, ledger, audited>> /\ Onwards
      BY <1>3 DEF Moves, Onwards, World, db, paystack
    <3> QED
      BY <3>1, OutcomeStays
  <2>4. TasksSound' /\ InHand' /\ EventsHappened'
    BY <1>1, <1>3, <2>3, OthersBase DEF Moves, World, db, locks
  <2> QED
    BY <2>1, <2>2, <2>3, <2>4
<1>4. CASE Commit(r)
  <2>1. /\ pc[r] = "commit" /\ walletLock = NoOwner
        /\ pc' = [pc EXCEPT ![r] = "enqueue"] /\ status' = [status EXCEPT ![r] = "pending"]
        /\ UNCHANGED <<req, snap, reply, removed, recipients, ledger, audited, xfer, sends,
                       queue, worker, rowLock, walletLock, faults, lost>>
    BY <1>4 DEF Commit, Goto, paystack, locks, failures
  <2>2. snap[r] \in Nat /\ req[r] \in Offers /\ status[r] = "absent"
    BY <2>1 DEF Bodies, TypeOK
  <2>3. balance' \in Nat
    <3>1. Amount(r) \in Nat
      BY <2>2, OffersAssumption DEF Amount
    <3> QED
      BY <1>4, <2>2, <3>1 DEF Commit
  <2>4. TypeOK'
    BY <2>1, <2>3 DEF TypeOK, Statuses, Working
  <2>5. Bodies'
    BY <2>1, <2>2 DEF Bodies, TypeOK
  <2>6. Onwards /\ OutcomeAgrees'
    <3>1. UNCHANGED <<xfer, ledger, audited>>
      BY <2>1
    <3>2. Onwards /\ \A t \in Requests :
              status'[t] = status[t] \/ (status[t] = "absent" /\ status'[t] = "pending")
      BY <2>1, <2>2 DEF Onwards, TypeOK
    <3> QED
      BY <3>1, <3>2, OutcomeStays
  <2>7. TasksSound' /\ InHand' /\ EventsHappened'
    BY <1>1, <2>1, <2>6, OthersBase
  <2> QED
    BY <2>4, <2>5, <2>6, <2>7
<1>5. CASE Enqueue(r)
  <2>1. /\ pc[r] = "enqueue" /\ pc' = [pc EXCEPT ![r] = "done"]
        /\ UNCHANGED <<req, snap, removed, recipients, status, balance, ledger, xfer, sends,
                       worker, rowLock, walletLock, faults, lost>>
    BY <1>5 DEF Enqueue, Goto, paystack, locks, failures
  <2>0. <<"payout", r>> \in Tasks /\ Results \X Requests \subseteq Tasks
    BY DEF Tasks
  <2>2. /\ queue' \in [Tasks -> Nat]
        /\ \A result \in Results, t \in Requests : queue'[<<result, t>>] = queue[<<result, t>>]
    <3>1. /\ queue \in [Tasks -> Nat]
          /\ queue' \in {queue, [queue EXCEPT ![<<"payout", r>>] = @ + 1]}
      BY <1>5 DEF Enqueue, TypeOK
    <3>2. queue' \in [Tasks -> Nat] /\ \A k \in Tasks : k # <<"payout", r>> => queue'[k] = queue[k]
      BY <2>0, <3>1
    <3> QED
      BY <2>0, <3>2 DEF Results
  <2>3. reply' = [reply EXCEPT ![r] = "created"]
        /\ audited' = audited \cup {[action |-> "initiated", txn |-> r]}
    BY <1>5 DEF Enqueue
  <2>4. TypeOK'
    BY <2>1, <2>2, <2>3 DEF TypeOK
  <2>5. Bodies'
    BY <2>1 DEF Bodies, TypeOK
  <2>6. Onwards /\ OutcomeAgrees'
    <3>1. UNCHANGED <<xfer, status, ledger>> /\ Onwards
      BY <2>1 DEF Onwards
    <3>2. \A e \in audited' \ audited : e.action = "initiated"
      BY <2>3
    <3> QED
      BY <3>1, <3>2, OutcomeStays
  <2>7. TasksSound' /\ InHand' /\ EventsHappened'
    BY <1>1, <2>1, <2>2, <2>6, OthersBase
  <2> QED
    BY <2>4, <2>5, <2>6, <2>7
<1>6. CASE Delete(r)
  <2>1. /\ pc[r] = "delete" /\ pc' = [pc EXCEPT ![r] = "done"]
        /\ removed' = removed \cup {Account(r)} /\ reply' = [reply EXCEPT ![r] = "removed"]
        /\ UNCHANGED <<req, snap, recipients, status, balance, ledger, audited, xfer, sends,
                       queue, worker, rowLock, walletLock, faults, lost>>
    BY <1>6 DEF Delete, Goto, paystack, locks, failures
  <2>2. Account(r) \in Accounts
    BY <2>1, OffersAssumption DEF Bodies, Account
  <2>3. TypeOK'
    BY <2>1, <2>2 DEF TypeOK
  <2>4. Bodies'
    BY <2>1 DEF Bodies, TypeOK
  <2>5. Onwards /\ OutcomeAgrees'
    <3>1. UNCHANGED <<xfer, status, ledger, audited>> /\ Onwards
      BY <2>1 DEF Onwards
    <3> QED
      BY <3>1, OutcomeStays
  <2>6. TasksSound' /\ InHand' /\ EventsHappened'
    BY <1>1, <2>1, <2>5, OthersBase
  <2> QED
    BY <2>3, <2>4, <2>5, <2>6
<1> QED
  BY <1>2, <1>3, <1>4, <1>5, <1>6

LEMMA PaystackStepBase ==
    ASSUME BaseInv, NEW t \in Requests,
           Complete(t) \/ Reverse(t) \/ \E result \in Results : Deliver(result, t)
    PROVE  BaseInv'
<1> USE DEF BaseInv
<1>1. \A result \in Results, s \in Requests : queue[<<result, s>>] > 0 => Happened(result, s)
  BY DEF EventsHappened
<1>2. CASE Complete(t) \/ Reverse(t)
  <2>1. /\ \/ xfer[t] = "pending" /\ \E result \in Results : xfer' = [xfer EXCEPT ![t] = result]
           \/ xfer[t] = "success" /\ xfer' = [xfer EXCEPT ![t] = "reversed"]
        /\ UNCHANGED <<api, db, sends, queue, worker, locks, failures>>
    BY <1>2 DEF Complete, Reverse
  <2>0. xfer' \in [Requests -> {"none", "pending", "success", "failed", "reversed"}]
    <3>1. PICK x \in {"success", "failed", "reversed"} : xfer' = [xfer EXCEPT ![t] = x]
      BY <2>1 DEF Results
    <3>2. xfer \in [Requests -> {"none", "pending", "success", "failed", "reversed"}]
      BY DEF TypeOK
    <3> QED
      BY <3>1, <3>2
  <2>2. TypeOK'
    BY <2>0, <2>1 DEF TypeOK, api, db, locks, failures
  <2>3. Onwards /\ OutcomeAgrees' /\ Bodies'
    <3>1. UNCHANGED <<status, ledger, audited>> /\ Bodies'
      BY <2>1 DEF Bodies, api, db
    <3>2. Onwards /\ \A s \in Requests : xfer'[s] = "none" \/ xfer[s] # "none"
      BY <2>1, <3>1 DEF Onwards, TypeOK, Results
    <3> QED
      BY <3>1, <3>2, OutcomeStays
  <2>4. TasksSound' /\ InHand' /\ EventsHappened'
    BY <1>1, <2>1, <2>3, OthersBase DEF db, locks
  <2> QED
    BY <2>2, <2>3, <2>4
<1>3. CASE \E result \in Results : Deliver(result, t)
  <2>1. PICK result \in Results : Deliver(result, t)
    BY <1>3
  <2> DEFINE e == <<result, t>>
  <2>2. /\ Happened(result, t) /\ sends[e] < MaxSends /\ sends' = [sends EXCEPT ![e] = @ + 1]
        /\ queue' \in {queue, [queue EXCEPT ![e] = @ + 1]}
        /\ lost' = lost \/ (lost < MaxLost /\ lost' = lost + 1)
        /\ UNCHANGED <<api, db, xfer, worker, locks, faults>>
    BY <2>1 DEF Deliver
  <2>3. /\ queue' \in [Tasks -> Nat]
        /\ \A k \in Tasks : queue'[k] = queue[k] \/ k = e
    <3>1. e \in Tasks /\ queue \in [Tasks -> Nat]
      BY DEF TypeOK, Tasks
    <3> HIDE DEF e
    <3> QED
      BY <2>2, <3>1
  <2>4. \A x \in Results, s \in Requests : queue'[<<x, s>>] > 0 => Happened(x, s)
    BY <1>1, <2>2, <2>3 DEF Tasks
  <2>5. sends' \in [Results \X Requests -> 0 .. MaxSends] /\ lost' \in 0 .. MaxLost
    <3>1. e \in Results \X Requests /\ sends \in [Results \X Requests -> 0 .. MaxSends]
          /\ lost \in 0 .. MaxLost
      BY DEF TypeOK
    <3>2. lost' \in 0 .. MaxLost
      BY <2>2, <3>1, BoundsAssumption
    <3> HIDE DEF e
    <3>3. sends[e] + 1 \in 0 .. MaxSends
      BY <2>2, <3>1, BoundsAssumption
    <3> QED
      BY <2>2, <3>1, <3>2, <3>3
  <2>6. TypeOK'
    BY <2>2, <2>3, <2>5 DEF TypeOK, api, db, locks
  <2>7. Onwards /\ OutcomeAgrees' /\ Bodies'
    <3>1. UNCHANGED <<xfer, status, ledger, audited>> /\ Onwards /\ Bodies'
      BY <2>2 DEF Onwards, Bodies, api, db
    <3> QED
      BY <3>1, OutcomeStays
  <2>8. TasksSound' /\ InHand' /\ EventsHappened'
    BY <2>2, <2>4, <2>7, OthersBase DEF db, locks
  <2> QED
    BY <2>6, <2>7, <2>8
<1> QED
  BY <1>2, <1>3

(* The three ways in which a task ends with a new status. *)
LEMMA WritesOf ==
    ASSUME BaseInv, NEW w \in Workers
    PROVE  /\ CommitPayout(w) =>
                 /\ worker[w].step = "commit" /\ worker[w].kind = "payout"
                 /\ Writes(w, "processing") /\ UNCHANGED <<balance, ledger>>
                 /\ audited' = audited /\ xfer[Txn(w)] # "none"
           /\ PayoutSucceeded(w) =>
                 /\ worker[w].step = "settle" /\ worker[w].kind = "success"
                 /\ Writes(w, "completed") /\ balance' = balance
                 /\ ledger' = Append(ledger, [txn |-> Txn(w), after |-> balance])
                 /\ audited' = audited \cup {[action |-> "completed", txn |-> Txn(w)]}
           /\ PayoutFailed(w) =>
                 /\ worker[w].step = "settle" /\ worker[w].kind = "failed"
                 /\ Writes(w, "failed") /\ balance' = balance + Amount(Txn(w))
                 /\ audited' = audited \cup {[action |-> "failed", txn |-> Txn(w)]}
                 /\ UNCHANGED ledger
  BY DEF BaseInv, InHand, LockHeld, Dispatched, CommitPayout, PayoutSucceeded, PayoutFailed, Writes, At

LEMMA WritesStepBase ==
    ASSUME BaseInv, NEW w \in Workers,
           CommitPayout(w) \/ PayoutSucceeded(w) \/ PayoutFailed(w)
    PROVE  BaseInv'
<1>0. /\ CommitPayout(w) =>
            /\ worker[w].step = "commit" /\ Writes(w, "processing") /\ UNCHANGED <<balance, ledger>>
            /\ audited' = audited /\ xfer[Txn(w)] # "none"
      /\ PayoutSucceeded(w) =>
            /\ worker[w].step = "settle" /\ worker[w].kind = "success"
            /\ Writes(w, "completed") /\ balance' = balance
            /\ ledger' = Append(ledger, [txn |-> Txn(w), after |-> balance])
            /\ audited' = audited \cup {[action |-> "completed", txn |-> Txn(w)]}
      /\ PayoutFailed(w) =>
            /\ worker[w].step = "settle" /\ worker[w].kind = "failed"
            /\ Writes(w, "failed") /\ balance' = balance + Amount(Txn(w))
            /\ audited' = audited \cup {[action |-> "failed", txn |-> Txn(w)]}
            /\ UNCHANGED ledger
  BY WritesOf
<1> USE DEF BaseInv
<1>1. worker[w].step \in {"commit", "settle"}
  BY <1>0
<1>2. Txn(w) \in Requests /\ status[Txn(w)] # "absent"
  BY <1>1 DEF TasksSound, Sound, Txn, Idle
<1>3. Amount(Txn(w)) \in Nat /\ Account(Txn(w)) \in Accounts
  BY <1>2, OffersAssumption DEF Bodies, Amount, Account
<1>4. balance \in Nat /\ ledger \in Seq([txn : Requests, after : Nat])
      /\ recipients \subseteq Accounts
      /\ audited \subseteq [action : {"initiated", "completed", "failed"}, txn : Requests]
  BY DEF TypeOK
<1>5. CASE CommitPayout(w)
  <2>1. recipients' \subseteq Accounts /\ audited' = audited
    BY <1>3, <1>4, <1>5 DEF CommitPayout
  <2> QED
    BY <1>4, <1>5, <2>1, <1>0, WritesBase
<1>6. CASE PayoutSucceeded(w)
  <2>1. ledger' \in Seq([txn : Requests, after : Nat])
    <3> DEFINE e == [txn |-> Txn(w), after |-> balance]
    <3>1. e \in [txn : Requests, after : Nat]
      BY <1>2, <1>4
    <3>2. ledger' = Append(ledger, e)
      BY <1>0, <1>6
    <3> HIDE DEF e
    <3> QED
      BY <1>4, <3>1, <3>2, AppendProperties
  <2>2. /\ recipients' = recipients
        /\ audited' \subseteq [action : {"initiated", "completed", "failed"}, txn : Requests]
    BY <1>2, <1>4, <1>6 DEF PayoutSucceeded
  <2>3. Happened("success", Txn(w))
    BY <1>6, <1>0 DEF TasksSound, Sound, Results, Txn
  <2> QED
    BY <1>4, <1>6, <2>1, <2>2, <2>3, <1>0, WritesBase
<1>7. CASE PayoutFailed(w)
  <2>1. balance' \in Nat /\ walletLock = w
    BY <1>3, <1>4, <1>7, <1>0 DEF InHand, LockHeld
  <2>2. /\ recipients' = recipients
        /\ audited' \subseteq [action : {"initiated", "completed", "failed"}, txn : Requests]
    BY <1>2, <1>4, <1>7 DEF PayoutFailed
  <2>3. Happened("failed", Txn(w))
    BY <1>7, <1>0 DEF TasksSound, Sound, Results, Txn
  <2> QED
    BY <1>4, <1>7, <2>1, <2>2, <2>3, <1>0, WritesBase
<1> QED
  BY <1>5, <1>6, <1>7

LEMMA StepBaseInv == BaseInv /\ [Next]_vars => BaseInv'
<1> SUFFICES ASSUME BaseInv, [Next]_vars PROVE BaseInv'
  OBVIOUS
<1>1. CASE UNCHANGED vars
  <2>1. UNCHANGED <<req, pc, snap, reply, removed, recipients, status, balance, ledger, audited,
                    xfer, sends, queue, worker, rowLock, walletLock, faults, lost>>
    BY <1>1 DEF vars, api, db, paystack, locks, failures
  <2>2. TypeOK' /\ Bodies'
    BY <2>1 DEF BaseInv, TypeOK, Bodies
  <2>3. Onwards /\ OutcomeAgrees'
    <3>1. Onwards
      BY <2>1 DEF Onwards
    <3> QED
      BY <2>1, <3>1, OutcomeStays DEF BaseInv
  <2>4. TasksSound' /\ InHand' /\ EventsHappened'
    BY <2>1, <2>3, OthersBase DEF BaseInv, EventsHappened
  <2> QED
    BY <2>2, <2>3, <2>4 DEF BaseInv
<1> QED
  BY <1>1, NextSteps, RequestStepBase, PaystackStepBase, GoesOnBase, WritesStepBase

-----------------------------------------------------------------------------
(* While tasks of one withdrawal do not overlap. *)

LEMMA OthersSettled ==
    ASSUME SettledInv, UNCHANGED <<status, ledger>>
    PROVE  EntriesOfCompleted' /\ CompletedHasEntry'
BY DEF SettledInv, EntriesOfCompleted, CompletedHasEntry, DebitsOf

LEMMA GoesOnSettled ==
    ASSUME BaseInv, SettledInv, NEW w \in Workers, NEW q \in WorkerRecords, GoesOn(w, q)
    PROVE  SettledInv'
<1>1. UNCHANGED <<status, ledger>>
  BY DEF GoesOn, db
<1>2. worker'[w] = q /\ \A v \in Workers \ {w} : worker'[v] = worker[v]
  BY GoesOnBase, OneGoesOn DEF GoesOn
<1>3. StillSo'
  <2> SUFFICES ASSUME NEW v \in Workers
               PROVE  /\ worker'[v].step \in PayoutSteps => status[worker'[v].txn] = "pending"
                      /\ worker'[v].step \in SettleSteps => status[worker'[v].txn] = "processing"
    BY <1>1 DEF StillSo, Txn, PayoutSteps, SettleSteps
  <2>1. /\ worker[v].step \in PayoutSteps => status[Txn(v)] = "pending"
        /\ worker[v].step \in SettleSteps => status[Txn(v)] = "processing"
    BY DEF SettledInv, StillSo, PayoutSteps, SettleSteps
  <2>2. CASE v = w
    BY <1>2, <2>1, <2>2 DEF GoesOn
  <2>3. CASE v # w
    BY <1>2, <2>1, <2>3 DEF Txn
  <2> QED
    BY <2>2, <2>3
<1> QED
  BY <1>1, <1>3, OthersSettled DEF SettledInv

(* A task that ends leaves the others' rows as they are. *)
LEMMA WritesStillSo ==
    ASSUME BaseInv, SettledInv, Serial, NEW w \in Workers, NEW s, Writes(w, s),
           worker[w].step \in {"commit", "settle"}
    PROVE  StillSo'
<1>1. worker'[w] = Idle /\ \A v \in Workers \ {w} : worker'[v] = worker[v]
  BY DEF Writes, End, BaseInv, TypeOK
<1>2. \A t \in Requests : t # Txn(w) => status'[t] = status[t]
  BY DEF Writes, BaseInv, TypeOK
<1> SUFFICES ASSUME NEW v \in Workers, worker'[v].step \notin {"idle", "read"}
             PROVE  /\ worker[v].step = worker'[v].step /\ worker'[v].txn = Txn(v)
                    /\ status'[Txn(v)] = status[Txn(v)]
  BY DEF SettledInv, StillSo, Txn
<1>3. v # w
  BY <1>1 DEF Idle
<1>4. Txn(v) \in Requests
  BY <1>1, <1>3 DEF BaseInv, TasksSound, Sound, Txn, Idle
<1>5. Txn(v) # Txn(w)
  BY <1>1, <1>3 DEF Serial
<1> QED
  BY <1>1, <1>2, <1>3, <1>4, <1>5 DEF Txn

LEMMA WritesSettled ==
    ASSUME BaseInv, SettledInv, Serial, NEW w \in Workers,
           CommitPayout(w) \/ PayoutSucceeded(w) \/ PayoutFailed(w)
    PROVE  SettledInv' /\ status[Txn(w)] \in {"pending", "processing"}
<1>1. PICK s \in {"processing", "completed", "failed"} :
        /\ Writes(w, s) /\ worker[w].step \in {"commit", "settle"}
        /\ \/ s # "completed" /\ UNCHANGED ledger
           \/ /\ s = "completed" /\ worker[w].step = "settle"
              /\ ledger' = Append(ledger, [txn |-> Txn(w), after |-> balance])
  BY WritesOf
<1>2. Txn(w) \in Requests
  BY <1>1 DEF BaseInv, TasksSound, Sound, Txn, Idle
<1>3. status[Txn(w)] \in {"pending", "processing"}
  BY <1>1 DEF SettledInv, StillSo
<1>4. StillSo'
  BY <1>1, WritesStillSo
<1>5. /\ status' = [status EXCEPT ![Txn(w)] = s] /\ status \in [Requests -> Statuses]
      /\ ledger \in Seq([txn : Requests, after : Nat])
  BY <1>1 DEF Writes, BaseInv, TypeOK
<1>6. \A i \in DOMAIN ledger : ledger[i].txn \in Requests /\ ledger[i].txn # Txn(w)
  <2> SUFFICES ASSUME NEW i \in DOMAIN ledger
               PROVE  ledger[i].txn \in Requests /\ ledger[i].txn # Txn(w)
    OBVIOUS
  <2>1. ledger[i] \in [txn : Requests, after : Nat]
    <3>1. i \in 1 .. Len(ledger)
      BY <1>5
    <3> QED
      BY <1>5, <3>1, ElementOfSeq
  <2>2. status[ledger[i].txn] = "completed"
    BY DEF SettledInv, EntriesOfCompleted
  <2> QED
    BY <1>3, <2>1, <2>2
<1>7. CASE s # "completed" /\ UNCHANGED ledger
  <2>1. EntriesOfCompleted'
    BY <1>5, <1>6, <1>7 DEF SettledInv, EntriesOfCompleted
  <2>2. CompletedHasEntry'
    BY <1>2, <1>5, <1>7 DEF SettledInv, CompletedHasEntry, DebitsOf
  <2> QED
    BY <1>3, <1>4, <2>1, <2>2 DEF SettledInv
<1>8. CASE s = "completed" /\ ledger' = Append(ledger, [txn |-> Txn(w), after |-> balance])
  <2> DEFINE e == [txn |-> Txn(w), after |-> balance]
             n == Len(ledger) + 1
  <2>1. e \in [txn : Requests, after : Nat] /\ e.txn = Txn(w)
    BY <1>2 DEF BaseInv, TypeOK
  <2> HIDE DEF e
  <2>2. /\ DOMAIN ledger' = DOMAIN ledger \cup {n} /\ n \notin DOMAIN ledger
        /\ ledger'[n] = e /\ \A i \in DOMAIN ledger : ledger'[i] = ledger[i]
    BY <1>5, <1>8, <2>1, AppendProperties DEF e
  <2> HIDE DEF n
  <2>3. EntriesOfCompleted'
    <3> SUFFICES ASSUME NEW i \in DOMAIN ledger'
                 PROVE  /\ status'[ledger'[i].txn] = "completed"
                        /\ \A j \in DOMAIN ledger' : ledger'[j].txn = ledger'[i].txn => j = i
      BY DEF EntriesOfCompleted
    <3>1. CASE i = n
      BY <1>2, <1>5, <1>6, <1>8, <2>1, <2>2, <3>1
    <3>2. CASE i \in DOMAIN ledger
      BY <1>5, <1>6, <2>1, <2>2, <3>2 DEF SettledInv, EntriesOfCompleted
    <3> QED
      BY <2>2, <3>1, <3>2
  <2>4. CompletedHasEntry'
    <3> SUFFICES ASSUME NEW t \in Requests, status'[t] = "completed"
                 PROVE  \E i \in DOMAIN ledger' : ledger'[i].txn = t
      BY DEF CompletedHasEntry, DebitsOf
    <3>1. CASE t = Txn(w)
      BY <2>1, <2>2, <3>1
    <3>2. CASE t # Txn(w)
      BY <1>5, <2>2, <3>2 DEF SettledInv, CompletedHasEntry, DebitsOf
    <3> QED
      BY <3>1, <3>2
  <2> QED
    BY <1>3, <1>4, <2>3, <2>4 DEF SettledInv
<1> QED
  BY <1>1, <1>7, <1>8

LEMMA CommitSettled ==
    ASSUME BaseInv, SettledInv, NEW r \in Requests, Commit(r)
    PROVE  SettledInv' /\ status[r] = "absent"
<1>1. /\ status' = [status EXCEPT ![r] = "pending"] /\ UNCHANGED <<ledger, worker>>
      /\ pc[r] = "commit"
  BY DEF Commit, Goto
<1>2. status[r] = "absent" /\ status \in [Requests -> Statuses]
  BY <1>1 DEF BaseInv, Bodies, TypeOK
<1>3. StillSo'
  BY <1>1, <1>2 DEF SettledInv, StillSo, Txn
<1>4. EntriesOfCompleted'
  BY <1>1, <1>2 DEF SettledInv, EntriesOfCompleted
<1>5. CompletedHasEntry'
  BY <1>1, <1>2 DEF SettledInv, CompletedHasEntry, DebitsOf
<1> QED
  BY <1>2, <1>3, <1>4, <1>5 DEF SettledInv

(* Which steps change a status, or add an entry. *)
LEMMA StatusSteps ==
    ASSUME BaseInv, [Next]_vars
    PROVE  \/ \E r \in Requests : Commit(r)
           \/ \E w \in Workers : CommitPayout(w) \/ PayoutSucceeded(w) \/ PayoutFailed(w)
           \/ /\ UNCHANGED <<status, ledger>>
              /\ UNCHANGED worker \/ \E w \in Workers, q \in WorkerRecords : GoesOn(w, q)
<1>1. ASSUME NEW r \in Requests,
             \/ \E o \in Offers : Arrive(r, o)
             \/ Moves(r) \/ Enqueue(r) \/ Delete(r)
             \/ Complete(r) \/ Reverse(r) \/ \E result \in Results : Deliver(result, r)
      PROVE  UNCHANGED <<status, ledger, worker>>
  BY <1>1 DEF Arrive, Moves, Enqueue, Delete, Complete, Reverse, Deliver, World, db
<1>2. ASSUME NEW w \in Workers, NEW q \in WorkerRecords, GoesOn(w, q)
      PROVE  UNCHANGED <<status, ledger>>
  BY <1>2 DEF GoesOn, db
<1>3. UNCHANGED vars => UNCHANGED <<status, ledger, worker>>
  BY DEF vars, db
<1> QED
  BY <1>1, <1>2, <1>3, NextSteps

LEMMA StepSettledInv == BaseInv /\ SettledInv /\ Serial /\ [Next]_vars => SettledInv'
<1> SUFFICES ASSUME BaseInv, SettledInv, Serial, [Next]_vars PROVE SettledInv'
  OBVIOUS
<1>1. CASE UNCHANGED <<status, ledger, worker>>
  <2>1. StillSo'
    BY <1>1 DEF SettledInv, StillSo, Txn
  <2> QED
    BY <1>1, <2>1, OthersSettled DEF SettledInv
<1> QED
  BY <1>1, StatusSteps, GoesOnSettled, WritesSettled, CommitSettled

LEMMA StepSettledForGood ==
    BaseInv /\ SettledInv /\ Serial /\ [Next]_vars
        => [\A t \in Requests :
                status[t] \in {"completed", "failed"} => status'[t] = status[t]]_vars
<1> SUFFICES ASSUME BaseInv, SettledInv, Serial, [Next]_vars,
                    NEW t \in Requests, status[t] \in {"completed", "failed"}
             PROVE  status'[t] = status[t]
  OBVIOUS
<1>1. CASE \E r \in Requests : Commit(r)
  BY <1>1, CommitSettled DEF Commit, BaseInv, TypeOK
<1>2. ASSUME NEW w \in Workers, CommitPayout(w) \/ PayoutSucceeded(w) \/ PayoutFailed(w)
      PROVE  status'[t] = status[t]
  <2>1. status[Txn(w)] \in {"pending", "processing"}
    BY <1>2, WritesSettled
  <2>2. \E s \in {"processing", "completed", "failed"} : Writes(w, s)
    BY <1>2, WritesOf
  <2> QED
    BY <2>1, <2>2 DEF Writes, BaseInv, TypeOK
<1> QED
  BY <1>1, <1>2, StatusSteps

LEMMA EntriesAreCounted == SettledInv => DebitedOnce
<1> SUFFICES ASSUME SettledInv, NEW t \in Requests
             PROVE  Cardinality(DebitsOf(t)) = IF status[t] = "completed" THEN 1 ELSE 0
  BY DEF DebitedOnce
<1>1. CASE status[t] = "completed"
  <2>1. PICK i \in DebitsOf(t) : TRUE
    BY <1>1 DEF SettledInv, CompletedHasEntry
  <2>2. DebitsOf(t) = {i}
    BY <2>1 DEF SettledInv, EntriesOfCompleted, DebitsOf
  <2>3. Cardinality({i}) = 1
    BY FS_Singleton
  <2>4. Cardinality(DebitsOf(t)) = 1
    BY <2>2, <2>3, Zenon
  <2> QED
    BY <1>1, <2>4
<1>2. CASE status[t] # "completed"
  <2>1. DebitsOf(t) = {}
    BY <1>2 DEF SettledInv, EntriesOfCompleted, DebitsOf
  <2>2. Cardinality({}) = 0
    BY FS_EmptySet
  <2>3. Cardinality(DebitsOf(t)) = 0
    BY <2>1, <2>2, Zenon
  <2> QED
    BY <1>2, <2>3
<1> QED
  BY <1>1, <1>2

-----------------------------------------------------------------------------
(* While the user also makes one request at a time. *)

(* What these parts are about besides the balance and the tasks. *)
rules == <<req, pc, removed, status>>

LEMMA RulesKeep == CalmInv /\ UNCHANGED rules => CalmInv'
BY DEF rules, CalmInv, OneInFlight, NothingActive, AccountThere, AccountUnused,
       AtMostOneActive, NoOrphan, Active, Account, InFlight

(* With r alone in flight, what requests rely on is what r relies on. *)
LEMMA OneMoves ==
    ASSUME BaseInv, CalmInv, NEW r \in Requests, InFlight(r) \/ Quiet,
           NEW to \in Working \cup {"done"}, pc' = [pc EXCEPT ![r] = to],
           UNCHANGED status,
           to \in {"account", "commit"} => Active = {},
           to = "commit" => Account(r)' \notin removed',
           to = "delete" => \A t \in Active : Account(t)' # Account(r)'
    PROVE  /\ OneInFlight' /\ NothingActive' /\ AccountThere' /\ AccountUnused'
           /\ AtMostOneActive'
<1>1. \A s \in Requests : s # r => pc'[s] = pc[s] /\ ~InFlight(s)
  BY DEF BaseInv, TypeOK, CalmInv, OneInFlight, Quiet
<1>2. pc'[r] = to /\ Active' = Active
  BY DEF BaseInv, TypeOK, Active
<1>3. OneInFlight'
  BY <1>1 DEF OneInFlight, InFlight
<1>4. NothingActive' /\ AccountThere' /\ AccountUnused'
  BY <1>1, <1>2 DEF NothingActive, AccountThere, AccountUnused, InFlight, Working
<1>5. AtMostOneActive'
  BY <1>2 DEF CalmInv, AtMostOneActive
<1> QED
  BY <1>3, <1>4, <1>5

LEMMA HandleCalm ==
    ASSUME BaseInv, CalmInv, NEW r \in Requests,
           Handle(r) \/ ApiCrash(r) \/ \E o \in Offers : ArriveAlone(r, o)
    PROVE  CalmInv'
<1>1. ASSUME NEW to \in Working \cup {"done"}, pc[r] \in Working, pc' = [pc EXCEPT ![r] = to],
             UNCHANGED <<req, removed, status>>,
             to \in {"account", "commit"} => Active = {},
             to = "commit" => Account(r) \notin removed,
             to = "delete" => \A t \in Active : Account(t) # Account(r)
      PROVE  CalmInv'
  <2>1. NoOrphan'
    BY <1>1 DEF CalmInv, NoOrphan, Active, Account
  <2> QED
    BY <1>1, <2>1, OneMoves DEF CalmInv, InFlight, Account
<1>2. CASE \E o \in Offers : ArriveAlone(r, o)
  <2>1. PICK o \in Offers : ArriveAlone(r, o)
    BY <1>2
  <2>2. PICK to \in {"wallet", "find"} : pc' = [pc EXCEPT ![r] = to]
    BY <2>1 DEF ArriveAlone, Arrive, Goto
  <2>3. Quiet /\ pc[r] = "idle" /\ UNCHANGED <<removed, status>> /\ req' = [req EXCEPT ![r] = o]
    BY <2>1 DEF ArriveAlone, Arrive, Goto, World, db
  <2>4. status[r] = "absent"
    BY <2>3 DEF BaseInv, Bodies
  <2>5. NoOrphan'
    BY <2>3, <2>4 DEF BaseInv, TypeOK, CalmInv, NoOrphan, Active, Account
  <2> QED
    BY <2>2, <2>3, <2>5, OneMoves DEF CalmInv, Working
<1>3. ASSUME NEW from \in Working, NEW x, Answer(r, from, x)
      PROVE  CalmInv'
  BY <1>1, <1>3 DEF Answer, Goto, World, db
<1>4. CASE ExceedLimits(r) \/ AlreadyPending(r) \/ Insufficient(r) \/ AccountBusy(r)
           \/ SeveralActive(r) \/ AccountMissing(r) \/ ApiCrash(r)
  <2>1. \E from \in Working, x \in {"limit", "already_pending", "insufficient", "forbidden",
                                    "error", "not_found", "lost"} : Answer(r, from, x)
    BY <1>4 DEF ExceedLimits, AlreadyPending, Insufficient, AccountBusy, SeveralActive,
                AccountMissing, ApiCrash, Working
  <2> QED
    BY <1>3, <2>1
<1>5. CASE LoadWallet(r) \/ CheckLimits(r) \/ FindAccount(r) \/ Enqueue(r)
  <2>1. PICK to \in {"limits", "active", "busy", "done"} :
            pc[r] \in Working /\ pc' = [pc EXCEPT ![r] = to] /\ UNCHANGED <<req, removed, status>>
    BY <1>5 DEF LoadWallet, CheckLimits, FindAccount, Enqueue, Pass, Goto, World, db, Working
  <2> QED
    BY <1>1, <2>1 DEF Working
<1>6. CASE NoneActive(r)
  BY <1>1, <1>6 DEF NoneActive, Pass, Goto, World, db, Working
<1>7. CASE AccountFound(r)
  BY <1>1, <1>7 DEF AccountFound, Pass, Goto, World, db, Working, CalmInv, NothingActive
<1>8. CASE AccountFree(r)
  BY <1>1, <1>8 DEF AccountFree, Pass, Goto, World, db, Working
<1>9. CASE Delete(r)
  <2>1. /\ pc[r] = "delete" /\ pc' = [pc EXCEPT ![r] = "done"]
        /\ removed' = removed \cup {Account(r)} /\ UNCHANGED <<req, status>>
    BY <1>9 DEF Delete, Goto
  <2>2. NoOrphan'
    BY <2>1 DEF CalmInv, AccountUnused, NoOrphan, Active, Account
  <2> QED
    BY <2>1, <2>2, OneMoves DEF CalmInv, InFlight, Working
<1>10. CASE Commit(r)
  <2>1. /\ pc[r] = "commit" /\ pc' = [pc EXCEPT ![r] = "enqueue"]
        /\ status' = [status EXCEPT ![r] = "pending"] /\ UNCHANGED <<req, removed>>
    BY <1>10 DEF Commit, Goto
  <2>2. Active' = {r}
    BY <2>1 DEF BaseInv, TypeOK, CalmInv, NothingActive, Active
  <2>3. \A s \in Requests : pc'[s] \notin {"account", "commit", "delete"}
                            /\ (InFlight(s)' => s = r)
    BY <2>1 DEF BaseInv, TypeOK, CalmInv, OneInFlight, InFlight, Working
  <2>4. NoOrphan'
    BY <2>1, <2>2 DEF CalmInv, AccountThere, NoOrphan, Account
  <2> QED
    BY <2>2, <2>3, <2>4
    DEF CalmInv, OneInFlight, NothingActive, AccountThere, AccountUnused, AtMostOneActive
<1> QED
  BY <1>2, <1>4, <1>5, <1>6, <1>7, <1>8, <1>9, <1>10 DEF Handle

LEMMA SettleCalm ==
    ASSUME BaseInv, SettledInv, CalmInv, NEW w \in Workers,
           CommitPayout(w) \/ SettleBetween(w)
    PROVE  CalmInv'
<1>1. CASE CommitPayout(w)
  <2>1. worker[w].step = "commit" /\ Writes(w, "processing")
    BY <1>1, WritesOf
  <2>2. status[Txn(w)] = "pending"
    BY <2>1 DEF SettledInv, StillSo
  <2>3. Active' = Active
    BY <2>1, <2>2 DEF Writes, Active, BaseInv, TypeOK
  <2>4. UNCHANGED <<req, pc, removed>>
    BY <2>1 DEF Writes, api
  <2> QED
    BY <2>3, <2>4 DEF CalmInv, OneInFlight, NothingActive, AccountThere, AccountUnused,
                      AtMostOneActive, NoOrphan, Account, InFlight
<1>2. CASE SettleBetween(w)
  <2>1. Quiet /\ \E s \in {"completed", "failed"} : Writes(w, s)
    BY <1>2, WritesOf DEF SettleBetween, Settle
  <2>2. Active' \subseteq Active
    BY <2>1 DEF Writes, Active, BaseInv, TypeOK
  <2>3. UNCHANGED <<req, pc, removed>>
    BY <2>1 DEF Writes, api
  <2>4. \A r \in Requests : pc'[r] \notin Working
    BY <2>1, <2>3 DEF Quiet, InFlight
  <2> QED
    BY <2>2, <2>3, <2>4 DEF CalmInv, OneInFlight, NothingActive, AccountThere, AccountUnused,
                            AtMostOneActive, NoOrphan, Account, InFlight, Working
<1> QED
  BY <1>1, <1>2

LEMMA StepCalmInv == BaseInv /\ SettledInv /\ CalmInv /\ [CalmNext]_vars => CalmInv'
<1> SUFFICES ASSUME BaseInv, SettledInv, CalmInv, [CalmNext]_vars PROVE CalmInv'
  OBVIOUS
<1>1. ASSUME NEW r \in Requests,
             Complete(r) \/ Reverse(r) \/ \E result \in Results : Deliver(result, r)
      PROVE  UNCHANGED rules
  BY <1>1 DEF Complete, Reverse, Deliver, api, db, rules
<1>2. ASSUME NEW w \in Workers, Prepare(w), ~CommitPayout(w)
      PROVE  UNCHANGED rules
  BY <1>2 DEF Prepare, Take, StartPayout, SkipPayout, FindRecipient, NoAccount, MarkProcessing,
              Dispatch, StartSettling, SkipSettling, LockWallet, Quit, api, db, rules
<1>3. ASSUME NEW w \in Workers, TaskFails(w) \/ \E t \in Requests : Sweep(w, t)
      PROVE  UNCHANGED rules
  BY <1>3 DEF TaskFails, Sweep, api, db, rules
<1>4. UNCHANGED vars => UNCHANGED rules
  BY DEF vars, api, db, rules
<1> QED
  BY <1>1, <1>2, <1>3, <1>4, RulesKeep, HandleCalm, SettleCalm DEF CalmNext

LEMMA CalmSteps == CalmNext => Next
BY DEF CalmNext, Next, ArriveAlone, SettleBetween, Work

LEMMA ActiveIsCounted == AtMostOneActive => OneActive
<1> SUFFICES ASSUME AtMostOneActive PROVE Cardinality(Active) <= 1
  BY DEF OneActive
<1>1. CASE Active = {}
  <2>1. Cardinality({}) = 0
    BY FS_EmptySet
  <2>2. Cardinality(Active) = 0
    BY <1>1, <2>1, Zenon
  <2> QED
    BY <2>2
<1>2. CASE Active # {}
  <2>1. PICK t \in Active : Active = {t}
    BY <1>2 DEF AtMostOneActive
  <2>2. Cardinality({t}) = 1
    BY FS_Singleton
  <2>3. Cardinality(Active) = 1
    BY <2>1, <2>2, Zenon
  <2> QED
    BY <2>3
<1> QED
  BY <1>1, <1>2

-----------------------------------------------------------------------------
(* Every reachable state is well typed, whatever overlaps: a hold is at most *)
(* the balance it is taken from (withdrawal.py 242-267).                     *)
THEOREM TypeCorrect == Spec => []TypeOK
<1>1. Init => BaseInv
  BY InitIInv DEF IInv
<1>2. BaseInv => TypeOK
  BY DEF BaseInv
<1> QED
  BY <1>1, <1>2, StepBaseInv, PTL DEF Spec

(* No transfer is made of a hold that was not committed, PROCESSING is one   *)
(* the bank has, a payout, its DEBIT and its audit entry one it made, and a  *)
(* refund one it refused or returned, whatever overlaps, fails or comes late *)
(* (withdrawal.py 321-364, 397-435, 540-558).                                *)
THEOREM OutcomesAgree == Spec => []OutcomeAgrees
<1>1. Init => BaseInv
  BY InitIInv DEF IInv
<1>2. BaseInv => OutcomeAgrees
  BY DEF BaseInv
<1> QED
  BY <1>1, <1>2, StepBaseInv, PTL DEF Spec

(* A refund is added to the balance that is committed, and an entry records  *)
(* it: both handlers lock the wallet before they read it                     *)
(* (withdrawal.py 342-364, 418-435).  The holds of requests do not, which is *)
(* how a refund is lost.                                                     *)
RefundsAddUp ==
    [][/\ \A t \in Requests :
             status[t] # "failed" /\ status'[t] = "failed" => balance' = balance + Amount(t)
       /\ ledger' # ledger =>
             \E t \in Requests : ledger' = Append(ledger, [txn |-> t, after |-> balance'])]_vars

LEMMA StepRefunds ==
    BaseInv /\ [Next]_vars =>
       [/\ \A t \in Requests :
              status[t] # "failed" /\ status'[t] = "failed" => balance' = balance + Amount(t)
        /\ ledger' # ledger =>
              \E t \in Requests : ledger' = Append(ledger, [txn |-> t, after |-> balance'])]_vars
<1> SUFFICES ASSUME BaseInv, [Next]_vars
             PROVE  /\ \A t \in Requests :
                          status[t] # "failed" /\ status'[t] = "failed"
                             => balance' = balance + Amount(t)
                    /\ ledger' # ledger =>
                          \E t \in Requests : ledger' = Append(ledger, [txn |-> t, after |-> balance'])
  OBVIOUS
<1>1. CASE \E r \in Requests : Commit(r)
  BY <1>1 DEF Commit, BaseInv, TypeOK
<1>2. ASSUME NEW w \in Workers, CommitPayout(w) \/ PayoutSucceeded(w) \/ PayoutFailed(w)
      PROVE  /\ \A t \in Requests :
                   status[t] # "failed" /\ status'[t] = "failed" => balance' = balance + Amount(t)
             /\ ledger' # ledger =>
                   \E t \in Requests : ledger' = Append(ledger, [txn |-> t, after |-> balance'])
  <2>1. \/ Writes(w, "processing") /\ UNCHANGED ledger
        \/ /\ Writes(w, "completed") /\ balance' = balance
           /\ ledger' = Append(ledger, [txn |-> Txn(w), after |-> balance])
        \/ Writes(w, "failed") /\ balance' = balance + Amount(Txn(w)) /\ UNCHANGED ledger
    BY <1>2, WritesOf
  <2>2. worker[w].step \in {"commit", "settle"}
    BY <1>2, WritesOf
  <2>3. Txn(w) \in Requests
    BY <2>2 DEF BaseInv, TasksSound, Sound, Txn, Idle
  <2> QED
    BY <2>1, <2>3 DEF Writes, BaseInv, TypeOK
<1> QED
  BY <1>1, <1>2, StatusSteps

(* Every refund and every entry goes on from the committed balance, whatever *)
(* overlaps (withdrawal.py 342-364, 418-435).                                *)
THEOREM RefundsAreAdded == Spec => RefundsAddUp
<1>1. Init => BaseInv
  BY InitIInv DEF IInv
<1> QED
  BY <1>1, StepBaseInv, StepRefunds, PTL DEF Spec, RefundsAddUp

(* One worker process is enough for tasks not to overlap.                    *)
LEMMA OneWorkerIsSerial ==
    ASSUME \A v, w \in Workers : v = w
    PROVE  Serial
BY DEF Serial

(* The strengthened invariant, while tasks of one withdrawal do not overlap. *)
THEOREM InvariantHolds == Spec /\ []Serial => []IInv
<1>1. Init => IInv
  BY InitIInv
<1>2. IInv /\ Serial /\ [Next]_vars => IInv'
  BY StepBaseInv, StepSettledInv DEF IInv
<1> QED
  BY <1>1, <1>2, PTL DEF Spec

(* A completed withdrawal has one DEBIT entry and any other has none, also   *)
(* where an event is delivered or a task run again (withdrawal.py 314-334).  *)
THEOREM WithdrawalsDebitedOnce == Spec /\ []Serial => []DebitedOnce
<1>1. IInv => DebitedOnce
  BY EntriesAreCounted DEF IInv
<1> QED
  BY <1>1, InvariantHolds, PTL

(* COMPLETED and FAILED stay (withdrawal.py 314-334, 390-416, 484-501).      *)
THEOREM StatusesStand == Spec /\ []Serial => SettledForGood
<1>1. IInv /\ Serial /\ [Next]_vars
        => [\A t \in Requests :
                status[t] \in {"completed", "failed"} => status'[t] = status[t]]_vars
  BY StepSettledForGood DEF IInv
<1> QED
  BY <1>1, InvariantHolds, PTL DEF Spec, SettledForGood

(* With one request at a time and results between requests, the user has one *)
(* active withdrawal and keeps its account: what initiate_withdrawal and     *)
(* remove_bank_account looked for is still so when they commit               *)
(* (withdrawal.py 171-185, 228-267).                                         *)
THEOREM OneWithdrawalAtATime == CalmSpec /\ []Serial => [](OneActive /\ NoOrphan)
<1>1. Init => IInv /\ CalmInv
  BY InitIInv
<1>2. IInv /\ CalmInv /\ Serial /\ [CalmNext]_vars => (IInv /\ CalmInv)'
  <2>1. [CalmNext]_vars => [Next]_vars
    BY CalmSteps
  <2> QED
    BY <2>1, StepBaseInv, StepSettledInv, StepCalmInv DEF IInv
<1>3. CalmInv => OneActive /\ NoOrphan
  BY ActiveIsCounted DEF CalmInv
<1> QED
  BY <1>1, <1>2, <1>3, PTL DEF CalmSpec

-----------------------------------------------------------------------------
(* Sums.  What MapThenSumSet computes is defined by recursion over a set;    *)
(* that it exists, and what it is, follows by induction.                     *)

(* Induction over the natural numbers, for sets. *)
LEMMA NatSetInduction ==
    ASSUME NEW T \in SUBSET Nat, 0 \in T, \A n \in T : n + 1 \in T
    PROVE  T = Nat
<1> SUFFICES ASSUME Nat \ T # {} PROVE FALSE
  OBVIOUS
<1> DEFINE R == {ss \in Nat \X Nat : ss[1] < ss[2]}
<1>1. IsWellFoundedOn(R, Nat)
  BY NatLessThanWellFounded DEF OpToRel
<1> HIDE DEF R
<1>2. PICK n \in Nat \ T : \A m \in Nat \ T : <<m, n>> \notin R
  BY <1>1, WFMin
<1>3. n - 1 \in Nat /\ n - 1 < n
  BY <1>2
<1>4. <<n - 1, n>> \in R
  BY <1>3 DEF R
<1>5. n - 1 \in T
  BY <1>2, <1>3, <1>4
<1> QED
  BY <1>2, <1>5

(* The sum of the amounts q of a set, which MapThenSumSet takes one by one. *)
Any(s) == CHOOSE x \in s : TRUE
Sums(q, B) ==
    CHOOSE f : f = [s \in SUBSET B |-> IF s = {} THEN 0 ELSE q[Any(s)].amount + f[s \ {Any(s)}]]

(* The amounts of a set are integers, and two sets of amounts agree. *)
HasAmounts(q, B) == \A t \in B : q[t].amount \in Int
SameAmounts(q, p, B) == \A t \in B : p[t].amount = q[t].amount

LEMMA AnyIn == ASSUME NEW s, s # {} PROVE Any(s) \in s
BY DEF Any

(* Sums exist, *)
LEMMA SumsAre ==
    ASSUME NEW B, IsFiniteSet(B), NEW q, HasAmounts(q, B)
    PROVE  /\ Sums(q, B) \in [SUBSET B -> Int]
           /\ \A s \in SUBSET B : Sums(q, B)[s] =
                IF s = {} THEN 0 ELSE q[Any(s)].amount + Sums(q, B)[s \ {Any(s)}]
<1> DEFINE After(f, s) == IF s = {} THEN 0 ELSE q[Any(s)].amount + f[s \ {Any(s)}]
           Upto(n) == {s \in SUBSET B : Cardinality(s) <= n}
           Good(n) == \E f \in [SUBSET B -> Int] : \A s \in Upto(n) : f[s] = After(f, s)
           T == {n \in Nat : Good(n)}
<1>1. \A s \in SUBSET B : Cardinality(s) \in Nat /\ (Cardinality(s) = 0 <=> s = {})
  BY FS_Subset, FS_CardinalityType, FS_EmptySet
<1>2. \A s \in SUBSET B : s # {} =>
          /\ Any(s) \in B /\ s \ {Any(s)} \in SUBSET B
          /\ Cardinality(s \ {Any(s)}) = Cardinality(s) - 1
  BY FS_Subset, FS_RemoveElement, AnyIn
<1> HIDE DEF After
<1>a. \A f \in [SUBSET B -> Int], s \in SUBSET B : After(f, s) \in Int
  <2> SUFFICES ASSUME NEW f \in [SUBSET B -> Int], NEW s \in SUBSET B, s # {}
               PROVE  q[Any(s)].amount + f[s \ {Any(s)}] \in Int
    BY DEF After
  <2>1. q[Any(s)].amount \in Int /\ f[s \ {Any(s)}] \in Int
    BY <1>2 DEF HasAmounts
  <2> QED
    BY <2>1
<1>3. 0 \in T
  <2>1. [s \in SUBSET B |-> 0] \in [SUBSET B -> Int]
    OBVIOUS
  <2>2. \A s \in Upto(0) : s = {}
    BY <1>1
  <2> QED
    BY <2>1, <2>2 DEF After
<1>4. ASSUME NEW n \in T PROVE n + 1 \in T
  <2>1. PICK f \in [SUBSET B -> Int] : \A s \in Upto(n) : f[s] = After(f, s)
    OBVIOUS
  <2> DEFINE g == [s \in SUBSET B |-> After(f, s)]
  <2>2. g \in [SUBSET B -> Int]
    BY <1>a
  <2>3. \A s \in Upto(n) : g[s] = f[s]
    BY <2>1
  <2>4. ASSUME NEW s \in Upto(n + 1) PROVE g[s] = After(g, s)
    <3>1. CASE s = {}
      BY <3>1 DEF After
    <3>2. CASE s # {}
      <4>1. s \ {Any(s)} \in Upto(n)
        BY <1>1, <1>2, <3>2
      <4> QED
        BY <2>3, <3>2, <4>1 DEF After
    <3> QED
      BY <3>1, <3>2
  <2>5. Good(n + 1)
    BY <2>2, <2>4
  <2> QED
    BY <2>5
<1>5. Cardinality(B) \in T
  <2>1. T = Nat
    BY <1>3, <1>4, NatSetInduction
  <2> QED
    BY <2>1, FS_CardinalityType
<1>6. \E f \in [SUBSET B -> Int] : f = [s \in SUBSET B |-> After(f, s)]
  <2>1. PICK f \in [SUBSET B -> Int] : \A s \in Upto(Cardinality(B)) : f[s] = After(f, s)
    BY <1>5
  <2>2. \A s \in SUBSET B : s \in Upto(Cardinality(B))
    BY FS_Subset
  <2>3. f = [s \in SUBSET B |-> After(f, s)]
    BY <2>1, <2>2
  <2> QED
    BY <2>3
<1>7. /\ Sums(q, B) = [s \in SUBSET B |-> Sums(q, B)[s]]
      /\ \A s \in SUBSET B : Sums(q, B)[s] = After(Sums(q, B), s)
  <2>1. Sums(q, B) = CHOOSE f : f = [s \in SUBSET B |-> After(f, s)]
    BY DEF After, Sums
  <2>2. Sums(q, B) = [s \in SUBSET B |-> After(Sums(q, B), s)]
    BY <1>6, <2>1
  <2> QED
    BY <2>2
<1>9. \A s \in SUBSET B : Sums(q, B)[s] \in Int
  <2> DEFINE U == {n \in Nat : \A s \in Upto(n) : Sums(q, B)[s] \in Int}
  <2>1. 0 \in U
    <3>1. \A s \in Upto(0) : s = {}
      BY <1>1
    <3>2. Sums(q, B)[{}] = 0
      BY <1>7 DEF After
    <3> QED
      BY <3>1, <3>2
  <2>2. ASSUME NEW n \in U PROVE n + 1 \in U
    <3> SUFFICES ASSUME NEW s \in Upto(n + 1) PROVE Sums(q, B)[s] \in Int
      OBVIOUS
    <3>1. CASE s = {}
      <4>1. Sums(q, B)[s] = After(Sums(q, B), s)
        BY <1>7
      <4> QED
        BY <3>1, <4>1 DEF After
    <3>2. CASE s # {}
      <4>1. s \ {Any(s)} \in Upto(n) /\ Any(s) \in B
        BY <1>1, <1>2, <3>2
      <4>2. Sums(q, B)[s \ {Any(s)}] \in Int /\ q[Any(s)].amount \in Int
        BY <4>1 DEF HasAmounts
      <4>3. Sums(q, B)[s] = q[Any(s)].amount + Sums(q, B)[s \ {Any(s)}]
        BY <1>7, <3>2 DEF After
      <4> QED
        BY <4>2, <4>3
    <3> QED
      BY <3>1, <3>2
  <2>3. U = Nat
    BY <2>1, <2>2, NatSetInduction
  <2>4. \A s \in SUBSET B : s \in Upto(Cardinality(s))
    BY <1>1
  <2> QED
    BY <1>1, <2>3, <2>4
<1>10. Sums(q, B) \in [SUBSET B -> Int]
  BY <1>7, <1>9
<1> QED
  BY <1>7, <1>10 DEF After

(* A sum depends on the amounts of its own elements only ... *)
LEMMA SumsAgree ==
    ASSUME NEW B, IsFiniteSet(B), NEW C \in SUBSET B, NEW q, NEW p,
           HasAmounts(q, B), SameAmounts(q, p, C)
    PROVE  \A s \in SUBSET C : Sums(p, C)[s] = Sums(q, B)[s]
<1> DEFINE Upto(n) == {s \in SUBSET C : Cardinality(s) <= n}
           U == {n \in Nat : \A s \in Upto(n) : Sums(p, C)[s] = Sums(q, B)[s]}
<1>1. IsFiniteSet(C) /\ HasAmounts(p, C)
  BY FS_Subset DEF HasAmounts, SameAmounts
<1>2. \A s \in SUBSET C : Cardinality(s) \in Nat /\ (Cardinality(s) = 0 <=> s = {})
  BY <1>1, FS_Subset, FS_CardinalityType, FS_EmptySet
<1>3. \A s \in SUBSET C :
        /\ Sums(p, C)[s] = IF s = {} THEN 0 ELSE p[Any(s)].amount + Sums(p, C)[s \ {Any(s)}]
        /\ Sums(q, B)[s] = IF s = {} THEN 0 ELSE q[Any(s)].amount + Sums(q, B)[s \ {Any(s)}]
  <2>1. \A s \in SUBSET C :
          Sums(p, C)[s] = IF s = {} THEN 0 ELSE p[Any(s)].amount + Sums(p, C)[s \ {Any(s)}]
    BY <1>1, SumsAre
  <2>2. \A s \in SUBSET B :
          Sums(q, B)[s] = IF s = {} THEN 0 ELSE q[Any(s)].amount + Sums(q, B)[s \ {Any(s)}]
    BY SumsAre
  <2> QED
    BY <2>1, <2>2
<1>4. 0 \in U
  <2>1. \A s \in Upto(0) : s = {}
    BY <1>2
  <2> QED
    BY <1>3, <2>1
<1>5. ASSUME NEW n \in U PROVE n + 1 \in U
  <2> SUFFICES ASSUME NEW s \in Upto(n + 1) PROVE Sums(p, C)[s] = Sums(q, B)[s]
    OBVIOUS
  <2>1. CASE s = {}
    BY <1>3, <2>1
  <2>2. CASE s # {}
    <3>1. Any(s) \in C /\ s \ {Any(s)} \in SUBSET C
      BY <2>2, AnyIn
    <3>2. Cardinality(s \ {Any(s)}) = Cardinality(s) - 1
      BY <1>1, <2>2, AnyIn, FS_Subset, FS_RemoveElement
    <3>3. s \ {Any(s)} \in Upto(n)
      BY <1>2, <3>1, <3>2
    <3> QED
      BY <1>3, <2>2, <3>1, <3>3 DEF SameAmounts
  <2> QED
    BY <2>1, <2>2
<1>6. U = Nat
  BY <1>4, <1>5, NatSetInduction
<1>7. \A s \in SUBSET C : s \in Upto(Cardinality(s))
  BY <1>2
<1> QED
  BY <1>2, <1>6, <1>7

(* ... and not on the order in which they are taken. *)
LEMMA SumsRemove ==
    ASSUME NEW B, IsFiniteSet(B), NEW q, HasAmounts(q, B)
    PROVE  \A s \in SUBSET B : \A t \in s : Sums(q, B)[s] = q[t].amount + Sums(q, B)[s \ {t}]
<1> DEFINE F == Sums(q, B)
           Holds(s) == \A t \in s : F[s] = q[t].amount + F[s \ {t}]
           Upto(n) == {s \in SUBSET B : Cardinality(s) <= n}
           U == {n \in Nat : \A s \in Upto(n) : Holds(s)}
<1>1. F \in [SUBSET B -> Int]
  BY SumsAre
<1>2. \A s \in SUBSET B : s # {} => F[s] = q[Any(s)].amount + F[s \ {Any(s)}]
  BY SumsAre
<1>3. \A s \in SUBSET B : Cardinality(s) \in Nat /\ (Cardinality(s) = 0 <=> s = {})
  BY FS_Subset, FS_CardinalityType, FS_EmptySet
<1>4. \A s \in SUBSET B : \A t \in s : Cardinality(s \ {t}) = Cardinality(s) - 1
  BY FS_Subset, FS_RemoveElement
<1> HIDE DEF F
<1>5. 0 \in U
  BY <1>3
<1>6. ASSUME NEW n \in U PROVE n + 1 \in U
  <2> SUFFICES ASSUME NEW s \in Upto(n + 1), NEW t \in s
               PROVE  F[s] = q[t].amount + F[s \ {t}]
    OBVIOUS
  <2> DEFINE a == Any(s)
  <2>1. a \in s /\ F[s] = q[a].amount + F[s \ {a}]
    BY <1>2, AnyIn
  <2> HIDE DEF a
  <2>2. CASE a = t
    BY <2>1, <2>2
  <2>3. CASE a # t
    <3>1. s \ {a} \in Upto(n) /\ s \ {t} \in Upto(n)
      BY <1>3, <1>4, <2>1
    <3>2. F[s \ {a}] = q[t].amount + F[(s \ {a}) \ {t}]
      BY <2>3, <3>1
    <3>3. F[s \ {t}] = q[a].amount + F[(s \ {t}) \ {a}]
      BY <2>1, <2>3, <3>1
    <3>4. (s \ {a}) \ {t} = (s \ {t}) \ {a}
      OBVIOUS
    <3>5. F[(s \ {a}) \ {t}] \in Int /\ q[a].amount \in Int /\ q[t].amount \in Int
      BY <1>1, <2>1 DEF HasAmounts
    <3>6. F[(s \ {t}) \ {a}] = F[(s \ {a}) \ {t}]
      BY <3>4, Zenon
    <3> QED
      BY <2>1, <3>2, <3>3, <3>5, <3>6
  <2> QED
    BY <2>2, <2>3
<1>7. U = Nat
  BY <1>5, <1>6, NatSetInduction
<1>8. \A s \in SUBSET B : s \in Upto(Cardinality(s))
  BY <1>3
<1> QED
  BY <1>3, <1>7, <1>8 DEF F

(* The sum of a set, which is MapThenSumSet(Amount, S) when q is req. *)
Total(q, S) == Sums(q, S)[S]

LEMMA TotalOf ==
    ASSUME NEW S, IsFiniteSet(S), NEW q, HasAmounts(q, S)
    PROVE  /\ Total(q, S) \in Int
           /\ \A p : SameAmounts(q, p, S) => Total(p, S) = Total(q, S)
           /\ \A t \in S : Total(q, S) = q[t].amount + Total(q, S \ {t})
<1>1. Total(q, S) \in Int
  <2>1. Sums(q, S) \in [SUBSET S -> Int]
    BY SumsAre
  <2> QED
    BY <2>1 DEF Total
<1>2. ASSUME NEW p, SameAmounts(q, p, S) PROVE Total(p, S) = Total(q, S)
  <2>1. Sums(p, S)[S] = Sums(q, S)[S]
    BY <1>2, SumsAgree
  <2> QED
    BY <2>1 DEF Total
<1>3. ASSUME NEW t \in S PROVE Total(q, S) = q[t].amount + Total(q, S \ {t})
  <2>1. Sums(q, S)[S] = q[t].amount + Sums(q, S)[S \ {t}]
    BY SumsRemove
  <2>2. Sums(q, S \ {t})[S \ {t}] = Sums(q, S)[S \ {t}]
    <3>1. SameAmounts(q, q, S \ {t}) /\ S \ {t} \in SUBSET S
      BY DEF SameAmounts
    <3> QED
      BY <3>1, SumsAgree
  <2> QED
    BY <2>1, <2>2 DEF Total
<1> QED
  BY <1>1, <1>2, <1>3

LEMMA TotalEmpty == ASSUME NEW q PROVE Total(q, {}) = 0
<1>1. IsFiniteSet({}) /\ HasAmounts(q, {})
  BY FS_EmptySet DEF HasAmounts
<1>2. Sums(q, {})[{}] = 0
  BY <1>1, SumsAre
<1> QED
  BY <1>2 DEF Total

(* A part of a set does not come to more than the set. *)
LEMMA TotalGrows ==
    ASSUME NEW S, IsFiniteSet(S), NEW q, \A t \in S : q[t].amount \in Nat,
           NEW R \in SUBSET S
    PROVE  Total(q, R) <= Total(q, S)
<1> DEFINE Upto(n) == {s \in SUBSET S : Cardinality(s) <= n}
           U == {n \in Nat : \A s \in Upto(n) : \A r \in SUBSET s : Total(q, r) <= Total(q, s)}
<1>1. \A s \in SUBSET S : Cardinality(s) \in Nat /\ (Cardinality(s) = 0 <=> s = {})
  BY FS_Subset, FS_CardinalityType, FS_EmptySet
<1>2. \A s \in SUBSET S : \A t \in s : Cardinality(s \ {t}) = Cardinality(s) - 1
  BY FS_Subset, FS_RemoveElement
<1>3. \A s \in SUBSET S :
        Total(q, s) \in Int /\ \A t \in s : Total(q, s) = q[t].amount + Total(q, s \ {t})
  <2> SUFFICES ASSUME NEW s \in SUBSET S
               PROVE  Total(q, s) \in Int /\ \A t \in s : Total(q, s) = q[t].amount + Total(q, s \ {t})
    OBVIOUS
  <2>1. IsFiniteSet(s) /\ HasAmounts(q, s)
    BY FS_Subset DEF HasAmounts
  <2> QED
    BY <2>1, TotalOf
<1>4. 0 \in U
  <2>1. \A s \in Upto(0) : s = {}
    BY <1>1
  <2> QED
    BY <1>3, <2>1
<1>5. ASSUME NEW n \in U PROVE n + 1 \in U
  <2> SUFFICES ASSUME NEW s \in Upto(n + 1), NEW r \in SUBSET s, r # s
               PROVE  Total(q, r) <= Total(q, s)
    BY <1>3
  <2>1. PICK t \in s : t \notin r
    OBVIOUS
  <2>2. s \ {t} \in Upto(n) /\ r \in SUBSET (s \ {t})
    BY <1>1, <1>2, <2>1
  <2>3. Total(q, r) <= Total(q, s \ {t})
    BY <2>2
  <2>4. Total(q, s) = q[t].amount + Total(q, s \ {t}) /\ q[t].amount \in Nat
    BY <1>3
  <2>5. Total(q, r) \in Int /\ Total(q, s \ {t}) \in Int
    BY <1>3, <2>2
  <2> QED
    BY <2>3, <2>4, <2>5
<1>6. U = Nat
  BY <1>4, <1>5, NatSetInduction
<1>7. S \in Upto(Cardinality(S))
  BY <1>1
<1> QED
  BY <1>1, <1>6, <1>7

-----------------------------------------------------------------------------
(* Money.  What a request read of the balance and of the day's volume is     *)
(* still so when it commits, as results wait for its end.                    *)
Reads ==
    \A r \in Requests :
        /\ pc[r] \in {"limits", "active", "account", "commit"} => snap[r] = balance
        /\ pc[r] \in {"active", "account", "commit"} =>
              Total(req, Completed) + Amount(r) <= DailyLimit
Books ==
    /\ balance + Total(req, Held) = InitialBalance
    /\ Total(req, Held) <= DailyLimit

(* The sums of the code, as totals. *)
LEMMA SumsAreTotals ==
    /\ FundsConserved <=> balance + Total(req, Held) = InitialBalance
    /\ DailyLimitKept <=> Total(req, Held) <= DailyLimit
    /\ \A r \in Requests :
          OverLimit(r) <=>
             Amount(r) > SingleLimit \/ Total(req, Completed) + Amount(r) > DailyLimit
BY DEF FundsConserved, DailyLimitKept, OverLimit, Total, Sums, Any, MapThenSumSet,
       MapThenFoldSet, Amount

LEMMA HeldAmounts ==
    ASSUME BaseInv, NEW S, S \subseteq Held
    PROVE  /\ IsFiniteSet(S) /\ S \subseteq Requests
           /\ \A t \in S : req[t].amount \in Nat
           /\ HasAmounts(req, S) /\ Total(req, S) \in Int
<1>1. S \subseteq Requests /\ \A t \in S : status[t] # "absent"
  BY DEF Held, Active, Completed
<1>2. IsFiniteSet(S)
  BY <1>1, NamesAssumption, FS_Subset
<1>3. \A t \in S : req[t].amount \in Nat
  BY <1>1, OffersAssumption DEF BaseInv, Bodies
<1>4. HasAmounts(req, S)
  BY <1>3 DEF HasAmounts
<1> QED
  BY <1>1, <1>2, <1>3, <1>4, TotalOf

(* A request that does not commit leaves the money alone. *)
LEMMA RequestReads ==
    ASSUME BaseInv, CalmInv, Reads, NEW r \in Requests, Handle(r) \/ ApiCrash(r)
    PROVE  /\ Reads' /\ UNCHANGED req
           /\ ~Commit(r) => UNCHANGED <<status, balance>>
<1> USE DEF BaseInv, TypeOK
<1>1. ASSUME NEW to \in Working \cup {"done"}, pc[r] \in Working, pc' = [pc EXCEPT ![r] = to],
             UNCHANGED <<req, status, balance>>,
             \A s \in Requests \ {r} : snap'[s] = snap[s],
             to \in {"limits", "active", "account", "commit"} => snap'[r] = balance,
             to \in {"active", "account", "commit"} =>
                Total(req, Completed) + Amount(r) <= DailyLimit
      PROVE  Reads'
  <2>1. Completed' = Completed
    BY <1>1 DEF Completed
  <2>2. Total(req, Completed)' = Total(req, Completed)
    BY <1>1, <2>1
  <2> QED
    BY <1>1, <2>2 DEF Reads, Amount
<1>2. ASSUME NEW from \in Working, NEW x, Answer(r, from, x)
      PROVE  Reads' /\ UNCHANGED <<req, status, balance>>
  BY <1>1, <1>2 DEF Answer, Goto, World, db
<1>3. CASE ExceedLimits(r) \/ AlreadyPending(r) \/ Insufficient(r) \/ AccountBusy(r)
           \/ SeveralActive(r) \/ AccountMissing(r) \/ ApiCrash(r)
  <2>1. \E from \in Working, x \in {"limit", "already_pending", "insufficient", "forbidden",
                                    "error", "not_found", "lost"} : Answer(r, from, x)
    BY <1>3 DEF ExceedLimits, AlreadyPending, Insufficient, AccountBusy, SeveralActive,
                AccountMissing, ApiCrash, Working
  <2> QED
    BY <1>2, <2>1
<1>4. CASE FindAccount(r) \/ AccountFree(r) \/ Enqueue(r) \/ Delete(r)
  <2>1. PICK to \in {"busy", "delete", "done"} :
            pc[r] \in Working /\ pc' = [pc EXCEPT ![r] = to]
            /\ UNCHANGED <<req, snap, status, balance>>
    BY <1>4 DEF FindAccount, AccountFree, Enqueue, Delete, Pass, Goto, World, db, Working
  <2> QED
    BY <1>1, <2>1 DEF Working
<1>5. CASE LoadWallet(r)
  BY <1>1, <1>5 DEF LoadWallet, Goto, World, db, Working
<1>6. CASE CheckLimits(r)
  <2>1. Total(req, Completed) + Amount(r) <= DailyLimit
    <3>1. ~(Total(req, Completed) + Amount(r) > DailyLimit)
      BY <1>6, SumsAreTotals DEF CheckLimits
    <3>2. Total(req, Completed) \in Int /\ Amount(r) \in Nat /\ DailyLimit \in Nat
      <4>1. Completed \subseteq Held
        BY DEF Held
      <4>2. Total(req, Completed) \in Int
        BY <4>1, HeldAmounts
      <4>3. pc[r] # "idle"
        BY <1>6 DEF CheckLimits, Pass, Goto
      <4>4. Amount(r) \in Nat
        BY <4>3, OffersAssumption DEF Bodies, Amount
      <4> QED
        BY <4>2, <4>4, BoundsAssumption
    <3> QED
      BY <3>1, <3>2
  <2> QED
    BY <1>1, <1>6, <2>1 DEF CheckLimits, Pass, Goto, World, db, Working, Reads
<1>7. CASE NoneActive(r) \/ AccountFound(r)
  <2>1. PICK to \in {"account", "commit"} :
            pc[r] \in {"active", "account"} /\ pc' = [pc EXCEPT ![r] = to]
            /\ UNCHANGED <<req, snap, status, balance>>
    BY <1>7 DEF NoneActive, AccountFound, Pass, Goto, World, db
  <2> QED
    BY <1>1, <2>1 DEF Working, Reads
<1>8. CASE Commit(r)
  <2>1. pc[r] = "commit" /\ pc' = [pc EXCEPT ![r] = "enqueue"] /\ UNCHANGED req
    BY <1>8 DEF Commit, Goto
  <2>2. \A s \in Requests : pc'[s] \notin {"limits", "active", "account", "commit"}
    BY <2>1 DEF CalmInv, OneInFlight, InFlight, Working
  <2> QED
    BY <1>8, <2>1, <2>2 DEF Reads
<1> QED
  BY <1>2, <1>3, <1>4, <1>5, <1>6, <1>7, <1>8
  DEF Handle, LoadWallet, CheckLimits, NoneActive, AccountFound, FindAccount, AccountFree,
      Enqueue, Delete, Pass, World, db, ExceedLimits, AlreadyPending, SeveralActive,
      AccountMissing, Insufficient, AccountBusy, ApiCrash, Answer

(* A commit turns a part of the balance into a hold, within the limit, ... *)
LEMMA CommitBooks ==
    ASSUME BaseInv, CalmInv, Reads, Books, NEW r \in Requests, Commit(r)
    PROVE  Books'
<1> USE DEF BaseInv, TypeOK
<1>1. /\ pc[r] = "commit" /\ status' = [status EXCEPT ![r] = "pending"]
      /\ balance' = snap[r] - Amount(r) /\ snap[r] = balance /\ req' = req
      /\ Total(req, Completed) + Amount(r) <= DailyLimit
  BY DEF Commit, Goto, Reads
<1>2. status[r] = "absent" /\ Amount(r) \in Nat
  BY <1>1, OffersAssumption DEF Bodies, Amount
<1>3. Held = Completed
  BY <1>1 DEF Held, CalmInv, NothingActive
<1>4. Held' = Held \cup {r} /\ r \notin Held
  BY <1>1, <1>2 DEF Held, Active, Completed
<1>5. IsFiniteSet(Held') /\ HasAmounts(req, Held') /\ Total(req, Held) \in Int
  <2>1. IsFiniteSet(Held) /\ HasAmounts(req, Held) /\ Total(req, Held) \in Int
    BY HeldAmounts
  <2>2. IsFiniteSet(Held \cup {r})
    BY <2>1, FS_AddElement
  <2> QED
    BY <1>2, <1>4, <2>1, <2>2 DEF HasAmounts, Amount
<1>6. Total(req, Held') = Amount(r) + Total(req, Held)
  <2>1. Total(req, Held') = req[r].amount + Total(req, Held' \ {r})
    BY <1>4, <1>5, TotalOf
  <2>2. Held' \ {r} = Held
    BY <1>4
  <2> QED
    BY <2>1, <2>2 DEF Amount
<1>7. Total(req, Held)' = Amount(r) + Total(req, Held)
  BY <1>1, <1>6
<1> QED
  BY <1>1, <1>2, <1>3, <1>5, <1>7, BoundsAssumption DEF Books

(* ... a refund turns the hold back, and a success keeps it. *)
LEMMA TaskBooks ==
    ASSUME BaseInv, SettledInv, Reads, Books, NEW w \in Workers,
           CommitPayout(w) \/ SettleBetween(w)
    PROVE  Books' /\ Reads'
<1> USE DEF BaseInv, TypeOK
<1> DEFINE t == Txn(w)
<1>1. /\ worker[w].step \in {"commit", "settle"}
      /\ \/ CommitPayout(w) /\ Writes(w, "processing") /\ balance' = balance /\ status[t] = "pending"
         \/ /\ Quiet /\ Writes(w, "completed") /\ balance' = balance
            /\ status[t] = "processing"
         \/ /\ Quiet /\ Writes(w, "failed") /\ balance' = balance + Amount(t)
            /\ status[t] = "processing"
  BY WritesOf DEF SettledInv, StillSo, SettleBetween, Settle
<1>2. t \in Requests
  BY <1>1 DEF TasksSound, Sound, Txn, Idle
<1>3. UNCHANGED <<req, pc, snap>>
  BY <1>1 DEF Writes, api
<1>4. ASSUME Quiet PROVE Reads'
  BY <1>3, <1>4 DEF Reads, Quiet, InFlight, Working
<1>5. CASE Writes(w, "processing") /\ balance' = balance /\ status[t] = "pending"
  <2>1. Held' = Held /\ Completed' = Completed
    BY <1>2, <1>5 DEF Writes, Held, Active, Completed
  <2>2. Total(req, Held)' = Total(req, Held) /\ Total(req, Completed)' = Total(req, Completed)
    BY <1>3, <2>1
  <2> QED
    BY <1>3, <1>5, <2>2 DEF Books, Reads, Amount
<1>6. CASE Quiet /\ Writes(w, "completed") /\ balance' = balance /\ status[t] = "processing"
  <2>1. Held' = Held
    BY <1>2, <1>6 DEF Writes, Held, Active, Completed
  <2>2. Total(req, Held)' = Total(req, Held)
    BY <1>3, <2>1
  <2> QED
    BY <1>4, <1>6, <2>2 DEF Books
<1>7. CASE Quiet /\ Writes(w, "failed") /\ balance' = balance + Amount(t) /\ status[t] = "processing"
  <2>1. Held' = Held \ {t} /\ t \in Held
    BY <1>2, <1>7 DEF Writes, Held, Active, Completed
  <2>2. /\ IsFiniteSet(Held) /\ HasAmounts(req, Held) /\ Amount(t) \in Nat
        /\ Total(req, Held) \in Int /\ Total(req, Held \ {t}) \in Int
    BY <2>1, HeldAmounts DEF Amount
  <2>3. Total(req, Held) = Amount(t) + Total(req, Held \ {t})
    BY <2>1, <2>2, TotalOf DEF Amount
  <2>4. Total(req, Held)' = Total(req, Held \ {t})
    BY <1>3, <2>1
  <2> QED
    <3>1. balance \in Nat /\ balance + Total(req, Held) = InitialBalance
      BY DEF Books
    <3>2. balance' + Total(req, Held)' = InitialBalance
      BY <1>7, <2>2, <2>3, <2>4, <3>1
    <3>3. Total(req, Held) <= DailyLimit /\ DailyLimit \in Nat
      BY BoundsAssumption DEF Books
    <3>4. Total(req, Held)' <= DailyLimit
      BY <2>2, <2>3, <2>4, <3>3
    <3> QED
      BY <1>4, <1>7, <3>2, <3>4 DEF Books
<1> QED
  BY <1>1, <1>5, <1>6, <1>7

LEMMA StepMoney ==
    BaseInv /\ SettledInv /\ CalmInv /\ Reads /\ Books /\ [CalmNext]_vars => Reads' /\ Books'
<1> SUFFICES ASSUME BaseInv, SettledInv, CalmInv, Reads, Books, [CalmNext]_vars
             PROVE  Reads' /\ Books'
  OBVIOUS
<1>1. ASSUME UNCHANGED <<req, status, balance>> PROVE Books'
  <2>1. Held' = Held
    BY <1>1 DEF Held, Active, Completed
  <2>2. Total(req, Held)' = Total(req, Held)
    BY <1>1, <2>1
  <2> QED
    BY <1>1, <2>2 DEF Books
<1>2. ASSUME UNCHANGED <<req, status, balance, pc, snap>> PROVE Reads' /\ Books'
  <2>1. Completed' = Completed
    BY <1>2 DEF Completed
  <2>2. Total(req, Completed)' = Total(req, Completed)
    BY <1>2, <2>1
  <2> QED
    BY <1>1, <1>2, <2>2 DEF Reads, Amount
<1>3. ASSUME NEW r \in Requests, NEW o \in Offers, ArriveAlone(r, o) PROVE Reads' /\ Books'
  <2>1. /\ Quiet /\ pc[r] = "idle" /\ UNCHANGED <<status, balance>>
        /\ req' = [req EXCEPT ![r] = o]
        /\ \E to \in {"wallet", "find"} : pc' = [pc EXCEPT ![r] = to]
    BY <1>3 DEF ArriveAlone, Arrive, Goto, World, db
  <2>2. Held' = Held /\ r \notin Held
    BY <2>1 DEF BaseInv, Bodies, Held, Active, Completed
  <2>3. IsFiniteSet(Held) /\ HasAmounts(req, Held) /\ SameAmounts(req, req', Held)
    BY <2>1, <2>2, HeldAmounts DEF SameAmounts, BaseInv, TypeOK
  <2>4. Total(req', Held) = Total(req, Held)
    BY <2>3, TotalOf
  <2>5. Total(req, Held)' = Total(req, Held)
    BY <2>2, <2>4
  <2>6. Reads'
    BY <2>1 DEF Reads, Quiet, InFlight, Working, BaseInv, TypeOK
  <2> QED
    BY <2>1, <2>5, <2>6 DEF Books
<1>4. ASSUME NEW r \in Requests, Handle(r) \/ ApiCrash(r) PROVE Reads' /\ Books'
  BY <1>1, <1>4, RequestReads, CommitBooks
<1>5. ASSUME NEW r \in Requests,
             Complete(r) \/ Reverse(r) \/ \E result \in Results : Deliver(result, r)
      PROVE  Reads' /\ Books'
  BY <1>2, <1>5 DEF Complete, Reverse, Deliver, api, db
<1>6. ASSUME NEW w \in Workers, Prepare(w), ~CommitPayout(w) PROVE Reads' /\ Books'
  <2>1. UNCHANGED <<api, db>>
    BY <1>6 DEF Prepare, Take, StartPayout, SkipPayout, FindRecipient, NoAccount, MarkProcessing,
                Dispatch, StartSettling, SkipSettling, LockWallet, Quit
  <2> QED
    BY <1>2, <2>1 DEF api, db
<1>7. ASSUME NEW w \in Workers, TaskFails(w) \/ \E t \in Requests : Sweep(w, t)
      PROVE  Reads' /\ Books'
  BY <1>2, <1>7 DEF TaskFails, Sweep, api, db
<1>8. CASE UNCHANGED vars
  BY <1>2, <1>8 DEF vars, api, db
<1> QED
  BY <1>3, <1>4, <1>5, <1>6, <1>7, <1>8, TaskBooks DEF CalmNext

LEMMA InitMoney == Init => Reads /\ Books
<1> SUFFICES ASSUME Init PROVE Reads /\ Books
  OBVIOUS
<1>1. Held = {}
  BY DEF Init, Held, Active, Completed
<1>2. Total(req, Held) = 0
  BY <1>1, TotalEmpty
<1> QED
  BY <1>2, BoundsAssumption DEF Init, Reads, Books

(* Under the calm load everything the parts below rest on holds. *)
LEMMA CalmHolds ==
    CalmSpec /\ []Serial => [](IInv /\ CalmInv /\ Reads /\ Books)
<1>1. Init => IInv /\ CalmInv /\ Reads /\ Books
  BY InitIInv, InitMoney
<1>2. /\ IInv /\ CalmInv /\ Reads /\ Books /\ Serial /\ [CalmNext]_vars
         => (IInv /\ CalmInv /\ Reads /\ Books)'
  <2>1. [CalmNext]_vars => [Next]_vars
    BY CalmSteps
  <2> QED
    BY <2>1, StepBaseInv, StepSettledInv, StepCalmInv, StepMoney DEF IInv
<1> QED
  BY <1>1, <1>2, PTL DEF CalmSpec

(* With one request at a time and results between requests, what left the    *)
(* balance is held or was paid out, once: a hold, a refund and a success     *)
(* each move one amount between the balance and the withdrawals, and the     *)
(* ledger has the completed ones (withdrawal.py 263-267, 351-364, 426-435).  *)
THEOREM BooksAreBalanced == CalmSpec /\ []Serial => []BooksBalance
<1>1. IInv /\ Books => BooksBalance
  BY EntriesAreCounted, SumsAreTotals DEF IInv, Books, BooksBalance
<1> QED
  BY <1>1, CalmHolds, PTL

(* ... and the three rules hold that initiate_withdrawal and                 *)
(* remove_bank_account check without a lock: one active withdrawal, the      *)
(* day's limit, and no active withdrawal without its account                 *)
(* (withdrawal.py 171-185, 218-267).                                         *)
THEOREM RulesAreKept == CalmSpec /\ []Serial => []RulesKept
<1>1. CalmInv /\ Books => RulesKept
  BY ActiveIsCounted, SumsAreTotals DEF CalmInv, Books, RulesKept
<1> QED
  BY <1>1, CalmHolds, PTL
=============================================================================
