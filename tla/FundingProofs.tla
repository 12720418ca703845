----------------------------- MODULE FundingProofs -----------------------------
(***************************************************************************)
(* Machine-checked proofs about Funding, for every set of requests,        *)
(* offers, wallets and workers, and any number of deliveries and failures. *)
(***************************************************************************)
EXTENDS Funding, FiniteSetTheorems, SequenceTheorems, TLAPS

-----------------------------------------------------------------------------
(* What holds however many tasks work on a transaction. *)

(* A request that came has a body, and is over once its row is there. *)
Bodies ==
    \A r \in Requests :
        /\ pc[r] # "idle" => req[r] \in Offers
        /\ status[r] # "absent" => pc[r] = "done"

(* A task that goes to work on a transaction found its row. *)
Ahead == {"mark", "lock", "credit", "audit", "mark_failed", "fail"}
TxnOfTask ==
    \A w \in Workers :
        /\ worker[w].step \in Ahead \cup {"read", "recheck"} => Txn(w) \in Requests
        /\ worker[w].step \in Ahead => status[Txn(w)] # "absent"
        /\ At(w, "verify") => worker[w].task = "sweep"
        /\ worker[w].task = "charge" => Txn(w) \in Requests /\ ~At(w, "idle")

(* It has locked what it writes, and the balance that it read is still the one *)
(* that is committed.                                                       *)
LocksHeld ==
    \A w \in Workers :
        /\ worker[w].step \in {"lock", "credit", "fail"} => rowLock[Txn(w)] = w
        /\ At(w, "credit") =>
              /\ walletLock[Wallet(Txn(w))] = w
              /\ worker[w].seen = balance[Wallet(Txn(w))]

(* An event is of a payment, and so is a credit on its way: what Paystack    *)
(* reports of it stays as it is.                                             *)
Crediting == {"read", "mark", "lock", "credit"}
PaidFirst ==
    /\ \A t \in Requests : events[t] > 0 => t \in paid
    /\ \A w \in Workers :
          worker[w].task = "charge" \/ worker[w].step \in Crediting => Txn(w) \in paid

(* An entry is of a row that was paid. *)
EntriesOfRows ==
    \A v \in Wallets : \A i \in DOMAIN ledger[v] :
        status[ledger[v][i].txn] # "absent" /\ ledger[v][i].txn \in paid

(* Every task of an event comes from a delivery of its own. *)
Charging(t) == {w \in Workers : worker[w].task = "charge" /\ Txn(w) = t}
EventsCounted ==
    \A t \in Requests : events[t] + Cardinality(Charging(t)) <= sends[t]

BaseInv ==
    /\ TypeOK /\ Bodies /\ TxnOfTask /\ LocksHeld /\ EntriesOfRows /\ EventsCounted
    /\ PaidFirst /\ OncePerKey /\ LedgerChains

-----------------------------------------------------------------------------
(* What holds while tasks of one transaction do not overlap. *)

(* What was read before it is written is still so. *)
StillPending ==
    \A w \in Workers :
        worker[w].step \in {"mark", "lock", "credit", "mark_failed", "fail"} =>
            status[Txn(w)] = "pending"

(* Entries are of rows that are completed, one of each, in its wallet. *)
EntriesOfCompleted ==
    \A v \in Wallets : \A i \in DOMAIN ledger[v] :
        /\ status[ledger[v][i].txn] = "completed" /\ Wallet(ledger[v][i].txn) = v
        /\ \A j \in DOMAIN ledger[v] : ledger[v][j].txn = ledger[v][i].txn => j = i
CompletedHasEntry ==
    \A t \in Requests :
        status[t] = "completed" => \E i \in DOMAIN ledger[Wallet(t)] : ledger[Wallet(t)][i].txn = t

SerialInv == Serial /\ StillPending /\ EntriesOfCompleted /\ CompletedHasEntry

IInv == BaseInv /\ SerialInv

-----------------------------------------------------------------------------
LEMMA InitIInv == Init => IInv
<1> SUFFICES ASSUME Init PROVE IInv
  OBVIOUS
<1> USE NamesAssumption, BoundsAssumption DEF Init, Idle, Txn, At, Wallet
<1>1. TypeOK
  BY DEF TypeOK, Working, Steps, Tasks, Entry
<1>2. Bodies /\ TxnOfTask /\ LocksHeld /\ EntriesOfRows /\ PaidFirst
  BY DEF Bodies, TxnOfTask, LocksHeld, EntriesOfRows, PaidFirst, Crediting, Ahead
<1>3. EventsCounted
  <2>1. \A t \in Requests : Charging(t) = {}
    BY DEF Charging
  <2>2. Cardinality({}) = 0
    BY FS_EmptySet
  <2>3. \A t \in Requests : Cardinality(Charging(t)) = 0
    BY <2>1, <2>2, Zenon
  <2> QED
    BY <2>3 DEF EventsCounted
<1>4. OncePerKey /\ LedgerChains
  BY DEF OncePerKey, Rows, LedgerChains, After
<1>5. SerialInv
  BY DEF SerialInv, Serial, StillPending, EntriesOfCompleted, CompletedHasEntry
<1> QED
  BY <1>1, <1>2, <1>3, <1>4, <1>5 DEF IInv, BaseInv

-----------------------------------------------------------------------------
(* Kinds of step. *)
WorkerRecords ==
    [task : Tasks, step : Steps, txn : Requests \cup {NoTxn}, todo : SUBSET Requests, seen : Nat]
Replies ==
    [status : {"none", "url", "refused", "unavailable", "error", "lost"},
     txn : Requests \cup {NoTxn}]
Owners == Workers \cup {NoWorker}
Becomes(w, q) == worker' = [worker EXCEPT ![w] = q]

(* A request goes on without a row. *)
Answers(r) ==
    /\ pc[r] \in Working
    /\ \E to \in Working \cup {"done"} : pc' = [pc EXCEPT ![r] = to]
    /\ reply' = reply \/ \E x \in Replies : reply' = [reply EXCEPT ![r] = x]
    /\ UNCHANGED <<req, db, stale, paystack, events, worker, rowLock, walletLock, faults>>

(* A worker gives up locks, if it does anything to them. *)
Loosens(w) ==
    /\ rowLock' \in [Requests -> Owners] /\ walletLock' \in [Wallets -> Owners]
    /\ \A t \in Requests : rowLock[t] # w => rowLock'[t] = rowLock[t]
    /\ \A v \in Wallets : walletLock[v] # w => walletLock'[v] = walletLock[v]

(* What becomes of the events when w goes on as q. *)
Counts(w, q) ==
    \/ /\ events' = events
       /\ q.task = "charge" => worker[w].task = "charge" /\ q.txn = Txn(w)
    \/ /\ worker[w].task # "charge" /\ q.task = "charge"
       /\ q.txn \in Requests /\ events[q.txn] > 0
       /\ events' = [events EXCEPT ![q.txn] = @ - 1]
    \/ /\ worker[w].task = "charge" /\ q.task # "charge"
       /\ events' = [events EXCEPT ![Txn(w)] = @ + 1]

(* A worker goes on where it holds no lock, and writes nothing but the audit *)
(* log.                                                                      *)
Lockless == {"idle", "verify", "read", "recheck", "mark", "mark_failed"}
GoesOn(w, q) ==
    /\ q \in WorkerRecords /\ q.step \in Lockless
    /\ q.step \notin {"idle", "verify"} => q.txn \in Requests
    /\ q.step \in {"mark", "mark_failed"} => status[q.txn] = "pending"
    /\ q.step = "verify" => q.task = "sweep"
    /\ q.task = "charge" => q.txn \in Requests /\ q.step # "idle"
    /\ q.task = "charge" \/ q.step \in Crediting => q.txn \in paid
    /\ Becomes(w, q) /\ Loosens(w) /\ Counts(w, q)
    /\ audited' \subseteq Requests /\ faults' \in 0 .. MaxFaults
    /\ UNCHANGED <<api, status, balance, ledger, stale, paystack>>

Marks(w) == Mark(w, "mark", "lock") \/ Mark(w, "mark_failed", "fail")

WorkerStep(w) ==
    (\E q \in WorkerRecords : GoesOn(w, q)) \/ Marks(w) \/ LockWallet(w) \/ Credit(w) \/ FailTxn(w)
RequestStep(r) == (\E o \in Offers : Arrive(r, o)) \/ Answers(r) \/ Insert(r)
PaystackStep(t) == Pay(t) \/ Deliver(t) \/ Age(t)

LEMMA WhatFollows ==
    ASSUME NEW w \in Workers, NEW rest \in SUBSET Requests
    PROVE  LET q == Continue(w, rest)
           IN  /\ q \in WorkerRecords /\ q.step \in {"idle", "verify"} /\ q.task # "charge"
               /\ q.step = "verify" => q.task = "sweep"
BY DEF Continue, Idle, WorkerRecords, Tasks, Steps

LEMMA Released ==
    ASSUME TypeOK, NEW w \in Workers, Release(w) \/ UNCHANGED <<rowLock, walletLock>>
    PROVE  Loosens(w)
BY DEF TypeOK, Release, Loosens, Owners

LEMMA RequestSteps ==
    ASSUME TypeOK, NEW r \in Requests, Handle(r) \/ ApiCrash(r)
    PROVE  Answers(r) \/ Insert(r)
<1> USE DEF Answers, Replies, Goto, Working, KeyHolders, Rows
<1>1. ASSUME NEW from \in Working, NEW answer \in {"url", "refused", "unavailable", "error", "lost"},
             NEW t \in Requests \cup {NoTxn}, Answer(r, from, answer, t)
      PROVE  Answers(r)
  BY <1>1 DEF Answer
<1>2. KeyUnused(r) \/ Initialize(r) => Answers(r)
  BY DEF KeyUnused, Initialize
<1>3. Replay(r) => \E t \in Requests : Answer(r, "arrived", "url", t)
  BY DEF Replay
<1> HIDE DEF Answers
<1> QED
  BY <1>1, <1>2, <1>3 DEF Handle, ApiCrash, Refuse, PaystackDown, KeyConflict

LEMMA WorkerSteps ==
    ASSUME TypeOK, TxnOfTask, PaidFirst, NEW w \in Workers, Work(w) \/ StartSweep(w) \/ TaskFails(w)
    PROVE  WorkerStep(w)
<1>1. /\ worker \in [Workers -> WorkerRecords] /\ worker[w] \in WorkerRecords
      /\ worker[w].todo \in SUBSET Requests /\ worker[w].txn \in Requests \cup {NoTxn}
      /\ faults \in 0 .. MaxFaults /\ audited \subseteq Requests /\ MaxFaults \in Nat
  BY BoundsAssumption DEF TypeOK, WorkerRecords
<1>2. Release(w) \/ UNCHANGED <<rowLock, walletLock>> => Loosens(w)
  BY Released
<1>3. ASSUME NEW q \in WorkerRecords, GoesOn(w, q) PROVE WorkerStep(w)
  BY <1>3 DEF WorkerStep
<1>4. ASSUME NEW q, Becomes(w, q), Release(w) \/ UNCHANGED <<rowLock, walletLock>>,
             NEW rest \in SUBSET Requests, q = Continue(w, rest),
             UNCHANGED <<api, status, balance, ledger, stale, paystack>>,
             audited' \subseteq Requests, faults' \in 0 .. MaxFaults,
             \/ events' = events
             \/ worker[w].task = "charge" /\ events' = [events EXCEPT ![Txn(w)] = @ + 1]
      PROVE  WorkerStep(w)
  <2>1. /\ q \in WorkerRecords /\ q.step \in {"idle", "verify"} /\ q.task # "charge"
        /\ q.step = "verify" => q.task = "sweep"
    BY <1>4, WhatFollows
  <2>2. Counts(w, q) /\ Loosens(w)
    BY <1>2, <1>4, <2>1 DEF Counts
  <2>3. GoesOn(w, q)
    BY <1>4, <2>1, <2>2 DEF GoesOn, Lockless, Crediting
  <2> QED
    BY <1>3, <2>1, <2>3
<1>5. ASSUME NEW t \in Requests, TakeEvent(w, t)
      PROVE  WorkerStep(w)
  <2> DEFINE q == [Idle EXCEPT !.task = "charge", !.step = "read", !.txn = t]
  <2>1. q \in WorkerRecords /\ q.task = "charge" /\ q.step = "read" /\ q.txn = t
    BY DEF Idle, WorkerRecords, Tasks, Steps
  <2>2. worker[w].task # "charge"
    BY <1>5 DEF TakeEvent, TxnOfTask
  <2>3. /\ Becomes(w, q) /\ events[t] > 0 /\ events' = [events EXCEPT ![t] = @ - 1]
        /\ UNCHANGED <<api, db, stale, paystack, rowLock, walletLock, faults>>
    BY <1>5 DEF TakeEvent, Becomes
  <2> HIDE DEF q
  <2>4. Counts(w, q)
    BY <2>1, <2>2, <2>3 DEF Counts
  <2>5. GoesOn(w, q)
    BY <1>1, <1>2, <2>1, <2>3, <2>4 DEF GoesOn, Lockless, PaidFirst, db
  <2> QED
    BY <1>3, <2>1, <2>5
<1>6. ASSUME NEW t \in Requests, Verify(w, t)
      PROVE  WorkerStep(w)
  <2> DEFINE q == [worker[w] EXCEPT !.step = Verdict(t), !.txn = t, !.todo = @ \ {t}]
  <2>1. /\ q \in WorkerRecords /\ q.step \in {"read", "recheck"} /\ q.txn = t
        /\ q.task = worker[w].task /\ (q.step = "read" => t \in paid)
    BY <1>1 DEF WorkerRecords, Steps, Verdict
  <2>2. worker[w].task = "sweep"
    BY <1>6 DEF Verify, TxnOfTask
  <2>3. /\ Becomes(w, q)
        /\ UNCHANGED <<api, db, stale, paystack, events, rowLock, walletLock, faults>>
    BY <1>6 DEF Verify, Becomes
  <2> HIDE DEF q
  <2>4. Counts(w, q)
    BY <2>1, <2>2, <2>3 DEF Counts
  <2>5. GoesOn(w, q)
    BY <1>1, <1>2, <2>1, <2>2, <2>3, <2>4 DEF GoesOn, Lockless, Crediting, db
  <2> QED
    BY <1>3, <2>1, <2>5
<1>7. ASSUME NEW to \in {"mark", "mark_failed"}, Step(w, to), Txn(w) \in Requests,
             status[Txn(w)] = "pending", to = "mark" => Txn(w) \in paid,
             UNCHANGED <<api, db, stale, paystack, events, rowLock, walletLock, faults>>
      PROVE  WorkerStep(w)
  <2> DEFINE q == [worker[w] EXCEPT !.step = to]
  <2>1. /\ q \in WorkerRecords /\ q.step = to /\ q.txn = Txn(w) /\ q.task = worker[w].task
    BY <1>1 DEF WorkerRecords, Steps, Txn
  <2>2. Becomes(w, q)
    BY <1>7 DEF Step, Becomes
  <2> HIDE DEF q
  <2>3. Counts(w, q)
    BY <1>7, <2>1 DEF Counts
  <2>4. GoesOn(w, q)
    BY <1>1, <1>2, <1>7, <2>1, <2>2, <2>3 DEF GoesOn, Lockless, PaidFirst, Crediting, db
  <2> QED
    BY <1>3, <2>1, <2>4
<1>8. ReadCharge(w) => WorkerStep(w)
  BY <1>7 DEF ReadCharge, Chargeable, TxnOfTask, PaidFirst, Crediting, At
<1>9. Recheck(w) => WorkerStep(w)
  BY <1>7 DEF Recheck, TxnOfTask, At
<1>10. SkipCharge(w) \/ SkipRecheck(w) => WorkerStep(w)
  <2> SUFFICES ASSUME Leave(w) PROVE WorkerStep(w)
    BY DEF SkipCharge, SkipRecheck
  <2> QED
    BY <1>1, <1>4 DEF Leave, Onward, Becomes, db
<1>11. Audit(w) => WorkerStep(w)
  <2> SUFFICES ASSUME Audit(w) PROVE WorkerStep(w)
    OBVIOUS
  <2>1. At(w, "audit") /\ Txn(w) \in Requests
    BY DEF Audit, TxnOfTask, Ahead, At
  <2>2. /\ audited' \subseteq Requests /\ Becomes(w, Onward(w))
        /\ UNCHANGED <<api, status, balance, ledger, stale, paystack, events, rowLock, walletLock,
                       faults>>
    BY <1>1, <2>1 DEF Audit, Becomes
  <2> QED
    BY <1>1, <1>4, <2>2 DEF Onward
<1>12. ASSUME StartSweep(w) PROVE WorkerStep(w)
  <2>1. PICK batch \in Batches :
            worker' = [worker EXCEPT ![w] =
                          [Idle EXCEPT !.task = "sweep", !.step = "verify", !.todo = batch]]
    BY <1>12 DEF StartSweep
  <2> DEFINE q == [Idle EXCEPT !.task = "sweep", !.step = "verify", !.todo = batch]
  <2>2. batch \in SUBSET Requests
    BY DEF Batches, Due, TypeOK
  <2>3. q \in WorkerRecords /\ q.step = "verify" /\ q.task = "sweep"
    BY <2>2 DEF Idle, WorkerRecords, Tasks, Steps
  <2>4. Becomes(w, q)
    BY <2>1 DEF Becomes
  <2>5. UNCHANGED <<api, db, stale, paystack, events, rowLock, walletLock, faults>>
    BY <1>12 DEF StartSweep
  <2> HIDE DEF q
  <2>6. Counts(w, q)
    BY <2>3, <2>5 DEF Counts
  <2>7. GoesOn(w, q)
    BY <1>1, <1>2, <2>3, <2>4, <2>5, <2>6 DEF GoesOn, Lockless, Crediting, db
  <2> QED
    BY <1>3, <2>3, <2>7
<1>13. ASSUME TaskFails(w) PROVE WorkerStep(w)
  <2>1. PICK q \in {Idle} \cup Swallowed(w) : Becomes(w, q)
    BY <1>13 DEF TaskFails, Becomes
  <2>2. \E rest \in SUBSET Requests : q = Continue(w, rest)
    <3>1. Idle = Continue(w, {})
      BY DEF Continue
    <3>2. \A x \in Swallowed(w) : \E rest \in SUBSET Requests : x = Continue(w, rest)
      BY <1>1 DEF Swallowed, Onward
    <3> QED
      BY <3>1, <3>2
  <2>3. /\ Release(w) /\ faults' \in 0 .. MaxFaults
        /\ UNCHANGED <<api, db, stale, paystack>>
        /\ \/ events' = events
           \/ worker[w].task = "charge" /\ events' = [events EXCEPT ![Txn(w)] = @ + 1]
    BY <1>1, <1>13 DEF TaskFails
  <2> QED
    BY <1>1, <1>4, <2>1, <2>2, <2>3 DEF db
<1>14. MarkProcessing(w) \/ MarkFailing(w) \/ LockWallet(w) \/ Credit(w) \/ FailTxn(w)
          => WorkerStep(w)
  BY DEF WorkerStep, Marks, MarkProcessing, MarkFailing
<1> QED
  BY <1>5, <1>6, <1>8, <1>9, <1>10, <1>11, <1>12, <1>13, <1>14 DEF Work

LEMMA NextSteps ==
    ASSUME TypeOK, TxnOfTask, PaidFirst, [Next]_vars
    PROVE  \/ \E r \in Requests : RequestStep(r) \/ PaystackStep(r)
           \/ \E w \in Workers : WorkerStep(w)
           \/ UNCHANGED vars
BY RequestSteps, WorkerSteps DEF Next, RequestStep, PaystackStep

-----------------------------------------------------------------------------
(* However many tasks work on a transaction. *)
LEMMA OneGoesOn ==
    ASSUME TypeOK, NEW w \in Workers, NEW q \in WorkerRecords, Becomes(w, q)
    PROVE  /\ worker' \in [Workers -> WorkerRecords]
           /\ worker'[w] = q /\ \A v \in Workers \ {w} : worker'[v] = worker[v]
BY DEF TypeOK, Becomes, WorkerRecords

LEMMA EntriesTyped ==
    ASSUME TypeOK, NEW v \in Wallets
    PROVE  /\ ledger[v] \in Seq(Entry) /\ DOMAIN ledger[v] = 1 .. Len(ledger[v])
           /\ Len(ledger[v]) \in Nat
           /\ \A i \in DOMAIN ledger[v] :
                 ledger[v][i].txn \in Requests /\ ledger[v][i].after \in Nat
<1>1. ledger[v] \in Seq(Entry)
  BY DEF TypeOK
<1>2. DOMAIN ledger[v] = 1 .. Len(ledger[v]) /\ Len(ledger[v]) \in Nat
  BY <1>1
<1>3. \A i \in DOMAIN ledger[v] : ledger[v][i] \in Entry
  BY <1>1, <1>2, ElementOfSeq
<1> QED
  BY <1>1, <1>2, <1>3 DEF Entry

LEMMA EventsStep ==
    ASSUME TypeOK, EventsCounted, TxnOfTask, NEW w \in Workers, NEW q \in WorkerRecords,
           Becomes(w, q), Counts(w, q), UNCHANGED sends
    PROVE  EventsCounted' /\ events' \in [Requests -> 0 .. MaxSends]
<1>1. worker'[w] = q /\ \A v \in Workers \ {w} : worker'[v] = worker[v]
  BY OneGoesOn
<1>2. events \in [Requests -> Nat] /\ sends \in [Requests -> 0 .. MaxSends] /\ MaxSends \in Nat
  BY BoundsAssumption DEF TypeOK
<1>3. events' \in [Requests -> Nat]
  BY <1>2 DEF Counts
<1>4. ASSUME NEW t \in Requests
      PROVE  /\ Cardinality(Charging(t)') \in Nat
             /\ events'[t] + Cardinality(Charging(t)') <= sends[t]
  <2> DEFINE C == Charging(t)
             D == Charging(t)'
  <2>1. D = {v \in Workers : worker'[v].task = "charge" /\ worker'[v].txn = t}
    BY DEF Charging, Txn
  <2>2. C = {v \in Workers : worker[v].task = "charge" /\ worker[v].txn = t}
    BY DEF Charging, Txn
  <2>3. /\ w \in D <=> q.task = "charge" /\ q.txn = t
        /\ w \in C <=> worker[w].task = "charge" /\ Txn(w) = t
        /\ \A v : v # w => (v \in D <=> v \in C)
    BY <1>1, <2>1, <2>2 DEF Txn
  <2>4. C \subseteq Workers /\ D \subseteq Workers /\ IsFiniteSet(Workers)
    BY <2>1, <2>2, NamesAssumption
  <2> HIDE DEF C, D
  <2>5. IsFiniteSet(C) /\ IsFiniteSet(D)
    BY <2>4, FS_Subset
  <2>6. Cardinality(C) \in Nat /\ Cardinality(D) \in Nat
    BY <2>5, FS_CardinalityType
  <2>7. events[t] + Cardinality(C) <= sends[t] /\ events[t] \in Nat /\ sends[t] \in Nat
    BY <1>2 DEF EventsCounted, C
  <2>8. D \subseteq C => Cardinality(D) <= Cardinality(C)
    BY <2>5, FS_Subset
  <2>9. w \notin C /\ D = C \cup {w} => Cardinality(D) = Cardinality(C) + 1
    BY <2>5, FS_AddElement
  <2>10. w \notin D /\ C = D \cup {w} => Cardinality(C) = Cardinality(D) + 1
    BY <2>5, FS_AddElement
  <2>11. CASE events' = events /\ (q.task = "charge" => worker[w].task = "charge" /\ q.txn = Txn(w))
    <3>1. D \subseteq C
      BY <2>3, <2>11
    <3> QED
      BY <2>6, <2>7, <2>8, <2>11, <3>1 DEF D
  <2>12. CASE /\ worker[w].task # "charge" /\ q.task = "charge"
              /\ q.txn \in Requests /\ events[q.txn] > 0
              /\ events' = [events EXCEPT ![q.txn] = @ - 1]
    <3>1. CASE t = q.txn
      <4>1. w \notin C /\ D = C \cup {w}
        BY <2>3, <2>12, <3>1
      <4>2. events'[t] = events[t] - 1
        BY <1>2, <2>12, <3>1
      <4> QED
        BY <2>6, <2>7, <2>9, <4>1, <4>2 DEF D
    <3>2. CASE t # q.txn
      <4>1. D \subseteq C
        BY <2>3, <3>2
      <4>2. events'[t] = events[t]
        BY <1>2, <2>12, <3>2
      <4> QED
        BY <2>6, <2>7, <2>8, <4>1, <4>2 DEF D
    <3> QED
      BY <3>1, <3>2
  <2>13. CASE /\ worker[w].task = "charge" /\ q.task # "charge"
              /\ events' = [events EXCEPT ![Txn(w)] = @ + 1]
    <3>1. CASE t = Txn(w)
      <4>1. w \notin D /\ C = D \cup {w}
        BY <2>3, <2>13, <3>1
      <4>2. events'[t] = events[t] + 1
        BY <1>2, <2>13, <3>1
      <4> QED
        BY <2>6, <2>7, <2>10, <4>1, <4>2 DEF D
    <3>2. CASE t # Txn(w)
      <4>1. D \subseteq C
        BY <2>3, <2>13
      <4>2. events'[t] = events[t]
        BY <1>2, <2>13, <3>2
      <4> QED
        BY <2>6, <2>7, <2>8, <4>1, <4>2 DEF D
    <3> QED
      BY <3>1, <3>2
  <2> QED
    BY <2>11, <2>12, <2>13 DEF Counts
<1>5. EventsCounted'
  BY <1>2, <1>4 DEF EventsCounted
<1>6. \A t \in Requests : events'[t] \in 0 .. MaxSends
  BY <1>2, <1>3, <1>4
<1> QED
  BY <1>3, <1>5, <1>6

(* A worker that goes on with a payment, or without one. *)
LEMMA PaidStep ==
    ASSUME TypeOK, PaidFirst, NEW w \in Workers, NEW q \in WorkerRecords, Becomes(w, q),
           Counts(w, q), UNCHANGED paid,
           q.task = "charge" \/ q.step \in Crediting => q.txn \in paid
    PROVE  PaidFirst'
<1>1. worker'[w] = q /\ \A v \in Workers \ {w} : worker'[v] = worker[v]
  BY OneGoesOn
<1>2. ASSUME NEW t \in Requests, events'[t] > 0 PROVE t \in paid
  <2>1. events \in [Requests -> Nat]
    BY BoundsAssumption DEF TypeOK
  <2>2. events[t] > 0 \/ (worker[w].task = "charge" /\ t = Txn(w))
    BY <1>2, <2>1 DEF Counts
  <2> QED
    BY <2>2 DEF PaidFirst
<1> QED
  BY <1>1, <1>2 DEF PaidFirst, Txn

LEMMA GoesOnBase ==
    ASSUME BaseInv, NEW w \in Workers, NEW q \in WorkerRecords, GoesOn(w, q)
    PROVE  BaseInv'
<1>1. /\ TypeOK /\ Bodies /\ TxnOfTask /\ LocksHeld /\ EntriesOfRows /\ EventsCounted
      /\ PaidFirst /\ OncePerKey /\ LedgerChains
  BY DEF BaseInv
<1>2. /\ Becomes(w, q) /\ Loosens(w) /\ Counts(w, q)
      /\ UNCHANGED <<req, pc, reply, status, balance, ledger, stale, paid, charged, sends>>
  BY DEF GoesOn, api, paystack
<1>3. /\ worker' \in [Workers -> WorkerRecords]
      /\ worker'[w] = q /\ \A v \in Workers \ {w} : worker'[v] = worker[v]
  BY <1>1, <1>2, OneGoesOn
<1>4. EventsCounted' /\ events' \in [Requests -> 0 .. MaxSends]
  BY <1>1, <1>2, EventsStep
<1>5. TypeOK'
  BY <1>1, <1>2, <1>3, <1>4 DEF TypeOK, GoesOn, WorkerRecords, Loosens, Owners
<1>6. Bodies' /\ EntriesOfRows' /\ OncePerKey' /\ LedgerChains'
  BY <1>1, <1>2 DEF Bodies, EntriesOfRows, OncePerKey, Rows, Key, LedgerChains, After
<1>7. TxnOfTask'
  BY <1>1, <1>2, <1>3 DEF TxnOfTask, GoesOn, Lockless, Ahead, Txn, At
<1>8. LocksHeld'
  <2> SUFFICES ASSUME NEW v \in Workers
               PROVE  /\ worker'[v].step \in {"lock", "credit", "fail"} => rowLock'[worker'[v].txn] = v
                      /\ worker'[v].step = "credit" =>
                            /\ walletLock'[req'[worker'[v].txn].wallet] = v
                            /\ worker'[v].seen = balance'[req'[worker'[v].txn].wallet]
    BY DEF LocksHeld, Txn, Wallet, At
  <2>1. CASE v = w
    BY <1>3, <2>1 DEF GoesOn, Lockless
  <2>2. CASE v # w
    <3>1. /\ worker'[v] = worker[v]
          /\ worker[v].step \in {"lock", "credit"} =>
                worker[v].txn \in Requests /\ req[worker[v].txn].wallet \in Wallets
          /\ worker[v].step = "fail" => worker[v].txn \in Requests
      BY <1>1, <1>3, <2>2, OffersAssumption DEF TxnOfTask, Ahead, Txn, Bodies, TypeOK
    <3> QED
      BY <1>1, <1>2, <2>2, <3>1 DEF LocksHeld, Loosens, Txn, Wallet, At
  <2> QED
    BY <2>1, <2>2
<1>9. PaidFirst'
  BY <1>1, <1>2, PaidStep DEF GoesOn
<1> QED
  BY <1>4, <1>5, <1>6, <1>7, <1>8, <1>9 DEF BaseInv

LEMMA MarksBase ==
    ASSUME BaseInv, NEW w \in Workers, Marks(w)
    PROVE  BaseInv'
<1>1. /\ TypeOK /\ Bodies /\ TxnOfTask /\ LocksHeld /\ EntriesOfRows /\ EventsCounted
      /\ PaidFirst /\ OncePerKey /\ LedgerChains /\ worker[w] \in WorkerRecords
  BY DEF BaseInv, TypeOK, WorkerRecords
<1>2. PICK to \in {"lock", "fail"} :
          /\ worker' = [worker EXCEPT ![w] = [worker[w] EXCEPT !.step = to]]
          /\ to = "lock" => worker[w].step = "mark"
  BY DEF Marks, Mark, Step, At
<1> DEFINE q == [worker[w] EXCEPT !.step = to]
<1>3. /\ q \in WorkerRecords /\ q.step = to /\ q.txn = Txn(w) /\ q.task = worker[w].task
  BY <1>1 DEF WorkerRecords, Steps, Txn
<1>4. Becomes(w, q)
  BY <1>2 DEF Becomes
<1> HIDE DEF q
<1>5. /\ worker[w].step \in Ahead \ {"credit"} /\ Txn(w) \in Requests /\ status[Txn(w)] # "absent"
      /\ rowLock[Txn(w)] = NoWorker /\ rowLock' = [rowLock EXCEPT ![Txn(w)] = w]
      /\ UNCHANGED <<req, pc, reply, status, balance, ledger, audited, stale, paid, charged, sends, events,
                     walletLock, faults>>
  BY <1>1 DEF Marks, Mark, At, TxnOfTask, Ahead, api, db, paystack
<1>6. /\ worker' \in [Workers -> WorkerRecords]
      /\ worker'[w] = q /\ \A v \in Workers \ {w} : worker'[v] = worker[v]
  BY <1>1, <1>3, <1>4, OneGoesOn
<1>7. EventsCounted' /\ PaidFirst'
  <2>1. Counts(w, q)
    BY <1>3, <1>5 DEF Counts
  <2>2. q.task = "charge" \/ q.step \in Crediting => q.txn \in paid
    BY <1>1, <1>2, <1>3 DEF PaidFirst, Crediting
  <2> QED
    BY <1>1, <1>3, <1>4, <1>5, <2>1, <2>2, EventsStep, PaidStep
<1>8. TypeOK'
  BY <1>1, <1>5, <1>6 DEF TypeOK, WorkerRecords
<1>9. Bodies' /\ EntriesOfRows' /\ OncePerKey' /\ LedgerChains'
  BY <1>1, <1>5 DEF Bodies, EntriesOfRows, OncePerKey, Rows, Key, LedgerChains, After
<1>10. TxnOfTask'
  BY <1>1, <1>3, <1>5, <1>6 DEF TxnOfTask, Ahead, Txn, At
<1>11. LocksHeld'
  <2> SUFFICES ASSUME NEW v \in Workers
               PROVE  /\ worker'[v].step \in {"lock", "credit", "fail"} => rowLock'[worker'[v].txn] = v
                      /\ worker'[v].step = "credit" =>
                            /\ walletLock'[req'[worker'[v].txn].wallet] = v
                            /\ worker'[v].seen = balance'[req'[worker'[v].txn].wallet]
    BY DEF LocksHeld, Txn, Wallet, At
  <2>1. CASE v = w
    BY <1>1, <1>3, <1>5, <1>6, <2>1 DEF TypeOK
  <2>2. CASE v # w
    <3>1. worker'[v] = worker[v] /\ v # NoWorker
      BY <1>6, <2>2, NamesAssumption
    <3>2. worker[v].step \in {"lock", "credit", "fail"} =>
              worker[v].txn # Txn(w) /\ rowLock[worker[v].txn] = v
      BY <1>1, <1>5, <3>1 DEF LocksHeld, Txn
    <3> QED
      BY <1>1, <1>5, <3>1, <3>2 DEF LocksHeld, Txn, Wallet, At, TypeOK
  <2> QED
    BY <2>1, <2>2
<1> QED
  BY <1>7, <1>8, <1>9, <1>10, <1>11 DEF BaseInv

LEMMA LockWalletBase ==
    ASSUME BaseInv, NEW w \in Workers, LockWallet(w)
    PROVE  BaseInv'
<1>1. /\ TypeOK /\ Bodies /\ TxnOfTask /\ LocksHeld /\ EntriesOfRows /\ EventsCounted
      /\ PaidFirst /\ OncePerKey /\ LedgerChains /\ worker[w] \in WorkerRecords
  BY DEF BaseInv, TypeOK, WorkerRecords
<1> DEFINE wallet == Wallet(Txn(w))
           q == [worker[w] EXCEPT !.step = "credit", !.seen = balance[wallet]]
<1>2. /\ worker[w].step = "lock" /\ Txn(w) \in Requests /\ status[Txn(w)] # "absent"
      /\ rowLock[Txn(w)] = w /\ wallet \in Wallets
      /\ walletLock[wallet] = NoWorker /\ walletLock' = [walletLock EXCEPT ![wallet] = w]
      /\ UNCHANGED <<req, pc, reply, status, balance, ledger, audited, stale, paid, charged, sends, events,
                     rowLock, faults>>
  <2>1. worker[w].step = "lock" /\ Txn(w) \in Requests /\ status[Txn(w)] # "absent"
    BY <1>1 DEF LockWallet, At, TxnOfTask, Ahead
  <2>2. rowLock[Txn(w)] = w
    BY <1>1, <2>1 DEF LocksHeld
  <2>3. wallet \in Wallets
    BY <1>1, <2>1, OffersAssumption DEF Bodies, Wallet
  <2>4. /\ walletLock[wallet] = NoWorker /\ walletLock' = [walletLock EXCEPT ![wallet] = w]
        /\ UNCHANGED <<req, pc, reply, status, balance, ledger, audited, stale, paid, charged, sends,
                       events, rowLock, faults>>
    BY DEF LockWallet, api, db, paystack
  <2> QED
    BY <2>1, <2>2, <2>3, <2>4
<1>3. /\ q \in WorkerRecords /\ q.step = "credit" /\ q.txn = Txn(w) /\ q.task = worker[w].task
      /\ q.seen = balance[wallet]
  BY <1>1, <1>2 DEF WorkerRecords, Steps, Txn, TypeOK
<1>4. Becomes(w, q)
  BY DEF LockWallet, Becomes
<1> HIDE DEF q
<1>5. /\ worker' \in [Workers -> WorkerRecords]
      /\ worker'[w] = q /\ \A v \in Workers \ {w} : worker'[v] = worker[v]
  BY <1>1, <1>3, <1>4, OneGoesOn
<1>6. EventsCounted' /\ PaidFirst'
  <2>1. Counts(w, q)
    BY <1>2, <1>3 DEF Counts
  <2>2. Txn(w) \in paid
    BY <1>1, <1>2 DEF PaidFirst, Crediting
  <2> QED
    BY <1>1, <1>2, <1>3, <1>4, <2>1, <2>2, EventsStep, PaidStep
<1>7. TypeOK'
  BY <1>1, <1>2, <1>5 DEF TypeOK, WorkerRecords
<1>8. Bodies' /\ EntriesOfRows' /\ OncePerKey' /\ LedgerChains'
  BY <1>1, <1>2 DEF Bodies, EntriesOfRows, OncePerKey, Rows, Key, LedgerChains, After
<1>9. TxnOfTask'
  BY <1>1, <1>2, <1>3, <1>5 DEF TxnOfTask, Ahead, Txn, At
<1>10. LocksHeld'
  <2> SUFFICES ASSUME NEW v \in Workers
               PROVE  /\ worker'[v].step \in {"lock", "credit", "fail"} => rowLock'[worker'[v].txn] = v
                      /\ worker'[v].step = "credit" =>
                            /\ walletLock'[req'[worker'[v].txn].wallet] = v
                            /\ worker'[v].seen = balance'[req'[worker'[v].txn].wallet]
    BY DEF LocksHeld, Txn, Wallet, At
  <2>1. CASE v = w
    BY <1>1, <1>2, <1>3, <1>5, <2>1 DEF TypeOK, Wallet
  <2>2. CASE v # w
    <3>1. worker'[v] = worker[v] /\ v # NoWorker
      BY <1>5, <2>2, NamesAssumption
    <3>2. worker[v].step = "credit" =>
              /\ req[worker[v].txn].wallet # wallet
              /\ walletLock[req[worker[v].txn].wallet] = v
      BY <1>1, <1>2, <3>1 DEF LocksHeld, Txn, Wallet, At
    <3> HIDE DEF wallet
    <3> QED
      BY <1>1, <1>2, <3>1, <3>2 DEF LocksHeld, Txn, Wallet, At, TypeOK
  <2> QED
    BY <2>1, <2>2
<1> QED
  BY <1>6, <1>7, <1>8, <1>9, <1>10 DEF BaseInv

LEMMA FailTxnBase ==
    ASSUME BaseInv, NEW w \in Workers, FailTxn(w)
    PROVE  BaseInv'
<1>1. /\ TypeOK /\ Bodies /\ TxnOfTask /\ LocksHeld /\ EntriesOfRows /\ EventsCounted
      /\ PaidFirst /\ OncePerKey /\ LedgerChains /\ worker[w].todo \in SUBSET Requests
  BY DEF BaseInv, TypeOK
<1> DEFINE q == Onward(w)
           t == Txn(w)
<1>2. /\ q \in WorkerRecords /\ q.step \in {"idle", "verify"} /\ q.task # "charge"
      /\ q.step = "verify" => q.task = "sweep"
  BY <1>1, WhatFollows DEF Onward
<1>3. Becomes(w, q) /\ Loosens(w)
  BY <1>1, Released DEF FailTxn, Becomes
<1>4. /\ worker[w].step = "fail" /\ t \in Requests /\ status[t] # "absent"
      /\ status' = [status EXCEPT ![t] = "failed"]
      /\ UNCHANGED <<req, pc, reply, balance, ledger, audited, stale, paid, charged, sends, events, faults>>
  BY <1>1 DEF FailTxn, At, TxnOfTask, Ahead, api, paystack
<1> HIDE DEF q, t
<1>5. /\ worker' \in [Workers -> WorkerRecords]
      /\ worker'[w] = q /\ \A v \in Workers \ {w} : worker'[v] = worker[v]
  BY <1>1, <1>2, <1>3, OneGoesOn
<1>6. EventsCounted' /\ PaidFirst'
  <2>1. Counts(w, q)
    BY <1>2, <1>4 DEF Counts
  <2> QED
    BY <1>1, <1>2, <1>3, <1>4, <2>1, EventsStep, PaidStep DEF Crediting
<1>7. \A r \in Requests : status'[r] = "absent" <=> status[r] = "absent"
  BY <1>1, <1>4 DEF TypeOK
<1>8. TypeOK'
  BY <1>1, <1>3, <1>4, <1>5 DEF TypeOK, WorkerRecords, Loosens, Owners
<1>9. Rows' = Rows
  BY <1>7 DEF Rows
<1>10. Bodies' /\ EntriesOfRows' /\ OncePerKey' /\ LedgerChains'
  <2>1. \A v \in Wallets : \A i \in DOMAIN ledger[v] : ledger[v][i].txn \in Requests
    BY <1>1, EntriesTyped
  <2>2. Bodies' /\ EntriesOfRows'
    BY <1>1, <1>4, <1>7, <2>1 DEF Bodies, EntriesOfRows
  <2> QED
    BY <1>1, <1>4, <1>9, <2>2 DEF OncePerKey, Key, LedgerChains, After
<1>11. TxnOfTask'
  BY <1>1, <1>2, <1>5, <1>7 DEF TxnOfTask, Ahead, Txn, At
<1>12. LocksHeld'
  <2> SUFFICES ASSUME NEW v \in Workers
               PROVE  /\ worker'[v].step \in {"lock", "credit", "fail"} => rowLock'[worker'[v].txn] = v
                      /\ worker'[v].step = "credit" =>
                            /\ walletLock'[req'[worker'[v].txn].wallet] = v
                            /\ worker'[v].seen = balance'[req'[worker'[v].txn].wallet]
    BY DEF LocksHeld, Txn, Wallet, At
  <2>1. CASE v = w
    BY <1>2, <1>5, <2>1
  <2>2. CASE v # w
    <3>1. /\ worker'[v] = worker[v]
          /\ worker[v].step \in {"lock", "credit"} =>
                worker[v].txn \in Requests /\ req[worker[v].txn].wallet \in Wallets
          /\ worker[v].step = "fail" => worker[v].txn \in Requests
      BY <1>1, <1>5, <2>2, OffersAssumption DEF TxnOfTask, Ahead, Txn, Bodies, TypeOK
    <3> QED
      BY <1>1, <1>3, <1>4, <2>2, <3>1 DEF LocksHeld, Loosens, Txn, Wallet, At
  <2> QED
    BY <2>1, <2>2
<1> QED
  BY <1>6, <1>8, <1>10, <1>11, <1>12 DEF BaseInv

(* The entry of a credit goes on from the balance, which nobody else can     *)
(* have changed since it was read.                                           *)
LEMMA CreditEntry ==
    ASSUME TypeOK, Bodies, TxnOfTask, LocksHeld, NEW w \in Workers, Credit(w)
    PROVE  LET t == Txn(w)
               v == Wallet(t)
               after == balance[v] + charged[t]
           IN  /\ t \in Requests /\ status[t] # "absent" /\ v \in Wallets
               /\ walletLock[v] = w /\ rowLock[t] = w /\ after \in Nat
               /\ balance' = [balance EXCEPT ![v] = after]
               /\ ledger' = [ledger EXCEPT ![v] = Append(ledger[v], [txn |-> t, after |-> after])]
               /\ status' = [status EXCEPT ![t] = "completed"]
<1>1. worker[w].step = "credit" /\ Txn(w) \in Requests /\ status[Txn(w)] # "absent"
  BY DEF Credit, At, TxnOfTask, Ahead
<1>2. Wallet(Txn(w)) \in Wallets /\ charged[Txn(w)] \in Nat
  BY <1>1, OffersAssumption DEF Bodies, Wallet, TypeOK
<1>3. /\ rowLock[Txn(w)] = w /\ walletLock[Wallet(Txn(w))] = w
      /\ worker[w].seen = balance[Wallet(Txn(w))]
  BY <1>1 DEF LocksHeld, At
<1>4. balance[Wallet(Txn(w))] + charged[Txn(w)] \in Nat
  BY <1>2 DEF TypeOK
<1> QED
  BY <1>1, <1>2, <1>3, <1>4 DEF Credit

LEMMA CreditBase ==
    ASSUME BaseInv, NEW w \in Workers, Credit(w)
    PROVE  BaseInv'
<1>1. /\ TypeOK /\ Bodies /\ TxnOfTask /\ LocksHeld /\ EntriesOfRows /\ EventsCounted
      /\ PaidFirst /\ OncePerKey /\ LedgerChains /\ worker[w] \in WorkerRecords
  BY DEF BaseInv, TypeOK, WorkerRecords
<1> DEFINE t == Txn(w)
           v == Wallet(t)
           after == balance[v] + charged[t]
           entry == [txn |-> t, after |-> after]
           q == [worker[w] EXCEPT !.step = "audit"]
<1>2. /\ t \in Requests /\ status[t] # "absent" /\ v \in Wallets
      /\ walletLock[v] = w /\ rowLock[t] = w /\ after \in Nat
      /\ balance' = [balance EXCEPT ![v] = after]
      /\ ledger' = [ledger EXCEPT ![v] = Append(ledger[v], entry)]
      /\ status' = [status EXCEPT ![t] = "completed"]
  BY <1>1, CreditEntry
<1>3. /\ q \in WorkerRecords /\ q.step = "audit" /\ q.txn = t /\ q.task = worker[w].task
  BY <1>1 DEF WorkerRecords, Steps, Txn
<1>4. Becomes(w, q) /\ Loosens(w)
  BY <1>1, Released DEF Credit, Step, Becomes
<1>5. UNCHANGED <<req, pc, reply, audited, stale, paid, charged, sends, events, faults>>
  BY DEF Credit, api, paystack
<1>6. entry \in Entry /\ entry.txn = t /\ entry.after = after
  BY <1>2 DEF Entry
<1> HIDE DEF q, t, entry
<1>7. /\ worker' \in [Workers -> WorkerRecords]
      /\ worker'[w] = q /\ \A u \in Workers \ {w} : worker'[u] = worker[u]
  BY <1>1, <1>3, <1>4, OneGoesOn
<1>8. EventsCounted' /\ PaidFirst' /\ t \in paid
  <2>1. Counts(w, q)
    BY <1>3, <1>5 DEF Counts, t
  <2>2. t \in paid
    BY <1>1 DEF PaidFirst, Crediting, Credit, At, t
  <2> QED
    BY <1>1, <1>3, <1>4, <1>5, <2>1, <2>2, EventsStep, PaidStep DEF Crediting
<1>9. \A r \in Requests : status'[r] = "absent" <=> status[r] = "absent"
  BY <1>1, <1>2 DEF TypeOK
<1>10. /\ ledger[v] \in Seq(Entry) /\ Len(ledger[v]) \in Nat /\ DOMAIN ledger[v] = 1 .. Len(ledger[v])
       /\ \A u \in Wallets : \A i \in DOMAIN ledger[u] : ledger[u][i].txn \in Requests
  BY <1>1, <1>2, EntriesTyped
<1> HIDE DEF v, after
<1>11. /\ ledger'[v] \in Seq(Entry) /\ Len(ledger'[v]) = Len(ledger[v]) + 1
       /\ DOMAIN ledger'[v] = 1 .. Len(ledger[v]) + 1
       /\ ledger'[v][Len(ledger[v]) + 1] = entry
       /\ \A i \in 1 .. Len(ledger[v]) : ledger'[v][i] = ledger[v][i]
       /\ \A u \in Wallets \ {v} : ledger'[u] = ledger[u]
  BY <1>1, <1>2, <1>6, <1>10, AppendProperties DEF TypeOK
<1>12. TypeOK'
  <2>1. balance' \in [Wallets -> Nat] /\ ledger' \in [Wallets -> Seq(Entry)]
    BY <1>1, <1>2, <1>11 DEF TypeOK
  <2> QED
    BY <1>1, <1>2, <1>4, <1>5, <1>7, <2>1 DEF TypeOK, WorkerRecords, Loosens, Owners
<1>13. Bodies' /\ OncePerKey'
  BY <1>1, <1>5, <1>9 DEF Bodies, OncePerKey, Rows, Key
<1>14. EntriesOfRows'
  <2> SUFFICES ASSUME NEW u \in Wallets, NEW i \in DOMAIN ledger'[u]
               PROVE  status'[ledger'[u][i].txn] # "absent" /\ ledger'[u][i].txn \in paid'
    BY DEF EntriesOfRows
  <2>1. CASE u = v /\ i = Len(ledger[v]) + 1
    BY <1>1, <1>2, <1>5, <1>6, <1>8, <1>11, <2>1 DEF TypeOK
  <2>2. CASE ~(u = v /\ i = Len(ledger[v]) + 1)
    <3>1. i \in DOMAIN ledger[u] /\ ledger'[u][i] = ledger[u][i]
      BY <1>10, <1>11, <2>2
    <3> QED
      BY <1>1, <1>5, <1>9, <1>10, <3>1 DEF EntriesOfRows
  <2> QED
    BY <2>1, <2>2
<1>15. LedgerChains'
  <2> DEFINE end(s, i) == IF i = 0 THEN 0 ELSE s[i].after
  <2> SUFFICES ASSUME NEW u \in Wallets
               PROVE  /\ balance'[u] = end(ledger'[u], Len(ledger'[u]))
                      /\ \A i \in 1 .. Len(ledger'[u]) :
                            end(ledger'[u], i) =
                                end(ledger'[u], i - 1) + charged'[ledger'[u][i].txn]
    BY DEF LedgerChains, After
  <2>1. /\ balance[u] = end(ledger[u], Len(ledger[u]))
        /\ \A i \in 1 .. Len(ledger[u]) :
              end(ledger[u], i) = end(ledger[u], i - 1) + charged[ledger[u][i].txn]
    BY <1>1 DEF LedgerChains, After
  <2>2. CASE u # v
    BY <1>1, <1>2, <1>5, <1>11, <2>1, <2>2 DEF TypeOK
  <2>3. CASE u = v
    <3>1. \A i \in 0 .. Len(ledger[v]) : end(ledger'[v], i) = end(ledger[v], i)
      BY <1>10, <1>11
    <3>2. end(ledger'[v], Len(ledger[v]) + 1) = after
      BY <1>6, <1>10, <1>11
    <3>3. after = end(ledger[v], Len(ledger[v])) + charged'[t]
      BY <1>5, <2>1, <2>3 DEF after
    <3>4. balance'[v] = after
      BY <1>1, <1>2 DEF TypeOK
    <3> HIDE DEF end
    <3>5. ASSUME NEW i \in 1 .. Len(ledger[v]) + 1
          PROVE  end(ledger'[v], i) = end(ledger'[v], i - 1) + charged'[ledger'[v][i].txn]
      <4>1. CASE i = Len(ledger[v]) + 1
        <5>1. i - 1 = Len(ledger[v]) /\ Len(ledger[v]) \in 0 .. Len(ledger[v])
          BY <1>10, <4>1
        <5>2. ledger'[v][i].txn = t
          BY <1>6, <1>11, <4>1
        <5> QED
          BY <3>1, <3>2, <3>3, <4>1, <5>1, <5>2
      <4>2. CASE i \in 1 .. Len(ledger[v])
        <5>1. i \in 0 .. Len(ledger[v]) /\ i - 1 \in 0 .. Len(ledger[v])
          BY <1>10, <4>2
        <5>2. ledger'[v][i] = ledger[v][i]
          BY <1>11, <4>2
        <5> QED
          BY <1>5, <2>1, <2>3, <3>1, <4>2, <5>1, <5>2
      <4> QED
        BY <1>10, <4>1, <4>2
    <3> QED
      BY <1>11, <2>3, <3>2, <3>4, <3>5
  <2> QED
    BY <2>2, <2>3
<1>16. TxnOfTask'
  BY <1>1, <1>2, <1>3, <1>7, <1>9 DEF TxnOfTask, Ahead, Txn, At
<1>17. LocksHeld'
  <2> SUFFICES ASSUME NEW u \in Workers
               PROVE  /\ worker'[u].step \in {"lock", "credit", "fail"} => rowLock'[worker'[u].txn] = u
                      /\ worker'[u].step = "credit" =>
                            /\ walletLock'[req'[worker'[u].txn].wallet] = u
                            /\ worker'[u].seen = balance'[req'[worker'[u].txn].wallet]
    BY DEF LocksHeld, Txn, Wallet, At
  <2>1. CASE u = w
    BY <1>3, <1>7, <2>1
  <2>2. CASE u # w
    <3>1. /\ worker'[u] = worker[u]
          /\ worker[u].step \in {"lock", "credit"} =>
                worker[u].txn \in Requests /\ req[worker[u].txn].wallet \in Wallets
          /\ worker[u].step = "fail" => worker[u].txn \in Requests
      BY <1>1, <1>7, <2>2, OffersAssumption DEF TxnOfTask, Ahead, Txn, Bodies, TypeOK
    <3>2. worker[u].step = "credit" =>
              /\ walletLock[req[worker[u].txn].wallet] = u
              /\ worker[u].seen = balance[req[worker[u].txn].wallet]
      BY <1>1 DEF LocksHeld, Txn, Wallet, At
    <3>3. worker[u].step = "credit" => req[worker[u].txn].wallet # v
      BY <1>2, <2>2, <3>2
    <3>4. worker[u].step \in {"lock", "credit", "fail"} => rowLock'[worker[u].txn] = u
      BY <1>1, <1>4, <2>2, <3>1 DEF LocksHeld, Loosens, Txn
    <3>5. worker[u].step = "credit" => walletLock'[req[worker[u].txn].wallet] = u
      BY <1>4, <2>2, <3>1, <3>2 DEF Loosens
    <3>6. worker[u].step = "credit" =>
              balance'[req[worker[u].txn].wallet] = balance[req[worker[u].txn].wallet]
      BY <1>1, <1>2, <3>1, <3>3 DEF TypeOK
    <3> QED
      BY <1>5, <3>1, <3>2, <3>4, <3>5, <3>6
  <2> QED
    BY <2>1, <2>2
<1> QED
  BY <1>8, <1>12, <1>13, <1>14, <1>15, <1>16, <1>17 DEF BaseInv

(* Requests, customers and Paystack leave alone what tasks work on. *)
LEMMA OthersBase ==
    ASSUME BaseInv, UNCHANGED <<balance, ledger, worker, rowLock, walletLock>>,
           \A t \in Requests : status[t] # "absent" => req'[t] = req[t] /\ status'[t] = status[t],
           \A t \in paid : t \in paid' /\ charged'[t] = charged[t],
           \A t \in Requests : events'[t] > 0 => events[t] > 0 \/ t \in paid
    PROVE  TxnOfTask' /\ LocksHeld' /\ EntriesOfRows' /\ PaidFirst' /\ LedgerChains'
<1>1. TypeOK /\ TxnOfTask /\ LocksHeld /\ EntriesOfRows /\ PaidFirst /\ LedgerChains
  BY DEF BaseInv
<1>2. TxnOfTask'
  BY <1>1 DEF TxnOfTask, Ahead, Txn, At
<1>3. LocksHeld'
  BY <1>1 DEF LocksHeld, TxnOfTask, Ahead, Txn, Wallet, At
<1>4. \A v \in Wallets : /\ DOMAIN ledger[v] = 1 .. Len(ledger[v])
                         /\ \A i \in DOMAIN ledger[v] : /\ ledger[v][i].txn \in Requests
                                                        /\ status[ledger[v][i].txn] # "absent"
                                                        /\ ledger[v][i].txn \in paid
  BY <1>1, EntriesTyped DEF EntriesOfRows
<1>5. EntriesOfRows' /\ LedgerChains'
  BY <1>1, <1>4 DEF EntriesOfRows, LedgerChains, After
<1>6. PaidFirst'
  BY <1>1 DEF PaidFirst, Txn
<1> QED
  BY <1>2, <1>3, <1>5, <1>6

LEMMA RequestStepBase ==
    ASSUME BaseInv, NEW r \in Requests, RequestStep(r)
    PROVE  BaseInv'
<1>1. /\ TypeOK /\ Bodies /\ EventsCounted /\ OncePerKey
      /\ req \in [Requests -> Offers \cup {NoOffer}]
      /\ pc \in [Requests -> Working \cup {"idle", "done"}]
      /\ reply \in [Requests -> Replies]
      /\ status \in [Requests -> {"absent", "pending", "completed", "failed"}]
  BY DEF BaseInv, TypeOK, Replies
<1>2. UNCHANGED <<balance, ledger, audited, stale, paid, charged, sends, events, worker, rowLock, walletLock,
                  faults>>
  BY DEF RequestStep, Arrive, Goto, Answers, Insert, db, paystack
<1>3. EventsCounted'
  BY <1>1, <1>2 DEF EventsCounted, Charging, Txn
<1>4. CASE \E o \in Offers : Arrive(r, o)
  <2>1. PICK o \in Offers : Arrive(r, o)
    BY <1>4
  <2>2. /\ pc[r] = "idle" /\ pc' = [pc EXCEPT ![r] = "arrived"] /\ req' = [req EXCEPT ![r] = o]
        /\ UNCHANGED <<reply, status>>
    BY <2>1 DEF Arrive, Goto, db
  <2>3. \A t \in Requests : status[t] # "absent" => req'[t] = req[t] /\ status'[t] = status[t]
    BY <1>1, <2>2 DEF Bodies
  <2>4. TypeOK'
    BY <1>1, <1>2, <2>2 DEF TypeOK, Working
  <2>5. Bodies' /\ OncePerKey'
    BY <1>1, <2>2, <2>3 DEF Bodies, OncePerKey, Rows, Key
  <2> QED
    BY <1>2, <1>3, <2>3, <2>4, <2>5, OthersBase DEF BaseInv
<1>5. CASE Answers(r)
  <2>1. PICK to \in Working \cup {"done"} : pc' = [pc EXCEPT ![r] = to]
    BY <1>5 DEF Answers
  <2>2. /\ pc[r] \in Working /\ UNCHANGED <<req, status>>
        /\ reply' \in [Requests -> Replies]
    BY <1>1, <1>5 DEF Answers, db
  <2>3. TypeOK'
    BY <1>1, <1>2, <2>1, <2>2 DEF TypeOK, Replies
  <2>4. Bodies' /\ OncePerKey'
    BY <1>1, <2>1, <2>2 DEF Bodies, OncePerKey, Rows, Key, Working
  <2> QED
    BY <1>2, <1>3, <2>2, <2>3, <2>4, OthersBase DEF BaseInv
<1>6. CASE Insert(r)
  <2>1. /\ pc[r] = "insert" /\ KeyHolders(Key(r)) = {} /\ pc' = [pc EXCEPT ![r] = "done"]
        /\ status' = [status EXCEPT ![r] = "pending"] /\ UNCHANGED req
    BY <1>6 DEF Insert
  <2>2. reply' \in [Requests -> Replies]
    <3>1. /\ [status |-> "url", txn |-> r] \in Replies
          /\ [status |-> "lost", txn |-> NoTxn] \in Replies
      BY DEF Replies
    <3> QED
      BY <1>1, <1>6, <3>1 DEF Insert
  <2>3. status[r] = "absent" /\ req[r] \in Offers
    BY <1>1, <2>1 DEF Bodies
  <2>4. \A t \in Requests : status[t] # "absent" => req'[t] = req[t] /\ status'[t] = status[t]
    BY <1>1, <2>1, <2>3
  <2>5. TypeOK'
    BY <1>1, <1>2, <2>1, <2>2 DEF TypeOK, Replies
  <2>6. Bodies'
    BY <1>1, <2>1, <2>3 DEF Bodies
  <2>7. OncePerKey'
    <3> SUFFICES ASSUME NEW t \in Requests, NEW u \in Requests,
                        status'[t] # "absent", status'[u] # "absent",
                        req[t].key = req[u].key, req[t].key # NoKey
                 PROVE  t = u
      BY <2>1 DEF OncePerKey, Rows, Key
    <3>1. \A x \in Requests \ {r} : status'[x] = status[x]
      BY <1>1, <2>1
    <3>2. \A x \in Requests : status[x] # "absent" /\ req[r].key # NoKey => req[x].key # req[r].key
      BY <2>1 DEF KeyHolders, Rows, Key
    <3> QED
      BY <1>1, <3>1, <3>2 DEF OncePerKey, Rows, Key
  <2> QED
    BY <1>2, <1>3, <2>4, <2>5, <2>6, <2>7, OthersBase DEF BaseInv
<1> QED
  BY <1>4, <1>5, <1>6 DEF RequestStep

LEMMA PaystackStepBase ==
    ASSUME BaseInv, NEW t \in Requests, PaystackStep(t)
    PROVE  BaseInv'
<1>1. TypeOK /\ Bodies /\ EventsCounted /\ OncePerKey /\ MaxSends \in Nat
  BY BoundsAssumption DEF BaseInv
<1>2. UNCHANGED <<req, pc, reply, status, balance, ledger, audited, worker, rowLock, walletLock,
                  faults>>
  BY DEF PaystackStep, Pay, Deliver, Age, api, db
<1>3. /\ sends' \in [Requests -> 0 .. MaxSends] /\ events' \in [Requests -> Nat]
      /\ \A r \in Requests : \/ sends'[r] = sends[r] /\ events'[r] = events[r]
                             \/ sends'[r] = sends[r] + 1 /\ events'[r] \in {events[r], events[r] + 1}
  <2>1. CASE Deliver(t)
    <3>1. /\ sends \in [Requests -> 0 .. MaxSends] /\ events \in [Requests -> Nat]
          /\ sends[t] < MaxSends /\ sends' = [sends EXCEPT ![t] = @ + 1]
      BY <1>1, <2>1 DEF Deliver, TypeOK
    <3>2. /\ sends' \in [Requests -> 0 .. MaxSends] /\ sends'[t] = sends[t] + 1
          /\ \A r \in Requests \ {t} : sends'[r] = sends[r]
      BY <1>1, <3>1
    <3>3. /\ events' \in [Requests -> Nat] /\ events'[t] \in {events[t], events[t] + 1}
          /\ \A r \in Requests \ {t} : events'[r] = events[r]
      BY <2>1, <3>1 DEF Deliver
    <3> QED
      BY <3>2, <3>3
  <2>2. CASE Pay(t) \/ Age(t)
    BY <1>1, <2>2 DEF Pay, Age, TypeOK, paystack
  <2> QED
    BY <2>1, <2>2 DEF PaystackStep
<1>4. ASSUME NEW r \in Requests
      PROVE  /\ Cardinality(Charging(r)) \in Nat
             /\ events'[r] + Cardinality(Charging(r)) <= sends'[r]
  <2>1. Charging(r) \subseteq Workers
    BY DEF Charging
  <2>2. Cardinality(Charging(r)) \in Nat
    BY <2>1, NamesAssumption, FS_Subset, FS_CardinalityType
  <2>3. events[r] + Cardinality(Charging(r)) <= sends[r] /\ events[r] \in Nat /\ sends[r] \in Nat
    BY <1>1 DEF EventsCounted, TypeOK
  <2> QED
    BY <1>3, <2>2, <2>3
<1>5. EventsCounted'
  <2>1. \A r \in Requests : Charging(r)' = Charging(r)
    BY <1>2 DEF Charging, Txn
  <2> QED
    BY <1>4, <2>1 DEF EventsCounted
<1>6. events' \in [Requests -> 0 .. MaxSends]
  BY <1>1, <1>3, <1>4
<1>7. /\ stale' \subseteq Requests /\ paid' \subseteq Requests /\ charged' \in [Requests -> Nat]
      /\ \A r \in paid : r \in paid' /\ charged'[r] = charged[r]
      /\ \A r \in Requests : events'[r] > 0 => events[r] > 0 \/ r \in paid
  <2>1. CASE Pay(t)
    <3>1. PICK n \in Nat : charged' = [charged EXCEPT ![t] = n]
      BY <2>1, OffersAssumption DEF Pay
    <3> QED
      BY <1>1, <2>1, <3>1 DEF Pay, TypeOK
  <2>2. CASE Deliver(t)
    BY <1>1, <2>2 DEF Deliver, TypeOK
  <2>3. CASE Age(t)
    BY <1>1, <2>3 DEF Age, TypeOK, paystack
  <2> QED
    BY <2>1, <2>2, <2>3 DEF PaystackStep
<1>8. TypeOK'
  BY <1>1, <1>2, <1>3, <1>6, <1>7 DEF TypeOK
<1>9. Bodies' /\ OncePerKey'
  BY <1>1, <1>2 DEF Bodies, OncePerKey, Rows, Key
<1> QED
  BY <1>2, <1>5, <1>7, <1>8, <1>9, OthersBase DEF BaseInv

LEMMA StepBaseInv == BaseInv /\ [Next]_vars => BaseInv'
<1> SUFFICES ASSUME BaseInv, [Next]_vars PROVE BaseInv'
  OBVIOUS
<1>1. TypeOK /\ TxnOfTask /\ PaidFirst
  BY DEF BaseInv
<1>2. ASSUME UNCHANGED vars PROVE BaseInv'
  BY <1>2 DEF vars, api, db, paystack, BaseInv, TypeOK, Bodies, TxnOfTask, LocksHeld, EntriesOfRows,
      EventsCounted, OncePerKey, LedgerChains, Charging, Txn, Wallet, Key, Rows, After, At, PaidFirst
<1>3. ASSUME NEW w \in Workers, WorkerStep(w) PROVE BaseInv'
  BY <1>3, GoesOnBase, MarksBase, LockWalletBase, CreditBase, FailTxnBase DEF WorkerStep
<1> QED
  BY <1>1, <1>2, <1>3, NextSteps, RequestStepBase, PaystackStepBase

-----------------------------------------------------------------------------
(* While tasks of one transaction do not overlap. *)
Settled == StillPending /\ EntriesOfCompleted /\ CompletedHasEntry

(* Who leaves rows and ledger alone leaves what was settled. *)
LEMMA OthersSettled ==
    ASSUME BaseInv, Settled, UNCHANGED ledger,
           \A t \in Requests : /\ status[t] # "absent" => req'[t] = req[t] /\ status'[t] = status[t]
                               /\ status'[t] = "completed" => status[t] = "completed"
    PROVE  EntriesOfCompleted' /\ CompletedHasEntry'
<1>1. TypeOK /\ EntriesOfCompleted /\ CompletedHasEntry
  BY DEF BaseInv, Settled
<1>2. \A v \in Wallets : \A i \in DOMAIN ledger[v] :
          ledger[v][i].txn \in Requests /\ status[ledger[v][i].txn] # "absent"
  BY <1>1, EntriesTyped DEF EntriesOfCompleted
<1>3. EntriesOfCompleted'
  BY <1>1, <1>2 DEF EntriesOfCompleted, Wallet
<1>4. CompletedHasEntry'
  BY <1>1 DEF CompletedHasEntry, Wallet
<1> QED
  BY <1>3, <1>4

LEMMA WorkerStepSettled ==
    ASSUME BaseInv, Serial, Settled, NEW w \in Workers, WorkerStep(w)
    PROVE  Settled'
<1>1. /\ TypeOK /\ Bodies /\ TxnOfTask /\ LocksHeld /\ worker[w] \in WorkerRecords
      /\ StillPending /\ EntriesOfCompleted /\ CompletedHasEntry
  BY DEF BaseInv, TypeOK, Settled, WorkerRecords
<1> DEFINE t == Txn(w)
(* Only w works on its transaction. *)
<1>2. ASSUME NEW q \in WorkerRecords, Becomes(w, q), NEW st,
             status' = [status EXCEPT ![t] = st] \/ status' = status,
             t \in Requests \/ status' = status,
             q.step \in {"mark", "lock", "credit", "mark_failed", "fail"} =>
                 status[q.txn] = "pending" /\ status' = status
      PROVE  StillPending'
  <2> SUFFICES ASSUME NEW v \in Workers,
                      worker'[v].step \in {"mark", "lock", "credit", "mark_failed", "fail"}
               PROVE  status'[worker'[v].txn] = "pending"
    BY DEF StillPending, Txn
  <2>1. worker'[w] = q /\ \A u \in Workers \ {w} : worker'[u] = worker[u]
    BY <1>1, <1>2, OneGoesOn
  <2>2. CASE v = w
    BY <1>2, <2>1, <2>2
  <2>3. CASE v # w
    <3>1. worker'[v] = worker[v] /\ worker[v].txn \in Requests
      BY <1>1, <2>1, <2>3 DEF TxnOfTask, Ahead, Txn
    <3>2. worker[v].txn # t
      BY <2>3, <3>1, NamesAssumption DEF Serial, Txn
    <3>3. status'[worker[v].txn] = status[worker[v].txn]
      BY <1>1, <1>2, <3>1, <3>2 DEF TypeOK
    <3> QED
      BY <1>1, <3>1, <3>3 DEF StillPending, Txn
  <2> QED
    BY <2>2, <2>3
<1>3. ASSUME NEW q \in WorkerRecords, GoesOn(w, q) PROVE Settled'
  <2>1. /\ Becomes(w, q) /\ UNCHANGED <<req, status, ledger>>
        /\ q.step \in {"mark", "lock", "credit", "mark_failed", "fail"} => status[q.txn] = "pending"
    BY <1>3 DEF GoesOn, api, Lockless
  <2>2. StillPending'
    BY <1>2, <2>1
  <2> QED
    BY <2>1, <2>2, OthersSettled DEF Settled
<1>4. CASE Marks(w) \/ LockWallet(w)
  <2>1. /\ UNCHANGED <<req, status, ledger>>
        /\ worker[w].step \in {"mark", "lock", "mark_failed"}
    BY <1>4 DEF Marks, Mark, LockWallet, At, api, db
  <2>2. status[t] = "pending"
    BY <1>1, <2>1 DEF StillPending
  <2>3. \E q \in WorkerRecords : Becomes(w, q) /\ q.txn = t
    <3> DEFINE marked(to) == [worker[w] EXCEPT !.step = to]
               locked == [worker[w] EXCEPT !.step = "credit", !.seen = balance[Wallet(t)]]
    <3>1. /\ \A to \in {"lock", "fail"} : marked(to) \in WorkerRecords /\ marked(to).txn = t
      BY <1>1 DEF WorkerRecords, Steps, Txn
    <3>2. CASE Marks(w)
      BY <3>1, <3>2 DEF Marks, Mark, Step, Becomes
    <3>3. CASE LockWallet(w)
      <4>1. Wallet(t) \in Wallets
        BY <1>1, <3>3, OffersAssumption DEF LockWallet, At, TxnOfTask, Ahead, Bodies, Wallet
      <4>2. locked \in WorkerRecords /\ locked.txn = t
        BY <1>1, <4>1 DEF WorkerRecords, Steps, Txn, TypeOK
      <4>3. Becomes(w, locked)
        BY <3>3 DEF LockWallet, Becomes
      <4> HIDE DEF locked
      <4> QED
        BY <4>2, <4>3
    <3> QED
      BY <1>4, <3>2, <3>3
  <2>4. StillPending'
    BY <1>2, <2>1, <2>2, <2>3
  <2> QED
    BY <2>1, <2>4, OthersSettled DEF Settled
<1>5. CASE FailTxn(w)
  <2>1. /\ UNCHANGED <<req, ledger>> /\ status' = [status EXCEPT ![t] = "failed"]
        /\ Becomes(w, Onward(w)) /\ worker[w].step = "fail"
    BY <1>5 DEF FailTxn, At, Becomes, api
  <2>2. status[t] = "pending" /\ t \in Requests
    BY <1>1, <2>1 DEF StillPending, TxnOfTask, Ahead
  <2>3. Onward(w) \in WorkerRecords /\ Onward(w).step \in {"idle", "verify"}
    BY <1>1, WhatFollows DEF Onward, WorkerRecords
  <2>4. StillPending'
    BY <1>2, <2>1, <2>2, <2>3
  <2>5. /\ \A u \in Requests : status[u] = "completed" <=> status'[u] = "completed"
    BY <1>1, <2>1, <2>2 DEF TypeOK
  <2>6. EntriesOfCompleted'
    <3>1. \A v \in Wallets : \A i \in DOMAIN ledger[v] : ledger[v][i].txn \in Requests
      BY <1>1, EntriesTyped
    <3> QED
      BY <1>1, <2>1, <2>5, <3>1 DEF EntriesOfCompleted, Wallet
  <2>7. CompletedHasEntry'
    BY <1>1, <2>1, <2>5 DEF CompletedHasEntry, Wallet
  <2> QED
    BY <2>4, <2>6, <2>7 DEF Settled
<1>6. CASE Credit(w)
  <2> DEFINE v == Wallet(t)
             entry == [txn |-> t, after |-> balance[v] + charged[t]]
             n == Len(ledger[v]) + 1
             q == [worker[w] EXCEPT !.step = "audit"]
  <2>1. /\ t \in Requests /\ v \in Wallets /\ entry.txn = t /\ entry \in Entry
        /\ ledger' = [ledger EXCEPT ![v] = Append(ledger[v], entry)]
        /\ status' = [status EXCEPT ![t] = "completed"] /\ UNCHANGED req
    BY <1>1, <1>6, CreditEntry DEF Credit, api, Entry
  <2>2. status[t] = "pending"
    BY <1>1, <1>6 DEF Credit, At, StillPending
  <2>3. q \in WorkerRecords /\ q.step = "audit" /\ Becomes(w, q)
    BY <1>1, <1>6 DEF WorkerRecords, Steps, Credit, Step, Becomes
  <2> HIDE DEF q, entry
  <2>4. StillPending'
    BY <1>2, <2>1, <2>3
  <2>5. /\ ledger[v] \in Seq(Entry) /\ DOMAIN ledger[v] = 1 .. n - 1 /\ n \in Nat
        /\ \A u \in Wallets : \A i \in DOMAIN ledger[u] :
              ledger[u][i].txn \in Requests /\ ledger[u][i].txn # t
    BY <1>1, <2>1, <2>2, EntriesTyped DEF EntriesOfCompleted
  <2> HIDE DEF t, v
  <2>6. /\ DOMAIN ledger'[v] = 1 .. n /\ ledger'[v][n].txn = t
        /\ \A i \in 1 .. n - 1 : ledger'[v][i] = ledger[v][i]
        /\ \A u \in Wallets \ {v} : ledger'[u] = ledger[u]
    BY <1>1, <2>1, <2>5, AppendProperties DEF TypeOK
  <2> HIDE DEF n
  <2>7. /\ status'[t] = "completed" /\ \A u \in Requests \ {t} : status'[u] = status[u]
        /\ req'[t].wallet = v
    BY <1>1, <2>1 DEF TypeOK, v, Wallet
  <2>8. EntriesOfCompleted'
    <3> SUFFICES ASSUME NEW u \in Wallets, NEW i \in DOMAIN ledger'[u]
                 PROVE  /\ status'[ledger'[u][i].txn] = "completed"
                        /\ req'[ledger'[u][i].txn].wallet = u
                        /\ \A j \in DOMAIN ledger'[u] : ledger'[u][j].txn = ledger'[u][i].txn => j = i
      BY DEF EntriesOfCompleted, Wallet
    <3>1. CASE u # v
      BY <1>1, <2>1, <2>5, <2>6, <2>7, <3>1 DEF EntriesOfCompleted, Wallet
    <3>2. CASE u = v
      <4>1. CASE i = n
        BY <2>5, <2>6, <2>7, <3>2, <4>1
      <4>2. CASE i # n
        <5>1. i \in DOMAIN ledger[v] /\ ledger'[v][i] = ledger[v][i]
          BY <2>5, <2>6, <3>2, <4>2
        <5>2. /\ status'[ledger[v][i].txn] = "completed" /\ req'[ledger[v][i].txn].wallet = v
          BY <1>1, <2>1, <2>5, <2>7, <5>1 DEF EntriesOfCompleted, Wallet
        <5>3. ASSUME NEW j \in DOMAIN ledger'[v], ledger'[v][j].txn = ledger[v][i].txn
              PROVE  j = i
          <6>1. j # n /\ j \in DOMAIN ledger[v] /\ ledger'[v][j] = ledger[v][j]
            BY <2>1, <2>5, <2>6, <5>1, <5>3
          <6> QED
            BY <1>1, <2>1, <5>1, <5>3, <6>1 DEF EntriesOfCompleted
        <5> QED
          BY <3>2, <5>1, <5>2, <5>3
      <4> QED
        BY <4>1, <4>2
    <3> QED
      BY <3>1, <3>2
  <2>9. CompletedHasEntry'
    <3> SUFFICES ASSUME NEW u \in Requests, status'[u] = "completed"
                 PROVE  \E i \in DOMAIN ledger'[req'[u].wallet] :
                            ledger'[req'[u].wallet][i].txn = u
      BY DEF CompletedHasEntry, Wallet
    <3>1. CASE u = t
      <4>1. n \in DOMAIN ledger'[v]
        BY <2>5, <2>6 DEF n
      <4> QED
        BY <2>6, <2>7, <3>1, <4>1
    <3>2. CASE u # t
      <4>1. PICK i \in DOMAIN ledger[req[u].wallet] : ledger[req[u].wallet][i].txn = u
        BY <1>1, <2>7, <3>2 DEF CompletedHasEntry, Wallet
      <4>2. req[u].wallet \in Wallets
        BY <1>1, <2>7, <3>2, OffersAssumption DEF Bodies
      <4>3. /\ i \in DOMAIN ledger'[req[u].wallet]
            /\ ledger'[req[u].wallet][i] = ledger[req[u].wallet][i]
        BY <2>5, <2>6, <4>1, <4>2
      <4> QED
        BY <2>1, <4>1, <4>3
    <3> QED
      BY <3>1, <3>2
  <2> QED
    BY <2>4, <2>8, <2>9 DEF Settled
<1> QED
  BY <1>3, <1>4, <1>5, <1>6 DEF WorkerStep

LEMMA StepIInv == IInv /\ [Next /\ Serial']_vars => IInv'
<1> SUFFICES ASSUME IInv, [Next /\ Serial']_vars PROVE IInv'
  OBVIOUS
<1>1. [Next]_vars
  OBVIOUS
<1>2. /\ BaseInv /\ Serial /\ Settled /\ StillPending /\ TypeOK /\ TxnOfTask /\ PaidFirst /\ Bodies
      /\ status \in [Requests -> {"absent", "pending", "completed", "failed"}]
  BY DEF IInv, SerialInv, Settled, BaseInv, TypeOK
<1>3. BaseInv'
  BY <1>1, <1>2, StepBaseInv
<1>4. ASSUME NEW r \in Requests, RequestStep(r) PROVE Settled'
  <2>1. UNCHANGED <<ledger, worker>>
    BY <1>4 DEF RequestStep, Arrive, Goto, Answers, Insert, db
  <2>2. \A t \in Requests : /\ status[t] # "absent" => req'[t] = req[t] /\ status'[t] = status[t]
                            /\ status'[t] # "pending" => status'[t] = status[t]
    <3>1. CASE \E o \in Offers : Arrive(r, o)
      <4>1. UNCHANGED status /\ \A t \in Requests \ {r} : req'[t] = req[t]
        BY <1>2, <3>1 DEF Arrive, Goto, db, TypeOK
      <4>2. status[r] = "absent"
        BY <1>2, <3>1 DEF Arrive, Goto, Bodies
      <4> QED
        BY <4>1, <4>2
    <3>2. CASE Answers(r)
      BY <3>2 DEF Answers, db
    <3>3. CASE Insert(r)
      <4>1. UNCHANGED req /\ status' = [status EXCEPT ![r] = "pending"] /\ pc[r] = "insert"
        BY <3>3 DEF Insert
      <4>2. status[r] = "absent"
        BY <1>2, <4>1 DEF Bodies
      <4> QED
        BY <1>2, <4>1, <4>2
    <3> QED
      BY <1>4, <3>1, <3>2, <3>3 DEF RequestStep
  <2>3. StillPending'
    BY <1>2, <2>1, <2>2 DEF StillPending, TxnOfTask, Ahead, Txn
  <2> QED
    BY <1>2, <2>1, <2>2, <2>3, OthersSettled DEF Settled
<1>5. ASSUME UNCHANGED <<req, status, ledger, worker>> PROVE Settled'
  <2>1. StillPending'
    BY <1>2, <1>5 DEF StillPending, Txn
  <2> QED
    BY <1>2, <1>5, <2>1, OthersSettled DEF Settled
<1>6. ASSUME NEW t \in Requests, PaystackStep(t) PROVE Settled'
  BY <1>5, <1>6 DEF PaystackStep, Pay, Deliver, Age, api, db
<1>7. UNCHANGED vars => Settled'
  BY <1>5 DEF vars, api, db
<1>8. Settled'
  BY <1>1, <1>2, <1>4, <1>6, <1>7, NextSteps, WorkerStepSettled
<1>9. Serial'
  BY <1>2 DEF Serial, vars
<1> QED
  BY <1>3, <1>8, <1>9 DEF IInv, SerialInv, Settled

(* Nothing but a row that is absent or pending gets another status. *)
LEMMA StepSettledForGood ==
    ASSUME IInv, [Next]_vars, NEW t \in Requests, status[t] \in {"completed", "failed"}
    PROVE  status'[t] = status[t]
<1>1. /\ TypeOK /\ TxnOfTask /\ PaidFirst /\ Bodies /\ StillPending
      /\ status \in [Requests -> {"absent", "pending", "completed", "failed"}]
  BY DEF IInv, BaseInv, SerialInv, TypeOK
<1>2. ASSUME NEW r \in Requests, RequestStep(r) \/ PaystackStep(r) PROVE status'[t] = status[t]
  <2>1. UNCHANGED status \/ Insert(r)
    BY <1>2 DEF RequestStep, PaystackStep, Arrive, Goto, Answers, Pay, Deliver, Age, db
  <2>2. ASSUME Insert(r) PROVE status'[t] = status[t]
    <3>1. status' = [status EXCEPT ![r] = "pending"] /\ status[r] = "absent"
      BY <1>1, <2>2 DEF Insert, Bodies
    <3> QED
      BY <1>1, <3>1
  <2> QED
    BY <2>1, <2>2
<1>3. ASSUME NEW w \in Workers, WorkerStep(w) PROVE status'[t] = status[t]
  <2>1. UNCHANGED status \/ Credit(w) \/ FailTxn(w)
    BY <1>3 DEF WorkerStep, GoesOn, Marks, Mark, LockWallet, db
  <2>2. ASSUME Credit(w) \/ FailTxn(w) PROVE status'[t] = status[t]
    <3>1. status[Txn(w)] = "pending"
      BY <1>1, <2>2 DEF StillPending, Credit, FailTxn, At
    <3>2. \E st : status' = [status EXCEPT ![Txn(w)] = st]
      BY <2>2 DEF Credit, FailTxn
    <3> QED
      BY <1>1, <3>1, <3>2
  <2> QED
    BY <2>1, <2>2
<1>4. UNCHANGED vars => UNCHANGED status
  BY DEF vars, db
<1> QED
  BY <1>1, <1>2, <1>3, <1>4, NextSteps

LEMMA EntriesAreCounted == IInv => CreditedOnce
<1> SUFFICES ASSUME IInv, NEW t \in Rows
             PROVE  Cardinality(CreditsOf(t)) = IF status[t] = "completed" THEN 1 ELSE 0
  BY DEF CreditedOnce
<1>1. TypeOK /\ Bodies /\ EntriesOfCompleted /\ CompletedHasEntry /\ t \in Requests
  BY DEF IInv, BaseInv, SerialInv, Rows
<1>2. Wallet(t) \in Wallets
  BY <1>1, OffersAssumption DEF Rows, Bodies, Wallet
<1>3. CASE status[t] = "completed"
  <2>1. PICK i \in DOMAIN ledger[Wallet(t)] : ledger[Wallet(t)][i].txn = t
    BY <1>1, <1>3 DEF CompletedHasEntry
  <2>2. CreditsOf(t) = {i}
    BY <1>1, <1>2, <2>1 DEF CreditsOf, EntriesOfCompleted
  <2>3. Cardinality({i}) = 1
    BY FS_Singleton
  <2>4. Cardinality(CreditsOf(t)) = 1
    BY <2>2, <2>3, Zenon
  <2> QED
    BY <1>3, <2>4
<1>4. CASE status[t] # "completed"
  <2>1. CreditsOf(t) = {}
    BY <1>1, <1>2, <1>4 DEF CreditsOf, EntriesOfCompleted
  <2>2. Cardinality({}) = 0
    BY FS_EmptySet
  <2>3. Cardinality(CreditsOf(t)) = 0
    BY <2>1, <2>2, Zenon
  <2> QED
    BY <1>4, <2>3
<1> QED
  BY <1>3, <1>4

-----------------------------------------------------------------------------
(* However requests, events and sweeps overlap, every state is well typed:   *)
(* a balance is a natural number, and a broker holds no more tasks than      *)
(* Paystack sent events.                                                     *)
THEOREM TypeCorrect == Spec => []TypeOK
<1>1. Init => BaseInv
  BY InitIInv DEF IInv
<1>2. BaseInv => TypeOK
  BY DEF BaseInv
<1> QED
  BY <1>1, <1>2, StepBaseInv, PTL DEF Spec

(* An idempotency key opens one payment, also when requests that send it     *)
(* overlap (wallet_funding.py 88-108 and the unique column).                 *)
THEOREM KeysOpenOnePayment == Spec => []OncePerKey
<1>1. Init => BaseInv
  BY InitIInv DEF IInv
<1>2. BaseInv => OncePerKey
  BY DEF BaseInv
<1> QED
  BY <1>1, <1>2, StepBaseInv, PTL DEF Spec

(* Entries of a wallet continue each other by what Paystack reported, and    *)
(* end in its balance, also when two tasks credit one transaction            *)
(* (paystack_webhook.py 136-152).                                            *)
THEOREM LedgerIsAChain == Spec => []LedgerChains
<1>1. Init => BaseInv
  BY InitIInv DEF IInv
<1>2. BaseInv => LedgerChains
  BY DEF BaseInv
<1> QED
  BY <1>1, <1>2, StepBaseInv, PTL DEF Spec

(* While tasks of one transaction do not overlap, what a task read of the    *)
(* row is still so when it writes, and every entry is of a COMPLETED row.    *)
THEOREM InvariantHolds == SerialSpec => []IInv
<1> QED
  BY InitIInv, StepIInv, PTL DEF SerialSpec

(* Then one key is one row, and a row that is COMPLETED is one credit that   *)
(* the next entry goes on from, however often events are delivered, retried  *)
(* and reconciled (paystack_webhook.py 95-160).                              *)
THEOREM FundingBooksBalance == SerialSpec => []BooksBalance
<1>1. IInv => BooksBalance
  BY EntriesAreCounted DEF IInv, BaseInv, BooksBalance
<1> QED
  BY <1>1, InvariantHolds, PTL

(* And what is COMPLETED or FAILED stays so (models/transaction.py 30-38).   *)
THEOREM StatusesStand == SerialSpec => SettledForGood
<1>1. IInv /\ [Next /\ Serial']_vars =>
          [\A t \in Requests :
              status[t] \in {"completed", "failed"} => status'[t] = status[t]]_vars
  BY StepSettledForGood
<1> QED
  BY <1>1, InvariantHolds, PTL DEF SerialSpec, SettledForGood
=============================================================================
