--------------------------- MODULE TransfersProofs ---------------------------
(***************************************************************************)
(* Machine-checked proofs about Transfers, for every set of wallets,       *)
(* requests and offers and every setting of the limits.                    *)
(***************************************************************************)
EXTENDS Transfers, FiniteSetTheorems, WellFoundedInduction, TLAPS

-----------------------------------------------------------------------------
(* The inductive invariant. *)

(* A handler past its balance check found its snapshot sufficient. *)
FundsChecked ==
    \A r \in Requests : pc[r] \in {"insert", "commit"} => snap[r].src >= Amount(r)

(* A handler past the self-transfer guard has two different wallets. *)
PartiesDiffer ==
    \A r \in Requests :
        pc[r] \in Working \ {"source", "destination"} => Src(r) # Dst(r)

(* A handler past a SELECT ... FOR UPDATE holds that row's lock. *)
LocksHeld ==
    \A r \in Requests :
        /\ pc[r] = "lock_second" => lock[First(r)] = r
        /\ pc[r] \in Locking => lock[First(r)] = r /\ lock[Second(r)] = r

(* A transaction is in the database from its commit on, and only then. *)
AfterCommit == {"flag", "notify", "audit"}
CommittedPhases ==
    /\ \A r \in Requests : pc[r] \in AfterCommit => r \in txns
    /\ \A r \in txns : pc[r] \in AfterCommit \cup {"done"}

(* An inserted, uncommitted row has its key to itself. *)
KeyReserved ==
    \A r \in Requests :
        pc[r] = "commit" /\ Key(r) # NoKey =>
            /\ KeyHolders(Key(r)) = {}
            /\ \A t \in Requests : pc[t] = "commit" /\ Key(t) = Key(r) => t = r

(* An answer with a transaction names a committed one with the same key. *)
AnswersCommitted ==
    \A r \in Requests : reply[r].status = "created" =>
        /\ pc[r] = "done"
        /\ reply[r].txn \in txns
        /\ Key(reply[r].txn) = Key(r)

IInv ==
    /\ TypeOK /\ FundsChecked /\ PartiesDiffer /\ LocksHeld
    /\ CommittedPhases /\ KeyReserved /\ OncePerKey /\ AnswersCommitted
    /\ LatestSnapshot

-----------------------------------------------------------------------------
(* What a step does to the part of the state that the invariant is about.   *)
(* The handler of r goes on ...                                             *)
core == <<req, snap, lock, db, reply>>

Advance(r) ==
    \E to \in Working :
        /\ \/ /\ pc[r] \in {"key", "daily", "duplicate"}
              /\ to \in {"daily", "duplicate", "lock_first"}
           \/ pc[r] = "balance" /\ to = "insert" /\ snap[r].src >= Amount(r)
           \/ /\ pc[r] = "insert" /\ to = "commit"
              /\ ~KeyPending(r) /\ KeyHolders(Key(r)) = {}
           \/ pc[r] \in {"flag", "notify"} /\ to \in {"notify", "audit"}
        /\ pc' = [pc EXCEPT ![r] = to]
        /\ UNCHANGED core

(* ... or ends without a transaction to show ... *)
Fail(r) ==
    \E status \in Statuses \ {"created"} :
        /\ InFlight(r)
        /\ Finish(r, status, NoRequest)
        /\ UNCHANGED <<req, snap, db>>

(* ... or answers with one.                                                 *)
Answer(r) ==
    \E t \in Requests :
        /\ \/ pc[r] \in {"key", "insert"} /\ t \in KeyHolders(Key(r))
           \/ pc[r] = "audit" /\ t = r
        /\ Finish(r, "created", t)
        /\ UNCHANGED <<req, snap, db>>

StepOf(r) ==
    \/ \E o \in Offers : Arrive(r, o)
    \/ LoadSource(r) \/ LoadDestination(r)
    \/ Advance(r)
    \/ LockFirst(r) \/ LockSecond(r)
    \/ Commit(r)
    \/ Fail(r) \/ Answer(r)

(* Each action of a handler is one of these steps. *)
LEMMA ServeSteps ==
    ASSUME TypeOK, NEW r \in Requests, Serve(r)
    PROVE  StepOf(r)
<1> USE DEF StepOf, core, db
<1>1. CASE LoadSource(r) \/ LoadDestination(r) \/ LockFirst(r) \/ LockSecond(r)
           \/ Commit(r)
  BY <1>1
<1>2. CASE KeyUnused(r) \/ CheckLimits(r) \/ CheckDuplicate(r)
  BY <1>2 DEF KeyUnused, CheckLimits, CheckDuplicate, Goto, Advance, Working
<1>3. CASE CheckBalance(r) \/ Insert(r)
  BY <1>3 DEF CheckBalance, Insert, Goto, Advance, Working
<1>4. CASE Flag(r) \/ Notify(r)
  BY <1>4 DEF Flag, Notify, Goto, Advance, Working
<1>5. CASE Refuse(r) \/ OverLimit(r) \/ Duplicate(r)
  BY <1>5 DEF Refuse, OverLimit, Duplicate, Reject, Fail, InFlight, Working, Statuses
<1>6. CASE InsufficientBalance(r) \/ FlagFails(r)
  BY <1>6 DEF InsufficientBalance, FlagFails, Reject, Fail, InFlight, Working, Statuses
<1>7. CASE Replay(r) \/ KeyConflict(r)
  BY <1>7 DEF Replay, KeyConflict, Answer, KeyHolders, TypeOK
<1>8. CASE Audit(r)
  BY <1>8 DEF Audit, Answer
<1> QED
  BY <1>1, <1>2, <1>3, <1>4, <1>5, <1>6, <1>7, <1>8 DEF Serve

(* Each step of the system is a handler's, an arrival, a tick, or none. *)
LEMMA NextSteps ==
    ASSUME TypeOK, [Next]_vars
    PROVE  \/ \E r \in Requests : StepOf(r)
           \/ UNCHANGED <<pc, core>>
<1>1. ASSUME NEW r \in Requests, Crash(r) PROVE Fail(r)
  BY <1>1 DEF Crash, Reject, Fail, Statuses
<1>2. Tick(Requests) \/ Served \/ UNCHANGED vars => UNCHANGED <<pc, core>>
  BY DEF Tick, Served, vars, core, db
<1> QED
  BY <1>1, <1>2, ServeSteps DEF Next, StepOf
-----------------------------------------------------------------------------
(* Type correctness. *)

(* What the fields of an arrived request are. *)
LEMMA OfferFields ==
    ASSUME TypeOK, NEW r \in Requests, pc[r] # "idle"
    PROVE  /\ req[r] \in Offers
           /\ Src(r) \in Wallets /\ Dst(r) \in Wallets
           /\ Amount(r) \in Nat /\ Amount(r) > 0
           /\ Key(r) \in Keys \cup {NoKey}
           /\ req[r].kind \in Kinds
  BY OffersAssumption DEF TypeOK, Src, Dst, Amount, Key

(* The initial state is well typed. *)
LEMMA InitTypeOK == Init => TypeOK
  BY BalanceAssumption, LimitsAssumption
  DEF Init, TypeOK, NoReply, Statuses, Tasks

(* The parts of the state that a handler's last step sets. *)
LEMMA FinishTypes ==
    ASSUME TypeOK, NEW r \in Requests, NEW status \in Statuses,
           NEW t \in Requests \cup {NoRequest}, Finish(r, status, t)
    PROVE  /\ pc' \in [Requests -> Working \cup {"idle", "done"}]
           /\ \A s \in Requests : pc'[s] # "idle" => pc[s] # "idle" \/ s = r
           /\ reply' \in [Requests -> [status : Statuses,
                                       txn : Requests \cup {NoRequest}]]
           /\ lock' \in [Wallets -> Requests \cup {NoRequest}]
  BY DEF TypeOK, Finish, Released

(* A refusal keeps the state well typed. *)
LEMMA RejectTypes ==
    ASSUME TypeOK, NEW r \in Requests, NEW status \in Statuses,
           pc[r] # "idle", Reject(r, status)
    PROVE  TypeOK'
  BY FinishTypes DEF Reject, TypeOK, db, effects

(* The parts of the state that a step which only goes on may change. *)
LEMMA GotoTypes ==
    ASSUME TypeOK, NEW r \in Requests, NEW from, NEW to \in Working,
           Goto(r, from, to), pc[r] # "idle",
           UNCHANGED <<req, snap, stamp, db, effects, reply, clock>>,
           lock' \in [Wallets -> Requests \cup {NoRequest}]
    PROVE  TypeOK'
  BY DEF Goto, TypeOK, db, effects

(* What the commit of a transaction writes. *)
LEMMA CommitTypes ==
    ASSUME TypeOK, NEW r \in Requests, pc[r] # "idle", snap[r].src >= Amount(r)
    PROVE  /\ Posted(r) \in [Wallets -> Nat]
           /\ DoubleEntry(r) \in [Wallets -> Seq(Entry)]
           /\ Released(r) \in [Wallets -> Requests \cup {NoRequest}]
<1>1. SourceAfter(r) \in Nat /\ DestinationAfter(r) \in Nat
  BY OfferFields DEF TypeOK, SourceAfter, DestinationAfter
<1>2. Posted(r) \in [Wallets -> Nat]
  BY <1>1, OfferFields DEF TypeOK, Posted
<1>3. DoubleEntry(r) \in [Wallets -> Seq(Entry)]
  <2>1. Debit(r) \in Entry /\ Credit(r) \in Entry
    BY <1>1, OfferFields DEF Entry, Debit, Credit
  <2>2. \A es \in Seq(Entry) : /\ Append(es, Debit(r)) \in Seq(Entry)
                               /\ Append(es, Credit(r)) \in Seq(Entry)
    BY <2>1
  <2> QED
    BY <2>2 DEF TypeOK, DoubleEntry
<1>4. Released(r) \in [Wallets -> Requests \cup {NoRequest}]
  BY DEF TypeOK, Released
<1> QED
  BY <1>2, <1>3, <1>4

(* Every step keeps the state well typed. *)
LEMMA StepTypeOK == TypeOK /\ FundsChecked /\ [Next]_vars => TypeOK'
<1> SUFFICES ASSUME TypeOK, FundsChecked, [Next]_vars PROVE TypeOK'
  OBVIOUS
<1>1. ASSUME NEW r \in Requests, NEW o \in Offers, Arrive(r, o) PROVE TypeOK'
  BY <1>1 DEF Arrive, Goto, TypeOK, Working, db, effects
<1>2. ASSUME NEW r \in Requests, LoadSource(r) PROVE TypeOK'
  BY <1>2, OfferFields DEF LoadSource, Goto, TypeOK, Working, db, effects
<1>3. ASSUME NEW r \in Requests, LoadDestination(r) PROVE TypeOK'
  BY <1>3, OfferFields DEF LoadDestination, Goto, TypeOK, Working, db, effects
<1>4. ASSUME NEW r \in Requests,
             Refuse(r) \/ OverLimit(r) \/ Duplicate(r) \/ InsufficientBalance(r)
               \/ FlagFails(r) \/ Crash(r)
      PROVE  TypeOK'
  <2>1. pc[r] # "idle"
    BY <1>4 DEF Refuse, OverLimit, Duplicate, InsufficientBalance, FlagFails, Crash,
                InFlight, Working
  <2>2. \E status \in Statuses : Reject(r, status)
    BY <1>4 DEF Refuse, OverLimit, Duplicate, InsufficientBalance, FlagFails, Crash,
                Statuses
  <2> QED
    BY <2>1, <2>2, RejectTypes
<1>5. ASSUME NEW r \in Requests, Replay(r) \/ KeyConflict(r) PROVE TypeOK'
  <2>1. PICK t \in Requests : Finish(r, "created", t)
    BY <1>5 DEF Replay, KeyConflict, KeyHolders, TypeOK
  <2>2. pc[r] # "idle"
    BY <1>5 DEF Replay, KeyConflict
  <2>3. UNCHANGED <<req, snap, stamp, db, effects, clock>>
    BY <1>5 DEF Replay, KeyConflict
  <2> QED
    BY <2>1, <2>2, <2>3, FinishTypes DEF TypeOK, Statuses, db, effects
<1>6. ASSUME NEW r \in Requests,
             KeyUnused(r) \/ CheckLimits(r) \/ CheckDuplicate(r) \/ CheckBalance(r)
               \/ Insert(r)
      PROVE  TypeOK'
  <2>1. \E from, to \in Working : Goto(r, from, to) /\ from # "idle"
    BY <1>6 DEF KeyUnused, CheckLimits, CheckDuplicate, CheckBalance, Insert, Goto,
                Working
  <2>2. UNCHANGED <<req, snap, stamp, lock, db, effects, reply, clock>>
    BY <1>6 DEF KeyUnused, CheckLimits, CheckDuplicate, CheckBalance, Insert
  <2> QED
    BY <2>1, <2>2, GotoTypes DEF Goto, TypeOK
<1>7. ASSUME NEW r \in Requests, LockFirst(r) \/ LockSecond(r) PROVE TypeOK'
  <2>1. ASSUME NEW w, NEW from \in Working, NEW to \in Working, Lock(r, w, from, to)
        PROVE  TypeOK'
    <3>1. lock' \in [Wallets -> Requests \cup {NoRequest}]
      BY <2>1 DEF Lock, TypeOK
    <3>2. pc[r] # "idle"
      BY <2>1 DEF Lock, Goto, Working
    <3> QED
      BY <2>1, <3>1, <3>2, GotoTypes DEF Lock
  <2> QED
    BY <1>7, <2>1 DEF LockFirst, LockSecond, Working
<1>8. ASSUME NEW r \in Requests, Commit(r) PROVE TypeOK'
  <2>1. /\ Posted(r) \in [Wallets -> Nat]
        /\ DoubleEntry(r) \in [Wallets -> Seq(Entry)]
        /\ Released(r) \in [Wallets -> Requests \cup {NoRequest}]
    BY <1>8, CommitTypes DEF Commit, Goto, FundsChecked
  <2> QED
    BY <1>8, <2>1 DEF Commit, Goto, TypeOK, Working, effects
<1>9. ASSUME NEW r \in Requests, Flag(r) PROVE TypeOK'
  BY <1>9 DEF Flag, Goto, TypeOK, Working, Tasks, db
<1>10. ASSUME NEW r \in Requests, Notify(r) PROVE TypeOK'
  BY <1>10 DEF Notify, Goto, TypeOK, Working, Tasks, db
<1>11. ASSUME NEW r \in Requests, Audit(r) PROVE TypeOK'
  <2>1. pc[r] # "idle" /\ Finish(r, "created", r)
    BY <1>11 DEF Audit
  <2> QED
    BY <1>11, <2>1, FinishTypes DEF Audit, TypeOK, Statuses, db
<1>12. CASE Tick(Requests)
  BY <1>12 DEF Tick, TypeOK, db, effects
<1>13. CASE Served \/ UNCHANGED vars
  BY <1>13 DEF Served, vars, TypeOK, db, effects
<1> QED
  BY <1>1, <1>2, <1>3, <1>4, <1>5, <1>6, <1>7, <1>8, <1>9, <1>10, <1>11, <1>12, <1>13
  DEF Next, Serve
-----------------------------------------------------------------------------
(* Each part of the invariant is preserved. *)

(* Every step preserves what the phases of a handler have in common. *)
LEMMA StepPhases ==
    TypeOK /\ FundsChecked /\ PartiesDiffer /\ CommittedPhases /\ [Next]_vars
        => FundsChecked' /\ PartiesDiffer' /\ CommittedPhases'
<1> SUFFICES ASSUME TypeOK, FundsChecked, PartiesDiffer, CommittedPhases, [Next]_vars
             PROVE  FundsChecked' /\ PartiesDiffer' /\ CommittedPhases'
  OBVIOUS
<1> USE DEF FundsChecked, PartiesDiffer, CommittedPhases, AfterCommit, Working,
            Src, Dst, Amount
<1>1. ASSUME NEW r \in Requests, NEW o \in Offers, Arrive(r, o)
      PROVE  FundsChecked' /\ PartiesDiffer' /\ CommittedPhases'
  BY <1>1 DEF Arrive, Goto, TypeOK, db
<1>2. ASSUME NEW r \in Requests, LoadSource(r) \/ LoadDestination(r)
      PROVE  FundsChecked' /\ PartiesDiffer' /\ CommittedPhases'
  <2>1. PICK to \in {"destination", "key"} :
            /\ pc[r] \in {"source", "destination"} /\ (to = "key" => Src(r) # Dst(r))
            /\ pc' = [pc EXCEPT ![r] = to] /\ UNCHANGED <<req, txns>>
            /\ \A s \in Requests : s # r => snap'[s] = snap[s]
    BY <1>2 DEF LoadSource, LoadDestination, DestinationRefused, Goto, TypeOK, db
  <2>2. FundsChecked' /\ PartiesDiffer'
    BY <2>1 DEF TypeOK
  <2>3. CommittedPhases'
    BY <2>1 DEF TypeOK
  <2> QED
    BY <2>2, <2>3
<1>3. ASSUME NEW r \in Requests, Advance(r)
      PROVE  FundsChecked' /\ PartiesDiffer' /\ CommittedPhases'
  <2>1. PICK to \in Working :
            /\ to \in {"insert", "commit"} =>
                  pc[r] = "insert" \/ snap[r].src >= Amount(r)
            /\ pc[r] \in Working \ {"source", "destination"}
            /\ to \in AfterCommit => pc[r] \in AfterCommit
            /\ pc[r] \in AfterCommit => to \in AfterCommit
            /\ pc' = [pc EXCEPT ![r] = to] /\ UNCHANGED <<req, snap, txns>>
    BY <1>3 DEF Advance, core, db
  <2>2. FundsChecked' /\ PartiesDiffer'
    BY <2>1 DEF TypeOK
  <2>3. CommittedPhases'
    BY <2>1 DEF TypeOK
  <2> QED
    BY <2>2, <2>3
<1>4. ASSUME NEW r \in Requests, LockFirst(r) \/ LockSecond(r)
      PROVE  FundsChecked' /\ PartiesDiffer' /\ CommittedPhases'
  BY <1>4 DEF LockFirst, LockSecond, Lock, Goto, TypeOK, db
<1>5. ASSUME NEW r \in Requests, Commit(r)
      PROVE  FundsChecked' /\ PartiesDiffer' /\ CommittedPhases'
  BY <1>5 DEF Commit, Goto, TypeOK
<1>6. ASSUME NEW r \in Requests, Fail(r) \/ Answer(r)
      PROVE  FundsChecked' /\ PartiesDiffer' /\ CommittedPhases'
  <2>1. /\ InFlight(r) /\ pc' = [pc EXCEPT ![r] = "done"]
        /\ UNCHANGED <<req, snap, txns>>
    BY <1>6 DEF Fail, Answer, InFlight, Finish, db
  <2>2. FundsChecked' /\ PartiesDiffer'
    BY <2>1 DEF TypeOK
  <2>3. CommittedPhases'
    BY <2>1 DEF TypeOK, InFlight
  <2> QED
    BY <2>2, <2>3
<1>7. CASE UNCHANGED <<pc, core>>
  BY <1>7 DEF core, db
<1> QED
  BY <1>1, <1>2, <1>3, <1>4, <1>5, <1>6, <1>7, NextSteps DEF StepOf

(* Row locks are only ever taken free and given up by their holder. *)
LEMMA StepLocksHeld ==
    TypeOK /\ PartiesDiffer /\ LocksHeld /\ [Next]_vars => LocksHeld'
<1> SUFFICES ASSUME TypeOK, PartiesDiffer, LocksHeld, [Next]_vars
             PROVE  LocksHeld'
  OBVIOUS
<1> USE DEF LocksHeld, Locking, First, Second, Src, Dst
<1>1. ASSUME NEW r \in Requests, NEW o \in Offers, Arrive(r, o) PROVE LocksHeld'
  BY <1>1 DEF Arrive, Goto, TypeOK
<1>2. ASSUME NEW r \in Requests, LoadSource(r) \/ LoadDestination(r) PROVE LocksHeld'
  BY <1>2 DEF LoadSource, LoadDestination, Goto, TypeOK
<1>3. ASSUME NEW r \in Requests, Advance(r) PROVE LocksHeld'
  BY <1>3 DEF Advance, core, TypeOK, Working
<1>4. ASSUME NEW r \in Requests, LockFirst(r) PROVE LocksHeld'
  <2>1. /\ pc[r] = "lock_first" /\ pc' = [pc EXCEPT ![r] = "lock_second"]
        /\ lock[First(r)] = NoRequest /\ lock' = [lock EXCEPT ![First(r)] = r] /\ req' = req
    BY <1>4 DEF LockFirst, Lock, Goto
  <2>2. First(r) \in Wallets /\ r # NoRequest
    BY <2>1, OfferFields, RequestsAssumption
  <2>3. \A s \in Requests, w \in Wallets : lock[w] = s => lock'[w] = s
    BY <2>1, <2>2, RequestsAssumption DEF TypeOK
  <2>4. \A s \in Requests : pc[s] # "idle" => First(s) \in Wallets /\ Second(s) \in Wallets
    BY OfferFields
  <2>5. lock'[First(r)] = r
    BY <2>1, <2>2 DEF TypeOK
  <2>6. \A s \in Requests : First(s)' = First(s) /\ Second(s)' = Second(s)
    BY <2>1
  <2> HIDE DEF First, Second
  <2>7. ASSUME NEW s \in Requests
        PROVE  /\ pc'[s] = "lock_second" => lock'[First(s)] = s
               /\ pc'[s] \in Locking => lock'[First(s)] = s /\ lock'[Second(s)] = s
    BY <2>1, <2>3, <2>4, <2>5 DEF TypeOK
  <2> QED
    BY <2>6, <2>7
<1>5. ASSUME NEW r \in Requests, LockSecond(r) PROVE LocksHeld'
  <2>1. /\ pc[r] = "lock_second" /\ lock[Second(r)] = NoRequest
        /\ pc' = [pc EXCEPT ![r] = "balance"]
        /\ lock' = [lock EXCEPT ![Second(r)] = r]
        /\ req' = req
    BY <1>5 DEF LockSecond, Lock, Goto
  <2>2. First(r) \in Wallets /\ Second(r) \in Wallets /\ First(r) # Second(r)
    BY <2>1, OfferFields DEF PartiesDiffer, Working
  <2>3. lock'[First(r)] = r /\ lock'[Second(r)] = r
    BY <2>1, <2>2 DEF TypeOK
  <2>4. ASSUME NEW s \in Requests, s # r, NEW w \in Wallets, lock[w] = s
        PROVE  lock'[w] = s
    BY <2>1, <2>4, RequestsAssumption DEF TypeOK
  <2>5. ASSUME NEW s \in Requests, pc[s] # "idle"
        PROVE  First(s) \in Wallets /\ Second(s) \in Wallets
    BY <2>5, OfferFields
  <2>6. \A s \in Requests : First(s)' = First(s) /\ Second(s)' = Second(s)
    BY <2>1
  <2> HIDE DEF First, Second
  <2>7. ASSUME NEW s \in Requests
        PROVE  /\ pc'[s] = "lock_second" => lock'[First(s)] = s
               /\ pc'[s] \in Locking => lock'[First(s)] = s /\ lock'[Second(s)] = s
    BY <2>1, <2>3, <2>4, <2>5 DEF TypeOK
  <2> QED
    BY <2>6, <2>7
<1>6. ASSUME NEW r \in Requests, Commit(r) \/ Fail(r) \/ Answer(r) PROVE LocksHeld'
  <2>1. PICK to \in {"flag", "done"} :
            pc' = [pc EXCEPT ![r] = to] /\ lock' = Released(r) /\ req' = req
    BY <1>6 DEF Commit, Goto, Fail, Answer, Finish
  <2>2. ASSUME NEW s \in Requests, s # r, NEW w \in Wallets, lock[w] = s
        PROVE  lock'[w] = s
    BY <2>1, <2>2 DEF Released
  <2>3. ASSUME NEW s \in Requests, pc[s] # "idle"
        PROVE  First(s) \in Wallets /\ Second(s) \in Wallets
    BY <2>3, OfferFields
  <2>4. \A s \in Requests : First(s)' = First(s) /\ Second(s)' = Second(s)
    BY <2>1
  <2> HIDE DEF First, Second
  <2>5. ASSUME NEW s \in Requests
        PROVE  /\ pc'[s] = "lock_second" => lock'[First(s)] = s
               /\ pc'[s] \in Locking => lock'[First(s)] = s /\ lock'[Second(s)] = s
    BY <2>1, <2>2, <2>3 DEF TypeOK
  <2> QED
    BY <2>4, <2>5
<1>7. CASE UNCHANGED <<pc, core>>
  BY <1>7 DEF core
<1> QED
  BY <1>1, <1>2, <1>3, <1>4, <1>5, <1>6, <1>7, NextSteps DEF StepOf

(* Mutual exclusion follows from the locks alone. *)
LEMMA LocksExclude ==
    ASSUME TypeOK, PartiesDiffer, LocksHeld PROVE MutualExclusion
<1>1. ASSUME NEW r \in Requests, pc[r] \in Locking, NEW w \in Parties(r)
      PROVE  lock[w] = r
  BY <1>1 DEF LocksHeld, Parties, First, Second
<1> QED
  BY <1>1 DEF MutualExclusion

(* Keys: what the unique column and the wait for it achieve. *)
LEMMA StepKeys ==
    TypeOK /\ CommittedPhases /\ KeyReserved /\ OncePerKey /\ AnswersCommitted /\ [Next]_vars
        => KeyReserved' /\ OncePerKey' /\ AnswersCommitted'
<1> SUFFICES ASSUME TypeOK, CommittedPhases, KeyReserved, OncePerKey, AnswersCommitted,
                    [Next]_vars
             PROVE  KeyReserved' /\ OncePerKey' /\ AnswersCommitted'
  OBVIOUS
<1> USE DEF KeyReserved, OncePerKey, AnswersCommitted, KeyHolders
<1>1. ASSUME NEW r \in Requests, NEW o \in Offers, Arrive(r, o)
      PROVE  KeyReserved' /\ OncePerKey' /\ AnswersCommitted'
  <2>1. /\ pc[r] = "idle" /\ pc' = [pc EXCEPT ![r] = "source"]
        /\ \A s \in Requests \ {r} : Key(s)' = Key(s)
        /\ UNCHANGED <<txns, reply>>
    BY <1>1 DEF Arrive, Goto, TypeOK, db, Key
  <2>2. r \notin txns
    BY <2>1 DEF CommittedPhases, AfterCommit
  <2> QED
    BY <2>1, <2>2 DEF TypeOK
<1>2. ASSUME NEW r \in Requests, LoadSource(r) \/ LoadDestination(r)
               \/ LockFirst(r) \/ LockSecond(r)
      PROVE  KeyReserved' /\ OncePerKey' /\ AnswersCommitted'
  <2>1. PICK to \in {"destination", "key", "lock_second", "balance"} :
            pc' = [pc EXCEPT ![r] = to] /\ UNCHANGED <<req, txns, reply>>
    BY <1>2 DEF LoadSource, LoadDestination, LockFirst, LockSecond, Lock, Goto, db
  <2>2. pc[r] # "done"
    BY <1>2 DEF LoadSource, LoadDestination, LockFirst, LockSecond, Lock, Goto
  <2> QED
    BY <2>1, <2>2 DEF TypeOK, Key
<1>3. ASSUME NEW r \in Requests, Advance(r)
      PROVE  KeyReserved' /\ OncePerKey' /\ AnswersCommitted'
  BY <1>3 DEF Advance, KeyPending, core, TypeOK, db, Key
<1>4. ASSUME NEW r \in Requests, Commit(r)
      PROVE  KeyReserved' /\ OncePerKey' /\ AnswersCommitted'
  BY <1>4 DEF Commit, Goto, TypeOK, Key
<1>5. ASSUME NEW r \in Requests, Fail(r)
      PROVE  KeyReserved' /\ OncePerKey' /\ AnswersCommitted'
  BY <1>5 DEF Fail, Finish, InFlight, TypeOK, db, Key
<1>6. ASSUME NEW r \in Requests, Answer(r)
      PROVE  KeyReserved' /\ OncePerKey' /\ AnswersCommitted'
  BY <1>6 DEF Answer, Finish, CommittedPhases, AfterCommit, TypeOK, db, Key
<1>7. CASE UNCHANGED <<pc, core>>
  BY <1>7 DEF core, db, Key
<1> QED
  BY <1>1, <1>2, <1>3, <1>4, <1>5, <1>6, <1>7, NextSteps DEF StepOf

(* Balance and newest ledger entry are written together. *)
LEMMA CommitLatest ==
    ASSUME TypeOK, PartiesDiffer, LatestSnapshot, FundsChecked,
           NEW r \in Requests, Commit(r)
    PROVE  LatestSnapshot'
<1>1. pc[r] = "commit" /\ balance' = Posted(r) /\ ledger' = DoubleEntry(r)
  BY DEF Commit, Goto
<1>2. Src(r) \in Wallets /\ Dst(r) \in Wallets /\ Src(r) # Dst(r)
  BY <1>1, OfferFields DEF PartiesDiffer, Working
<1> SUFFICES ASSUME NEW w \in Wallets
             PROVE  balance'[w] = BalanceAfter(w, Len(ledger[w]))'
  BY DEF LatestSnapshot
<1>3. ledger[w] \in Seq(Entry)
  BY DEF TypeOK
<1>4. CASE w = Src(r)
  <2>1. ledger'[w] = Append(ledger[w], Debit(r)) /\ balance'[w] = SourceAfter(r)
    BY <1>1, <1>2, <1>4 DEF DoubleEntry, Posted, TypeOK
  <2>2. Len(ledger'[w]) # 0 /\ ledger'[w][Len(ledger'[w])] = Debit(r)
    BY <1>3, <2>1
  <2> QED
    BY <2>1, <2>2 DEF BalanceAfter, Debit
<1>5. CASE w = Dst(r)
  <2>1. ledger'[w] = Append(ledger[w], Credit(r)) /\ balance'[w] = DestinationAfter(r)
    BY <1>1, <1>2, <1>5 DEF DoubleEntry, Posted, TypeOK
  <2>2. Len(ledger'[w]) # 0 /\ ledger'[w][Len(ledger'[w])] = Credit(r)
    BY <1>3, <2>1
  <2> QED
    BY <2>1, <2>2 DEF BalanceAfter, Credit
<1>6. CASE w \notin {Src(r), Dst(r)}
  BY <1>1, <1>2, <1>6 DEF DoubleEntry, Posted, TypeOK, LatestSnapshot, BalanceAfter
<1> QED
  BY <1>4, <1>5, <1>6

(* Every step preserves the tie of balance and ledger. *)
LEMMA StepLatestSnapshot ==
    TypeOK /\ PartiesDiffer /\ FundsChecked /\ LatestSnapshot /\ [Next]_vars
        => LatestSnapshot'
<1> SUFFICES ASSUME TypeOK, PartiesDiffer, FundsChecked, LatestSnapshot, [Next]_vars,
                    ~(\E r \in Requests : Commit(r))
             PROVE  LatestSnapshot'
  BY CommitLatest
<1>1. UNCHANGED <<balance, ledger>>
  BY NextSteps DEF StepOf, Arrive, LoadSource, LoadDestination, Advance, LockFirst,
                   LockSecond, Lock, Fail, Answer, core, db
<1> QED
  BY <1>1 DEF LatestSnapshot, BalanceAfter

(* The initial state satisfies the invariant. *)
LEMMA InitIInv == Init => IInv
<1> SUFFICES ASSUME Init PROVE IInv
  OBVIOUS
<1>1. TypeOK
  BY InitTypeOK
<1>2. FundsChecked /\ PartiesDiffer /\ LocksHeld /\ CommittedPhases
  BY DEF Init, FundsChecked, PartiesDiffer, LocksHeld, Locking, CommittedPhases,
         AfterCommit, Working
<1>3. KeyReserved /\ OncePerKey /\ AnswersCommitted
  BY DEF Init, KeyReserved, OncePerKey, AnswersCommitted, NoReply
<1>4. LatestSnapshot
  BY DEF Init, LatestSnapshot, BalanceAfter
<1> QED
  BY <1>1, <1>2, <1>3, <1>4 DEF IInv

(* Every step preserves the invariant. *)
LEMMA StepIInv == IInv /\ [Next]_vars => IInv'
  BY StepTypeOK, StepPhases, StepLocksHeld, StepKeys, StepLatestSnapshot DEF IInv

(***************************************************************************)
(* The theorems: what the runs check on small instances, for every value   *)
(* of the constants.                                                       *)
(***************************************************************************)

(* Every state that initiate_transfer and initiate_payment reach, however    *)
(* requests overlap, conflict on a key or die, satisfies the inductive      *)
(* invariant: what each guard established still holds at the commit.        *)
THEOREM Invariance == Spec => []IInv
  BY InitIInv, StepIInv, PTL DEF Spec

(* Every state the handlers reach is well typed; balances are never         *)
(* negative, so the database's CHECK (balance >= 0) never fires.            *)
THEOREM TypeCorrect == Spec => []TypeOK
<1>1. IInv => TypeOK
  BY DEF IInv
<1> QED
  BY <1>1, Invariance, PTL

(* Handlers between lock_for_update and commit work on disjoint wallets     *)
(* (transfer.py 103-117).                                                   *)
THEOREM Exclusive == Spec => []MutualExclusion
<1>1. IInv => MutualExclusion
  BY LocksExclude DEF IInv
<1> QED
  BY <1>1, Invariance, PTL

(* An idempotency key moves money at most once: the pre-check, the unique   *)
(* column and the IntegrityError path (transfer.py 89-169).                 *)
THEOREM KeysMoveMoneyOnce == Spec => []OncePerKey
<1>1. IInv => OncePerKey
  BY DEF IInv
<1> QED
  BY <1>1, Invariance, PTL

(* All the 201s given for a key name one committed transaction, whether the *)
(* handler inserted it, replayed it or lost the race for the unique key.    *)
THEOREM RepliesAreIdempotent == Spec => []IdempotentReplies
<1>1. IInv => IdempotentReplies
  BY DEF IInv, OncePerKey, AnswersCommitted, IdempotentReplies
<1> QED
  BY <1>1, Invariance, PTL

(* A wallet's balance is the balance_after of its newest ledger entry: the  *)
(* commit writes both from one snapshot, under the row locks.               *)
THEOREM BalanceIsLatestSnapshot == Spec => []LatestSnapshot
<1>1. IInv => LatestSnapshot
  BY DEF IInv
<1> QED
  BY <1>1, Invariance, PTL
-----------------------------------------------------------------------------
(* Under IsolatedSpec nobody commits to a wallet between another handler's  *)
(* load and its commit, so a snapshot is the balance when it is used.       *)
Loaded == {"destination", "key", "daily", "duplicate", "lock_first", "lock_second",
           "balance", "insert", "commit"}
Fresh ==
    \A r \in Requests :
        /\ pc[r] \in Loaded => snap[r].src = balance[Src(r)]
        /\ pc[r] \in Loaded \ {"destination"} => snap[r].dst = balance[Dst(r)]

(* Handlers that are in flight together share no wallet. *)
Isolated ==
    \A r, s \in Requests :
        r # s /\ InFlight(r) /\ InFlight(s) => Parties(r) \cap Parties(s) = {}

IsolatedInv == IInv /\ Isolated /\ Fresh /\ LedgerChains

(* Only a commit changes balances and ledgers. *)
LEMMA OnlyCommitWrites ==
    ASSUME TypeOK, [Next]_vars, ~(\E r \in Requests : Commit(r))
    PROVE  UNCHANGED <<balance, ledger, txns>>
  BY NextSteps DEF StepOf, Arrive, LoadSource, LoadDestination, Advance, LockFirst,
                   LockSecond, Lock, Fail, Answer, core, db

(* Without disturbance every step keeps the snapshots fresh. *)
LEMMA StepFresh ==
    TypeOK /\ PartiesDiffer /\ Isolated /\ Fresh /\ [Next]_vars => Fresh'
<1> SUFFICES ASSUME TypeOK, PartiesDiffer, Isolated, Fresh, [Next]_vars PROVE Fresh'
  OBVIOUS
<1> USE DEF Fresh, Loaded, Src, Dst
<1>1. ASSUME NEW r \in Requests, NEW o \in Offers, Arrive(r, o) PROVE Fresh'
  BY <1>1 DEF Arrive, Goto, TypeOK, db
<1>2. ASSUME NEW r \in Requests, LoadSource(r) PROVE Fresh'
  BY <1>2 DEF LoadSource, Goto, TypeOK, db
<1>3. ASSUME NEW r \in Requests, LoadDestination(r) PROVE Fresh'
  BY <1>3 DEF LoadDestination, Goto, TypeOK, db
<1>4. ASSUME NEW r \in Requests, Advance(r) PROVE Fresh'
  BY <1>4 DEF Advance, core, TypeOK, Working, db
<1>5. ASSUME NEW r \in Requests, LockFirst(r) \/ LockSecond(r) PROVE Fresh'
  BY <1>5 DEF LockFirst, LockSecond, Lock, Goto, TypeOK, db
<1>6. ASSUME NEW r \in Requests, Commit(r) PROVE Fresh'
  <2>1. /\ pc[r] = "commit" /\ pc' = [pc EXCEPT ![r] = "flag"]
        /\ balance' = Posted(r) /\ UNCHANGED <<req, snap>>
    BY <1>6 DEF Commit, Goto
  <2>2. ASSUME NEW w \in Wallets \ Parties(r) PROVE balance'[w] = balance[w]
    BY <2>1, <2>2 DEF Posted, Parties, TypeOK
  <2>3. ASSUME NEW s \in Requests, s # r, pc[s] \in Loaded
        PROVE  Src(s) \in Wallets \ Parties(r) /\ Dst(s) \in Wallets \ Parties(r)
    BY <2>1, <2>3, OfferFields DEF Isolated, InFlight, Working, Parties
  <2> QED
    BY <2>1, <2>2, <2>3 DEF TypeOK
<1>7. ASSUME NEW r \in Requests, Fail(r) \/ Answer(r) PROVE Fresh'
  <2>1. pc' = [pc EXCEPT ![r] = "done"] /\ UNCHANGED <<req, snap, balance>>
    BY <1>7 DEF Fail, Answer, Finish, db
  <2> QED
    BY <2>1 DEF TypeOK
<1>8. CASE UNCHANGED <<pc, core>>
  BY <1>8 DEF core, db
<1> QED
  BY <1>1, <1>2, <1>3, <1>4, <1>5, <1>6, <1>7, <1>8, NextSteps DEF StepOf

(* A chain of ledger entries stays one when an entry that continues the     *)
(* balance of its last one is appended.                                     *)
LEMMA CommitChains ==
    ASSUME IInv, Fresh, LedgerChains, NEW r \in Requests, Commit(r)
    PROVE  LedgerChains'
<1> USE DEF IInv
<1>1. pc[r] = "commit" /\ ledger' = DoubleEntry(r)
  BY DEF Commit, Goto
<1>2. /\ Src(r) \in Wallets /\ Dst(r) \in Wallets /\ Src(r) # Dst(r)
      /\ Amount(r) \in Nat
  BY <1>1, OfferFields DEF PartiesDiffer, Working
<1>3. snap[r].src = balance[Src(r)] /\ snap[r].dst = balance[Dst(r)]
  BY <1>1 DEF Fresh, Loaded
<1> SUFFICES ASSUME NEW w \in Wallets
             PROVE  \A i \in 1 .. Len(ledger'[w]) :
                        ledger'[w][i].after =
                          BalanceAfter(w, i - 1)' + Change(ledger'[w][i])
  BY DEF LedgerChains
<1>4. ledger[w] \in Seq(Entry) /\ balance[w] = BalanceAfter(w, Len(ledger[w]))
  BY DEF TypeOK, LatestSnapshot
<1>5. ASSUME NEW e \in Entry, ledger'[w] = Append(ledger[w], e),
             e.after = balance[w] + Change(e)
      PROVE  \A i \in 1 .. Len(ledger'[w]) :
                 ledger'[w][i].after =
                   BalanceAfter(w, i - 1)' + Change(ledger'[w][i])
  <2>1. PICK n \in Nat :
            /\ n = Len(ledger[w]) /\ Len(ledger'[w]) = n + 1
            /\ ledger'[w][n + 1] = e
            /\ \A i \in 1 .. n : ledger'[w][i] = ledger[w][i]
    BY <1>4, <1>5
  <2>2. \A i \in 0 .. n : BalanceAfter(w, i)' = BalanceAfter(w, i)
    BY <2>1 DEF BalanceAfter
  <2>3. ASSUME NEW i \in 1 .. n
        PROVE  ledger'[w][i].after = BalanceAfter(w, i - 1)' + Change(ledger'[w][i])
    <3>1. i - 1 \in 0 .. n
      OBVIOUS
    <3> QED
      BY <2>1, <2>2, <3>1 DEF LedgerChains
  <2>4. BalanceAfter(w, n)' = balance[w]
    BY <1>4, <2>1, <2>2
  <2>5. ledger'[w][n + 1].after = BalanceAfter(w, (n + 1) - 1)' + Change(ledger'[w][n + 1])
    BY <1>5, <2>1, <2>4
  <2> QED
    BY <2>1, <2>3, <2>5
<1>6. CASE w = Src(r)
  <2>1. Debit(r) \in Entry
    BY <1>1, <1>2 DEF FundsChecked, SourceAfter, Debit, Entry, TypeOK
  <2>2. Debit(r).after = balance[w] + Change(Debit(r))
    BY <1>2, <1>3, <1>6 DEF Debit, Change, SourceAfter, TypeOK
  <2>3. ledger'[w] = Append(ledger[w], Debit(r))
    BY <1>1, <1>2, <1>6 DEF DoubleEntry
  <2> QED
    BY <1>5, <2>1, <2>2, <2>3
<1>7. CASE w = Dst(r)
  <2>1. Credit(r) \in Entry
    BY <1>1, <1>2 DEF DestinationAfter, Credit, Entry, TypeOK
  <2>2. Credit(r).after = balance[w] + Change(Credit(r))
    BY <1>3, <1>7 DEF Credit, Change, DestinationAfter
  <2>3. ledger'[w] = Append(ledger[w], Credit(r))
    BY <1>1, <1>2, <1>7 DEF DoubleEntry
  <2> QED
    BY <1>5, <2>1, <2>2, <2>3
<1>8. CASE w \notin {Src(r), Dst(r)}
  <2>1. ledger'[w] = ledger[w]
    BY <1>1, <1>8 DEF DoubleEntry
  <2> QED
    BY <2>1 DEF LedgerChains, BalanceAfter
<1> QED
  BY <1>6, <1>7, <1>8

(* Only a handler in flight is served. *)
LEMMA ServedIsInFlight ==
    ASSUME NEW r \in Requests, Serve(r)
    PROVE  InFlight(r)
<1> USE DEF InFlight, Working, Goto
<1>1. CASE LoadSource(r) \/ LoadDestination(r) \/ Refuse(r) \/ Replay(r) \/ KeyUnused(r)
  BY <1>1 DEF LoadSource, LoadDestination, Refuse, Replay, KeyUnused
<1>2. CASE CheckLimits(r) \/ OverLimit(r) \/ CheckDuplicate(r) \/ Duplicate(r)
  BY <1>2 DEF CheckLimits, OverLimit, CheckDuplicate, Duplicate
<1>3. CASE LockFirst(r) \/ LockSecond(r) \/ CheckBalance(r) \/ InsufficientBalance(r)
  BY <1>3 DEF LockFirst, LockSecond, Lock, CheckBalance, InsufficientBalance
<1>4. CASE Insert(r) \/ KeyConflict(r) \/ Commit(r)
  BY <1>4 DEF Insert, KeyConflict, Commit
<1>5. CASE Flag(r) \/ FlagFails(r) \/ Notify(r) \/ Audit(r)
  BY <1>5 DEF Flag, FlagFails, Notify, Audit
<1> QED
  BY <1>1, <1>2, <1>3, <1>4, <1>5 DEF Serve

(* A handler that is served or ends keeps its body and begins no other. *)
LEMMA ServeStarts ==
    ASSUME TypeOK, NEW r \in Requests, Serve(r) \/ Crash(r)
    PROVE  /\ req' = req
           /\ \A s \in Requests : InFlight(s)' => InFlight(s)
<1>1. InFlight(r)
  BY ServedIsInFlight DEF Crash
<1>2. /\ req' = req
      /\ \E to : pc' = [pc EXCEPT ![r] = to]
  <2>1. CASE Serve(r)
    <3>1. StepOf(r) /\ pc[r] # "idle"
      BY <1>1, <2>1, ServeSteps DEF InFlight, Working
    <3> QED
      BY <3>1 DEF StepOf, Arrive, LoadSource, LoadDestination, Advance, LockFirst,
                  LockSecond, Lock, Commit, Fail, Answer, Finish, Goto, core
  <2>2. CASE Crash(r)
    BY <2>2 DEF Crash, Reject, Finish
  <2> QED
    BY <2>1, <2>2
<1> QED
  BY <1>1, <1>2 DEF InFlight, TypeOK

(* The isolated load allows some of the steps, and keeps requests isolated. *)
LEMMA IsolatedSteps ==
    ASSUME TypeOK, Isolated, [IsolatedNext]_vars
    PROVE  [Next]_vars /\ Isolated'
<1> USE DEF Isolated, Parties, Src, Dst
<1>1. [Next]_vars
  BY DEF IsolatedNext, Next, ArriveAlone, Tick
<1>2. ASSUME NEW r \in Requests, NEW o \in Offers, ArriveAlone(r, o) PROVE Isolated'
  <2>1. /\ req' = [req EXCEPT ![r] = o] /\ pc' = [pc EXCEPT ![r] = "source"]
        /\ \A s \in Requests : InFlight(s) => Parties(s) \cap {o.src, o.dst} = {}
    BY <1>2 DEF ArriveAlone, Arrive, Goto
  <2> QED
    BY <2>1 DEF InFlight, TypeOK
<1>3. ASSUME NEW r \in Requests, Serve(r) \/ Crash(r) PROVE Isolated'
  BY <1>3, ServeStarts
<1>4. CASE Tick({}) \/ Served \/ UNCHANGED vars
  <2>1. UNCHANGED <<pc, req>>
    BY <1>4 DEF Tick, Served, vars
  <2> QED
    BY <1>1, <2>1 DEF InFlight
<1> QED
  BY <1>1, <1>2, <1>3, <1>4 DEF IsolatedNext

(* Each of those steps preserves the invariant of isolated requests. *)
LEMMA StepIsolatedInv == IsolatedInv /\ [IsolatedNext]_vars => IsolatedInv'
<1> SUFFICES ASSUME IsolatedInv, [IsolatedNext]_vars PROVE IsolatedInv'
  OBVIOUS
<1>1. [Next]_vars /\ Isolated'
  BY IsolatedSteps DEF IsolatedInv, IInv
<1>2. IInv'
  BY <1>1, StepIInv DEF IsolatedInv
<1>4. Fresh'
  BY <1>1, StepFresh DEF IsolatedInv, IInv
<1>5. LedgerChains'
  <2>1. CASE \E r \in Requests : Commit(r)
    BY <2>1, CommitChains DEF IsolatedInv
  <2>2. CASE ~(\E r \in Requests : Commit(r))
    <3>1. ledger' = ledger
      BY <1>1, <2>2, OnlyCommitWrites DEF IsolatedInv, IInv
    <3> QED
      BY <3>1 DEF IsolatedInv, LedgerChains, BalanceAfter
  <2> QED
    BY <2>1, <2>2
<1> QED
  BY <1>1, <1>2, <1>4, <1>5 DEF IsolatedInv

(* It holds at the start. *)
LEMMA InitIsolatedInv == Init => IsolatedInv
<1> SUFFICES ASSUME Init PROVE IsolatedInv
  OBVIOUS
<1>1. Isolated /\ Fresh
  BY DEF Init, Isolated, InFlight, Fresh, Loaded, Working
<1>2. LedgerChains
  BY DEF Init, LedgerChains
<1> QED
  BY <1>1, <1>2, InitIInv DEF IsolatedInv

(* While requests that overlap share no wallet, the balances a handler      *)
(* loaded with get_by_user_id are the committed ones up to its commit.      *)
THEOREM IsolatedInvariance == IsolatedSpec => []IsolatedInv
  BY InitIsolatedInv, StepIsolatedInv, PTL DEF IsolatedSpec

(* Then each entry that post_double_entry writes continues the balance that *)
(* the wallet's previous entry left: no update is lost.                     *)
THEOREM LedgerIsAChain == IsolatedSpec => []LedgerChains
<1>1. IsolatedInv => LedgerChains
  BY DEF IsolatedInv
<1> QED
  BY <1>1, IsolatedInvariance, PTL
-----------------------------------------------------------------------------
(* The refinement: a commit is a Post of the abstract ledger ...            *)
journal == {[id |-> t, offer |-> req[t]] : t \in txns}

(* A commit is a Post with the request as its identity. *)
LEMMA CommitPosts ==
    ASSUME IsolatedInv, NEW r \in Requests, Commit(r),
           NEW o \in Offers, req[r] = o
    PROVE  Abstract!Post(r, o)
<1> USE DEF IsolatedInv, IInv
<1>1. /\ pc[r] = "commit" /\ balance' = Posted(r) /\ txns' = txns \cup {r}
      /\ req' = req
  BY DEF Commit, Goto
<1>2. /\ Src(r) \in Wallets /\ Dst(r) \in Wallets /\ Src(r) # Dst(r)
      /\ Amount(r) \in Nat
  BY <1>1, OfferFields DEF PartiesDiffer, Working
<1>3. snap[r].src = balance[Src(r)] /\ snap[r].dst = balance[Dst(r)]
  BY <1>1 DEF Fresh, Loaded
<1>4. \A j \in journal : j.id # r
  BY <1>1 DEF journal, CommittedPhases, AfterCommit
<1>5. o.key # NoKey => \A j \in journal : j.offer.key # o.key
  BY <1>1 DEF journal, KeyReserved, KeyHolders, Key
<1>6. o.amount <= balance[o.src]
  BY <1>1, <1>2, <1>3 DEF FundsChecked, Src, Amount, TypeOK
<1>7. balance' = [balance EXCEPT ![o.src] = balance[o.src] - o.amount,
                                 ![o.dst] = balance[o.dst] + o.amount]
  BY <1>1, <1>3 DEF Posted, SourceAfter, DestinationAfter, Src, Dst, Amount
<1>8. journal' = journal \cup {[id |-> r, offer |-> o]}
  BY <1>1 DEF journal
<1> QED
  BY <1>2, <1>4, <1>5, <1>6, <1>7, <1>8
  DEF Abstract!Post, Abstract!Unused, journal, Src, Dst

(* ... and every other step leaves the abstract ledger as it is.            *)
LEMMA OtherStepsStutter ==
    ASSUME IsolatedInv, [Next]_vars, ~(\E r \in Requests : Commit(r))
    PROVE  UNCHANGED Abstract!vars
<1> USE DEF IsolatedInv, IInv
<1>1. UNCHANGED <<balance, txns>>
  BY OnlyCommitWrites
<1>2. \A t \in txns : pc[t] # "idle"
  BY DEF CommittedPhases, AfterCommit
<1>3. \A t \in txns : req'[t] = req[t]
  <2>1. ASSUME NEW r \in Requests, NEW o \in Offers, Arrive(r, o)
        PROVE  \A t \in txns : req'[t] = req[t]
    BY <1>2, <2>1 DEF Arrive, Goto, TypeOK
  <2>2. ASSUME NEW r \in Requests, StepOf(r), ~(\E o \in Offers : Arrive(r, o))
        PROVE  req' = req
    BY <2>2 DEF StepOf, LoadSource, LoadDestination, Advance, LockFirst, LockSecond,
                Lock, Commit, Fail, Answer, core
  <2> QED
    BY <2>1, <2>2, NextSteps DEF core
<1>4. journal' = journal
  BY <1>1, <1>3 DEF journal
<1> QED
  BY <1>1, <1>4 DEF Abstract!vars, journal

(* Without overlapping requests, transfers and merchant payments implement  *)
(* the abstract ledger: indivisible, at most once per key, never beyond the *)
(* source's funds.                                                          *)
THEOREM Refinement == IsolatedSpec => AtomicTransfers
<1>1. Init => Abstract!Init
  BY DEF Init, Abstract!Init
<1>2. IsolatedInv /\ [IsolatedNext]_vars => [Abstract!Next]_(Abstract!vars)
  <2> SUFFICES ASSUME IsolatedInv, [IsolatedNext]_vars
               PROVE  [Abstract!Next]_(Abstract!vars)
    OBVIOUS
  <2>2. [Next]_vars
    BY IsolatedSteps DEF IsolatedInv, IInv
  <2>1. ASSUME NEW r \in Requests, Commit(r) PROVE Abstract!Next
    <3>1. PICK o \in Offers : req[r] = o
      BY <2>1, OfferFields DEF Commit, Goto, IsolatedInv, IInv
    <3>2. Abstract!Post(r, o)
      BY <2>1, <3>1, CommitPosts
    <3> QED
      BY <3>2 DEF Abstract!Next
  <2> QED
    BY <2>1, <2>2, OtherStepsStutter
<1> QED
  BY <1>1, <1>2, IsolatedInvariance, PTL
  DEF IsolatedSpec, AtomicTransfers, Abstract!Spec

-----------------------------------------------------------------------------
(* Rapid transfers.  Whoever counts last counts everything: as long as a     *)
(* wallet with too many recipients is not flagged, a handler that will look  *)
(* again is on its way, or one was cut off.                                  *)
Recipients(w) == {Dst(t) : t \in OutgoingSince(w, "transfer", clock - RapidWindow)}
Rapid(w) == Cardinality(Recipients(w)) > RapidCount
Flagged(w) == \E t \in txns : Src(t) = w /\ <<"flag_transaction_risk", t>> \in queue
WillCount(r, w) == pc[r] = "flag" /\ Src(r) = w /\ req[r].kind = "transfer"
CutOff(w) ==
    \E r \in Requests :
        pc[r] = "done" /\ Src(r) = w /\ reply[r].status \in {"error", "lost"}
SomebodyFlags ==
    \A w \in Wallets :
        Rapid(w) => Flagged(w) \/ CutOff(w) \/ \E r \in Requests : WillCount(r, w)

(* What a step of the handler of r leaves as it is. *)
Others(r) ==
    /\ pc[r] # "done"
    /\ \A s \in Requests \ {r} : /\ pc'[s] = pc[s] /\ reply'[s] = reply[s]
                               /\ req'[s] = req[s] /\ stamp'[s] = stamp[s]
    /\ pc[r] # "idle" => req' = req /\ stamp' = stamp
    /\ \A t \in txns : req'[t] = req[t] /\ stamp'[t] = stamp[t]
    /\ queue \subseteq queue'
    /\ clock' = clock

LEMMA HandlerSteps ==
    ASSUME IInv, NEW r \in Requests, Serve(r) \/ Crash(r) \/ \E o \in Offers : Arrive(r, o)
    PROVE  Others(r) /\ (~Commit(r) => txns' = txns)
<1> USE DEF IInv, TypeOK, Others, db, effects, Goto
<1>1. ASSUME NEW o \in Offers, Arrive(r, o) PROVE Others(r) /\ txns' = txns
  <2>1. r \notin txns
    BY <1>1 DEF Arrive, CommittedPhases, AfterCommit
  <2> QED
    BY <1>1, <2>1 DEF Arrive
<1>2. CASE LoadSource(r) \/ LoadDestination(r) \/ KeyUnused(r) \/ CheckLimits(r)
           \/ CheckDuplicate(r) \/ CheckBalance(r) \/ Insert(r)
  BY <1>2 DEF LoadSource, LoadDestination, KeyUnused, CheckLimits, CheckDuplicate,
              CheckBalance, Insert
<1>3. ASSUME NEW status, Reject(r, status), pc[r] # "done" PROVE Others(r) /\ txns' = txns
  BY <1>3 DEF Reject, Finish
<1>4. CASE Refuse(r) \/ OverLimit(r) \/ Duplicate(r) \/ InsufficientBalance(r)
           \/ FlagFails(r) \/ Crash(r)
  <2>1. pc[r] # "done"
    BY <1>4 DEF Refuse, OverLimit, Duplicate, InsufficientBalance, FlagFails, Crash,
                InFlight, Working
  <2>2. \E status \in Statuses : Reject(r, status)
    BY <1>4 DEF Refuse, OverLimit, Duplicate, InsufficientBalance, FlagFails, Crash,
                Statuses
  <2> QED
    BY <1>3, <2>1, <2>2
<1>5. CASE Replay(r) \/ KeyConflict(r) \/ Audit(r)
  BY <1>5 DEF Replay, KeyConflict, Audit, Finish
<1>6. CASE LockFirst(r) \/ LockSecond(r)
  BY <1>6 DEF LockFirst, LockSecond, Lock
<1>7. CASE Commit(r)
  BY <1>7 DEF Commit
<1>8. CASE Flag(r) \/ Notify(r)
  BY <1>8 DEF Flag, Notify
<1> QED
  BY <1>1, <1>2, <1>4, <1>5, <1>6, <1>7, <1>8 DEF Serve

(* What is in a window that ends later was in the one that ended before. *)
LEMMA StillInWindow ==
    ASSUME NEW s \in Nat, NEW now \in Nat, NEW later \in Nat, NEW window \in Nat,
           now <= later, s >= later - window
    PROVE  s >= now - window
OBVIOUS

(* Where no transaction is committed no wallet gains a recipient. *)
LEMMA RapidBefore ==
    ASSUME IInv, NEW w \in Wallets, txns' = txns, clock' \in Nat, clock <= clock',
           \A t \in txns : req'[t] = req[t] /\ stamp'[t] = stamp[t],
           Rapid(w)'
    PROVE  Rapid(w)
<1> USE LimitsAssumption DEF IInv, TypeOK
<1>1. ASSUME NEW d \in Recipients(w)' PROVE d \in Recipients(w)
  <2>1. PICK t \in txns : /\ req'[t].src = w /\ req'[t].kind = "transfer" /\ d = req'[t].dst
                          /\ stamp'[t] >= clock' - RapidWindow
    BY DEF Recipients, OutgoingSince, Src, Dst
  <2>2. stamp[t] >= clock - RapidWindow
    <3>1. /\ stamp'[t] = stamp[t] /\ stamp[t] \in Nat /\ clock \in Nat /\ RapidWindow \in Nat
          /\ stamp'[t] >= clock' - RapidWindow /\ clock' \in Nat /\ clock <= clock'
      BY <2>1
    <3> QED
      BY <3>1, StillInWindow
  <2>3. t \in OutgoingSince(w, "transfer", clock - RapidWindow) /\ d = Dst(t)
    BY <2>1, <2>2 DEF OutgoingSince, Src, Dst
  <2> QED
    BY <2>3 DEF Recipients
<1>2. ASSUME NEW t \in txns PROVE Dst(t) \in Wallets
  <2>1. t \in Requests /\ pc[t] # "idle"
    BY DEF CommittedPhases, AfterCommit
  <2> QED
    BY <2>1, OfferFields
<1>3. IsFiniteSet(Recipients(w))
  <2>1. Recipients(w) \subseteq Wallets
    BY <1>2 DEF Recipients, OutgoingSince
  <2> QED
    BY <2>1, WalletsAssumption, FS_Subset
<1>4. /\ Cardinality(Recipients(w)') <= Cardinality(Recipients(w))
      /\ Cardinality(Recipients(w)') \in Nat /\ Cardinality(Recipients(w)) \in Nat
  BY <1>1, <1>3, FS_Subset, FS_CardinalityType
<1> QED
  BY <1>4 DEF Rapid

(* No handler undoes what another one's flag or failure settles, ...         *)
LEMMA OthersKeep ==
    ASSUME IInv, NEW r \in Requests, Others(r), txns \subseteq txns', NEW w \in Wallets
    PROVE  /\ Flagged(w) => Flagged(w)'
           /\ CutOff(w) => CutOff(w)'
           /\ \A s \in Requests \ {r} : WillCount(s, w) => WillCount(s, w)'
BY DEF Others, Flagged, CutOff, WillCount, Src

(* ... a commit is followed by a look, and a look flags or fails.            *)
LEMMA FlagStep ==
    ASSUME IInv, SomebodyFlags, [Next]_vars
    PROVE  SomebodyFlags'
<1> USE LimitsAssumption DEF SomebodyFlags
<1>1. CASE Tick(Requests) \/ Served \/ UNCHANGED vars
  <2>1. /\ UNCHANGED <<req, pc, stamp, txns, queue, reply>>
        /\ clock' \in Nat /\ clock <= clock'
    BY <1>1 DEF Tick, Served, vars, db, effects, IInv, TypeOK
  <2> SUFFICES ASSUME NEW w \in Wallets, Rapid(w)'
               PROVE  (Flagged(w) \/ CutOff(w) \/ \E s \in Requests : WillCount(s, w))'
    OBVIOUS
  <2>2. Flagged(w) \/ CutOff(w) \/ \E s \in Requests : WillCount(s, w)
    BY <2>1, RapidBefore
  <2> QED
    BY <2>1, <2>2 DEF Flagged, CutOff, WillCount, Src
<1>2. ASSUME NEW r \in Requests, Serve(r) \/ Crash(r) \/ \E o \in Offers : Arrive(r, o)
      PROVE  SomebodyFlags'
  <2> SUFFICES ASSUME NEW w \in Wallets, Rapid(w)'
               PROVE  Flagged(w)' \/ CutOff(w)' \/ \E s \in Requests : WillCount(s, w)'
    OBVIOUS
  <2>1. Others(r) /\ (~Commit(r) => txns' = txns)
    BY <1>2, HandlerSteps
  <2>2. CASE Commit(r)
    <3>1. /\ pc' = [pc EXCEPT ![r] = "flag"] /\ UNCHANGED <<req, stamp, clock, queue>>
          /\ txns' = txns \cup {r}
      BY <2>2 DEF Commit, Goto, effects
    <3>2. CASE Src(r) = w /\ req[r].kind = "transfer"
      BY <3>1, <3>2 DEF WillCount, Src, IInv, TypeOK
    <3>3. CASE ~(Src(r) = w /\ req[r].kind = "transfer")
      <4>1. Recipients(w)' = Recipients(w)
        BY <3>1, <3>3 DEF Recipients, OutgoingSince, Src, Dst
      <4>2. Rapid(w)
        BY <4>1 DEF Rapid
      <4>3. ~WillCount(r, w)
        BY <3>3 DEF WillCount
      <4> QED
        BY <2>1, <3>1, <4>2, <4>3, OthersKeep
    <3> QED
      BY <3>2, <3>3
  <2>3. CASE ~Commit(r)
    <3>1. /\ txns' = txns /\ clock' = clock /\ clock \in Nat
          /\ \A t \in txns : req'[t] = req[t] /\ stamp'[t] = stamp[t]
      BY <2>1, <2>3 DEF Others, IInv, TypeOK
    <3>2. Rapid(w)
      <4>1. clock' \in Nat /\ clock <= clock'
        BY <3>1
      <4> QED
        BY <3>1, <4>1, RapidBefore
    <3>3. CASE ~WillCount(r, w)
      BY <2>1, <3>1, <3>2, <3>3, OthersKeep
    <3>4. CASE WillCount(r, w)
      <4>1. Flag(r) \/ FlagFails(r) \/ Crash(r)
        BY <1>2, <2>3, <3>4 DEF WillCount, Serve, Arrive, LoadSource, LoadDestination, Refuse,
            Replay, KeyUnused, CheckLimits, OverLimit, CheckDuplicate, Duplicate, LockFirst,
            LockSecond, Lock, CheckBalance, InsufficientBalance, Insert, KeyConflict, Notify,
            Audit, Goto
      <4>2. CASE Flag(r)
        <5>1. FlagDue(r)
          BY <3>2, <3>4 DEF FlagDue, WillCount, Rapid, Recipients, RecentRecipients
        <5>2. r \in txns /\ req' = req /\ <<"flag_transaction_risk", r>> \in queue'
          BY <3>4, <4>2, <5>1 DEF Flag, WillCount, IInv, CommittedPhases, AfterCommit
        <5> QED
          BY <3>1, <3>4, <5>2 DEF Flagged, WillCount, Src
      <4>3. CASE FlagFails(r) \/ Crash(r)
        <5>1. \E status \in {"error", "lost"} : Reject(r, status)
          BY <4>3 DEF FlagFails, Crash
        <5>2. pc'[r] = "done" /\ reply'[r].status \in {"error", "lost"} /\ req' = req
          BY <5>1 DEF Reject, Finish, IInv, TypeOK
        <5> QED
          BY <3>4, <5>2 DEF CutOff, WillCount, Src
      <4> QED
        BY <4>1, <4>2, <4>3
    <3> QED
      BY <3>3, <3>4
  <2> QED
    BY <2>2, <2>3
<1> QED
  BY <1>1, <1>2 DEF Next

LEMMA InitFlags == Init => SomebodyFlags
<1> SUFFICES ASSUME Init, NEW w \in Wallets PROVE ~Rapid(w)
  BY DEF SomebodyFlags
<1>1. Recipients(w) = {}
  BY DEF Init, Recipients, OutgoingSince
<1>2. Cardinality({}) = 0 /\ RapidCount \in Nat
  BY FS_EmptySet, LimitsAssumption
<1>3. Cardinality(Recipients(w)) = 0
  BY <1>1, <1>2, Zenon
<1> QED
  BY <1>2, <1>3 DEF Rapid

(* A sender with too many recipients within the window is flagged when its   *)
(* handlers are through, however they overlapped (fraud.py 110-134): each    *)
(* counts after its own commit, so the last one finds them all.              *)
THEOREM RapidSendersAreFlagged == Spec => []RapidTransfersFlagged
<1>1. IInv /\ SomebodyFlags => RapidTransfersFlagged
  <2> SUFFICES ASSUME IInv, SomebodyFlags, NEW w \in Wallets, Rapid(w),
                      \A r \in Requests : pc[r] # "idle" /\ Src(r) = w =>
                         pc[r] = "done" /\ reply[r].status \notin {"error", "lost"}
               PROVE  Flagged(w)
    BY DEF RapidTransfersFlagged, Rapid, Recipients, Flagged
  <2>1. ~CutOff(w)
    BY DEF CutOff
  <2>2. \A r \in Requests : ~WillCount(r, w)
    BY DEF WillCount
  <2> QED
    BY <2>1, <2>2 DEF SomebodyFlags
<1> QED
  BY <1>1, InitFlags, FlagStep, Invariance, PTL DEF Spec

-----------------------------------------------------------------------------
(* Sums.  What MapThenSumSet computes is defined by recursion over a set;    *)
(* that it exists, and what it is, follows by induction.                     *)

(* Induction over the natural numbers, for sets. *)
LEMMA NatSetInduction ==
    ASSUME NEW T \in SUBSET Nat, 0 \in T, \A n \in T : n + 1 \in T
    PROVE  T = Nat
<1> SUFFICES ASSUME Nat \ T # {} PROVE FALSE
  OBVIOUS
<1> DEFINE R == {ss \in Nat \X Nat : ss[1] < ss[2]}
<1>1. IsWellFoundedOn(R, Nat)
  BY NatLessThanWellFounded DEF OpToRel
<1> HIDE DEF R
<1>2. PICK n \in Nat \ T : \A m \in Nat \ T : <<m, n>> \notin R
  BY <1>1, WFMin
<1>3. n - 1 \in Nat /\ n - 1 < n
  BY <1>2
<1>4. <<n - 1, n>> \in R
  BY <1>3 DEF R
<1>5. n - 1 \in T
  BY <1>2, <1>3, <1>4
<1> QED
  BY <1>2, <1>5

(* The sum of the amounts q of a set, which MapThenSumSet takes one by one. *)
Any(s) == CHOOSE x \in s : TRUE
Sums(q, B) ==
    CHOOSE f : f = [s \in SUBSET B |-> IF s = {} THEN 0 ELSE q[Any(s)].amount + f[s \ {Any(s)}]]

(* The amounts of a set are integers, and two sets of amounts agree. *)
HasAmounts(q, B) == \A t \in B : q[t].amount \in Int
SameAmounts(q, p, B) == \A t \in B : p[t].amount = q[t].amount

LEMMA AnyIn == ASSUME NEW s, s # {} PROVE Any(s) \in s
BY DEF Any

(* Sums exist, *)
LEMMA SumsAre ==
    ASSUME NEW B, IsFiniteSet(B), NEW q, HasAmounts(q, B)
    PROVE  /\ Sums(q, B) \in [SUBSET B -> Int]
           /\ \A s \in SUBSET B : Sums(q, B)[s] =
                IF s = {} THEN 0 ELSE q[Any(s)].amount + Sums(q, B)[s \ {Any(s)}]
<1> DEFINE After(f, s) == IF s = {} THEN 0 ELSE q[Any(s)].amount + f[s \ {Any(s)}]
           Upto(n) == {s \in SUBSET B : Cardinality(s) <= n}
           Good(n) == \E f \in [SUBSET B -> Int] : \A s \in Upto(n) : f[s] = After(f, s)
           T == {n \in Nat : Good(n)}
<1>1. \A s \in SUBSET B : Cardinality(s) \in Nat /\ (Cardinality(s) = 0 <=> s = {})
  BY FS_Subset, FS_CardinalityType, FS_EmptySet
<1>2. \A s \in SUBSET B : s # {} =>
          /\ Any(s) \in B /\ s \ {Any(s)} \in SUBSET B
          /\ Cardinality(s \ {Any(s)}) = Cardinality(s) - 1
  BY FS_Subset, FS_RemoveElement, AnyIn
<1> HIDE DEF After
<1>a. \A f \in [SUBSET B -> Int], s \in SUBSET B : After(f, s) \in Int
  <2> SUFFICES ASSUME NEW f \in [SUBSET B -> Int], NEW s \in SUBSET B, s # {}
               PROVE  q[Any(s)].amount + f[s \ {Any(s)}] \in Int
    BY DEF After
  <2>1. q[Any(s)].amount \in Int /\ f[s \ {Any(s)}] \in Int
    BY <1>2 DEF HasAmounts
  <2> QED
    BY <2>1
<1>3. 0 \in T
  <2>1. [s \in SUBSET B |-> 0] \in [SUBSET B -> Int]
    OBVIOUS
  <2>2. \A s \in Upto(0) : s = {}
    BY <1>1
  <2> QED
    BY <2>1, <2>2 DEF After
<1>4. ASSUME NEW n \in T PROVE n + 1 \in T
  <2>1. PICK f \in [SUBSET B -> Int] : \A s \in Upto(n) : f[s] = After(f, s)
    OBVIOUS
  <2> DEFINE g == [s \in SUBSET B |-> After(f, s)]
  <2>2. g \in [SUBSET B -> Int]
    BY <1>a
  <2>3. \A s \in Upto(n) : g[s] = f[s]
    BY <2>1
  <2>4. ASSUME NEW s \in Upto(n + 1) PROVE g[s] = After(g, s)
    <3>1. CASE s = {}
      BY <3>1 DEF After
    <3>2. CASE s # {}
      <4>1. s \ {Any(s)} \in Upto(n)
        BY <1>1, <1>2, <3>2
      <4> QED
        BY <2>3, <3>2, <4>1 DEF After
    <3> QED
      BY <3>1, <3>2
  <2>5. Good(n + 1)
    BY <2>2, <2>4
  <2> QED
    BY <2>5
<1>5. Cardinality(B) \in T
  <2>1. T = Nat
    BY <1>3, <1>4, NatSetInduction
  <2> QED
    BY <2>1, FS_CardinalityType
<1>6. \E f \in [SUBSET B -> Int] : f = [s \in SUBSET B |-> After(f, s)]
  <2>1. PICK f \in [SUBSET B -> Int] : \A s \in Upto(Cardinality(B)) : f[s] = After(f, s)
    BY <1>5
  <2>2. \A s \in SUBSET B : s \in Upto(Cardinality(B))
    BY FS_Subset
  <2>3. f = [s \in SUBSET B |-> After(f, s)]
    BY <2>1, <2>2
  <2> QED
    BY <2>3
<1>7. /\ Sums(q, B) = [s \in SUBSET B |-> Sums(q, B)[s]]
      /\ \A s \in SUBSET B : Sums(q, B)[s] = After(Sums(q, B), s)
  <2>1. Sums(q, B) = CHOOSE f : f = [s \in SUBSET B |-> After(f, s)]
    BY DEF After, Sums
  <2>2. Sums(q, B) = [s \in SUBSET B |-> After(Sums(q, B), s)]
    BY <1>6, <2>1
  <2> QED
    BY <2>2
<1>9. \A s \in SUBSET B : Sums(q, B)[s] \in Int
  <2> DEFINE U == {n \in Nat : \A s \in Upto(n) : Sums(q, B)[s] \in Int}
  <2>1. 0 \in U
    <3>1. \A s \in Upto(0) : s = {}
      BY <1>1
    <3>2. Sums(q, B)[{}] = 0
      BY <1>7 DEF After
    <3> QED
      BY <3>1, <3>2
  <2>2. ASSUME NEW n \in U PROVE n + 1 \in U
    <3> SUFFICES ASSUME NEW s \in Upto(n + 1) PROVE Sums(q, B)[s] \in Int
      OBVIOUS
    <3>1. CASE s = {}
      <4>1. Sums(q, B)[s] = After(Sums(q, B), s)
        BY <1>7
      <4> QED
        BY <3>1, <4>1 DEF After
    <3>2. CASE s # {}
      <4>1. s \ {Any(s)} \in Upto(n) /\ Any(s) \in B
        BY <1>1, <1>2, <3>2
      <4>2. Sums(q, B)[s \ {Any(s)}] \in Int /\ q[Any(s)].amount \in Int
        BY <4>1 DEF HasAmounts
      <4>3. Sums(q, B)[s] = q[Any(s)].amount + Sums(q, B)[s \ {Any(s)}]
        BY <1>7, <3>2 DEF After
      <4> QED
        BY <4>2, <4>3
    <3> QED
      BY <3>1, <3>2
  <2>3. U = Nat
    BY <2>1, <2>2, NatSetInduction
  <2>4. \A s \in SUBSET B : s \in Upto(Cardinality(s))
    BY <1>1
  <2> QED
    BY <1>1, <2>3, <2>4
<1>10. Sums(q, B) \in [SUBSET B -> Int]
  BY <1>7, <1>9
<1> QED
  BY <1>7, <1>10 DEF After

(* A sum depends on the amounts of its own elements only ... *)
LEMMA SumsAgree ==
    ASSUME NEW B, IsFiniteSet(B), NEW C \in SUBSET B, NEW q, NEW p,
           HasAmounts(q, B), SameAmounts(q, p, C)
    PROVE  \A s \in SUBSET C : Sums(p, C)[s] = Sums(q, B)[s]
<1> DEFINE Upto(n) == {s \in SUBSET C : Cardinality(s) <= n}
           U == {n \in Nat : \A s \in Upto(n) : Sums(p, C)[s] = Sums(q, B)[s]}
<1>1. IsFiniteSet(C) /\ HasAmounts(p, C)
  BY FS_Subset DEF HasAmounts, SameAmounts
<1>2. \A s \in SUBSET C : Cardinality(s) \in Nat /\ (Cardinality(s) = 0 <=> s = {})
  BY <1>1, FS_Subset, FS_CardinalityType, FS_EmptySet
<1>3. \A s \in SUBSET C :
        /\ Sums(p, C)[s] = IF s = {} THEN 0 ELSE p[Any(s)].amount + Sums(p, C)[s \ {Any(s)}]
        /\ Sums(q, B)[s] = IF s = {} THEN 0 ELSE q[Any(s)].amount + Sums(q, B)[s \ {Any(s)}]
  <2>1. \A s \in SUBSET C :
          Sums(p, C)[s] = IF s = {} THEN 0 ELSE p[Any(s)].amount + Sums(p, C)[s \ {Any(s)}]
    BY <1>1, SumsAre
  <2>2. \A s \in SUBSET B :
          Sums(q, B)[s] = IF s = {} THEN 0 ELSE q[Any(s)].amount + Sums(q, B)[s \ {Any(s)}]
    BY SumsAre
  <2> QED
    BY <2>1, <2>2
<1>4. 0 \in U
  <2>1. \A s \in Upto(0) : s = {}
    BY <1>2
  <2> QED
    BY <1>3, <2>1
<1>5. ASSUME NEW n \in U PROVE n + 1 \in U
  <2> SUFFICES ASSUME NEW s \in Upto(n + 1) PROVE Sums(p, C)[s] = Sums(q, B)[s]
    OBVIOUS
  <2>1. CASE s = {}
    BY <1>3, <2>1
  <2>2. CASE s # {}
    <3>1. Any(s) \in C /\ s \ {Any(s)} \in SUBSET C
      BY <2>2, AnyIn
    <3>2. Cardinality(s \ {Any(s)}) = Cardinality(s) - 1
      BY <1>1, <2>2, AnyIn, FS_Subset, FS_RemoveElement
    <3>3. s \ {Any(s)} \in Upto(n)
      BY <1>2, <3>1, <3>2
    <3> QED
      BY <1>3, <2>2, <3>1, <3>3 DEF SameAmounts
  <2> QED
    BY <2>1, <2>2
<1>6. U = Nat
  BY <1>4, <1>5, NatSetInduction
<1>7. \A s \in SUBSET C : s \in Upto(Cardinality(s))
  BY <1>2
<1> QED
  BY <1>2, <1>6, <1>7

(* ... and not on the order in which they are taken. *)
LEMMA SumsRemove ==
    ASSUME NEW B, IsFiniteSet(B), NEW q, HasAmounts(q, B)
    PROVE  \A s \in SUBSET B : \A t \in s : Sums(q, B)[s] = q[t].amount + Sums(q, B)[s \ {t}]
<1> DEFINE F == Sums(q, B)
           Holds(s) == \A t \in s : F[s] = q[t].amount + F[s \ {t}]
           Upto(n) == {s \in SUBSET B : Cardinality(s) <= n}
           U == {n \in Nat : \A s \in Upto(n) : Holds(s)}
<1>1. F \in [SUBSET B -> Int]
  BY SumsAre
<1>2. \A s \in SUBSET B : s # {} => F[s] = q[Any(s)].amount + F[s \ {Any(s)}]
  BY SumsAre
<1>3. \A s \in SUBSET B : Cardinality(s) \in Nat /\ (Cardinality(s) = 0 <=> s = {})
  BY FS_Subset, FS_CardinalityType, FS_EmptySet
<1>4. \A s \in SUBSET B : \A t \in s : Cardinality(s \ {t}) = Cardinality(s) - 1
  BY FS_Subset, FS_RemoveElement
<1> HIDE DEF F
<1>5. 0 \in U
  BY <1>3
<1>6. ASSUME NEW n \in U PROVE n + 1 \in U
  <2> SUFFICES ASSUME NEW s \in Upto(n + 1), NEW t \in s
               PROVE  F[s] = q[t].amount + F[s \ {t}]
    OBVIOUS
  <2> DEFINE a == Any(s)
  <2>1. a \in s /\ F[s] = q[a].amount + F[s \ {a}]
    BY <1>2, AnyIn
  <2> HIDE DEF a
  <2>2. CASE a = t
    BY <2>1, <2>2
  <2>3. CASE a # t
    <3>1. s \ {a} \in Upto(n) /\ s \ {t} \in Upto(n)
      BY <1>3, <1>4, <2>1
    <3>2. F[s \ {a}] = q[t].amount + F[(s \ {a}) \ {t}]
      BY <2>3, <3>1
    <3>3. F[s \ {t}] = q[a].amount + F[(s \ {t}) \ {a}]
      BY <2>1, <2>3, <3>1
    <3>4. (s \ {a}) \ {t} = (s \ {t}) \ {a}
      OBVIOUS
    <3>5. F[(s \ {a}) \ {t}] \in Int /\ q[a].amount \in Int /\ q[t].amount \in Int
      BY <1>1, <2>1 DEF HasAmounts
    <3>6. F[(s \ {t}) \ {a}] = F[(s \ {a}) \ {t}]
      BY <3>4, Zenon
    <3> QED
      BY <2>1, <3>2, <3>3, <3>5, <3>6
  <2> QED
    BY <2>2, <2>3
<1>7. U = Nat
  BY <1>5, <1>6, NatSetInduction
<1>8. \A s \in SUBSET B : s \in Upto(Cardinality(s))
  BY <1>3
<1> QED
  BY <1>3, <1>7, <1>8 DEF F

(* The sum of a set, which is MapThenSumSet(Amount, S) when q is req. *)
Total(q, S) == Sums(q, S)[S]

LEMMA TotalOf ==
    ASSUME NEW S, IsFiniteSet(S), NEW q, HasAmounts(q, S)
    PROVE  /\ Total(q, S) \in Int
           /\ \A p : SameAmounts(q, p, S) => Total(p, S) = Total(q, S)
           /\ \A t \in S : Total(q, S) = q[t].amount + Total(q, S \ {t})
<1>1. Total(q, S) \in Int
  <2>1. Sums(q, S) \in [SUBSET S -> Int]
    BY SumsAre
  <2> QED
    BY <2>1 DEF Total
<1>2. ASSUME NEW p, SameAmounts(q, p, S) PROVE Total(p, S) = Total(q, S)
  <2>1. Sums(p, S)[S] = Sums(q, S)[S]
    BY <1>2, SumsAgree
  <2> QED
    BY <2>1 DEF Total
<1>3. ASSUME NEW t \in S PROVE Total(q, S) = q[t].amount + Total(q, S \ {t})
  <2>1. Sums(q, S)[S] = q[t].amount + Sums(q, S)[S \ {t}]
    BY SumsRemove
  <2>2. Sums(q, S \ {t})[S \ {t}] = Sums(q, S)[S \ {t}]
    <3>1. SameAmounts(q, q, S \ {t}) /\ S \ {t} \in SUBSET S
      BY DEF SameAmounts
    <3> QED
      BY <3>1, SumsAgree
  <2> QED
    BY <2>1, <2>2 DEF Total
<1> QED
  BY <1>1, <1>2, <1>3

LEMMA TotalEmpty == ASSUME NEW q PROVE Total(q, {}) = 0
<1>1. IsFiniteSet({}) /\ HasAmounts(q, {})
  BY FS_EmptySet DEF HasAmounts
<1>2. Sums(q, {})[{}] = 0
  BY <1>1, SumsAre
<1> QED
  BY <1>2 DEF Total

(* A part of a set does not come to more than the set. *)
LEMMA TotalGrows ==
    ASSUME NEW S, IsFiniteSet(S), NEW q, \A t \in S : q[t].amount \in Nat,
           NEW R \in SUBSET S
    PROVE  Total(q, R) <= Total(q, S)
<1> DEFINE Upto(n) == {s \in SUBSET S : Cardinality(s) <= n}
           U == {n \in Nat : \A s \in Upto(n) : \A r \in SUBSET s : Total(q, r) <= Total(q, s)}
<1>1. \A s \in SUBSET S : Cardinality(s) \in Nat /\ (Cardinality(s) = 0 <=> s = {})
  BY FS_Subset, FS_CardinalityType, FS_EmptySet
<1>2. \A s \in SUBSET S : \A t \in s : Cardinality(s \ {t}) = Cardinality(s) - 1
  BY FS_Subset, FS_RemoveElement
<1>3. \A s \in SUBSET S :
        Total(q, s) \in Int /\ \A t \in s : Total(q, s) = q[t].amount + Total(q, s \ {t})
  <2> SUFFICES ASSUME NEW s \in SUBSET S
               PROVE  Total(q, s) \in Int /\ \A t \in s : Total(q, s) = q[t].amount + Total(q, s \ {t})
    OBVIOUS
  <2>1. IsFiniteSet(s) /\ HasAmounts(q, s)
    BY FS_Subset DEF HasAmounts
  <2> QED
    BY <2>1, TotalOf
<1>4. 0 \in U
  <2>1. \A s \in Upto(0) : s = {}
    BY <1>1
  <2> QED
    BY <1>3, <2>1
<1>5. ASSUME NEW n \in U PROVE n + 1 \in U
  <2> SUFFICES ASSUME NEW s \in Upto(n + 1), NEW r \in SUBSET s, r # s
               PROVE  Total(q, r) <= Total(q, s)
    BY <1>3
  <2>1. PICK t \in s : t \notin r
    OBVIOUS
  <2>2. s \ {t} \in Upto(n) /\ r \in SUBSET (s \ {t})
    BY <1>1, <1>2, <2>1
  <2>3. Total(q, r) <= Total(q, s \ {t})
    BY <2>2
  <2>4. Total(q, s) = q[t].amount + Total(q, s \ {t}) /\ q[t].amount \in Nat
    BY <1>3
  <2>5. Total(q, r) \in Int /\ Total(q, s \ {t}) \in Int
    BY <1>3, <2>2
  <2> QED
    BY <2>3, <2>4, <2>5
<1>6. U = Nat
  BY <1>4, <1>5, NatSetInduction
<1>7. S \in Upto(Cardinality(S))
  BY <1>1
<1> QED
  BY <1>1, <1>6, <1>7

-----------------------------------------------------------------------------
(* Limits.  Under IsolatedSpec what a handler read before its checks is still *)
(* so when it commits: nobody else moves money out of its wallet, and the    *)
(* clock stands still.                                                       *)
Untwinned == {"lock_first", "lock_second", "balance", "insert", "commit"}
Limited == {"duplicate"} \cup Untwinned

Clocked == \A r \in Requests : stamp[r] <= clock /\ (InFlight(r) => stamp[r] = clock)

WithinLimits(r) == Tier[Src(r)] # 0 /\ ~OverDailyLimit(r)
LimitsChecked ==
    \A r \in Requests :
        /\ pc[r] \in Limited => WithinLimits(r)
        /\ pc[r] \in Untwinned /\ req[r].kind = "transfer" => RecentTwins(r) = {}

LimitsInv == IsolatedInv /\ Clocked /\ LimitsChecked /\ LimitsKept

(* What was moved on one day, and since a time. *)
Moved(w, kind, day) == {t \in OutgoingSince(w, kind, 0) : DayStart(stamp[t]) = day}

(* The sums of the code, as totals. *)
LEMMA DailySumIs ==
    ASSUME NEW r
    PROVE  /\ DailySum(r) = Total(req, OutgoingSince(Src(r), req[r].kind, DayStart(clock)))
           /\ DailySum(r)' = Total(req', OutgoingSince(Src(r), req[r].kind, DayStart(clock))')
BY DEF DailySum, Total, Sums, Any, MapThenSumSet, MapThenFoldSet, Amount

LEMMA MovedIs ==
    /\ DailyLimitKept <=>
         \A w \in Wallets, kind \in Kinds, day \in 0 .. MaxClock :
           Moved(w, kind, day) # {} => Total(req, Moved(w, kind, day)) <= DailyLimit[Tier[w]]
    /\ DailyLimitKept' <=>
         \A w \in Wallets, kind \in Kinds, day \in 0 .. MaxClock :
           Moved(w, kind, day)' # {} => Total(req', Moved(w, kind, day)') <= DailyLimit[Tier[w]]
BY DEF DailyLimitKept, Moved, Total, Sums, Any, MapThenSumSet, MapThenFoldSet, Amount

(* A day begins before its end, and what a transaction has of a day is what  *)
(* was moved since its beginning.                                           *)
LEMMA DayBegins == \A n \in Nat : DayStart(n) <= n /\ DayStart(n) \in Int
<1> SUFFICES ASSUME NEW n \in Nat PROVE n - (n % DayLength) <= n /\ n - (n % DayLength) \in Int
  BY DEF DayStart
<1>1. DayLength \in Nat /\ DayLength > 0
  BY LimitsAssumption
<1>2. n % DayLength \in 0 .. (DayLength - 1)
  BY <1>1
<1> QED
  BY <1>2

LEMMA AmountsOf ==
    ASSUME IInv
    PROVE  /\ IsFiniteSet(txns) /\ txns \subseteq Requests
           /\ \A t \in txns : pc[t] # "idle" /\ req[t].amount \in Nat
<1>1. txns \subseteq Requests
  BY DEF IInv, TypeOK
<1>2. IsFiniteSet(txns)
  BY <1>1, RequestsAssumption, FS_Subset
<1>3. \A t \in txns : pc[t] # "idle"
  BY DEF IInv, CommittedPhases, AfterCommit
<1> QED
  BY <1>1, <1>2, <1>3, OfferFields DEF IInv, Amount

(* A wallet whose transactions are the same has the same sums and twins. *)
LEMMA SameOutgoing ==
    ASSUME IInv, NEW s \in Requests, req'[s] = req[s], clock' = clock, txns \subseteq txns',
           \A t \in txns : req'[t] = req[t] /\ stamp'[t] = stamp[t],
           \A t \in txns' \ txns : req'[t].src # Src(s)
    PROVE  WithinLimits(s)' = WithinLimits(s) /\ RecentTwins(s)' = RecentTwins(s)
<1> DEFINE Today == OutgoingSince(Src(s), req[s].kind, DayStart(clock))
<1>1. Today' = Today
  BY DEF OutgoingSince, Src, DayStart
<1>2. RecentTwins(s)' = RecentTwins(s)
  BY DEF RecentTwins, OutgoingSince, Src, Dst, Amount
<1>3. Total(req', Today) = Total(req, Today)
  <2>1. Today \subseteq txns
    BY DEF OutgoingSince
  <2>2. IsFiniteSet(Today) /\ HasAmounts(req, Today) /\ SameAmounts(req, req', Today)
    BY <2>1, AmountsOf, FS_Subset DEF HasAmounts, SameAmounts
  <2> HIDE DEF Today
  <2> QED
    BY <2>2, TotalOf
<1>4. DailySum(s)' = DailySum(s)
  BY <1>1, <1>3, DailySumIs
<1>5. WithinLimits(s)' = WithinLimits(s)
  BY <1>4 DEF WithinLimits, OverDailyLimit, Src, Amount
<1> QED
  BY <1>2, <1>5

(* A commit within the limit leaves every day's volume within it. *)
LEMMA CommitKeepsDaily ==
    ASSUME LimitsInv, NEW r \in Requests, Commit(r)
    PROVE  DailyLimitKept'
<1> USE DEF LimitsInv, IsolatedInv, IInv
<1>1. /\ pc[r] = "commit" /\ UNCHANGED <<req, stamp, clock>> /\ txns' = txns \cup {r}
      /\ r \notin txns
  BY DEF Commit, Goto, CommittedPhases, AfterCommit
<1>2. stamp[r] = clock /\ WithinLimits(r) /\ Amount(r) \in Nat /\ Src(r) \in Wallets
  BY <1>1, OfferFields DEF Clocked, LimitsChecked, Limited, Untwinned, InFlight, Working
<1> SUFFICES ASSUME NEW w \in Wallets, NEW kind \in Kinds, NEW day \in 0 .. MaxClock,
                    Moved(w, kind, day)' # {}
             PROVE  Total(req, Moved(w, kind, day)') <= DailyLimit[Tier[w]]
  BY <1>1, MovedIs
<1> DEFINE M == Moved(w, kind, day)
           Today == OutgoingSince(w, kind, DayStart(clock))
<1>3. CASE Src(r) = w /\ req[r].kind = kind /\ DayStart(stamp[r]) = day
  <2>1. M' = M \cup {r} /\ r \notin M
    BY <1>1, <1>2, <1>3 DEF Moved, OutgoingSince, Src, TypeOK, DayStart
  <2>2. M \subseteq Today
    <3> SUFFICES ASSUME NEW t \in M PROVE stamp[t] >= DayStart(clock) /\ t \in Today
      OBVIOUS
    <3>1. /\ t \in txns /\ Src(t) = w /\ req[t].kind = kind /\ stamp[t] \in Nat
          /\ DayStart(stamp[t]) = day
      BY DEF Moved, OutgoingSince, TypeOK
    <3>2. DayStart(clock) <= stamp[t] /\ DayStart(clock) \in Int
      BY <1>2, <1>3, <3>1, DayBegins
    <3> QED
      BY <3>1, <3>2 DEF OutgoingSince
  <2>3. Today \subseteq txns
    BY DEF OutgoingSince
  <2>4. /\ IsFiniteSet(Today) /\ \A t \in Today : req[t].amount \in Nat
        /\ IsFiniteSet(M) /\ IsFiniteSet(M') /\ HasAmounts(req, Today) /\ HasAmounts(req, M')
    <3>1. M \subseteq txns /\ M' \subseteq txns \cup {r} /\ IsFiniteSet(txns \cup {r})
      BY <2>1, <2>2, <2>3, AmountsOf, FS_AddElement
    <3> HIDE DEF M, Today
    <3> QED
      BY <1>2, <2>3, <3>1, AmountsOf, FS_Subset DEF HasAmounts, Amount
  <2> HIDE DEF M
  <2>5. Total(req, M') = Amount(r) + Total(req, M)
    <3>1. M' \ {r} = M /\ r \in M'
      BY <2>1
    <3>2. Total(req, M') = req[r].amount + Total(req, M' \ {r})
      BY <2>4, <3>1, TotalOf
    <3> QED
      BY <3>1, <3>2 DEF Amount
  <2>6. Total(req, M) <= Total(req, Today) /\ Total(req, Today) \in Int
    BY <2>2, <2>4, TotalGrows, TotalOf
  <2>7. Total(req, M) \in Int
    BY <2>2, <2>4, TotalOf DEF HasAmounts
  <2>8. DailySum(r) = Total(req, Today)
    BY <1>3, DailySumIs DEF Src
  <2>9. DailyLimit[Tier[w]] \in Nat
    BY <1>2, <1>3, LimitsAssumption DEF WithinLimits
  <2>10. ~(Total(req, Today) + Amount(r) > DailyLimit[Tier[w]])
    BY <1>2, <1>3, <2>8 DEF WithinLimits, OverDailyLimit
  <2> QED
    BY <1>2, <2>5, <2>6, <2>7, <2>9, <2>10 DEF M
<1>4. CASE ~(Src(r) = w /\ req[r].kind = kind /\ DayStart(stamp[r]) = day)
  <2>1. M' = M
    BY <1>1, <1>4 DEF Moved, OutgoingSince, Src, DayStart
  <2>2. M # {} => Total(req, M) <= DailyLimit[Tier[w]]
    BY MovedIs DEF LimitsKept
  <2> QED
    BY <2>1, <2>2
<1> QED
  BY <1>3, <1>4

(* Where nothing is committed neither rule is disturbed, ... *)
LEMMA ElseLimitsKept ==
    ASSUME IInv, LimitsKept, txns' = txns,
           \A t \in txns : req'[t] = req[t] /\ stamp'[t] = stamp[t]
    PROVE  LimitsKept'
<1>1. NoTwins'
  BY DEF LimitsKept, NoTwins, Parties, Src, Dst, Amount
<1>2. DailyLimitKept'
  <2> SUFFICES ASSUME NEW w \in Wallets, NEW kind \in Kinds, NEW day \in 0 .. MaxClock,
                      Moved(w, kind, day)' # {}
               PROVE  Total(req', Moved(w, kind, day)') <= DailyLimit[Tier[w]]
    BY MovedIs
  <2> DEFINE M == Moved(w, kind, day)
  <2>1. M' = M /\ M \subseteq txns
    BY DEF Moved, OutgoingSince, Src, DayStart
  <2>2. IsFiniteSet(M) /\ HasAmounts(req, M) /\ SameAmounts(req, req', M)
    BY <2>1, AmountsOf, FS_Subset DEF HasAmounts, SameAmounts
  <2>3. M # {} => Total(req, M) <= DailyLimit[Tier[w]]
    BY MovedIs DEF LimitsKept
  <2> HIDE DEF M
  <2>4. Total(req', M) = Total(req, M)
    BY <2>2, TotalOf
  <2>5. Total(req', M') <= DailyLimit[Tier[w]]
    BY <2>1, <2>3, <2>4 DEF M
  <2> QED
    BY <2>5 DEF M
<1> QED
  BY <1>1, <1>2 DEF LimitsKept

(* ... and a commit leaves no twins, as it found none. *)
LEMMA CommitKeepsTwins ==
    ASSUME LimitsInv, NEW r \in Requests, Commit(r)
    PROVE  NoTwins'
<1> USE DEF LimitsInv, IsolatedInv, IInv
<1>1. /\ pc[r] = "commit" /\ UNCHANGED <<req, stamp, clock>> /\ txns' = txns \cup {r}
  BY DEF Commit, Goto
<1>2. /\ stamp[r] = clock /\ clock \in Nat /\ DuplicateWindow \in Nat
      /\ \A t \in txns : stamp[t] \in Nat /\ t \in Requests
  BY <1>1, LimitsAssumption DEF Clocked, InFlight, Working, TypeOK
<1>3. ASSUME NEW t \in txns, Src(t) = Src(r), Parties(t) = Parties(r), Amount(t) = Amount(r),
             req[t].kind = "transfer", req[r].kind = "transfer"
      PROVE  stamp[r] - stamp[t] > DuplicateWindow
  <2>1. Dst(t) = Dst(r)
    BY <1>3 DEF Parties
  <2>2. t \notin RecentTwins(r)
    BY <1>1, <1>3 DEF LimitsChecked, Untwinned
  <2>3. ~(stamp[t] >= clock - DuplicateWindow)
    BY <1>3, <2>1, <2>2 DEF RecentTwins, OutgoingSince
  <2> QED
    BY <1>2, <2>3
<1> QED
  BY <1>1, <1>3 DEF LimitsKept, NoTwins, Parties, Src, Dst, Amount

(* A handler comes past a check by passing it. *)
LEMMA ChecksPassed ==
    ASSUME IInv, LimitsChecked, NEW r \in Requests,
           Serve(r) \/ Crash(r) \/ \E o \in Offers : Arrive(r, o)
    PROVE  /\ pc'[r] \in Limited => pc[r] # "idle" /\ WithinLimits(r)
           /\ pc'[r] \in Untwinned /\ req[r].kind = "transfer" => RecentTwins(r) = {}
<1> USE DEF Limited, Untwinned, IInv, TypeOK, Goto
<1>1. CASE \E o \in Offers : Arrive(r, o)
  BY <1>1 DEF Arrive
<1>2. CASE LoadSource(r) \/ LoadDestination(r) \/ KeyUnused(r)
  BY <1>2 DEF LoadSource, LoadDestination, KeyUnused
<1>3. CASE CheckLimits(r)
  <2>1. Tier[Src(r)] # 0
    BY <1>3 DEF CheckLimits, OverSingleLimit
  <2> QED
    BY <1>3, <2>1 DEF CheckLimits, WithinLimits
<1>4. CASE CheckDuplicate(r)
  BY <1>4 DEF CheckDuplicate, LimitsChecked
<1>5. CASE LockFirst(r) \/ LockSecond(r) \/ CheckBalance(r) \/ Insert(r) \/ Commit(r)
  BY <1>5 DEF LockFirst, LockSecond, Lock, CheckBalance, Insert, Commit, LimitsChecked
<1>6. CASE Flag(r) \/ Notify(r)
  BY <1>6 DEF Flag, Notify
<1>7. CASE Refuse(r) \/ OverLimit(r) \/ Duplicate(r) \/ InsufficientBalance(r)
           \/ FlagFails(r) \/ Crash(r) \/ Replay(r) \/ KeyConflict(r) \/ Audit(r)
  BY <1>7 DEF Refuse, OverLimit, Duplicate, InsufficientBalance, FlagFails, Crash,
              Replay, KeyConflict, Audit, Reject, Finish
<1> QED
  BY <1>1, <1>2, <1>3, <1>4, <1>5, <1>6, <1>7 DEF Serve

(* What a step of an isolated handler leaves of what was checked. *)
LEMMA CheckedStep ==
    ASSUME LimitsInv, NEW r \in Requests,
           Serve(r) \/ Crash(r) \/ \E o \in Offers : ArriveAlone(r, o)
    PROVE  LimitsChecked' /\ LimitsKept' /\ Clocked'
<1> USE DEF LimitsInv, IsolatedInv
<1>1. Serve(r) \/ Crash(r) \/ \E o \in Offers : Arrive(r, o)
  BY DEF ArriveAlone
<1>2. Others(r) /\ (~Commit(r) => txns' = txns)
  BY <1>1, HandlerSteps
<1>3. Commit(r) => pc[r] = "commit" /\ txns' = txns \cup {r}
  BY DEF Commit, Goto
<1>4. \A t \in txns : req'[t] = req[t] /\ stamp'[t] = stamp[t]
  BY <1>2 DEF Others
<1>5. LimitsKept'
  BY <1>2, <1>4, ElseLimitsKept, CommitKeepsDaily, CommitKeepsTwins DEF LimitsKept
<1>6. Clocked'
  <2>1. CASE \E o \in Offers : Arrive(r, o)
    BY <1>2, <2>1 DEF Clocked, Others, Arrive, Goto, IInv, TypeOK, InFlight
  <2>2. CASE Serve(r) \/ Crash(r)
    <3>1. InFlight(r) /\ pc[r] # "idle"
      BY <2>2, ServedIsInFlight DEF Crash, InFlight, Working
    <3> QED
      BY <1>2, <3>1 DEF Clocked, Others, InFlight
  <2> QED
    BY <1>1, <2>1, <2>2
<1>7. ASSUME NEW s \in Requests
      PROVE  /\ pc'[s] \in Limited => WithinLimits(s)'
             /\ pc'[s] \in Untwinned /\ req'[s].kind = "transfer" => RecentTwins(s)' = {}
  <2> SUFFICES ASSUME pc'[s] \in Limited
               PROVE  /\ WithinLimits(s)'
                      /\ pc'[s] \in Untwinned /\ req'[s].kind = "transfer" => RecentTwins(s)' = {}
    BY DEF Limited
  <2>1. /\ req'[s] = req[s] /\ WithinLimits(s)
        /\ pc'[s] \in Untwinned /\ req[s].kind = "transfer" => RecentTwins(s) = {}
    <3>1. CASE s = r
      BY <1>1, <1>2, <3>1, ChecksPassed DEF Others
    <3>2. CASE s # r
      BY <1>2, <3>2 DEF Others, LimitsChecked
    <3> QED
      BY <3>1, <3>2
  <2>2. \A t \in txns' \ txns : req'[t].src # Src(s)
    <3>1. CASE Commit(r)
      <4>1. s # r
        BY <3>1 DEF Commit, Goto, Limited, Untwinned, IInv, TypeOK
      <4>2. InFlight(s) /\ InFlight(r)
        BY <1>2, <1>3, <3>1, <4>1 DEF Others, InFlight, Working, Limited, Untwinned
      <4>3. Src(r) # Src(s)
        BY <4>1, <4>2 DEF Isolated, Parties
      <4> QED
        BY <1>3, <3>1, <4>3 DEF Commit, Src
    <3> QED
      BY <1>2, <3>1
  <2>3. txns \subseteq txns' /\ clock' = clock
    BY <1>2, <1>3 DEF Others
  <2>4. WithinLimits(s)' = WithinLimits(s) /\ RecentTwins(s)' = RecentTwins(s)
    BY <1>4, <2>1, <2>2, <2>3, SameOutgoing
  <2> QED
    BY <2>1, <2>4
<1> QED
  BY <1>5, <1>6, <1>7 DEF LimitsChecked

LEMMA StepLimitsInv == LimitsInv /\ [IsolatedNext]_vars => LimitsInv'
<1> SUFFICES ASSUME LimitsInv, [IsolatedNext]_vars PROVE LimitsInv'
  OBVIOUS
<1>1. IsolatedInv'
  BY StepIsolatedInv DEF LimitsInv
<1>2. CASE \E r \in Requests : Serve(r) \/ Crash(r) \/ \E o \in Offers : ArriveAlone(r, o)
  BY <1>1, <1>2, CheckedStep DEF LimitsInv
<1>3. CASE Tick({}) \/ Served \/ UNCHANGED vars
  <2>1. UNCHANGED <<req, pc, stamp, txns>>
    BY <1>3 DEF Tick, Served, vars, db
  <2>2. LimitsKept'
    BY <2>1, ElseLimitsKept DEF LimitsInv, IsolatedInv
  <2>3. CASE Tick({})
    <3>1. /\ \A r \in Requests : ~InFlight(r)
          /\ clock' = clock + 1 /\ clock \in Nat /\ stamp \in [Requests -> Nat]
      BY <2>3 DEF Tick, LimitsInv, IsolatedInv, IInv, TypeOK
    <3>2. Clocked' /\ LimitsChecked'
      BY <2>1, <3>1 DEF Clocked, LimitsChecked, LimitsInv, InFlight, Limited, Untwinned, Working
    <3> QED
      BY <1>1, <2>2, <3>2 DEF LimitsInv
  <2>4. CASE Served \/ UNCHANGED vars
    <3>1. clock' = clock
      BY <2>4 DEF Served, vars
    <3>2. \A s \in Requests :
            WithinLimits(s)' = WithinLimits(s) /\ RecentTwins(s)' = RecentTwins(s)
      BY <2>1, <3>1, SameOutgoing DEF LimitsInv, IsolatedInv
    <3>3. Clocked' /\ LimitsChecked'
      BY <2>1, <3>1, <3>2 DEF Clocked, LimitsChecked, LimitsInv, InFlight
    <3> QED
      BY <1>1, <2>2, <3>3 DEF LimitsInv
  <2> QED
    BY <1>3, <2>3, <2>4
<1> QED
  BY <1>2, <1>3 DEF IsolatedNext

LEMMA InitLimitsInv == Init => LimitsInv
<1> SUFFICES ASSUME Init PROVE LimitsInv
  OBVIOUS
<1>1. Clocked /\ LimitsChecked
  BY DEF Init, Clocked, LimitsChecked, InFlight, Limited, Untwinned, Working
<1>2. NoTwins /\ \A w, kind, day : Moved(w, kind, day) = {}
  BY DEF Init, NoTwins, Moved, OutgoingSince
<1> QED
  BY <1>1, <1>2, InitIsolatedInv, MovedIs DEF LimitsInv, LimitsKept

(* While requests that overlap share no wallet, the sums and the twins that  *)
(* FraudService looks for without a lock are those of the commit: a user's   *)
(* day stays within the tier's limit (fraud.py _enforce_daily_limit) and no  *)
(* transfer is repeated within the window (_enforce_no_duplicate_transfer).  *)
THEOREM LimitsAreKept == IsolatedSpec => []LimitsKept
<1>1. LimitsInv => LimitsKept
  BY DEF LimitsInv
<1> QED
  BY <1>1, InitLimitsInv, StepLimitsInv, PTL DEF IsolatedSpec
=============================================================================
