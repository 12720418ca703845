---------------------------- MODULE ListingsProofs ----------------------------
(***************************************************************************)
(* Machine-checked proofs about RiskFlags and Listings, for every finite   *)
(* set of rows, every set of suspects and workers, every page size and     *)
(* every number of retries and faults.                                     *)
(***************************************************************************)
EXTENDS Listings, FiniteSetTheorems, TLAPS

-----------------------------------------------------------------------------
(* The inductive invariant. *)

(* What TypeOK says of the variables the proofs are about. *)
Types ==
    /\ status \in [Rows -> {"none", "open", "pending", "completed"}]
    /\ flagged \subseteq Suspects
    /\ message \in [Suspects -> {"none", "queued", "taken", "acked", "dropped"}]
    /\ worker \in [Workers -> [step : {"idle", "get", "set", "audit", "ack"},
                               row : Suspects \cup {NoRow}]]
    /\ entries \in [Suspects -> Nat]
    /\ detail \in [by : {"admin", "user"}, row : Rows \cup {NoRow},
                   status : {"none", "pending", "completed", "not_found"},
                   entries : {"unread", "no", "yes"}]

(* A message is sent after the commit of the row it is about. *)
SentAfterCommit ==
    \A r \in Suspects : status[r] \in {"none", "open"} => message[r] = "none"

(* A worker that is not idle has a message that is taken, and has it alone: *)
(* this is what a second delivery of a running task breaks.                 *)
IdleHasNoRow == \A w \in Workers : worker[w].step = "idle" <=> Row(w) = NoRow
TakenByOne ==
    /\ \A w \in Workers : Row(w) # NoRow => message[Row(w)] = "taken"
    /\ \A w, v \in Workers : Row(w) = Row(v) /\ Row(w) # NoRow => w = v

(* So what it read of the row still holds when it writes. *)
StillUnflagged == \A w \in Workers : worker[w].step = "set" => Row(w) \notin flagged
StillUnlogged ==
    \A w \in Workers : worker[w].step = "audit" => Row(w) \in flagged /\ entries[Row(w)] = 0

(* What a request has read as completed stays completed. *)
DetailCompleted ==
    detail.status = "completed" =>
        detail.row \in Rows /\ status[detail.row] = "completed" /\ detail.entries # "no"

TaskInv == SentAfterCommit /\ IdleHasNoRow /\ TakenByOne /\ StillUnflagged /\ StillUnlogged
IInv == Types /\ TaskInv /\ FlaggedOnce /\ DetailCompleted

-----------------------------------------------------------------------------
LEMMA InitIInv == Init => IInv
<1> SUFFICES ASSUME FlagInit, ReadInit PROVE IInv
  BY DEF Init
<1> USE SuspectsAssumption DEF FlagInit, Idle, Row
<1>1. detail = NoDetail
  BY DEF ReadInit
<1>2. Types
  BY <1>1 DEF Types, NoDetail
<1>3. TaskInv
  BY DEF TaskInv, SentAfterCommit, IdleHasNoRow, TakenByOne, StillUnflagged, StillUnlogged
<1>4. FlaggedOnce /\ DetailCompleted
  BY <1>1 DEF FlaggedOnce, DetailCompleted, NoDetail
<1> QED
  BY <1>2, <1>3, <1>4 DEF IInv

(* Writers: a row leaves "open" once, and its message is sent then. *)
LEMMA WriterStep ==
    ASSUME IInv, NEW r \in Rows, Begin(r) \/ Commit(r) \/ Complete(r), UNCHANGED readVars
    PROVE  IInv'
<1> USE SuspectsAssumption DEF IInv, Types, readVars, tasks, Row
<1>1. Types'
  BY DEF Begin, Commit, Complete
<1>2. SentAfterCommit'
  BY DEF Begin, Commit, Complete, TaskInv, SentAfterCommit
<1>3. /\ UNCHANGED <<flagged, worker, entries, detail>>
      /\ \A q \in Suspects : message[q] = "taken" => message'[q] = "taken"
  BY DEF Begin, Commit, Complete, TaskInv, SentAfterCommit
<1>4. IdleHasNoRow' /\ TakenByOne' /\ StillUnflagged' /\ StillUnlogged'
  BY <1>3 DEF TaskInv, IdleHasNoRow, TakenByOne, StillUnflagged, StillUnlogged
<1>5. FlaggedOnce' /\ DetailCompleted'
  BY <1>3 DEF FlaggedOnce, DetailCompleted, Begin, Commit, Complete
<1> QED
  BY <1>1, <1>2, <1>4, <1>5 DEF TaskInv

(* A row that is not flagged has no entry. *)
LEMMA Unlogged ==
    ASSUME Types, FlaggedOnce, NEW r \in Suspects \ flagged
    PROVE  entries[r] = 0
<1>1. entries[r] \in Nat
  BY DEF Types
<1>2. entries[r] <= 1 /\ entries[r] # 1
  BY DEF FlaggedOnce
<1> QED
  BY <1>1, <1>2

(* A worker and the broker. *)
LEMMA TaskStep ==
    ASSUME IInv, UNCHANGED readVars,
           \/ \E w \in Workers : WorkerStep(w) \/ Die(w)
           \/ \E r \in Suspects : Redeliver(r)
    PROVE  IInv'
<1> USE SuspectsAssumption DEF IInv, TaskInv, readVars, table, Row
<1>1. DetailCompleted'
  BY DEF DetailCompleted, WorkerStep, Deliver, Get, Flag, LogFlag, AckFlag, FailFlag, Die, Redeliver
<1>2. ASSUME NEW w \in Workers, NEW r \in Suspects, Deliver(w, r)
      PROVE  Types' /\ TaskInv' /\ FlaggedOnce'
  <2> USE <1>2 DEF Deliver, Idle, Types
  <2>1. Types'
    OBVIOUS
  <2>2. SentAfterCommit' /\ IdleHasNoRow' /\ TakenByOne'
    BY DEF SentAfterCommit, IdleHasNoRow, TakenByOne
  <2>3. StillUnflagged' /\ StillUnlogged' /\ FlaggedOnce'
    BY DEF StillUnflagged, StillUnlogged, FlaggedOnce
  <2> QED  BY <2>1, <2>2, <2>3
<1>3. ASSUME NEW w \in Workers, Get(w)
      PROVE  Types' /\ TaskInv' /\ FlaggedOnce'
  <2> USE <1>3 DEF Get, Step, Types
  <2>1. Types'
    OBVIOUS
  <2>2. SentAfterCommit' /\ IdleHasNoRow' /\ TakenByOne'
    BY DEF SentAfterCommit, IdleHasNoRow, TakenByOne
  <2>3. StillUnflagged' /\ StillUnlogged' /\ FlaggedOnce'
    BY DEF StillUnflagged, StillUnlogged, FlaggedOnce
  <2> QED  BY <2>1, <2>2, <2>3
<1>4. ASSUME NEW w \in Workers, Flag(w)
      PROVE  Types' /\ TaskInv' /\ FlaggedOnce'
  <2> USE <1>4 DEF Flag, Step, Types
  <2>1. Row(w) \in Suspects \ flagged
    BY DEF IdleHasNoRow, StillUnflagged
  <2>2. entries[Row(w)] = 0
    BY <2>1, Unlogged
  <2>3. Types'
    BY <2>1
  <2>4. SentAfterCommit' /\ IdleHasNoRow' /\ TakenByOne'
    BY DEF SentAfterCommit, IdleHasNoRow, TakenByOne
  <2>5. StillUnflagged' /\ StillUnlogged' /\ FlaggedOnce'
    BY <2>1, <2>2 DEF StillUnflagged, StillUnlogged, FlaggedOnce, TakenByOne, IdleHasNoRow
  <2> QED  BY <2>3, <2>4, <2>5
<1>5. ASSUME NEW w \in Workers, LogFlag(w)
      PROVE  Types' /\ TaskInv' /\ FlaggedOnce'
  <2> USE <1>5 DEF LogFlag, Step, Types
  <2>1. Row(w) \in Suspects \cap flagged /\ entries[Row(w)] = 0
    BY DEF IdleHasNoRow, StillUnlogged
  <2>2. Types'
    BY <2>1
  <2>3. SentAfterCommit' /\ IdleHasNoRow' /\ TakenByOne'
    BY DEF SentAfterCommit, IdleHasNoRow, TakenByOne
  <2>4. StillUnflagged' /\ StillUnlogged' /\ FlaggedOnce'
    BY <2>1 DEF StillUnflagged, StillUnlogged, FlaggedOnce, TakenByOne, IdleHasNoRow
  <2> QED  BY <2>2, <2>3, <2>4
<1>6. ASSUME NEW w \in Workers, AckFlag(w) \/ FailFlag(w) \/ Die(w)
      PROVE  Types' /\ TaskInv' /\ FlaggedOnce'
  <2> USE <1>6 DEF AckFlag, FailFlag, Die, Free, Idle, Types
  <2>1. Row(w) \in Suspects
    BY DEF IdleHasNoRow
  <2>2. /\ UNCHANGED <<status, flagged, entries, detail>>
        /\ worker' = [worker EXCEPT ![w] = Idle]
        /\ \/ UNCHANGED message
           \/ \E s \in {"acked", "queued", "dropped"} : message' = [message EXCEPT ![Row(w)] = s]
    OBVIOUS
  <2> HIDE <1>6 DEF AckFlag, FailFlag, Die, Free
  <2>3. Types'
    BY <2>1, <2>2
  <2>4. SentAfterCommit' /\ IdleHasNoRow' /\ TakenByOne'
    BY <2>1, <2>2 DEF SentAfterCommit, IdleHasNoRow, TakenByOne
  <2>5. StillUnflagged' /\ StillUnlogged' /\ FlaggedOnce'
    BY <2>2 DEF StillUnflagged, StillUnlogged, FlaggedOnce
  <2> QED  BY <2>3, <2>4, <2>5
<1>7. ASSUME NEW r \in Suspects, Redeliver(r)
      PROVE  Types' /\ TaskInv' /\ FlaggedOnce'
  <2> USE <1>7 DEF Redeliver, Holding, Types
  <2>1. Types' /\ FlaggedOnce'
    BY DEF FlaggedOnce
  <2>2. SentAfterCommit' /\ IdleHasNoRow' /\ TakenByOne'
    BY DEF SentAfterCommit, IdleHasNoRow, TakenByOne
  <2>3. StillUnflagged' /\ StillUnlogged'
    BY DEF StillUnflagged, StillUnlogged
  <2> QED  BY <2>1, <2>2, <2>3
<1> QED
  BY <1>1, <1>2, <1>3, <1>4, <1>5, <1>6, <1>7 DEF WorkerStep

(* Readers. *)
LEMMA ReaderStep ==
    ASSUME IInv, WalkNext \/ DetailNext, UNCHANGED flagVars
    PROVE  IInv'
<1> USE SuspectsAssumption DEF IInv, flagVars, table, tasks
<1>1. TaskInv' /\ FlaggedOnce'
  BY DEF TaskInv, SentAfterCommit, IdleHasNoRow, TakenByOne, StillUnflagged, StillUnlogged,
         FlaggedOnce, Row
<1>2. CASE WalkNext
  <2>1. UNCHANGED detail
    BY <1>2 DEF WalkNext, Start, ReadPage, ReadTotal, AnswerPage
  <2> QED
    BY <1>1, <2>1 DEF Types, DetailCompleted
<1>3. ASSUME NEW r \in Rows, FindTransaction(r) \/ FindMyTransaction(r)
      PROVE  IInv'
  BY <1>1, <1>3 DEF FindTransaction, FindMyTransaction, Detail, Committed, Types, DetailCompleted
<1>4. CASE ReadEntries
  BY <1>1, <1>4 DEF ReadEntries, Types, DetailCompleted
<1> QED
  BY <1>2, <1>3, <1>4 DEF DetailNext

LEMMA StepIInv == IInv /\ [Next]_vars => IInv'
<1> SUFFICES ASSUME IInv, [Next]_vars PROVE IInv'
  OBVIOUS
<1>1. CASE FlagNext /\ UNCHANGED readVars
  BY <1>1, WriterStep, TaskStep DEF FlagNext, WriterNext, BrokerNext
<1>2. CASE (WalkNext \/ DetailNext) /\ UNCHANGED flagVars
  BY <1>2, ReaderStep
<1>3. CASE UNCHANGED vars
  BY <1>3 DEF vars, flagVars, table, tasks, readVars, walkVars, IInv, Types, TaskInv,
      SentAfterCommit, IdleHasNoRow, TakenByOne, StillUnflagged, StillUnlogged, FlaggedOnce,
      DetailCompleted, Row
<1> QED
  BY <1>1, <1>2, <1>3 DEF Next

(* The invariant that the theorems below are parts of: what a flag task and a *)
(* request in flight may rely on (fraud_tasks.py, services/transaction.py).   *)
THEOREM InvariantHolds == Spec => []IInv
BY InitIInv, StepIInv, PTL DEF Spec

(* "Idempotent - safe to call multiple times" (fraud_tasks.py 22): however    *)
(* often the flag task of a row is retried, or run again after a crash, there *)
(* is one audit entry of it at most, and none for a row that is not flagged.  *)
THEOREM FlagsAreSetOnce == Spec => []FlaggedOnce
BY InvariantHolds, PTL DEF IInv

(* "Full transaction details including the associated double-entry ledger     *)
(* records" (admin.py 290-293): the two statements of a detail never show a   *)
(* completed transaction without its entries.                                 *)
THEOREM CompletedDetailsAreWhole == Spec => []DetailsAreWhole
<1>1. IInv => DetailsAreWhole
  BY DEF IInv, DetailCompleted, DetailsAreWhole
<1> QED
  BY <1>1, InvariantHolds, PTL
-----------------------------------------------------------------------------
(* Pages.  The rows that match are in a line, and a row's rank is its place. *)

(* Rows are numbered in the order in which their transactions started. *)
Started == {r \in Rows : status[r] # "none"}
InOrder ==
    /\ \A r \in Started : since[r] \in 1 .. Cardinality(Started)
    /\ \A r, q \in Started : since[r] = since[q] => r = q

Rank(r) == Cardinality({q \in Matching : Before(q, r)})

(* A walk: what it has read of the current page, and what is left to show. *)
Walking == at \in {"first", "second", "answer"}
PageRead == at = "answer" \/ (at = "second" /\ ~walk.list.countFirst)
Left == (asked \ shown) \ page

NoPageYet == (~PageRead => page = {}) /\ (at = "start" => offset = 0)
FullPageFits == Cardinality(page) = Limit => offset + Limit <= Cardinality(Rows)

(* Of a list that only grows, no row that was asked for is passed over: it   *)
(* is on the page, or behind it and then the page is full and the total,     *)
(* counted after it, greater.                                                *)
Trusting == walk.filter \in Growing /\ (walk.stop = "total" => ~walk.list.countFirst)
StillMatching == at # "start" => asked \subseteq Matching
Ahead ==
    \A r \in Left : Walking => Rank(r) >= IF PageRead THEN offset + Limit ELSE offset
FullIfLeft == PageRead /\ Left # {} => Cardinality(page) = Limit
CountedIfLeft ==
    at = "answer" /\ ~walk.list.countFirst /\ Left # {} => total > offset + Limit

WalkInv == StillMatching /\ Ahead /\ FullIfLeft /\ CountedIfLeft /\ NothingSkipped
PageInv ==
    IInv /\ TypeOK /\ InOrder /\ NoPageYet /\ FullPageFits /\ (Trusting => WalkInv)

-----------------------------------------------------------------------------
(* Places in a line. *)

LEMMA Multiples ==
    ASSUME NEW n \in Nat, NEW l \in Nat \ {0}
    PROVE  n * l \in Nat /\ n * l + l = (n + 1) * l /\ n <= n * l
OBVIOUS

(* The part of a line from o on has at most l places, and l if it goes on. *)
LEMMA Places ==
    ASSUME NEW M, IsFiniteSet(M), NEW f \in Injection(M, 0 .. Cardinality(M) - 1),
           NEW o \in Nat, NEW l \in Nat \ {0},
           NEW P, P = {r \in M : f[r] \in o .. o + l - 1}
    PROVE  Cardinality(P) <= l /\ (Cardinality(P) = l <=> o + l <= Cardinality(M))
<1> DEFINE N == Cardinality(M)
           D == o .. o + l - 1
           g == [r \in P |-> f[r]]
<1>1. N \in Nat
  BY FS_CardinalityType
<1>2. IsFiniteSet(0 .. N - 1) /\ Cardinality(0 .. N - 1) = N
  BY <1>1, FS_Interval
<1>3. IsFiniteSet(D) /\ Cardinality(D) = l
  BY FS_Interval
<1>4. f \in Surjection(M, 0 .. N - 1)
  BY <1>2, FS_Injection
<1>5. g \in Injection(P, D)
  BY DEF Injection, IsInjective
<1>6. Cardinality(P) <= l /\ (Cardinality(P) = l <=> g \in Surjection(P, D))
  BY <1>3, <1>5, FS_Injection
<1>7. ASSUME o + l <= N PROVE g \in Surjection(P, D)
  <2>1. ASSUME NEW k \in D PROVE \E r \in P : g[r] = k
    <3>1. k \in 0 .. N - 1
      BY <1>1, <1>7
    <3>2. PICK r \in M : f[r] = k
      BY <1>4, <3>1 DEF Surjection
    <3> QED
      BY <3>2
  <2> QED
    BY <1>5, <2>1 DEF Injection, Surjection
<1>8. ASSUME g \in Surjection(P, D) PROVE o + l <= N
  <2>1. o + l - 1 \in D
    OBVIOUS
  <2>2. PICK r \in P : g[r] = o + l - 1
    BY <1>8, <2>1 DEF Surjection
  <2>3. f[r] \in 0 .. N - 1
    BY DEF Injection
  <2> QED
    BY <1>1, <2>2, <2>3
<1> QED
  BY <1>6, <1>7, <1>8

(* What is known of the lists. *)
LEMMA ListsAre ==
    \A list \in Lists :
        /\ list.rows \subseteq Rows /\ list.filters \subseteq Changing \cup {"flagged", "clean"}
        /\ list.countFirst \in BOOLEAN /\ list.oldestFirst \in BOOLEAN
<1> DEFINE Listed(list) ==
             /\ list.rows \in {Rows, Mine}
             /\ list.filters \in SUBSET (Changing \cup {"flagged", "clean"})
             /\ list.countFirst \in BOOLEAN /\ list.oldestFirst \in BOOLEAN
<1> USE DEF NewestFirst, Changing
<1>1. Listed(AuditLogs) /\ Listed(WebhookDeliveries)
  BY DEF AuditLogs, WebhookDeliveries
<1>2. Listed(Users) /\ Listed(AdminTransactions)
  BY DEF Users, AdminTransactions
<1>3. Listed(KycSubmissions)
  BY DEF KycSubmissions
<1>4. Listed(MyTransactions) /\ Listed(Statement)
  BY DEF MyTransactions, Statement
<1>5. \A list \in Lists : Listed(list)
  <2> HIDE DEF Listed
  <2> QED
    BY <1>1, <1>2, <1>3, <1>4 DEF Lists
<1> QED
  BY <1>5, ListAssumption

(* Every row that matches has a place of its own. *)
LEMMA Ranks ==
    ASSUME TypeOK, InOrder
    PROVE  /\ Matching \subseteq Started
           /\ IsFiniteSet(Matching) /\ Cardinality(Matching) \in Nat
           /\ \A r \in Matching : Rank(r) \in 0 .. Cardinality(Matching) - 1
           /\ [r \in Matching |-> Rank(r)] \in Injection(Matching, 0 .. Cardinality(Matching) - 1)
<1> DEFINE Earlier(r) == {q \in Matching : Before(q, r)}
<1>1. Matching \subseteq Started /\ IsFiniteSet(Matching)
  <2>1. Matching \subseteq Started /\ Matching \in SUBSET Rows
    BY DEF Matching, Committed, Started
  <2> QED
    BY <2>1, FS_Subset, SuspectsAssumption
<1>2. \A r \in Matching : since[r] \in Int
  BY <1>1 DEF InOrder
<1>3. \A r, q, p \in Matching : /\ ~Before(r, r)
                                /\ Before(r, q) /\ Before(q, p) => Before(r, p)
                                /\ r # q => Before(r, q) \/ Before(q, r)
  BY <1>1, <1>2 DEF Before, InOrder
<1>4. \A r \in Matching :
        /\ IsFiniteSet(Earlier(r)) /\ Cardinality(Earlier(r)) \in Nat
        /\ \A q \in Earlier(r) : Cardinality(Earlier(r) \ {q}) = Cardinality(Earlier(r)) - 1
  <2> SUFFICES ASSUME NEW r \in Matching
               PROVE  /\ IsFiniteSet(Earlier(r)) /\ Cardinality(Earlier(r)) \in Nat
                      /\ \A q \in Earlier(r) :
                            Cardinality(Earlier(r) \ {q}) = Cardinality(Earlier(r)) - 1
    OBVIOUS
  <2>1. IsFiniteSet(Earlier(r))
    BY <1>1, FS_Subset
  <2> QED
    BY <2>1, FS_CardinalityType, FS_RemoveElement
<1>5. ASSUME NEW r \in Matching PROVE Rank(r) \in 0 .. Cardinality(Matching) - 1
  <2>1. Earlier(r) \in SUBSET (Matching \ {r})
    BY <1>3
  <2>2. /\ IsFiniteSet(Matching \ {r}) /\ Cardinality(Matching) \in Nat
        /\ Cardinality(Matching \ {r}) = Cardinality(Matching) - 1
    BY <1>1, FS_RemoveElement, FS_CardinalityType
  <2>3. Cardinality(Earlier(r)) <= Cardinality(Matching \ {r})
    BY <2>1, <2>2, FS_Subset
  <2> QED
    BY <1>4, <2>2, <2>3 DEF Rank
<1>6. ASSUME NEW r \in Matching, NEW q \in Matching, Before(r, q)
      PROVE  Rank(r) # Rank(q)
  <2>1. r \in Earlier(q) /\ Earlier(r) \in SUBSET (Earlier(q) \ {r})
    BY <1>3, <1>6
  <2>2. IsFiniteSet(Earlier(q) \ {r})
    BY <1>4, FS_RemoveElement
  <2>3. Cardinality(Earlier(r)) <= Cardinality(Earlier(q) \ {r})
    BY <2>1, <2>2, FS_Subset
  <2>4. Cardinality(Earlier(q) \ {r}) = Cardinality(Earlier(q)) - 1
    BY <1>4, <2>1
  <2>5. Cardinality(Earlier(r)) # Cardinality(Earlier(q))
    <3>1. Cardinality(Earlier(r)) \in Nat /\ Cardinality(Earlier(q)) \in Nat
      BY <1>4
    <3> HIDE DEF Earlier
    <3> QED
      BY <2>3, <2>4, <3>1
  <2> QED
    BY <2>5 DEF Rank
<1>7. \A r, q \in Matching : Rank(r) = Rank(q) => r = q
  BY <1>3, <1>6
<1>8. Cardinality(Matching) \in Nat
  BY <1>1, FS_CardinalityType
<1> QED
  BY <1>1, <1>5, <1>7, <1>8 DEF Injection, IsInjective

LEMMA OffsetsAre ==
    ASSUME TypeOK
    PROVE  /\ offset \in Nat /\ Cardinality(Rows) \in Nat
           /\ offset + Limit <= Cardinality(Rows) =>
                 offset + Limit \in {n * Limit : n \in 0 .. Cardinality(Rows)}
<1> USE ListAssumption
<1>1. Cardinality(Rows) \in Nat
  BY SuspectsAssumption, FS_CardinalityType
<1>2. PICK n \in 0 .. Cardinality(Rows) : offset = n * Limit
  BY DEF TypeOK
<1>3. n \in Nat /\ n + 1 \in Nat
  BY <1>1
<1>4. offset \in Nat /\ offset + Limit = (n + 1) * Limit /\ n + 1 <= (n + 1) * Limit
  BY <1>2, <1>3, Multiples
<1>5. ASSUME offset + Limit <= Cardinality(Rows)
      PROVE  n + 1 \in 0 .. Cardinality(Rows)
  BY <1>1, <1>3, <1>4, <1>5
<1> QED
  BY <1>1, <1>4, <1>5

(* A page that is read. *)
LEMMA ThePage ==
    ASSUME TypeOK, InOrder, NEW P \in Pages
    PROVE  /\ P \subseteq Matching /\ Cardinality(P) <= Limit
           /\ Cardinality(P) = Limit <=> offset + Limit <= Cardinality(Matching)
           /\ \A r \in Matching \ P : Rank(r) >= offset => Rank(r) >= offset + Limit
<1> DEFINE f == [r \in Matching |-> Rank(r)]
<1>1. P = {r \in Matching : Rank(r) \in offset .. offset + Limit - 1}
  BY DEF Pages, Rank
<1>2. P = {r \in Matching : f[r] \in offset .. offset + Limit - 1}
  BY <1>1
<1>3. offset \in Nat /\ Limit \in Nat \ {0}
  BY OffsetsAre, ListAssumption
<1>4. IsFiniteSet(Matching) /\ f \in Injection(Matching, 0 .. Cardinality(Matching) - 1)
  BY Ranks
<1> HIDE DEF f
<1>5. Cardinality(P) <= Limit /\ (Cardinality(P) = Limit <=> offset + Limit <= Cardinality(Matching))
  BY <1>2, <1>3, <1>4, Places
<1>6. \A r \in Matching \ P : Rank(r) >= offset => Rank(r) >= offset + Limit
  <2>1. \A r \in Matching : Rank(r) \in Int
    BY Ranks
  <2> QED
    BY <1>1, <1>3, <2>1
<1> QED
  BY <1>1, <1>5, <1>6

-----------------------------------------------------------------------------
(* Types, and the numbers of the rows. *)

LEMMA InitPageInv == Init => PageInv
<1> SUFFICES ASSUME Init PROVE PageInv
  OBVIOUS
<1>1. Cardinality(Rows) \in Nat /\ Cardinality({}) = 0
  BY SuspectsAssumption, FS_CardinalityType, FS_EmptySet
<1>2. 0 \in 0 .. Cardinality(Rows) /\ Limit \in Nat \ {0}
  BY <1>1, ListAssumption
<1>3. 0 \in {n * Limit : n \in 0 .. Cardinality(Rows)}
  <2>1. 0 = 0 * Limit
    BY <1>2
  <2> QED
    BY <1>2, <2>1
<1>4. FlagTypeOK
  <2>1. 0 \in 0 .. MaxRetries /\ 0 \in 0 .. MaxFaults /\ 0 \in 0 .. MaxFaults + MaxRetries + 1
    BY BoundsAssumption
  <2>2. Types
    BY InitIInv DEF IInv
  <2> QED
    BY <1>2, <2>1, <2>2 DEF FlagTypeOK, Types, Init, FlagInit
<1>5. PICK list \in Lists : \E filter \in list.filters :
          walk \in [list : {list}, filter : {filter}, stop : {"short page", "total"}]
  BY DEF Init, ReadInit
<1>6. /\ walk \in [list : Lists, filter : Changing \cup {"flagged", "clean"},
                   stop : {"short page", "total"}]
      /\ walk.filter \in walk.list.filters
  BY <1>5, ListsAre
<1>7. /\ at = "start" /\ offset = 0 /\ total = 0 /\ page = {} /\ asked = {} /\ shown = {}
      /\ detail = NoDetail
  BY DEF Init, ReadInit
<1>8. TypeOK
  <2>1. Cardinality(page) <= Limit
    BY <1>1, <1>2, <1>7
  <2> QED
    BY <1>2, <1>3, <1>4, <1>6, <1>7, <2>1 DEF TypeOK, NoDetail
<1>9. InOrder
  BY DEF InOrder, Started, Init, FlagInit
<1>10. NoPageYet /\ FullPageFits /\ WalkInv
  BY <1>1, <1>2, <1>7 DEF NoPageYet, PageRead, FullPageFits, WalkInv,
     StillMatching, Ahead, Left, FullIfLeft, CountedIfLeft, NothingSkipped
<1> QED
  BY <1>8, <1>9, <1>10, InitIInv DEF PageInv

(* What a step of a writer or a flag task does to the table. *)
LEMMA TableGrows ==
    ASSUME TypeOK, FlagNext
    PROVE  /\ flagged \subseteq flagged'
           /\ Committed \subseteq Committed'
           /\ \A r \in Rows : status[r] = "completed" => status'[r] = "completed"
           /\ \/ UNCHANGED since /\ Started' = Started
              \/ \E r \in Rows \ Started :
                    /\ Started' = Started \cup {r}
                    /\ since' = [since EXCEPT ![r] = Cardinality(Started) + 1]
<1>1. status \in [Rows -> {"none", "open", "pending", "completed"}]
  BY DEF TypeOK, FlagTypeOK
<1>2. ASSUME NEW r \in Rows, Begin(r)
      PROVE  /\ flagged' = flagged /\ Committed' = Committed /\ r \in Rows \ Started
             /\ Started' = Started \cup {r}
             /\ since' = [since EXCEPT ![r] = Cardinality(Started) + 1]
             /\ \A q \in Rows : status[q] = "completed" => status'[q] = "completed"
  <2>1. /\ status[r] = "none" /\ status' = [status EXCEPT ![r] = "open"] /\ flagged' = flagged
        /\ since' = [since EXCEPT ![r] = Cardinality(Started) + 1]
    BY <1>2 DEF Begin, Started
  <2> QED
    BY <1>1, <2>1 DEF Started, Committed
<1>3. ASSUME NEW r \in Rows, Commit(r) \/ Complete(r)
      PROVE  /\ flagged' = flagged /\ Committed \subseteq Committed' /\ Started' = Started
             /\ since' = since
             /\ \A q \in Rows : status[q] = "completed" => status'[q] = "completed"
  <2>1. /\ status[r] \in {"open", "pending"} /\ flagged' = flagged /\ since' = since
        /\ \/ status' = [status EXCEPT ![r] = "completed"]
           \/ status[r] = "open" /\ status' = [status EXCEPT ![r] = "pending"]
    BY <1>3 DEF Commit, Complete
  <2> QED
    BY <1>1, <2>1 DEF Started, Committed
<1>4. ASSUME \/ \E w \in Workers : WorkerStep(w) \/ Die(w)
             \/ \E r \in Suspects : Redeliver(r)
      PROVE  flagged \subseteq flagged' /\ UNCHANGED <<since, status>>
  BY <1>4 DEF WorkerStep, Deliver, Get, Flag, LogFlag, AckFlag, FailFlag, Die, Redeliver, table
<1>5. UNCHANGED <<since, status>> => Committed' = Committed /\ Started' = Started
  BY DEF Committed, Started
<1> QED
  BY <1>2, <1>3, <1>4, <1>5 DEF FlagNext, WriterNext, BrokerNext

LEMMA NumbersStep ==
    ASSUME TypeOK, InOrder, FlagNext
    PROVE  InOrder' /\ since' \in [Rows -> 0 .. Cardinality(Rows)]
<1>1. IsFiniteSet(Started) /\ Cardinality(Started) \in Nat
  <2>1. Started \in SUBSET Rows
    BY DEF Started
  <2> QED
    BY <2>1, SuspectsAssumption, FS_Subset, FS_CardinalityType
<1>2. since \in [Rows -> 0 .. Cardinality(Rows)] /\ Started \in SUBSET Rows
  BY DEF TypeOK, FlagTypeOK, Started
<1>3. CASE UNCHANGED since /\ Started' = Started
  BY <1>2, <1>3 DEF InOrder
<1>4. ASSUME NEW r \in Rows \ Started, Started' = Started \cup {r},
             since' = [since EXCEPT ![r] = Cardinality(Started) + 1]
      PROVE  InOrder' /\ since' \in [Rows -> 0 .. Cardinality(Rows)]
  <2>1. Cardinality(Started') = Cardinality(Started) + 1
    BY <1>1, <1>4, FS_AddElement
  <2>2. Cardinality(Started') <= Cardinality(Rows) /\ Cardinality(Rows) \in Nat
    <3>1. Started' \in SUBSET Rows
      BY <1>2, <1>4
    <3> QED
      BY <3>1, SuspectsAssumption, FS_Subset, FS_CardinalityType
  <2>3. since' \in [Rows -> 0 .. Cardinality(Rows)]
    BY <1>1, <1>2, <1>4, <2>1, <2>2
  <2>4. since'[r] = Cardinality(Started) + 1 /\ \A q \in Started : since'[q] = since[q]
    BY <1>2, <1>4
  <2> QED
    BY <1>1, <1>4, <2>1, <2>3, <2>4 DEF InOrder
<1> QED
  BY <1>3, <1>4, TableGrows

LEMMA FlagTypes ==
    ASSUME IInv, IInv', TypeOK, InOrder, FlagNext
    PROVE  FlagTypeOK'
<1>1. since' \in [Rows -> 0 .. Cardinality(Rows)]
  BY NumbersStep
<1>2. entries' \in [Suspects -> 0 .. MaxFaults + MaxRetries + 1]
  <2>1. \A n \in Nat : n <= 1 => n \in 0 .. MaxFaults + MaxRetries + 1
    BY BoundsAssumption
  <2>2. entries' \in [Suspects -> Nat] /\ \A r \in Suspects : entries'[r] <= 1
    BY DEF IInv, Types, FlaggedOnce
  <2> QED
    BY <2>1, <2>2
<1>3. /\ retries \in [Suspects -> 0 .. MaxRetries]
      /\ faults \in 0 .. MaxFaults
      /\ MaxRetries \in Nat /\ MaxFaults \in Nat
  BY BoundsAssumption DEF TypeOK, FlagTypeOK
<1>4. ASSUME NEW w \in Workers, FailFlag(w) PROVE retries' \in [Suspects -> 0 .. MaxRetries]
  <2>1. Row(w) \in Suspects
    BY <1>4, SuspectsAssumption DEF FailFlag, IInv, Types, TaskInv, IdleHasNoRow, Row
  <2>2. \/ retries' = retries
        \/ retries[Row(w)] < MaxRetries /\ retries' = [retries EXCEPT ![Row(w)] = @ + 1]
    BY <1>4 DEF FailFlag
  <2>3. retries[Row(w)] < MaxRetries => retries[Row(w)] + 1 \in 0 .. MaxRetries
    BY <1>3, <2>1
  <2> QED
    BY <1>3, <2>1, <2>2, <2>3
<1>5. retries' \in [Suspects -> 0 .. MaxRetries]
  <2>1. UNCHANGED retries \/ \E w \in Workers : FailFlag(w)
    BY DEF FlagNext, WriterNext, BrokerNext, WorkerStep, Begin, Commit, Complete, Deliver,
       Get, Flag, LogFlag, AckFlag, Die, Redeliver, tasks
  <2> QED
    BY <1>3, <1>4, <2>1
<1>6. faults' \in 0 .. MaxFaults
  <2>1. UNCHANGED faults \/ Fault
    BY DEF FlagNext, WriterNext, BrokerNext, WorkerStep, Begin, Commit, Complete, Deliver,
       Get, Flag, LogFlag, AckFlag, FailFlag, Die, Redeliver, tasks
  <2> QED
    BY <1>3, <2>1 DEF Fault
<1> QED
  BY <1>1, <1>2, <1>5, <1>6 DEF IInv, Types, FlagTypeOK

-----------------------------------------------------------------------------
(* A list that no row leaves only gets longer, in front of a row and behind. *)
LEMMA LineGrows ==
    ASSUME TypeOK, InOrder, Trusting, FlagNext, UNCHANGED readVars
    PROVE  /\ Matching \subseteq Matching'
           /\ \A r \in Matching : Rank(r) \in Nat /\ Rank(r)' \in Nat /\ Rank(r) <= Rank(r)'
<1>1. walk' = walk /\ walk.filter \in Growing
  BY DEF Trusting, readVars, walkVars
<1>2. Matching \subseteq Matching'
  <2> SUFFICES ASSUME NEW r \in Matching PROVE r \in Matching'
    OBVIOUS
  <2>1. r \in Committed \cap walk.list.rows /\ Passes(r, walk.filter)
    BY DEF Matching
  <2>2. r \in Rows /\ r \in Committed'
    BY <2>1, TableGrows DEF Committed
  <2>3. Passes(r, walk.filter)'
    <3>1. CASE walk.filter = "all"
      BY <1>1, <3>1 DEF Passes
    <3>2. CASE walk.filter = "completed"
      <4>1. status[r] = "completed"
        BY <2>1, <3>2 DEF Passes
      <4>2. status'[r] = "completed"
        BY <2>2, <4>1, TableGrows
      <4> QED
        BY <1>1, <3>2, <4>2 DEF Passes
    <3>3. CASE walk.filter = "flagged"
      <4>1. r \in flagged
        BY <2>1, <3>3 DEF Passes, Committed
      <4> QED
        BY <1>1, <3>3, <4>1, TableGrows DEF Passes
    <3> QED
      BY <1>1, <3>1, <3>2, <3>3 DEF Growing
  <2> QED
    BY <1>1, <2>1, <2>2, <2>3 DEF Matching
<1>3. \A r \in Matching : since'[r] = since[r]
  <2>1. Matching \subseteq Started /\ since \in [Rows -> 0 .. Cardinality(Rows)]
    BY Ranks DEF TypeOK, FlagTypeOK
  <2>2. \A r \in Started : r \in Rows /\ since'[r] = since[r]
    BY <2>1, TableGrows DEF Started
  <2> QED
    BY <2>1, <2>2
<1>4. ASSUME NEW r \in Matching
      PROVE  Rank(r) \in Nat /\ Rank(r)' \in Nat /\ Rank(r) <= Rank(r)'
  <2> DEFINE Now == {q \in Matching : Before(q, r)}
             Then == {q \in Matching' : Before(q, r)'}
  <2>1. Now \in SUBSET Then
    BY <1>1, <1>2, <1>3 DEF Before
  <2>2. Then \in SUBSET Rows
    BY DEF Matching, Committed
  <2>3. IsFiniteSet(Then) /\ IsFiniteSet(Now)
    BY <2>1, <2>2, SuspectsAssumption, FS_Subset
  <2>4. Cardinality(Now) <= Cardinality(Then)
    BY <2>1, <2>3, FS_Subset
  <2>5. Cardinality(Now) \in Nat /\ Cardinality(Then) \in Nat
    BY <2>3, FS_CardinalityType
  <2> QED
    BY <2>4, <2>5 DEF Rank
<1> QED
  BY <1>2, <1>4

(* Writers and flag tasks. *)
LEMMA PageFlagStep ==
    ASSUME PageInv, IInv', FlagNext, UNCHANGED readVars
    PROVE  PageInv'
<1>1. TypeOK /\ InOrder /\ IInv
  BY DEF PageInv
<1>2. FlagTypeOK' /\ InOrder'
  BY <1>1, FlagTypes, NumbersStep
<1>3. TypeOK'
  BY <1>1, <1>2 DEF TypeOK, readVars, walkVars
<1>4. NoPageYet' /\ FullPageFits'
  BY DEF PageInv, NoPageYet, FullPageFits, PageRead, readVars, walkVars
<1>5. ASSUME Trusting' PROVE WalkInv'
  <2>1. Trusting /\ WalkInv
    BY <1>5 DEF PageInv, Trusting, readVars, walkVars
  <2>2. /\ Matching \subseteq Matching'
        /\ \A r \in Matching : Rank(r) \in Nat /\ Rank(r)' \in Nat /\ Rank(r) <= Rank(r)'
    BY <1>1, <2>1, LineGrows
  <2>3. UNCHANGED <<walk, at, offset, page, total, asked, shown>>
    BY DEF readVars, walkVars
  <2>4. StillMatching'
    BY <2>1, <2>2, <2>3 DEF WalkInv, StillMatching
  <2>5. Ahead'
    <3>1. offset \in Nat /\ Limit \in Nat
      BY <1>1, OffsetsAre, ListAssumption
    <3>2. Left' = Left /\ Walking' = Walking /\ PageRead' = PageRead
      BY <2>3 DEF Left, Walking, PageRead
    <3>3. ASSUME NEW r \in Left, Walking
          PROVE  Rank(r)' >= IF PageRead THEN offset + Limit ELSE offset
      <4>1. r \in Matching
        BY <2>1, <3>3 DEF WalkInv, StillMatching, Left, Walking
      <4>2. Rank(r) >= IF PageRead THEN offset + Limit ELSE offset
        BY <2>1, <3>3 DEF WalkInv, Ahead
      <4> QED
        BY <2>2, <3>1, <4>1, <4>2
    <3> QED
      BY <2>3, <3>2, <3>3 DEF Ahead
  <2>6. FullIfLeft' /\ CountedIfLeft' /\ NothingSkipped'
    BY <2>1, <2>3 DEF WalkInv, FullIfLeft, CountedIfLeft, NothingSkipped, Left, PageRead
  <2> QED
    BY <2>4, <2>5, <2>6 DEF WalkInv
<1> QED
  BY <1>2, <1>3, <1>4, <1>5 DEF PageInv

(* What readers leave as it is. *)
LEMMA SameLine ==
    ASSUME UNCHANGED <<flagVars, walk>>
    PROVE  /\ Matching' = Matching /\ (FlagTypeOK <=> FlagTypeOK') /\ (InOrder <=> InOrder')
           /\ Trusting' = Trusting /\ \A r : Rank(r)' = Rank(r)
<1> USE DEF flagVars, table, tasks
<1>1. Matching' = Matching
  BY DEF Matching, Committed, Passes
<1>2. \A r, q : Before(r, q)' <=> Before(r, q)
  BY DEF Before
<1>3. \A r : Rank(r)' = Rank(r)
  BY <1>1, <1>2 DEF Rank
<1> QED
  BY <1>1, <1>3 DEF FlagTypeOK, InOrder, Started, Trusting

LEMMA StartStep ==
    ASSUME PageInv, IInv', Start, UNCHANGED flagVars
    PROVE  PageInv'
<1>1. TypeOK /\ InOrder /\ NoPageYet /\ FullPageFits
  BY DEF PageInv
<1>2. /\ at = "start" /\ at' = "first" /\ asked' = Matching
      /\ UNCHANGED <<flagVars, walk, offset, page, total, shown, detail>>
  BY DEF Start
<1>3. /\ Matching' = Matching /\ FlagTypeOK' /\ InOrder' /\ Trusting' = Trusting
      /\ \A r \in Matching : Rank(r)' = Rank(r) /\ Rank(r) \in Nat
  <2>1. \A r \in Matching : Rank(r) \in Nat
    BY <1>1, Ranks
  <2> QED
    BY <1>1, <1>2, <2>1, SameLine DEF TypeOK
<1>4. TypeOK'
  BY <1>1, <1>2, <1>3 DEF TypeOK, Matching
<1>5. offset = 0 /\ NoPageYet' /\ FullPageFits' /\ ~PageRead'
  BY <1>1, <1>2 DEF NoPageYet, FullPageFits, PageRead
<1>6. WalkInv'
  BY <1>2, <1>3, <1>5 DEF WalkInv, StillMatching, Ahead, FullIfLeft, CountedIfLeft,
     NothingSkipped, Left
<1> QED
  BY <1>3, <1>4, <1>5, <1>6 DEF PageInv

LEMMA ReadPageStep ==
    ASSUME PageInv, IInv', ReadPage, UNCHANGED flagVars
    PROVE  PageInv'
<1>1. TypeOK /\ InOrder /\ NoPageYet
  BY DEF PageInv
<1>2. /\ page' \in Pages
      /\ UNCHANGED <<flagVars, walk, offset, total, asked, shown, detail>>
      /\ \/ at = "first" /\ ~walk.list.countFirst /\ at' = "second"
         \/ at = "second" /\ walk.list.countFirst /\ at' = "answer"
  BY DEF ReadPage
<1>3. /\ Matching' = Matching /\ FlagTypeOK' /\ InOrder' /\ Trusting' = Trusting
      /\ \A r \in Matching : Rank(r)' = Rank(r) /\ Rank(r) \in 0 .. Cardinality(Matching) - 1
  BY <1>1, <1>2, SameLine, Ranks DEF TypeOK
<1>4. /\ page' \subseteq Matching /\ Cardinality(page') <= Limit
      /\ Cardinality(page') = Limit <=> offset + Limit <= Cardinality(Matching)
      /\ \A r \in Matching \ page' : Rank(r) >= offset => Rank(r) >= offset + Limit
  BY <1>1, <1>2, ThePage
<1>5. /\ Cardinality(Matching) \in Nat /\ Cardinality(Matching) <= Cardinality(Rows)
      /\ offset \in Nat /\ Cardinality(Rows) \in Nat /\ Limit \in Nat
  <2>1. Matching \in SUBSET Rows
    BY DEF Matching, Committed
  <2> QED
    BY <1>1, <2>1, SuspectsAssumption, ListAssumption, OffsetsAre, FS_Subset, FS_CardinalityType
<1>6. TypeOK'
  BY <1>1, <1>2, <1>3, <1>4 DEF TypeOK, Matching
<1>7. NoPageYet' /\ FullPageFits' /\ PageRead'
  BY <1>2, <1>4, <1>5 DEF NoPageYet, FullPageFits, PageRead
<1>8. ASSUME Trusting PROVE WalkInv'
  <2>1. WalkInv /\ ~PageRead /\ page = {} /\ Walking
    BY <1>1, <1>2, <1>8 DEF PageInv, NoPageYet, PageRead, Walking
  <2>2. asked \subseteq Matching
    BY <1>2, <2>1 DEF WalkInv, StillMatching
  <2>3. \A r \in Left' : r \in Matching \ page' /\ Rank(r) >= offset + Limit
    <3> SUFFICES ASSUME NEW r \in Left'
                 PROVE  r \in Matching \ page' /\ Rank(r) >= offset + Limit
      OBVIOUS
    <3>1. r \in Left /\ r \in Matching \ page'
      BY <1>2, <2>1, <2>2 DEF Left
    <3>2. Rank(r) >= offset
      BY <2>1, <3>1 DEF WalkInv, Ahead
    <3> QED
      BY <1>4, <3>1, <3>2
  <2>4. Ahead'
    BY <1>2, <1>3, <1>7, <2>3 DEF Ahead
  <2>5. Left' # {} => Cardinality(page') = Limit
    <3> SUFFICES ASSUME NEW r \in Left' PROVE offset + Limit <= Cardinality(Matching)
      BY <1>4
    <3> QED
      BY <1>3, <1>5, <2>3
  <2>6. StillMatching' /\ FullIfLeft' /\ CountedIfLeft' /\ NothingSkipped'
    BY <1>2, <1>3, <2>2, <2>5 DEF StillMatching, FullIfLeft, CountedIfLeft, NothingSkipped
  <2> QED
    BY <2>4, <2>6 DEF WalkInv
<1> QED
  BY <1>3, <1>6, <1>7, <1>8 DEF PageInv

LEMMA ReadTotalStep ==
    ASSUME PageInv, IInv', ReadTotal, UNCHANGED flagVars
    PROVE  PageInv'
<1>1. TypeOK /\ InOrder /\ NoPageYet /\ FullPageFits
  BY DEF PageInv
<1>2. /\ total' = Cardinality(Matching)
      /\ UNCHANGED <<flagVars, walk, offset, page, asked, shown, detail>>
      /\ \/ at = "first" /\ walk.list.countFirst /\ at' = "second"
         \/ at = "second" /\ ~walk.list.countFirst /\ at' = "answer"
  BY DEF ReadTotal
<1>3. /\ Matching' = Matching /\ FlagTypeOK' /\ InOrder' /\ Trusting' = Trusting
      /\ \A r \in Matching : Rank(r)' = Rank(r) /\ Rank(r) \in 0 .. Cardinality(Matching) - 1
  BY <1>1, <1>2, SameLine, Ranks DEF TypeOK
<1>4. /\ Cardinality(Matching) \in Nat /\ Cardinality(Matching) <= Cardinality(Rows)
      /\ offset \in Nat /\ Cardinality(Rows) \in Nat /\ Limit \in Nat
  <2>1. Matching \in SUBSET Rows
    BY DEF Matching, Committed
  <2> QED
    BY <1>1, <2>1, SuspectsAssumption, ListAssumption, OffsetsAre, FS_Subset, FS_CardinalityType
<1>5. TypeOK'
  <2>1. total' \in 0 .. Cardinality(Rows)
    BY <1>2, <1>4
  <2> QED
    BY <1>1, <1>2, <1>3, <2>1 DEF TypeOK
<1>6. PageRead' = PageRead /\ Walking /\ Walking' /\ Left' = Left
  BY <1>2 DEF PageRead, Walking, Left
<1>7. NoPageYet' /\ FullPageFits'
  BY <1>1, <1>2, <1>6 DEF NoPageYet, FullPageFits
<1>8. ASSUME Trusting PROVE WalkInv'
  <2>1. WalkInv
    BY <1>8 DEF PageInv
  <2>2. asked \subseteq Matching
    BY <1>2, <2>1 DEF WalkInv, StillMatching
  <2>3. \A r \in Left : r \in Matching /\ Rank(r) >= IF PageRead THEN offset + Limit ELSE offset
    BY <1>6, <2>1, <2>2 DEF WalkInv, Ahead, Left
  <2>4. Ahead'
    BY <1>2, <1>3, <1>6, <2>3 DEF Ahead
  <2>5. FullIfLeft'
    BY <1>2, <1>6, <2>1 DEF WalkInv, FullIfLeft
  <2>6. CountedIfLeft'
    <3> SUFFICES ASSUME at' = "answer", NEW r \in Left PROVE total' > offset + Limit
      BY <1>2, <1>6 DEF CountedIfLeft
    <3>1. r \in Matching /\ Rank(r) >= offset + Limit
      BY <1>2, <2>3 DEF PageRead
    <3> QED
      BY <1>2, <1>3, <1>4, <3>1
  <2>7. StillMatching' /\ NothingSkipped'
    BY <1>2, <1>3, <2>2 DEF StillMatching, NothingSkipped
  <2> QED
    BY <2>4, <2>5, <2>6, <2>7 DEF WalkInv
<1> QED
  BY <1>3, <1>5, <1>7, <1>8 DEF PageInv

LEMMA AnswerPageStep ==
    ASSUME PageInv, IInv', AnswerPage, UNCHANGED flagVars
    PROVE  PageInv'
<1>1. TypeOK /\ InOrder /\ FullPageFits
  BY DEF PageInv
<1>2. /\ at = "answer" /\ shown' = shown \cup page /\ page' = {} /\ total' = 0
      /\ \/ Last /\ at' = "done" /\ offset' = offset
         \/ ~Last /\ at' = "first" /\ offset' = offset + Limit
      /\ UNCHANGED <<flagVars, walk, asked, detail>>
  BY DEF AnswerPage
<1>3. /\ Matching' = Matching /\ FlagTypeOK' /\ InOrder' /\ Trusting' = Trusting
      /\ \A r \in Matching : Rank(r)' = Rank(r)
  BY <1>1, <1>2, SameLine DEF TypeOK
<1>4. /\ offset \in Nat /\ Cardinality(Rows) \in Nat /\ Limit \in Nat \ {0}
      /\ Cardinality(page) \in Nat /\ Cardinality(page) <= Limit /\ total \in 0 .. Cardinality(Rows)
      /\ Cardinality({}) = 0
  <2>1. page \in SUBSET Rows
    BY <1>1, ListsAre DEF TypeOK
  <2>2. Cardinality(page) \in Nat
    BY <2>1, SuspectsAssumption, FS_Subset, FS_CardinalityType
  <2>3. Cardinality(page) <= Limit /\ total \in 0 .. Cardinality(Rows)
    BY <1>1 DEF TypeOK
  <2> QED
    BY <1>1, <2>2, <2>3, ListAssumption, OffsetsAre, FS_EmptySet
<1>5. ASSUME ~Last PROVE offset + Limit <= Cardinality(Rows)
  <2>1. CASE walk.stop = "total"
    BY <1>4, <1>5, <2>1 DEF Last
  <2>2. CASE walk.stop # "total"
    BY <1>1, <1>4, <1>5, <2>2 DEF Last, FullPageFits
  <2> QED
    BY <2>1, <2>2
<1>6. TypeOK'
  <2>1. offset' \in {n * Limit : n \in 0 .. Cardinality(Rows)}
    <3>1. offset \in {n * Limit : n \in 0 .. Cardinality(Rows)}
      BY <1>1 DEF TypeOK
    <3> QED
      BY <1>1, <1>2, <1>5, <3>1, OffsetsAre
  <2>2. Cardinality(page') <= Limit /\ total' \in 0 .. Cardinality(Rows)
    BY <1>2, <1>4
  <2> QED
    BY <1>1, <1>2, <1>3, <2>1, <2>2 DEF TypeOK
<1>7. NoPageYet' /\ FullPageFits' /\ ~PageRead'
  <2>1. Cardinality(page') # Limit
    BY <1>2, <1>4
  <2>2. walk.list.countFirst \/ at' # "second"
    BY <1>2
  <2> QED
    BY <1>2, <2>1, <2>2 DEF NoPageYet, FullPageFits, PageRead
<1>8. ASSUME Trusting PROVE WalkInv'
  <2>1. WalkInv /\ PageRead /\ Walking
    BY <1>2, <1>8 DEF PageInv, PageRead, Walking
  <2>2. asked \subseteq Matching /\ Left' = Left
    BY <1>2, <2>1 DEF WalkInv, StillMatching, Left
  <2>3. \A r \in Left : r \in Matching /\ Rank(r) >= offset + Limit
    BY <2>1, <2>2 DEF WalkInv, Ahead, Left
  <2>4. Ahead'
    BY <1>2, <1>3, <1>7, <2>2, <2>3 DEF Ahead, Walking
  <2>5. NothingSkipped'
    <3> SUFFICES ASSUME Last, NEW r \in Left PROVE FALSE
      BY <1>2 DEF NothingSkipped, Left
    <3>1. CASE walk.stop = "total"
      <4>1. total > offset + Limit
        BY <1>2, <1>8, <2>1, <3>1 DEF WalkInv, CountedIfLeft, Trusting
      <4> QED
        BY <1>4, <3>1, <4>1 DEF Last
    <3>2. CASE walk.stop # "total"
      <4>1. Cardinality(page) = Limit
        BY <2>1 DEF WalkInv, FullIfLeft
      <4> QED
        BY <1>4, <3>2, <4>1 DEF Last
    <3> QED
      BY <3>1, <3>2
  <2>6. StillMatching' /\ FullIfLeft' /\ CountedIfLeft'
    BY <1>2, <1>3, <1>7, <2>2 DEF StillMatching, FullIfLeft, CountedIfLeft
  <2> QED
    BY <2>4, <2>5, <2>6 DEF WalkInv
<1> QED
  BY <1>3, <1>6, <1>7, <1>8 DEF PageInv

LEMMA StepPageInv == PageInv /\ [Next]_vars => PageInv'
<1> SUFFICES ASSUME PageInv, [Next]_vars PROVE PageInv'
  OBVIOUS
<1>1. IInv'
  BY StepIInv DEF PageInv
<1>2. CASE FlagNext /\ UNCHANGED readVars
  BY <1>1, <1>2, PageFlagStep
<1>3. CASE WalkNext /\ UNCHANGED flagVars
  BY <1>1, <1>3, StartStep, ReadPageStep, ReadTotalStep, AnswerPageStep DEF WalkNext
<1>4. CASE UNCHANGED <<flagVars, walkVars>>
  <2>1. UNCHANGED <<flagVars, walk, at, offset, page, total, asked, shown>>
    BY <1>4 DEF walkVars
  <2>2. /\ Matching' = Matching /\ (FlagTypeOK <=> FlagTypeOK') /\ (InOrder <=> InOrder')
        /\ Trusting' = Trusting /\ \A r : Rank(r)' = Rank(r)
    BY <2>1, SameLine
  <2>3. TypeOK'
    BY <1>1, <2>1, <2>2 DEF PageInv, TypeOK, IInv, Types
  <2>4. NoPageYet' /\ FullPageFits'
    BY <2>1 DEF PageInv, NoPageYet, FullPageFits, PageRead
  <2>5. WalkInv' = WalkInv
    BY <2>1, <2>2 DEF WalkInv, StillMatching, Ahead, FullIfLeft, CountedIfLeft, NothingSkipped,
       Left, Walking, PageRead
  <2> QED
    BY <1>1, <2>2, <2>3, <2>4, <2>5 DEF PageInv
<1>5. DetailNext => UNCHANGED walkVars
  BY DEF DetailNext, FindTransaction, FindMyTransaction, Detail, ReadEntries
<1> QED
  BY <1>2, <1>3, <1>4, <1>5 DEF Next, vars, readVars

(* Every reachable state is well typed: offsets stay within the table and no  *)
(* page is longer than its limit, because no two rows have the same place.    *)
THEOREM TypeCorrect == Spec => []TypeOK
<1>1. PageInv => TypeOK
  BY DEF PageInv
<1> QED
  BY <1>1, InitPageInv, StepPageInv, PTL DEF Spec

(* A client that walks through a list that no row leaves has been shown every *)
(* row that matched when it began, wherever new rows are inserted between its *)
(* pages, unless it trusts a total that was counted before the page (the      *)
(* repositories' list methods and admin.py); and details are whole.           *)
THEOREM ListsAreShown == Spec => []ViewsAreWhole
<1>1. PageInv => ViewsAreWhole
  <2>1. PageInv => DetailsAreWhole
    BY DEF PageInv, IInv, DetailCompleted, DetailsAreWhole
  <2>2. PageInv => GrowingListsAreShown
    BY DEF PageInv, WalkInv, Trusting, GrowingListsAreShown
  <2> QED
    BY <2>1, <2>2 DEF ViewsAreWhole
<1> QED
  BY <1>1, InitPageInv, StepPageInv, PTL DEF Spec
=============================================================================
