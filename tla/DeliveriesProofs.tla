--------------------------- MODULE DeliveriesProofs ---------------------------
(***************************************************************************)
(* Machine-checked proofs about Deliveries, for every set of records and   *)
(* workers, every number of attempts, batch limit and number of failures.  *)
(***************************************************************************)
EXTENDS Deliveries, FiniteSetTheorems, TLAPS

-----------------------------------------------------------------------------
(* What holds however many tasks of a record there are. *)

Delivering == {"post", "accepted", "refused"}

(* A worker that is delivering has a record ... *)
RecordOfTask ==
    \A w \in Workers :
        /\ worker[w].step \in Delivering \cup {"ack"} => Record(w) \in Records
        /\ worker[w].step \in {"idle", "sweep"} => Record(w) = NoRecord
        /\ worker[w].step # "sweep" => worker[w].todo = {}

(* ... and what it takes for an acceptance is one. *)
AcceptedIsReceived ==
    \A w \in Workers : At(w, "accepted") => Record(w) \in acknowledged

BaseInv == TypeOK /\ RecordOfTask /\ AcceptedIsReceived /\ DeliveredIsReceived

(* What holds while a record has one task at a time.  Where a record has a    *)
(* task, or is in the batch of a sweep, it has no other.                     *)
Untouched(d) ==
    queue[d] = 0 /\ \A w \in Workers : Record(w) # d /\ d \notin worker[w].todo

Exclusive ==
    \A d \in Records, w \in Workers :
        /\ Record(w) = d =>
              /\ queue[d] = 0
              /\ \A v \in Workers : d \notin worker[v].todo /\ (Record(v) = d => v = w)
        /\ d \in worker[w].todo => queue[d] = 0 /\ \A v \in Workers : Record(v) # d

(* A record whose task is not enqueued yet has none. *)
NotStarted ==
    \A d \in Records :
        /\ row[d].status = "absent" \/ d \in creating =>
              Untouched(d) /\ row[d].attempts = 0 /\ row[d].next = "null"
        /\ d \in creating => row[d].status = "pending"

(* A task that delivers has read the row as it is. *)
SeenIsCurrent ==
    \A w \in Workers :
        worker[w].step \in Delivering =>
            /\ row[Record(w)].status # "delivered"
            /\ Seen(w).attempts = row[Record(w)].attempts
            /\ Seen(w).status = row[Record(w)].status

(* A record in a sweep's batch is still pending and due. *)
BatchIsDue == \A w \in Workers : worker[w].todo \subseteq Due

(* After MAX_ATTEMPTS a record is not pending, and only a task that was run  *)
(* again after a failure makes another attempt.                              *)
ExhaustedIsSettled ==
    \A d \in Records :
        row[d].attempts >= MaxAttempts =>
            /\ row[d].status \in {"failed", "delivered"}
            /\ queue[d] > 0 => row[d].attempts < MaxAttempts + faults
            /\ \A w \in Workers :
                  Record(w) = d /\ worker[w].step \in Delivering
                      => row[d].attempts < MaxAttempts + faults

(* Without a failure, no task waits or posts while a delay has to pass. *)
NoTaskInDelay ==
    \A d \in Records :
        row[d].next = "later" /\ faults = 0 =>
            queue[d] = 0 /\ \A w \in Workers : Record(w) = d => ~At(w, "post")

Settled ==
    /\ NotStarted /\ SeenIsCurrent /\ BatchIsDue /\ ExhaustedIsSettled
    /\ AttemptsBounded /\ NoTaskInDelay

SingleInv == Single /\ Settled

IInv == BaseInv /\ SingleInv

-----------------------------------------------------------------------------
(* What TLC's bag of tasks comes to: one place for the task of a record.    *)
TaskOf(d) == {w \in Workers : Record(w) = d}
SweepOf(d) == {w \in Workers : d \in worker[w].todo}

LEMMA OneTask ==
    ASSUME TypeOK, Single
    PROVE  Exclusive
<1> SUFFICES ASSUME NEW d \in Records
             PROVE  /\ queue[d] > 0 => TaskOf(d) = {} /\ SweepOf(d) = {}
                    /\ TaskOf(d) # {} => SweepOf(d) = {}
                    /\ \A w, v \in TaskOf(d) : w = v
                    /\ queue[d] \in Nat
  BY DEF Exclusive, TaskOf, SweepOf
<1>1. /\ IsFiniteSet(TaskOf(d)) /\ IsFiniteSet(SweepOf(d))
      /\ TaskOf(d) \subseteq Workers /\ SweepOf(d) \subseteq Workers
  <2>1. TaskOf(d) \subseteq Workers /\ SweepOf(d) \subseteq Workers
    BY DEF TaskOf, SweepOf
  <2> QED
    BY <2>1, NamesAssumption, FS_Subset
<1>2. Cardinality(TaskOf(d)) \in Nat /\ Cardinality(SweepOf(d)) \in Nat /\ queue[d] \in Nat
  BY <1>1, FS_CardinalityType DEF TypeOK
<1>3. queue[d] + Cardinality(TaskOf(d)) + Cardinality(SweepOf(d)) <= 1
  BY DEF Single, Copies, TaskOf, SweepOf
<1>4. ASSUME NEW S, IsFiniteSet(S), Cardinality(S) <= 1
      PROVE  \A w, v \in S : w = v
  <2> SUFFICES ASSUME NEW w \in S, NEW v \in S, w # v PROVE FALSE
    OBVIOUS
  <2>1. {w, v} \subseteq S /\ IsFiniteSet({w, v})
    BY <1>4, FS_Subset
  <2>2. Cardinality({w, v}) = 2
    <3>1. IsFiniteSet({w}) /\ Cardinality({w}) = 1 /\ v \notin {w} /\ {w} \cup {v} = {w, v}
      BY FS_Singleton
    <3> QED
      BY <3>1, FS_AddElement
  <2>3. Cardinality({w, v}) <= Cardinality(S)
    BY <1>4, <2>1, FS_Subset
  <2> QED
    BY <1>4, <2>2, <2>3, FS_CardinalityType
<1>5. /\ Cardinality(TaskOf(d)) = 0 => TaskOf(d) = {}
      /\ Cardinality(SweepOf(d)) = 0 => SweepOf(d) = {}
  BY <1>1, FS_EmptySet
<1>6. TaskOf(d) # {} => Cardinality(TaskOf(d)) # 0
  BY <1>5
<1>7. /\ queue[d] > 0 => Cardinality(TaskOf(d)) = 0 /\ Cardinality(SweepOf(d)) = 0
      /\ TaskOf(d) # {} => Cardinality(SweepOf(d)) = 0
      /\ Cardinality(TaskOf(d)) <= 1 /\ Cardinality(SweepOf(d)) <= 1
  BY <1>2, <1>3, <1>6
<1> QED
  BY <1>1, <1>2, <1>4, <1>5, <1>7

LEMMA InitIInv == Init => IInv
<1> SUFFICES ASSUME Init PROVE IInv
  OBVIOUS
<1> USE NamesAssumption, BoundsAssumption DEF Init, Absent, Idle, Record, At
<1>1. TypeOK
  BY DEF TypeOK, Row, Times
<1>2. RecordOfTask /\ AcceptedIsReceived /\ DeliveredIsReceived
  BY DEF RecordOfTask, AcceptedIsReceived, DeliveredIsReceived, Delivering
<1>3. \A d \in Records : TaskOf(d) = {} /\ SweepOf(d) = {}
  BY DEF TaskOf, SweepOf
<1>4. Single
  <2>1. Cardinality({}) = 0
    BY FS_EmptySet
  <2>2. \A d \in Records : Copies(d) = queue[d] + Cardinality(TaskOf(d)) + Cardinality(SweepOf(d))
    BY DEF Copies, TaskOf, SweepOf
  <2>3. \A d \in Records : Cardinality(TaskOf(d)) = 0 /\ Cardinality(SweepOf(d)) = 0
    BY <1>3, <2>1, Zenon
  <2> QED
    BY <2>2, <2>3 DEF Single
<1>5. NotStarted /\ SeenIsCurrent /\ BatchIsDue
  BY DEF NotStarted, Untouched, SeenIsCurrent, BatchIsDue, Delivering
<1>6. ExhaustedIsSettled /\ AttemptsBounded /\ NoTaskInDelay
  BY DEF ExhaustedIsSettled, AttemptsBounded, NoTaskInDelay
<1> QED
  BY <1>1, <1>2, <1>4, <1>5, <1>6 DEF IInv, BaseInv, SingleInv, Settled

-----------------------------------------------------------------------------
(* What a step does to a worker: w goes on as q. *)
WorkerRecords ==
    [step : {"idle", "post", "accepted", "refused", "ack", "sweep"},
     record : Records \cup {NoRecord}, seen : Row, todo : SUBSET Records]
Becomes(w, q) == worker' = [worker EXCEPT ![w] = q]

(* A task begins, is answered, writes its row, or ends; so does a sweep. *)
Starts(w, d) ==
    /\ At(w, "idle") /\ queue[d] > 0 /\ queue' = [queue EXCEPT ![d] = @ - 1]
    /\ Becomes(w, [worker[w] EXCEPT !.step = IF Undelivered(d) THEN "post" ELSE "ack",
                                    !.record = d, !.seen = row[d]])
    /\ UNCHANGED <<row, creating, acknowledged, faults>>
Answered(w) ==
    /\ At(w, "post")
    /\ \E step \in {"accepted", "refused"} :
          /\ Becomes(w, [worker[w] EXCEPT !.step = step])
          /\ acknowledged' \in {acknowledged, acknowledged \cup {Record(w)}}
          /\ step = "accepted" => Record(w) \in acknowledged'
    /\ UNCHANGED <<row, creating, queue, faults>>
Writes(w) ==
    /\ worker[w].step \in Delivering
    /\ Becomes(w, [worker[w] EXCEPT !.step = "ack"])
    /\ \E x \in Row :
          LET old == row[Record(w)]
          IN  /\ row' = [row EXCEPT ![Record(w)] = x]
              /\ \/ x.attempts = old.attempts /\ x.next = old.next
                    /\ x.status = Written(old.status, Seen(w).status, "failed")
                 \/ x.attempts = Attempt(w) /\ x.next \in {old.next, "null"} /\ At(w, "accepted")
                    /\ x.status = Written(old.status, Seen(w).status, "delivered")
                 \/ x.attempts = Attempt(w) /\ x.next \in {old.next, "null"}
                    /\ x.status = Written(old.status, Seen(w).status, "failed")
                 \/ x.attempts = Attempt(w) /\ x.attempts < MaxAttempts /\ x.status = old.status
    /\ UNCHANGED <<creating, queue, acknowledged, faults>>
Ends(w) ==
    /\ ~At(w, "idle") /\ Becomes(w, Idle)
    /\ \/ At(w, "ack") /\ UNCHANGED <<queue, faults>>
       \/ /\ faults < MaxFaults /\ faults' = faults + 1
          /\ \/ queue' = queue
             \/ ~At(w, "sweep") /\ queue' = [queue EXCEPT ![Record(w)] = @ + 1]
    /\ UNCHANGED <<row, creating, acknowledged>>
Selects(w) ==
    /\ At(w, "idle")
    /\ \E batch \in SUBSET Due : Becomes(w, [worker[w] EXCEPT !.step = "sweep", !.todo = batch])
    /\ UNCHANGED <<row, creating, queue, acknowledged, faults>>
Requeues(w, d) ==
    /\ At(w, "sweep") /\ d \in worker[w].todo /\ queue' = [queue EXCEPT ![d] = @ + 1]
    /\ \/ Becomes(w, Idle)
       \/ Becomes(w, [worker[w] EXCEPT !.todo = @ \ {d}])
    /\ UNCHANGED <<row, creating, acknowledged, faults>>

WorkerStep(w) ==
    \/ \E d \in Records : Starts(w, d) \/ Requeues(w, d)
    \/ Answered(w) \/ Writes(w) \/ Ends(w) \/ Selects(w)
RecordStep(d) == Create(d) \/ Enqueue(d) \/ Elapse(d)
core == <<row, creating, queue, worker, acknowledged, faults>>

(* A finite batch of a finite set of due records is a part of it. *)
LEMMA NextSteps ==
    ASSUME TypeOK, RecordOfTask, [Next]_vars
    PROVE  \/ \E d \in Records : RecordStep(d)
           \/ \E w \in Workers : WorkerStep(w)
           \/ UNCHANGED core
<1> USE DEF WorkerStep, Becomes, TypeOK
<1>1. ASSUME NEW w \in Workers, NEW d \in Records, Start(w, d)
      PROVE  Starts(w, d)
  BY <1>1 DEF Start, Starts
<1>2. ASSUME NEW w \in Workers, NEW d \in Records, Sweep(w, d)
      PROVE  Requeues(w, d)
  BY <1>2 DEF Sweep, Requeues
<1>3. ASSUME NEW w \in Workers, Post(w)
      PROVE  Answered(w)
  BY <1>3 DEF Post, Answered, To
<1>4. ASSUME NEW w \in Workers, NoUrl(w) \/ Succeed(w) \/ GiveUp(w) \/ Reschedule(w)
      PROVE  Writes(w)
  <2>1. /\ worker[w].step \in Delivering /\ Record(w) \in Records
        /\ Becomes(w, [worker[w] EXCEPT !.step = "ack"])
        /\ UNCHANGED <<creating, queue, acknowledged, faults>>
    BY <1>4 DEF NoUrl, Succeed, GiveUp, Reschedule, At, To, Delivering, RecordOfTask
  <2>2. row[Record(w)] \in Row /\ Seen(w) \in Row /\ Attempt(w) \in Nat
    BY <2>1 DEF Seen, Attempt, Row
  <2>3. CASE NoUrl(w)
    <3> DEFINE x == [row[Record(w)] EXCEPT !.status = Written(@, Seen(w).status, "failed")]
    <3>1. /\ x \in Row /\ x.attempts = row[Record(w)].attempts /\ x.next = row[Record(w)].next
          /\ x.status = Written(row[Record(w)].status, Seen(w).status, "failed")
      BY <2>2 DEF Row, Written
    <3>2. row' = [row EXCEPT ![Record(w)] = x]
      BY <2>3 DEF NoUrl
    <3> HIDE DEF x
    <3> QED
      BY <2>1, <3>1, <3>2 DEF Writes
  <2>4. CASE Succeed(w)
    <3> DEFINE x == [status |-> Written(row[Record(w)].status, Seen(w).status, "delivered"),
                     attempts |-> Attempt(w),
                     next |-> Written(row[Record(w)].next, Seen(w).next, "null")]
    <3>1. /\ x \in Row /\ x.attempts = Attempt(w) /\ x.next \in {row[Record(w)].next, "null"}
          /\ x.status = Written(row[Record(w)].status, Seen(w).status, "delivered")
      BY <2>2 DEF Row, Times, Written
    <3>2. row' = [row EXCEPT ![Record(w)] = x] /\ At(w, "accepted")
      BY <2>4 DEF Succeed
    <3> HIDE DEF x
    <3> QED
      BY <2>1, <3>1, <3>2 DEF Writes
  <2>5. CASE GiveUp(w)
    <3> DEFINE x == [status |-> Written(row[Record(w)].status, Seen(w).status, "failed"),
                     attempts |-> Attempt(w),
                     next |-> Written(row[Record(w)].next, Seen(w).next, "null")]
    <3>1. /\ x \in Row /\ x.attempts = Attempt(w) /\ x.next \in {row[Record(w)].next, "null"}
          /\ x.status = Written(row[Record(w)].status, Seen(w).status, "failed")
      BY <2>2 DEF Row, Times, Written
    <3>2. row' = [row EXCEPT ![Record(w)] = x]
      BY <2>5 DEF GiveUp
    <3> HIDE DEF x
    <3> QED
      BY <2>1, <3>1, <3>2 DEF Writes
  <2>6. CASE Reschedule(w)
    <3> DEFINE x == [row[Record(w)] EXCEPT !.attempts = Attempt(w), !.next = "later"]
    <3>1. x \in Row /\ x.attempts = Attempt(w) /\ x.status = row[Record(w)].status
      BY <2>2 DEF Row, Times
    <3>2. row' = [row EXCEPT ![Record(w)] = x]
      BY <2>6 DEF Reschedule
    <3>3. Attempt(w) < MaxAttempts
      BY <2>2, <2>6, BoundsAssumption DEF Reschedule, Exhausted
    <3> HIDE DEF x
    <3> QED
      BY <2>1, <3>1, <3>2, <3>3 DEF Writes
  <2> QED
    BY <1>4, <2>3, <2>4, <2>5, <2>6
<1>5. ASSUME NEW w \in Workers, Ack(w) \/ TaskFails(w)
      PROVE  Ends(w)
  BY <1>5 DEF Ack, TaskFails, Ends, At
<1>6. ASSUME NEW w \in Workers, StartSweep(w)
      PROVE  Selects(w)
  <2>1. PICK batch \in Batches :
            worker' = [worker EXCEPT ![w].step = "sweep", ![w].todo = batch]
    BY <1>6 DEF StartSweep
  <2>2. batch \in SUBSET Due
    BY DEF Batches
  <2> QED
    BY <1>6, <2>1, <2>2 DEF StartSweep, Selects
<1>7. UpdateWebhook => UNCHANGED core
  BY DEF UpdateWebhook, core
<1>8. UNCHANGED vars => UNCHANGED core
  BY DEF vars, core
<1> HIDE DEF WorkerStep, Becomes, TypeOK
<1> QED
  BY <1>1, <1>2, <1>3, <1>4, <1>5, <1>6, <1>7, <1>8 DEF Next, Work, WorkerStep, RecordStep

-----------------------------------------------------------------------------
(* However many tasks a record has. *)
CoreTypes ==
    /\ row \in [Records -> Row]
    /\ creating \subseteq Records
    /\ queue \in [Records -> Nat]
    /\ worker \in [Workers -> WorkerRecords]
    /\ acknowledged \subseteq Records
    /\ faults \in 0 .. MaxFaults
CoreInv == CoreTypes /\ RecordOfTask /\ AcceptedIsReceived /\ DeliveredIsReceived

(* What a worker may become when it goes on. *)
Sound(q) ==
    /\ q \in WorkerRecords
    /\ q.step \in Delivering \cup {"ack"} => q.record \in Records
    /\ q.step \in {"idle", "sweep"} => q.record = NoRecord
    /\ q.step # "sweep" => q.todo = {}

LEMMA WorkersSound ==
    ASSUME CoreInv, NEW w \in Workers, NEW q, Sound(q), Becomes(w, q),
           acknowledged \subseteq acknowledged', acknowledged' \subseteq Records,
           q.step = "accepted" => q.record \in acknowledged'
    PROVE  /\ worker' \in [Workers -> WorkerRecords]
           /\ RecordOfTask' /\ AcceptedIsReceived'
<1>1. worker' \in [Workers -> WorkerRecords]
  BY DEF CoreInv, CoreTypes, Sound, Becomes
<1>2. worker'[w] = q /\ \A v \in Workers \ {w} : worker'[v] = worker[v]
  BY DEF CoreInv, CoreTypes, Becomes
<1>3. RecordOfTask'
  BY <1>2 DEF CoreInv, RecordOfTask, Record, Sound
<1>4. AcceptedIsReceived'
  BY <1>2 DEF CoreInv, AcceptedIsReceived, Record, At
<1> QED
  BY <1>1, <1>3, <1>4

LEMMA WorkerStepCore ==
    ASSUME CoreInv, NEW w \in Workers, WorkerStep(w)
    PROVE  CoreInv'
<1>1. /\ worker[w] \in WorkerRecords /\ Sound(worker[w])
      /\ row \in [Records -> Row] /\ queue \in [Records -> Nat]
      /\ creating \subseteq Records /\ acknowledged \subseteq Records
      /\ faults \in 0 .. MaxFaults /\ MaxFaults \in Nat
  BY BoundsAssumption DEF CoreInv, CoreTypes, RecordOfTask, Record, Sound
<1>2. DeliveredIsReceived /\ AcceptedIsReceived
  BY DEF CoreInv
<1>3. Sound(Idle)
  BY DEF Sound, WorkerRecords, Idle, Absent, Row, Times, Delivering
<1>4. ASSUME NEW d \in Records, Starts(w, d)
      PROVE  CoreInv'
  <2> DEFINE q == [worker[w] EXCEPT !.step = IF Undelivered(d) THEN "post" ELSE "ack",
                                    !.record = d, !.seen = row[d]]
  <2>1. row[d] \in Row /\ worker[w].todo = {}
    BY <1>1, <1>4 DEF Starts, At, Sound
  <2>2. Sound(q) /\ q.step # "accepted"
    BY <1>1, <2>1 DEF Sound, WorkerRecords, Delivering
  <2>3. Becomes(w, q) /\ UNCHANGED <<row, creating, acknowledged, faults>>
    BY <1>4 DEF Starts
  <2>4. queue' \in [Records -> Nat]
    BY <1>1, <1>4 DEF Starts
  <2> HIDE DEF q
  <2>5. worker' \in [Workers -> WorkerRecords] /\ RecordOfTask' /\ AcceptedIsReceived'
    BY <1>1, <2>2, <2>3, WorkersSound
  <2> QED
    BY <1>1, <1>2, <2>3, <2>4, <2>5 DEF CoreInv, CoreTypes, DeliveredIsReceived
<1>5. CASE Answered(w)
  <2>1. PICK step \in {"accepted", "refused"} :
            /\ Becomes(w, [worker[w] EXCEPT !.step = step])
            /\ acknowledged' \in {acknowledged, acknowledged \cup {Record(w)}}
            /\ step = "accepted" => Record(w) \in acknowledged'
    BY <1>5 DEF Answered
  <2> DEFINE q == [worker[w] EXCEPT !.step = step]
  <2>2. Sound(q) /\ q.step = step /\ q.record = Record(w) /\ Record(w) \in Records
    BY <1>1, <1>5 DEF Answered, At, Sound, WorkerRecords, Delivering, Record
  <2>3. /\ Becomes(w, q) /\ UNCHANGED <<row, creating, queue, faults>>
        /\ acknowledged \subseteq acknowledged' /\ acknowledged' \subseteq Records
    BY <1>1, <1>5, <2>1, <2>2 DEF Answered
  <2> HIDE DEF q
  <2>4. worker' \in [Workers -> WorkerRecords] /\ RecordOfTask' /\ AcceptedIsReceived'
    BY <2>1, <2>2, <2>3, WorkersSound
  <2> QED
    BY <1>1, <1>2, <2>3, <2>4 DEF CoreInv, CoreTypes, DeliveredIsReceived
<1>6. CASE Writes(w)
  <2> DEFINE q == [worker[w] EXCEPT !.step = "ack"]
  <2>1. Sound(q) /\ q.step = "ack" /\ Record(w) \in Records
    BY <1>1, <1>6 DEF Writes, Sound, WorkerRecords, Delivering, Record
  <2>2. Becomes(w, q) /\ UNCHANGED <<creating, queue, acknowledged, faults>>
    BY <1>6 DEF Writes
  <2> HIDE DEF q
  <2>3. worker' \in [Workers -> WorkerRecords] /\ RecordOfTask' /\ AcceptedIsReceived'
    BY <1>1, <2>1, <2>2, WorkersSound
  <2>4. PICK x \in Row :
            /\ row' = [row EXCEPT ![Record(w)] = x]
            /\ x.status = "delivered" =>
                  At(w, "accepted") \/ row[Record(w)].status = "delivered"
    BY <1>6 DEF Writes, Written
  <2>5. DeliveredIsReceived'
    BY <1>1, <1>2, <2>1, <2>2, <2>4 DEF DeliveredIsReceived, AcceptedIsReceived
  <2> QED
    BY <1>1, <2>2, <2>3, <2>4, <2>5 DEF CoreInv, CoreTypes
<1>7. CASE Ends(w)
  <2>1. /\ Becomes(w, Idle) /\ UNCHANGED <<row, creating, acknowledged>>
        /\ faults' \in 0 .. MaxFaults /\ Idle.step = "idle"
    BY <1>1, <1>7 DEF Ends, Idle
  <2>2. queue' \in [Records -> Nat]
    BY <1>1, <1>7 DEF Ends
  <2>3. worker' \in [Workers -> WorkerRecords] /\ RecordOfTask' /\ AcceptedIsReceived'
    BY <1>1, <1>3, <2>1, WorkersSound
  <2> QED
    BY <1>1, <1>2, <2>1, <2>2, <2>3 DEF CoreInv, CoreTypes, DeliveredIsReceived
<1>8. CASE Selects(w)
  <2>1. PICK batch \in SUBSET Due :
            Becomes(w, [worker[w] EXCEPT !.step = "sweep", !.todo = batch])
    BY <1>8 DEF Selects
  <2> DEFINE q == [worker[w] EXCEPT !.step = "sweep", !.todo = batch]
  <2>2. Sound(q) /\ q.step = "sweep"
    BY <1>1, <1>8 DEF Selects, At, Sound, WorkerRecords, Delivering, Due
  <2>3. Becomes(w, q) /\ UNCHANGED <<row, creating, queue, acknowledged, faults>>
    BY <1>8, <2>1 DEF Selects
  <2> HIDE DEF q
  <2>4. worker' \in [Workers -> WorkerRecords] /\ RecordOfTask' /\ AcceptedIsReceived'
    BY <1>1, <2>2, <2>3, WorkersSound
  <2> QED
    BY <1>1, <1>2, <2>3, <2>4 DEF CoreInv, CoreTypes, DeliveredIsReceived
<1>9. ASSUME NEW d \in Records, Requeues(w, d)
      PROVE  CoreInv'
  <2> DEFINE q == [worker[w] EXCEPT !.todo = @ \ {d}]
  <2>1. Sound(q) /\ q.step = "sweep"
    BY <1>1, <1>9 DEF Requeues, At, Sound, WorkerRecords, Delivering
  <2>2. /\ Becomes(w, Idle) \/ Becomes(w, q)
        /\ UNCHANGED <<row, creating, acknowledged, faults>>
    BY <1>9 DEF Requeues
  <2>3. queue' \in [Records -> Nat]
    BY <1>1, <1>9 DEF Requeues
  <2>4. Idle.step = "idle"
    BY DEF Idle
  <2> HIDE DEF q
  <2>5. worker' \in [Workers -> WorkerRecords] /\ RecordOfTask' /\ AcceptedIsReceived'
    BY <1>1, <1>3, <2>1, <2>2, <2>4, WorkersSound
  <2> QED
    BY <1>1, <1>2, <2>2, <2>3, <2>5 DEF CoreInv, CoreTypes, DeliveredIsReceived
<1> QED
  BY <1>4, <1>5, <1>6, <1>7, <1>8, <1>9 DEF WorkerStep

LEMMA RecordStepCore ==
    ASSUME CoreInv, NEW d \in Records, RecordStep(d)
    PROVE  CoreInv'
<1> USE DEF CoreInv, CoreTypes
<1>1. UNCHANGED <<worker, acknowledged, faults>>
  BY DEF RecordStep, Create, Enqueue, Elapse
<1>2. creating' \subseteq Records /\ queue' \in [Records -> Nat]
  BY DEF RecordStep, Create, Enqueue, Elapse
<1>3. PICK q \in Row : row' = [row EXCEPT ![d] = q] /\ q.status \in {row[d].status, "pending"}
  <2> DEFINE made == [row[d] EXCEPT !.status = "pending"]
             late == [row[d] EXCEPT !.next = "due"]
  <2>1. row[d] \in Row
    OBVIOUS
  <2>2. /\ made \in Row /\ made.status = "pending"
        /\ late \in Row /\ late.status = row[d].status
    BY <2>1 DEF Row, Times
  <2>3. \/ row' = [row EXCEPT ![d] = made]
        \/ row' = [row EXCEPT ![d] = late]
        \/ row' = [row EXCEPT ![d] = row[d]]
    BY DEF RecordStep, Create, Enqueue, Elapse
  <2> HIDE DEF made, late
  <2> QED
    BY <2>1, <2>2, <2>3
<1>4. row' \in [Records -> Row] /\ DeliveredIsReceived'
  BY <1>1, <1>3 DEF DeliveredIsReceived
<1> QED
  BY <1>1, <1>2, <1>3, <1>4 DEF RecordOfTask, AcceptedIsReceived, Record, At

LEMMA StepBaseInv == BaseInv /\ [Next]_vars => BaseInv'
<1> SUFFICES ASSUME BaseInv, [Next]_vars PROVE BaseInv'
  OBVIOUS
<1>1. CoreInv /\ TypeOK /\ RecordOfTask
  BY DEF BaseInv, CoreInv, CoreTypes, TypeOK, WorkerRecords
<1>2. ASSUME UNCHANGED core PROVE CoreInv'
  BY <1>1, <1>2 DEF core, CoreInv, CoreTypes, RecordOfTask, AcceptedIsReceived,
      DeliveredIsReceived, Record, At
<1>3. CoreInv'
  BY <1>1, <1>2, NextSteps, WorkerStepCore, RecordStepCore
<1>4. url' \in BOOLEAN
  <2>1. url \in BOOLEAN
    BY <1>1 DEF TypeOK
  <2>2. UNCHANGED url \/ UpdateWebhook
    BY DEF Next, vars, Create, Enqueue, Elapse, Work, Start, Sweep, NoUrl, Post, Succeed,
        GiveUp, Reschedule, Ack, StartSweep, TaskFails
  <2> QED
    BY <2>1, <2>2 DEF UpdateWebhook
<1> QED
  BY <1>3, <1>4 DEF BaseInv, CoreInv, CoreTypes, TypeOK, WorkerRecords

-----------------------------------------------------------------------------
(* While a record has one task at a time. *)
LEMMA OneGoesOn ==
    ASSUME CoreInv, NEW w \in Workers, NEW q, Becomes(w, q)
    PROVE  worker'[w] = q /\ \A v \in Workers \ {w} : worker'[v] = worker[v]
BY DEF CoreInv, CoreTypes, Becomes

LEMMA StartsSettled ==
    ASSUME CoreInv, Exclusive, Settled, NEW w \in Workers, NEW d \in Records, Starts(w, d)
    PROVE  Settled'
<1> DEFINE q == [worker[w] EXCEPT !.step = IF Undelivered(d) THEN "post" ELSE "ack",
                                  !.record = d, !.seen = row[d]]
<1>1. /\ worker[w] \in WorkerRecords /\ queue \in [Records -> Nat]
      /\ worker[w].step = "idle" /\ worker[w].todo = {}
  BY DEF CoreInv, CoreTypes, RecordOfTask, Starts, At
<1>2. /\ q.step \in {"post", "ack"} /\ (q.step = "post" => row[d].status # "delivered")
      /\ q.record = d /\ q.seen = row[d] /\ q.todo = {}
  BY <1>1 DEF WorkerRecords, Undelivered
<1>3. Becomes(w, q) /\ UNCHANGED <<row, creating, faults>>
  BY DEF Starts
<1> HIDE DEF q
<1>4. worker'[w] = q /\ \A v \in Workers \ {w} : worker'[v] = worker[v]
  BY <1>3, OneGoesOn
<1>5. /\ queue[d] > 0 /\ queue[d] \in Nat /\ queue'[d] = queue[d] - 1
      /\ \A e \in Records \ {d} : queue'[e] = queue[e]
  BY <1>1 DEF Starts
<1>6. \A v \in Workers : Record(v) # d /\ d \notin worker[v].todo
  BY <1>5 DEF Exclusive
<1>7. row[d].status # "absent" /\ d \notin creating
  BY <1>5 DEF Settled, NotStarted, Untouched
<1>8. NotStarted'
  BY <1>2, <1>3, <1>4, <1>5, <1>7 DEF Settled, NotStarted, Untouched, Record
<1>9. SeenIsCurrent'
  BY <1>2, <1>3, <1>4 DEF Settled, SeenIsCurrent, Record, Seen, Delivering
<1>10. BatchIsDue'
  BY <1>2, <1>3, <1>4 DEF Settled, BatchIsDue, Due
<1>11. ExhaustedIsSettled'
  BY <1>2, <1>3, <1>4, <1>5, <1>6 DEF Settled, ExhaustedIsSettled, Record
<1>12. AttemptsBounded'
  BY <1>3 DEF Settled, AttemptsBounded
<1>13. NoTaskInDelay'
  BY <1>2, <1>3, <1>4, <1>5 DEF Settled, NoTaskInDelay, Record, At
<1> QED
  BY <1>8, <1>9, <1>10, <1>11, <1>12, <1>13 DEF Settled

LEMMA AnsweredSettled ==
    ASSUME CoreInv, Exclusive, Settled, NEW w \in Workers, Answered(w)
    PROVE  Settled'
<1>1. PICK step \in {"accepted", "refused"} : Becomes(w, [worker[w] EXCEPT !.step = step])
  BY DEF Answered
<1> DEFINE q == [worker[w] EXCEPT !.step = step]
<1>2. /\ worker[w] \in WorkerRecords /\ worker[w].step = "post"
      /\ UNCHANGED <<row, creating, queue, faults>>
  BY DEF CoreInv, CoreTypes, Answered, At
<1>3. /\ q.step = step /\ q.record = worker[w].record /\ q.seen = worker[w].seen
      /\ q.todo = worker[w].todo
  BY <1>2 DEF WorkerRecords
<1> HIDE DEF q
<1>4. worker'[w] = q /\ \A v \in Workers \ {w} : worker'[v] = worker[v]
  BY <1>1, OneGoesOn DEF q
<1>5. NotStarted'
  BY <1>2, <1>3, <1>4 DEF Settled, NotStarted, Untouched, Record
<1>6. SeenIsCurrent'
  BY <1>2, <1>3, <1>4 DEF Settled, SeenIsCurrent, Record, Seen, Delivering
<1>7. BatchIsDue'
  BY <1>2, <1>3, <1>4 DEF Settled, BatchIsDue, Due
<1>8. ExhaustedIsSettled'
  BY <1>2, <1>3, <1>4 DEF Settled, ExhaustedIsSettled, Record, Delivering
<1>9. AttemptsBounded'
  BY <1>2 DEF Settled, AttemptsBounded
<1>10. NoTaskInDelay'
  BY <1>2, <1>3, <1>4 DEF Settled, NoTaskInDelay, Record, At
<1> QED
  BY <1>5, <1>6, <1>7, <1>8, <1>9, <1>10 DEF Settled

LEMMA WritesSettled ==
    ASSUME CoreInv, Exclusive, Settled, NEW w \in Workers, Writes(w)
    PROVE  Settled'
<1> DEFINE d == Record(w)
           q == [worker[w] EXCEPT !.step = "ack"]
<1>1. /\ worker[w] \in WorkerRecords /\ worker[w].step \in Delivering /\ d \in Records
      /\ UNCHANGED <<creating, queue, faults>> /\ faults \in Nat /\ MaxAttempts \in Nat
      /\ row \in [Records -> Row] /\ row[d] \in Row
  BY BoundsAssumption DEF CoreInv, CoreTypes, RecordOfTask, Writes
<1>2. q.step = "ack" /\ q.record = d /\ q.todo = worker[w].todo
  BY <1>1 DEF WorkerRecords, Record
<1> HIDE DEF q
<1>3. worker'[w] = q /\ \A v \in Workers \ {w} : worker'[v] = worker[v]
  BY OneGoesOn DEF Writes, q
<1>4. /\ queue[d] = 0 /\ \A v \in Workers : d \notin worker[v].todo /\ (Record(v) = d => v = w)
      /\ row[d].status # "absent" /\ d \notin creating
  BY <1>1 DEF Exclusive, Settled, NotStarted, Untouched
<1>5. /\ row[d].status # "delivered"
      /\ Seen(w).status = row[d].status /\ Attempt(w) = row[d].attempts + 1
  BY <1>1 DEF Settled, SeenIsCurrent, Attempt
<1>6. PICK x \in Row :
          /\ row' = [row EXCEPT ![d] = x]
          /\ x.attempts \in {row[d].attempts, row[d].attempts + 1}
          /\ \/ x.status \in {"failed", "delivered"}
             \/ x.status = row[d].status /\ x.attempts < MaxAttempts
  <2>1. PICK x \in Row :
            /\ row' = [row EXCEPT ![Record(w)] = x]
            /\ \/ x.attempts = row[Record(w)].attempts
                  /\ x.status = Written(row[Record(w)].status, Seen(w).status, "failed")
               \/ /\ x.attempts = Attempt(w)
                  /\ x.status \in {Written(row[Record(w)].status, Seen(w).status, "delivered"),
                                   Written(row[Record(w)].status, Seen(w).status, "failed")}
               \/ x.attempts = Attempt(w) /\ x.attempts < MaxAttempts
                  /\ x.status = row[Record(w)].status
    BY DEF Writes
  <2>2. Written(row[d].status, Seen(w).status, "failed") = "failed"
    BY <1>5 DEF Written
  <2>3. Written(row[d].status, Seen(w).status, "delivered") = "delivered"
    BY <1>5 DEF Written
  <2>4. /\ row' = [row EXCEPT ![d] = x]
        /\ x.attempts \in {row[d].attempts, row[d].attempts + 1}
    BY <1>5, <2>1
  <2>5. \/ x.status \in {"failed", "delivered"}
        \/ x.status = row[d].status /\ x.attempts < MaxAttempts
    BY <2>1, <2>2, <2>3
  <2> QED
    BY <2>4, <2>5
<1>7. row'[d] = x /\ \A e \in Records \ {d} : row'[e] = row[e]
  BY <1>1, <1>6
<1>8. x.status # "absent"
  BY <1>4, <1>6
<1>9. row[d].attempts \in Nat /\ row[d].attempts < MaxAttempts + faults
  BY <1>1 DEF Settled, ExhaustedIsSettled, Row
<1> HIDE DEF d
<1>10. NotStarted'
  BY <1>2, <1>3, <1>1, <1>4, <1>7, <1>8 DEF Settled, NotStarted, Untouched, Record
<1>11. SeenIsCurrent'
  BY <1>2, <1>3, <1>4, <1>7 DEF Settled, SeenIsCurrent, Record, Seen, Delivering, CoreInv,
      RecordOfTask
<1>12. BatchIsDue'
  BY <1>2, <1>3, <1>4, <1>7 DEF Settled, BatchIsDue, Due
<1>13. ExhaustedIsSettled'
  <2> SUFFICES ASSUME NEW e \in Records, row'[e].attempts >= MaxAttempts
               PROVE  /\ row'[e].status \in {"failed", "delivered"}
                      /\ queue'[e] > 0 => row'[e].attempts < MaxAttempts + faults'
                      /\ \A v \in Workers :
                            worker'[v].record = e /\ worker'[v].step \in Delivering
                                => row'[e].attempts < MaxAttempts + faults'
    BY DEF ExhaustedIsSettled, Record
  <2>1. CASE e = d
    <3>1. row'[e].status \in {"failed", "delivered"} /\ ~(queue'[e] > 0)
      <4>1. ~(x.attempts < MaxAttempts) /\ ~(queue'[e] > 0)
        BY <1>1, <1>4, <1>7, <2>1 DEF Row
      <4> QED
        BY <1>6, <1>7, <2>1, <4>1
    <3>2. \A v \in Workers : worker'[v].record = e => worker'[v].step \notin Delivering
      BY <1>2, <1>3, <1>4, <2>1 DEF Record, Delivering
    <3> QED
      BY <3>1, <3>2
  <2>2. CASE e # d
    BY <1>1, <1>2, <1>3, <1>7, <2>2 DEF Settled, ExhaustedIsSettled, Record, Delivering
  <2> QED
    BY <2>1, <2>2
<1>14. AttemptsBounded'
  BY <1>1, <1>6, <1>7, <1>9 DEF Settled, AttemptsBounded
<1>15. NoTaskInDelay'
  BY <1>1, <1>2, <1>3, <1>4, <1>7 DEF Settled, NoTaskInDelay, Record, At
<1> QED
  BY <1>10, <1>11, <1>12, <1>13, <1>14, <1>15 DEF Settled

LEMMA EndsSettled ==
    ASSUME CoreInv, Exclusive, Settled, NEW w \in Workers, Ends(w)
    PROVE  Settled'
<1>1. /\ UNCHANGED <<row, creating>> /\ row \in [Records -> Row] /\ queue \in [Records -> Nat]
      /\ faults \in Nat /\ MaxAttempts \in Nat
      /\ faults' = faults \/ faults' = faults + 1
  BY BoundsAssumption DEF CoreInv, CoreTypes, Ends
<1>2. /\ Idle.step = "idle" /\ Idle.record = NoRecord /\ Idle.todo = {}
  BY DEF Idle
<1>3. worker'[w] = Idle /\ \A v \in Workers \ {w} : worker'[v] = worker[v]
  BY OneGoesOn DEF Ends
<1>4. \A d \in Records :
          \/ queue'[d] = queue[d]
          \/ faults' = faults + 1 /\ d = Record(w) /\ queue'[d] = queue[d] + 1
  BY <1>1 DEF Ends
<1>5. \A d \in Records : row[d].attempts \in Nat /\ queue[d] \in Nat /\ d # NoRecord
  BY <1>1, NamesAssumption DEF Row
<1> HIDE DEF Idle
<1>6. NotStarted'
  BY <1>1, <1>2, <1>3, <1>4, <1>5 DEF Settled, NotStarted, Untouched, Record
<1>7. SeenIsCurrent'
  BY <1>1, <1>2, <1>3 DEF Settled, SeenIsCurrent, Record, Seen, Delivering
<1>8. BatchIsDue'
  BY <1>1, <1>2, <1>3 DEF Settled, BatchIsDue, Due
<1>9. AttemptsBounded'
  BY <1>1, <1>5 DEF Settled, AttemptsBounded
<1>10. ExhaustedIsSettled'
  BY <1>1, <1>2, <1>3, <1>4, <1>5 DEF Settled, AttemptsBounded, ExhaustedIsSettled, Record,
      Delivering
<1>11. NoTaskInDelay'
  BY <1>1, <1>2, <1>3, <1>4, <1>5 DEF Settled, NoTaskInDelay, Record, At
<1> QED
  BY <1>6, <1>7, <1>8, <1>9, <1>10, <1>11 DEF Settled

LEMMA SelectsSettled ==
    ASSUME CoreInv, Exclusive, Settled, NEW w \in Workers, Selects(w)
    PROVE  Settled'
<1>1. PICK batch \in SUBSET Due :
          Becomes(w, [worker[w] EXCEPT !.step = "sweep", !.todo = batch])
  BY DEF Selects
<1> DEFINE q == [worker[w] EXCEPT !.step = "sweep", !.todo = batch]
<1>2. worker[w] \in WorkerRecords /\ UNCHANGED <<row, creating, queue, faults>>
  BY DEF CoreInv, CoreTypes, Selects
<1>3. q.step = "sweep" /\ q.record = worker[w].record /\ q.todo = batch
  BY <1>2 DEF WorkerRecords
<1> HIDE DEF q
<1>4. worker'[w] = q /\ \A v \in Workers \ {w} : worker'[v] = worker[v]
  BY <1>1, OneGoesOn DEF q
<1>5. \A d \in Due : d \notin creating /\ row[d].status # "absent"
  BY DEF Due, Settled, NotStarted
<1>6. NotStarted'
  BY <1>2, <1>3, <1>4, <1>5 DEF Settled, NotStarted, Untouched, Record
<1>7. SeenIsCurrent'
  BY <1>2, <1>3, <1>4 DEF Settled, SeenIsCurrent, Record, Seen, Delivering
<1>8. BatchIsDue'
  BY <1>2, <1>3, <1>4 DEF Settled, BatchIsDue, Due
<1>9. ExhaustedIsSettled'
  BY <1>2, <1>3, <1>4 DEF Settled, ExhaustedIsSettled, Record, Delivering
<1>10. AttemptsBounded'
  BY <1>2 DEF Settled, AttemptsBounded
<1>11. NoTaskInDelay'
  BY <1>2, <1>3, <1>4 DEF Settled, NoTaskInDelay, Record, At
<1> QED
  BY <1>6, <1>7, <1>8, <1>9, <1>10, <1>11 DEF Settled

LEMMA RequeuesSettled ==
    ASSUME CoreInv, Exclusive, Settled, NEW w \in Workers, NEW d \in Records, Requeues(w, d)
    PROVE  Settled'
<1> DEFINE q == [worker[w] EXCEPT !.todo = @ \ {d}]
<1>1. /\ worker[w] \in WorkerRecords /\ worker[w].step = "sweep" /\ worker[w].record = NoRecord
      /\ UNCHANGED <<row, creating, faults>> /\ row \in [Records -> Row]
      /\ queue \in [Records -> Nat] /\ d \in worker[w].todo /\ MaxAttempts \in Nat
  BY BoundsAssumption DEF CoreInv, CoreTypes, RecordOfTask, Record, Requeues, At
<1>2. q.step = "sweep" /\ q.record = NoRecord /\ q.todo = worker[w].todo \ {d}
  BY <1>1 DEF WorkerRecords
<1>3. Idle.step = "idle" /\ Idle.record = NoRecord /\ Idle.todo = {}
  BY DEF Idle
<1> HIDE DEF q, Idle
<1>4. /\ worker'[w] \in {Idle, q}
      /\ \A v \in Workers \ {w} : worker'[v] = worker[v]
  BY OneGoesOn DEF Requeues, q
<1>5. /\ worker'[w].step \in {"idle", "sweep"} /\ worker'[w].record = NoRecord
      /\ worker'[w].todo \subseteq worker[w].todo
  BY <1>2, <1>3, <1>4
<1>6. /\ queue'[d] = queue[d] + 1 /\ \A e \in Records \ {d} : queue'[e] = queue[e]
  BY <1>1 DEF Requeues
<1>7. d \in Due /\ row[d].attempts \in Nat
  BY <1>1 DEF Settled, BatchIsDue, Row
<1>8. d \notin creating /\ row[d].status # "absent"
  BY <1>7 DEF Due, Settled, NotStarted
<1>9. \A e \in Records : e # NoRecord
  BY NamesAssumption
<1>10. NotStarted'
  BY <1>1, <1>4, <1>5, <1>6, <1>8, <1>9 DEF Settled, NotStarted, Untouched, Record
<1>11. SeenIsCurrent'
  BY <1>1, <1>4, <1>5 DEF Settled, SeenIsCurrent, Record, Seen, Delivering
<1>12. BatchIsDue'
  BY <1>1, <1>4, <1>5 DEF Settled, BatchIsDue, Due
<1>13. ExhaustedIsSettled'
  BY <1>1, <1>4, <1>5, <1>6, <1>7, <1>9 DEF Settled, ExhaustedIsSettled, Record, Delivering, Due
<1>14. AttemptsBounded'
  BY <1>1 DEF Settled, AttemptsBounded
<1>15. NoTaskInDelay'
  BY <1>1, <1>4, <1>5, <1>6, <1>7, <1>9 DEF Settled, NoTaskInDelay, Record, At, Due
<1> QED
  BY <1>10, <1>11, <1>12, <1>13, <1>14, <1>15 DEF Settled

LEMMA RecordStepSettled ==
    ASSUME CoreInv, Settled, NEW d \in Records, RecordStep(d)
    PROVE  Settled'
<1>1. /\ UNCHANGED <<worker, faults>> /\ row \in [Records -> Row] /\ row[d] \in Row
      /\ queue \in [Records -> Nat] /\ MaxAttempts \in Nat \ {0}
  BY BoundsAssumption DEF CoreInv, CoreTypes, RecordStep, Create, Enqueue, Elapse
<1>2. CASE Create(d)
  <2> DEFINE q == [row[d] EXCEPT !.status = "pending"]
  <2>1. q.status = "pending" /\ q.attempts = row[d].attempts /\ q.next = row[d].next
    BY <1>1 DEF Row
  <2>2. /\ row[d].status = "absent" /\ creating' = creating \cup {d} /\ UNCHANGED queue
        /\ row' = [row EXCEPT ![d] = q]
    BY <1>2 DEF Create
  <2> HIDE DEF q
  <2>3. row'[d] = q /\ \A e \in Records \ {d} : row'[e] = row[e]
    BY <1>1, <2>2
  <2>4. Untouched(d) /\ row[d].attempts = 0 /\ row[d].next = "null"
    BY <2>2 DEF Settled, NotStarted
  <2>5. NotStarted'
    BY <1>1, <2>1, <2>2, <2>3, <2>4 DEF Settled, NotStarted, Untouched, Record
  <2>6. SeenIsCurrent'
    BY <1>1, <2>3, <2>4 DEF Settled, SeenIsCurrent, Record, Seen, Delivering, Untouched, CoreInv,
        RecordOfTask
  <2>7. BatchIsDue'
    BY <1>1, <2>3, <2>4 DEF Settled, BatchIsDue, Due, Untouched
  <2>8. ExhaustedIsSettled'
    BY <1>1, <2>1, <2>2, <2>3, <2>4 DEF Settled, ExhaustedIsSettled, Record
  <2>9. AttemptsBounded'
    BY <1>1, <2>1, <2>3 DEF Settled, AttemptsBounded
  <2>10. NoTaskInDelay'
    BY <1>1, <2>1, <2>2, <2>3, <2>4 DEF Settled, NoTaskInDelay, Record, At
  <2> QED
    BY <2>5, <2>6, <2>7, <2>8, <2>9, <2>10 DEF Settled
<1>3. CASE Enqueue(d)
  <2>1. /\ d \in creating /\ creating' = creating \ {d} /\ UNCHANGED row
        /\ queue' \in {queue, [queue EXCEPT ![d] = @ + 1]}
    BY <1>3 DEF Enqueue
  <2>2. \A e \in Records \ {d} : queue'[e] = queue[e]
    BY <1>1, <2>1
  <2>3. row[d].attempts = 0 /\ row[d].next = "null" /\ row[d].status = "pending"
    BY <2>1 DEF Settled, NotStarted
  <2>4. NotStarted'
    BY <1>1, <2>1, <2>2, <2>3 DEF Settled, NotStarted, Untouched, Record
  <2>5. SeenIsCurrent'
    BY <1>1, <2>1 DEF Settled, SeenIsCurrent, Record, Seen
  <2>6. BatchIsDue'
    BY <1>1, <2>1 DEF Settled, BatchIsDue, Due
  <2>7. ExhaustedIsSettled'
    BY <1>1, <2>1, <2>2, <2>3 DEF Settled, ExhaustedIsSettled, Record
  <2>8. AttemptsBounded'
    BY <1>1, <2>1 DEF Settled, AttemptsBounded
  <2>9. NoTaskInDelay'
    BY <1>1, <2>1, <2>2, <2>3 DEF Settled, NoTaskInDelay, Record, At
  <2> QED
    BY <2>4, <2>5, <2>6, <2>7, <2>8, <2>9 DEF Settled
<1>4. CASE Elapse(d)
  <2> DEFINE q == [row[d] EXCEPT !.next = "due"]
  <2>1. q.status = row[d].status /\ q.attempts = row[d].attempts /\ q.next = "due"
    BY <1>1 DEF Row
  <2>2. row[d].next = "later" /\ UNCHANGED <<queue, creating>> /\ row' = [row EXCEPT ![d] = q]
    BY <1>4 DEF Elapse
  <2> HIDE DEF q
  <2>3. row'[d] = q /\ \A e \in Records \ {d} : row'[e] = row[e]
    BY <1>1, <2>2
  <2>4. \A e \in Records : /\ row'[e].status = row[e].status /\ row'[e].attempts = row[e].attempts
                           /\ row'[e].next = "later" => row[e].next = "later"
    BY <2>1, <2>3
  <2>5. NotStarted'
    BY <1>1, <2>2, <2>3, <2>4 DEF Settled, NotStarted, Untouched, Record
  <2>6. SeenIsCurrent'
    BY <1>1, <2>4 DEF Settled, SeenIsCurrent, Record, Seen, Delivering, CoreInv, RecordOfTask
  <2>7. BatchIsDue'
    BY <1>1, <2>2, <2>3 DEF Settled, BatchIsDue, Due
  <2>8. ExhaustedIsSettled'
    BY <1>1, <2>2, <2>4 DEF Settled, ExhaustedIsSettled, Record
  <2>9. AttemptsBounded'
    BY <1>1, <2>4 DEF Settled, AttemptsBounded
  <2>10. NoTaskInDelay'
    BY <1>1, <2>2, <2>4 DEF Settled, NoTaskInDelay, Record, At
  <2> QED
    BY <2>5, <2>6, <2>7, <2>8, <2>9, <2>10 DEF Settled
<1> QED
  BY <1>2, <1>3, <1>4 DEF RecordStep

LEMMA WorkerStepSettled ==
    ASSUME CoreInv, Exclusive, Settled, NEW w \in Workers, WorkerStep(w)
    PROVE  Settled'
BY StartsSettled, RequeuesSettled, AnsweredSettled, WritesSettled, EndsSettled,
   SelectsSettled DEF WorkerStep

LEMMA StepIInv == IInv /\ [Next /\ Single']_vars => IInv'
<1> SUFFICES ASSUME IInv, [Next /\ Single']_vars PROVE IInv'
  OBVIOUS
<1>1. [Next]_vars
  OBVIOUS
<1>2. BaseInv /\ TypeOK /\ RecordOfTask /\ Single /\ Settled
  BY DEF IInv, SingleInv, BaseInv
<1>3. CoreInv /\ Exclusive
  BY <1>2, OneTask DEF BaseInv, CoreInv, CoreTypes, TypeOK, WorkerRecords
<1>4. BaseInv'
  BY <1>1, <1>2, StepBaseInv
<1>5. ASSUME UNCHANGED core PROVE Settled'
  BY <1>2, <1>5 DEF core, Settled, NotStarted, Untouched, SeenIsCurrent, BatchIsDue, Due,
      ExhaustedIsSettled, AttemptsBounded, NoTaskInDelay, Record, Seen, At
<1>6. Settled'
  BY <1>1, <1>2, <1>3, <1>5, NextSteps, WorkerStepSettled, RecordStepSettled
<1>7. Single'
  <2>1. ASSUME UNCHANGED vars PROVE Single'
    BY <1>2, <2>1 DEF vars, Single, Copies, Record
  <2> QED
    BY <2>1
<1> QED
  BY <1>4, <1>6, <1>7 DEF IInv, SingleInv

(* Nothing but a delivery task changes a status, and a task that delivers    *)
(* has not seen, and does not find, DELIVERED.                               *)
LEMMA StepDelivered ==
    ASSUME IInv, [Next]_vars, NEW d \in Records, row[d].status = "delivered"
    PROVE  row'[d].status = "delivered"
<1>1. /\ TypeOK /\ RecordOfTask /\ SeenIsCurrent /\ row \in [Records -> Row]
  BY DEF IInv, BaseInv, SingleInv, Settled, TypeOK
<1>2. ASSUME NEW w \in Workers, WorkerStep(w), row' # row
      PROVE  Writes(w)
  BY <1>2 DEF WorkerStep, Starts, Requeues, Answered, Ends, Selects
<1>3. ASSUME NEW w \in Workers, Writes(w)
      PROVE  row'[d] = row[d]
  <2>1. Record(w) # d
    BY <1>1, <1>3 DEF Writes, SeenIsCurrent
  <2>2. PICK x \in Row : row' = [row EXCEPT ![Record(w)] = x]
    BY <1>3 DEF Writes
  <2> QED
    BY <1>1, <2>1, <2>2
<1>4. ASSUME NEW e \in Records, RecordStep(e)
      PROVE  row'[d].status = "delivered"
  <2>1. CASE Create(e)
    BY <1>1, <2>1 DEF Create
  <2>2. CASE Enqueue(e)
    BY <2>2 DEF Enqueue
  <2>3. CASE Elapse(e)
    <3> DEFINE q == [row[e] EXCEPT !.next = "due"]
    <3>1. row[e] \in Row
      BY <1>1
    <3>2. q.status = row[e].status
      BY <3>1 DEF Row
    <3>3. row' = [row EXCEPT ![e] = q]
      BY <2>3 DEF Elapse
    <3> HIDE DEF q
    <3> QED
      BY <1>1, <3>2, <3>3
  <2> QED
    BY <1>4, <2>1, <2>2, <2>3 DEF RecordStep
<1>5. UNCHANGED core => row' = row
  BY DEF core
<1> QED
  BY <1>1, <1>2, <1>3, <1>4, <1>5, NextSteps

-----------------------------------------------------------------------------
(* Every reachable state is well typed, with any number of overlapping and   *)
(* failing tasks.                                                            *)
THEOREM TypeCorrect == Spec => []TypeOK
<1>1. Init => BaseInv
  BY InitIInv DEF IInv
<1>2. BaseInv => TypeOK
  BY DEF BaseInv
<1> QED
  BY <1>1, <1>2, StepBaseInv, PTL DEF Spec

(* A record that is DELIVERED was answered with 2xx by the merchant, however *)
(* its tasks overlap, fail and are run again (webhook_tasks.py 83-97).       *)
THEOREM DeliveredMeansReceived == Spec => []DeliveredIsReceived
<1>1. Init => BaseInv
  BY InitIInv DEF IInv
<1>2. BaseInv => DeliveredIsReceived
  BY DEF BaseInv
<1> QED
  BY <1>1, <1>2, StepBaseInv, PTL DEF Spec

(* While a record has one task at a time, a delivery works on the row as it  *)
(* is, a sweep on records that are still due, and what was given up is tried *)
(* again only after a failure (webhook_tasks.py 46-141, 150-180).            *)
THEOREM InvariantHolds == SingleSpec => []IInv
<1> QED
  BY InitIInv, StepIInv, PTL DEF SingleSpec

(* No record counts more than MAX_ATTEMPTS attempts and one for every task   *)
(* that failed and was run again (webhook_tasks.py 51-52, 104-110).          *)
THEOREM AttemptsAreBounded == SingleSpec => []AttemptsBounded
<1>1. IInv => AttemptsBounded
  BY DEF IInv, SingleInv, Settled
<1> QED
  BY <1>1, InvariantHolds, PTL

(* A task that is run again after its commit leaves a DELIVERED record alone *)
(* (webhook_tasks.py 51-52).                                                 *)
THEOREM DeliveriesStand == SingleSpec => DeliveredForGood
<1>1. IInv /\ [Next /\ Single']_vars =>
          [\A d \in Records :
              row[d].status = "delivered" => row'[d].status = "delivered"]_vars
  BY StepDelivered
<1> QED
  BY <1>1, InvariantHolds, PTL DEF SingleSpec, DeliveredForGood

(* Without a failure no attempt is made before the delay that the one before *)
(* it scheduled has passed (webhook_tasks.py 131-141, 158-162).              *)
THEOREM DelaysPass == SingleSpec => RetriesWait
<1>1. IInv => \A w \in Workers : At(w, "post") =>
                  row[Record(w)].next # "later" \/ faults > 0
  BY BoundsAssumption DEF IInv, BaseInv, TypeOK, RecordOfTask, SingleInv, Settled, NoTaskInDelay,
      Delivering, At
<1>2. IInv /\ [Next /\ Single']_vars =>
          [\A w \in Workers :
              At(w, "post") /\ worker'[w].step \in {"accepted", "refused"}
                  => row[Record(w)].next # "later" \/ faults > 0]_vars
  BY <1>1
<1> QED
  BY <1>2, InvariantHolds, PTL DEF SingleSpec, RetriesWait
=============================================================================
