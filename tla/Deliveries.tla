------------------------------ MODULE Deliveries ------------------------------
(***************************************************************************)
(* Outgoing webhooks of one merchant, from the committed payment to the    *)
(* merchant's answer:                                                      *)
(*   - WebhookDeliveryService.create_and_enqueue, called by a payment;     *)
(*   - deliver_merchant_webhook, the Celery task that posts;               *)
(*   - retry_pending_webhooks, the beat task that enqueues what is due;    *)
(*   - MerchantService.update_webhook_config, which sets or clears the URL. *)
(*                                                                         *)
(* A delivery task works on the row it read at its start ("seen") and      *)
(* writes the columns that it gave another value than they had there, also *)
(* when the row was changed in the meantime: nothing locks it.             *)
(*                                                                         *)
(* Definitions whose comment starts with "Fault" take no part in the       *)
(* specification: each is the next definition with one slip.               *)
(***************************************************************************)
EXTENDS Integers, FiniteSets

CONSTANTS
    Records,            \* delivery records, one per payment
    Workers,            \* Celery worker processes (CELERY_WORKER_CONCURRENCY)
    NoRecord,           \* no record
    MaxAttempts,        \* MAX_ATTEMPTS
    BatchLimit,         \* the LIMIT of a retry sweep
    MaxFaults           \* bound on failing tasks

ASSUME NamesAssumption ==
    /\ NoRecord \notin Records
    /\ IsFiniteSet(Records) /\ IsFiniteSet(Workers)
ASSUME BoundsAssumption ==
    /\ MaxAttempts \in Nat \ {0} /\ BatchLimit \in Nat \ {0}
    /\ MaxFaults \in Nat

VARIABLES
    row,                \* committed webhook_deliveries rows
    url,                \* whether the merchant has a webhook_url
    creating,           \* records whose payment handler has not enqueued them yet
    queue,              \* waiting delivery tasks of each record
    worker,             \* what each worker does
    acknowledged,       \* records that the merchant answered with 2xx once
    faults              \* task failures so far

vars == <<row, url, creating, queue, worker, acknowledged, faults>>

(* next_retry_at: NULL, in the future, or elapsed *)
Times == {"null", "later", "due"}
Row == [status : {"absent", "pending", "delivered", "failed"}, attempts : Nat, next : Times]
Absent == [status |-> "absent", attempts |-> 0, next |-> "null"]
Idle == [step |-> "idle", record |-> NoRecord, seen |-> Absent, todo |-> {}]

TypeOK ==
    /\ row \in [Records -> Row]
    /\ url \in BOOLEAN
    /\ creating \subseteq Records
    /\ queue \in [Records -> Nat]
    /\ worker \in [Workers -> [step : {"idle", "post", "accepted", "refused", "ack", "sweep"},
                               record : Records \cup {NoRecord}, seen : Row,
                               todo : SUBSET Records]]
    /\ acknowledged \subseteq Records
    /\ faults \in 0 .. MaxFaults

Init ==
    /\ row = [d \in Records |-> Absent]
    /\ url \in BOOLEAN
    /\ creating = {}
    /\ queue = [d \in Records |-> 0]
    /\ worker = [w \in Workers |-> Idle]
    /\ acknowledged = {}
    /\ faults = 0
-----------------------------------------------------------------------------
(* The API. *)

(* The record of a payment is committed; none without a URL. *)
Create(d) ==
    /\ row[d].status = "absent" /\ url
    /\ row' = [row EXCEPT ![d].status = "pending"]
    /\ creating' = creating \cup {d}
    /\ UNCHANGED <<url, queue, worker, acknowledged, faults>>

(* Then its task is enqueued, unless the broker refuses it or the process dies. *)
Enqueue(d) ==
    /\ d \in creating
    /\ creating' = creating \ {d}
    /\ queue' \in {queue, [queue EXCEPT ![d] = @ + 1]}
    /\ UNCHANGED <<row, url, worker, acknowledged, faults>>

(* webhook_url is set, or cleared with an empty string. *)
UpdateWebhook ==
    /\ url' = ~url
    /\ UNCHANGED <<row, creating, queue, worker, acknowledged, faults>>

(* The retry delay of a record passes. *)
Elapse(d) ==
    /\ row[d].next = "later"
    /\ row' = [row EXCEPT ![d].next = "due"]
    /\ UNCHANGED <<url, creating, queue, worker, acknowledged, faults>>
-----------------------------------------------------------------------------
(* The workers. *)

At(w, step) == worker[w].step = step
Record(w) == worker[w].record
Seen(w) == worker[w].seen
To(w, step) == worker' = [worker EXCEPT ![w].step = step]

(* Fault: FAILED is the status that stops a task *)
NotFailed(d) == row[d].status # "failed"

(* The status guard of deliver_merchant_webhook: FAILED does not stop it. *)
Undelivered(d) == row[d].status # "delivered"

(* Fault: a task is run that does not wait *)
StartUnasked(w, d) ==
    /\ At(w, "idle")
    /\ queue' = [queue EXCEPT ![d] = @ - 1]
    /\ worker' = [worker EXCEPT ![w].step = IF Undelivered(d) THEN "post" ELSE "ack",
                                ![w].record = d, ![w].seen = row[d]]
    /\ UNCHANGED <<row, url, creating, acknowledged, faults>>

(* A task reads its row. *)
Start(w, d) ==
    /\ At(w, "idle") /\ queue[d] > 0
    /\ queue' = [queue EXCEPT ![d] = @ - 1]
    /\ worker' = [worker EXCEPT ![w].step = IF Undelivered(d) THEN "post" ELSE "ack",
                                ![w].record = d, ![w].seen = row[d]]
    /\ UNCHANGED <<row, url, creating, acknowledged, faults>>

(* What a column becomes: a value equal to the one that was read is not written. *)
Written(old, seen, new) == IF new = seen THEN old ELSE new

(* The merchant has no URL (any more): the record is given up. *)
NoUrl(w) ==
    /\ At(w, "post") /\ ~url
    /\ row' = [row EXCEPT ![Record(w)].status = Written(@, Seen(w).status, "failed")]
    /\ To(w, "ack")
    /\ UNCHANGED <<url, creating, queue, acknowledged, faults>>

(* The POST: answered with 2xx, or with something else, or not in time; in  *)
(* that last case the merchant may have accepted it all the same.            *)
Post(w) ==
    /\ At(w, "post") /\ url
    /\ \/ To(w, "accepted") /\ acknowledged' = acknowledged \cup {Record(w)}
       \/ To(w, "refused") /\ acknowledged' \in {acknowledged, acknowledged \cup {Record(w)}}
    /\ UNCHANGED <<row, url, creating, queue, faults>>

Attempt(w) == Seen(w).attempts + 1

(* Fault: any answer counts as success *)
SucceedAnyway(w) ==
    LET d == Record(w)
    IN  /\ worker[w].step \in {"accepted", "refused"}
        /\ row' = [row EXCEPT ![d] =
               [status |-> Written(@.status, Seen(w).status, "delivered"),
                attempts |-> Attempt(w),
                next |-> Written(@.next, Seen(w).next, "null")]]
        /\ To(w, "ack")
        /\ UNCHANGED <<url, creating, queue, acknowledged, faults>>

Succeed(w) ==
    LET d == Record(w)
    IN  /\ At(w, "accepted")
        /\ row' = [row EXCEPT ![d] =
               [status |-> Written(@.status, Seen(w).status, "delivered"),
                attempts |-> Attempt(w),
                next |-> Written(@.next, Seen(w).next, "null")]]
        /\ To(w, "ack")
        /\ UNCHANGED <<url, creating, queue, acknowledged, faults>>

(* Fault: one attempt too many *)
ExhaustedAfter(w) == Attempt(w) > MaxAttempts

Exhausted(w) == Attempt(w) >= MaxAttempts

(* The last attempt failed. *)
GiveUp(w) ==
    LET d == Record(w)
    IN  /\ At(w, "refused") /\ Exhausted(w)
        /\ row' = [row EXCEPT ![d] =
               [status |-> Written(@.status, Seen(w).status, "failed"),
                attempts |-> Attempt(w),
                next |-> Written(@.next, Seen(w).next, "null")]]
        /\ To(w, "ack")
        /\ UNCHANGED <<url, creating, queue, acknowledged, faults>>

(* Another attempt is scheduled.  The status is not written. *)
Reschedule(w) ==
    LET d == Record(w)
    IN  /\ At(w, "refused") /\ ~Exhausted(w)
        /\ row' = [row EXCEPT ![d].attempts = Attempt(w), ![d].next = "later"]
        /\ To(w, "ack")
        /\ UNCHANGED <<url, creating, queue, acknowledged, faults>>

(* The task is acknowledged after it completed (task_acks_late). *)
Ack(w) ==
    /\ At(w, "ack")
    /\ worker' = [worker EXCEPT ![w] = Idle]
    /\ UNCHANGED <<row, url, creating, queue, acknowledged, faults>>

(* Fault: a sweep does not wait for next_retry_at *)
DueAnyTime == {d \in Records : row[d].status = "pending" /\ row[d].next # "null"}

(* Fault: a sweep looks for records that were given up *)
DueFailed == {d \in Records : row[d].status = "failed" /\ row[d].next = "due"}

(* retry_pending_webhooks: PENDING rows with a next_retry_at that elapsed ... *)
Due == {d \in Records : row[d].status = "pending" /\ row[d].next = "due"}

(* All of them, or as many as the limit of the query. *)
Batches ==
    {batch \in SUBSET Due :
        /\ Cardinality(batch) <= BatchLimit
        /\ batch = Due \/ Cardinality(batch) = BatchLimit}

StartSweep(w) ==
    /\ At(w, "idle") /\ Due # {}
    /\ \E batch \in Batches :
          worker' = [worker EXCEPT ![w].step = "sweep", ![w].todo = batch]
    /\ UNCHANGED <<row, url, creating, queue, acknowledged, faults>>

(* ... are enqueued one by one, whatever became of them since. *)
Sweep(w, d) ==
    /\ At(w, "sweep") /\ d \in worker[w].todo
    /\ queue' = [queue EXCEPT ![d] = @ + 1]
    /\ worker' = [worker EXCEPT
          ![w] = IF worker[w].todo = {d} THEN Idle ELSE [worker[w] EXCEPT !.todo = @ \ {d}]]
    /\ UNCHANGED <<row, url, creating, acknowledged, faults>>

(* Something raises, or the worker dies.  A sweep ends early; a delivery     *)
(* task is run again if it was not acknowledged and the broker notices.      *)
(* A commit that raises leaves the row as it was.  That of a success does so *)
(* in the try block of the POST and is taken for a POST that failed, but the *)
(* session, which nobody rolls back, refuses the next commit: the task ends, *)
(* and counts no attempt of a webhook that the merchant has.                 *)
TaskFails(w) ==
    /\ ~At(w, "idle") /\ faults < MaxFaults
    /\ faults' = faults + 1
    /\ worker' = [worker EXCEPT ![w] = Idle]
    /\ \/ queue' = queue
       \/ ~At(w, "sweep") /\ queue' = [queue EXCEPT ![Record(w)] = @ + 1]
    /\ UNCHANGED <<row, url, creating, acknowledged>>

Work(w) ==
    \/ \E d \in Records : Start(w, d) \/ Sweep(w, d)
    \/ NoUrl(w) \/ Post(w) \/ Succeed(w) \/ GiveUp(w) \/ Reschedule(w) \/ Ack(w)

Next ==
    \/ \E d \in Records : Create(d) \/ Enqueue(d) \/ Elapse(d)
    \/ UpdateWebhook
    \/ \E w \in Workers : Work(w) \/ StartSweep(w) \/ TaskFails(w)

(* Time passes, workers run the tasks they have, and some worker gets to the *)
(* beat's sweep.                                                             *)
Fairness ==
    /\ \A d \in Records : WF_vars(Enqueue(d)) /\ WF_vars(Elapse(d))
    /\ \A w \in Workers : WF_vars(Work(w)) /\ SF_vars(StartSweep(w))

Spec == Init /\ [][Next]_vars /\ Fairness

(* A record has one task at a time: it is over before a sweep selects the   *)
(* record again.                                                            *)
Copies(d) ==
    queue[d] + Cardinality({w \in Workers : Record(w) = d})
             + Cardinality({w \in Workers : d \in worker[w].todo})
Single == \A d \in Records : Copies(d) <= 1
SingleSpec == Init /\ [][Next /\ Single']_vars /\ Fairness
-----------------------------------------------------------------------------
(* A DELIVERED record was answered with 2xx, by the merchant it is for, also *)
(* if tasks of it overlap, fail or are run again (webhook_tasks.py 83-97).   *)
DeliveredIsReceived ==
    \A d \in Records : row[d].status = "delivered" => d \in acknowledged

(* DELIVERED is for good: a task that is run again after its commit finds it *)
(* and posts nothing (webhook_tasks.py 51-52).                               *)
DeliveredForGood ==
    [][\A d \in Records :
          row[d].status = "delivered" => row'[d].status = "delivered"]_vars

(* A record counts no more than MAX_ATTEMPTS attempts, plus one for every    *)
(* task that was run again after it was given up: FAILED does not stop it    *)
(* (webhook_tasks.py 51-52, 104-110).                                        *)
AttemptsBounded == \A d \in Records : row[d].attempts <= MaxAttempts + faults

(* No attempt is made before the delay that the attempt before it scheduled  *)
(* has passed, unless a task is run again after its commit                   *)
(* (webhook_tasks.py 131-141, 158-162).                                      *)
RetriesWait ==
    [][\A w \in Workers :
          At(w, "post") /\ worker'[w].step \in {"accepted", "refused"}
              => row[Record(w)].next # "later" \/ faults > 0]_vars

(* A record that was tried once ends DELIVERED or FAILED: the sweep makes    *)
(* good what became of its tasks.                                            *)
EveryRetrySettled ==
    \A d \in Records :
        row[d].status = "pending" /\ row[d].next # "null"
            ~> row[d].status \in {"delivered", "failed"}

(* The same of every record: if its task could not be enqueued, the "retry   *)
(* sweep will pick it up" (services/webhook_delivery.py 48, 64-66).          *)
EveryDeliverySettled ==
    \A d \in Records :
        row[d].status = "pending" ~> row[d].status \in {"delivered", "failed"}
=============================================================================
