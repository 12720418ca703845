------------------------------ MODULE RiskFlags ------------------------------
(***************************************************************************)
(* Rows that are being written and the fraud.flag_transaction_risk task    *)
(* that marks some of them: what the lists and details of module Listings  *)
(* read meanwhile.                                                         *)
(*                                                                         *)
(* A row's created_at is now(), the start of the transaction that inserts  *)
(* it, which commits later than some that started after it.  A suspect is  *)
(* a transfer or payment that FraudService sends a flag task for, one with *)
(* one reason; the task runs again when it fails or when the broker does   *)
(* not see its acknowledgement.                                            *)
(*                                                                         *)
(* Definitions whose comment starts with "Fault" take no part in the       *)
(* specification: each is the next definition with one slip.               *)
(***************************************************************************)
EXTENDS Integers, FiniteSets

CONSTANTS
    Rows,               \* rows of the table that is read
    Suspects,           \* those of them that may be sent to be flagged
    Workers,            \* Celery workers
    NoRow,              \* no row
    MaxRetries,         \* retry_kwargs["max_retries"]
    MaxFaults           \* bound: workers that die and messages sent twice

ASSUME SuspectsAssumption ==
    Suspects \subseteq Rows /\ NoRow \notin Rows /\ IsFiniteSet(Rows)
ASSUME BoundsAssumption == MaxRetries \in Nat /\ MaxFaults \in Nat

VARIABLES
    since,              \* created_at: the order in which transactions started
    status,             \* "open": inserted, not committed; then the row's status
    flagged,            \* committed rows with risk_flagged
    message,            \* the flag message of each suspect
    retries,            \* how many times its task was retried
    worker,             \* what each worker does: [step, row]
    entries,            \* audit entries "admin.transaction_flagged"
    faults              \* faults so far

table == <<since, status>>
tasks == <<message, retries, worker, entries, faults>>
flagVars == <<table, flagged, tasks>>

Idle == [step |-> "idle", row |-> NoRow]

FlagTypeOK ==
    /\ since \in [Rows -> 0 .. Cardinality(Rows)]
    /\ status \in [Rows -> {"none", "open", "pending", "completed"}]
    /\ flagged \subseteq Suspects
    /\ message \in [Suspects -> {"none", "queued", "taken", "acked", "dropped"}]
    /\ retries \in [Suspects -> 0 .. MaxRetries]
    /\ worker \in [Workers -> [step : {"idle", "get", "set", "audit", "ack"},
                               row : Suspects \cup {NoRow}]]
    /\ entries \in [Suspects -> 0 .. MaxFaults + MaxRetries + 1]
    /\ faults \in 0 .. MaxFaults

FlagInit ==
    /\ since = [r \in Rows |-> 0]
    /\ status = [r \in Rows |-> "none"]
    /\ flagged = {}
    /\ message = [r \in Suspects |-> "none"]
    /\ retries = [r \in Suspects |-> 0]
    /\ worker = [w \in Workers |-> Idle]
    /\ entries = [r \in Suspects |-> 0]
    /\ faults = 0
-----------------------------------------------------------------------------
(* Writers. *)

Begin(r) ==
    /\ status[r] = "none"
    /\ status' = [status EXCEPT ![r] = "open"]
    /\ since' = [since EXCEPT ![r] = Cardinality({q \in Rows : status[q] # "none"}) + 1]
    /\ UNCHANGED <<flagged, tasks>>

(* Transfers and payments are committed as completed, the others as pending. *)
(* A task is sent after the commit when FraudService's rules say so and the  *)
(* broker takes it.                                                          *)
Commit(r) ==
    /\ status[r] = "open"
    /\ IF r \in Suspects
       THEN /\ status' = [status EXCEPT ![r] = "completed"]
            /\ message' \in {message, [message EXCEPT ![r] = "queued"]}
       ELSE status' = [status EXCEPT ![r] = "pending"] /\ UNCHANGED message
    /\ UNCHANGED <<since, flagged, retries, worker, entries, faults>>

(* The ledger entries of a transaction are written with this status. *)
Complete(r) ==
    /\ status[r] = "pending"
    /\ status' = [status EXCEPT ![r] = "completed"]
    /\ UNCHANGED <<since, flagged, tasks>>
-----------------------------------------------------------------------------
(* flag_transaction_risk.  The row was committed before its message was sent. *)

Row(w) == worker[w].row
Step(w, from, to) == worker[w].step = from /\ worker' = [worker EXCEPT ![w].step = to]
Free(w) == worker' = [worker EXCEPT ![w] = Idle]

(* Fault: acknowledged when it is received, not when the task is done *)
DeliverAcked(w, r) ==
    /\ worker[w] = Idle /\ message[r] = "queued"
    /\ worker' = [worker EXCEPT ![w] = [step |-> "get", row |-> r]]
    /\ message' = [message EXCEPT ![r] = "acked"]
    /\ UNCHANGED <<table, flagged, retries, entries, faults>>

Deliver(w, r) ==
    /\ worker[w] = Idle /\ message[r] = "queued"
    /\ worker' = [worker EXCEPT ![w] = [step |-> "get", row |-> r]]
    /\ message' = [message EXCEPT ![r] = "taken"]
    /\ UNCHANGED <<table, flagged, retries, entries, faults>>

(* Fault: a row that is flagged already is flagged again *)
GetAny(w) == Step(w, "get", "set") /\ UNCHANGED <<table, flagged, message, retries, entries, faults>>

Get(w) ==
    /\ Step(w, "get", IF Row(w) \in flagged THEN "ack" ELSE "set")
    /\ UNCHANGED <<table, flagged, message, retries, entries, faults>>

Flag(w) ==
    /\ Step(w, "set", "audit")
    /\ flagged' = flagged \cup {Row(w)}
    /\ UNCHANGED <<table, message, retries, entries, faults>>

(* log_sync swallows a failed write. *)
LogFlag(w) ==
    /\ Step(w, "audit", "ack")
    /\ entries' \in {entries, [entries EXCEPT ![Row(w)] = @ + 1]}
    /\ UNCHANGED <<table, flagged, message, retries, faults>>

AckFlag(w) ==
    /\ worker[w].step = "ack" /\ Free(w)
    /\ message' = [message EXCEPT ![Row(w)] = "acked"]
    /\ UNCHANGED <<table, flagged, retries, entries, faults>>

(* A failed statement, or reading the expired row for the audit entry: the   *)
(* task is sent again, max_retries times.                                    *)
FailFlag(w) ==
    LET r == Row(w)
    IN  /\ worker[w].step \in {"get", "set", "audit"} /\ Free(w)
        /\ IF retries[r] < MaxRetries
           THEN /\ message' = [message EXCEPT ![r] = "queued"]
                /\ retries' = [retries EXCEPT ![r] = @ + 1]
           ELSE message' = [message EXCEPT ![r] = "dropped"] /\ UNCHANGED retries
        /\ UNCHANGED <<table, flagged, entries, faults>>
-----------------------------------------------------------------------------
Holding(r) == {w \in Workers : Row(w) = r}
Fault == faults < MaxFaults /\ faults' = faults + 1

(* A whole worker dies, which leaves the message unacknowledged. *)
Die(w) ==
    /\ worker[w] # Idle /\ Free(w) /\ Fault
    /\ UNCHANGED <<table, flagged, message, retries, entries>>

(* A message that nobody works on is delivered again after the visibility    *)
(* timeout of the broker ...                                                 *)
Redeliver(r) ==
    /\ message[r] = "taken" /\ Holding(r) = {}
    /\ message' = [message EXCEPT ![r] = "queued"]
    /\ UNCHANGED <<table, flagged, retries, worker, entries, faults>>

(* ... and so is one whose task runs longer than that. *)
DeliverTwice(r) ==
    /\ message[r] = "taken" /\ Holding(r) # {} /\ Fault
    /\ message' = [message EXCEPT ![r] = "queued"]
    /\ UNCHANGED <<table, flagged, retries, worker, entries>>

(* When only the pool process that runs the task dies, Celery acknowledges   *)
(* the message all the same (task_reject_on_worker_lost is not set).         *)
LosePool(w) ==
    /\ worker[w] # Idle /\ Free(w) /\ Fault
    /\ message' = [message EXCEPT ![Row(w)] = "acked"]
    /\ UNCHANGED <<table, flagged, retries, entries>>

WriterNext == \E r \in Rows : Begin(r) \/ Commit(r) \/ Complete(r)
WorkerStep(w) ==
    \/ \E r \in Suspects : Deliver(w, r)
    \/ Get(w) \/ Flag(w) \/ LogFlag(w) \/ AckFlag(w) \/ FailFlag(w)
BrokerNext == \E r \in Suspects : Redeliver(r)
FlagNext == WriterNext \/ BrokerNext \/ \E w \in Workers : WorkerStep(w) \/ Die(w)

(* Workers keep working and the broker delivers again what was not           *)
(* acknowledged; nothing makes writers, readers or faults happen.            *)
FlagFairness ==
    /\ \A w \in Workers : WF_flagVars(WorkerStep(w))
    /\ WF_flagVars(BrokerNext)

(* Specifications with the faults that the properties do not survive. *)
TwiceSpec == FlagInit /\ [][FlagNext \/ \E r \in Suspects : DeliverTwice(r)]_flagVars
PoolSpec ==
    FlagInit /\ [][FlagNext \/ \E w \in Workers : LosePool(w)]_flagVars /\ FlagFairness
-----------------------------------------------------------------------------
(* "Idempotent - safe to call multiple times" (fraud_tasks.py 22): the runs  *)
(* of one message, retried or delivered again after a crash, leave at most   *)
(* one audit entry, and none for a row that is not flagged.                  *)
FlaggedOnce ==
    \A r \in Suspects : entries[r] <= 1 /\ (entries[r] = 1 => r \in flagged)

(* A suspect whose message reached the broker is flagged in the end, unless  *)
(* its task failed once more than it is retried: "safe to retry on worker    *)
(* crash" (celery_app.py 27).                                                *)
SuspectsFlagged ==
    \A r \in Suspects :
        message[r] = "queued" ~> r \in flagged \/ (message[r] = "dropped" /\ retries[r] = MaxRetries)
=============================================================================
