----------------------------- MODULE BankAccounts -----------------------------
(***************************************************************************)
(* The bank accounts of one user (WithdrawalService.add_bank_account and   *)
(* remove_bank_account, BankAccountRepository): which of them exist and    *)
(* which one is the default, when calls overlap.                           *)
(*                                                                         *)
(* A call is a transaction that reads without locks.  The only lock is the *)
(* one that an UPDATE takes on its row until the commit: the removal of a  *)
(* default flushes its own row, reads the others and then promotes the     *)
(* oldest.  created_at is now(), the start of the adding transaction, so   *)
(* accounts are ordered by the arrival of the call that adds them.  An     *)
(* account has the name of that call.                                      *)
(*                                                                         *)
(* Definitions whose comment starts with "Fault" take no part in the       *)
(* specification: each is the next definition with one slip.               *)
(***************************************************************************)
EXTENDS Integers, FiniteSets

CONSTANTS
    Calls,              \* requests, at most one account each
    NoAccount           \* no account, or one that is not the user's

ASSUME NamesAssumption == NoAccount \notin Calls /\ IsFiniteSet(Calls)

VARIABLES
    pc,                 \* where each call is
    target,             \* the account that each removal names
    reply,              \* the response to each call
    since,              \* created_at: when each call arrived, 0 if it has not
    seen,               \* what a call read: is it the first account, or the default
    pick,               \* the account that a removal is about to promote
    live,               \* committed rows with deleted_at IS NULL
    dead,               \* committed rows with deleted_at set
    isDefault,          \* committed rows with is_default
    active,             \* the account of the user's active withdrawal
    overlapped          \* two calls were in progress at once (history)

rows == <<live, dead, isDefault>>
vars == <<pc, target, reply, since, seen, pick, rows, active, overlapped>>

Adding == {"verify", "count", "insert"}
Removing == {"find", "guard", "delete", "remaining", "promote"}
Working == Adding \cup Removing

TypeOK ==
    /\ pc \in [Calls -> Working \cup {"idle", "done"}]
    /\ target \in [Calls -> Calls \cup {NoAccount}]
    /\ reply \in [Calls -> {"none", "ok", "not_found", "forbidden", "lost"}]
    /\ since \in [Calls -> 0 .. Cardinality(Calls)]
    /\ seen \in [Calls -> BOOLEAN]
    /\ pick \in [Calls -> Calls \cup {NoAccount}]
    /\ live \subseteq Calls /\ dead \subseteq Calls /\ live \cap dead = {}
    /\ isDefault \subseteq live \cup dead
    /\ active \in Calls \cup {NoAccount}
    /\ overlapped \in BOOLEAN

Init ==
    /\ pc = [r \in Calls |-> "idle"]
    /\ target = [r \in Calls |-> NoAccount]
    /\ reply = [r \in Calls |-> "none"]
    /\ since = [r \in Calls |-> 0]
    /\ seen = [r \in Calls |-> FALSE]
    /\ pick = [r \in Calls |-> NoAccount]
    /\ live = {} /\ dead = {} /\ isDefault = {}
    /\ active = NoAccount
    /\ overlapped = FALSE
-----------------------------------------------------------------------------
Goto(r, from, to) == pc[r] = from /\ pc' = [pc EXCEPT ![r] = to]
Pass(r, from, to) ==
    /\ Goto(r, from, to)
    /\ UNCHANGED <<target, reply, since, seen, pick, rows, active, overlapped>>
Finish(r, from, answer) ==
    /\ Goto(r, from, "done")
    /\ reply' = [reply EXCEPT ![r] = answer]
    /\ UNCHANGED <<target, since, seen, pick, active, overlapped>>
Refuse(r, from, answer) == Finish(r, from, answer) /\ UNCHANGED rows

InProgress == {r \in Calls : pc[r] \in Working}
Arrive(r, first) ==
    /\ Goto(r, "idle", first)
    /\ since' = [since EXCEPT ![r] = Cardinality({q \in Calls : pc[q] # "idle"}) + 1]
    /\ overlapped' = (overlapped \/ InProgress # {})
    /\ UNCHANGED <<reply, seen, pick, rows, active>>

ArriveToAdd(r) == Arrive(r, "verify") /\ UNCHANGED target
ArriveToRemove(r, a) ==
    /\ Arrive(r, "find")
    /\ a \in live \cup dead \cup {NoAccount}
    /\ target' = [target EXCEPT ![r] = a]

Oldest(S) == {a \in S : \A b \in S : since[a] <= since[b]}
-----------------------------------------------------------------------------
(* add_bank_account: the verification takes as long as Paystack does and     *)
(* decides on the name only, whatever it answers.                            *)
Verify(r) == Pass(r, "verify", "count")

CountAccounts(r) ==
    /\ Goto(r, "count", "insert")
    /\ seen' = [seen EXCEPT ![r] = live = {}]
    /\ UNCHANGED <<target, reply, since, pick, rows, active, overlapped>>

(* No constraint allows one default only, so nothing is checked here. *)
InsertAccount(r) ==
    /\ Finish(r, "insert", "ok")
    /\ live' = live \cup {r}
    /\ isDefault' = IF seen[r] THEN isDefault \cup {r} ELSE isDefault
    /\ UNCHANGED dead
-----------------------------------------------------------------------------
(* remove_bank_account.  The user of an account never changes. *)

(* Fault: an account that is not found or not the user's is removed too *)
FindAnyAccount(r) == Pass(r, "find", "guard")

FindAccount(r) ==
    /\ Goto(r, "find", "guard")
    /\ target[r] \in live
    /\ seen' = [seen EXCEPT ![r] = target[r] \in isDefault]
    /\ UNCHANGED <<target, reply, since, pick, rows, active, overlapped>>
NotFound(r) == Refuse(r, "find", "not_found") /\ target[r] \notin live

Unused(r) == Pass(r, "guard", "delete") /\ active # target[r]
InUse(r) == Refuse(r, "guard", "forbidden") /\ active = target[r]

(* The row of a default that is being removed is locked from the flush on. *)
Locked(a, r) ==
    \E q \in Calls \ {r} : pc[q] \in {"remaining", "promote"} /\ target[q] = a

DeleteOther(r) ==
    /\ Finish(r, "delete", "ok")
    /\ ~seen[r] /\ ~Locked(target[r], r)
    /\ live' = live \ {target[r]}
    /\ dead' = dead \cup {target[r]}
    /\ UNCHANGED isDefault

DeleteDefault(r) == Pass(r, "delete", "remaining") /\ seen[r] /\ ~Locked(target[r], r)

(* Fault: the query does not leave out the deleted accounts *)
PickDeleted(r) ==
    LET rest == (live \cup dead) \ {target[r]}
    IN  /\ Goto(r, "remaining", "promote")
        /\ \E a \in IF rest = {} THEN {NoAccount} ELSE Oldest(rest) :
              pick' = [pick EXCEPT ![r] = IF a \in isDefault THEN NoAccount ELSE a]
        /\ UNCHANGED <<target, reply, since, seen, rows, active, overlapped>>

(* remaining[0], unless it was loaded with is_default: then the ORM has      *)
(* nothing to write.                                                         *)
PickOldest(r) ==
    LET rest == live \ {target[r]}
    IN  /\ Goto(r, "remaining", "promote")
        /\ \E a \in IF rest = {} THEN {NoAccount} ELSE Oldest(rest) :
              pick' = [pick EXCEPT ![r] = IF a \in isDefault THEN NoAccount ELSE a]
        /\ UNCHANGED <<target, reply, since, seen, rows, active, overlapped>>

(* The UPDATE of the picked row does not look at its deleted_at again. *)
Promote(r) ==
    /\ Finish(r, "promote", "ok")
    /\ ~Locked(pick[r], r)
    /\ live' = live \ {target[r]}
    /\ dead' = dead \cup {target[r]}
    /\ isDefault' = (isDefault \ {target[r]}) \cup ({pick[r]} \ {NoAccount})
-----------------------------------------------------------------------------
(* The process dies or the connection breaks: nothing is committed. *)
Crash(r) == \E from \in Working : Refuse(r, from, "lost")

(* Withdrawals begin and settle on their own. *)
Withdraw(a) ==
    /\ active = NoAccount /\ a \in live
    /\ active' = a
    /\ UNCHANGED <<pc, target, reply, since, seen, pick, rows, overlapped>>
Settle ==
    /\ active # NoAccount
    /\ active' = NoAccount
    /\ UNCHANGED <<pc, target, reply, since, seen, pick, rows, overlapped>>

Next ==
    \/ \E r \in Calls :
          \/ ArriveToAdd(r)
          \/ \E a \in Calls \cup {NoAccount} : ArriveToRemove(r, a)
          \/ Verify(r) \/ CountAccounts(r) \/ InsertAccount(r)
          \/ FindAccount(r) \/ NotFound(r) \/ Unused(r) \/ InUse(r)
          \/ DeleteOther(r) \/ DeleteDefault(r) \/ PickOldest(r) \/ Promote(r)
          \/ Crash(r)
    \/ \E a \in Calls : Withdraw(a)
    \/ Settle

Spec == Init /\ [][Next]_vars

(* A user adds one account at a time; removals overlap everything. *)
OneAddition == \A r, q \in Calls : {pc[r], pc[q]} \subseteq Adding => r = q
FormSpec == Init /\ [][Next /\ OneAddition']_vars
-----------------------------------------------------------------------------
(* "is_default marks the preferred one" (models/bank_account.py 21): an     *)
(* account that a removal promotes never joins another default, also when   *)
(* the same default is removed twice at once.                               *)
AtMostOneDefault == Cardinality(live \cap isDefault) <= 1

(* "First account added automatically becomes the default" (line 22) and    *)
(* "promote the oldest remaining one" (repositories/bank_account.py 110):   *)
(* with the calls done and the user left with an account, one is default... *)
HasDefault == InProgress = {} /\ live # {} => live \cap isDefault # {}

(* ... and when no two calls overlapped it is the oldest, however many were *)
(* added and removed, refused or lost in between.                           *)
DefaultsKept ==
    /\ AtMostOneDefault
    /\ ~overlapped => HasDefault /\ (InProgress = {} => live \cap isDefault = Oldest(live))
=============================================================================
