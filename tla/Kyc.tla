--------------------------------- MODULE Kyc ---------------------------------
(***************************************************************************)
(* KYC submissions and their review:                                       *)
(*   - KYCService.submit_kyc, which uploads a document and inserts a row;  *)
(*   - KYCService.approve_kyc, which also promotes the user's tier, and    *)
(*     KYCService.reject_kyc, both called by admins.                       *)
(*                                                                         *)
(* Any number of these handlers run at the same time.  They decide on what *)
(* they read at the start; the UPDATE of a review waits for the row's lock *)
(* and then overwrites whatever was committed.                             *)
(*                                                                         *)
(* Definitions whose comment starts with "Fault" take no part in the       *)
(* specification: each is the next definition with one slip.               *)
(***************************************************************************)
EXTENDS Integers, FiniteSets

CONSTANTS
    Users,
    Admins,             \* the users with the admin role
    Submissions,        \* submission requests, and the rows they insert
    Reviews,            \* review requests
    MaxTier,            \* the highest target_tier that the form accepts
    Nobody,             \* no user
    NoSubmission        \* no submission

ASSUME PeopleAssumption == Admins \subseteq Users /\ Nobody \notin Users
ASSUME RequestsAssumption ==
    Submissions \cap Reviews = {} /\ NoSubmission \notin Submissions
ASSUME TiersAssumption == MaxTier \in Nat \ {0}

VARIABLES
    tier,               \* committed users.kyc_tier
    row,                \* committed kyc_submissions rows
    documents,          \* submissions whose document is in the bucket
    audited,            \* audit entries: [action, submission]
    submit,             \* each submission request: its body and where it is
    review              \* each review request: its body and where it is

vars == <<tier, row, documents, audited, submit, review>>

Tiers == 1 .. MaxTier
Decisions == {"approved", "rejected"}
Absent == [status |-> "absent", owner |-> Nobody, tier |-> 0, reviewer |-> Nobody]
NoSubmit == [at |-> "idle", user |-> Nobody, target |-> 0, seen |-> 0]
NoReview == [at |-> "idle", admin |-> Nobody, of |-> NoSubmission,
             decision |-> "approved", seen |-> 0]

TypeOK ==
    /\ tier \in [Users -> 0 .. MaxTier]
    /\ row \in [Submissions -> [status : {"absent", "pending"} \cup Decisions,
                                owner : Users \cup {Nobody}, tier : 0 .. MaxTier,
                                reviewer : Admins \cup {Nobody}]]
    /\ documents \subseteq Submissions
    /\ audited \subseteq [action : {"submitted"} \cup Decisions, submission : Submissions]
    /\ submit \in [Submissions ->
          [at : {"idle", "check", "upload", "insert", "audit", "done"},
           user : Users \cup {Nobody}, target : 0 .. MaxTier, seen : 0 .. MaxTier]]
    /\ review \in [Reviews ->
          [at : {"idle", "read", "decide", "commit", "audit", "done"},
           admin : Admins \cup {Nobody}, of : Submissions \cup {NoSubmission},
           decision : Decisions, seen : 0 .. MaxTier]]

Init ==
    /\ tier = [u \in Users |-> 0]
    /\ row = [s \in Submissions |-> Absent]
    /\ documents = {} /\ audited = {}
    /\ submit = [s \in Submissions |-> NoSubmit]
    /\ review = [r \in Reviews |-> NoReview]
-----------------------------------------------------------------------------
(* Submissions. *)

GoSubmit(s, from, to) ==
    /\ submit[s].at = from
    /\ submit' = [submit EXCEPT ![s].at = to]
    /\ review' = review
EndSubmit(s, from) ==
    /\ submit[s].at = from
    /\ submit' = [submit EXCEPT ![s] = [NoSubmit EXCEPT !.at = "done"]]
    /\ review' = review

(* get_current_user loads the user, and the tier with it. *)
Submit(s, u, target) ==
    /\ submit[s].at = "idle"
    /\ submit' = [submit EXCEPT ![s] = [at |-> "check", user |-> u, target |-> target,
                                        seen |-> tier[u]]]
    /\ UNCHANGED <<tier, row, documents, audited, review>>

(* Fault: whoever is below the tier may apply for it *)
BelowTier(s) == submit[s].seen < submit[s].target

(* The user holds the tier below the one applied for. *)
NextTier(s) == submit[s].seen = submit[s].target - 1

(* Fault: a submission that was approved is no longer looked at *)
PendingOnly(s) ==
    {t \in Submissions : /\ row[t].owner = submit[s].user
                         /\ row[t].tier = submit[s].target
                         /\ row[t].status = "pending"}

(* get_active_for_tier *)
ActiveForTier(s) ==
    {t \in Submissions : /\ row[t].owner = submit[s].user
                         /\ row[t].tier = submit[s].target
                         /\ row[t].status \in {"pending", "approved"}}

CheckSubmission(s) ==
    /\ GoSubmit(s, "check", "upload")
    /\ NextTier(s) /\ ActiveForTier(s) = {}
    /\ UNCHANGED <<tier, row, documents, audited>>

(* A file that is too large or of a wrong type is refused as well. *)
RefuseSubmission(s) ==
    /\ EndSubmit(s, "check")
    /\ UNCHANGED <<tier, row, documents, audited>>

(* The upload comes before the row, and may fail. *)
Upload(s) ==
    /\ \/ GoSubmit(s, "upload", "insert") /\ documents' = documents \cup {s}
       \/ EndSubmit(s, "upload") /\ documents' = documents
    /\ UNCHANGED <<tier, row, audited>>

InsertSubmission(s) ==
    /\ GoSubmit(s, "insert", "audit")
    /\ row' = [row EXCEPT ![s] = [status |-> "pending", owner |-> submit[s].user,
                                  tier |-> submit[s].target, reviewer |-> Nobody]]
    /\ UNCHANGED <<tier, documents, audited>>

(* AuditService.log, which swallows its own failures: they look like a crash *)
AuditSubmission(s) ==
    /\ EndSubmit(s, "audit")
    /\ audited' = audited \cup {[action |-> "submitted", submission |-> s]}
    /\ UNCHANGED <<tier, row, documents>>

CrashSubmission(s) ==
    /\ \E from \in {"check", "upload", "insert", "audit"} : EndSubmit(s, from)
    /\ UNCHANGED <<tier, row, documents, audited>>
-----------------------------------------------------------------------------
(* Reviews. *)

Of(r) == review[r].of
GoReview(r, from, to) ==
    /\ review[r].at = from
    /\ review' = [review EXCEPT ![r].at = to]
    /\ submit' = submit
EndReview(r, from) ==
    /\ review[r].at = from
    /\ review' = [review EXCEPT ![r] = [NoReview EXCEPT !.at = "done"]]
    /\ submit' = submit

(* An admin decides on a submission; an unknown id is not found. *)
Review(r, admin, s, decision) ==
    /\ review[r].at = "idle"
    /\ review' = [review EXCEPT ![r] = [at |-> "read", admin |-> admin, of |-> s,
                                        decision |-> decision, seen |-> 0]]
    /\ UNCHANGED <<tier, row, documents, audited, submit>>

(* Fault: only a submission with the same decision is refused *)
NotDecidedSo(r) ==
    /\ row[Of(r)].status \notin {"absent", review[r].decision}
    /\ review[r].admin # row[Of(r)].owner

(* It is PENDING, and not the admin's own. *)
Reviewable(r) ==
    /\ row[Of(r)].status = "pending"
    /\ review[r].admin # row[Of(r)].owner

ReadSubmission(r) ==
    /\ GoReview(r, "read", "decide")
    /\ Reviewable(r)
    /\ UNCHANGED <<tier, row, documents, audited>>

RefuseReview(r) ==
    /\ EndReview(r, "read")
    /\ ~Reviewable(r)
    /\ UNCHANGED <<tier, row, documents, audited>>

(* The flush waits for the row; update_kyc_tier then loads the owner. *)
Decide(r) ==
    /\ review[r].at = "decide"
    /\ \A q \in Reviews : review[q].at = "commit" => Of(q) # Of(r)
    /\ review' = [review EXCEPT ![r].at = "commit",
                                ![r].seen = tier[row[Of(r)].owner]]
    /\ UNCHANGED <<tier, row, documents, audited, submit>>

(* Fault: a rejection takes a tier away *)
PromotedOrDemoted(r) ==
    [tier EXCEPT ![row[Of(r)].owner] =
        IF review[r].decision = "approved" THEN row[Of(r)].tier ELSE @ - 1]

(* The tier that was asked for, whatever it is by now; a tier equal to the   *)
(* one that was loaded is not written.                                       *)
Promoted(r) ==
    [tier EXCEPT ![row[Of(r)].owner] =
        IF review[r].decision = "approved" /\ row[Of(r)].tier # review[r].seen
        THEN row[Of(r)].tier ELSE @]

CommitReview(r) ==
    /\ GoReview(r, "commit", "audit")
    /\ row' = [row EXCEPT ![Of(r)].status = review[r].decision,
                          ![Of(r)].reviewer = review[r].admin]
    /\ tier' = Promoted(r)
    /\ UNCHANGED <<documents, audited>>

AuditReview(r) ==
    /\ EndReview(r, "audit")
    /\ audited' = audited \cup {[action |-> review[r].decision, submission |-> Of(r)]}
    /\ UNCHANGED <<tier, row, documents>>

CrashReview(r) ==
    /\ \E from \in {"read", "decide", "commit", "audit"} : EndReview(r, from)
    /\ UNCHANGED <<tier, row, documents, audited>>

Next ==
    \/ \E s \in Submissions :
        \/ \E u \in Users, target \in Tiers : Submit(s, u, target)
        \/ CheckSubmission(s) \/ RefuseSubmission(s) \/ Upload(s)
        \/ InsertSubmission(s) \/ AuditSubmission(s) \/ CrashSubmission(s)
    \/ \E r \in Reviews :
        \/ \E admin \in Admins, s \in Submissions, decision \in Decisions :
              Review(r, admin, s, decision)
        \/ ReadSubmission(r) \/ RefuseReview(r) \/ Decide(r)
        \/ CommitReview(r) \/ AuditReview(r) \/ CrashReview(r)

Spec == Init /\ [][Next]_vars

(* A user applies once at a time, and a submission has one reviewer at a     *)
(* time.  A user's applications and the review of the others may overlap.    *)
Busy(at) == at \notin {"idle", "done"}
Orderly ==
    /\ \A s, t \in Submissions :
          s # t /\ Busy(submit[s].at) /\ Busy(submit[t].at)
              => submit[s].user # submit[t].user
    /\ \A r, q \in Reviews :
          r # q /\ Busy(review[r].at) /\ Busy(review[q].at) => Of(r) # Of(q)
OrderlySpec == Init /\ [][Next /\ Orderly']_vars
-----------------------------------------------------------------------------
(* One PENDING or APPROVED submission per user and tier, also when one is    *)
(* decided between the load of the user and the look at the submissions      *)
(* (kyc.py 61-80, models/kyc_submission.py 23).                              *)
OneActiveSubmission ==
    \A s, t \in Submissions :
        /\ row[s].status \in {"pending", "approved"}
        /\ row[t].status \in {"pending", "approved"}
        /\ row[s].owner = row[t].owner /\ row[s].tier = row[t].tier
        => s = t

(* Whoever holds a tier had each tier up to it approved, by somebody else,   *)
(* and holds the highest tier that was approved: status and tier are one     *)
(* commit, and nothing that is decided later takes either back (kyc.py       *)
(* 150-162).                                                                 *)
TierIsEarned ==
    \A u \in Users :
        LET approved == {s \in Submissions :
                            row[s].owner = u /\ row[s].status = "approved"}
        IN  /\ \A k \in 1 .. tier[u] :
                  \E s \in approved : row[s].tier = k /\ row[s].reviewer # u
            /\ \A s \in approved : row[s].tier <= tier[u]

(* A decision stands: neither admin of two overrules the other (kyc.py       *)
(* 139-148, 191-195).                                                        *)
ReviewIsFinal ==
    [][\A s \in Submissions :
          row[s].status \in Decisions => row'[s] = row[s]]_vars
=============================================================================
