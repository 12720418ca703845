------------------------------ MODULE KycProofs ------------------------------
(***************************************************************************)
(* Machine-checked proofs about Kyc, for every set of users, admins,       *)
(* submissions and reviews and every number of tiers.                      *)
(***************************************************************************)
EXTENDS Kyc, TLAPS

-----------------------------------------------------------------------------
(* What holds whatever overlaps. *)

Deciding(r) == review[r].at \in {"decide", "commit"}

(* A row is that of a request which has inserted it, by a user.  *)
RowsOfTheDone ==
    \A s \in Submissions :
        row[s].status # "absent" =>
            /\ submit[s].at \in {"audit", "done"}
            /\ row[s].owner \in Users /\ row[s].tier \in Tiers

(* A submission in flight is a user's, for a tier that the form offers. *)
Applications ==
    \A s \in Submissions :
        submit[s].at \in {"check", "upload", "insert"} =>
            submit[s].user \in Users /\ submit[s].target \in Tiers

(* A review in flight is an admin's; past the guard, its row exists and is *)
(* another user's.                                                         *)
Reviewers ==
    \A r \in Reviews :
        /\ Busy(review[r].at) => Of(r) \in Submissions /\ review[r].admin \in Admins
        /\ Deciding(r) => /\ row[Of(r)].status # "absent"
                          /\ row[Of(r)].owner # review[r].admin

(* Who approves a submission is not the one who made it. *)
FourEyes ==
    \A s \in Submissions :
        row[s].status = "approved" => row[s].reviewer \in Users \ {row[s].owner}

BaseInv == TypeOK /\ RowsOfTheDone /\ Applications /\ Reviewers /\ FourEyes

(* What holds when a user applies once at a time and a submission has one    *)
(* reviewer at a time: the check for another active submission still holds   *)
(* when the row is inserted ...                                              *)
NoneActive ==
    \A s \in Submissions :
        submit[s].at \in {"upload", "insert"} => NextTier(s) /\ ActiveForTier(s) = {}

(* ... a tier that was seen is still held, and a pending submission is for   *)
(* the tier above the user's ...                                             *)
StillHeld ==
    \A s \in Submissions :
        submit[s].at \in {"check", "upload", "insert"} => submit[s].seen <= tier[submit[s].user]
PendingIsNext ==
    \A s \in Submissions : row[s].status = "pending" => tier[row[s].owner] = row[s].tier - 1

(* ... and a review past its guard is of a submission that is pending.       *)
StillPending ==
    \A r \in Reviews :
        /\ Deciding(r) => row[Of(r)].status = "pending"
        /\ review[r].at = "commit" => review[r].seen = row[Of(r)].tier - 1

OrderlyInv ==
    /\ Orderly /\ NoneActive /\ StillHeld /\ PendingIsNext /\ StillPending
    /\ OneActiveSubmission /\ TierIsEarned

IInv == BaseInv /\ OrderlyInv

-----------------------------------------------------------------------------
LEMMA InitIInv == Init => IInv
<1> SUFFICES ASSUME Init PROVE IInv
  OBVIOUS
<1> USE PeopleAssumption, RequestsAssumption, TiersAssumption
    DEF Init, Absent, NoSubmit, NoReview, Tiers, Decisions
<1>1. TypeOK
  BY DEF TypeOK
<1>2. RowsOfTheDone /\ Applications /\ Reviewers /\ FourEyes
  BY DEF RowsOfTheDone, Applications, Reviewers, FourEyes, Deciding, Busy
<1>3. Orderly /\ NoneActive /\ StillHeld /\ PendingIsNext /\ StillPending
  BY DEF Orderly, NoneActive, StillHeld, PendingIsNext, StillPending, Deciding, Busy
<1>4. OneActiveSubmission
  BY DEF OneActiveSubmission
<1>5. TierIsEarned
  BY DEF TierIsEarned
<1> QED
  BY <1>1, <1>2, <1>3, <1>4, <1>5 DEF IInv, BaseInv, OrderlyInv

-----------------------------------------------------------------------------
(* What a step does to the part of the state that the invariant is about.  *)
core == <<tier, row, submit, review>>

(* A submission is applied for, checked, uploaded, inserted or left. *)
Applies(s) ==
    /\ \E u \in Users, target \in Tiers :
          submit' = [submit EXCEPT ![s] = [at |-> "check", user |-> u, target |-> target,
                                           seen |-> tier[u]]]
    /\ submit[s].at = "idle"
    /\ UNCHANGED <<tier, row, review>>
Checked(s) ==
    /\ submit[s].at = "check" /\ submit' = [submit EXCEPT ![s].at = "upload"]
    /\ NextTier(s) /\ ActiveForTier(s) = {}
    /\ UNCHANGED <<tier, row, review>>
Uploaded(s) ==
    /\ submit[s].at = "upload" /\ submit' = [submit EXCEPT ![s].at = "insert"]
    /\ UNCHANGED <<tier, row, review>>
Inserted(s) ==
    /\ submit[s].at = "insert" /\ submit' = [submit EXCEPT ![s].at = "audit"]
    /\ row' = [row EXCEPT ![s] = [status |-> "pending", owner |-> submit[s].user,
                                  tier |-> submit[s].target, reviewer |-> Nobody]]
    /\ UNCHANGED <<tier, review>>
Left(s) ==
    /\ submit[s].at \in {"check", "upload", "insert", "audit"}
    /\ submit' = [submit EXCEPT ![s] = [NoSubmit EXCEPT !.at = "done"]]
    /\ UNCHANGED <<tier, row, review>>

(* A review begins, passes its guard, decides, commits or is left. *)
Begins(r) ==
    /\ \E admin \in Admins, s \in Submissions, decision \in Decisions :
          review' = [review EXCEPT ![r] = [at |-> "read", admin |-> admin, of |-> s,
                                           decision |-> decision, seen |-> 0]]
    /\ review[r].at = "idle"
    /\ UNCHANGED <<tier, row, submit>>
Passes(r) ==
    /\ review[r].at = "read" /\ review' = [review EXCEPT ![r].at = "decide"]
    /\ Reviewable(r)
    /\ UNCHANGED <<tier, row, submit>>
Decides(r) ==
    /\ review[r].at = "decide"
    /\ review' = [review EXCEPT ![r].at = "commit",
                                ![r].seen = tier[row[Of(r)].owner]]
    /\ UNCHANGED <<tier, row, submit>>
Commits(r) ==
    /\ review[r].at = "commit" /\ review' = [review EXCEPT ![r].at = "audit"]
    /\ row' = [row EXCEPT ![Of(r)].status = review[r].decision,
                          ![Of(r)].reviewer = review[r].admin]
    /\ tier' = Promoted(r)
    /\ UNCHANGED submit
Abandons(r) ==
    /\ review[r].at \in {"read", "decide", "commit", "audit"}
    /\ review' = [review EXCEPT ![r] = [NoReview EXCEPT !.at = "done"]]
    /\ UNCHANGED <<tier, row, submit>>

SubmitStep(s) == Applies(s) \/ Checked(s) \/ Uploaded(s) \/ Inserted(s) \/ Left(s)
ReviewStep(r) == Begins(r) \/ Passes(r) \/ Decides(r) \/ Commits(r) \/ Abandons(r)

LEMMA NextSteps ==
    ASSUME [Next]_vars
    PROVE  \/ \E s \in Submissions : SubmitStep(s)
           \/ \E r \in Reviews : ReviewStep(r)
           \/ UNCHANGED core
<1> USE DEF SubmitStep, ReviewStep
<1>1. ASSUME NEW s \in Submissions, NEW u \in Users, NEW target \in Tiers, Submit(s, u, target)
      PROVE  SubmitStep(s)
  BY <1>1 DEF Submit, Applies
<1>2. ASSUME NEW s \in Submissions, CheckSubmission(s) \/ Upload(s) \/ InsertSubmission(s)
      PROVE  SubmitStep(s)
  BY <1>2 DEF CheckSubmission, Upload, InsertSubmission, GoSubmit, EndSubmit, Checked,
      Uploaded, Inserted, Left
<1>3. ASSUME NEW s \in Submissions,
             RefuseSubmission(s) \/ AuditSubmission(s) \/ CrashSubmission(s)
      PROVE  SubmitStep(s)
  BY <1>3 DEF RefuseSubmission, AuditSubmission, CrashSubmission, EndSubmit, Left
<1>4. ASSUME NEW r \in Reviews, NEW admin \in Admins, NEW s \in Submissions,
             NEW decision \in Decisions, Review(r, admin, s, decision)
      PROVE  ReviewStep(r)
  BY <1>4 DEF Review, Begins
<1>5. ASSUME NEW r \in Reviews, ReadSubmission(r) \/ Decide(r) \/ CommitReview(r)
      PROVE  ReviewStep(r)
  BY <1>5 DEF ReadSubmission, Decide, CommitReview, GoReview, Passes, Decides, Commits
<1>6. ASSUME NEW r \in Reviews, RefuseReview(r) \/ AuditReview(r) \/ CrashReview(r)
      PROVE  ReviewStep(r)
  BY <1>6 DEF RefuseReview, AuditReview, CrashReview, EndReview, Abandons
<1>7. CASE UNCHANGED vars
  BY <1>7 DEF vars, core
<1> QED
  BY <1>1, <1>2, <1>3, <1>4, <1>5, <1>6, <1>7 DEF Next

(* The rest of the state: which documents and audit entries there are. *)
LEMMA RecordsTyped ==
    ASSUME BaseInv, [Next]_vars
    PROVE  /\ documents' \subseteq Submissions
           /\ audited' \subseteq [action : {"submitted"} \cup Decisions,
                                  submission : Submissions]
<1>1. /\ documents \subseteq Submissions
      /\ audited \subseteq [action : {"submitted"} \cup Decisions, submission : Submissions]
  BY DEF BaseInv, TypeOK
<1>2. ASSUME NEW s \in Submissions, AuditSubmission(s)
      PROVE  audited' \subseteq [action : {"submitted"} \cup Decisions, submission : Submissions]
  BY <1>1, <1>2 DEF AuditSubmission
<1>3. ASSUME NEW r \in Reviews, AuditReview(r)
      PROVE  audited' \subseteq [action : {"submitted"} \cup Decisions, submission : Submissions]
  <2>1. review[r].decision \in Decisions /\ Of(r) \in Submissions
    BY <1>3 DEF AuditReview, EndReview, BaseInv, TypeOK, Reviewers, Busy
  <2> QED
    BY <1>1, <1>3, <2>1 DEF AuditReview
<1>4. ASSUME NEW s \in Submissions, Upload(s)
      PROVE  documents' \subseteq Submissions
  BY <1>1, <1>4 DEF Upload
<1>5. documents' \subseteq Submissions
  BY <1>1, <1>4 DEF Next, vars, Submit, CheckSubmission, RefuseSubmission, InsertSubmission,
      AuditSubmission, CrashSubmission, Review, ReadSubmission, RefuseReview, Decide,
      CommitReview, AuditReview, CrashReview
<1>6. audited' \subseteq [action : {"submitted"} \cup Decisions, submission : Submissions]
  BY <1>1, <1>2, <1>3 DEF Next, vars, Submit, CheckSubmission, RefuseSubmission, Upload,
      InsertSubmission, CrashSubmission, Review, ReadSubmission, RefuseReview, Decide,
      CommitReview, CrashReview
<1> QED
  BY <1>5, <1>6

-----------------------------------------------------------------------------
(* Whatever overlaps: one case per kind of step. *)
ReviewRecords ==
    [at : {"idle", "read", "decide", "commit", "audit", "done"},
     admin : Admins \cup {Nobody}, of : Submissions \cup {NoSubmission},
     decision : Decisions, seen : 0 .. MaxTier]
CoreTypes ==
    /\ tier \in [Users -> 0 .. MaxTier]
    /\ row \in [Submissions -> [status : {"absent", "pending"} \cup Decisions,
                                owner : Users \cup {Nobody}, tier : 0 .. MaxTier,
                                reviewer : Admins \cup {Nobody}]]
    /\ submit \in [Submissions ->
          [at : {"idle", "check", "upload", "insert", "audit", "done"},
           user : Users \cup {Nobody}, target : 0 .. MaxTier, seen : 0 .. MaxTier]]
    /\ review \in [Reviews -> ReviewRecords]
CoreInv == CoreTypes /\ RowsOfTheDone /\ Applications /\ Reviewers /\ FourEyes

LEMMA SubmitStepCore ==
    ASSUME CoreInv, NEW s \in Submissions, SubmitStep(s)
    PROVE  CoreInv'
<1> USE PeopleAssumption, TiersAssumption DEF CoreInv, Tiers
<1> DEFINE Requests ==
        [at : {"check", "upload", "insert", "done"}, user : Users \cup {Nobody},
         target : 0 .. MaxTier, seen : 0 .. MaxTier]
<1>1. ASSUME UNCHANGED <<tier, row, review>>,
             NEW q \in Requests, submit' = [submit EXCEPT ![s] = q],
             q.at # "done" => q.user \in Users /\ q.target \in Tiers,
             q.at # "done" => submit[s].at \notin {"audit", "done"}
      PROVE  CoreInv'
  <2>1. CoreTypes'
    BY <1>1 DEF CoreTypes
  <2>2. RowsOfTheDone'
    BY <1>1 DEF CoreTypes, RowsOfTheDone
  <2>3. Applications'
    BY <1>1 DEF CoreTypes, Applications
  <2>4. Reviewers' /\ FourEyes'
    BY <1>1 DEF Reviewers, FourEyes, Of, Deciding
  <2> QED  BY <2>1, <2>2, <2>3, <2>4
<1>2. CASE Applies(s)
  <2>1. PICK u \in Users, target \in Tiers :
            submit' = [submit EXCEPT ![s] = [at |-> "check", user |-> u, target |-> target,
                                             seen |-> tier[u]]]
    BY <1>2 DEF Applies
  <2> DEFINE q == [at |-> "check", user |-> u, target |-> target, seen |-> tier[u]]
  <2>2. q \in Requests
    BY DEF CoreTypes
  <2>3. q.at = "check" /\ q.user \in Users /\ q.target \in Tiers
    OBVIOUS
  <2>4. submit' = [submit EXCEPT ![s] = q]
    BY <2>1
  <2> HIDE DEF q, Requests
  <2> QED
    BY <1>1, <1>2, <2>2, <2>3, <2>4 DEF Applies
<1>3. CASE Checked(s) \/ Uploaded(s)
  <2>1. PICK to \in {"upload", "insert"} : submit' = [submit EXCEPT ![s].at = to]
    BY <1>3 DEF Checked, Uploaded
  <2>2. submit[s].at \in {"check", "upload"} /\ UNCHANGED <<tier, row, review>>
    BY <1>3 DEF Checked, Uploaded
  <2>3. submit[s].user \in Users /\ submit[s].target \in Tiers
    BY <2>2 DEF Applications
  <2> DEFINE q == [submit[s] EXCEPT !.at = to]
  <2>4. submit' = [submit EXCEPT ![s] = q]
    BY <2>1
  <2>5. q \in Requests /\ q.user \in Users /\ q.target \in Tiers
    BY <2>3 DEF CoreTypes
  <2> HIDE DEF q, Requests
  <2> QED
    BY <1>1, <2>2, <2>4, <2>5
<1>4. CASE Left(s)
  <2> DEFINE q == [NoSubmit EXCEPT !.at = "done"]
  <2>1. q \in Requests /\ q.at = "done"
    BY DEF NoSubmit
  <2>2. submit' = [submit EXCEPT ![s] = q] /\ UNCHANGED <<tier, row, review>>
    BY <1>4 DEF Left
  <2> HIDE DEF q, Requests
  <2> QED
    BY <1>1, <2>1, <2>2
<1>5. CASE Inserted(s)
  <2> USE <1>5 DEF Inserted
  <2>1. submit[s].user \in Users /\ submit[s].target \in Tiers /\ row[s].status = "absent"
    BY DEF Applications, RowsOfTheDone
  <2>2. CoreTypes'
    BY <2>1 DEF CoreTypes
  <2>3. RowsOfTheDone' /\ Applications'
    BY <2>1 DEF CoreTypes, RowsOfTheDone, Applications
  <2>4. Reviewers'
    BY <2>1 DEF CoreTypes, Reviewers, Of, Busy, Deciding
  <2>5. FourEyes'
    BY <2>1 DEF CoreTypes, FourEyes
  <2> QED  BY <2>2, <2>3, <2>4, <2>5
<1> QED
  BY <1>2, <1>3, <1>4, <1>5 DEF SubmitStep

LEMMA ReviewStepCore ==
    ASSUME CoreInv, NEW r \in Reviews, ReviewStep(r)
    PROVE  CoreInv'
<1> USE DEF CoreInv, Of
<1>1. ASSUME UNCHANGED <<tier, row, submit>>,
             NEW q \in ReviewRecords, review' = [review EXCEPT ![r] = q],
             Busy(q.at) => q.of \in Submissions /\ q.admin \in Admins,
             q.at \in {"decide", "commit"} =>
                 row[q.of].status # "absent" /\ row[q.of].owner # q.admin
      PROVE  CoreInv'
  <2>1. CoreTypes'
    BY <1>1 DEF CoreTypes
  <2>2. RowsOfTheDone' /\ Applications' /\ FourEyes'
    BY <1>1 DEF RowsOfTheDone, Applications, FourEyes
  <2>3. Reviewers'
    BY <1>1 DEF CoreTypes, Reviewers, Deciding
  <2> QED  BY <2>1, <2>2, <2>3
<1>2. CASE Begins(r)
  <2>1. PICK admin \in Admins, s \in Submissions, decision \in Decisions :
            review' = [review EXCEPT ![r] = [at |-> "read", admin |-> admin, of |-> s,
                                             decision |-> decision, seen |-> 0]]
    BY <1>2 DEF Begins
  <2> DEFINE q == [at |-> "read", admin |-> admin, of |-> s, decision |-> decision, seen |-> 0]
  <2>2. q \in ReviewRecords
    BY TiersAssumption DEF ReviewRecords
  <2>3. q.at = "read" /\ q.of \in Submissions /\ q.admin \in Admins
    OBVIOUS
  <2>4. review' = [review EXCEPT ![r] = q] /\ UNCHANGED <<tier, row, submit>>
    BY <1>2, <2>1 DEF Begins
  <2> HIDE DEF q
  <2> QED
    BY <1>1, <2>2, <2>3, <2>4
<1>3. CASE Abandons(r)
  <2> DEFINE q == [NoReview EXCEPT !.at = "done"]
  <2>1. q \in ReviewRecords /\ q.at = "done"
    BY TiersAssumption DEF ReviewRecords, NoReview, Decisions
  <2>2. review' = [review EXCEPT ![r] = q] /\ UNCHANGED <<tier, row, submit>>
    BY <1>3 DEF Abandons
  <2> HIDE DEF q
  <2> QED
    BY <1>1, <2>1, <2>2 DEF Busy
<1>4. CASE Passes(r)
  <2> DEFINE q == [review[r] EXCEPT !.at = "decide"]
  <2>1. Of(r) \in Submissions /\ review[r].admin \in Admins
    BY <1>4 DEF Passes, Reviewers, Busy
  <2>2. review[r] \in ReviewRecords
    BY DEF CoreTypes
  <2>3. q \in ReviewRecords /\ q.of = Of(r) /\ q.admin = review[r].admin
    BY <2>2 DEF ReviewRecords
  <2>4. review' = [review EXCEPT ![r] = q] /\ UNCHANGED <<tier, row, submit>> /\ Reviewable(r)
    BY <1>4 DEF Passes
  <2> HIDE DEF q
  <2> QED
    BY <1>1, <2>1, <2>3, <2>4 DEF Reviewable
<1>5. CASE Decides(r)
  <2> DEFINE q == [review[r] EXCEPT !.at = "commit", !.seen = tier[row[Of(r)].owner]]
  <2>1. /\ Of(r) \in Submissions /\ review[r].admin \in Admins
        /\ row[Of(r)].status # "absent" /\ row[Of(r)].owner # review[r].admin
    BY <1>5 DEF Decides, Reviewers, Deciding, Busy
  <2>2. review[r] \in ReviewRecords /\ tier[row[Of(r)].owner] \in 0 .. MaxTier
    BY <2>1 DEF CoreTypes, RowsOfTheDone
  <2>3. q \in ReviewRecords /\ q.of = Of(r) /\ q.admin = review[r].admin
    BY <2>2 DEF ReviewRecords
  <2>4. review' = [review EXCEPT ![r] = q] /\ UNCHANGED <<tier, row, submit>>
    BY <1>5 DEF Decides
  <2> HIDE DEF q
  <2> QED
    BY <1>1, <2>1, <2>3, <2>4
<1>6. CASE Commits(r)
  <2> USE <1>6, PeopleAssumption, TiersAssumption
      DEF Commits, Promoted, CoreTypes, ReviewRecords, Tiers, Decisions
  <2>1. /\ Of(r) \in Submissions /\ row[Of(r)].owner \in Users /\ row[Of(r)].status # "absent"
        /\ review[r].admin \in Admins /\ row[Of(r)].owner # review[r].admin
    BY DEF Reviewers, Busy, Deciding, RowsOfTheDone
  <2>2. CoreTypes'
    BY <2>1
  <2>3. \A s \in Submissions : row'[s].owner = row[s].owner /\ row'[s].tier = row[s].tier
    OBVIOUS
  <2>4. \A s \in Submissions : row'[s].status = "absent" <=> row[s].status = "absent"
    BY <2>1
  <2>5. RowsOfTheDone' /\ Applications'
    BY <2>3, <2>4 DEF RowsOfTheDone, Applications
  <2>6. FourEyes'
    BY <2>1 DEF FourEyes
  <2>7. Reviewers'
    BY <2>3, <2>4 DEF Reviewers, Busy, Deciding
  <2> QED  BY <2>2, <2>5, <2>6, <2>7
<1> QED
  BY <1>2, <1>3, <1>4, <1>5, <1>6 DEF ReviewStep

LEMMA StepBaseInv == BaseInv /\ [Next]_vars => BaseInv'
<1> SUFFICES ASSUME BaseInv, [Next]_vars PROVE BaseInv'
  OBVIOUS
<1>1. CoreInv
  BY DEF BaseInv, CoreInv, CoreTypes, ReviewRecords, TypeOK
<1>2. ASSUME UNCHANGED core PROVE CoreInv'
  BY <1>1, <1>2 DEF core, CoreInv, CoreTypes, RowsOfTheDone, Applications, Reviewers, FourEyes,
      Of, Deciding
<1>3. CoreInv'
  BY <1>1, <1>2, NextSteps, SubmitStepCore, ReviewStepCore
<1> QED
  BY <1>3, RecordsTyped DEF BaseInv, CoreInv, CoreTypes, ReviewRecords, TypeOK

-----------------------------------------------------------------------------
(* One application per user and one reviewer per submission at a time.     *)

(* Steps that change no row and no tier. *)
LEMMA RequestStep ==
    ASSUME CoreInv, OrderlyInv, Orderly', UNCHANGED <<tier, row>>,
           \/ \E s \in Submissions : Applies(s) \/ Checked(s) \/ Uploaded(s) \/ Left(s)
           \/ \E r \in Reviews : Begins(r) \/ Passes(r) \/ Decides(r) \/ Abandons(r)
    PROVE  OrderlyInv'
<1> USE DEF OrderlyInv, CoreInv, CoreTypes, ReviewRecords
<1>1. PendingIsNext' /\ OneActiveSubmission' /\ TierIsEarned'
  BY DEF PendingIsNext, OneActiveSubmission, TierIsEarned
<1>2. ASSUME NEW s \in Submissions, Applies(s) \/ Checked(s) \/ Uploaded(s) \/ Left(s)
      PROVE  NoneActive' /\ StillHeld' /\ StillPending'
  <2>1. StillPending'
    BY <1>2 DEF Applies, Checked, Uploaded, Left, StillPending, Deciding, Of
  <2>2. /\ \A t \in Submissions \ {s} : submit'[t] = submit[t]
        /\ submit'[s].at \in {"upload", "insert"} =>
              /\ submit'[s].user = submit[s].user /\ submit'[s].target = submit[s].target
              /\ submit'[s].seen = submit[s].seen
              /\ submit[s].at \in {"check", "upload"}
              /\ NextTier(s) /\ ActiveForTier(s) = {}
        /\ submit'[s].at = "check" => submit'[s].seen <= tier[submit'[s].user]
    <3>1. CASE Applies(s)
      BY <1>2, <3>1 DEF Applies
    <3>2. CASE Checked(s)
      BY <1>2, <3>2 DEF Checked
    <3>3. CASE Uploaded(s)
      BY <1>2, <3>3 DEF Uploaded, NoneActive
    <3>4. CASE Left(s)
      BY <1>2, <3>4 DEF Left, NoSubmit
    <3> QED  BY <1>2, <3>1, <3>2, <3>3, <3>4
  <2>3. NoneActive'
    BY <2>2 DEF NoneActive, NextTier, ActiveForTier
  <2>4. StillHeld'
    BY <2>2 DEF StillHeld
  <2> QED  BY <2>1, <2>3, <2>4
<1>3. ASSUME NEW r \in Reviews, Begins(r) \/ Passes(r) \/ Decides(r) \/ Abandons(r)
      PROVE  NoneActive' /\ StillHeld' /\ StillPending'
  <2>1. NoneActive' /\ StillHeld'
    BY <1>3 DEF Begins, Passes, Decides, Abandons, NoneActive, StillHeld, NextTier, ActiveForTier
  <2>2. /\ \A q \in Reviews \ {r} : review'[q] = review[q]
        /\ review'[r].at \in {"decide", "commit"} =>
              /\ review'[r].of = review[r].of
              /\ row[Of(r)].status = "pending"
        /\ review'[r].at = "commit" => review'[r].seen = row[Of(r)].tier - 1
    <3>1. CASE Begins(r)
      BY <1>3, <3>1 DEF Begins
    <3>2. CASE Passes(r)
      BY <1>3, <3>2 DEF Passes, Reviewable
    <3>3. CASE Decides(r)
      <4>1. Of(r) \in Submissions /\ row[Of(r)].status = "pending"
        BY <1>3, <3>3 DEF Decides, StillPending, Deciding, Reviewers, Busy
      <4>2. tier[row[Of(r)].owner] = row[Of(r)].tier - 1
        BY <4>1 DEF PendingIsNext
      <4> QED
        BY <1>3, <3>3, <4>1, <4>2 DEF Decides
    <3>4. CASE Abandons(r)
      BY <1>3, <3>4 DEF Abandons, NoReview
    <3> QED  BY <1>3, <3>1, <3>2, <3>3, <3>4
  <2>3. StillPending'
    BY <2>2 DEF StillPending, Deciding, Of
  <2> QED  BY <2>1, <2>3
<1> QED
  BY <1>1, <1>2, <1>3

(* An INSERT: nothing came in between since the look at the submissions.   *)
LEMMA InsertStep ==
    ASSUME CoreInv, OrderlyInv, Orderly', NEW s \in Submissions, Inserted(s)
    PROVE  OrderlyInv'
<1> USE DEF OrderlyInv, CoreInv
<1>1. /\ row[s].status = "absent" /\ submit[s].user \in Users /\ submit[s].target \in Tiers
      /\ submit[s].seen \in Int /\ submit[s].seen = submit[s].target - 1
      /\ ActiveForTier(s) = {} /\ submit[s].seen <= tier[submit[s].user]
  BY DEF CoreTypes, Inserted, RowsOfTheDone, Applications, NoneActive, StillHeld, NextTier
<1>2. /\ row'[s] = [status |-> "pending", owner |-> submit[s].user,
                    tier |-> submit[s].target, reviewer |-> Nobody]
      /\ \A t \in Submissions \ {s} : row'[t] = row[t]
      /\ UNCHANGED <<tier, review>>
      /\ \A t \in Submissions \ {s} : submit'[t] = submit[t]
      /\ submit[s].at = "insert" /\ submit'[s].at = "audit"
  BY DEF CoreTypes, Inserted
<1>3. tier[submit[s].user] = submit[s].target - 1
  <2>5. tier[submit[s].user] \in Nat /\ submit[s].target \in Nat \ {0}
    BY <1>1, TiersAssumption DEF CoreTypes, Tiers
  <2>1. SUFFICES ASSUME tier[submit[s].user] >= submit[s].target PROVE FALSE
    BY <1>1, <2>5
  <2>2. submit[s].target \in 1 .. tier[submit[s].user]
    BY <2>5, <2>1
  <2>3. PICK t \in Submissions : /\ row[t].owner = submit[s].user
                                 /\ row[t].status = "approved"
                                 /\ row[t].tier = submit[s].target
    BY <1>1, <2>2 DEF TierIsEarned
  <2> QED
    BY <1>1, <2>3 DEF ActiveForTier
<1>4. NoneActive'
  <2> SUFFICES ASSUME NEW t \in Submissions, submit'[t].at \in {"upload", "insert"}
               PROVE  NextTier(t)' /\ ActiveForTier(t)' = {}
    BY DEF NoneActive
  <2>1. t # s /\ submit'[t] = submit[t] /\ NextTier(t) /\ ActiveForTier(t) = {}
    BY <1>2 DEF NoneActive
  <2>2. submit[t].user # submit[s].user
    BY <1>2, <2>1 DEF Orderly, Busy
  <2> QED
    BY <1>2, <2>1, <2>2 DEF NextTier, ActiveForTier
<1>5. StillHeld'
  BY <1>2 DEF StillHeld
<1>6. PendingIsNext'
  BY <1>2, <1>3 DEF PendingIsNext
<1>7. StillPending'
  <2>1. \A r \in Reviews : Deciding(r) => Of(r) \in Submissions \ {s}
    BY <1>1 DEF StillPending, Reviewers, Deciding, Busy
  <2>2. \A r \in Reviews : Deciding(r) => row'[Of(r)] = row[Of(r)]
    BY <1>2, <2>1
  <2> QED
    BY <1>2, <2>2 DEF StillPending, Deciding, Of
<1>8. OneActiveSubmission'
  BY <1>1, <1>2 DEF OneActiveSubmission, ActiveForTier
<1>9. TierIsEarned'
  BY <1>1, <1>2 DEF TierIsEarned
<1> QED
  BY <1>4, <1>5, <1>6, <1>7, <1>8, <1>9

(* A decision: the submission is still pending, and an approved one is for  *)
(* the tier above the owner's, who has no other pending one.                *)
LEMMA CommitStep ==
    ASSUME CoreInv, OrderlyInv, Orderly', NEW r \in Reviews, Commits(r)
    PROVE  OrderlyInv'
<1> USE DEF OrderlyInv, CoreInv
<1> DEFINE d == Of(r)
           o == row[d].owner
           k == row[d].tier
           approved == review[r].decision = "approved"
<1>1. /\ d \in Submissions /\ row[d].status = "pending" /\ o \in Users /\ k \in Tiers
      /\ review[r].admin \in Users \ {o} /\ tier[o] = k - 1 /\ review[r].seen = k - 1
      /\ review[r].at = "commit" /\ review[r].decision \in Decisions
  BY PeopleAssumption DEF Commits, CoreTypes, ReviewRecords, Reviewers, RowsOfTheDone, StillPending,
     PendingIsNext, Deciding, Busy
<1>2. /\ row'[d].status = review[r].decision /\ row'[d].reviewer = review[r].admin
      /\ row'[d].owner = o /\ row'[d].tier = k
      /\ \A t \in Submissions \ {d} : row'[t] = row[t]
      /\ UNCHANGED submit
  BY <1>1 DEF Commits, CoreTypes
<1>3. /\ \A u \in Users \ {o} : tier'[u] = tier[u]
      /\ tier'[o] = IF approved THEN k ELSE tier[o]
  <2>1. k \in Int
    BY <1>1, TiersAssumption DEF Tiers
  <2> QED
    BY <1>1, <2>1 DEF Commits, Promoted, CoreTypes
<1>4. \A q \in Reviews : Deciding(q)' =>
          /\ q # r /\ review'[q] = review[q] /\ Of(q) \in Submissions \ {d}
  BY <1>1 DEF Commits, CoreTypes, ReviewRecords, Orderly, Deciding, Busy, Reviewers, Of
<1> HIDE DEF d, o, k, approved
<1>5. k \in Int /\ \A u \in Users : tier[u] \in Int
  BY <1>1, TiersAssumption DEF Tiers, CoreTypes
<1>6. \A u \in Users : tier[u] <= tier'[u]
  BY <1>1, <1>3, <1>5
<1>7. \A t \in Submissions :
          /\ row'[t].owner = row[t].owner /\ row'[t].tier = row[t].tier
          /\ row'[t].status \in {"pending", "approved"} => row[t].status \in {"pending", "approved"}
  BY <1>1, <1>2 DEF o, k
<1>8. NoneActive'
  BY <1>2, <1>7 DEF NoneActive, NextTier, ActiveForTier
<1>9. StillHeld'
  <2>1. \A t \in Submissions : submit[t].seen \in Int
    BY TiersAssumption DEF CoreTypes
  <2> SUFFICES ASSUME NEW t \in Submissions, submit[t].at \in {"check", "upload", "insert"}
               PROVE  submit[t].seen <= tier'[submit[t].user]
    BY <1>2 DEF StillHeld
  <2>2. submit[t].user \in Users /\ submit[t].seen <= tier[submit[t].user]
    BY DEF StillHeld, Applications
  <2>3. tier'[submit[t].user] \in Int
    BY <1>3, <1>5, <2>2
  <2> QED
    BY <1>5, <1>6, <2>1, <2>2, <2>3
<1>10. OneActiveSubmission'
  BY <1>7 DEF OneActiveSubmission
<1>11. PendingIsNext'
  <2> SUFFICES ASSUME NEW t \in Submissions, row'[t].status = "pending"
               PROVE  tier'[row'[t].owner] = row'[t].tier - 1
    BY DEF PendingIsNext
  <2>1. t # d /\ row'[t] = row[t] /\ row[t].owner \in Users /\ row[t].tier \in Int
    BY <1>1, <1>2, TiersAssumption DEF RowsOfTheDone, Decisions, Tiers
  <2>2. tier[row[t].owner] = row[t].tier - 1
    BY <2>1 DEF PendingIsNext
  <2>3. row[t].owner # o
    <3>1. SUFFICES ASSUME row[t].owner = o PROVE FALSE
      OBVIOUS
    <3>2. row[t].tier = k
      BY <1>1, <1>5, <2>1, <2>2, <3>1
    <3> QED
      BY <1>1, <2>1, <3>1, <3>2 DEF OneActiveSubmission, o, k
  <2> QED
    BY <1>3, <2>1, <2>2, <2>3
<1>12. StillPending'
  BY <1>1, <1>2, <1>4 DEF StillPending, Deciding, Of
<1>13. TierIsEarned'
  <2> SUFFICES ASSUME NEW u \in Users
               PROVE  /\ \A j \in 1 .. tier'[u] : \E t \in Submissions :
                            /\ row'[t].owner = u /\ row'[t].status = "approved"
                            /\ row'[t].tier = j /\ row'[t].reviewer # u
                      /\ \A t \in Submissions :
                            row'[t].owner = u /\ row'[t].status = "approved"
                                => row'[t].tier <= tier'[u]
    BY DEF TierIsEarned
  <2>1. ASSUME NEW j \in 1 .. tier'[u]
        PROVE  \E t \in Submissions :
                  /\ row'[t].owner = u /\ row'[t].status = "approved"
                  /\ row'[t].tier = j /\ row'[t].reviewer # u
    <3>1. CASE j \in 1 .. tier[u]
      <4>1. PICK t \in Submissions : /\ row[t].owner = u /\ row[t].status = "approved"
                                     /\ row[t].tier = j /\ row[t].reviewer # u
        BY <3>1 DEF TierIsEarned
      <4>2. row'[t] = row[t]
        BY <1>1, <1>2, <4>1
      <4> QED
        BY <4>1, <4>2
    <3>2. CASE j \notin 1 .. tier[u]
      <4>1. u = o /\ approved /\ j = k
        BY <1>1, <1>3, <1>5, <3>2
      <4> QED
        BY <1>1, <1>2, <4>1 DEF approved
    <3> QED  BY <3>1, <3>2
  <2>2. ASSUME NEW t \in Submissions, row'[t].owner = u, row'[t].status = "approved"
        PROVE  row'[t].tier <= tier'[u]
    <3>1. CASE t = d
      BY <1>1, <1>2, <1>3, <1>5, <2>2, <3>1 DEF approved
    <3>2. CASE t # d
      <4>1. row[t].tier <= tier[u] /\ row[t].tier \in Int
        BY <1>2, <2>2, <3>2, TiersAssumption DEF TierIsEarned, RowsOfTheDone, Tiers
      <4> QED
        BY <1>2, <1>3, <1>5, <1>6, <3>2, <4>1 DEF CoreTypes
    <3> QED  BY <3>1, <3>2
  <2> QED  BY <2>1, <2>2
<1> QED
  BY <1>8, <1>9, <1>10, <1>11, <1>12, <1>13

LEMMA StepIInv == IInv /\ [Next /\ Orderly']_vars => IInv'
<1> SUFFICES ASSUME IInv, [Next /\ Orderly']_vars PROVE IInv'
  OBVIOUS
<1>1. BaseInv' /\ CoreInv
  BY StepBaseInv DEF IInv, BaseInv, CoreInv, CoreTypes, ReviewRecords, TypeOK
<1>2. CASE UNCHANGED core
  BY <1>1, <1>2 DEF IInv, core, OrderlyInv, Orderly, NoneActive, NextTier, ActiveForTier,
      StillHeld, PendingIsNext, StillPending, OneActiveSubmission, TierIsEarned, Deciding, Of
<1>3. CASE ~UNCHANGED core
  <2>1. Next /\ Orderly'
    BY <1>3 DEF core, vars
  <2>2. \/ \E s \in Submissions : SubmitStep(s)
        \/ \E r \in Reviews : ReviewStep(r)
    BY <1>3, <2>1, NextSteps
  <2>3. OrderlyInv'
    BY <1>1, <2>1, <2>2, RequestStep, InsertStep, CommitStep DEF IInv, SubmitStep, ReviewStep,
        Applies, Checked, Uploaded, Left, Begins, Passes, Decides, Abandons
  <2> QED
    BY <1>1, <2>3 DEF IInv
<1> QED
  BY <1>2, <1>3

-----------------------------------------------------------------------------
(* However submissions and reviews overlap, the state is well typed.        *)
THEOREM TypeCorrect == Spec => []TypeOK
BY InitIInv, StepBaseInv, PTL DEF Spec, BaseInv, IInv

(* Nor is a submission ever approved by its owner (kyc.py 139-148).         *)
THEOREM NobodyApprovesTheirOwn == Spec => []FourEyes
BY InitIInv, StepBaseInv, PTL DEF Spec, BaseInv, IInv

(* While a user applies once at a time and a submission has one reviewer at *)
(* a time, the invariant of the theorems below holds.                       *)
THEOREM InvariantHolds == OrderlySpec => []IInv
BY InitIInv, StepIInv, PTL DEF OrderlySpec

(* A user has one pending or approved submission per tier, although the look *)
(* at the submissions and the INSERT are apart (kyc.py 61-80).               *)
THEOREM OneSubmissionPerTier == OrderlySpec => []OneActiveSubmission
BY InvariantHolds, PTL DEF IInv, OrderlyInv

(* Every tier up to a user's own was approved by somebody else, and no       *)
(* approval is above it (kyc.py 150-162).                                    *)
THEOREM TiersAreEarned == OrderlySpec => []TierIsEarned
BY InvariantHolds, PTL DEF IInv, OrderlyInv

(* A decision is not changed by anything that follows (kyc.py 139-148).      *)
THEOREM DecisionsStand == OrderlySpec => ReviewIsFinal
<1>1. ASSUME IInv, [Next /\ Orderly']_vars
      PROVE  [\A s \in Submissions : row[s].status \in Decisions => row'[s] = row[s]]_vars
  <2> SUFFICES ASSUME NEW s \in Submissions, row[s].status \in Decisions
               PROVE  row'[s] = row[s]
    OBVIOUS
  <2> USE DEF IInv, BaseInv, OrderlyInv, TypeOK
  <2>1. ASSUME NEW t \in Submissions, SubmitStep(t)
        PROVE  row'[s] = row[s]
    <3>1. CASE Inserted(t)
      BY <1>1, <3>1 DEF Inserted, RowsOfTheDone, Decisions
    <3> QED
      BY <2>1, <3>1 DEF SubmitStep, Applies, Checked, Uploaded, Left
  <2>2. ASSUME NEW r \in Reviews, ReviewStep(r)
        PROVE  row'[s] = row[s]
    <3>1. CASE Commits(r)
      <4>1. row[Of(r)].status = "pending"
        BY <1>1, <3>1 DEF Commits, StillPending, Deciding
      <4> QED
        BY <1>1, <3>1, <4>1 DEF Commits, Decisions
    <3> QED
      BY <2>2, <3>1 DEF ReviewStep, Begins, Passes, Decides, Abandons
  <2> QED
    BY <1>1, <2>1, <2>2, NextSteps DEF core
<1> QED
  BY <1>1, InvariantHolds, PTL DEF OrderlySpec, ReviewIsFinal
=============================================================================
