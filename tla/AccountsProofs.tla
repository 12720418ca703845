---------------------------- MODULE AccountsProofs ----------------------------
(***************************************************************************)
(* Machine-checked proofs about Accounts, for every set of requests and    *)
(* addresses: what holds with every call overlapping every other, and what *)
(* a client gains that waits for an answer before it uses a token again.   *)
(***************************************************************************)
EXTENDS Accounts, FiniteSetTheorems, WellFoundedInduction, TLAPS

-----------------------------------------------------------------------------
(* The inductive invariant. *)

HasAccount(u) == u \in Requests /\ email[u] # NoEmail

(* A row is committed by the last steps of its request, and a request whose *)
(* INSERT is done has not committed it yet.                                 *)
RowsOfTheDone ==
    /\ \A r \in Requests : email[r] # NoEmail => pc[r] \in {"audit", "done"}
    /\ \A r \in Requests : merchant[r] # NoToken => pc[r] \in {"report", "done"}

(* An inserted, uncommitted user or merchant has its unique value to itself: *)
(* the INSERT waited for other open transactions and found no committed one. *)
EmailReserved ==
    \A r \in Requests : pc[r] = "commit" =>
        /\ req[r].email # NoEmail /\ UserWith(req[r].email) = {}
        /\ \A q \in Requests : pc[q] = "commit" /\ req[q].email = req[r].email => q = r
ProfileReserved ==
    \A r \in Requests : pc[r] = "open" =>
        /\ ProfilesOf(Caller(r)) = {}
        /\ \A q \in Requests : pc[q] = "open" /\ Caller(q) = Caller(r) => q = r

(* A request that inserts a user names an address. *)
Inserting == \A r \in Requests : pc[r] = "find" \/ pc[r] = "insert" => req[r].email # NoEmail

(* Tokens are of users, and so are the calls that use them. *)
TokensOfUsers == \A t \in Tokens : HasAccount(owner[t])
AnsweredTokens ==
    \A r \in Requests : reply[r] = "tokens" \/ pc[r] = "audit" => r \in Tokens
UsedTokens == \A r \in Requests : pc[r] \in {"rotate", "revoke"} => req[r].token \in Tokens
SignedInCalls ==
    \A r \in Requests :
        pc[r] \in {"auth", "flush", "shown", "enlist", "open", "rekey", "report"} =>
            HasAccount(Caller(r))

IInv ==
    /\ TypeOK /\ RowsOfTheDone /\ EmailReserved /\ ProfileReserved /\ Inserting
    /\ TokensOfUsers /\ AnsweredTokens /\ UsedTokens /\ SignedInCalls /\ UniqueAccounts

-----------------------------------------------------------------------------
(* What holds while a client does not use a token or rotate a key again     *)
(* before it is answered.  First the sessions: the tokens of a session are  *)
(* a chain, of which only the last can be live.  This is what OneLiveToken  *)
(* says of a whole chain, token by token.                                   *)

SessionsAreChains ==
    \A t \in Requests : parent[t] # NoToken =>
        /\ parent[t] \in Tokens \cap revoked /\ owner[t] = owner[parent[t]]
        /\ \A u \in Requests : parent[u] = parent[t] => u = t

(* A token comes with the last step of its request, and what a refresh read  *)
(* of its own token still holds when it rotates.                             *)
TokensOfTheDone == \A t \in Tokens : pc[t] \in {"audit", "done"}
StillGood ==
    \A r \in Requests : pc[r] = "rotate" => Is(r, "refresh") /\ req[r].token \notin revoked
RevokedByLogout == \A r \in Requests : pc[r] = "revoke" => Is(r, "logout")

SessionInv == TokensOfTheDone /\ StillGood /\ RevokedByLogout /\ SessionsAreChains

(* Then the keys.  A handler that is about to hand out a key has set it, and *)
(* no other one sets the key of the same merchant meanwhile.                 *)
KeyPhases ==
    \A r \in Requests :
        /\ pc[r] = "rekey" => Is(r, "rotate")
        /\ pc[r] \in {"enlist", "open"} => Is(r, "merchant")
        /\ pc[r] = "report" => req[r].op \in KeyOps
KeysHandedOut == \A k \in Requests : reply[k] = "key" => pc[k] = "done"
KeysOfCallers ==
    \A m, k \in Requests :
        merchant[m] # NoToken /\ apiKey[m] = k =>
            /\ merchant[m] = Caller(k) /\ req[k].op \in KeyOps
            /\ pc[k] = "report" \/ (pc[k] = "done" /\ reply[k] \in {"key", "error", "lost"})
KeyIsSet ==
    /\ \A r \in Requests : pc[r] = "report" => \E m \in ProfilesOf(Caller(r)) : apiKey[m] = r
    /\ \A m \in Requests : merchant[m] # NoToken => apiKey[m] \in Requests
ShownIsLast ==
    \A m, k \in Requests :
        merchant[m] # NoToken /\ apiKey[m] = k /\ reply[k] = "key" => inHand[merchant[m]] = k

KeyInv == KeyPhases /\ KeysHandedOut /\ KeysOfCallers /\ KeyIsSet /\ ShownIsLast

-----------------------------------------------------------------------------
LEMMA InitIInv == Init => IInv
<1> SUFFICES ASSUME Init PROVE IInv
  OBVIOUS
<1> USE DEF Init, NoRequest
<1>1. TypeOK
  BY DEF TypeOK, Ops, KeyOps
<1>2. RowsOfTheDone /\ EmailReserved /\ ProfileReserved /\ Inserting
  BY DEF RowsOfTheDone, EmailReserved, ProfileReserved, Inserting
<1>3. TokensOfUsers /\ AnsweredTokens /\ UsedTokens /\ SignedInCalls
  BY DEF TokensOfUsers, AnsweredTokens, UsedTokens, SignedInCalls, Tokens
<1>4. UniqueAccounts
  BY DEF UniqueAccounts, OneAccountPerEmail, OneProfilePerUser, ProfilesOf
<1> QED
  BY <1>1, <1>2, <1>3, <1>4 DEF IInv

-----------------------------------------------------------------------------
(* What a step does to the part of the state that the invariant is about. *)
core == <<req, reply, email, wallets, owner, merchant, promoted>>

Arriving(r) ==
    \E q \in [op : Ops, email : Emails \cup {NoEmail}, token : Requests \cup {NoToken}] :
        /\ pc[r] = "idle" /\ req' = [req EXCEPT ![r] = q]
        /\ \/ pc' = [pc EXCEPT ![r] = "find"] /\ q.email # NoEmail
           \/ pc' = [pc EXCEPT ![r] = "read"]
           \/ pc' = [pc EXCEPT ![r] = "auth"] /\ q.token \in SignedIn
        /\ UNCHANGED <<reply, email, wallets, owner, merchant, promoted>>

(* A handler that has found its answer ... *)
Ends(r) ==
    /\ pc[r] \in Working /\ pc' = [pc EXCEPT ![r] = "done"]
    /\ \E answer \in {"tokens", "key", "ok", "conflict", "unauthorized", "not_found",
                       "error", "lost"} :
          /\ reply' = [reply EXCEPT ![r] = answer]
          /\ answer = "tokens" => pc[r] = "audit"
    /\ UNCHANGED <<req, email, wallets, owner, merchant, promoted>>

(* ... or that goes on. *)
GoesOn(r) ==
    \E to \in Working :
        /\ \/ pc[r] = "find" /\ to \in {"insert", "issue"}
           \/ pc[r] = "insert" /\ to = "commit"
              /\ ~EmailPending(r) /\ UserWith(req[r].email) = {}
           \/ pc[r] = "read" /\ to \in {"rotate", "revoke"} /\ req[r].token \in Tokens
           \/ pc[r] = "auth" /\ to \in {"flush", "enlist", "rekey"}
           \/ pc[r] = "flush" /\ to = "shown"
           \/ pc[r] = "enlist" /\ to = "open"
              /\ ~MerchantPending(r) /\ ProfilesOf(Caller(r)) = {}
           \/ pc[r] = "rekey" /\ to = "report"
        /\ pc' = [pc EXCEPT ![r] = to]
        /\ UNCHANGED core

StepOf(r) ==
    \/ Arriving(r) \/ Ends(r) \/ GoesOn(r)
    \/ CommitUser(r) \/ Issue(r) \/ Rotate(r) \/ CommitMerchant(r)

LEMMA NextSteps ==
    ASSUME TypeOK, [Next]_vars
    PROVE  (\E r \in Requests : StepOf(r)) \/ UNCHANGED <<pc, core>>
<1> USE DEF core, db, sessions, shops
<1>1. ASSUME NEW r \in Requests,
             \/ \E e \in Emails : ArriveWithEmail(r, e)
             \/ \E t \in Requests \cup {NoToken} : ArriveWithToken(r, t)
             \/ \E u \in Requests : ArriveSignedIn(r, u)
      PROVE  Arriving(r)
  BY <1>1, NamesAssumption DEF ArriveWithEmail, ArriveWithToken, ArriveSignedIn, Goto,
      Arriving, Ops, KeyOps
<1>2. ASSUME NEW r \in Requests,
             \/ EmailTaken(r) \/ EmailConflict(r) \/ BadCredentials(r) \/ Audit(r)
             \/ AuditFailed(r) \/ TokenBad(r) \/ LogoutIgnored(r) \/ Revoke(r)
      PROVE  Ends(r)
  BY <1>2 DEF EmailTaken, EmailConflict, BadCredentials, Audit, AuditFailed, TokenBad,
      LogoutIgnored, Revoke, Answer, Goto, Ends, Working
<1>3. ASSUME NEW r \in Requests,
             \/ AccessRefused(r) \/ PhoneTaken(r) \/ PhoneConflict(r) \/ ShowProfile(r)
             \/ MerchantExists(r) \/ MerchantConflict(r) \/ NoMerchant(r) \/ HandOut(r)
             \/ KeyAuditFailed(r) \/ Crash(r)
      PROVE  Ends(r)
  BY <1>3 DEF AccessRefused, PhoneTaken, PhoneConflict, ShowProfile, MerchantExists,
      MerchantConflict, NoMerchant, HandOut, KeyAuditFailed, Crash, Answer, Goto, Ends, Working
<1>4. ASSUME NEW r \in Requests,
             \/ EmailFree(r) \/ InsertUser(r) \/ UserFound(r) \/ TokenGood(r)
             \/ LogoutFound(r)
      PROVE  GoesOn(r)
  BY <1>4 DEF EmailFree, InsertUser, UserFound, TokenGood, LogoutFound, Pass, Goto, GoesOn,
      Good, Revocable, Working
<1>5. ASSUME NEW r \in Requests,
             \/ PhoneFree(r) \/ FlushProfile(r) \/ MerchantAbsent(r) \/ InsertMerchant(r)
             \/ FindMerchant(r) \/ CommitKey(r)
      PROVE  GoesOn(r)
  BY <1>5 DEF PhoneFree, FlushProfile, MerchantAbsent, InsertMerchant, FindMerchant,
      CommitKey, Pass, Goto, GoesOn, Working
<1>6. ASSUME NEW r \in Requests, Expire(r) PROVE UNCHANGED <<pc, core>>
  BY <1>6 DEF Expire
<1>7. CASE UNCHANGED vars
  BY <1>7 DEF vars
<1> QED
  BY <1>1, <1>2, <1>3, <1>4, <1>5, <1>6, <1>7 DEF Next, StepOf

-----------------------------------------------------------------------------
(* Types, action by action: those that leave the tables alone first. *)
LEMMA StepTypeOK ==
    ASSUME IInv, [Next]_vars
    PROVE  TypeOK'
<1> TypeOK /\ NoToken \notin Requests
  BY NamesAssumption DEF IInv
<1> USE DEF TypeOK, db, sessions, shops, Goto, Working
<1>1. ASSUME NEW r \in Requests,
             \/ \E e \in Emails : ArriveWithEmail(r, e)
             \/ \E t \in Requests \cup {NoToken} : ArriveWithToken(r, t)
             \/ \E u \in Requests : ArriveSignedIn(r, u)
      PROVE  TypeOK'
  BY <1>1 DEF ArriveWithEmail, ArriveWithToken, ArriveSignedIn, Ops, KeyOps
<1>2. ASSUME NEW r \in Requests, NEW from \in Working,
             NEW answer \in {"tokens", "ok", "conflict", "unauthorized", "not_found",
                             "error", "lost"},
             Answer(r, from, answer)
      PROVE  TypeOK'
  BY <1>2 DEF Answer
<1>3. ASSUME NEW r \in Requests, NEW from \in Working, NEW to \in Working, Pass(r, from, to)
      PROVE  TypeOK'
  BY <1>3 DEF Pass
<1>4. ASSUME NEW r \in Requests, CommitUser(r) \/ Issue(r)
      PROVE  TypeOK'
  <2>1. CASE CommitUser(r)
    <3>1. req[r].email \in Emails \cup {NoEmail}
      OBVIOUS
    <3> QED
      BY <2>1, <3>1 DEF CommitUser
  <2>2. CASE Issue(r)
    BY <2>2 DEF Issue, UserWith
  <2> QED
    BY <1>4, <2>1, <2>2
<1>5. ASSUME NEW r \in Requests, Rotate(r) \/ Revoke(r)
      PROVE  TypeOK'
  <2>1. CASE Rotate(r)
    <3>1. req[r].token \in Requests /\ owner[req[r].token] \in Requests \cup {NoToken}
      BY <2>1 DEF Rotate, IInv, UsedTokens, Tokens
    <3> QED
      BY <2>1, <3>1 DEF Rotate
  <2>2. CASE Revoke(r)
    <3>1. req[r].token \in Requests
      BY <2>2 DEF Revoke, IInv, UsedTokens, Tokens
    <3> QED
      BY <2>2, <3>1 DEF Revoke
  <2> QED
    BY <1>5, <2>1, <2>2
<1>10. ASSUME NEW r \in Requests, CommitMerchant(r) \/ CommitKey(r) \/ HandOut(r)
      PROVE  TypeOK'
  <2>1. Caller(r) \in Requests
    BY <1>10 DEF CommitMerchant, CommitKey, HandOut, IInv, SignedInCalls, HasAccount
  <2>2. CASE CommitMerchant(r)
    BY <2>1, <2>2 DEF CommitMerchant
  <2>3. CASE CommitKey(r)
    BY <2>3 DEF CommitKey, ProfilesOf
  <2>4. CASE HandOut(r)
    BY <2>1, <2>4 DEF HandOut
  <2> QED
    BY <1>10, <2>2, <2>3, <2>4
<1>6. ASSUME NEW r \in Requests, Expire(r) PROVE TypeOK'
  BY <1>6 DEF Expire, Tokens
<1>7. CASE UNCHANGED vars
  BY <1>7 DEF vars
<1>8. ASSUME NEW r \in Requests,
             \/ EmailFree(r) \/ InsertUser(r) \/ UserFound(r) \/ TokenGood(r)
             \/ LogoutFound(r) \/ PhoneFree(r) \/ FlushProfile(r) \/ MerchantAbsent(r)
             \/ InsertMerchant(r) \/ FindMerchant(r)
      PROVE  TypeOK'
  BY <1>8, <1>3 DEF EmailFree, InsertUser, UserFound, TokenGood, LogoutFound, PhoneFree,
      FlushProfile, MerchantAbsent, InsertMerchant, FindMerchant
<1>9. ASSUME NEW r \in Requests,
             \/ EmailTaken(r) \/ EmailConflict(r) \/ BadCredentials(r) \/ Audit(r)
             \/ AuditFailed(r) \/ TokenBad(r) \/ LogoutIgnored(r) \/ AccessRefused(r)
             \/ PhoneTaken(r) \/ PhoneConflict(r) \/ ShowProfile(r) \/ MerchantExists(r)
             \/ MerchantConflict(r) \/ NoMerchant(r) \/ KeyAuditFailed(r) \/ Crash(r)
      PROVE  TypeOK'
  BY <1>9, <1>2 DEF EmailTaken, EmailConflict, BadCredentials, Audit, AuditFailed, TokenBad,
      LogoutIgnored, AccessRefused, PhoneTaken, PhoneConflict, ShowProfile, MerchantExists,
      MerchantConflict, NoMerchant, KeyAuditFailed, Crash
<1> HIDE DEF TypeOK, db, sessions, shops, Goto, Working
<1> QED
  BY <1>1, <1>4, <1>5, <1>6, <1>7, <1>8, <1>9, <1>10 DEF Next

-----------------------------------------------------------------------------
(* The rest of the invariant, part by part. *)
LEMMA RowsStep ==
    ASSUME IInv, NEW r \in Requests, StepOf(r)
    PROVE  RowsOfTheDone'
<1> USE DEF IInv, TypeOK, RowsOfTheDone, core, db, sessions, shops, Goto
<1>1. CASE Arriving(r) \/ Ends(r)
  BY <1>1 DEF Arriving, Ends
<1>2. CASE GoesOn(r)
  BY <1>2 DEF GoesOn
<1>3. CASE CommitUser(r)
  BY <1>3 DEF CommitUser
<1>4. CASE Issue(r) \/ Rotate(r)
  BY <1>4 DEF Issue, Rotate
<1>5. CASE CommitMerchant(r)
  BY <1>5 DEF CommitMerchant
<1> QED
  BY <1>1, <1>2, <1>3, <1>4, <1>5 DEF StepOf

LEMMA EmailStep ==
    ASSUME IInv, NEW r \in Requests, StepOf(r)
    PROVE  EmailReserved' /\ Inserting'
<1> USE DEF IInv, TypeOK, EmailReserved, Inserting, UserWith, core, db, sessions, shops, Goto
<1>1. CASE Arriving(r) \/ Ends(r)
  BY <1>1 DEF Arriving, Ends
<1>2. CASE GoesOn(r)
  BY <1>2 DEF GoesOn, EmailPending
<1>3. CASE CommitUser(r)
  BY <1>3 DEF CommitUser
<1>4. CASE Issue(r) \/ Rotate(r)
  BY <1>4 DEF Issue, Rotate
<1>5. CASE CommitMerchant(r)
  BY <1>5 DEF CommitMerchant
<1> QED
  BY <1>1, <1>2, <1>3, <1>4, <1>5 DEF StepOf

LEMMA ProfileStep ==
    ASSUME IInv, NEW r \in Requests, StepOf(r)
    PROVE  ProfileReserved'
<1> USE DEF IInv, TypeOK, ProfileReserved, ProfilesOf, Caller, core, db, sessions, shops, Goto
<1>1. CASE Arriving(r) \/ Ends(r)
  BY <1>1 DEF Arriving, Ends
<1>2. CASE GoesOn(r)
  BY <1>2 DEF GoesOn, MerchantPending
<1>3. CASE CommitUser(r) \/ Issue(r) \/ Rotate(r)
  BY <1>3 DEF CommitUser, Issue, Rotate
<1>4. CASE CommitMerchant(r)
  BY <1>4 DEF CommitMerchant
<1> QED
  BY <1>1, <1>2, <1>3, <1>4 DEF StepOf

(* Nothing takes an address or a token's user away. *)
LEMMA RowsStay ==
    ASSUME IInv, NEW r \in Requests, StepOf(r)
    PROVE  /\ \A u \in Requests : email[u] # NoEmail => email'[u] = email[u]
           /\ \A t \in Requests : t \in Tokens => t \in Tokens'
<1> USE NamesAssumption DEF IInv, TypeOK, Tokens, core, db, sessions, shops, Goto
<1>1. CASE Arriving(r) \/ Ends(r) \/ GoesOn(r) \/ CommitMerchant(r)
  BY <1>1 DEF Arriving, Ends, GoesOn, CommitMerchant
<1>2. CASE CommitUser(r)
  BY <1>2 DEF CommitUser, RowsOfTheDone
<1>3. CASE Issue(r)
  BY <1>3 DEF Issue, UserWith
<1>4. CASE Rotate(r)
  BY <1>4 DEF Rotate, UsedTokens
<1> QED
  BY <1>1, <1>2, <1>3, <1>4 DEF StepOf

LEMMA TokenStep ==
    ASSUME IInv, NEW r \in Requests, StepOf(r)
    PROVE  TokensOfUsers' /\ AnsweredTokens' /\ UsedTokens'
<1> USE NamesAssumption, RowsStay
    DEF IInv, TypeOK, TokensOfUsers, AnsweredTokens, UsedTokens, HasAccount, Tokens, core, db, sessions, shops, Goto
<1>1. CASE Arriving(r)
  BY <1>1 DEF Arriving
<1>2. CASE Ends(r)
  BY <1>2 DEF Ends
<1>3. CASE GoesOn(r)
  BY <1>3 DEF GoesOn
<1>4. CASE CommitUser(r)
  BY <1>4 DEF CommitUser, EmailReserved
<1>5. CASE Issue(r)
  BY <1>5 DEF Issue, UserWith
<1>6. CASE Rotate(r)
  BY <1>6 DEF Rotate
<1>7. CASE CommitMerchant(r)
  BY <1>7 DEF CommitMerchant
<1> QED
  BY <1>1, <1>2, <1>3, <1>4, <1>5, <1>6, <1>7 DEF StepOf

LEMMA CallerStep ==
    ASSUME IInv, NEW r \in Requests, StepOf(r)
    PROVE  SignedInCalls'
<1> USE RowsStay DEF IInv, TypeOK, SignedInCalls, HasAccount, Caller, core, db, sessions, shops, Goto
<1>1. CASE Arriving(r)
  BY <1>1 DEF Arriving, SignedIn, Known, AnsweredTokens, TokensOfUsers
<1>2. CASE Ends(r) \/ GoesOn(r)
  BY <1>2 DEF Ends, GoesOn
<1>3. CASE CommitUser(r) \/ Issue(r) \/ Rotate(r)
  BY <1>3 DEF CommitUser, Issue, Rotate
<1>4. CASE CommitMerchant(r)
  BY <1>4 DEF CommitMerchant
<1> QED
  BY <1>1, <1>2, <1>3, <1>4 DEF StepOf

LEMMA UniqueStep ==
    ASSUME IInv, NEW r \in Requests, StepOf(r)
    PROVE  UniqueAccounts'
<1> USE NamesAssumption DEF IInv, TypeOK, UniqueAccounts, OneAccountPerEmail, OneProfilePerUser,
        ProfilesOf, core, db, sessions, shops, Goto
<1>1. CASE Arriving(r) \/ Ends(r) \/ GoesOn(r)
  BY <1>1 DEF Arriving, Ends, GoesOn
<1>2. CASE Issue(r) \/ Rotate(r)
  BY <1>2 DEF Issue, Rotate
<1>3. CASE CommitUser(r)
  <2>1. email[r] = NoEmail /\ r \notin wallets /\ req[r].email # NoEmail
    BY <1>3 DEF CommitUser, RowsOfTheDone, EmailReserved
  <2>2. OneAccountPerEmail'
    BY <1>3, <2>1 DEF CommitUser, EmailReserved, UserWith
  <2>3. OneProfilePerUser'
    BY <1>3, <2>1 DEF CommitUser
  <2> QED  BY <2>2, <2>3
<1>4. CASE CommitMerchant(r)
  <2>1. /\ merchant[r] = NoToken /\ Caller(r) \in wallets
        /\ \A m \in Requests : merchant[m] # Caller(r)
    BY <1>4 DEF CommitMerchant, RowsOfTheDone, SignedInCalls, HasAccount, ProfileReserved
  <2>2. OneAccountPerEmail'
    BY <1>4, <2>1 DEF CommitMerchant
  <2>3. OneProfilePerUser'
    BY <1>4, <2>1 DEF CommitMerchant
  <2> QED  BY <2>2, <2>3
<1> QED
  BY <1>1, <1>2, <1>3, <1>4 DEF StepOf

LEMMA StepIInv == IInv /\ [Next]_vars => IInv'
<1> SUFFICES ASSUME IInv, [Next]_vars PROVE IInv'
  OBVIOUS
<1>1. TypeOK'
  BY StepTypeOK DEF IInv
<1>2. CASE \E r \in Requests : StepOf(r)
  BY <1>1, <1>2, RowsStep, EmailStep, ProfileStep, TokenStep, CallerStep, UniqueStep DEF IInv
<1>3. CASE UNCHANGED <<pc, core>>
  BY <1>1, <1>3 DEF core, IInv, RowsOfTheDone, EmailReserved, ProfileReserved, Inserting,
      TokensOfUsers, AnsweredTokens, UsedTokens, SignedInCalls, UniqueAccounts,
      OneAccountPerEmail, OneProfilePerUser, HasAccount, Tokens, UserWith, ProfilesOf, Caller
<1> QED
  BY <1>2, <1>3, NextSteps DEF IInv

(* The invariant that the theorems below are parts of: what a call in flight *)
(* may rely on while any other runs (services/auth.py, services/merchant.py). *)
THEOREM InvariantHolds == Spec => []IInv
BY InitIInv, StepIInv, PTL DEF Spec

(* Every variable keeps its type, whatever overlaps. *)
THEOREM TypeCorrect == Spec => []TypeOK
BY InvariantHolds, PTL DEF IInv

(* An address has one account and a user one merchant profile, and wallets   *)
(* and roles agree with them, although both are looked for long before they  *)
(* are inserted (auth.py 81-102, merchant.py 37-67).                         *)
THEOREM AccountsAreUnique == Spec => []UniqueAccounts
BY InvariantHolds, PTL DEF IInv

-----------------------------------------------------------------------------
(* What a step does to sessions and keys. *)
marks == <<req, owner, parent, revoked, merchant, apiKey, inHand>>

Arrives(r) ==
    /\ pc[r] = "idle" /\ \E to \in {"find", "read", "auth"} : pc' = [pc EXCEPT ![r] = to]
    /\ \E q \in [op : Ops, email : Emails \cup {NoEmail}, token : Requests \cup {NoToken}] :
          req' = [req EXCEPT ![r] = q]
    /\ UNCHANGED <<reply, owner, parent, revoked, merchant, apiKey, inHand>>

Onward(r) ==
    \E to \in (Working \ {"report"}) \cup {"done"} :
        /\ pc[r] \in Working /\ pc' = [pc EXCEPT ![r] = to]
        /\ pc[r] \in {"audit", "report"} => to = "done"
        /\ pc[r] = "report" => reply' \in {[reply EXCEPT ![r] = "error"],
                                           [reply EXCEPT ![r] = "lost"]}
        /\ to = "rotate" => Is(r, "refresh") /\ Good(req[r].token)
        /\ to = "revoke" => Is(r, "logout")
        /\ to = "enlist" => Is(r, "merchant")
        /\ to = "open" => pc[r] = "enlist"
        /\ to = "rekey" => Is(r, "rotate")
        /\ \/ UNCHANGED reply
           \/ \E answer \in {"tokens", "ok", "conflict", "unauthorized", "not_found",
                             "error", "lost"} : reply' = [reply EXCEPT ![r] = answer]
        /\ UNCHANGED marks

MarkStep(r) ==
    \/ Arrives(r) \/ Onward(r) \/ CommitUser(r) \/ Issue(r) \/ Rotate(r) \/ Revoke(r)
    \/ CommitMerchant(r) \/ CommitKey(r) \/ HandOut(r)

LEMMA MarkSteps ==
    ASSUME TypeOK, [Next]_vars
    PROVE  (\E r \in Requests : MarkStep(r)) \/ UNCHANGED <<pc, reply, marks>>
<1> USE DEF marks, db, sessions, shops
<1>1. ASSUME NEW r \in Requests,
             \/ \E e \in Emails : ArriveWithEmail(r, e)
             \/ \E t \in Requests \cup {NoToken} : ArriveWithToken(r, t)
             \/ \E u \in Requests : ArriveSignedIn(r, u)
      PROVE  Arrives(r)
  BY <1>1 DEF ArriveWithEmail, ArriveWithToken, ArriveSignedIn, Goto, Arrives, Ops, KeyOps
<1>2. ASSUME NEW r \in Requests, NEW from \in Working,
             NEW answer \in {"tokens", "ok", "conflict", "unauthorized", "not_found",
                             "error", "lost"},
             from = "report" => answer \in {"error", "lost"},
             Answer(r, from, answer)
      PROVE  Onward(r)
  BY <1>2 DEF Answer, Goto, Onward, Working
<1>3. ASSUME NEW r \in Requests,
             \/ EmailTaken(r) \/ EmailConflict(r) \/ BadCredentials(r) \/ Audit(r)
             \/ AuditFailed(r) \/ TokenBad(r) \/ LogoutIgnored(r) \/ AccessRefused(r)
             \/ PhoneTaken(r) \/ PhoneConflict(r) \/ ShowProfile(r) \/ MerchantExists(r)
             \/ MerchantConflict(r) \/ NoMerchant(r) \/ KeyAuditFailed(r) \/ Crash(r)
      PROVE  Onward(r)
  <2> "find" \in Working /\ "insert" \in Working /\ "audit" \in Working /\ "read" \in Working
      /\ "auth" \in Working /\ "flush" \in Working /\ "shown" \in Working
      /\ "enlist" \in Working /\ "report" \in Working
    BY DEF Working
  <2> QED
    BY <1>3, <1>2 DEF EmailTaken, EmailConflict, BadCredentials, Audit, AuditFailed, TokenBad,
      LogoutIgnored, AccessRefused, PhoneTaken, PhoneConflict, ShowProfile, MerchantExists,
      MerchantConflict, NoMerchant, KeyAuditFailed, Crash
<1>4. ASSUME NEW r \in Requests,
             \/ EmailFree(r) \/ InsertUser(r) \/ UserFound(r) \/ TokenGood(r)
             \/ LogoutFound(r)
      PROVE  Onward(r)
  BY <1>4 DEF EmailFree, InsertUser, UserFound, TokenGood, LogoutFound, Pass, Goto, Onward,
      Working
<1>5. ASSUME NEW r \in Requests,
             \/ PhoneFree(r) \/ FlushProfile(r) \/ MerchantAbsent(r) \/ InsertMerchant(r)
             \/ FindMerchant(r)
      PROVE  Onward(r)
  BY <1>5 DEF PhoneFree, FlushProfile, MerchantAbsent, InsertMerchant, FindMerchant, Pass,
      Goto, Onward, Working
<1>6. ASSUME NEW r \in Requests, Expire(r) PROVE UNCHANGED <<pc, reply, marks>>
  BY <1>6 DEF Expire
<1>7. CASE UNCHANGED vars
  BY <1>7 DEF vars
<1> QED
  BY <1>1, <1>3, <1>4, <1>5, <1>6, <1>7 DEF Next, MarkStep

(* Two calls that may not overlap do not. *)
LEMMA Apart ==
    ASSUME IInv, OneUseAtATime, NEW r \in Requests, NEW q \in Requests, r # q,
           pc[r] \in Working, pc[q] \in Working, Exclusive(req[r].op, req[q].op),
           req[r].token \in Requests
    PROVE  req[r].token # req[q].token
BY NamesAssumption DEF OneUseAtATime

-----------------------------------------------------------------------------
(* The sessions. *)
LEMMA SessionStep ==
    ASSUME IInv, SessionInv, OneUseAtATime, NEW r \in Requests, MarkStep(r)
    PROVE  SessionInv'
<1> USE NamesAssumption DEF IInv, TypeOK, SessionInv, TokensOfTheDone, StillGood, RevokedByLogout,
      SessionsAreChains, Tokens, Is, db, sessions, shops, marks, Goto
<1>1. CASE Arrives(r)
  BY <1>1 DEF Arrives
<1>2. CASE Onward(r)
  <2>1. UNCHANGED marks /\ SessionsAreChains'
    BY <1>2 DEF Onward
  <2>2. TokensOfTheDone'
    BY <1>2 DEF Onward, Working
  <2>3. StillGood' /\ RevokedByLogout'
    BY <1>2 DEF Onward, Good
  <2> QED
    BY <2>1, <2>2, <2>3
<1>3. CASE CommitUser(r) \/ Issue(r)
  <2>1. /\ UNCHANGED <<req, parent, revoked>> /\ r \notin Tokens /\ r \in Requests
        /\ pc' = [pc EXCEPT ![r] = "audit"]
        /\ \E u \in Requests : owner' = [owner EXCEPT ![r] = u]
    BY <1>3 DEF CommitUser, Issue, UserWith
  <2>2. TokensOfTheDone' /\ StillGood' /\ RevokedByLogout'
    BY <2>1
  <2>3. SessionsAreChains'
    <3> SUFFICES ASSUME NEW t \in Requests, parent[t] # NoToken
                 PROVE  /\ parent[t] \in Tokens' /\ owner'[t] = owner'[parent[t]]
      BY <2>1
    <3>1. parent[t] \in Tokens /\ owner[t] = owner[parent[t]]
      OBVIOUS
    <3>2. t \in Tokens /\ t # r /\ parent[t] # r
      BY <2>1, <3>1
    <3> QED
      BY <2>1, <3>1, <3>2
  <2> QED
    BY <2>2, <2>3
<1>4. CASE Rotate(r)
  <2> DEFINE t == req[r].token
  <2>1. /\ t \in Tokens /\ t \notin revoked /\ r \notin Tokens /\ r # t
        /\ Is(r, "refresh") /\ pc[r] \in Working
    BY <1>4 DEF Rotate, UsedTokens, Working
  <2>2. /\ revoked' = revoked \cup {t} /\ owner' = [owner EXCEPT ![r] = owner[t]]
        /\ parent' = [parent EXCEPT ![r] = t] /\ pc' = [pc EXCEPT ![r] = "done"]
        /\ UNCHANGED req
    BY <1>4 DEF Rotate
  <2>3. TokensOfTheDone'
    BY <2>1, <2>2
  <2>4. RevokedByLogout'
    BY <2>1, <2>2
  <2>5. StillGood'
    <3> SUFFICES ASSUME NEW q \in Requests, q # r, pc[q] = "rotate"
                 PROVE  req[q].token # t
      BY <2>1, <2>2
    <3>1. Is(q, "refresh") /\ pc[q] \in Working
      BY DEF Working
    <3>2. Exclusive(req[r].op, req[q].op)
      BY <2>1, <3>1 DEF Exclusive
    <3> QED
      BY <2>1, <3>1, <3>2, Apart
  <2>6. SessionsAreChains'
    <3>1. \A u \in Requests : parent[u] # t
      BY <2>1
    <3>2. \A u \in Requests : u \in Tokens => u \in Tokens' /\ owner'[u] = owner[u]
      BY <2>1, <2>2
    <3> SUFFICES ASSUME NEW u \in Requests, parent'[u] # NoToken
                 PROVE  /\ parent'[u] \in Tokens' \cap revoked'
                        /\ owner'[u] = owner'[parent'[u]]
                        /\ \A v \in Requests : parent'[v] = parent'[u] => v = u
      OBVIOUS
    <3>3. CASE u = r
      BY <2>1, <2>2, <3>1, <3>2, <3>3
    <3>4. CASE u # r
      <4>1. parent'[u] = parent[u] /\ parent[u] \in Tokens /\ owner[u] = owner[parent[u]]
        BY <2>2, <3>4
      <4>2. u \in Tokens
        BY <4>1
      <4> QED
        BY <2>1, <2>2, <3>1, <3>2, <3>4, <4>1, <4>2
    <3> QED
      BY <3>3, <3>4
  <2> QED
    BY <2>3, <2>4, <2>5, <2>6
<1>5. CASE Revoke(r)
  <2> DEFINE t == req[r].token
  <2>1. t \in Tokens /\ Is(r, "logout") /\ pc[r] \in Working
    BY <1>5 DEF Revoke, UsedTokens, Working
  <2>2. /\ revoked' = revoked \cup {t} /\ pc' = [pc EXCEPT ![r] = "done"]
        /\ UNCHANGED <<req, owner, parent>>
    BY <1>5 DEF Revoke
  <2>3. TokensOfTheDone' /\ RevokedByLogout' /\ SessionsAreChains'
    BY <2>2
  <2>4. StillGood'
    <3> SUFFICES ASSUME NEW q \in Requests, q # r, pc[q] = "rotate"
                 PROVE  req[q].token # t
      BY <2>1, <2>2
    <3>1. Is(q, "refresh") /\ pc[q] \in Working
      BY DEF Working
    <3>2. Exclusive(req[r].op, req[q].op)
      BY <2>1, <3>1 DEF Exclusive
    <3> QED
      BY <2>1, <3>1, <3>2, Apart
  <2> QED
    BY <2>3, <2>4
<1>6. CASE CommitMerchant(r) \/ CommitKey(r) \/ HandOut(r)
  BY <1>6 DEF CommitMerchant, CommitKey, HandOut
<1> QED
  BY <1>1, <1>2, <1>3, <1>4, <1>5, <1>6 DEF MarkStep

-----------------------------------------------------------------------------
(* The keys.  No handler replaces a key that another one is about to hand out. *)
LEMMA AloneWithKey ==
    ASSUME IInv, KeyInv, OneUseAtATime, NEW r \in Requests, NEW q \in Requests,
           pc[r] = "rekey", pc[q] = "report"
    PROVE  Caller(r) # Caller(q)
<1>1. req[r].op = "rotate" /\ req[r].op \in KeyOps /\ req[q].op \in KeyOps
  BY DEF KeyInv, KeyPhases, Is, KeyOps
<1>2. Caller(r) \in Requests /\ pc[r] \in Working /\ pc[q] \in Working
  BY DEF IInv, SignedInCalls, HasAccount, Working
<1> QED
  BY <1>1, <1>2, Apart DEF Exclusive, Caller

LEMMA KeyStep ==
    ASSUME IInv, KeyInv, OneUseAtATime, NEW r \in Requests, MarkStep(r)
    PROVE  KeyInv'
<1> USE NamesAssumption DEF IInv, TypeOK, KeyInv, KeyPhases, KeysHandedOut, KeysOfCallers, KeyIsSet,
      ShownIsLast, ProfilesOf, Caller, Is, db, sessions, shops,
      marks, Goto
<1>1. CASE Arrives(r)
  BY <1>1 DEF Arrives
<1>2. CASE Onward(r)
  <2>1. KeyPhases'
    BY <1>2 DEF Onward
  <2>2. /\ \A q \in Requests : pc'[q] = "report" => pc[q] = "report"
        /\ \A q \in Requests : reply'[q] = "key" => q # r /\ reply[q] = "key"
        /\ \A q \in Requests : q # r => pc'[q] = pc[q]
        /\ pc[r] \notin {"done"} /\ (pc[r] = "report" => pc'[r] \in {"report", "done"})
    BY <1>2 DEF Onward, Working
  <2>3. UNCHANGED marks
    BY <1>2 DEF Onward
  <2>4. /\ req' = req /\ \A q \in Requests : q # r => reply'[q] = reply[q]
        /\ pc[r] = "report" => pc'[r] = "done" /\ reply'[r] \in {"error", "lost"}
    BY <1>2 DEF Onward
  <2>5. KeysHandedOut' /\ KeysOfCallers'
    BY <2>2, <2>3, <2>4
  <2>6. KeyIsSet' /\ ShownIsLast'
    BY <2>2, <2>3
  <2> QED
    BY <2>1, <2>5, <2>6
<1>3. CASE CommitUser(r) \/ Issue(r) \/ Rotate(r) \/ Revoke(r)
  <2>1. /\ pc[r] \notin {"done", "report"} /\ UNCHANGED <<req, merchant, apiKey, inHand>>
        /\ \E to \in {"audit", "done"} : pc' = [pc EXCEPT ![r] = to]
        /\ \A q \in Requests : q # r => reply'[q] = reply[q]
        /\ reply'[r] # "key" \/ reply'[r] = reply[r]
    BY <1>3 DEF CommitUser, Issue, Rotate, Revoke
  <2>2. KeyPhases' /\ KeysHandedOut'
    BY <2>1
  <2>3. KeysOfCallers' /\ KeyIsSet' /\ ShownIsLast'
    BY <2>1
  <2> QED
    BY <2>2, <2>3
<1>4. CASE CommitMerchant(r)
  <2>1. /\ merchant[r] = NoToken /\ Caller(r) \in Requests /\ reply[r] # "key"
        /\ Is(r, "merchant") /\ \A m, k \in Requests : apiKey[m] = r => merchant[m] = NoToken
    BY <1>4 DEF CommitMerchant, RowsOfTheDone, SignedInCalls, HasAccount
  <2>2. /\ merchant' = [merchant EXCEPT ![r] = Caller(r)] /\ apiKey' = [apiKey EXCEPT ![r] = r]
        /\ pc' = [pc EXCEPT ![r] = "report"] /\ UNCHANGED <<req, reply, inHand>>
    BY <1>4 DEF CommitMerchant
  <2>3. KeyPhases' /\ KeysHandedOut' /\ KeysOfCallers'
    BY <2>1, <2>2 DEF KeyOps
  <2>4. KeyIsSet'
    <3> SUFFICES ASSUME NEW q \in Requests, q # r, pc[q] = "report"
                 PROVE  \E n \in ProfilesOf(Caller(q)) : n # r /\ apiKey[n] = q
      BY <2>1, <2>2
    <3>1. PICK n \in ProfilesOf(Caller(q)) : apiKey[n] = q
      OBVIOUS
    <3>2. Caller(q) \in Requests
      BY DEF SignedInCalls, HasAccount
    <3> QED
      BY <2>1, <3>1, <3>2
  <2>5. ShownIsLast'
    BY <2>1, <2>2
  <2> QED
    BY <2>3, <2>4, <2>5
<1>5. CASE CommitKey(r)
  <2>1. PICK m \in ProfilesOf(Caller(r)) : apiKey' = [apiKey EXCEPT ![m] = r]
    BY <1>5 DEF CommitKey
  <2>2. /\ pc[r] = "rekey" /\ pc' = [pc EXCEPT ![r] = "report"]
        /\ UNCHANGED <<req, reply, merchant, inHand>>
    BY <1>5 DEF CommitKey
  <2>3. reply[r] # "key" /\ Is(r, "rotate") /\ Caller(r) \in Requests /\ merchant[m] = Caller(r)
    BY <2>1, <2>2 DEF SignedInCalls, HasAccount
  <2>4. KeyPhases' /\ KeysHandedOut' /\ KeysOfCallers'
    BY <2>1, <2>2, <2>3 DEF KeyOps
  <2>5. KeyIsSet'
    <3> SUFFICES ASSUME NEW q \in Requests, q # r, pc[q] = "report"
                 PROVE  \E n \in ProfilesOf(Caller(q)) : n # m /\ apiKey[n] = q
      BY <2>1, <2>2
    <3>1. PICK n \in ProfilesOf(Caller(q)) : apiKey[n] = q
      OBVIOUS
    <3>2. Caller(q) # Caller(r)
      BY <2>2, AloneWithKey
    <3> QED
      BY <2>3, <3>1, <3>2
  <2>6. ShownIsLast'
    BY <2>1, <2>2, <2>3
  <2> QED
    BY <2>4, <2>5, <2>6
<1>6. CASE HandOut(r)
  <2>1. /\ pc[r] = "report" /\ pc' = [pc EXCEPT ![r] = "done"]
        /\ reply' = [reply EXCEPT ![r] = "key"] /\ inHand' = [inHand EXCEPT ![Caller(r)] = r]
        /\ UNCHANGED <<req, merchant, apiKey>> /\ Caller(r) \in Requests
    BY <1>6 DEF HandOut, SignedInCalls, HasAccount
  <2>2. \A m \in ProfilesOf(Caller(r)) : apiKey[m] = r
    BY <2>1 DEF UniqueAccounts, OneProfilePerUser
  <2>3. KeyPhases' /\ KeysHandedOut' /\ KeysOfCallers' /\ KeyIsSet'
    BY <2>1
  <2>4. ShownIsLast'
    <3> SUFFICES ASSUME NEW k \in Requests, reply'[k] = "key", NEW m \in Requests,
                        merchant[m] # NoToken, apiKey[m] = k
                 PROVE  inHand'[merchant[m]] = k
      BY <2>1
    <3>1. CASE k = r
      BY <2>1, <3>1
    <3>2. CASE k # r
      BY <2>1, <2>2, <3>2
    <3> QED
      BY <3>1, <3>2
  <2> QED
    BY <2>3, <2>4
<1> QED
  BY <1>1, <1>2, <1>3, <1>4, <1>5, <1>6 DEF MarkStep

-----------------------------------------------------------------------------
CarefulInv == IInv /\ OneUseAtATime /\ SessionInv /\ KeyInv

LEMMA InitCareful == Init => CarefulInv
<1> SUFFICES ASSUME Init PROVE CarefulInv
  OBVIOUS
<1> USE NamesAssumption DEF Init, NoRequest
<1>1. IInv
  BY InitIInv
<1>2. OneUseAtATime
  BY DEF OneUseAtATime, Working
<1>3. SessionInv
  BY DEF SessionInv, TokensOfTheDone, StillGood, RevokedByLogout, SessionsAreChains, Tokens
<1>4. KeyInv
  BY DEF KeyInv, KeyPhases, KeysHandedOut, KeysOfCallers, KeyIsSet, ShownIsLast, ProfilesOf
<1> QED
  BY <1>1, <1>2, <1>3, <1>4 DEF CarefulInv

LEMMA StepCareful == CarefulInv /\ [Next /\ OneUseAtATime']_vars => CarefulInv'
<1> SUFFICES ASSUME CarefulInv, [Next /\ OneUseAtATime']_vars PROVE CarefulInv'
  OBVIOUS
<1> USE DEF CarefulInv
<1>1. IInv'
  BY StepIInv
<1>2. OneUseAtATime'
  BY DEF vars, OneUseAtATime
<1>3. CASE \E r \in Requests : MarkStep(r)
  BY <1>1, <1>2, <1>3, SessionStep, KeyStep
<1>4. CASE UNCHANGED <<pc, reply, marks>>
  BY <1>1, <1>2, <1>4 DEF marks, SessionInv, TokensOfTheDone, StillGood, RevokedByLogout,
      SessionsAreChains, Tokens, KeyInv, KeyPhases, KeysHandedOut, KeysOfCallers, KeyIsSet,
      ShownIsLast, ProfilesOf, Caller, Is
<1> QED
  BY <1>3, <1>4, MarkSteps DEF IInv

(* While clients wait for the answer to a token or a rotation before the     *)
(* next one: a token is exchanged once at most, is revoked by that and goes  *)
(* to the same user's successor (auth.py 183-197), so a session is a chain.  *)
THEOREM SessionsStayChains == CarefulSpec => []SessionsAreChains
BY InitCareful, StepCareful, PTL DEF CarefulSpec, CarefulInv, SessionInv

LEMMA KeysWork == IInv /\ KeyInv => KeyInForce
<1> SUFFICES ASSUME IInv, KeyInv, NEW u \in Requests, NEW m \in ProfilesOf(u)
             PROVE  \E k \in Requests :
                       /\ Authenticated(k) = {m}
                       /\ \/ reply[k] = "key" /\ inHand[u] = k
                          \/ Caller(k) = u /\ req[k].op \in KeyOps /\ AnswerMissing(k)
  BY DEF KeyInForce
<1> DEFINE k == apiKey[m]
<1>1. m \in Requests /\ merchant[m] = u /\ u # NoToken
  BY NamesAssumption DEF ProfilesOf
<1>2. k \in Requests
  BY <1>1 DEF KeyInv, KeyIsSet
<1>3. /\ Caller(k) = u /\ req[k].op \in KeyOps
      /\ pc[k] = "report" \/ reply[k] \in {"key", "error", "lost"}
      /\ reply[k] = "key" => inHand[u] = k
  BY <1>1, <1>2 DEF KeyInv, KeysOfCallers, ShownIsLast
<1>4. \A n \in Requests : merchant[n] # NoToken /\ apiKey[n] = k => n = m
  BY <1>1, <1>2, <1>3 DEF KeyInv, KeysOfCallers, IInv, UniqueAccounts, OneProfilePerUser
<1>5. Authenticated(k) = {m}
  BY <1>1, <1>4 DEF Authenticated, Candidates
<1> QED
  BY <1>2, <1>3, <1>5 DEF AnswerMissing

(* A merchant's key in force is the one it was shown last, unless a call of  *)
(* its own committed another whose answer is still to come, failed or was    *)
(* lost (merchant.py 97-123): a rotation that is answered while the next one *)
(* waits for it is the last one that was committed.                          *)
THEOREM KeysInForce == CarefulSpec => []KeyInForce
<1>1. CarefulInv => KeyInForce
  BY KeysWork DEF CarefulInv
<1> QED
  BY <1>1, InitCareful, StepCareful, PTL DEF CarefulSpec

-----------------------------------------------------------------------------
(* Sessions, whole.  Ancestry is defined by recursion; that it exists, and   *)
(* what it has, follows by induction.                                        *)

(* Induction over the natural numbers, for sets. *)
LEMMA NatSetInduction ==
    ASSUME NEW T \in SUBSET Nat, 0 \in T, \A n \in T : n + 1 \in T
    PROVE  T = Nat
<1> SUFFICES ASSUME Nat \ T # {} PROVE FALSE
  OBVIOUS
<1> DEFINE R == {ss \in Nat \X Nat : ss[1] < ss[2]}
<1>1. IsWellFoundedOn(R, Nat)
  BY NatLessThanWellFounded DEF OpToRel
<1> HIDE DEF R
<1>2. PICK n \in Nat \ T : \A m \in Nat \ T : <<m, n>> \notin R
  BY <1>1, WFMin
<1>3. n - 1 \in Nat /\ n - 1 < n
  BY <1>2
<1>4. <<n - 1, n>> \in R
  BY <1>3 DEF R
<1>5. n - 1 \in T
  BY <1>2, <1>3, <1>4
<1> QED
  BY <1>2, <1>5


Steps == Cardinality(Requests)
Unfold(f, n) ==
    [t \in Requests |->
        {t} \cup (IF n = 0 \/ parent[t] = NoToken THEN {} ELSE f[n - 1][parent[t]])]

(* Ancestry is what its definition says. *)
LEMMA AncestryUnfolds ==
    ASSUME TypeOK
    PROVE  /\ Steps \in Nat
           /\ \A n \in 0 .. Steps : Ancestry[n] = Unfold(Ancestry, n)
           /\ \A n \in 0 .. Steps, t \in Requests : Ancestry[n][t] \subseteq Requests
<1> DEFINE Sets == [Requests -> SUBSET Requests]
           Upto(k) == \E f \in [0 .. Steps -> Sets] :
                        \A n \in 0 .. Steps : n <= k => f[n] = Unfold(f, n)
           T == {k \in Nat : Upto(k)}
<1>1. Steps \in Nat
  BY NamesAssumption, FS_CardinalityType DEF Steps
<1>2. parent \in [Requests -> Requests \cup {NoToken}]
  BY DEF TypeOK
<1>3. ASSUME NEW f \in [0 .. Steps -> Sets], NEW n \in 0 .. Steps
      PROVE  Unfold(f, n) \in Sets
  <2>1. CASE n = 0
    BY <2>1 DEF Unfold
  <2>2. CASE n # 0
    <3>1. n - 1 \in 0 .. Steps
      BY <1>1, <2>2
    <3>2. f[n - 1] \in Sets
      BY <3>1
    <3> QED
      BY <1>2, <2>2, <3>2 DEF Unfold
  <2> QED
    BY <2>1, <2>2
<1>4. 0 \in T
  <2> DEFINE f == [n \in 0 .. Steps |-> [t \in Requests |-> {t}]]
  <2>1. f \in [0 .. Steps -> Sets]
    OBVIOUS
  <2>2. 0 \in 0 .. Steps /\ \A n \in 0 .. Steps : n <= 0 => n = 0
    BY <1>1
  <2>3. f[0] = Unfold(f, 0)
    BY <2>2 DEF Unfold
  <2> QED
    BY <2>1, <2>2, <2>3
<1>5. ASSUME NEW k \in T PROVE k + 1 \in T
  <2>1. PICK f \in [0 .. Steps -> Sets] :
            \A n \in 0 .. Steps : n <= k => f[n] = Unfold(f, n)
    OBVIOUS
  <2> DEFINE g == [n \in 0 .. Steps |-> Unfold(f, n)]
  <2>2. g \in [0 .. Steps -> Sets]
    BY <1>3
  <2>3. \A n \in 0 .. Steps : g[n] = Unfold(f, n)
    OBVIOUS
  <2> HIDE DEF g
  <2>4. ASSUME NEW n \in 0 .. Steps, n <= k + 1
        PROVE  g[n] = Unfold(g, n)
    <3>1. CASE n = 0
      BY <2>3, <3>1 DEF Unfold
    <3>2. CASE n # 0
      <4>1. n - 1 \in 0 .. Steps /\ n - 1 <= k
        BY <1>1, <2>4, <3>2
      <4>2. g[n - 1] = f[n - 1]
        BY <2>1, <2>3, <4>1
      <4>3. Unfold(g, n) = Unfold(f, n)
        BY <4>2 DEF Unfold
      <4> QED
        BY <2>3, <4>3
    <3> QED
      BY <3>1, <3>2
  <2>5. Upto(k + 1)
    BY <2>2, <2>4
  <2> HIDE DEF Upto
  <2> QED
    BY <2>5
<1>6. Upto(Steps)
  <2>1. T = Nat
    BY <1>4, <1>5, NatSetInduction
  <2> QED
    BY <1>1, <2>1
<1>7. \E f : f = [n \in 0 .. Steps |-> Unfold(f, n)]
  <2>1. PICK f \in [0 .. Steps -> Sets] :
            \A n \in 0 .. Steps : n <= Steps => f[n] = Unfold(f, n)
    BY <1>6
  <2>2. \A n \in 0 .. Steps : n <= Steps
    BY <1>1
  <2>3. f = [n \in 0 .. Steps |-> Unfold(f, n)]
    BY <2>1, <2>2
  <2> QED
    BY <2>3
<1>8. Ancestry = CHOOSE f : f = [n \in 0 .. Steps |-> Unfold(f, n)]
  BY DEF Ancestry, Unfold, Steps
<1>9. Ancestry = [n \in 0 .. Steps |-> Unfold(Ancestry, n)]
  BY <1>7, <1>8
<1>10. \A n \in 0 .. Steps : Ancestry[n] = Unfold(Ancestry, n)
  BY <1>9
<1> DEFINE U == {n \in Nat : n \in 0 .. Steps => Ancestry[n] \in Sets}
<1>11. 0 \in U
  <2>1. Ancestry[0] = Unfold(Ancestry, 0)
    BY <1>1, <1>10
  <2> QED
    BY <2>1 DEF Unfold
<1>12. ASSUME NEW k \in U PROVE k + 1 \in U
  <2> SUFFICES ASSUME k + 1 \in 0 .. Steps PROVE Ancestry[k + 1] \in Sets
    OBVIOUS
  <2>1. k \in 0 .. Steps /\ (k + 1) - 1 = k /\ k + 1 # 0
    BY <1>1
  <2>2. Ancestry[k] \in Sets /\ Ancestry[k + 1] = Unfold(Ancestry, k + 1)
    BY <1>10, <2>1
  <2> QED
    BY <1>2, <2>1, <2>2 DEF Unfold
<1>13. U = Nat
  BY <1>11, <1>12, NatSetInduction
<1>14. \A n \in 0 .. Steps : Ancestry[n] \in Sets
  BY <1>13
<1> QED
  BY <1>1, <1>10, <1>14

(* Going back from t one comes to the exchanged tokens only; and going back  *)
(* past a token one has come to it first, if it was exchanged but once.      *)
LEMMA GoingBack ==
    ASSUME TypeOK, SessionsAreChains
    PROVE  \A n \in 0 .. Steps, t \in Requests, x \in Requests :
             x \in Ancestry[n][t] =>
                /\ x = t \/ \E s \in Requests : parent[s] = x
                /\ \A s \in Requests : parent[s] = x => x = t \/ s \in Ancestry[n][t]
<1> DEFINE Back(n) ==
             \A t \in Requests, x \in Requests :
               x \in Ancestry[n][t] =>
                  /\ x = t \/ \E s \in Requests : parent[s] = x
                  /\ \A s \in Requests : parent[s] = x => x = t \/ s \in Ancestry[n][t]
           T == {n \in Nat : n \in 0 .. Steps => Back(n)}
<1>1. /\ Steps \in Nat
      /\ \A n \in 0 .. Steps, t \in Requests :
            Ancestry[n][t] = {t} \cup (IF n = 0 \/ parent[t] = NoToken THEN {}
                                       ELSE Ancestry[n - 1][parent[t]])
  BY AncestryUnfolds DEF Unfold
<1>2. parent \in [Requests -> Requests \cup {NoToken}]
  BY DEF TypeOK
<1>3. 0 \in T
  BY <1>1
<1>4. ASSUME NEW k \in T PROVE k + 1 \in T
  <2> SUFFICES ASSUME k + 1 \in 0 .. Steps, NEW t \in Requests, NEW x \in Requests,
                      x \in Ancestry[k + 1][t], x # t
               PROVE  /\ \E s \in Requests : parent[s] = x
                      /\ \A s \in Requests : parent[s] = x => s \in Ancestry[k + 1][t]
    OBVIOUS
  <2>1. k \in 0 .. Steps /\ k + 1 # 0 /\ (k + 1) - 1 = k
    BY <1>1
  <2>2. /\ parent[t] # NoToken /\ x \in Ancestry[k][parent[t]]
        /\ Ancestry[k][parent[t]] \subseteq Ancestry[k + 1][t]
    BY <1>1, <2>1
  <2>3. parent[t] \in Requests /\ Back(k)
    BY <1>2, <2>1, <2>2
  <2>4. x = parent[t] \/ \E s \in Requests : parent[s] = x
    BY <2>2, <2>3
  <2>5. ASSUME NEW s \in Requests, parent[s] = x PROVE s \in Ancestry[k + 1][t]
    <3>1. CASE x = parent[t]
      <4>1. s = t
        BY <2>2, <2>5, <3>1 DEF SessionsAreChains
      <4> QED
        BY <1>1, <4>1
    <3>2. CASE x # parent[t]
      BY <2>2, <2>3, <2>5, <3>2
    <3> QED
      BY <3>1, <3>2
  <2> QED
    BY <2>4, <2>5
<1>5. T = Nat
  BY <1>3, <1>4, NatSetInduction
<1> QED
  BY <1>1, <1>5

(* A set that has the successor of every token it has, has what begins there.*)
LEMMA GoingForward ==
    ASSUME TypeOK, NEW S \in SUBSET Requests, \A s \in Requests : parent[s] \in S => s \in S
    PROVE  \A n \in 0 .. Steps, t \in Requests : Ancestry[n][t] \cap S # {} => t \in S
<1> DEFINE T == {n \in Nat : n \in 0 .. Steps =>
                   \A t \in Requests : Ancestry[n][t] \cap S # {} => t \in S}
<1>1. /\ Steps \in Nat
      /\ \A n \in 0 .. Steps, t \in Requests :
            Ancestry[n][t] = {t} \cup (IF n = 0 \/ parent[t] = NoToken THEN {}
                                       ELSE Ancestry[n - 1][parent[t]])
  BY AncestryUnfolds DEF Unfold
<1>2. parent \in [Requests -> Requests \cup {NoToken}]
  BY DEF TypeOK
<1>3. 0 \in T
  BY <1>1
<1>4. ASSUME NEW k \in T PROVE k + 1 \in T
  <2> SUFFICES ASSUME k + 1 \in 0 .. Steps, NEW t \in Requests,
                      Ancestry[k + 1][t] \cap S # {}, t \notin S
               PROVE  FALSE
    OBVIOUS
  <2>1. k \in 0 .. Steps /\ k + 1 # 0 /\ (k + 1) - 1 = k
    BY <1>1
  <2>2. parent[t] # NoToken /\ Ancestry[k][parent[t]] \cap S # {}
    BY <1>1, <2>1
  <2>3. parent[t] \in Requests
    BY <1>2, <2>2
  <2>4. parent[t] \in S
    BY <2>1, <2>2, <2>3
  <2> QED
    BY <2>4
<1>5. T = Nat
  BY <1>3, <1>4, NatSetInduction
<1> QED
  BY <1>1, <1>5

LEMMA ChainsEnd ==
    ASSUME TypeOK, SessionsAreChains PROVE OneLiveToken
<1> SUFFICES ASSUME NEW t \in Tokens \ revoked, NEW u \in Tokens \ revoked, SameSession(t, u)
             PROVE  t = u
  BY DEF OneLiveToken
<1>1. t \in Requests /\ u \in Requests
  BY DEF Tokens
<1>2. Steps \in 0 .. Steps
  BY AncestryUnfolds
<1>3. \A s \in Requests : parent[s] # t /\ parent[s] # u
  BY <1>1, NamesAssumption DEF SessionsAreChains
<1> DEFINE S == Ancestry[Steps][t] \cap Requests
<1>4. \A s \in Requests : parent[s] \in S => s \in S
  BY <1>1, <1>2, <1>3, GoingBack
<1>5. Ancestry[Steps][u] \cap S # {}
  <2>1. PICK x : x \in Ancestry[Steps][t] /\ x \in Ancestry[Steps][u]
    BY DEF SameSession, Session, Steps
  <2>2. Ancestry[Steps][t] \subseteq Requests
    BY <1>1, <1>2, AncestryUnfolds
  <2> QED
    BY <2>1, <2>2
<1>6. u \in S
  BY <1>1, <1>2, <1>4, <1>5, GoingForward
<1> QED
  BY <1>1, <1>2, <1>3, <1>6, GoingBack

(* While clients wait for the answer to a token before the next use, a       *)
(* session has one refresh token that is not revoked, and it is the end of   *)
(* its chain: "the old refresh token is immediately revoked" (auth.py        *)
(* 183-197).                                                                *)
THEOREM OneTokenIsLive == CarefulSpec => []OneLiveToken
<1>1. CarefulInv => OneLiveToken
  BY ChainsEnd DEF CarefulInv, IInv, SessionInv
<1> QED
  BY <1>1, InitCareful, StepCareful, PTL DEF CarefulSpec
=============================================================================
