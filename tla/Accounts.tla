------------------------------- MODULE Accounts -------------------------------
(***************************************************************************)
(* Registration and sessions (AuthService.register, login, refresh and     *)
(* logout), profile updates (UserService) and merchants with their API     *)
(* keys (MerchantService): who has an account, a wallet and a merchant     *)
(* profile, which refresh tokens are good for another pair of tokens, and  *)
(* which API key is in force.                                              *)
(*                                                                         *)
(* A request creates at most one user row, refresh token, merchant row and *)
(* API key; all are named by the request.  A handler decides on rows it    *)
(* read without a lock and its UPDATE does not look at the row again.  No  *)
(* code deactivates or deletes a user or a merchant, so those guards are   *)
(* always passed.  An address stands for the phone number too, which is    *)
(* unique as well.                                                         *)
(*                                                                         *)
(* Definitions whose comment starts with "Fault" take no part in the       *)
(* specification: each is the next definition with one slip.               *)
(***************************************************************************)
EXTENDS Integers, FiniteSets

CONSTANTS
    Requests,
    Emails,             \* e-mail addresses, lower case and stripped
    NoEmail,            \* no address
    NoToken             \* no token, or one that nobody was given

ASSUME NamesAssumption ==
    /\ NoEmail \notin Emails /\ NoToken \notin Requests
    /\ IsFiniteSet(Requests)

VARIABLES
    req,                \* what each request asks for: [op, email, token]
    pc,                 \* where each handler is
    reply,              \* the response to each request
    email,              \* committed users rows: the address, NoEmail if none
    wallets,            \* users with a wallet
    owner,              \* committed refresh_tokens rows: the user, NoToken if none
    parent,             \* the token that each token was exchanged for
    revoked,            \* tokens with is_revoked
    expired,            \* tokens whose expires_at has passed
    merchant,           \* committed merchants rows: the user, NoToken if none
    apiKey,             \* api_key_hash of each merchants row: the key it verifies
    promoted,           \* users whose role is MERCHANT
    inHand              \* the API key each user was given last (history)

sessions == <<email, owner, parent, revoked>>
shops == <<merchant, apiKey, promoted>>
db == <<sessions, wallets, shops>>
vars == <<req, pc, reply, db, expired, inHand>>

KeyOps == {"merchant", "rotate"}
Ops == {"register", "login", "refresh", "logout", "profile"} \cup KeyOps
Working == {"find", "insert", "commit", "issue", "read", "rotate", "revoke", "audit",
            "auth", "enlist", "open", "rekey", "report", "flush", "shown"}
NoRequest == [op |-> "logout", email |-> NoEmail, token |-> NoToken]

TypeOK ==
    /\ req \in [Requests -> [op : Ops, email : Emails \cup {NoEmail},
                             token : Requests \cup {NoToken}]]
    /\ pc \in [Requests -> Working \cup {"idle", "done"}]
    /\ reply \in [Requests -> {"none", "tokens", "key", "ok", "conflict",
                               "unauthorized", "not_found", "error", "lost"}]
    /\ email \in [Requests -> Emails \cup {NoEmail}]
    /\ wallets \subseteq Requests /\ promoted \subseteq Requests
    /\ {owner, parent, merchant, apiKey, inHand}
           \subseteq [Requests -> Requests \cup {NoToken}]
    /\ revoked \subseteq Requests
    /\ expired \subseteq Requests

Init ==
    /\ req = [r \in Requests |-> NoRequest]
    /\ pc = [r \in Requests |-> "idle"]
    /\ reply = [r \in Requests |-> "none"]
    /\ email = [r \in Requests |-> NoEmail]
    /\ wallets = {}
    /\ owner = [r \in Requests |-> NoToken]
    /\ parent = owner /\ merchant = owner /\ apiKey = owner /\ inHand = owner
    /\ revoked = {} /\ expired = {} /\ promoted = {}

UserWith(e) == {u \in Requests : e # NoEmail /\ email[u] = e}
Tokens == {t \in Requests : owner[t] # NoToken}
-----------------------------------------------------------------------------
(* Requests. *)

Goto(r, from, to) == pc[r] = from /\ pc' = [pc EXCEPT ![r] = to]
Pass(r, from, to) ==
    /\ Goto(r, from, to)
    /\ UNCHANGED <<req, reply, db, expired, inHand>>
Answer(r, from, answer) ==
    /\ Goto(r, from, "done")
    /\ reply' = [reply EXCEPT ![r] = answer]
    /\ UNCHANGED <<req, db, expired, inHand>>

(* The tokens a client can send: one it was given, or anything else. *)
Known == {t \in Requests : reply[t] = "tokens"} \cup {NoToken}

ArriveWithEmail(r, e) ==
    /\ Goto(r, "idle", "find")
    /\ \E op \in {"register", "login"} :
          req' = [req EXCEPT ![r] = [op |-> op, email |-> e, token |-> NoToken]]
    /\ UNCHANGED <<reply, db, expired, inHand>>

ArriveWithToken(r, t) ==
    /\ Goto(r, "idle", "read")
    /\ t \in Known
    /\ \E op \in {"refresh", "logout"} :
          req' = [req EXCEPT ![r] = [op |-> op, email |-> NoEmail, token |-> t]]
    /\ UNCHANGED <<reply, db, expired, inHand>>

(* An access token names its user. *)
SignedIn == {owner[t] : t \in Known \ {NoToken}}
ArriveSignedIn(r, u) ==
    /\ Goto(r, "idle", "auth")
    /\ u \in SignedIn
    /\ \/ \E op \in KeyOps :
              req' = [req EXCEPT ![r] = [op |-> op, email |-> NoEmail, token |-> u]]
       \/ \E e \in Emails :
              req' = [req EXCEPT ![r] = [op |-> "profile", email |-> e, token |-> u]]
    /\ UNCHANGED <<reply, db, expired, inHand>>

Is(r, op) == req[r].op = op
-----------------------------------------------------------------------------
(* register: hashing the password takes long, and another request may have  *)
(* the address by then.                                                     *)
EmailFree(r) ==
    Pass(r, "find", "insert") /\ Is(r, "register") /\ UserWith(req[r].email) = {}
EmailTaken(r) ==
    Answer(r, "find", "conflict") /\ Is(r, "register") /\ UserWith(req[r].email) # {}

(* The INSERT waits while another open transaction has the address, as one   *)
(* that registers it or a profile update that is about to be rolled back ... *)
EmailPending(r) ==
    \E q \in Requests \ {r} : pc[q] \in {"commit", "shown"} /\ req[q].email = req[r].email

(* Fault: no unique index on users.email *)
InsertAnyUser(r) == Pass(r, "insert", "commit")

InsertUser(r) ==
    Pass(r, "insert", "commit") /\ ~EmailPending(r) /\ UserWith(req[r].email) = {}

(* ... and nothing catches the IntegrityError when that one committed. *)
EmailConflict(r) ==
    /\ Answer(r, "insert", "error")
    /\ ~EmailPending(r) /\ UserWith(req[r].email) # {}

(* The user, the wallet and the first refresh token are one commit. *)
CommitUser(r) ==
    /\ Goto(r, "commit", "audit")
    /\ email' = [email EXCEPT ![r] = req[r].email]
    /\ wallets' = wallets \cup {r}
    /\ owner' = [owner EXCEPT ![r] = r]
    /\ UNCHANGED <<req, reply, parent, revoked, shops, expired, inHand>>
-----------------------------------------------------------------------------
(* login: an unknown address and a wrong password get one answer. *)
UserFound(r) ==
    Pass(r, "find", "issue") /\ Is(r, "login") /\ UserWith(req[r].email) # {}
BadCredentials(r) == Answer(r, "find", "unauthorized") /\ Is(r, "login")

Issue(r) ==
    /\ Goto(r, "issue", "audit")
    /\ \E u \in UserWith(req[r].email) : owner' = [owner EXCEPT ![r] = u]
    /\ UNCHANGED <<req, reply, email, wallets, parent, revoked, shops, expired, inHand>>

(* An audit entry follows the commit.  When it cannot be written, the error *)
(* is swallowed and the session rolled back, which expires its objects: the *)
(* user that register answers with cannot be read any more.                 *)
Audit(r) == Answer(r, "audit", "tokens")
AuditFailed(r) == Answer(r, "audit", "error") /\ Is(r, "register")
-----------------------------------------------------------------------------
(* refresh and logout *)

(* Fault: a revoked token is as good as any *)
NotExpired(t) == t \in Tokens \ expired

Good(t) == t \in Tokens \ (revoked \cup expired)

TokenGood(r) ==
    Pass(r, "read", "rotate") /\ Is(r, "refresh") /\ Good(req[r].token)
TokenBad(r) ==
    Answer(r, "read", "unauthorized") /\ Is(r, "refresh") /\ ~Good(req[r].token)

(* The old token is revoked and a new one inserted in one commit; the answer *)
(* may not get through.                                                      *)
Rotate(r) ==
    LET t == req[r].token
    IN  /\ Goto(r, "rotate", "done")
        /\ revoked' = revoked \cup {t}
        /\ owner' = [owner EXCEPT ![r] = owner[t]]
        /\ parent' = [parent EXCEPT ![r] = t]
        /\ reply' \in {[reply EXCEPT ![r] = "tokens"], [reply EXCEPT ![r] = "lost"]}
        /\ UNCHANGED <<req, email, wallets, shops, expired, inHand>>

(* A logout does not look at expires_at. *)
Revocable(t) == t \in Tokens \ revoked
LogoutFound(r) ==
    Pass(r, "read", "revoke") /\ Is(r, "logout") /\ Revocable(req[r].token)

(* Fault: the logout of a token that is not found or revoked is refused *)
LogoutForbidden(r) ==
    Answer(r, "read", "forbidden") /\ Is(r, "logout") /\ ~Revocable(req[r].token)

LogoutIgnored(r) ==
    Answer(r, "read", "ok") /\ Is(r, "logout") /\ ~Revocable(req[r].token)

Revoke(r) ==
    /\ Goto(r, "revoke", "done")
    /\ revoked' = revoked \cup {req[r].token}
    /\ reply' \in {[reply EXCEPT ![r] = "ok"], [reply EXCEPT ![r] = "lost"]}
    /\ UNCHANGED <<req, email, wallets, owner, parent, shops, expired, inHand>>
-----------------------------------------------------------------------------
(* A call with an access token: get_current_user reads the user it names, a   *)
(* service the rest.  Access tokens are not revoked, they only expire.        *)
AccessRefused(r) == Answer(r, "auth", "unauthorized")
Caller(r) == req[r].token
-----------------------------------------------------------------------------
(* update_profile: a free number is written and flushed, which takes its     *)
(* place in the unique index and the lock of the user row ...                *)
PhoneTaken(r) ==
    /\ Answer(r, "auth", "conflict") /\ Is(r, "profile")
    /\ UserWith(req[r].email) \ {Caller(r)} # {}
PhoneFree(r) ==
    /\ Pass(r, "auth", "flush") /\ Is(r, "profile")
    /\ UserWith(req[r].email) \ {Caller(r)} = {}
UserRowHeld(r) == \E q \in Requests \ {r} : pc[q] = "shown" /\ Caller(q) = Caller(r)

FlushProfile(r) ==
    /\ Pass(r, "flush", "shown") /\ ~EmailPending(r) /\ ~UserRowHeld(r)
    /\ UserWith(req[r].email) \ {Caller(r)} = {}
PhoneConflict(r) ==
    /\ Answer(r, "flush", "error") /\ ~EmailPending(r)
    /\ UserWith(req[r].email) \ {Caller(r)} # {}

(* ... and nobody commits: the answer shows the new profile, and closing the *)
(* session rolls it back.                                                    *)
ShowProfile(r) == Answer(r, "shown", "ok")
-----------------------------------------------------------------------------
(* create_merchant and rotate_api_key *)
ProfilesOf(u) == {m \in Requests : merchant[m] = u}

MerchantExists(r) ==
    Answer(r, "auth", "conflict") /\ Is(r, "merchant") /\ ProfilesOf(Caller(r)) # {}
MerchantAbsent(r) ==
    Pass(r, "auth", "enlist") /\ Is(r, "merchant") /\ ProfilesOf(Caller(r)) = {}

(* As for users, an open transaction with the user_id is waited for and one  *)
(* that committed is an IntegrityError that nothing catches.                 *)
MerchantPending(r) == \E q \in Requests \ {r} : pc[q] = "open" /\ Caller(q) = Caller(r)

(* Fault: no unique constraint on merchants.user_id *)
InsertAnyMerchant(r) == Pass(r, "enlist", "open")

InsertMerchant(r) ==
    Pass(r, "enlist", "open") /\ ~MerchantPending(r) /\ ProfilesOf(Caller(r)) = {}
MerchantConflict(r) ==
    /\ Answer(r, "enlist", "error")
    /\ ~MerchantPending(r) /\ ProfilesOf(Caller(r)) # {}

(* The row with its first key, the wallet and the role are one commit. *)
CommitMerchant(r) ==
    /\ Goto(r, "open", "report") /\ ~UserRowHeld(r)
    /\ merchant' = [merchant EXCEPT ![r] = Caller(r)]
    /\ apiKey' = [apiKey EXCEPT ![r] = r]
    /\ wallets' = wallets \cup {Caller(r)}
    /\ promoted' = promoted \cup {Caller(r)}
    /\ UNCHANGED <<req, reply, sessions, expired, inHand>>

NoMerchant(r) ==
    Answer(r, "auth", "not_found") /\ Is(r, "rotate") /\ ProfilesOf(Caller(r)) = {}
FindMerchant(r) ==
    Pass(r, "auth", "rekey") /\ Is(r, "rotate") /\ ProfilesOf(Caller(r)) # {}

(* Fault: the new key is flushed and not committed, as in update_profile *)
FlushKey(r) == Pass(r, "rekey", "report")

CommitKey(r) ==
    /\ Goto(r, "rekey", "report")
    /\ \E m \in ProfilesOf(Caller(r)) : apiKey' = [apiKey EXCEPT ![m] = r]
    /\ UNCHANGED <<req, reply, sessions, wallets, merchant, promoted, expired, inHand>>

(* The answer is the only time that the raw key is shown. *)
HandOut(r) ==
    /\ Goto(r, "report", "done")
    /\ reply' = [reply EXCEPT ![r] = "key"]
    /\ inHand' = [inHand EXCEPT ![Caller(r)] = r]
    /\ UNCHANGED <<req, db, expired>>
KeyAuditFailed(r) == Answer(r, "report", "error")

(* MerchantAuthService.authenticate: all keys have the same prefix, so that  *)
(* every merchant is a candidate, and the hash decides.                      *)
Candidates == {m \in Requests : merchant[m] # NoToken}
Authenticated(k) == {m \in Candidates : apiKey[m] = k}
-----------------------------------------------------------------------------
Crash(r) == \E from \in Working : Answer(r, from, "lost")

(* REFRESH_TOKEN_EXPIRE_DAYS pass. *)
Expire(t) ==
    /\ t \in Tokens \ expired
    /\ expired' = expired \cup {t}
    /\ UNCHANGED <<req, pc, reply, db, inHand>>

Next ==
    \E r \in Requests :
        \/ \E e \in Emails : ArriveWithEmail(r, e)
        \/ \E t \in Requests \cup {NoToken} : ArriveWithToken(r, t)
        \/ EmailFree(r) \/ EmailTaken(r) \/ InsertUser(r) \/ EmailConflict(r)
        \/ CommitUser(r) \/ UserFound(r) \/ BadCredentials(r) \/ Issue(r)
        \/ Audit(r) \/ AuditFailed(r)
        \/ TokenGood(r) \/ TokenBad(r) \/ Rotate(r)
        \/ LogoutFound(r) \/ LogoutIgnored(r) \/ Revoke(r)
        \/ \E u \in Requests : ArriveSignedIn(r, u)
        \/ AccessRefused(r)
        \/ PhoneTaken(r) \/ PhoneFree(r) \/ FlushProfile(r) \/ PhoneConflict(r)
        \/ ShowProfile(r)
        \/ MerchantExists(r) \/ MerchantAbsent(r) \/ InsertMerchant(r)
        \/ MerchantConflict(r) \/ CommitMerchant(r)
        \/ NoMerchant(r) \/ FindMerchant(r) \/ CommitKey(r)
        \/ HandOut(r) \/ KeyAuditFailed(r)
        \/ Crash(r) \/ Expire(r)

Spec == Init /\ [][Next]_vars

(* A client does not send a refresh token again before it is answered, and   *)
(* does not rotate an API key before the call that gives it one is answered. *)
Exclusive(a, b) ==
    {a, b} \subseteq {"refresh", "logout"} \/ ({a, b} \subseteq KeyOps /\ "rotate" \in {a, b})
OneUseAtATime ==
    \A r, q \in Requests :
        /\ r # q /\ {pc[r], pc[q]} \subseteq Working
        /\ Exclusive(req[r].op, req[q].op)
        => req[r].token # req[q].token \/ req[r].token = NoToken
CarefulSpec == Init /\ [][Next /\ OneUseAtATime']_vars
-----------------------------------------------------------------------------
(* An address has one account, however many registrations and profile        *)
(* updates of it overlap, an account has a wallet from the moment it exists  *)
(* (auth.py 81-102) and one merchant profile, which is what makes its role   *)
(* MERCHANT (merchant.py 37-67).                                             *)
OneAccountPerEmail ==
    /\ \A u, v \in Requests : email[u] = email[v] /\ email[u] # NoEmail => u = v
    /\ wallets = {u \in Requests : email[u] # NoEmail}
OneProfilePerUser ==
    /\ \A m, n \in Requests : merchant[m] = merchant[n] /\ merchant[m] # NoToken => m = n
    /\ promoted = {u \in wallets : ProfilesOf(u) # {}}
    /\ {merchant[m] : m \in Requests} \subseteq wallets \cup {NoToken}
UniqueAccounts == OneAccountPerEmail /\ OneProfilePerUser

(* A merchant's key in force is the one it was shown last, unless a call of  *)
(* its own committed another whose answer is still to come, failed or was    *)
(* lost: then it holds no key that works.  So a key that is shown works then, *)
(* and none that was shown before it does (merchant.py 97-123): "the old key *)
(* is invalid immediately" (api/v1/merchants.py 77-78).                      *)
AnswerMissing(k) == pc[k] = "report" \/ reply[k] \in {"error", "lost"}
KeyInForce ==
    \A u \in Requests : \A m \in ProfilesOf(u) :
        \E k \in Requests :
            /\ Authenticated(k) = {m}
            /\ \/ reply[k] = "key" /\ inHand[u] = k
               \/ Caller(k) = u /\ req[k].op \in KeyOps /\ AnswerMissing(k)

(* What a failed audit write may not do: "the parent operation is never      *)
(* affected" (audit.py 4-6), so what was committed is not answered with an   *)
(* error.  It is.                                                            *)
AuditIsHarmless ==
    \A r \in Requests :
        reply[r] = "error" => email[r] = NoEmail /\ Authenticated(r) = {}

(* The number in an answered profile update belongs to the user ("Profile    *)
(* updated.", users.py 37-40).  It does not.                                 *)
UpdatesStick ==
    \A r \in Requests :
        Is(r, "profile") /\ reply[r] = "ok" => Caller(r) \in UserWith(req[r].email)

(* The tokens of one session: a login's or registration's, and those it was  *)
(* exchanged for one after the other.                                        *)
Ancestry[n \in 0 .. Cardinality(Requests)] ==
    [t \in Requests |->
        {t} \cup (IF n = 0 \/ parent[t] = NoToken THEN {} ELSE Ancestry[n - 1][parent[t]])]
Session(t) == Ancestry[Cardinality(Requests)][t]
SameSession(t, u) == Session(t) \cap Session(u) # {}

(* A session has one refresh token that is not revoked, so it has one         *)
(* successor at a time and ends with a logout that names it: "the old refresh *)
(* token is immediately revoked" (api/v1/auth.py 80-83, auth.py 183-197).     *)
OneLiveToken ==
    \A t, u \in Tokens \ revoked : SameSession(t, u) => t = u
=============================================================================
