------------------------------- MODULE Listings -------------------------------
(***************************************************************************)
(* The lists and details of the API, read while the rows are written: the  *)
(* administrators' lists (api/v1/admin.py), a user's transactions and      *)
(* wallet statement, the queue of KYC submissions, and one transaction     *)
(* with its ledger entries.                                                *)
(*                                                                         *)
(* A page and the total are two statements at READ COMMITTED, and each     *)
(* page is a request of its own: an offset counts rows that may have been  *)
(* inserted, or left the filter, since the page before.  A client walks    *)
(* through a list from offset 0 and stops at a page that is not full, or   *)
(* as soon as the total says that the list ends here.                      *)
(*                                                                         *)
(* Readers change nothing, so that one is enough in a behaviour: a walk or *)
(* a detail.                                                               *)
(*                                                                         *)
(* Rows are those of the table behind the list; "pending" stands for the   *)
(* status, tier or role that a row has at first and "completed" for the    *)
(* ones that it gets later.                                                *)
(***************************************************************************)
EXTENDS RiskFlags

CONSTANTS
    Mine,               \* rows of the user who asks
    Limit               \* the page size that the client asks for

ASSUME ListAssumption == Mine \subseteq Rows /\ Limit \in Nat \ {0}

VARIABLES
    walk,               \* what the client walks through: [list, filter, stop]
    at,                 \* where the current request is
    offset,             \* its offset
    page, total,        \* what it has read
    asked,              \* rows that matched when the walk began (history)
    shown,              \* rows on the pages so far
    detail              \* one transaction and its entries, as a request reads them

walkVars == <<walk, at, offset, page, total, asked, shown>>
readVars == <<walkVars, detail>>
vars == <<flagVars, readVars>>

Committed == {r \in Rows : status[r] \in {"pending", "completed"}}
-----------------------------------------------------------------------------
(* The lists: the rows a request may see, the filters it may set, and        *)
(* whether the total is counted before the page is read.                     *)

Changing == {"all", "pending", "completed"}
NewestFirst == [rows |-> Rows, filters |-> {"all"}, countFirst |-> FALSE, oldestFirst |-> FALSE]

AuditLogs == NewestFirst
WebhookDeliveries == NewestFirst
Users == [NewestFirst EXCEPT !.filters = Changing]
AdminTransactions == [NewestFirst EXCEPT !.filters = Changing \cup {"flagged", "clean"}]
KycSubmissions ==
    [NewestFirst EXCEPT !.filters = Changing \ {"all"}, !.countFirst = TRUE, !.oldestFirst = TRUE]
MyTransactions == [NewestFirst EXCEPT !.rows = Mine, !.filters = Changing, !.countFirst = TRUE]
Statement == [NewestFirst EXCEPT !.rows = Mine, !.countFirst = TRUE]

Lists == {AdminTransactions, AuditLogs, WebhookDeliveries, Users, KycSubmissions,
          MyTransactions, Statement}

Passes(r, filter) ==
    \/ filter = "all"
    \/ filter = status[r]
    \/ filter = "flagged" /\ r \in flagged
    \/ filter = "clean" /\ r \notin flagged
Matching == {r \in Committed \cap walk.list.rows : Passes(r, walk.filter)}

Before(r, q) == IF walk.list.oldestFirst THEN since[r] < since[q] ELSE since[r] > since[q]

(* Fault: LIMIT and OFFSET without ORDER BY *)
AnyPage == {P \in SUBSET Matching : Cardinality(P) <= Limit}

(* Fault: a page has one row more than its limit *)
LongPages ==
    LET rank(r) == Cardinality({q \in Matching : Before(q, r)})
    IN  {{r \in Matching : rank(r) \in offset .. offset + Limit}}

Pages ==
    LET rank(r) == Cardinality({q \in Matching : Before(q, r)})
    IN  {{r \in Matching : rank(r) \in offset .. offset + Limit - 1}}
-----------------------------------------------------------------------------
(* One walk. *)

TypeOK ==
    /\ FlagTypeOK
    /\ walk \in [list : Lists, filter : Changing \cup {"flagged", "clean"},
                 stop : {"short page", "total"}]
    /\ walk.filter \in walk.list.filters
    /\ at \in {"start", "first", "second", "answer", "done"}
    /\ offset \in {n * Limit : n \in 0 .. Cardinality(Rows)}
    /\ page \subseteq walk.list.rows /\ Cardinality(page) <= Limit
    /\ total \in 0 .. Cardinality(Rows)
    /\ asked \subseteq walk.list.rows /\ shown \subseteq walk.list.rows
    /\ detail \in [by : {"admin", "user"}, row : Rows \cup {NoRow},
                   status : {"none", "pending", "completed", "not_found"}, entries : {"unread", "no", "yes"}]

NoDetail == [by |-> "user", row |-> NoRow, status |-> "none", entries |-> "unread"]

ReadInit ==
    /\ \E list \in Lists : \E filter \in list.filters :
          walk \in [list : {list}, filter : {filter}, stop : {"short page", "total"}]
    /\ at = "start" /\ offset = 0 /\ total = 0
    /\ page = {} /\ asked = {} /\ shown = {}
    /\ detail = NoDetail

Start ==
    /\ detail = NoDetail
    /\ at = "start" /\ at' = "first"
    /\ asked' = Matching
    /\ UNCHANGED <<walk, offset, page, total, shown, detail>>

ReadPage ==
    /\ at = (IF walk.list.countFirst THEN "second" ELSE "first")
    /\ at' = (IF at = "first" THEN "second" ELSE "answer")
    /\ page' \in Pages
    /\ UNCHANGED <<walk, offset, total, asked, shown, detail>>

ReadTotal ==
    /\ at = (IF walk.list.countFirst THEN "first" ELSE "second")
    /\ at' = (IF at = "first" THEN "second" ELSE "answer")
    /\ total' = Cardinality(Matching)
    /\ UNCHANGED <<walk, offset, page, asked, shown, detail>>

Last ==
    IF walk.stop = "total" THEN offset + Limit >= total ELSE Cardinality(page) < Limit

AnswerPage ==
    /\ at = "answer"
    /\ shown' = shown \cup page /\ page' = {} /\ total' = 0
    /\ IF Last THEN at' = "done" /\ UNCHANGED offset
               ELSE at' = "first" /\ offset' = offset + Limit
    /\ UNCHANGED <<walk, asked, detail>>
-----------------------------------------------------------------------------
(* One detail: an administrator's, with the ledger entries, or a user's own. *)

Detail(by, r, visible) ==
    /\ detail = NoDetail /\ at = "start"
    /\ detail' = [by |-> by, row |-> r, entries |-> "unread",
                  status |-> IF r \in visible THEN status[r] ELSE "not_found"]
    /\ UNCHANGED walkVars

FindTransaction(r) == Detail("admin", r, Committed)

(* Another user's transaction is not found, whatever its status. *)
FindMyTransaction(r) == Detail("user", r, Committed \cap Mine)

ReadEntries ==
    /\ detail.by = "admin" /\ detail.status \in {"pending", "completed"}
    /\ detail.entries = "unread"
    /\ detail' = [detail EXCEPT !.entries = IF status[detail.row] = "completed" THEN "yes" ELSE "no"]
    /\ UNCHANGED walkVars
-----------------------------------------------------------------------------
Init == FlagInit /\ ReadInit

WalkNext == Start \/ ReadPage \/ ReadTotal \/ AnswerPage
DetailNext == (\E r \in Rows : FindTransaction(r) \/ FindMyTransaction(r)) \/ ReadEntries

(* Flags are of no consequence to readers that do not filter by them: their *)
(* behaviours are without flag tasks.                                        *)
FlagsSeen == walk.filter \in {"flagged", "clean"}

Next ==
    \/ FlagNext /\ (~FlagsSeen => message' = message) /\ UNCHANGED readVars
    \/ WalkNext /\ UNCHANGED flagVars
    \/ DetailNext /\ UNCHANGED flagVars

Spec == Init /\ [][Next]_vars /\ FlagFairness
-----------------------------------------------------------------------------
(* Filters that no row leaves. *)
Growing == {"all", "completed", "flagged"}

(* A walk that is over has shown every row that matched when it began, ...   *)
NothingSkipped == at = "done" => asked \subseteq shown

(* ... although rows are inserted in the middle of the list and the pages    *)
(* overlap, when no row leaves the filter and the client does not trust a    *)
(* total that was counted before its page was read.                          *)
GrowingListsAreShown ==
    walk.filter \in Growing /\ (walk.stop = "total" => ~walk.list.countFirst) => NothingSkipped

(* "Full transaction details including the associated double-entry ledger    *)
(* records" (admin.py 290-293): one that is shown as completed has them.     *)
DetailsAreWhole == detail.status = "completed" => detail.entries # "no"

ViewsAreWhole == GrowingListsAreShown /\ DetailsAreWhole

(* What the total in every answer suggests, and the default list of pending  *)
(* submissions: walking from page to page shows them all.  It does not.      *)
TotalsAreEnough == walk.filter \in Growing => NothingSkipped
QueuesAreShown == walk.stop = "short page" => NothingSkipped
=============================================================================
