--------------------------- MODULE BankAccountsProofs ---------------------------
(***************************************************************************)
(* Machine-checked proofs about BankAccounts, for every set of calls.      *)
(***************************************************************************)
EXTENDS BankAccounts, FiniteSetTheorems, TLAPS

-----------------------------------------------------------------------------
(* What holds whatever overlaps. *)

(* Calls have arrived one after the other. *)
Arrived == {q \in Calls : pc[q] # "idle"}
InOrder ==
    /\ \A q \in Arrived : since[q] \in 1 .. Cardinality(Arrived)
    /\ \A q, r \in Arrived : since[q] = since[r] => q = r

(* An account is that of a call which has committed. *)
AccountsOfTheDone == \A a \in live \cup dead : pc[a] = "done"

(* What a removal goes on with is an account that there was. *)
AccountsKnown ==
    \A r \in Calls :
        /\ pc[r] \in {"guard", "delete", "remaining", "promote"} => target[r] \in live \cup dead
        /\ pc[r] = "promote" => pick[r] \in live \cup dead \cup {NoAccount}

BaseInv == TypeOK /\ InOrder /\ AccountsOfTheDone /\ AccountsKnown

-----------------------------------------------------------------------------
(* What holds while the user adds one account at a time.  Then accounts are *)
(* added in the order in which their calls arrived ...                      *)
AddedLast ==
    \A r \in Calls : pc[r] \in Adding => \A a \in live \cup dead : since[a] < since[r]

(* ... the first one is still the first when it is inserted ... *)
FirstIsAlone == \A r \in Calls : pc[r] = "insert" /\ seen[r] => live = {}

(* ... and who was the oldest when it was picked is older than all that came *)
(* since, so that a default is always the oldest.                           *)
PickIsOldest ==
    \A r \in Calls :
        pc[r] = "promote" /\ pick[r] # NoAccount =>
            \A b \in live \ {target[r]} : since[pick[r]] <= since[b]
DefaultIsOldest == \A d \in live \cap isDefault : d \in Oldest(live)

FormInv == OneAddition /\ AddedLast /\ FirstIsAlone /\ PickIsOldest /\ DefaultIsOldest

-----------------------------------------------------------------------------
(* What holds while no two calls have overlapped: what a call has seen is   *)
(* so, and the oldest account is the default.                               *)
SeenIsSo(r) ==
    /\ pc[r] = "insert" => seen[r] = (live = {})
    /\ pc[r] \in {"guard", "delete"} => target[r] \in live /\ seen[r] = (target[r] \in isDefault)
    /\ pc[r] \in {"remaining", "promote"} => target[r] \in live \cap isDefault
    /\ pc[r] = "promote" => \/ pick[r] = NoAccount /\ live = {target[r]}
                            \/ pick[r] \in Oldest(live \ {target[r]})

AloneInv ==
    ~overlapped =>
        /\ \A r, q \in InProgress : r = q
        /\ \A r \in Calls : SeenIsSo(r)
        /\ live # {} => live \cap isDefault # {}
        /\ live \cap isDefault = Oldest(live)

IInv == BaseInv /\ FormInv /\ AloneInv

-----------------------------------------------------------------------------
LEMMA InitIInv == Init => IInv
<1> SUFFICES ASSUME Init PROVE IInv
  OBVIOUS
<1> USE NamesAssumption DEF Init
<1>1. TypeOK
  <2>1. 0 \in 0 .. Cardinality(Calls)
    BY FS_CardinalityType
  <2> DEFINE N == 0 .. Cardinality(Calls)
  <2>2. since \in [Calls -> N]
    <3> HIDE DEF N
    <3> QED
      BY <2>1 DEF N
  <2> QED
    BY <2>2 DEF TypeOK
<1>2. InOrder /\ AccountsOfTheDone /\ AccountsKnown
  BY DEF InOrder, Arrived, AccountsOfTheDone, AccountsKnown
<1>3. FormInv
  BY DEF FormInv, OneAddition, AddedLast, FirstIsAlone, PickIsOldest, DefaultIsOldest, Adding
<1>4. AloneInv
  BY DEF AloneInv, SeenIsSo, InProgress, Oldest, Working, Adding, Removing
<1> QED
  BY <1>1, <1>2, <1>3, <1>4 DEF IInv, BaseInv

-----------------------------------------------------------------------------
(* Kinds of step. *)
Replies == {"none", "ok", "not_found", "forbidden", "lost"}

(* A call reads, or ends without a change. *)
Looks(r, to) ==
    /\ pc[r] \in Working /\ pc' = [pc EXCEPT ![r] = to]
    /\ reply' \in [Calls -> Replies] /\ seen' \in [Calls -> BOOLEAN]
    /\ pick' \in [Calls -> Calls \cup {NoAccount}]
    /\ \A q \in Calls \ {r} : seen'[q] = seen[q] /\ pick'[q] = pick[q]
    /\ to \in Adding => pc[r] \in Adding
    /\ to = "insert" => seen'[r] = (live = {})
    /\ to = "guard" => target[r] \in live /\ seen'[r] = (target[r] \in isDefault)
    /\ to = "delete" => pc[r] = "guard" /\ seen'[r] = seen[r]
    /\ to = "remaining" => pc[r] = "delete" /\ seen[r]
    /\ to = "promote" =>
          /\ pc[r] = "remaining"
          /\ \/ pick'[r] \in Oldest(live \ {target[r]})
             \/ /\ pick'[r] = NoAccount
                /\ live \ {target[r]} = {} \/ (live \ {target[r]}) \cap isDefault # {}
    /\ UNCHANGED <<target, since, rows, active, overlapped>>
Onward == {"count", "insert", "guard", "delete", "remaining", "promote", "done"}

(* A call that has arrived adds an account, or removes one. *)
Arrives(r, first) ==
    /\ Arrive(r, first)
    /\ target' = target \/ \E a \in live \cup dead \cup {NoAccount} : target' = [target EXCEPT ![r] = a]

LEMMA CallSteps ==
    ASSUME TypeOK, NEW r \in Calls,
           \/ Verify(r) \/ CountAccounts(r) \/ FindAccount(r) \/ NotFound(r) \/ Unused(r)
           \/ InUse(r) \/ DeleteDefault(r) \/ PickOldest(r) \/ Crash(r)
    PROVE  \E to \in Onward : Looks(r, to)
<1> USE DEF Looks, Goto, Adding, Removing, Working
<1>1. CASE Verify(r)
  <2>1. Looks(r, "count")
    BY <1>1 DEF Verify, Pass, TypeOK, Replies
  <2> QED
    BY <2>1 DEF Onward
<1>2. CASE CountAccounts(r)
  <2>1. Looks(r, "insert")
    BY <1>2 DEF CountAccounts, TypeOK, Replies
  <2> QED
    BY <2>1 DEF Onward
<1>3. CASE FindAccount(r)
  <2>1. Looks(r, "guard")
    BY <1>3 DEF FindAccount, TypeOK, Replies
  <2> QED
    BY <2>1 DEF Onward
<1>4. CASE Unused(r)
  <2>1. Looks(r, "delete")
    BY <1>4 DEF Unused, Pass, TypeOK, Replies
  <2> QED
    BY <2>1 DEF Onward
<1>5. CASE DeleteDefault(r)
  <2>1. Looks(r, "remaining")
    BY <1>5 DEF DeleteDefault, Pass, TypeOK, Replies
  <2> QED
    BY <2>1 DEF Onward
<1>6. CASE PickOldest(r)
  <2> DEFINE rest == live \ {target[r]}
  <2>1. PICK a \in IF rest = {} THEN {NoAccount} ELSE Oldest(rest) :
            pick' = [pick EXCEPT ![r] = IF a \in isDefault THEN NoAccount ELSE a]
    BY <1>6 DEF PickOldest
  <2>2. a \in Calls \cup {NoAccount} /\ (a \in rest \/ (rest = {} /\ a = NoAccount))
    <3>1. CASE rest = {}
      BY <2>1, <3>1
    <3>2. CASE rest # {}
      <4>1. a \in Oldest(rest)
        BY <2>1, <3>2
      <4>2. a \in rest
        BY <4>1 DEF Oldest
      <4>3. live \subseteq Calls
        BY DEF TypeOK
      <4> QED
        BY <4>2, <4>3
    <3> QED
      BY <3>1, <3>2
  <2>3. pick' \in [Calls -> Calls \cup {NoAccount}] /\ \A q \in Calls \ {r} : pick'[q] = pick[q]
    BY <2>1, <2>2 DEF TypeOK
  <2>4. \/ pick'[r] \in Oldest(rest)
        \/ pick'[r] = NoAccount /\ (rest = {} \/ rest \cap isDefault # {})
    BY <2>1, <2>2 DEF TypeOK
  <2>5. Looks(r, "promote")
    BY <1>6, <2>3, <2>4 DEF PickOldest, TypeOK, Replies
  <2> QED
    BY <2>5 DEF Onward
<1>7. ASSUME NEW from \in Working, NEW x \in Replies, Refuse(r, from, x)
      PROVE  \E to \in Onward : Looks(r, to)
  <2>1. Looks(r, "done")
    BY <1>7 DEF Refuse, Finish, TypeOK, Replies
  <2> QED
    BY <2>1 DEF Onward
<1>8. CASE NotFound(r) \/ InUse(r) \/ Crash(r)
  BY <1>7, <1>8 DEF NotFound, InUse, Crash, Replies
<1> QED
  BY <1>1, <1>2, <1>3, <1>4, <1>5, <1>6, <1>8

(* A removal commits. *)
Removes(r) == DeleteOther(r) \/ Promote(r)

LEMMA NextSteps ==
    ASSUME TypeOK, [Next]_vars
    PROVE  \/ \E r \in Calls :
                \/ \E first \in {"verify", "find"} : Arrives(r, first)
                \/ \E to \in Onward : Looks(r, to)
                \/ InsertAccount(r) \/ Removes(r)
           \/ /\ UNCHANGED <<pc, target, reply, since, seen, pick, rows, overlapped>>
              /\ active' \in Calls \cup {NoAccount}
<1>1. ASSUME NEW r \in Calls,
             ArriveToAdd(r) \/ \E a \in Calls \cup {NoAccount} : ArriveToRemove(r, a)
      PROVE  \E first \in {"verify", "find"} : Arrives(r, first)
  BY <1>1 DEF ArriveToAdd, ArriveToRemove, Arrives
<1>2. ASSUME Settle \/ \E a \in Calls : Withdraw(a)
      PROVE  /\ UNCHANGED <<pc, target, reply, since, seen, pick, rows, overlapped>>
             /\ active' \in Calls \cup {NoAccount}
  BY <1>2 DEF Settle, Withdraw
<1>3. UNCHANGED vars => /\ UNCHANGED <<pc, target, reply, since, seen, pick, rows, overlapped>>
                        /\ active' \in Calls \cup {NoAccount}
  BY DEF vars, TypeOK
<1> QED
  BY <1>1, <1>2, <1>3, CallSteps DEF Next, Removes

-----------------------------------------------------------------------------
(* Whatever overlaps. *)

LEMMA ArrivalCounted ==
    ASSUME TypeOK, NEW r \in Calls, NEW first \in {"verify", "find"}, Arrives(r, first)
    PROVE  /\ Arrived' = Arrived \cup {r} /\ r \notin Arrived
           /\ Cardinality(Arrived) \in Nat /\ Cardinality(Arrived') = Cardinality(Arrived) + 1
           /\ Cardinality(Arrived') <= Cardinality(Calls) /\ Cardinality(Calls) \in Nat
           /\ since'[r] = Cardinality(Arrived')
           /\ \A q \in Calls \ {r} : since'[q] = since[q]
<1>1. Arrived' = Arrived \cup {r} /\ r \notin Arrived
  BY DEF Arrives, Arrive, Goto, Arrived, TypeOK
<1>2. IsFiniteSet(Arrived) /\ IsFiniteSet(Arrived') /\ Arrived' \subseteq Calls
  BY FS_Subset, NamesAssumption DEF Arrived
<1>3. Cardinality(Arrived') = Cardinality(Arrived) + 1
  <2>1. Cardinality(Arrived \cup {r}) = Cardinality(Arrived) + 1
    BY <1>1, <1>2, FS_AddElement
  <2> QED
    BY <1>1, <2>1, Zenon
<1>4. Cardinality(Arrived') <= Cardinality(Calls) /\ Cardinality(Calls) \in Nat
  BY <1>2, FS_Subset, FS_CardinalityType, NamesAssumption
<1>5. Cardinality(Arrived) \in Nat
  BY <1>2, FS_CardinalityType
<1>6. since' = [since EXCEPT ![r] = Cardinality(Arrived) + 1]
  BY DEF Arrives, Arrive, Arrived
<1> QED
  BY <1>1, <1>3, <1>4, <1>5, <1>6 DEF TypeOK

LEMMA ArrivesBase ==
    ASSUME BaseInv, NEW r \in Calls, NEW first \in {"verify", "find"}, Arrives(r, first)
    PROVE  BaseInv'
<1> USE DEF BaseInv
<1>1. /\ pc[r] = "idle" /\ pc' = [pc EXCEPT ![r] = first]
      /\ UNCHANGED <<reply, seen, pick, live, dead, isDefault, active>>
      /\ overlapped' \in BOOLEAN
  BY DEF Arrives, Arrive, Goto, rows, TypeOK
<1>2. target' \in [Calls -> Calls \cup {NoAccount}] /\ \A q \in Calls \ {r} : target'[q] = target[q]
  BY DEF Arrives, TypeOK
<1>3. since' \in [Calls -> 0 .. Cardinality(Calls)]
  <2>1. since' = [since EXCEPT ![r] = since'[r]]
    BY DEF Arrives, Arrive, TypeOK
  <2>2. since'[r] \in 0 .. Cardinality(Calls)
    BY ArrivalCounted
  <2> QED
    BY <2>1, <2>2 DEF TypeOK
<1>4. TypeOK'
  BY <1>1, <1>2, <1>3 DEF TypeOK, Working, Adding, Removing
<1>5. InOrder'
  <2>1. /\ Arrived' = Arrived \cup {r} /\ Arrived \subseteq Calls
        /\ Cardinality(Arrived) \in Nat /\ Cardinality(Arrived') = Cardinality(Arrived) + 1
        /\ since'[r] = Cardinality(Arrived')
        /\ \A q \in Calls \ {r} : since'[q] = since[q]
        /\ r \notin Arrived
    BY ArrivalCounted DEF Arrived
  <2>2. \A q \in Arrived : since'[q] = since[q] /\ since[q] \in 1 .. Cardinality(Arrived)
    BY <2>1 DEF InOrder
  <2>3. \A q \in Arrived' : since'[q] \in 1 .. Cardinality(Arrived')
    BY <2>1, <2>2
  <2>4. \A q \in Arrived : since'[q] # since'[r]
    BY <2>1, <2>2
  <2>5. \A q, x \in Arrived' : since'[q] = since'[x] => q = x
    BY <2>1, <2>2, <2>4 DEF InOrder
  <2> QED
    BY <2>3, <2>5 DEF InOrder
<1>6. AccountsOfTheDone'
  BY <1>1 DEF AccountsOfTheDone, TypeOK
<1>7. AccountsKnown'
  BY <1>1, <1>2 DEF AccountsKnown, TypeOK
<1> QED
  BY <1>4, <1>5, <1>6, <1>7

(* The calls that have arrived are the same after any other step. *)
LEMMA OrderStays ==
    ASSUME BaseInv, NEW r \in Calls, pc[r] # "idle", NEW to, to # "idle",
           pc' = [pc EXCEPT ![r] = to], UNCHANGED since
    PROVE  InOrder'
<1>1. Arrived' = Arrived
  BY DEF BaseInv, TypeOK, Arrived
<1> QED
  BY <1>1 DEF BaseInv, InOrder

LEMMA LooksBase ==
    ASSUME BaseInv, NEW r \in Calls, NEW to \in Onward, Looks(r, to)
    PROVE  BaseInv'
<1> USE DEF BaseInv
<1>1. UNCHANGED <<target, since, live, dead, isDefault, active, overlapped>>
  BY DEF Looks, rows
<1>2. pc' \in [Calls -> Working \cup {"idle", "done"}]
  BY DEF Looks, TypeOK, Onward, Working, Adding, Removing
<1>3. TypeOK'
  BY <1>1, <1>2 DEF TypeOK, Looks, Replies
<1>4. InOrder'
  BY <1>1, OrderStays DEF Looks, Onward, Working, Adding, Removing
<1>5. AccountsOfTheDone'
  BY <1>1 DEF AccountsOfTheDone, Looks, TypeOK, Working, Adding, Removing
<1>6. AccountsKnown'
  BY <1>1 DEF AccountsKnown, Looks, TypeOK, Oldest
<1> QED
  BY <1>3, <1>4, <1>5, <1>6

LEMMA InsertBase ==
    ASSUME BaseInv, NEW r \in Calls, InsertAccount(r)
    PROVE  BaseInv'
<1> USE DEF BaseInv
<1>1. /\ pc[r] = "insert" /\ pc' = [pc EXCEPT ![r] = "done"]
      /\ live' = live \cup {r} /\ isDefault' \in {isDefault, isDefault \cup {r}} /\ dead' = dead
      /\ UNCHANGED <<target, since, seen, pick, active, overlapped>>
      /\ reply' = [reply EXCEPT ![r] = "ok"]
  BY DEF InsertAccount, Finish, Goto
<1>2. r \notin live \cup dead
  BY <1>1 DEF AccountsOfTheDone
<1>3. TypeOK'
  BY <1>1, <1>2 DEF TypeOK
<1>4. InOrder'
  BY <1>1, OrderStays
<1>5. AccountsOfTheDone'
  BY <1>1 DEF AccountsOfTheDone, TypeOK
<1>6. AccountsKnown'
  BY <1>1 DEF AccountsKnown, TypeOK
<1> QED
  BY <1>3, <1>4, <1>5, <1>6

LEMMA RemovesBase ==
    ASSUME BaseInv, NEW r \in Calls, Removes(r)
    PROVE  BaseInv'
<1> USE DEF BaseInv
<1>1. /\ pc[r] \in {"delete", "promote"} /\ pc' = [pc EXCEPT ![r] = "done"]
      /\ live' = live \ {target[r]} /\ dead' = dead \cup {target[r]}
      /\ \/ isDefault' = isDefault
         \/ pc[r] = "promote" /\ isDefault' = (isDefault \ {target[r]}) \cup ({pick[r]} \ {NoAccount})
      /\ UNCHANGED <<target, since, seen, pick, active, overlapped>>
      /\ reply' = [reply EXCEPT ![r] = "ok"]
  BY DEF Removes, DeleteOther, Promote, Finish, Goto
<1>2. target[r] \in live \cup dead /\ (pc[r] = "promote" => pick[r] \in live \cup dead \cup {NoAccount})
  BY <1>1 DEF AccountsKnown
<1>3. live' \cup dead' = live \cup dead
  BY <1>1, <1>2
<1>4. isDefault' \subseteq live \cup dead
  BY <1>1, <1>2 DEF TypeOK
<1>5. TypeOK'
  BY <1>1, <1>2, <1>3, <1>4 DEF TypeOK
<1>6. InOrder'
  BY <1>1, OrderStays
<1>7. AccountsOfTheDone'
  BY <1>1, <1>3 DEF AccountsOfTheDone, TypeOK
<1>8. AccountsKnown'
  BY <1>1, <1>3 DEF AccountsKnown, TypeOK
<1> QED
  BY <1>5, <1>6, <1>7, <1>8

LEMMA OthersBase ==
    ASSUME BaseInv, UNCHANGED <<pc, target, reply, since, seen, pick, rows, overlapped>>,
           active' \in Calls \cup {NoAccount}
    PROVE  BaseInv'
BY DEF BaseInv, TypeOK, InOrder, Arrived, AccountsOfTheDone, AccountsKnown, rows

LEMMA StepBaseInv == BaseInv /\ [Next]_vars => BaseInv'
<1> SUFFICES ASSUME BaseInv, [Next]_vars PROVE BaseInv'
  OBVIOUS
<1>1. TypeOK
  BY DEF BaseInv
<1> QED
  BY <1>1, NextSteps, ArrivesBase, LooksBase, InsertBase, RemovesBase, OthersBase

-----------------------------------------------------------------------------
(* While the user adds one account at a time. *)

(* Accounts have arrived at different times. *)
LEMMA AccountsApart ==
    ASSUME BaseInv, NEW a \in live \cup dead, NEW b \in live \cup dead, since[a] = since[b]
    PROVE  a = b
<1>1. a \in Arrived /\ b \in Arrived
  BY DEF BaseInv, TypeOK, AccountsOfTheDone, Arrived
<1> QED
  BY <1>1 DEF BaseInv, InOrder

LEMMA SinceIsNumber == ASSUME BaseInv, NEW q \in Calls PROVE since[q] \in Int
<1>1. Cardinality(Calls) \in Nat
  BY NamesAssumption, FS_CardinalityType
<1> QED
  BY <1>1 DEF BaseInv, TypeOK

LEMMA DefaultsApart ==
    ASSUME BaseInv, DefaultIsOldest, NEW d \in live \cap isDefault, NEW e \in live,
           since[e] <= since[d]
    PROVE  e = d
<1>1. since[d] <= since[e] /\ d \in Calls /\ e \in Calls
  BY DEF DefaultIsOldest, Oldest, BaseInv, TypeOK
<1>2. since[d] = since[e]
  BY <1>1, SinceIsNumber
<1> QED
  BY <1>2, AccountsApart

LEMMA ArrivesForm ==
    ASSUME BaseInv, FormInv, OneAddition', NEW r \in Calls, NEW first \in {"verify", "find"},
           Arrives(r, first)
    PROVE  FormInv'
<1> USE DEF FormInv
<1>1. /\ pc[r] = "idle" /\ pc' = [pc EXCEPT ![r] = first] /\ pc \in [Calls -> Working \cup {"idle", "done"}]
      /\ UNCHANGED <<seen, pick, live, dead, isDefault>>
  BY DEF Arrives, Arrive, Goto, rows, BaseInv, TypeOK
<1>2. \A q \in Calls \ {r} : since'[q] = since[q] /\ target'[q] = target[q]
  BY ArrivalCounted DEF BaseInv, TypeOK, Arrives
<1>3. live \cup dead \subseteq Arrived /\ r \notin live \cup dead
  BY <1>1 DEF BaseInv, TypeOK, AccountsOfTheDone, Arrived
<1>4. \A a \in live \cup dead : since'[a] = since[a] /\ since[a] < since'[r]
  <2>1. Arrived \subseteq Calls /\ since'[r] = Cardinality(Arrived) + 1 /\ Cardinality(Arrived) \in Nat
    BY ArrivalCounted DEF BaseInv, Arrived
  <2>2. \A a \in Arrived : since[a] \in 1 .. Cardinality(Arrived)
    BY DEF BaseInv, InOrder
  <2> QED
    BY <1>2, <1>3, <2>1, <2>2
<1>5. AddedLast'
  BY <1>1, <1>2, <1>4 DEF AddedLast
<1>6. FirstIsAlone'
  BY <1>1 DEF FirstIsAlone
<1>7. PickIsOldest'
  <2> SUFFICES ASSUME NEW q \in Calls, pc'[q] = "promote", pick'[q] # NoAccount,
                      NEW b \in live' \ {target'[q]}
               PROVE  since'[pick'[q]] <= since'[b]
    BY DEF PickIsOldest
  <2>1. q # r /\ pc[q] = "promote" /\ pick[q] = pick'[q] /\ target'[q] = target[q]
    BY <1>1, <1>2
  <2>2. pick[q] \in live \cup dead /\ b \in live
    BY <1>1, <2>1 DEF BaseInv, AccountsKnown
  <2>3. since[pick[q]] <= since[b]
    BY <1>1, <2>1, <2>2 DEF PickIsOldest
  <2> QED
    BY <1>4, <2>1, <2>2, <2>3
<1>8. DefaultIsOldest'
  BY <1>1, <1>4 DEF DefaultIsOldest, Oldest
<1> QED
  BY <1>5, <1>6, <1>7, <1>8

LEMMA LooksForm ==
    ASSUME BaseInv, FormInv, OneAddition', NEW r \in Calls, NEW to \in Onward, Looks(r, to)
    PROVE  FormInv'
<1> USE DEF FormInv
<1>1. /\ UNCHANGED <<target, since, live, dead, isDefault>> /\ pc' = [pc EXCEPT ![r] = to]
      /\ pc \in [Calls -> Working \cup {"idle", "done"}]
      /\ \A q \in Calls \ {r} : seen'[q] = seen[q] /\ pick'[q] = pick[q]
  BY DEF Looks, rows, BaseInv, TypeOK
<1>2. AddedLast'
  BY <1>1 DEF AddedLast, Looks
<1>3. FirstIsAlone'
  BY <1>1 DEF FirstIsAlone, Looks
<1>4. PickIsOldest'
  <2> SUFFICES ASSUME NEW q \in Calls, pc'[q] = "promote", pick'[q] # NoAccount,
                      NEW b \in live \ {target[q]}
               PROVE  since[pick'[q]] <= since[b]
    BY <1>1 DEF PickIsOldest
  <2>1. CASE q = r
    <3>1. pick'[r] \in Oldest(live \ {target[r]})
      BY <1>1, <2>1 DEF Looks
    <3> QED
      BY <2>1, <3>1 DEF Oldest
  <2>2. CASE q # r
    BY <1>1, <2>2 DEF PickIsOldest
  <2> QED
    BY <2>1, <2>2
<1>5. DefaultIsOldest'
  BY <1>1 DEF DefaultIsOldest, Oldest
<1> QED
  BY <1>2, <1>3, <1>4, <1>5

LEMMA InsertForm ==
    ASSUME BaseInv, FormInv, OneAddition', NEW r \in Calls, InsertAccount(r)
    PROVE  FormInv'
<1> USE DEF FormInv
<1>1. /\ pc[r] = "insert" /\ pc' = [pc EXCEPT ![r] = "done"]
      /\ live' = live \cup {r} /\ dead' = dead
      /\ isDefault' = IF seen[r] THEN isDefault \cup {r} ELSE isDefault
      /\ UNCHANGED <<target, since, seen, pick>>
      /\ pc \in [Calls -> Working \cup {"idle", "done"}]
      /\ live \cup dead \subseteq Calls /\ isDefault \subseteq live \cup dead
  BY DEF InsertAccount, Finish, Goto, BaseInv, TypeOK
<1>2. r \notin live \cup dead
  BY <1>1 DEF BaseInv, AccountsOfTheDone
<1>3. \A q \in Calls : pc'[q] \notin Adding
  BY <1>1 DEF OneAddition, Adding
<1>4. \A a \in live \cup dead : since[a] < since[r]
  BY <1>1 DEF AddedLast, Adding
<1>5. AddedLast' /\ FirstIsAlone'
  BY <1>3 DEF AddedLast, FirstIsAlone, Adding
<1>6. PickIsOldest'
  <2> SUFFICES ASSUME NEW q \in Calls, pc[q] = "promote", pick[q] # NoAccount,
                      NEW b \in (live \cup {r}) \ {target[q]}
               PROVE  since[pick[q]] <= since[b]
    BY <1>1 DEF PickIsOldest
  <2>1. CASE b \in live
    BY <2>1 DEF PickIsOldest
  <2>2. CASE b = r
    <3>1. pick[q] \in live \cup dead
      BY DEF BaseInv, AccountsKnown
    <3>2. since[pick[q]] \in Int /\ since[r] \in Int
      BY <1>1, <3>1, SinceIsNumber
    <3> QED
      BY <1>4, <2>2, <3>1, <3>2
  <2> QED
    BY <2>1, <2>2
<1>7. DefaultIsOldest'
  <2> SUFFICES ASSUME NEW d \in (live \cup {r}) \cap isDefault', NEW b \in live \cup {r}
               PROVE  since[d] <= since[b]
    BY <1>1 DEF DefaultIsOldest, Oldest
  <2>1. CASE seen[r]
    <3>1. live = {}
      BY <1>1, <2>1 DEF FirstIsAlone
    <3> QED
      BY <3>1, SinceIsNumber
  <2>2. CASE ~seen[r]
    <3>1. d \in live \cap isDefault
      BY <1>1, <1>2, <2>2
    <3>2. CASE b \in live
      BY <3>1, <3>2 DEF DefaultIsOldest, Oldest
    <3>3. CASE b = r
      BY <1>1, <1>4, <3>1, <3>3, SinceIsNumber
    <3> QED
      BY <3>2, <3>3
  <2> QED
    BY <2>1, <2>2
<1> QED
  BY <1>5, <1>6, <1>7

LEMMA RemovesForm ==
    ASSUME BaseInv, FormInv, OneAddition', NEW r \in Calls, Removes(r)
    PROVE  FormInv'
<1> USE DEF FormInv
<1>1. /\ pc[r] \in {"delete", "promote"} /\ pc' = [pc EXCEPT ![r] = "done"]
      /\ live' = live \ {target[r]} /\ dead' = dead \cup {target[r]}
      /\ \/ isDefault' = isDefault
         \/ pc[r] = "promote" /\ isDefault' = (isDefault \ {target[r]}) \cup ({pick[r]} \ {NoAccount})
      /\ UNCHANGED <<target, since, seen, pick>>
      /\ pc \in [Calls -> Working \cup {"idle", "done"}]
  BY DEF Removes, DeleteOther, Promote, Finish, Goto, BaseInv, TypeOK
<1>2. live' \cup dead' = live \cup dead
  BY <1>1 DEF BaseInv, AccountsKnown
<1>3. AddedLast'
  BY <1>1, <1>2 DEF AddedLast, Adding
<1>4. FirstIsAlone'
  BY <1>1 DEF FirstIsAlone
<1>5. PickIsOldest'
  BY <1>1 DEF PickIsOldest
<1>6. DefaultIsOldest'
  <2> SUFFICES ASSUME NEW d \in live' \cap isDefault', NEW b \in live'
               PROVE  since[d] <= since[b]
    BY <1>1 DEF DefaultIsOldest, Oldest
  <2>1. CASE d \in isDefault
    BY <1>1, <2>1 DEF DefaultIsOldest, Oldest
  <2>2. CASE d \notin isDefault
    BY <1>1, <2>2 DEF PickIsOldest
  <2> QED
    BY <2>1, <2>2
<1> QED
  BY <1>3, <1>4, <1>5, <1>6

LEMMA OthersForm ==
    ASSUME FormInv, UNCHANGED <<pc, target, reply, since, seen, pick, rows, overlapped>>
    PROVE  FormInv'
BY DEF FormInv, OneAddition, AddedLast, FirstIsAlone, PickIsOldest, DefaultIsOldest, Oldest, rows

LEMMA StepFormInv == BaseInv /\ FormInv /\ [Next /\ OneAddition']_vars => FormInv'
<1> SUFFICES ASSUME BaseInv, FormInv, [Next /\ OneAddition']_vars PROVE FormInv'
  OBVIOUS
<1>1. TypeOK
  BY DEF BaseInv
<1>2. CASE UNCHANGED vars
  BY <1>2, OthersForm DEF vars
<1>3. CASE Next /\ OneAddition'
  BY <1>1, <1>3, NextSteps, ArrivesForm, LooksForm, InsertForm, RemovesForm, OthersForm
<1> QED
  BY <1>2, <1>3

-----------------------------------------------------------------------------
(* While no two calls have overlapped either. *)

(* A call that is not in progress relies on nothing. *)
LEMMA NothingSeen ==
    ASSUME NEW q \in Calls, pc'[q] \notin Working PROVE SeenIsSo(q)'
BY DEF SeenIsSo, Working, Adding, Removing

(* With r alone in progress, only what r has seen is to be looked at. *)
LEMMA OneInProgress ==
    ASSUME BaseInv, \A x, y \in InProgress : x = y, NEW r \in Calls,
           r \in InProgress \/ InProgress = {}, NEW to, pc' = [pc EXCEPT ![r] = to],
           SeenIsSo(r)'
    PROVE  /\ \A x, y \in InProgress' : x = y
           /\ \A q \in Calls : SeenIsSo(q)'
<1>1. \A q \in Calls : q # r => pc'[q] \notin Working
  BY DEF BaseInv, TypeOK, InProgress
<1>2. \A x, y \in InProgress' : x = y
  BY <1>1 DEF InProgress
<1>3. \A q \in Calls : q # r => SeenIsSo(q)'
  BY <1>1, NothingSeen
<1> QED
  BY <1>2, <1>3

LEMMA ArrivesAlone ==
    ASSUME BaseInv, AloneInv, NEW r \in Calls, NEW first \in {"verify", "find"}, Arrives(r, first)
    PROVE  AloneInv'
<1> SUFFICES ASSUME ~overlapped'
             PROVE  /\ \A x, y \in InProgress' : x = y
                    /\ \A q \in Calls : SeenIsSo(q)'
                    /\ live' # {} => live' \cap isDefault' # {}
                    /\ live' \cap isDefault' = Oldest(live)'
  BY DEF AloneInv
<1>1. /\ ~overlapped /\ InProgress = {} /\ pc[r] = "idle" /\ pc' = [pc EXCEPT ![r] = first]
      /\ UNCHANGED <<live, dead, isDefault>>
  BY DEF Arrives, Arrive, Goto, rows
<1>2. SeenIsSo(r)'
  BY <1>1 DEF SeenIsSo, BaseInv, TypeOK
<1>3. /\ \A x, y \in InProgress' : x = y
      /\ \A q \in Calls : SeenIsSo(q)'
  BY <1>1, <1>2, OneInProgress
<1>4. \A a \in live : since'[a] = since[a]
  BY <1>1, ArrivalCounted DEF BaseInv, TypeOK, AccountsOfTheDone
<1>5. Oldest(live)' = Oldest(live)
  BY <1>1, <1>4 DEF Oldest
<1> QED
  BY <1>1, <1>3, <1>5 DEF AloneInv

LEMMA LooksAlone ==
    ASSUME BaseInv, FormInv, AloneInv, NEW r \in Calls, NEW to \in Onward, Looks(r, to)
    PROVE  AloneInv'
<1> SUFFICES ASSUME ~overlapped'
             PROVE  /\ \A x, y \in InProgress' : x = y
                    /\ \A q \in Calls : SeenIsSo(q)'
                    /\ live' # {} => live' \cap isDefault' # {}
                    /\ live' \cap isDefault' = Oldest(live)'
  BY DEF AloneInv
<1>1. /\ ~overlapped /\ UNCHANGED <<target, since, live, dead, isDefault>>
      /\ pc' = [pc EXCEPT ![r] = to] /\ pc'[r] = to /\ r \in InProgress
  BY DEF Looks, rows, BaseInv, TypeOK, InProgress
<1>2. SeenIsSo(r)
  BY <1>1 DEF AloneInv
<1>3. SeenIsSo(r)'
  <2>1. to = "insert" => seen'[r] = (live = {})
    BY DEF Looks
  <2>2. to \in {"guard", "delete"} => target[r] \in live /\ seen'[r] = (target[r] \in isDefault)
    BY <1>2 DEF Looks, SeenIsSo
  <2>3. to \in {"remaining", "promote"} => target[r] \in live \cap isDefault
    BY <1>2 DEF Looks, SeenIsSo
  <2>4. to = "promote" => \/ pick'[r] = NoAccount /\ live = {target[r]}
                          \/ pick'[r] \in Oldest(live \ {target[r]})
    <3> SUFFICES ASSUME to = "promote", pick'[r] \notin Oldest(live \ {target[r]})
                 PROVE  pick'[r] = NoAccount /\ live = {target[r]}
      OBVIOUS
    <3>1. pick'[r] = NoAccount
          /\ (live \ {target[r]} = {} \/ (live \ {target[r]}) \cap isDefault # {})
      BY DEF Looks
    <3>2. (live \ {target[r]}) \cap isDefault = {}
      <4> SUFFICES ASSUME NEW d \in live \cap isDefault PROVE d = target[r]
        OBVIOUS
      <4>1. since[target[r]] <= since[d]
        BY <2>3 DEF FormInv, DefaultIsOldest, Oldest
      <4> QED
        BY <2>3, <4>1, DefaultsApart DEF FormInv
    <3> QED
      BY <2>3, <3>1, <3>2
  <2>5. Oldest(live \ {target[r]})' = Oldest(live \ {target[r]})
    BY <1>1 DEF Oldest
  <2> QED
    BY <1>1, <2>1, <2>2, <2>3, <2>4, <2>5 DEF SeenIsSo
<1>4. /\ \A x, y \in InProgress' : x = y
      /\ \A q \in Calls : SeenIsSo(q)'
  BY <1>1, <1>3, OneInProgress DEF AloneInv
<1>5. Oldest(live)' = Oldest(live)
  BY <1>1 DEF Oldest
<1> QED
  BY <1>1, <1>4, <1>5 DEF AloneInv

LEMMA InsertAlone ==
    ASSUME BaseInv, FormInv, AloneInv, NEW r \in Calls, InsertAccount(r)
    PROVE  AloneInv'
<1> SUFFICES ASSUME ~overlapped'
             PROVE  /\ \A x, y \in InProgress' : x = y
                    /\ \A q \in Calls : SeenIsSo(q)'
                    /\ live' # {} => live' \cap isDefault' # {}
                    /\ live' \cap isDefault' = Oldest(live)'
  BY DEF AloneInv
<1>1. /\ ~overlapped /\ pc[r] = "insert" /\ pc' = [pc EXCEPT ![r] = "done"] /\ pc'[r] = "done"
      /\ live' = live \cup {r} /\ since' = since
      /\ isDefault' = IF seen[r] THEN isDefault \cup {r} ELSE isDefault
      /\ r \in InProgress
  BY DEF InsertAccount, Finish, Goto, BaseInv, TypeOK, InProgress, Working, Adding
<1>2. r \notin live /\ r \notin isDefault
  BY <1>1 DEF BaseInv, TypeOK, AccountsOfTheDone
<1>3. \A a \in live : since[a] < since[r] /\ since[a] \in Int /\ since[r] \in Int
  BY <1>1, SinceIsNumber DEF FormInv, AddedLast, Adding, BaseInv, TypeOK
<1>4. seen[r] = (live = {})
  BY <1>1 DEF AloneInv, SeenIsSo
<1>5. /\ \A x, y \in InProgress' : x = y
      /\ \A q \in Calls : SeenIsSo(q)'
  <2>1. SeenIsSo(r)'
    BY <1>1, NothingSeen DEF Working, Adding, Removing
  <2> QED
    BY <1>1, <2>1, OneInProgress DEF AloneInv
<1>6. CASE live = {}
  <2>1. live' \cap isDefault' = {r} /\ live' = {r}
    BY <1>1, <1>4, <1>6
  <2>2. Oldest(live)' = {r}
    BY <1>1, <2>1, SinceIsNumber DEF Oldest
  <2> QED
    BY <1>5, <2>1, <2>2
<1>7. CASE live # {}
  <2>1. live' \cap isDefault' = live \cap isDefault
    BY <1>1, <1>2, <1>4, <1>7
  <2>2. Oldest(live)' = Oldest(live)
    BY <1>1, <1>2, <1>3, <1>7 DEF Oldest
  <2> QED
    BY <1>1, <1>5, <1>7, <2>1, <2>2 DEF AloneInv
<1> QED
  BY <1>6, <1>7

LEMMA RemovesAlone ==
    ASSUME BaseInv, FormInv, AloneInv, NEW r \in Calls, Removes(r)
    PROVE  AloneInv'
<1> SUFFICES ASSUME ~overlapped'
             PROVE  /\ \A x, y \in InProgress' : x = y
                    /\ \A q \in Calls : SeenIsSo(q)'
                    /\ live' # {} => live' \cap isDefault' # {}
                    /\ live' \cap isDefault' = Oldest(live)'
  BY DEF AloneInv
<1> DEFINE t == target[r]
<1>1. /\ ~overlapped /\ pc[r] \in {"delete", "promote"} /\ pc' = [pc EXCEPT ![r] = "done"]
      /\ pc'[r] = "done" /\ live' = live \ {t} /\ since' = since
      /\ r \in InProgress
  BY DEF Removes, DeleteOther, Promote, Finish, Goto, BaseInv, TypeOK, InProgress, Working, Removing
<1>2. SeenIsSo(r) /\ live \cap isDefault = Oldest(live)
  BY <1>1 DEF AloneInv
<1>3. /\ \A x, y \in InProgress' : x = y
      /\ \A q \in Calls : SeenIsSo(q)'
  <2>1. SeenIsSo(r)'
    BY <1>1, NothingSeen DEF Working, Adding, Removing
  <2> QED
    BY <1>1, <2>1, OneInProgress DEF AloneInv
<1>4. \A a \in live : since[a] \in Int /\ a \in Calls
  BY SinceIsNumber DEF BaseInv, TypeOK
<1>5. CASE DeleteOther(r)
  <2>1. pc[r] = "delete" /\ ~seen[r] /\ isDefault' = isDefault
    BY <1>5 DEF DeleteOther, Finish, Goto
  <2>2. t \in live /\ t \notin isDefault
    BY <1>2, <2>1 DEF SeenIsSo
  <2>3. PICK b \in live : since[b] < since[t]
    BY <1>2, <1>4, <2>2 DEF Oldest
  <2>4. b # t
    BY <1>4, <2>3
  <2>5. Oldest(live \ {t}) = Oldest(live)
    <3>1. ASSUME NEW a \in Oldest(live \ {t}) PROVE a \in Oldest(live)
      <4>1. a \in live /\ \A c \in live \ {t} : since[a] <= since[c]
        BY <3>1 DEF Oldest
      <4>2. since[a] <= since[t]
        BY <1>4, <2>2, <2>3, <2>4, <4>1
      <4> QED
        BY <4>1, <4>2 DEF Oldest
    <3>2. ASSUME NEW a \in Oldest(live) PROVE a \in Oldest(live \ {t})
      <4>1. a # t
        BY <1>2, <2>2, <3>2
      <4> QED
        BY <3>2, <4>1 DEF Oldest
    <3> QED
      BY <3>1, <3>2
  <2>6. Oldest(live)' = Oldest(live \ {t})
    BY <1>1 DEF Oldest
  <2>7. live' \cap isDefault' = live \cap isDefault
    BY <1>1, <2>1, <2>2
  <2> QED
    BY <1>1, <1>2, <1>3, <2>5, <2>6, <2>7 DEF AloneInv
<1>6. CASE Promote(r)
  <2>1. pc[r] = "promote" /\ isDefault' = (isDefault \ {t}) \cup ({pick[r]} \ {NoAccount})
    BY <1>6 DEF Promote, Finish, Goto
  <2>2. t \in live \cap isDefault
    BY <1>2, <2>1 DEF SeenIsSo
  <2>3. \A d \in live \cap isDefault : d = t
    <3> TAKE d \in live \cap isDefault
    <3>1. since[t] <= since[d]
      BY <1>2, <2>2 DEF Oldest
    <3> QED
      BY <2>2, <3>1, DefaultsApart DEF FormInv
  <2>4. Oldest(live)' = Oldest(live \ {t})
    BY <1>1 DEF Oldest
  <2>5. CASE pick[r] = NoAccount /\ live = {t}
    <3>1. live' = {}
      BY <1>1, <2>5
    <3>2. Oldest(live)' = {}
      BY <3>1 DEF Oldest
    <3> QED
      BY <1>3, <3>1, <3>2
  <2>6. CASE pick[r] \in Oldest(live \ {t})
    <3>1. pick[r] \in live \ {t} /\ pick[r] # NoAccount
      BY <1>4, <2>6, NamesAssumption DEF Oldest
    <3>2. live' \cap isDefault' = {pick[r]}
      BY <1>1, <2>1, <2>3, <3>1
    <3>3. \A a \in Oldest(live \ {t}) : a = pick[r]
      <4> TAKE a \in Oldest(live \ {t})
      <4>1. a \in live /\ since[a] <= since[pick[r]] /\ since[pick[r]] <= since[a]
        BY <2>6, <3>1 DEF Oldest
      <4>2. since[a] = since[pick[r]]
        BY <1>4, <3>1, <4>1
      <4> QED
        BY <3>1, <4>1, <4>2, AccountsApart
    <3> QED
      BY <1>3, <2>4, <2>6, <3>2, <3>3
  <2> QED
    BY <1>2, <2>1, <2>5, <2>6 DEF SeenIsSo
<1> QED
  BY <1>5, <1>6 DEF Removes

LEMMA OthersAlone ==
    ASSUME AloneInv, UNCHANGED <<pc, target, reply, since, seen, pick, rows, overlapped>>
    PROVE  AloneInv'
BY DEF AloneInv, SeenIsSo, InProgress, Oldest, rows

LEMMA StepAloneInv == BaseInv /\ FormInv /\ AloneInv /\ [Next]_vars => AloneInv'
<1> SUFFICES ASSUME BaseInv, FormInv, AloneInv, [Next]_vars PROVE AloneInv'
  OBVIOUS
<1>1. TypeOK
  BY DEF BaseInv
<1> QED
  BY <1>1, NextSteps, ArrivesAlone, LooksAlone, InsertAlone, RemovesAlone, OthersAlone

LEMMA InvariantMeans == IInv => DefaultsKept
<1> SUFFICES ASSUME IInv PROVE DefaultsKept
  OBVIOUS
<1>1. \A d, e \in live \cap isDefault : d = e
  BY DefaultsApart DEF IInv, FormInv, DefaultIsOldest, Oldest
<1>2. Cardinality(live \cap isDefault) <= 1
  <2>1. CASE live \cap isDefault = {}
    <3>1. Cardinality({}) = 0
      BY FS_EmptySet
    <3>2. Cardinality(live \cap isDefault) = 0
      BY <2>1, <3>1, Zenon
    <3> QED
      BY <3>2
  <2>2. CASE live \cap isDefault # {}
    <3>1. PICK d \in live \cap isDefault : live \cap isDefault = {d}
      BY <1>1, <2>2
    <3>2. Cardinality({d}) = 1
      BY FS_Singleton
    <3>3. Cardinality(live \cap isDefault) = 1
      BY <3>1, <3>2, Zenon
    <3> QED
      BY <3>3
  <2> QED
    BY <2>1, <2>2
<1> QED
  BY <1>2 DEF IInv, AloneInv, DefaultsKept, AtMostOneDefault, HasDefault

-----------------------------------------------------------------------------
(* Every reachable state is well typed, whatever overlaps: what a removal    *)
(* writes is a row that was added (repositories/bank_account.py 110-120).     *)
THEOREM TypeCorrect == Spec => []TypeOK
<1>1. Init => BaseInv
  BY InitIInv DEF IInv
<1>2. BaseInv => TypeOK
  BY DEF BaseInv
<1> QED
  BY <1>1, <1>2, StepBaseInv, PTL DEF Spec

(* The strengthened invariant, while the user adds one account at a time.    *)
THEOREM InvariantHolds == FormSpec => []IInv
<1>1. Init => IInv
  BY InitIInv
<1>2. IInv /\ [Next /\ OneAddition']_vars => IInv'
  <2> SUFFICES ASSUME IInv, [Next /\ OneAddition']_vars PROVE IInv'
    OBVIOUS
  <2>1. [Next]_vars
    OBVIOUS
  <2> QED
    BY <2>1, StepBaseInv, StepFormInv, StepAloneInv DEF IInv
<1> QED
  BY <1>1, <1>2, PTL DEF FormSpec

(* However removals overlap, each other and an addition, there are no two    *)
(* defaults; and while no two calls have overlapped the oldest account is    *)
(* the default (withdrawal.py 118-187, repositories/bank_account.py 110-120). *)
THEOREM DefaultsAreKept == FormSpec => []DefaultsKept
  BY InvariantHolds, InvariantMeans, PTL
=============================================================================
