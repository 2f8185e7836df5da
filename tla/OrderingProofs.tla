--------------------------- MODULE OrderingProofs ---------------------------
(***************************************************************************)
(* Theorems about Ordering for every catalogue, set of buyers and set of   *)
(* concurrent order calls. The argument has two layers: calls in progress  *)
(* are well formed and every variable keeps its type (CallInv), and the    *)
(* row locks make what a transaction has seen of a row still true when it  *)
(* commits (LockInv). The announced sold-out sizes, the added spend and the*)
(* current grade follow from the second layer.                             *)
(***************************************************************************)
EXTENDS Ordering, SumTheorems

\* A call past its first check carries a well-formed request and stands at one
\* of its items; before it, it is at the first.
Running == {"check"} \union InTx

CallsWellFormed ==
    \A o \in Orders :
        /\ pc[o] = "idle" => at[o] = 1
        /\ pc[o] \in Running =>
               /\ WellFormed(request[o])
               /\ at[o] \in 1..Len(request[o].items)

CallInv == TypeOK /\ CallsWellFormed

LEMMA QuantityNat ==
    ASSUME NEW q \in 1..MaxQuantity
    PROVE  q \in Nat
  BY SMTT(30) DEF MaxQuantity

\* The item a running call is at is an item of the request type.
LEMMA ItemType ==
    ASSUME CallInv, NEW o \in Orders, pc[o] \in Running
    PROVE  /\ Item(o) \in OrderItem
           /\ Item(o).key \in StockKeys
           /\ Item(o).quantity \in 1..MaxQuantity
           /\ request[o].items \in Seq(OrderItem)
           /\ at[o] \in 1..Len(request[o].items)
<1>1. request[o] \in RequestType
  BY RequestAssumption DEF CallInv, TypeOK
<1>2. request[o].items \in Seq(OrderItem)
  BY <1>1 DEF RequestType
<1>3. /\ WellFormed(request[o])
      /\ at[o] \in 1..Len(request[o].items)
  BY DEF CallInv, CallsWellFormed
<1>4. DOMAIN request[o].items = 1..Len(request[o].items)
  BY <1>2
<1>5. Item(o) \in OrderItem
  BY <1>2, <1>3, <1>4 DEF Item
<1>6. Item(o).quantity \in 1..MaxQuantity
  BY <1>3, <1>4 DEF WellFormed, Item
<1>. QED
  BY <1>2, <1>3, <1>5, <1>6 DEF OrderItem

\* The request of a call is of the request type.
LEMMA RequestTyped ==
    ASSUME TypeOK, NEW o \in Orders
    PROVE  /\ request[o] \in RequestType
           /\ Buyer(o) \in Buyers
           /\ request[o].usePoint \in Int
  BY RequestAssumption DEF TypeOK, RequestType, Buyer

\* Prices, rates and what is computed from them are integers.
LEMMA ItemPriceTyped ==
    ASSUME NEW item \in OrderItem
    PROVE  ItemPrice(item) \in Int
  BY CatalogAssumption DEF ItemPrice, OrderItem

\* Points earned are a number.
LEMMA EarnedTyped ==
    ASSUME NEW amount \in Int, NEW g \in Grades \union {NoGrade}
    PROVE  EarnedPoints(amount, g) \in Int
<1>1. RateOf(g) \in Int
  BY GradeAssumption DEF RateOf
<1>2. amount * RateOf(g) \in Int
  BY <1>1
<1>. QED
  BY <1>2 DEF EarnedPoints

\* findFirst answers with a grade whenever one is eligible.
LEMMA BestGradeTyped ==
    ASSUME NEW amount \in Int, Eligible(amount) # {}
    PROVE  BestGrade(amount) \in Grades
  BY GradesRanked DEF BestGrade, Eligible

LEMMA NewGradeTyped ==
    ASSUME TypeOK, NEW o \in Orders, NewSpend(o) \in Int
    PROVE  NewGrade(o) \in Grades \union {NoGrade}
  BY RequestTyped, BestGradeTyped DEF TypeOK, NewGrade

-----------------------------------------------------------------------------
LEMMA InitCallInv == Init => CallInv
<1>. SUFFICES ASSUME Init PROVE CallInv
  OBVIOUS
<1>1. TypeOK
  BY OrderingAssumption DEF Init, TypeOK, Nothing
<1>2. CallsWellFormed
  BY DEF Init, CallsWellFormed, Running, InTx
<1>. QED
  BY <1>1, <1>2 DEF CallInv

LEMMA SubmitCallInv ==
    ASSUME CallInv, NEW o \in Orders, Submit(o)
    PROVE  CallInv'
<1>1. TypeOK'
  BY DEF CallInv, TypeOK, Submit, Goto, database, Answered
<1>2. CallsWellFormed'
  <2>1. WellFormed(request[o]) => 1 \in 1..Len(request[o].items)
    BY RequestTyped DEF CallInv, WellFormed, RequestType
  <2>. QED
    BY <2>1 DEF CallInv, CallsWellFormed, TypeOK, Submit, Goto, Running, InTx
<1>. QED
  BY <1>1, <1>2 DEF CallInv

\* Where a call goes is typed, and it stays well formed while its place in the
\* item list does not move.
LEMMA GotoCallInv ==
    ASSUME CallInv, NEW o \in Orders,
           NEW place \in Running \union Answered, pc[o] \in Running,
           Goto(o, place), UNCHANGED <<request, at>>
    PROVE  /\ pc' \in [Orders -> {"idle", "check"} \union InTx \union Answered]
           /\ CallsWellFormed'
<1>1. pc' \in [Orders -> {"idle", "check"} \union InTx \union Answered]
  BY DEF CallInv, TypeOK, Goto, Running
<1>2. CallsWellFormed'
  BY DEF CallInv, CallsWellFormed, TypeOK, Goto, Running, InTx, Answered
<1>. QED
  BY <1>1, <1>2

\* The step to the next item, or past the last, keeps the place in the list.
LEMMA AdvanceCallInv ==
    ASSUME CallInv, NEW o \in Orders, pc[o] \in Running,
           Advance(o), UNCHANGED request
    PROVE  /\ pc' \in [Orders -> {"idle", "check"} \union InTx \union Answered]
           /\ at' \in [Orders -> Nat]
           /\ CallsWellFormed'
<1>1. CASE LastItem(o)
  BY <1>1, GotoCallInv DEF Advance, CallInv, TypeOK, Running, InTx
<1>2. CASE ~LastItem(o)
  <2>1. /\ pc' = [pc EXCEPT ![o] = "take"]
        /\ at' = [at EXCEPT ![o] = @ + 1]
    BY <1>2 DEF Advance, Goto
  <2>2. at[o] + 1 \in 1..Len(request[o].items)
    BY <1>2, ItemType DEF LastItem
  <2>3. CallsWellFormed'
    BY <2>1, <2>2 DEF CallInv, CallsWellFormed, TypeOK, Running, InTx
  <2>. QED
    BY <2>1, <2>3 DEF CallInv, TypeOK, InTx
<1>. QED
  BY <1>1, <1>2

LEMMA CheckCallInv ==
    ASSUME CallInv, NEW o \in Orders, RefuseShort(o) \/ CheckItem(o)
    PROVE  CallInv'
<1>1. CASE RefuseShort(o)
  BY <1>1, GotoCallInv
     DEF RefuseShort, CallInv, TypeOK, database, Running, Answered
<1>2. CASE CheckItem(o)
  <2>. DEFINE newTotal == total[o] + ItemPrice(Item(o))
              next == IF PointsUsable(request[o].usePoint, newTotal)
                      THEN "take" ELSE "rejected"
  <2>1. pc[o] \in Running /\ newTotal \in Int
    BY <1>2, ItemType, ItemPriceTyped
       DEF CheckItem, Running, CallInv, TypeOK
  <2>2. /\ total' \in [Orders -> Int]
        /\ UNCHANGED <<database, request, taken, queued, seen>>
    BY <1>2, <2>1 DEF CheckItem, CallInv, TypeOK
  <2>3. /\ pc' \in [Orders -> {"idle", "check"} \union InTx \union Answered]
        /\ at' \in [Orders -> Nat]
        /\ CallsWellFormed'
    <3>1. CASE LastItem(o)
      <4>1. at' = [at EXCEPT ![o] = 1] /\ pc' = [pc EXCEPT ![o] = next]
        BY <1>2, <3>1 DEF CheckItem, Goto
      <4>2. 1 \in 1..Len(request[o].items)
        BY <2>1, ItemType
      <4>3. CallsWellFormed'
        BY <2>1, <2>2, <4>1, <4>2
           DEF CallInv, CallsWellFormed, TypeOK, Running, InTx
      <4>. QED
        BY <4>1, <4>3 DEF CallInv, TypeOK, InTx, Answered
    <3>2. CASE ~LastItem(o)
      <4>1. at' = [at EXCEPT ![o] = @ + 1] /\ pc' = pc
        BY <1>2, <3>2 DEF CheckItem
      <4>2. at[o] + 1 \in 1..Len(request[o].items)
        BY <2>1, <3>2, ItemType DEF LastItem
      <4>3. CallsWellFormed'
        BY <2>1, <2>2, <4>1, <4>2
           DEF CallInv, CallsWellFormed, TypeOK, Running, InTx
      <4>. QED
        BY <4>1, <4>3 DEF CallInv, TypeOK
    <3>. QED
      BY <3>1, <3>2
  <2>. QED
    BY <2>2, <2>3 DEF CallInv, TypeOK, database
<1>. QED
  BY <1>1, <1>2

LEMMA TakeStockCallInv ==
    ASSUME CallInv, NEW o \in Orders, TakeStock(o)
    PROVE  CallInv'
<1>0. pc[o] \in Running
  BY DEF TakeStock, Running, InTx
<1>1. /\ taken' = [taken EXCEPT ![o][Item(o).key] = @ + Item(o).quantity]
      /\ UNCHANGED <<database, request, total, queued, seen>>
  BY DEF TakeStock
<1>2. taken' \in [Orders -> [StockKeys -> Nat]]
  <2>0. Item(o).key \in StockKeys /\ Item(o).quantity \in 1..MaxQuantity
    BY <1>0, ItemType
  <2>1. Item(o).key \in StockKeys /\ Item(o).quantity \in Nat
    BY <2>0, QuantityNat
  <2>2. taken[o] \in [StockKeys -> Nat] /\ taken[o][Item(o).key] \in Nat
    BY <2>1 DEF CallInv, TypeOK
  <2>. DEFINE n == taken[o][Item(o).key] + Item(o).quantity
  <2>3. n \in Nat
    BY <2>1, <2>2
  <2>4. [taken[o] EXCEPT ![Item(o).key] = n] \in [StockKeys -> Nat]
    BY <2>1, <2>2, <2>3
  <2>5. taken' = [taken EXCEPT ![o] = [taken[o] EXCEPT ![Item(o).key] = n]]
    BY <1>1, Zenon
  <2>. QED
    BY <2>4, <2>5 DEF CallInv, TypeOK
<1>3. /\ pc' \in [Orders -> {"idle", "check"} \union InTx \union Answered]
      /\ at' \in [Orders -> Nat]
      /\ CallsWellFormed'
  <2>1. CASE Goto(o, "soldout") /\ UNCHANGED at
    BY <1>0, <1>1, <2>1, GotoCallInv DEF Running, InTx, CallInv, TypeOK
  <2>2. CASE Advance(o)
    BY <1>0, <1>1, <2>2, AdvanceCallInv
  <2>. QED
    BY <2>1, <2>2 DEF TakeStock
<1>. QED
  BY <1>1, <1>2, <1>3 DEF CallInv, TypeOK, database

\* The notices of a product and its sizes are notices.
LEMMA SoldOutNotices ==
    ASSUME NEW k \in StockKeys
    PROVE  /\ SizeNotices(k) \subseteq Notice
           /\ ProductNotice(ProductOf[k]) \in Notice
<1>1. SizeNotices(k) \subseteq UNION {SizeNotices(j) : j \in StockKeys}
  BY Zenon
<1>2. ProductNotice(ProductOf[k]) \in {ProductNotice(p) : p \in Products}
  BY CatalogAssumption, Zenon
<1>3. SizeNotices(k) \subseteq Notice
  BY <1>1, Zenon DEF Notice
<1>4. ProductNotice(ProductOf[k]) \in Notice
  BY <1>2, Zenon DEF Notice
<1>. QED
  BY <1>3, <1>4

LEMMA QueueSoldOutCallInv ==
    ASSUME CallInv, NEW o \in Orders, QueueSoldOut(o)
    PROVE  CallInv'
<1>1. /\ pc[o] \in Running
      /\ Advance(o)
      /\ UNCHANGED <<database, request, total, taken, seen>>
  BY DEF QueueSoldOut, Running, InTx
<1>2. queued' \in [Orders -> SUBSET Notice]
  <2>1. Item(o).key \in StockKeys
    BY <1>1, ItemType
  <2>. DEFINE k == Item(o).key
              p == ProductOf[k]
              allSizes == \A j \in StockKeys : ProductOf[j] = p => View(o, j) <= 0
              N == SizeNotices(k)
                     \union (IF allSizes THEN {ProductNotice(p)} ELSE {})
  <2>2. queued' = [queued EXCEPT ![o] = queued[o] \union N]
    BY DEF QueueSoldOut, CallInv, TypeOK
  <2>3. N \subseteq Notice
    BY <2>1, SoldOutNotices
  <2>. QED
    BY <2>2, <2>3 DEF CallInv, TypeOK
<1>. QED
  BY <1>1, <1>2, AdvanceCallInv DEF CallInv, TypeOK, database

LEMMA UserStepsCallInv ==
    ASSUME CallInv, NEW o \in Orders,
           DebitPoints(o) \/ ReadUser(o) \/ CreditUser(o)
    PROVE  CallInv'
<1>1. CASE DebitPoints(o) \/ CreditUser(o)
  BY <1>1, GotoCallInv
     DEF DebitPoints, CreditUser, CallInv, TypeOK, database, Running, InTx
<1>2. CASE ReadUser(o)
  <2>1. seen' \in [Orders -> [spend : Int, grade : Grades \union {NoGrade}]]
    BY <1>2, RequestTyped DEF ReadUser, CallInv, TypeOK
  <2>. QED
    BY <1>2, <2>1, GotoCallInv
       DEF ReadUser, CallInv, TypeOK, database, Running, InTx
<1>. QED
  BY <1>1, <1>2

LEMMA CommitCallInv ==
    ASSUME CallInv, NEW o \in Orders, Commit(o)
    PROVE  CallInv'
<1>. DEFINE b == Buyer(o)
            earned == EarnedPoints(Final(o), seen[o].grade)
<1>1. /\ b \in Buyers
      /\ request[o].usePoint \in Int
      /\ Final(o) \in Int
      /\ NewSpend(o) \in Int
      /\ earned \in Int
  BY RequestTyped, EarnedTyped DEF CallInv, TypeOK, Final, NewSpend
<1>2. /\ stock' \in [StockKeys -> Int]
      /\ points' \in [Buyers -> Int]
      /\ spend' \in [Buyers -> Int]
  BY <1>1 DEF Commit, View, CallInv, TypeOK
<1>3. grade' \in [Buyers -> Grades \union {NoGrade}]
  BY <1>1, NewGradeTyped DEF Commit, CallInv, TypeOK
<1>4. notices' \subseteq Notice /\ taken' \in [Orders -> [StockKeys -> Nat]]
  BY DEF Commit, CallInv, TypeOK, Nothing
<1>5. /\ pc' \in [Orders -> {"idle", "check"} \union InTx \union Answered]
      /\ CallsWellFormed'
  BY GotoCallInv DEF Commit, Running, InTx, Answered
<1>. QED
  BY <1>2, <1>3, <1>4, <1>5 DEF Commit, CallInv, TypeOK

LEMMA UndoCallInv ==
    ASSUME CallInv, NEW o \in Orders, Undo(o)
    PROVE  CallInv'
<1>1. /\ pc' \in [Orders -> {"idle", "check"} \union InTx \union Answered]
      /\ CallsWellFormed'
  BY GotoCallInv DEF Undo, Running, Answered
<1>2. taken' \in [Orders -> [StockKeys -> Nat]]
  BY DEF Undo, CallInv, TypeOK, Nothing
<1>. QED
  BY <1>1, <1>2 DEF Undo, CallInv, TypeOK, database

\* Every step keeps calls well formed and every variable in its type.
LEMMA NextCallInv == CallInv /\ [Next]_vars => CallInv'
<1>. SUFFICES ASSUME CallInv, [Next]_vars PROVE CallInv'
  OBVIOUS
<1>1. CASE UNCHANGED vars
  BY <1>1 DEF CallInv, TypeOK, CallsWellFormed, vars, database, calls
<1>2. ASSUME NEW o \in Orders, Submit(o) PROVE CallInv'
  BY <1>2, SubmitCallInv
<1>3. ASSUME NEW o \in Orders, Step(o) PROVE CallInv'
  BY <1>3, CheckCallInv, TakeStockCallInv, QueueSoldOutCallInv,
     UserStepsCallInv, CommitCallInv DEF Step
<1>4. ASSUME NEW o \in Orders, Rollback(o) \/ AbortDeadlocked(o) PROVE CallInv'
  BY <1>4, UndoCallInv DEF Rollback, AbortDeadlocked
<1>. QED
  BY <1>1, <1>2, <1>3, <1>4 DEF Next, Finished

\* Type correctness: whatever the catalogue, the requests and the interleaving,
\* every variable of the order transaction keeps its type.
THEOREM TypeCorrect == Spec => []TypeOK
<1>1. Spec => []CallInv
  BY InitCallInv, NextCallInv, PTL DEF Spec
<1>2. CallInv => TypeOK
  BY DEF CallInv
<1>. QED
  BY <1>1, <1>2, PTL

-----------------------------------------------------------------------------
LEMMA InitLocks == Init => LocksHold
  BY DEF Init, LocksHold, RowLocks, TakenInTx, UserLocks, SeenFresh,
         NoticesQueued, HoldsUser, Nothing

\* Before its transaction a call holds no row, so moving it changes no lock.
LEMMA OutsideLocks ==
    ASSUME CallInv, LocksHold, NEW o \in Orders,
           Submit(o) \/ RefuseShort(o) \/ CheckItem(o)
    PROVE  LocksHold'
<1>1. /\ pc[o] \in {"idle", "check"}
      /\ UNCHANGED <<database, request, taken, queued, seen>>
      /\ \A u \in Orders \ {o} : at'[u] = at[u]
  BY DEF Submit, RefuseShort, CheckItem, CallInv, TypeOK
<1>2. PICK place \in {"check", "take", "rejected"} :
          pc' = [pc EXCEPT ![o] = place]
  <2>1. CASE Submit(o)
    BY <2>1 DEF Submit, Goto
  <2>2. CASE RefuseShort(o)
    BY <2>2 DEF RefuseShort, Goto
  <2>3. CASE CheckItem(o) /\ LastItem(o)
    BY <2>3 DEF CheckItem, Goto
  <2>4. CASE CheckItem(o) /\ ~LastItem(o)
    BY <2>4 DEF CheckItem, CallInv, TypeOK
  <2>. QED
    BY <2>1, <2>2, <2>3, <2>4
<1>3. /\ pc \in [Orders -> {"idle", "check"} \union InTx \union Answered]
      /\ taken \in [Orders -> [StockKeys -> Nat]]
  BY DEF CallInv, TypeOK
<1>4. pc[o] \notin InTx
  BY <1>1 DEF InTx
<1>5. \A k \in StockKeys : taken[o][k] = 0
  BY <1>3, <1>4 DEF LocksHold, TakenInTx
<1>6. RowLocks' /\ TakenInTx'
  BY <1>1, <1>2, <1>3, <1>5 DEF LocksHold, RowLocks, TakenInTx
<1>7. UserLocks'
  BY <1>1, <1>2, <1>3 DEF LocksHold, UserLocks, HoldsUser, PaysWithPoints, Buyer
<1>8. SeenFresh'
  BY <1>1, <1>2, <1>3 DEF LocksHold, SeenFresh, PaysWithPoints, Buyer, database
<1>9. NoticesQueued'
  BY <1>1, <1>2, <1>3, <1>5 DEF LocksHold, NoticesQueued, View, Item, database
<1>. QED
  BY <1>6, <1>7, <1>8, <1>9 DEF LocksHold

\* A place inside the transaction to which a step of the item loop goes.
LEMMA AdvancePlace ==
    ASSUME CallInv, NEW o \in Orders, Advance(o)
    PROVE  /\ \E place \in {"take", "debit", "read"} :
                  /\ pc' = [pc EXCEPT ![o] = place]
                  /\ place = "read" => ~PaysWithPoints(o)
           /\ \A u \in Orders \ {o} : at'[u] = at[u]
<1>1. at \in [Orders -> Nat]
  BY DEF CallInv, TypeOK
<1>2. CASE LastItem(o)
  BY <1>1, <1>2 DEF Advance, Goto
<1>3. CASE ~LastItem(o)
  BY <1>1, <1>3 DEF Advance, Goto
<1>. QED
  BY <1>2, <1>3

\* The decrement takes a row nobody else has; a row it empties sends the call to
\* the branch that announces it.
LEMMA TakeStockLocks ==
    ASSUME CallInv, LocksHold, NEW o \in Orders, TakeStock(o)
    PROVE  LocksHold'
<1>. DEFINE k == Item(o).key
            n == Item(o).quantity
<1>1. k \in StockKeys /\ n \in Nat
  <2>0. pc[o] \in Running
    <3>1. pc[o] = "take"
      BY DEF TakeStock
    <3>. QED
      BY <3>1 DEF Running, InTx
  <2>1. k \in StockKeys /\ n \in 1..MaxQuantity
    BY <2>0, ItemType
  <2>. QED
    BY <2>1, QuantityNat
<1>2. /\ pc \in [Orders -> {"idle", "check"} \union InTx \union Answered]
      /\ taken \in [Orders -> [StockKeys -> Nat]]
      /\ stock \in [StockKeys -> Int]
      /\ at \in [Orders -> Nat]
  BY DEF CallInv, TypeOK
<1>3. /\ pc[o] = "take"
      /\ RowFree(o, k)
      /\ UNCHANGED <<database, request, total, queued, seen>>
  BY DEF TakeStock
<1>4. taken' = [taken EXCEPT ![o][k] = @ + n]
  BY DEF TakeStock
<1>5. /\ \A u \in Orders \ {o} : taken'[u] = taken[u]
      /\ \A j \in StockKeys \ {k} : taken'[o][j] = taken[o][j]
      /\ taken'[o][k] = taken[o][k] + n
  BY <1>1, <1>2, <1>4
<1>6. PICK place \in {"soldout", "take", "debit", "read"} :
          /\ pc' = [pc EXCEPT ![o] = place]
          /\ place = "read" => ~PaysWithPoints(o)
          /\ stock[k] - taken[o][k] - n <= 0 => place = "soldout" /\ at' = at
  <2>1. CASE View(o, k) - n <= 0
    BY <2>1 DEF TakeStock, Goto
  <2>2. CASE ~(View(o, k) - n <= 0)
    <3>1. Advance(o)
      BY <2>2 DEF TakeStock
    <3>. QED
      BY <2>2, <3>1, AdvancePlace DEF View
  <2>. QED
    BY <2>1, <2>2
<1>7. \A u \in Orders \ {o} : at'[u] = at[u]
  <2>1. CASE View(o, k) - n <= 0
    BY <2>1 DEF TakeStock
  <2>2. CASE ~(View(o, k) - n <= 0)
    BY <2>2, AdvancePlace DEF TakeStock
  <2>. QED
    BY <2>1, <2>2
<1>8. RowLocks'
  <2>. SUFFICES ASSUME NEW u \in Orders, NEW v \in Orders, NEW j \in StockKeys,
                       u # v, taken'[u][j] > 0
                PROVE  taken'[v][j] = 0
    BY DEF RowLocks
  <2>1. CASE j = k
    <3>1. \A w \in Orders \ {o} : taken'[w][k] = 0
      BY <1>3, <1>5 DEF RowFree
    <3>2. u = o
      BY <2>1, <3>1
    <3>. QED
      BY <2>1, <3>1, <3>2
  <2>2. CASE j # k
    <3>1. taken'[u][j] = taken[u][j] /\ taken'[v][j] = taken[v][j]
      BY <2>2, <1>5
    <3>. QED
      BY <3>1 DEF LocksHold, RowLocks
  <2>. QED
    BY <2>1, <2>2
<1>9. TakenInTx'
  BY <1>2, <1>5, <1>6 DEF LocksHold, TakenInTx, InTx
<1>10. UserLocks'
  BY <1>2, <1>3, <1>6
     DEF LocksHold, UserLocks, HoldsUser, PaysWithPoints, Buyer
<1>11. SeenFresh'
  BY <1>2, <1>3, <1>6
     DEF LocksHold, SeenFresh, PaysWithPoints, Buyer, database
<1>12. NoticesQueued'
  <2>0. UNCHANGED <<stock, queued, request>>
    BY <1>3 DEF database
  <2>. SUFFICES ASSUME NEW u \in Orders, NEW j \in StockKeys,
                       taken'[u][j] > 0, stock[j] - taken'[u][j] <= 0
                PROVE  \/ SizeNotices(j) \subseteq queued[u]
                       \/ pc'[u] = "soldout" /\ request[u].items[at'[u]].key = j
    BY <2>0 DEF NoticesQueued, View, Item
  <2>1. CASE u # o
    <3>1. /\ taken'[u] = taken[u]
          /\ pc'[u] = pc[u]
          /\ at'[u] = at[u]
      <4>1. taken'[u] = taken[u] /\ at'[u] = at[u]
        BY <2>1, <1>5, <1>7
      <4>2. pc'[u] = pc[u]
        BY <2>1, <1>2, <1>6
      <4>. QED
        BY <4>1, <4>2
    <3>2. taken[u][j] > 0 /\ stock[j] - taken[u][j] <= 0
      BY <3>1
    <3>. QED
      BY <3>1, <3>2 DEF LocksHold, NoticesQueued, View, Item
  <2>2. CASE u = o /\ j = k
    <3>1. taken[o][k] \in Nat /\ stock[k] \in Int /\ taken'[o][k] = taken[o][k] + n
      BY <1>1, <1>2, <1>5
    <3>2. stock[k] - taken[o][k] - n <= 0
      BY <2>2, <3>1, <1>1
    <3>3. pc' = [pc EXCEPT ![o] = "soldout"] /\ at' = at
      BY <3>2, <1>6
    <3>4. pc'[o] = "soldout"
      BY <3>3, <1>2
    <3>. QED
      BY <2>2, <3>3, <3>4 DEF Item
  <2>3. CASE u = o /\ j # k
    <3>1. taken'[o][j] = taken[o][j]
      BY <2>3, <1>5
    <3>2. \/ SizeNotices(j) \subseteq queued[o]
          \/ pc[o] = "soldout" /\ Item(o).key = j
      BY <2>3, <3>1 DEF LocksHold, NoticesQueued, View
    <3>. QED
      BY <2>3, <3>2, <1>3
  <2>. QED
    BY <2>1, <2>2, <2>3
<1>. QED
  BY <1>8, <1>9, <1>10, <1>11, <1>12 DEF LocksHold

\* The notices of the emptied row are queued before the loop goes on.
LEMMA QueueSoldOutLocks ==
    ASSUME CallInv, LocksHold, NEW o \in Orders, QueueSoldOut(o)
    PROVE  LocksHold'
<1>1. /\ pc \in [Orders -> {"idle", "check"} \union InTx \union Answered]
      /\ taken \in [Orders -> [StockKeys -> Nat]]
      /\ queued \in [Orders -> SUBSET Notice]
  BY DEF CallInv, TypeOK
<1>2. /\ pc[o] = "soldout"
      /\ Advance(o)
      /\ UNCHANGED <<stock, spend, grade, request, taken, seen>>
  BY DEF QueueSoldOut, database
<1>3. PICK place \in {"take", "debit", "read"} :
          /\ pc' = [pc EXCEPT ![o] = place]
          /\ place = "read" => ~PaysWithPoints(o)
  BY <1>2, AdvancePlace
<1>4. \A u \in Orders \ {o} : at'[u] = at[u] /\ queued'[u] = queued[u]
  BY <1>1, <1>2, AdvancePlace DEF QueueSoldOut
<1>5. queued[o] \union SizeNotices(Item(o).key) \subseteq queued'[o]
  BY <1>1 DEF QueueSoldOut
<1>6. RowLocks' /\ TakenInTx'
  BY <1>1, <1>2, <1>3 DEF LocksHold, RowLocks, TakenInTx, InTx
<1>7. UserLocks'
  BY <1>1, <1>2, <1>3
     DEF LocksHold, UserLocks, HoldsUser, PaysWithPoints, Buyer
<1>8. SeenFresh'
  BY <1>1, <1>2, <1>3 DEF LocksHold, SeenFresh, PaysWithPoints, Buyer
<1>9. NoticesQueued'
  <2>. SUFFICES ASSUME NEW u \in Orders, NEW j \in StockKeys,
                       taken[u][j] > 0, View(u, j) <= 0
                PROVE  \/ SizeNotices(j) \subseteq queued'[u]
                       \/ /\ pc'[u] = "soldout"
                          /\ request[u].items[at'[u]].key = j
    BY <1>2 DEF NoticesQueued, View, Item
  <2>1. \/ SizeNotices(j) \subseteq queued[u]
        \/ pc[u] = "soldout" /\ Item(u).key = j
    BY DEF LocksHold, NoticesQueued
  <2>2. CASE u = o
    BY <2>1, <2>2, <1>5
  <2>3. CASE u # o
    BY <2>1, <2>3, <1>1, <1>3, <1>4 DEF Item
  <2>. QED
    BY <2>2, <2>3
<1>. QED
  BY <1>6, <1>7, <1>8, <1>9 DEF LocksHold

\* The two statements on the buyer's row wait for it; the plain read between
\* them is of a row the order holds if it uses points.
LEMMA UserStepsLocks ==
    ASSUME CallInv, LocksHold, NEW o \in Orders,
           DebitPoints(o) \/ ReadUser(o) \/ CreditUser(o)
    PROVE  LocksHold'
<1>1. /\ pc \in [Orders -> {"idle", "check"} \union InTx \union Answered]
      /\ seen \in [Orders -> [spend : Int, grade : Grades \union {NoGrade}]]
  BY DEF CallInv, TypeOK
<1>2. /\ pc[o] \in {"debit", "read", "credit"}
      /\ UNCHANGED <<database, request, at, taken, queued>>
  BY DEF DebitPoints, ReadUser, CreditUser
<1>3. PICK place \in {"read", "credit", "commit"} :
          /\ pc' = [pc EXCEPT ![o] = place]
          /\ place # "credit" => UserFree(o) /\ seen' = seen
          /\ place = "credit" =>
                /\ pc[o] = "read"
                /\ seen'[o] = [spend |-> spend[Buyer(o)],
                               grade |-> grade[Buyer(o)]]
          /\ place = "read" => pc[o] = "debit"
          /\ place = "commit" => pc[o] = "credit"
  <2>1. CASE DebitPoints(o)
    BY <2>1 DEF DebitPoints, Goto
  <2>2. CASE ReadUser(o)
    BY <1>1, <2>2 DEF ReadUser, Goto
  <2>3. CASE CreditUser(o)
    BY <2>3 DEF CreditUser, Goto
  <2>. QED
    BY <2>1, <2>2, <2>3
<1>4. \A u \in Orders \ {o} : seen'[u] = seen[u]
  BY <1>1 DEF DebitPoints, ReadUser, CreditUser
<1>5. RowLocks' /\ TakenInTx'
  BY <1>1, <1>2, <1>3 DEF LocksHold, RowLocks, TakenInTx, InTx
<1>6. UserLocks'
  <2>1. \A u \in Orders \ {o} : HoldsUser(u)' <=> HoldsUser(u)
    BY <1>1, <1>2, <1>3 DEF HoldsUser, PaysWithPoints
  <2>2. HoldsUser(o)' => HoldsUser(o) \/ UserFree(o)
    BY <1>1, <1>2, <1>3 DEF HoldsUser, PaysWithPoints
  <2>. QED
    BY <1>2, <2>1, <2>2 DEF LocksHold, UserLocks, UserFree, Buyer
<1>7. SeenFresh'
  BY <1>1, <1>2, <1>3, <1>4
     DEF LocksHold, SeenFresh, PaysWithPoints, Buyer, database
<1>8. NoticesQueued'
  BY <1>1, <1>2, <1>3 DEF LocksHold, NoticesQueued, View, Item, database
<1>. QED
  BY <1>5, <1>6, <1>7, <1>8 DEF LocksHold

\* A commit changes stock rows only it had taken from and the one user row it
\* holds, so what the other transactions know stays true.
LEMMA CommitLocks ==
    ASSUME CallInv, LocksHold, NEW o \in Orders, Commit(o)
    PROVE  LocksHold'
<1>1. /\ pc \in [Orders -> {"idle", "check"} \union InTx \union Answered]
      /\ taken \in [Orders -> [StockKeys -> Nat]]
      /\ stock \in [StockKeys -> Int]
      /\ spend \in [Buyers -> Int]
      /\ grade \in [Buyers -> Grades \union {NoGrade}]
  BY DEF CallInv, TypeOK
<1>2. /\ pc[o] = "commit"
      /\ pc' = [pc EXCEPT ![o] = "placed"]
      /\ taken' = [taken EXCEPT ![o] = Nothing]
      /\ stock' = [k \in StockKeys |-> stock[k] - taken[o][k]]
      /\ UNCHANGED <<request, at, queued, seen>>
  BY DEF Commit, Goto, View
<1>3. \A c \in Buyers \ {Buyer(o)} : spend'[c] = spend[c] /\ grade'[c] = grade[c]
  BY <1>1 DEF Commit
<1>4. RowLocks' /\ TakenInTx'
  BY <1>1, <1>2 DEF LocksHold, RowLocks, TakenInTx, InTx, Nothing
<1>5. UserLocks'
  BY <1>1, <1>2 DEF LocksHold, UserLocks, HoldsUser, PaysWithPoints, Buyer
<1>6. SeenFresh'
  <2>. SUFFICES ASSUME NEW u \in Orders, pc'[u] \in {"credit", "commit"},
                       PaysWithPoints(u)
                PROVE  seen[u] = [spend |-> spend'[Buyer(u)],
                                  grade |-> grade'[Buyer(u)]]
    BY <1>2 DEF SeenFresh, PaysWithPoints, Buyer
  <2>1. u # o /\ pc[u] \in {"credit", "commit"}
    BY <1>1, <1>2
  <2>2. HoldsUser(o) /\ HoldsUser(u)
    BY <1>2, <2>1 DEF HoldsUser
  <2>3. Buyer(u) # Buyer(o)
    BY <2>1, <2>2 DEF LocksHold, UserLocks
  <2>4. Buyer(u) \in Buyers
    BY RequestTyped DEF CallInv
  <2>5. seen[u] = [spend |-> spend[Buyer(u)], grade |-> grade[Buyer(u)]]
    BY <2>1 DEF LocksHold, SeenFresh
  <2>. QED
    BY <1>3, <2>3, <2>4, <2>5
<1>7. NoticesQueued'
  <2>. SUFFICES ASSUME NEW u \in Orders, NEW k \in StockKeys,
                       taken'[u][k] > 0, stock'[k] - taken'[u][k] <= 0
                PROVE  \/ SizeNotices(k) \subseteq queued[u]
                       \/ pc'[u] = "soldout" /\ Item(u).key = k
    BY <1>2 DEF NoticesQueued, View, Item
  <2>1. u # o /\ taken'[u] = taken[u]
    BY <1>1, <1>2 DEF Nothing
  <2>2. taken[o][k] = 0
    BY <1>1, <2>1 DEF LocksHold, RowLocks
  <2>3. View(u, k) <= 0
    BY <1>1, <1>2, <2>1, <2>2 DEF View
  <2>4. pc'[u] = pc[u]
    BY <1>1, <1>2, <2>1
  <2>. QED
    BY <2>1, <2>3, <2>4 DEF LocksHold, NoticesQueued
<1>. QED
  BY <1>4, <1>5, <1>6, <1>7 DEF LocksHold

\* A rollback gives every row back as it was.
LEMMA UndoLocks ==
    ASSUME CallInv, LocksHold, NEW o \in Orders, Undo(o)
    PROVE  LocksHold'
<1>1. /\ pc \in [Orders -> {"idle", "check"} \union InTx \union Answered]
      /\ taken \in [Orders -> [StockKeys -> Nat]]
      /\ queued \in [Orders -> SUBSET Notice]
  BY DEF CallInv, TypeOK
<1>2. /\ pc' = [pc EXCEPT ![o] = "failed"]
      /\ taken' = [taken EXCEPT ![o] = Nothing]
      /\ \A u \in Orders \ {o} : queued'[u] = queued[u]
      /\ UNCHANGED <<database, request, at, seen>>
  BY <1>1 DEF Undo, Goto
<1>3. RowLocks' /\ TakenInTx'
  BY <1>1, <1>2 DEF LocksHold, RowLocks, TakenInTx, InTx, Nothing
<1>4. UserLocks'
  BY <1>1, <1>2 DEF LocksHold, UserLocks, HoldsUser, PaysWithPoints, Buyer
<1>5. SeenFresh'
  BY <1>1, <1>2 DEF LocksHold, SeenFresh, PaysWithPoints, Buyer, database
<1>6. NoticesQueued'
  BY <1>1, <1>2
     DEF LocksHold, NoticesQueued, View, Item, database, Nothing
<1>. QED
  BY <1>3, <1>4, <1>5, <1>6 DEF LocksHold

\* Every step keeps what the row locks give.
LEMMA NextLocks == CallInv /\ LocksHold /\ [Next]_vars => LocksHold'
<1>. SUFFICES ASSUME CallInv, LocksHold, [Next]_vars PROVE LocksHold'
  OBVIOUS
<1>1. CASE UNCHANGED vars
  BY <1>1 DEF LocksHold, RowLocks, TakenInTx, UserLocks, SeenFresh,
              NoticesQueued, HoldsUser, PaysWithPoints, Buyer, View, Item,
              vars, database, calls
<1>2. ASSUME NEW o \in Orders, Submit(o) PROVE LocksHold'
  BY <1>2, OutsideLocks
<1>3. ASSUME NEW o \in Orders, Step(o) PROVE LocksHold'
  BY <1>3, OutsideLocks, TakeStockLocks, QueueSoldOutLocks, UserStepsLocks,
     CommitLocks DEF Step
<1>4. ASSUME NEW o \in Orders, Rollback(o) \/ AbortDeadlocked(o)
      PROVE  LocksHold'
  BY <1>4, UndoLocks DEF Rollback, AbortDeadlocked
<1>. QED
  BY <1>1, <1>2, <1>3, <1>4 DEF Next, Finished

\* The row locks of the order transaction: one writer per stock row and per
\* user row, the row an order with points has read still as it was read, and
\* the notices of every row it has emptied in its queue.
THEOREM RowsAreLocked == Spec => []LocksHold
<1>1. Spec => []CallInv
  BY InitCallInv, NextCallInv, PTL DEF Spec
<1>2. Init /\ [][Next]_vars /\ []CallInv => []LocksHold
  BY InitLocks, NextLocks, PTL
<1>. QED
  BY <1>1, <1>2, PTL DEF Spec

-----------------------------------------------------------------------------
\* Only a commit changes what other requests can read or places an order.
LEMMA OnlyCommitWrites ==
    ASSUME CallInv, [Next]_vars, \A o \in Orders : ~Commit(o)
    PROVE  /\ UNCHANGED <<database, request>>
           /\ \A u \in Orders : pc'[u] = "placed" <=> pc[u] = "placed"
<1>. DEFINE Quiet == /\ UNCHANGED <<database, request>>
                    /\ \A u \in Orders : pc'[u] = "placed" <=> pc[u] = "placed"
<1>1. pc \in [Orders -> {"idle", "check"} \union InTx \union Answered]
  BY DEF CallInv, TypeOK
<1>2. CASE UNCHANGED vars
  BY <1>2 DEF vars, database, calls
<1>3. ASSUME NEW o \in Orders, Advance(o)
      PROVE  pc[o] # "placed" =>
                 \A u \in Orders : pc'[u] = "placed" <=> pc[u] = "placed"
  BY <1>1, <1>3, AdvancePlace
<1>4. ASSUME NEW o \in Orders,
             Submit(o) \/ RefuseShort(o) \/ DebitPoints(o) \/ ReadUser(o)
                 \/ CreditUser(o) \/ Undo(o)
      PROVE  Quiet
  <2>1. PICK place \in {"check", "rejected", "read", "credit", "commit", "failed"} :
            pc' = [pc EXCEPT ![o] = place]
    <3>1. CASE Submit(o)
      BY <3>1 DEF Submit, Goto
    <3>2. CASE ~Submit(o)
      BY <1>4, <3>2
         DEF RefuseShort, DebitPoints, ReadUser, CreditUser, Undo, Goto
    <3>. QED
      BY <3>1, <3>2
  <2>2. pc[o] # "placed"
    BY <1>4 DEF Submit, RefuseShort, DebitPoints, ReadUser, CreditUser, Undo, InTx
  <2>3. UNCHANGED <<database, request>>
    BY <1>4 DEF Submit, RefuseShort, DebitPoints, ReadUser, CreditUser, Undo
  <2>. QED
    BY <1>1, <2>1, <2>2, <2>3
<1>5. ASSUME NEW o \in Orders, CheckItem(o) PROVE Quiet
  <2>1. PICK place \in {"check", "take", "rejected"} :
            pc' = [pc EXCEPT ![o] = place]
    <3>1. CASE LastItem(o)
      BY <1>5, <3>1 DEF CheckItem, Goto
    <3>2. CASE ~LastItem(o)
      BY <1>1, <1>5, <3>2 DEF CheckItem
    <3>. QED
      BY <3>1, <3>2
  <2>. QED
    BY <1>1, <1>5, <2>1 DEF CheckItem
<1>6. ASSUME NEW o \in Orders, TakeStock(o) PROVE Quiet
  <2>1. Goto(o, "soldout") \/ Advance(o)
    BY <1>6 DEF TakeStock
  <2>2. pc[o] = "take" /\ UNCHANGED <<database, request>>
    BY <1>6 DEF TakeStock
  <2>. QED
    BY <1>1, <1>3, <2>1, <2>2 DEF Goto
<1>7. ASSUME NEW o \in Orders, QueueSoldOut(o) PROVE Quiet
  <2>1. Advance(o) /\ pc[o] = "soldout" /\ UNCHANGED <<database, request>>
    BY <1>7 DEF QueueSoldOut
  <2>. QED
    BY <1>3, <2>1
<1>. QED
  BY <1>2, <1>4, <1>5, <1>6, <1>7
     DEF Next, Step, Rollback, AbortDeadlocked, Finished

\* The rows a commit announces are the ones it emptied.
LEMMA NextSoldOut ==
    CallInv /\ LocksHold /\ SoldOutAnnounced /\ [Next]_vars => SoldOutAnnounced'
<1>. SUFFICES ASSUME CallInv, LocksHold, SoldOutAnnounced, [Next]_vars
              PROVE  SoldOutAnnounced'
  OBVIOUS
<1>1. CASE \A o \in Orders : ~Commit(o)
  BY <1>1, OnlyCommitWrites DEF SoldOutAnnounced, database
<1>2. ASSUME NEW o \in Orders, Commit(o) PROVE SoldOutAnnounced'
  <2>. SUFFICES ASSUME NEW k \in StockKeys, InitStock[k] > 0, stock'[k] <= 0
                PROVE  SizeNotices(k) \subseteq notices'
    BY DEF SoldOutAnnounced
  <2>1. /\ stock'[k] = stock[k] - taken[o][k]
        /\ notices' = notices \union queued[o]
        /\ pc[o] = "commit"
    BY <1>2 DEF Commit, View
  <2>2. stock[k] \in Int /\ taken[o][k] \in Nat
    BY DEF CallInv, TypeOK
  <2>3. CASE stock[k] <= 0
    BY <2>1, <2>3 DEF SoldOutAnnounced
  <2>4. CASE stock[k] > 0
    <3>1. taken[o][k] > 0 /\ View(o, k) <= 0
      BY <2>1, <2>2, <2>4 DEF View
    <3>2. SizeNotices(k) \subseteq queued[o]
      BY <2>1, <3>1 DEF LocksHold, NoticesQueued
    <3>. QED
      BY <2>1, <3>2
  <2>. QED
    BY <2>2, <2>3, <2>4
<1>. QED
  BY <1>1, <1>2

\* A size that had stock and has none is announced to the seller and to every
\* buyer with it in the cart, whichever orders emptied it together.
THEOREM SoldOutIsAnnounced == Spec => []SoldOutAnnounced
<1>1. Init => SoldOutAnnounced
  BY OrderingAssumption DEF Init, SoldOutAnnounced
<1>2. Spec => []CallInv
  BY InitCallInv, NextCallInv, PTL DEF Spec
<1>3. Init /\ [][Next]_vars /\ []CallInv /\ []LocksHold => []SoldOutAnnounced
  BY <1>1, NextSoldOut, PTL
<1>. QED
  BY <1>2, <1>3, RowsAreLocked, PTL DEF Spec

\* The step that places an order is its commit.
LEMMA PlacedByCommit ==
    ASSUME CallInv, [Next]_vars, NEW o \in Orders,
           pc[o] # "placed", pc'[o] = "placed"
    PROVE  Commit(o)
<1>1. PICK u \in Orders : Commit(u)
  BY OnlyCommitWrites
<1>2. pc' = [pc EXCEPT ![u] = "placed"]
  BY <1>1 DEF Commit, Goto
<1>3. u = o
  BY <1>2 DEF CallInv, TypeOK
<1>. QED
  BY <1>1, <1>3

\* What was read under the lock is what is there at the commit.
LEMMA SpendStep ==
    CallInv /\ LocksHold /\ [Next]_vars =>
        [\A o \in Orders :
            pc[o] = "commit" /\ pc'[o] = "placed" /\ PaysWithPoints(o)
                => spend'[Buyer(o)] = spend[Buyer(o)] + Final(o)]_vars
<1>. SUFFICES ASSUME CallInv, LocksHold, [Next]_vars, NEW o \in Orders,
                     pc[o] = "commit", pc'[o] = "placed", PaysWithPoints(o)
              PROVE  spend'[Buyer(o)] = spend[Buyer(o)] + Final(o)
  OBVIOUS
<1>1. Commit(o)
  BY PlacedByCommit
<1>2. spend'[Buyer(o)] = seen[o].spend + Final(o)
  BY <1>1, RequestTyped DEF Commit, NewSpend, CallInv, TypeOK
<1>3. seen[o] = [spend |-> spend[Buyer(o)], grade |-> grade[Buyer(o)]]
  BY DEF LocksHold, SeenFresh
<1>4. seen[o].spend = spend[Buyer(o)]
  BY <1>3
<1>. QED
  BY <1>2, <1>4

\* The price of an order that uses points is added to the lifetime spend its
\* buyer has when it commits: no other order of the buyer is overwritten.
THEOREM PointOrdersAddSpend == Spec => SpendAdds
<1>1. Spec => []CallInv
  BY InitCallInv, NextCallInv, PTL DEF Spec
<1>2. [][Next]_vars /\ []CallInv /\ []LocksHold => SpendAdds
  BY SpendStep, PTL DEF SpendAdds
<1>. QED
  BY <1>1, <1>2, RowsAreLocked, PTL DEF Spec

\* The grade written, or left, by an order that uses points is the one the new
\* lifetime spend is worth; other orders leave it alone or free the claim.
LEMMA NextGrade ==
    CallInv /\ LocksHold /\ GradeCurrent /\ [Next]_vars => GradeCurrent'
<1>. SUFFICES ASSUME CallInv, LocksHold, GradeCurrent, [Next]_vars
              PROVE  GradeCurrent'
  OBVIOUS
<1>1. CASE \A o \in Orders : ~Commit(o)
  BY <1>1, OnlyCommitWrites
     DEF GradeCurrent, GradeMatches, Placed, PaysWithPoints, Buyer, database
<1>2. ASSUME NEW o \in Orders, Commit(o) PROVE GradeCurrent'
  <2>1. /\ pc \in [Orders -> {"idle", "check"} \union InTx \union Answered]
        /\ spend \in [Buyers -> Int]
        /\ grade \in [Buyers -> Grades \union {NoGrade}]
        /\ Buyer(o) \in Buyers
    BY RequestTyped DEF CallInv, TypeOK
  <2>2. /\ pc[o] = "commit"
        /\ pc' = [pc EXCEPT ![o] = "placed"]
        /\ spend' = [spend EXCEPT ![Buyer(o)] = NewSpend(o)]
        /\ grade' = [grade EXCEPT ![Buyer(o)] = NewGrade(o)]
        /\ UNCHANGED request
    BY <1>2 DEF Commit, Goto
  <2>. SUFFICES ASSUME NEW b \in Buyers, Placed(b)' # {},
                       \A u \in Placed(b)' : PaysWithPoints(u)',
                       Eligible(spend'[b]) # {}
                PROVE  grade'[b] = BestGrade(spend'[b])
    BY DEF GradeCurrent, GradeMatches
  <2>3. CASE b = Buyer(o)
    <3>1. o \in Placed(b)'
      BY <2>1, <2>2, <2>3 DEF Placed, Buyer
    <3>2. PaysWithPoints(o)
      BY <2>2, <3>1 DEF PaysWithPoints
    <3>3. seen[o] = [spend |-> spend[b], grade |-> grade[b]]
      BY <2>2, <2>3, <3>2 DEF LocksHold, SeenFresh
    <3>4. seen[o].grade = grade[b]
      BY <3>3
    <3>5. spend'[b] = NewSpend(o) /\ grade'[b] = NewGrade(o)
      BY <2>1, <2>2, <2>3
    <3>. QED
      BY <2>3, <3>4, <3>5, Zenon DEF NewGrade
  <2>4. CASE b # Buyer(o)
    <3>1. Placed(b)' = Placed(b)
      BY <2>1, <2>2, <2>4 DEF Placed, Buyer
    <3>2. spend'[b] = spend[b] /\ grade'[b] = grade[b]
      BY <2>1, <2>2, <2>4
    <3>3. \A u \in Placed(b) : PaysWithPoints(u)
      BY <2>2, <3>1 DEF PaysWithPoints
    <3>. QED
      BY <3>1, <3>2, <3>3 DEF GradeCurrent, GradeMatches
  <2>. QED
    BY <2>3, <2>4
<1>. QED
  BY <1>1, <1>2

\* A buyer whose orders all use points has the grade the spend is worth.
THEOREM PointBuyersGradeCurrent == Spec => []GradeCurrent
<1>1. Init => GradeCurrent
  BY DEF Init, GradeCurrent, Placed
<1>2. Spec => []CallInv
  BY InitCallInv, NextCallInv, PTL DEF Spec
<1>3. Init /\ [][Next]_vars /\ []CallInv /\ []LocksHold => []GradeCurrent
  BY <1>1, NextGrade, PTL
<1>. QED
  BY <1>2, <1>3, RowsAreLocked, PTL DEF Spec

-----------------------------------------------------------------------------
\* The items whose price is in the total, before the transaction, and whose
\* quantity has been taken, inside it.
Passed(o) ==
    CASE pc[o] = "soldout" -> 1..at[o]
      [] pc[o] \in {"check", "take"} -> 1..(at[o] - 1)
      [] OTHER -> DOMAIN request[o].items

\* What a call has computed and taken is the sum over the items it has passed,
\* and from the transaction on its points are within its price.
Summed(o) ==
    LET r == request[o] IN
    /\ pc[o] = "idle" => total[o] = 0
    /\ pc[o] = "check" => total[o] = SumFunctionOnSet(Prices(r), Passed(o))
    /\ pc[o] \in InTx \union {"placed"} =>
          total[o] = TotalPrice(r) /\ PointsUsable(r.usePoint, total[o])
    /\ pc[o] \in InTx =>
          \A k \in StockKeys :
              taken[o][k] = SumFunctionOnSet(Quantities(r, k), Passed(o))

ItemsSummed == \A o \in Orders : Summed(o)

\* A well-formed request lists finitely many items, each with a price and a
\* quantity that is a natural number.
LEMMA ItemsTyped ==
    ASSUME NEW r \in RequestType, WellFormed(r), NEW k \in StockKeys
    PROVE  /\ DOMAIN r.items = 1..Len(r.items) /\ Len(r.items) \in Nat
           /\ DOMAIN Prices(r) = DOMAIN r.items
           /\ DOMAIN Quantities(r, k) = DOMAIN r.items
           /\ \A i \in DOMAIN r.items :
                  /\ Prices(r)[i] = ItemPrice(r.items[i])
                  /\ Prices(r)[i] \in Nat
                  /\ Quantities(r, k)[i] \in Nat
<1>1. r.items \in Seq(OrderItem)
  BY DEF RequestType
<1>2. DOMAIN r.items = 1..Len(r.items) /\ Len(r.items) \in Nat
  BY <1>1
<1>3. ASSUME NEW i \in DOMAIN r.items
      PROVE  Prices(r)[i] \in Nat /\ Quantities(r, k)[i] \in Nat
  <2>1. r.items[i] \in OrderItem
    BY <1>1, <1>2
  <2>2. r.items[i].quantity \in 1..MaxQuantity
    BY DEF WellFormed
  <2>3. r.items[i].quantity \in Nat
    BY <2>2, QuantityNat
  <2>4. Price[ProductOf[r.items[i].key]] \in Nat
    BY <2>1, CatalogAssumption DEF OrderItem
  <2>. DEFINE p == Price[ProductOf[r.items[i].key]]
              q == r.items[i].quantity
  <2>5. p * q \in Nat
    <3>. HIDE DEF p, q
    <3>1. \A m, n \in Nat : m * n \in Nat
      OBVIOUS
    <3>. QED
      BY <2>3, <2>4, <3>1 DEF p, q
  <2>6. Prices(r)[i] = p * q
    BY DEF Prices, ItemPrice
  <2>7. Quantities(r, k)[i] \in {0, q}
    BY DEF Quantities
  <2>. QED
    BY <2>3, <2>5, <2>6, <2>7
<1>. QED
  BY <1>2, <1>3 DEF Prices, Quantities

\* The sum up to an item is the one up to the item before and the item's own.
LEMMA SumNext ==
    ASSUME NEW f, NEW m \in Nat, NEW n \in 1..m, \A i \in 1..m : f[i] \in Nat
    PROVE  SumFunctionOnSet(f, 1..n) = f[n] + SumFunctionOnSet(f, 1..(n - 1))
<1>1. /\ 1..n = 1..(n - 1) \union {n}
      /\ n \notin 1..(n - 1)
      /\ 1..n \subseteq 1..m
  OBVIOUS
<1>2. IsFiniteSet(1..(n - 1))
  BY FS_Interval
<1>3. \A i \in 1..(n - 1) \union {n} : f[i] \in Nat
  BY <1>1
<1>4. SumFunctionOnSet(f, 1..(n - 1) \union {n}) = f[n] + SumFunctionOnSet(f, 1..(n - 1))
  BY <1>1, <1>2, <1>3, SumAdd
<1>. QED
  BY <1>1, <1>4

\* Calls that a step does not concern stay summed.
LEMMA OthersSummed ==
    ASSUME NEW u \in Orders, Summed(u), UNCHANGED request,
           pc'[u] = pc[u], at'[u] = at[u], total'[u] = total[u],
           taken'[u] = taken[u]
    PROVE  Summed(u)'
<1>1. Passed(u)' = Passed(u)
  BY DEF Passed
<1>. QED
  BY <1>1 DEF Summed

\* A call that is answered without an order has nothing to be summed.
LEMMA AnsweredSummed ==
    ASSUME NEW u \in Orders, pc'[u] \in {"rejected", "failed"}
    PROVE  Summed(u)'
  BY DEF Summed, InTx

\* No order has taken anything yet.
LEMMA InitSummed == Init => ItemsSummed
  BY DEF Init, ItemsSummed, Summed, InTx

\* A call that comes in has summed nothing and taken nothing.
LEMMA SubmitSummed ==
    ASSUME CallInv, NEW o \in Orders, Submit(o), Summed(o)
    PROVE  Summed(o)'
<1>1. /\ pc'[o] = IF WellFormed(request[o]) THEN "check" ELSE "rejected"
      /\ pc[o] = "idle" /\ at'[o] = at[o] /\ total'[o] = total[o]
      /\ UNCHANGED request
  BY DEF Submit, Goto, CallInv, TypeOK
<1>2. CASE pc'[o] = "rejected"
  BY <1>2, AnsweredSummed
<1>3. CASE pc'[o] = "check"
  <2>1. at[o] = 1 /\ total[o] = 0
    BY <1>1 DEF CallInv, CallsWellFormed, Summed
  <2>2. Passed(o)' = {}
    BY <1>1, <1>3, <2>1 DEF Passed
  <2>3. SumFunctionOnSet(Prices(request'[o]), Passed(o)') = 0
    BY <2>2, SumEmpty
  <2>. QED
    BY <1>1, <1>3, <2>1, <2>3 DEF Summed, InTx
<1>. QED
  BY <1>1, <1>2, <1>3

\* Each item that is checked adds its price; the points are looked at when all
\* have been.
LEMMA CheckSummed ==
    ASSUME CallInv, TakenInTx, NEW o \in Orders, CheckItem(o), Summed(o)
    PROVE  Summed(o)'
<1>. DEFINE r == request[o]
            n == at[o]
            newTotal == total[o] + ItemPrice(Item(o))
<1>1. /\ pc[o] = "check" /\ UNCHANGED <<request, taken>>
      /\ r \in RequestType /\ WellFormed(r)
      /\ n \in 1..Len(r.items)
      /\ total'[o] = newTotal
  BY RequestTyped DEF CheckItem, CallInv, CallsWellFormed, Running, TypeOK
<1>2. newTotal = SumFunctionOnSet(Prices(r), 1..n)
  <2>1. PICK k \in StockKeys : TRUE
    BY <1>1, ItemType DEF Running
  <2>2. /\ Len(r.items) \in Nat
        /\ \A i \in 1..Len(r.items) : Prices(r)[i] \in Nat
        /\ Prices(r)[n] = ItemPrice(Item(o))
    BY <1>1, <2>1, ItemsTyped DEF Item
  <2>3. SumFunctionOnSet(Prices(r), 1..n)
            = Prices(r)[n] + SumFunctionOnSet(Prices(r), 1..(n - 1))
    BY <1>1, <2>2, SumNext
  <2>4. Passed(o) = 1..(n - 1)
    BY <1>1 DEF Passed
  <2>5. total[o] = SumFunctionOnSet(Prices(r), 1..(n - 1))
    BY <1>1, <2>4 DEF Summed
  <2>6. total[o] \in Int /\ Prices(r)[n] \in Int
    BY <1>1, <2>2 DEF CallInv, TypeOK
  <2>. QED
    BY <2>2, <2>3, <2>5, <2>6
<1>3. CASE LastItem(o)
  <2>1. /\ pc'[o] = IF PointsUsable(r.usePoint, newTotal) THEN "take" ELSE "rejected"
        /\ at'[o] = 1
    BY <1>3 DEF CheckItem, Goto, CallInv, TypeOK
  <2>2. CASE pc'[o] = "rejected"
    BY <2>2, AnsweredSummed
  <2>3. CASE pc'[o] = "take"
    <3>1. DOMAIN Prices(r) = 1..n
      <4>1. DOMAIN Prices(r) = 1..Len(r.items)
        BY <1>1 DEF Prices, RequestType
      <4>. QED
        BY <1>3, <4>1 DEF LastItem
    <3>2. newTotal = TotalPrice(r)
      BY <1>2, <3>1 DEF TotalPrice, SumFunction
    <3>3. PointsUsable(r.usePoint, newTotal)
      BY <2>1, <2>3
    <3>4. Passed(o)' = {}
      BY <2>1, <2>3 DEF Passed
    <3>5. \A k \in StockKeys : taken[o][k] = 0
      <4>1. taken \in [Orders -> [StockKeys -> Nat]]
        BY DEF CallInv, TypeOK
      <4>2. pc[o] \notin InTx
        BY <1>1 DEF InTx
      <4>. QED
        BY <4>1, <4>2 DEF TakenInTx
    <3>6. \A k \in StockKeys :
              taken'[o][k] = SumFunctionOnSet(Quantities(request'[o], k), Passed(o)')
      BY <1>1, <3>4, <3>5, SumEmpty
    <3>. QED
      BY <1>1, <2>3, <3>2, <3>3, <3>6 DEF Summed
  <2>. QED
    BY <2>1, <2>2, <2>3
<1>4. CASE ~LastItem(o)
  <2>1. pc'[o] = "check" /\ at'[o] = n + 1
    BY <1>1, <1>4 DEF CheckItem, CallInv, TypeOK
  <2>2. Passed(o)' = 1..n
    BY <1>1, <2>1 DEF Passed
  <2>. QED
    BY <1>1, <1>2, <2>1, <2>2 DEF Summed, InTx
<1>. QED
  BY <1>3, <1>4

\* The loop goes on with everything up to the item it was at taken.
LEMMA AdvanceSummed ==
    ASSUME CallInv, NEW o \in Orders, pc[o] \in InTx, Advance(o),
           UNCHANGED <<request, total>>, Summed(o),
           \A k \in StockKeys :
               taken'[o][k] = SumFunctionOnSet(Quantities(request[o], k), 1..at[o])
    PROVE  Summed(o)'
<1>1. /\ at[o] \in 1..Len(request[o].items)
      /\ request[o].items \in Seq(OrderItem)
  BY ItemType DEF Running
<1>2. /\ pc'[o] \in InTx
      /\ Passed(o)' = 1..at[o]
  <2>1. CASE LastItem(o)
    <3>1. pc'[o] \in {"debit", "read"}
      BY <2>1 DEF Advance, Goto, CallInv, TypeOK
    <3>2. Passed(o)' = DOMAIN request[o].items
      BY <3>1 DEF Passed
    <3>. QED
      BY <1>1, <2>1, <3>1, <3>2 DEF LastItem, InTx
  <2>2. CASE ~LastItem(o)
    <3>1. pc'[o] = "take" /\ at'[o] = at[o] + 1
      BY <2>2 DEF Advance, Goto, CallInv, TypeOK
    <3>. QED
      BY <1>1, <3>1 DEF Passed, InTx
  <2>. QED
    BY <2>1, <2>2
<1>3. pc'[o] \notin {"idle", "check"}
  BY <1>2 DEF InTx
<1>. QED
  BY <1>2, <1>3 DEF Summed

\* The decrement takes what the item it is at lists, and nothing else.
LEMMA TakeStockSummed ==
    ASSUME CallInv, NEW o \in Orders, TakeStock(o), Summed(o)
    PROVE  Summed(o)'
<1>. DEFINE r == request[o]
            n == at[o]
<1>1. /\ pc[o] = "take" /\ UNCHANGED <<request, total>>
      /\ r \in RequestType /\ WellFormed(r)
      /\ n \in 1..Len(r.items)
      /\ Item(o).key \in StockKeys /\ Item(o).quantity \in 1..MaxQuantity
  BY RequestTyped, ItemType
     DEF TakeStock, CallInv, CallsWellFormed, Running, InTx
<1>2. taken' = [taken EXCEPT ![o][Item(o).key] = @ + Item(o).quantity]
  BY DEF TakeStock
<1>3. ASSUME NEW k \in StockKeys
      PROVE  taken'[o][k] = SumFunctionOnSet(Quantities(r, k), 1..n)
  <2>1. /\ Len(r.items) \in Nat
        /\ n \in DOMAIN r.items
        /\ \A i \in 1..Len(r.items) : Quantities(r, k)[i] \in Nat
    BY <1>1, ItemsTyped
  <2>2. Quantities(r, k)[n] = IF Item(o).key = k THEN Item(o).quantity ELSE 0
    BY <2>1 DEF Quantities, Item
  <2>3. SumFunctionOnSet(Quantities(r, k), 1..n)
            = Quantities(r, k)[n] + SumFunctionOnSet(Quantities(r, k), 1..(n - 1))
    BY <1>1, <2>1, SumNext
  <2>4. Passed(o) = 1..(n - 1)
    BY <1>1 DEF Passed
  <2>5. taken[o][k] = SumFunctionOnSet(Quantities(r, k), 1..(n - 1))
    BY <1>1, <2>4 DEF Summed, InTx
  <2>6. taken[o][k] \in Nat /\ taken \in [Orders -> [StockKeys -> Nat]]
    BY DEF CallInv, TypeOK
  <2>7. taken'[o][k] = IF Item(o).key = k THEN taken[o][k] + Item(o).quantity
                                          ELSE taken[o][k]
    BY <1>1, <1>2, <2>6
  <2>8. CASE Item(o).key = k
    <3>1. Item(o).quantity \in Nat
      BY <1>1, QuantityNat
    <3>. QED
      BY <2>2, <2>3, <2>5, <2>6, <2>7, <2>8, <3>1
  <2>9. CASE Item(o).key # k
    BY <2>2, <2>3, <2>5, <2>6, <2>7, <2>9
  <2>. QED
    BY <2>8, <2>9
<1>4. CASE Goto(o, "soldout") /\ UNCHANGED at
  <2>1. pc'[o] = "soldout" /\ at'[o] = n
    BY <1>4 DEF Goto, CallInv, TypeOK
  <2>2. Passed(o)' = 1..n
    BY <2>1 DEF Passed
  <2>. QED
    BY <1>1, <1>3, <2>1, <2>2 DEF Summed, InTx
<1>5. CASE Advance(o)
  BY <1>1, <1>3, <1>5, AdvanceSummed DEF InTx
<1>. QED
  BY <1>4, <1>5 DEF TakeStock

\* The notices go by what was taken and change none of it.
LEMMA QueueSoldOutSummed ==
    ASSUME CallInv, NEW o \in Orders, QueueSoldOut(o), Summed(o)
    PROVE  Summed(o)'
<1>1. /\ pc[o] = "soldout" /\ Advance(o)
      /\ UNCHANGED <<request, total, taken>>
  BY DEF QueueSoldOut
<1>2. Passed(o) = 1..at[o]
  BY <1>1 DEF Passed
<1>. QED
  BY <1>1, <1>2, AdvanceSummed DEF Summed, InTx

\* Behind the loop all items stay taken; a commit leaves the total as it is.
LEMMA BehindLoopSummed ==
    ASSUME CallInv, NEW o \in Orders, Summed(o),
           DebitPoints(o) \/ ReadUser(o) \/ CreditUser(o) \/ Commit(o)
    PROVE  Summed(o)'
<1>1. /\ pc[o] \in {"debit", "read", "credit", "commit"}
      /\ pc'[o] \in {"read", "credit", "commit", "placed"}
      /\ UNCHANGED <<request, total>>
      /\ pc'[o] # "placed" => UNCHANGED taken
  BY DEF DebitPoints, ReadUser, CreditUser, Commit, Goto, CallInv, TypeOK
<1>2. Passed(o)' = Passed(o)
  BY <1>1 DEF Passed
<1>. QED
  BY <1>1, <1>2 DEF Summed, InTx

\* An item that is looked at adds its price, one that is taken its quantity.
LEMMA NextSummed ==
    CallInv /\ LocksHold /\ ItemsSummed /\ [Next]_vars => ItemsSummed'
<1>. SUFFICES ASSUME CallInv, LocksHold, ItemsSummed, [Next]_vars,
                     NEW u \in Orders
              PROVE  Summed(u)'
  BY DEF ItemsSummed
<1>. USE DEF ItemsSummed
<1>0. /\ pc \in [Orders -> {"idle", "check"} \union InTx \union Answered]
      /\ at \in [Orders -> Nat]
      /\ total \in [Orders -> Int]
      /\ taken \in [Orders -> [StockKeys -> Nat]]
  BY DEF CallInv, TypeOK
<1>1. CASE UNCHANGED vars
  BY <1>1, OthersSummed DEF vars, calls
<1>2. ASSUME NEW o \in Orders, Undo(o) PROVE Summed(u)'
  <2>1. CASE u = o
    BY <1>0, <1>2, <2>1, AnsweredSummed DEF Undo, Goto
  <2>2. CASE u # o
    BY <1>0, <1>2, <2>2, OthersSummed DEF Undo, Goto
  <2>. QED
    BY <2>1, <2>2
<1>3. ASSUME NEW o \in Orders, RefuseShort(o) PROVE Summed(u)'
  <2>1. CASE u = o
    BY <1>0, <1>3, <2>1, AnsweredSummed DEF RefuseShort, Goto
  <2>2. CASE u # o
    BY <1>0, <1>3, <2>2, OthersSummed DEF RefuseShort, Goto
  <2>. QED
    BY <2>1, <2>2
<1>4. ASSUME NEW o \in Orders,
             \/ Submit(o) \/ CheckItem(o) \/ TakeStock(o) \/ QueueSoldOut(o)
             \/ DebitPoints(o) \/ ReadUser(o) \/ CreditUser(o) \/ Commit(o)
      PROVE  Summed(u)'
  <2>1. CASE u = o
    BY <1>4, <2>1, SubmitSummed, CheckSummed, TakeStockSummed,
       QueueSoldOutSummed, BehindLoopSummed DEF LocksHold
  <2>2. CASE u # o
    <3>1. /\ UNCHANGED request
          /\ pc'[u] = pc[u] /\ at'[u] = at[u]
          /\ total'[u] = total[u] /\ taken'[u] = taken[u]
      <4>1. CASE Submit(o)
        BY <1>0, <2>2, <4>1 DEF Submit, Goto
      <4>2. CASE CheckItem(o)
        BY <1>0, <2>2, <4>2 DEF CheckItem, Goto
      <4>3. CASE TakeStock(o)
        BY <1>0, <2>2, <4>3 DEF TakeStock, Advance, Goto
      <4>4. CASE QueueSoldOut(o)
        BY <1>0, <2>2, <4>4 DEF QueueSoldOut, Advance, Goto
      <4>5. CASE DebitPoints(o) \/ ReadUser(o) \/ CreditUser(o) \/ Commit(o)
        BY <1>0, <2>2, <4>5 DEF DebitPoints, ReadUser, CreditUser, Commit, Goto
      <4>. QED
        BY <1>4, <4>1, <4>2, <4>3, <4>4, <4>5
    <3>. QED
      BY <3>1, OthersSummed
  <2>. QED
    BY <2>1, <2>2
<1>. QED
  BY <1>1, <1>2, <1>3, <1>4
     DEF Next, Step, Rollback, AbortDeadlocked, Finished

\* What a call has computed and what its transaction has taken are the sums
\* over the items it has passed, however other calls interleave.
LEMMA SummedHolds == Spec => []ItemsSummed
<1>1. Spec => []CallInv
  BY InitCallInv, NextCallInv, PTL DEF Spec
<1>2. Init /\ [][Next]_vars /\ []CallInv /\ []LocksHold => []ItemsSummed
  BY InitSummed, NextSummed, PTL
<1>. QED
  BY <1>1, <1>2, RowsAreLocked, PTL DEF Spec

\* A commit takes from each row what its request lists, for the total price.
LEMMA CommitSums ==
    ASSUME CallInv, ItemsSummed, NEW o \in Orders, Commit(o)
    PROVE  /\ request[o] \in RequestType /\ WellFormed(request[o])
           /\ total[o] = TotalPrice(request[o])
           /\ PointsUsable(request[o].usePoint, TotalPrice(request[o]))
           /\ \A k \in StockKeys :
                  /\ QuantityOf(request[o], k) \in Nat
                  /\ stock'[k] = stock[k] - QuantityOf(request[o], k)
<1>. DEFINE r == request[o]
<1>1. /\ pc[o] = "commit" /\ pc[o] \in InTx
      /\ stock' = [k \in StockKeys |-> stock[k] - taken[o][k]]
  BY DEF Commit, View, InTx
<1>2. r \in RequestType /\ WellFormed(r)
  BY <1>1, RequestTyped DEF CallInv, CallsWellFormed, Running
<1>3. /\ total[o] = TotalPrice(r)
      /\ PointsUsable(r.usePoint, TotalPrice(r))
  BY <1>1 DEF ItemsSummed, Summed
<1>4. ASSUME NEW k \in StockKeys
      PROVE  taken[o][k] = QuantityOf(r, k) /\ taken[o][k] \in Nat
  <2>1. Passed(o) = DOMAIN Quantities(r, k)
    BY <1>1 DEF Passed, Quantities
  <2>. QED
    BY <1>1, <2>1
       DEF ItemsSummed, Summed, QuantityOf, SumFunction, CallInv, TypeOK
<1>. QED
  BY <1>1, <1>2, <1>3, <1>4

\* Each commit adds one order to those placed, and what it lists to their sum.
PlacedOrders == {o \in Orders : pc[o] = "placed"}

Conserved ==
    /\ IsFiniteSet(PlacedOrders)
    /\ \A o \in PlacedOrders, k \in StockKeys : QuantityOf(request[o], k) \in Nat
    /\ StockConserved

\* A commit takes off a row what the order lists of it, a roll back nothing.
LEMMA NextConserved ==
    CallInv /\ ItemsSummed /\ Conserved /\ [Next]_vars => Conserved'
<1>. SUFFICES ASSUME CallInv, ItemsSummed, Conserved, [Next]_vars
              PROVE  Conserved'
  OBVIOUS
<1>1. CASE \A o \in Orders : ~Commit(o)
  <2>1. /\ UNCHANGED <<stock, request>>
        /\ PlacedOrders' = PlacedOrders
    BY <1>1, OnlyCommitWrites DEF PlacedOrders, database
  <2>. QED
    BY <2>1 DEF Conserved, StockConserved, PlacedOrders
<1>2. ASSUME NEW o \in Orders, Commit(o) PROVE Conserved'
  <2>1. /\ o \notin PlacedOrders
        /\ PlacedOrders' = PlacedOrders \union {o}
        /\ UNCHANGED request
    BY <1>2 DEF Commit, Goto, CallInv, TypeOK, PlacedOrders
  <2>2. IsFiniteSet(PlacedOrders')
    BY <2>1, FS_AddElement DEF Conserved
  <2>3. \A k \in StockKeys :
            /\ QuantityOf(request[o], k) \in Nat
            /\ stock'[k] = stock[k] - QuantityOf(request[o], k)
    BY <1>2, CommitSums
  <2>4. \A u \in PlacedOrders', k \in StockKeys : QuantityOf(request'[u], k) \in Nat
    BY <2>1, <2>3 DEF Conserved
  <2>5. ASSUME NEW k \in StockKeys
        PROVE  InitStock[k] - stock'[k] =
                   SumFunctionOnSet([u \in Orders |-> QuantityOf(request'[u], k)],
                                    PlacedOrders')
    <3>. DEFINE f == [u \in Orders |-> QuantityOf(request[u], k)]
    <3>1. InitStock[k] - stock[k] = SumFunctionOnSet(f, PlacedOrders)
      BY DEF Conserved, StockConserved, PlacedOrders
    <3>2. \A u \in PlacedOrders \union {o} : f[u] \in Nat
      BY <2>3 DEF Conserved, PlacedOrders
    <3>3. f[o] = QuantityOf(request[o], k)
      OBVIOUS
    <3>4. SumFunctionOnSet(f, PlacedOrders \union {o}) =
              f[o] + SumFunctionOnSet(f, PlacedOrders)
      <4>. HIDE DEF f
      <4>. QED
        BY <2>1, <3>2, SumAdd DEF Conserved
    <3>5. InitStock[k] \in Int /\ stock[k] \in Int
      BY OrderingAssumption DEF CallInv, TypeOK
    <3>. QED
      BY <2>1, <2>3, <3>1, <3>3, <3>4, <3>5
  <2>. QED
    BY <2>2, <2>4, <2>5 DEF Conserved, StockConserved, PlacedOrders
<1>. QED
  BY <1>1, <1>2

\* What has left a stock row is what the placed orders list for it, whatever the
\* interleaving, the deadlocks and the rollbacks.
THEOREM StockIsConserved == Spec => []StockConserved
<1>1. Init => Conserved
  <2>. SUFFICES ASSUME Init PROVE Conserved
    OBVIOUS
  <2>1. PlacedOrders = {}
    BY DEF Init, PlacedOrders
  <2>2. \A k \in StockKeys : InitStock[k] - stock[k] = 0
    BY OrderingAssumption DEF Init
  <2>. QED
    BY <2>1, <2>2, FS_EmptySet, SumEmpty
       DEF Conserved, StockConserved, PlacedOrders
<1>2. Spec => []CallInv
  BY InitCallInv, NextCallInv, PTL DEF Spec
<1>3. Init /\ [][Next]_vars /\ []CallInv /\ []ItemsSummed => []Conserved
  BY <1>1, NextConserved, PTL
<1>4. Conserved => StockConserved
  BY DEF Conserved
<1>. QED
  BY <1>2, <1>3, <1>4, SummedHolds, PTL DEF Spec

-----------------------------------------------------------------------------
\* The sums of the ledger are those of the transaction.
LEMMA SameRequests ==
    ASSUME NEW r
    PROVE  /\ Ledger!WellFormed(r) <=> WellFormed(r)
           /\ Ledger!TotalPrice(r) = TotalPrice(r)
           /\ Ledger!FinalPrice(r) = FinalPrice(r)
           /\ \A k : Ledger!QuantityOf(r, k) = QuantityOf(r, k)
           /\ \A p, t : Ledger!PointsUsable(p, t) <=> PointsUsable(p, t)
           /\ \A a, g : Ledger!EarnedPoints(a, g) = EarnedPoints(a, g)
<1>1. /\ Ledger!WellFormed(r) <=> WellFormed(r)
      /\ \A p, t : Ledger!PointsUsable(p, t) <=> PointsUsable(p, t)
      /\ \A a, g : Ledger!EarnedPoints(a, g) = EarnedPoints(a, g)
  BY DEF Ledger!WellFormed, WellFormed, Ledger!MaxQuantity, MaxQuantity,
         Ledger!PointsUsable, PointsUsable, Ledger!EarnedPoints, EarnedPoints,
         Ledger!RateOf, RateOf
<1>2. Ledger!Prices(r) = Prices(r)
  BY DEF Ledger!Prices, Prices, Ledger!ItemPrice, ItemPrice
<1>3. \A k : Ledger!Quantities(r, k) = Quantities(r, k)
  BY DEF Ledger!Quantities, Quantities
<1>4. \A f : Ledger!SumFunction(f) = SumFunction(f)
  BY DEF Ledger!SumFunction, Ledger!SumFunctionOnSet, Ledger!FoldFunctionOnSet,
         Ledger!MapThenFoldSet, SumFunction, SumFunctionOnSet,
         FoldFunctionOnSet, MapThenFoldSet
<1>5. Ledger!TotalPrice(r) = TotalPrice(r)
  BY <1>2, <1>4 DEF Ledger!TotalPrice, TotalPrice
<1>6. \A k : Ledger!QuantityOf(r, k) = QuantityOf(r, k)
  BY <1>3, <1>4 DEF Ledger!QuantityOf, QuantityOf
<1>7. Ledger!FinalPrice(r) = FinalPrice(r)
  BY <1>5 DEF Ledger!FinalPrice, FinalPrice
<1>. QED
  BY <1>1, <1>5, <1>6, <1>7

\* A commit is the step of the ledger that places the order, with the rate of
\* the grade its transaction has read; every other step changes no ledger.
LEMMA LedgerStep ==
    CallInv /\ ItemsSummed /\ [Next]_vars => [Ledger!Next]_(Ledger!ledger)
<1>. SUFFICES ASSUME CallInv, ItemsSummed, [Next]_vars
              PROVE  Ledger!Next \/ UNCHANGED Ledger!ledger
  OBVIOUS
<1>. DEFINE placed == {o \in Orders : pc[o] = "placed"}
<1>1. CASE \A o \in Orders : ~Commit(o)
  <2>1. placed' = placed /\ UNCHANGED <<request, stock, points>>
    BY <1>1, OnlyCommitWrites DEF database
  <2>. QED
    BY <2>1 DEF Ledger!ledger
<1>2. ASSUME NEW o \in Orders, Commit(o) PROVE Ledger!Next
  <2>. DEFINE r == request[o]
  <2>1. /\ WellFormed(r)
        /\ PointsUsable(r.usePoint, TotalPrice(r))
        /\ total[o] = TotalPrice(r)
        /\ \A k \in StockKeys : stock'[k] = stock[k] - QuantityOf(r, k)
    BY <1>2, CommitSums
  <2>2. PICK g \in Grades \union {NoGrade} : g = seen[o].grade
    BY DEF CallInv, TypeOK
  <2>3. /\ o \notin placed
        /\ placed' = placed \union {o}
        /\ UNCHANGED request
    BY <1>2 DEF Commit, Goto, CallInv, TypeOK
  <2>4. stock' = [k \in StockKeys |-> stock[k] - QuantityOf(r, k)]
    <3>1. stock' = [k \in StockKeys |-> stock'[k]]
      BY <1>2 DEF Commit
    <3>. QED
      BY <2>1, <3>1
  <2>5. Final(o) = FinalPrice(r)
    BY <2>1 DEF Final, FinalPrice
  <2>6. points' = [points EXCEPT ![r.buyer] =
                       @ - r.usePoint + EarnedPoints(FinalPrice(r), g)]
    BY <1>2, <2>2, <2>5 DEF Commit, Buyer
  <2>7. Ledger!Place(o, g)
    <3>. HIDE DEF placed
    <3>. QED
    BY <2>1, <2>3, <2>4, <2>6, SameRequests DEF Ledger!Place, placed
  <2>. QED
    BY <2>2, <2>7 DEF Ledger!Next
<1>. QED
  BY <1>1, <1>2

\* The transaction of createOrder implements the ledger: orders are placed one
\* at a time and whole, each by what it lists, uses and earns.
THEOREM OrderingImplementsLedger == Spec => LedgerSpec
<1>1. Init => Ledger!Init
  BY OrderingAssumption DEF Init, Ledger!Init
<1>2. Spec => []CallInv
  BY InitCallInv, NextCallInv, PTL DEF Spec
<1>3. [][Next]_vars /\ []CallInv /\ []ItemsSummed
          => [][Ledger!Next]_(Ledger!ledger)
  BY LedgerStep, PTL
<1>. QED
  BY <1>1, <1>2, <1>3, SummedHolds, PTL DEF Spec, LedgerSpec, Ledger!Spec

=============================================================================
