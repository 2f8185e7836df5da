------------------------------ MODULE Ordering ------------------------------
(***************************************************************************)
(* POST /api/orders: OrderService.createOrder and the transaction of       *)
(* OrderRepository.createOrderWithTransaction, one action per statement    *)
(* that another request can come between.                                  *)
(*                                                                         *)
(* The database is PostgreSQL at READ COMMITTED. A read sees committed rows*)
(* and the transaction's own writes. An UPDATE takes the row's lock, waits *)
(* while another transaction holds it, and keeps it to the commit or the   *)
(* rollback. The uncommitted version of a stock row is therefore kept as   *)
(* taken[o][k], what order o has taken off it, and a row with taken[o][k]  *)
(* above 0 is locked by o.                                                 *)
(*                                                                         *)
(* Statements on rows no other transaction can see yet (order.create,      *)
(* orderItem.create, order.update, shipping.create, notification.create)   *)
(* have no action of their own: their rows appear at Commit. Catalogue and *)
(* grade rows do not change here.                                          *)
(***************************************************************************)
EXTENDS OrderRequests

CONSTANTS
    Orders,         \* identities of the calls of createOrder
    CartOwners,     \* [StockKeys -> SUBSET Buyers], carts that hold the size
    InitStock,      \* [StockKeys -> Nat]
    InitPoints,     \* [Buyers -> Nat]
    InitSpend,      \* [Buyers -> Nat]
    InitGrade       \* [Buyers -> Grades \union {NoGrade}]

ASSUME OrderingAssumption ==
    /\ CartOwners \in [StockKeys -> SUBSET Buyers]
    /\ InitStock \in [StockKeys -> Nat]
    /\ InitPoints \in [Buyers -> Nat]
    /\ InitSpend \in [Buyers -> Nat]
    /\ InitGrade \in [Buyers -> Grades \union {NoGrade}]

VARIABLES
    \* committed rows
    stock,      \* [StockKeys -> Int]    ProductStock.quantity
    points,     \* [Buyers -> Int]       User.points
    spend,      \* [Buyers -> Int]       User.lifetimeSpend
    grade,      \* [Buyers -> Grades..]  User.gradeId
    notices,    \* rows of Notification, by recipient and what they announce
    \* one call of createOrder each
    request,    \* the body it was sent
    pc,         \* where it is
    at,         \* the item of the loop it is at
    total,      \* totalPrice
    taken,      \* uncommitted decrements of the stock rows
    queued,     \* pendingNotifications
    seen        \* the user row read by tx.user.findUnique

database == <<stock, points, spend, grade, notices>>
calls == <<request, pc, at, total, taken, queued, seen>>
vars == <<database, calls>>

\* What a sold-out notification says, and to whom it goes.
SizeNotice(k)     == [to |-> "seller", about |-> "size",    of |-> k]
CartNotice(k, b)  == [to |-> b,        about |-> "cart",    of |-> k]
ProductNotice(p)  == [to |-> "seller", about |-> "product", of |-> p]

SizeNotices(k) == {SizeNotice(k)} \union {CartNotice(k, b) : b \in CartOwners[k]}

Notice ==
    (UNION {SizeNotices(k) : k \in StockKeys})
        \union {ProductNotice(p) : p \in Products}

-----------------------------------------------------------------------------
InTx == {"take", "soldout", "debit", "read", "credit", "commit"}
Answered == {"placed", "rejected", "failed"}

Buyer(o) == request[o].buyer
Item(o) == request[o].items[at[o]]
LastItem(o) == at[o] = Len(request[o].items)
Final(o) == total[o] - request[o].usePoint
PaysWithPoints(o) == request[o].usePoint > 0

Nothing == [k \in StockKeys |-> 0]

\* The quantity of row k as a statement of o sees it.
View(o, k) == stock[k] - taken[o][k]

RowFree(o, k) == \A u \in Orders \ {o} : taken[u][k] = 0

HoldsUser(o) ==
    \/ pc[o] = "commit"
    \/ pc[o] \in {"read", "credit"} /\ PaysWithPoints(o)

UserFree(o) == \A u \in Orders \ {o} : HoldsUser(u) => Buyer(u) # Buyer(o)

Goto(o, place) == pc' = [pc EXCEPT ![o] = place]

-----------------------------------------------------------------------------
Init ==
    /\ stock = InitStock
    /\ points = InitPoints
    /\ spend = InitSpend
    /\ grade = InitGrade
    /\ notices = {}
    /\ request \in [Orders -> Requests]
    /\ pc = [o \in Orders |-> "idle"]
    /\ at = [o \in Orders |-> 1]
    /\ total = [o \in Orders |-> 0]
    /\ taken = [o \in Orders |-> Nothing]
    /\ queued = [o \in Orders |-> {}]
    /\ seen = [o \in Orders |-> [spend |-> 0, grade |-> NoGrade]]

\* The call arrives; what the body alone shows wrong is refused at once.
Submit(o) ==
    /\ pc[o] = "idle"
    /\ Goto(o, IF WellFormed(request[o]) THEN "check" ELSE "rejected")
    /\ UNCHANGED <<database, request, at, total, taken, queued, seen>>

\* validateAndCalculateOrderItems, one read per item outside any transaction.
RefuseShort(o) ==
    /\ pc[o] = "check"
    /\ stock[Item(o).key] < Item(o).quantity
    /\ Goto(o, "rejected")
    /\ UNCHANGED <<database, request, at, total, taken, queued, seen>>

CheckItem(o) ==
    LET newTotal == total[o] + ItemPrice(Item(o)) IN
    /\ pc[o] = "check"
    /\ stock[Item(o).key] >= Item(o).quantity
    /\ total' = [total EXCEPT ![o] = newTotal]
    /\ IF LastItem(o)
       THEN /\ at' = [at EXCEPT ![o] = 1]
            /\ Goto(o, IF PointsUsable(request[o].usePoint, newTotal)
                       THEN "take" ELSE "rejected")
       ELSE /\ at' = [at EXCEPT ![o] = @ + 1]
            /\ UNCHANGED pc
    /\ UNCHANGED <<database, request, taken, queued, seen>>

\* Mutant: the points are not debited before the buyer's row is read.
AdvanceReadsFirst(o) ==
    IF LastItem(o)
    THEN Goto(o, "read") /\ UNCHANGED at
    ELSE Goto(o, "take") /\ at' = [at EXCEPT ![o] = @ + 1]

\* The loop over the items goes on, or the transaction goes on behind it.
Advance(o) ==
    IF LastItem(o)
    THEN /\ Goto(o, IF PaysWithPoints(o) THEN "debit" ELSE "read")
         /\ UNCHANGED at
    ELSE /\ Goto(o, "take")
         /\ at' = [at EXCEPT ![o] = @ + 1]

\* Mutant: the quantity is set from the item, over what the order took before.
TakeStockOverwrites(o) ==
    LET k == Item(o).key
        n == Item(o).quantity
    IN
    /\ pc[o] = "take"
    /\ RowFree(o, k)
    /\ taken' = [taken EXCEPT ![o][k] = n]
    /\ IF View(o, k) - n <= 0
       THEN Goto(o, "soldout") /\ UNCHANGED at
       ELSE Advance(o)
    /\ UNCHANGED <<database, request, total, queued, seen>>

\* Mutant: a row that comes to exactly 0 is not announced.
TakeStockBelowZero(o) ==
    LET k == Item(o).key
        n == Item(o).quantity
    IN
    /\ pc[o] = "take"
    /\ RowFree(o, k)
    /\ taken' = [taken EXCEPT ![o][k] = @ + n]
    /\ IF View(o, k) - n < 0
       THEN Goto(o, "soldout") /\ UNCHANGED at
       ELSE Advance(o)
    /\ UNCHANGED <<database, request, total, queued, seen>>

\* tx.productStock.update({ decrement }): no condition on what is left.
TakeStock(o) ==
    LET k == Item(o).key
        n == Item(o).quantity
    IN
    /\ pc[o] = "take"
    /\ RowFree(o, k)
    /\ taken' = [taken EXCEPT ![o][k] = @ + n]
    /\ IF View(o, k) - n <= 0
       THEN Goto(o, "soldout") /\ UNCHANGED at
       ELSE Advance(o)
    /\ UNCHANGED <<database, request, total, queued, seen>>

\* The row came to 0 or below: the notifications, with the query for any size
\* of the product that is left (committed rows and this transaction's own).
QueueSoldOut(o) ==
    LET k == Item(o).key
        p == ProductOf[k]
        allSizes == \A j \in StockKeys : ProductOf[j] = p => View(o, j) <= 0
    IN
    /\ pc[o] = "soldout"
    /\ queued' = [queued EXCEPT ![o] =
                      @ \union SizeNotices(k)
                        \union (IF allSizes THEN {ProductNotice(p)} ELSE {})]
    /\ Advance(o)
    /\ UNCHANGED <<database, request, total, taken, seen>>

\* tx.user.update({ points: { decrement } }), only when points are used.
DebitPoints(o) ==
    /\ pc[o] = "debit"
    /\ UserFree(o)
    /\ Goto(o, "read")
    /\ UNCHANGED <<database, request, at, total, taken, queued, seen>>

\* tx.user.findUnique: a plain read, it neither waits for nor takes the lock.
ReadUser(o) ==
    /\ pc[o] = "read"
    /\ seen' = [seen EXCEPT ![o] = [spend |-> spend[Buyer(o)],
                                    grade |-> grade[Buyer(o)]]]
    /\ Goto(o, "credit")
    /\ UNCHANGED <<database, request, at, total, taken, queued>>

\* tx.user.update({ lifetimeSpend: newLifetimeSpend, points: { increment } }).
CreditUser(o) ==
    /\ pc[o] = "credit"
    /\ UserFree(o)
    /\ Goto(o, "commit")
    /\ UNCHANGED <<database, request, at, total, taken, queued, seen>>

NewSpend(o) == seen[o].spend + Final(o)

\* Mutant: the grade is chosen from the spend before the order.
NewGradeOfOldSpend(o) ==
    IF Eligible(seen[o].spend) # {} /\ BestGrade(seen[o].spend) # seen[o].grade
    THEN BestGrade(seen[o].spend)
    ELSE grade[Buyer(o)]

\* gradeId is written only when it differs from the grade that was read.
NewGrade(o) ==
    IF Eligible(NewSpend(o)) # {} /\ BestGrade(NewSpend(o)) # seen[o].grade
    THEN BestGrade(NewSpend(o))
    ELSE grade[Buyer(o)]

\* Every write of the transaction becomes visible and its locks are released.
Commit(o) ==
    LET b == Buyer(o)
        earned == EarnedPoints(Final(o), seen[o].grade)
    IN
    /\ pc[o] = "commit"
    /\ stock' = [k \in StockKeys |-> View(o, k)]
    /\ points' = [points EXCEPT ![b] = @ - request[o].usePoint + earned]
    /\ spend' = [spend EXCEPT ![b] = NewSpend(o)]
    /\ grade' = [grade EXCEPT ![b] = NewGrade(o)]
    /\ notices' = notices \union queued[o]
    /\ taken' = [taken EXCEPT ![o] = Nothing]
    /\ Goto(o, "placed")
    /\ UNCHANGED <<request, at, total, queued, seen>>

\* Mutant: the decrements are not part of the transaction.
UndoKeepsStock(o) ==
    /\ pc[o] \in InTx
    /\ stock' = [k \in StockKeys |-> View(o, k)]
    /\ taken' = [taken EXCEPT ![o] = Nothing]
    /\ queued' = [queued EXCEPT ![o] = {}]
    /\ Goto(o, "failed")
    /\ UNCHANGED <<points, spend, grade, notices, request, at, total, seen>>

\* Mutant: the row locks of a transaction that failed are not released.
UndoKeepsLocks(o) ==
    /\ pc[o] \in InTx
    /\ queued' = [queued EXCEPT ![o] = {}]
    /\ Goto(o, "failed")
    /\ UNCHANGED <<database, request, at, total, taken, seen>>

\* Nothing of the transaction remains and its locks are released.
Undo(o) ==
    /\ pc[o] \in InTx
    /\ taken' = [taken EXCEPT ![o] = Nothing]
    /\ queued' = [queued EXCEPT ![o] = {}]
    /\ Goto(o, "failed")
    /\ UNCHANGED <<database, request, at, total, seen>>

\* A statement fails, the 5 s limit of the transaction passes, the connection
\* or the process is lost.
Rollback(o) == Undo(o)

\* o waits for a row that u holds.
WaitsFor(o, u) ==
    /\ o # u
    /\ \/ pc[o] = "take" /\ taken[u][Item(o).key] > 0
       \/ pc[o] \in {"debit", "credit"} /\ HoldsUser(u) /\ Buyer(u) = Buyer(o)

\* A cycle of waiting transactions that o is on.
Deadlocked(o) ==
    \E S \in SUBSET Orders :
        /\ o \in S
        /\ \A u \in S : \E v \in S : WaitsFor(u, v)
        /\ \A v \in S : \E u \in S : WaitsFor(u, v)

\* PostgreSQL's deadlock detector rolls one transaction of the cycle back.
AbortDeadlocked(o) == Deadlocked(o) /\ Undo(o)

Step(o) ==
    \/ RefuseShort(o) \/ CheckItem(o)
    \/ TakeStock(o) \/ QueueSoldOut(o)
    \/ DebitPoints(o) \/ ReadUser(o) \/ CreditUser(o)
    \/ Commit(o)

\* All calls answered: the system may stop.
Finished == (\A o \in Orders : pc[o] \in Answered) /\ UNCHANGED vars

Next ==
    \/ \E o \in Orders : Submit(o) \/ Step(o) \/ Rollback(o) \/ AbortDeadlocked(o)
    \/ Finished

Spec == Init /\ [][Next]_vars

\* The server runs every call it has accepted on, and the database resolves
\* deadlocks. Clients need not call, and nothing forces a rollback.
Fairness ==
    /\ \A o \in Orders : WF_vars(Step(o))
    /\ WF_vars(\E o \in Orders : AbortDeadlocked(o))

FairSpec == Spec /\ Fairness

-----------------------------------------------------------------------------
\* Types of the rows and of the calls. Stock may go below 0, since the decrement
\* has no condition; what one order takes off a row may not.
TypeOK ==
    /\ stock \in [StockKeys -> Int]
    /\ points \in [Buyers -> Int]
    /\ spend \in [Buyers -> Int]
    /\ grade \in [Buyers -> Grades \union {NoGrade}]
    /\ notices \subseteq Notice
    /\ request \in [Orders -> Requests]
    /\ pc \in [Orders -> {"idle", "check"} \union InTx \union Answered]
    /\ at \in [Orders -> Nat]
    /\ total \in [Orders -> Int]
    /\ taken \in [Orders -> [StockKeys -> Nat]]
    /\ queued \in [Orders -> SUBSET Notice]
    /\ seen \in [Orders -> [spend : Int, grade : Grades \union {NoGrade}]]

Placed(b) == {o \in Orders : pc[o] = "placed" /\ Buyer(o) = b}

\* What has left a stock row is what the placed orders list for it, however
\* their transactions interleave and whichever of them are rolled back.
StockConserved ==
    \A k \in StockKeys :
        InitStock[k] - stock[k] =
            SumFunctionOnSet([o \in Orders |-> QuantityOf(request[o], k)],
                             {o \in Orders : pc[o] = "placed"})

\* What the row locks give. A stock row has one writer, and only inside its
\* transaction; a user row has one; the user row an order with points has read
\* is still as it read it; and a transaction that has brought a row to 0 or
\* below has queued its notices, or is about to.
RowLocks ==
    \A o, u \in Orders, k \in StockKeys :
        o # u /\ taken[o][k] > 0 => taken[u][k] = 0

TakenInTx == \A o \in Orders, k \in StockKeys : taken[o][k] > 0 => pc[o] \in InTx

UserLocks ==
    \A o, u \in Orders :
        HoldsUser(o) /\ HoldsUser(u) /\ Buyer(o) = Buyer(u) => o = u

SeenFresh ==
    \A o \in Orders :
        pc[o] \in {"credit", "commit"} /\ PaysWithPoints(o) =>
            seen[o] = [spend |-> spend[Buyer(o)], grade |-> grade[Buyer(o)]]

NoticesQueued ==
    \A o \in Orders, k \in StockKeys :
        taken[o][k] > 0 /\ View(o, k) <= 0 =>
            \/ SizeNotices(k) \subseteq queued[o]
            \/ pc[o] = "soldout" /\ Item(o).key = k

LocksHold ==
    RowLocks /\ TakenInTx /\ UserLocks /\ SeenFresh /\ NoticesQueued

\* A size that had stock and has none left has been announced: to the seller
\* and to every buyer with it in the cart (orders.repository.ts, the branch on
\* quantity <= 0). The order that empties the row sees that it does, because
\* it reads the row under the lock, and its notices commit with the stock.
SoldOutAnnounced ==
    \A k \in StockKeys :
        InitStock[k] > 0 /\ stock[k] <= 0 => SizeNotices(k) \subseteq notices

\* An order that uses points locks its buyer's row before it reads it, so the
\* absolute write of lifetimeSpend adds its price to what is there: no order
\* of the same buyer that commits meanwhile is lost.
SpendAdds ==
    [][\A o \in Orders :
          pc[o] = "commit" /\ pc'[o] = "placed" /\ PaysWithPoints(o)
              => spend'[Buyer(o)] = spend[Buyer(o)] + Final(o)]_vars

GradeMatches(b) ==
    Eligible(spend[b]) # {} => grade[b] = BestGrade(spend[b])

\* A buyer who has placed orders and used points in each of them has the grade
\* that the lifetime spend is worth (Grade.minAmount, and the conditional write
\* of gradeId from the row read earlier in the transaction).
GradeCurrent ==
    \A b \in Buyers :
        Placed(b) # {} /\ (\A o \in Placed(b) : PaysWithPoints(o)) => GradeMatches(b)

\* An order is refused when the stock is short (409), so no row goes below 0.
StockNotNegative == \A k \in StockKeys : stock[k] >= 0

\* Every call the server accepts is answered: transactions that wait for each
\* other's rows do not wait for ever.
EveryCallAnswered ==
    \A o \in Orders : pc[o] = "check" ~> pc[o] \in Answered

Ledger == INSTANCE OrderLedger WITH placed <- {o \in Orders : pc[o] = "placed"}

\* Ordering implements the ledger: only Commit moves stock and points, by what
\* the request lists, uses and earns.
LedgerSpec == Ledger!Spec

=============================================================================
