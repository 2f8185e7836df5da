---------------------------- MODULE OrderLedger ----------------------------
(***************************************************************************)
(* What placing an order promises, with no statement, lock or transaction  *)
(* in sight: an order is placed at most once and in one step, takes exactly*)
(* the quantities it lists from the stock rows, and moves the points of its*)
(* buyer by what it earns less what it uses. No order changes anything else*)
(* of the ledger. Nothing is promised about stock staying positive or      *)
(* about the rate being the one of the grade the buyer has at that moment. *)
(***************************************************************************)
EXTENDS OrderRequests

CONSTANT Orders     \* identities of the order calls

VARIABLES
    request,        \* [Orders -> Requests], what each call asks for
    placed,         \* the orders that exist in the database
    stock,          \* [StockKeys -> Int], ProductStock.quantity
    points          \* [Buyers -> Int], User.points

ledger == <<request, placed, stock, points>>

Init ==
    /\ request \in [Orders -> Requests]
    /\ placed = {}
    /\ stock \in [StockKeys -> Int]
    /\ points \in [Buyers -> Int]

Place(o, g) ==
    LET r == request[o] IN
    /\ o \notin placed
    /\ WellFormed(r)
    /\ PointsUsable(r.usePoint, TotalPrice(r))
    /\ placed' = placed \union {o}
    /\ stock' = [k \in StockKeys |-> stock[k] - QuantityOf(r, k)]
    /\ points' = [points EXCEPT ![r.buyer] =
                      @ - r.usePoint + EarnedPoints(FinalPrice(r), g)]
    /\ UNCHANGED request

Next == \E o \in Orders, g \in Grades \union {NoGrade} : Place(o, g)

Spec == Init /\ [][Next]_ledger

=============================================================================
