--------------------------- MODULE OrderRequests ---------------------------
(***************************************************************************)
(* What an order call of the shop asks for, and the pure functions of the  *)
(* order service over one request: which requests pass validation without  *)
(* touching the database, what a request costs, how much of each stock row *)
(* it takes, which grade a lifetime spend is worth and what an order earns.*)
(*                                                                         *)
(* A size of a product (a row of ProductStock) is one element of StockKeys.*)
(***************************************************************************)
EXTENDS Integers, Sequences, FiniteSets, Functions

CONSTANTS
    Buyers,     \* users of type BUYER
    Products,   \* rows of Product
    StockKeys,  \* rows of ProductStock: one per (productId, sizeId)
    ProductOf,  \* [StockKeys -> Products]
    Price,      \* [Products -> Nat], Product.price
    Grades,     \* rows of Grade
    Rate,       \* [Grades -> Nat], Grade.rate in percent
    MinAmount,  \* [Grades -> Nat], Grade.minAmount
    NoGrade,    \* User.gradeId is null
    Requests    \* the bodies of POST /api/orders considered, see RequestType

\* The largest quantity of one item (orders.service.ts, the check on 999).
MaxQuantity == 999

OrderItem == [key : StockKeys, quantity : Int]

\* complete: name, phone and address are all given.
RequestType ==
    [ buyer    : Buyers,
      items    : Seq(OrderItem),
      usePoint : Int,
      complete : BOOLEAN ]

ASSUME CatalogAssumption ==
    /\ ProductOf \in [StockKeys -> Products]
    /\ Price \in [Products -> Nat]

ASSUME GradeAssumption ==
    /\ Rate \in [Grades -> Nat]
    /\ MinAmount \in [Grades -> Nat]
    /\ NoGrade \notin Grades

\* The table is finite: of any of its rows, one has the largest minAmount.
ASSUME GradesRanked ==
    \A S \in SUBSET Grades :
        S # {} => \E g \in S : \A h \in S : MinAmount[h] <= MinAmount[g]

ASSUME RequestAssumption == Requests \subseteq RequestType

\* Mutant: the lower bound on the quantity is dropped.
WellFormedAnyQuantity(r) ==
    /\ r.items # << >>
    /\ \A i \in DOMAIN r.items : r.items[i].quantity <= MaxQuantity
    /\ r.complete

\* The checks of createOrder that come before the first database read.
WellFormed(r) ==
    /\ r.items # << >>
    /\ \A i \in DOMAIN r.items : r.items[i].quantity \in 1..MaxQuantity
    /\ r.complete

\* validatePointUsage: the balance of the buyer is not looked at.
PointsUsable(usePoint, totalPrice) == usePoint >= 0 /\ usePoint <= totalPrice

ItemPrice(item) == Price[ProductOf[item.key]] * item.quantity

\* One entry per list position: what it costs, and what it takes of row k.
Prices(r) == [i \in DOMAIN r.items |-> ItemPrice(r.items[i])]

Quantities(r, k) ==
    [i \in DOMAIN r.items |->
        IF r.items[i].key = k THEN r.items[i].quantity ELSE 0]

TotalPrice(r) == SumFunction(Prices(r))

QuantityOf(r, k) == SumFunction(Quantities(r, k))

FinalPrice(r) == TotalPrice(r) - r.usePoint

-----------------------------------------------------------------------------
\* grade.findFirst({ minAmount <= amount }, orderBy minAmount desc).
Eligible(amount) == {g \in Grades : MinAmount[g] <= amount}

BestGrade(amount) ==
    CHOOSE g \in Eligible(amount) :
        \A h \in Eligible(amount) : MinAmount[h] <= MinAmount[g]

\* user.grade?.rate ?? 0
RateOf(g) == IF g = NoGrade THEN 0 ELSE Rate[g]

\* Math.floor(finalPrice * (rate / 100)); finalPrice is never negative here.
EarnedPoints(finalPrice, g) == (finalPrice * RateOf(g)) \div 100

=============================================================================
