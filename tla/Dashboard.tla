----------------------------- MODULE Dashboard -----------------------------
(***************************************************************************)
(* The dashboard of a seller: what was sold today, this week, this month   *)
(* and this year, each beside the period before, and how sales spread over *)
(* ranges of prices. It is computed anew from the rows of paid orders at   *)
(* every call, by the date each order was made, which days pass since.     *)
(*                                                                         *)
(* Days are numbered, day 0 is a Sunday; the first days of months and years*)
(* are given, so that periods of unequal length meet.                      *)
(***************************************************************************)
EXTENDS Integers, FiniteSets, FiniteSetsExt, Functions

CONSTANTS
    Items,      \* rows of OrderItem of the seller's products
    Price,      \* [Items -> Nat], unitPrice
    Quantity,   \* [Items -> Nat]
    MonthStarts,\* first days of months
    YearStarts, \* those of them that begin a year
    FirstDay,   \* bound: the days of a run
    LastDay,
    NoOrder     \* no order yet

ASSUME DashboardAssumption ==
    /\ Price \in [Items -> Nat]
    /\ Quantity \in [Items -> Nat]
    /\ FirstDay \in Int
    /\ LastDay \in Int
    /\ FirstDay <= LastDay
    /\ NoOrder \notin Int
    /\ YearStarts \subseteq MonthStarts
    /\ MonthStarts \subseteq Int
    /\ \E y, z \in YearStarts : y < z /\ z <= FirstDay
    /\ \E y \in YearStarts : LastDay < y

VARIABLES
    today,      \* now
    createdAt,  \* [Items -> the day of its order, or NoOrder]
    status,     \* [Items -> OrderStatus], Order.status of its order
    paid        \* the items whose order has a completed payment

dashboardVars == <<today, createdAt, status, paid>>

DashboardInit ==
    /\ today = FirstDay
    /\ createdAt = [i \in Items |-> NoOrder]
    /\ status = [i \in Items |-> "WaitingPayment"]
    /\ paid = {}

\* What becomes of an order, each call at the write that ends it; their races
\* are module OrderLifecycle's. Orders are those of createOrder, whose payment
\* is made completed and stays so.
Place(i) ==
    /\ createdAt[i] = NoOrder
    /\ createdAt' = [createdAt EXCEPT ![i] = today]
    /\ UNCHANGED <<today, status, paid>>

\* createPayment looks whether the payment is completed, not at the order: one
\* that was cancelled before it was paid is paid for all the same.
Pay(i) ==
    /\ createdAt[i] # NoOrder
    /\ i \notin paid
    /\ status' = [status EXCEPT ![i] = "CompletedPayment"]
    /\ paid' = paid \union {i}
    /\ UNCHANGED <<today, createdAt>>

\* cancelOrder leaves the payment as it is.
Cancel(i) ==
    /\ createdAt[i] # NoOrder
    /\ status[i] \in {"WaitingPayment", "CompletedPayment"}
    /\ status' = [status EXCEPT ![i] = "Canceled"]
    /\ UNCHANGED <<today, createdAt, paid>>

NextDay ==
    /\ today < LastDay
    /\ today' = today + 1
    /\ UNCHANGED <<createdAt, status, paid>>

DashboardNext == NextDay \/ \E i \in Items : Place(i) \/ Pay(i) \/ Cancel(i)

DashboardSpec == DashboardInit /\ [][DashboardNext]_dashboardVars

-----------------------------------------------------------------------------
(***************************************************************************)
(* getDashboardDateRanges: each period begins at its start and ends before *)
(* the next one's.                                                         *)
(***************************************************************************)
Periods == {"today", "week", "month", "year"}

Last(days, d) == Max({e \in days : e <= d})
First(days, d) == Min({e \in days : e > d})

\* Weeks begin on Monday, and getDay is 0 on Sunday.
StartOfWeek ==
    LET day == today % 7 IN today + (IF day = 0 THEN -6 ELSE 1 - day)

Start(p) ==
    CASE p = "today" -> today
      [] p = "week"  -> StartOfWeek
      [] p = "month" -> Last(MonthStarts, today)
      [] p = "year"  -> Last(YearStarts, today)

End(p) ==
    CASE p = "today" -> Start(p) + 1
      [] p = "week"  -> Start(p) + 7
      [] p = "month" -> First(MonthStarts, Start(p))
      [] p = "year"  -> First(YearStarts, Start(p))

\* Mutant: the period before is as long as this one.
PreviousStartSameLength(p) == Start(p) - (End(p) - Start(p))

PreviousStart(p) ==
    CASE p = "today" -> Start(p) - 1
      [] p = "week"  -> Start(p) - 7
      [] p = "month" -> Last(MonthStarts, Start(p) - 1)
      [] p = "year"  -> Last(YearStarts, Start(p) - 1)

-----------------------------------------------------------------------------
\* findSalesRecordsBySellerId, and what summarizeSalesRecords and the reductions
\* of summarizePriceRanges make of the records.
Records ==
    {i \in paid : createdAt[i] # NoOrder /\ status[i] = "CompletedPayment"}

Sales(items) ==
    [ orders |-> SumFunctionOnSet(Quantity, items),
      sales  |-> SumFunctionOnSet([i \in Items |-> Price[i] * Quantity[i]], items) ]

Within(start, end) == Sales({i \in Records : start <= createdAt[i] /\ createdAt[i] < end})

Current(p) == Within(Start(p), End(p))
Previous(p) == Within(PreviousStart(p), Start(p))

\* PRICE_RANGE_BUCKETS: where each bucket begins and ends; the last has no end.
Buckets == { [min |-> 0, max |-> 10000], [min |-> 10000, max |-> 30000],
             [min |-> 30000, max |-> 50000], [min |-> 50000, max |-> 100000],
             [min |-> 100000] }

\* Mutant: a price is in the bucket that it is the upper limit of, too.
WithMaximum(b, price) == b.min <= price /\ ("max" \in DOMAIN b => price <= b.max)

InBucket(b, price) == b.min <= price /\ ("max" \in DOMAIN b => price < b.max)

RangeOf(b) == {i \in Records : InBucket(b, Price[i])}

-----------------------------------------------------------------------------
\* When a period is over, what it showed is shown as the period before, for
\* weeks, months and years of any length; on other days it stays what it is.
RolledOver ==
    [][today' # today =>
         \A p \in Periods :
            IF Start(p)' # Start(p) THEN Previous(p)' = Current(p)
            ELSE Current(p)' = Current(p) /\ Previous(p)' = Previous(p)]_dashboardVars

\* What was sold today is part of what was sold this week, this month and this
\* year, also on a Sunday and on the last of a month, and each sale is in one
\* range of prices, also one at a limit of two of them.
ShownAddsUp ==
    /\ \A p \in Periods : Current("today").sales <= Current(p).sales
    /\ SumFunctionOnSet([b \in Buckets |-> Sales(RangeOf(b)).sales], Buckets)
           = Sales(Records).sales

=============================================================================
