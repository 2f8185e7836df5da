--------------------------- MODULE OrderLifecycle ---------------------------
(***************************************************************************)
(* What happens to an order after createOrder: payment, cancellation of the*)
(* order, cancellation of the payment, and the progress of its shipping.   *)
(* Each call of the API is a process whose steps are its database          *)
(* statements; calls of any clients interleave, on any of the orders.      *)
(*                                                                         *)
(* A transaction that only writes (cancelOrderWithTransaction) or writes   *)
(* last (cancelPaymentWithTransaction) appears at its commit: until then it*)
(* holds the rows it wrote, so nobody writes them in between, and no two of*)
(* these transactions lock two rows in opposite orders. The reads before   *)
(* the write are steps of their own. createPayment runs without a          *)
(* transaction: each of its writes is visible at once.                     *)
(***************************************************************************)
EXTENDS Integers, FiniteSets, Functions

CONSTANTS
    Buyers,     \* users of type BUYER
    Orders,     \* rows of Order that createOrder or the seed has made
    BuyerOf,    \* [Orders -> Buyers], Order.buyerId
    Refund,     \* [Orders -> Nat], usedPoints + earnedPoints
    InitPoints, \* [Buyers -> Nat]
    Calls,      \* identities of calls of the API
    Requests,   \* what a call may ask, see RequestType
    NoCall      \* a payment row that no call of these has completed

OrderStatus == {"WaitingPayment", "CompletedPayment", "Canceled"}
PaymentStatus ==
    {"WaitingPayment", "CompletedPayment", "FailedPayment", "CanceledPayment"}
ShippingStatus == {"ReadyToShip", "InShipping", "Delivered"}

\* payOrder: POST /payments, cancelOrder: DELETE /orders/:id, cancelPayment:
\* the payment's cancellation, progress: POST /shipping/:id/auto-progress,
\* setShipping: PATCH /shipping/:id/status. valid: what the body alone shows
\* is in order (method and amount of a payment, a status that exists).
RequestType ==
    [ op    : {"pay", "cancelOrder", "cancelPayment", "progress", "setShipping"},
      order : Orders,
      by    : Buyers,
      to    : ShippingStatus,
      valid : BOOLEAN ]

ASSUME LifecycleAssumption ==
    /\ BuyerOf \in [Orders -> Buyers]
    /\ Refund \in [Orders -> Nat]
    /\ InitPoints \in [Buyers -> Nat]
    /\ Requests \subseteq RequestType
    /\ NoCall \notin Calls

VARIABLES
    \* rows
    status,     \* [Orders -> OrderStatus], Order.status
    payment,    \* [Orders -> rows of Payment or NoPayment]
    shipping,   \* [Orders -> ShippingStatus], Shipping.status
    points,     \* [Buyers -> Int], User.points
    \* one call each
    request,    \* what it asks
    pc,         \* where it is
    seen        \* the status it has read last

rows == <<status, payment, shipping, points>>
vars == <<rows, request, pc, seen>>

\* txn is the transactionId, which tells who completed the payment.
NoPayment == [status |-> "None", txn |-> NoCall]
PaymentRow == [status : PaymentStatus, txn : Calls \union {NoCall}]

InFlight == {"read", "check", "write", "settle"}
Answered == {"done", "refused"}

Order(c) == request[c].order
Owner(c) == request[c].by = BuyerOf[Order(c)]
Running(c, op, place) == request[c].op = op /\ pc[c] = place

Goto(c, place) == pc' = [pc EXCEPT ![c] = place]

See(c, what, place) ==
    /\ seen' = [seen EXCEPT ![c] = what]
    /\ Goto(c, place)
    /\ UNCHANGED <<rows, request>>

Refuse(c) == Goto(c, "refused") /\ UNCHANGED <<rows, request, seen>>

-----------------------------------------------------------------------------
InitCalls ==
    /\ points = InitPoints
    /\ request \in [Calls -> Requests]
    /\ pc = [c \in Calls |-> "idle"]
    /\ seen = [c \in Calls |-> "None"]

\* Orders as createOrder commits them: no payment row, shipping prepared.
Init ==
    /\ status = [o \in Orders |-> "WaitingPayment"]
    /\ payment = [o \in Orders |-> NoPayment]
    /\ shipping = [o \in Orders |-> "ReadyToShip"]
    /\ InitCalls

\* Orders as the seed script leaves those that wait for payment: with a row of
\* Payment that waits too, which no call of the API ever makes.
SeededInit ==
    /\ status = [o \in Orders |-> "WaitingPayment"]
    /\ payment = [o \in Orders |-> [status |-> "WaitingPayment", txn |-> NoCall]]
    /\ shipping = [o \in Orders |-> "ReadyToShip"]
    /\ InitCalls

Submit(c) ==
    /\ pc[c] = "idle"
    /\ Goto(c, IF request[c].valid THEN "read" ELSE "refused")
    /\ UNCHANGED <<rows, request, seen>>

-----------------------------------------------------------------------------
\* Mutant: a completed payment is not refused.
PayReadUnchecked(c) ==
    Running(c, "pay", "read") /\ See(c, payment[Order(c)].status, "write")

\* createPayment. The order itself is read only to see that it exists: neither
\* its status nor its buyer nor its price is compared with anything.
PayRead(c) ==
    LET now == payment[Order(c)].status IN
    /\ Running(c, "pay", "read")
    /\ IF now = "CompletedPayment" THEN Refuse(c) ELSE See(c, now, "write")

\* Mutant: orderId is not unique, the later payment replaces the earlier.
PayWriteUpserts(c) ==
    /\ Running(c, "pay", "write")
    /\ payment' = [payment EXCEPT
           ![Order(c)] = [status |-> "CompletedPayment", txn |-> c]]
    /\ Goto(c, "settle")
    /\ UNCHANGED <<status, shipping, points, request, seen>>

\* Mutant: a create that comes second is taken for a payment made.
PayWriteIgnoresDuplicate(c) ==
    LET o == Order(c) IN
    /\ Running(c, "pay", "write")
    /\ payment' = IF seen[c] = "None" /\ payment[o] # NoPayment
                  THEN payment
                  ELSE [payment EXCEPT
                           ![o] = [status |-> "CompletedPayment", txn |-> c]]
    /\ Goto(c, "settle")
    /\ UNCHANGED <<status, shipping, points, request, seen>>

\* Update of the row that was read, or create of one; orderId is unique, so a
\* create that comes second fails.
PayWrite(c) ==
    LET o == Order(c) IN
    /\ Running(c, "pay", "write")
    /\ IF seen[c] = "None" /\ payment[o] # NoPayment
       THEN Refuse(c)
       ELSE /\ payment' = [payment EXCEPT
                  ![o] = [status |-> "CompletedPayment", txn |-> c]]
            /\ Goto(c, "settle")
            /\ UNCHANGED <<status, shipping, points, request, seen>>

\* Mutant: the order is not updated.
PaySettleForgotten(c) ==
    /\ Running(c, "pay", "settle")
    /\ Goto(c, "done")
    /\ UNCHANGED <<rows, request, seen>>

\* The second write of createPayment, whatever the order's status has become.
PaySettle(c) ==
    /\ Running(c, "pay", "settle")
    /\ status' = [status EXCEPT ![Order(c)] = "CompletedPayment"]
    /\ Goto(c, "done")
    /\ UNCHANGED <<payment, shipping, points, request, seen>>

-----------------------------------------------------------------------------
\* cancelOrder. findOrderById reads the order, then its shipping.
CancelRead(c) ==
    /\ Running(c, "cancelOrder", "read")
    /\ See(c, status[Order(c)], "check")

\* Mutant: the owner is not compared.
CancelCheckAnyBuyer(c) ==
    /\ Running(c, "cancelOrder", "check")
    /\ IF /\ shipping[Order(c)] = "ReadyToShip"
          /\ seen[c] \in {"WaitingPayment", "CompletedPayment"}
       THEN Goto(c, "write") /\ UNCHANGED <<rows, request, seen>>
       ELSE Refuse(c)

CancelCheck(c) ==
    /\ Running(c, "cancelOrder", "check")
    /\ IF /\ Owner(c)
          /\ shipping[Order(c)] = "ReadyToShip"
          /\ seen[c] \in {"WaitingPayment", "CompletedPayment"}
       THEN Goto(c, "write") /\ UNCHANGED <<rows, request, seen>>
       ELSE Refuse(c)

\* Mutant: the status of the other enumeration is written.
CancelWriteOtherEnum(c) ==
    LET o == Order(c) IN
    /\ Running(c, "cancelOrder", "write")
    /\ status' = [status EXCEPT ![o] = "CanceledPayment"]
    /\ points' = [points EXCEPT ![request[c].by] = @ + Refund[o]]
    /\ Goto(c, "done")
    /\ UNCHANGED <<payment, shipping, request, seen>>

\* Mutant: the points are restored and the order is left as it was.
CancelWriteRestoresOnly(c) ==
    LET o == Order(c) IN
    /\ Running(c, "cancelOrder", "write")
    /\ points' = [points EXCEPT ![request[c].by] = @ + Refund[o]]
    /\ Goto(c, "done")
    /\ UNCHANGED <<status, payment, shipping, request, seen>>

\* cancelOrderWithTransaction: it looks at no status again.
CancelWrite(c) ==
    LET o == Order(c) IN
    /\ Running(c, "cancelOrder", "write")
    /\ status' = [status EXCEPT ![o] = "Canceled"]
    /\ points' = [points EXCEPT ![request[c].by] = @ + Refund[o]]
    /\ Goto(c, "done")
    /\ UNCHANGED <<payment, shipping, request, seen>>

-----------------------------------------------------------------------------
\* cancelPayment of the service: owner and isPaymentCancellable.
PaymentCancelRead(c) ==
    LET now == payment[Order(c)].status IN
    /\ Running(c, "cancelPayment", "read")
    /\ IF Owner(c) /\ now = "WaitingPayment"
       THEN See(c, now, "check")
       ELSE Refuse(c)

\* The read inside cancelPaymentWithTransaction, which locks nothing.
PaymentCancelCheck(c) ==
    LET now == payment[Order(c)].status IN
    /\ Running(c, "cancelPayment", "check")
    /\ IF now \in {"CompletedPayment", "CanceledPayment"}
       THEN Refuse(c)
       ELSE See(c, now, "write")

\* Mutant: the order of the cancelled payment is not updated.
PaymentCancelWriteAlone(c) ==
    /\ Running(c, "cancelPayment", "write")
    /\ payment' = [payment EXCEPT ![Order(c)].status = "CanceledPayment"]
    /\ Goto(c, "done")
    /\ UNCHANGED <<status, shipping, points, request, seen>>

PaymentCancelWrite(c) ==
    LET o == Order(c) IN
    /\ Running(c, "cancelPayment", "write")
    /\ payment' = [payment EXCEPT ![o].status = "CanceledPayment"]
    /\ status' = [status EXCEPT ![o] = "Canceled"]
    /\ Goto(c, "done")
    /\ UNCHANGED <<shipping, points, request, seen>>

-----------------------------------------------------------------------------
NextShipping(s) == IF s = "ReadyToShip" THEN "InShipping" ELSE "Delivered"

\* autoProgressShippingStatus: a delivered order is answered as it is.
ProgressRead(c) ==
    LET now == shipping[Order(c)] IN
    /\ Running(c, "progress", "read")
    /\ See(c, now, IF now = "Delivered" THEN "done" ELSE "write")

ProgressWrite(c) ==
    /\ Running(c, "progress", "write")
    /\ shipping' = [shipping EXCEPT ![Order(c)] = NextShipping(seen[c])]
    /\ Goto(c, "done")
    /\ UNCHANGED <<status, payment, points, request, seen>>

\* updateShippingStatus: any status over any other.
SetShipping(c) ==
    /\ Running(c, "setShipping", "read")
    /\ shipping' = [shipping EXCEPT ![Order(c)] = request[c].to]
    /\ Goto(c, "done")
    /\ UNCHANGED <<status, payment, points, request, seen>>

-----------------------------------------------------------------------------
\* The server process dies and is started again: its calls are never answered
\* and what they had not written yet is never written.
Crash ==
    /\ \E c \in Calls : pc[c] \in InFlight
    /\ pc' = [c \in Calls |-> IF pc[c] \in InFlight THEN "lost" ELSE pc[c]]
    /\ UNCHANGED <<rows, request, seen>>

Step(c) ==
    \/ PayRead(c) \/ PayWrite(c) \/ PaySettle(c)
    \/ CancelRead(c) \/ CancelCheck(c) \/ CancelWrite(c)
    \/ PaymentCancelRead(c) \/ PaymentCancelCheck(c) \/ PaymentCancelWrite(c)
    \/ ProgressRead(c) \/ ProgressWrite(c)
    \/ SetShipping(c)

Finished == (\A c \in Calls : pc[c] \in Answered \union {"lost"}) /\ UNCHANGED vars

Next == (\E c \in Calls : Submit(c) \/ Step(c)) \/ Crash \/ Finished

Spec == Init /\ [][Next]_vars
SeededSpec == SeededInit /\ [][Next]_vars

\* A call that was accepted runs on while the process lives. No client has to
\* call, and nothing makes the process crash.
FairSpec == Spec /\ \A c \in Calls : WF_vars(Step(c))

-----------------------------------------------------------------------------
\* Types of the rows and of the calls, statuses within the enums of the schema.
TypeOK ==
    /\ status \in [Orders -> OrderStatus]
    /\ payment \in [Orders -> PaymentRow \union {NoPayment}]
    /\ shipping \in [Orders -> ShippingStatus]
    /\ points \in [Buyers -> Int]
    /\ request \in [Calls -> Requests]
    /\ pc \in [Calls -> {"idle", "lost"} \union InFlight \union Answered]
    /\ seen \in [Calls -> OrderStatus \union PaymentStatus \union ShippingStatus
                              \union {"None"}]

DoneOn(op, o) == {c \in Calls : Running(c, op, "done") /\ Order(c) = o}

\* The payment row and the order agree, up to the gap between the two writes of
\* createPayment. A payment belongs to the one call that completed it; an order
\* marked paid has that payment; one that is paid and still waits is between
\* the two writes, or the process died there.
PaidOrderKnown ==
    \A o \in Orders :
        LET payer == payment[o].txn IN
        /\ payment[o] = NoPayment \/ payment[o].status = "CompletedPayment"
        /\ payment[o] # NoPayment =>
              /\ payer \in Calls
              /\ request[payer].op = "pay" /\ Order(payer) = o
              /\ pc[payer] \in {"settle", "done", "lost"}
              /\ status[o] = "WaitingPayment" => pc[payer] # "done"
        /\ status[o] = "CompletedPayment" =>
              payment[o] # NoPayment /\ pc[payer] = "done"

\* At most one payment of an order succeeds, however many calls race for it
\* and whatever process dies in between.
PaidOnce == \A o \in Orders : Cardinality(DoneOn("pay", o)) <= 1

\* An order somebody was told is cancelled stays cancelled unless a payment for
\* it completes: no slow reader brings it back.
CancellationSticks ==
    \A o \in Orders :
        DoneOn("cancelOrder", o) # {} =>
            status[o] = "Canceled" \/ DoneOn("pay", o) # {}

\* The same of a payment its buyer was told is cancelled: row and order say so,
\* unless a call has written the payment as completed since or before.
PaymentCancellationSticks ==
    \A o \in Orders :
        DoneOn("cancelPayment", o) # {} =>
            \/ payment[o].status = "CanceledPayment" /\ status[o] = "Canceled"
            \/ payment[o].txn # NoCall

\* The points of a buyer are what they were and the refund of each cancellation
\* of each of the buyer's own orders, none lost among concurrent ones.
PointsAccount ==
    \A b \in Buyers :
        points[b] - InitPoints[b] =
            SumFunctionOnSet(
                [c \in Calls |-> Refund[Order(c)]],
                {c \in Calls : /\ Running(c, "cancelOrder", "done")
                               /\ BuyerOf[Order(c)] = b})

\* A captured payment never changes again.
PaymentFinal ==
    [][\A o \in Orders :
          payment[o].status = "CompletedPayment" => payment'[o] = payment[o]]_vars

\* A payment that went through shows at the order in the end, unless the process
\* died between the two writes.
PaidShows ==
    \A o \in Orders :
        payment[o].status = "CompletedPayment" ~>
            \/ status[o] # "WaitingPayment"
            \/ \E c \in Calls : Running(c, "pay", "lost")

Account == INSTANCE OrderAccount WITH
    captured <- [o \in Orders |-> payment[o].txn],
    settled <- {c \in Calls : Running(c, "pay", "done")}

\* Calls that race over an order implement the account of it: one capture, one
\* settlement by the call that captured, refunds to the order's buyer.
AccountSpec == Account!Spec

-----------------------------------------------------------------------------
\* Cancelling a cancelled order is refused, so its points come back once.
RefundedOnce == \A o \in Orders : Cardinality(DoneOn("cancelOrder", o)) <= 1

=============================================================================
