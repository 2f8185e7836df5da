---------------------------- MODULE OrderAccount ----------------------------
(***************************************************************************)
(* What payment and cancellation promise about an order that createOrder   *)
(* has made, without the requests that race for it: its payment is captured*)
(* at most once and never undone; only the call that captured it moves the *)
(* order to CompletedPayment, and once; a cancellation gives its buyer the *)
(* points of the order; nothing else moves points or status. That it is    *)
(* cancelled only once is not promised, nor that a cancelled order is never*)
(* marked paid.                                                            *)
(***************************************************************************)
EXTENDS Integers

CONSTANTS
    Buyers,     \* users of type BUYER
    Orders,     \* rows of Order
    BuyerOf,    \* [Orders -> Buyers], Order.buyerId
    Refund,     \* [Orders -> Nat], usedPoints + earnedPoints
    Calls,      \* identities of calls of the API
    NoCall      \* a payment row that no call has completed

VARIABLES
    status,     \* [Orders -> OrderStatus], Order.status
    captured,   \* [Orders -> Calls or NoCall], whose transactionId is paid
    settled,    \* captures whose order has been marked paid
    points      \* [Buyers -> Int], User.points

account == <<status, captured, settled, points>>

Init ==
    /\ status = [o \in Orders |-> "WaitingPayment"]
    /\ captured = [o \in Orders |-> NoCall]
    /\ settled = {}
    /\ points \in [Buyers -> Nat]

Capture(o, c) ==
    /\ captured[o] = NoCall
    /\ captured' = [captured EXCEPT ![o] = c]
    /\ UNCHANGED <<status, settled, points>>

Settle(o) ==
    /\ captured[o] \in Calls \ settled
    /\ settled' = settled \union {captured[o]}
    /\ status' = [status EXCEPT ![o] = "CompletedPayment"]
    /\ UNCHANGED <<captured, points>>

Cancel(o) ==
    /\ status' = [status EXCEPT ![o] = "Canceled"]
    /\ points' = [points EXCEPT ![BuyerOf[o]] = @ + Refund[o]]
    /\ UNCHANGED <<captured, settled>>

Next ==
    \E o \in Orders : Settle(o) \/ Cancel(o) \/ \E c \in Calls : Capture(o, c)

Spec == Init /\ [][Next]_account

=============================================================================
