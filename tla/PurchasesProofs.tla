-------------------------- MODULE PurchasesProofs --------------------------
(***************************************************************************)
(* Theorems about OrderLifecycle, Reviews and Purchases, which extend each *)
(* other, for any number of orders, items, payments and calls.             *)
(*                                                                         *)
(* OrderLifecycle: the invariant Inv says of every call, process deaths    *)
(* included, what its place means for the payment of its order; one        *)
(* payment per order and the implementation of OrderAccount follow.        *)
(* Reviews: every step is a step of OrderLifecycle or leaves it alone, so  *)
(* Inv holds of Reviews too and makes the review of an item one of a paid  *)
(* order; the count of the reviews rests on what an edit or a deletion     *)
(* knows of the review it names.                                           *)
(* Purchases: the tab knows of a shipping what a fetch brought, and each   *)
(* step keeps that a delivery it shows has taken place.                    *)
(***************************************************************************)
EXTENDS Purchases, SumTheorems

(***************************************************************************)
(* Payments, cancellations and shippings.                                  *)
(***************************************************************************)
\* A call that writes a payment has seen none; one that has written it is the
\* payer; and no payment is ever in a state in which it can be cancelled.
PayersKnown ==
    \A c \in Calls :
        /\ Running(c, "pay", "write") => seen[c] = "None"
        /\ request[c].op = "pay" /\ pc[c] \in {"settle", "done"} =>
              payment[Order(c)] = [status |-> "CompletedPayment", txn |-> c]
        /\ request[c].op = "cancelPayment" => pc[c] \notin {"check", "write", "done"}
        /\ request[c].op # "pay" => pc[c] # "settle"

Inv == TypeOK /\ PaidOrderKnown /\ PayersKnown

Places == {"idle", "lost"} \union InFlight \union Answered

\* Every call asks about an order, which has a buyer.
LEMMA CallTyped ==
    ASSUME TypeOK, NEW c \in Calls
    PROVE  /\ request[c] \in RequestType
           /\ Order(c) \in Orders
           /\ BuyerOf[Order(c)] \in Buyers
  BY LifecycleAssumption DEF TypeOK, RequestType, Order

LEMMA InitInv == Init => Inv
<1>. SUFFICES ASSUME Init PROVE Inv
  OBVIOUS
<1>1. TypeOK
  BY LifecycleAssumption
     DEF Init, InitCalls, TypeOK, OrderStatus, ShippingStatus, NoPayment
<1>2. PaidOrderKnown
  BY DEF Init, PaidOrderKnown
<1>3. PayersKnown
  BY DEF Init, InitCalls, PayersKnown, Running
<1>. QED
  BY <1>1, <1>2, <1>3 DEF Inv

\* A call that only moves on, past nothing it has written to a payment, leaves
\* what is known of payments as it was.
LEMMA QuietMove ==
    ASSUME Inv, NEW c \in Calls, NEW place \in Places,
           UNCHANGED <<status, payment, request>>,
           pc' = [pc EXCEPT ![c] = place],
           pc[c] \notin {"settle", "done", "lost"},
           place = "settle" => FALSE,
           place = "done" => request[c].op \notin {"pay", "cancelPayment"},
           request[c].op = "cancelPayment" => place \notin {"check", "write"},
           \A d \in Calls \ {c} : seen'[d] = seen[d],
           request[c].op = "pay" /\ place = "write" => seen'[c] = "None"
    PROVE  PaidOrderKnown' /\ PayersKnown'
<1>1. pc \in [Calls -> Places]
  BY DEF Inv, TypeOK, Places
<1>2. PaidOrderKnown'
  BY <1>1 DEF Inv, PaidOrderKnown, Order
<1>3. PayersKnown'
  BY <1>1 DEF Inv, PayersKnown, Running, Order
<1>. QED
  BY <1>2, <1>3

\* What a refused call and one that reads on do to the invariant.
LEMMA RefuseInv ==
    ASSUME Inv, NEW c \in Calls, pc[c] \in {"read", "check", "write"}, Refuse(c)
    PROVE  Inv'
<1>1. /\ UNCHANGED <<rows, request, seen>>
      /\ pc' = [pc EXCEPT ![c] = "refused"]
  BY DEF Refuse, Goto
<1>2. TypeOK'
  BY <1>1 DEF Inv, TypeOK, rows, Answered
<1>3. /\ "refused" \in Places
      /\ UNCHANGED <<status, payment, request>>
      /\ \A d \in Calls \ {c} : seen'[d] = seen[d]
      /\ pc[c] \notin {"settle", "done", "lost"}
  BY <1>1 DEF rows, Places, Answered
<1>4. PaidOrderKnown' /\ PayersKnown'
  BY <1>1, <1>3, QuietMove
<1>. QED
  BY <1>2, <1>4 DEF Inv

LEMMA SubmitInv ==
    ASSUME Inv, NEW c \in Calls, Submit(c)
    PROVE  Inv'
<1>1. PICK place \in {"read", "refused"} : pc' = [pc EXCEPT ![c] = place]
  BY DEF Submit, Goto
<1>2. pc[c] = "idle" /\ UNCHANGED <<rows, request, seen>>
  BY DEF Submit
<1>3. TypeOK'
  BY <1>1, <1>2 DEF Inv, TypeOK, rows, Answered, InFlight
<1>4. PaidOrderKnown' /\ PayersKnown'
  BY <1>1, <1>2, QuietMove DEF rows, Places, Answered, InFlight
<1>. QED
  BY <1>3, <1>4 DEF Inv

LEMMA PayReadInv ==
    ASSUME Inv, NEW c \in Calls, PayRead(c)
    PROVE  Inv'
<1>. DEFINE now == payment[Order(c)].status
<1>1. pc[c] = "read" /\ request[c].op = "pay"
  BY DEF PayRead, Running
<1>2. CASE now = "CompletedPayment"
  BY <1>1, <1>2, RefuseInv DEF PayRead
<1>3. CASE now # "CompletedPayment"
  <2>1. now = "None"
    BY <1>3, CallTyped DEF Inv, PaidOrderKnown, NoPayment
  <2>2. /\ seen' = [seen EXCEPT ![c] = now]
        /\ pc' = [pc EXCEPT ![c] = "write"]
        /\ UNCHANGED <<rows, request>>
    BY <1>3 DEF PayRead, See, Goto
  <2>3. TypeOK'
    BY <2>1, <2>2 DEF Inv, TypeOK, rows, InFlight
  <2>4. seen'[c] = "None" /\ \A d \in Calls \ {c} : seen'[d] = seen[d]
    BY <2>1, <2>2 DEF Inv, TypeOK
  <2>5. PaidOrderKnown' /\ PayersKnown'
    BY <1>1, <2>2, <2>4, QuietMove DEF rows, Places, InFlight
  <2>. QED
    BY <2>3, <2>5 DEF Inv
<1>. QED
  BY <1>2, <1>3

\* The create succeeds only where there is no payment, and its call is then
\* the payer.
LEMMA PayWriteInv ==
    ASSUME Inv, NEW c \in Calls, PayWrite(c)
    PROVE  Inv'
<1>. DEFINE o == Order(c)
<1>1. pc[c] = "write" /\ request[c].op = "pay" /\ seen[c] = "None"
  BY DEF PayWrite, Running, Inv, PayersKnown
<1>2. CASE payment[o] # NoPayment
  BY <1>1, <1>2, RefuseInv DEF PayWrite
<1>3. CASE payment[o] = NoPayment
  <2>. DEFINE row == [status |-> "CompletedPayment", txn |-> c]
  <2>0. /\ pc \in [Calls -> Places]
        /\ payment \in [Orders -> PaymentRow \union {NoPayment}]
        /\ o \in Orders
    BY CallTyped DEF Inv, TypeOK, Places
  <2>1. /\ payment' = [payment EXCEPT ![o] = row]
        /\ pc' = [pc EXCEPT ![c] = "settle"]
        /\ UNCHANGED <<status, shipping, points, request, seen>>
    BY <1>3 DEF PayWrite, Goto
  <2>2. row \in PaymentRow
    BY DEF PaymentRow, PaymentStatus
  <2>3. TypeOK'
    BY <2>1, <2>2 DEF Inv, TypeOK, InFlight
  <2>4. row # NoPayment
    BY DEF NoPayment
  <2>5. \A d \in Calls \ {c} : request[d].op = "pay" /\ pc[d] \in {"settle", "done"}
                                  => Order(d) # o
    <3>1. payment[o].status = "None"
      BY <1>3 DEF NoPayment
    <3>2. ASSUME NEW d \in Calls, request[d].op = "pay",
                 pc[d] \in {"settle", "done"}, Order(d) = o
          PROVE  FALSE
      <4>1. payment[o] = [status |-> "CompletedPayment", txn |-> d]
        BY <3>2 DEF Inv, PayersKnown
      <4>2. payment[o].status = "CompletedPayment"
        BY <4>1
      <4>. QED
        BY <3>1, <4>2
    <3>. QED
      BY <3>1, <3>2
  <2>6. PayersKnown'
    <3>1. \A d \in Calls \ {c} : pc'[d] = pc[d]
      BY <2>0, <2>1
    <3>2. payment'[o] = row /\ \A u \in Orders \ {o} : payment'[u] = payment[u]
      BY <2>0, <2>1
    <3>3. \A d \in Calls : Order(d) \in Orders
      BY CallTyped DEF Inv
    <3>4. pc'[c] = "settle"
      BY <2>0, <2>1
    <3>. SUFFICES ASSUME NEW d \in Calls
                  PROVE  /\ request[d].op = "pay" /\ pc'[d] = "write"
                               => seen[d] = "None"
                         /\ request[d].op = "pay" /\ pc'[d] \in {"settle", "done"}
                               => payment'[Order(d)] =
                                      [status |-> "CompletedPayment", txn |-> d]
                         /\ request[d].op = "cancelPayment"
                               => pc'[d] \notin {"check", "write", "done"}
                         /\ request[d].op # "pay" => pc'[d] # "settle"
      BY <2>1 DEF PayersKnown, Running, Order
    <3>5. CASE d = c
      BY <3>5, <1>1, <3>2, <3>4
    <3>6. CASE d # c
      BY <3>6, <2>5, <3>1, <3>2, <3>3 DEF Inv, PayersKnown, Running
    <3>. QED
      BY <3>5, <3>6
  <2>7. status[o] # "CompletedPayment"
    BY <1>3, <2>0 DEF Inv, PaidOrderKnown
  <2>8. PaidOrderKnown'
    <3>. SUFFICES ASSUME NEW u \in Orders
                  PROVE  LET payer == payment'[u].txn IN
                         /\ \/ payment'[u] = NoPayment
                            \/ payment'[u].status = "CompletedPayment"
                         /\ payment'[u] # NoPayment =>
                               /\ payer \in Calls
                               /\ request[payer].op = "pay"
                               /\ request[payer].order = u
                               /\ pc'[payer] \in {"settle", "done", "lost"}
                               /\ status[u] = "WaitingPayment" => pc'[payer] # "done"
                         /\ status[u] = "CompletedPayment" =>
                               payment'[u] # NoPayment /\ pc'[payer] = "done"
      BY <2>1 DEF PaidOrderKnown, Order
    <3>1. CASE u = o
      BY <3>1, <1>1, <2>0, <2>1, <2>7 DEF Order
    <3>2. CASE u # o
      <4>1. payment'[u] = payment[u]
        BY <3>2, <2>0, <2>1
      <4>2. payment[u] # NoPayment => payment[u].txn # c
        BY <3>2, <1>1 DEF Inv, PaidOrderKnown
      <4>3. payment[u] # NoPayment => pc'[payment[u].txn] = pc[payment[u].txn]
        BY <2>0, <2>1, <4>2 DEF Inv, PaidOrderKnown
      <4>. QED
        BY <4>1, <4>3 DEF Inv, PaidOrderKnown, Order
    <3>. QED
      BY <3>1, <3>2
  <2>. QED
    BY <2>3, <2>6, <2>8 DEF Inv
<1>. QED
  BY <1>2, <1>3

LEMMA PaySettleInv ==
    ASSUME Inv, NEW c \in Calls, PaySettle(c)
    PROVE  Inv'
<1>. DEFINE o == Order(c)
<1>1. /\ pc[c] = "settle" /\ request[c].op = "pay"
      /\ status' = [status EXCEPT ![o] = "CompletedPayment"]
      /\ pc' = [pc EXCEPT ![c] = "done"]
      /\ UNCHANGED <<payment, shipping, points, request, seen>>
  BY DEF PaySettle, Running, Goto
<1>2. /\ pc \in [Calls -> Places]
      /\ status \in [Orders -> OrderStatus]
      /\ o \in Orders
  BY CallTyped DEF Inv, TypeOK, Places
<1>3. payment[o] = [status |-> "CompletedPayment", txn |-> c]
  BY <1>1 DEF Inv, PayersKnown
<1>4. TypeOK'
  BY <1>1 DEF Inv, TypeOK, OrderStatus, Answered
<1>5. PayersKnown'
  BY <1>1, <1>2, <1>3 DEF Inv, PayersKnown, Running, Order
<1>6. payment[o] # NoPayment /\ payment[o].txn = c
  BY <1>3 DEF NoPayment
<1>7. PaidOrderKnown'
  BY <1>1, <1>2, <1>6 DEF Inv, PaidOrderKnown, Order
<1>. QED
  BY <1>4, <1>5, <1>7 DEF Inv

LEMMA CancelInv ==
    ASSUME Inv, NEW c \in Calls,
           CancelRead(c) \/ CancelCheck(c) \/ CancelWrite(c)
    PROVE  Inv'
<1>0. request[c].op = "cancelOrder" /\ pc[c] \in {"read", "check", "write"}
  BY DEF CancelRead, CancelCheck, CancelWrite, Running
<1>1. CASE CancelRead(c)
  <2>1. /\ seen' = [seen EXCEPT ![c] = status[Order(c)]]
        /\ pc' = [pc EXCEPT ![c] = "check"]
        /\ UNCHANGED <<rows, request>>
    BY <1>1 DEF CancelRead, See, Goto
  <2>2. TypeOK'
    BY <2>1, CallTyped DEF Inv, TypeOK, rows, InFlight
  <2>3. /\ "check" \in Places
        /\ UNCHANGED <<status, payment, request>>
        /\ \A d \in Calls \ {c} : seen'[d] = seen[d]
        /\ pc[c] \notin {"settle", "done", "lost"}
    BY <1>0, <2>1 DEF rows, Places, InFlight, Inv, TypeOK
  <2>4. PaidOrderKnown' /\ PayersKnown'
    BY <1>0, <2>1, <2>3, QuietMove
  <2>. QED
    BY <2>2, <2>4 DEF Inv
<1>2. CASE CancelCheck(c) /\ Refuse(c)
  BY <1>0, <1>2, RefuseInv
<1>3. CASE CancelCheck(c) /\ ~Refuse(c)
  <2>1. /\ pc' = [pc EXCEPT ![c] = "write"]
        /\ UNCHANGED <<rows, request, seen>>
    BY <1>3 DEF CancelCheck, Goto
  <2>2. TypeOK'
    BY <2>1 DEF Inv, TypeOK, rows, InFlight
  <2>3. /\ "write" \in Places
        /\ UNCHANGED <<status, payment, request>>
        /\ \A d \in Calls \ {c} : seen'[d] = seen[d]
        /\ pc[c] \notin {"settle", "done", "lost"}
    BY <1>0, <2>1 DEF rows, Places, InFlight
  <2>4. PaidOrderKnown' /\ PayersKnown'
    BY <1>0, <2>1, <2>3, QuietMove
  <2>. QED
    BY <2>2, <2>4 DEF Inv
<1>4. CASE CancelWrite(c)
  <2>1. /\ status' = [status EXCEPT ![Order(c)] = "Canceled"]
        /\ points' = [points EXCEPT ![request[c].by] = @ + Refund[Order(c)]]
        /\ pc' = [pc EXCEPT ![c] = "done"]
        /\ UNCHANGED <<payment, shipping, request, seen>>
    BY <1>4 DEF CancelWrite, Goto
  <2>2. /\ pc \in [Calls -> Places]
        /\ status \in [Orders -> OrderStatus]
        /\ points \in [Buyers -> Int]
        /\ Order(c) \in Orders
        /\ Refund[Order(c)] \in Nat
        /\ request[c].by \in Buyers
    BY CallTyped, LifecycleAssumption DEF Inv, TypeOK, Places, RequestType
  <2>3. status' \in [Orders -> OrderStatus] /\ points' \in [Buyers -> Int]
    BY <2>1, <2>2 DEF OrderStatus
  <2>4. TypeOK'
    BY <2>1, <2>3 DEF Inv, TypeOK, Answered
  <2>5. PayersKnown'
    BY <1>0, <2>1, <2>2 DEF Inv, PayersKnown, Running, Order
  <2>6. PaidOrderKnown'
    BY <1>0, <2>1, <2>2 DEF Inv, PaidOrderKnown, Order
  <2>. QED
    BY <2>4, <2>5, <2>6 DEF Inv
<1>. QED
  BY <1>1, <1>2, <1>3, <1>4

\* No payment of these orders waits, so its cancellation is always refused.
LEMMA PaymentCancelInv ==
    ASSUME Inv, NEW c \in Calls,
           \/ PaymentCancelRead(c) \/ PaymentCancelCheck(c)
           \/ PaymentCancelWrite(c)
    PROVE  PaymentCancelRead(c) /\ Inv'
<1>1. PaymentCancelRead(c) /\ pc[c] = "read"
  BY DEF PaymentCancelRead, PaymentCancelCheck, PaymentCancelWrite, Running,
         Inv, PayersKnown
<1>2. payment[Order(c)].status # "WaitingPayment"
  <2>1. payment[Order(c)] = NoPayment
            \/ payment[Order(c)].status = "CompletedPayment"
    BY CallTyped DEF Inv, PaidOrderKnown
  <2>2. NoPayment.status = "None"
    BY DEF NoPayment
  <2>. QED
    BY <2>1, <2>2
<1>3. Refuse(c)
  BY <1>1, <1>2 DEF PaymentCancelRead
<1>. QED
  BY <1>1, <1>3, RefuseInv

LEMMA ShippingInv ==
    ASSUME Inv, NEW c \in Calls,
           ProgressRead(c) \/ ProgressWrite(c) \/ SetShipping(c)
    PROVE  Inv' /\ UNCHANGED <<status, payment, points>>
<1>1. PICK place \in {"done", "write"} : pc' = [pc EXCEPT ![c] = place]
  <2>1. CASE ProgressRead(c)
    BY <2>1 DEF ProgressRead, See, Goto
  <2>2. CASE ProgressWrite(c) \/ SetShipping(c)
    BY <2>2 DEF ProgressWrite, SetShipping, Goto
  <2>. QED
    BY <2>1, <2>2
<1>2. /\ request[c].op \in {"progress", "setShipping"}
      /\ pc[c] \in {"read", "write"}
      /\ UNCHANGED <<status, payment, points, request>>
  BY DEF ProgressRead, ProgressWrite, SetShipping, Running, See, rows
<1>3. shipping' \in [Orders -> ShippingStatus]
  <2>1. CASE ProgressRead(c)
    BY <2>1 DEF ProgressRead, See, rows, Inv, TypeOK
  <2>2. CASE ProgressWrite(c)
    BY <2>2 DEF ProgressWrite, NextShipping, ShippingStatus, Inv, TypeOK
  <2>3. CASE SetShipping(c)
    BY <2>3, CallTyped DEF SetShipping, Inv, TypeOK, RequestType
  <2>. QED
    BY <2>1, <2>2, <2>3
<1>4. \/ seen' = seen
      \/ /\ seen' = [seen EXCEPT ![c] = shipping[Order(c)]]
         /\ shipping[Order(c)] \in ShippingStatus
  BY CallTyped
     DEF ProgressRead, ProgressWrite, SetShipping, See, Inv, TypeOK
<1>5. TypeOK'
  BY <1>1, <1>2, <1>3, <1>4 DEF Inv, TypeOK, Answered, InFlight
<1>6. /\ place \in Places
      /\ \A d \in Calls \ {c} : seen'[d] = seen[d]
      /\ pc[c] \notin {"settle", "done", "lost"}
  BY <1>2, <1>4 DEF Places, Answered, InFlight, Inv, TypeOK
<1>7. PaidOrderKnown' /\ PayersKnown'
  BY <1>1, <1>2, <1>6, QuietMove
<1>. QED
  BY <1>2, <1>5, <1>7 DEF Inv

\* A death between the two writes of createPayment leaves a paid order waiting,
\* which is what the invariant says of it.
LEMMA CrashInv == Inv /\ Crash => Inv'
<1>. SUFFICES ASSUME Inv, Crash PROVE Inv'
  OBVIOUS
<1>1. /\ pc' = [c \in Calls |-> IF pc[c] \in InFlight THEN "lost" ELSE pc[c]]
      /\ UNCHANGED <<rows, request, seen>>
  BY DEF Crash
<1>2. TypeOK'
  BY <1>1 DEF Inv, TypeOK, rows, InFlight
<1>3. PaidOrderKnown'
  BY <1>1 DEF Inv, PaidOrderKnown, Order, rows, InFlight
<1>4. PayersKnown'
  BY <1>1 DEF Inv, PayersKnown, Running, Order, rows, InFlight
<1>. QED
  BY <1>2, <1>3, <1>4 DEF Inv

LEMMA NextInv == Inv /\ [Next]_vars => Inv'
<1>. SUFFICES ASSUME Inv, [Next]_vars PROVE Inv'
  OBVIOUS
<1>1. CASE UNCHANGED vars
  BY <1>1 DEF Inv, TypeOK, PaidOrderKnown, PayersKnown, Running, Order, vars, rows
<1>2. ASSUME NEW c \in Calls, Submit(c) PROVE Inv'
  BY <1>2, SubmitInv
<1>3. ASSUME NEW c \in Calls, Step(c) PROVE Inv'
  BY <1>3, PayReadInv, PayWriteInv, PaySettleInv, CancelInv, PaymentCancelInv,
     ShippingInv DEF Step
<1>. QED
  BY <1>1, <1>2, <1>3, CrashInv DEF Next, Finished

LEMMA InvHolds == Spec => []Inv
  BY InitInv, NextInv, PTL DEF Spec

\* Every row and every call keeps its type under any race and any crash.
THEOREM LifecycleTypeCorrect == Spec => []TypeOK
<1>1. Inv => TypeOK
  BY DEF Inv
<1>. QED
  BY <1>1, InvHolds, PTL

\* Payment row and order agree but for the gap between the two writes of
\* createPayment, and that gap has a name: the call that is, or died, in it.
THEOREM PaidOrdersAreKnown == Spec => []PaidOrderKnown
<1>1. Inv => PaidOrderKnown
  BY DEF Inv
<1>. QED
  BY <1>1, InvHolds, PTL

\* At most one payment of an order is answered with success.
LEMMA OnePayer == Inv => PaidOnce
<1>. SUFFICES ASSUME Inv, NEW o \in Orders
              PROVE  Cardinality(DoneOn("pay", o)) <= 1
  BY DEF PaidOnce
<1>1. ASSUME NEW c \in DoneOn("pay", o) PROVE c = payment[o].txn
  <2>1. payment[o] = [status |-> "CompletedPayment", txn |-> c]
    BY <1>1 DEF DoneOn, Running, Inv, PayersKnown
  <2>. QED
    BY <2>1
<1>2. DoneOn("pay", o) = {} \/ DoneOn("pay", o) = {payment[o].txn}
  BY <1>1
<1>3. Cardinality({}) = 0 /\ Cardinality({payment[o].txn}) = 1
  BY FS_EmptySet, FS_Singleton
<1>. QED
  BY <1>2, <1>3

\* At most one payment of an order is answered with success, whatever races.
THEOREM OnePaymentPerOrder == Spec => []PaidOnce
  BY OnePayer, InvHolds, PTL

-----------------------------------------------------------------------------
\* Only the four writes touch status, payment and points, and what each writes.
LEMMA Writes ==
    ASSUME Inv, [Next]_vars
    PROVE  /\ UNCHANGED request
           /\ \/ /\ UNCHANGED <<status, payment, points>>
                 /\ \A c \in Calls :
                       request[c].op \in {"pay", "cancelOrder"} =>
                           (pc'[c] = "done" <=> pc[c] = "done")
              \/ \E c \in Calls : PayWrite(c) /\ payment[Order(c)] = NoPayment
              \/ \E c \in Calls : PaySettle(c)
              \/ \E c \in Calls : CancelWrite(c)
<1>. DEFINE Quiet == /\ UNCHANGED <<request, status, payment, points>>
                    /\ \A c \in Calls :
                          request[c].op \in {"pay", "cancelOrder"} =>
                              (pc'[c] = "done" <=> pc[c] = "done")
<1>1. pc \in [Calls -> Places]
  BY DEF Inv, TypeOK, Places
<1>2. CASE UNCHANGED vars
  BY <1>2 DEF vars, rows
<1>3. CASE Crash
  BY <1>3 DEF Crash, rows, InFlight
<1>4. ASSUME NEW c \in Calls, pc[c] # "done",
             NEW place \in Places \ {"done"}, Goto(c, place),
             UNCHANGED <<rows, request>>
      PROVE  Quiet
  BY <1>1, <1>4 DEF Goto, rows
<1>5. ASSUME NEW c \in Calls, Submit(c) PROVE Quiet
  <2>1. PICK place \in {"read", "refused"} : Goto(c, place)
    BY <1>5 DEF Submit
  <2>2. pc[c] # "done" /\ UNCHANGED <<rows, request>>
    BY <1>5 DEF Submit
  <2>. QED
    BY <1>4, <2>1, <2>2 DEF Places, InFlight, Answered
<1>6. ASSUME NEW c \in Calls, PayRead(c) \/ CancelRead(c) \/ CancelCheck(c)
                                  \/ PaymentCancelRead(c) \/ (PayWrite(c) /\ Refuse(c))
      PROVE  Quiet
  <2>1. PICK place \in {"check", "write", "refused"} : Goto(c, place)
    BY <1>6 DEF PayRead, CancelRead, CancelCheck, PaymentCancelRead, Refuse, See
  <2>2. pc[c] # "done" /\ UNCHANGED <<rows, request>>
    BY <1>6 DEF PayRead, CancelRead, CancelCheck, PaymentCancelRead, Refuse, See,
                Running, PayWrite
  <2>. QED
    BY <1>4, <2>1, <2>2 DEF Places, InFlight, Answered
<1>7. ASSUME NEW c \in Calls, ProgressRead(c) \/ ProgressWrite(c) \/ SetShipping(c)
      PROVE  Quiet
  <2>1. /\ UNCHANGED <<request, status, payment, points>>
        /\ request[c].op \in {"progress", "setShipping"}
        /\ \A d \in Calls \ {c} : pc'[d] = pc[d]
    BY <1>1, <1>7 DEF ProgressRead, ProgressWrite, SetShipping, Running, See, Goto, rows
  <2>. QED
    BY <2>1
<1>8. ASSUME NEW c \in Calls, PayWrite(c)
      PROVE  Refuse(c) \/ (payment[Order(c)] = NoPayment /\ UNCHANGED request)
  BY <1>8 DEF PayWrite, Inv, PayersKnown
<1>9. ASSUME NEW c \in Calls, PaySettle(c) \/ CancelWrite(c)
      PROVE  UNCHANGED request
  BY <1>9 DEF PaySettle, CancelWrite
<1>10. ASSUME NEW c \in Calls,
              \/ PaymentCancelRead(c) \/ PaymentCancelCheck(c)
              \/ PaymentCancelWrite(c)
       PROVE  PaymentCancelRead(c)
  BY <1>10, PaymentCancelInv
<1>. QED
  BY <1>2, <1>3, <1>5, <1>6, <1>7, <1>8, <1>9, <1>10 DEF Next, Step, Finished

\* What has been cancelled changes only by a cancellation and by the settlement
\* of a payment.
LEMMA NextSticks == Inv /\ CancellationSticks /\ [Next]_vars => CancellationSticks'
<1>. SUFFICES ASSUME Inv, CancellationSticks, [Next]_vars,
                     NEW o \in Orders, DoneOn("cancelOrder", o)' # {},
                     DoneOn("pay", o)' = {}
              PROVE  status'[o] = "Canceled"
  BY DEF CancellationSticks
<1>0. /\ pc \in [Calls -> Places]
      /\ status \in [Orders -> OrderStatus]
      /\ UNCHANGED request
  BY Writes DEF Inv, TypeOK, Places
<1>1. CASE /\ UNCHANGED <<status, payment, points>>
           /\ \A c \in Calls :
                 request[c].op \in {"pay", "cancelOrder"} =>
                     (pc'[c] = "done" <=> pc[c] = "done")
  BY <1>0, <1>1 DEF CancellationSticks, DoneOn, Running, Order
<1>2. ASSUME NEW c \in Calls, PayWrite(c), payment[Order(c)] = NoPayment
      PROVE  status'[o] = "Canceled"
  <2>1. /\ pc' = [pc EXCEPT ![c] = "settle"] /\ UNCHANGED status
        /\ pc[c] = "write"
    BY <1>2 DEF PayWrite, Goto, Running
  <2>. QED
    BY <1>0, <2>1 DEF CancellationSticks, DoneOn, Running, Order
<1>3. ASSUME NEW c \in Calls, PaySettle(c)
      PROVE  status'[o] = "Canceled"
  <2>1. /\ pc' = [pc EXCEPT ![c] = "done"]
        /\ status' = [status EXCEPT ![Order(c)] = "CompletedPayment"]
        /\ request[c].op = "pay"
    BY <1>3 DEF PaySettle, Goto, Running
  <2>2. Order(c) # o
    BY <1>0, <2>1 DEF DoneOn, Running, Order
  <2>. QED
    BY <1>0, <2>1, <2>2 DEF CancellationSticks, DoneOn, Running, Order
<1>4. ASSUME NEW c \in Calls, CancelWrite(c)
      PROVE  status'[o] = "Canceled"
  <2>1. /\ pc' = [pc EXCEPT ![c] = "done"]
        /\ status' = [status EXCEPT ![Order(c)] = "Canceled"]
        /\ request[c].op = "cancelOrder"
    BY <1>4 DEF CancelWrite, Goto, Running
  <2>2. CASE Order(c) = o
    BY <1>0, <2>1, <2>2
  <2>3. CASE Order(c) # o
    BY <1>0, <2>1, <2>3 DEF CancellationSticks, DoneOn, Running, Order
  <2>. QED
    BY <2>2, <2>3
<1>. QED
  BY <1>1, <1>2, <1>3, <1>4, Writes

\* An order its buyer was told is cancelled stays cancelled unless it is paid.
THEOREM CancellationsStick == Spec => []CancellationSticks
<1>1. Init => CancellationSticks
  BY DEF Init, InitCalls, CancellationSticks, DoneOn, Running
<1>2. Init /\ [][Next]_vars /\ []Inv => []CancellationSticks
  BY <1>1, NextSticks, PTL
<1>. QED
  BY <1>2, InvHolds, PTL DEF Spec

\* Of the writes only a create touches a payment, where there was none.
LEMMA PaymentStep ==
    Inv /\ [Next]_vars =>
        [\A o \in Orders :
            payment[o].status = "CompletedPayment" => payment'[o] = payment[o]]_vars
<1>. SUFFICES ASSUME Inv, [Next]_vars, NEW o \in Orders,
                     payment[o].status = "CompletedPayment"
              PROVE  payment'[o] = payment[o]
  OBVIOUS
<1>1. CASE UNCHANGED payment
  BY <1>1
<1>2. ASSUME NEW c \in Calls, PayWrite(c), payment[Order(c)] = NoPayment
      PROVE  payment'[o] = payment[o]
  <2>1. payment' = [payment EXCEPT
            ![Order(c)] = [status |-> "CompletedPayment", txn |-> c]]
    BY <1>2 DEF PayWrite
  <2>2. NoPayment.status = "None"
    BY DEF NoPayment
  <2>3. Order(c) # o
    BY <1>2, <2>2
  <2>. QED
    BY <2>1, <2>3 DEF Inv, TypeOK
<1>3. ASSUME NEW c \in Calls, PaySettle(c) \/ CancelWrite(c)
      PROVE  UNCHANGED payment
  BY <1>3 DEF PaySettle, CancelWrite
<1>. QED
  BY <1>1, <1>2, <1>3, Writes

\* A captured payment is final.
THEOREM PaymentsAreFinal == Spec => PaymentFinal
<1>1. [][Next]_vars /\ []Inv => PaymentFinal
  BY PaymentStep, PTL DEF PaymentFinal
<1>. QED
  BY <1>1, InvHolds, PTL DEF Spec

-----------------------------------------------------------------------------
\* A cancellation that got to its transaction is its buyer's.
OwnersCancel ==
    \A c \in Calls : Running(c, "cancelOrder", "write") => Owner(c)

\* A call gets to the write of a cancellation only past the check of the owner.
LEMMA NextOwners == Inv /\ OwnersCancel /\ [Next]_vars => OwnersCancel'
<1>. SUFFICES ASSUME Inv, OwnersCancel, [Next]_vars, NEW d \in Calls,
                     Running(d, "cancelOrder", "write")'
              PROVE  Owner(d)'
  BY DEF OwnersCancel
<1>0. pc \in [Calls -> Places] /\ UNCHANGED request
  BY Writes DEF Inv, TypeOK, Places
<1>1. request[d].op = "cancelOrder" /\ pc'[d] = "write" /\ (Owner(d) => Owner(d)')
  BY <1>0 DEF Running, Owner, Order
<1>2. CASE pc[d] = "write"
  BY <1>1, <1>2 DEF OwnersCancel, Running
<1>3. CASE pc[d] # "write"
  <2>1. ASSUME NEW c \in Calls, NEW place \in Places \ {"write"}, Goto(c, place)
        PROVE  FALSE
    BY <1>0, <1>1, <1>3, <2>1 DEF Goto
  <2>2. ASSUME NEW c \in Calls, NEW place \in Places, Goto(c, place),
               request[c].op # "cancelOrder"
        PROVE  FALSE
    BY <1>0, <1>1, <1>3, <2>2 DEF Goto
  <2>3. CASE Crash \/ UNCHANGED vars
    BY <1>0, <1>1, <1>3, <2>3 DEF Crash, InFlight, vars
  <2>4. ASSUME NEW c \in Calls, Submit(c) \/ CancelRead(c) \/ CancelWrite(c)
        PROVE  FALSE
    <3>1. PICK place \in {"read", "refused", "check", "done"} : Goto(c, place)
      BY <2>4 DEF Submit, CancelRead, CancelWrite, See
    <3>. QED
      BY <2>1, <3>1 DEF Places, InFlight, Answered
  <2>5. ASSUME NEW c \in Calls, CancelCheck(c) PROVE Owner(d)
    <3>1. CASE Refuse(c)
      BY <2>1, <3>1 DEF Refuse, Places, Answered
    <3>2. CASE ~Refuse(c)
      <4>1. Goto(c, "write") /\ Owner(c)
        BY <2>5, <3>2 DEF CancelCheck
      <4>2. c = d
        BY <1>0, <1>1, <1>3, <4>1 DEF Goto
      <4>. QED
        BY <4>1, <4>2
    <3>. QED
      BY <3>1, <3>2
  <2>6. ASSUME NEW c \in Calls,
               \/ PayRead(c) \/ PayWrite(c) \/ PaySettle(c)
               \/ PaymentCancelRead(c) \/ PaymentCancelCheck(c)
               \/ PaymentCancelWrite(c)
               \/ ProgressRead(c) \/ ProgressWrite(c) \/ SetShipping(c)
        PROVE  FALSE
    <3>1. request[c].op # "cancelOrder"
      BY <2>6 DEF PayRead, PayWrite, PaySettle, PaymentCancelRead,
                  PaymentCancelCheck, PaymentCancelWrite, ProgressRead,
                  ProgressWrite, SetShipping, Running
    <3>2. PICK place \in {"check", "write", "settle", "done", "refused"} :
              Goto(c, place)
      BY <2>6 DEF PayRead, PayWrite, PaySettle, PaymentCancelRead,
                  PaymentCancelCheck, PaymentCancelWrite, ProgressRead,
                  ProgressWrite, SetShipping, See, Refuse
    <3>. QED
      BY <2>2, <3>1, <3>2 DEF Places, InFlight, Answered
  <2>. QED
    BY <1>1, <2>3, <2>4, <2>5, <2>6 DEF Next, Step, Finished
<1>. QED
  BY <1>2, <1>3

LEMMA OwnersHold == Spec => []OwnersCancel
<1>1. Init => OwnersCancel
  BY DEF Init, InitCalls, OwnersCancel, Running
<1>2. Init /\ [][Next]_vars /\ []Inv => []OwnersCancel
  BY <1>1, NextOwners, PTL
<1>. QED
  BY <1>2, InvHolds, PTL DEF Spec

\* A step of a call is a step of the account, or none.
LEMMA AccountStep ==
    Inv /\ OwnersCancel /\ [Next]_vars => [Account!Next]_(Account!account)
<1>. SUFFICES ASSUME Inv, OwnersCancel, [Next]_vars
              PROVE  Account!Next \/ UNCHANGED Account!account
  OBVIOUS
<1>. DEFINE captured == [o \in Orders |-> payment[o].txn]
            settled == {c \in Calls : Running(c, "pay", "done")}
<1>0. /\ pc \in [Calls -> Places]
      /\ payment \in [Orders -> PaymentRow \union {NoPayment}]
      /\ UNCHANGED request
      /\ \A c \in Calls : Order(c) \in Orders
  BY Writes, CallTyped DEF Inv, TypeOK, Places
<1>1. CASE /\ UNCHANGED <<status, payment, points>>
           /\ \A c \in Calls :
                 request[c].op \in {"pay", "cancelOrder"} =>
                     (pc'[c] = "done" <=> pc[c] = "done")
  <2>1. UNCHANGED <<captured, settled>>
    BY <1>0, <1>1 DEF Running
  <2>. QED
    BY <1>1, <2>1 DEF Account!account
<1>2. ASSUME NEW c \in Calls, PayWrite(c), payment[Order(c)] = NoPayment
      PROVE  Account!Capture(Order(c), c)
  <2>. DEFINE row == [status |-> "CompletedPayment", txn |-> c]
  <2>1. /\ pc' = [pc EXCEPT ![c] = "settle"]
        /\ payment' = [payment EXCEPT ![Order(c)] = row]
        /\ UNCHANGED <<status, points>>
        /\ pc[c] = "write"
    BY <1>2 DEF PayWrite, Goto, Running
  <2>2. settled' = settled
    BY <1>0, <2>1 DEF Running
  <2>3. captured[Order(c)] = NoCall
    BY <1>0, <1>2 DEF NoPayment
  <2>4. row.txn = c
    OBVIOUS
  <2>5. captured' = [captured EXCEPT ![Order(c)] = c]
    BY <1>0, <2>1, <2>4
  <2>. QED
    BY <2>1, <2>2, <2>3, <2>5 DEF Account!Capture
<1>3. ASSUME NEW c \in Calls, PaySettle(c)
      PROVE  Account!Settle(Order(c))
  <2>1. /\ pc' = [pc EXCEPT ![c] = "done"]
        /\ status' = [status EXCEPT ![Order(c)] = "CompletedPayment"]
        /\ UNCHANGED <<payment, points>>
        /\ request[c].op = "pay" /\ pc[c] = "settle"
    BY <1>3 DEF PaySettle, Goto, Running
  <2>2. payment[Order(c)] = [status |-> "CompletedPayment", txn |-> c]
    BY <2>1 DEF Inv, PayersKnown
  <2>3. captured[Order(c)] = c
    BY <1>0, <2>2
  <2>4. c \notin settled /\ settled' = settled \union {c}
    BY <1>0, <2>1 DEF Running
  <2>5. captured' = captured
    BY <2>1
  <2>. QED
    BY <2>1, <2>3, <2>4, <2>5 DEF Account!Settle
<1>4. ASSUME NEW c \in Calls, CancelWrite(c)
      PROVE  Account!Cancel(Order(c))
  <2>1. /\ pc' = [pc EXCEPT ![c] = "done"]
        /\ status' = [status EXCEPT ![Order(c)] = "Canceled"]
        /\ points' = [points EXCEPT ![request[c].by] = @ + Refund[Order(c)]]
        /\ UNCHANGED payment
        /\ request[c].op = "cancelOrder"
    BY <1>4 DEF CancelWrite, Goto, Running
  <2>2. request[c].by = BuyerOf[Order(c)]
    BY <1>4 DEF CancelWrite, OwnersCancel, Running, Owner
  <2>3. settled' = settled /\ captured' = captured
    BY <1>0, <2>1 DEF Running
  <2>. QED
    BY <2>1, <2>2, <2>3 DEF Account!Cancel
<1>. QED
  BY <1>0, <1>1, <1>2, <1>3, <1>4, Writes DEF Account!Next

\* Racing calls implement the account of an order: one capture, one settlement
\* by the call that captured, and a refund to the order's buyer for every
\* cancellation.
THEOREM LifecycleImplementsAccount == Spec => AccountSpec
<1>1. Init => Account!Init
  BY LifecycleAssumption
     DEF Init, InitCalls, NoPayment, Running, Account!Init
<1>2. [][Next]_vars /\ []Inv /\ []OwnersCancel
          => [][Account!Next]_(Account!account)
  BY AccountStep, PTL
<1>. QED
  BY <1>1, <1>2, InvHolds, OwnersHold, PTL DEF Spec, AccountSpec, Account!Spec

-----------------------------------------------------------------------------
\* Each cancellation that commits adds one call to those of the buyer, and its
\* refund to their sum.
Cancellations(b) ==
    {c \in Calls : /\ Running(c, "cancelOrder", "done")
                   /\ BuyerOf[Order(c)] = b}

RefundOf == [c \in Calls |-> Refund[Order(c)]]

Accounted == (\A b \in Buyers : IsFiniteSet(Cancellations(b))) /\ PointsAccount

\* Points move when a cancellation of the buyer is carried out, and then by its
\* refund: one more call counted is one more refund summed.
LEMMA NextAccounted ==
    Inv /\ OwnersCancel /\ Accounted /\ [Next]_vars => Accounted'
<1>. SUFFICES ASSUME Inv, OwnersCancel, Accounted, [Next]_vars
              PROVE  Accounted'
  OBVIOUS
<1>0. /\ pc \in [Calls -> Places]
      /\ points \in [Buyers -> Int]
      /\ UNCHANGED request
      /\ RefundOf' = RefundOf
      /\ \A c \in Calls : RefundOf[c] \in Nat
  BY Writes, CallTyped, LifecycleAssumption
     DEF Inv, TypeOK, Places, RefundOf, Order
<1>1. ASSUME UNCHANGED points,
             \A c \in Calls : request[c].op = "cancelOrder" =>
                                 (pc'[c] = "done" <=> pc[c] = "done")
      PROVE  Accounted'
  <2>1. \A b : Cancellations(b)' = Cancellations(b)
    BY <1>0, <1>1 DEF Cancellations, Running, Order
  <2>. QED
    BY <1>0, <1>1, <2>1 DEF Accounted, PointsAccount, Cancellations, RefundOf
<1>2. ASSUME NEW c \in Calls, PayWrite(c), payment[Order(c)] = NoPayment
      PROVE  Accounted'
  BY <1>0, <1>1, <1>2 DEF PayWrite, Goto, Running
<1>3. ASSUME NEW c \in Calls, PaySettle(c) PROVE Accounted'
  BY <1>0, <1>1, <1>3 DEF PaySettle, Goto, Running
<1>4. ASSUME NEW c \in Calls, CancelWrite(c) PROVE Accounted'
  <2>0. PICK a \in Buyers : a = BuyerOf[Order(c)]
    BY CallTyped DEF Inv
  <2>1. /\ pc' = [pc EXCEPT ![c] = "done"]
        /\ points' = [points EXCEPT ![request[c].by] = @ + Refund[Order(c)]]
        /\ request[c].op = "cancelOrder" /\ pc[c] = "write"
    BY <1>4 DEF CancelWrite, Goto, Running
  <2>2. a = request[c].by
    BY <1>4, <2>0 DEF CancelWrite, OwnersCancel, Running, Owner
  <2>3. /\ c \notin Cancellations(a)
        /\ Cancellations(a)' = Cancellations(a) \union {c}
        /\ \A b \in Buyers \ {a} : Cancellations(b)' = Cancellations(b)
    BY <1>0, <2>0, <2>1 DEF Cancellations, Running, Order
  <2>4. \A b \in Buyers : IsFiniteSet(Cancellations(b)')
    <3>1. IsFiniteSet(Cancellations(a)')
      BY <2>3, FS_AddElement DEF Accounted
    <3>. QED
      BY <2>3, <3>1 DEF Accounted
  <2>5. SumFunctionOnSet(RefundOf, Cancellations(a) \union {c})
            = RefundOf[c] + SumFunctionOnSet(RefundOf, Cancellations(a))
    <3>1. IsFiniteSet(Cancellations(a)) /\ Cancellations(a) \subseteq Calls
      BY <2>2 DEF Accounted, Cancellations
    <3>. QED
      BY <1>0, <2>3, <3>1, SumAdd
  <2>6. ASSUME NEW b \in Buyers
        PROVE  points'[b] - InitPoints[b]
                   = SumFunctionOnSet(RefundOf', Cancellations(b)')
    <3>1. points[b] - InitPoints[b] = SumFunctionOnSet(RefundOf, Cancellations(b))
      BY DEF Accounted, PointsAccount, Cancellations, RefundOf
    <3>2. points[b] \in Int /\ InitPoints[b] \in Int
      BY <1>0, LifecycleAssumption
    <3>3. CASE b = a
      <4>1. points'[a] = points[a] + RefundOf[c]
        BY <1>0, <2>1, <2>2 DEF RefundOf
      <4>. QED
        BY <1>0, <2>3, <2>5, <3>1, <3>2, <3>3, <4>1
    <3>4. CASE b # a
      <4>1. points'[b] = points[b]
        BY <1>0, <2>1, <2>2, <3>4
      <4>. QED
        BY <1>0, <2>3, <3>1, <3>4, <4>1
    <3>. QED
      BY <3>3, <3>4
  <2>. QED
    BY <2>4, <2>6 DEF Accounted, PointsAccount, Cancellations, RefundOf
<1>. QED
  BY <1>1, <1>2, <1>3, <1>4, Writes

\* A buyer's points are what they were and one refund per cancellation of one of
\* the buyer's orders: of concurrent increments none is lost, and nobody else's
\* cancellation gives points.
THEOREM PointsAreAccounted == Spec => []PointsAccount
<1>1. Init => Accounted
  <2>. SUFFICES ASSUME Init PROVE Accounted
    OBVIOUS
  <2>1. \A b : Cancellations(b) = {}
    BY DEF Init, InitCalls, Cancellations, Running
  <2>2. \A b \in Buyers : points[b] - InitPoints[b] = 0
    BY LifecycleAssumption DEF Init, InitCalls
  <2>. QED
    BY <2>1, <2>2, FS_EmptySet, SumEmpty
       DEF Accounted, PointsAccount, Cancellations
<1>2. Init /\ [][Next]_vars /\ []Inv /\ []OwnersCancel => []Accounted
  BY <1>1, NextAccounted, PTL
<1>3. Accounted => PointsAccount
  BY DEF Accounted
<1>. QED
  BY <1>2, <1>3, InvHolds, OwnersHold, PTL DEF Spec

-----------------------------------------------------------------------------
\* Orders of the seed, whose payments can be cancelled.

\* Who settles an order has completed its payment.
Settling ==
    \A c \in Calls : Running(c, "pay", "settle") => payment[Order(c)].txn # NoCall

SeededInv == TypeOK /\ Settling /\ PaymentCancellationSticks

\* What of the rows a step may change for the better: a payment that a call has
\* completed stays one, and what is cancelled is so unless it is completed.
Cancelled(o) == payment[o].status = "CanceledPayment" /\ status[o] = "Canceled"
Completed(o) == payment[o].txn # NoCall

LEMMA SeededTyped == TypeOK /\ [Next]_vars => TypeOK'
<1>. SUFFICES ASSUME TypeOK, [Next]_vars PROVE TypeOK'
  OBVIOUS
<1>1. CASE UNCHANGED vars
  BY <1>1 DEF vars, rows, TypeOK
<1>2. ASSUME NEW c \in Calls, NEW place \in Places, Goto(c, place),
             UNCHANGED <<rows, request>>, seen' = seen \/ \E what \in
                 OrderStatus \union PaymentStatus \union ShippingStatus \union {"None"} :
                 seen' = [seen EXCEPT ![c] = what]
      PROVE  TypeOK'
  BY <1>2 DEF TypeOK, Goto, rows, Places
<1>3. ASSUME NEW o \in Orders
      PROVE  payment[o].status \in PaymentStatus \union {"None"}
  BY DEF TypeOK, PaymentRow, NoPayment
<1>4. ASSUME NEW c \in Calls,
             \/ Submit(c) \/ PayRead(c) \/ CancelRead(c) \/ CancelCheck(c)
             \/ PaymentCancelRead(c) \/ PaymentCancelCheck(c) \/ ProgressRead(c)
      PROVE  TypeOK'
  <2>1. /\ payment[Order(c)].status \in PaymentStatus \union {"None"}
        /\ status[Order(c)] \in OrderStatus
        /\ shipping[Order(c)] \in ShippingStatus
    BY <1>3, CallTyped DEF TypeOK
  <2>. QED
    BY <1>2, <1>4, <2>1
       DEF Submit, PayRead, CancelRead, CancelCheck, PaymentCancelRead,
           PaymentCancelCheck, ProgressRead, See, Refuse, Places, InFlight, Answered
<1>5. ASSUME NEW c \in Calls, PayWrite(c) \/ PaySettle(c)
      PROVE  TypeOK'
  <2>1. CASE Refuse(c)
    BY <1>2, <2>1 DEF Refuse, Places, Answered
  <2>2. [status |-> "CompletedPayment", txn |-> c] \in PaymentRow
    BY DEF PaymentRow, PaymentStatus
  <2>. QED
    BY <1>5, <2>1, <2>2, CallTyped
       DEF PayWrite, PaySettle, Goto, TypeOK, OrderStatus, InFlight, Answered
<1>6. ASSUME NEW c \in Calls, CancelWrite(c)
      PROVE  TypeOK'
  <2>1. Refund[Order(c)] \in Int /\ request[c].by \in Buyers
    BY CallTyped, LifecycleAssumption DEF RequestType
  <2>2. points' \in [Buyers -> Int]
    BY <1>6, <2>1 DEF CancelWrite, TypeOK
  <2>. QED
    BY <1>6, <2>2, CallTyped DEF CancelWrite, Goto, TypeOK, OrderStatus, Answered
<1>7. ASSUME NEW c \in Calls, PaymentCancelWrite(c)
      PROVE  TypeOK'
  <2>1. [payment[Order(c)] EXCEPT !.status = "CanceledPayment"] \in PaymentRow
    BY CallTyped DEF TypeOK, PaymentRow, PaymentStatus, NoPayment
  <2>. QED
    BY <1>7, <2>1, CallTyped
       DEF PaymentCancelWrite, Goto, TypeOK, OrderStatus, Answered
<1>8. ASSUME NEW c \in Calls, ProgressWrite(c) \/ SetShipping(c)
      PROVE  TypeOK'
  <2>1. request[c].to \in ShippingStatus /\ NextShipping(seen[c]) \in ShippingStatus
    BY CallTyped DEF RequestType, NextShipping, ShippingStatus
  <2>. QED
    BY <1>8, <2>1, CallTyped DEF ProgressWrite, SetShipping, Goto, TypeOK, Answered
<1>9. CASE Crash
  BY <1>9 DEF Crash, rows, TypeOK, InFlight, Answered
<1>. QED
  BY <1>1, <1>4, <1>5, <1>6, <1>7, <1>8, <1>9 DEF Next, Step, Finished

\* Every step keeps the invariant of seeded orders.
LEMMA SeededStep ==
    ASSUME SeededInv, [Next]_vars
    PROVE  SeededInv'
<1>1. TypeOK'
  BY SeededTyped DEF SeededInv
<1>2. UNCHANGED request
  BY DEF Next, Step, Submit, PayRead, PayWrite, PaySettle, CancelRead, CancelCheck,
         CancelWrite, PaymentCancelRead, PaymentCancelCheck, PaymentCancelWrite,
         ProgressRead, ProgressWrite, SetShipping, Crash, Finished, See, Refuse, vars
\* Enough for both: nothing is completed less or cancelled less, and who comes
\* to settle or to have cancelled has done what that takes.
<1>3. ASSUME \A o \in Orders : Completed(o) => Completed(o)',
             \A o \in Orders : Cancelled(o) => Cancelled(o)' \/ Completed(o)',
             \A c \in Calls : Running(c, "pay", "settle")' =>
                 Running(c, "pay", "settle") \/ Completed(Order(c))',
             \A c \in Calls : Running(c, "cancelPayment", "done")' =>
                 \/ Running(c, "cancelPayment", "done")
                 \/ payment'[Order(c)].status = "CanceledPayment"
                       /\ status'[Order(c)] = "Canceled"
      PROVE  SeededInv'
  <2>1. Settling'
    BY <1>2, <1>3, CallTyped DEF SeededInv, Settling, Running, Order, Completed
  <2>2. PaymentCancellationSticks'
    <3>. SUFFICES ASSUME NEW o \in Orders, NEW c \in Calls, Order(c) = o,
                         Running(c, "cancelPayment", "done")'
                  PROVE  Cancelled(o)' \/ Completed(o)'
      BY <1>2 DEF PaymentCancellationSticks, DoneOn, Order, Cancelled, Completed
    <3>1. CASE Running(c, "cancelPayment", "done")
      <4>1. Cancelled(o) \/ Completed(o)
        BY <3>1 DEF SeededInv, PaymentCancellationSticks, DoneOn, Cancelled, Completed
      <4>. QED
        BY <1>3, <4>1
    <3>2. CASE ~Running(c, "cancelPayment", "done")
      BY <1>3, <3>2 DEF Cancelled
    <3>. QED
      BY <3>1, <3>2
  <2>. QED
    BY <1>1, <2>1, <2>2 DEF SeededInv
<1>4. TypeOK /\ Settling
  BY DEF SeededInv
<1>5. CASE UNCHANGED vars
  BY <1>3, <1>5 DEF vars, rows, Completed, Cancelled, Running, Order
<1>6. ASSUME NEW c \in Calls, NEW place, Goto(c, place), UNCHANGED <<status, payment>>,
             request[c].op = "pay" => place # "settle",
             request[c].op = "cancelPayment" => place # "done"
      PROVE  SeededInv'
  BY <1>2, <1>3, <1>4, <1>6 DEF TypeOK, Goto, Completed, Cancelled, Running, Order
<1>7. ASSUME NEW c \in Calls,
             \/ Submit(c) \/ PayRead(c) \/ CancelRead(c) \/ CancelCheck(c)
             \/ PaymentCancelRead(c) \/ PaymentCancelCheck(c)
             \/ ProgressRead(c) \/ ProgressWrite(c) \/ SetShipping(c)
      PROVE  SeededInv'
  BY <1>6, <1>7
     DEF Submit, PayRead, CancelRead, CancelCheck, PaymentCancelRead, PaymentCancelCheck,
         ProgressRead, ProgressWrite, SetShipping, See, Refuse, Running, rows
<1>8. ASSUME NEW c \in Calls, PayWrite(c) PROVE SeededInv'
  <2>1. CASE Refuse(c)
    BY <1>6, <2>1 DEF Refuse, rows
  <2>2. CASE ~Refuse(c)
    <3>1. /\ payment' = [payment EXCEPT
                ![Order(c)] = [status |-> "CompletedPayment", txn |-> c]]
          /\ Goto(c, "settle") /\ UNCHANGED status /\ request[c].op = "pay"
      BY <1>8, <2>2 DEF PayWrite, Running
    <3>2. Order(c) \in Orders /\ c # NoCall
      BY <1>4, CallTyped, LifecycleAssumption
    <3>3. /\ payment'[Order(c)].txn = c
          /\ \A o \in Orders : o # Order(c) => payment'[o] = payment[o]
      BY <1>4, <3>1, <3>2 DEF TypeOK
    <3>4. \A d \in Calls : d # c => pc'[d] = pc[d]
      BY <1>4, <3>1 DEF TypeOK, Goto
    <3>. QED
      BY <1>2, <1>3, <3>1, <3>2, <3>3, <3>4 DEF Completed, Cancelled, Running, Order
  <2>. QED
    BY <2>1, <2>2
<1>9. ASSUME NEW c \in Calls, PaySettle(c) PROVE SeededInv'
  <2>1. /\ Completed(Order(c)) /\ UNCHANGED payment
        /\ status' = [status EXCEPT ![Order(c)] = "CompletedPayment"]
        /\ Goto(c, "done") /\ request[c].op = "pay"
    BY <1>4, <1>9 DEF PaySettle, Settling, Completed, Running
  <2>2. /\ \A o \in Orders : o # Order(c) => status'[o] = status[o]
        /\ \A d \in Calls : d # c => pc'[d] = pc[d]
        /\ pc'[c] = "done"
    BY <1>4, <2>1 DEF TypeOK, Goto
  <2>. QED
    BY <1>2, <1>3, <2>1, <2>2 DEF Completed, Cancelled, Running, Order
<1>10. ASSUME NEW c \in Calls, CancelWrite(c) PROVE SeededInv'
  <2>1. /\ UNCHANGED payment
        /\ status' = [status EXCEPT ![Order(c)] = "Canceled"]
        /\ Goto(c, "done") /\ request[c].op = "cancelOrder"
    BY <1>10 DEF CancelWrite, Running
  <2>2. /\ \A o \in Orders : status'[o] \in {status[o], "Canceled"}
        /\ \A d \in Calls : d # c => pc'[d] = pc[d]
        /\ pc'[c] = "done"
    BY <1>4, <2>1 DEF TypeOK, Goto
  <2>. QED
    BY <1>2, <1>3, <2>1, <2>2 DEF Completed, Cancelled, Running, Order
<1>11. ASSUME NEW c \in Calls, PaymentCancelWrite(c) PROVE SeededInv'
  <2>1. /\ payment' = [payment EXCEPT ![Order(c)].status = "CanceledPayment"]
        /\ status' = [status EXCEPT ![Order(c)] = "Canceled"]
        /\ Goto(c, "done") /\ request[c].op = "cancelPayment"
        /\ Order(c) \in Orders
    BY <1>4, <1>11, CallTyped DEF PaymentCancelWrite, Running
  <2>2. /\ payment'[Order(c)].status = "CanceledPayment"
        /\ payment'[Order(c)].txn = payment[Order(c)].txn
        /\ status'[Order(c)] = "Canceled"
    BY <1>4, <2>1 DEF TypeOK, PaymentRow, NoPayment
  <2>3. /\ \A o \in Orders : o # Order(c) =>
                payment'[o] = payment[o] /\ status'[o] = status[o]
        /\ \A d \in Calls : d # c => pc'[d] = pc[d]
        /\ pc'[c] = "done"
    BY <1>4, <2>1 DEF TypeOK, Goto
  <2>. QED
    BY <1>2, <1>3, <2>1, <2>2, <2>3 DEF Completed, Cancelled, Running, Order
<1>12. CASE Crash
  <2>1. UNCHANGED <<status, payment>>
    BY <1>12 DEF Crash, rows
  <2>2. \A d \in Calls : pc'[d] \in {pc[d], "lost"}
    BY <1>12 DEF Crash
  <2>. QED
    BY <1>2, <1>3, <2>1, <2>2 DEF Completed, Cancelled, Running, Order
<1>. QED
  BY <1>5, <1>7, <1>8, <1>9, <1>10, <1>11, <1>12 DEF Next, Step, Finished

\* A payment whose buyer was told that it is cancelled is, and so is its order,
\* unless a call has completed it, before or since.
THEOREM PaymentCancellationsStick == SeededSpec => []PaymentCancellationSticks
<1>1. SeededInit => SeededInv
  <2>. SUFFICES ASSUME SeededInit PROVE SeededInv
    OBVIOUS
  <2>1. [status |-> "WaitingPayment", txn |-> NoCall] \in PaymentRow
    BY DEF PaymentRow, PaymentStatus
  <2>2. TypeOK
    BY <2>1, LifecycleAssumption
       DEF SeededInit, InitCalls, TypeOK, OrderStatus, ShippingStatus
  <2>. QED
    BY <2>2 DEF SeededInv, Settling, PaymentCancellationSticks, DoneOn, Running,
                SeededInit, InitCalls
<1>2. SeededInv => PaymentCancellationSticks
  BY DEF SeededInv
<1>. QED
  BY <1>1, <1>2, SeededStep, PTL DEF SeededSpec


(***************************************************************************)
(* Reviews and the tab.                                                    *)
(***************************************************************************)
ReviewRow == [id : Writers, text : Writers]

\* The rows and the calls are typed also where a call may name any review.
RowsTyped ==
    /\ review \in [Items -> ReviewRow \union {NoReview}]
    /\ wish \in [Writers -> ReviewRequestType]
    /\ at \in [Writers -> {"idle"} \union Writing \union Closed]
    /\ named = [w \in Writers |-> named[w]]

ReviewTypeOK == RowsTyped /\ named \in [Writers -> Writers \union {NoReview}]

\* Every call asks about an item of an order, and what it would write is a row.
LEMMA WriterTyped ==
    ASSUME RowsTyped, NEW w \in Writers
    PROVE  /\ Item(w) \in Items
           /\ OrderOf[Item(w)] \in Orders
           /\ w # NoReview
           /\ [id |-> w, text |-> w] \in ReviewRow
           /\ [id |-> w, text |-> w] # NoReview
BY ReviewAssumption DEF RowsTyped, ReviewRequestType, Item, ReviewRow

-----------------------------------------------------------------------------
\* Reviews beside OrderLifecycle.

LEMMA StepsBelow == TypeOK /\ [ReviewNext]_allVars => [Next]_vars
<1>. SUFFICES ASSUME TypeOK, [ReviewNext]_allVars PROVE Next \/ UNCHANGED vars
  OBVIOUS
<1>1. CASE LifecycleStep
  BY <1>1 DEF LifecycleStep, Next
<1>2. CASE \E w \in Writers : WriterSubmit(w) \/ WriterStep(w)
  BY <1>2 DEF WriterSubmit, SubmitNaming, WriterStep, CreateReadOrder, CreateReadPayment, CreateWrite,
              ReadReview, EditWrite, DeleteWrite, MoveOn
<1>3. CASE JointCrash
  <2>1. CASE \E c \in Calls : pc[c] \in InFlight
    BY <1>3, <2>1 DEF JointCrash, Next, Crash
  <2>2. CASE ~\E c \in Calls : pc[c] \in InFlight
    <3>1. pc' = [c \in Calls |-> pc[c]]
      BY <1>3, <2>2 DEF JointCrash
    <3>2. pc = [c \in Calls |-> pc[c]]
      BY DEF TypeOK
    <3>. QED
      BY <1>3, <3>1, <3>2 DEF JointCrash, vars, rows
  <2>. QED
    BY <2>1, <2>2
<1>4. CASE Over \/ UNCHANGED allVars
  BY <1>4 DEF Over, allVars
<1>. QED
  BY <1>1, <1>2, <1>3, <1>4 DEF ReviewNext

\* What holds of the calls on orders alone holds of them among reviews.
LEMMA ReviewsKeepInv == ReviewSpec => []Inv
<1>1. ReviewInit => Inv
  BY InitInv DEF ReviewInit, NothingReviewed
<1>2. Inv => TypeOK
  BY DEF Inv
<1>. QED
  BY <1>1, <1>2, StepsBelow, NextInv, PTL DEF ReviewSpec

\* What the payments of OrderLifecycle mean to a review.
Captured(o) == payment[o].txn # NoCall

\* A payment is recorded exactly if it is completed.
LEMMA CapturedIs ==
    ASSUME Inv, NEW o \in Orders
    PROVE  Captured(o) <=> payment[o].status = "CompletedPayment"
BY LifecycleAssumption DEF Inv, PaidOrderKnown, Captured, NoPayment

LEMMA CapturedStays ==
    ASSUME Inv, [Next]_vars, NEW o \in Orders, Captured(o)
    PROVE  Captured(o)'
<1>1. payment[o].status = "CompletedPayment"
  BY CapturedIs
<1>2. payment'[o] = payment[o]
  BY <1>1, PaymentStep DEF vars, rows
<1>. QED
  BY <1>2 DEF Captured

-----------------------------------------------------------------------------
\* Types.

LEMMA InitReviewTyped == ReviewInit => ReviewTypeOK
<1>. SUFFICES ASSUME ReviewInit PROVE ReviewTypeOK
  OBVIOUS
<1>1. wish \in [Writers -> ReviewRequestType]
  BY ReviewAssumption DEF ReviewInit, NothingReviewed
<1>. QED
  BY <1>1 DEF ReviewInit, NothingReviewed, RowsTyped, ReviewTypeOK

\* A step of one call that moves it on and leaves everything else of the reviews.
Moves(w, place) == Move(w, place) /\ UNCHANGED <<review, wish, named>>

\* What each step of a call of the reviews is.
LEMMA WriterKinds ==
    ASSUME NEW w \in Writers, WriterStep(w)
    PROVE  \/ CreateReadOrder(w) /\ \E p \in {"payment", "refused"} : Moves(w, p)
           \/ /\ CreateReadPayment(w)
              /\ \/ Moves(w, "refused")
                 \/ /\ Moves(w, "write")
                    /\ payment[OrderOf[Item(w)]].status = "CompletedPayment"
           \/ /\ ReadReview(w)
              /\ \/ Moves(w, "refused")
                 \/ /\ Moves(w, "write")
                    /\ named[w] # NoReview /\ wish[named[w]].by = wish[w].by
           \/ CreateWrite(w)
           \/ EditWrite(w)
           \/ DeleteWrite(w)
BY DEF WriterStep, CreateReadOrder, CreateReadPayment, ReadReview, MoveOn, Moves, Stands

\* What a step of the shop does to the reviews: a call comes in, naming a review
\* or none, goes on, dies, or nothing of them changes.
ReviewCalls ==
    \/ \E w \in Writers : WriterStep(w) \/ \E id : SubmitNaming(w, id)
    \/ JointCrash
    \/ UNCHANGED reviewVars

\* The rows stay rows whatever review a call names.
LEMMA CallsKeepRows ==
    ASSUME RowsTyped, ReviewCalls
    PROVE  RowsTyped'
<1>1. CASE UNCHANGED reviewVars
  BY <1>1 DEF reviewVars, RowsTyped
<1>2. ASSUME NEW w \in Writers, NEW id, SubmitNaming(w, id) PROVE RowsTyped'
  BY <1>2 DEF SubmitNaming, Move, RowsTyped, Writing, Closed
<1>3. ASSUME NEW w \in Writers, WriterStep(w) PROVE RowsTyped'
  <2>1. ASSUME NEW p \in Writing \union Closed, Moves(w, p) PROVE RowsTyped'
    BY <2>1 DEF Moves, Move, RowsTyped
  <2>2. CASE CreateWrite(w)
    BY <2>1, <2>2, WriterTyped
       DEF CreateWrite, MoveOn, Moves, Move, RowsTyped, Writing, Closed
  <2>3. CASE EditWrite(w)
    <3>1. CASE Stands(w)
      <4>1. review[Item(w)] # NoReview /\ review[Item(w)] \in ReviewRow
        BY <3>1, WriterTyped DEF Stands, ReviewId, RowsTyped
      <4>2. [review[Item(w)] EXCEPT !.text = w] \in ReviewRow
        BY <4>1 DEF ReviewRow
      <4>. QED
        BY <2>3, <3>1, <4>2 DEF EditWrite, Move, RowsTyped, Closed
    <3>. QED
      BY <2>1, <2>3, <3>1 DEF EditWrite, MoveOn, Moves, Closed
  <2>4. CASE DeleteWrite(w)
    BY <2>1, <2>4 DEF DeleteWrite, MoveOn, Moves, Move, RowsTyped, Closed
  <2>. QED
    BY <1>3, <2>1, <2>2, <2>3, <2>4, WriterKinds DEF Writing, Closed
<1>4. CASE JointCrash
  BY <1>4 DEF JointCrash, RowsTyped, Closed
<1>. QED
  BY <1>1, <1>2, <1>3, <1>4 DEF ReviewCalls

\* Every step of Reviews is such a step.
LEMMA NextIsCalls == [ReviewNext]_allVars => ReviewCalls
BY DEF ReviewNext, ReviewCalls, WriterSubmit, LifecycleStep, Over, allVars

LEMMA NextReviewTyped == ReviewTypeOK /\ [ReviewNext]_allVars => ReviewTypeOK'
<1>. SUFFICES ASSUME ReviewTypeOK, [ReviewNext]_allVars PROVE ReviewTypeOK'
  OBVIOUS
<1>1. RowsTyped'
  BY NextIsCalls, CallsKeepRows DEF ReviewTypeOK
<1>2. CASE UNCHANGED named
  BY <1>1, <1>2 DEF ReviewTypeOK
<1>3. ASSUME NEW w \in Writers, WriterSubmit(w) PROVE ReviewTypeOK'
  <2>1. ReviewId(Item(w)) \in Writers \union {NoReview}
    BY WriterTyped DEF ReviewTypeOK, RowsTyped, ReviewId, ReviewRow
  <2>. QED
    BY <1>1, <1>3, <2>1 DEF WriterSubmit, SubmitNaming, ReviewTypeOK
<1>4. ASSUME NEW w \in Writers, WriterStep(w) PROVE UNCHANGED named
  BY <1>4 DEF WriterStep, CreateReadOrder, CreateReadPayment, ReadReview, CreateWrite,
              EditWrite, DeleteWrite, MoveOn
<1>. QED
  BY <1>2, <1>3, <1>4 DEF ReviewNext, LifecycleStep, JointCrash, Over, allVars, reviewVars

-----------------------------------------------------------------------------
\* A review is of a paid item.

\* It has been since the payment was read, and a payment that is taken stays.
WritersPaid ==
    \A w \in Writers : Wants(w, "create", "write") => Captured(OrderOf[Item(w)])

\* A step that writes a review writes it of an item whose payment was read.
LEMMA NextPaid ==
    /\ Inv /\ ReviewTypeOK /\ WritersPaid /\ ReviewedIsPaid
    /\ [ReviewNext]_allVars
    => WritersPaid' /\ ReviewedIsPaid'
<1>. SUFFICES ASSUME Inv, ReviewTypeOK, WritersPaid, ReviewedIsPaid, [ReviewNext]_allVars
              PROVE  WritersPaid' /\ ReviewedIsPaid'
  OBVIOUS
<1>1. \A o \in Orders : Captured(o) => Captured(o)'
  BY StepsBelow, CapturedStays DEF Inv
<1>2. \A w \in Writers : Item(w) \in Items /\ OrderOf[Item(w)] \in Orders
  BY WriterTyped DEF ReviewTypeOK
<1>3. \A i \in Items : OrderOf[i] \in Orders
  BY ReviewAssumption
\* Enough for both: what the step adds is of a captured payment.
<1>4. ASSUME UNCHANGED wish,
             \A w \in Writers : wish[w].op = "create" /\ at'[w] = "write" =>
                                   at[w] = "write" \/ Captured(OrderOf[Item(w)]),
             \A i \in Items : review'[i] # NoReview =>
                                   review[i] # NoReview \/ Captured(OrderOf[i])
      PROVE  WritersPaid' /\ ReviewedIsPaid'
  BY <1>1, <1>2, <1>3, <1>4 DEF WritersPaid, ReviewedIsPaid, Wants, Item, Captured
<1>5. CASE LifecycleStep \/ Over \/ UNCHANGED allVars
  BY <1>4, <1>5 DEF LifecycleStep, Over, allVars, reviewVars
<1>6. ASSUME NEW w \in Writers, WriterSubmit(w) PROVE WritersPaid' /\ ReviewedIsPaid'
  BY <1>4, <1>6 DEF WriterSubmit, SubmitNaming, Move, ReviewTypeOK, RowsTyped
<1>7. ASSUME NEW w \in Writers, WriterStep(w) PROVE WritersPaid' /\ ReviewedIsPaid'
  <2>1. ASSUME NEW p, Moves(w, p), p # "write" PROVE WritersPaid' /\ ReviewedIsPaid'
    BY <1>4, <2>1 DEF Moves, Move, ReviewTypeOK, RowsTyped
  <2>2. ASSUME Moves(w, "write"), payment[OrderOf[Item(w)]].status = "CompletedPayment"
        PROVE  WritersPaid' /\ ReviewedIsPaid'
    <3>1. Captured(OrderOf[Item(w)])
      BY <1>2, <2>2, CapturedIs
    <3>. QED
      BY <1>4, <2>2, <3>1 DEF Moves, Move, ReviewTypeOK, RowsTyped
  <2>3. CASE ReadReview(w) /\ Moves(w, "write")
    BY <1>4, <2>3 DEF ReadReview, Moves, Move, ReviewTypeOK, RowsTyped
  <2>4. CASE CreateWrite(w)
    <3>1. Captured(OrderOf[Item(w)])
      BY <2>4 DEF CreateWrite, WritersPaid
    <3>. QED
      BY <1>2, <1>4, <2>1, <2>4, <3>1
         DEF CreateWrite, MoveOn, Moves, Move, ReviewTypeOK, RowsTyped
  <2>5. CASE EditWrite(w)
    <3>1. Stands(w) => review[Item(w)] # NoReview
      BY DEF Stands, ReviewId
    <3>. QED
      BY <1>2, <1>4, <2>1, <2>5, <3>1 DEF EditWrite, MoveOn, Moves, Move, ReviewTypeOK, RowsTyped
  <2>6. CASE DeleteWrite(w)
    BY <1>2, <1>4, <2>1, <2>6 DEF DeleteWrite, MoveOn, Moves, Move, ReviewTypeOK, RowsTyped
  <2>. QED
    BY <1>7, <2>1, <2>2, <2>3, <2>4, <2>5, <2>6, WriterKinds
<1>8. CASE JointCrash
  BY <1>4, <1>8 DEF JointCrash, ReviewTypeOK, RowsTyped
<1>. QED
  BY <1>5, <1>6, <1>7, <1>8 DEF ReviewNext

LEMMA ReviewsTyped == ReviewSpec => []ReviewTypeOK
BY InitReviewTyped, NextReviewTyped, PTL DEF ReviewSpec

\* What is reviewed has been paid for, whatever is cancelled while the review is
\* being written.
THEOREM ReviewsArePaid == ReviewSpec => []ReviewedIsPaid
<1>1. ReviewInit => WritersPaid /\ ReviewedIsPaid
  BY DEF ReviewInit, NothingReviewed, WritersPaid, ReviewedIsPaid, Wants
<1>. QED
  BY <1>1, NextPaid, ReviewsKeepInv, ReviewsTyped, PTL DEF ReviewSpec

-----------------------------------------------------------------------------
\* The reviews of an item are counted.

\* An edit or a deletion that goes on to its write names a review of its own.
OwnNamed ==
    \A w \in Writers :
        at[w] = "write" /\ wish[w].op # "create" =>
            named[w] # NoReview /\ wish[named[w]].by = wish[w].by

Finite ==
    \A i \in Items :
        IsFiniteSet(WrittenOf("create", i)) /\ IsFiniteSet(WrittenOf("delete", i))

Counting == OwnNamed /\ Finite /\ ReviewsCounted

\* A step that finishes no creation and no deletion.
LEMMA SameCount ==
    ASSUME Counting, UNCHANGED <<wish>>,
           \A w \in Writers : wish[w].op # "edit" => (at'[w] = "done" <=> at[w] = "done"),
           \A w \in Writers :
              at'[w] = "write" /\ wish[w].op # "create" =>
                 named'[w] # NoReview /\ wish[named'[w]].by = wish[w].by,
           \A i \in Items :
              /\ review'[i] = NoReview <=> review[i] = NoReview
              /\ review'[i] # NoReview => wish[review'[i].text].by = wish[review'[i].id].by
    PROVE  Counting'
<1>1. \A op \in {"create", "delete"} : \A i : WrittenOf(op, i)' = WrittenOf(op, i)
  BY DEF WrittenOf, Wants, Item
<1>2. \A i : /\ WrittenOf("create", i)' = WrittenOf("create", i)
             /\ WrittenOf("delete", i)' = WrittenOf("delete", i)
  BY <1>1
<1>3. OwnNamed'
  BY DEF OwnNamed
<1>4. Finite'
  BY <1>2 DEF Counting, Finite
<1>5. ReviewsCounted'
  BY <1>2 DEF Counting, ReviewsCounted
<1>. QED
  BY <1>3, <1>4, <1>5 DEF Counting

\* What finishing one call does to the calls that are done.
LEMMA OneMore ==
    ASSUME RowsTyped, NEW w \in Writers, at[w] = "write", Move(w, "done"),
           UNCHANGED wish, NEW op \in {"create", "delete"}, NEW i \in Items
    PROVE  IF wish[w].op = op /\ Item(w) = i
           THEN WrittenOf(op, i)' = WrittenOf(op, i) \union {w} /\ w \notin WrittenOf(op, i)
           ELSE WrittenOf(op, i)' = WrittenOf(op, i)
<1>1. at'[w] = "done" /\ \A v \in Writers \ {w} : at'[v] = at[v]
  BY DEF Move, RowsTyped
<1>. QED
  BY <1>1 DEF WrittenOf, Wants, Item

\* A creation that finds no review adds one to both sides.
LEMMA CreateCounts ==
    ASSUME RowsTyped, Counting, NEW w \in Writers, CreateWrite(w),
           review[Item(w)] = NoReview
    PROVE  Counting'
<1>0. PICK j \in Items : j = Item(w)
  BY WriterTyped
<1>1. /\ at[w] = "write" /\ wish[w].op = "create" /\ Item(w) = j
      /\ Move(w, "done") /\ UNCHANGED <<wish, named>>
      /\ review' = [review EXCEPT ![j] = [id |-> w, text |-> w]]
      /\ review[j] = NoReview
      /\ wish[w].op # "delete"
  BY <1>0 DEF CreateWrite, Wants
<1>2. /\ review'[j] = [id |-> w, text |-> w] /\ review'[j] # NoReview
      /\ \A i \in Items \ {j} : review'[i] = review[i]
      /\ \A v \in Writers : at'[v] = "write" => at[v] = "write"
  BY <1>0, <1>1, WriterTyped DEF RowsTyped, Move
<1>3. /\ WrittenOf("create", j)' = WrittenOf("create", j) \union {w}
      /\ w \notin WrittenOf("create", j)
      /\ \A i \in Items : WrittenOf("delete", i)' = WrittenOf("delete", i)
      /\ \A i \in Items \ {j} : WrittenOf("create", i)' = WrittenOf("create", i)
  BY <1>1, OneMore
<1>4. /\ IsFiniteSet(WrittenOf("create", j)')
      /\ Cardinality(WrittenOf("create", j)') = Cardinality(WrittenOf("create", j)) + 1
      /\ Cardinality(WrittenOf("create", j)) = Cardinality(WrittenOf("delete", j)) + 0
      /\ Cardinality(WrittenOf("delete", j)) \in Nat
  BY <1>1, <1>3, FS_AddElement, FS_CardinalityType DEF Counting, Finite, ReviewsCounted
<1>5. OwnNamed'
  BY <1>1, <1>2 DEF Counting, OwnNamed
<1>6. ASSUME NEW i \in Items
      PROVE  IsFiniteSet(WrittenOf("create", i))' /\ IsFiniteSet(WrittenOf("delete", i))'
  BY <1>3, <1>4 DEF Counting, Finite
<1>7. ASSUME NEW i \in Items
      PROVE  /\ Cardinality(WrittenOf("create", i)') =
                   Cardinality(WrittenOf("delete", i)')
                     + (IF review'[i] = NoReview THEN 0 ELSE 1)
             /\ review'[i] # NoReview =>
                   wish'[review'[i].text].by = wish'[review'[i].id].by
  <2>1. CASE i = j
    BY <1>1, <1>2, <1>3, <1>4, <2>1
  <2>2. CASE i # j
    BY <1>1, <1>2, <1>3, <2>2 DEF Counting, ReviewsCounted
  <2>. QED
    BY <2>1, <2>2
<1>8. Finite'
  BY <1>6 DEF Finite
<1>9. ReviewsCounted'
  BY <1>7 DEF ReviewsCounted
<1>. QED
  BY <1>5, <1>8, <1>9 DEF Counting

\* A deletion of a review that is there takes one from one side and counts one
\* more on the other.
LEMMA DeleteCounts ==
    ASSUME RowsTyped, Counting, NEW w \in Writers, DeleteWrite(w), Stands(w)
    PROVE  Counting'
<1>0. PICK j \in Items : j = Item(w)
  BY WriterTyped
<1>1. /\ at[w] = "write" /\ wish[w].op = "delete" /\ Item(w) = j
      /\ Move(w, "done") /\ UNCHANGED <<wish, named>>
      /\ review' = [review EXCEPT ![j] = NoReview]
      /\ review[j] # NoReview
      /\ wish[w].op # "create"
  BY <1>0 DEF DeleteWrite, Wants, Stands, ReviewId
<1>2. /\ review'[j] = NoReview
      /\ \A i \in Items \ {j} : review'[i] = review[i]
      /\ \A v \in Writers : at'[v] = "write" => at[v] = "write"
  BY <1>1 DEF RowsTyped, Move
<1>3. /\ WrittenOf("delete", j)' = WrittenOf("delete", j) \union {w}
      /\ w \notin WrittenOf("delete", j)
      /\ \A i \in Items : WrittenOf("create", i)' = WrittenOf("create", i)
      /\ \A i \in Items \ {j} : WrittenOf("delete", i)' = WrittenOf("delete", i)
  BY <1>1, OneMore
<1>4. /\ IsFiniteSet(WrittenOf("delete", j)')
      /\ Cardinality(WrittenOf("delete", j)') = Cardinality(WrittenOf("delete", j)) + 1
      /\ Cardinality(WrittenOf("create", j)) = Cardinality(WrittenOf("delete", j)) + 1
      /\ Cardinality(WrittenOf("delete", j)) \in Nat
  BY <1>1, <1>3, FS_AddElement, FS_CardinalityType DEF Counting, Finite, ReviewsCounted
<1>5. OwnNamed'
  BY <1>1, <1>2 DEF Counting, OwnNamed
<1>6. ASSUME NEW i \in Items
      PROVE  IsFiniteSet(WrittenOf("create", i))' /\ IsFiniteSet(WrittenOf("delete", i))'
  BY <1>3, <1>4 DEF Counting, Finite
<1>7. ASSUME NEW i \in Items
      PROVE  /\ Cardinality(WrittenOf("create", i)') =
                   Cardinality(WrittenOf("delete", i)')
                     + (IF review'[i] = NoReview THEN 0 ELSE 1)
             /\ review'[i] # NoReview =>
                   wish'[review'[i].text].by = wish'[review'[i].id].by
  <2>1. CASE i = j
    BY <1>2, <1>3, <1>4, <2>1
  <2>2. CASE i # j
    BY <1>1, <1>2, <1>3, <2>2 DEF Counting, ReviewsCounted
  <2>. QED
    BY <2>1, <2>2
<1>8. Finite'
  BY <1>6 DEF Finite
<1>9. ReviewsCounted'
  BY <1>7 DEF ReviewsCounted
<1>. QED
  BY <1>5, <1>8, <1>9 DEF Counting

\* Nothing that calls of the reviews do takes the count off, whatever review
\* they name: what they go on with has been looked at.
LEMMA CallsKeepCount ==
    ASSUME RowsTyped, Counting, ReviewCalls
    PROVE  Counting'
<1>1. /\ \A w \in Writers :
            at[w] = "write" /\ wish[w].op # "create" =>
               named[w] # NoReview /\ wish[named[w]].by = wish[w].by
      /\ \A i \in Items : review[i] # NoReview =>
            wish[review[i].text].by = wish[review[i].id].by
  BY DEF Counting, OwnNamed, ReviewsCounted
<1>2. CASE UNCHANGED reviewVars
  BY <1>1, <1>2, SameCount DEF reviewVars
<1>3. ASSUME NEW w \in Writers, NEW id, SubmitNaming(w, id) PROVE Counting'
  <2>1. /\ at[w] = "idle" /\ UNCHANGED <<wish, review>>
        /\ at'[w] \in {"refused", "order", "payment"}
        /\ \A v \in Writers \ {w} : at'[v] = at[v] /\ named'[v] = named[v]
    BY <1>3 DEF SubmitNaming, Move, RowsTyped
  <2>. QED
    BY <1>1, <2>1, SameCount
<1>4. ASSUME NEW w \in Writers, WriterStep(w) PROVE Counting'
  <2>0. at[w] \in {"order", "payment", "write"}
    BY <1>4 DEF WriterStep, CreateReadOrder, CreateReadPayment, ReadReview, CreateWrite,
                EditWrite, DeleteWrite, Wants
  <2>1. ASSUME NEW p \in {"payment", "refused"}, Moves(w, p) PROVE Counting'
    BY <1>1, <2>0, <2>1, SameCount DEF Moves, Move, RowsTyped
  <2>2. ASSUME Moves(w, "write"),
               \/ wish[w].op = "create"
               \/ named[w] # NoReview /\ wish[named[w]].by = wish[w].by
        PROVE  Counting'
    BY <1>1, <2>0, <2>2, SameCount DEF Moves, Move, RowsTyped
  <2>3. CASE CreateWrite(w)
    BY <2>1, <2>3, CreateCounts DEF CreateWrite, MoveOn, Moves
  <2>4. CASE DeleteWrite(w)
    BY <2>1, <2>4, DeleteCounts DEF DeleteWrite, MoveOn, Moves
  <2>5. CASE EditWrite(w) /\ ~Stands(w)
    BY <2>1, <2>5 DEF EditWrite, MoveOn, Moves
  <2>6. CASE EditWrite(w) /\ Stands(w)
    <3>0. PICK j \in Items : j = Item(w)
      BY WriterTyped
    <3>1. /\ wish[w].op = "edit" /\ at[w] = "write"
          /\ Move(w, "done") /\ UNCHANGED <<wish, named>>
          /\ review' = [review EXCEPT ![j].text = w]
          /\ review[j] # NoReview /\ review[j].id = named[w]
      BY <2>6, <3>0 DEF EditWrite, Wants, Stands, ReviewId
    <3>2. review[j] \in ReviewRow
      BY <3>1 DEF RowsTyped
    <3>3. /\ review'[j] = [review[j] EXCEPT !.text = w]
          /\ \A i \in Items \ {j} : review'[i] = review[i]
          /\ \A v \in Writers \ {w} : at'[v] = at[v]
          /\ at'[w] = "done"
      BY <3>1 DEF RowsTyped, Move
    <3>4. review'[j] # NoReview /\ review'[j].text = w /\ review'[j].id = named[w]
      <4>1. review'[j] \in ReviewRow
        BY <3>2, <3>3 DEF ReviewRow
      <4>. QED
        BY <3>1, <3>2, <3>3, <4>1, ReviewAssumption DEF ReviewRow
    <3>5. wish[named[w]].by = wish[w].by
      BY <1>1, <3>1
    <3>. QED
      BY <1>1, <3>1, <3>3, <3>4, <3>5, SameCount
  <2>. QED
    BY <1>4, <2>1, <2>2, <2>3, <2>4, <2>5, <2>6, WriterKinds
       DEF CreateReadPayment, Wants
<1>5. CASE JointCrash
  <2>1. UNCHANGED <<wish, review, named>>
    BY <1>5 DEF JointCrash
  <2>2. \A w \in Writers : at'[w] = at[w] \/ (at'[w] = "lost" /\ at[w] \in Writing)
    BY <1>5 DEF JointCrash
  <2>. QED
    BY <1>1, <2>1, <2>2, SameCount DEF Writing
<1>. QED
  BY <1>2, <1>3, <1>4, <1>5 DEF ReviewCalls

LEMMA NextCounting ==
    ReviewTypeOK /\ Counting /\ [ReviewNext]_allVars => Counting'
BY NextIsCalls, CallsKeepCount DEF ReviewTypeOK

LEMMA InitCounting == NothingReviewed => Counting
<1>. SUFFICES ASSUME NothingReviewed PROVE Counting
  OBVIOUS
<1>1. \A op, i : WrittenOf(op, i) = {}
  BY DEF NothingReviewed, WrittenOf, Wants
<1>2. OwnNamed
  BY DEF NothingReviewed, OwnNamed
<1>3. Finite
  BY <1>1, FS_EmptySet DEF Finite
<1>4. ReviewsCounted
  <2>1. \A i \in Items : review[i] = NoReview
    BY DEF NothingReviewed
  <2>2. Cardinality({}) = 0
    BY FS_EmptySet
  <2>. QED
    BY <1>1, <2>1, <2>2 DEF ReviewsCounted
<1>. QED
  BY <1>2, <1>3, <1>4 DEF Counting

\* The reviews given less those taken back are the one that is there, for any
\* number of calls that race for an item, and only its author rewrites it.
THEOREM ReviewsAreCounted == ReviewSpec => []ReviewsCounted
<1>1. Counting => ReviewsCounted
  BY DEF Counting
<1>. QED
  BY <1>1, InitCounting, NextCounting, ReviewsTyped, PTL DEF ReviewSpec, ReviewInit

-----------------------------------------------------------------------------
\* The tab of a buyer: a list that shows an order delivered tells the truth, or
\* told it when it was read, and the form of a review opens for such an order.
Truthful(shown, those) ==
    \A o \in DOMAIN shown : shown[o].shipping = "Delivered" => o \in those

FetchShaped == fetch = [s \in Sources |-> fetch[s]]
ModalShaped ==
    /\ modal = [f \in DOMAIN modal |-> modal[f]]
    /\ "part" \in DOMAIN modal
    /\ modal.part = "write" => modal = [part |-> "write", item |-> modal.item]

PagesShaped ==
    /\ cache = [q \in Queries |-> cache[q]]
    /\ FetchShaped
    /\ ModalShaped
    /\ at = [w \in Writers |-> at[w]]

PagesTruthful ==
    /\ \A o \in Orders : shipping[o] = "Delivered" => o \in arrived
    /\ \A q \in Lists : cache[q] # NoData => Truthful(cache[q], arrived)
    /\ \A q \in Lists : fetch[q].at = "read" => Truthful(fetch[q].got, arrived)
    /\ modal.part = "write" => OrderOf[modal.item] \in arrived
    /\ ReviewedWasDelivered

LEMMA InitPages == PurchaseInit => PagesShaped /\ PagesTruthful
<1>. SUFFICES ASSUME PurchaseInit PROVE PagesShaped /\ PagesTruthful
  OBVIOUS
<1>1. PagesShaped
  BY DEF PurchaseInit, PagesShaped, FetchShaped, ModalShaped, NothingReviewed, NoModal
<1>2. \A q \in Lists : q \in Queries /\ q \in Sources
  BY DEF Queries, Sources
<1>3. \A q \in Lists : cache[q] = NoData /\ fetch[q].at = "idle"
  BY <1>2 DEF PurchaseInit, Idle
<1>4. ReviewedWasDelivered
  BY PurchaseAssumption DEF PurchaseInit, NothingReviewed, ReviewedWasDelivered
<1>5. modal.part = "none"
  BY DEF PurchaseInit, NoModal
<1>6. \A o \in Orders : shipping[o] = "Delivered" => o \in arrived
  BY DEF PurchaseInit
<1>. QED
  BY <1>1, <1>3, <1>4, <1>5, <1>6 DEF PagesTruthful

\* The cache changes when a fetch arrives and then only.
LEMMA CacheMoves ==
    ASSUME ClientStep \/ ServerStep
    PROVE  cache' = cache \/ \E q \in Queries : Arrive(q)
<1>1. CASE ServerStep
  BY <1>1 DEF ServerStep, clientVars
<1>2. CASE ClientStep
  <2>1. CASE \E p \in Queries \union {Elsewhere} : Go(p)
    BY <2>1 DEF Go
  <2>2. CASE \E s \in Sources : Read(s)
    BY <2>2 DEF Read
  <2>3. CASE \E o \in Orders : handleShippingClick(o) \/ openCancel(o)
    BY <2>3 DEF handleShippingClick, openCancel, OpenOnly
  <2>4. CASE Focus \/ ShippingArrives \/ handleCloseShippingModal \/ openEdit \/ onClose
    BY <2>4 DEF Focus, ShippingArrives, handleCloseShippingModal, openEdit, onClose
  <2>5. CASE \E i \in Items : handleReviewWriteClick(i) \/ openReview(i)
    BY <2>5 DEF handleReviewWriteClick, openReview, OpenOnly
  <2>6. CASE \E c \in TabCalls :
                \/ handleManualProgress(c) \/ ProgressAnswered(c)
                \/ handleCancel(c) \/ CancelFailed(c)
                \/ \E back \in Queries \union {Elsewhere} : CancelDone(c, back)
    BY <2>6 DEF handleManualProgress, ProgressAnswered, handleCancel, CancelFailed,
                CancelDone, SendOrderCall
  <2>7. CASE \E w \in TabWriters :
                \/ SubmitReview(w) \/ SubmitEdit(w) \/ handleDelete(w)
                \/ Saved(w, "create") \/ Saved(w, "edit") \/ Deleted(w) \/ NotSaved(w)
                \/ CloseLater(w)
    BY <2>7 DEF SubmitReview, SubmitEdit, handleDelete, Saved, Deleted, NotSaved,
                CloseLater, SendReviewCall, ReviewAnswer
  <2>8. CASE \E t \in timers : RefetchLater(t)
    BY <2>8 DEF RefetchLater
  <2>. QED
    BY <1>2, <2>1, <2>2, <2>3, <2>4, <2>5, <2>6, <2>7, <2>8 DEF ClientStep
<1>. QED
  BY <1>1, <1>2

\* What a fetch brings it brought before, or has just read.
Brings(q) ==
    /\ FetchShaped'
    /\ \/ fetch'[q] = fetch[q]
       \/ fetch'[q] = Asked
       \/ fetch'[q] = Idle
       \/ fetch'[q] = [at |-> "read", got |-> Snapshot(q)]

LEMMA ReloadBrings ==
    ASSUME NEW q \in Lists, NEW qs, NEW stale, Reload(qs, stale)
    PROVE  Brings(q)
<1>1. q \in Sources
  BY DEF Sources, Queries
<1>2. fetch' = [s \in Sources |-> IF s \in qs \ FirstLoad THEN Asked ELSE fetch[s]]
  BY DEF Reload
<1>3. fetch'[q] = IF q \in qs \ FirstLoad THEN Asked ELSE fetch[q]
  BY <1>1, <1>2
<1>. QED
  BY <1>2, <1>3 DEF Brings, FetchShaped

LEMMA MountedBrings ==
    ASSUME NEW q \in Lists, NEW p, NEW fetches, NEW flagged,
           Mounted(p, fetches, flagged),
           fetches[q] = fetch[q] \/ fetches[q] = Asked
    PROVE  Brings(q)
<1>1. q \in Sources /\ q # "modal"
  BY DEF Sources, Queries, Lists
<1>2. fetch' = [s \in Sources |->
                    IF s = "modal" THEN Idle
                    ELSE IF s = p /\ fetches[s] = Idle THEN Asked ELSE fetches[s]]
  BY DEF Mounted
<1>3. fetch'[q] = IF q = p /\ fetches[q] = Idle THEN Asked ELSE fetches[q]
  BY <1>1, <1>2
<1>. QED
  BY <1>2, <1>3 DEF Brings, FetchShaped

LEMMA ExceptBrings ==
    ASSUME PagesShaped, NEW q \in Lists, NEW s, NEW what,
           fetch' = [fetch EXCEPT ![s] = what],
           what = Asked \/ what = Idle
    PROVE  Brings(q)
<1>1. q \in Sources
  BY DEF Sources, Queries
<1>2. fetch'[q] = IF q = s THEN what ELSE fetch[q]
  BY <1>1 DEF PagesShaped, FetchShaped
<1>3. FetchShaped'
  BY DEF PagesShaped, FetchShaped
<1>. QED
  BY <1>2, <1>3 DEF Brings

\* A fetch brings what the server has when it is read.
LEMMA FetchMoves ==
    ASSUME PagesShaped, ClientStep \/ ServerStep, NEW q \in Lists
    PROVE  Brings(q)
<1>1. q \in Sources /\ q \in Queries /\ q # "modal"
  BY DEF Sources, Queries, Lists
<1>2. fetch' = fetch => Brings(q)
  BY DEF Brings, PagesShaped, FetchShaped
<1>3. CASE ServerStep
  BY <1>3, <1>2 DEF ServerStep, clientVars
<1>4. CASE ClientStep
  <2>1. ASSUME NEW p, Go(p) PROVE Brings(q)
    BY <2>1, MountedBrings DEF Go
  <2>2. ASSUME NEW s \in Sources, Read(s) PROVE Brings(q)
    <3>1. fetch'[q] = IF q = s THEN [at |-> "read", got |-> Snapshot(s)] ELSE fetch[q]
      BY <2>2, <1>1 DEF Read, PagesShaped, FetchShaped
    <3>2. FetchShaped'
      BY <2>2 DEF Read, PagesShaped, FetchShaped
    <3>. QED
      BY <3>1, <3>2 DEF Brings
  <2>3. ASSUME NEW p \in Queries, Arrive(p) PROVE Brings(q)
    <3>1. fetch'[q] = Idle \/ fetch'[q] = fetch[q]
      BY <2>3, <1>1 DEF Arrive
    <3>2. FetchShaped'
      BY <2>3 DEF Arrive, FetchShaped
    <3>. QED
      BY <3>1, <3>2 DEF Brings
  <2>4. ASSUME NEW o \in Orders, handleShippingClick(o) PROVE Brings(q)
    BY <2>4, ExceptBrings DEF handleShippingClick
  <2>5. ASSUME NEW o \in Orders, openCancel(o) PROVE Brings(q)
    BY <2>5, <1>2 DEF openCancel, OpenOnly
  <2>6. CASE Focus
    BY <2>6, ExceptBrings DEF Focus
  <2>7. CASE ShippingArrives
    BY <2>7, ExceptBrings DEF ShippingArrives
  <2>8. CASE handleCloseShippingModal
    <3>1. fetch'[q] = IF q = page THEN Asked ELSE fetch[q]
      BY <2>8, <1>1 DEF handleCloseShippingModal
    <3>2. FetchShaped'
      BY <2>8 DEF handleCloseShippingModal, FetchShaped
    <3>. QED
      BY <3>1, <3>2 DEF Brings
  <2>9. CASE openEdit \/ onClose
    BY <2>9, <1>2 DEF openEdit, onClose
  <2>10. CASE \E i \in Items : handleReviewWriteClick(i) \/ openReview(i)
    BY <2>10, <1>2 DEF handleReviewWriteClick, openReview, OpenOnly
  <2>11. CASE \E c \in TabCalls :
                \/ handleManualProgress(c) \/ ProgressAnswered(c)
                \/ handleCancel(c) \/ CancelFailed(c)
    BY <2>11, <1>2 DEF handleManualProgress, ProgressAnswered, handleCancel,
                       CancelFailed, SendOrderCall
  <2>12. ASSUME NEW c \in TabCalls, NEW back, CancelDone(c, back)
         PROVE  Brings(q)
    <3>. DEFINE again == ({page} \intersect Queries) \union {Order(c)}
                fetches == [s \in Sources |->
                               IF s \in again \ FirstLoad THEN Asked ELSE fetch[s]]
    <3>1. fetches[q] = Asked \/ fetches[q] = fetch[q]
      BY <1>1
    <3>2. Mounted(back, fetches, (early \ again) \union FirstLoad)
      BY <2>12 DEF CancelDone
    <3>. HIDE DEF fetches
    <3>. QED
      BY <3>1, <3>2, MountedBrings
  <2>13. CASE \E w \in TabWriters :
                SubmitReview(w) \/ SubmitEdit(w) \/ handleDelete(w) \/ Deleted(w) \/ NotSaved(w)
    BY <2>13, <1>2 DEF SubmitReview, SubmitEdit, handleDelete, SendReviewCall,
                       Deleted, NotSaved
  <2>14. ASSUME NEW w \in TabWriters, NEW op, Saved(w, op) PROVE Brings(q)
    BY <2>14, ReloadBrings DEF Saved, InvalidateLists
  <2>15. ASSUME NEW w \in TabWriters, CloseLater(w) PROVE Brings(q)
    BY <2>15, <1>2, ReloadBrings DEF CloseLater, InvalidateLists, RefetchLists
  <2>16. ASSUME NEW t \in timers, RefetchLater(t) PROVE Brings(q)
    BY <2>16, ReloadBrings DEF RefetchLater, RefetchLists
  <2>. QED
    BY <1>4, <2>1, <2>2, <2>3, <2>4, <2>5, <2>6, <2>7, <2>8, <2>9, <2>10, <2>11,
       <2>12, <2>13, <2>14, <2>15, <2>16 DEF ClientStep
<1>. QED
  BY <1>3, <1>4

\* The form of a review opens for an item whose order the page shows delivered.
ModalKept ==
    /\ ModalShaped'
    /\ modal'.part = "write" =>
           modal' = modal \/ \E i \in Items : handleReviewWriteClick(i)

\* A modal that waits no longer is otherwise as it was.
LEMMA ReleasedShape ==
    ASSUME ModalShaped, NEW c
    PROVE  /\ Released(c) = [f \in DOMAIN Released(c) |-> Released(c)[f]]
           /\ DOMAIN Released(c) = DOMAIN modal
           /\ Released(c).part = modal.part
           /\ modal.part = "write" => Released(c) = modal
<1>1. CASE modal.part \in {"ship", "view", "edit"} /\ modal.waits = c
  <2>1. Released(c) = [modal EXCEPT !.waits = NoCall]
    BY <1>1 DEF Released
  <2>. QED
    BY <1>1, <2>1 DEF ModalShaped
<1>2. CASE ~(modal.part \in {"ship", "view", "edit"} /\ modal.waits = c)
  BY <1>2 DEF Released, ModalShaped
<1>. QED
  BY <1>1, <1>2

\* The form of a review opens only by handleReviewWriteClick.
LEMMA ModalMoves ==
    ASSUME ModalShaped, ClientStep \/ ServerStep
    PROVE  ModalKept
<1>1. modal' = modal => ModalKept
  BY DEF ModalKept, ModalShaped
<1>2. modal' = NoModal => ModalKept
  BY DEF NoModal, ModalKept, ModalShaped
<1>3. \A c : modal' = Released(c) => ModalKept
  BY ReleasedShape DEF ModalKept, ModalShaped
<1>4. \A p, fetches, flagged : Mounted(p, fetches, flagged) => ModalKept
  BY <1>2 DEF Mounted
<1>5. ASSUME modal' = [f \in DOMAIN modal' |-> modal'[f]],
             "part" \in DOMAIN modal', modal'.part # "write"
      PROVE  ModalKept
  BY <1>5 DEF ModalKept, ModalShaped
<1>6. CASE ServerStep
  BY <1>6, <1>1 DEF ServerStep, clientVars
<1>7. CASE ClientStep
  <2>1. ASSUME NEW p, Go(p) PROVE ModalKept
    BY <2>1, <1>4 DEF Go
  <2>2. CASE Focus \/ (\E s \in Sources : Read(s)) \/ \E t \in timers : RefetchLater(t)
    BY <2>2, <1>1 DEF Focus, Read, RefetchLater
  <2>3. ASSUME NEW q \in Queries, Arrive(q) PROVE ModalKept
    BY <2>3, <1>1, <1>2 DEF Arrive
  <2>4. ASSUME NEW o \in Orders, handleShippingClick(o) PROVE ModalKept
    BY <2>4, <1>5 DEF handleShippingClick, Open
  <2>5. ASSUME NEW o \in Orders, openCancel(o) PROVE ModalKept
    BY <2>5, <1>5 DEF openCancel, OpenOnly, Open
  <2>6. CASE ShippingArrives
    <3>. DEFINE shows == fetch["modal"].got[modal.order].shipping
    <3>1. modal' = [modal EXCEPT !.shows = shows]
      BY <2>6 DEF ShippingArrives
    <3>. HIDE DEF shows
    <3>2. CASE modal.part = "write"
      BY <3>1, <3>2, <1>1 DEF ModalShaped
    <3>3. CASE modal.part # "write"
      BY <3>1, <3>3, <1>5 DEF ModalShaped
    <3>. QED
      BY <3>2, <3>3
  <2>7. CASE handleCloseShippingModal
    BY <2>7, <1>2 DEF handleCloseShippingModal
  <2>8. CASE openEdit
    BY <2>8, <1>5 DEF openEdit, ModalShaped
  <2>9. CASE onClose
    BY <2>9, <1>1, <1>2, <1>5 DEF onClose, ModalShaped
  <2>10. ASSUME NEW i \in Items, openReview(i) PROVE ModalKept
    BY <2>10, <1>5 DEF openReview, OpenOnly, Open
  <2>11. ASSUME NEW c \in TabCalls, handleManualProgress(c) PROVE ModalKept
    BY <2>11, <1>5 DEF handleManualProgress, ModalShaped
  <2>12. ASSUME NEW c \in TabCalls, ProgressAnswered(c) PROVE ModalKept
    <3>1. CASE modal.part = "ship" /\ modal.waits = c /\ pc[c] = "done"
      <4>1. modal' = [Released(c) EXCEPT !.shows = NextShipping(seen[c])]
        BY <2>12, <3>1 DEF ProgressAnswered
      <4>. QED
        BY <3>1, <4>1, <1>5, ReleasedShape DEF ModalShaped
    <3>2. CASE ~(modal.part = "ship" /\ modal.waits = c /\ pc[c] = "done")
      BY <2>12, <3>2, <1>3 DEF ProgressAnswered
    <3>. QED
      BY <3>1, <3>2
  <2>13. ASSUME NEW c \in TabCalls, handleCancel(c) \/ CancelFailed(c) PROVE ModalKept
    BY <2>13, <1>1 DEF handleCancel, CancelFailed
  <2>14. ASSUME NEW c \in TabCalls, NEW back, CancelDone(c, back) PROVE ModalKept
    BY <2>14, <1>4 DEF CancelDone
  <2>15. ASSUME NEW w \in TabWriters, SubmitReview(w) \/ handleDelete(w) PROVE ModalKept
    BY <2>15, <1>1 DEF SubmitReview, handleDelete
  <2>16. ASSUME NEW w \in TabWriters, SubmitEdit(w) PROVE ModalKept
    BY <2>16, <1>5 DEF SubmitEdit, ModalShaped
  <2>17. ASSUME NEW w \in TabWriters, NEW op, Saved(w, op) PROVE ModalKept
    BY <2>17, <1>3 DEF Saved
  <2>18. ASSUME NEW w \in TabWriters, NotSaved(w) PROVE ModalKept
    BY <2>18, <1>3 DEF NotSaved
  <2>19. ASSUME NEW w \in TabWriters, Deleted(w) \/ CloseLater(w) PROVE ModalKept
    BY <2>19, <1>1, <1>2 DEF Deleted, CloseLater
  <2>20. ASSUME NEW i \in Items, handleReviewWriteClick(i) PROVE ModalKept
    BY <2>20 DEF ModalKept, ModalShaped, handleReviewWriteClick, OpenOnly, Open
  <2>. QED
    BY <1>7, <2>1, <2>2, <2>3, <2>4, <2>5, <2>6, <2>7, <2>8, <2>9, <2>10, <2>11,
       <2>12, <2>13, <2>14, <2>15, <2>16, <2>17, <2>18, <2>19, <2>20 DEF ClientStep
<1>. QED
  BY <1>6, <1>7

\* A call of the tab that creates a review starts from that form.
CallsKept ==
    /\ wish' = wish
    /\ at' = [w \in Writers |-> at'[w]]
    /\ \A w \in TabWriters :
          wish[w].op = "create" /\ at'[w] # "idle" =>
              at[w] # "idle" \/ (modal.part = "write" /\ Item(w) = modal.item)

\* A creation of the tab comes in only from the open form.
LEMMA CallsMove ==
    ASSUME PagesShaped, ClientStep \/ ServerStep
    PROVE  CallsKept
<1>1. UNCHANGED reviewVars => CallsKept
  BY DEF reviewVars, CallsKept, PagesShaped
<1>2. TabWriters \subseteq Writers
  BY PurchaseAssumption
<1>3. UNCHANGED allVars => UNCHANGED reviewVars
  BY DEF allVars
<1>4. ASSUME NEW w, NEW id, SubmitNaming(w, id),
             w \in TabWriters => wish[w].op # "create"
                                 \/ (modal.part = "write" /\ Item(w) = modal.item)
      PROVE  CallsKept
  BY <1>4, <1>2 DEF SubmitNaming, Move, PagesShaped, CallsKept
<1>5. ASSUME NEW w, WriterStep(w) PROVE CallsKept
  <2>1. ASSUME NEW u, NEW place, Move(u, place), at[u] # "idle", wish' = wish
        PROVE  CallsKept
    BY <2>1, <1>2 DEF Move, PagesShaped, CallsKept
  <2>2. ASSUME NEW place, MoveOn(w, place), at[w] # "idle" PROVE CallsKept
    BY <2>2, <2>1 DEF MoveOn
  <2>3. CASE CreateReadOrder(w) \/ CreateReadPayment(w)
    BY <2>3, <2>2 DEF CreateReadOrder, CreateReadPayment, Wants
  <2>4. CASE ReadReview(w)
    BY <2>4, <2>2 DEF ReadReview
  <2>5. CASE CreateWrite(w)
    BY <2>5, <2>1, <2>2 DEF CreateWrite, Wants
  <2>6. CASE EditWrite(w)
    BY <2>6, <2>1, <2>2 DEF EditWrite, Wants
  <2>7. CASE DeleteWrite(w)
    BY <2>7, <2>1, <2>2 DEF DeleteWrite, Wants
  <2>. QED
    BY <1>5, <2>3, <2>4, <2>5, <2>6, <2>7 DEF WriterStep
<1>6. CASE JointCrash
  BY <1>6, <1>2 DEF JointCrash, Writing, CallsKept
<1>7. CASE ServerStep
  BY <1>7, <1>1, <1>4, <1>5, <1>6 DEF ServerStep, WriterSubmit
<1>8. CASE ClientStep
  <2>1. CASE Focus \/ ShippingArrives \/ handleCloseShippingModal \/ openEdit \/ onClose
    BY <2>1, <1>1, <1>3 DEF Focus, ShippingArrives, handleCloseShippingModal, openEdit, onClose
  <2>2. CASE \/ \E p \in Queries \union {Elsewhere} : Go(p)
             \/ \E s \in Sources : Read(s)
             \/ \E q \in Queries : Arrive(q)
             \/ \E t \in timers : RefetchLater(t)
    BY <2>2, <1>1, <1>3 DEF Go, Read, Arrive, RefetchLater
  <2>3. CASE \/ \E o \in Orders : handleShippingClick(o) \/ openCancel(o)
             \/ \E i \in Items : handleReviewWriteClick(i) \/ openReview(i)
    BY <2>3, <1>1, <1>3 DEF handleShippingClick, openCancel, handleReviewWriteClick,
                            openReview, OpenOnly
  <2>4. CASE \E c \in TabCalls :
                \/ handleManualProgress(c) \/ ProgressAnswered(c)
                \/ handleCancel(c) \/ CancelFailed(c)
                \/ \E back \in Queries \union {Elsewhere} : CancelDone(c, back)
    BY <2>4, <1>1, <1>3 DEF handleManualProgress, ProgressAnswered, handleCancel,
                            CancelFailed, CancelDone, SendOrderCall
  <2>5. ASSUME NEW w \in TabWriters, SubmitReview(w) PROVE CallsKept
    BY <2>5, <1>4 DEF SubmitReview, SendReviewCall
  <2>6. ASSUME NEW w \in TabWriters, handleDelete(w) PROVE CallsKept
    BY <2>6, <1>4 DEF handleDelete, SendReviewCall
  <2>7. ASSUME NEW w \in TabWriters, SubmitEdit(w) PROVE CallsKept
    BY <2>7, <1>4 DEF SubmitEdit
  <2>8. CASE \E w \in TabWriters :
                \/ Saved(w, "create") \/ Saved(w, "edit") \/ Deleted(w) \/ NotSaved(w)
                \/ CloseLater(w)
    BY <2>8, <1>1, <1>3 DEF Saved, Deleted, NotSaved, CloseLater, ReviewAnswer
  <2>. QED
    BY <1>8, <2>1, <2>2, <2>3, <2>4, <2>5, <2>6, <2>7, <2>8 DEF ClientStep
<1>. QED
  BY <1>7, <1>8

\* A list read now shows as delivered what has been delivered.
LEMMA SnapshotTruthful ==
    ASSUME PagesTruthful, NEW q \in Lists
    PROVE  Truthful(Snapshot(q), arrived)
<1>1. Snapshot(q) = [o \in Listed |-> Response(o)]
  BY DEF Snapshot
<1>2. Listed \subseteq Orders
  BY DEF Listed
<1>3. \A o : Response(o).shipping = shipping[o]
  BY DEF Response
<1>. QED
  BY <1>1, <1>2, <1>3 DEF Truthful, PagesTruthful

\* Each step of the tab keeps to deliveries that have taken place.
LEMMA NextPages ==
    PagesShaped /\ PagesTruthful /\ [PurchaseNext]_purchaseVars
        => PagesShaped' /\ PagesTruthful'
<1>. SUFFICES ASSUME PagesShaped, PagesTruthful, [PurchaseNext]_purchaseVars
              PROVE  PagesShaped' /\ PagesTruthful'
  OBVIOUS
<1>1. CASE UNCHANGED purchaseVars
  BY <1>1 DEF purchaseVars, allVars, vars, rows, reviewVars, clientVars, PagesShaped,
              PagesTruthful, FetchShaped, ModalShaped, Truthful, ReviewedWasDelivered, Item
<1>2. CASE PurchaseNext
  <2>1. ClientStep \/ ServerStep
    BY <1>2 DEF PurchaseNext
  <2>2. /\ arrived \subseteq arrived'
        /\ \A o \in Orders : shipping'[o] = "Delivered" => o \in arrived'
    BY <1>2 DEF PurchaseNext
  <2>3. \A shown : Truthful(shown, arrived) => Truthful(shown, arrived')
    BY <2>2 DEF Truthful
  <2>4. \A q \in Lists : q \in Queries
    BY DEF Queries
  <2>5. cache' = cache \/ \E p \in Queries : Arrive(p)
    BY <2>1, CacheMoves
  <2>6. \A q \in Lists : Brings(q)
    BY <2>1, FetchMoves
  <2>7. ModalKept
    BY <2>1, ModalMoves DEF PagesShaped
  <2>8. CallsKept
    BY <2>1, CallsMove
  <2>9. PagesShaped'
    <3>1. cache' = [q \in Queries |-> cache'[q]]
      BY <2>5 DEF Arrive, PagesShaped
    <3>2. "mypage" \in Lists
      BY DEF Lists
    <3>. QED
      BY <2>6, <2>7, <2>8, <3>1, <3>2 DEF PagesShaped, Brings, ModalKept, CallsKept
  <2>10. \A q \in Lists : cache'[q] # NoData => Truthful(cache'[q], arrived')
    <3>1. SUFFICES ASSUME NEW q \in Lists, cache'[q] # NoData,
                          NEW p \in Queries, Arrive(p)
                   PROVE  Truthful(cache'[q], arrived')
      BY <2>3, <2>5 DEF PagesTruthful
    <3>2. cache'[q] = IF q = p THEN fetch[p].got ELSE cache[q]
      BY <3>1, <2>4 DEF Arrive, PagesShaped
    <3>3. fetch[p].at = "read"
      BY <3>1 DEF Arrive
    <3>. QED
      BY <2>3, <3>1, <3>2, <3>3 DEF PagesTruthful
  <2>11. \A q \in Lists : fetch'[q].at = "read" => Truthful(fetch'[q].got, arrived')
    <3>1. SUFFICES ASSUME NEW q \in Lists, fetch'[q].at = "read"
                   PROVE  Truthful(fetch'[q].got, arrived')
      OBVIOUS
    <3>2. fetch'[q] = fetch[q] \/ fetch'[q].got = Snapshot(q)
      <4>1. fetch'[q] # Asked /\ fetch'[q] # Idle
        BY <3>1 DEF Asked, Idle
      <4>2. Brings(q)
        BY <2>6
      <4>3. fetch'[q] = fetch[q] \/ fetch'[q] = [at |-> "read", got |-> Snapshot(q)]
        BY <4>1, <4>2 DEF Brings
      <4>. QED
        BY <4>3
    <3>3. Truthful(Snapshot(q), arrived)
      BY SnapshotTruthful
    <3>4. Truthful(fetch'[q].got, arrived)
      BY <3>1, <3>2, <3>3 DEF PagesTruthful
    <3>. QED
      BY <2>3, <3>4
  <2>12. modal'.part = "write" => OrderOf[modal'.item] \in arrived'
    <3>1. SUFFICES ASSUME NEW i \in Items, handleReviewWriteClick(i)
                   PROVE  OrderOf[modal'.item] \in arrived'
      BY <2>2, <2>7 DEF ModalKept, PagesTruthful
    <3>2. modal'.item = i
      BY <3>1 DEF handleReviewWriteClick, OpenOnly, Open
    <3>3. page \in Lists /\ Truthful(cache[page], arrived) /\ OrderOf[i] \in DOMAIN cache[page]
      BY <3>1 DEF handleReviewWriteClick, Shown, PagesTruthful
    <3>4. OrderOf[i] \in arrived
      BY <3>1, <3>3 DEF handleReviewWriteClick, Truthful
    <3>. QED
      BY <3>2, <3>4, <2>2
  <2>13. ReviewedWasDelivered'
    BY <2>2, <2>8 DEF CallsKept, ReviewedWasDelivered, PagesTruthful, Item
  <2>. QED
    BY <2>2, <2>9, <2>10, <2>11, <2>12, <2>13 DEF PagesTruthful
<1>. QED
  BY <1>1, <1>2

\* Whoever writes a review of an item from the pages of purchases has had it
\* delivered, however stale what the pages show is and whatever became of the
\* shipping since: only they look at it.
THEOREM ReviewedHasArrived == PurchaseSpec => []ReviewedWasDelivered
<1>1. PurchaseInit => PagesShaped /\ PagesTruthful
  BY InitPages
<1>2. PagesShaped /\ PagesTruthful /\ [PurchaseNext]_purchaseVars
          => PagesShaped' /\ PagesTruthful'
  BY NextPages
<1>3. PagesTruthful => ReviewedWasDelivered
  BY DEF PagesTruthful
<1>. QED
  BY <1>1, <1>2, <1>3, PTL DEF PurchaseSpec

-----------------------------------------------------------------------------
(***************************************************************************)
(* What the lists show when all has come to rest.                          *)
(***************************************************************************)

\* A change that the tab has made and will fetch the lists for: the answer is
\* on its way, or a timeout it has set.
Unheard ==
    \/ \E c \in sent \intersect TabCalls : Running(c, "cancelOrder", "done")
    \/ \E w \in sent \intersect TabWriters : at[w] = "done"
    \/ \E t \in timers : t.does = "refetch"

UpToDate(got) ==
    /\ DOMAIN got = Listed
    /\ \A o \in Listed : got[o].review = Response(o).review

\* What a list shows, or is about to show, is what there is.
ListFollows(q) ==
    /\ fetch[q].at = "read" => UpToDate(fetch[q].got)
    /\ fetch[q] = Idle /\ cache[q] # NoData => UpToDate(cache[q])

\* The calls of the tab that run are waited for, and of those on orders only
\* cancellations change what the lists show.
CallsOut ==
    /\ pc = [c \in Calls |-> pc[c]]
    /\ \A c \in TabCalls :
          /\ pc[c] # "idle" => request[c].op \in {"progress", "cancelOrder"}
          /\ pc[c] \in InFlight => c \in sent
    /\ \A w \in TabWriters : at[w] \in Writing => w \in sent

\* Short of a change unheard of, each list follows what there is.
ListsFollow ==
    /\ CallsOut
    /\ OthersQuiet /\ ~Unheard => \A q \in Lists \ early : ListFollows(q)

\* Nothing has been fetched yet.
LEMMA InitFollows == PurchaseInit => ListsFollow
<1>. SUFFICES ASSUME PurchaseInit PROVE ListsFollow
  OBVIOUS
<1>1. CallsOut
  BY PurchaseAssumption DEF PurchaseInit, InitCalls, NothingReviewed, CallsOut, InFlight, Writing
<1>2. \A q \in Lists : q \in Queries /\ q \in Sources
  BY DEF Queries, Sources
<1>3. \A q \in Lists : cache[q] = NoData /\ fetch[q] = Idle
  BY <1>2 DEF PurchaseInit
<1>. QED
  BY <1>1, <1>3 DEF ListsFollow, ListFollows, Idle

\* A step of a call on orders moves that call on, and only a cancellation that
\* is then done changes what is listed.
LEMMA StepMoves ==
    ASSUME NEW c \in Calls, Step(c)
    PROVE  /\ pc[c] \in InFlight
           /\ UNCHANGED request
           /\ \E place \in InFlight \union Answered : Goto(c, place)
           /\ request[c].op \in {"progress", "cancelOrder"} => UNCHANGED payment
           /\ request[c].op = "progress" => UNCHANGED status
           /\ request[c].op = "cancelOrder" => UNCHANGED status \/ Goto(c, "done")
<1>. USE DEF InFlight, Answered, Running, See, Refuse, rows
<1>1. CASE PayRead(c) \/ PayWrite(c) \/ PaySettle(c)
  BY <1>1 DEF PayRead, PayWrite, PaySettle
<1>2. CASE CancelRead(c) \/ CancelCheck(c) \/ CancelWrite(c)
  BY <1>2 DEF CancelRead, CancelCheck, CancelWrite
<1>3. CASE PaymentCancelRead(c) \/ PaymentCancelCheck(c) \/ PaymentCancelWrite(c)
  BY <1>3 DEF PaymentCancelRead, PaymentCancelCheck, PaymentCancelWrite
<1>4. CASE ProgressRead(c) \/ ProgressWrite(c) \/ SetShipping(c)
  BY <1>4 DEF ProgressRead, ProgressWrite, SetShipping
<1>. QED
  BY <1>1, <1>2, <1>3, <1>4 DEF Step

\* So does a step of a call on reviews, and a review changes when that is done.
LEMMA WriterMoves ==
    ASSUME NEW w \in Writers, WriterStep(w)
    PROVE  /\ at[w] \in Writing
           /\ UNCHANGED vars
           /\ \E place \in Writing \union Closed : Move(w, place)
           /\ UNCHANGED review \/ Move(w, "done")
<1>. USE DEF Writing, Closed, Wants, MoveOn
<1>1. CASE CreateReadOrder(w) \/ CreateReadPayment(w) \/ CreateWrite(w)
  BY <1>1 DEF CreateReadOrder, CreateReadPayment, CreateWrite
<1>2. CASE ReadReview(w) \/ EditWrite(w) \/ DeleteWrite(w)
  BY <1>2 DEF ReadReview, EditWrite, DeleteWrite
<1>. QED
  BY <1>1, <1>2 DEF WriterStep

\* What a step of the tab does to its calls and timeouts: it asks, is answered,
\* fetches the lists at last, or none of these.
TimersKept == \A t \in timers : t.does = "refetch" => t \in timers'
RefetchSet == \E t \in timers' : t.does = "refetch"

AsksOrder(c) ==
    /\ c \in TabCalls /\ request[c].op \in {"progress", "cancelOrder"}
    /\ Submit(c)
    /\ sent' = sent \union {c}
    /\ UNCHANGED <<reviewVars, timers>>

AsksReview(w, id) ==
    /\ w \in TabWriters
    /\ SubmitNaming(w, id)
    /\ sent' = sent \union {w}
    /\ UNCHANGED timers

OrderHeard(c) ==
    /\ c \in TabCalls /\ pc[c] \notin InFlight
    /\ Running(c, "cancelOrder", "done") => RefetchSet
    /\ sent' = sent \ {c}
    /\ TimersKept /\ UNCHANGED allVars

ReviewHeard(w) ==
    /\ w \in TabWriters /\ at[w] \notin Writing
    /\ at[w] = "done" => RefetchSet
    /\ sent' = sent \ {w}
    /\ TimersKept /\ UNCHANGED allVars

Rests == TimersKept /\ UNCHANGED <<allVars, sent>>

\* Every step of the tab is one of these.
LEMMA ClientCalls ==
    ASSUME ClientStep
    PROVE  \/ Rests
           \/ \E c : AsksOrder(c) \/ OrderHeard(c)
           \/ \E w : ReviewHeard(w) \/ \E id : AsksReview(w, id)
           \/ \E t \in timers : RefetchLater(t)
<1>1. timers' = timers => TimersKept
  BY DEF TimersKept
<1>2. timers' = Outliving => TimersKept
  BY DEF TimersKept, Outliving
<1>3. \A T : timers' = timers \union T => TimersKept
  BY DEF TimersKept
<1>4. \A w : timers' = timers \ {After(w, "close")} => TimersKept
  BY DEF TimersKept, After
<1>5. \A w : After(w, "refetch") \in timers' => RefetchSet
  <2>1. \A w : After(w, "refetch").does = "refetch"
    BY DEF After
  <2>. QED
    BY <2>1 DEF RefetchSet
<1>6. CASE \E p \in Queries \union {Elsewhere} : Go(p)
  BY <1>6, <1>2 DEF Go, Rests
<1>7. CASE \/ \E s \in Sources : Read(s)
           \/ Focus \/ ShippingArrives \/ handleCloseShippingModal \/ openEdit \/ onClose
  BY <1>7, <1>1 DEF Read, Focus, ShippingArrives, handleCloseShippingModal, openEdit,
                    onClose, Rests
<1>8. ASSUME NEW q \in Queries, Arrive(q) PROVE Rests
  BY <1>8, <1>1, <1>2 DEF Arrive, Rests
<1>9. CASE \/ \E o \in Orders : handleShippingClick(o) \/ openCancel(o)
           \/ \E i \in Items : handleReviewWriteClick(i) \/ openReview(i)
  BY <1>9, <1>1 DEF handleShippingClick, openCancel, handleReviewWriteClick, openReview,
                    OpenOnly, Rests
<1>10. ASSUME NEW c \in TabCalls, handleManualProgress(c) \/ handleCancel(c)
       PROVE  AsksOrder(c)
  BY <1>10 DEF handleManualProgress, handleCancel, SendOrderCall, AsksOrder
<1>11. ASSUME NEW c \in TabCalls, ProgressAnswered(c) \/ CancelFailed(c)
       PROVE  OrderHeard(c)
  BY <1>11, <1>1 DEF ProgressAnswered, CancelFailed, OrderHeard, Running, InFlight, Answered
<1>12. ASSUME NEW c \in TabCalls, NEW back, CancelDone(c, back)
       PROVE  OrderHeard(c)
  <2>1. timers' = Outliving \union {After(c, "refetch")}
    BY <1>12 DEF CancelDone
  <2>2. TimersKept /\ RefetchSet
    BY <2>1, <1>5 DEF TimersKept, Outliving
  <2>. QED
    BY <1>12, <2>2 DEF CancelDone, OrderHeard, Running, InFlight
<1>13. ASSUME NEW w \in TabWriters, SubmitReview(w) \/ handleDelete(w) \/ SubmitEdit(w)
       PROVE  \E id : AsksReview(w, id)
  BY <1>13 DEF SubmitReview, handleDelete, SubmitEdit, SendReviewCall, AsksReview
<1>14. ASSUME NEW w \in TabWriters, NEW op, Saved(w, op) PROVE ReviewHeard(w)
  <2>1. After(w, "refetch") \in timers' /\ timers \subseteq timers'
    BY <1>14 DEF Saved
  <2>2. TimersKept /\ RefetchSet
    BY <2>1, <1>5 DEF TimersKept
  <2>. QED
    BY <1>14, <2>2 DEF Saved, ReviewAnswer, ReviewHeard, Writing
<1>15. ASSUME NEW w \in TabWriters, Deleted(w) PROVE ReviewHeard(w)
  <2>1. After(w, "refetch") \in timers' /\ timers \subseteq timers'
    BY <1>15 DEF Deleted
  <2>2. TimersKept /\ RefetchSet
    BY <2>1, <1>5 DEF TimersKept
  <2>. QED
    BY <1>15, <2>2 DEF Deleted, ReviewAnswer, ReviewHeard, Writing
<1>16. ASSUME NEW w \in TabWriters, NotSaved(w) PROVE ReviewHeard(w)
  BY <1>16, <1>1 DEF NotSaved, ReviewAnswer, ReviewHeard, Writing
<1>17. ASSUME NEW w \in TabWriters, CloseLater(w) PROVE Rests
  BY <1>17, <1>4 DEF CloseLater, Rests
<1>. QED
  BY <1>6, <1>7, <1>8, <1>9, <1>10, <1>11, <1>12, <1>13, <1>14, <1>15, <1>16, <1>17
     DEF ClientStep

\* Where the calls are after a step.
LEMMA PlacesMove ==
    ASSUME CallsOut, PagesShaped, ClientStep \/ ServerStep
    PROVE  /\ UNCHANGED <<request, wish>>
           /\ pc' = [c \in Calls |-> pc'[c]]
           /\ \A c \in Calls :
                 \/ pc'[c] = pc[c]
                 \/ pc[c] \in InFlight /\ pc'[c] # "idle"
                 \/ pc[c] = "idle" /\ pc'[c] # "idle"
                       /\ (c \in TabCalls => AsksOrder(c))
           /\ \A w \in Writers :
                 \/ at'[w] = at[w]
                 \/ at[w] \in Writing /\ at'[w] # "idle"
                 \/ at[w] = "idle" /\ at'[w] # "idle"
                       /\ (w \in TabWriters => \E id : AsksReview(w, id))
<1>0. /\ pc = [c \in Calls |-> pc[c]]
      /\ at = [w \in Writers |-> at[w]]
      /\ TabCalls \subseteq Calls /\ TabWriters \subseteq Writers
  BY PurchaseAssumption DEF CallsOut, PagesShaped
<1>1. CASE UNCHANGED allVars
  BY <1>0, <1>1 DEF allVars, vars, reviewVars
<1>2. ASSUME NEW c \in Calls, Submit(c), UNCHANGED reviewVars,
             c \in TabCalls => AsksOrder(c)
      PROVE  /\ UNCHANGED <<request, wish, at>>
             /\ pc' = [d \in Calls |-> pc'[d]]
             /\ \A d \in Calls :
                   \/ pc'[d] = pc[d]
                   \/ pc[d] = "idle" /\ pc'[d] # "idle"
                         /\ (d \in TabCalls => AsksOrder(d))
  BY <1>0, <1>2 DEF Submit, Goto, reviewVars
<1>3. ASSUME NEW w \in Writers, NEW id, SubmitNaming(w, id),
             w \in TabWriters => AsksReview(w, id)
      PROVE  /\ UNCHANGED <<request, wish, pc>>
             /\ \A u \in Writers :
                   \/ at'[u] = at[u]
                   \/ at[u] = "idle" /\ at'[u] # "idle"
                         /\ (u \in TabWriters => \E j : AsksReview(u, j))
  BY <1>0, <1>3 DEF SubmitNaming, Move, vars
<1>4. ASSUME NEW c \in Calls, Step(c), UNCHANGED reviewVars
      PROVE  /\ UNCHANGED <<request, wish, at>>
             /\ pc' = [d \in Calls |-> pc'[d]]
             /\ \A d \in Calls :
                   pc'[d] = pc[d] \/ (pc[d] \in InFlight /\ pc'[d] # "idle")
  <2>1. PICK place \in InFlight \union Answered : Goto(c, place)
    BY <1>4, StepMoves
  <2>2. pc[c] \in InFlight /\ UNCHANGED request
    BY <1>4, StepMoves
  <2>3. place # "idle"
    BY <2>1 DEF InFlight, Answered
  <2>. QED
    BY <1>0, <1>4, <2>1, <2>2, <2>3 DEF Goto, reviewVars
<1>5. ASSUME NEW w \in Writers, WriterStep(w)
      PROVE  /\ UNCHANGED <<request, wish, pc>>
             /\ \A u \in Writers :
                   at'[u] = at[u] \/ (at[u] \in Writing /\ at'[u] # "idle")
  <2>1. PICK place \in Writing \union Closed : Move(w, place)
    BY <1>5, WriterMoves
  <2>2. at[w] \in Writing /\ UNCHANGED vars
    BY <1>5, WriterMoves
  <2>3. place # "idle"
    BY <2>1 DEF Writing, Closed
  <2>4. CallsKept
    BY CallsMove
  <2>. QED
    BY <1>0, <2>1, <2>2, <2>3, <2>4 DEF Move, vars, CallsKept
<1>6. CASE JointCrash
  BY <1>0, <1>6 DEF JointCrash
<1>7. CASE ServerStep
  <2>1. CASE \E c \in Calls : Step(c) /\ UNCHANGED reviewVars
    BY <2>1, <1>4
  <2>2. CASE \E c \in Calls \ TabCalls : Submit(c) /\ UNCHANGED reviewVars
    BY <2>2, <1>2
  <2>3. CASE \E w \in Writers : WriterStep(w)
    BY <2>3, <1>0, <1>5
  <2>4. CASE \E w \in Writers \ TabWriters : WriterSubmit(w)
    BY <2>4, <1>0, <1>3 DEF WriterSubmit
  <2>. QED
    BY <1>6, <1>7, <2>1, <2>2, <2>3, <2>4 DEF ServerStep
<1>8. CASE ClientStep
  <2>1. CASE Rests \/ (\E c : OrderHeard(c)) \/ \E w : ReviewHeard(w)
    BY <2>1, <1>1 DEF Rests, OrderHeard, ReviewHeard
  <2>2. CASE \E t \in timers : RefetchLater(t)
    BY <2>2, <1>1 DEF RefetchLater
  <2>3. ASSUME NEW c, AsksOrder(c)
        PROVE  c \in Calls /\ Submit(c) /\ UNCHANGED reviewVars
    BY <2>3, <1>0 DEF AsksOrder
  <2>4. ASSUME NEW w, NEW id, AsksReview(w, id)
        PROVE  w \in Writers /\ SubmitNaming(w, id)
    BY <2>4, <1>0 DEF AsksReview
  <2>5. CASE \E c : AsksOrder(c)
    BY <2>5, <2>3, <1>0, <1>2
  <2>6. CASE \E w, id : AsksReview(w, id)
    BY <2>6, <2>4, <1>0, <1>3
  <2>. QED
    BY <1>8, <2>1, <2>2, <2>5, <2>6, ClientCalls
<1>. QED
  BY <1>7, <1>8

\* Whoever has begun has begun for good.
LEMMA QuietBefore ==
    ASSUME CallsOut, PagesShaped, ClientStep \/ ServerStep, OthersQuiet'
    PROVE  OthersQuiet
<1>1. \A c \in Calls \ TabCalls : pc'[c] = "idle" => pc[c] = "idle"
  BY PlacesMove
<1>2. \A w \in Writers \ TabWriters : at'[w] = "idle" => at[w] = "idle"
  BY PlacesMove
<1>. QED
  BY <1>1, <1>2 DEF OthersQuiet

\* A call is waited for until it has ended.
LEMMA SentMoves ==
    ASSUME ClientStep \/ ServerStep
    PROVE  /\ \A c \in TabCalls : c \in sent /\ c \notin sent' => OrderHeard(c)
           /\ \A w \in TabWriters : w \in sent /\ w \notin sent' => ReviewHeard(w)
<1>1. CASE ServerStep
  BY <1>1 DEF ServerStep, clientVars
<1>2. CASE ClientStep
  <2>1. \A c \in TabCalls : c \notin TabWriters
    BY PurchaseAssumption
  <2>2. (\E t \in timers : RefetchLater(t)) => sent' = sent
    BY DEF RefetchLater
  <2>3. Rests => sent' = sent
    BY DEF Rests
  <2>. QED
    BY <1>2, <2>1, <2>2, <2>3, ClientCalls DEF AsksOrder, AsksReview, OrderHeard, ReviewHeard
<1>. QED
  BY <1>1, <1>2

\* A call of the tab that runs stays waited for.
LEMMA CallsStayOut ==
    ASSUME CallsOut, PagesShaped, ClientStep \/ ServerStep
    PROVE  CallsOut'
<1>0. /\ UNCHANGED <<request, wish>>
      /\ pc' = [c \in Calls |-> pc'[c]]
      /\ TabCalls \subseteq Calls /\ TabWriters \subseteq Writers
  BY PlacesMove, PurchaseAssumption
<1>1. ASSUME NEW c \in TabCalls, pc'[c] # "idle"
      PROVE  /\ request[c].op \in {"progress", "cancelOrder"}
             /\ pc'[c] \in InFlight => c \in sent'
  <2>1. \/ pc'[c] = pc[c]
        \/ pc[c] \in InFlight
        \/ AsksOrder(c)
    BY <1>0, PlacesMove
  <2>2. CASE AsksOrder(c)
    BY <2>2 DEF AsksOrder
  <2>3. CASE pc'[c] = pc[c] \/ pc[c] \in InFlight
    <3>1. pc[c] # "idle"
      BY <1>1, <2>3 DEF InFlight
    <3>2. request[c].op \in {"progress", "cancelOrder"}
      BY <3>1 DEF CallsOut
    <3>3. ASSUME pc'[c] \in InFlight PROVE c \in sent'
      <4>1. pc[c] \in InFlight
        BY <2>3, <3>3
      <4>2. c \in sent
        BY <4>1 DEF CallsOut
      <4>. QED
        BY <4>1, <4>2, SentMoves DEF OrderHeard
    <3>. QED
      BY <3>2, <3>3
  <2>. QED
    BY <2>1, <2>2, <2>3
<1>2. ASSUME NEW w \in TabWriters, at'[w] \in Writing
      PROVE  w \in sent'
  <2>1. \/ at'[w] = at[w]
        \/ at[w] \in Writing
        \/ \E id : AsksReview(w, id)
    BY <1>0, PlacesMove
  <2>2. CASE \E id : AsksReview(w, id)
    BY <2>2 DEF AsksReview
  <2>3. CASE at'[w] = at[w] \/ at[w] \in Writing
    <3>1. at[w] \in Writing
      BY <1>2, <2>3
    <3>2. w \in sent
      BY <3>1 DEF CallsOut
    <3>. QED
      BY <3>1, <3>2, SentMoves DEF ReviewHeard
  <2>. QED
    BY <2>1, <2>2, <2>3
<1>3. \A c \in TabCalls : pc'[c] \in InFlight => pc'[c] # "idle"
  BY DEF InFlight
<1>. QED
  BY <1>0, <1>1, <1>2, <1>3 DEF CallsOut

\* A change the tab has made is heard of, or still to be heard of, until the
\* lists are fetched for it.
LEMMA UnheardStays ==
    ASSUME CallsOut, PagesShaped, ClientStep \/ ServerStep, Unheard
    PROVE  Unheard' \/ \E t \in timers : RefetchLater(t)
<1>. SUFFICES ASSUME ~\E t \in timers : RefetchLater(t)
              PROVE  Unheard'
  OBVIOUS
<1>0. /\ UNCHANGED <<request, wish>>
      /\ TabCalls \subseteq Calls /\ TabWriters \subseteq Writers
  BY PlacesMove, PurchaseAssumption
<1>1. RefetchSet => Unheard'
  BY DEF RefetchSet, Unheard
<1>2. ASSUME NEW c \in sent \intersect TabCalls, Running(c, "cancelOrder", "done")
      PROVE  Unheard'
  <2>1. Running(c, "cancelOrder", "done")'
    BY <1>0, <1>2, PlacesMove DEF Running, InFlight
  <2>2. CASE c \in sent'
    BY <1>2, <2>1, <2>2 DEF Unheard
  <2>3. CASE c \notin sent'
    BY <1>1, <1>2, <2>3, SentMoves DEF OrderHeard
  <2>. QED
    BY <2>2, <2>3
<1>3. ASSUME NEW w \in sent \intersect TabWriters, at[w] = "done"
      PROVE  Unheard'
  <2>1. at'[w] = "done"
    BY <1>0, <1>3, PlacesMove DEF Writing
  <2>2. CASE w \in sent'
    BY <1>3, <2>1, <2>2 DEF Unheard
  <2>3. CASE w \notin sent'
    BY <1>1, <1>3, <2>3, SentMoves DEF ReviewHeard
  <2>. QED
    BY <2>2, <2>3
<1>4. TimersKept
  <2>1. timers' = timers => TimersKept
    BY DEF TimersKept
  <2>2. ServerStep => timers' = timers
    BY DEF ServerStep, clientVars
  <2>. QED
    BY <2>1, <2>2, ClientCalls
       DEF Rests, AsksOrder, AsksReview, OrderHeard, ReviewHeard
<1>. QED
  BY <1>2, <1>3, <1>4 DEF Unheard, TimersKept

SameRows ==
    /\ Listed' = Listed
    /\ \A o \in Orders : Response(o)'.review = Response(o).review

\* While nobody else is at it, what the lists show changes only with a change
\* that is then unheard of.
LEMMA RowsMove ==
    ASSUME CallsOut, PagesShaped, ClientStep \/ ServerStep, OthersQuiet'
    PROVE  SameRows \/ Unheard'
<1>0. /\ UNCHANGED <<request, wish>>
      /\ pc = [c \in Calls |-> pc[c]]
      /\ at = [w \in Writers |-> at[w]]
  BY PlacesMove DEF CallsOut, PagesShaped
<1>1. UNCHANGED <<status, payment, review>> => SameRows
  BY DEF SameRows, Listed, Response, ReviewId
<1>2. OthersQuiet
  BY QuietBefore
<1>3. ASSUME NEW c \in Calls, Step(c), UNCHANGED reviewVars, UNCHANGED clientVars
      PROVE  SameRows \/ Unheard'
  <2>1. pc[c] \in InFlight
    BY <1>3, StepMoves
  <2>2. c \in TabCalls /\ c \in sent
    BY <1>2, <2>1 DEF OthersQuiet, CallsOut, InFlight
  <2>3. request[c].op \in {"progress", "cancelOrder"}
    BY <2>1, <2>2 DEF CallsOut, InFlight
  <2>4. UNCHANGED payment /\ UNCHANGED review
    BY <1>3, <2>3, StepMoves DEF reviewVars
  <2>5. CASE UNCHANGED status
    BY <1>1, <2>4, <2>5
  <2>6. CASE ~UNCHANGED status
    <3>1. request[c].op = "cancelOrder" /\ Goto(c, "done")
      BY <1>3, <2>3, <2>6, StepMoves
    <3>2. Running(c, "cancelOrder", "done")'
      BY <1>0, <3>1 DEF Goto, Running
    <3>3. c \in sent'
      BY <1>3, <2>2 DEF clientVars
    <3>. QED
      BY <2>2, <3>2, <3>3 DEF Unheard
  <2>. QED
    BY <2>5, <2>6
<1>4. ASSUME NEW w \in Writers, WriterStep(w), UNCHANGED clientVars
      PROVE  SameRows \/ Unheard'
  <2>1. at[w] \in Writing
    BY <1>4, WriterMoves
  <2>2. w \in TabWriters /\ w \in sent
    BY <1>2, <2>1 DEF OthersQuiet, CallsOut, Writing
  <2>3. UNCHANGED <<status, payment>>
    BY <1>4, WriterMoves DEF vars, rows
  <2>4. CASE UNCHANGED review
    BY <1>1, <2>3, <2>4
  <2>5. CASE Move(w, "done")
    <3>1. at'[w] = "done" /\ w \in sent'
      BY <1>0, <1>4, <2>2, <2>5 DEF Move, clientVars
    <3>. QED
      BY <2>2, <3>1 DEF Unheard
  <2>. QED
    BY <1>4, <2>4, <2>5, WriterMoves
<1>5. CASE ServerStep
  <2>1. CASE \E c \in Calls \ TabCalls : Submit(c) /\ UNCHANGED reviewVars
    BY <2>1, <1>1 DEF Submit, rows, reviewVars
  <2>2. CASE \E w \in Writers \ TabWriters : WriterSubmit(w)
    BY <2>2, <1>1 DEF WriterSubmit, SubmitNaming, vars, rows
  <2>3. CASE JointCrash
    BY <2>3, <1>1 DEF JointCrash, rows
  <2>. QED
    BY <1>3, <1>4, <1>5, <2>1, <2>2, <2>3 DEF ServerStep
<1>6. CASE ClientStep
  <2>1. UNCHANGED allVars => SameRows
    BY <1>1 DEF allVars, vars, rows, reviewVars
  <2>2. CASE \E c : AsksOrder(c)
    BY <2>2, <1>1 DEF AsksOrder, Submit, rows, reviewVars
  <2>3. CASE \E w, id : AsksReview(w, id)
    BY <2>3, <1>1 DEF AsksReview, SubmitNaming, vars, rows
  <2>4. CASE \E t \in timers : RefetchLater(t)
    BY <2>1, <2>4 DEF RefetchLater
  <2>. QED
    BY <1>6, <2>1, <2>2, <2>3, <2>4, ClientCalls DEF Rests, OrderHeard, ReviewHeard
<1>. QED
  BY <1>5, <1>6

\* What a step does to a list that is not excepted after it: it is asked for, is
\* read, is left alone, or shows what was read.
Advances(q) ==
    \/ fetch'[q] = Asked
    \/ fetch'[q] = [at |-> "read", got |-> Snapshot(q)]
    \/ q \notin early /\ fetch'[q] = fetch[q] /\ cache'[q] = cache[q]
    \/ /\ q \notin early
       /\ fetch[q].at = "read"
       /\ fetch'[q] = Idle
       /\ cache'[q] = fetch[q].got

\* A list whose answer was stale is asked for, unless a first load of it is under
\* way, which flags it.
LEMMA ReloadAdvances ==
    ASSUME NEW q \in Lists, NEW qs, NEW stale, Reload(qs, stale),
           q \in stale, q \notin early', cache' = cache
    PROVE  /\ Advances(q)
           /\ q \in qs => fetch'[q] = Asked
           /\ q \notin qs /\ cache[q] = NoData => fetch'[q] = Idle
<1>1. q \in Sources /\ q \in Queries
  BY DEF Sources, Queries
<1>2. fetch'[q] = IF q \in qs \ FirstLoad THEN Asked ELSE fetch[q]
  BY <1>1 DEF Reload
<1>3. q \notin FirstLoad /\ (q \notin qs => q \notin early)
  BY DEF Reload
<1>4. cache[q] # NoData \/ fetch[q] = Idle
  BY <1>1, <1>3 DEF FirstLoad
<1>. QED
  BY <1>2, <1>3, <1>4 DEF Advances

\* A page that is mounted asks for its list, or leaves it as the query client has it.
LEMMA MountedAdvances ==
    ASSUME NEW q \in Lists, NEW p, NEW fetches, NEW flagged,
           Mounted(p, fetches, flagged), q \notin early', cache' = cache,
           fetches[q] = Asked \/ (fetches[q] = fetch[q] /\ (q \notin flagged => q \notin early))
    PROVE  Advances(q)
<1>1. q \in Sources /\ q \in Queries /\ q # "modal"
  BY DEF Sources, Queries, Lists
<1>2. fetch' = [s \in Sources |->
                    IF s = "modal" THEN Idle
                    ELSE IF s = p /\ fetches[s] = Idle THEN Asked ELSE fetches[s]]
  BY DEF Mounted
<1>3. fetch'[q] = IF q = p /\ fetches[q] = Idle THEN Asked ELSE fetches[q]
  BY <1>1, <1>2
<1>4. early' = IF p \in Queries /\ fetches[p] = Idle THEN flagged \ {p} ELSE flagged
  BY DEF Mounted
<1>. QED
  BY <1>1, <1>3, <1>4 DEF Advances

\* Every step of the tab and of the server moves a list forward or not at all.
LEMMA ListAdvances ==
    ASSUME PagesShaped, ClientStep \/ ServerStep, NEW q \in Lists, q \notin early'
    PROVE  Advances(q)
<1>1. q \in Sources /\ q \in Queries /\ q # "modal"
  BY DEF Sources, Queries, Lists
<1>2. fetch' = fetch /\ cache' = cache /\ early' = early => Advances(q)
  BY DEF Advances
<1>3. CASE ServerStep
  BY <1>3, <1>2 DEF ServerStep, clientVars
<1>4. CASE ClientStep
  <2>1. ASSUME NEW p, Go(p) PROVE Advances(q)
    BY <2>1, MountedAdvances DEF Go
  <2>2. ASSUME NEW s \in Sources, Read(s) PROVE Advances(q)
    <3>1. fetch'[q] = IF q = s THEN [at |-> "read", got |-> Snapshot(s)] ELSE fetch[q]
      BY <2>2, <1>1 DEF Read, PagesShaped, FetchShaped
    <3>2. UNCHANGED <<cache, early>>
      BY <2>2 DEF Read
    <3>. QED
      BY <3>1, <3>2 DEF Advances
  <2>3. ASSUME NEW p \in Queries, Arrive(p) PROVE Advances(q)
    <3>1. CASE q = p
      <4>1. fetch[q].at = "read" /\ early' = early /\ fetch'[q] = Idle
        BY <2>3, <3>1, <1>1 DEF Arrive
      <4>2. cache'[q] = fetch[q].got
        BY <2>3, <3>1, <1>1 DEF Arrive, PagesShaped
      <4>. QED
        BY <4>1, <4>2 DEF Advances
    <3>2. CASE q # p
      <4>1. fetch'[q] = fetch[q] /\ early' = early
        BY <2>3, <3>2, <1>1 DEF Arrive
      <4>2. cache'[q] = cache[q]
        BY <2>3, <3>2, <1>1 DEF Arrive, PagesShaped
      <4>. QED
        BY <4>1, <4>2 DEF Advances
    <3>. QED
      BY <3>1, <3>2
  <2>4. ASSUME NEW s, s # q, NEW what, fetch' = [fetch EXCEPT ![s] = what],
               UNCHANGED <<cache, early>>
        PROVE  Advances(q)
    <3>1. fetch'[q] = fetch[q]
      BY <2>4, <1>1 DEF PagesShaped, FetchShaped
    <3>. QED
      BY <3>1, <2>4 DEF Advances
  <2>5. CASE (\E o \in Orders : handleShippingClick(o)) \/ ShippingArrives
    BY <2>5, <2>4, <1>1 DEF handleShippingClick, ShippingArrives
  <2>6. CASE Focus
    <3>1. fetch'[q] = IF q = page THEN Asked ELSE fetch[q]
      BY <2>6, <1>1 DEF Focus, PagesShaped, FetchShaped
    <3>. QED
      BY <2>6, <3>1 DEF Focus, Advances
  <2>7. CASE handleCloseShippingModal
    <3>1. fetch'[q] = IF q = page THEN Asked ELSE fetch[q]
      BY <2>7, <1>1 DEF handleCloseShippingModal
    <3>. QED
      BY <2>7, <3>1 DEF handleCloseShippingModal, Advances
  <2>8. CASE \/ openEdit \/ onClose
             \/ \E o \in Orders : openCancel(o)
             \/ \E i \in Items : handleReviewWriteClick(i) \/ openReview(i)
    BY <2>8, <1>2 DEF openEdit, onClose, openCancel, handleReviewWriteClick, openReview,
                      OpenOnly
  <2>9. CASE \E c \in TabCalls :
                \/ handleManualProgress(c) \/ ProgressAnswered(c)
                \/ handleCancel(c) \/ CancelFailed(c)
    BY <2>9, <1>2 DEF handleManualProgress, ProgressAnswered, handleCancel,
                      CancelFailed, SendOrderCall
  <2>10. ASSUME NEW c \in TabCalls, NEW back, CancelDone(c, back)
         PROVE  Advances(q)
    <3>. DEFINE again == ({page} \intersect Queries) \union {Order(c)}
                fetches == [s \in Sources |->
                               IF s \in again \ FirstLoad THEN Asked ELSE fetch[s]]
                flagged == (early \ again) \union FirstLoad
    <3>1. \/ fetches[q] = Asked
          \/ fetches[q] = fetch[q] /\ (q \notin flagged => q \notin early)
      BY <1>1
    <3>2. Mounted(back, fetches, flagged) /\ cache' = cache
      BY <2>10 DEF CancelDone
    <3>. HIDE DEF fetches, flagged
    <3>. QED
      BY <3>1, <3>2, MountedAdvances
  <2>11. CASE \E w \in TabWriters :
                SubmitReview(w) \/ SubmitEdit(w) \/ handleDelete(w) \/ Deleted(w) \/ NotSaved(w)
    BY <2>11, <1>2 DEF SubmitReview, SubmitEdit, handleDelete, SendReviewCall,
                       Deleted, NotSaved, ReviewAnswer
  <2>12. ASSUME NEW w \in TabWriters, NEW op, Saved(w, op) PROVE Advances(q)
    BY <2>12, ReloadAdvances DEF Saved, ReviewAnswer, InvalidateLists
  <2>13. ASSUME NEW w \in TabWriters, CloseLater(w) PROVE Advances(q)
    BY <2>13, <1>2, ReloadAdvances DEF CloseLater, InvalidateLists, RefetchLists
  <2>14. ASSUME NEW t \in timers, RefetchLater(t) PROVE Advances(q)
    BY <2>14, ReloadAdvances DEF RefetchLater, RefetchLists
  <2>. QED
    BY <1>4, <2>1, <2>2, <2>3, <2>5, <2>6, <2>7, <2>8, <2>9, <2>10, <2>11, <2>12,
       <2>13, <2>14 DEF ClientStep
<1>. QED
  BY <1>3, <1>4

\* The timeout after a change fetches every list that has been fetched before.
LEMMA RefetchAsks ==
    ASSUME NEW t, RefetchLater(t), NEW q \in Lists, q \notin early'
    PROVE  fetch'[q] = Asked \/ (fetch'[q] = Idle /\ cache'[q] = NoData)
<1>. DEFINE qs == {p \in Lists : p = page \/ cache[p] # NoData}
<1>1. Reload(qs, Lists) /\ cache' = cache
  BY DEF RefetchLater, RefetchLists
<1>2. q \notin qs => cache[q] = NoData
  OBVIOUS
<1>. HIDE DEF qs
<1>. QED
  BY <1>1, <1>2, ReloadAdvances

\* A step that leaves no answer unheard finds a list that is asked for, read after
\* the last change, or as up to date as it was.
LEMMA NextFollows ==
    PagesShaped /\ ListsFollow /\ [PurchaseNext]_purchaseVars => ListsFollow'
<1>. SUFFICES ASSUME PagesShaped, ListsFollow, [PurchaseNext]_purchaseVars
              PROVE  ListsFollow'
  OBVIOUS
<1>1. CASE UNCHANGED purchaseVars
  <2>1. CallsOut' /\ (OthersQuiet' => OthersQuiet)
    BY <1>1 DEF purchaseVars, allVars, vars, rows, reviewVars, clientVars, ListsFollow,
                CallsOut, OthersQuiet
  <2>2. Unheard => Unheard'
    BY <1>1 DEF purchaseVars, allVars, vars, reviewVars, clientVars, Unheard, Running
  <2>3. ASSUME NEW q, ListFollows(q) PROVE ListFollows(q)'
    <3>1. \A o : Response(o)' = Response(o)
      BY <1>1 DEF purchaseVars, allVars, vars, rows, reviewVars, Response, ReviewId
    <3>2. Listed' = Listed
      BY <1>1 DEF purchaseVars, allVars, vars, rows, Listed
    <3>3. fetch' = fetch /\ cache' = cache
      BY <1>1 DEF purchaseVars, clientVars
    <3>. QED
      BY <2>3, <3>1, <3>2, <3>3 DEF ListFollows, UpToDate
  <2>4. early' = early
    BY <1>1 DEF purchaseVars, clientVars
  <2>. QED
    BY <2>1, <2>2, <2>3, <2>4 DEF ListsFollow
<1>2. CASE PurchaseNext
  <2>1. ClientStep \/ ServerStep
    BY <1>2 DEF PurchaseNext
  <2>2. CallsOut /\ CallsOut'
    BY <2>1, CallsStayOut DEF ListsFollow
  <2>3. ASSUME OthersQuiet', ~Unheard', NEW q \in Lists, q \notin early'
        PROVE  ListFollows(q)'
    <3>1. SameRows
      BY <2>1, <2>2, <2>3, RowsMove
    <3>2. \A got : UpToDate(got) =>
              /\ DOMAIN got = Listed'
              /\ \A o \in Listed' : got[o].review = Response(o)'.review
      BY <3>1 DEF SameRows, UpToDate, Listed
    <3>3. Asked.at # "read" /\ Idle.at # "read" /\ Asked # Idle
      BY DEF Asked, Idle
    <3>4. CASE \E t \in timers : RefetchLater(t)
      BY <2>3, <3>3, <3>4, RefetchAsks DEF ListFollows
    <3>5. CASE ~\E t \in timers : RefetchLater(t)
      <4>1. ~Unheard /\ OthersQuiet
        BY <2>1, <2>2, <2>3, <3>5, UnheardStays, QuietBefore
      <4>2. q \notin early => ListFollows(q)
        BY <4>1 DEF ListsFollow
      <4>3. UpToDate(Snapshot(q))
        BY DEF UpToDate, Snapshot, Response
      <4>4. CASE fetch'[q] = Asked
        BY <3>3, <4>4 DEF ListFollows
      <4>5. CASE fetch'[q] = [at |-> "read", got |-> Snapshot(q)]
        BY <3>2, <4>3, <4>5 DEF ListFollows, UpToDate, Idle
      <4>6. CASE q \notin early /\ fetch'[q] = fetch[q] /\ cache'[q] = cache[q]
        BY <3>2, <4>2, <4>6 DEF ListFollows, UpToDate
      <4>7. CASE /\ q \notin early
                 /\ fetch[q].at = "read"
                 /\ fetch'[q] = Idle
                 /\ cache'[q] = fetch[q].got
        BY <3>2, <3>3, <4>2, <4>7 DEF ListFollows, UpToDate
      <4>. QED
        BY <2>1, <2>3, <4>4, <4>5, <4>6, <4>7, ListAdvances DEF Advances
    <3>. QED
      BY <3>4, <3>5
  <2>. QED
    BY <2>2, <2>3 DEF ListsFollow
<1>. QED
  BY <1>1, <1>2

\* A list at rest, with no answer and no timeout to come, shows the orders that
\* stand and their reviews, whatever the tab has done and whichever pages it has
\* gone through, for any number of orders, items and calls.
THEOREM ListsShowAtRest == PurchaseSpec => []ShownAtRest
<1>1. ListsFollow => ShownAtRest
  <2>. SUFFICES ASSUME ListsFollow, NEW q \in Lists, AtRest(q), OthersQuiet
                PROVE  UpToDate(cache[q])
    BY DEF ShownAtRest, UpToDate
  <2>1. ~Unheard
    BY DEF AtRest, Unheard
  <2>2. q \notin early /\ fetch[q] = Idle /\ cache[q] # NoData
    BY DEF AtRest
  <2>. QED
    BY <2>1, <2>2 DEF ListsFollow, ListFollows
<1>2. PurchaseSpec => []PagesShaped
  BY InitPages, NextPages, PTL DEF PurchaseSpec
<1>. QED
  BY <1>1, <1>2, InitFollows, NextFollows, PTL DEF PurchaseSpec


-----------------------------------------------------------------------------
\* Reviews beside the tab, whose edits and deletions name what the page has shown,
\* long after it was read.
LEMMA TabCallsReviews == ClientStep \/ ServerStep => ReviewCalls
<1>. SUFFICES ASSUME ClientStep \/ ServerStep PROVE ReviewCalls
  OBVIOUS
<1>0. TabWriters \subseteq Writers
  BY PurchaseAssumption
<1>1. UNCHANGED allVars => ReviewCalls
  BY DEF allVars, ReviewCalls
<1>2. ASSUME NEW w \in TabWriters, NEW id, AsksReview(w, id) PROVE ReviewCalls
  BY <1>0, <1>2 DEF AsksReview, ReviewCalls
<1>3. CASE ServerStep
  BY <1>3 DEF ServerStep, WriterSubmit, ReviewCalls
<1>4. CASE ClientStep
  <2>1. CASE Rests \/ (\E c : OrderHeard(c)) \/ \E w : ReviewHeard(w)
    BY <2>1, <1>1 DEF Rests, OrderHeard, ReviewHeard
  <2>2. CASE \E t \in timers : RefetchLater(t)
    BY <2>2, <1>1 DEF RefetchLater
  <2>3. CASE \E c : AsksOrder(c)
    BY <2>3 DEF AsksOrder, ReviewCalls
  <2>4. CASE \E w, id : AsksReview(w, id)
    BY <2>4, <1>2 DEF AsksReview
  <2>. QED
    BY <1>4, <2>1, <2>2, <2>3, <2>4, ClientCalls
<1>. QED
  BY <1>3, <1>4

\* Steps of the tab and of the server are steps of the calls of the reviews.
LEMMA NextTabCounting ==
    RowsTyped /\ Counting /\ [PurchaseNext]_purchaseVars => RowsTyped' /\ Counting'
<1>1. [PurchaseNext]_purchaseVars => ReviewCalls
  BY TabCallsReviews DEF PurchaseNext, purchaseVars, allVars, ReviewCalls
<1>. QED
  BY <1>1, CallsKeepRows, CallsKeepCount

\* The reviews given less those taken back are the one that is there, whatever
\* the tab asks by what it shows, however old that is, and whatever others ask.
THEOREM TabReviewsAreCounted == PurchaseSpec => []ReviewsCounted
<1>1. PurchaseInit => RowsTyped /\ Counting
  <2>1. NothingReviewed => RowsTyped
    BY ReviewAssumption DEF NothingReviewed, RowsTyped
  <2>. QED
    BY <2>1, InitCounting DEF PurchaseInit
<1>2. Counting => ReviewsCounted
  BY DEF Counting
<1>. QED
  BY <1>1, <1>2, NextTabCounting, PTL DEF PurchaseSpec

=============================================================================
