------------------------------ MODULE Shopping ------------------------------
(***************************************************************************)
(* A buyer's tab from the page of a product over the cart to the payment,  *)
(* and the cart it changes through the API. Every call is a process whose  *)
(* steps are its statements on the server and what the tab does with the   *)
(* answer; the tab does not wait for most of them, and pages are left while*)
(* calls are under way.                                                    *)
(*                                                                         *)
(* What was picked for the next order lives in a store that all pages of   *)
(* the tab share and that a late answer may still overwrite. A cart or the *)
(* data of a product page as of an earlier time is what a page has until it*)
(* asks again. How a price comes from quantities is left out: what an order*)
(* is charged is represented by the quantities that were summed up.        *)
(***************************************************************************)
EXTENDS Integers, FiniteSets, FiniteSetsExt

CONSTANTS
    Sizes,      \* sizes of the product, its ids in ascending order
    MaxQuantity,\* of a line of the cart (999)
    Stock,      \* of each size, as the product page was told
    Calls,      \* bound: calls of the tab, in the order they are made
    Kinds,      \* bound: [Calls -> the operations each may be]
    None        \* no row, no data, no modal

ASSUME ShoppingAssumption ==
    /\ Sizes \subseteq Nat \ {0}
    /\ MaxQuantity \in Nat \ {0}
    /\ Stock \in 1..MaxQuantity
    /\ Calls \subseteq Nat \ {0}
    /\ Kinds \in [Calls -> SUBSET {"add", "buy", "set", "drop", "order", "pay"}]
    /\ None \notin Int

VARIABLES
    \* rows
    carted,     \* the buyer has a cart
    line,       \* [Sizes -> Line or None]
    orders,     \* [Calls -> Order or None], named by the call that made it
    paid,       \* [Calls -> what was charged for the order, or None]
    \* the tab
    page,       \* the page it shows
    shown,      \* lines of the cart as the tab has them, or None
    selected,   \* selectedItems of the order store
    modal,      \* the order that PaymentModal is open for and the price, or None
    call        \* [Calls -> call record]

rows == <<carted, line, orders, paid>>
tab == <<page, shown, selected, modal>>
vars == <<rows, tab, call>>

Line == [id : Calls \union {-s : s \in Sizes}, quantity : 1..MaxQuantity]
NoLines == [s \in Sizes |-> None]
Nothing == [s \in Sizes |-> 0]
Quantities(lines) == [s \in Sizes |-> IF lines[s] = None THEN 0 ELSE lines[s].quantity]
Ids(lines) == {lines[s].id : s \in {t \in Sizes : lines[t] # None}}
SizesOf(body) == {s \in Sizes : body[s] > 0}

\* live: the page that made the call is still there. body: quantities it sends.
\* todo: sizes to write or lines to delete. found: the line or the order it is
\* about. rows: lines the answer holds, or for a payment what was selected when
\* its page was left.
Idle == [ op |-> "none", at |-> "idle", live |-> FALSE, body |-> Nothing,
          todo |-> {}, found |-> None, rows |-> NoLines ]
Over == [Idle EXCEPT !.at = "over"]

Free(c) == c = Min({d \in Calls : call[d].at = "idle"} \union {c}) /\ call[c].at = "idle"
Go(c, place) == call' = [call EXCEPT ![c].at = place]
End(c) == call' = [call EXCEPT ![c] = Over]

Editing(c) == call[c].op \in {"add", "buy"}
UnderWay(c) == call[c].at \notin {"idle", "over"}

\* A buyer with or without a cart, who may have filled it before.
Init ==
    /\ carted \in BOOLEAN
    /\ line \in {l \in [Sizes -> Line \union {None}] :
                    \A s \in Sizes : l[s] # None => carted /\ l[s].id = -s}
    /\ orders = [c \in Calls |-> None]
    /\ paid = [c \in Calls |-> None]
    /\ page = "product"
    /\ shown = None
    /\ selected = NoLines
    /\ modal = None
    /\ call = [c \in Calls |-> Idle]

-----------------------------------------------------------------------------
(***************************************************************************)
(* Pages. Leaving one closes its modal, and its calls go on without it; the*)
(* payment keeps what the page had rendered last. The order page sends away*)
(* who has picked nothing.                                                 *)
(***************************************************************************)
Leave ==
    [c \in Calls |->
        IF call[c].op = "pay" /\ call[c].live
        THEN [call[c] EXCEPT !.live = FALSE, !.rows = selected]
        ELSE [call[c] EXCEPT !.live = FALSE]]

Arrive(p, items) == IF p = "order" /\ items = NoLines THEN "cart" ELSE p

Visit(p) ==
    /\ p # page
    /\ page' = Arrive(p, selected)
    /\ call' = Leave
    /\ modal' = None
    /\ UNCHANGED <<rows, shown, selected>>

\* The product page and the cart page ask for the cart, when they open, when the
\* window gets the focus and after a change. Without a cart that is an error.
Refetch ==
    /\ page \in {"product", "cart"}
    /\ carted
    /\ shown' = line
    /\ UNCHANGED <<rows, page, selected, modal, call>>

Start(c, record) == Free(c) /\ record.op \in Kinds[c] /\ call' = [call EXCEPT ![c] = record]

\* addCart sums the options and the cart as the page has it; without one it
\* will send no size at all.
Sum(o) ==
    IF shown = None THEN Nothing ELSE [s \in Sizes |-> o[s] + Quantities(shown)[s]]

ClickProduct(c, op, o) ==
    /\ page = "product"
    /\ SizesOf(o) # {}
    /\ ~ \E d \in Calls : Editing(d) /\ call[d].live /\ call[d].at \notin {"find", "make", "made"}
    /\ LET body == IF op = "add" THEN Sum(o) ELSE o IN
       Start(c, [Idle EXCEPT !.op = op, !.at = "find", !.live = TRUE,
                             !.body = body, !.todo = SizesOf(body)])
    /\ UNCHANGED <<rows, tab>>

\* updateQuantityMutation, deleteMutation and handleOrder of the cart page. The
\* last looks at the stock the page was told of, which is not modelled.
Listed == IF shown = None THEN {} ELSE SizesOf(Quantities(shown))

ChangeQuantity(c, s, q) ==
    /\ page = "cart"
    /\ s \in Listed
    /\ Start(c, [Idle EXCEPT !.op = "set", !.at = "size", !.live = TRUE,
                             !.body = [Nothing EXCEPT ![s] = q], !.todo = {s}])
    /\ UNCHANGED <<rows, tab>>

DropLines(c, S) ==
    /\ page = "cart"
    /\ Start(c, [Idle EXCEPT !.op = "drop", !.at = "drop", !.live = TRUE,
                             !.todo = {shown[s].id : s \in S}])
    /\ UNCHANGED <<rows, tab>>

Pick(S) ==
    /\ page = "cart"
    /\ selected' = [s \in Sizes |-> IF s \in S THEN shown[s] ELSE None]
    /\ page' = "order"
    /\ call' = Leave
    /\ UNCHANGED <<rows, shown, modal>>

\* No answer of d is under way that may change what is picked.
Settles(d) == ~ (UnderWay(d) /\ (Editing(d) \/ call[d].op = "pay"))

\* createOrderMutation, unless one is pending, and the payment forms.
ClickOrder(c) ==
    /\ page = "order"
    /\ modal = None
    /\ ~ \E d \in Calls : call[d].op = "order" /\ call[d].live
    /\ Start(c, [Idle EXCEPT !.op = "order", !.at = "order", !.live = TRUE,
                             !.body = Quantities(selected),
                             !.found = IF \A d \in Calls : Settles(d) THEN "settled"
                                       ELSE "open"])
    /\ UNCHANGED <<rows, tab>>

Paying == \E d \in Calls : call[d].op = "pay" /\ call[d].live

CloseModal ==
    /\ modal # None
    /\ ~Paying
    /\ modal' = None
    /\ UNCHANGED <<rows, page, shown, selected, call>>

ClickPay(c) ==
    /\ modal # None
    /\ ~Paying
    /\ Start(c, [Idle EXCEPT !.op = "pay", !.at = "pay", !.live = TRUE,
                             !.body = modal.price, !.found = modal.order])
    /\ UNCHANGED <<rows, tab>>

-----------------------------------------------------------------------------
(***************************************************************************)
(* createCart and updateCart of the cart service.                          *)
(***************************************************************************)
\* What follows postCart: addCart sends the change.
Then(c) == IF call[c].op = "add" THEN "size" ELSE "made"

FindCart(c) ==
    /\ call[c].at = "find"
    /\ Go(c, IF carted THEN Then(c) ELSE "make")
    /\ UNCHANGED <<rows, tab>>

\* buyerId is unique: an error ends the handler that waits for the cart.
MakeCart(c) ==
    /\ call[c].at = "make"
    /\ carted' = TRUE
    /\ IF carted THEN End(c) ELSE Go(c, Then(c))
    /\ UNCHANGED <<line, orders, paid, tab>>

\* orderProduct sends the change and goes on to the order page, from wherever
\* the tab is by now, without waiting for it.
Made(c) ==
    /\ call[c].at = "made"
    /\ page' = Arrive("order", selected)
    /\ modal' = IF page = "order" THEN modal ELSE None
    /\ call' = [(IF page = "order" THEN call ELSE Leave) EXCEPT ![c].at = "size"]
    /\ UNCHANGED <<rows, shown, selected>>

Size(c) == Min(call[c].todo)
Valid(c) == call[c].todo # {} /\ call[c].body[Size(c)] <= MaxQuantity

\* The cart is there by now. A list without sizes is refused at once, and a
\* quantity that is not valid when its turn comes, with those before it written.
Refuse(c) ==
    /\ call[c].at = "size"
    /\ ~Valid(c)
    /\ End(c)
    /\ UNCHANGED <<rows, tab>>

\* The next size: is there a line?
FindLine(c) ==
    LET s == Size(c) IN
    /\ call[c].at = "size"
    /\ Valid(c)
    /\ call' = [call EXCEPT
            ![c].at = IF line[s] = None THEN "insert" ELSE "update",
            ![c].found = IF line[s] = None THEN None ELSE line[s].id]
    /\ UNCHANGED <<rows, tab>>

\* The line goes into the answer.
Written(c, s, row) ==
    /\ line' = [line EXCEPT ![s] = row]
    /\ call' = [call EXCEPT
            ![c].rows[s] = row,
            ![c].found = None,
            ![c].todo = @ \ {s},
            ![c].at = IF call[c].todo = {s} THEN "edited" ELSE "size"]
    /\ UNCHANGED <<carted, orders, paid, tab>>

\* Update by id, insert with a unique key: either fails when the line has gone
\* or come since.
UpdateLine(c) ==
    LET s == Size(c) IN
    /\ call[c].at = "update"
    /\ IF line[s] # None /\ line[s].id = call[c].found
       THEN Written(c, s, [id |-> call[c].found, quantity |-> call[c].body[s]])
       ELSE End(c) /\ UNCHANGED <<rows, tab>>

InsertLine(c) ==
    LET s == Size(c) IN
    /\ call[c].at = "insert"
    /\ IF line[s] = None
       THEN Written(c, s, [id |-> c, quantity |-> call[c].body[s]])
       ELSE End(c) /\ UNCHANGED <<rows, tab>>

\* Mutant: the change of a quantity in the cart selects the line, too.
EditedSelects(c) ==
    /\ call[c].at = "edited"
    /\ selected' = call[c].rows
    /\ End(c)
    /\ UNCHANGED <<rows, page, shown, modal>>

\* onSuccess of editCart: what is picked is what was written, whichever page is
\* shown by now. The cart page only asks again.
Edited(c) ==
    /\ call[c].at = "edited"
    /\ selected' = IF Editing(c) THEN call[c].rows ELSE selected
    /\ End(c)
    /\ UNCHANGED <<rows, page, shown, modal>>

-----------------------------------------------------------------------------
(***************************************************************************)
(* Deletions of lines, which run side by side, each by its id; they answer *)
(* when all are done or one has failed.                                    *)
(***************************************************************************)
Delete(c) ==
    /\ call[c].at \in {"drop", "clear"}
    /\ \E id \in call[c].todo :
         /\ line' = [s \in Sizes |-> IF line[s] # None /\ line[s].id = id
                                     THEN None ELSE line[s]]
         /\ call' = [call EXCEPT
                ![c] = IF call[c].op = "drop" /\ call[c].todo = {id} THEN Over
                       ELSE [call[c] EXCEPT
                               !.todo = @ \ {id},
                               !.found = IF id \in Ids(line) THEN @ ELSE "failed"]]
    /\ UNCHANGED <<carted, orders, paid, tab>>

-----------------------------------------------------------------------------
(***************************************************************************)
(* The order and its payment; module Ordering and module OrderLifecycle    *)
(* have what the server does in detail.                                    *)
(***************************************************************************)
PlaceOrder(c) ==
    /\ call[c].at = "order"
    /\ \/ /\ orders' = [orders EXCEPT ![c] =
                 [items |-> call[c].body, settled |-> call[c].found = "settled"]]
          /\ Go(c, "ordered")
       \/ orders' = orders /\ End(c)
    /\ UNCHANGED <<carted, line, paid, tab>>

\* onSuccess of createOrder: PaymentModal opens, for what is picked by now.
Ordered(c) ==
    /\ call[c].at = "ordered"
    /\ modal' = IF call[c].live THEN [order |-> c, price |-> Quantities(selected)]
                ELSE modal
    /\ End(c)
    /\ UNCHANGED <<rows, page, shown, selected>>

\* The payment is taken, or refused: the order has been paid or cancelled.
TakePayment(c) ==
    /\ call[c].at = "pay"
    /\ \/ /\ paid[call[c].found] = None
          /\ paid' = [paid EXCEPT ![call[c].found] = call[c].body]
          /\ Go(c, "paid")
       \/ paid' = paid /\ End(c)
    /\ UNCHANGED <<carted, line, orders, tab>>

\* handlePaymentSuccess, three seconds after the answer: what is picked by now,
\* or was when the page was left, is taken out of the cart ...
Clear(c) ==
    /\ call[c].at = "paid"
    /\ call' = [call EXCEPT
            ![c].at = "clear",
            ![c].found = None,
            ![c].todo = Ids(IF call[c].live THEN selected ELSE call[c].rows)]
    /\ UNCHANGED <<rows, tab>>

\* Mutant: nothing happens when the cart could not be emptied.
ClearedOnly(c) ==
    /\ call[c].at = "clear"
    /\ call[c].todo = {}
    /\ call[c].found # "failed"
    /\ selected' = NoLines
    /\ page' = IF call[c].live THEN "complete" ELSE Arrive(page, NoLines)
    /\ modal' = IF page' = page THEN modal ELSE None
    /\ call' = [(IF page' = page THEN call ELSE Leave) EXCEPT ![c] = Over]
    /\ UNCHANGED <<rows, shown>>

\* ... and the completed payment is shown, also when that failed; the store is
\* reset only when it did not, for every page of the tab.
Cleared(c) ==
    /\ call[c].at = "clear"
    /\ call[c].todo = {}
    /\ selected' = IF call[c].found = "failed" THEN selected ELSE NoLines
    /\ page' = IF call[c].live THEN "complete" ELSE Arrive(page, selected')
    /\ modal' = IF page' = page THEN modal ELSE None
    /\ call' = [(IF page' = page THEN call ELSE Leave) EXCEPT ![c] = Over]
    /\ UNCHANGED <<rows, shown>>

-----------------------------------------------------------------------------
User ==
    \/ \E p \in {"product", "cart", "order"} : Visit(p)
    \/ Refetch \/ CloseModal
    \/ \E S \in SUBSET Listed \ {{}} : Pick(S)

Click(c) ==
    \/ \E op \in {"add", "buy"}, o \in [Sizes -> 0..Stock] : ClickProduct(c, op, o)
    \/ \E s \in Sizes, q \in 1..MaxQuantity : ChangeQuantity(c, s, q)
    \/ \E S \in SUBSET Listed \ {{}} : DropLines(c, S)
    \/ ClickOrder(c)
    \/ ClickPay(c)

Step(c) ==
    \/ FindCart(c) \/ MakeCart(c) \/ Made(c)
    \/ Refuse(c) \/ FindLine(c) \/ UpdateLine(c) \/ InsertLine(c) \/ Edited(c)
    \/ Delete(c)
    \/ PlaceOrder(c) \/ Ordered(c)
    \/ TakePayment(c) \/ Clear(c) \/ Cleared(c)

Next == User \/ \E c \in Calls : Click(c) \/ Step(c)

Spec == Init /\ [][Next]_vars

\* Calls that were made are answered and their answers handled, one at a time.
FairSpec == Spec /\ WF_vars(\E c \in Calls : Step(c))

-----------------------------------------------------------------------------
\* What an order is charged is what is in it, though the price is summed up
\* when its answer comes and the items were sent when the button was pressed:
\* unless a call from before could still change what is picked (an edit of the
\* product page or a payment), and then orders[c].settled is FALSE.
ChargedAsOrdered ==
    /\ modal # None /\ orders[modal.order].settled
           => modal.price = orders[modal.order].items
    /\ \A c \in Calls :
          paid[c] # None /\ orders[c].settled => paid[c] = orders[c].items

\* Who waits for a payment that was taken does not wait forever: it is shown as
\* completed, also when lines of the cart could not be deleted, unless the page
\* is left.
PaymentShown ==
    (\E c \in Calls : call[c].live /\ call[c].at = "paid")
        ~> (page = "complete" \/ ~Paying)

=============================================================================
