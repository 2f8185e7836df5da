--------------------------- MODULE ShoppingProofs ---------------------------
(***************************************************************************)
(* The theorem about what an order is charged, for any number of calls of a*)
(* tab, sizes and quantities. While the page that asked for an order waits *)
(* for it, nothing that could change what is picked is under way: that is  *)
(* what settled says when the button is pressed, and the page keeps new    *)
(* edits and payments out until the answer is there.                       *)
(***************************************************************************)
EXTENDS Shopping, TLAPS

\* A call is a record of its seven fields, whatever they hold.
Names == {"op", "at", "live", "body", "todo", "found", "rows"}
Fields(r) == [name \in Names |-> r[name]]

Shaped ==
    /\ call = [c \in Calls |-> Fields(call[c])]
    /\ orders = [c \in Calls |-> orders[c]]
    /\ paid = [c \in Calls |-> paid[c]]

\* Where a call may be, by its operation.
PlacesOf(op) ==
    CASE op = "none"  -> {"idle", "over"}
      [] op = "order" -> {"order", "ordered"}
      [] op = "pay"   -> {"pay", "paid", "clear"}
      [] op = "set"   -> {"size", "update", "insert", "edited"}
      [] op = "drop"  -> {"drop"}
      [] OTHER        -> {"find", "make", "made", "size", "update", "insert", "edited"}

Ops == {"none", "add", "buy", "set", "drop", "order", "pay"}

Placed(c) ==
    /\ call[c].op \in Ops
    /\ call[c].at \in PlacesOf(call[c].op)
    /\ call[c].op = "none" => ~call[c].live

Asking(c) == call[c].op = "order" /\ call[c].live
Pending(c) == Asking(c) /\ call[c].found = "settled"

\* A page that waits for a settled order shows what it has asked for.
Waits(c) ==
    /\ page = "order"
    /\ modal = None
    /\ call[c].body = Quantities(selected)
    /\ \A d \in Calls : Settles(d)

\* An order whose price is named is over, and the price is what is in it.
PriceOf(o, price) ==
    /\ o \in Calls
    /\ call[o].at = "over"
    /\ orders[o].settled => price = orders[o].items

\* The four places where one is named.
Answer(c) ==
    call[c].at = "ordered" =>
        orders[c] = [items |-> call[c].body, settled |-> call[c].found = "settled"]
ModalPrice == modal # None => PriceOf(modal.order, modal.price)
PayPrice(c) == call[c].at = "pay" => PriceOf(call[c].found, call[c].body)
PaidPrice(c) == paid[c] # None => PriceOf(c, paid[c])

Charged ==
    /\ \A c \in Calls : Placed(c)
    /\ \A c, d \in Calls : Asking(c) /\ Asking(d) => c = d
    /\ \A c \in Calls : Pending(c) => Waits(c)
    /\ \A c \in Calls : Answer(c)
    /\ ModalPrice
    /\ \A c \in Calls : PayPrice(c)
    /\ \A c \in Calls : PaidPrice(c)

Inv == Shaped /\ Charged

\* What the answer, the modal and the payment name is what is charged.
LEMMA InvCharged == Inv => ChargedAsOrdered
BY DEF Inv, Charged, ChargedAsOrdered, PriceOf, ModalPrice, PaidPrice

-----------------------------------------------------------------------------
\* Shapes.

\* A call other than that of the step: it goes on without its page at most.
Stays(d) ==
    /\ call'[d].op = call[d].op
    /\ call'[d].at = call[d].at
    /\ call'[d].body = call[d].body
    /\ call'[d].found = call[d].found
    /\ call'[d].live => call[d].live

LEMMA AtShape ==
    ASSUME NEW r, r = Fields(r), NEW place
    PROVE  [r EXCEPT !.at = place] = Fields([r EXCEPT !.at = place])
BY DEF Fields, Names

LEMMA Shapes == Fields(Idle) = Idle /\ Fields(Over) = Over
<1>1. Fields(Idle) = Idle
  BY DEF Fields, Names, Idle
<1>. QED
  BY <1>1, AtShape DEF Over

\* A step that writes one call over, and one that only moves it on.
LEMMA Overwrites ==
    ASSUME Shaped, NEW c \in Calls, NEW r, r = Fields(r),
           call' = [call EXCEPT ![c] = r]
    PROVE  /\ call' = [d \in Calls |-> Fields(call'[d])]
           /\ call'[c] = r
           /\ \A d \in Calls \ {c} : call'[d] = call[d] /\ Stays(d)
BY DEF Shaped, Stays

\* A call that goes on changes its place only.
LEMMA Goes ==
    ASSUME Shaped, NEW c \in Calls, NEW place, Go(c, place)
    PROVE  /\ call' = [d \in Calls |-> Fields(call'[d])]
           /\ call'[c] = [call[c] EXCEPT !.at = place]
           /\ call'[c].op = call[c].op
           /\ call'[c].at = place
           /\ call'[c].live = call[c].live
           /\ call'[c].body = call[c].body
           /\ call'[c].found = call[c].found
           /\ \A d \in Calls \ {c} : Stays(d)
<1>. DEFINE r == [call[c] EXCEPT !.at = place]
<1>1. call[c] = Fields(call[c])
  BY DEF Shaped
<1>2. r = Fields(r)
  BY <1>1, AtShape
<1>3. call' = [call EXCEPT ![c] = r]
  BY DEF Go
<1>4. /\ call' = [d \in Calls |-> Fields(call'[d])]
      /\ call'[c] = r
      /\ \A d \in Calls \ {c} : Stays(d)
  <2>. HIDE DEF r
  <2>. QED
    BY <1>2, <1>3, Overwrites
<1>5. /\ r.op = call[c].op /\ r.at = place /\ r.live = call[c].live
      /\ r.body = call[c].body /\ r.found = call[c].found
  BY <1>1 DEF Fields, Names
<1>. QED
  BY <1>4, <1>5

\* A call that ends leaves the others as they are.
LEMMA Ends ==
    ASSUME Shaped, NEW c \in Calls, End(c)
    PROVE  /\ call' = [d \in Calls |-> Fields(call'[d])]
           /\ call'[c] = Over
           /\ call'[c].op = "none" /\ call'[c].at = "over" /\ ~call'[c].live
           /\ \A d \in Calls \ {c} : Stays(d)
<1>1. Over.op = "none" /\ Over.at = "over" /\ ~Over.live
  BY DEF Over, Idle
<1>. QED
  BY <1>1, Shapes, Overwrites DEF End

\* A page that is left takes the callbacks of its calls with it.
LEMMA Leaves ==
    ASSUME Shaped, NEW d \in Calls
    PROVE  /\ Leave[d] = Fields(Leave[d])
           /\ Leave[d].op = call[d].op
           /\ Leave[d].at = call[d].at
           /\ Leave[d].body = call[d].body
           /\ Leave[d].found = call[d].found
           /\ Leave[d].live = FALSE
<1>1. call[d] = Fields(call[d])
  BY DEF Shaped
<1>. QED
  BY <1>1 DEF Leave, Fields, Names

\* What the steps below write over a call is a record of the same fields.
LEMMA InitInv == Init => Inv
<1>. SUFFICES ASSUME Init PROVE Inv
  OBVIOUS
<1>1. \A c \in Calls : /\ call[c] = Idle
                       /\ orders[c] = None
                       /\ paid[c] = None
  BY DEF Init
<1>2. Shaped
  BY <1>1, Shapes DEF Init, Shaped
<1>3. Charged
  BY <1>1 DEF Init, Charged, Idle, Placed, Asking, Pending, PlacesOf, Ops, Answer,
              ModalPrice, PayPrice, PaidPrice
<1>. QED
  BY <1>2, <1>3 DEF Inv

\* A step of a call that is about no order, and of what it may change the page
\* and what is picked if no settled order is waited for.
LEMMA OtherStep ==
    ASSUME Inv, NEW c \in Calls, Shaped',
           \A d \in Calls \ {c} : Stays(d),
           UNCHANGED <<orders, paid>>,
           Placed(c)',
           call[c].op # "order", call'[c].op # "order", call'[c].at # "pay",
           call[c].at # "over",
           modal' = modal \/ modal' = None,
           \A d \in Calls \ {c} :
               Pending(d) => UNCHANGED <<page, selected>> /\ Settles(c)'
    PROVE  Inv'
<1>1. \A d \in Calls : Placed(d)'
  BY DEF Inv, Charged, Placed, Stays
<1>2. ASSUME NEW d \in Calls, Asking(d)'
      PROVE  d # c /\ Asking(d) /\ (Pending(d)' => Pending(d))
  BY <1>2 DEF Asking, Pending, Stays
<1>3. \A d, e \in Calls : Asking(d)' /\ Asking(e)' => d = e
  BY <1>2 DEF Inv, Charged
<1>4. ASSUME NEW d \in Calls, Pending(d)' PROVE Waits(d)'
  <2>1. d # c /\ Pending(d)
    BY <1>2, <1>4 DEF Pending
  <2>2. Waits(d) /\ UNCHANGED <<page, selected>> /\ Settles(c)'
    BY <2>1 DEF Inv, Charged
  <2>3. \A e \in Calls : Settles(e)'
    BY <2>2 DEF Waits, Settles, Stays, UnderWay, Editing
  <2>. QED
    BY <2>1, <2>2, <2>3 DEF Waits, Stays, Quantities
<1>5. \A o \in Calls : call[o].at = "over" => call'[o].at = "over" /\ orders'[o] = orders[o]
  BY DEF Stays
<1>6. ASSUME NEW d \in Calls PROVE Answer(d)'
  <2>1. CASE d = c
    BY <1>1, <2>1 DEF Answer, Placed, PlacesOf, Ops
  <2>2. CASE d # c
    BY <2>2 DEF Answer, Stays, Inv, Charged
  <2>. QED
    BY <2>1, <2>2
<1>7. ASSUME NEW d \in Calls PROVE PayPrice(d)'
  <2>1. CASE d = c
    BY <2>1 DEF PayPrice
  <2>2. CASE d # c
    BY <1>5, <2>2 DEF PayPrice, PriceOf, Stays, Inv, Charged
  <2>. QED
    BY <2>1, <2>2
<1>8. ModalPrice'
  BY <1>5 DEF Inv, Charged, ModalPrice, PriceOf
<1>9. ASSUME NEW d \in Calls PROVE PaidPrice(d)'
  BY <1>5 DEF Inv, Charged, PaidPrice, PriceOf
<1>10. Charged'
  BY <1>1, <1>3, <1>4, <1>6, <1>7, <1>8, <1>9 DEF Charged
<1>. QED
  BY <1>10 DEF Inv

-----------------------------------------------------------------------------
\* Steps that are about no order.

\* Whoever a settled order waits with, no edit or payment is under way, and the
\* page is that of the order.
LEMMA WhilePending ==
    ASSUME Inv, NEW c \in Calls, NEW d \in Calls, Pending(d)
    PROVE  /\ page = "order"
           /\ modal = None
           /\ Editing(c) => call[c].at \in {"idle", "over"}
           /\ call[c].op # "pay"
<1>1. Waits(d) /\ Placed(c)
  BY DEF Inv, Charged
<1>. QED
  BY <1>1 DEF Waits, Settles, UnderWay, Placed, PlacesOf

\* The server's part of an edit of the cart, and what ends one.
LEMMA EditInv ==
    ASSUME Inv, NEW c \in Calls,
           \/ FindCart(c) \/ MakeCart(c) \/ Refuse(c) \/ FindLine(c)
           \/ UpdateLine(c) \/ InsertLine(c) \/ Edited(c)
    PROVE  Inv'
<1>1. /\ call[c].op \in {"add", "buy", "set"}
      /\ call[c].at \notin {"idle", "over"}
      /\ UNCHANGED <<orders, paid, page, modal>>
      /\ Placed(c)
  BY DEF FindCart, MakeCart, Refuse, FindLine, UpdateLine, InsertLine, Written, Edited,
         Inv, Charged, Placed, PlacesOf, Ops, rows, tab
<1>2. Shaped /\ orders' = [d \in Calls |-> orders'[d]] /\ paid' = [d \in Calls |-> paid'[d]]
  BY <1>1 DEF Inv, Shaped
<1>3. /\ call' = [d \in Calls |-> Fields(call'[d])]
      /\ \A d \in Calls \ {c} : Stays(d)
      /\ \/ /\ call'[c].op = call[c].op
            /\ call'[c].at \in PlacesOf(call[c].op)
         \/ call'[c].op = "none" /\ call'[c].at = "over" /\ ~call'[c].live
  <2>1. CASE End(c)
    BY <1>2, <2>1, Ends
  <2>2. ASSUME NEW place \in PlacesOf(call[c].op), Go(c, place)
        PROVE  <1>3!1 /\ <1>3!2 /\ <1>3!3
    BY <1>2, <2>2, Goes
  <2>3. CASE FindCart(c) \/ MakeCart(c)
    <3>1. Editing(c)
      BY <1>1, <2>3 DEF FindCart, MakeCart, Placed, PlacesOf, Editing
    <3>2. Then(c) \in PlacesOf(call[c].op) /\ "make" \in PlacesOf(call[c].op)
      BY <3>1 DEF Then, PlacesOf, Editing
    <3>. QED
      BY <2>1, <2>2, <2>3, <3>2 DEF FindCart, MakeCart
  <2>4. CASE FindLine(c)
    <3>. DEFINE s == Size(c)
                r == [call[c] EXCEPT
                        !.at = IF line[s] = None THEN "insert" ELSE "update",
                        !.found = IF line[s] = None THEN None ELSE line[s].id]
    <3>1. call[c] = Fields(call[c])
      BY <1>2 DEF Shaped
    <3>2. r = Fields(r) /\ r.op = call[c].op /\ r.at \in {"insert", "update"}
      BY <3>1 DEF Fields, Names
    <3>3. call' = [call EXCEPT ![c] = r]
      BY <2>4 DEF FindLine
    <3>. HIDE DEF r
    <3>. QED
      BY <1>1, <1>2, <3>2, <3>3, Overwrites DEF PlacesOf
  <2>5. ASSUME NEW s, NEW row, Written(c, s, row)
        PROVE  <1>3!1 /\ <1>3!2 /\ <1>3!3
    <3>. DEFINE r == [call[c] EXCEPT
                        !.rows[s] = row,
                        !.found = None,
                        !.todo = @ \ {s},
                        !.at = IF call[c].todo = {s} THEN "edited" ELSE "size"]
    <3>1. call[c] = Fields(call[c])
      BY <1>2 DEF Shaped
    <3>2. r = Fields(r) /\ r.op = call[c].op /\ r.at \in {"edited", "size"}
      BY <3>1 DEF Fields, Names
    <3>3. call' = [call EXCEPT ![c] = r]
      BY <2>5 DEF Written
    <3>. HIDE DEF r
    <3>. QED
      BY <1>1, <1>2, <3>2, <3>3, Overwrites DEF PlacesOf
  <2>. QED
    BY <2>1, <2>3, <2>4, <2>5 DEF Refuse, UpdateLine, InsertLine, Edited
<1>4. Placed(c)' /\ call'[c].op # "order" /\ call'[c].at # "pay"
  BY <1>1, <1>3 DEF Placed, PlacesOf, Ops
<1>5. ASSUME NEW d \in Calls \ {c}, Pending(d)
      PROVE  UNCHANGED <<page, selected>> /\ Settles(c)'
  <2>1. call[c].op = "set"
    BY <1>1, <1>5, WhilePending DEF Editing
  <2>2. UNCHANGED selected
    BY <2>1 DEF FindCart, MakeCart, Refuse, FindLine, UpdateLine, InsertLine, Written,
                Edited, Editing, tab
  <2>. QED
    BY <1>1, <1>3, <2>1, <2>2 DEF Settles, Editing
<1>6. Shaped'
  BY <1>2, <1>3 DEF Shaped
<1>. QED
  BY <1>1, <1>3, <1>4, <1>5, <1>6, OtherStep

\* A click that starts a call about no order.
LEMMA StartInv ==
    ASSUME Inv, NEW c \in Calls, NEW r, Start(c, r), r = Fields(r),
           r.op \in {"add", "buy", "set", "drop"}, r.at \in PlacesOf(r.op),
           UNCHANGED <<orders, paid, page, selected, modal>>,
           r.op \in {"add", "buy"} => page # "order"
    PROVE  Inv'
<1>1. call[c].at = "idle" /\ call' = [call EXCEPT ![c] = r]
  BY DEF Start, Free
<1>2. Shaped /\ Placed(c)
  BY DEF Inv, Charged
<1>3. /\ call' = [d \in Calls |-> Fields(call'[d])]
      /\ call'[c] = r
      /\ \A d \in Calls \ {c} : Stays(d)
  BY <1>1, <1>2, Overwrites
<1>4. Shaped'
  BY <1>2, <1>3 DEF Shaped
<1>5. /\ Placed(c)' /\ call'[c].op # "order" /\ call'[c].at # "pay"
      /\ call[c].op # "order"
  BY <1>1, <1>2, <1>3 DEF Placed, PlacesOf, Ops
<1>6. ASSUME NEW d \in Calls \ {c}, Pending(d) PROVE Settles(c)'
  BY <1>3, <1>6, WhilePending DEF Settles, Editing
<1>. QED
  BY <1>1, <1>3, <1>4, <1>5, <1>6, OtherStep

\* Clicks on the product and the cart send no order.
LEMMA ClickInv ==
    ASSUME Inv, NEW c \in Calls,
           \/ \E op \in {"add", "buy"}, o \in [Sizes -> 0..Stock] : ClickProduct(c, op, o)
           \/ \E s \in Sizes, q \in 1..MaxQuantity : ChangeQuantity(c, s, q)
           \/ \E S \in SUBSET Listed \ {{}} : DropLines(c, S)
    PROVE  Inv'
<1>1. ASSUME NEW op \in {"add", "buy", "set", "drop"}, NEW place \in PlacesOf(op),
             NEW body, NEW todo, op \in {"add", "buy"} => page = "product",
             Start(c, [Idle EXCEPT !.op = op, !.at = place, !.live = TRUE,
                                   !.body = body, !.todo = todo]),
             UNCHANGED <<rows, tab>>
      PROVE  Inv'
  <2>. DEFINE r == [Idle EXCEPT !.op = op, !.at = place, !.live = TRUE,
                                !.body = body, !.todo = todo]
  <2>1. r = Fields(r) /\ r.op = op /\ r.at = place
    BY Shapes DEF Fields, Names
  <2>2. Start(c, r) /\ UNCHANGED <<orders, paid, page, selected, modal>>
    BY <1>1 DEF rows, tab
  <2>3. r.op \in {"add", "buy"} => page # "order"
    BY <1>1, <2>1
  <2>. HIDE DEF r
  <2>. QED
    BY <2>1, <2>2, <2>3, StartInv
<1>2. ASSUME NEW op \in {"add", "buy"}, NEW o, ClickProduct(c, op, o) PROVE Inv'
  BY <1>1, <1>2 DEF ClickProduct, PlacesOf
<1>3. ASSUME NEW s, NEW q, ChangeQuantity(c, s, q) PROVE Inv'
  BY <1>1, <1>3 DEF ChangeQuantity, PlacesOf
<1>4. ASSUME NEW S, DropLines(c, S) PROVE Inv'
  <2>. DEFINE r == [Idle EXCEPT !.op = "drop", !.at = "drop", !.live = TRUE,
                                !.todo = {shown[s].id : s \in S}]
  <2>1. r = Fields(r) /\ r.op = "drop" /\ r.at = "drop"
    BY Shapes DEF Fields, Names
  <2>2. Start(c, r) /\ UNCHANGED <<rows, tab>>
    BY <1>4 DEF DropLines
  <2>. HIDE DEF r
  <2>. QED
    BY <2>1, <2>2, StartInv DEF rows, tab, PlacesOf
<1>. QED
  BY <1>2, <1>3, <1>4

\* Lines go, and what was paid for is taken out of the cart.
LEMMA DeleteInv ==
    ASSUME Inv, NEW c \in Calls, Delete(c) \/ Clear(c)
    PROVE  Inv'
<1>1. /\ call[c].op \in {"drop", "pay"}
      /\ call[c].at \notin {"idle", "over"}
      /\ UNCHANGED <<orders, paid, page, selected, modal>>
      /\ Shaped /\ Placed(c)
      /\ call[c] = Fields(call[c])
  BY DEF Delete, Clear, Inv, Charged, Shaped, Placed, PlacesOf, Ops, rows, tab
<1>2. PICK r : /\ call' = [call EXCEPT ![c] = r]
               /\ r = Fields(r)
               /\ \/ r.op = call[c].op /\ r.at \in PlacesOf(r.op) /\ r.at # "pay"
                  \/ r.op = "none" /\ r.at = "over" /\ ~r.live
  <2>1. CASE Clear(c)
    <3>. DEFINE r == [call[c] EXCEPT !.at = "clear", !.found = None,
                !.todo = Ids(IF call[c].live THEN selected ELSE call[c].rows)]
    <3>1. r = Fields(r) /\ r.op = call[c].op /\ r.at = "clear"
      BY <1>1 DEF Fields, Names
    <3>2. call' = [call EXCEPT ![c] = r] /\ call[c].op = "pay"
      BY <1>1, <2>1 DEF Clear, Placed, PlacesOf
    <3>. HIDE DEF r
    <3>. QED
      BY <3>1, <3>2 DEF PlacesOf
  <2>2. CASE Delete(c)
    <3>. DEFINE q(id) == [call[c] EXCEPT !.todo = @ \ {id},
                              !.found = IF id \in Ids(line) THEN @ ELSE "failed"]
                v(id) == IF call[c].op = "drop" /\ call[c].todo = {id}
                         THEN Over ELSE q(id)
    <3>1. PICK id : call' = [call EXCEPT ![c] = v(id)]
      BY <2>2 DEF Delete
    <3>2. q(id) = Fields(q(id)) /\ q(id).op = call[c].op /\ q(id).at = call[c].at
      BY <1>1 DEF Fields, Names
    <3>3. v(id) = Over \/ v(id) = q(id)
      OBVIOUS
    <3>4. Over = Fields(Over) /\ Over.op = "none" /\ Over.at = "over" /\ ~Over.live
      BY Shapes DEF Over, Idle
    <3>5. call[c].at # "pay" /\ call[c].at \in PlacesOf(call[c].op)
      BY <1>1, <2>2 DEF Delete, Placed
    <3>. HIDE DEF q, v
    <3>. QED
      BY <3>1, <3>2, <3>3, <3>4, <3>5
  <2>. QED
    BY <2>1, <2>2
<1>3. /\ call' = [d \in Calls |-> Fields(call'[d])]
      /\ call'[c] = r
      /\ \A d \in Calls \ {c} : Stays(d)
  BY <1>1, <1>2, Overwrites
<1>4. Shaped'
  BY <1>1, <1>3 DEF Shaped
<1>5. Placed(c)'
  BY <1>1, <1>2, <1>3 DEF Placed, PlacesOf, Ops
<1>6. call[c].op # "order" /\ call'[c].op # "order" /\ call'[c].at # "pay"
  BY <1>1, <1>2, <1>3
<1>7. ASSUME NEW d \in Calls \ {c}, Pending(d) PROVE Settles(c)'
  BY <1>1, <1>2, <1>3, <1>7, WhilePending DEF Settles, Editing
<1>. QED
  BY <1>1, <1>3, <1>4, <1>5, <1>6, <1>7, OtherStep

\* Answers that take the tab to another page.
LEMMA MovingInv ==
    ASSUME Inv, NEW c \in Calls, Made(c) \/ Cleared(c)
    PROVE  Inv'
<1>1. /\ call[c].op \in {"add", "buy", "pay"}
      /\ call[c].at \in {"made", "clear"}
      /\ UNCHANGED <<orders, paid>>
      /\ modal' = modal \/ modal' = None
      /\ Shaped
  BY DEF Made, Cleared, Inv, Charged, Placed, PlacesOf, Ops, rows
<1>2. ASSUME NEW d \in Calls \ {c} PROVE ~Pending(d)
  BY <1>1, WhilePending DEF Editing
<1>3. PICK base \in {call, Leave} :
         \/ call' = [base EXCEPT ![c].at = "size"] /\ call[c].at = "made"
         \/ call' = [base EXCEPT ![c] = Over]
  <2>1. CASE Made(c)
    BY <2>1 DEF Made
  <2>2. CASE Cleared(c)
    BY <2>2 DEF Cleared
  <2>. QED
    BY <2>1, <2>2
<1>4. /\ base = [d \in Calls |-> base[d]]
      /\ \A d \in Calls : /\ base[d] = Fields(base[d])
                          /\ base[d].op = call[d].op
                          /\ base[d].at = call[d].at
                          /\ base[d].body = call[d].body
                          /\ base[d].found = call[d].found
                          /\ base[d].live => call[d].live
  <2>1. CASE base = call
    BY <1>1, <2>1 DEF Shaped
  <2>2. CASE base = Leave
    <3>1. base = [d \in Calls |-> base[d]]
      BY <2>2 DEF Leave
    <3>. QED
      BY <1>1, <2>2, <3>1, Leaves
  <2>. QED
    BY <2>1, <2>2
<1>5. PICK r : /\ call' = [base EXCEPT ![c] = r]
               /\ r = Fields(r)
               /\ \/ r.op = call[c].op /\ r.at = "size" /\ call[c].at = "made"
                  \/ r.op = "none" /\ r.at = "over" /\ ~r.live
  <2>1. CASE call' = [base EXCEPT ![c] = Over]
    <3>1. Over.op = "none" /\ Over.at = "over" /\ ~Over.live
      BY DEF Over, Idle
    <3>. QED
      BY <2>1, <3>1, Shapes
  <2>2. CASE call' = [base EXCEPT ![c].at = "size"] /\ call[c].at = "made"
    <3>. DEFINE r == [base[c] EXCEPT !.at = "size"]
    <3>1. call' = [base EXCEPT ![c] = r]
      BY <2>2
    <3>2. r = Fields(r) /\ r.op = call[c].op /\ r.at = "size"
      BY <1>4 DEF Fields, Names
    <3>. HIDE DEF r
    <3>. QED
      BY <2>2, <3>1, <3>2
  <2>. QED
    BY <1>3, <2>1, <2>2
<1>6. /\ call'[c] = r
      /\ \A d \in Calls \ {c} : call'[d] = base[d]
      /\ call' = [d \in Calls |-> call'[d]]
  BY <1>4, <1>5
<1>7. Shaped' /\ \A d \in Calls \ {c} : Stays(d)
  BY <1>1, <1>4, <1>5, <1>6 DEF Shaped, Stays
<1>8. Placed(c) /\ Placed(c)' /\ call'[c].op # "order" /\ call'[c].at # "pay"
  BY <1>1, <1>5, <1>6 DEF Inv, Charged, Placed, PlacesOf, Ops
<1>. QED
  BY <1>1, <1>2, <1>7, <1>8, OtherStep

\* The user leaves a page, the cart is asked for, the modal is closed.
LEMMA UserInv ==
    ASSUME Inv, User
    PROVE  Inv'
<1>1. CASE Refetch \/ CloseModal
  <2>1. UNCHANGED <<orders, paid, page, selected, call>>
        /\ (modal' = modal \/ modal' = None)
    BY <1>1 DEF Refetch, CloseModal, rows
  <2>. QED
    BY <2>1 DEF Inv, Shaped, Charged, Placed, Asking, Pending, Waits, Settles, UnderWay,
                Editing, Answer, ModalPrice, PayPrice, PaidPrice, PriceOf, Quantities
<1>2. ASSUME UNCHANGED <<orders, paid>>, call' = Leave, modal' = modal \/ modal' = None
      PROVE  Inv'
  <2>1. Shaped
    BY DEF Inv
  <2>2. \A d \in Calls : /\ call'[d] = Fields(call'[d])
                         /\ Stays(d)
                         /\ ~call'[d].live
    BY <1>2, <2>1, Leaves DEF Stays
  <2>3. Shaped'
    BY <1>2, <2>1, <2>2 DEF Shaped, Leave
  <2>4. \A d \in Calls : Placed(d)' /\ ~Asking(d)' /\ Answer(d)'
    BY <1>2, <2>2 DEF Inv, Charged, Placed, Stays, Asking, Answer
  <2>5. ModalPrice' /\ \A d \in Calls : PayPrice(d)' /\ PaidPrice(d)'
    BY <1>2, <2>2 DEF Inv, Charged, Stays, ModalPrice, PayPrice, PaidPrice, PriceOf
  <2>. QED
    BY <2>3, <2>4, <2>5 DEF Inv, Charged, Pending
<1>. QED
  BY <1>1, <1>2 DEF User, Visit, Pick, rows

-----------------------------------------------------------------------------
\* Steps of orders and payments.

LEMMA ClickOrderInv ==
    ASSUME Inv, NEW c \in Calls, ClickOrder(c)
    PROVE  Inv'
<1>. DEFINE found == IF \A d \in Calls : Settles(d) THEN "settled" ELSE "open"
            r == [Idle EXCEPT !.op = "order", !.at = "order", !.live = TRUE,
                              !.body = Quantities(selected), !.found = found]
<1>1. /\ call' = [call EXCEPT ![c] = r]
      /\ call[c].at = "idle"
      /\ UNCHANGED <<orders, paid, page, selected, modal>>
      /\ page = "order" /\ modal = None
      /\ \A d \in Calls : ~Asking(d)
      /\ Shaped
  BY DEF ClickOrder, Start, Free, rows, tab, Asking, Inv
<1>2. /\ r = Fields(r) /\ r.op = "order" /\ r.at = "order"
      /\ r.body = Quantities(selected) /\ r.found = found
  BY Shapes DEF Fields, Names, Idle
<1>3. found = "settled" => \A d \in Calls : Settles(d)
  OBVIOUS
<1>. HIDE DEF r, found
<1>4. /\ call' = [d \in Calls |-> Fields(call'[d])]
      /\ call'[c] = r
      /\ \A d \in Calls \ {c} : call'[d] = call[d]
  BY <1>1, <1>2, Overwrites
<1>5. Shaped'
  BY <1>1, <1>4 DEF Shaped
<1>6. \A d \in Calls : Placed(d)'
  BY <1>2, <1>4 DEF Inv, Charged, Placed, PlacesOf, Ops
<1>7. \A d \in Calls : Asking(d)' => d = c
  BY <1>1, <1>4 DEF Asking
<1>8. ASSUME NEW d \in Calls, Pending(d)' PROVE Waits(d)'
  <2>1. d = c /\ \A e \in Calls : Settles(e)
    BY <1>2, <1>3, <1>4, <1>7, <1>8 DEF Pending
  <2>2. \A e \in Calls : Settles(e)'
    BY <1>2, <1>4, <2>1 DEF Settles, UnderWay, Editing
  <2>. QED
    BY <1>1, <1>2, <1>4, <2>1, <2>2 DEF Waits, Quantities
<1>9. \A d \in Calls : Answer(d)' /\ PayPrice(d)' /\ PaidPrice(d)'
  BY <1>1, <1>2, <1>4 DEF Inv, Charged, Answer, PayPrice, PaidPrice, PriceOf
<1>10. ModalPrice'
  BY <1>1 DEF ModalPrice
<1>. QED
  BY <1>5, <1>6, <1>7, <1>8, <1>9, <1>10 DEF Inv, Charged

LEMMA ClickPayInv ==
    ASSUME Inv, NEW c \in Calls, ClickPay(c)
    PROVE  Inv'
<1>. DEFINE r == [Idle EXCEPT !.op = "pay", !.at = "pay", !.live = TRUE,
                              !.body = modal.price, !.found = modal.order]
<1>1. /\ call' = [call EXCEPT ![c] = r]
      /\ call[c].at = "idle"
      /\ UNCHANGED <<orders, paid, page, selected, modal>>
      /\ modal # None
      /\ Shaped
  BY DEF ClickPay, Start, Free, rows, tab, Inv
<1>2. /\ r = Fields(r) /\ r.op = "pay" /\ r.at = "pay"
      /\ r.body = modal.price /\ r.found = modal.order
  BY Shapes DEF Fields, Names, Idle
<1>. HIDE DEF r
<1>3. /\ call' = [d \in Calls |-> Fields(call'[d])]
      /\ call'[c] = r
      /\ \A d \in Calls \ {c} : call'[d] = call[d]
  BY <1>1, <1>2, Overwrites
<1>4. Shaped'
  BY <1>1, <1>3 DEF Shaped
<1>5. \A d \in Calls : Placed(d)'
  BY <1>2, <1>3 DEF Inv, Charged, Placed, PlacesOf, Ops
<1>6. \A d \in Calls : (Asking(d)' => d # c /\ Asking(d)) /\ ~Pending(d)'
  BY <1>1, <1>2, <1>3 DEF Inv, Charged, Asking, Pending, Waits
<1>7. \A d \in Calls : Answer(d)' /\ PaidPrice(d)'
  BY <1>1, <1>2, <1>3 DEF Inv, Charged, Answer, PaidPrice, PriceOf
<1>8. ModalPrice' /\ \A d \in Calls : PayPrice(d)'
  BY <1>1, <1>2, <1>3 DEF Inv, Charged, ModalPrice, PayPrice, PriceOf
<1>. QED
  BY <1>4, <1>5, <1>6, <1>7, <1>8 DEF Inv, Charged

LEMMA PlaceOrderInv ==
    ASSUME Inv, NEW c \in Calls, PlaceOrder(c)
    PROVE  Inv'
<1>1. /\ call[c].at = "order" /\ call[c].op = "order"
      /\ UNCHANGED <<paid, page, selected, modal>>
      /\ Shaped
  BY DEF PlaceOrder, Inv, Charged, Placed, PlacesOf, Ops, tab
<1>2. /\ call' = [d \in Calls |-> Fields(call'[d])]
      /\ \A d \in Calls \ {c} : Stays(d) /\ orders'[d] = orders[d]
      /\ orders' = [d \in Calls |-> orders'[d]]
      /\ \/ /\ call'[c].op = "order" /\ call'[c].at = "ordered"
            /\ call'[c].body = call[c].body
            /\ call'[c].found = call[c].found
            /\ call'[c].live = call[c].live
            /\ orders'[c] =
                 [items |-> call[c].body, settled |-> call[c].found = "settled"]
         \/ call'[c].op = "none" /\ call'[c].at = "over" /\ ~call'[c].live
  <2>1. CASE End(c)
    <3>1. orders' = orders \/ orders' = [orders EXCEPT ![c] =
                 [items |-> call[c].body, settled |-> call[c].found = "settled"]]
      BY DEF PlaceOrder
    <3>. QED
      BY <1>1, <2>1, <3>1, Ends DEF Shaped
  <2>2. CASE /\ Go(c, "ordered")
             /\ orders' = [orders EXCEPT ![c] =
                  [items |-> call[c].body, settled |-> call[c].found = "settled"]]
    <3>1. /\ \A d \in Calls \ {c} : orders'[d] = orders[d]
          /\ orders' = [d \in Calls |-> orders'[d]]
          /\ orders'[c] =
                 [items |-> call[c].body, settled |-> call[c].found = "settled"]
      BY <1>1, <2>2 DEF Shaped
    <3>. QED
      BY <1>1, <2>2, <3>1, Goes
  <2>. QED
    BY <2>1, <2>2 DEF PlaceOrder
<1>3. Shaped'
  BY <1>1, <1>2 DEF Shaped
<1>4. \A d \in Calls : Placed(d)'
  BY <1>2 DEF Inv, Charged, Placed, Stays, PlacesOf, Ops
<1>5. ASSUME NEW d \in Calls, Asking(d)'
      PROVE  Asking(d) /\ (Pending(d)' => Pending(d))
  BY <1>1, <1>2, <1>5 DEF Asking, Pending, Stays
<1>6. ASSUME NEW d \in Calls, Pending(d)' PROVE Waits(d)'
  <2>1. Waits(d)
    BY <1>5, <1>6 DEF Inv, Charged, Pending
  <2>2. \A e \in Calls : Settles(e)'
    BY <1>2, <2>1 DEF Waits, Settles, UnderWay, Editing, Stays
  <2>3. call'[d].body = call[d].body
    BY <1>2, <1>6 DEF Stays, Pending, Asking
  <2>. QED
    BY <1>1, <2>1, <2>2, <2>3 DEF Waits, Quantities
<1>7. \A o \in Calls : call[o].at = "over" => call'[o].at = "over" /\ orders'[o] = orders[o]
  BY <1>1, <1>2 DEF Stays
<1>8. ASSUME NEW d \in Calls PROVE Answer(d)'
  <2>1. CASE d = c
    <3>. SUFFICES ASSUME call'[c].at = "ordered"
                  PROVE  orders'[c] = [ items |-> call'[c].body,
                                        settled |-> call'[c].found = "settled" ]
      BY <2>1 DEF Answer
    <3>1. call'[c].body = call[c].body /\ call'[c].found = call[c].found
      BY <1>2
    <3>2. orders'[c] = [items |-> call[c].body, settled |-> call[c].found = "settled"]
      BY <1>2
    <3>. QED
      BY <3>1, <3>2, Zenon
  <2>2. CASE d # c
    <3>1. /\ call'[d].at = call[d].at
          /\ call'[d].body = call[d].body
          /\ call'[d].found = call[d].found
          /\ orders'[d] = orders[d]
      BY <1>2, <2>2 DEF Stays
    <3>2. Answer(d)
      BY DEF Inv, Charged
    <3>. QED
      BY <3>1, <3>2, Zenon DEF Answer
  <2>. QED
    BY <2>1, <2>2
<1>9. ModalPrice' /\ \A d \in Calls : PaidPrice(d)'
  BY <1>1, <1>7 DEF Inv, Charged, ModalPrice, PaidPrice, PriceOf
<1>10. ASSUME NEW d \in Calls PROVE PayPrice(d)'
  BY <1>1, <1>2, <1>7 DEF Inv, Charged, PayPrice, PriceOf, Stays
<1>. QED
  BY <1>3, <1>4, <1>5, <1>6, <1>8, <1>9, <1>10 DEF Inv, Charged

LEMMA OrderedInv ==
    ASSUME Inv, NEW c \in Calls, Ordered(c)
    PROVE  Inv'
<1>1. /\ call[c].at = "ordered" /\ call[c].op = "order"
      /\ UNCHANGED <<orders, paid, page, selected>>
      /\ modal' = IF call[c].live THEN [order |-> c, price |-> Quantities(selected)]
                  ELSE modal
      /\ Shaped
  BY DEF Ordered, Inv, Charged, Placed, PlacesOf, Ops, rows
<1>2. /\ call' = [d \in Calls |-> Fields(call'[d])]
      /\ call'[c].op = "none" /\ call'[c].at = "over" /\ ~call'[c].live
      /\ \A d \in Calls \ {c} : Stays(d)
  BY <1>1, Ends DEF Ordered
<1>3. Shaped'
  BY <1>1, <1>2 DEF Shaped
<1>4. \A d \in Calls : Placed(d)'
  BY <1>2 DEF Inv, Charged, Placed, Stays, PlacesOf, Ops
<1>5. ASSUME NEW d \in Calls, Asking(d)'
      PROVE  d # c /\ Asking(d) /\ (Pending(d)' => Pending(d))
  BY <1>2, <1>5 DEF Asking, Pending, Stays
<1>6. ASSUME NEW d \in Calls, Pending(d)' PROVE Waits(d)'
  <2>1. Waits(d) /\ d # c /\ Asking(d)
    BY <1>5, <1>6 DEF Inv, Charged, Pending
  <2>2. \A e \in Calls : Settles(e)'
    BY <1>2, <2>1 DEF Waits, Settles, UnderWay, Editing, Stays
  <2>3. modal' = modal
    BY <1>1, <2>1 DEF Inv, Charged, Asking
  <2>. QED
    BY <1>1, <1>2, <2>1, <2>2, <2>3 DEF Waits, Quantities, Stays
<1>7. \A o \in Calls : call[o].at = "over" => call'[o].at = "over"
  BY <1>2 DEF Stays
<1>8. \A d \in Calls : Answer(d)' /\ PaidPrice(d)'
  BY <1>1, <1>2, <1>7 DEF Inv, Charged, Answer, Stays, PaidPrice, PriceOf
<1>9. ASSUME NEW d \in Calls PROVE PayPrice(d)'
  BY <1>1, <1>2, <1>7 DEF Inv, Charged, PayPrice, PriceOf, Stays
<1>10. ModalPrice'
  <2>1. CASE ~call[c].live
    BY <1>1, <1>7, <2>1 DEF Inv, Charged, ModalPrice, PriceOf
  <2>2. CASE call[c].live
    <3>1. modal'.order = c /\ modal'.price = Quantities(selected)
      BY <1>1, <2>2
    <3>2. orders[c] = [items |-> call[c].body, settled |-> call[c].found = "settled"]
      BY <1>1 DEF Inv, Charged, Answer
    <3>3. orders[c].settled => Quantities(selected) = orders[c].items
      <4>1. /\ orders[c].items = call[c].body
            /\ orders[c].settled = (call[c].found = "settled")
        BY <3>2
      <4>2. call[c].found = "settled" => call[c].body = Quantities(selected)
        BY <1>1, <2>2 DEF Inv, Charged, Pending, Asking, Waits
      <4>. QED
        BY <4>1, <4>2
    <3>. QED
      BY <1>1, <1>2, <3>1, <3>3 DEF ModalPrice, PriceOf
  <2>. QED
    BY <2>1, <2>2
<1>. QED
  BY <1>3, <1>4, <1>5, <1>6, <1>8, <1>9, <1>10 DEF Inv, Charged

LEMMA TakePaymentInv ==
    ASSUME Inv, NEW c \in Calls, TakePayment(c)
    PROVE  Inv'
<1>0. PICK o \in Calls : o = call[c].found
  BY DEF TakePayment, Inv, Charged, PayPrice, PriceOf
<1>1. /\ call[c].at = "pay" /\ call[c].op = "pay"
      /\ UNCHANGED <<orders, page, selected, modal>>
      /\ Shaped
      /\ PriceOf(o, call[c].body)
      /\ paid' = paid \/ paid' = [paid EXCEPT ![o] = call[c].body]
  BY <1>0 DEF TakePayment, Inv, Charged, Placed, PlacesOf, Ops, PayPrice, tab
<1>2. /\ call' = [d \in Calls |-> Fields(call'[d])]
      /\ \A d \in Calls \ {c} : Stays(d)
      /\ \/ call'[c].op = "pay" /\ call'[c].at = "paid"
         \/ call'[c].op = "none" /\ call'[c].at = "over" /\ ~call'[c].live
  <2>1. CASE End(c)
    BY <1>1, <2>1, Ends
  <2>2. CASE Go(c, "paid")
    BY <1>1, <2>2, Goes
  <2>. QED
    BY <2>1, <2>2 DEF TakePayment
<1>3. Shaped'
  BY <1>1, <1>2 DEF Shaped
<1>4. \A d \in Calls : Placed(d)'
  BY <1>2 DEF Inv, Charged, Placed, Stays, PlacesOf, Ops
<1>5. \A d \in Calls : (Asking(d)' => Asking(d)) /\ ~Pending(d)'
  BY <1>1, <1>2, WhilePending DEF Asking, Pending, Stays
<1>6. \A e \in Calls : call[e].at = "over" => call'[e].at = "over"
  BY <1>1, <1>2 DEF Stays
<1>7. ModalPrice' /\ \A d \in Calls : Answer(d)'
  BY <1>1, <1>2, <1>6 DEF Inv, Charged, ModalPrice, PriceOf, Answer, Stays
<1>8. ASSUME NEW d \in Calls PROVE PayPrice(d)'
  BY <1>1, <1>2, <1>6 DEF Inv, Charged, PayPrice, PriceOf, Stays
<1>9. ASSUME NEW d \in Calls PROVE PaidPrice(d)'
  <2>1. paid'[d] = paid[d] \/ (d = o /\ paid'[d] = call[c].body)
    BY <1>1 DEF Shaped
  <2>. QED
    BY <1>1, <1>6, <2>1 DEF Inv, Charged, PaidPrice, PriceOf
<1>. QED
  BY <1>3, <1>4, <1>5, <1>7, <1>8, <1>9 DEF Inv, Charged

-----------------------------------------------------------------------------
LEMMA NextInv == Inv /\ [Next]_vars => Inv'
<1>. SUFFICES ASSUME Inv, [Next]_vars PROVE Inv'
  OBVIOUS
<1>1. CASE UNCHANGED vars
  BY <1>1 DEF vars, rows, tab, Inv, Shaped, Charged, Placed, Asking, Pending, Waits,
              Settles, UnderWay, Editing, Answer, ModalPrice, PayPrice, PaidPrice,
              PriceOf, Quantities
<1>2. ASSUME NEW c \in Calls, Click(c) PROVE Inv'
  BY <1>2, ClickInv, ClickOrderInv, ClickPayInv DEF Click
<1>3. ASSUME NEW c \in Calls, Step(c) PROVE Inv'
  BY <1>3, EditInv, MovingInv, DeleteInv, PlaceOrderInv, OrderedInv, TakePaymentInv
     DEF Step
<1>. QED
  BY <1>1, <1>2, <1>3, UserInv DEF Next

\* The price of an order that its page waited for undisturbed is that of the
\* items it sent, in the modal and in the payment, for any number of calls.
THEOREM OrdersAreCharged == Spec => []ChargedAsOrdered
  BY InitInv, NextInv, InvCharged, PTL DEF Spec

=============================================================================
