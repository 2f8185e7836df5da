------------------------------- MODULE Market -------------------------------
(***************************************************************************)
(* One product of a store and the calls that race for its rows: a seller's *)
(* edits, which delete the stock rows and create those of the form, orders *)
(* that take of a stock row, the deletion of the product, and inquiries    *)
(* about it. The calls are processes whose steps are their database        *)
(* statements.                                                             *)
(*                                                                         *)
(* PostgreSQL runs at READ COMMITTED: a DELETE or an UPDATE finds its rows *)
(* among those committed when it begins (the pin), then waits for whoever  *)
(* holds them and leaves out those that are gone. An INSERT of a row that  *)
(* refers to the product waits for a transaction that is deleting it. The  *)
(* last statement of a transaction and its COMMIT are one step.            *)
(***************************************************************************)
EXTENDS Integers, FiniteSets

CONSTANTS
    Users,
    Owner,      \* seller of the product's store
    Sizes,
    Forms,      \* stock forms: from each size to a quantity or NoRow
    FirstForm,  \* the form the product was created with
    Calls,      \* identities of calls of the API
    Requests,   \* [Calls -> sets of RequestType], what each may ask
    First,      \* the call that created the product
    NoRow       \* no such stock row, or a size a form does not list

Listed(form) == {s \in Sizes : form[s] # NoRow}

\* edit: PATCH /products/:id, take: the part of POST /orders that is about this
\* product (its form lists one size), remove: DELETE /products/:id, ask: POST
\* /products/:id/inquiries. valid: what the body alone shows is in order.
RequestType ==
    [ op    : {"edit", "take", "remove", "ask"},
      by    : Users,
      form  : Forms,
      valid : BOOLEAN ]

ASSUME MarketAssumption ==
    /\ Owner \in Users
    /\ NoRow \notin Int
    /\ Forms \subseteq [Sizes -> Nat \union {NoRow}]
    /\ FirstForm \in Forms
    /\ First \notin Calls
    /\ Requests \in [Calls -> SUBSET RequestType]
    /\ \A c \in Calls : \A r \in Requests[c] :
          r.op = "take" => \E s \in Sizes : Listed(r.form) = {s}

\* A row of ProductStock, named by the call that created it and its size.
Rows == (Calls \union {First}) \X Sizes

VARIABLES
    \* committed rows
    there,      \* the row of Product
    saved,      \* the call whose form it holds
    isSoldOut,  \* Product.isSoldOut
    left,       \* [Rows -> Int \union {NoRow}], ProductStock.quantity
    ordered,    \* orders with an OrderItem of the product
    asked,      \* inquiries about the product
    notices,    \* inquiries announced to the seller by a row of Notification
    \* one call each
    request,    \* what it asks
    pc,         \* where it is
    pinned      \* the stock rows its statement is about

rows == <<there, saved, isSoldOut, left, ordered, asked, notices>>
vars == <<rows, request, pc, pinned>>

OnSale(r) == left[r] # NoRow
RowsOf(s) == {r \in Rows : r[2] = s /\ OnSale(r)}
Asks(c, op, place) == request[c].op = op /\ pc[c] = place
Goto(c, place) == pc' = [pc EXCEPT ![c] = place]
Go(c, place) == Goto(c, place) /\ UNCHANGED <<rows, request, pinned>>
Refuse(c) == Go(c, "refused")
Pin(c, some, place) ==
    /\ pinned' = [pinned EXCEPT ![c] = some]
    /\ Goto(c, place)
    /\ UNCHANGED <<rows, request>>

\* Rows a transaction has written and not committed.
Holds(c, r) == pc[c] \in {"write", "item"} /\ r \in pinned[c]
HoldsProduct(c) == pc[c] = "cascade"

Free(c, r) == \A d \in Calls \ {c} : ~Holds(d, r)
ProductFree(c) == \A d \in Calls \ {c} : ~HoldsProduct(d)

\* isSoldOutByStocks.
SoldOut(form) == \E s \in Listed(form) : form[s] <= 0

-----------------------------------------------------------------------------
\* As ProductsService.create leaves the product: one statement writes it with
\* its stock rows.
Init ==
    /\ there = TRUE
    /\ saved = First
    /\ isSoldOut = SoldOut(FirstForm)
    /\ left = [r \in Rows |-> IF r[1] = First THEN FirstForm[r[2]] ELSE NoRow]
    /\ ordered = {}
    /\ asked = {}
    /\ notices = {}
    /\ request \in {q \in [Calls -> UNION {Requests[c] : c \in Calls}] :
                       \A c \in Calls : q[c] \in Requests[c]}
    /\ pc = [c \in Calls |-> "idle"]
    /\ pinned = [c \in Calls |-> {}]

Submit(c) ==
    /\ pc[c] = "idle"
    /\ Go(c, IF request[c].valid THEN "read" ELSE "refused")

\* findById, requireProduct and, for the seller's calls, ensureProductOwner;
\* for an order, the look at the stock row.
Read(c) ==
    LET wanted == request[c].form
        fit == \E r \in Rows : r[2] \in Listed(wanted) /\ OnSale(r)
                               /\ left[r] >= wanted[r[2]]
        first == [edit |-> "pin", take |-> "pin", remove |-> "drop", ask |-> "insert"]
    IN
    /\ pc[c] = "read"
    /\ Go(c, IF /\ there
                /\ request[c].op \in {"edit", "remove"} => request[c].by = Owner
                /\ request[c].op = "take" => fit
             THEN first[request[c].op] ELSE "refused")

-----------------------------------------------------------------------------
\* update: the first statement of its transaction deletes the stock rows ...
EditPin(c) ==
    /\ Asks(c, "edit", "pin")
    /\ Pin(c, {r \in Rows : OnSale(r)}, "clear")

EditClear(c) ==
    /\ Asks(c, "edit", "clear")
    /\ \A r \in pinned[c] : Free(c, r)
    /\ Pin(c, {r \in pinned[c] : OnSale(r)}, "write")

\* ... and the last updates the product and creates the rows of the form, which
\* (productId, sizeId) being unique refuses next to one of the same size.
Clashes(c) ==
    \E r \in Rows \ pinned[c] : OnSale(r) /\ r[2] \in Listed(request[c].form)

\* What is left when c has deleted the rows it pinned and created its own.
Restocked(c) ==
    [r \in Rows |-> IF r[1] = c THEN request[c].form[r[2]]
                    ELSE IF r \in pinned[c] THEN NoRow ELSE left[r]]

Save(c) ==
    /\ saved' = c
    /\ isSoldOut' = SoldOut(request[c].form)
    /\ left' = Restocked(c)
    /\ Goto(c, "done")
    /\ UNCHANGED <<there, ordered, asked, notices, request, pinned>>

\* Mutant: createMany skips the sizes that are there.
EditWriteSkips(c) ==
    /\ Asks(c, "edit", "write")
    /\ ProductFree(c)
    /\ IF ~there
       THEN Refuse(c)
       ELSE /\ saved' = c
            /\ isSoldOut' = SoldOut(request[c].form)
            /\ left' = [r \in Rows |->
                   IF r[1] = c /\ \A d \in (Calls \union {First}) \ {c} :
                                    OnSale(<<d, r[2]>>) => <<d, r[2]>> \in pinned[c]
                   THEN request[c].form[r[2]]
                   ELSE IF r \in pinned[c] THEN NoRow ELSE left[r]]
            /\ Goto(c, "done")
            /\ UNCHANGED <<there, ordered, asked, notices, request, pinned>>

EditWrite(c) ==
    /\ Asks(c, "edit", "write")
    /\ ProductFree(c)
    /\ IF ~there \/ Clashes(c) THEN Refuse(c) ELSE Save(c)

-----------------------------------------------------------------------------
\* createOrderWithTransaction: the decrement of the stock row ...
TakePin(c) ==
    /\ Asks(c, "take", "pin")
    /\ LET some == {r \in Rows : OnSale(r) /\ r[2] \in Listed(request[c].form)}
       IN  IF some = {} THEN Refuse(c) ELSE Pin(c, some, "take")

TakeTake(c) ==
    /\ Asks(c, "take", "take")
    /\ \A r \in pinned[c] : Free(c, r)
    /\ Go(c, IF \A r \in pinned[c] : OnSale(r) THEN "item" ELSE "refused")

\* ... and the item of the order, which refers to the product.
TakeItem(c) ==
    /\ Asks(c, "take", "item")
    /\ ProductFree(c)
    /\ left' = [r \in Rows |-> IF r \in pinned[c]
                               THEN left[r] - request[c].form[r[2]] ELSE left[r]]
    /\ ordered' = ordered \union {c}
    /\ Goto(c, "done")
    /\ UNCHANGED <<there, saved, isSoldOut, asked, notices, request, pinned>>

-----------------------------------------------------------------------------
\* deleteById: one statement that locks the product and then goes through the
\* rows that refer to it.
RemoveDrop(c) ==
    /\ Asks(c, "remove", "drop")
    /\ ProductFree(c)
    /\ Go(c, IF there THEN "cascade" ELSE "refused")

\* An order item restricts the deletion; stock rows and inquiries go with it.
RemoveRefused(c) ==
    /\ Asks(c, "remove", "cascade")
    /\ ordered # {}
    /\ Refuse(c)

\* Mutant: the items of orders go with the product too.
RemoveCascadeAll(c) ==
    /\ Asks(c, "remove", "cascade")
    /\ \A r \in Rows : Free(c, r)
    /\ there' = FALSE
    /\ left' = [r \in Rows |-> NoRow]
    /\ asked' = {}
    /\ Goto(c, "done")
    /\ UNCHANGED <<saved, isSoldOut, ordered, notices, request, pinned>>

RemoveCascade(c) ==
    /\ Asks(c, "remove", "cascade")
    /\ ordered = {}
    /\ \A r \in Rows : Free(c, r)
    /\ there' = FALSE
    /\ left' = [r \in Rows |-> NoRow]
    /\ asked' = {}
    /\ Goto(c, "done")
    /\ UNCHANGED <<saved, isSoldOut, ordered, notices, request, pinned>>

-----------------------------------------------------------------------------
\* createInquiry, and the notification, a statement of its own behind it.
AskInsert(c) ==
    /\ Asks(c, "ask", "insert")
    /\ ProductFree(c)
    /\ IF ~there
       THEN Refuse(c)
       ELSE /\ asked' = asked \union {c}
            /\ Goto(c, "announce")
            /\ UNCHANGED <<there, saved, isSoldOut, left, ordered, notices,
                           request, pinned>>

Announce(c) ==
    /\ Asks(c, "ask", "announce")
    /\ notices' = notices \union {c}
    /\ Goto(c, "done")
    /\ UNCHANGED <<there, saved, isSoldOut, left, ordered, asked, request, pinned>>

-----------------------------------------------------------------------------
InFlight == {"read", "pin", "clear", "write", "take", "item", "drop", "cascade",
             "insert"}
Answered == {"done", "refused", "failed", "unannounced"}

\* Mutant: the rows of a transaction that failed stay locked.
AbandonLocked(c) ==
    /\ pc[c] \in (InFlight \ {"write", "item", "cascade"}) \union {"announce"}
    /\ Go(c, IF pc[c] = "announce" THEN "unannounced" ELSE "failed")

\* The transaction is rolled back; an inquiry that was committed stays.
Abandon(c) ==
    /\ pc[c] \in InFlight \union {"announce"}
    /\ Go(c, IF pc[c] = "announce" THEN "unannounced" ELSE "failed")

\* A statement or the upload of the image fails, or the time limit passes.
Fail(c) == Abandon(c)

\* The process dies: every transaction is rolled back by the database.
Crash ==
    /\ \E c \in Calls : pc[c] \in InFlight \union {"announce"}
    /\ pc' = [c \in Calls |->
                 CASE pc[c] = "announce" -> "unannounced"
                   [] pc[c] \in InFlight -> "failed"
                   [] OTHER -> pc[c]]
    /\ UNCHANGED <<rows, request, pinned>>

\* c waits for a row that d holds.
WaitsFor(c, d) ==
    /\ c # d
    /\ \/ pc[c] \in {"clear", "take"} /\ \E r \in pinned[c] : Holds(d, r)
       \/ pc[c] = "cascade" /\ \E r \in Rows : Holds(d, r)
       \/ pc[c] \in {"write", "item", "drop", "insert"} /\ HoldsProduct(d)

\* Who holds a stock row can wait for the product only, so that a cycle of
\* waiting transactions has two members.
AbortDeadlocked(c) ==
    /\ \E d \in Calls : WaitsFor(c, d) /\ WaitsFor(d, c)
    /\ Abandon(c)

Step(c) ==
    \/ Read(c)
    \/ EditPin(c) \/ EditClear(c) \/ EditWrite(c)
    \/ TakePin(c) \/ TakeTake(c) \/ TakeItem(c)
    \/ RemoveDrop(c) \/ RemoveRefused(c) \/ RemoveCascade(c)
    \/ AskInsert(c) \/ Announce(c)

Finished == (\A c \in Calls : pc[c] \in Answered) /\ UNCHANGED vars

Next ==
    \/ \E c \in Calls : Submit(c) \/ Step(c) \/ Fail(c) \/ AbortDeadlocked(c)
    \/ Crash
    \/ Finished

Spec == Init /\ [][Next]_vars

\* An accepted call runs on, and the database resolves deadlocks.
FairSpec ==
    /\ Spec
    /\ \A c \in Calls : WF_vars(Step(c))
    /\ WF_vars(\E c \in Calls : AbortDeadlocked(c))

-----------------------------------------------------------------------------
\* Types of the rows and of the calls.
TypeOK ==
    /\ there \in BOOLEAN
    /\ saved \in Calls \union {First}
    /\ isSoldOut \in BOOLEAN
    /\ left \in [Rows -> Int \union {NoRow}]
    /\ ordered \subseteq Calls
    /\ asked \subseteq Calls
    /\ notices \subseteq Calls
    /\ request \in [Calls -> RequestType]
    /\ pc \in [Calls -> InFlight \union Answered \union {"idle", "announce"}]
    /\ pinned \in [Calls -> SUBSET Rows]

\* The form that was saved last is on sale as a whole: each size it lists has
\* its row and no other, though nothing but the unique key of the rows orders
\* two edits that race. Rows of an earlier form can only be of other sizes.
SavedForm == IF saved = First THEN FirstForm ELSE request[saved].form

ProductAsSaved ==
    there => \A s \in Listed(SavedForm) : RowsOf(s) = {<<saved, s>>}

\* Every accepted call is answered, though the deletion of a product locks it
\* before its stock rows and edits and orders lock it after them.
EveryCallAnswered == \A c \in Calls : pc[c] = "read" ~> pc[c] \in Answered

Stock == INSTANCE Shelf WITH
    shelf <- [s \in Sizes |->
                 IF RowsOf(s) = {} THEN NoRow ELSE left[CHOOSE r \in RowsOf(s) : TRUE]],
    flag <- isSoldOut

\* The calls implement the shelf: no order is lost between two saves, none takes
\* of a row that a save has replaced, a product that was ordered stays.
ShelfSpec == Stock!Spec

=============================================================================
