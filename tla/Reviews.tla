------------------------------ MODULE Reviews ------------------------------
(***************************************************************************)
(* Reviews of order items, beside the life of their orders: who buys writes*)
(* a review of an item whose order is paid, one for each item, rewrites it *)
(* and takes it back, while payments and cancellations go on. The calls of *)
(* the reviews are processes whose steps are their database statements;    *)
(* each writes one row with one statement, so none waits for a lock.       *)
(***************************************************************************)
EXTENDS OrderLifecycle

CONSTANTS
    Items,          \* rows of OrderItem
    OrderOf,        \* [Items -> Orders], OrderItem.orderId
    Writers,        \* identities of the calls of the reviews
    ReviewRequests, \* [Writers -> sets of ReviewRequestType], what each may ask
    NoReview        \* no row of Review

\* create: POST /products/:id/reviews, edit and delete: PATCH and DELETE
\* /reviews/:id. valid: what the body alone shows is in order (an item, a text,
\* a rating from 1 to 5; of an edit, one of them).
ReviewRequestType ==
    [ op    : {"create", "edit", "delete"},
      item  : Items,
      by    : Buyers,
      valid : BOOLEAN ]

ASSUME ReviewAssumption ==
    /\ OrderOf \in [Items -> Orders]
    /\ ReviewRequests \in [Writers -> SUBSET ReviewRequestType]
    /\ NoReview \notin Writers
    /\ NoReview \notin [id : Writers, text : Writers]

VARIABLES
    review,     \* [Items -> rows of Review or NoReview]
    wish,       \* what each call of the reviews asks
    at,         \* where it is
    named       \* the review an edit or a deletion names

reviewVars == <<review, wish, at, named>>
allVars == <<vars, reviewVars>>

\* Rows are told apart by the call that created them.
ReviewId(i) == IF review[i] = NoReview THEN NoReview ELSE review[i].id

Wants(w, op, place) == wish[w].op = op /\ at[w] = place
Item(w) == wish[w].item
Move(w, place) == at' = [at EXCEPT ![w] = place]
MoveOn(w, place) == Move(w, place) /\ UNCHANGED <<vars, review, wish, named>>

Writing == {"order", "payment", "write"}
Closed == {"done", "refused", "lost"}

-----------------------------------------------------------------------------
NothingReviewed ==
    /\ review = [i \in Items |-> NoReview]
    /\ wish \in {q \in [Writers -> UNION {ReviewRequests[w] : w \in Writers}] :
                    \A w \in Writers : q[w] \in ReviewRequests[w]}
    /\ at = [w \in Writers |-> "idle"]
    /\ named = [w \in Writers |-> NoReview]

\* Orders as createOrder leaves them, and nothing reviewed yet.
ReviewInit == Init /\ NothingReviewed

\* The call of w comes in and names that review, if it needs to name one.
SubmitNaming(w, id) ==
    /\ at[w] = "idle"
    /\ Move(w, IF ~wish[w].valid THEN "refused"
               ELSE IF wish[w].op = "create" THEN "order" ELSE "payment")
    /\ named' = [named EXCEPT ![w] = id]
    /\ UNCHANGED <<vars, review, wish>>

\* A client that edits or deletes a review names one it has been shown before.
WriterSubmit(w) == SubmitNaming(w, ReviewId(Item(w)))

\* createReview: findOrderItemById is a query for the item and its order ...
CreateReadOrder(w) ==
    LET o == OrderOf[Item(w)] IN
    /\ Wants(w, "create", "order")
    /\ MoveOn(w, IF BuyerOf[o] = wish[w].by /\ status[o] = "CompletedPayment"
                 THEN "payment" ELSE "refused")

\* ... and one for the payment of that order.
CreateReadPayment(w) ==
    /\ Wants(w, "create", "payment")
    /\ MoveOn(w, IF payment[OrderOf[Item(w)]].status = "CompletedPayment"
                 THEN "write" ELSE "refused")

\* Mutant: a second review of the item replaces the first.
CreateWriteOver(w) ==
    /\ Wants(w, "create", "write")
    /\ review' = [review EXCEPT ![Item(w)] = [id |-> w, text |-> w]]
    /\ Move(w, "done")
    /\ UNCHANGED <<vars, wish, named>>

\* orderItemId is unique: who comes second is told that there is a review.
CreateWrite(w) ==
    /\ Wants(w, "create", "write")
    /\ IF review[Item(w)] # NoReview
       THEN MoveOn(w, "refused")
       ELSE /\ review' = [review EXCEPT ![Item(w)] = [id |-> w, text |-> w]]
            /\ Move(w, "done")
            /\ UNCHANGED <<vars, wish, named>>

-----------------------------------------------------------------------------
\* The review that w names is there still.
Stands(w) == named[w] # NoReview /\ ReviewId(Item(w)) = named[w]

\* updateReview and deleteReview: findById and ensureReviewOwner.
ReadReview(w) ==
    /\ at[w] = "payment"
    /\ wish[w].op # "create"
    /\ MoveOn(w, IF Stands(w) /\ wish[named[w]].by = wish[w].by
                 THEN "write" ELSE "refused")

EditWrite(w) ==
    /\ Wants(w, "edit", "write")
    /\ IF ~Stands(w)
       THEN MoveOn(w, "refused")
       ELSE /\ review' = [review EXCEPT ![Item(w)].text = w]
            /\ Move(w, "done")
            /\ UNCHANGED <<vars, wish, named>>

DeleteWrite(w) ==
    /\ Wants(w, "delete", "write")
    /\ IF ~Stands(w)
       THEN MoveOn(w, "refused")
       ELSE /\ review' = [review EXCEPT ![Item(w)] = NoReview]
            /\ Move(w, "done")
            /\ UNCHANGED <<vars, wish, named>>

WriterStep(w) ==
    \/ CreateReadOrder(w) \/ CreateReadPayment(w) \/ CreateWrite(w)
    \/ ReadReview(w) \/ EditWrite(w) \/ DeleteWrite(w)

\* The process dies with the calls of both kinds.
JointCrash ==
    /\ \E w \in Writers : at[w] \in Writing
    /\ at' = [w \in Writers |-> IF at[w] \in Writing THEN "lost" ELSE at[w]]
    /\ pc' = [c \in Calls |-> IF pc[c] \in InFlight THEN "lost" ELSE pc[c]]
    /\ UNCHANGED <<rows, request, seen, review, wish, named>>

LifecycleStep == (\E c \in Calls : Submit(c) \/ Step(c)) /\ UNCHANGED reviewVars

Over ==
    /\ \A c \in Calls : pc[c] \in Answered \union {"lost"}
    /\ \A w \in Writers : at[w] \in Closed
    /\ UNCHANGED allVars

ReviewNext ==
    \/ LifecycleStep
    \/ \E w \in Writers : WriterSubmit(w) \/ WriterStep(w)
    \/ JointCrash
    \/ Over

ReviewSpec == ReviewInit /\ [][ReviewNext]_allVars

-----------------------------------------------------------------------------
\* What is reviewed has been paid for, by a payment the shop has taken, though
\* the order is looked at in two queries, long before the review is written,
\* and may have been cancelled since.
ReviewedIsPaid ==
    \A i \in Items : review[i] # NoReview => payment[OrderOf[i]].txn # NoCall

\* The reviews of an item that were given less those taken back are the one
\* that is there: of two that race one is refused, none is taken back twice and
\* none is rewritten by who did not write it.
WrittenOf(op, i) == {w \in Writers : Wants(w, op, "done") /\ Item(w) = i}

ReviewsCounted ==
    \A i \in Items :
        /\ Cardinality(WrittenOf("create", i)) =
               Cardinality(WrittenOf("delete", i))
                   + (IF review[i] = NoReview THEN 0 ELSE 1)
        /\ review[i] # NoReview =>
               wish[review[i].text].by = wish[review[i].id].by

=============================================================================
