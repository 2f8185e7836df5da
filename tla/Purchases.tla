----------------------------- MODULE Purchases -----------------------------
(***************************************************************************)
(* What a buyer does with past orders in one tab of the browser: the two   *)
(* lists of purchases, the details of an order, and the modals that follow *)
(* the shipping, write, show, rewrite and delete a review, and cancel the  *)
(* order. Every click is a call of Reviews or OrderLifecycle, which run    *)
(* beside it with the calls of everybody else. The pages show what the     *)
(* query client has cached; a fetch is asked for, read on the server and   *)
(* arrives, in three steps, and the relations of an order are read at once.*)
(***************************************************************************)
EXTENDS Reviews

CONSTANTS
    Buyer,      \* whose tab it is
    TabCalls,   \* the calls on orders that the tab makes
    TabWriters, \* its calls on reviews
    NoData      \* nothing has come yet

ASSUME PurchaseAssumption ==
    /\ Buyer \in Buyers
    /\ TabCalls \subseteq Calls
    /\ TabWriters \subseteq Writers
    /\ TabCalls \intersect Writers = {}

Lists == {"mypage", "review"}       \* buyer/mypage and buyer/review
Queries == Lists \union Orders      \* and the details of each order
Sources == Queries \union {"modal"} \* what is fetched, for the shipping modal too
Elsewhere == "elsewhere"

VARIABLES
    page,    \* the page that is open
    cache,   \* [Queries -> what the query client holds, or NoData]
    fetch,   \* [Sources -> how far the fetch is and what it brings]
    modal,   \* the modal that is open
    sent,    \* calls of the tab that have not been answered
    here,    \* those of them whose components are mounted still
    timers,  \* timeouts set by answers
    arrived, \* history: the orders that have been delivered at some time
    early    \* history: queries invalidated while their first load was on its way

clientVars == <<page, cache, fetch, modal, sent, here, timers, early>>

Idle == [at |-> "idle", got |-> NoData]
Asked == [at |-> "asked", got |-> NoData]
NoModal == [part |-> "none"]

-----------------------------------------------------------------------------
\* A paid order that is not cancelled; the server compares the payment, the
\* pages the status.
Listed == {o \in Orders : /\ BuyerOf[o] = Buyer
                          /\ payment[o].status = "CompletedPayment"
                          /\ status[o] # "Canceled"}

\* What the pages use of a response: of an order in a list its shipping and
\* reviews, of its details and in the modal the shipping.
Response(o) ==
    [ shipping |-> shipping[o],
      review |-> [i \in {j \in Items : OrderOf[j] = o} |-> ReviewId(i)] ]

Snapshot(s) ==
    IF s \in Lists THEN [o \in Listed |-> Response(o)]
    ELSE [o \in {IF s = "modal" THEN modal.order ELSE s} |->
             [shipping |-> shipping[o]]]

Shown(o) == page \in Lists /\ cache[page] # NoData /\ o \in DOMAIN cache[page]
ShownReview(i) == cache[page][OrderOf[i]].review[i]

\* The open modal waits for c no longer.
Released(c) ==
    IF modal.part \in {"ship", "view", "edit"} /\ modal.waits = c
    THEN [modal EXCEPT !.waits = NoCall] ELSE modal

Pending(op) == \E w \in here \intersect TabWriters : wish[w].op = op

-----------------------------------------------------------------------------
\* The query client. A fetch that is under way is given up for a new one,
\* unless the query has no data yet: then the new one joins it.
FirstLoad == {q \in Queries : cache[q] = NoData /\ fetch[q] # Idle}

\* stale are the queries an answer invalidates, qs those it fetches again.
Reload(qs, stale) ==
    /\ fetch' = [s \in Sources |-> IF s \in qs \ FirstLoad THEN Asked ELSE fetch[s]]
    /\ early' = (early \ qs) \union (stale \intersect FirstLoad)

\* invalidateQueries fetches what is on the page, refetchQueries whatever has
\* been fetched before.
InvalidateLists == Reload({page} \intersect Lists, Lists)
RefetchLists == Reload({q \in Lists : q = page \/ cache[q] # NoData}, Lists)

\* Timeouts outlive the page; those that close a modal find none then.
Outliving == {t \in timers : t.does = "refetch"}

\* A page is mounted: its query is fetched again, or a fetch of it is joined.
Mounted(p, fetches, flagged) ==
    /\ page' = p
    /\ modal' = NoModal
    /\ here' = {}
    /\ fetch' = [s \in Sources |->
                    IF s = "modal" THEN Idle
                    ELSE IF s = p /\ fetches[s] = Idle THEN Asked ELSE fetches[s]]
    /\ early' = IF p \in Queries /\ fetches[p] = Idle THEN flagged \ {p} ELSE flagged

-----------------------------------------------------------------------------
\* Paid orders as the seed leaves them, in any place of the shipping, none of
\* them reviewed, and a tab that has just been opened.
PurchaseInit ==
    /\ status = [o \in Orders |-> "CompletedPayment"]
    /\ payment = [o \in Orders |-> [status |-> "CompletedPayment", txn |-> NoCall]]
    /\ shipping \in [Orders -> ShippingStatus]
    /\ InitCalls
    /\ NothingReviewed
    /\ page = Elsewhere
    /\ cache = [q \in Queries |-> NoData]
    /\ fetch = [s \in Sources |-> Idle]
    /\ modal = NoModal
    /\ sent = {} /\ here = {} /\ timers = {} /\ early = {}
    /\ arrived = {o \in Orders : shipping[o] = "Delivered"}

\* The menu, the address bar, the button of an order in a list.
Go(p) ==
    /\ p # page
    /\ p \in Orders => (Shown(p) /\ modal = NoModal)
    /\ Mounted(p, fetch, early)
    /\ timers' = Outliving
    /\ UNCHANGED <<allVars, cache, sent>>

\* The window gets the focus: what is on the page is fetched again.
Focus ==
    /\ page \in Queries /\ fetch[page] = Idle
    /\ fetch' = [fetch EXCEPT ![page] = Asked]
    /\ early' = early \ {page}
    /\ UNCHANGED <<allVars, page, cache, modal, sent, here, timers>>

Read(s) ==
    /\ fetch[s] = Asked
    /\ fetch' = [fetch EXCEPT ![s] = [at |-> "read", got |-> Snapshot(s)]]
    /\ UNCHANGED <<allVars, page, cache, modal, sent, here, timers, early>>

\* MypageItemCard has the items it shows for its key and is mounted anew when
\* they change; the list of the other page goes only when it is empty.
Remounts(q, new) ==
    /\ q = page
    /\ IF q = "mypage"
       THEN cache[q] = NoData \/ DOMAIN cache[q] # DOMAIN new
       ELSE q = "review" /\ DOMAIN new = {}

Arrive(q) ==
    LET new == fetch[q].got
        remounts == Remounts(q, new)
    IN
    /\ fetch[q].at = "read"
    /\ cache' = [cache EXCEPT ![q] = new]
    /\ fetch' = [s \in Sources |->
                    IF s = q \/ (remounts /\ s = "modal") THEN Idle ELSE fetch[s]]
    /\ modal' = IF remounts THEN NoModal ELSE modal
    /\ here' = IF remounts THEN {} ELSE here
    /\ timers' = IF remounts THEN Outliving ELSE timers
    /\ UNCHANGED <<allVars, page, sent, early>>

-----------------------------------------------------------------------------
Open(new) == modal = NoModal /\ modal' = new
OpenOnly(new) ==
    Open(new) /\ UNCHANGED <<allVars, page, cache, fetch, sent, here, timers, early>>

\* A call goes out, asked for by a component of the page.
SendOrderCall(c) ==
    /\ c \in TabCalls
    /\ Submit(c)
    /\ sent' = sent \union {c}
    /\ UNCHANGED <<reviewVars, page, cache, fetch, timers, early>>

SendReviewCall(w, op, id) ==
    /\ w \in TabWriters
    /\ wish[w].op = op /\ wish[w].by = Buyer /\ Item(w) = modal.item
    /\ ~Pending(op)
    /\ SubmitNaming(w, id)
    /\ sent' = sent \union {w}
    /\ here' = here \union {w}
    /\ UNCHANGED <<page, cache, fetch, timers, early>>

\* The shipping modal: fetches when it is mounted, hides its button while it
\* waits and forgets the call when it is closed.
handleShippingClick(o) ==
    /\ Shown(o)
    /\ Open([part |-> "ship", order |-> o, shows |-> "none", waits |-> NoCall])
    /\ fetch' = [fetch EXCEPT !["modal"] = Asked]
    /\ UNCHANGED <<allVars, page, cache, sent, here, timers, early>>

ShippingArrives ==
    /\ fetch["modal"].at = "read"
    /\ modal' = [modal EXCEPT !.shows = fetch["modal"].got[modal.order].shipping]
    /\ fetch' = [fetch EXCEPT !["modal"] = Idle]
    /\ UNCHANGED <<allVars, page, cache, sent, here, timers, early>>

handleManualProgress(c) ==
    /\ modal.part = "ship" /\ modal.waits = NoCall
    /\ modal.shows \notin {"none", "Delivered"}
    /\ request[c].op = "progress" /\ Order(c) = modal.order
    /\ SendOrderCall(c)
    /\ modal' = [modal EXCEPT !.waits = c]
    /\ UNCHANGED here

\* The answer carries the row as it was written; closed modals ignore it.
ProgressAnswered(c) ==
    /\ c \in sent \intersect TabCalls
    /\ request[c].op = "progress" /\ pc[c] \in Answered \union {"lost"}
    /\ sent' = sent \ {c}
    /\ modal' = IF modal.part = "ship" /\ modal.waits = c /\ pc[c] = "done"
                THEN [Released(c) EXCEPT !.shows = NextShipping(seen[c])]
                ELSE Released(c)
    /\ UNCHANGED <<allVars, page, cache, fetch, here, timers, early>>

handleCloseShippingModal ==
    /\ modal.part = "ship"
    /\ modal' = NoModal
    /\ fetch' = [s \in Sources |-> IF s = "modal" THEN Idle
                                   ELSE IF s = page THEN Asked ELSE fetch[s]]
    /\ early' = early \ {page}
    /\ UNCHANGED <<allVars, page, cache, sent, here, timers>>

-----------------------------------------------------------------------------
\* Mutant: the button and the check look for the wrong status.
handleReviewWriteClickShipped(i) ==
    /\ Shown(OrderOf[i])
    /\ ShownReview(i) = NoReview
    /\ cache[page][OrderOf[i]].shipping # "ReadyToShip"
    /\ OpenOnly([part |-> "write", item |-> i])

\* Only the page looks at the shipping; the server does not.
handleReviewWriteClick(i) ==
    /\ Shown(OrderOf[i])
    /\ ShownReview(i) = NoReview
    /\ cache[page][OrderOf[i]].shipping = "Delivered"
    /\ OpenOnly([part |-> "write", item |-> i])

\* ReviewViewModal keeps the review of the item as it was when it was clicked.
openReview(i) ==
    /\ Shown(OrderOf[i])
    /\ ShownReview(i) # NoReview
    /\ OpenOnly([part |-> "view", item |-> i, review |-> ShownReview(i),
                 waits |-> NoCall])

openEdit ==
    /\ modal.part = "view" /\ ~Pending("delete")
    /\ modal' = [modal EXCEPT !.part = "edit"]
    /\ UNCHANGED <<allVars, page, cache, fetch, sent, here, timers, early>>

\* The schema of the form asks for what the server asks for, and more.
SubmitReview(w) ==
    /\ modal.part = "write"
    /\ wish[w].valid
    /\ SendReviewCall(w, "create", NoReview)
    /\ UNCHANGED modal

\* The form of an edit has no schema. Its button waits as long as the modal that
\* shows the review stays open.
SubmitEdit(w) ==
    /\ modal.part = "edit" /\ modal.waits = NoCall
    /\ w \in TabWriters
    /\ wish[w].op = "edit" /\ wish[w].by = Buyer /\ Item(w) = modal.item
    /\ SubmitNaming(w, modal.review)
    /\ sent' = sent \union {w}
    /\ here' = here \union {w}
    /\ modal' = [modal EXCEPT !.waits = w]
    /\ UNCHANGED <<page, cache, fetch, timers, early>>

handleDelete(w) ==
    /\ modal.part = "view"
    /\ SendReviewCall(w, "delete", modal.review)
    /\ UNCHANGED modal

\* The cross and the backdrop: what is under way goes on. Only the cancel modal stays while it waits.
onClose ==
    /\ \/ modal.part \in {"write", "view"} /\ modal' = NoModal
       \/ modal.part = "edit" /\ modal' = [modal EXCEPT !.part = "view"]
       \/ modal.part = "cancel" /\ here = {} /\ modal' = NoModal
    /\ UNCHANGED <<allVars, page, cache, fetch, sent, here, timers, early>>

-----------------------------------------------------------------------------
ReviewAnswer(w, op, place) ==
    /\ w \in sent \intersect TabWriters
    /\ wish[w].op = op /\ at[w] \in place
    /\ sent' = sent \ {w}
    /\ here' = here \ {w}
    /\ UNCHANGED <<allVars, page, cache>>

After(w, does) == [does |-> does, of |-> w]

\* Mutant: the lists are not fetched again.
SavedAtOnce(w, op) ==
    /\ ReviewAnswer(w, op, {"done"})
    /\ timers' = timers \union (IF w \in here THEN {After(w, "close")} ELSE {})
    /\ modal' = Released(w)
    /\ UNCHANGED <<fetch, early>>

\* onSuccess of the write modal and of the edit modal.
Saved(w, op) ==
    /\ ReviewAnswer(w, op, {"done"})
    /\ timers' = timers \union {After(w, "refetch")}
                        \union (IF w \in here THEN {After(w, "close")} ELSE {})
    /\ modal' = Released(w)
    /\ InvalidateLists

\* onSuccess of the deletion.
Deleted(w) ==
    /\ ReviewAnswer(w, "delete", {"done"})
    /\ timers' = timers \union {After(w, "refetch")}
    /\ modal' = IF w \in here /\ modal.part = "view" THEN NoModal ELSE modal
    /\ UNCHANGED <<fetch, early>>

\* onError of all three: a message.
NotSaved(w) ==
    /\ ReviewAnswer(w, wish[w].op, {"refused", "lost"})
    /\ modal' = Released(w)
    /\ UNCHANGED <<fetch, timers, early>>

\* The timeout after 100 ms closes the modal of its kind, whatever it shows
\* by now. handleReviewEditComplete fetches again too, on mypage its own list.
CloseLater(w) ==
    /\ After(w, "close") \in timers
    /\ timers' = timers \ {After(w, "close")}
    /\ IF wish[w].op = "create"
       THEN /\ modal' = IF modal.part = "write" THEN NoModal ELSE modal
            /\ UNCHANGED <<fetch, early>>
       ELSE /\ modal' = IF modal.part \in {"view", "edit"} THEN NoModal ELSE modal
            /\ IF page = "mypage" THEN InvalidateLists ELSE RefetchLists
    /\ UNCHANGED <<allVars, page, cache, sent, here>>

\* The timeouts after 100 ms of a deletion, 300 and 500 ms of the others.
RefetchLater(t) ==
    /\ t \in timers /\ t.does = "refetch"
    /\ After(t.of, "close") \notin timers
    /\ timers' = timers \ {t}
    /\ RefetchLists
    /\ UNCHANGED <<allVars, page, cache, modal, sent, here>>

-----------------------------------------------------------------------------
\* canCancelOrder of what the page shows; it is not looked at again.
openCancel(o) ==
    /\ page = o /\ cache[o] # NoData
    /\ cache[o][o].shipping = "ReadyToShip"
    /\ OpenOnly([part |-> "cancel", order |-> o])

handleCancel(c) ==
    /\ modal.part = "cancel" /\ here = {}
    /\ request[c].op = "cancelOrder" /\ Order(c) = modal.order
    /\ request[c].by = Buyer
    /\ SendOrderCall(c)
    /\ here' = {c}
    /\ UNCHANGED modal

\* handleCancel goes on: it invalidates, sets a timeout, closes the modal, and
\* onSuccess fetches the details again and goes back, wherever the tab is now.
CancelDone(c, back) ==
    LET again == ({page} \intersect Queries) \union {Order(c)}
        fetches == [s \in Sources |->
                       IF s \in again \ FirstLoad THEN Asked ELSE fetch[s]]
    IN
    /\ c \in sent \intersect TabCalls
    /\ Running(c, "cancelOrder", "done")
    /\ back # page \/ page = Elsewhere
    /\ back \in Orders => cache[back] # NoData
    /\ sent' = sent \ {c}
    /\ timers' = Outliving \union {After(c, "refetch")}
    /\ Mounted(back, fetches, (early \ again) \union FirstLoad)
    /\ UNCHANGED <<allVars, cache>>

CancelFailed(c) ==
    /\ c \in sent \intersect TabCalls
    /\ request[c].op = "cancelOrder" /\ pc[c] \in {"refused", "lost"}
    /\ sent' = sent \ {c}
    /\ here' = here \ {c}
    /\ UNCHANGED <<allVars, page, cache, fetch, modal, timers, early>>

-----------------------------------------------------------------------------
ClientStep ==
    \/ \E p \in Queries \union {Elsewhere} : Go(p)
    \/ \E s \in Sources : Read(s)
    \/ \E q \in Queries : Arrive(q)
    \/ \E o \in Orders : handleShippingClick(o) \/ openCancel(o)
    \/ Focus \/ ShippingArrives \/ handleCloseShippingModal \/ openEdit \/ onClose
    \/ \E i \in Items : handleReviewWriteClick(i) \/ openReview(i)
    \/ \E c \in TabCalls :
          \/ handleManualProgress(c) \/ ProgressAnswered(c)
          \/ handleCancel(c) \/ CancelFailed(c)
          \/ \E back \in Queries \union {Elsewhere} : CancelDone(c, back)
    \/ \E w \in TabWriters :
          \/ SubmitReview(w) \/ SubmitEdit(w) \/ handleDelete(w)
          \/ Saved(w, "create") \/ Saved(w, "edit") \/ Deleted(w) \/ NotSaved(w)
          \/ CloseLater(w)
    \/ \E t \in timers : RefetchLater(t)

\* The server runs every call; the calls of others come in as they like.
ServerStep ==
    /\ \/ \E c \in Calls : Step(c) /\ UNCHANGED reviewVars
       \/ \E c \in Calls \ TabCalls : Submit(c) /\ UNCHANGED reviewVars
       \/ \E w \in Writers : WriterStep(w)
       \/ \E w \in Writers \ TabWriters : WriterSubmit(w)
       \/ JointCrash
    /\ UNCHANGED clientVars

PurchaseNext ==
    /\ ClientStep \/ ServerStep
    /\ arrived' = arrived \union {o \in Orders : shipping'[o] = "Delivered"}

purchaseVars == <<allVars, clientVars, arrived>>
PurchaseSpec == PurchaseInit /\ [][PurchaseNext]_purchaseVars

-----------------------------------------------------------------------------
\* Whoever writes a review from these pages has had the item delivered, though
\* the server asks only for the payment, the pages decide by what they have
\* cached, and the shipping may have been set back since.
ReviewedWasDelivered ==
    \A w \in TabWriters :
        wish[w].op = "create" /\ at[w] # "idle" => OrderOf[Item(w)] \in arrived

\* A list that has come to rest, after whatever calls the tab has made and the
\* pages it went through meanwhile, shows the orders that stand and the reviews
\* they have, as long as nobody else changes them. A list that was loading for
\* the first time when a change was answered is excepted: the fetch under way
\* is kept, and may have read before the change.
AtRest(q) ==
    /\ page = q /\ cache[q] # NoData /\ fetch[q] = Idle
    /\ sent = {} /\ timers = {} /\ q \notin early

OthersQuiet ==
    /\ \A c \in Calls \ TabCalls : pc[c] = "idle"
    /\ \A w \in Writers \ TabWriters : at[w] = "idle"

ShownAtRest ==
    \A q \in Lists :
        AtRest(q) /\ OthersQuiet =>
            /\ DOMAIN cache[q] = Listed
            /\ \A o \in Listed : cache[q][o].review = Response(o).review

=============================================================================
