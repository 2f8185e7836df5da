---------------------------- MODULE MCPurchases ----------------------------
(***************************************************************************)
(* A small instance of Purchases: one order of one item, the tab of its    *)
(* buyer, the same buyer's other tab, and somebody else who tries to edit. *)
(***************************************************************************)
EXTENDS Purchases, TLC

CONSTANTS b1, b2, x, i, c1, c2, w1, w2, w3, w4, w5

MCBuyerOf == x :> b1
MCRefund == x :> 3
MCInitPoints == b1 :> 10 @@ b2 :> 0
MCOrderOf == i :> x

\* The tab cancels and follows the shipping; elsewhere the shipping is followed
\* too, and set back.
Ask(op) == [op |-> op, order |-> x, by |-> b1, to |-> "ReadyToShip", valid |-> TRUE]
MCRequests == { Ask("cancelOrder"), Ask("progress"), Ask("setShipping") }

Wish(op, b) == [op |-> op, item |-> i, by |-> b, valid |-> TRUE]
MCReviewRequests ==
    w1 :> { Wish("create", b1) } @@
    w2 :> { Wish("edit", b1), Wish("delete", b1) } @@
    w3 :> { Wish("create", b1) } @@
    w4 :> { Wish("edit", b1), Wish("edit", b2), Wish("delete", b1) } @@
    w5 :> { Wish("delete", b1) }

\* The bounds: three calls of other tabs while this one stays elsewhere; two
\* calls, w4 and w5 not among them, while the buyer looks at one of the two
\* lists, either of them; one call of the tab while both are looked at.
Made == {c \in Calls : pc[c] # "idle"} \union {w \in Writers : at[w] # "idle"}
Unseen(q) == cache[q] = NoData /\ fetch[q] = Idle
AtMost ==
    IF \A q \in Lists : Unseen(q) THEN 3
    ELSE IF \E q \in Lists : Unseen(q) THEN 2 ELSE 1

Others == {c2, w3, w4, w5}
Tab == {c1, w1, w2}
MayBeMade ==
    CASE AtMost = 3 -> Others
      [] AtMost = 2 -> Tab \union {c2, w3}
      [] AtMost = 1 -> Tab

\* What a call that cannot be made any more would have asked for is all one,
\* and only one such state is explored.
Out ==
    IF Cardinality(Made) = AtMost THEN (Calls \union Writers) \ Made
    ELSE IF AtMost < 3 THEN Others \ MayBeMade
    ELSE IF Made \intersect {w4, w5} # {} THEN Tab ELSE {}

First(w) == IF w \in {w1, w3} THEN "create" ELSE IF w = w5 THEN "delete" ELSE "edit"

Bounded ==
    /\ Cardinality(Made) <= AtMost
    /\ Made \subseteq MayBeMade
    /\ request[c1].op # "setShipping" /\ request[c2].op # "cancelOrder"
    /\ \A c \in Calls \intersect Out : request[c].op = "progress"
    /\ \A w \in Writers \intersect Out : wish[w] = Wish(First(w), b1)

=============================================================================
