-------------------------- MODULE MCOrderLifecycle --------------------------
(***************************************************************************)
(* Small instances of OrderLifecycle: two orders of one buyer and a second *)
(* buyer who tries to cancel what is not theirs.                           *)
(***************************************************************************)
EXTENDS OrderLifecycle, TLC

CONSTANTS b1, b2, x, y

MCBuyerOf == x :> b1 @@ y :> b1
MCRefund == x :> 3 @@ y :> 5
MCInitPoints == b1 :> 10 @@ b2 :> 0

Ask(op, o, b) ==
    [op |-> op, order |-> o, by |-> b, to |-> "ReadyToShip", valid |-> TRUE]
Ship(o, s) == [Ask("setShipping", o, b2) EXCEPT !.to = s]

PayAndCancel ==
    { Ask("pay", x, b1), Ask("cancelOrder", x, b1) }

MCRequests ==
    PayAndCancel \union
    { [Ask("pay", x, b1) EXCEPT !.valid = FALSE],
      Ask("cancelOrder", x, b2),
      Ask("cancelOrder", y, b1),
      Ask("cancelPayment", x, b1),
      Ask("progress", x, b1),
      Ship(x, "InShipping") }

Symmetric == Permutations(Calls)

=============================================================================
