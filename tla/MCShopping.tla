----------------------------- MODULE MCShopping -----------------------------
(***************************************************************************)
(* A small instance of Shopping: two sizes, of which one piece is picked at*)
(* a time and one goes into a line, so that a second is refused, and three *)
(* calls: edits of the cart, which go on while an order is made and paid.  *)
(***************************************************************************)
EXTENDS Shopping

MCSizes == 1..2
MCCalls == 1..3
MCKinds == << {"add", "buy", "set", "drop"}, {"add", "buy", "order"}, {"pay", "order"} >>

=============================================================================
