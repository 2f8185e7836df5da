---------------------------- MODULE MCInquiries ----------------------------
(***************************************************************************)
(* A small instance of Inquiries: who asked, the shop, and a seller of     *)
(* another shop who tries the same.                                        *)
(***************************************************************************)
EXTENDS Inquiries

CONSTANTS asker, shop, rival

Ask(op, u) == [op |-> op, by |-> u, valid |-> TRUE]

MCRequests ==
    { Ask("edit", asker),
      Ask("delete", asker),
      Ask("delete", shop),
      Ask("delete", rival),
      Ask("reply", shop),
      Ask("reword", shop),
      [Ask("reword", rival) EXCEPT !.valid = FALSE] }

=============================================================================
