------------------------------ MODULE MCMarket ------------------------------
(***************************************************************************)
(* A small instance of Market: forms that share one of the sizes and forms *)
(* that share none, one that sells out, a buyer, and a rival of the owner. *)
(***************************************************************************)
EXTENDS Market, TLC

CONSTANTS owner, rival, buyer, S, M, c1, c2, c3

Form(s, m) == S :> s @@ M :> m

MCForms == { Form(2, 1), Form(0, 3), Form(4, NoRow), Form(NoRow, 2), Form(1, NoRow) }
MCFirstForm == Form(2, 1)

Ask(op, u, form) == [op |-> op, by |-> u, form |-> form, valid |-> TRUE]

MCRequests ==
    c1 :> { Ask("edit", owner, Form(0, 3)),
            Ask("edit", owner, Form(4, NoRow)) } @@
    c2 :> { Ask("edit", owner, Form(NoRow, 2)),
            Ask("take", buyer, Form(1, NoRow)),
            Ask("ask", buyer, Form(2, 1)) } @@
    c3 :> { Ask("take", buyer, Form(1, NoRow)),
            Ask("remove", owner, Form(2, 1)),
            Ask("edit", owner, Form(0, 3)),
            Ask("edit", rival, Form(0, 3)),
            [Ask("edit", owner, Form(2, 1)) EXCEPT !.valid = FALSE] }

=============================================================================
