------------------------------ MODULE MCStores ------------------------------
(***************************************************************************)
(* A small instance of Stores: a seller who opens a store, changes it from *)
(* two tabs and leaves, and another who tries to change it.                *)
(***************************************************************************)
EXTENDS Stores, TLC

CONSTANTS seller, rival, c1, c2, c3

Ask(op, u) ==
    [op |-> op, by |-> u, store |-> seller, name |-> TRUE, info |-> TRUE, valid |-> TRUE]

MCRequests ==
    c1 :> { Ask("open", seller) } @@
    c2 :> { Ask("open", seller), [Ask("change", seller) EXCEPT !.info = FALSE],
            Ask("leave", seller) } @@
    c3 :> { [Ask("change", seller) EXCEPT !.name = FALSE], Ask("change", rival),
            Ask("leave", seller), [Ask("open", seller) EXCEPT !.valid = FALSE] }

=============================================================================
