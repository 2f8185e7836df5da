------------------------------- MODULE Shelf -------------------------------
(***************************************************************************)
(* What the shop promises about the stock of one product, without the calls*)
(* that race for it: saving a form puts its quantities on the sizes it     *)
(* lists, an order takes what it ordered off one size that is on sale, and *)
(* a product that was ordered stays for good. What a save does to sizes    *)
(* that its form does not list is not promised: two saves that race may    *)
(* leave some of them on sale. Nor is a quantity above zero.               *)
(***************************************************************************)
EXTENDS Integers

CONSTANTS
    Sizes,
    Forms,      \* stock forms: from each size to a quantity or NoRow
    Calls,      \* identities of calls of the API, which orders are named by
    NoRow       \* a size that is not on sale

VARIABLES
    there,      \* the product exists
    shelf,      \* [Sizes -> Int \union {NoRow}]
    flag,       \* the product shows as sold out
    ordered     \* orders that have taken of it

vars == <<there, shelf, flag, ordered>>

SoldOut(form) == \E s \in Sizes : form[s] # NoRow /\ form[s] <= 0

Init ==
    /\ there = TRUE
    /\ shelf \in Forms
    /\ flag = SoldOut(shelf)
    /\ ordered = {}

Save(form, kept) ==
    /\ there
    /\ shelf' = [s \in Sizes |-> IF form[s] # NoRow THEN form[s]
                                 ELSE IF s \in kept THEN shelf[s] ELSE NoRow]
    /\ flag' = SoldOut(form)
    /\ UNCHANGED <<there, ordered>>

Take(c, s, quantity) ==
    /\ there
    /\ c \notin ordered
    /\ shelf[s] # NoRow
    /\ shelf' = [shelf EXCEPT ![s] = @ - quantity]
    /\ ordered' = ordered \union {c}
    /\ UNCHANGED <<there, flag>>

Remove ==
    /\ there
    /\ ordered = {}
    /\ there' = FALSE
    /\ shelf' = [s \in Sizes |-> NoRow]
    /\ UNCHANGED <<flag, ordered>>

Next ==
    \/ Remove
    \/ \E form \in Forms :
          \/ \E kept \in SUBSET Sizes : Save(form, kept)
          \/ \E c \in Calls, s \in Sizes : form[s] # NoRow /\ Take(c, s, form[s])

Spec == Init /\ [][Next]_vars

=============================================================================
