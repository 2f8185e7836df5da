----------------------------- MODULE MCOrdering -----------------------------
(***************************************************************************)
(* Small instances of Ordering: two buyers, one product in two sizes. The  *)
(* requests have a bad quantity, more points than the price, a size listed *)
(* twice, two orders of the sizes that lock them in opposite order, and    *)
(* points used or not.                                                     *)
(***************************************************************************)
EXTENDS Ordering, TLC

CONSTANTS b1, b2, p1, k1, k2, green, gold

MCProductOf == k1 :> p1 @@ k2 :> p1
MCPrice == p1 :> 100
MCRate == green :> 1 @@ gold :> 5
MCMinAmount == green :> 0 @@ gold :> 200
MCCartOwners == k1 :> {b2} @@ k2 :> {}
MCInitStock == k1 :> 1 @@ k2 :> 2
MCInitPoints == b1 :> 10 @@ b2 :> 0
MCInitSpend == b1 :> 0 @@ b2 :> 0
MCInitGrade == b1 :> green @@ b2 :> NoGrade

Of(k, n) == [key |-> k, quantity |-> n]
Request(b, items, p) ==
    [buyer |-> b, items |-> items, usePoint |-> p, complete |-> TRUE]

Refused ==
    { Request(b1, <<Of(k1, 1), Of(k2, -1)>>, 0),
      Request(b1, <<Of(k1, 1)>>, 101) }

MCRequests ==
    { Request(b1, <<Of(k1, 1)>>, 0),
      Request(b1, <<Of(k2, 2)>>, 10),
      Request(b1, <<Of(k1, 1), Of(k2, 1)>>, 10),
      Request(b2, <<Of(k2, 1), Of(k1, 1)>>, 0),
      Request(b2, <<Of(k1, 1), Of(k1, 1)>>, 5) }

AllRequests == MCRequests \union Refused

=============================================================================
