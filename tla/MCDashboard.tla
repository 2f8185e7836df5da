---------------------------- MODULE MCDashboard ----------------------------
(***************************************************************************)
(* A small instance of Dashboard: two weeks with months of five to seven   *)
(* days and a year that ends, and prices at and next to a limit of ranges. *)
(***************************************************************************)
EXTENDS Dashboard

CONSTANTS i, j

MCFirstDay == 3
MCMonthStarts == {-20, -11, -3, 2, 8, 15, 21}
MCYearStarts == {-20, -3, 8, 21}

MCPrice == [n \in Items |-> IF n = i THEN 10000 ELSE 99999]
MCQuantity == [n \in Items |-> IF n = i THEN 2 ELSE 1]

=============================================================================
