------------------------ MODULE MCFoodTruckPayments ------------------------
(***************************************************************************)
(* One order, as orders share no row and no event, with two payments.      *)
(***************************************************************************)
EXTENDS FoodTruckPayments

CONSTANTS o1, a1, a2

MCOrderOf == [a \in {a1, a2} |-> o1]
=============================================================================
