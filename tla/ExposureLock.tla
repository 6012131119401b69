---------------------------- MODULE ExposureLock ----------------------------
(***************************************************************************)
(* What the submission path promises, whatever it is made of: a logical    *)
(* key is a lock that an order takes before it may touch the market and    *)
(* that it gives back only when its market exposure has ended, and every   *)
(* order is put on the market at most once.                                *)
(***************************************************************************)
CONSTANTS Orders, KeyOf

VARIABLE stage

Stages == {"outside", "holding", "exposed", "over", "released"}

Holds(o) == stage[o] \in {"holding", "exposed", "over"}

Init == stage = [o \in Orders |-> "outside"]

Moves(o, from, to) ==
    /\ stage[o] = from
    /\ stage' = [stage EXCEPT ![o] = to]

Take(o) ==
    /\ \A p \in Orders : KeyOf[p] = KeyOf[o] => ~Holds(p)
    /\ Moves(o, "outside", "holding")

Expose(o) == Moves(o, "holding", "exposed")

\* The request was lost, or the broker order ended.
End(o) == Moves(o, "exposed", "over")

Release(o) == Moves(o, "over", "released")

Next == \E o \in Orders : Take(o) \/ Expose(o) \/ End(o) \/ Release(o)

Spec == Init /\ [][Next]_stage
=============================================================================
