----------------------------- MODULE PaidOrder -----------------------------
(***************************************************************************)
(* What a shop that is paid through a provider promises, whatever the      *)
(* messages that tell it so: an order is completed only when its money has *)
(* been taken, an order that failed may still be paid and completed, and a *)
(* completed order is never anything else again.                           *)
(***************************************************************************)
CONSTANT Orders

VARIABLES
    status,  \* what the shop says of each order
    paid     \* the orders whose money the provider has taken

Init ==
    /\ status = [o \in Orders |-> "none"]
    /\ paid = {}

Moves(o, from, to) ==
    /\ status[o] \in from
    /\ status' = [status EXCEPT ![o] = to]
    /\ UNCHANGED paid

Open(o) == Moves(o, {"none"}, "PAYMENT_PENDING")

\* Nothing has been paid, or nobody has said so yet.
Fail(o) == Moves(o, {"PAYMENT_PENDING"}, "PAYMENT_FAILED")

Complete(o) == o \in paid /\ Moves(o, {"PAYMENT_PENDING", "PAYMENT_FAILED"}, "COMPLETED")

Pay(o) ==
    /\ status[o] # "none"
    /\ paid' = paid \cup {o}
    /\ UNCHANGED status

Next == \E o \in Orders : Open(o) \/ Fail(o) \/ Complete(o) \/ Pay(o)

Spec == Init /\ [][Next]_<<status, paid>>
=============================================================================
