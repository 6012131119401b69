-------------------------- MODULE MCLiveSubmission --------------------------
(***************************************************************************)
(* Two requests for one logical key, run by two workers.                   *)
(***************************************************************************)
EXTENDS LiveSubmission, TLC

CONSTANTS o1, o2, k1

MCOrders == {o1, o2}
MCKeyOf == [o \in MCOrders |-> k1]

\* An adapter that confirms whatever it could look up, as the test doubles do.
ConfirmsAll == WorkingStatuses \cup EndedStatuses
=============================================================================
