------------------------ MODULE MCLiveReconciliation ------------------------
(***************************************************************************)
(* LiveReconciliation for TLC: model values and small sets.                *)
(***************************************************************************)
EXTENDS LiveReconciliation, FiniteSets, TLC

CONSTANTS o1, b1, k1, r1, r2

MCOneOrder == {o1}
MCOneId == {b1}
MCKeys == {k1}
MCKeyOf == [o \in Orders |-> k1]

\* Passes are interchangeable.
MCSymmetry == Permutations(Reconcilers)

\* get_positions has not answered, so that no position is swept, and nothing is
\* squared off.
NoSweep == squared = {} /\ \A r \in Reconcilers : pass[r].holdings = Nothing

\* Bound: passes start once the calls have stopped.
PassesAfterCalls ==
    /\ NoSweep
    /\ \/ \A r \in Reconcilers : pass[r].at = "idle"
       \/ \A o \in Orders : handler[o].at \in StoppedAt

\* Bound: one pass at a time runs beside a call, sweep included; two passes
\* together run after it and without the sweep.
OnePassBesideCall ==
    \/ Cardinality({r \in Reconcilers : pass[r].at # "idle"}) <= 1
    \/ PassesAfterCalls

ConfirmsAll == WorkingStatuses \cup EndedStatuses
=============================================================================
