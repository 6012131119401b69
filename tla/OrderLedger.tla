----------------------------- MODULE OrderLedger -----------------------------
(***************************************************************************)
(* The orders table as a value: the statuses and the transition of         *)
(* application/order_store.py, and the duplicate check of the lifecycle    *)
(* manager.  A ledger is a function from local order ids to rows; "absent" *)
(* is a missing row.                                                       *)
(***************************************************************************)
EXTENDS IntentTable

TerminalStatuses == {"filled", "cancelled", "rejected", "failed"}

ActiveStatuses ==
    {"requested", "risk_approved", "broker_submitted", "reconciliation_required",
     "pending", "open", "partially_filled"}

OrderStatuses == ActiveStatuses \cup TerminalStatuses

PositionCreatingStatuses ==
    {"broker_submitted", "pending", "open", "partially_filled", "filled"}

OrderRow == [status : OrderStatuses \cup {"absent"}, brokerId : BrokerIds \cup {NoId}]

AbsentOrder == [status |-> "absent", brokerId |-> NoId]

IsActive(ledger, o) == ledger[o].status \in ActiveStatuses

IsTerminal(ledger, o) == ledger[o].status \in TerminalStatuses

\* get_active_order_by_key finds a row with o's key.
HasActiveOrder(ledger, o) ==
    \E p \in Orders : SameKey(o, p) /\ IsActive(ledger, p)

AfterCreate(ledger, o) ==
    [ledger EXCEPT ![o] = [status |-> "requested", brokerId |-> NoId]]

\* Mutant of AfterTransition: a missing broker id erases the stored one.
AfterTransitionErasing(ledger, o, status, b) ==
    [ledger EXCEPT ![o] = [status |-> status, brokerId |-> b]]

\* transition_order overwrites the status whatever it was, and the broker id
\* when one is passed.
AfterTransition(ledger, o, status, b) ==
    [ledger EXCEPT ![o] =
        [status |-> status, brokerId |-> IF b = NoId THEN @.brokerId ELSE b]]

\* broker_status_to_order_status.
OrderStatusOf(brokerStatus, confirmed) ==
    CASE brokerStatus \in {"open", "partially_filled", "filled", "cancelled"} -> brokerStatus
      [] brokerStatus \in {"rejected", "not_found"} -> "rejected"
      [] brokerStatus \in {"failed", "expired"} -> "failed"
      [] OTHER -> IF confirmed THEN "broker_submitted" ELSE "pending"

ShouldCreatePosition(status) == status \in PositionCreatingStatuses
=============================================================================
