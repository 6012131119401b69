---------------------------- MODULE IntentTable ----------------------------
(***************************************************************************)
(* The table broker_submission_intents as a value, and what each statement *)
(* of application/broker_submission_intent.py does to it.  A table is a    *)
(* function from local order ids to rows; "absent" is a missing row.  The  *)
(* operators take the table as an argument, so every module that holds one *)
(* (alone, or beside orders and a broker) uses the same translation.       *)
(***************************************************************************)
CONSTANTS
    Orders,     \* local order ids, the primary key of the table
    Keys,       \* logical keys SYMBOL:SIDE:STRATEGY
    KeyOf,      \* the key the order is created with; it never changes
    BrokerIds,  \* ids the broker hands out
    NoId        \* SQL NULL in the broker_order_id column

ASSUME KeyOfAssumption == KeyOf \in [Orders -> Keys]
ASSUME NoIdAssumption == NoId \notin BrokerIds

TerminalIntentStatuses == {"filled", "cancelled", "rejected"}

\* The statuses of the partial unique index on logical_key.
ActiveIntentStatuses ==
    {"claimed", "reconciliation_required", "submitted", "open", "partially_filled"}

\* The statuses record_broker_evidence accepts.
EvidenceStatuses ==
    {"submitted", "open", "partially_filled"} \cup TerminalIntentStatuses

IntentStatuses == {"absent"} \cup ActiveIntentStatuses \cup TerminalIntentStatuses

IntentRow == [status : IntentStatuses, brokerId : BrokerIds \cup {NoId}]

AbsentRow == [status |-> "absent", brokerId |-> NoId]

-----------------------------------------------------------------------------

\* Order o's row is in the partial unique index, so it holds its key.
HoldsKey(table, o) == table[o].status \in ActiveIntentStatuses

SameKey(o, p) == KeyOf[o] = KeyOf[p]

\* Mutant of CanClaim: only the primary key protects the table.
CanClaimRowOnly(table, o) == table[o].status = "absent"

\* The INSERT of claim_submission violates neither the primary key nor the
\* partial unique index on the key.
CanClaim(table, o) ==
    /\ table[o].status = "absent"
    /\ \A p \in Orders : SameKey(o, p) => ~HoldsKey(table, p)

AfterClaim(table, o) ==
    [table EXCEPT ![o] = [status |-> "claimed", brokerId |-> NoId]]

CanMarkStarted(table, o) == table[o].status = "claimed"

\* Mutant of AfterMarkStarted: a status outside the table's vocabulary.
AfterMarkStartedMisspelt(table, o) == [table EXCEPT ![o].status = "started"]

AfterMarkStarted(table, o) ==
    [table EXCEPT ![o].status = "reconciliation_required"]

\* Mutant of EvidenceAfter: a late observation may reopen a terminal row.
EvidenceAfterReopening(status) ==
    IF status \in {"absent", "claimed", "reconciliation_required"} THEN {} ELSE EvidenceStatuses

\* The evidence that may follow recorded evidence about the same broker order.
EvidenceAfter(status) ==
    CASE status = "submitted" -> EvidenceStatuses
      [] status = "open" -> EvidenceStatuses \ {"submitted"}
      [] status = "partially_filled" -> {"partially_filled", "filled", "cancelled"}
      [] status \in TerminalIntentStatuses -> {status}
      [] OTHER -> {}

\* Mutant of AcceptsEvidence: no unique index on the broker id.
AcceptsSharedId(table, o, b, status) ==
    /\ b \in BrokerIds
    /\ status \in EvidenceStatuses
    /\ table[o].brokerId \in {NoId, b}
    /\ \/ table[o].status = "reconciliation_required"
       \/ table[o].brokerId = b /\ status \in EvidenceAfter(table[o].status)

\* Mutant of AcceptsEvidence: a row that was never started may be resolved.
AcceptsBeforeStart(table, o, b, status) ==
    /\ \/ AcceptsSharedId(table, o, b, status)
       \/ table[o].status = "claimed" /\ b \in BrokerIds /\ status \in EvidenceStatuses
    /\ \A p \in Orders \ {o} : table[p].brokerId # b

\* The UPDATE of record_broker_evidence matches o's row, and the unique index
\* on broker_order_id lets it commit.
AcceptsEvidence(table, o, b, status) ==
    /\ b \in BrokerIds
    /\ status \in EvidenceStatuses
    /\ table[o].brokerId \in {NoId, b}
    /\ \/ table[o].status = "reconciliation_required"
       \/ table[o].brokerId = b /\ status \in EvidenceAfter(table[o].status)
    /\ \A p \in Orders \ {o} : table[p].brokerId # b

AfterEvidence(table, o, b, status) ==
    [table EXCEPT ![o] = [status |-> status, brokerId |-> b]]
=============================================================================
