------------------------- MODULE LiveReconciliation -------------------------
(***************************************************************************)
(* reconcile_broker_state for LIVE orders (broker_reconciliation.py), run  *)
(* beside the submitting workers of LiveSubmission and the broker.         *)
(*                                                                         *)
(* A pass recovers stale orders, snapshots the order rows that carry a     *)
(* broker id and the broker's positions, works through the snapshot one    *)
(* order at a time, and then sweeps the open positions.  Every transaction *)
(* and every broker lookup is one step; the workers and the broker move in *)
(* between, so each decision is taken on what an earlier step has read.    *)
(* An operator's request and a queued job may run passes at the same time. *)
(***************************************************************************)
EXTENDS LiveSubmission

CONSTANTS
    Nothing,    \* an unset local variable of a pass
    SlowCalls   \* whether a call may stay before its submission for 30 minutes

ASSUME SlowCallsAssumption == SlowCalls \in BOOLEAN

VARIABLES
    pass,       \* the control state and the local variables of each pass
    squared     \* broker orders whose fill has been squared off at the broker

reconVars == <<vars, pass, squared>>
submission == <<handler, request, book, squared>>

-----------------------------------------------------------------------------

\* SUBMITTED_STATUSES, as far as order rows carry them.
SubmittedStatuses == {"broker_submitted", "pending", "open", "filled"}

PreBrokerStaleStatuses == {"requested", "risk_approved"}

\* The statuses that need the adapter's confirmation.
ConfirmationNeeded == {"rejected", "cancelled", "failed", "expired", "filled"}

PassAt ==
    {"idle", "recovering", "snapshot", "listing", "orders", "answered", "judged", "found",
     "reviewing", "ending", "ended", "partial", "sharing", "sizing", "filling", "filled",
     "opening", "sweeping", "closing"}

LocalOrder == [order : Orders, id : BrokerIds, status : OrderStatuses]

\* What a lookup returns, with the filled quantity.
Answer ==
    [id : BrokerIds,
     status : WorkingStatuses \cup EndedStatuses \cup AmbiguousStatuses,
     confirmed : BOOLEAN, filled : 0 .. Lot]

Pass ==
    [at : PassAt, stale : SUBSET Orders, todo : SUBSET LocalOrder,
     cur : LocalOrder \cup {Nothing}, answer : Answer \cup {Nothing},
     found : Position \cup {Nothing},
     holdings : (SUBSET Keys) \cup {Nothing},
     sweep : SUBSET Position]

NewPass ==
    [at |-> "idle", stale |-> {}, todo |-> {}, cur |-> Nothing, answer |-> Nothing,
     found |-> Nothing, holdings |-> Nothing, sweep |-> {}]

ReconInit ==
    /\ Init
    /\ pass = [r \in Reconcilers |-> NewPass]
    /\ squared = {}

\* Pass r gets these local variables.
Becomes(r, locals) == pass' = [pass EXCEPT ![r] = locals]

\* The loop over the snapshot goes on to its next order.
NextOrder(r) ==
    Becomes(r, [pass[r] EXCEPT !.at = "orders", !.cur = Nothing, !.answer = Nothing,
                               !.found = Nothing])

-----------------------------------------------------------------------------
(* _recover_stale_local_orders.                                            *)

\* Mutant of MayBeStale: a submission without an id counts as never sent.
MayBeStaleOrUnacknowledged(o) ==
    /\ orders[o].status \in PreBrokerStaleStatuses \cup {"broker_submitted"}
    /\ orders[o].brokerId = NoId
    /\ SlowCalls \/ handler[o].at \in StoppedAt

\* Old enough, before any broker id: the intent table is not consulted.
MayBeStale(o) ==
    /\ orders[o].status \in PreBrokerStaleStatuses
    /\ orders[o].brokerId = NoId
    /\ SlowCalls \/ handler[o].at \in StoppedAt

StartPass(r) ==
    /\ pass[r].at = "idle"
    /\ \E S \in SUBSET {o \in Orders : MayBeStale(o)} :
          Becomes(r, [pass[r] EXCEPT !.at = "recovering", !.stale = S])
    /\ UNCHANGED <<durable, submission>>

RecoverStale(r, o) ==
    /\ pass[r].at = "recovering"
    /\ o \in pass[r].stale
    /\ Becomes(r, [pass[r] EXCEPT !.stale = @ \ {o}])
    /\ orders' = AfterTransition(orders, o, "failed", NoId)
    /\ UNCHANGED <<intents, positions, submission>>

-----------------------------------------------------------------------------
(* The snapshots.                                                          *)

RowsWithId ==
    {[order |-> o, id |-> orders[o].brokerId, status |-> orders[o].status] :
     o \in {p \in Orders : orders[p].brokerId # NoId}}

TakeSnapshot(r) ==
    /\ pass[r].at = "recovering"
    /\ pass[r].stale = {}
    /\ Becomes(r, [pass[r] EXCEPT !.at = "listing", !.todo = RowsWithId])
    /\ UNCHANGED <<durable, submission>>

\* The keys the broker holds a position in.
HeldKeys ==
    {KeyOf[book[b].owner] : b \in {c \in BrokerIds : book[c].filled > 0 /\ c \notin squared}}

\* get_positions answers, or raises and leaves the sweep without its index.
FetchHoldings(r) ==
    /\ pass[r].at = "listing"
    /\ \E h \in {HeldKeys, Nothing} : Becomes(r, [pass[r] EXCEPT !.at = "orders", !.holdings = h])
    /\ UNCHANGED <<durable, submission>>

-----------------------------------------------------------------------------
(* One order of the snapshot.                                              *)

AnswersAbout(b) ==
    {[id |-> r.id, status |-> r.status, confirmed |-> r.confirmed,
      filled |-> IF r.status \in AmbiguousStatuses THEN 0 ELSE book[r.id].filled] :
     r \in RepliesAbout(b)}

AskBroker(r, l) ==
    /\ pass[r].at = "orders"
    /\ l \in pass[r].todo
    /\ \/ Becomes(r, [pass[r] EXCEPT !.todo = @ \ {l}])     \* the lookup raises
       \/ \E a \in AnswersAbout(l.id) :
             Becomes(r, [pass[r] EXCEPT !.at = "answered", !.todo = @ \ {l}, !.cur = l, !.answer = a])
    /\ UNCHANGED <<durable, submission>>

\* The intent knows a later state than the answer shows.
Regression(status, observed) ==
    /\ status \in {"submitted", "open", "partially_filled"} \cup TerminalIntentStatuses
    /\ observed \in EvidenceStatuses \ EvidenceAfter(status)

\* The answer is about the order asked for, agrees with the intent, and is
\* confirmed if it is terminal.
Acceptable(l, a) ==
    /\ a.id = l.id
    /\ intents[l.order].brokerId \in {NoId, l.id}
    /\ ~Regression(intents[l.order].status, a.status)
    /\ a.status \in ConfirmationNeeded => a.confirmed

JudgeAnswer(r) ==
    /\ pass[r].at = "answered"
    /\ IF Acceptable(pass[r].cur, pass[r].answer)
         THEN Becomes(r, [pass[r] EXCEPT !.at = "judged"])
         ELSE NextOrder(r)
    /\ UNCHANGED <<durable, submission>>

FindPosition(r) ==
    /\ pass[r].at = "judged"
    /\ LET rows == {x \in positions : x.brokerId = pass[r].cur.id}
       IN \E x \in IF rows = {} THEN {Nothing} ELSE rows :
             Becomes(r, [pass[r] EXCEPT !.at = "found", !.found = x])
    /\ UNCHANGED <<durable, submission>>

FoundOpen(r) == pass[r].found # Nothing /\ pass[r].found.open

\* Exposure calls for a protective stop at the broker.
NeedsProtection(r) == pass[r].answer.filled > 0 \/ (FoundOpen(r) /\ pass[r].found.quantity > 0)

\* The branch the answer leads to, once protection is not in doubt.
Branch(l, a) ==
    CASE a.status = "not_found" -> "reviewing"
      [] a.status \in {"rejected", "cancelled"} /\ l.status \in SubmittedStatuses -> "ending"
      [] a.status \in {"failed", "expired"} /\ l.status \in SubmittedStatuses -> "ended"
      [] a.status = "partially_filled" -> "partial"
      [] a.status = "filled" -> "filling"
      [] OTHER -> "orders"

\* get_super_order_status proves the stop, or fails to.
CheckProtection(r) ==
    /\ pass[r].at = "found"
    /\ LET next == Branch(pass[r].cur, pass[r].answer)
       IN \/ IF next = "orders" THEN NextOrder(r) ELSE Becomes(r, [pass[r] EXCEPT !.at = next])
          \/ NeedsProtection(r) /\ Becomes(r, [pass[r] EXCEPT !.at = "reviewing"])
    /\ UNCHANGED <<durable, submission>>

\* Mutant of MarkForReview: the status the operator guide names.
MarkNeedsReview(r) ==
    /\ pass[r].at = "reviewing"
    /\ NextOrder(r)
    /\ orders' = AfterTransition(orders, pass[r].cur.order, "needs_review", pass[r].cur.id)
    /\ UNCHANGED <<intents, positions, submission>>

\* Unprotected exposure, a missing order, or an open position after the end of
\* the entry order: the row asks for reconciliation.
MarkForReview(r) ==
    /\ pass[r].at = "reviewing"
    /\ NextOrder(r)
    /\ orders' = AfterTransition(orders, pass[r].cur.order, "reconciliation_required", pass[r].cur.id)
    /\ UNCHANGED <<intents, positions, submission>>

\* Mutant of RecordOutcome: the evidence is written without its guard.
RecordRegardless(r, from, status, to) ==
    /\ pass[r].at = from
    /\ intents' = AfterEvidence(intents, pass[r].cur.order, pass[r].cur.id, status)
    /\ Becomes(r, [pass[r] EXCEPT !.at = to])
    /\ UNCHANGED <<orders, positions, submission>>

\* record_broker_evidence, where only a missing intent excuses a refusal; a
\* refusal otherwise raises and ends the pass.
RecordOutcome(r, from, status, to) ==
    LET o == pass[r].cur.order
    IN /\ pass[r].at = from
       /\ \/ /\ AcceptsEvidence(intents, o, pass[r].cur.id, status)
             /\ intents' = AfterEvidence(intents, o, pass[r].cur.id, status)
             /\ Becomes(r, [pass[r] EXCEPT !.at = to])
          \/ /\ ~AcceptsEvidence(intents, o, pass[r].cur.id, status)
             /\ Becomes(r, IF intents[o].status = "absent" THEN [pass[r] EXCEPT !.at = to] ELSE NewPass)
             /\ UNCHANGED intents
       /\ UNCHANGED <<orders, positions, submission>>

\* Mutant of RecordEnd: every end counts as a cancellation.
RecordCancelled(r) == RecordOutcome(r, "ending", "cancelled", "ended")

RecordEnd(r) == RecordOutcome(r, "ending", pass[r].answer.status, "ended")

SettleEnd(r) ==
    /\ pass[r].at = "ended"
    /\ orders' = AfterTransition(orders, pass[r].cur.order,
                    OrderStatusOf(pass[r].answer.status, pass[r].answer.confirmed), pass[r].cur.id)
    /\ IF FoundOpen(r) THEN Becomes(r, [pass[r] EXCEPT !.at = "reviewing"]) ELSE NextOrder(r)
    /\ UNCHANGED <<intents, positions, submission>>

\* Mutant of RecordPartial: a fill is a fill.
RecordPartialAsFill(r) == RecordOutcome(r, "partial", "filled", "sharing")

RecordPartial(r) == RecordOutcome(r, "partial", "partially_filled", "sharing")

SettlePartial(r) ==
    /\ pass[r].at = "sharing"
    /\ Becomes(r, [pass[r] EXCEPT !.at = "sizing"])
    /\ orders' = AfterTransition(orders, pass[r].cur.order, "partially_filled", pass[r].cur.id)
    /\ UNCHANGED <<intents, positions, submission>>

Opened(r, quantity) ==
    {[brokerId |-> pass[r].cur.id, creator |-> r, quantity |-> quantity, open |-> TRUE]}

\* The first fill opens a position.  A position of another quantity is meant to
\* be updated, but the call does not fit update_open_position: it raises.
SizePosition(r) ==
    /\ pass[r].at = "sizing"
    /\ IF pass[r].found = Nothing
         THEN positions' = positions \cup Opened(r, pass[r].answer.filled) /\ NextOrder(r)
         ELSE /\ UNCHANGED positions
              /\ IF pass[r].found.quantity = pass[r].answer.filled THEN NextOrder(r) ELSE Becomes(r, NewPass)
    /\ UNCHANGED <<intents, orders, submission>>

RecordFill(r) == RecordOutcome(r, "filling", "filled", "filled")

SettleFill(r) ==
    /\ pass[r].at = "filled"
    /\ Becomes(r, [pass[r] EXCEPT !.at = "opening"])
    /\ orders' = IF pass[r].cur.status = "filled" THEN orders
                 ELSE AfterTransition(orders, pass[r].cur.order, "filled", pass[r].cur.id)
    /\ UNCHANGED <<intents, positions, submission>>

OpenMissingPosition(r) ==
    /\ pass[r].at = "opening"
    /\ NextOrder(r)
    /\ positions' = IF pass[r].found = Nothing THEN positions \cup Opened(r, Lot) ELSE positions
    /\ UNCHANGED <<intents, orders, submission>>

-----------------------------------------------------------------------------
(* The sweep over the open positions.                                      *)

ListPositions(r) ==
    /\ pass[r].at = "orders"
    /\ pass[r].todo = {}
    /\ Becomes(r, IF pass[r].holdings = Nothing THEN NewPass
                  ELSE [pass[r] EXCEPT !.at = "sweeping", !.sweep = {x \in positions : x.open}])
    /\ UNCHANGED <<durable, submission>>

InHoldings(r, x) == KeyOf[book[x.brokerId].owner] \in pass[r].holdings

\* A lookup that raises, or any other answer than these, condemns the position.
SparingStatuses == {"open", "filled", "not_found"}

SparePosition(r, x) ==
    /\ pass[r].at = "sweeping"
    /\ x \in pass[r].sweep
    /\ InHoldings(r, x) \/ \E a \in AnswersAbout(x.brokerId) : a.status \in SparingStatuses
    /\ Becomes(r, [pass[r] EXCEPT !.sweep = @ \ {x}])
    /\ UNCHANGED <<durable, submission>>

CondemnPosition(r, x) ==
    /\ pass[r].at = "sweeping"
    /\ x \in pass[r].sweep
    /\ ~InHoldings(r, x)
    /\ Becomes(r, [pass[r] EXCEPT !.at = "closing", !.sweep = @ \ {x}, !.found = x])
    /\ UNCHANGED <<durable, submission>>

ClosePosition(r) ==
    /\ pass[r].at = "closing"
    /\ Becomes(r, [pass[r] EXCEPT !.at = "sweeping", !.found = Nothing])
    /\ positions' = IF pass[r].found \in positions
                      THEN (positions \ {pass[r].found}) \cup {[pass[r].found EXCEPT !.open = FALSE]}
                      ELSE positions
    /\ UNCHANGED <<intents, orders, submission>>

EndPass(r) ==
    /\ pass[r].at = "sweeping"
    /\ pass[r].sweep = {}
    /\ Becomes(r, NewPass)
    /\ UNCHANGED <<durable, submission>>

\* The worker dies, or a statement raises.
PassFails(r) ==
    /\ pass[r].at # "idle"
    /\ Becomes(r, NewPass)
    /\ UNCHANGED <<durable, submission>>

\* A stop, a target or a trader takes the broker's position back to zero.
SquareOff(b) ==
    /\ book[b].filled > 0
    /\ b \notin squared
    /\ squared' = squared \cup {b}
    /\ UNCHANGED <<vars, pass>>

-----------------------------------------------------------------------------

ReconStep(r) ==
    \/ StartPass(r) \/ TakeSnapshot(r) \/ FetchHoldings(r) \/ JudgeAnswer(r) \/ FindPosition(r)
    \/ CheckProtection(r) \/ MarkForReview(r) \/ RecordEnd(r) \/ SettleEnd(r) \/ RecordPartial(r)
    \/ SettlePartial(r) \/ SizePosition(r) \/ RecordFill(r) \/ SettleFill(r) \/ OpenMissingPosition(r)
    \/ ListPositions(r) \/ ClosePosition(r) \/ EndPass(r)
    \/ \E o \in Orders : RecoverStale(r, o)
    \/ \E l \in pass[r].todo : AskBroker(r, l)
    \/ \E x \in pass[r].sweep : SparePosition(r, x) \/ CondemnPosition(r, x)

ReconNext ==
    \/ \E r \in Reconcilers : ReconStep(r) \/ PassFails(r)
    \/ \E b \in BrokerIds : SquareOff(b)
    \/ Next /\ UNCHANGED <<pass, squared>>

ReconSpec == ReconInit /\ [][ReconNext]_reconVars

-----------------------------------------------------------------------------
(* Correctness.                                                            *)

ReconTypeOK ==
    /\ TypeOK
    /\ pass \in [Reconcilers -> Pass]
    /\ squared \subseteq BrokerIds

\* Every outcome on durable record is what happened at the broker: an intent
\* is filled, cancelled or rejected only if its own broker order is.
OutcomesAreTrue ==
    \A o \in Orders : intents[o].status \in TerminalIntentStatuses =>
        LET b == intents[o].brokerId
        IN book[b].owner = o /\ book[b].status = intents[o].status

-----------------------------------------------------------------------------
(* What the documents and comments say of the code, and it does not do.    *)

\* The comment on LIVE exposure in reconcile_broker_state: "Never delete
\* exposure without authoritative exit-leg and broker-position evidence".
ExposureIsNotDeleted ==
    [][\A x \in positions : x.open /\ x \notin positions' =>
        book[x.brokerId].filled = 0 \/ x.brokerId \in squared
      ]_reconVars
=============================================================================
