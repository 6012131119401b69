--------------------------- MODULE PaperExecution ---------------------------
(***************************************************************************)
(* PAPER trading: _submit_paper_signal (application/execution/             *)
(* execution_pipeline.py), which the API process and the worker process    *)
(* both run, the PAPER pass of broker reconciliation beside it, the        *)
(* cancellation of an order, and the exit of the position it opened.       *)
(*                                                                         *)
(* The broker is PaperBrokerClient, an object in the memory of each        *)
(* process: it confirms every order at once, never fills or ends one, and  *)
(* knows nothing of what the other process, or its own process before a    *)
(* restart, has placed.  Each database transaction is a step.              *)
(***************************************************************************)
EXTENDS OrderLedger, Naturals

CONSTANTS
    Processes,  \* processes that run the pipeline
    Passing,    \* those in which the pass may run, for an operator or on its own
    Worker,     \* the one that runs the pass every 30 seconds
    PaperId,    \* the uuid that an order gets when it is placed
    SignalOf,   \* the strategy, symbol and signal time of each order
    NoOrder     \* no order is being looked at

ASSUME WorkerAssumption == Worker \in Passing /\ Passing \subseteq Processes
ASSUME PaperIdAssumption ==
    /\ PaperId \in [Orders -> BrokerIds]
    /\ \A o, p \in Orders : PaperId[o] = PaperId[p] => o = p
ASSUME NoOrderAssumption == NoOrder \notin Orders

VARIABLES
    intents,    \* broker_submission_intents
    orders,     \* the orders table
    trades,     \* the status of each order's own row in paper_trades
    positions,  \* the status of each order's row in positions
    call,       \* one call of the pipeline per order: control point and process
    placed,     \* the orders each process's PaperBrokerClient remembers
    pass        \* the reconciliation pass under way in each process

tables == <<intents, orders, trades, positions>>
vars == <<intents, orders, trades, positions, call, placed, pass>>

-----------------------------------------------------------------------------

TradeStatuses == {"absent", "paper_order_submitted", "reconciliation_required", "closed"}

\* "exited": the row is closed, its trade is not yet.
PositionStatuses == {"absent", "open", "exited", "closed"}

CallAt ==
    {"idle", "checked", "created", "approved", "claimed", "started",
     "submitted", "placed", "evidenced", "accepted", "confirming", "trading",
     "positioning", "failing", "done"}

\* The part of a call whose exceptions are caught.
InTry == {"started", "submitted", "placed", "evidenced"}

PassAt == {"idle", "recovering", "asking", "reviewing"}

NoPass == [at |-> "idle", todo |-> {}, now |-> NoOrder]

Init ==
    /\ intents = [o \in Orders |-> AbsentRow]
    /\ orders = [o \in Orders |-> AbsentOrder]
    /\ trades = [o \in Orders |-> "absent"]
    /\ positions = [o \in Orders |-> "absent"]
    /\ \E home \in [Orders -> Processes] :
          call = [o \in Orders |-> [at |-> "idle", by |-> home[o]]]
    /\ placed = [q \in Processes |-> {}]
    /\ pass = [q \in Processes |-> NoPass]

Goes(o, from, to) ==
    /\ call[o].at = from
    /\ call' = [call EXCEPT ![o].at = to]

\* PaperBrokerClient.get_order_status in process q: "confirmed", which is all
\* it ever says of an order it placed, or not found.
Knows(q, o) == o \in placed[q]

-----------------------------------------------------------------------------
(* The pipeline, from the duplicate check on.                              *)

CheckDuplicate(o) ==
    /\ Goes(o, "idle", IF HasActiveOrder(orders, o) THEN "done" ELSE "checked")
    /\ UNCHANGED <<tables, placed, pass>>

CreateOrder(o) ==
    /\ Goes(o, "checked", "created")
    /\ orders' = AfterCreate(orders, o)
    /\ UNCHANGED <<intents, trades, positions, placed, pass>>

ApproveRisk(o) ==
    /\ Goes(o, "created", "approved")
    /\ orders' = AfterTransition(orders, o, "risk_approved", NoId)
    /\ UNCHANGED <<intents, trades, positions, placed, pass>>

ClaimSubmission(o) ==
    /\ CanClaim(intents, o)
    /\ Goes(o, "approved", "claimed")
    /\ intents' = AfterClaim(intents, o)
    /\ UNCHANGED <<orders, trades, positions, placed, pass>>

\* The conflict is answered, and the order row stays risk_approved.
ClaimConflicts(o) ==
    /\ ~CanClaim(intents, o)
    /\ Goes(o, "approved", "done")
    /\ UNCHANGED <<tables, placed, pass>>

MarkSubmissionStarted(o) ==
    /\ CanMarkStarted(intents, o)
    /\ Goes(o, "claimed", "started")
    /\ intents' = AfterMarkStarted(intents, o)
    /\ UNCHANGED <<orders, trades, positions, placed, pass>>

SubmitTransition(o) ==
    /\ Goes(o, "started", "submitted")
    /\ orders' = AfterTransition(orders, o, "broker_submitted", NoId)
    /\ UNCHANGED <<intents, trades, positions, placed, pass>>

\* OrderManagementService.submit_order and PaperBrokerClient.place_order.
PlaceOrder(o) ==
    /\ Goes(o, "submitted", "placed")
    /\ placed' = [placed EXCEPT ![call[o].by] = @ \cup {o}]
    /\ UNCHANGED <<tables, pass>>

RecordSubmitted(o) ==
    /\ AcceptsEvidence(intents, o, PaperId[o], "submitted")
    /\ Goes(o, "placed", "evidenced")
    /\ intents' = AfterEvidence(intents, o, PaperId[o], "submitted")
    /\ UNCHANGED <<orders, trades, positions, placed, pass>>

\* The lookup that follows is made in the process that placed the order.
AcceptTransition(o) ==
    /\ Goes(o, "evidenced", "accepted")
    /\ orders' = AfterTransition(orders, o, "broker_submitted", PaperId[o])
    /\ UNCHANGED <<intents, trades, positions, placed, pass>>

\* A database call inside the try block raises.
TryRaises(o) ==
    /\ call[o].at \in InTry
    /\ Goes(o, call[o].at, "failing")
    /\ UNCHANGED <<tables, placed, pass>>

RecordUnknown(o) ==
    /\ Goes(o, "failing", "done")
    /\ orders' = AfterTransition(orders, o, "reconciliation_required", NoId)
    /\ UNCHANGED <<intents, trades, positions, placed, pass>>

\* Mutant of ConfirmEvidence: a confirmed PAPER order is taken for a filled one.
ConfirmAsFilled(o) ==
    /\ AcceptsEvidence(intents, o, PaperId[o], "filled")
    /\ Goes(o, "accepted", "confirming")
    /\ intents' = AfterEvidence(intents, o, PaperId[o], "filled")
    /\ UNCHANGED <<orders, trades, positions, placed, pass>>

ConfirmEvidence(o) ==
    /\ AcceptsEvidence(intents, o, PaperId[o], "submitted")
    /\ Goes(o, "accepted", "confirming")
    /\ intents' = AfterEvidence(intents, o, PaperId[o], "submitted")
    /\ UNCHANGED <<orders, trades, positions, placed, pass>>

ConfirmTransition(o) ==
    /\ Goes(o, "confirming", "trading")
    /\ orders' = AfterTransition(orders, o, OrderStatusOf("confirmed", TRUE), PaperId[o])
    /\ UNCHANGED <<intents, trades, positions, placed, pass>>

\* uq_paper_trades_signal_identity: one row per signal.
CreateTrade(o) ==
    /\ \A p \in Orders : SignalOf[p] = SignalOf[o] => trades[p] = "absent"
    /\ Goes(o, "trading", "positioning")
    /\ trades' = [trades EXCEPT ![o] = "paper_order_submitted"]
    /\ UNCHANGED <<intents, orders, positions, placed, pass>>

\* The signal's row is another order's, or one that the analysis worker has
\* simulated: it is returned as it is, and the call goes on without its own.
FindTradeOfSignal(o) ==
    /\ Goes(o, "trading", "positioning")
    /\ UNCHANGED <<tables, placed, pass>>

CreatePosition(o) ==
    /\ Goes(o, "positioning", "done")
    /\ positions' =
          [positions EXCEPT ![o] =
              IF ShouldCreatePosition(OrderStatusOf("confirmed", TRUE)) THEN "open" ELSE @]
    /\ UNCHANGED <<intents, orders, trades, placed, pass>>

\* A database call outside the try block raises, and the call ends there.
CallRaises(o) ==
    /\ call[o].at \notin {"idle", "done"} \cup InTry
    /\ Goes(o, call[o].at, "done")
    /\ UNCHANGED <<tables, placed, pass>>

-----------------------------------------------------------------------------
(* POST /orders/{id}/cancel, in any process, in X-QuantGrid-Mode paper.    *)

\* An order without a broker id is cancelled whatever its status; one with an
\* id is "cancelled" when the broker knows it, though it stays confirmed there,
\* and "rejected" when it does not.
CancelOrder(q, o) ==
    /\ orders[o].status # "absent"
    /\ LET status == IF orders[o].brokerId = NoId \/ Knows(q, o) THEN "cancelled"
                     ELSE OrderStatusOf("not_found", FALSE)
       IN orders' = AfterTransition(orders, o, status, orders[o].brokerId)
    /\ UNCHANGED <<intents, trades, positions, call, placed, pass>>

-----------------------------------------------------------------------------
(* trade_exit_engine.exit_position of a PAPER position; PositionExit has   *)
(* its steps.                                                              *)

ClosePosition(o) ==
    /\ positions[o] = "open"
    /\ positions' = [positions EXCEPT ![o] = "exited"]
    /\ UNCHANGED <<intents, orders, trades, call, placed, pass>>

\* close_paper_trade_evidence finds the trade by the broker's id, or none.
CloseTrade(o) ==
    /\ positions[o] = "exited"
    /\ positions' = [positions EXCEPT ![o] = "closed"]
    /\ trades' = [trades EXCEPT ![o] = IF @ = "absent" THEN @ ELSE "closed"]
    /\ UNCHANGED <<intents, orders, call, placed, pass>>

-----------------------------------------------------------------------------
(* reconcile_broker_state in PAPER mode, in process q.                     *)

Passes(q, at, todo, now) == pass' = [pass EXCEPT ![q] = [at |-> at, todo |-> todo, now |-> now]]

PreBrokerStaleStatuses == {"requested", "risk_approved"}

\* Mutant of MayBeStale: the rows that a conflict leaves behind are missed.
MayBeStaleRequested(o) ==
    /\ orders[o].status = "requested"
    /\ orders[o].brokerId = NoId
    /\ call[o].at = "done"

\* Thirty minutes without a change: the call that made the row is over.
MayBeStale(o) ==
    /\ orders[o].status \in PreBrokerStaleStatuses
    /\ orders[o].brokerId = NoId
    /\ call[o].at = "done"

\* The list that _recover_stale_local_orders works through.
StartPass(q) ==
    /\ pass[q].at = "idle"
    /\ \E stale \in SUBSET {o \in Orders : MayBeStale(o)} : Passes(q, "recovering", stale, NoOrder)
    /\ UNCHANGED <<tables, call, placed>>

RecoverStale(q, o) ==
    /\ pass[q].at = "recovering"
    /\ o \in pass[q].todo
    /\ orders' = AfterTransition(orders, o, "failed", NoId)
    /\ Passes(q, "recovering", pass[q].todo \ {o}, NoOrder)
    /\ UNCHANGED <<intents, trades, positions, call, placed>>

\* _local_orders: every order row with a broker id, whatever its status.
ListOrders(q) ==
    /\ pass[q].at = "recovering"
    /\ pass[q].todo = {}
    /\ Passes(q, "asking", {o \in Orders : orders[o].brokerId # NoId}, NoOrder)
    /\ UNCHANGED <<tables, call, placed>>

\* The order is confirmed, as it was; the position agrees with it.
FindConfirmed(q, o) ==
    /\ pass[q].at = "asking"
    /\ o \in pass[q].todo
    /\ Knows(q, o)
    /\ Passes(q, "asking", pass[q].todo \ {o}, NoOrder)
    /\ UNCHANGED <<tables, call, placed>>

\* Mutant of FindMissing: not found is one of REJECTED_STATUSES, and ends the
\* trade and the position.
RejectMissing(q, o) ==
    /\ pass[q].at = "asking"
    /\ o \in pass[q].todo
    /\ ~Knows(q, o)
    /\ trades' = [trades EXCEPT ![o] = IF @ = "absent" THEN @ ELSE "closed"]
    /\ positions' = [positions EXCEPT ![o] = IF @ = "open" THEN "closed" ELSE @]
    /\ Passes(q, "reviewing", pass[q].todo, o)
    /\ UNCHANGED <<intents, orders, call, placed>>

\* The order is not found, which proves nothing: update_paper_trade_status ...
FindMissing(q, o) ==
    /\ pass[q].at = "asking"
    /\ o \in pass[q].todo
    /\ ~Knows(q, o)
    /\ trades' = [trades EXCEPT ![o] = IF @ = "absent" THEN @ ELSE "reconciliation_required"]
    /\ Passes(q, "reviewing", pass[q].todo, o)
    /\ UNCHANGED <<intents, orders, positions, call, placed>>

\* ... and the transition of its order row, with the id that was read.
ReviewOrder(q) ==
    LET o == pass[q].now
    IN /\ pass[q].at = "reviewing"
       /\ orders' = AfterTransition(orders, o, "reconciliation_required", PaperId[o])
       /\ Passes(q, "asking", pass[q].todo \ {o}, NoOrder)
       /\ UNCHANGED <<intents, trades, positions, call, placed>>

\* list_open_positions, and the sweep: a position whose order is confirmed or
\* not found is left alone, and PaperBrokerClient says nothing else.
Sweep(q) ==
    /\ pass[q].at = "asking"
    /\ pass[q].todo = {}
    /\ pass' = [pass EXCEPT ![q] = NoPass]
    /\ UNCHANGED <<tables, call, placed>>

\* The process dies and comes back, with an empty PaperBrokerClient.
Restart(q) ==
    /\ placed' = [placed EXCEPT ![q] = {}]
    /\ pass' = [pass EXCEPT ![q] = NoPass]
    /\ call' = [o \in Orders |->
                  IF call[o].by = q /\ call[o].at # "idle" THEN [call[o] EXCEPT !.at = "done"]
                  ELSE call[o]]
    /\ UNCHANGED tables

-----------------------------------------------------------------------------

CallStep(o) ==
    \/ CheckDuplicate(o) \/ CreateOrder(o) \/ ApproveRisk(o) \/ ClaimSubmission(o)
    \/ ClaimConflicts(o) \/ MarkSubmissionStarted(o) \/ SubmitTransition(o) \/ PlaceOrder(o)
    \/ RecordSubmitted(o) \/ AcceptTransition(o) \/ TryRaises(o) \/ RecordUnknown(o)
    \/ ConfirmEvidence(o) \/ ConfirmTransition(o) \/ CreateTrade(o) \/ FindTradeOfSignal(o)
    \/ CreatePosition(o) \/ CallRaises(o)

PassStep(q) ==
    \/ ListOrders(q) \/ ReviewOrder(q) \/ Sweep(q)
    \/ \E o \in Orders : RecoverStale(q, o) \/ FindConfirmed(q, o) \/ FindMissing(q, o)

Next ==
    \/ \E o \in Orders : CallStep(o) \/ ClosePosition(o) \/ CloseTrade(o)
    \/ \E q \in Passing : StartPass(q) \/ PassStep(q)
    \/ \E q \in Processes : Restart(q)
    \/ \E q \in Processes, o \in Orders : CancelOrder(q, o)

Spec == Init /\ [][Next]_vars

\* Thirty minutes are over for every row that waits for them.
StartPassOnStale(q) ==
    /\ StartPass(q)
    /\ pass'[q].todo = {o \in Orders : MayBeStale(o)}

\* Calls run to an end; the worker starts a pass every 30 seconds and does not
\* die in the middle of every one.
FairSpec ==
    /\ Spec
    /\ \A o \in Orders : WF_vars(CallStep(o))
    /\ WF_vars(PassStep(Worker))
    /\ SF_vars(StartPassOnStale(Worker))
    /\ \A o \in Orders : SF_vars(RecoverStale(Worker, o))

-----------------------------------------------------------------------------
(* Correctness.                                                            *)

TypeOK ==
    /\ intents \in [Orders -> IntentRow]
    /\ orders \in [Orders -> OrderRow]
    /\ trades \in [Orders -> TradeStatuses]
    /\ positions \in [Orders -> PositionStatuses]
    /\ call \in [Orders -> [at : CallAt, by : Processes]]
    /\ placed \in [Processes -> SUBSET Orders]
    /\ pass \in [Processes -> [at : PassAt, todo : SUBSET Orders, now : Orders \cup {NoOrder}]]

\* A strategy is never in the market twice on one side of a symbol: of the
\* orders of one key at most one has an open PAPER position, whichever
\* processes they came from and whatever was cancelled or recovered meanwhile.
OnePositionPerKey ==
    \A o, p \in Orders :
        SameKey(o, p) /\ positions[o] = "open" /\ positions[p] = "open" => o = p

\* An open position stays on record: its order has its broker id and holds the
\* key under that id, and the trade that carries this id, if the signal had no
\* other, is not closed, however often the broker forgets the order.
OpenPositionsAreBacked ==
    \A o \in Orders : positions[o] = "open" =>
        /\ orders[o].brokerId = PaperId[o]
        /\ intents[o] = [status |-> "submitted", brokerId |-> PaperId[o]]
        /\ trades[o] # "closed"

\* Exposure is ended only by an exit: no pass takes it from a broker that has
\* forgotten the order, after a restart or in another process, that a position
\* is gone.
PositionsEndByExit ==
    [][\A o \in Orders : positions[o] = "open" => positions'[o] \in {"open", "exited"}]_vars

\* An order that its call left behind before the submission, after a conflict,
\* an exception or a death, does not suppress its key for ever.
StaleOrdersEnd ==
    \A o \in Orders : []<>(orders[o].status \notin PreBrokerStaleStatuses)

-----------------------------------------------------------------------------
(* What the documents and comments say of the code, and it does not do.    *)

\* docs/execution-engine.md: "Terminal statuses such as filled, cancelled,
\* rejected, and failed release the key", and recovery "prevents stale
\* pre-broker orders from blocking future trades forever".  An order that is
\* over gives its logical key back.
KeyComesFree ==
    \A o \in Orders : []<>(IsTerminal(orders, o) => ~HoldsKey(intents, o))
=============================================================================
