--------------------------- MODULE LiveSubmission ---------------------------
(***************************************************************************)
(* POST /order in LIVE mode (presentation/api/execution.py, place_order),  *)
(* run by any number of workers at once, beside the broker it talks to.    *)
(*                                                                         *)
(* Every call works for a local order id of its own, so calls are named by *)
(* it: handler[o] is the call's control state and its local variables.     *)
(* Each database transaction and each broker call is one step, between     *)
(* which any other worker may run and at which the worker may die.  The    *)
(* broker is external: it may act on a request after its caller timed out, *)
(* or never, and an order's status moves on between two lookups.           *)
(***************************************************************************)
EXTENDS OrderLedger, SubmissionIntent, Naturals

CONSTANTS
    NoOrder,            \* an unused broker id belongs to no order
    NoReply,            \* no lookup has been answered
    Lot,                \* the quantity of every order
    ConfirmedStatuses,  \* broker statuses the adapter reports as confirmed
    MisroutedReplies,   \* statuses that a lookup may report of another order
    Reconcilers         \* the reconciliation passes that run beside the calls

ASSUME LotAssumption == Lot \in Nat \ {0}
ASSUME NoOrderAssumption == NoOrder \notin Orders

\* Beside the table of the intents.
VARIABLES
    orders,     \* the orders table
    positions,  \* the positions table
    handler,    \* one call of place_order per local order
    request,    \* what became of each order's placement request
    book        \* the broker's own order book

durable == <<intents, orders, positions>>
broker == <<request, book>>
vars == <<intents, orders, positions, handler, request, book>>

-----------------------------------------------------------------------------

WorkingStatuses == {"open", "partially_filled"}

EndedStatuses == {"filled", "cancelled", "rejected", "expired"}

ASSUME MisroutedAssumption == MisroutedReplies \subseteq WorkingStatuses \cup EndedStatuses

BookRow ==
    [owner : Orders \cup {NoOrder},
     status : WorkingStatuses \cup EndedStatuses \cup {"unused"},
     filled : 0 .. Lot]

RequestStates == {"unsent", "inflight", "accepted", "lost"}

\* Lookup failures the adapters report as a status instead of raising.
AmbiguousStatuses == {"not_found", "failed"}

Reply ==
    [id : BrokerIds,
     status : WorkingStatuses \cup EndedStatuses \cup AmbiguousStatuses,
     confirmed : BOOLEAN]

ASSUME ConfirmedAssumption == ConfirmedStatuses \subseteq (WorkingStatuses \cup EndedStatuses)

\* A worker stops at one of these; the first five end a call, the last is the
\* death of the worker or an exception that leaves the handler.
StoppedAt == {"suppressed", "refused", "done", "crashed"}

HandlerAt ==
    {"idle", "checked", "created", "approved", "conflicted", "claimed", "started",
     "submitted", "placing", "acked", "evidenced", "querying", "answered",
     "rejecting", "rejection_lost", "positioning", "failing"} \cup StoppedAt

Handler ==
    [at : HandlerAt, ack : BrokerIds \cup {NoId}, reply : Reply \cup {NoReply}]

\* The rows of create_open_position carry no unique key on the broker id; the
\* creator tells apart rows that two processes insert for one broker order.
Position ==
    [brokerId : BrokerIds, creator : {"handler"} \cup Reconcilers,
     quantity : 0 .. Lot, open : BOOLEAN]

NewCall == [at |-> "idle", ack |-> NoId, reply |-> NoReply]

Init ==
    /\ intents = [o \in Orders |-> AbsentRow]
    /\ orders = [o \in Orders |-> AbsentOrder]
    /\ positions = {}
    /\ handler = [o \in Orders |-> NewCall]
    /\ request = [o \in Orders |-> "unsent"]
    /\ book = [b \in BrokerIds |-> [owner |-> NoOrder, status |-> "unused", filled |-> 0]]

\* The call for o goes on from one control point to the next, or stops and
\* forgets its local variables.
Goes(o, from, to) ==
    /\ handler[o].at = from
    /\ handler' = [handler EXCEPT ![o].at = to]

Stops(o, from, to) ==
    /\ handler[o].at = from
    /\ handler' = [handler EXCEPT ![o] = [NewCall EXCEPT !.at = to]]

-----------------------------------------------------------------------------
(* Before the submission boundary.                                         *)

\* _create_lifecycle_order, first transaction: the duplicate check.
CheckDuplicate(o) ==
    /\ IF HasActiveOrder(orders, o)
         THEN Stops(o, "idle", "suppressed")
         ELSE Goes(o, "idle", "checked")
    /\ UNCHANGED <<durable, broker>>

\* _create_lifecycle_order, second transaction: the insert.
CreateOrder(o) ==
    /\ Goes(o, "checked", "created")
    /\ orders' = AfterCreate(orders, o)
    /\ UNCHANGED <<intents, positions, broker>>

ApproveRisk(o) ==
    /\ Goes(o, "created", "approved")
    /\ orders' = AfterTransition(orders, o, "risk_approved", NoId)
    /\ UNCHANGED <<intents, positions, broker>>

\* The adapter cannot protect the order, or stop or target is missing: the
\* handler raises HTTP 403 and leaves the order row as it is.
RefuseUnprotected(o) ==
    /\ Stops(o, "approved", "refused")
    /\ UNCHANGED <<durable, broker>>

\* Mutant of ClaimSubmission: the conflict is not an error.
ClaimRegardless(o) ==
    /\ Goes(o, "approved", "claimed")
    /\ intents' = AfterClaim(intents, o)
    /\ UNCHANGED <<orders, positions, broker>>

ClaimSubmission(o) ==
    /\ CanClaim(intents, o)
    /\ Goes(o, "approved", "claimed")
    /\ intents' = AfterClaim(intents, o)
    /\ UNCHANGED <<orders, positions, broker>>

ClaimConflicts(o) ==
    /\ ~CanClaim(intents, o)
    /\ Goes(o, "approved", "conflicted")
    /\ UNCHANGED <<durable, broker>>

RejectConflict(o) ==
    /\ Stops(o, "conflicted", "done")
    /\ orders' = AfterTransition(orders, o, "rejected", NoId)
    /\ UNCHANGED <<intents, positions, broker>>

\* Mutant of MarkSubmissionStarted: the boundary is not committed.
StartUnrecorded(o) ==
    /\ CanMarkStarted(intents, o)
    /\ Goes(o, "claimed", "started")
    /\ UNCHANGED <<durable, broker>>

MarkSubmissionStarted(o) ==
    /\ CanMarkStarted(intents, o)
    /\ Goes(o, "claimed", "started")
    /\ intents' = AfterMarkStarted(intents, o)
    /\ UNCHANGED <<orders, positions, broker>>

-----------------------------------------------------------------------------
(* The try block around the broker calls.                                  *)

SubmitTransition(o) ==
    /\ Goes(o, "started", "submitted")
    /\ orders' = AfterTransition(orders, o, "broker_submitted", NoId)
    /\ UNCHANGED <<intents, positions, broker>>

\* place_protected_order leaves the worker.
SendPlacement(o) ==
    /\ Goes(o, "submitted", "placing")
    /\ request' = [request EXCEPT ![o] = "inflight"]
    /\ UNCHANGED <<durable, book>>

PlacementAcked(o) ==
    /\ handler[o].at = "placing"
    /\ \E b \in BrokerIds :
          /\ book[b].owner = o
          /\ handler' = [handler EXCEPT ![o] = [at |-> "acked", ack |-> b, reply |-> NoReply]]
    /\ UNCHANGED <<durable, broker>>

\* Mutant of RecordSubmitted: a failure to record the acknowledgement is ignored.
SubmittedUnrecorded(o) ==
    /\ Goes(o, "acked", "evidenced")
    /\ UNCHANGED <<durable, broker>>

RecordSubmitted(o) ==
    /\ IF AcceptsEvidence(intents, o, handler[o].ack, "submitted")
         THEN /\ Goes(o, "acked", "evidenced")
              /\ intents' = AfterEvidence(intents, o, handler[o].ack, "submitted")
         ELSE /\ Goes(o, "acked", "failing")
              /\ UNCHANGED intents
    /\ UNCHANGED <<orders, positions, broker>>

AcceptTransition(o) ==
    /\ Goes(o, "evidenced", "querying")
    /\ orders' = AfterTransition(orders, o, "broker_submitted", handler[o].ack)
    /\ UNCHANGED <<intents, positions, broker>>

\* The adapter lets the filled quantity overrule the broker's status text.
ReportedStatus(b) ==
    CASE book[b].filled = Lot -> "filled"
      [] book[b].filled \in 1 .. Lot - 1 -> "partially_filled"
      [] OTHER -> book[b].status

\* What get_order_status may answer about broker order b.
RepliesAbout(b) ==
    {[id |-> b, status |-> s, confirmed |-> FALSE] : s \in AmbiguousStatuses}
    \cup {[id |-> c, status |-> ReportedStatus(c),
           confirmed |-> ReportedStatus(c) \in ConfirmedStatuses] :
          c \in {d \in BrokerIds : /\ d = b \/ ReportedStatus(d) \in MisroutedReplies
                                   /\ book[d].status # "unused"}}

QueryStatus(o) ==
    /\ handler[o].at = "querying"
    /\ \E r \in RepliesAbout(handler[o].ack) :
          handler' = [handler EXCEPT ![o] = [at |-> "answered", ack |-> @.ack, reply |-> r]]
    /\ UNCHANGED <<durable, broker>>

\* Any call in the try block raises: validation, a timeout, an HTTP error, an
\* answer without an id, a failed transaction.
TryRaises(o) ==
    /\ handler[o].at \in {"started", "submitted", "placing", "acked", "evidenced", "querying"}
    /\ handler' = [handler EXCEPT ![o].at = "failing"]
    /\ UNCHANGED <<durable, broker>>

\* Mutant of RecordUnknown: the exception gives the key back.
ReleaseUnknown(o) ==
    /\ Stops(o, "failing", "done")
    /\ orders' = AfterTransition(orders, o, "reconciliation_required", NoId)
    /\ intents' = [intents EXCEPT ![o] = AbsentRow]
    /\ UNCHANGED <<positions, broker>>

\* Mutant of RecordUnknown: the order is sent again.
ResendUnknown(o) ==
    /\ Goes(o, "failing", "submitted")
    /\ UNCHANGED <<durable, broker>>

\* Mutant of RecordUnknown: the exception is swallowed.
ForgetUnknown(o) ==
    /\ Stops(o, "failing", "done")
    /\ UNCHANGED <<durable, broker>>

\* The except branch: the outcome is unknown.
RecordUnknown(o) ==
    /\ Stops(o, "failing", "done")
    /\ orders' = AfterTransition(orders, o, "reconciliation_required", NoId)
    /\ UNCHANGED <<intents, positions, broker>>

-----------------------------------------------------------------------------
(* After the lookup.                                                       *)

Unconfirmed(r) == ~r.confirmed \/ r.status \in AmbiguousStatuses

SettleUnconfirmed(o) ==
    /\ handler[o].at = "answered"
    /\ Unconfirmed(handler[o].reply)
    /\ Stops(o, "answered", "done")
    /\ orders' = AfterTransition(orders, o, "reconciliation_required", handler[o].reply.id)
    /\ UNCHANGED <<intents, positions, broker>>

\* A confirmed rejection of another broker order than the one acknowledged.
SettleUnverifiedRejection(o) ==
    /\ handler[o].at = "answered"
    /\ ~Unconfirmed(handler[o].reply)
    /\ handler[o].reply.status = "rejected"
    /\ handler[o].reply.id # handler[o].ack
    /\ Stops(o, "answered", "done")
    /\ orders' = AfterTransition(orders, o, "reconciliation_required", handler[o].ack)
    /\ UNCHANGED <<intents, positions, broker>>

VerifiedRejection(o) ==
    /\ handler[o].at = "answered"
    /\ ~Unconfirmed(handler[o].reply)
    /\ handler[o].reply.status = "rejected"
    /\ handler[o].reply.id = handler[o].ack

RecordRejection(o) ==
    /\ VerifiedRejection(o)
    /\ AcceptsEvidence(intents, o, handler[o].reply.id, "rejected")
    /\ Goes(o, "answered", "rejecting")
    /\ intents' = AfterEvidence(intents, o, handler[o].reply.id, "rejected")
    /\ UNCHANGED <<orders, positions, broker>>

\* The evidence is refused, or its transaction fails.
LoseRejection(o) ==
    /\ VerifiedRejection(o)
    /\ Goes(o, "answered", "rejection_lost")
    /\ UNCHANGED <<durable, broker>>

SettleLostRejection(o) ==
    /\ Stops(o, "rejection_lost", "done")
    /\ orders' = AfterTransition(orders, o, "reconciliation_required", handler[o].reply.id)
    /\ UNCHANGED <<intents, positions, broker>>

SettleRejection(o) ==
    /\ Stops(o, "rejecting", "done")
    /\ orders' = AfterTransition(orders, o, "rejected", handler[o].reply.id)
    /\ UNCHANGED <<intents, positions, broker>>

\* Every other confirmed status goes to the order row without evidence.
SettleStatus(o) ==
    LET r == handler[o].reply
        status == OrderStatusOf(r.status, r.confirmed)
    IN /\ handler[o].at = "answered"
       /\ ~Unconfirmed(r)
       /\ r.status # "rejected"
       /\ orders' = AfterTransition(orders, o, status, r.id)
       /\ IF ShouldCreatePosition(status)
            THEN Goes(o, "answered", "positioning")
            ELSE Stops(o, "answered", "done")
       /\ UNCHANGED <<intents, positions, broker>>

\* The position is created with the requested quantity.
CreatePosition(o) ==
    /\ Stops(o, "positioning", "done")
    /\ positions' = positions \cup
          {[brokerId |-> handler[o].reply.id, creator |-> "handler",
            quantity |-> Lot, open |-> TRUE]}
    /\ UNCHANGED <<intents, orders, broker>>

\* The worker dies, or a statement outside the try block raises.
Crash(o) ==
    /\ handler[o].at \notin StoppedAt \cup {"idle"}
    /\ Stops(o, handler[o].at, "crashed")
    /\ UNCHANGED <<durable, broker>>

-----------------------------------------------------------------------------
(* The broker.                                                             *)

BrokerAccepts(o) ==
    /\ request[o] = "inflight"
    /\ request' = [request EXCEPT ![o] = "accepted"]
    /\ \E b \in BrokerIds :
          /\ book[b].status = "unused"
          /\ book' = [book EXCEPT ![b] = [owner |-> o, status |-> "open", filled |-> 0]]
    /\ UNCHANGED <<durable, handler>>

\* The request is lost, or refused without an order id.
RequestLost(o) ==
    /\ request[o] = "inflight"
    /\ request' = [request EXCEPT ![o] = "lost"]
    /\ UNCHANGED <<durable, handler, book>>

BrokerFills(b) ==
    /\ book[b].status \in WorkingStatuses
    /\ \E n \in book[b].filled + 1 .. Lot :
          book' = [book EXCEPT ![b] =
              [owner |-> @.owner, filled |-> n,
               status |-> IF n = Lot THEN "filled" ELSE "partially_filled"]]
    /\ UNCHANGED <<durable, handler, request>>

\* Cancelled or expired by the exchange or at the broker's own terminal.
BrokerEnds(b) ==
    /\ book[b].status \in WorkingStatuses
    /\ \E s \in {"cancelled", "expired"} : book' = [book EXCEPT ![b].status = s]
    /\ UNCHANGED <<durable, handler, request>>

BrokerRejects(b) ==
    /\ book[b].status = "open"
    /\ book' = [book EXCEPT ![b].status = "rejected"]
    /\ UNCHANGED <<durable, handler, request>>

-----------------------------------------------------------------------------

HandlerStep(o) ==
    \/ CheckDuplicate(o) \/ CreateOrder(o) \/ ApproveRisk(o) \/ RefuseUnprotected(o)
    \/ ClaimSubmission(o) \/ ClaimConflicts(o) \/ RejectConflict(o) \/ MarkSubmissionStarted(o)
    \/ SubmitTransition(o) \/ SendPlacement(o) \/ PlacementAcked(o) \/ RecordSubmitted(o)
    \/ AcceptTransition(o) \/ QueryStatus(o) \/ TryRaises(o) \/ RecordUnknown(o)
    \/ SettleUnconfirmed(o) \/ SettleUnverifiedRejection(o) \/ RecordRejection(o)
    \/ LoseRejection(o) \/ SettleLostRejection(o) \/ SettleRejection(o)
    \/ SettleStatus(o) \/ CreatePosition(o)

BrokerStep ==
    \/ \E o \in Orders : BrokerAccepts(o) \/ RequestLost(o)
    \/ \E b \in BrokerIds : BrokerFills(b) \/ BrokerEnds(b) \/ BrokerRejects(b)

Next ==
    \/ \E o \in Orders : HandlerStep(o) \/ Crash(o)
    \/ BrokerStep

Spec == Init /\ [][Next]_vars

\* A worker that does not die goes on: its broker calls carry a timeout and
\* its database calls return.  Nothing is assumed of the broker.
Fairness == \A o \in Orders : WF_vars(HandlerStep(o))

FairSpec == Spec /\ Fairness

-----------------------------------------------------------------------------
(* Correctness.                                                            *)

TypeOK ==
    /\ intents \in [Orders -> IntentRow]
    /\ orders \in [Orders -> OrderRow]
    /\ positions \subseteq Position
    /\ handler \in [Orders -> Handler]
    /\ request \in [Orders -> RequestStates]
    /\ book \in [BrokerIds -> BookRow]

\* Order o may be bought or sold: its request can still arrive, or an order
\* of its own is working in the broker's book.
Exposed(o) ==
    \/ request[o] = "inflight"
    \/ \E b \in BrokerIds : book[b].owner = o /\ book[b].status \in WorkingStatuses

\* Two orders with one logical key are never on the market together, across
\* workers, crashes, timeouts and requests that arrive after their caller
\* gave up.
SingleExposure ==
    \A o, p \in Orders : o # p /\ SameKey(o, p) => ~(Exposed(o) /\ Exposed(p))

\* Whatever was sent to the broker is on record as started before it was
\* sent, so a crash at any point leaves a row that says the outcome is
\* unknown (or known), never one that says nothing was sent.
SendsAreOnRecord ==
    \A o \in Orders : request[o] # "unsent" =>
        intents[o].status \notin {"absent", "claimed"}

\* A step that gives up a logical key finds the order off the market: only
\* the end of the broker order itself releases the key, not a timeout, a
\* missing or unconfirmed lookup, or the status of some other order.
KeyReleasedOffMarket ==
    [][\A o \in Orders :
        HoldsKey(intents, o) /\ ~HoldsKey(intents', o) =>
            request[o] = "accepted" /\ ~Exposed(o)
      ]_vars

\* An order the ledger shows as filled, cancelled, rejected or failed is not
\* on the market, so nothing that skips terminal orders loses sight of one.
SettledOrdersAreOffMarket ==
    \A o \in Orders : IsTerminal(orders, o) => ~Exposed(o)

\* The two durable tables and the broker agree on who is who: an id in an
\* order row or in an intent is the id of that order's own broker order, and
\* a position belongs to an order whose row and intent both name its id.
DurableIdentity ==
    /\ \A o \in Orders : \A b \in BrokerIds :
          (orders[o].brokerId = b \/ intents[o].brokerId = b) => book[b].owner = o
    /\ \A x \in positions :
          LET o == book[x.brokerId].owner
          IN o \in Orders /\ orders[o].brokerId = x.brokerId /\ intents[o].brokerId = x.brokerId

\* A submission whose worker lives does not stay unknown in silence: its
\* intent gets the broker's id, or its order row asks for reconciliation.
UnknownOutcomeSurfaces ==
    \A o \in Orders :
        intents[o].status = "reconciliation_required" ~>
            \/ intents[o].brokerId # NoId
            \/ orders[o].status = "reconciliation_required"
            \/ handler[o].at = "crashed"

\* The stage of an order in the abstract lock.
Stage(o) ==
    CASE intents[o].status \in TerminalIntentStatuses -> "released"
      [] intents[o].status = "absent" -> "outside"
      [] HoldsKey(intents, o) /\ request[o] = "unsent" -> "holding"
      [] HoldsKey(intents, o) /\ request[o] # "unsent" /\ Exposed(o) -> "exposed"
      [] OTHER -> "over"

Lock == INSTANCE ExposureLock WITH stage <- [o \in Orders |-> Stage(o)]

\* Every behaviour of the handlers and the broker is one of the lock.
ImplementsLock == Lock!Spec

\* The handlers change the intent table only by its own operations.
ImplementsIntents == TableSpec
=============================================================================
