---------------------------- MODULE PositionExit ----------------------------
(***************************************************************************)
(* exit_position (application/trade_exit_engine.py), called for one        *)
(* position by monitors, operators and exit_all at once, beside the sweep  *)
(* of broker reconciliation, which closes positions too.                   *)
(*                                                                         *)
(* An exit of a LIVE position is sent to the broker at most once: a claim  *)
(* on the row is committed before the network call and never given back,   *)
(* and a later call asks about the order sent before instead of sending    *)
(* another.  A PAPER position is closed in the database only.  Each        *)
(* transaction and each broker call is a step.                             *)
(***************************************************************************)
EXTENDS Naturals

CONSTANTS
    Positions,      \* rows of the positions table, open at first
    LivePositions,  \* those of execution mode LIVE; the others are PAPER
    Callers,        \* calls of exit_position and of the sweep, under way at once
    BrokerIds,      \* the broker's orders, exits and others
    NoId,           \* no broker order id is known
    NoPosition,     \* no position
    Lot             \* the quantity of every position

ASSUME LiveAssumption == LivePositions \subseteq Positions
ASSUME LotAssumption == Lot \in Nat \ {0}
ASSUME NoneAssumption == NoId \notin BrokerIds /\ NoPosition \notin Positions

VARIABLES
    rows,       \* the positions table
    evidence,   \* PAPER positions whose trade and journal rows are closed
    call,       \* a caller's control point and local variables
    book        \* the broker's order book

vars == <<rows, evidence, call, book>>

-----------------------------------------------------------------------------

\* pending_exit_correlation_id is set (claimed), pending_exit_broker_order_id
\* (exitId), status and exit_reason.
Row ==
    [open : BOOLEAN, claimed : BOOLEAN, exitId : BrokerIds \cup {NoId},
     reason : {"none", "exit", "swept"}]

\* EXIT_FILLED_STATUSES and EXIT_REJECTED_STATUSES, one name for each meaning.
FilledStatuses == {"filled"}
RejectedStatuses == {"rejected", "failed", "not_found", "cancelled"}
PendingStatuses == {"open", "partially_filled"}

\* A request that was never accepted, or an order the broker knows.
Unplaced == {"unused", "inflight", "lost"}
Working == {"open", "partially_filled"}

ExitOrder ==
    [owner : Positions \cup {NoPosition}, filled : 0 .. Lot,
     status : Unplaced \cup Working \cup {"filled", "rejected", "cancelled"}]

Reply ==
    [id : BrokerIds, filled : 0 .. Lot, confirmed : BOOLEAN,
     status : FilledStatuses \cup RejectedStatuses \cup PendingStatuses]

CallAt ==
    {"idle", "claiming", "sending", "placing", "storing", "querying", "closing",
     "writing", "evidencing", "crashed"}

Call ==
    [at : CallAt, pos : Positions \cup {NoPosition}, by : {"exit", "swept"},
     id : BrokerIds \cup {NoId}]

\* A broker order that does not exit any position here, filled before.
Other == [owner |-> NoPosition, filled |-> Lot, status |-> "filled"]
Unused == [owner |-> NoPosition, filled |-> 0, status |-> "unused"]

NoCall == [at |-> "idle", pos |-> NoPosition, by |-> "exit", id |-> NoId]

Begins(c, at, p, by, id) ==
    call' = [call EXCEPT ![c] = [at |-> at, pos |-> p, by |-> by, id |-> id]]

Goes(c, from, to) ==
    /\ call[c].at = from
    /\ call' = [call EXCEPT ![c].at = to]

\* The call returns or raises; either way its local variables are gone.
Ends(c, from) ==
    /\ call[c].at = from
    /\ call' = [call EXCEPT ![c] = NoCall]

Init ==
    /\ rows = [p \in Positions |->
                 [open |-> TRUE, claimed |-> FALSE, exitId |-> NoId, reason |-> "none"]]
    /\ evidence = {}
    /\ call = [c \in Callers |-> NoCall]
    /\ \E others \in SUBSET BrokerIds :
          book = [b \in BrokerIds |-> IF b \in others THEN Other ELSE Unused]

-----------------------------------------------------------------------------
(* One call of exit_position.                                              *)

\* get_position, and the branch on what the row says.  A row that is closed,
\* or claimed without an order id, makes the call raise and changes nothing.
ReadPosition(c, p) ==
    /\ call[c].at = "idle"
    /\ rows[p].open
    /\ \/ /\ p \notin LivePositions
          /\ Begins(c, "closing", p, "exit", NoId)
       \/ /\ p \in LivePositions
          /\ rows[p].exitId # NoId
          /\ Begins(c, "querying", p, "exit", rows[p].exitId)
       \/ /\ p \in LivePositions
          /\ rows[p].exitId = NoId
          /\ ~rows[p].claimed
          /\ Begins(c, "claiming", p, "exit", NoId)
    /\ UNCHANGED <<rows, evidence, book>>

\* Mutant of CanClaimExit: the row read before the claim is trusted.
CanClaimStale(row) == row.open

\* claim_exit_intent: the guard of its one UPDATE statement.
CanClaimExit(row) == row.open /\ ~row.claimed /\ row.exitId = NoId

ClaimExit(c) ==
    LET p == call[c].pos
    IN \/ /\ Goes(c, "claiming", "sending")
          /\ CanClaimExit(rows[p])
          /\ rows' = [rows EXCEPT ![p].claimed = TRUE]
          /\ UNCHANGED <<evidence, book>>
       \/ /\ Ends(c, "claiming")
          /\ ~CanClaimExit(rows[p])
          /\ UNCHANGED <<rows, evidence, book>>

\* place_order leaves the worker; the broker order is named by its request.
SendExit(c) ==
    /\ Goes(c, "sending", "placing")
    /\ \E b \in BrokerIds :
          /\ book[b].status = "unused"
          /\ book' = [book EXCEPT ![b] =
                         [owner |-> call[c].pos, filled |-> 0, status |-> "inflight"]]
    /\ UNCHANGED <<rows, evidence>>

PlacementAcked(c) ==
    /\ call[c].at = "placing"
    /\ \E b \in BrokerIds :
          /\ book[b].owner = call[c].pos
          /\ book[b].status \notin Unplaced
          /\ Begins(c, "storing", call[c].pos, "exit", b)
    /\ UNCHANGED <<rows, evidence, book>>

\* Mutant of PlacementFails: a placement that raises gives the claim back.
PlacementReleases(c) ==
    /\ Ends(c, "placing")
    /\ rows' = [rows EXCEPT ![call[c].pos].claimed = FALSE]
    /\ UNCHANGED <<evidence, book>>

\* A timeout, an HTTP error or an answer without an order id: the claim stays.
PlacementFails(c) ==
    /\ Ends(c, "placing")
    /\ UNCHANGED <<rows, evidence, book>>

\* update_open_position with the order id, refused when the row was closed.
StoreExitId(c) ==
    LET p == call[c].pos
    IN \/ /\ Goes(c, "storing", "querying")
          /\ rows[p].open
          /\ rows' = [rows EXCEPT ![p].exitId = call[c].id]
          /\ UNCHANGED <<evidence, book>>
       \/ /\ Ends(c, "storing")
          /\ ~rows[p].open
          /\ UNCHANGED <<rows, evidence, book>>

\* What get_order_status(b) may answer: about b or about some other order,
\* the quantity filled possibly left out, a status that runs ahead of the
\* quantity, a failed lookup, and confirmed or not.
RepliesAbout(b) ==
    {[id |-> b, status |-> s, filled |-> 0, confirmed |-> FALSE] : s \in {"failed", "not_found"}}
    \cup {r \in Reply :
            LET o == book[r.id]
            IN /\ o.status \notin Unplaced
               /\ r.filled \in {0, o.filled}
               /\ r.status \in IF o.filled > 0 THEN {o.status, "filled"} ELSE {o.status}}

\* Mutant of ProvesExit: a filled status is proof enough.
ProvesByStatus(r, id) == r.confirmed /\ r.id = id /\ r.status \in FilledStatuses

\* Mutant of ProvesExit: a fill has to exceed the position.
ProvesBeyondLot(r, id) ==
    r.confirmed /\ r.id = id /\ r.status \in FilledStatuses /\ r.filled > Lot

\* Confirmed, about the order asked for, filled, and for the whole position.
ProvesExit(r, id) ==
    /\ r.confirmed
    /\ r.id = id
    /\ r.status \in FilledStatuses
    /\ r.filled = Lot

\* The answer is judged by what the call read before, with no transaction in
\* between.  Not confirmed, about another order, rejected, pending or a part of
\* the position: the call raises or reports exit_pending and leaves the claim.
Judge(c, r) ==
    /\ IF ProvesExit(r, call[c].id) THEN Goes(c, "querying", "closing") ELSE Ends(c, "querying")
    /\ UNCHANGED <<rows, evidence, book>>

QueryStatus(c) ==
    /\ call[c].at = "querying"
    /\ \E r \in RepliesAbout(call[c].id) : Judge(c, r)

LookupFails(c) ==
    /\ Ends(c, "querying")
    /\ UNCHANGED <<rows, evidence, book>>

-----------------------------------------------------------------------------
(* Closing a row, by an exit or by the sweep.                              *)

\* close_open_position reads the open row ...
FindOpen(c) ==
    /\ call[c].at = "closing"
    /\ IF rows[call[c].pos].open THEN Goes(c, "closing", "writing") ELSE Ends(c, "closing")
    /\ UNCHANGED <<rows, evidence, book>>

\* ... and writes it by its primary key, whatever became of it since.
CloseRow(c) ==
    LET p == call[c].pos
    IN /\ call[c].at = "writing"
       /\ rows' = [rows EXCEPT ![p] =
                     [open |-> FALSE, claimed |-> @.claimed, exitId |-> @.exitId,
                      reason |-> call[c].by]]
       /\ IF p \notin LivePositions /\ call[c].by = "exit"
            THEN Goes(c, "writing", "evidencing")
            ELSE Ends(c, "writing")
       /\ UNCHANGED <<evidence, book>>

\* close_paper_trade_evidence: the trade and the journal row.
CloseEvidence(c) ==
    /\ Ends(c, "evidencing")
    /\ evidence' = evidence \cup {call[c].pos}
    /\ UNCHANGED <<rows, book>>

\* The sweep has read an open position and does not find it among the
\* broker's; LiveReconciliation has the rest of the pass.  It spares a PAPER
\* position, whose broker says "confirmed" or "not_found" and nothing else.
Condemn(c, p) ==
    /\ p \in LivePositions
    /\ call[c].at = "idle"
    /\ rows[p].open
    /\ Begins(c, "closing", p, "swept", NoId)
    /\ UNCHANGED <<rows, evidence, book>>

-----------------------------------------------------------------------------

\* The worker dies, or a database call raises.
Crash(c) ==
    /\ call[c].at \notin {"idle", "crashed"}
    /\ call' = [call EXCEPT ![c] = [NoCall EXCEPT !.at = "crashed"]]
    /\ UNCHANGED <<rows, evidence, book>>

Restart(c) ==
    /\ Ends(c, "crashed")
    /\ UNCHANGED <<rows, evidence, book>>

\* The broker takes an exit order, refuses it, or never gets it.
BrokerAccepts(b) ==
    /\ book[b].status = "inflight"
    /\ \E s \in {"open", "rejected", "lost"} : book' = [book EXCEPT ![b].status = s]
    /\ UNCHANGED <<rows, evidence, call>>

BrokerFills(b) ==
    /\ book[b].status \in Working
    /\ \E n \in book[b].filled + 1 .. Lot :
          book' = [book EXCEPT ![b] =
              [owner |-> @.owner, filled |-> n,
               status |-> IF n = Lot THEN "filled" ELSE "partially_filled"]]
    /\ UNCHANGED <<rows, evidence, call>>

BrokerEnds(b) ==
    /\ book[b].status \in Working
    /\ book' = [book EXCEPT ![b].status = "cancelled"]
    /\ UNCHANGED <<rows, evidence, call>>

CallStep(c) ==
    \/ ClaimExit(c) \/ SendExit(c) \/ PlacementAcked(c) \/ PlacementFails(c) \/ StoreExitId(c)
    \/ QueryStatus(c) \/ LookupFails(c) \/ FindOpen(c) \/ CloseRow(c) \/ CloseEvidence(c) \/ Restart(c)

Next ==
    \/ \E c \in Callers : CallStep(c) \/ Crash(c)
    \/ \E c \in Callers, p \in Positions : ReadPosition(c, p) \/ Condemn(c, p)
    \/ \E b \in BrokerIds : BrokerAccepts(b) \/ BrokerFills(b) \/ BrokerEnds(b)

Spec == Init /\ [][Next]_vars

\* A lookup of a filled exit of p says so.
AnsweredTruly(c, p) ==
    /\ call[c].at = "querying"
    /\ call[c].pos = p
    /\ book[call[c].id].filled = Lot
    /\ Judge(c, [id |-> call[c].id, status |-> "filled", filled |-> Lot, confirmed |-> TRUE])

\* The exit monitor asks for the exit of p again and again, which the worker
\* loop does every few seconds while the rule that asks for the exit holds;
\* lookups do not fail for ever, and neither do workers.
FairSpec ==
    /\ Spec
    /\ \A c \in Callers : WF_vars(CallStep(c))
    /\ \A c \in Callers, p \in LivePositions :
          SF_vars(ReadPosition(c, p)) /\ SF_vars(AnsweredTruly(c, p))
    /\ <>[](\A c \in Callers : call[c].at # "crashed")

-----------------------------------------------------------------------------
(* Correctness.                                                            *)

TypeOK ==
    /\ rows \in [Positions -> Row]
    /\ evidence \subseteq Positions \ LivePositions
    /\ call \in [Callers -> Call]
    /\ book \in [BrokerIds -> ExitOrder]

\* No position is sold twice: however many monitors and operators ask, and
\* whatever they crash on, time out on or are told, at most one exit order is
\* ever sent for it.
OneExitPerPosition ==
    \A a, b \in BrokerIds :
        book[a].owner = book[b].owner /\ book[a].owner # NoPosition => a = b

\* A LIVE position is recorded as exited only when its own exit order was
\* filled for the whole of it: not on a part, not on an accepted order, not on
\* the fill of another.
ExitCloseIsWhole ==
    \A p \in LivePositions : rows[p].reason = "exit" =>
        \E b \in BrokerIds : book[b].owner = p /\ book[b].filled = Lot

\* The row knows about its exit: an order sent for a position finds its row
\* claimed, and an order id in a row is that of the position's own exit.
ExitIdentity ==
    \A p \in Positions : \A b \in BrokerIds :
        /\ book[b].owner = p => rows[p].claimed
        /\ rows[p].exitId = b => book[b].owner = p

\* An exit the broker has filled and the row knows of is recorded: the
\* position does not stay open in the books after it was sold.
FilledExitCloses ==
    \A p \in LivePositions : \A b \in BrokerIds :
        rows[p].exitId = b /\ book[b].filled = Lot ~> ~rows[p].open
=============================================================================
