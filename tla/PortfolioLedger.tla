-------------------------- MODULE PortfolioLedger --------------------------
(***************************************************************************)
(* One symbol of one portfolio (app/modules/portfolio): the history of its *)
(* transactions, and the holdings row whose quantity the service keeps     *)
(* beside it.  A transaction is recorded by applying it to the quantity    *)
(* that was read; one is deleted by replaying those that remain in the     *)
(* order of their dates; and the holding can be created, overwritten and   *)
(* deleted by hand.                                                        *)
(*                                                                         *)
(* A request is one database transaction under READ COMMITTED, so that it  *)
(* reads what others have committed and its writes appear when it commits. *)
(* Prices, fees and the average cost are left out: the cost is computed    *)
(* and written where the quantity is.                                      *)
(*                                                                         *)
(* Quantities are counted in parts of the last decimal that a column keeps *)
(* (Fine of them), and between columns the engine has a fraction of such   *)
(* parts.  The noise of its floats is left out: it is below the tolerance  *)
(* that the engine has for it, and rounding removes it, as long as a       *)
(* quantity has no more than 15 digits.                                    *)
(***************************************************************************)
EXTENDS Integers, Sequences

CONSTANTS
    Requests,    \* bound: how many requests write, in the order they begin
    Asked,       \* the transactions that callers ask for
    Quantities,  \* the quantities of manual holdings
    Fine,        \* parts in the last decimal of a column: 6 of a quantity, 4 of a ratio
    Tolerance,   \* parts that a SELL may miss: 1e-9
    Overlap,     \* whether a request may begin before another has ended
    Manual,      \* whether holdings are created and deleted by hand
    Nothing      \* no row

ASSUME RequestsAssumption == Requests \in Nat
ASSUME QuantitiesAssumption == Quantities \subseteq Nat
ASSUME FineAssumption == Fine \in Nat \ {0} /\ Tolerance \in Nat /\ 2 * Tolerance < Fine
ASSUME SwitchAssumption == {Overlap, Manual} \subseteq BOOLEAN

VARIABLES
    history,   \* the requests whose transactions are on record
    holding,   \* the holdings row
    request,   \* what each request that has begun is doing
    disturbed  \* whether, since the holding was last recomputed, something
               \* has happened that the code does not guard against, or a
               \* column has rounded (nothing in the code reads it)

vars == <<history, holding, request, disturbed>>

-----------------------------------------------------------------------------
(* The position engine.                                                    *)

Kinds == {"BUY", "SELL", "BONUS", "SPLIT", "DIVIDEND"}

\* from and to: the split ratio.
Trade == [kind : Kinds, quantity : Nat, from : Nat, to : Nat, date : Nat]

ASSUME AskedAssumption == Asked \subseteq Trade

\* A fraction, numerator first; one that is whole has the denominator 1.
Fraction == Nat \X (Nat \ {0})

Reduced(n, d) == IF n % d = 0 THEN <<n \div d, 1>> ELSE <<n, d>>

Exactly(q) == <<q, 1>>

Refused == <<-1, 1>>

\* What a SELL leaves, with a tolerance both ways.
Sold(n, d, q) ==
    IF q * d > n + Tolerance * d THEN Refused
    ELSE IF n <= q * d + Tolerance * d THEN Exactly(0)
    ELSE Reduced(n - q * d, d)

Apply(x, t) ==
    IF x = Refused THEN Refused
    ELSE CASE t.kind \in {"BUY", "BONUS"} -> Reduced(x[1] + t.quantity * x[2], x[2])
           [] t.kind = "SELL" -> Sold(x[1], x[2], t.quantity)
           [] t.kind = "SPLIT" -> IF t.from = 0 \/ t.to = 0 THEN Refused
                                  ELSE Reduced(x[1] * t.to, x[2] * t.from)
           [] t.kind = "DIVIDEND" -> x

\* What a column keeps.
Rounded(x) == ((2 * x[1] + Fine * x[2]) \div (2 * Fine * x[2])) * Fine

Column(q) == Rounded(Exactly(q))

Stored(t) ==
    [t EXCEPT !.quantity = Column(@), !.from = Column(@), !.to = Column(@)]

\* created_at is the time at which the database transaction began, so that
\* the requests of one date are in the order of their numbers.
Before(trade, m, n) ==
    trade[m].date < trade[n].date \/ (trade[m].date = trade[n].date /\ m < n)

Latest(trade, ids) == CHOOSE n \in ids : \A m \in ids \ {n} : Before(trade, m, n)

\* The quantity after all of a set of transactions, the latest applied last.
QuantityAfter(trade) ==
    LET after[ids \in SUBSET DOMAIN trade] ==
          IF ids = {} THEN Exactly(0)
          ELSE LET n == Latest(trade, ids) IN Apply(after[ids \ {n}], trade[n])
    IN  after[DOMAIN trade]

Trades(ids) == [n \in ids |-> Stored(request[n].trade)]

Replay(ids) == QuantityAfter(Trades(ids))

-----------------------------------------------------------------------------

Ids == 1 .. Requests

\* row: the request that inserted it.
Holding == [row : Ids, quantity : Nat]

ASSUME NothingAssumption == Nothing \notin Holding

Ops == {"record", "delete", "create", "drop"}

NoTrade == [kind |-> "DIVIDEND", quantity |-> 0, from |-> 0, to |-> 0, date |-> 0]

\* trade: as it was asked for; target: the transaction to delete; read and
\* listed: the holding and the history that it read; quantity: what the engine
\* gave.  A delete is "listed" when it has replayed what remains and not yet
\* read the holding.
Request ==
    [op : Ops, at : {"begun", "listed", "computed", "ended"}, trade : Trade,
     target : Ids \cup {0}, read : Holding \cup {Nothing}, listed : SUBSET Ids,
     quantity : Fraction]

TypeOK ==
    /\ history \subseteq DOMAIN request
    /\ holding \in Holding \cup {Nothing}
    /\ request \in Seq(Request)
    /\ Len(request) \leq Requests
    /\ disturbed \in BOOLEAN

Init ==
    /\ history = {}
    /\ holding = Nothing
    /\ request = <<>>
    /\ disturbed = FALSE

Shown(h) == IF h = Nothing THEN 0 ELSE h.quantity

CanBegin ==
    /\ Len(request) < Requests
    /\ Overlap \/ \A n \in DOMAIN request : request[n].at = "ended"

Begin(op, at, t, target) ==
    request' = Append(request, [op |-> op, at |-> at, trade |-> t, target |-> target,
                                read |-> Nothing, listed |-> {}, quantity |-> Exactly(0)])

\* What it read goes with it; its transaction stays if it is in the history.
Ends(n) ==
    request' = [request EXCEPT ![n] = [@ EXCEPT !.at = "ended", !.read = Nothing,
                                                !.listed = {}, !.quantity = Exactly(0)]]

\* Somebody has committed a change since the request read what it goes by.
Overtaken(n) == holding # request[n].read \/ history # request[n].listed

\* What the columns keep is not what the engine worked with.
Rounds(n) ==
    \/ request[n].quantity # Exactly(Rounded(request[n].quantity))
    \/ request[n].trade # Stored(request[n].trade)

-----------------------------------------------------------------------------
(* record_transaction.                                                     *)

\* The check of the portfolio's owner begins the database transaction.
BeginRecord(t) ==
    /\ CanBegin
    /\ Begin("record", "begun", t, 0)
    /\ UNCHANGED <<history, holding, disturbed>>

Computes(n, at, read, quantity) ==
    /\ quantity # Refused
    /\ request' = [request EXCEPT ![n] = [@ EXCEPT !.at = at, !.read = read,
                                                   !.listed = history, !.quantity = quantity]]
    /\ UNCHANGED <<history, holding, disturbed>>

\* Only a BUY may open a holding; what the engine refuses leaves nothing.
ReadHolding(n) ==
    /\ request[n].op = "record" /\ request[n].at = "begun"
    /\ holding # Nothing \/ request[n].trade.kind = "BUY"
    /\ Computes(n, "computed", holding, Apply(Exactly(Shown(holding)), request[n].trade))

\* The holding that was read is the one that is updated, and a new one is
\* inserted only where none has been inserted since.
SameRow(h, read) ==
    IF read = Nothing THEN h = Nothing ELSE h # Nothing /\ h.row = read.row

Backdated(n) == \E m \in history : Before(Trades(DOMAIN request), n, m)

\* The session writes a quantity that differs from the one it read.
Written(r) ==
    IF Rounded(r.quantity) = r.read.quantity THEN holding
    ELSE [holding EXCEPT !.quantity = Rounded(r.quantity)]

CommitRecord(n) ==
    LET r == request[n]
    IN  /\ r.op = "record" /\ r.at = "computed"
        /\ SameRow(holding, r.read)
        /\ history' = history \cup {n}
        /\ holding' = IF r.read = Nothing THEN [row |-> n, quantity |-> Rounded(r.quantity)]
                      ELSE Written(r)
        /\ Ends(n)
        /\ disturbed' = (disturbed \/ Overtaken(n) \/ Backdated(n) \/ Rounds(n))

-----------------------------------------------------------------------------
(* delete_transaction.                                                     *)

FindTransaction(k) ==
    /\ CanBegin
    /\ k \in history
    /\ Begin("delete", "begun", NoTrade, k)
    /\ UNCHANGED <<history, holding, disturbed>>

\* Mutant of ListRemaining: the list is read before the transaction is deleted.
ListBeforeDelete(n) ==
    /\ request[n].op = "delete" /\ request[n].at = "begun"
    /\ \A m \in DOMAIN request \ {n} :
           request[m].op = "delete" /\ request[m].at \in {"listed", "computed"} =>
               request[m].target # request[n].target
    /\ Computes(n, "listed", Nothing, Replay(history))

\* The DELETE waits for another that has the row; the list does not show
\* the transaction any more, nor anything that has not been committed.
ListRemaining(n) ==
    /\ request[n].op = "delete" /\ request[n].at = "begun"
    /\ \A m \in DOMAIN request \ {n} :
           request[m].op = "delete" /\ request[m].at \in {"listed", "computed"} =>
               request[m].target # request[n].target
    /\ Computes(n, "listed", Nothing, Replay(history \ {request[n].target}))

FindHolding(n) ==
    /\ request[n].at = "listed"
    /\ request' = [request EXCEPT ![n].at = "computed", ![n].read = holding]
    /\ UNCHANGED <<history, holding, disturbed>>

\* A holding that is not there is not written; the transaction goes.
CommitDelete(n) ==
    LET r == request[n]
    IN  /\ r.op = "delete" /\ r.at = "computed"
        /\ r.read # Nothing => SameRow(holding, r.read)
        /\ history' = history \ {r.target}
        /\ holding' = IF r.read = Nothing THEN holding ELSE Written(r)
        /\ Ends(n)
        /\ disturbed' = (Overtaken(n) \/ Rounds(n) \/ (disturbed /\ holding = Nothing))

\* Refused by the engine or by a constraint, or the process dies.
RollBack(n) ==
    /\ request[n].at # "ended"
    /\ Ends(n)
    /\ UNCHANGED <<history, holding, disturbed>>

-----------------------------------------------------------------------------
(* Holdings by hand.  The row of a symbol that has one is overwritten with *)
(* a quantity that depends on nothing that was read: one step.             *)

CreateHolding(q) ==
    /\ Manual
    /\ CanBegin
    /\ Begin("create", "ended", NoTrade, 0)
    /\ holding' = IF holding = Nothing THEN [row |-> Len(request) + 1, quantity |-> Column(q)]
                  ELSE [holding EXCEPT !.quantity = Column(q)]
    /\ disturbed' = (disturbed \/ Column(q) # Shown(holding))
    /\ UNCHANGED history

\* The transactions stay.
DeleteHolding ==
    /\ Manual
    /\ CanBegin
    /\ holding # Nothing
    /\ Begin("drop", "ended", NoTrade, 0)
    /\ holding' = Nothing
    /\ disturbed' = TRUE
    /\ UNCHANGED history

-----------------------------------------------------------------------------

Next ==
    \/ \E t \in Asked : BeginRecord(t)
    \/ \E k \in Ids : FindTransaction(k)
    \/ \E q \in Quantities : CreateHolding(q)
    \/ DeleteHolding
    \/ \E n \in DOMAIN request :
         \/ ReadHolding(n) \/ CommitRecord(n)
         \/ ListRemaining(n) \/ FindHolding(n) \/ CommitDelete(n)
         \/ RollBack(n)

Spec == Init /\ [][Next]_vars

-----------------------------------------------------------------------------
(* Properties.                                                             *)

InSync == Replay(history) = Exactly(Shown(holding))

\* What the service does keep: the holding is what a replay of the history
\* gives, unless since it was last recomputed a request was overtaken, a
\* transaction was recorded with a date before one on record, the holding was
\* changed by hand, or a column could not keep a quantity or a ratio to its
\* last decimal.  Recomputing repairs all of them, if its result has no more
\* than six decimals.
SyncUnlessDisturbed == disturbed \/ InSync
=============================================================================
