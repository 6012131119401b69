------------------------ MODULE PaperExecution_proofs ------------------------
(***************************************************************************)
(* Proofs about PAPER trading for any orders, keys and processes, with     *)
(* passes in any of them, restarts, raised exceptions and cancellations.   *)
(*                                                                         *)
(* The argument: a call inserts its position only after its intent took    *)
(* the evidence "submitted", and no step of PAPER trading takes an intent  *)
(* out of that status again.  So an open position holds its key, and the   *)
(* index lets one order hold it.                                           *)
(***************************************************************************)
EXTENDS PaperExecution, TLAPS

\* An order's intent once the broker id is recorded.
Held(o) == [status |-> "submitted", brokerId |-> PaperId[o]]

OneHolder ==
    \A o, p \in Orders :
        SameKey(o, p) /\ HoldsKey(intents, o) /\ HoldsKey(intents, p) => o = p

Evidenced == {"evidenced", "accepted", "confirming", "trading", "positioning"}

Accepted == {"accepted", "confirming", "trading", "positioning"}

\* What a call under way has put on record, and what a position rests on.
CallsAreSound ==
    \A o \in Orders :
        /\ call[o].at \in Evidenced => intents[o] = Held(o)
        /\ call[o].at \in Accepted => orders[o].brokerId = PaperId[o]
        /\ positions[o] # "absent" => call[o].at = "done"
        /\ trades[o] = "closed" => positions[o] = "closed"

PassesAreSound == \A q \in Processes : pass[q].at = "reviewing" => pass[q].now \in Orders

IInv ==
    /\ TypeOK
    /\ OneHolder
    /\ CallsAreSound
    /\ PassesAreSound
    /\ OpenPositionsAreBacked

-----------------------------------------------------------------------------
(* What the operators of the ledgers do, order by order.                   *)

Statuses == OrderStatuses \cup {"absent"}

LEMMA StatusFacts ==
    /\ {"requested", "risk_approved", "broker_submitted", "reconciliation_required",
        "cancelled", "rejected", "failed"} \subseteq OrderStatuses
    /\ OrderStatusOf("confirmed", TRUE) = "broker_submitted"
    /\ OrderStatusOf("not_found", FALSE) = "rejected"
    /\ ShouldCreatePosition("broker_submitted")
<1>1. OrderStatusOf("confirmed", TRUE) = "broker_submitted"
  BY DEF OrderStatusOf
<1>2. OrderStatusOf("not_found", FALSE) = "rejected"
  BY DEF OrderStatusOf
<1> QED
  BY <1>1, <1>2
  DEF OrderStatuses, ActiveStatuses, TerminalStatuses, ShouldCreatePosition,
      PositionCreatingStatuses

LEMMA IdsAreIds == \A o \in Orders : PaperId[o] \in BrokerIds /\ PaperId[o] # NoId
  BY PaperIdAssumption, NoIdAssumption

\* Only o's row changes, and it is never left without an id it had.
OrdersBecome(o, b) ==
    /\ orders' \in [Orders -> OrderRow]
    /\ \A p \in Orders \ {o} : orders'[p] = orders[p]
    /\ orders'[o].brokerId = IF b = NoId THEN orders[o].brokerId ELSE b

LEMMA TransitionDef ==
    ASSUME TypeOK, NEW o \in Orders, NEW status \in OrderStatuses,
           NEW b \in BrokerIds \cup {NoId}, orders' = AfterTransition(orders, o, status, b)
    PROVE  OrdersBecome(o, b)
<1>1. orders[o].brokerId \in BrokerIds \cup {NoId}
  BY DEF TypeOK, OrderRow
<1>2. [status |-> status, brokerId |-> IF b = NoId THEN orders[o].brokerId ELSE b] \in OrderRow
  BY <1>1 DEF OrderRow
<1> QED
  BY <1>2 DEF AfterTransition, OrdersBecome, TypeOK

LEMMA CreateDef ==
    ASSUME TypeOK, NEW o \in Orders, orders' = AfterCreate(orders, o)
    PROVE  /\ orders' \in [Orders -> OrderRow]
           /\ \A p \in Orders \ {o} : orders'[p] = orders[p]
<1>1. [status |-> "requested", brokerId |-> NoId] \in OrderRow
  BY StatusFacts DEF OrderRow
<1> QED
  BY <1>1 DEF AfterCreate, TypeOK

\* Only o's intent changes.
IntentsBecome(o, new) ==
    /\ intents' \in [Orders -> IntentRow]
    /\ \A p \in Orders \ {o} : intents'[p] = intents[p]
    /\ intents'[o] = new

LEMMA ClaimDef ==
    ASSUME TypeOK, NEW o \in Orders, intents' = AfterClaim(intents, o)
    PROVE  IntentsBecome(o, [status |-> "claimed", brokerId |-> NoId])
<1>1. [status |-> "claimed", brokerId |-> NoId] \in IntentRow
  BY DEF IntentRow, IntentStatuses, ActiveIntentStatuses
<1> QED
  BY <1>1 DEF AfterClaim, IntentsBecome, TypeOK

LEMMA StartedDef ==
    ASSUME TypeOK, NEW o \in Orders, intents' = AfterMarkStarted(intents, o)
    PROVE  /\ intents' \in [Orders -> IntentRow]
           /\ \A p \in Orders \ {o} : intents'[p] = intents[p]
           /\ intents'[o].status = "reconciliation_required"
<1>1. "reconciliation_required" \in IntentStatuses
  BY DEF IntentStatuses, ActiveIntentStatuses
<1> QED
  BY <1>1 DEF AfterMarkStarted, TypeOK, IntentRow

LEMMA EvidenceDef ==
    ASSUME TypeOK, NEW o \in Orders, intents' = AfterEvidence(intents, o, PaperId[o], "submitted")
    PROVE  IntentsBecome(o, Held(o))
<1>1. Held(o) \in IntentRow
  BY IdsAreIds DEF Held, IntentRow, IntentStatuses, ActiveIntentStatuses
<1> QED
  BY <1>1 DEF AfterEvidence, Held, IntentsBecome, TypeOK

\* Evidence is only accepted by an intent that holds its key.
LEMMA EvidenceNeedsKey ==
    ASSUME TypeOK, NEW o \in Orders, AcceptsEvidence(intents, o, PaperId[o], "submitted")
    PROVE  HoldsKey(intents, o)
<1>1. CASE intents[o].status = "reconciliation_required"
  BY <1>1 DEF HoldsKey, ActiveIntentStatuses
<1>2. CASE "submitted" \in EvidenceAfter(intents[o].status)
  BY <1>2 DEF EvidenceAfter, HoldsKey, ActiveIntentStatuses, TerminalIntentStatuses
<1> QED
  BY <1>1, <1>2 DEF AcceptsEvidence

\* A call that goes on stays in its process.
LEMMA GoesDef ==
    ASSUME TypeOK, NEW o \in Orders, NEW from, NEW to \in CallAt, Goes(o, from, to)
    PROVE  /\ call' \in [Orders -> [at : CallAt, by : Processes]]
           /\ call[o].at = from /\ call'[o].at = to
           /\ \A p \in Orders \ {o} : call'[p] = call[p]
  BY DEF Goes, TypeOK

\* A pass that goes on.
LEMMA PassesDef ==
    ASSUME IInv, NEW q \in Processes, NEW at \in PassAt, NEW todo \in SUBSET Orders,
           NEW now \in Orders \cup {NoOrder}, Passes(q, at, todo, now),
           at = "reviewing" => now \in Orders
    PROVE  /\ pass' \in [Processes -> [at : PassAt, todo : SUBSET Orders,
                                       now : Orders \cup {NoOrder}]]
           /\ PassesAreSound'
<1>1. pass' = [pass EXCEPT ![q] = [at |-> at, todo |-> todo, now |-> now]]
  BY DEF Passes
<1>2. /\ pass' \in [Processes -> [at : PassAt, todo : SUBSET Orders,
                                  now : Orders \cup {NoOrder}]]
      /\ pass'[q].at = at /\ pass'[q].now = now
      /\ \A r \in Processes \ {q} : pass'[r] = pass[r]
  BY <1>1 DEF IInv, TypeOK
<1> QED
  BY <1>2 DEF IInv, PassesAreSound

-----------------------------------------------------------------------------

LEMMA InitInv == Init => IInv
<1> SUFFICES ASSUME Init PROVE IInv
  OBVIOUS
<1>1. intents \in [Orders -> IntentRow] /\ \A o \in Orders : intents[o].status = "absent"
  BY DEF Init, AbsentRow, IntentRow, IntentStatuses
<1>2. orders \in [Orders -> OrderRow]
  BY DEF Init, AbsentOrder, OrderRow
<1>3. /\ call \in [Orders -> [at : CallAt, by : Processes]]
      /\ \A o \in Orders : call[o].at = "idle"
  BY DEF Init, CallAt
<1>4. /\ pass \in [Processes -> [at : PassAt, todo : SUBSET Orders,
                                 now : Orders \cup {NoOrder}]]
      /\ \A q \in Processes : pass[q].at = "idle"
  BY DEF Init, NoPass, PassAt
<1>5. TypeOK
  BY <1>1, <1>2, <1>3, <1>4 DEF Init, TypeOK, TradeStatuses, PositionStatuses
<1>6. OneHolder
  BY <1>1 DEF OneHolder, HoldsKey, ActiveIntentStatuses
<1>7. CallsAreSound
  BY <1>3 DEF Init, CallsAreSound, Evidenced, Accepted
<1>8. PassesAreSound
  BY <1>4 DEF PassesAreSound
<1>9. OpenPositionsAreBacked
  BY DEF Init, OpenPositionsAreBacked
<1> QED
  BY <1>5, <1>6, <1>7, <1>8, <1>9 DEF IInv

\* A call changes what is its own order's.
LEMMA CallAdvances ==
    ASSUME IInv, NEW o \in Orders, NEW from, NEW to \in CallAt, Goes(o, from, to),
           from # "done",
           intents' \in [Orders -> IntentRow],
           orders' \in [Orders -> OrderRow],
           trades' \in [Orders -> TradeStatuses],
           placed' \in [Processes -> SUBSET Orders],
           UNCHANGED <<positions, pass>>,
           \A p \in Orders \ {o} :
              intents'[p] = intents[p] /\ orders'[p] = orders[p] /\ trades'[p] = trades[p],
           HoldsKey(intents', o) =>
              HoldsKey(intents, o)
              \/ \A p \in Orders : SameKey(o, p) => ~HoldsKey(intents, p),
           to \in Evidenced => intents'[o] = Held(o),
           to \in Accepted => orders'[o].brokerId = PaperId[o],
           trades'[o] # "closed" \/ trades'[o] = trades[o]
    PROVE  IInv'
<1>1. /\ call' \in [Orders -> [at : CallAt, by : Processes]]
      /\ call[o].at = from /\ call'[o].at = to
      /\ \A p \in Orders \ {o} : call'[p] = call[p]
  BY GoesDef DEF IInv
<1>2. positions[o] = "absent"
  BY <1>1 DEF IInv, CallsAreSound
<1>3. TypeOK'
  BY <1>1 DEF IInv, TypeOK
<1>4. OneHolder'
  <2> SUFFICES ASSUME NEW p \in Orders, NEW r \in Orders, SameKey(p, r),
                      HoldsKey(intents', p), HoldsKey(intents', r)
               PROVE  p = r
    BY DEF OneHolder, HoldsKey, SameKey
  <2>1. \A s \in Orders \ {o} : HoldsKey(intents', s) => HoldsKey(intents, s)
    BY DEF HoldsKey
  <2>2. CASE p # o /\ r # o
    BY <2>1, <2>2 DEF IInv, OneHolder
  <2>3. CASE p = o /\ r # o
    BY <2>1, <2>3 DEF IInv, OneHolder
  <2>4. CASE p # o /\ r = o
    BY <2>1, <2>4 DEF IInv, OneHolder, SameKey
  <2> QED
    BY <2>2, <2>3, <2>4
<1>5. CallsAreSound'
  BY <1>1, <1>2 DEF IInv, CallsAreSound, Held
<1>6. PassesAreSound'
  BY DEF IInv, PassesAreSound
<1>7. OpenPositionsAreBacked'
  BY <1>2 DEF IInv, OpenPositionsAreBacked
<1> QED
  BY <1>3, <1>4, <1>5, <1>6, <1>7 DEF IInv

\* What runs beside the calls keeps the intents, takes no id from an order and
\* closes no trade.
LEMMA OthersKeep ==
    ASSUME IInv, UNCHANGED <<intents, positions, call, placed>>,
           orders' \in [Orders -> OrderRow],
           trades' \in [Orders -> TradeStatuses],
           pass' \in [Processes -> [at : PassAt, todo : SUBSET Orders,
                                    now : Orders \cup {NoOrder}]],
           PassesAreSound',
           \A p \in Orders : orders[p].brokerId = PaperId[p] => orders'[p].brokerId = PaperId[p],
           \A p \in Orders : trades'[p] = "closed" => trades[p] = "closed"
    PROVE  IInv'
<1>1. TypeOK'
  BY DEF IInv, TypeOK
<1>2. OneHolder'
  BY DEF IInv, OneHolder
<1>3. CallsAreSound'
  BY DEF IInv, CallsAreSound, Accepted, Evidenced
<1>4. OpenPositionsAreBacked'
  BY DEF IInv, OpenPositionsAreBacked
<1> QED
  BY <1>1, <1>2, <1>3, <1>4 DEF IInv

-----------------------------------------------------------------------------

LEMMA CallStepInv == ASSUME IInv, NEW o \in Orders, CallStep(o) PROVE IInv'
<1> USE DEF CallAt, Evidenced, Accepted
<1>0. TypeOK
  BY DEF IInv
<1>1. CASE CheckDuplicate(o)
  <2> DEFINE to == IF HasActiveOrder(orders, o) THEN "done" ELSE "checked"
  <2>1. Goes(o, "idle", to) /\ to \in {"done", "checked"}
    BY <1>1 DEF CheckDuplicate
  <2> HIDE DEF to
  <2> QED
    BY <1>0, <1>1, <2>1, CallAdvances DEF CheckDuplicate, TypeOK, tables
<1>2. CASE CreateOrder(o)
  BY <1>0, <1>2, CreateDef, CallAdvances DEF CreateOrder, TypeOK
<1>3. CASE ApproveRisk(o)
  BY <1>0, <1>3, StatusFacts, TransitionDef, CallAdvances DEF ApproveRisk, TypeOK, OrdersBecome
<1>4. CASE ClaimSubmission(o)
  <2>1. IntentsBecome(o, [status |-> "claimed", brokerId |-> NoId])
    BY <1>0, <1>4, ClaimDef DEF ClaimSubmission
  <2>2. \A p \in Orders : SameKey(o, p) => ~HoldsKey(intents, p)
    BY <1>4 DEF ClaimSubmission, CanClaim
  <2> QED
    BY <1>0, <1>4, <2>1, <2>2, CallAdvances DEF ClaimSubmission, TypeOK, IntentsBecome
<1>5. CASE ClaimConflicts(o)
  BY <1>0, <1>5, CallAdvances DEF ClaimConflicts, TypeOK, tables
<1>6. CASE MarkSubmissionStarted(o)
  <2>1. HoldsKey(intents, o)
    BY <1>6 DEF MarkSubmissionStarted, CanMarkStarted, HoldsKey, ActiveIntentStatuses
  <2>2. /\ intents' \in [Orders -> IntentRow]
        /\ \A p \in Orders \ {o} : intents'[p] = intents[p]
    BY <1>0, <1>6, StartedDef DEF MarkSubmissionStarted
  <2> QED
    BY <1>0, <1>6, <2>1, <2>2, CallAdvances DEF MarkSubmissionStarted, TypeOK
<1>7. CASE SubmitTransition(o)
  BY <1>0, <1>7, StatusFacts, TransitionDef, CallAdvances
  DEF SubmitTransition, TypeOK, OrdersBecome
<1>8. CASE PlaceOrder(o)
  <2>1. placed' \in [Processes -> SUBSET Orders]
    BY <1>0, <1>8 DEF PlaceOrder, TypeOK
  <2> QED
    BY <1>0, <1>8, <2>1, CallAdvances DEF PlaceOrder, TypeOK, tables
<1>9. CASE RecordSubmitted(o)
  <2>1. IntentsBecome(o, Held(o)) /\ HoldsKey(intents, o)
    BY <1>0, <1>9, EvidenceDef, EvidenceNeedsKey DEF RecordSubmitted
  <2> QED
    BY <1>0, <1>9, <2>1, CallAdvances DEF RecordSubmitted, TypeOK, IntentsBecome
<1>10. CASE AcceptTransition(o)
  <2>1. OrdersBecome(o, PaperId[o]) /\ orders'[o].brokerId = PaperId[o]
    BY <1>0, <1>10, StatusFacts, IdsAreIds, TransitionDef DEF AcceptTransition, OrdersBecome
  <2>2. intents[o] = Held(o)
    BY <1>0, <1>10, GoesDef DEF AcceptTransition, IInv, CallsAreSound
  <2> QED
    BY <1>0, <1>10, <2>1, <2>2, CallAdvances DEF AcceptTransition, TypeOK, OrdersBecome
<1>11. CASE TryRaises(o)
  <2>1. call[o].at # "done"
    BY <1>11 DEF TryRaises, InTry
  <2> QED
    BY <1>0, <1>11, <2>1, CallAdvances DEF TryRaises, TypeOK, tables
<1>12. CASE RecordUnknown(o)
  BY <1>0, <1>12, StatusFacts, TransitionDef, CallAdvances DEF RecordUnknown, TypeOK, OrdersBecome
<1>13. CASE ConfirmEvidence(o)
  <2>1. IntentsBecome(o, Held(o)) /\ HoldsKey(intents, o)
    BY <1>0, <1>13, EvidenceDef, EvidenceNeedsKey DEF ConfirmEvidence
  <2>2. orders[o].brokerId = PaperId[o]
    BY <1>0, <1>13, GoesDef DEF ConfirmEvidence, IInv, CallsAreSound
  <2> QED
    BY <1>0, <1>13, <2>1, <2>2, CallAdvances DEF ConfirmEvidence, TypeOK, IntentsBecome
<1>14. CASE ConfirmTransition(o)
  <2>1. OrdersBecome(o, PaperId[o]) /\ orders'[o].brokerId = PaperId[o]
    BY <1>0, <1>14, StatusFacts, IdsAreIds, TransitionDef DEF ConfirmTransition, OrdersBecome
  <2>2. intents[o] = Held(o)
    BY <1>0, <1>14, GoesDef DEF ConfirmTransition, IInv, CallsAreSound
  <2> QED
    BY <1>0, <1>14, <2>1, <2>2, CallAdvances DEF ConfirmTransition, TypeOK, OrdersBecome
<1>15. CASE CreateTrade(o)
  <2>1. /\ trades' \in [Orders -> TradeStatuses]
        /\ trades'[o] = "paper_order_submitted"
        /\ \A p \in Orders \ {o} : trades'[p] = trades[p]
    BY <1>0, <1>15 DEF CreateTrade, TypeOK, TradeStatuses
  <2>2. intents[o] = Held(o) /\ orders[o].brokerId = PaperId[o]
    BY <1>0, <1>15, GoesDef DEF CreateTrade, IInv, CallsAreSound
  <2> QED
    BY <1>0, <1>15, <2>1, <2>2, CallAdvances DEF CreateTrade, TypeOK
<1>16. CASE CreatePosition(o)
  <2>1. /\ call' \in [Orders -> [at : CallAt, by : Processes]]
        /\ call[o].at = "positioning" /\ call'[o].at = "done"
        /\ \A p \in Orders \ {o} : call'[p] = call[p]
    BY <1>0, <1>16, GoesDef DEF CreatePosition
  <2>2. positions' = [positions EXCEPT ![o] = "open"]
    BY <1>16, StatusFacts DEF CreatePosition
  <2>3. /\ positions' \in [Orders -> PositionStatuses]
        /\ \A p \in Orders \ {o} : positions'[p] = positions[p]
    BY <1>0, <2>2 DEF TypeOK, PositionStatuses
  <2>4. TypeOK'
    BY <1>0, <1>16, <2>1, <2>3 DEF CreatePosition, TypeOK
  <2>5. /\ orders[o].brokerId = PaperId[o]
        /\ intents[o] = Held(o)
        /\ trades[o] # "closed"
    BY <2>1 DEF IInv, CallsAreSound
  <2>6. OneHolder' /\ PassesAreSound'
    BY <1>16 DEF CreatePosition, IInv, OneHolder, PassesAreSound
  <2>7. CallsAreSound'
    BY <1>16, <2>1, <2>3 DEF CreatePosition, IInv, CallsAreSound
  <2>8. OpenPositionsAreBacked'
    BY <1>16, <2>3, <2>5 DEF CreatePosition, IInv, OpenPositionsAreBacked, Held
  <2> QED
    BY <2>4, <2>6, <2>7, <2>8 DEF IInv
<1>17. CASE CallRaises(o)
  <2>1. call[o].at # "done"
    BY <1>17 DEF CallRaises
  <2> QED
    BY <1>0, <1>17, <2>1, CallAdvances DEF CallRaises, TypeOK, tables
<1>18. CASE FindTradeOfSignal(o)
  <2>1. intents[o] = Held(o) /\ orders[o].brokerId = PaperId[o]
    BY <1>0, <1>18, GoesDef DEF FindTradeOfSignal, IInv, CallsAreSound
  <2> QED
    BY <1>0, <1>18, <2>1, CallAdvances DEF FindTradeOfSignal, TypeOK, tables
<1> QED
  BY <1>1, <1>2, <1>3, <1>4, <1>5, <1>6, <1>7, <1>8, <1>9, <1>10, <1>11, <1>12, <1>13,
     <1>14, <1>15, <1>16, <1>17, <1>18 DEF CallStep

LEMMA CancelInv ==
    ASSUME IInv, NEW q \in Processes, NEW o \in Orders, CancelOrder(q, o) PROVE IInv'
<1>0. TypeOK
  BY DEF IInv
<1> DEFINE status == IF orders[o].brokerId = NoId \/ Knows(q, o) THEN "cancelled"
                     ELSE OrderStatusOf("not_found", FALSE)
<1>1. status \in OrderStatuses
  BY StatusFacts
<1>2. orders[o].brokerId \in BrokerIds \cup {NoId}
  BY <1>0 DEF TypeOK, OrderRow
<1>3. orders' = AfterTransition(orders, o, status, orders[o].brokerId)
  BY DEF CancelOrder
<1> HIDE DEF status
<1>4. OrdersBecome(o, orders[o].brokerId)
  BY <1>0, <1>1, <1>2, <1>3, TransitionDef
<1> QED
  BY <1>0, <1>4, OthersKeep
  DEF CancelOrder, OrdersBecome, IInv, TypeOK, PassesAreSound

LEMMA ExitInv ==
    ASSUME IInv, NEW o \in Orders, ClosePosition(o) \/ CloseTrade(o) PROVE IInv'
<1>0. TypeOK
  BY DEF IInv
<1>1. CASE ClosePosition(o)
  <2>1. /\ positions' \in [Orders -> PositionStatuses]
        /\ positions'[o] = "exited"
        /\ \A p \in Orders \ {o} : positions'[p] = positions[p]
    BY <1>0, <1>1 DEF ClosePosition, TypeOK, PositionStatuses
  <2>2. TypeOK' /\ OneHolder' /\ PassesAreSound'
    BY <1>1, <2>1 DEF ClosePosition, IInv, TypeOK, OneHolder, PassesAreSound
  <2>3. CallsAreSound'
    BY <1>1, <2>1 DEF ClosePosition, IInv, CallsAreSound
  <2>4. OpenPositionsAreBacked'
    BY <1>1, <2>1 DEF ClosePosition, IInv, OpenPositionsAreBacked
  <2> QED
    BY <2>2, <2>3, <2>4 DEF IInv
<1>2. CASE CloseTrade(o)
  <2>1. /\ positions' \in [Orders -> PositionStatuses]
        /\ positions'[o] = "closed"
        /\ \A p \in Orders \ {o} : positions'[p] = positions[p]
    BY <1>0, <1>2 DEF CloseTrade, TypeOK, PositionStatuses
  <2>2. /\ trades' \in [Orders -> TradeStatuses]
        /\ \A p \in Orders \ {o} : trades'[p] = trades[p]
    BY <1>0, <1>2 DEF CloseTrade, TypeOK, TradeStatuses
  <2>3. TypeOK' /\ OneHolder' /\ PassesAreSound'
    BY <1>2, <2>1, <2>2 DEF CloseTrade, IInv, TypeOK, OneHolder, PassesAreSound
  <2>4. CallsAreSound'
    BY <1>2, <2>1, <2>2 DEF CloseTrade, IInv, CallsAreSound
  <2>5. OpenPositionsAreBacked'
    BY <1>2, <2>1, <2>2 DEF CloseTrade, IInv, OpenPositionsAreBacked
  <2> QED
    BY <2>3, <2>4, <2>5 DEF IInv
<1> QED
  BY <1>1, <1>2

LEMMA PassInv ==
    ASSUME IInv, NEW q \in Processes, StartPass(q) \/ PassStep(q) PROVE IInv'
<1> USE DEF PassAt
<1>0. /\ TypeOK
      /\ pass[q].todo \in SUBSET Orders
  BY DEF IInv, TypeOK
<1>1. CASE StartPass(q)
  <2>1. PICK stale \in SUBSET {o \in Orders : MayBeStale(o)} :
           Passes(q, "recovering", stale, NoOrder)
    BY <1>1 DEF StartPass
  <2>2. stale \in SUBSET Orders
    OBVIOUS
  <2> QED
    BY <1>0, <1>1, <2>1, <2>2, PassesDef, OthersKeep DEF StartPass, TypeOK, tables
<1>2. ASSUME NEW o \in Orders, RecoverStale(q, o) PROVE IInv'
  <2>1. OrdersBecome(o, NoId)
    BY <1>0, <1>2, StatusFacts, TransitionDef DEF RecoverStale
  <2>2. pass[q].todo \ {o} \in SUBSET Orders
    BY <1>0
  <2> QED
    BY <1>0, <1>2, <2>1, <2>2, PassesDef, OthersKeep DEF RecoverStale, TypeOK, OrdersBecome
<1>3. CASE ListOrders(q)
  <2> DEFINE listed == {o \in Orders : orders[o].brokerId # NoId}
  <2>1. listed \in SUBSET Orders /\ Passes(q, "asking", listed, NoOrder)
    BY <1>3 DEF ListOrders
  <2> HIDE DEF listed
  <2> QED
    BY <1>0, <1>3, <2>1, PassesDef, OthersKeep DEF ListOrders, TypeOK, tables
<1>4. ASSUME NEW o \in Orders, FindConfirmed(q, o) PROVE IInv'
  <2>1. pass[q].todo \ {o} \in SUBSET Orders
    BY <1>0
  <2> QED
    BY <1>0, <1>4, <2>1, PassesDef, OthersKeep DEF FindConfirmed, TypeOK, tables
<1>5. ASSUME NEW o \in Orders, FindMissing(q, o) PROVE IInv'
  <2>1. /\ trades' \in [Orders -> TradeStatuses]
        /\ \A p \in Orders : trades'[p] = "closed" => trades[p] = "closed"
    BY <1>0, <1>5 DEF FindMissing, TypeOK, TradeStatuses
  <2> QED
    BY <1>0, <1>5, <2>1, PassesDef, OthersKeep DEF FindMissing, TypeOK
<1>6. CASE ReviewOrder(q)
  <2> DEFINE o == pass[q].now
  <2>1. o \in Orders
    BY <1>6 DEF ReviewOrder, IInv, PassesAreSound
  <2>2. /\ orders' = AfterTransition(orders, o, "reconciliation_required", PaperId[o])
        /\ Passes(q, "asking", pass[q].todo \ {o}, NoOrder)
        /\ UNCHANGED <<intents, trades, positions, call, placed>>
    BY <1>6 DEF ReviewOrder
  <2> HIDE DEF o
  <2>3. OrdersBecome(o, PaperId[o])
    BY <1>0, <2>1, <2>2, StatusFacts, IdsAreIds, TransitionDef
  <2>4. pass[q].todo \ {o} \in SUBSET Orders
    BY <1>0
  <2> QED
    BY <1>0, <2>1, <2>2, <2>3, <2>4, IdsAreIds, PassesDef, OthersKeep DEF TypeOK, OrdersBecome
<1>7. CASE Sweep(q)
  <2>1. Passes(q, "idle", {}, NoOrder)
    BY <1>7 DEF Sweep, NoPass, Passes
  <2> QED
    BY <1>0, <1>7, <2>1, PassesDef, OthersKeep DEF Sweep, TypeOK, tables
<1> QED
  BY <1>1, <1>2, <1>3, <1>4, <1>5, <1>6, <1>7 DEF PassStep

LEMMA RestartInv == ASSUME IInv, NEW q \in Processes, Restart(q) PROVE IInv'
<1>0. TypeOK
  BY DEF IInv
<1>1. /\ call' \in [Orders -> [at : CallAt, by : Processes]]
      /\ \A o \in Orders : call'[o].at = call[o].at \/ call'[o].at = "done"
  BY <1>0 DEF Restart, TypeOK, CallAt
<1>2. /\ pass' \in [Processes -> [at : PassAt, todo : SUBSET Orders,
                                  now : Orders \cup {NoOrder}]]
      /\ PassesAreSound'
  BY <1>0 DEF Restart, NoPass, PassAt, TypeOK, IInv, PassesAreSound
<1>3. placed' \in [Processes -> SUBSET Orders]
  BY <1>0 DEF Restart, TypeOK
<1>4. TypeOK' /\ OneHolder' /\ OpenPositionsAreBacked'
  BY <1>1, <1>2, <1>3 DEF Restart, tables, IInv, TypeOK, OneHolder, OpenPositionsAreBacked
<1>5. CallsAreSound'
  BY <1>1 DEF Restart, tables, IInv, CallsAreSound, Evidenced, Accepted
<1> QED
  BY <1>2, <1>4, <1>5 DEF IInv

LEMMA StepInv == IInv /\ [Next]_vars => IInv'
<1> SUFFICES ASSUME IInv, [Next]_vars PROVE IInv'
  OBVIOUS
<1>1. CASE UNCHANGED vars
  BY <1>1
  DEF vars, IInv, TypeOK, OneHolder, CallsAreSound, PassesAreSound, OpenPositionsAreBacked
<1>2. ASSUME NEW o \in Orders, CallStep(o) PROVE IInv'
  BY <1>2, CallStepInv
<1>3. ASSUME NEW o \in Orders, ClosePosition(o) \/ CloseTrade(o) PROVE IInv'
  BY <1>3, ExitInv
<1>4. ASSUME NEW q \in Processes, StartPass(q) \/ PassStep(q) PROVE IInv'
  BY <1>4, PassInv
<1>5. ASSUME NEW q \in Processes, Restart(q) PROVE IInv'
  BY <1>5, RestartInv
<1>6. ASSUME NEW q \in Processes, NEW o \in Orders, CancelOrder(q, o) PROVE IInv'
  BY <1>6, CancelInv
<1> QED
  BY <1>1, <1>2, <1>3, <1>4, <1>5, <1>6, WorkerAssumption DEF Next

-----------------------------------------------------------------------------

\* The inductive invariant.
THEOREM InvariantHolds == Spec => []IInv
<1> QED
  BY InitInv, StepInv, PTL DEF Spec

\* Every variable has its type.
THEOREM TypeCorrect == Spec => []TypeOK
<1>1. IInv => TypeOK
  BY DEF IInv
<1> QED
  BY <1>1, InvariantHolds, PTL

\* An open position has its order's id and its intent beside it, and a trade
\* under its id is not closed: no cancellation, recovery or pass takes the
\* record away from under it.
THEOREM PositionsAreBacked == Spec => []OpenPositionsAreBacked
<1>1. IInv => OpenPositionsAreBacked
  BY DEF IInv
<1> QED
  BY <1>1, InvariantHolds, PTL

\* One key has at most one open PAPER position: an open position holds the key.
THEOREM OneOpenPosition == Spec => []OnePositionPerKey
<1>1. ASSUME IInv, NEW o \in Orders, positions[o] = "open" PROVE HoldsKey(intents, o)
  <2>1. intents[o] = Held(o)
    BY <1>1 DEF IInv, OpenPositionsAreBacked, Held
  <2>2. Held(o).status = "submitted"
    BY DEF Held
  <2> QED
    BY <2>1, <2>2 DEF HoldsKey, ActiveIntentStatuses
<1>2. IInv => OnePositionPerKey
  BY <1>1 DEF IInv, OneHolder, OnePositionPerKey
<1> QED
  BY <1>2, InvariantHolds, PTL

LEMMA StepEnds ==
    IInv /\ [Next]_vars =>
        \A o \in Orders : positions[o] = "open" => positions'[o] \in {"open", "exited"}
<1> SUFFICES ASSUME IInv, [Next]_vars, NEW o \in Orders, positions[o] = "open"
             PROVE  positions'[o] \in {"open", "exited"}
  OBVIOUS
<1>0. positions \in [Orders -> PositionStatuses] /\ call[o].at = "done"
  BY DEF IInv, TypeOK, CallsAreSound
<1>1. ASSUME NEW p \in Orders, CreatePosition(p) PROVE positions'[o] = "open"
  <2>1. p # o
    BY <1>0, <1>1 DEF CreatePosition, Goes
  <2> QED
    BY <1>0, <1>1, <2>1 DEF CreatePosition
<1>2. ASSUME NEW p \in Orders, CallStep(p), ~CreatePosition(p) PROVE positions' = positions
  BY <1>2
  DEF CallStep, CheckDuplicate, CreateOrder, ApproveRisk, ClaimSubmission, ClaimConflicts,
      MarkSubmissionStarted, SubmitTransition, PlaceOrder, RecordSubmitted, AcceptTransition,
      TryRaises, RecordUnknown, ConfirmEvidence, ConfirmTransition, CreateTrade,
      FindTradeOfSignal, CallRaises, tables
<1>3. ASSUME NEW p \in Orders, ClosePosition(p) \/ CloseTrade(p)
      PROVE  positions'[o] \in {"open", "exited"}
  BY <1>0, <1>3 DEF ClosePosition, CloseTrade
<1>4. ASSUME NEW q \in Processes, StartPass(q) \/ PassStep(q) PROVE positions' = positions
  BY <1>4
  DEF StartPass, PassStep, RecoverStale, ListOrders, FindConfirmed, FindMissing, ReviewOrder,
      Sweep, tables
<1>5. ASSUME NEW q \in Processes, Restart(q) \/ \E p \in Orders : CancelOrder(q, p)
      PROVE  positions' = positions
  BY <1>5 DEF Restart, CancelOrder, tables
<1>6. CASE UNCHANGED vars
  BY <1>6 DEF vars
<1> QED
  BY <1>1, <1>2, <1>3, <1>4, <1>5, <1>6, WorkerAssumption DEF Next

\* Only an exit ends a PAPER position, in any process and after any restart.
THEOREM OnlyExitsEnd == Spec => PositionsEndByExit
<1>1. IInv /\ [Next]_vars =>
         [\A o \in Orders : positions[o] = "open" => positions'[o] \in {"open", "exited"}]_vars
  BY StepEnds
<1> QED
  BY <1>1, InvariantHolds, PTL DEF Spec, PositionsEndByExit
=============================================================================
