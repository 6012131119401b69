---------------------- MODULE LiveReconciliation_proofs ----------------------
(***************************************************************************)
(* Proofs about LIVE orders with any number of calls of place_order and of *)
(* reconciliation passes at once, any keys, broker ids and lot size, calls *)
(* that stay before their submission for as long as they like, and lookups *)
(* that answer about another order.                                        *)
(*                                                                         *)
(* The first part is about the intent table alone (SubmissionIntent),      *)
(* whoever calls its operations, and the second about the calls and the    *)
(* broker (LiveSubmission).                                                *)
(* An order on the market holds its key: its intent was started before the *)
(* request left, and it is released only by the end of the one broker      *)
(* order that is its own; and a key has one holder.                        *)
(*                                                                         *)
(* The third part adds the passes.  A row with a broker id has an intent   *)
(* with one, so a pass that goes on after comparing ids works on the       *)
(* order's own broker order; and an end, once read, stays true of the      *)
(* order it was read of.  What calls and passes do to the table are its    *)
(* operations, so that what was proved of it alone holds beside them.      *)
(***************************************************************************)
EXTENDS LiveReconciliation, TLAPS

-----------------------------------------------------------------------------
(* The table on its own (SubmissionIntent): what its three operations keep *)
(* whoever calls them.                                                     *)

\* Evidence never turns a row into a holder of its key unless it was one.
LEMMA EvidenceTakesNoKey ==
    ASSUME NEW o \in Orders, NEW b, NEW status,
           intents \in [Orders -> IntentRow],
           AcceptsEvidence(intents, o, b, status),
           status \in ActiveIntentStatuses
    PROVE  HoldsKey(intents, o)
  BY DEF AcceptsEvidence, EvidenceAfter, HoldsKey, ActiveIntentStatuses,
         TerminalIntentStatuses, EvidenceStatuses

\* Every row always has the shape of the table's columns.
THEOREM TableTypesHold == TableSpec => []TableTypeOK
<1> USE DEF TableTypeOK, IntentRow, IntentStatuses, ActiveIntentStatuses,
            TerminalIntentStatuses, EvidenceStatuses
<1>1. TableInit => TableTypeOK
  BY DEF TableInit, AbsentRow
<1>2. TableTypeOK /\ [TableNext]_intents => TableTypeOK'
  <2> SUFFICES ASSUME TableTypeOK, TableNext PROVE TableTypeOK'
    OBVIOUS
  <2>1. ASSUME NEW o \in Orders, Claim(o) PROVE TableTypeOK'
    BY <2>1 DEF Claim, AfterClaim
  <2>2. ASSUME NEW o \in Orders, MarkStarted(o) PROVE TableTypeOK'
    BY <2>2 DEF MarkStarted, AfterMarkStarted
  <2>3. ASSUME NEW o \in Orders, NEW b \in BrokerIds, NEW status \in EvidenceStatuses,
               RecordEvidence(o, b, status)
        PROVE  TableTypeOK'
    BY <2>3 DEF RecordEvidence, AfterEvidence
  <2> QED
    BY <2>1, <2>2, <2>3 DEF TableNext
<1> QED
  BY <1>1, <1>2, PTL DEF TableSpec

\* The unique indexes and the guards of the three statements keep one holder
\* per logical key, whoever calls them and in whatever order.
THEOREM OneHolderInTable == TableSpec => []OneHolderPerKey
<1>1. TableInit => OneHolderPerKey
  BY DEF TableInit, OneHolderPerKey, HoldsKey, AbsentRow, ActiveIntentStatuses
<1>2. TableTypeOK /\ OneHolderPerKey /\ [TableNext]_intents => OneHolderPerKey'
  <2> SUFFICES ASSUME TableTypeOK, OneHolderPerKey, [TableNext]_intents
               PROVE  OneHolderPerKey'
    OBVIOUS
  <2>1. ASSUME NEW o \in Orders, Claim(o) PROVE OneHolderPerKey'
    BY <2>1 DEF Claim, CanClaim, AfterClaim, OneHolderPerKey, HoldsKey, SameKey, TableTypeOK
  <2>2. ASSUME NEW o \in Orders, MarkStarted(o) PROVE OneHolderPerKey'
    BY <2>2 DEF MarkStarted, CanMarkStarted, AfterMarkStarted, OneHolderPerKey, HoldsKey,
                ActiveIntentStatuses, TableTypeOK, IntentRow
  <2>3. ASSUME NEW o \in Orders, NEW b \in BrokerIds, NEW status \in EvidenceStatuses,
               RecordEvidence(o, b, status)
        PROVE  OneHolderPerKey'
    <3>1. /\ AcceptsEvidence(intents, o, b, status)
          /\ intents' = [intents EXCEPT ![o] = [status |-> status, brokerId |-> b]]
      BY <2>3 DEF RecordEvidence, AfterEvidence
    <3>2. intents'[o].status = status /\ \A p \in Orders \ {o} : intents'[p] = intents[p]
      BY <3>1 DEF TableTypeOK
    <3>3. \A p \in Orders : HoldsKey(intents', p) => HoldsKey(intents, p)
      BY <3>1, <3>2, EvidenceTakesNoKey DEF HoldsKey, TableTypeOK
    <3> QED
      BY <3>3 DEF OneHolderPerKey
  <2>4. CASE UNCHANGED intents
    BY <2>4 DEF OneHolderPerKey, HoldsKey
  <2> QED
    BY <2>1, <2>2, <2>3, <2>4 DEF TableNext
<1> QED
  BY <1>1, <1>2, TableTypesHold, PTL DEF TableSpec

\* One broker order is linked to at most one local order, and only to one
\* whose submission was started.
THEOREM BrokerIdentityHolds == TableSpec => []BrokerIdentity
<1>1. TableInit => BrokerIdentity
  BY DEF TableInit, BrokerIdentity, AbsentRow
<1>2. TableTypeOK /\ BrokerIdentity /\ [TableNext]_intents => BrokerIdentity'
  <2> SUFFICES ASSUME TableTypeOK, BrokerIdentity, [TableNext]_intents
               PROVE  BrokerIdentity'
    OBVIOUS
  <2>1. ASSUME NEW o \in Orders, Claim(o) PROVE BrokerIdentity'
    BY <2>1 DEF Claim, CanClaim, AfterClaim, BrokerIdentity, TableTypeOK
  <2>2. ASSUME NEW o \in Orders, MarkStarted(o) PROVE BrokerIdentity'
    BY <2>2 DEF MarkStarted, CanMarkStarted, AfterMarkStarted, BrokerIdentity, TableTypeOK,
                IntentRow, EvidenceStatuses, TerminalIntentStatuses
  <2>3. ASSUME NEW o \in Orders, NEW b \in BrokerIds, NEW status \in EvidenceStatuses,
               RecordEvidence(o, b, status)
        PROVE  BrokerIdentity'
    BY <2>3 DEF RecordEvidence, AcceptsEvidence, AfterEvidence, BrokerIdentity, TableTypeOK
  <2>4. CASE UNCHANGED intents
    BY <2>4 DEF BrokerIdentity
  <2> QED
    BY <2>1, <2>2, <2>3, <2>4 DEF TableNext
<1> QED
  BY <1>1, <1>2, TableTypesHold, PTL DEF TableSpec

\* Evidence is final: no step replaces a recorded broker id or reopens a
\* filled, cancelled or rejected row.
THEOREM EvidenceStaysFinal == TableSpec => EvidenceIsFinal
<1> DEFINE Final ==
      \A o \in Orders :
        /\ intents[o].brokerId # NoId => intents'[o].brokerId = intents[o].brokerId
        /\ intents[o].status \in TerminalIntentStatuses => intents'[o] = intents[o]
<1>1. TableTypeOK /\ BrokerIdentity /\ [TableNext]_intents => [Final]_intents
  <2> SUFFICES ASSUME TableTypeOK, BrokerIdentity, TableNext
               PROVE  Final
    OBVIOUS
  <2>1. ASSUME NEW o \in Orders, Claim(o) PROVE Final
    BY <2>1 DEF Claim, CanClaim, AfterClaim, BrokerIdentity, TableTypeOK, TerminalIntentStatuses,
                EvidenceStatuses
  <2>2. ASSUME NEW o \in Orders, MarkStarted(o) PROVE Final
    BY <2>2 DEF MarkStarted, CanMarkStarted, AfterMarkStarted, TableTypeOK, IntentRow,
                TerminalIntentStatuses
  <2>3. ASSUME NEW o \in Orders, NEW b \in BrokerIds, NEW status \in EvidenceStatuses,
               RecordEvidence(o, b, status)
        PROVE  Final
    <3>1. /\ AcceptsEvidence(intents, o, b, status)
          /\ intents' = [intents EXCEPT ![o] = [status |-> status, brokerId |-> b]]
      BY <2>3 DEF RecordEvidence, AfterEvidence
    <3>2. intents[o].brokerId # NoId => intents[o].brokerId = b
      BY <3>1 DEF AcceptsEvidence
    <3>3. ASSUME intents[o].status \in TerminalIntentStatuses
          PROVE  intents'[o] = intents[o]
      <4>1. intents[o].brokerId = b /\ status = intents[o].status
        BY <3>1, <3>3 DEF AcceptsEvidence, EvidenceAfter, TerminalIntentStatuses
      <4>2. intents[o] \in IntentRow
        BY DEF TableTypeOK
      <4> QED
        BY <3>1, <4>1, <4>2 DEF TableTypeOK, IntentRow
    <3> QED
      BY <3>1, <3>2, <3>3 DEF TableTypeOK
  <2> QED
    BY <2>1, <2>2, <2>3 DEF TableNext
<1> QED
  BY <1>1, TableTypesHold, BrokerIdentityHolds, PTL DEF TableSpec, EvidenceIsFinal

\* A key is given up only by terminal evidence about a started submission, and
\* no row goes back to being merely claimed.
THEOREM KeyLeavesOnlyByEvidence == TableSpec => KeyLeavesByEvidence
<1> DEFINE Leaves ==
      \A o \in Orders :
        /\ HoldsKey(intents, o) /\ ~HoldsKey(intents', o) =>
              /\ intents[o].status # "claimed"
              /\ intents'[o].status \in TerminalIntentStatuses
              /\ intents'[o].brokerId # NoId
        /\ intents'[o].status = "claimed" => intents[o].status \in {"absent", "claimed"}
<1>1. TableTypeOK /\ BrokerIdentity /\ [TableNext]_intents => [Leaves]_intents
  <2> SUFFICES ASSUME TableTypeOK, BrokerIdentity, TableNext
               PROVE  Leaves
    OBVIOUS
  <2>1. ASSUME NEW o \in Orders, Claim(o) PROVE Leaves
    BY <2>1 DEF Claim, CanClaim, AfterClaim, TableTypeOK, HoldsKey, ActiveIntentStatuses
  <2>2. ASSUME NEW o \in Orders, MarkStarted(o) PROVE Leaves
    BY <2>2 DEF MarkStarted, CanMarkStarted, AfterMarkStarted, TableTypeOK, IntentRow, HoldsKey,
                ActiveIntentStatuses
  <2>3. ASSUME NEW o \in Orders, NEW b \in BrokerIds, NEW status \in EvidenceStatuses,
               RecordEvidence(o, b, status)
        PROVE  Leaves
    <3>1. /\ AcceptsEvidence(intents, o, b, status)
          /\ intents' = [intents EXCEPT ![o] = [status |-> status, brokerId |-> b]]
      BY <2>3 DEF RecordEvidence, AfterEvidence
    <3>2. /\ intents'[o].status = status /\ intents'[o].brokerId = b
          /\ \A p \in Orders \ {o} : intents'[p] = intents[p]
      BY <3>1 DEF TableTypeOK
    <3>3. status # "claimed" /\ b # NoId
      BY NoIdAssumption DEF EvidenceStatuses, TerminalIntentStatuses
    \* A row with an id was started, so evidence about it finds it so.
    <3>4. intents[o].status # "claimed"
      BY <3>1, <3>3 DEF AcceptsEvidence, BrokerIdentity, EvidenceStatuses, TerminalIntentStatuses
    <3>5. ~HoldsKey(intents', o) => status \in TerminalIntentStatuses
      BY <3>2 DEF HoldsKey, ActiveIntentStatuses, EvidenceStatuses
    <3> QED
      BY <3>2, <3>3, <3>4, <3>5 DEF HoldsKey, TableTypeOK, IntentRow, IntentStatuses
  <2> QED
    BY <2>1, <2>2, <2>3 DEF TableNext
<1> QED
  BY <1>1, TableTypesHold, BrokerIdentityHolds, PTL DEF TableSpec, KeyLeavesByEvidence

-----------------------------------------------------------------------------
(* The calls and the broker.                                               *)

HasReply(o) == handler[o].at \in {"answered", "rejecting", "rejection_lost", "positioning"}

HasAck(o) == handler[o].at \in {"acked", "evidenced", "querying", "answered"}

\* The local variables of a call are set where they are used.
LocalsSet ==
    \A o \in Orders :
        /\ HasReply(o) => handler[o].reply \in Reply
        /\ HasAck(o) => handler[o].ack \in BrokerIds

\* A call about to send has started its intent and has not sent yet.
ReadyToSend ==
    \A o \in Orders : handler[o].at \in {"started", "submitted"} =>
        /\ intents[o].status \notin {"absent", "claimed"}
        /\ request[o] = "unsent"

\* A used broker order belongs to an order whose request was accepted, and no
\* order has two.
OneBrokerOrder ==
    /\ \A b \in BrokerIds : book[b].owner # NoOrder =>
          request[book[b].owner] = "accepted" /\ book[b].status # "unused"
    /\ \A b, c \in BrokerIds :
          book[b].owner # NoOrder /\ book[b].owner = book[c].owner => b = c

\* Ids held by a call or by an intent are ids of the order's own broker order.
OwnIds ==
    \A o \in Orders :
        /\ handler[o].ack # NoId => book[handler[o].ack].owner = o
        /\ intents[o].brokerId # NoId => book[intents[o].brokerId].owner = o

\* A rejection a call has read about a broker order stays true of it.
RejectionsRead ==
    \A o \in Orders :
        handler[o].at = "answered" /\ handler[o].reply.status = "rejected"
            /\ handler[o].reply.confirmed
        => book[handler[o].reply.id].status = "rejected"

\* An intent gave its key up only after its broker order ended.
ReleasedEnded ==
    \A o \in Orders : intents[o].status \in TerminalIntentStatuses =>
        /\ intents[o].brokerId \in BrokerIds
        /\ book[intents[o].brokerId].status \in EndedStatuses

Typed == TypeOK /\ LocalsSet

LockInv ==
    /\ OneHolderPerKey
    /\ SendsAreOnRecord
    /\ ReadyToSend
    /\ OneBrokerOrder
    /\ OwnIds
    /\ RejectionsRead
    /\ ReleasedEnded

IInv == Typed /\ LockInv

-----------------------------------------------------------------------------
(* Types.                                                                  *)

\* What one step of a call does to its record and to the others.
LEMMA GoesDef ==
    ASSUME TypeOK, NEW o \in Orders, NEW from, NEW to \in HandlerAt, Goes(o, from, to)
    PROVE  /\ handler[o].at = from
           /\ handler' \in [Orders -> Handler]
           /\ handler'[o] = [at |-> to, ack |-> handler[o].ack, reply |-> handler[o].reply]
           /\ \A p \in Orders \ {o} : handler'[p] = handler[p]
  BY DEF Goes, TypeOK, Handler

LEMMA StopsDef ==
    ASSUME TypeOK, NEW o \in Orders, NEW from, NEW to \in StoppedAt, Stops(o, from, to)
    PROVE  /\ handler[o].at = from
           /\ handler' \in [Orders -> Handler]
           /\ handler'[o] = [at |-> to, ack |-> NoId, reply |-> NoReply]
           /\ \A p \in Orders \ {o} : handler'[p] = handler[p]
  BY DEF Stops, NewCall, TypeOK, Handler, HandlerAt

\* The points a call can go to without setting a local variable.
Continues(from, to) ==
    /\ to \in HandlerAt \ {"answered", "acked"}
    /\ to \in {"rejecting", "rejection_lost", "positioning"} => from = "answered"
    /\ to = "evidenced" => from = "acked"
    /\ to = "querying" => from = "evidenced"

LEMMA GoesTyped ==
    ASSUME Typed, NEW o \in Orders, NEW from, NEW to, Continues(from, to), Goes(o, from, to)
    PROVE  handler' \in [Orders -> Handler] /\ LocalsSet'
<1>1. /\ handler[o].at = from
      /\ handler' \in [Orders -> Handler]
      /\ handler'[o] = [at |-> to, ack |-> handler[o].ack, reply |-> handler[o].reply]
      /\ \A p \in Orders \ {o} : handler'[p] = handler[p]
  BY GoesDef DEF Typed, Continues
<1>2. HasReply(o)' => handler[o].at = "answered"
  BY <1>1 DEF HasReply, Continues
<1>3. HasAck(o)' => handler[o].at \in {"acked", "evidenced"}
  BY <1>1 DEF HasAck, Continues
<1> QED
  BY <1>1, <1>2, <1>3 DEF Typed, LocalsSet, HasReply, HasAck

LEMMA StopsTyped ==
    ASSUME Typed, NEW o \in Orders, NEW from, NEW to \in StoppedAt, Stops(o, from, to)
    PROVE  handler' \in [Orders -> Handler] /\ LocalsSet'
<1>1. /\ handler' \in [Orders -> Handler]
      /\ handler'[o] = [at |-> to, ack |-> NoId, reply |-> NoReply]
      /\ \A p \in Orders \ {o} : handler'[p] = handler[p]
  BY StopsDef DEF Typed
<1>2. ~HasReply(o)' /\ ~HasAck(o)'
  BY <1>1 DEF HasReply, HasAck, StoppedAt
<1> QED
  BY <1>1, <1>2 DEF Typed, LocalsSet, HasReply, HasAck

\* A transition to a known status with a known id or none keeps the ledger typed.
LEMMA TransitionTyped ==
    ASSUME orders \in [Orders -> OrderRow], NEW o \in Orders, NEW status \in OrderStatuses,
           NEW b \in BrokerIds \cup {NoId},
           orders' = AfterTransition(orders, o, status, b)
    PROVE  orders' \in [Orders -> OrderRow]
  BY DEF AfterTransition, OrderRow

LEMMA EvidenceTyped ==
    ASSUME intents \in [Orders -> IntentRow], NEW o \in Orders, NEW b, NEW status,
           AcceptsEvidence(intents, o, b, status),
           intents' = AfterEvidence(intents, o, b, status)
    PROVE  intents' \in [Orders -> IntentRow]
  BY DEF AcceptsEvidence, AfterEvidence, IntentRow, IntentStatuses, EvidenceStatuses,
         ActiveIntentStatuses

LEMMA TypedInit == Init => Typed
  BY LotAssumption
  DEF Init, Typed, TypeOK, LocalsSet, HasReply, HasAck, NewCall, Handler, HandlerAt, StoppedAt,
      AbsentRow, IntentRow, IntentStatuses, AbsentOrder, OrderRow, RequestStates, BookRow, Position

\* A lookup answers with a reply.
LEMMA RepliesTyped ==
    ASSUME TypeOK, NEW b \in BrokerIds
    PROVE  RepliesAbout(b) \subseteq Reply
<1>1. \A c \in BrokerIds : book[c].status # "unused" =>
         ReportedStatus(c) \in WorkingStatuses \cup EndedStatuses
  BY DEF TypeOK, BookRow, ReportedStatus, WorkingStatuses, EndedStatuses
<1>2. ASSUME NEW s \in AmbiguousStatuses
      PROVE  [id |-> b, status |-> s, confirmed |-> FALSE] \in Reply
  BY <1>2 DEF Reply
<1>3. ASSUME NEW c \in BrokerIds, book[c].status # "unused"
      PROVE  [id |-> c, status |-> ReportedStatus(c),
              confirmed |-> ReportedStatus(c) \in ConfirmedStatuses] \in Reply
  BY <1>1, <1>3 DEF Reply
<1> QED
  BY <1>2, <1>3 DEF RepliesAbout

LEMMA TypedStep == Typed /\ [Next]_vars => Typed'
<1> SUFFICES ASSUME Typed, [Next]_vars PROVE Typed'
  OBVIOUS
<1> USE DEF Continues, HandlerAt, StoppedAt, durable, broker
<1>T. TypeOK /\ LocalsSet
  BY DEF Typed
<1>0. CASE UNCHANGED vars
  BY <1>0, <1>T DEF Typed, TypeOK, LocalsSet, HasReply, HasAck, vars
<1>1. ASSUME NEW o \in Orders, CheckDuplicate(o) PROVE Typed'
  BY <1>1, <1>T, GoesTyped, StopsTyped DEF CheckDuplicate, Typed, TypeOK
<1>2. ASSUME NEW o \in Orders, CreateOrder(o) PROVE Typed'
  BY <1>2, <1>T, GoesTyped
  DEF CreateOrder, AfterCreate, OrderRow, OrderStatuses, ActiveStatuses, Typed, TypeOK
<1>3. ASSUME NEW o \in Orders, ApproveRisk(o) PROVE Typed'
  BY <1>3, <1>T, GoesTyped, TransitionTyped
  DEF ApproveRisk, OrderStatuses, ActiveStatuses, Typed, TypeOK
<1>4. ASSUME NEW o \in Orders, RefuseUnprotected(o) PROVE Typed'
  BY <1>4, <1>T, StopsTyped DEF RefuseUnprotected, Typed, TypeOK
<1>5. ASSUME NEW o \in Orders, ClaimSubmission(o) PROVE Typed'
  BY <1>5, <1>T, GoesTyped
  DEF ClaimSubmission, AfterClaim, IntentRow, IntentStatuses, ActiveIntentStatuses, Typed, TypeOK
<1>6. ASSUME NEW o \in Orders, ClaimConflicts(o) PROVE Typed'
  BY <1>6, <1>T, GoesTyped DEF ClaimConflicts, Typed, TypeOK
<1>7. ASSUME NEW o \in Orders, RejectConflict(o) PROVE Typed'
  BY <1>7, <1>T, StopsTyped, TransitionTyped
  DEF RejectConflict, OrderStatuses, TerminalStatuses, Typed, TypeOK
<1>8. ASSUME NEW o \in Orders, MarkSubmissionStarted(o) PROVE Typed'
  <2>1. intents' \in [Orders -> IntentRow]
    BY <1>8, <1>T DEF MarkSubmissionStarted, AfterMarkStarted, IntentRow, IntentStatuses,
                      ActiveIntentStatuses, TypeOK
  <2> QED
    BY <1>8, <1>T, <2>1, GoesTyped DEF MarkSubmissionStarted, Typed, TypeOK
<1>9. ASSUME NEW o \in Orders, SubmitTransition(o) PROVE Typed'
  BY <1>9, <1>T, GoesTyped, TransitionTyped
  DEF SubmitTransition, OrderStatuses, ActiveStatuses, Typed, TypeOK
<1>10. ASSUME NEW o \in Orders, SendPlacement(o) PROVE Typed'
  BY <1>10, <1>T, GoesTyped DEF SendPlacement, RequestStates, Typed, TypeOK
<1>11. ASSUME NEW o \in Orders, PlacementAcked(o) PROVE Typed'
  <2>1. PICK b \in BrokerIds :
           handler' = [handler EXCEPT ![o] = [at |-> "acked", ack |-> b, reply |-> NoReply]]
    BY <1>11 DEF PlacementAcked
  <2>2. /\ handler'[o] = [at |-> "acked", ack |-> b, reply |-> NoReply]
        /\ \A p \in Orders \ {o} : handler'[p] = handler[p]
        /\ handler' \in [Orders -> Handler]
    BY <2>1, <1>T DEF TypeOK, Handler
  <2>3. LocalsSet'
    BY <2>2, <1>T DEF LocalsSet, HasReply, HasAck
  <2> QED
    BY <1>11, <1>T, <2>2, <2>3 DEF PlacementAcked, Typed, TypeOK
<1>12. ASSUME NEW o \in Orders, RecordSubmitted(o) PROVE Typed'
  BY <1>12, <1>T, GoesTyped, EvidenceTyped DEF RecordSubmitted, Typed, TypeOK
<1>13. ASSUME NEW o \in Orders, AcceptTransition(o) PROVE Typed'
  <2>1. handler[o].ack \in BrokerIds
    BY <1>13, <1>T DEF AcceptTransition, Goes, LocalsSet, HasAck
  <2> QED
    BY <1>13, <1>T, <2>1, GoesTyped, TransitionTyped
    DEF AcceptTransition, OrderStatuses, ActiveStatuses, Typed, TypeOK
<1>14. ASSUME NEW o \in Orders, QueryStatus(o) PROVE Typed'
  <2>1. handler[o].ack \in BrokerIds
    BY <1>14, <1>T DEF QueryStatus, LocalsSet, HasAck
  <2>2. PICK r \in Reply :
           handler' = [handler EXCEPT ![o] = [at |-> "answered", ack |-> @.ack, reply |-> r]]
    BY <1>14, <1>T, <2>1, RepliesTyped DEF QueryStatus
  <2>3. /\ handler'[o] = [at |-> "answered", ack |-> handler[o].ack, reply |-> r]
        /\ \A p \in Orders \ {o} : handler'[p] = handler[p]
        /\ handler' \in [Orders -> Handler]
    BY <2>2, <1>T DEF TypeOK, Handler
  <2>4. LocalsSet'
    BY <2>1, <2>3, <1>T DEF LocalsSet, HasReply, HasAck
  <2> QED
    BY <1>14, <1>T, <2>3, <2>4 DEF QueryStatus, Typed, TypeOK
<1>15. ASSUME NEW o \in Orders, TryRaises(o) PROVE Typed'
  <2>1. Goes(o, handler[o].at, "failing")
    BY <1>15 DEF TryRaises, Goes
  <2> QED
    BY <1>15, <1>T, <2>1, GoesTyped DEF TryRaises, Typed, TypeOK
<1>16. ASSUME NEW o \in Orders, RecordUnknown(o) PROVE Typed'
  BY <1>16, <1>T, StopsTyped, TransitionTyped
  DEF RecordUnknown, OrderStatuses, ActiveStatuses, Typed, TypeOK
<1>R. \A o \in Orders : HasReply(o) =>
         /\ handler[o].reply \in Reply
         /\ handler[o].reply.id \in BrokerIds
  BY <1>T DEF LocalsSet, Reply
<1>A. \A o \in Orders : HasAck(o) => handler[o].ack \in BrokerIds
  BY <1>T DEF LocalsSet
<1>17. ASSUME NEW o \in Orders, SettleUnconfirmed(o) PROVE Typed'
  BY <1>17, <1>T, <1>R, StopsTyped, TransitionTyped
  DEF SettleUnconfirmed, HasReply, OrderStatuses, ActiveStatuses, Typed, TypeOK
<1>18. ASSUME NEW o \in Orders, SettleUnverifiedRejection(o) PROVE Typed'
  BY <1>18, <1>T, <1>A, StopsTyped, TransitionTyped
  DEF SettleUnverifiedRejection, HasAck, OrderStatuses, ActiveStatuses, Typed, TypeOK
<1>19. ASSUME NEW o \in Orders, RecordRejection(o) PROVE Typed'
  BY <1>19, <1>T, GoesTyped, EvidenceTyped DEF RecordRejection, Typed, TypeOK
<1>20. ASSUME NEW o \in Orders, LoseRejection(o) PROVE Typed'
  BY <1>20, <1>T, GoesTyped DEF LoseRejection, Typed, TypeOK
<1>21. ASSUME NEW o \in Orders, SettleLostRejection(o) PROVE Typed'
  <2>1. handler[o].reply.id \in BrokerIds
    BY <1>21, <1>R DEF SettleLostRejection, Stops, HasReply
  <2> QED
    BY <1>21, <1>T, <2>1, StopsTyped, TransitionTyped
    DEF SettleLostRejection, OrderStatuses, ActiveStatuses, Typed, TypeOK
<1>22. ASSUME NEW o \in Orders, SettleRejection(o) PROVE Typed'
  <2>1. handler[o].reply.id \in BrokerIds
    BY <1>22, <1>R DEF SettleRejection, Stops, HasReply
  <2> QED
    BY <1>22, <1>T, <2>1, StopsTyped, TransitionTyped
    DEF SettleRejection, OrderStatuses, TerminalStatuses, Typed, TypeOK
<1>23. ASSUME NEW o \in Orders, SettleStatus(o) PROVE Typed'
  <2> DEFINE r == handler[o].reply
             status == OrderStatusOf(r.status, r.confirmed)
  <2>1. r.id \in BrokerIds
    BY <1>23, <1>R DEF SettleStatus, HasReply
  <2>2. status \in OrderStatuses
    BY DEF OrderStatusOf, OrderStatuses, ActiveStatuses, TerminalStatuses
  <2>3. orders' = AfterTransition(orders, o, status, r.id)
    BY <1>23 DEF SettleStatus
  <2>4. orders' \in [Orders -> OrderRow]
    BY <1>T, <2>1, <2>2, <2>3, TransitionTyped DEF TypeOK
  <2>5. handler' \in [Orders -> Handler] /\ LocalsSet'
    BY <1>23, <1>T, GoesTyped, StopsTyped DEF SettleStatus, Typed
  <2> QED
    BY <1>23, <1>T, <2>4, <2>5 DEF SettleStatus, Typed, TypeOK
<1>24. ASSUME NEW o \in Orders, CreatePosition(o) PROVE Typed'
  <2>1. handler[o].reply.id \in BrokerIds
    BY <1>24, <1>R DEF CreatePosition, Stops, HasReply
  <2>2. [brokerId |-> handler[o].reply.id, creator |-> "handler",
         quantity |-> Lot, open |-> TRUE] \in Position
    BY <2>1, LotAssumption DEF Position
  <2>3. positions' \subseteq Position
    BY <1>24, <1>T, <2>2 DEF CreatePosition, TypeOK
  <2> QED
    BY <1>24, <1>T, <2>3, StopsTyped DEF CreatePosition, Typed, TypeOK
<1>25. ASSUME NEW o \in Orders, Crash(o) PROVE Typed'
  BY <1>25, <1>T, StopsTyped DEF Crash, Typed, TypeOK
<1>26. ASSUME BrokerStep PROVE Typed'
  <2>1. UNCHANGED <<intents, orders, positions, handler>>
    BY <1>26 DEF BrokerStep, BrokerAccepts, RequestLost, BrokerFills, BrokerEnds, BrokerRejects
  <2>2. ASSUME NEW o \in Orders, BrokerAccepts(o) \/ RequestLost(o)
        PROVE  request' \in [Orders -> RequestStates] /\ book' \in [BrokerIds -> BookRow]
    BY <2>2, <1>T, LotAssumption
    DEF BrokerAccepts, RequestLost, TypeOK, RequestStates, BookRow, WorkingStatuses
  <2>3. ASSUME NEW b \in BrokerIds, BrokerFills(b)
        PROVE  request' \in [Orders -> RequestStates] /\ book' \in [BrokerIds -> BookRow]
    <3>1. PICK n \in book[b].filled + 1 .. Lot :
             book' = [book EXCEPT ![b] =
               [owner |-> @.owner, filled |-> n,
                status |-> IF n = Lot THEN "filled" ELSE "partially_filled"]]
      BY <2>3 DEF BrokerFills
    <3>2. n \in 0 .. Lot
      BY <3>1, <1>T, LotAssumption DEF TypeOK, BookRow
    <3> QED
      BY <2>3, <3>1, <3>2, <1>T
      DEF BrokerFills, TypeOK, BookRow, WorkingStatuses, EndedStatuses
  <2>4. ASSUME NEW b \in BrokerIds, BrokerEnds(b) \/ BrokerRejects(b)
        PROVE  request' \in [Orders -> RequestStates] /\ book' \in [BrokerIds -> BookRow]
    BY <2>4, <1>T DEF BrokerEnds, BrokerRejects, TypeOK, BookRow, EndedStatuses
  <2>5. request' \in [Orders -> RequestStates] /\ book' \in [BrokerIds -> BookRow]
    BY <1>26, <2>2, <2>3, <2>4 DEF BrokerStep
  <2> QED
    BY <1>T, <2>1, <2>5 DEF Typed, TypeOK, LocalsSet, HasReply, HasAck
<1> QED
  BY <1>0, <1>1, <1>2, <1>3, <1>4, <1>5, <1>6, <1>7, <1>8, <1>9, <1>10, <1>11, <1>12, <1>13,
     <1>14, <1>15, <1>16, <1>17, <1>18, <1>19, <1>20, <1>21, <1>22, <1>23, <1>24, <1>25, <1>26
  DEF Next, HandlerStep

\* The tables, the calls and the broker's book always have their types.
THEOREM TypeCorrect == Spec => []TypeOK
<1>1. Typed => TypeOK
  BY DEF Typed
<1> QED
  BY <1>1, TypedInit, TypedStep, PTL DEF Spec

-----------------------------------------------------------------------------
(* The lock.                                                               *)

\* A step of a call that neither gets ready to send, nor takes an id, nor
\* reads a reply.
QuietCalls ==
    \A p \in Orders :
        \/ handler'[p] = handler[p]
        \/ /\ handler'[p].at \notin {"started", "answered"}
           /\ handler'[p].at = "submitted" => handler[p].at = "started"
           /\ handler'[p].ack \in {handler[p].ack, NoId}

LEMMA GoesQuietly ==
    ASSUME TypeOK, NEW o \in Orders, NEW from, NEW to \in HandlerAt, Goes(o, from, to),
           to \notin {"started", "answered"}, to = "submitted" => from = "started"
    PROVE  QuietCalls
<1>1. /\ handler[o].at = from
      /\ handler'[o] = [at |-> to, ack |-> handler[o].ack, reply |-> handler[o].reply]
      /\ \A p \in Orders \ {o} : handler'[p] = handler[p]
  BY GoesDef
<1>2. /\ handler'[o].at \notin {"started", "answered"}
      /\ handler'[o].at = "submitted" => handler[o].at = "started"
      /\ handler'[o].ack \in {handler[o].ack, NoId}
  BY <1>1
<1> QED
  BY <1>1, <1>2 DEF QuietCalls

LEMMA StopsQuietly ==
    ASSUME TypeOK, NEW o \in Orders, NEW from, NEW to \in StoppedAt, Stops(o, from, to)
    PROVE  QuietCalls
  BY StopsDef DEF QuietCalls, StoppedAt

\* A quiet step that leaves intents, requests and book alone keeps the invariant.
LEMMA QuietStep ==
    ASSUME LockInv, QuietCalls, UNCHANGED <<intents, request, book>>
    PROVE  LockInv'
<1>1. OneHolderPerKey' /\ SendsAreOnRecord' /\ OneBrokerOrder' /\ ReleasedEnded'
  BY DEF LockInv, OneHolderPerKey, HoldsKey, SendsAreOnRecord, OneBrokerOrder, ReleasedEnded
<1>2. ReadyToSend'
  BY DEF LockInv, ReadyToSend, QuietCalls
<1>3. OwnIds'
  BY DEF LockInv, OwnIds, QuietCalls
<1>4. RejectionsRead'
  BY DEF LockInv, RejectionsRead, QuietCalls
<1> QED
  BY <1>1, <1>2, <1>3, <1>4 DEF LockInv

\* A quiet step that records evidence about the order's own broker order,
\* terminal only if that order ended, keeps the invariant.
LEMMA EvidenceStep ==
    ASSUME Typed, LockInv, QuietCalls, UNCHANGED <<request, book>>,
           NEW o \in Orders, NEW b \in BrokerIds, NEW status \in EvidenceStatuses,
           AcceptsEvidence(intents, o, b, status),
           intents' = AfterEvidence(intents, o, b, status),
           book[b].owner = o,
           status \in TerminalIntentStatuses => book[b].status \in EndedStatuses
    PROVE  LockInv'
<1>1. /\ intents'[o] = [status |-> status, brokerId |-> b]
      /\ \A p \in Orders \ {o} : intents'[p] = intents[p]
  BY DEF AfterEvidence, Typed, TypeOK
<1>2. status \notin {"absent", "claimed"} /\ b # NoId
  BY NoIdAssumption DEF EvidenceStatuses, TerminalIntentStatuses
<1>3. HoldsKey(intents', o) => HoldsKey(intents, o)
  <2>1. CASE intents[o].status = "reconciliation_required"
    BY <2>1 DEF HoldsKey, ActiveIntentStatuses
  <2>2. CASE intents[o].status # "reconciliation_required"
    <3>1. status \in EvidenceAfter(intents[o].status)
      BY <2>2 DEF AcceptsEvidence
    <3>2. status \in ActiveIntentStatuses => intents[o].status \in ActiveIntentStatuses
      BY <3>1 DEF EvidenceAfter, ActiveIntentStatuses, TerminalIntentStatuses, EvidenceStatuses
    <3> QED
      BY <1>1, <3>2 DEF HoldsKey
  <2> QED
    BY <2>1, <2>2
<1>4. OneHolderPerKey'
  BY <1>1, <1>3 DEF LockInv, OneHolderPerKey, HoldsKey
<1>5. SendsAreOnRecord'
  BY <1>1, <1>2 DEF LockInv, SendsAreOnRecord
<1>6. ReadyToSend'
  BY <1>1, <1>2 DEF LockInv, ReadyToSend, QuietCalls
<1>7. OneBrokerOrder'
  BY DEF LockInv, OneBrokerOrder
<1>8. OwnIds'
  BY <1>1 DEF LockInv, OwnIds, QuietCalls
<1>9. RejectionsRead'
  BY DEF LockInv, RejectionsRead, QuietCalls
<1>10. ReleasedEnded'
  BY <1>1 DEF LockInv, ReleasedEnded
<1> QED
  BY <1>4, <1>5, <1>6, <1>7, <1>8, <1>9, <1>10 DEF LockInv

LEMMA LockInit == Init => LockInv
  BY NoIdAssumption, NoOrderAssumption
  DEF Init, LockInv, OneHolderPerKey, HoldsKey, ActiveIntentStatuses, SendsAreOnRecord, ReadyToSend,
      OneBrokerOrder, OwnIds, RejectionsRead, ReleasedEnded, TerminalIntentStatuses,
      AbsentRow, NewCall

\* The steps of a call, up to the acknowledgement.
LEMMA LockBeforeAck ==
    ASSUME IInv, NEW o \in Orders,
           \/ ClaimSubmission(o) \/ MarkSubmissionStarted(o) \/ SendPlacement(o)
           \/ PlacementAcked(o)
    PROVE  LockInv'
<1> USE DEF durable, broker
<1>T. Typed /\ TypeOK /\ LockInv
  BY DEF IInv, Typed
<1>1. CASE ClaimSubmission(o)
  <2>1. /\ CanClaim(intents, o)
        /\ intents'[o] = [status |-> "claimed", brokerId |-> NoId]
        /\ \A p \in Orders \ {o} : intents'[p] = intents[p]
        /\ UNCHANGED <<request, book>>
    BY <1>1, <1>T DEF ClaimSubmission, AfterClaim, TypeOK
  <2>G. Goes(o, "approved", "claimed") /\ "claimed" \in HandlerAt
    BY <1>1 DEF ClaimSubmission, HandlerAt
  <2>2. handler'[o] = [at |-> "claimed", ack |-> handler[o].ack, reply |-> handler[o].reply]
    BY <2>G, <1>T, GoesDef
  <2>Q. QuietCalls
    BY <2>G, <1>T, GoesQuietly
  <2>3. intents[o].status = "absent" /\ request[o] = "unsent"
    BY <2>1, <1>T DEF CanClaim, LockInv, SendsAreOnRecord
  <2>4. OneHolderPerKey'
    BY <2>1, <1>T DEF CanClaim, SameKey, LockInv, OneHolderPerKey, HoldsKey
  <2>5. SendsAreOnRecord'
    BY <2>1, <2>3, <1>T DEF LockInv, SendsAreOnRecord
  <2>6. ReadyToSend'
    BY <2>1, <2>2, <2>Q, <1>T DEF LockInv, ReadyToSend, QuietCalls
  <2>7. OneBrokerOrder'
    BY <2>1, <1>T DEF LockInv, OneBrokerOrder
  <2>8. OwnIds'
    BY <2>1, <2>2, <2>Q, <1>T DEF LockInv, OwnIds, QuietCalls
  <2>9. RejectionsRead'
    BY <2>1, <2>2, <2>Q, <1>T DEF LockInv, RejectionsRead, QuietCalls
  <2>10. ReleasedEnded'
    BY <2>1, <1>T DEF LockInv, ReleasedEnded, TerminalIntentStatuses
  <2> QED
    BY <2>4, <2>5, <2>6, <2>7, <2>8, <2>9, <2>10 DEF LockInv
<1>2. CASE MarkSubmissionStarted(o)
  <2>1. /\ intents[o].status = "claimed"
        /\ intents'[o].status = "reconciliation_required"
        /\ intents'[o].brokerId = intents[o].brokerId
        /\ \A p \in Orders \ {o} : intents'[p] = intents[p]
        /\ UNCHANGED <<request, book>>
    BY <1>2, <1>T DEF MarkSubmissionStarted, CanMarkStarted, AfterMarkStarted, TypeOK, IntentRow
  <2>2. /\ handler'[o] = [at |-> "started", ack |-> handler[o].ack, reply |-> handler[o].reply]
        /\ \A p \in Orders \ {o} : handler'[p] = handler[p]
    BY <1>2, <1>T, GoesDef DEF MarkSubmissionStarted, HandlerAt
  <2>3. request[o] = "unsent"
    BY <2>1, <1>T DEF LockInv, SendsAreOnRecord
  <2>4. OneHolderPerKey'
    BY <2>1, <1>T DEF LockInv, OneHolderPerKey, HoldsKey, ActiveIntentStatuses
  <2>5. SendsAreOnRecord'
    BY <2>1, <1>T DEF LockInv, SendsAreOnRecord
  <2>6. ReadyToSend'
    BY <2>1, <2>2, <2>3, <1>T DEF LockInv, ReadyToSend
  <2>7. OneBrokerOrder'
    BY <2>1, <1>T DEF LockInv, OneBrokerOrder
  <2>8. OwnIds'
    BY <2>1, <2>2, <1>T DEF LockInv, OwnIds
  <2>9. RejectionsRead'
    BY <2>1, <2>2, <1>T DEF LockInv, RejectionsRead
  <2>10. ReleasedEnded'
    BY <2>1, <1>T DEF LockInv, ReleasedEnded, TerminalIntentStatuses
  <2> QED
    BY <2>4, <2>5, <2>6, <2>7, <2>8, <2>9, <2>10 DEF LockInv
<1>3. CASE SendPlacement(o)
  <2>1. /\ request'[o] = "inflight"
        /\ \A p \in Orders \ {o} : request'[p] = request[p]
        /\ UNCHANGED <<intents, book>>
    BY <1>3, <1>T DEF SendPlacement, TypeOK
  <2>G. Goes(o, "submitted", "placing") /\ "placing" \in HandlerAt
    BY <1>3 DEF SendPlacement, HandlerAt
  <2>2. /\ handler[o].at = "submitted"
        /\ handler'[o] = [at |-> "placing", ack |-> handler[o].ack, reply |-> handler[o].reply]
    BY <2>G, <1>T, GoesDef
  <2>Q. QuietCalls
    BY <2>G, <1>T, GoesQuietly
  <2>3. request[o] = "unsent" /\ intents[o].status \notin {"absent", "claimed"}
    BY <2>2, <1>T DEF LockInv, ReadyToSend
  <2>4. SendsAreOnRecord'
    BY <2>1, <2>3, <1>T DEF LockInv, SendsAreOnRecord
  <2>5. ReadyToSend'
    BY <2>1, <2>2, <2>Q, <1>T DEF LockInv, ReadyToSend, QuietCalls
  <2>6. OneBrokerOrder'
    <3>1. \A b \in BrokerIds : book[b].owner # o
      BY <2>3, <1>T, NoOrderAssumption DEF LockInv, OneBrokerOrder
    <3>2. \A b \in BrokerIds : book[b].owner # NoOrder => book[b].owner \in Orders
      BY <1>T DEF TypeOK, BookRow
    <3> QED
      BY <2>1, <3>1, <3>2, <1>T DEF LockInv, OneBrokerOrder
  <2>7. OneHolderPerKey' /\ ReleasedEnded'
    BY <2>1, <1>T DEF LockInv, OneHolderPerKey, HoldsKey, ReleasedEnded
  <2>8. OwnIds' /\ RejectionsRead'
    BY <2>1, <2>2, <2>Q, <1>T DEF LockInv, OwnIds, RejectionsRead, QuietCalls
  <2> QED
    BY <2>4, <2>5, <2>6, <2>7, <2>8 DEF LockInv
<1>4. CASE PlacementAcked(o)
  <2>1. PICK b \in BrokerIds :
           /\ book[b].owner = o
           /\ handler' = [handler EXCEPT ![o] = [at |-> "acked", ack |-> b, reply |-> NoReply]]
    BY <1>4 DEF PlacementAcked
  <2>2. /\ handler'[o] = [at |-> "acked", ack |-> b, reply |-> NoReply]
        /\ \A p \in Orders \ {o} : handler'[p] = handler[p]
        /\ UNCHANGED <<intents, request, book>>
    BY <1>4, <2>1, <1>T DEF PlacementAcked, TypeOK
  <2>3. OneHolderPerKey' /\ SendsAreOnRecord' /\ OneBrokerOrder' /\ ReleasedEnded'
    BY <2>2, <1>T DEF LockInv, OneHolderPerKey, HoldsKey, SendsAreOnRecord, OneBrokerOrder, ReleasedEnded
  <2>4. ReadyToSend' /\ RejectionsRead'
    BY <2>2, <1>T DEF LockInv, ReadyToSend, RejectionsRead
  <2>5. OwnIds'
    BY <2>1, <2>2, <1>T DEF LockInv, OwnIds
  <2> QED
    BY <2>3, <2>4, <2>5 DEF LockInv
<1> QED
  BY <1>1, <1>2, <1>3, <1>4

\* The steps of a call that record evidence or read a reply.
LEMMA LockAfterAck ==
    ASSUME IInv, NEW o \in Orders,
           RecordSubmitted(o) \/ QueryStatus(o) \/ RecordRejection(o)
    PROVE  LockInv'
<1> USE DEF durable, broker
<1>T. Typed /\ TypeOK /\ LocalsSet /\ LockInv
  BY DEF IInv, Typed
<1>A. HasAck(o) => handler[o].ack \in BrokerIds /\ book[handler[o].ack].owner = o
  BY <1>T, NoIdAssumption DEF LocalsSet, LockInv, OwnIds
<1>1. CASE RecordSubmitted(o)
  <2>1. handler[o].at = "acked" /\ UNCHANGED <<request, book>> /\ QuietCalls
    BY <1>1, <1>T, GoesDef, GoesQuietly DEF RecordSubmitted, HandlerAt
  <2>2. CASE AcceptsEvidence(intents, o, handler[o].ack, "submitted")
    <3>1. intents' = AfterEvidence(intents, o, handler[o].ack, "submitted")
      BY <1>1, <2>2 DEF RecordSubmitted
    <3>2. "submitted" \in EvidenceStatuses /\ "submitted" \notin TerminalIntentStatuses
      BY DEF EvidenceStatuses, TerminalIntentStatuses
    <3>3. handler[o].ack \in BrokerIds /\ book[handler[o].ack].owner = o
      BY <1>A, <2>1 DEF HasAck
    <3> QED
      BY <1>T, <2>1, <2>2, <3>1, <3>2, <3>3, EvidenceStep
  <2>3. CASE ~AcceptsEvidence(intents, o, handler[o].ack, "submitted")
    BY <1>1, <1>T, <2>1, <2>3, QuietStep DEF RecordSubmitted
  <2> QED
    BY <2>2, <2>3
<1>2. CASE QueryStatus(o)
  <2>0. handler[o].ack \in BrokerIds
    BY <1>2, <1>A DEF QueryStatus, HasAck
  <2>1. PICK r \in RepliesAbout(handler[o].ack) :
           handler' = [handler EXCEPT ![o] = [at |-> "answered", ack |-> @.ack, reply |-> r]]
    BY <1>2 DEF QueryStatus
  <2>2. /\ handler'[o] = [at |-> "answered", ack |-> handler[o].ack, reply |-> r]
        /\ \A p \in Orders \ {o} : handler'[p] = handler[p]
        /\ UNCHANGED <<intents, request, book>>
    BY <1>2, <2>1, <1>T DEF QueryStatus, TypeOK
  <2>3. r.status = "rejected" /\ r.confirmed => book[r.id].status = "rejected"
    <3>1. CASE r \in {[id |-> handler[o].ack, status |-> s, confirmed |-> FALSE] : s \in AmbiguousStatuses}
      BY <3>1
    <3>2. CASE \E c \in BrokerIds :
                 r = [id |-> c, status |-> ReportedStatus(c),
                      confirmed |-> ReportedStatus(c) \in ConfirmedStatuses]
      <4>1. \A c \in BrokerIds : ReportedStatus(c) = "rejected" => book[c].status = "rejected"
        BY DEF ReportedStatus
      <4> QED
        BY <3>2, <4>1
    <3> QED
      BY <2>1, <3>1, <3>2 DEF RepliesAbout
  <2>4. RejectionsRead'
    BY <2>2, <2>3, <1>T DEF LockInv, RejectionsRead
  <2>5. OneHolderPerKey' /\ SendsAreOnRecord' /\ OneBrokerOrder' /\ ReleasedEnded'
    BY <2>2, <1>T DEF LockInv, OneHolderPerKey, HoldsKey, SendsAreOnRecord, OneBrokerOrder, ReleasedEnded
  <2>6. ReadyToSend' /\ OwnIds'
    BY <2>2, <1>T DEF LockInv, ReadyToSend, OwnIds
  <2> QED
    BY <2>4, <2>5, <2>6 DEF LockInv
<1>3. CASE RecordRejection(o)
  <2>1. QuietCalls /\ UNCHANGED <<request, book>>
    BY <1>3, <1>T, GoesQuietly DEF RecordRejection, HandlerAt
  <2>2. /\ handler[o].at = "answered"
        /\ handler[o].reply.status = "rejected" /\ handler[o].reply.confirmed
        /\ handler[o].reply.id = handler[o].ack
    BY <1>3 DEF RecordRejection, VerifiedRejection, Unconfirmed
  <2>3. /\ handler[o].reply.id \in BrokerIds
        /\ book[handler[o].reply.id].owner = o
        /\ book[handler[o].reply.id].status \in EndedStatuses
    BY <2>2, <1>A, <1>T DEF HasAck, LockInv, RejectionsRead, EndedStatuses
  <2>4. "rejected" \in EvidenceStatuses
    BY DEF EvidenceStatuses, TerminalIntentStatuses
  <2> QED
    BY <1>3, <1>T, <2>1, <2>3, <2>4, EvidenceStep DEF RecordRejection
<1> QED
  BY <1>1, <1>2, <1>3

\* The steps of a call that leave intents, requests and broker order alone.
LEMMA LockQuietSteps ==
    ASSUME IInv, NEW o \in Orders,
           \/ CheckDuplicate(o) \/ CreateOrder(o) \/ ApproveRisk(o) \/ RefuseUnprotected(o)
           \/ ClaimConflicts(o) \/ RejectConflict(o) \/ SubmitTransition(o)
           \/ AcceptTransition(o) \/ TryRaises(o) \/ RecordUnknown(o)
           \/ SettleUnconfirmed(o) \/ SettleUnverifiedRejection(o) \/ LoseRejection(o)
           \/ SettleLostRejection(o) \/ SettleRejection(o) \/ SettleStatus(o)
           \/ CreatePosition(o) \/ Crash(o)
    PROVE  LockInv'
<1> USE DEF durable, broker
<1>T. TypeOK /\ LockInv
  BY DEF IInv, Typed
<1>1. UNCHANGED <<intents, request, book>>
  BY DEF CheckDuplicate, CreateOrder, ApproveRisk, RefuseUnprotected, ClaimConflicts,
     RejectConflict, SubmitTransition, AcceptTransition, TryRaises, RecordUnknown,
     SettleUnconfirmed, SettleUnverifiedRejection, LoseRejection, SettleLostRejection,
     SettleRejection, SettleStatus, CreatePosition, Crash
<1>2. \/ \E from, to : /\ Goes(o, from, to) /\ to \in HandlerAt
                       /\ to \notin {"started", "answered"}
                       /\ to = "submitted" => from = "started"
      \/ \E from : \E to \in StoppedAt : Stops(o, from, to)
  <2>1. {"checked", "created", "approved", "conflicted", "submitted", "querying", "failing",
         "rejection_lost", "positioning"} \subseteq HandlerAt
    BY DEF HandlerAt
  <2>2. StoppedAt = {"suppressed", "refused", "done", "crashed"}
    BY DEF StoppedAt
  <2>3. CASE TryRaises(o)
    <3>1. Goes(o, handler[o].at, "failing")
      BY <2>3 DEF TryRaises, Goes
    <3> QED
      BY <2>1, <3>1
  <2>4. CASE \/ CheckDuplicate(o) \/ CreateOrder(o) \/ ApproveRisk(o) \/ ClaimConflicts(o)
             \/ SubmitTransition(o)
    BY <2>1, <2>2, <2>4 DEF CheckDuplicate, CreateOrder, ApproveRisk, ClaimConflicts,
       SubmitTransition
  <2>5. CASE AcceptTransition(o) \/ LoseRejection(o) \/ SettleStatus(o)
    BY <2>1, <2>2, <2>5 DEF AcceptTransition, LoseRejection, SettleStatus
  <2>6. CASE \/ RefuseUnprotected(o) \/ RejectConflict(o) \/ RecordUnknown(o)
             \/ SettleUnconfirmed(o) \/ SettleUnverifiedRejection(o) \/ SettleLostRejection(o)
             \/ SettleRejection(o) \/ CreatePosition(o) \/ Crash(o)
    BY <2>2, <2>6 DEF RefuseUnprotected, RejectConflict, RecordUnknown, SettleUnconfirmed,
       SettleUnverifiedRejection, SettleLostRejection, SettleRejection, CreatePosition, Crash
  <2> QED
    BY <2>3, <2>4, <2>5, <2>6
<1>3. QuietCalls
  <2>1. ASSUME NEW from, NEW to, Goes(o, from, to), to \in HandlerAt,
               to \notin {"started", "answered"}, to = "submitted" => from = "started"
        PROVE  QuietCalls
    BY <2>1, <1>T, GoesQuietly
  <2>2. ASSUME NEW from, NEW to \in StoppedAt, Stops(o, from, to) PROVE QuietCalls
    BY <2>2, <1>T, StopsQuietly
  <2> QED
    BY <1>2, <2>1, <2>2
<1> QED
  BY <1>T, <1>1, <1>3, QuietStep

\* The broker's steps.
LEMMA LockBroker == IInv /\ BrokerStep => LockInv'
<1> SUFFICES ASSUME IInv, BrokerStep PROVE LockInv'
  OBVIOUS
<1> USE DEF durable, broker
<1>T. TypeOK /\ LockInv
  BY DEF IInv, Typed
<1>U. UNCHANGED <<intents, handler>>
  BY DEF BrokerStep, BrokerAccepts, RequestLost, BrokerFills, BrokerEnds, BrokerRejects
<1>O. OneHolderPerKey'
  BY <1>U, <1>T DEF LockInv, OneHolderPerKey, HoldsKey
<1>1. ASSUME NEW o \in Orders, RequestLost(o) PROVE LockInv'
  <2>1. /\ request[o] = "inflight" /\ request'[o] = "lost" /\ book' = book
        /\ \A p \in Orders \ {o} : request'[p] = request[p]
    BY <1>1, <1>T DEF RequestLost, TypeOK
  <2>2. OneBrokerOrder'
    BY <2>1, <1>T DEF LockInv, OneBrokerOrder, TypeOK, BookRow
  <2>3. SendsAreOnRecord' /\ ReadyToSend'
    BY <2>1, <1>U, <1>T DEF LockInv, SendsAreOnRecord, ReadyToSend
  <2>4. OwnIds' /\ RejectionsRead' /\ ReleasedEnded'
    BY <2>1, <1>U, <1>T DEF LockInv, OwnIds, RejectionsRead, ReleasedEnded
  <2> QED
    BY <1>O, <2>2, <2>3, <2>4 DEF LockInv
<1>2. ASSUME NEW o \in Orders, BrokerAccepts(o) PROVE LockInv'
  <2>1. /\ request[o] = "inflight" /\ request'[o] = "accepted"
        /\ \A p \in Orders \ {o} : request'[p] = request[p]
    BY <1>2, <1>T DEF BrokerAccepts, TypeOK
  <2>2. PICK b \in BrokerIds :
           /\ book[b].status = "unused"
           /\ book' = [book EXCEPT ![b] = [owner |-> o, status |-> "open", filled |-> 0]]
    BY <1>2 DEF BrokerAccepts
  <2>3. /\ book'[b] = [owner |-> o, status |-> "open", filled |-> 0]
        /\ \A c \in BrokerIds \ {b} : book'[c] = book[c]
    BY <2>2, <1>T DEF TypeOK
  <2>4. book[b].owner = NoOrder /\ \A c \in BrokerIds : book[c].owner # o
    BY <2>1, <2>2, <1>T, NoOrderAssumption DEF LockInv, OneBrokerOrder
  <2>5. OneBrokerOrder'
    <3>1. \A c \in BrokerIds \ {b} : book[c].owner # NoOrder =>
             request'[book[c].owner] = "accepted" /\ book[c].status # "unused"
      BY <2>1, <2>4, <1>T DEF LockInv, OneBrokerOrder, TypeOK, BookRow
    <3>2. \A c \in BrokerIds : book'[c].owner # NoOrder =>
             request'[book'[c].owner] = "accepted" /\ book'[c].status # "unused"
      BY <2>1, <2>3, <3>1
    <3>3. \A c, d \in BrokerIds :
             book'[c].owner # NoOrder /\ book'[c].owner = book'[d].owner => c = d
      BY <2>3, <2>4, <1>T DEF LockInv, OneBrokerOrder
    <3> QED
      BY <3>2, <3>3 DEF OneBrokerOrder
  <2>6. SendsAreOnRecord' /\ ReadyToSend'
    BY <2>1, <1>U, <1>T DEF LockInv, SendsAreOnRecord, ReadyToSend
  <2>7. OwnIds'
    <3>1. \A p \in Orders : handler[p].ack # NoId => handler[p].ack \in BrokerIds \ {b}
      BY <2>4, <1>T, NoOrderAssumption DEF LockInv, OwnIds, TypeOK, Handler
    <3>2. \A p \in Orders : intents[p].brokerId # NoId => intents[p].brokerId \in BrokerIds \ {b}
      BY <2>4, <1>T, NoOrderAssumption DEF LockInv, OwnIds, TypeOK, IntentRow
    <3> QED
      BY <2>3, <3>1, <3>2, <1>U, <1>T DEF LockInv, OwnIds
  <2>8. RejectionsRead'
    <3>1. ASSUME NEW p \in Orders, handler[p].at = "answered",
                 handler[p].reply.status = "rejected", handler[p].reply.confirmed
          PROVE  book'[handler[p].reply.id].status = "rejected"
      <4>1. book[handler[p].reply.id].status = "rejected" /\ handler[p].reply.id \in BrokerIds
        BY <3>1 DEF IInv, Typed, LocalsSet, HasReply, Reply, LockInv, RejectionsRead
      <4> QED
        BY <4>1, <2>2, <2>3
    <3> QED
      BY <3>1, <1>U DEF RejectionsRead
  <2>9. ReleasedEnded'
    <3>1. "unused" \notin EndedStatuses
      BY DEF EndedStatuses
    <3> QED
      BY <2>2, <2>3, <3>1, <1>U, <1>T DEF LockInv, ReleasedEnded
  <2> QED
    BY <1>O, <2>5, <2>6, <2>7, <2>8, <2>9 DEF LockInv
<1>3. ASSUME NEW b \in BrokerIds, BrokerFills(b) \/ BrokerEnds(b) \/ BrokerRejects(b)
      PROVE  LockInv'
  <2>1. /\ request' = request
        /\ book[b].status \in WorkingStatuses
        /\ \A c \in BrokerIds \ {b} : book'[c] = book[c]
        /\ book'[b].owner = book[b].owner
        /\ book'[b].status # "unused"
    <3>1. CASE BrokerFills(b)
      BY <3>1, <1>T DEF BrokerFills, TypeOK
    <3>2. CASE BrokerEnds(b) \/ BrokerRejects(b)
      BY <3>2, <1>T DEF BrokerEnds, BrokerRejects, TypeOK, BookRow, WorkingStatuses
    <3> QED
      BY <1>3, <3>1, <3>2
  <2>2. "rejected" \notin WorkingStatuses /\ WorkingStatuses \cap EndedStatuses = {}
    BY DEF WorkingStatuses, EndedStatuses
  <2>3. OneBrokerOrder'
    BY <2>1, <1>T DEF LockInv, OneBrokerOrder
  <2>4. SendsAreOnRecord' /\ ReadyToSend'
    BY <2>1, <1>U, <1>T DEF LockInv, SendsAreOnRecord, ReadyToSend
  <2>5. OwnIds'
    <3>1. \A c \in BrokerIds : book'[c].owner = book[c].owner
      BY <2>1
    <3>2. \A p \in Orders : handler[p].ack \in BrokerIds \cup {NoId}
                            /\ intents[p].brokerId \in BrokerIds \cup {NoId}
      BY <1>T DEF TypeOK, Handler, IntentRow
    <3> QED
      BY <3>1, <3>2, <1>U, <1>T DEF LockInv, OwnIds
  <2>6. RejectionsRead'
    <3>1. ASSUME NEW p \in Orders, handler[p].at = "answered",
                 handler[p].reply.status = "rejected", handler[p].reply.confirmed
          PROVE  book'[handler[p].reply.id].status = "rejected"
      <4>1. book[handler[p].reply.id].status = "rejected" /\ handler[p].reply.id \in BrokerIds
        BY <3>1 DEF IInv, Typed, LocalsSet, HasReply, Reply, LockInv, RejectionsRead
      <4> QED
        BY <4>1, <2>1, <2>2
    <3> QED
      BY <3>1, <1>U DEF RejectionsRead
  <2>7. ReleasedEnded'
    BY <2>1, <2>2, <1>U, <1>T DEF LockInv, ReleasedEnded
  <2> QED
    BY <1>O, <2>3, <2>4, <2>5, <2>6, <2>7 DEF LockInv
<1> QED
  BY <1>1, <1>2, <1>3 DEF BrokerStep

LEMMA LockStep == IInv /\ [Next]_vars => LockInv'
<1> SUFFICES ASSUME IInv, [Next]_vars PROVE LockInv'
  OBVIOUS
<1>1. CASE UNCHANGED vars
  BY <1>1 DEF vars, IInv, LockInv, OneHolderPerKey, HoldsKey, SendsAreOnRecord, ReadyToSend,
     OneBrokerOrder, OwnIds, RejectionsRead, ReleasedEnded
<1>2. ASSUME NEW o \in Orders, HandlerStep(o) \/ Crash(o) PROVE LockInv'
  BY <1>2, LockQuietSteps, LockBeforeAck, LockAfterAck DEF HandlerStep
<1> QED
  BY <1>1, <1>2, LockBroker DEF Next

-----------------------------------------------------------------------------

\* An order on the market holds its key.
LEMMA ExposedHoldsKey ==
    ASSUME IInv, NEW o \in Orders, Exposed(o)
    PROVE  HoldsKey(intents, o)
<1>T. TypeOK /\ LockInv
  BY DEF IInv, Typed
<1>1. intents[o].status \in ActiveIntentStatuses \cup TerminalIntentStatuses
  <2>1. request[o] # "unsent"
    BY <1>T, NoOrderAssumption DEF Exposed, LockInv, OneBrokerOrder
  <2> QED
    BY <2>1, <1>T DEF LockInv, SendsAreOnRecord, TypeOK, IntentRow, IntentStatuses
<1>2. ASSUME intents[o].status \in TerminalIntentStatuses PROVE FALSE
  <2> DEFINE b == intents[o].brokerId
  <2>1. b \in BrokerIds /\ book[b].status \in EndedStatuses /\ book[b].owner = o
    BY <1>2, <1>T, NoIdAssumption DEF LockInv, ReleasedEnded, OwnIds
  <2>2. request[o] = "accepted"
    BY <2>1, <1>T, NoOrderAssumption DEF LockInv, OneBrokerOrder
  <2>3. PICK c \in BrokerIds : book[c].owner = o /\ book[c].status \in WorkingStatuses
    BY <2>2 DEF Exposed
  <2>4. b = c
    BY <2>1, <2>3, <1>T, NoOrderAssumption DEF LockInv, OneBrokerOrder
  <2> QED
    BY <2>1, <2>3, <2>4 DEF WorkingStatuses, EndedStatuses
<1> QED
  BY <1>1, <1>2 DEF HoldsKey

\* The invariant behind the theorems below.
THEOREM InvariantHolds == Spec => []IInv
<1>1. Init => IInv
  BY TypedInit, LockInit DEF IInv
<1>2. IInv /\ [Next]_vars => IInv'
  BY TypedStep, LockStep DEF IInv
<1> QED
  BY <1>1, <1>2, PTL DEF Spec

\* Two orders with one logical key are never on the market together, however
\* many workers submit, crash or time out and whatever lookups answer.
THEOREM OneExposurePerKey == Spec => []SingleExposure
<1>1. IInv => SingleExposure
  BY ExposedHoldsKey DEF SingleExposure, IInv, LockInv, OneHolderPerKey
<1> QED
  BY <1>1, InvariantHolds, PTL

LEMMA ReleaseByRejection ==
    ASSUME IInv, NEW o \in Orders, NEW p \in Orders, HandlerStep(p),
           HoldsKey(intents, o), ~HoldsKey(intents', o)
    PROVE  RecordRejection(o)
<1> USE DEF durable, broker
<1>T. TypeOK
  BY DEF IInv, Typed
<1>1. intents' # intents
  BY DEF HoldsKey
<1>2. \/ ClaimSubmission(p) \/ MarkSubmissionStarted(p)
      \/ RecordSubmitted(p) /\ intents' = AfterEvidence(intents, p, handler[p].ack, "submitted")
      \/ RecordRejection(p)
  BY <1>1 DEF HandlerStep, CheckDuplicate, CreateOrder, ApproveRisk, RefuseUnprotected,
     ClaimConflicts, RejectConflict, SubmitTransition, SendPlacement, PlacementAcked,
     RecordSubmitted, AcceptTransition, QueryStatus, TryRaises, RecordUnknown,
     SettleUnconfirmed, SettleUnverifiedRejection, LoseRejection, SettleLostRejection,
     SettleRejection, SettleStatus, CreatePosition
<1>3. o = p
  BY <1>2, <1>T DEF ClaimSubmission, AfterClaim, MarkSubmissionStarted, AfterMarkStarted,
     AfterEvidence, RecordRejection, TypeOK, HoldsKey
<1>4. ~ClaimSubmission(o)
  BY DEF ClaimSubmission, CanClaim, HoldsKey, ActiveIntentStatuses
<1>5. ~MarkSubmissionStarted(o)
  <2> SUFFICES ASSUME MarkSubmissionStarted(o) PROVE FALSE
    OBVIOUS
  <2>1. intents'[o].status = "reconciliation_required"
    BY <1>T DEF MarkSubmissionStarted, AfterMarkStarted, TypeOK, IntentRow
  <2> QED
    BY <2>1 DEF HoldsKey, ActiveIntentStatuses
<1>6. intents' # AfterEvidence(intents, o, handler[o].ack, "submitted")
  <2> SUFFICES ASSUME intents' = AfterEvidence(intents, o, handler[o].ack, "submitted")
               PROVE  FALSE
    OBVIOUS
  <2>1. intents'[o].status = "submitted"
    BY <1>T DEF AfterEvidence, TypeOK
  <2> QED
    BY <2>1 DEF HoldsKey, ActiveIntentStatuses
<1> QED
  BY <1>2, <1>3, <1>4, <1>5, <1>6

\* A rejection the handler acts on is the end of the order's own broker order.
LEMMA RejectedOffMarket ==
    ASSUME IInv, NEW o \in Orders, RecordRejection(o)
    PROVE  request[o] = "accepted" /\ ~Exposed(o)
<1>T. TypeOK /\ LocalsSet /\ LockInv
  BY DEF IInv, Typed
<1> DEFINE b == handler[o].ack
<1>1. /\ handler[o].at = "answered"
      /\ handler[o].reply.status = "rejected" /\ handler[o].reply.confirmed
      /\ handler[o].reply.id = b
  BY DEF RecordRejection, VerifiedRejection, Unconfirmed
<1>2. b \in BrokerIds /\ book[b].owner = o /\ book[b].status = "rejected"
  BY <1>1, <1>T, NoIdAssumption DEF LocalsSet, HasAck, LockInv, OwnIds, RejectionsRead
<1>3. request[o] = "accepted"
  BY <1>2, <1>T, NoOrderAssumption DEF LockInv, OneBrokerOrder
<1>4. ASSUME NEW c \in BrokerIds, book[c].owner = o PROVE book[c].status \notin WorkingStatuses
  <2>1. b = c
    BY <1>2, <1>4, <1>T, NoOrderAssumption DEF LockInv, OneBrokerOrder
  <2> QED
    BY <1>2, <2>1 DEF WorkingStatuses
<1> QED
  BY <1>3, <1>4 DEF Exposed

\* The only step of a handler or the broker that gives a key up records a
\* rejection.
LEMMA ReleaseStep ==
    ASSUME IInv, [Next]_vars, NEW o \in Orders,
           HoldsKey(intents, o), ~HoldsKey(intents', o)
    PROVE  RecordRejection(o)
<1>1. intents' # intents
  BY DEF HoldsKey
<1>2. PICK p \in Orders : HandlerStep(p)
  BY <1>1 DEF Next, vars, durable, Crash, BrokerStep, BrokerAccepts, RequestLost,
     BrokerFills, BrokerEnds, BrokerRejects
<1> QED
  BY <1>2, ReleaseByRejection

\* A logical key is given up only after its order has left the market.
THEOREM KeyReleaseIsSafe == Spec => KeyReleasedOffMarket
<1>1. IInv /\ [Next]_vars =>
        [\A o \in Orders : HoldsKey(intents, o) /\ ~HoldsKey(intents', o) =>
            request[o] = "accepted" /\ ~Exposed(o)]_vars
  BY ReleaseStep, RejectedOffMarket
<1> QED
  BY <1>1, InvariantHolds, PTL DEF Spec, KeyReleasedOffMarket

\* Nothing is sent to the broker before its submission is on record.
THEOREM RecordedBeforeSent == Spec => []SendsAreOnRecord
<1>1. IInv => SendsAreOnRecord
  BY DEF IInv, LockInv
<1> QED
  BY <1>1, InvariantHolds, PTL

-----------------------------------------------------------------------------
(* Refinement of the intent table.                                         *)

\* Accepted evidence is an operation of the table.
LEMMA EvidenceRefines ==
    ASSUME NEW o \in Orders, NEW b, NEW status, AcceptsEvidence(intents, o, b, status),
           intents' = AfterEvidence(intents, o, b, status)
    PROVE  TableNext
<1>1. b \in BrokerIds /\ status \in EvidenceStatuses
  BY DEF AcceptsEvidence, EvidenceStatuses, TerminalIntentStatuses
<1>2. AcceptsEvidence(intents, o, b, status)
  BY DEF AcceptsEvidence, EvidenceAfter, EvidenceStatuses, TerminalIntentStatuses
<1>3. RecordEvidence(o, b, status)
  BY <1>2 DEF AfterEvidence, RecordEvidence
<1> QED
  BY <1>1, <1>3 DEF TableNext

\* A call changes the intent table only by one of the table's operations.
LEMMA IntentsStep ==
    ASSUME NEW o \in Orders, HandlerStep(o)
    PROVE  [TableNext]_intents
<1>1. CASE intents' = intents
  BY <1>1
<1>2. CASE ClaimSubmission(o)
  <2>1. Claim(o)
    BY <1>2 DEF ClaimSubmission, CanClaim, AfterClaim, SameKey, HoldsKey, ActiveIntentStatuses, Claim
  <2> QED
    BY <2>1 DEF TableNext
<1>3. CASE MarkSubmissionStarted(o)
  <2>1. MarkStarted(o)
    BY <1>3 DEF MarkSubmissionStarted, CanMarkStarted, AfterMarkStarted, MarkStarted
  <2> QED
    BY <2>1 DEF TableNext
<1>4. CASE RecordSubmitted(o)
  <2>1. CASE AcceptsEvidence(intents, o, handler[o].ack, "submitted")
    BY <1>4, <2>1, EvidenceRefines DEF RecordSubmitted
  <2>2. CASE ~AcceptsEvidence(intents, o, handler[o].ack, "submitted")
    BY <1>4, <2>2 DEF RecordSubmitted
  <2> QED
    BY <2>1, <2>2
<1>5. CASE RecordRejection(o)
  BY <1>5, EvidenceRefines DEF RecordRejection
<1> QED
  BY <1>1, <1>2, <1>3, <1>4, <1>5
  DEF HandlerStep, durable, CheckDuplicate, CreateOrder, ApproveRisk, RefuseUnprotected,
      ClaimConflicts, RejectConflict, SubmitTransition, SendPlacement, PlacementAcked,
      AcceptTransition, QueryStatus, TryRaises, RecordUnknown, SettleUnconfirmed,
      SettleUnverifiedRejection, LoseRejection, SettleLostRejection, SettleRejection,
      SettleStatus, CreatePosition

\* A step of the handlers or the broker is one of the table, or leaves it alone.
LEMMA IntentsNext == [Next]_vars => [TableNext]_intents
<1> SUFFICES ASSUME [Next]_vars PROVE [TableNext]_intents
  OBVIOUS
<1>1. CASE \E o \in Orders : HandlerStep(o)
  BY <1>1, IntentsStep
<1>2. CASE \E o \in Orders : Crash(o)
  BY <1>2 DEF Crash, durable
<1>3. CASE BrokerStep
  BY <1>3 DEF BrokerStep, BrokerAccepts, RequestLost, BrokerFills, BrokerEnds, BrokerRejects,
     durable
<1>4. CASE UNCHANGED vars
  BY <1>4 DEF vars
<1> QED
  BY <1>1, <1>2, <1>3, <1>4 DEF Next

\* The handlers, whatever the broker does and wherever they die, change the
\* intent table only by claim, start and evidence that its indexes accept.
THEOREM RefinesIntents == Spec => ImplementsIntents
<1>1. Init => TableInit
  BY DEF Init, AbsentRow, TableInit
<1> QED
  BY <1>1, IntentsNext, PTL DEF Spec, ImplementsIntents, TableSpec

-----------------------------------------------------------------------------
(* Refinement of the exposure lock.                                        *)

\* The stage function that the lock sees.
LockStage == [o \in Orders |-> Stage(o)]

\* What a stage says of the order's intent, request and broker order.
LEMMA StageDef ==
    ASSUME TypeOK, NEW o \in Orders
    PROVE  /\ Stage(o) = "released" <=> intents[o].status \in TerminalIntentStatuses
           /\ Stage(o) = "outside" <=> intents[o].status = "absent"
           /\ Stage(o) = "holding" <=> HoldsKey(intents, o) /\ request[o] = "unsent"
           /\ Stage(o) = "exposed" <=>
                HoldsKey(intents, o) /\ request[o] # "unsent" /\ Exposed(o)
           /\ Stage(o) = "over" <=>
                HoldsKey(intents, o) /\ request[o] # "unsent" /\ ~Exposed(o)
  BY DEF Stage, HoldsKey, TypeOK, IntentRow, IntentStatuses, ActiveIntentStatuses,
         TerminalIntentStatuses

\* One order moves between stages and the others keep theirs.
LEMMA StageMoves ==
    ASSUME NEW o \in Orders, NEW from, NEW to, Stage(o) = from, Stage(o)' = to,
           \A p \in Orders \ {o} : Stage(p)' = Stage(p)
    PROVE  Lock!Moves(o, from, to)
  BY DEF Lock!Moves

\* An order whose intent, request and exposure stay as they are keeps its stage.
LEMMA StageKept ==
    ASSUME NEW o \in Orders, intents'[o] = intents[o],
           request'[o] = "unsent" <=> request[o] = "unsent", Exposed(o)' <=> Exposed(o)
    PROVE  Stage(o)' = Stage(o)
  BY DEF Stage, HoldsKey

\* A change of the intent table alone leaves exposure and the other orders alone.
LEMMA IntentMoves ==
    ASSUME NEW o \in Orders, UNCHANGED broker,
           \A p \in Orders \ {o} : intents'[p] = intents[p]
    PROVE  /\ Exposed(o)' <=> Exposed(o)
           /\ \A p \in Orders \ {o} : Stage(p)' = Stage(p)
  BY StageKept DEF broker, Exposed

LEMMA LockQuiet ==
    ASSUME UNCHANGED <<intents, request, book>>
    PROVE  UNCHANGED LockStage
<1>1. ASSUME NEW o \in Orders PROVE Stage(o)' = Stage(o)
  BY StageKept DEF Exposed
<1> QED
  BY <1>1 DEF LockStage

\* An intent that stays among the holders keeps its order's stage.
LEMMA LockKept ==
    ASSUME NEW o \in Orders, UNCHANGED broker, HoldsKey(intents, o), HoldsKey(intents', o),
           \A p \in Orders \ {o} : intents'[p] = intents[p]
    PROVE  UNCHANGED LockStage
<1>1. Exposed(o)' <=> Exposed(o)
  BY DEF broker, Exposed
<1>2. Stage(o)' = Stage(o)
  BY <1>1 DEF Stage, HoldsKey, broker, ActiveIntentStatuses, TerminalIntentStatuses
<1> QED
  BY <1>2, IntentMoves DEF LockStage

\* Evidence releases the lock of an order that is off the market, or leaves
\* its stage alone.
LEMMA LockRefinesEvidence ==
    ASSUME TypeOK, NEW o \in Orders, NEW b, NEW status, UNCHANGED broker,
           AcceptsEvidence(intents, o, b, status),
           intents' = AfterEvidence(intents, o, b, status),
           status \in TerminalIntentStatuses => request[o] = "accepted" /\ ~Exposed(o)
    PROVE  [Lock!Next]_LockStage
<1>1. /\ intents'[o].status = status
      /\ \A p \in Orders \ {o} : intents'[p] = intents[p]
  BY DEF AfterEvidence, TypeOK
<1>2. \A p \in Orders \ {o} : Stage(p)' = Stage(p)
  BY <1>1, IntentMoves
<1>3. CASE intents[o].status \in TerminalIntentStatuses
  <2>1. status \in TerminalIntentStatuses
    BY <1>3 DEF AcceptsEvidence, EvidenceAfter, TerminalIntentStatuses
  <2>2. Stage(o)' = Stage(o)
    BY <1>1, <1>3, <2>1 DEF Stage, HoldsKey, TerminalIntentStatuses, ActiveIntentStatuses
  <2> QED
    BY <1>2, <2>2 DEF LockStage
<1>4. CASE intents[o].status \notin TerminalIntentStatuses
  <2>1. HoldsKey(intents, o)
    BY <1>4 DEF AcceptsEvidence, EvidenceAfter, TerminalIntentStatuses, HoldsKey,
       ActiveIntentStatuses, TypeOK, IntentRow, IntentStatuses
  <2>2. CASE status \in TerminalIntentStatuses
    <3>1. Stage(o) = "over"
      BY <2>1, <2>2, StageDef
    <3>2. Stage(o)' = "released"
      BY <1>1, <2>2 DEF Stage, HoldsKey, ActiveIntentStatuses, TerminalIntentStatuses
    <3>3. Lock!Moves(o, "over", "released")
      BY <1>2, <3>1, <3>2, StageMoves
    <3> QED
      BY <3>3 DEF Lock!Release, Lock!Next
  <2>3. CASE status \notin TerminalIntentStatuses
    <3>1. HoldsKey(intents', o)
      BY <1>1, <2>3 DEF AcceptsEvidence, EvidenceStatuses, HoldsKey, ActiveIntentStatuses
    <3> QED
      BY <1>1, <2>1, <3>1, LockKept
  <2> QED
    BY <2>2, <2>3
<1> QED
  BY <1>3, <1>4

\* One step of a call is one step of the lock, or none.
LEMMA LockRefinesCall ==
    ASSUME IInv, IInv', NEW o \in Orders, HandlerStep(o)
    PROVE  [Lock!Next]_LockStage
<1>T. TypeOK /\ TypeOK' /\ LockInv
  BY DEF IInv, Typed
<1>1. CASE ClaimSubmission(o)
  <2>1. /\ CanClaim(intents, o) /\ UNCHANGED broker
        /\ intents'[o].status = "claimed"
        /\ \A p \in Orders \ {o} : intents'[p] = intents[p]
    BY <1>1, <1>T DEF ClaimSubmission, AfterClaim, TypeOK
  <2>2. Stage(o) = "outside"
    BY <1>T, <2>1, StageDef DEF CanClaim
  <2>3. Stage(o)' = "holding"
    <3>1. request'[o] = "unsent"
      BY <1>T, <2>1 DEF CanClaim, broker, LockInv, SendsAreOnRecord, TypeOK
    <3>2. HoldsKey(intents, o)'
      BY <2>1 DEF HoldsKey, ActiveIntentStatuses
    <3> QED
      BY <3>1, <3>2 DEF Stage, HoldsKey, ActiveIntentStatuses, TerminalIntentStatuses
  <2>4. ASSUME NEW p \in Orders, KeyOf[p] = KeyOf[o] PROVE ~Lock!Holds(p)
    <3>1. ~HoldsKey(intents, p)
      BY <2>1, <2>4 DEF CanClaim, SameKey
    <3> QED
      BY <1>T, <3>1, StageDef DEF Lock!Holds
  <2>5. Lock!Moves(o, "outside", "holding")
    BY <2>1, <2>2, <2>3, IntentMoves, StageMoves
  <2> QED
    BY <2>4, <2>5 DEF Lock!Take, Lock!Next
<1>2. CASE MarkSubmissionStarted(o)
  <2>1. /\ HoldsKey(intents, o) /\ HoldsKey(intents', o)
        /\ UNCHANGED broker
        /\ \A p \in Orders \ {o} : intents'[p] = intents[p]
    BY <1>2, <1>T DEF MarkSubmissionStarted, CanMarkStarted, AfterMarkStarted, HoldsKey,
       ActiveIntentStatuses, TypeOK, IntentRow
  <2> QED
    BY <2>1, <1>T, LockKept
<1>3. CASE RecordSubmitted(o)
  <2>1. CASE AcceptsEvidence(intents, o, handler[o].ack, "submitted")
    BY <1>3, <1>T, <2>1, LockRefinesEvidence DEF RecordSubmitted, TerminalIntentStatuses
  <2>2. CASE ~AcceptsEvidence(intents, o, handler[o].ack, "submitted")
    BY <1>3, <2>2, LockQuiet DEF RecordSubmitted, broker
  <2> QED
    BY <2>1, <2>2
<1>4. CASE SendPlacement(o)
  <2>1. /\ handler[o].at = "submitted" /\ UNCHANGED <<intents, book>>
        /\ request'[o] = "inflight"
        /\ \A p \in Orders \ {o} : request'[p] = request[p]
    BY <1>4, <1>T DEF SendPlacement, Goes, durable, TypeOK
  <2>2. request[o] = "unsent" /\ HoldsKey(intents, o)
    <3>1. request[o] = "unsent" /\ intents[o].status # "absent"
      BY <2>1, <1>T DEF LockInv, ReadyToSend
    <3>2. intents[o].status \notin TerminalIntentStatuses
      BY <3>1, <1>T, NoIdAssumption, NoOrderAssumption
      DEF LockInv, ReleasedEnded, OwnIds, OneBrokerOrder
    <3> QED
      BY <1>T, <3>1, <3>2 DEF HoldsKey, TypeOK, IntentRow, IntentStatuses
  <2>3. Stage(o) = "holding" /\ Stage(o)' = "exposed"
    <3>1. Exposed(o)' /\ HoldsKey(intents, o)'
      BY <2>1, <2>2 DEF Exposed, HoldsKey
    <3> QED
      BY <1>T, <2>1, <2>2, <3>1 DEF Stage, HoldsKey, ActiveIntentStatuses, TerminalIntentStatuses
  <2>4. ASSUME NEW p \in Orders \ {o} PROVE Stage(p)' = Stage(p)
    BY <2>1, StageKept DEF Exposed
  <2>5. Lock!Moves(o, "holding", "exposed")
    BY <2>3, <2>4, StageMoves
  <2> QED
    BY <2>5 DEF Lock!Expose, Lock!Next
<1>5. CASE RecordRejection(o)
  BY <1>5, <1>T, RejectedOffMarket, LockRefinesEvidence DEF RecordRejection
<1>6. CASE UNCHANGED <<intents, request, book>>
  BY <1>6, LockQuiet
<1> QED
  BY <1>1, <1>2, <1>3, <1>4, <1>5, <1>6
  DEF HandlerStep, durable, broker, CheckDuplicate, CreateOrder, ApproveRisk, RefuseUnprotected,
      ClaimConflicts, RejectConflict, PlacementAcked, SubmitTransition,
      AcceptTransition, QueryStatus, TryRaises, RecordUnknown, SettleUnconfirmed,
      SettleUnverifiedRejection, LoseRejection, SettleLostRejection, SettleRejection,
      SettleStatus, CreatePosition

\* A change of the book that leaves every row its owner ends one order's
\* exposure, or none.
LEMMA LockRefinesBook ==
    ASSUME IInv, IInv', NEW b \in BrokerIds, book[b].status \in WorkingStatuses,
           UNCHANGED <<intents, request>>,
           book'[b].owner = book[b].owner,
           \A c \in BrokerIds \ {b} : book'[c] = book[c]
    PROVE  [Lock!Next]_LockStage
<1>T. TypeOK /\ TypeOK' /\ LockInv
  BY DEF IInv, Typed
<1>1. ASSUME NEW p \in Orders, p # book[b].owner PROVE Stage(p)' = Stage(p)
  <2>1. Exposed(p)' <=> Exposed(p)
    BY <1>1 DEF Exposed
  <2> QED
    BY <2>1, StageKept
<1>2. CASE book[b].owner = NoOrder
  BY <1>1, <1>2, NoOrderAssumption DEF LockStage
<1>3. CASE book[b].owner \in Orders
  <2> DEFINE o == book[b].owner
  <2>1. CASE book'[b].status \in WorkingStatuses
    <3>1. Exposed(o) /\ Exposed(o)'
      BY <1>3, <2>1 DEF Exposed
    <3>2. Stage(o)' = Stage(o)
      BY <1>3, <3>1, StageKept
    <3> QED
      BY <1>1, <3>2 DEF LockStage
  <2>2. CASE book'[b].status \notin WorkingStatuses
    <3>1. request[o] = "accepted" /\ Exposed(o)
      BY <1>3, <1>T, NoOrderAssumption DEF LockInv, OneBrokerOrder, Exposed
    <3>2. ~Exposed(o)'
      <4>1. ASSUME NEW c \in BrokerIds, book'[c].owner = o PROVE c = b
        BY <4>1, <1>3, <1>T, NoOrderAssumption DEF LockInv, OneBrokerOrder
      <4> QED
        BY <2>2, <3>1, <4>1 DEF Exposed
    <3>3. CASE HoldsKey(intents, o)
      <4>1. Stage(o) = "exposed"
        BY <1>3, <1>T, <3>1, <3>3, StageDef
      <4>2. Stage(o)' = "over"
        BY <1>3, <3>1, <3>2, <3>3
        DEF Stage, HoldsKey, ActiveIntentStatuses, TerminalIntentStatuses
      <4>3. Lock!Moves(o, "exposed", "over")
        BY <1>1, <1>3, <4>1, <4>2, StageMoves
      <4> QED
        BY <1>3, <4>3 DEF Lock!End, Lock!Next
    <3>4. CASE ~HoldsKey(intents, o)
      <4>1. intents[o].status \in TerminalIntentStatuses
        BY <1>3, <1>T, <3>1, <3>4
        DEF LockInv, SendsAreOnRecord, HoldsKey, TypeOK, IntentRow, IntentStatuses
      <4>2. Stage(o)' = Stage(o)
        BY <4>1 DEF Stage, HoldsKey, TerminalIntentStatuses, ActiveIntentStatuses
      <4> QED
        BY <1>1, <4>2 DEF LockStage
    <3> QED
      BY <3>3, <3>4
  <2> QED
    BY <2>1, <2>2
<1> QED
  BY <1>2, <1>3, <1>T DEF TypeOK, BookRow

\* One step of the broker is one step of the lock, or none.
LEMMA LockRefinesBroker ==
    ASSUME IInv, IInv', BrokerStep
    PROVE  [Lock!Next]_LockStage
<1>T. TypeOK /\ TypeOK' /\ LockInv
  BY DEF IInv, Typed
<1>1. ASSUME NEW o \in Orders, BrokerAccepts(o) PROVE UNCHANGED LockStage
  <2>1. PICK b \in BrokerIds :
            /\ book[b].status = "unused"
            /\ book' = [book EXCEPT ![b] = [owner |-> o, status |-> "open", filled |-> 0]]
    BY <1>1 DEF BrokerAccepts
  <2>2. /\ request[o] = "inflight" /\ request'[o] = "accepted"
        /\ \A p \in Orders \ {o} : request'[p] = request[p]
        /\ UNCHANGED intents
    BY <1>1, <1>T DEF BrokerAccepts, durable, TypeOK
  <2>3. /\ book'[b].owner = o /\ book'[b].status = "open"
        /\ \A c \in BrokerIds \ {b} : book'[c] = book[c]
    BY <2>1, <1>T DEF TypeOK
  <2>4. Exposed(o) /\ Exposed(o)'
    BY <2>2, <2>3 DEF Exposed, WorkingStatuses
  <2>5. ASSUME NEW p \in Orders \ {o} PROVE Exposed(p)' <=> Exposed(p)
    BY <2>1, <2>2, <2>3 DEF Exposed, WorkingStatuses
  <2>6. ASSUME NEW p \in Orders PROVE Stage(p)' = Stage(p)
    BY <2>2, <2>4, <2>5, StageKept
  <2> QED
    BY <2>6 DEF LockStage
<1>2. ASSUME NEW o \in Orders, RequestLost(o) PROVE Lock!Next
  <2>1. /\ request[o] = "inflight" /\ request'[o] = "lost"
        /\ \A p \in Orders \ {o} : request'[p] = request[p]
        /\ UNCHANGED <<intents, book>>
    BY <1>2, <1>T DEF RequestLost, durable, TypeOK
  <2>2. Exposed(o) /\ ~Exposed(o)'
    BY <2>1, <1>T, NoOrderAssumption DEF Exposed, LockInv, OneBrokerOrder
  <2>3. HoldsKey(intents, o)
    BY <2>1, <1>T, NoIdAssumption, NoOrderAssumption
    DEF LockInv, SendsAreOnRecord, ReleasedEnded, OwnIds, OneBrokerOrder, HoldsKey, TypeOK,
        IntentRow, IntentStatuses
  <2>4. Stage(o) = "exposed"
    BY <1>T, <2>1, <2>2, <2>3, StageDef
  <2>5. Stage(o)' = "over"
    BY <2>1, <2>2, <2>3 DEF Stage, HoldsKey, ActiveIntentStatuses, TerminalIntentStatuses
  <2>6. ASSUME NEW p \in Orders \ {o} PROVE Stage(p)' = Stage(p)
    BY <2>1, StageKept DEF Exposed
  <2>7. Lock!Moves(o, "exposed", "over")
    BY <2>4, <2>5, <2>6, StageMoves
  <2> QED
    BY <2>7 DEF Lock!End, Lock!Next
<1>3. ASSUME NEW b \in BrokerIds, BrokerFills(b) \/ BrokerEnds(b) \/ BrokerRejects(b)
      PROVE  [Lock!Next]_LockStage
  <2>1. /\ book[b].status \in WorkingStatuses /\ UNCHANGED <<intents, request>>
        /\ book'[b].owner = book[b].owner
        /\ \A c \in BrokerIds \ {b} : book'[c] = book[c]
    BY <1>3, <1>T
    DEF BrokerFills, BrokerEnds, BrokerRejects, durable, WorkingStatuses, TypeOK, BookRow
  <2> QED
    BY <2>1, LockRefinesBook
<1> QED
  BY <1>1, <1>2, <1>3 DEF BrokerStep

\* A step of the handlers or the broker is one of the lock, or none.
LEMMA LockNext == IInv /\ IInv' /\ [Next]_vars => [Lock!Next]_LockStage
<1> SUFFICES ASSUME IInv, IInv', [Next]_vars PROVE [Lock!Next]_LockStage
  OBVIOUS
<1>1. CASE \E o \in Orders : HandlerStep(o)
  BY <1>1, LockRefinesCall
<1>2. CASE \E o \in Orders : Crash(o)
  BY <1>2, LockQuiet DEF Crash, durable, broker
<1>3. CASE BrokerStep
  BY <1>3, LockRefinesBroker
<1>4. CASE UNCHANGED vars
  BY <1>4, LockQuiet DEF vars
<1> QED
  BY <1>1, <1>2, <1>3, <1>4 DEF Next

LEMMA LockStart == Init => Lock!Init
  BY DEF Init, AbsentRow, Lock!Init, Stage, HoldsKey, ActiveIntentStatuses,
         TerminalIntentStatuses

\* The submission path is the lock: an order takes its logical key before it
\* touches the market, is put on the market at most once, and gives the key
\* back only when its exposure has ended.
THEOREM RefinesLock == Spec => ImplementsLock
  BY LockStart, LockNext, InvariantHolds, PTL DEF Spec, ImplementsLock, Lock!Spec, LockStage

-----------------------------------------------------------------------------
(* The passes beside the calls: what they have read, and the invariant.    *)

\* The points of a pass with an order of the snapshot in hand.
InHand ==
    {"answered", "judged", "found", "reviewing", "ending", "ended", "partial", "sharing",
     "sizing", "filling", "filled", "opening"}

\* The local variables p of a pass fit the intent table and the broker's book.
Sound(p, table, bk) ==
    /\ \A l \in p.todo : table[l.order].brokerId # NoId
    /\ p.at \in InHand =>
          /\ p.cur \in LocalOrder /\ p.answer \in Answer
          /\ table[p.cur.order].brokerId # NoId
          /\ p.answer.status \in EndedStatuses => bk[p.answer.id].status = p.answer.status
    /\ p.at \in InHand \ {"answered"} =>
          /\ p.answer.id = p.cur.id
          /\ table[p.cur.order].brokerId = p.cur.id
    /\ p.at = "ending" => p.answer.status \in {"rejected", "cancelled"}
    /\ p.at = "filling" => p.answer.status = "filled"
    /\ p.at = "closing" => p.found \in Position

PassesSound ==
    /\ pass \in [Reconcilers -> Pass]
    /\ \A r \in Reconcilers : Sound(pass[r], intents, book)

\* A filled quantity is one of a used row, and the whole lot is a fill.
BookSound ==
    \A b \in BrokerIds :
        /\ book[b].status = "unused" => book[b].filled = 0
        /\ book[b].status # "unused" => book[b].owner \in Orders
        /\ book[b].filled = Lot => book[b].status = "filled"

\* The points of a call after its acknowledgement was recorded.
Recorded ==
    {"evidenced", "querying", "answered", "rejecting", "rejection_lost", "positioning"}

\* A broker id reaches the order row after the intent has one.
Linked ==
    \A o \in Orders :
        /\ orders[o].brokerId # NoId \/ handler[o].at \in Recorded => intents[o].brokerId # NoId
        /\ orders[o].status = "absent" => orders[o].brokerId = NoId

ReconInv ==
    /\ IInv
    /\ PassesSound
    /\ squared \subseteq BrokerIds
    /\ BookSound
    /\ Linked
    /\ OutcomesAreTrue

\* The id of an intent and the end of a broker order are never replaced.
IdsStay ==
    \A o \in Orders : intents[o].brokerId # NoId => intents'[o].brokerId = intents[o].brokerId

EndsStay ==
    \A b \in BrokerIds : book[b].status \in EndedStatuses => book'[b].status = book[b].status

-----------------------------------------------------------------------------
(* The handlers and the broker beside the passes.                          *)

\* What passes have read stays true while ids and ends stay.
LEMMA SoundStays ==
    ASSUME NEW p \in Pass, Sound(p, intents, book), IdsStay, EndsStay
    PROVE  Sound(p, intents', book')
<1>1. \A l \in p.todo : l.order \in Orders
  BY DEF Pass, LocalOrder
<1>2. p.at \in InHand => p.cur.order \in Orders /\ p.answer.id \in BrokerIds
  BY DEF Sound, LocalOrder, Answer
<1> QED
  BY <1>1, <1>2 DEF Sound, IdsStay, EndsStay

\* An intent with a broker id was started.
LEMMA LinkedIsStarted ==
    ASSUME IInv, NEW o \in Orders, intents[o].brokerId # NoId
    PROVE  intents[o].status \notin {"absent", "claimed"}
<1>1. book[intents[o].brokerId].owner = o /\ intents[o].brokerId \in BrokerIds
  BY DEF IInv, Typed, TypeOK, IntentRow, LockInv, OwnIds
<1>2. request[o] = "accepted"
  BY <1>1, NoOrderAssumption DEF IInv, LockInv, OneBrokerOrder
<1> QED
  BY <1>2 DEF IInv, LockInv, SendsAreOnRecord

\* Ids stay in the table through each of its operations.
LEMMA TableIdsStay ==
    ASSUME IInv, [TableNext]_intents
    PROVE  IdsStay
<1>1. \A o \in Orders : intents[o].brokerId # NoId => intents[o].status \notin {"absent", "claimed"}
  BY LinkedIsStarted
<1>2. CASE intents' = intents
  BY <1>2 DEF IdsStay
<1>3. ASSUME NEW o \in Orders, Claim(o) PROVE IdsStay
  BY <1>1, <1>3 DEF Claim, CanClaim, AfterClaim, IdsStay, IInv, Typed, TypeOK
<1>4. ASSUME NEW o \in Orders, MarkStarted(o) PROVE IdsStay
  BY <1>1, <1>4 DEF MarkStarted, CanMarkStarted, AfterMarkStarted, IdsStay,
     IInv, Typed, TypeOK
<1>5. ASSUME NEW o \in Orders, NEW b \in BrokerIds, NEW status, RecordEvidence(o, b, status)
      PROVE  IdsStay
  BY <1>5 DEF RecordEvidence, AcceptsEvidence, AfterEvidence, IdsStay, IInv,
     Typed, TypeOK
<1> QED
  BY <1>2, <1>3, <1>4, <1>5 DEF TableNext

\* A call writes nothing into the broker's book.
LEMMA CallsKeepBook ==
    ASSUME NEW o \in Orders, HandlerStep(o) \/ Crash(o)
    PROVE  UNCHANGED book
  BY DEF HandlerStep, Crash, durable, broker, CheckDuplicate, CreateOrder, ApproveRisk,
     RefuseUnprotected, ClaimSubmission, ClaimConflicts, RejectConflict, MarkSubmissionStarted,
     SubmitTransition, SendPlacement, PlacementAcked, RecordSubmitted, AcceptTransition,
     QueryStatus, TryRaises, RecordUnknown, SettleUnconfirmed, SettleUnverifiedRejection,
     RecordRejection, LoseRejection, SettleLostRejection, SettleRejection, SettleStatus,
     CreatePosition

\* The broker keeps the ends of its orders.
LEMMA BrokerEndsStay ==
    ASSUME TypeOK, [Next]_vars
    PROVE  EndsStay
<1>1. CASE UNCHANGED book
  BY <1>1 DEF EndsStay
<1>2. CASE BrokerStep
  BY <1>2 DEF BrokerStep, BrokerAccepts, RequestLost, BrokerFills, BrokerEnds, BrokerRejects,
     EndsStay, WorkingStatuses, EndedStatuses, TypeOK
<1>3. ASSUME NEW o \in Orders, HandlerStep(o) \/ Crash(o) PROVE UNCHANGED book
  BY <1>3, CallsKeepBook
<1> QED
  BY <1>1, <1>2, <1>3 DEF Next, vars

LEMMA BookSoundStep ==
    ASSUME TypeOK, BookSound, [Next]_vars
    PROVE  BookSound'
<1>1. CASE UNCHANGED book
  BY <1>1 DEF BookSound
<1>2. ASSUME NEW o \in Orders, BrokerAccepts(o) PROVE BookSound'
  BY <1>2, LotAssumption DEF BrokerAccepts, BookSound, TypeOK
<1>3. ASSUME NEW b \in BrokerIds, BrokerFills(b) PROVE BookSound'
  <2>1. PICK n \in book[b].filled + 1 .. Lot :
            book' = [book EXCEPT ![b] =
                [owner |-> @.owner, filled |-> n,
                 status |-> IF n = Lot THEN "filled" ELSE "partially_filled"]]
    BY <1>3 DEF BrokerFills
  <2>2. book'[b].owner \in Orders
    BY <1>3, <2>1 DEF BrokerFills, BookSound, TypeOK, WorkingStatuses
  <2> QED
    BY <2>1, <2>2 DEF BookSound, TypeOK
<1>4. ASSUME NEW b \in BrokerIds, BrokerEnds(b) \/ BrokerRejects(b) PROVE BookSound'
  <2>1. PICK s \in {"cancelled", "expired", "rejected"} : book' = [book EXCEPT ![b].status = s]
    BY <1>4 DEF BrokerEnds, BrokerRejects
  <2>2. book[b].status \in WorkingStatuses
    BY <1>4 DEF BrokerEnds, BrokerRejects, WorkingStatuses
  <2>3. /\ book'[b].status = s /\ book'[b].owner = book[b].owner
        /\ book'[b].filled = book[b].filled
        /\ \A c \in BrokerIds \ {b} : book'[c] = book[c]
    BY <2>1 DEF TypeOK, BookRow
  <2> QED
    BY <2>2, <2>3 DEF BookSound, WorkingStatuses
<1>5. ASSUME NEW o \in Orders, RequestLost(o) PROVE UNCHANGED book
  BY <1>5 DEF RequestLost
<1>6. ASSUME NEW o \in Orders, HandlerStep(o) \/ Crash(o) PROVE UNCHANGED book
  BY <1>6, CallsKeepBook
<1> QED
  BY <1>1, <1>2, <1>3, <1>4, <1>5, <1>6 DEF Next, BrokerStep, vars

\* A call writes a broker id into its order row only after its intent has one.
LEMMA LinkedStep ==
    ASSUME IInv, Linked, [Next]_vars
    PROVE  Linked'
<1>T. TypeOK
  BY DEF IInv, Typed
<1>I. IdsStay
  BY IntentsNext, TableIdsStay
<1>1. CASE UNCHANGED <<intents, orders, handler>>
  BY <1>1 DEF Linked
<1>2. ASSUME NEW o \in Orders, UNCHANGED orders, NEW at \in HandlerAt,
             \/ Goes(o, handler[o].at, at) \/ Stops(o, handler[o].at, at),
             at \in Recorded => handler[o].at \in Recorded
      PROVE  Linked'
  <2>1. /\ handler'[o].at = at
        /\ \A p \in Orders \ {o} : handler'[p] = handler[p]
    BY <1>2, <1>T DEF Goes, Stops, NewCall, TypeOK, Handler
  <2> QED
    BY <1>I, <1>2, <2>1 DEF Linked, IdsStay
<1>3. ASSUME NEW o \in Orders, NEW at \in HandlerAt, NEW status, NEW b, status # "absent",
             orders' = AfterTransition(orders, o, status, b),
             \/ Goes(o, handler[o].at, at) \/ Stops(o, handler[o].at, at),
             b = NoId \/ handler[o].at \in Recorded,
             at \in Recorded => handler[o].at \in Recorded
      PROVE  Linked'
  <2>1. /\ handler'[o].at = at
        /\ \A p \in Orders \ {o} : handler'[p] = handler[p]
    BY <1>3, <1>T DEF Goes, Stops, NewCall, TypeOK, Handler
  <2>2. /\ orders'[o].brokerId \in {orders[o].brokerId, b}
        /\ b = NoId => orders'[o].brokerId = orders[o].brokerId
        /\ orders'[o].status # "absent"
        /\ \A p \in Orders \ {o} : orders'[p] = orders[p]
    BY <1>3, <1>T DEF AfterTransition, TypeOK
  <2> QED
    BY <1>I, <1>3, <2>1, <2>2 DEF Linked, IdsStay
<1>4. ASSUME NEW o \in Orders,
             \/ CheckDuplicate(o) \/ RefuseUnprotected(o) \/ ClaimSubmission(o)
             \/ ClaimConflicts(o) \/ MarkSubmissionStarted(o) \/ SendPlacement(o)
             \/ RecordRejection(o) \/ LoseRejection(o) \/ CreatePosition(o) \/ Crash(o)
      PROVE  Linked'
  BY <1>2, <1>4 DEF durable, CheckDuplicate, RefuseUnprotected, ClaimSubmission, ClaimConflicts,
     MarkSubmissionStarted, SendPlacement, RecordRejection, VerifiedRejection, LoseRejection,
     CreatePosition, Crash, Goes, Stops, HandlerAt, StoppedAt, Recorded
<1>5. ASSUME NEW o \in Orders,
             \/ ApproveRisk(o) \/ RejectConflict(o) \/ SubmitTransition(o) \/ AcceptTransition(o)
             \/ RecordUnknown(o) \/ SettleUnconfirmed(o) \/ SettleUnverifiedRejection(o)
             \/ SettleLostRejection(o) \/ SettleRejection(o) \/ SettleStatus(o)
      PROVE  Linked'
  BY <1>3, <1>5 DEF ApproveRisk, RejectConflict, SubmitTransition, AcceptTransition,
     RecordUnknown, SettleUnconfirmed, SettleUnverifiedRejection, SettleLostRejection,
     SettleRejection, SettleStatus, OrderStatusOf, Goes, Stops, HandlerAt, StoppedAt, Recorded
<1>6. ASSUME NEW o \in Orders, CreateOrder(o) PROVE Linked'
  BY <1>6, <1>T DEF CreateOrder, AfterCreate, Goes, Linked, TypeOK, Handler, Recorded
<1>7. ASSUME NEW o \in Orders, PlacementAcked(o) \/ TryRaises(o) PROVE Linked'
  BY <1>7, <1>T DEF PlacementAcked, TryRaises, durable, Linked, TypeOK, Handler, Recorded
<1>8. ASSUME NEW o \in Orders, QueryStatus(o) PROVE Linked'
  BY <1>8, <1>T DEF QueryStatus, durable, Linked, TypeOK, Handler, Recorded
<1>9. ASSUME NEW o \in Orders, RecordSubmitted(o) PROVE Linked'
  <2>1. UNCHANGED orders /\ \A p \in Orders \ {o} : handler'[p] = handler[p]
    BY <1>9, <1>T DEF RecordSubmitted, Goes, TypeOK
  <2>2. CASE AcceptsEvidence(intents, o, handler[o].ack, "submitted")
    <3>1. intents'[o].brokerId # NoId
      BY <1>9, <1>T, <2>2, NoIdAssumption DEF RecordSubmitted, AcceptsEvidence, AfterEvidence, TypeOK
    <3> QED
      BY <1>I, <2>1, <3>1 DEF Linked, IdsStay
  <2>3. CASE ~AcceptsEvidence(intents, o, handler[o].ack, "submitted")
    <3>1. handler'[o].at = "failing"
      BY <1>9, <1>T, <2>3 DEF RecordSubmitted, Goes, TypeOK, Handler
    <3> QED
      BY <1>I, <2>1, <3>1 DEF Linked, IdsStay, Recorded
  <2> QED
    BY <2>2, <2>3
<1>10. CASE BrokerStep
  BY <1>1, <1>10 DEF BrokerStep, BrokerAccepts, RequestLost, BrokerFills, BrokerEnds,
     BrokerRejects, durable
<1>11. CASE UNCHANGED vars
  BY <1>1, <1>11 DEF vars
<1> QED
  BY <1>4, <1>5, <1>6, <1>7, <1>8, <1>9, <1>10, <1>11 DEF Next, HandlerStep

\* Terminal rows stay as they are, and a row is not terminal at once.
LEMMA TableEndsStay ==
    ASSUME TypeOK, [TableNext]_intents, NEW o \in Orders
    PROVE  /\ intents[o].status \in TerminalIntentStatuses => intents'[o].status = intents[o].status
           /\ intents[o].status \in {"absent", "claimed"} =>
                intents'[o].status \notin TerminalIntentStatuses
<1>1. CASE intents' = intents
  BY <1>1 DEF TerminalIntentStatuses
<1>2. ASSUME NEW p \in Orders, Claim(p) \/ MarkStarted(p)
      PROVE  /\ intents'[o] = intents[o] \/ intents'[o].status \notin TerminalIntentStatuses
             /\ intents'[o] # intents[o] => intents[o].status \in {"absent", "claimed"}
  BY <1>2 DEF Claim, CanClaim, AfterClaim, MarkStarted,
     CanMarkStarted, AfterMarkStarted, TypeOK, IntentRow, TerminalIntentStatuses
<1>3. ASSUME NEW p \in Orders, NEW b \in BrokerIds, NEW status, RecordEvidence(p, b, status)
      PROVE  \/ intents'[o] = intents[o]
             \/ /\ intents[o].status \notin {"absent", "claimed"}
                /\ intents[o].status \in TerminalIntentStatuses =>
                      intents'[o].status = intents[o].status
  BY <1>3 DEF RecordEvidence, AcceptsEvidence, AfterEvidence, EvidenceAfter, TerminalIntentStatuses, TypeOK
<1> QED
  BY <1>1, <1>2, <1>3 DEF TableNext, TerminalIntentStatuses

\* The outcome a call records is a rejection it has read of its own order.
LEMMA OutcomesStep ==
    ASSUME IInv, IInv', OutcomesAreTrue, [Next]_vars
    PROVE  OutcomesAreTrue'
<1> SUFFICES ASSUME NEW o \in Orders, intents'[o].status \in TerminalIntentStatuses
             PROVE  LET b == intents'[o].brokerId
                    IN book'[b].owner = o /\ book'[b].status = intents'[o].status
  BY DEF OutcomesAreTrue
<1>T. TypeOK /\ TypeOK' /\ LockInv /\ LockInv'
  BY DEF IInv, Typed
<1>I. [TableNext]_intents /\ IdsStay /\ EndsStay
  BY <1>T, IntentsNext, TableIdsStay, BrokerEndsStay
<1>1. intents'[o].brokerId \in BrokerIds /\ book'[intents'[o].brokerId].owner = o
  BY <1>T, NoIdAssumption DEF LockInv, ReleasedEnded, OwnIds
<1>2. CASE intents[o].status \in TerminalIntentStatuses
  <2>1. intents'[o].status = intents[o].status
    BY <1>2, <1>I, <1>T, TableEndsStay
  <2>2. /\ intents[o].brokerId \in BrokerIds
        /\ book[intents[o].brokerId].status = intents[o].status
        /\ book[intents[o].brokerId].status \in EndedStatuses
    BY <1>2, <1>T DEF OutcomesAreTrue, LockInv, ReleasedEnded
  <2>3. /\ intents'[o].brokerId = intents[o].brokerId
        /\ book'[intents[o].brokerId].status = book[intents[o].brokerId].status
    BY <1>I, <2>2, NoIdAssumption DEF IdsStay, EndsStay
  <2> QED
    BY <1>1, <2>1, <2>2, <2>3
<1>3. CASE intents[o].status \notin TerminalIntentStatuses
  <2>1. HoldsKey(intents, o) /\ ~HoldsKey(intents', o)
    BY <1>3, <1>I, <1>T, TableEndsStay DEF HoldsKey, ActiveIntentStatuses, TerminalIntentStatuses,
       TypeOK, IntentRow, IntentStatuses
  <2>2. RecordRejection(o)
    BY <2>1, ReleaseStep
  <2>3. /\ intents'[o] = [status |-> "rejected", brokerId |-> handler[o].reply.id]
        /\ UNCHANGED book
        /\ handler[o].at = "answered" /\ handler[o].reply.status = "rejected"
        /\ handler[o].reply.confirmed
    BY <2>2, <1>T DEF RecordRejection, VerifiedRejection, Unconfirmed, AfterEvidence, broker, TypeOK
  <2> QED
    BY <1>1, <1>T, <2>3 DEF LockInv, RejectionsRead
<1> QED
  BY <1>2, <1>3

\* A step of a call or of the broker keeps the invariant.
LEMMA BesidePasses ==
    ASSUME ReconInv, [Next]_vars, UNCHANGED <<pass, squared>>
    PROVE  ReconInv'
<1>1. IInv'
  BY TypedStep, LockStep DEF ReconInv, IInv
<1>2. IdsStay /\ EndsStay
  BY IntentsNext, TableIdsStay, BrokerEndsStay DEF ReconInv, IInv, Typed
<1>3. PassesSound'
  BY <1>2, SoundStays DEF ReconInv, PassesSound
<1>4. BookSound' /\ Linked' /\ OutcomesAreTrue'
  BY <1>1, BookSoundStep, LinkedStep, OutcomesStep DEF ReconInv, IInv, Typed
<1> QED
  BY <1>1, <1>3, <1>4 DEF ReconInv

-----------------------------------------------------------------------------
(* The passes.                                                             *)

\* One pass gets new local variables and the others keep theirs.
LEMMA PassMoves ==
    ASSUME PassesSound, NEW r \in Reconcilers, NEW p \in Pass, Becomes(r, p),
           Sound(p, intents', book'), IdsStay, EndsStay
    PROVE  PassesSound'
<1>1. /\ pass' \in [Reconcilers -> Pass] /\ pass'[r] = p
      /\ \A q \in Reconcilers \ {r} : pass'[q] = pass[q]
  BY DEF Becomes, PassesSound
<1>2. ASSUME NEW q \in Reconcilers \ {r} PROVE Sound(pass[q], intents', book')
  BY SoundStays DEF PassesSound
<1> QED
  BY <1>1, <1>2 DEF PassesSound

\* A pass that leaves the intents alone keeps the invariant if what it writes
\* is typed and only rows whose intent has an id carry one.
LEMMA QuietPass ==
    ASSUME ReconInv, UNCHANGED <<intents, handler, request, book>>,
           PassesSound', squared' \subseteq BrokerIds,
           orders' \in [Orders -> OrderRow], positions' \subseteq Position, Linked'
    PROVE  ReconInv'
<1>1. Typed'
  BY DEF ReconInv, IInv, Typed, TypeOK, LocalsSet, HasReply, HasAck
<1>2. LockInv'
  BY QuietStep DEF ReconInv, IInv, QuietCalls
<1>3. BookSound' /\ OutcomesAreTrue'
  BY DEF ReconInv, BookSound, OutcomesAreTrue
<1> QED
  BY <1>1, <1>2, <1>3 DEF ReconInv, IInv

\* A new pass and a pass between two orders have nothing in hand.
LEMMA NewPassSound == NewPass \in Pass /\ Sound(NewPass, intents, book)
  BY DEF NewPass, Pass, PassAt, Sound, InHand

LEMMA BetweenOrders ==
    ASSUME NEW p \in Pass, Sound(p, intents, book)
    PROVE  LET q == [p EXCEPT !.at = "orders", !.cur = Nothing, !.answer = Nothing, !.found = Nothing]
           IN q \in Pass /\ Sound(q, intents, book)
  BY DEF Pass, PassAt, Sound, InHand

\* An answer has its type, and an end that it reports is one in the book.
LEMMA AnswersSound ==
    ASSUME TypeOK, BookSound, NEW b \in BrokerIds, NEW a \in AnswersAbout(b)
    PROVE  /\ a \in Answer
           /\ a.status \in EndedStatuses => book[a.id].status = a.status
<1>1. PICK x \in RepliesAbout(b) :
          a = [id |-> x.id, status |-> x.status, confirmed |-> x.confirmed,
               filled |-> IF x.status \in AmbiguousStatuses THEN 0 ELSE book[x.id].filled]
  BY DEF AnswersAbout
<1>2. x \in Reply
  BY RepliesTyped
<1>3. a \in Answer
  BY <1>1, <1>2, LotAssumption DEF Reply, Answer, TypeOK, BookRow
<1>4. ASSUME x.status \in EndedStatuses PROVE book[x.id].status = x.status
  <2>1. x.id \in BrokerIds /\ x.status = ReportedStatus(x.id)
    BY <1>4 DEF RepliesAbout, AmbiguousStatuses, EndedStatuses
  <2>2. CASE book[x.id].filled = Lot
    BY <2>1, <2>2 DEF ReportedStatus, BookSound
  <2>3. CASE book[x.id].filled # Lot
    BY <1>4, <2>1, <2>3 DEF ReportedStatus, EndedStatuses
  <2> QED
    BY <2>2, <2>3
<1> QED
  BY <1>1, <1>3, <1>4

\* The steps of a pass that change nothing but its local variables.
LEMMA ReadingSteps ==
    ASSUME ReconInv, NEW r \in Reconcilers,
           \/ StartPass(r) \/ TakeSnapshot(r) \/ FetchHoldings(r) \/ JudgeAnswer(r)
           \/ FindPosition(r) \/ CheckProtection(r) \/ ListPositions(r) \/ EndPass(r)
           \/ \E l \in pass[r].todo : AskBroker(r, l)
           \/ \E x \in pass[r].sweep : SparePosition(r, x) \/ CondemnPosition(r, x)
           \/ PassFails(r)
    PROVE  ReconInv'
<1>T. TypeOK /\ PassesSound /\ BookSound /\ Linked
  BY DEF ReconInv, IInv, Typed
<1>U. UNCHANGED <<durable, submission>> /\ IdsStay /\ EndsStay
  BY DEF StartPass, TakeSnapshot, FetchHoldings, JudgeAnswer, FindPosition, CheckProtection,
     ListPositions, EndPass, AskBroker, SparePosition, CondemnPosition, PassFails, durable,
     submission, IdsStay, EndsStay
<1> SUFFICES PassesSound'
  BY <1>T, <1>U, QuietPass DEF ReconInv, Linked, TypeOK, durable, submission
<1>S. PICK q \in Pass : q = pass[r] /\ Sound(q, intents, book)
  BY <1>T DEF PassesSound
<1>P. ASSUME NEW p, p \in Pass, Sound(p, intents, book), Becomes(r, p) PROVE PassesSound'
  BY <1>P, <1>T, <1>U, PassMoves DEF durable, submission
<1>N. ASSUME NextOrder(r) PROVE PassesSound'
  BY <1>N, <1>S, <1>P, BetweenOrders DEF NextOrder
<1>Z. ASSUME Becomes(r, NewPass) PROVE PassesSound'
  BY <1>Z, <1>P, NewPassSound
<1>1. CASE StartPass(r)
  <2>1. PICK S \in SUBSET Orders : Becomes(r, [q EXCEPT !.at = "recovering", !.stale = S])
    BY <1>S, <1>1 DEF StartPass
  <2> DEFINE p == [q EXCEPT !.at = "recovering", !.stale = S]
  <2>2. p \in Pass /\ Sound(p, intents, book)
    BY <1>S DEF Pass, PassAt, Sound, InHand
  <2> QED
    BY <1>P, <2>1, <2>2
<1>2. CASE TakeSnapshot(r)
  <2> DEFINE p == [q EXCEPT !.at = "listing", !.todo = RowsWithId]
  <2>1. ASSUME NEW l \in RowsWithId
        PROVE  l \in LocalOrder /\ intents[l.order].brokerId # NoId
    <3>1. PICK o \in Orders : /\ orders[o].brokerId # NoId
                              /\ l = [order |-> o, id |-> orders[o].brokerId,
                                      status |-> orders[o].status]
      BY DEF RowsWithId
    <3>2. orders[o].status # "absent"
      BY <3>1, <1>T DEF Linked
    <3> QED
      BY <3>1, <3>2, <1>T DEF LocalOrder, Linked, TypeOK, OrderRow
  <2>2. p \in Pass /\ Sound(p, intents, book)
    BY <1>S, <2>1 DEF Pass, PassAt, Sound, InHand
  <2> QED
    BY <1>S, <1>2, <1>P, <2>2 DEF TakeSnapshot
<1>3. CASE FetchHoldings(r)
  <2>1. PICK h \in {HeldKeys, Nothing} : Becomes(r, [q EXCEPT !.at = "orders", !.holdings = h])
    BY <1>S, <1>3 DEF FetchHoldings
  <2> DEFINE p == [q EXCEPT !.at = "orders", !.holdings = h]
  <2>2. HeldKeys \subseteq Keys
    <3>1. ASSUME NEW b \in BrokerIds, book[b].filled > 0 PROVE book[b].owner \in Orders
      BY <1>T, <3>1 DEF BookSound
    <3> QED
      BY <3>1, KeyOfAssumption DEF HeldKeys
  <2>3. p \in Pass /\ Sound(p, intents, book)
    BY <1>S, <2>2 DEF Pass, PassAt, Sound, InHand
  <2> QED
    BY <1>P, <2>1, <2>3
<1>4. CASE JudgeAnswer(r)
  <2>1. CASE Acceptable(q.cur, q.answer)
    <3> DEFINE p == [q EXCEPT !.at = "judged"]
    <3>1. p \in Pass /\ Sound(p, intents, book)
      BY <1>4, <1>S, <2>1 DEF JudgeAnswer, Acceptable, Pass, PassAt, Sound, InHand
    <3> QED
      BY <1>S, <1>4, <1>P, <2>1, <3>1 DEF JudgeAnswer
  <2>2. CASE ~Acceptable(q.cur, q.answer)
    BY <1>S, <1>4, <1>N, <2>2 DEF JudgeAnswer
  <2> QED
    BY <2>1, <2>2
<1>5. CASE FindPosition(r)
  <2>1. PICK x \in Position \cup {Nothing} : Becomes(r, [q EXCEPT !.at = "found", !.found = x])
    BY <1>S, <1>5, <1>T DEF FindPosition, TypeOK
  <2> DEFINE p == [q EXCEPT !.at = "found", !.found = x]
  <2>2. p \in Pass /\ Sound(p, intents, book)
    BY <1>5, <1>S DEF FindPosition, Pass, PassAt, Sound, InHand
  <2> QED
    BY <1>P, <2>1, <2>2
<1>6. CASE CheckProtection(r)
  <2>1. CASE NextOrder(r)
    BY <1>N, <2>1
  <2>2. CASE Becomes(r, [q EXCEPT !.at = "reviewing"])
    <3> DEFINE p == [q EXCEPT !.at = "reviewing"]
    <3>1. p \in Pass /\ Sound(p, intents, book)
      BY <1>6, <1>S DEF CheckProtection, Pass, PassAt, Sound, InHand
    <3> QED
      BY <1>P, <2>2, <3>1
  <2>3. ASSUME NEW at, at = Branch(q.cur, q.answer), at # "orders",
               Becomes(r, [q EXCEPT !.at = at])
        PROVE  PassesSound'
    <3> DEFINE p == [q EXCEPT !.at = at]
    <3>1. /\ at \in {"reviewing", "ending", "ended", "partial", "filling"}
          /\ at = "ending" => q.answer.status \in {"rejected", "cancelled"}
          /\ at = "filling" => q.answer.status = "filled"
      BY <2>3 DEF Branch
    <3>2. p \in Pass /\ Sound(p, intents, book)
      BY <1>6, <1>S, <3>1 DEF CheckProtection, Pass, PassAt, Sound, InHand
    <3> QED
      BY <1>P, <2>3, <3>2
  <2> QED
    BY <1>S, <1>6, <2>1, <2>2, <2>3 DEF CheckProtection
<1>7. CASE ListPositions(r)
  <2>1. CASE Becomes(r, NewPass)
    BY <1>Z, <2>1
  <2>2. CASE Becomes(r, [q EXCEPT !.at = "sweeping", !.sweep = {x \in positions : x.open}])
    <3> DEFINE p == [q EXCEPT !.at = "sweeping", !.sweep = {x \in positions : x.open}]
    <3>1. p \in Pass /\ Sound(p, intents, book)
      BY <1>S, <1>T DEF Pass, PassAt, Sound, InHand, TypeOK
    <3> QED
      BY <1>P, <2>2, <3>1
  <2> QED
    BY <1>S, <1>7, <2>1, <2>2 DEF ListPositions
<1>8. CASE EndPass(r) \/ PassFails(r)
  BY <1>8, <1>Z DEF EndPass, PassFails
<1>9. ASSUME NEW l \in q.todo, AskBroker(r, l) PROVE PassesSound'
  <2>1. l \in LocalOrder /\ intents[l.order].brokerId # NoId
    BY <1>S DEF Pass, Sound
  <2>2. CASE Becomes(r, [q EXCEPT !.todo = @ \ {l}])
    <3> DEFINE p == [q EXCEPT !.todo = @ \ {l}]
    <3>1. p \in Pass /\ Sound(p, intents, book)
      BY <1>9, <1>S DEF AskBroker, Pass, Sound, InHand
    <3> QED
      BY <1>P, <2>2, <3>1
  <2>3. ASSUME NEW a \in AnswersAbout(l.id),
               Becomes(r, [q EXCEPT !.at = "answered", !.todo = @ \ {l}, !.cur = l, !.answer = a])
        PROVE  PassesSound'
    <3> DEFINE p == [q EXCEPT !.at = "answered", !.todo = @ \ {l}, !.cur = l, !.answer = a]
    <3>1. a \in Answer /\ (a.status \in EndedStatuses => book[a.id].status = a.status)
      BY <1>T, <2>1, AnswersSound DEF LocalOrder
    <3>2. p \in Pass /\ Sound(p, intents, book)
      BY <1>S, <2>1, <3>1 DEF Pass, PassAt, Sound, InHand
    <3> QED
      BY <1>P, <2>3, <3>2
  <2> QED
    BY <1>S, <1>9, <2>2, <2>3 DEF AskBroker
<1>10. ASSUME NEW x \in q.sweep, SparePosition(r, x) PROVE PassesSound'
  <2> DEFINE p == [q EXCEPT !.sweep = @ \ {x}]
  <2>1. p \in Pass /\ Sound(p, intents, book)
    BY <1>10, <1>S DEF SparePosition, Pass, Sound, InHand
  <2> QED
    BY <1>S, <1>10, <1>P, <2>1 DEF SparePosition
<1>11. ASSUME NEW x \in q.sweep, CondemnPosition(r, x) PROVE PassesSound'
  <2> DEFINE p == [q EXCEPT !.at = "closing", !.sweep = @ \ {x}, !.found = x]
  <2>1. p \in Pass /\ Sound(p, intents, book)
    BY <1>S DEF Pass, PassAt, Sound, InHand
  <2> QED
    BY <1>S, <1>11, <1>P, <2>1 DEF CondemnPosition
<1> QED
  BY <1>S, <1>1, <1>2, <1>3, <1>4, <1>5, <1>6, <1>7, <1>8, <1>9, <1>10, <1>11

\* A pass with an agreed order in hand goes on to another point.
LEMMA GoesOn ==
    ASSUME NEW p \in Pass, Sound(p, intents, book), p.at \in InHand \ {"answered"},
           NEW at \in InHand \ {"answered", "ending", "filling"}
    PROVE  [p EXCEPT !.at = at] \in Pass /\ Sound([p EXCEPT !.at = at], intents, book)
  BY DEF Pass, PassAt, Sound, InHand

\* The row of an order whose intent has an id may get that id.
LEMMA LedgerKept ==
    ASSUME TypeOK, Linked, UNCHANGED <<intents, handler>>,
           NEW o \in Orders, NEW status \in OrderStatuses, NEW b \in BrokerIds \cup {NoId},
           b # NoId => intents[o].brokerId # NoId,
           orders' = AfterTransition(orders, o, status, b)
    PROVE  orders' \in [Orders -> OrderRow] /\ Linked'
<1>1. orders' \in [Orders -> OrderRow]
  BY TransitionTyped DEF TypeOK
<1>2. /\ orders'[o].status # "absent"
      /\ orders'[o].brokerId \in {orders[o].brokerId, b}
      /\ \A p \in Orders \ {o} : orders'[p] = orders[p]
  BY DEF AfterTransition, TypeOK, OrderStatuses, ActiveStatuses, TerminalStatuses
<1> QED
  BY <1>1, <1>2 DEF Linked

\* The steps of a pass that write order rows or positions.
LEMMA WritingSteps ==
    ASSUME ReconInv, NEW r \in Reconcilers,
           \/ MarkForReview(r) \/ SettleEnd(r) \/ SettlePartial(r) \/ SizePosition(r)
           \/ SettleFill(r) \/ OpenMissingPosition(r) \/ ClosePosition(r)
           \/ \E o \in Orders : RecoverStale(r, o)
    PROVE  ReconInv'
<1>T. TypeOK /\ PassesSound /\ Linked
  BY DEF ReconInv, IInv, Typed
<1>U. UNCHANGED <<intents, submission>> /\ IdsStay /\ EndsStay
  BY DEF MarkForReview, SettleEnd, SettlePartial, SizePosition, SettleFill, OpenMissingPosition,
     ClosePosition, RecoverStale, submission, IdsStay, EndsStay
<1> SUFFICES PassesSound' /\ orders' \in [Orders -> OrderRow] /\ positions' \subseteq Position
             /\ Linked'
  BY <1>U, QuietPass DEF ReconInv, submission
<1>S. PICK q \in Pass : q = pass[r] /\ Sound(q, intents, book)
  BY <1>T DEF PassesSound
<1>P. ASSUME NEW p, p \in Pass, Sound(p, intents, book), Becomes(r, p) PROVE PassesSound'
  BY <1>P, <1>T, <1>U, PassMoves DEF submission
<1>N. ASSUME NextOrder(r) PROVE PassesSound'
  BY <1>N, <1>S, <1>P, BetweenOrders DEF NextOrder
<1>Z. ASSUME Becomes(r, NewPass) PROVE PassesSound'
  BY <1>Z, <1>P, NewPassSound
<1>G. ASSUME NEW at \in InHand \ {"answered", "ending", "filling"}, q.at \in InHand \ {"answered"},
             Becomes(r, [q EXCEPT !.at = at])
      PROVE  PassesSound'
  BY <1>G, <1>P, <1>S, GoesOn
<1>O. ASSUME NEW status \in OrderStatuses, q.at \in InHand,
             orders' = AfterTransition(orders, q.cur.order, status, q.cur.id)
      PROVE  orders' \in [Orders -> OrderRow] /\ Linked'
  <2>1. q.cur.order \in Orders /\ q.cur.id \in BrokerIds /\ intents[q.cur.order].brokerId # NoId
    BY <1>O, <1>S DEF Sound, LocalOrder
  <2> QED
    BY <1>O, <1>T, <1>U, <2>1, LedgerKept DEF submission
<1>K. ASSUME UNCHANGED orders PROVE orders' \in [Orders -> OrderRow] /\ Linked'
  BY <1>K, <1>T, <1>U DEF TypeOK, Linked, submission
<1>V. ASSUME UNCHANGED positions PROVE positions' \subseteq Position
  BY <1>V, <1>T DEF TypeOK
<1>1. CASE MarkForReview(r)
  BY <1>1, <1>S, <1>N, <1>O, <1>V DEF MarkForReview, InHand, OrderStatuses, ActiveStatuses
<1>2. CASE SettleEnd(r)
  <2>1. q.at \in InHand \ {"answered"}
    BY <1>2, <1>S DEF SettleEnd, InHand
  <2>2. OrderStatusOf(q.answer.status, q.answer.confirmed) \in OrderStatuses
    BY DEF OrderStatusOf, OrderStatuses, ActiveStatuses, TerminalStatuses
  <2>3. PassesSound'
    <3>1. CASE NextOrder(r)
      BY <1>N, <3>1
    <3>2. CASE Becomes(r, [q EXCEPT !.at = "reviewing"])
      BY <1>G, <2>1, <3>2 DEF InHand
    <3> QED
      BY <1>2, <1>S, <3>1, <3>2 DEF SettleEnd
  <2> QED
    BY <1>2, <1>S, <1>O, <1>V, <2>1, <2>2, <2>3 DEF SettleEnd
<1>3. CASE SettlePartial(r)
  <2>1. q.at \in InHand \ {"answered"} /\ Becomes(r, [q EXCEPT !.at = "sizing"])
    BY <1>3, <1>S DEF SettlePartial, InHand
  <2>2. PassesSound'
    BY <1>G, <2>1 DEF InHand
  <2> QED
    BY <1>3, <1>S, <1>O, <1>V, <2>1, <2>2 DEF SettlePartial, OrderStatuses, ActiveStatuses
<1>4. CASE SizePosition(r)
  <2>1. q.at \in InHand /\ q.cur \in LocalOrder /\ q.answer \in Answer
    BY <1>4, <1>S DEF SizePosition, InHand, Sound
  <2>2. Opened(r, q.answer.filled) \subseteq Position
    BY <1>S, <2>1 DEF Opened, Position, LocalOrder, Answer
  <2>3. positions' \subseteq Position
    BY <1>4, <1>S, <1>T, <2>2 DEF SizePosition, TypeOK
  <2>4. PassesSound'
    BY <1>4, <1>N, <1>Z DEF SizePosition
  <2> QED
    BY <1>4, <1>K, <2>3, <2>4 DEF SizePosition
<1>5. CASE SettleFill(r)
  <2>1. q.at \in InHand \ {"answered"} /\ Becomes(r, [q EXCEPT !.at = "opening"])
    BY <1>5, <1>S DEF SettleFill, InHand
  <2>2. PassesSound'
    BY <1>G, <2>1 DEF InHand
  <2>3. orders' \in [Orders -> OrderRow] /\ Linked'
    <3>1. CASE UNCHANGED orders
      BY <1>K, <3>1
    <3>2. CASE orders' = AfterTransition(orders, q.cur.order, "filled", q.cur.id)
      BY <1>O, <2>1, <3>2 DEF OrderStatuses, TerminalStatuses
    <3> QED
      BY <1>5, <1>S, <3>1, <3>2 DEF SettleFill
  <2> QED
    BY <1>5, <1>V, <2>2, <2>3 DEF SettleFill
<1>6. CASE OpenMissingPosition(r)
  <2>1. q.at \in InHand /\ q.cur \in LocalOrder
    BY <1>6, <1>S DEF OpenMissingPosition, InHand, Sound
  <2>2. Opened(r, Lot) \subseteq Position
    BY <1>S, <2>1, LotAssumption DEF Opened, Position, LocalOrder
  <2>3. positions' \subseteq Position
    BY <1>6, <1>T, <2>2 DEF OpenMissingPosition, TypeOK
  <2> QED
    BY <1>6, <1>N, <1>K, <2>3 DEF OpenMissingPosition
<1>7. CASE ClosePosition(r)
  <2> DEFINE p == [q EXCEPT !.at = "sweeping", !.found = Nothing]
  <2>1. p \in Pass /\ Sound(p, intents, book)
    BY <1>S DEF Pass, PassAt, Sound, InHand
  <2>2. q.found \in Position
    BY <1>7, <1>S DEF ClosePosition, Sound
  <2>3. [q.found EXCEPT !.open = FALSE] \in Position
    BY <2>2 DEF Position
  <2>4. positions' \subseteq Position
    BY <1>7, <1>S, <1>T, <2>3 DEF ClosePosition, TypeOK
  <2>5. PassesSound'
    BY <1>7, <1>S, <1>P, <2>1 DEF ClosePosition
  <2> QED
    BY <1>7, <1>K, <2>4, <2>5 DEF ClosePosition
<1>8. ASSUME NEW o \in Orders, RecoverStale(r, o)
      PROVE  PassesSound' /\ orders' \in [Orders -> OrderRow] /\ positions' \subseteq Position
             /\ Linked'
  <2> DEFINE p == [q EXCEPT !.stale = @ \ {o}]
  <2>1. p \in Pass /\ Sound(p, intents, book)
    BY <1>8, <1>S DEF RecoverStale, Pass, Sound, InHand
  <2>2. PassesSound'
    BY <1>8, <1>S, <1>P, <2>1 DEF RecoverStale
  <2>3. orders' \in [Orders -> OrderRow] /\ Linked'
    BY <1>8, <1>T, <1>U, LedgerKept
    DEF RecoverStale, submission, OrderStatuses, TerminalStatuses
  <2> QED
    BY <1>8, <1>V, <2>2, <2>3 DEF RecoverStale
<1> QED
  BY <1>1, <1>2, <1>3, <1>4, <1>5, <1>6, <1>7, <1>8

\* What a pass records about an order is true of it: the ids agree, and an
\* end is one it has read.
LEMMA EvidenceIsSound ==
    ASSUME ReconInv, NEW r \in Reconcilers,
           NEW from \in {"ending", "partial", "filling"}, NEW status, NEW to,
           RecordOutcome(r, from, status, to),
           status \in TerminalIntentStatuses => pass[r].answer.status = status
    PROVE  LET o == pass[r].cur.order
               b == pass[r].cur.id
           IN /\ o \in Orders /\ b \in BrokerIds /\ b # NoId
              /\ intents[o].brokerId = b /\ book[b].owner = o
              /\ status \in TerminalIntentStatuses =>
                    book[b].status = status /\ book[b].status \in EndedStatuses
<1> DEFINE o == pass[r].cur.order
           b == pass[r].cur.id
<1>1. /\ pass[r].cur \in LocalOrder /\ intents[o].brokerId = b
      /\ pass[r].answer.id = b
      /\ pass[r].answer.status \in EndedStatuses => book[b].status = pass[r].answer.status
  BY DEF RecordOutcome, ReconInv, PassesSound, Sound, InHand
<1>2. o \in Orders /\ b \in BrokerIds /\ b # NoId
  BY <1>1, NoIdAssumption DEF LocalOrder
<1>3. book[b].owner = o
  BY <1>1, <1>2 DEF ReconInv, IInv, LockInv, OwnIds
<1> QED
  BY <1>1, <1>2, <1>3 DEF TerminalIntentStatuses, EndedStatuses

LEMMA RecordOutcomeStep ==
    ASSUME ReconInv, NEW r \in Reconcilers,
           NEW from \in {"ending", "partial", "filling"}, NEW status \in EvidenceStatuses,
           NEW to \in {"ended", "sharing", "filled"},
           RecordOutcome(r, from, status, to),
           status \in TerminalIntentStatuses => pass[r].answer.status = status
    PROVE  ReconInv'
<1>T. TypeOK /\ Typed /\ LockInv /\ PassesSound /\ Linked
  BY DEF ReconInv, IInv, Typed
<1>U. UNCHANGED <<orders, positions, submission>>
  BY DEF RecordOutcome
<1>S. PICK q \in Pass : q = pass[r] /\ Sound(q, intents, book)
  BY <1>T DEF PassesSound
<1> DEFINE o == pass[r].cur.order
           b == pass[r].cur.id
           p == [q EXCEPT !.at = to]
<1>1. /\ o \in Orders /\ b \in BrokerIds /\ b # NoId
      /\ intents[o].brokerId = b /\ book[b].owner = o
      /\ status \in TerminalIntentStatuses =>
            book[b].status = status /\ book[b].status \in EndedStatuses
  BY EvidenceIsSound
<1>2. p \in Pass /\ Sound(p, intents, book)
  BY <1>S, GoesOn DEF RecordOutcome, InHand
<1>3. CASE /\ AcceptsEvidence(intents, o, b, status)
           /\ intents' = AfterEvidence(intents, o, b, status)
           /\ Becomes(r, [pass[r] EXCEPT !.at = to])
  <2>1. /\ intents'[o] = [status |-> status, brokerId |-> b]
        /\ \A n \in Orders \ {o} : intents'[n] = intents[n]
    BY <1>1, <1>3, <1>T DEF AfterEvidence, TypeOK
  <2>2. LockInv'
    <3> HIDE DEF o, b
    <3> QED
      BY <1>1, <1>3, <1>T, <1>U, EvidenceStep DEF submission, QuietCalls
  <2>3. Typed'
    <3>1. intents' \in [Orders -> IntentRow]
      BY <1>1, <1>3, <1>T, EvidenceTyped DEF TypeOK
    <3> QED
      BY <1>T, <1>U, <3>1 DEF Typed, TypeOK, LocalsSet, HasReply, HasAck, submission
  <2>4. IdsStay /\ EndsStay
    BY <1>1, <1>U, <2>1 DEF IdsStay, EndsStay, submission
  <2>5. PassesSound'
    <3>1. Sound(p, intents', book')
      BY <1>2, <2>4, SoundStays
    <3> QED
      BY <1>3, <1>S, <1>T, <1>2, <2>4, <3>1, PassMoves
  <2>6. BookSound' /\ Linked'
    BY <1>1, <1>T, <1>U, <2>1 DEF ReconInv, BookSound, Linked, submission
  <2>7. OutcomesAreTrue'
    BY <1>1, <1>U, <2>1 DEF ReconInv, OutcomesAreTrue, submission
  <2> QED
    BY <1>U, <2>2, <2>3, <2>5, <2>6, <2>7 DEF ReconInv, IInv, submission
<1>4. CASE /\ UNCHANGED intents
           /\ Becomes(r, IF intents[o].status = "absent" THEN [pass[r] EXCEPT !.at = to] ELSE NewPass)
  <2>1. IdsStay /\ EndsStay
    BY <1>4, <1>U DEF IdsStay, EndsStay, submission
  <2>2. PassesSound'
    <3>1. CASE Becomes(r, NewPass)
      BY <1>4, <1>T, <1>U, <2>1, <3>1, NewPassSound, PassMoves DEF submission
    <3>2. CASE Becomes(r, [pass[r] EXCEPT !.at = to])
      BY <1>4, <1>S, <1>T, <1>U, <1>2, <2>1, <3>2, PassMoves DEF submission
    <3> QED
      BY <1>4, <3>1, <3>2
  <2> QED
    BY <1>4, <1>T, <1>U, <2>2, QuietPass DEF ReconInv, Linked, TypeOK, submission
<1> QED
  BY <1>3, <1>4 DEF RecordOutcome

\* The steps of a pass that record evidence.
LEMMA RecordingSteps ==
    ASSUME ReconInv, NEW r \in Reconcilers, RecordEnd(r) \/ RecordPartial(r) \/ RecordFill(r)
    PROVE  ReconInv'
<1>1. CASE RecordEnd(r)
  <2>1. pass[r].answer.status \in {"rejected", "cancelled"}
    BY <1>1 DEF RecordEnd, RecordOutcome, ReconInv, PassesSound, Sound
  <2> QED
    BY <1>1, <2>1, RecordOutcomeStep DEF RecordEnd, EvidenceStatuses, TerminalIntentStatuses
<1>2. CASE RecordPartial(r)
  BY <1>2, RecordOutcomeStep DEF RecordPartial, EvidenceStatuses, TerminalIntentStatuses
<1>3. CASE RecordFill(r)
  <2>1. pass[r].answer.status = "filled"
    BY <1>3 DEF RecordFill, RecordOutcome, ReconInv, PassesSound, Sound
  <2> QED
    BY <1>3, <2>1, RecordOutcomeStep DEF RecordFill, EvidenceStatuses, TerminalIntentStatuses
<1> QED
  BY <1>1, <1>2, <1>3

LEMMA ReconInvStart == ReconInit => ReconInv
<1> SUFFICES ASSUME ReconInit PROVE ReconInv
  OBVIOUS
<1>1. IInv
  BY TypedInit, LockInit DEF ReconInit, IInv
<1>2. PassesSound
  BY NewPassSound DEF ReconInit, PassesSound
<1>3. BookSound /\ Linked /\ OutcomesAreTrue
  BY LotAssumption DEF ReconInit, Init, BookSound, Linked, OutcomesAreTrue, AbsentRow, AbsentOrder,
     NewCall, Recorded, TerminalIntentStatuses
<1> QED
  BY <1>1, <1>2, <1>3 DEF ReconInit, ReconInv

LEMMA ReconInvStep == ReconInv /\ [ReconNext]_reconVars => ReconInv'
<1> SUFFICES ASSUME ReconInv, [ReconNext]_reconVars PROVE ReconInv'
  OBVIOUS
<1>1. ASSUME NEW r \in Reconcilers, ReconStep(r) \/ PassFails(r) PROVE ReconInv'
  BY <1>1, ReadingSteps, WritingSteps, RecordingSteps DEF ReconStep
<1>2. ASSUME NEW b \in BrokerIds, SquareOff(b) PROVE ReconInv'
  BY <1>2, QuietPass DEF SquareOff, vars, ReconInv, PassesSound, Linked, IInv, Typed, TypeOK
<1>3. CASE Next /\ UNCHANGED <<pass, squared>>
  BY <1>3, BesidePasses
<1>4. CASE UNCHANGED reconVars
  BY <1>4, BesidePasses DEF reconVars
<1> QED
  BY <1>1, <1>2, <1>3, <1>4 DEF ReconNext

-----------------------------------------------------------------------------

\* The invariant behind the theorems below.
THEOREM ReconInvariantHolds == ReconSpec => []ReconInv
  BY ReconInvStart, ReconInvStep, PTL DEF ReconSpec

\* The tables, the calls, the passes and the book always have their types.
THEOREM ReconTypesHold == ReconSpec => []ReconTypeOK
<1>1. ReconInv => ReconTypeOK
  BY DEF ReconInv, IInv, Typed, PassesSound, ReconTypeOK
<1> QED
  BY <1>1, ReconInvariantHolds, PTL

\* An intent on record as filled, cancelled or rejected is one whose own
\* broker order ended so, whatever passes and calls read, delay and repeat.
THEOREM RecordedOutcomesAreTrue == ReconSpec => []OutcomesAreTrue
<1>1. ReconInv => OutcomesAreTrue
  BY DEF ReconInv
<1> QED
  BY <1>1, ReconInvariantHolds, PTL

\* Two orders with one logical key are never on the market together while
\* calls and reconciliation passes run side by side.
THEOREM OneExposureBesidePasses == ReconSpec => []SingleExposure
<1>1. ReconInv => SingleExposure
  BY ExposedHoldsKey DEF ReconInv, SingleExposure, IInv, LockInv, OneHolderPerKey
<1> QED
  BY <1>1, ReconInvariantHolds, PTL

-----------------------------------------------------------------------------
(* Key release and refinement.                                             *)

\* A step of a pass moves no call and no broker order.
LEMMA PassKeepsCalls ==
    ASSUME NEW r \in Reconcilers, ReconStep(r) \/ PassFails(r)
    PROVE  UNCHANGED <<handler, request, book>>
  BY DEF submission, ReconStep, StartPass, TakeSnapshot, FetchHoldings, JudgeAnswer, FindPosition,
     CheckProtection, MarkForReview, RecordEnd, RecordPartial, RecordFill, RecordOutcome, SettleEnd,
     SettlePartial, SizePosition, SettleFill, OpenMissingPosition, ListPositions, ClosePosition,
     EndPass, RecoverStale, AskBroker, SparePosition, CondemnPosition, PassFails

\* A step of a pass leaves the intent table alone, or records evidence about
\* an order; terminal evidence is about one that has left the market.
LEMMA PassEvidence ==
    ASSUME ReconInv, NEW r \in Reconcilers, ReconStep(r) \/ PassFails(r)
    PROVE  /\ UNCHANGED broker
           /\ \/ UNCHANGED intents
              \/ \E o \in Orders, b \in BrokerIds, status \in EvidenceStatuses :
                    /\ AcceptsEvidence(intents, o, b, status)
                    /\ intents' = AfterEvidence(intents, o, b, status)
                    /\ status \in TerminalIntentStatuses =>
                          request[o] = "accepted" /\ ~Exposed(o)
<1>1. CASE UNCHANGED <<intents, submission>>
  BY <1>1 DEF submission, broker
<1>2. ASSUME NEW from \in {"ending", "partial", "filling"}, NEW status \in EvidenceStatuses, NEW to,
             RecordOutcome(r, from, status, to),
             status \in TerminalIntentStatuses => pass[r].answer.status = status
      PROVE  /\ UNCHANGED broker
             /\ \/ UNCHANGED intents
                \/ \E o \in Orders, b \in BrokerIds, st \in EvidenceStatuses :
                      /\ AcceptsEvidence(intents, o, b, st)
                      /\ intents' = AfterEvidence(intents, o, b, st)
                      /\ st \in TerminalIntentStatuses =>
                            request[o] = "accepted" /\ ~Exposed(o)
  <2> DEFINE o == pass[r].cur.order
             b == pass[r].cur.id
  <2>1. UNCHANGED broker
    BY <1>2 DEF RecordOutcome, submission, broker
  <2>2. /\ o \in Orders /\ b \in BrokerIds /\ book[b].owner = o
        /\ status \in TerminalIntentStatuses => book[b].status \in EndedStatuses
    BY <1>2, EvidenceIsSound
  <2>3. ASSUME status \in TerminalIntentStatuses PROVE request[o] = "accepted" /\ ~Exposed(o)
    <3>1. request[o] = "accepted"
      BY <2>2, NoOrderAssumption DEF ReconInv, IInv, LockInv, OneBrokerOrder
    <3>2. ASSUME NEW c \in BrokerIds, book[c].owner = o PROVE book[c].status \notin WorkingStatuses
      <4>1. c = b
        BY <2>2, <3>2, NoOrderAssumption DEF ReconInv, IInv, LockInv, OneBrokerOrder
      <4> QED
        BY <2>2, <2>3, <4>1 DEF WorkingStatuses, EndedStatuses
    <3> QED
      BY <3>1, <3>2 DEF Exposed
  <2>4. \/ UNCHANGED intents
        \/ AcceptsEvidence(intents, o, b, status) /\ intents' = AfterEvidence(intents, o, b, status)
    BY <1>2 DEF RecordOutcome
  <2> HIDE DEF o, b
  <2> QED
    BY <2>1, <2>2, <2>3, <2>4
<1>3. CASE RecordEnd(r)
  <2>1. pass[r].answer.status \in {"rejected", "cancelled"}
    BY <1>3 DEF RecordEnd, RecordOutcome, ReconInv, PassesSound, Sound
  <2> QED
    BY <1>2, <1>3, <2>1 DEF RecordEnd, EvidenceStatuses, TerminalIntentStatuses
<1>4. CASE RecordPartial(r)
  BY <1>2, <1>4 DEF RecordPartial, EvidenceStatuses, TerminalIntentStatuses
<1>5. CASE RecordFill(r)
  <2>1. pass[r].answer.status = "filled"
    BY <1>5 DEF RecordFill, RecordOutcome, ReconInv, PassesSound, Sound
  <2> QED
    BY <1>2, <1>5, <2>1 DEF RecordFill, EvidenceStatuses, TerminalIntentStatuses
<1> QED
  BY <1>1, <1>3, <1>4, <1>5
  DEF ReconStep, durable, StartPass, TakeSnapshot, FetchHoldings, JudgeAnswer, FindPosition,
      CheckProtection, MarkForReview, SettleEnd, SettlePartial, SizePosition, SettleFill,
      OpenMissingPosition, ListPositions, ClosePosition, EndPass, RecoverStale, AskBroker,
      SparePosition, CondemnPosition, PassFails

\* A step of the composition is a step of a pass, or one that leaves the
\* passes alone.
LEMMA ReconCases ==
    ASSUME [ReconNext]_reconVars
    PROVE  [Next]_vars \/ \E r \in Reconcilers : ReconStep(r) \/ PassFails(r)
  BY DEF ReconNext, reconVars, SquareOff

\* A logical key is given up, by a call or by a pass, only after its order has
\* left the market.
THEOREM KeyReleaseBesidePasses == ReconSpec => KeyReleasedOffMarket
<1>1. ASSUME ReconInv, [ReconNext]_reconVars, NEW o \in Orders,
             HoldsKey(intents, o), ~HoldsKey(intents', o)
      PROVE  request[o] = "accepted" /\ ~Exposed(o)
  <2>1. CASE [Next]_vars
    BY <1>1, <2>1, ReleaseStep, RejectedOffMarket DEF ReconInv
  <2>2. ASSUME NEW r \in Reconcilers, ReconStep(r) \/ PassFails(r)
        PROVE  request[o] = "accepted" /\ ~Exposed(o)
    <3>1. intents' # intents
      BY <1>1 DEF HoldsKey
    <3>2. PICK p \in Orders, b \in BrokerIds, status \in EvidenceStatuses :
              /\ intents' = AfterEvidence(intents, p, b, status)
              /\ status \in TerminalIntentStatuses => request[p] = "accepted" /\ ~Exposed(p)
      BY <1>1, <2>2, <3>1, PassEvidence
    <3>3. /\ intents'[p].status = status
          /\ \A n \in Orders \ {p} : intents'[n] = intents[n]
      BY <1>1, <3>2 DEF AfterEvidence, ReconInv, IInv, Typed, TypeOK
    <3>4. o = p
      BY <1>1, <3>3 DEF HoldsKey
    <3>5. status \in TerminalIntentStatuses
      BY <1>1, <3>3, <3>4 DEF HoldsKey, EvidenceStatuses, ActiveIntentStatuses
    <3> QED
      BY <3>2, <3>4, <3>5
  <2> QED
    BY <1>1, <2>1, <2>2, ReconCases
<1>2. ReconInv /\ [ReconNext]_reconVars =>
        [\A o \in Orders : HoldsKey(intents, o) /\ ~HoldsKey(intents', o) =>
            request[o] = "accepted" /\ ~Exposed(o)]_vars
  BY <1>1
<1> QED
  BY <1>2, ReconInvariantHolds, PTL DEF ReconSpec, KeyReleasedOffMarket

\* Calls and passes together change the intent table only by its operations.
THEOREM PassesRefineIntents == ReconSpec => ImplementsIntents
<1>1. ReconInit => TableInit
  BY DEF ReconInit, Init, AbsentRow, TableInit
<1>2. ASSUME ReconInv, [ReconNext]_reconVars PROVE [TableNext]_intents
  <2>1. CASE [Next]_vars
    BY <2>1, IntentsNext
  <2>2. ASSUME NEW r \in Reconcilers, ReconStep(r) \/ PassFails(r) PROVE [TableNext]_intents
    BY <1>2, <2>2, PassEvidence, EvidenceRefines
  <2> QED
    BY <1>2, <2>1, <2>2, ReconCases
<1>3. ReconInv /\ [ReconNext]_reconVars => [TableNext]_intents
  BY <1>2
<1> QED
  BY <1>1, <1>3, ReconInvariantHolds, PTL DEF ReconSpec, ImplementsIntents, TableSpec

\* The table keeps its own promises beside calls and passes: it is only ever
\* changed by its operations.
THEOREM TableBesidePasses ==
    ReconSpec => /\ []OneHolderPerKey
                 /\ []BrokerIdentity
                 /\ EvidenceIsFinal
                 /\ KeyLeavesByEvidence
  BY PassesRefineIntents, OneHolderInTable, BrokerIdentityHolds, EvidenceStaysFinal,
     KeyLeavesOnlyByEvidence, PTL DEF ImplementsIntents

\* Calls and passes together are still the exposure lock.
THEOREM PassesRefineLock == ReconSpec => ImplementsLock
<1>1. ReconInit => Lock!Init
  BY LockStart DEF ReconInit
<1>2. ASSUME ReconInv, ReconInv', [ReconNext]_reconVars PROVE [Lock!Next]_LockStage
  <2>1. CASE [Next]_vars
    BY <1>2, <2>1, LockNext DEF ReconInv
  <2>2. ASSUME NEW r \in Reconcilers, ReconStep(r) \/ PassFails(r) PROVE [Lock!Next]_LockStage
    <3>1. CASE UNCHANGED intents
      BY <1>2, <2>2, <3>1, PassEvidence, LockQuiet DEF broker
    <3>2. CASE ~UNCHANGED intents
      BY <1>2, <2>2, <3>2, PassEvidence, LockRefinesEvidence DEF ReconInv, IInv, Typed
    <3> QED
      BY <3>1, <3>2
  <2> QED
    BY <1>2, <2>1, <2>2, ReconCases
<1>3. ReconInv /\ ReconInv' /\ [ReconNext]_reconVars => [Lock!Next]_LockStage
  BY <1>2
<1> QED
  BY <1>1, <1>3, ReconInvariantHolds, PTL DEF ReconSpec, ImplementsLock, Lock!Spec, LockStage

-----------------------------------------------------------------------------
(* The ids in the two tables, for lookups that report of another order at  *)
(* most a rejection the adapter confirms.                                  *)

\* A reply that may be about another order than the one asked about.
RejectedElsewhere(a) == a.confirmed /\ a.status = "rejected"

\* The ids of a call's local variables, its intent and its order row agree.
CallIds(o) ==
    /\ orders[o].brokerId # NoId => orders[o].brokerId = intents[o].brokerId
    /\ handler[o].at \in {"idle", "checked"} => intents[o].brokerId = NoId
    /\ handler[o].at \in {"evidenced", "querying", "answered"} =>
          intents[o].brokerId = handler[o].ack
    /\ handler[o].at \in {"answered", "rejecting", "rejection_lost", "positioning"} =>
          \/ intents[o].brokerId = handler[o].reply.id
          \/ handler[o].at = "answered" /\ RejectedElsewhere(handler[o].reply)
    /\ handler[o].at = "positioning" => orders[o].brokerId = handler[o].reply.id

\* An order that a pass has read still has the id it was read with.
PassIds(p, ledger) ==
    /\ \A l \in p.todo : ledger[l.order].brokerId = l.id
    /\ p.at \in InHand => ledger[p.cur.order].brokerId = p.cur.id

\* A position names the broker id of its order's row.
PositionIds ==
    \A x \in positions :
        LET o == book[x.brokerId].owner IN o \in Orders /\ orders[o].brokerId = x.brokerId

IdInv ==
    /\ \A o \in Orders : CallIds(o)
    /\ \A r \in Reconcilers : PassIds(pass[r], orders)
    /\ PositionIds

\* What one step of the call for o does to ids: nothing to other orders', and
\* o's row loses none.
CallFits(o) ==
    /\ \A p \in Orders \ {o} :
          intents'[p] = intents[p] /\ orders'[p] = orders[p] /\ handler'[p] = handler[p]
    /\ orders[o].brokerId # NoId => orders'[o].brokerId # NoId
    /\ CallIds(o)'

LEMMA RepliesKeepId ==
    ASSUME MisroutedReplies \subseteq {"rejected"} \cap ConfirmedStatuses,
           NEW b, NEW a \in RepliesAbout(b)
    PROVE  a.id = b \/ RejectedElsewhere(a)
<1>1. ASSUME NEW c \in BrokerIds, c # b, ReportedStatus(c) \in MisroutedReplies,
             a = [id |-> c, status |-> ReportedStatus(c),
                  confirmed |-> ReportedStatus(c) \in ConfirmedStatuses]
      PROVE  RejectedElsewhere(a)
  <2>1. ReportedStatus(c) = "rejected" /\ "rejected" \in ConfirmedStatuses
    BY <1>1
  <2> QED
    BY <1>1, <2>1 DEF RejectedElsewhere
<1> QED
  BY <1>1 DEF RepliesAbout

LEMMA CallStepFits ==
    ASSUME MisroutedReplies \subseteq {"rejected"} \cap ConfirmedStatuses, ReconInv,
           NEW o \in Orders, CallIds(o), HandlerStep(o) \/ Crash(o)
    PROVE  CallFits(o)
<1>T. TypeOK /\ Linked
  BY DEF ReconInv, IInv, Typed
<1> USE DEF CallFits, CallIds, TypeOK, Handler, durable
<1>1. CASE CheckDuplicate(o) \/ RefuseUnprotected(o) \/ ClaimConflicts(o) \/ SendPlacement(o)
           \/ LoseRejection(o) \/ CreatePosition(o) \/ Crash(o)
  BY <1>1, <1>T DEF CheckDuplicate, RefuseUnprotected, ClaimConflicts, SendPlacement,
     LoseRejection, VerifiedRejection, CreatePosition, Crash, Goes, Stops, NewCall, StoppedAt
<1>2. CASE CreateOrder(o)
  BY <1>2, <1>T DEF CreateOrder, AfterCreate, Goes
<1>3. CASE ApproveRisk(o) \/ RejectConflict(o) \/ SubmitTransition(o) \/ RecordUnknown(o)
  BY <1>3, <1>T DEF ApproveRisk, RejectConflict, SubmitTransition, RecordUnknown,
     AfterTransition, Goes, Stops, NewCall
<1>4. CASE ClaimSubmission(o)
  <2>1. intents[o].brokerId = NoId
    BY <1>4, LinkedIsStarted DEF ClaimSubmission, CanClaim, ReconInv
  <2> QED
    BY <1>4, <1>T, <2>1 DEF ClaimSubmission, AfterClaim, Goes
<1>5. CASE MarkSubmissionStarted(o)
  BY <1>5, <1>T DEF MarkSubmissionStarted, AfterMarkStarted, Goes, IntentRow
<1>6. CASE PlacementAcked(o) \/ TryRaises(o)
  BY <1>6, <1>T DEF PlacementAcked, TryRaises
<1>7. CASE RecordSubmitted(o)
  BY <1>7, <1>T DEF RecordSubmitted, AcceptsEvidence, AfterEvidence, Goes, Linked
<1>8. CASE AcceptTransition(o)
  BY <1>8, <1>T DEF AcceptTransition, AfterTransition, Goes, OrderRow
<1>9. CASE QueryStatus(o)
  BY <1>9, <1>T, RepliesKeepId DEF QueryStatus
<1>10. CASE SettleUnconfirmed(o) \/ SettleUnverifiedRejection(o) \/ SettleLostRejection(o)
            \/ SettleRejection(o)
  BY <1>10, <1>T DEF SettleUnconfirmed, SettleUnverifiedRejection, SettleLostRejection,
     SettleRejection, AfterTransition, Stops, NewCall, OrderRow, Unconfirmed, RejectedElsewhere,
     AmbiguousStatuses
<1>11. CASE SettleStatus(o)
  BY <1>11, <1>T DEF SettleStatus, AfterTransition, Goes, Stops, NewCall, OrderRow, Linked,
     Recorded, RejectedElsewhere
<1>12. CASE RecordRejection(o)
  BY <1>12, <1>T DEF RecordRejection, VerifiedRejection, AcceptsEvidence, AfterEvidence, Goes, Linked,
     Recorded
<1> QED
  BY <1>1, <1>2, <1>3, <1>4, <1>5, <1>6, <1>7, <1>8, <1>9, <1>10, <1>11, <1>12 DEF HandlerStep

LEMMA PassIdsStay ==
    ASSUME NEW p \in Pass, Sound(p, intents, book), PassIds(p, orders),
           \A o \in Orders : orders[o].brokerId # NoId => orders'[o].brokerId = orders[o].brokerId
    PROVE  PassIds(p, orders')
<1>1. \A l \in p.todo : l.order \in Orders /\ l.id # NoId
  BY NoIdAssumption DEF Pass, LocalOrder
<1>2. p.at \in InHand => p.cur.order \in Orders /\ p.cur.id # NoId
  BY NoIdAssumption DEF Sound, LocalOrder
<1> QED
  BY <1>1, <1>2 DEF PassIds

\* Rows keep their ids, and so do positions and passes, while a call moves.
LEMMA CallKeepsIds ==
    ASSUME MisroutedReplies \subseteq {"rejected"} \cap ConfirmedStatuses, ReconInv, IdInv,
           NEW o \in Orders, HandlerStep(o) \/ Crash(o), UNCHANGED pass
    PROVE  IdInv'
<1>T. TypeOK /\ PassesSound /\ IdsStay
  <2>1. [Next]_vars
    BY DEF Next
  <2> QED
    BY <2>1, IntentsNext, TableIdsStay DEF ReconInv, IInv, Typed
<1>1. CallFits(o)
  BY CallStepFits DEF IdInv
<1>2. \A p \in Orders : CallIds(p)'
  BY <1>1 DEF IdInv, CallFits, CallIds
<1>3. ASSUME NEW p \in Orders, orders[p].brokerId # NoId
      PROVE  orders'[p].brokerId = orders[p].brokerId
  <2>1. CASE p # o
    BY <1>1, <2>1 DEF CallFits
  <2>2. CASE p = o
    BY <1>1, <1>3, <1>T, <2>2 DEF CallFits, CallIds, IdInv, IdsStay
  <2> QED
    BY <2>1, <2>2
<1>4. ASSUME NEW r \in Reconcilers PROVE PassIds(pass[r], orders')
  BY <1>3, <1>T, PassIdsStay DEF IdInv, PassesSound
<1>5. UNCHANGED book
  BY CallsKeepBook
<1>6. ASSUME NEW x \in positions, x \in Position
      PROVE  LET n == book[x.brokerId].owner IN n \in Orders /\ orders'[n].brokerId = x.brokerId
  BY <1>3, <1>6, NoIdAssumption DEF IdInv, PositionIds, Position
<1>7. PositionIds'
  <2>1. CASE CreatePosition(o)
    <3>1. PICK x \in Position : positions' = positions \cup {x} /\ x.brokerId = handler[o].reply.id
      <4>1. [brokerId |-> handler[o].reply.id, creator |-> "handler", quantity |-> Lot,
             open |-> TRUE] \in Position
        BY <2>1, LotAssumption
        DEF CreatePosition, Stops, HasReply, ReconInv, IInv, Typed, LocalsSet, Reply, Position
      <4> QED
        BY <2>1, <4>1 DEF CreatePosition
    <3>2. orders'[o].brokerId = x.brokerId /\ book[x.brokerId].owner = o
      <4>1. x.brokerId = intents[o].brokerId /\ x.brokerId = orders[o].brokerId
        BY <2>1, <3>1 DEF CreatePosition, Stops, IdInv, CallIds
      <4> QED
        BY <2>1, <3>1, <4>1, NoIdAssumption
        DEF CreatePosition, ReconInv, IInv, LockInv, OwnIds, Position
    <3> QED
      BY <1>5, <1>6, <1>T, <3>1, <3>2 DEF PositionIds, TypeOK
  <2>2. CASE UNCHANGED positions
    BY <1>5, <1>6, <1>T, <2>2 DEF PositionIds, TypeOK
  <2> QED
    BY <2>1, <2>2 DEF HandlerStep, Crash, durable, CheckDuplicate, CreateOrder, ApproveRisk,
       RefuseUnprotected, ClaimSubmission, ClaimConflicts, RejectConflict, MarkSubmissionStarted,
       SubmitTransition, SendPlacement, PlacementAcked, RecordSubmitted, AcceptTransition,
       QueryStatus, TryRaises, RecordUnknown, SettleUnconfirmed, SettleUnverifiedRejection,
       RecordRejection, LoseRejection, SettleLostRejection, SettleRejection, SettleStatus
<1> QED
  BY <1>2, <1>4, <1>7 DEF IdInv

\* The broker gives a used broker order no new owner.
LEMMA BrokerKeepsIds ==
    ASSUME ReconInv, IdInv, BrokerStep, UNCHANGED pass
    PROVE  IdInv'
<1>T. TypeOK /\ LockInv /\ UNCHANGED <<intents, orders, positions, handler>>
  BY DEF ReconInv, IInv, Typed, BrokerStep, BrokerAccepts, RequestLost, BrokerFills, BrokerEnds,
     BrokerRejects, durable
<1>1. ASSUME NEW b \in BrokerIds, book[b].owner # NoOrder PROVE book'[b].owner = book[b].owner
  <2>1. book[b].status # "unused"
    BY <1>1, <1>T DEF LockInv, OneBrokerOrder
  <2> QED
    BY <2>1, <1>T DEF BrokerStep, BrokerAccepts, RequestLost, BrokerFills, BrokerEnds,
       BrokerRejects, TypeOK, BookRow
<1>2. PositionIds'
  BY <1>1, <1>T, NoOrderAssumption DEF IdInv, PositionIds, TypeOK, Position
<1> QED
  BY <1>2, <1>T DEF IdInv, CallIds, PassIds

\* After a step of a pass, its orders are some that it had, or rows of the ledger.
LEMMA PassFollows ==
    ASSUME ReconInv, NEW r \in Reconcilers, ReconStep(r) \/ PassFails(r)
    PROVE  /\ pass'[r].todo \subseteq pass[r].todo \cup RowsWithId
           /\ pass'[r].at \in InHand =>
                 \/ pass[r].at \in InHand /\ pass'[r].cur = pass[r].cur
                 \/ pass'[r].cur \in pass[r].todo
           /\ \A n \in Reconcilers \ {r} : pass'[n] = pass[n]
<1>S. PICK q \in Pass : q = pass[r] /\ pass \in [Reconcilers -> Pass]
  BY DEF ReconInv, PassesSound
<1> DEFINE Follows(p) == /\ p.todo \subseteq q.todo \cup RowsWithId
                         /\ p.at \in InHand =>
                               (q.at \in InHand /\ p.cur = q.cur) \/ p.cur \in q.todo
<1>M. ASSUME NEW p, Becomes(r, p), Follows(p)
      PROVE  Follows(pass'[r]) /\ \A n \in Reconcilers \ {r} : pass'[n] = pass[n]
  BY <1>M, <1>S DEF Becomes
<1> SUFFICES Follows(pass'[r]) /\ \A n \in Reconcilers \ {r} : pass'[n] = pass[n]
  BY <1>S
<1>N. ASSUME NextOrder(r) \/ Becomes(r, NewPass)
      PROVE  Follows(pass'[r]) /\ \A n \in Reconcilers \ {r} : pass'[n] = pass[n]
  <2>1. Follows(NewPass)
    BY DEF NewPass, InHand
  <2>2. Follows([q EXCEPT !.at = "orders", !.cur = Nothing, !.answer = Nothing, !.found = Nothing])
    BY DEF Pass, InHand
  <2> QED
    BY <1>N, <1>M, <1>S, <2>1, <2>2 DEF NextOrder
<1>G. ASSUME NEW at, Becomes(r, [q EXCEPT !.at = at]), at \in InHand => q.at \in InHand
      PROVE  Follows(pass'[r]) /\ \A n \in Reconcilers \ {r} : pass'[n] = pass[n]
  <2>1. Follows([q EXCEPT !.at = at])
    BY <1>G DEF Pass
  <2> QED
    BY <1>G, <1>M, <2>1
<1> HIDE DEF Follows
<1>1. CASE StartPass(r)
  <2>1. PICK S : Becomes(r, [q EXCEPT !.at = "recovering", !.stale = S])
    BY <1>1, <1>S DEF StartPass
  <2>2. Follows([q EXCEPT !.at = "recovering", !.stale = S])
    BY DEF Follows, Pass, InHand
  <2> QED
    BY <1>M, <2>1, <2>2
<1>2. CASE TakeSnapshot(r)
  <2>1. Follows([q EXCEPT !.at = "listing", !.todo = RowsWithId])
    BY DEF Follows, Pass, InHand
  <2> QED
    BY <1>2, <1>M, <1>S, <2>1 DEF TakeSnapshot
<1>3. CASE FetchHoldings(r)
  <2>1. PICK h : Becomes(r, [q EXCEPT !.at = "orders", !.holdings = h])
    BY <1>3, <1>S DEF FetchHoldings
  <2>2. Follows([q EXCEPT !.at = "orders", !.holdings = h])
    BY DEF Follows, Pass, InHand
  <2> QED
    BY <1>M, <2>1, <2>2
<1>4. CASE JudgeAnswer(r)
  BY <1>4, <1>N, <1>G, <1>S DEF JudgeAnswer, InHand
<1>5. CASE FindPosition(r)
  <2>1. PICK x : q.at = "judged" /\ Becomes(r, [q EXCEPT !.at = "found", !.found = x])
    BY <1>5, <1>S DEF FindPosition
  <2>2. Follows([q EXCEPT !.at = "found", !.found = x])
    BY <2>1 DEF Follows, Pass, InHand
  <2> QED
    BY <1>M, <2>1, <2>2
<1>6. CASE CheckProtection(r)
  BY <1>6, <1>N, <1>G, <1>S DEF CheckProtection, InHand
<1>7. CASE MarkForReview(r) \/ OpenMissingPosition(r) \/ SizePosition(r) \/ EndPass(r) \/ PassFails(r)
  BY <1>7, <1>N DEF MarkForReview, OpenMissingPosition, SizePosition, EndPass, PassFails
<1>8. CASE SettleEnd(r)
  BY <1>8, <1>N, <1>G, <1>S DEF SettleEnd, InHand
<1>9. CASE SettlePartial(r) \/ SettleFill(r)
  BY <1>9, <1>G, <1>S DEF SettlePartial, SettleFill, InHand
<1>10. CASE RecordEnd(r) \/ RecordPartial(r) \/ RecordFill(r)
  BY <1>10, <1>N, <1>G, <1>S DEF RecordEnd, RecordPartial, RecordFill, RecordOutcome, InHand
<1>11. CASE ListPositions(r)
  <2>1. Follows([q EXCEPT !.at = "sweeping", !.sweep = {x \in positions : x.open}])
    BY DEF Follows, Pass, InHand
  <2> QED
    BY <1>11, <1>N, <1>M, <1>S, <2>1 DEF ListPositions
<1>12. CASE ClosePosition(r)
  <2>1. Follows([q EXCEPT !.at = "sweeping", !.found = Nothing])
    BY DEF Follows, Pass, InHand
  <2> QED
    BY <1>12, <1>M, <1>S, <2>1 DEF ClosePosition
<1>13. ASSUME NEW o \in Orders, RecoverStale(r, o)
       PROVE  Follows(pass'[r]) /\ \A n \in Reconcilers \ {r} : pass'[n] = pass[n]
  <2>1. Follows([q EXCEPT !.stale = @ \ {o}])
    BY <1>13, <1>S DEF RecoverStale, Follows, Pass, InHand
  <2> QED
    BY <1>13, <1>M, <1>S, <2>1 DEF RecoverStale
<1>14. ASSUME NEW l \in q.todo, AskBroker(r, l)
       PROVE  Follows(pass'[r]) /\ \A n \in Reconcilers \ {r} : pass'[n] = pass[n]
  <2>1. Follows([q EXCEPT !.todo = @ \ {l}])
    BY <1>14, <1>S DEF AskBroker, Follows, Pass, InHand
  <2>2. ASSUME NEW a
        PROVE  Follows([q EXCEPT !.at = "answered", !.todo = @ \ {l}, !.cur = l, !.answer = a])
    BY DEF Follows, Pass, InHand
  <2> QED
    BY <1>14, <1>M, <1>S, <2>1, <2>2 DEF AskBroker
<1>15. ASSUME NEW x \in q.sweep, SparePosition(r, x) \/ CondemnPosition(r, x)
       PROVE  Follows(pass'[r]) /\ \A n \in Reconcilers \ {r} : pass'[n] = pass[n]
  <2>1. q.at = "sweeping" => Follows([q EXCEPT !.sweep = @ \ {x}])
    BY DEF Follows, Pass, InHand
  <2>2. Follows([q EXCEPT !.at = "closing", !.sweep = @ \ {x}, !.found = x])
    BY DEF Follows, Pass, InHand
  <2> QED
    BY <1>15, <1>M, <1>S, <2>1, <2>2 DEF SparePosition, CondemnPosition
<1> QED
  BY <1>S, <1>1, <1>2, <1>3, <1>4, <1>5, <1>6, <1>7, <1>8, <1>9, <1>10, <1>11, <1>12, <1>13, <1>14,
     <1>15 DEF ReconStep

\* A step of a pass changes no id in either table.
LEMMA PassKeepsTableIds ==
    ASSUME ReconInv, IdInv, NEW r \in Reconcilers, ReconStep(r) \/ PassFails(r), NEW o \in Orders
    PROVE  intents'[o].brokerId = intents[o].brokerId /\ orders'[o].brokerId = orders[o].brokerId
<1>T. TypeOK /\ PassesSound
  BY DEF ReconInv, IInv, Typed
<1>1. ASSUME NEW from \in {"ending", "partial", "filling"}, NEW status, NEW to,
             RecordOutcome(r, from, status, to),
             status \in TerminalIntentStatuses => pass[r].answer.status = status
      PROVE  intents'[o].brokerId = intents[o].brokerId /\ UNCHANGED orders
  <2> DEFINE n == pass[r].cur.order
             b == pass[r].cur.id
  <2>1. n \in Orders /\ intents[n].brokerId = b
    BY <1>1, EvidenceIsSound
  <2> HIDE DEF n, b
  <2>2. UNCHANGED intents \/ intents' = AfterEvidence(intents, n, b, status)
    BY <1>1 DEF RecordOutcome, n, b
  <2> QED
    BY <1>1, <1>T, <2>1, <2>2 DEF RecordOutcome, AfterEvidence, TypeOK
<1>2. ASSUME NEW n \in Orders, NEW status, NEW b, b = NoId \/ b = orders[n].brokerId,
             orders' = AfterTransition(orders, n, status, b), UNCHANGED intents
      PROVE  intents'[o].brokerId = intents[o].brokerId /\ orders'[o].brokerId = orders[o].brokerId
  BY <1>2, <1>T DEF AfterTransition, TypeOK
<1>3. ASSUME pass[r].at \in InHand
      PROVE  pass[r].cur.order \in Orders /\ pass[r].cur.id = orders[pass[r].cur.order].brokerId
  BY <1>3, <1>T DEF PassesSound, Sound, LocalOrder, IdInv, PassIds
<1>4. CASE MarkForReview(r) \/ SettleEnd(r) \/ SettlePartial(r) \/ SettleFill(r)
  BY <1>2, <1>3, <1>4 DEF MarkForReview, SettleEnd, SettlePartial, SettleFill, InHand
<1>5. CASE \E n \in Orders : RecoverStale(r, n)
  BY <1>2, <1>5 DEF RecoverStale
<1>6. CASE RecordEnd(r)
  <2>1. pass[r].answer.status \in {"rejected", "cancelled"}
    BY <1>6 DEF RecordEnd, RecordOutcome, ReconInv, PassesSound, Sound
  <2> QED
    BY <1>1, <1>6, <2>1 DEF RecordEnd
<1>7. CASE RecordPartial(r)
  BY <1>1, <1>7 DEF RecordPartial, TerminalIntentStatuses
<1>8. CASE RecordFill(r)
  <2>1. pass[r].answer.status = "filled"
    BY <1>8 DEF RecordFill, RecordOutcome, ReconInv, PassesSound, Sound
  <2> QED
    BY <1>1, <1>8, <2>1 DEF RecordFill
<1>9. CASE UNCHANGED <<intents, orders>>
  BY <1>9
<1> QED
  BY <1>4, <1>5, <1>6, <1>7, <1>8, <1>9
  DEF ReconStep, durable, StartPass, TakeSnapshot, FetchHoldings, JudgeAnswer, FindPosition,
      CheckProtection, SizePosition, OpenMissingPosition, ListPositions, ClosePosition, EndPass,
      AskBroker, SparePosition, CondemnPosition, PassFails

\* A position that a pass writes has the id of the order in hand, or of a
\* position that was there.
LEMMA PassWritesPositions ==
    ASSUME ReconInv, NEW r \in Reconcilers, ReconStep(r) \/ PassFails(r), NEW x \in positions'
    PROVE  \/ \E y \in positions : x.brokerId = y.brokerId
           \/ pass[r].at \in InHand \ {"answered"} /\ x.brokerId = pass[r].cur.id
<1>1. CASE UNCHANGED positions
  BY <1>1
<1>2. CASE SizePosition(r) \/ OpenMissingPosition(r)
  BY <1>2 DEF SizePosition, OpenMissingPosition, Opened, InHand
<1>3. CASE ClosePosition(r)
  <2>1. CASE pass[r].found \in positions
    <3>1. [pass[r].found EXCEPT !.open = FALSE].brokerId = pass[r].found.brokerId
      BY <2>1 DEF ReconInv, IInv, Typed, TypeOK, Position
    <3> QED
      BY <1>3, <2>1, <3>1 DEF ClosePosition
  <2>2. CASE pass[r].found \notin positions
    BY <1>3, <2>2 DEF ClosePosition
  <2> QED
    BY <2>1, <2>2
<1> QED
  BY <1>1, <1>2, <1>3
  DEF ReconStep, durable, StartPass, TakeSnapshot, FetchHoldings, JudgeAnswer, FindPosition,
      CheckProtection, MarkForReview, RecordEnd, RecordPartial, RecordFill, RecordOutcome,
      SettleEnd, SettlePartial, SettleFill, ListPositions, EndPass, RecoverStale, AskBroker,
      SparePosition, CondemnPosition, PassFails

LEMMA PassKeepsIds ==
    ASSUME ReconInv, ReconInv', IdInv, NEW r \in Reconcilers, ReconStep(r) \/ PassFails(r)
    PROVE  IdInv'
<1>T. /\ TypeOK /\ PassesSound /\ LockInv
      /\ UNCHANGED <<handler, request, book>>
  BY PassKeepsCalls DEF ReconInv, IInv, Typed
<1>I. ASSUME NEW o \in Orders
      PROVE  intents'[o].brokerId = intents[o].brokerId /\ orders'[o].brokerId = orders[o].brokerId
  BY PassKeepsTableIds
<1>1. \A o \in Orders : CallIds(o)'
  BY <1>I, <1>T DEF IdInv, CallIds
<1>2. ASSUME NEW n \in Reconcilers \ {r} PROVE PassIds(pass'[n], orders')
  <2>1. pass'[n] = pass[n]
    BY PassFollows
  <2> QED
    BY <1>I, <1>T, <2>1, PassIdsStay DEF IdInv, PassesSound
<1>3. PassIds(pass'[r], orders')
  <2>1. ASSUME NEW l \in pass[r].todo \cup RowsWithId PROVE l.order \in Orders /\ orders[l.order].brokerId = l.id
    BY <1>T DEF IdInv, PassIds, PassesSound, Pass, LocalOrder, RowsWithId
  <2>2. pass[r].at \in InHand =>
          pass[r].cur.order \in Orders /\ orders[pass[r].cur.order].brokerId = pass[r].cur.id
    BY <1>T DEF IdInv, PassIds, PassesSound, Sound, LocalOrder
  <2> QED
    BY <1>I, <2>1, <2>2, PassFollows DEF PassIds
<1>4. PositionIds'
  <2>1. ASSUME NEW x \in positions'
        PROVE  book[x.brokerId].owner \in Orders
               /\ orders[book[x.brokerId].owner].brokerId = x.brokerId
    <3>1. CASE \E y \in positions : x.brokerId = y.brokerId
      BY <3>1 DEF IdInv, PositionIds
    <3>2. CASE pass[r].at \in InHand \ {"answered"} /\ x.brokerId = pass[r].cur.id
      <4>1. /\ pass[r].cur \in LocalOrder /\ intents[pass[r].cur.order].brokerId = x.brokerId
            /\ orders[pass[r].cur.order].brokerId = x.brokerId
        BY <1>T, <3>2 DEF PassesSound, Sound, IdInv, PassIds
      <4> QED
        BY <1>T, <3>2, <4>1, NoIdAssumption DEF LocalOrder, LockInv, OwnIds
    <3> QED
      BY <3>1, <3>2, PassWritesPositions
  <2> QED
    BY <1>I, <1>T, <2>1 DEF PositionIds
<1> QED
  BY <1>1, <1>2, <1>3, <1>4 DEF IdInv

\* A lookup reports of another broker order at most a rejection, which the
\* adapter confirms: then the two tables, the positions and the broker agree on
\* who is who.
THEOREM IdentityBesidePasses ==
    ASSUME MisroutedReplies \subseteq {"rejected"} \cap ConfirmedStatuses
    PROVE  ReconSpec => []DurableIdentity
<1>1. ReconInit => IdInv
  BY NoIdAssumption DEF ReconInit, Init, IdInv, CallIds, PassIds, PositionIds, NewCall, AbsentRow, AbsentOrder,
     NewPass, InHand
<1>2. ASSUME ReconInv, ReconInv', IdInv, [ReconNext]_reconVars PROVE IdInv'
  <2>1. ASSUME NEW r \in Reconcilers, ReconStep(r) \/ PassFails(r) PROVE IdInv'
    BY <1>2, <2>1, PassKeepsIds
  <2>2. CASE Next /\ UNCHANGED <<pass, squared>>
    BY <1>2, <2>2, CallKeepsIds, BrokerKeepsIds DEF Next
  <2>3. CASE UNCHANGED <<vars, pass>>
    BY <1>2, <2>3 DEF vars, IdInv, CallIds, PassIds, PositionIds
  <2> QED
    BY <1>2, <2>1, <2>2, <2>3 DEF ReconNext, reconVars, SquareOff
<1>3. ReconInv /\ ReconInv' /\ IdInv /\ [ReconNext]_reconVars => IdInv'
  BY <1>2
<1>4. ReconInv /\ IdInv => DurableIdentity
  <2> SUFFICES ASSUME ReconInv, IdInv PROVE DurableIdentity
    OBVIOUS
  <2>1. ASSUME NEW o \in Orders, NEW b \in BrokerIds, orders[o].brokerId = b \/ intents[o].brokerId = b
        PROVE  intents[o].brokerId = b /\ book[b].owner = o
    BY <2>1, NoIdAssumption DEF IdInv, CallIds, ReconInv, IInv, LockInv, OwnIds
  <2>2. ASSUME NEW x \in positions
        PROVE  LET o == book[x.brokerId].owner
               IN o \in Orders /\ orders[o].brokerId = x.brokerId /\ intents[o].brokerId = x.brokerId
    <3>1. x.brokerId \in BrokerIds
      BY DEF ReconInv, IInv, Typed, TypeOK, Position
    <3> QED
      BY <2>1, <3>1 DEF IdInv, PositionIds
  <2> QED
    BY <2>1, <2>2 DEF DurableIdentity
<1> QED
  BY <1>1, <1>3, <1>4, ReconInvariantHolds, PTL DEF ReconSpec

-----------------------------------------------------------------------------
(* The order rows that say an order is over, for calls that are not slow   *)
(* and lookups that misreport at most a rejection.                         *)

\* A call sends from a row that says so, and has read the end of its own
\* broker order before it writes one; an order that was sent never looks as if
\* it had not been.
CallSettled(o) ==
    /\ IsTerminal(orders, o) => ~Exposed(o)
    /\ handler[o].at \in {"idle", "checked", "created", "approved", "conflicted", "claimed"} =>
          request[o] = "unsent"
    /\ handler[o].at = "submitted" => orders[o].status = "broker_submitted"
    /\ request[o] # "unsent" => orders[o].status \notin PreBrokerStaleStatuses
    /\ handler[o].at \in {"answered", "rejecting"} /\ handler[o].reply.status \in EndedStatuses =>
          book[handler[o].reply.id].status = handler[o].reply.status
    /\ handler[o].at = "answered" /\ handler[o].reply.status # "rejected" =>
          handler[o].reply.id = handler[o].ack
    /\ handler[o].at = "rejecting" =>
          handler[o].reply.id = handler[o].ack /\ handler[o].reply.status = "rejected"

\* The orders a pass takes for stale can no longer be sent, and the end it is
\* about to write is the one it has read.
PassSettled(p) ==
    /\ \A o \in p.stale : handler[o].at \in StoppedAt /\ request[o] = "unsent"
    /\ p.at = "answered" /\ p.answer.status = "failed" => ~p.answer.confirmed
    /\ p.at \in InHand \ {"answered"} => p.answer.status # "failed"
    /\ p.at = "ended" => p.answer.status \in EndedStatuses
    /\ p.at = "filled" => p.answer.status = "filled"

SettledInv ==
    /\ \A o \in Orders : CallSettled(o)
    /\ \A r \in Reconcilers : PassSettled(pass[r])

\* An order whose own broker order has ended is off the market.
LEMMA EndedOffMarket ==
    ASSUME IInv, NEW o \in Orders, NEW b \in BrokerIds,
           book[b].owner = o, book[b].status \in EndedStatuses
    PROVE  ~Exposed(o)
<1>1. request[o] = "accepted" /\ \A c \in BrokerIds : book[c].owner = o => c = b
  BY NoOrderAssumption DEF IInv, LockInv, OneBrokerOrder
<1> QED
  BY <1>1 DEF Exposed, WorkingStatuses, EndedStatuses

\* A lookup reports an end only if it is in the book, and fails unconfirmed.
LEMMA RepliesAreReal ==
    ASSUME ReconInv, NEW b \in BrokerIds, NEW a \in RepliesAbout(b)
    PROVE  /\ a.status \in EndedStatuses => book[a.id].status = a.status
           /\ a.status = "failed" => ~a.confirmed
           /\ MisroutedReplies \subseteq {"rejected"} /\ a.status # "rejected" => a.id = b
<1>T. TypeOK /\ BookSound
  BY DEF ReconInv, IInv, Typed
<1>1. CASE a \in {[id |-> b, status |-> s, confirmed |-> FALSE] : s \in AmbiguousStatuses}
  BY <1>1 DEF AmbiguousStatuses, EndedStatuses
<1>2. ASSUME NEW c \in BrokerIds, c = b \/ ReportedStatus(c) \in MisroutedReplies,
             a.id = c, a.status = ReportedStatus(c)
      PROVE  /\ a.status \in EndedStatuses => book[a.id].status = a.status
             /\ a.status # "failed"
             /\ MisroutedReplies \subseteq {"rejected"} /\ a.status # "rejected" => a.id = b
  BY <1>2, <1>T, LotAssumption
  DEF ReportedStatus, BookSound, TypeOK, BookRow, WorkingStatuses, EndedStatuses
<1> QED
  BY <1>1, <1>2 DEF RepliesAbout

\* One step of a call leaves the other orders alone and the book as it is.
LEMMA CallsActAlone ==
    ASSUME TypeOK, NEW o \in Orders, HandlerStep(o) \/ Crash(o)
    PROVE  /\ \A p \in Orders \ {o} : /\ orders'[p] = orders[p]
                                     /\ handler'[p] = handler[p]
                                     /\ request'[p] = request[p]
           /\ handler[o].at \notin StoppedAt
           /\ request' = request \/ SendPlacement(o)
  BY DEF TypeOK, HandlerStep, Crash, durable, broker, CheckDuplicate, CreateOrder, ApproveRisk,
     RefuseUnprotected, ClaimSubmission, ClaimConflicts, RejectConflict, MarkSubmissionStarted,
     SubmitTransition, SendPlacement, PlacementAcked, RecordSubmitted, AcceptTransition,
     QueryStatus, TryRaises, RecordUnknown, SettleUnconfirmed, SettleUnverifiedRejection,
     RecordRejection, VerifiedRejection, LoseRejection, SettleLostRejection, SettleRejection,
     SettleStatus, CreatePosition, Goes, Stops, AfterCreate, AfterTransition, StoppedAt

LEMMA CallStepSettles ==
    ASSUME MisroutedReplies \subseteq {"rejected"}, ReconInv, NEW o \in Orders, CallSettled(o),
           HandlerStep(o) \/ Crash(o)
    PROVE  CallSettled(o)'
<1>T. TypeOK /\ LocalsSet /\ LockInv /\ UNCHANGED book
  BY CallsKeepBook DEF ReconInv, IInv, Typed
<1>E. ~SendPlacement(o) => UNCHANGED request /\ Exposed(o)' = Exposed(o)
  BY <1>T, CallsActAlone DEF Exposed
<1> USE DEF CallSettled, TypeOK, Handler, durable, IsTerminal, TerminalStatuses
<1>1. CASE CheckDuplicate(o) \/ RefuseUnprotected(o) \/ ClaimSubmission(o) \/ ClaimConflicts(o)
           \/ MarkSubmissionStarted(o) \/ RecordSubmitted(o)
           \/ LoseRejection(o) \/ CreatePosition(o) \/ Crash(o)
  BY <1>1, <1>T, <1>E DEF CheckDuplicate, RefuseUnprotected, ClaimSubmission, ClaimConflicts,
     MarkSubmissionStarted, SendPlacement, RecordSubmitted, LoseRejection, VerifiedRejection,
     CreatePosition, Crash, Goes, Stops, NewCall, StoppedAt
<1>2. CASE CreateOrder(o)
  BY <1>2, <1>T, <1>E DEF CreateOrder, SendPlacement, AfterCreate, Goes
<1>3. CASE ApproveRisk(o)
  BY <1>3, <1>T, <1>E DEF ApproveRisk, SendPlacement, AfterTransition, Goes
<1>4. CASE RejectConflict(o)
  <2>1. request[o] = "unsent" /\ \A b \in BrokerIds : book[b].owner # o
    BY <1>4, <1>T, NoOrderAssumption DEF RejectConflict, Stops, LockInv, OneBrokerOrder
  <2>2. ~Exposed(o)
    BY <2>1 DEF Exposed
  <2> QED
    BY <1>4, <1>T, <1>E, <2>1, <2>2 DEF RejectConflict, SendPlacement, AfterTransition, Goes, Stops,
       NewCall, PreBrokerStaleStatuses
<1>5. CASE SubmitTransition(o)
  BY <1>5, <1>T, <1>E DEF SubmitTransition, SendPlacement, AfterTransition, Goes,
     PreBrokerStaleStatuses
<1>6. CASE SendPlacement(o)
  BY <1>6, <1>T DEF SendPlacement, Goes, PreBrokerStaleStatuses
<1>7. CASE PlacementAcked(o) \/ TryRaises(o)
  BY <1>7, <1>T, <1>E DEF PlacementAcked, TryRaises, SendPlacement, Goes
<1>8. CASE QueryStatus(o)
  <2>1. PICK a \in RepliesAbout(handler[o].ack) :
            handler' = [handler EXCEPT ![o] = [at |-> "answered", ack |-> @.ack, reply |-> a]]
    BY <1>8 DEF QueryStatus
  <2>2. handler[o].ack \in BrokerIds
    BY <1>8, <1>T DEF QueryStatus, LocalsSet, HasAck
  <2> QED
    BY <1>8, <1>T, <1>E, <2>1, <2>2, RepliesAreReal DEF QueryStatus, SendPlacement, Goes
<1>9. CASE AcceptTransition(o) \/ RecordUnknown(o) \/ SettleUnconfirmed(o)
           \/ SettleUnverifiedRejection(o) \/ SettleLostRejection(o)
  BY <1>9, <1>T, <1>E DEF AcceptTransition, RecordUnknown, SettleUnconfirmed,
     SettleUnverifiedRejection, SettleLostRejection, SendPlacement, AfterTransition, Goes, Stops,
     NewCall, PreBrokerStaleStatuses
<1>10. CASE RecordRejection(o)
  BY <1>10, <1>T, <1>E DEF RecordRejection, VerifiedRejection, SendPlacement, Goes
<1>11. CASE SettleRejection(o)
  <2>1. ~Exposed(o)
    <3>1. /\ handler[o].reply.id \in BrokerIds /\ handler[o].reply.id = handler[o].ack
          /\ book[handler[o].reply.id].status = "rejected"
      BY <1>11, <1>T DEF SettleRejection, Stops, LocalsSet, HasReply, Reply, EndedStatuses
    <3> QED
      BY <1>T, <3>1, NoIdAssumption, EndedOffMarket DEF LockInv, OwnIds, EndedStatuses, ReconInv
  <2> QED
    BY <1>11, <1>T, <1>E, <2>1 DEF SettleRejection, SendPlacement, AfterTransition, Goes, Stops, NewCall,
       PreBrokerStaleStatuses
<1>12. CASE SettleStatus(o)
  <2> DEFINE a == handler[o].reply
             status == OrderStatusOf(a.status, a.confirmed)
  <2>1. /\ handler[o].at = "answered" /\ ~Unconfirmed(a) /\ a.status # "rejected"
        /\ orders' = AfterTransition(orders, o, status, a.id)
    BY <1>12 DEF SettleStatus
  <2>2. handler'[o].at \in {"positioning", "done"}
    BY <1>12, <1>T DEF SettleStatus, Goes, Stops, NewCall
  <2>3. a \in Reply
    BY <2>1, <1>T DEF LocalsSet, HasReply
  <2>4. status \notin PreBrokerStaleStatuses
    BY DEF OrderStatusOf, PreBrokerStaleStatuses
  <2>5. status \in TerminalStatuses => ~Exposed(o)
    <3>1. status \in TerminalStatuses => a.status \in EndedStatuses
      BY <2>1, <2>3 DEF OrderStatusOf, Unconfirmed, AmbiguousStatuses, EndedStatuses, Reply,
         WorkingStatuses
    <3>2. a.id \in BrokerIds /\ a.id = handler[o].ack /\ book[a.id].owner = o
      BY <2>1, <2>3, <1>T, NoIdAssumption DEF Reply, LockInv, OwnIds
    <3> QED
      BY <2>1, <3>1, <3>2, EndedOffMarket DEF ReconInv
  <2>6. orders'[o].status = status
    BY <2>1, <1>T DEF AfterTransition
  <2> HIDE DEF status, a
  <2> QED
    BY <1>12, <1>T, <1>E, <2>1, <2>2, <2>4, <2>5, <2>6 DEF SendPlacement, Goes
<1> QED
  BY <1>1, <1>2, <1>3, <1>4, <1>5, <1>6, <1>7, <1>8, <1>9, <1>10, <1>11, <1>12 DEF HandlerStep

LEMMA CallKeepsSettled ==
    ASSUME MisroutedReplies \subseteq {"rejected"}, ReconInv, SettledInv, NEW o \in Orders,
           HandlerStep(o) \/ Crash(o), UNCHANGED pass
    PROVE  SettledInv'
<1>T. TypeOK /\ PassesSound
  BY DEF ReconInv, IInv, Typed
<1>1. CallSettled(o)'
  BY CallStepSettles DEF SettledInv
<1>2. /\ \A n \in Orders \ {o} : orders'[n] = orders[n] /\ handler'[n] = handler[n]
                                 /\ request'[n] = request[n]
      /\ handler[o].at \notin StoppedAt
  BY <1>T, CallsActAlone
<1>3. ASSUME NEW n \in Orders \ {o} PROVE CallSettled(n)'
  BY <1>2, CallsKeepBook DEF SettledInv, CallSettled, IsTerminal, Exposed
<1>4. ASSUME NEW r \in Reconcilers PROVE PassSettled(pass[r])'
  <2>1. pass[r].stale \subseteq Orders
    BY <1>T DEF PassesSound, Pass
  <2> QED
    BY <1>2, <2>1 DEF SettledInv, PassSettled
<1> QED
  BY <1>1, <1>3, <1>4 DEF SettledInv

\* The broker puts no order on the market whose request was not on its way.
LEMMA BrokerKeepsSettled ==
    ASSUME ReconInv, SettledInv, BrokerStep, UNCHANGED pass
    PROVE  SettledInv'
<1>T. /\ TypeOK /\ LocalsSet /\ LockInv /\ EndsStay /\ PassesSound
      /\ UNCHANGED <<intents, orders, positions, handler>>
  <2>1. [Next]_vars
    BY DEF Next
  <2> QED
    BY <2>1, BrokerEndsStay DEF ReconInv, IInv, Typed, BrokerStep, BrokerAccepts, RequestLost,
       BrokerFills, BrokerEnds, BrokerRejects, durable
<1>1. ASSUME NEW o \in Orders PROVE (request'[o] = "unsent") = (request[o] = "unsent")
  BY <1>T DEF BrokerStep, BrokerAccepts, RequestLost, BrokerFills, BrokerEnds, BrokerRejects, TypeOK
<1>2. ASSUME NEW o \in Orders, Exposed(o)' PROVE Exposed(o)
  <2>1. ASSUME NEW p \in Orders, BrokerAccepts(p) PROVE Exposed(o)
    BY <1>2, <1>T, <2>1 DEF BrokerAccepts, Exposed, TypeOK
  <2>2. ASSUME NEW p \in Orders, RequestLost(p) PROVE Exposed(o)
    BY <1>2, <1>T, <2>2 DEF RequestLost, Exposed, TypeOK
  <2>3. ASSUME NEW b \in BrokerIds, BrokerFills(b) PROVE Exposed(o)
    BY <1>2, <1>T, <2>3 DEF BrokerFills, Exposed, TypeOK
  <2>4. ASSUME NEW b \in BrokerIds, BrokerEnds(b) \/ BrokerRejects(b) PROVE Exposed(o)
    BY <1>2, <1>T, <2>4 DEF BrokerEnds, BrokerRejects, Exposed, TypeOK, BookRow, WorkingStatuses
  <2> QED
    BY <2>1, <2>2, <2>3, <2>4 DEF BrokerStep
<1>3. ASSUME NEW o \in Orders PROVE CallSettled(o)'
  <2>1. handler[o].at \in {"answered", "rejecting"} => handler[o].reply.id \in BrokerIds
    BY <1>T DEF LocalsSet, HasReply, Reply
  <2> QED
    BY <1>T, <1>1, <1>2, <2>1 DEF SettledInv, CallSettled, IsTerminal, EndsStay
<1>4. ASSUME NEW r \in Reconcilers PROVE PassSettled(pass[r])'
  <2>1. pass[r].stale \subseteq Orders
    BY <1>T DEF PassesSound, Pass
  <2> QED
    BY <1>T, <1>1, <2>1 DEF SettledInv, PassSettled
<1> QED
  BY <1>3, <1>4 DEF SettledInv

\* After a step of a pass, what it takes for stale cannot be sent, and the end
\* it is about to write is one it has read.
LEMMA PassStaysSettled ==
    ASSUME ~SlowCalls, ReconInv, SettledInv, NEW r \in Reconcilers, ReconStep(r) \/ PassFails(r)
    PROVE  PassSettled(pass'[r])
<1>S. PICK q \in Pass : /\ q = pass[r] /\ pass \in [Reconcilers -> Pass]
                       /\ Sound(q, intents, book) /\ PassSettled(q)
  BY DEF ReconInv, PassesSound, SettledInv
<1>M. ASSUME NEW p, Becomes(r, p), PassSettled(p) PROVE PassSettled(pass'[r])
  BY <1>M, <1>S DEF Becomes
<1>N. ASSUME NextOrder(r) \/ Becomes(r, NewPass) PROVE PassSettled(pass'[r])
  <2>1. PassSettled(NewPass)
    BY DEF NewPass, PassSettled, InHand
  <2>2. PassSettled([q EXCEPT !.at = "orders", !.cur = Nothing, !.answer = Nothing, !.found = Nothing])
    BY <1>S DEF PassSettled, Pass, InHand
  <2> QED
    BY <1>N, <1>M, <1>S, <2>1, <2>2 DEF NextOrder
<1>G. ASSUME NEW at, Becomes(r, [q EXCEPT !.at = at]), at # "answered",
             at \in InHand => q.at \in InHand \ {"answered"},
             at = "ended" => q.answer.status \in EndedStatuses,
             at = "filled" => q.answer.status = "filled"
      PROVE  PassSettled(pass'[r])
  <2>1. PassSettled([q EXCEPT !.at = at])
    BY <1>G, <1>S DEF Pass, PassSettled
  <2> QED
    BY <1>G, <1>M, <2>1
<1>1. CASE StartPass(r)
  <2>1. PICK S \in SUBSET {o \in Orders : MayBeStale(o)} :
            Becomes(r, [q EXCEPT !.at = "recovering", !.stale = S])
    BY <1>1, <1>S DEF StartPass
  <2>2. \A o \in S : handler[o].at \in StoppedAt /\ request[o] = "unsent"
    BY <2>1 DEF MayBeStale, SettledInv, CallSettled
  <2>3. PassSettled([q EXCEPT !.at = "recovering", !.stale = S])
    BY <2>2 DEF PassSettled, Pass, InHand
  <2> QED
    BY <1>M, <2>1, <2>3
<1>2. CASE TakeSnapshot(r)
  <2>1. PassSettled([q EXCEPT !.at = "listing", !.todo = RowsWithId])
    BY <1>S DEF PassSettled, Pass, InHand
  <2> QED
    BY <1>2, <1>M, <1>S, <2>1 DEF TakeSnapshot
<1>3. CASE FetchHoldings(r)
  <2>1. PICK h : Becomes(r, [q EXCEPT !.at = "orders", !.holdings = h])
    BY <1>3, <1>S DEF FetchHoldings
  <2>2. PassSettled([q EXCEPT !.at = "orders", !.holdings = h])
    BY <1>S DEF PassSettled, Pass, InHand
  <2> QED
    BY <1>M, <2>1, <2>2
<1>4. CASE JudgeAnswer(r)
  <2>1. CASE NextOrder(r)
    BY <1>N, <2>1
  <2>2. CASE Acceptable(q.cur, q.answer) /\ Becomes(r, [q EXCEPT !.at = "judged"])
    <3>1. q.answer.status # "failed"
      BY <1>4, <1>S, <2>2 DEF JudgeAnswer, Acceptable, ConfirmationNeeded, PassSettled
    <3>2. PassSettled([q EXCEPT !.at = "judged"])
      BY <1>S, <3>1 DEF PassSettled, Pass
    <3> QED
      BY <1>M, <2>2, <3>2
  <2> QED
    BY <1>4, <1>S, <2>1, <2>2 DEF JudgeAnswer
<1>5. CASE FindPosition(r)
  <2>1. PICK x : q.at = "judged" /\ Becomes(r, [q EXCEPT !.at = "found", !.found = x])
    BY <1>5, <1>S DEF FindPosition
  <2>2. PassSettled([q EXCEPT !.at = "found", !.found = x])
    BY <1>S, <2>1 DEF PassSettled, Pass, InHand
  <2> QED
    BY <1>M, <2>1, <2>2
<1>6. CASE CheckProtection(r)
  <2>1. q.at = "found" /\ q.answer.status # "failed" /\ q.answer \in Answer
    BY <1>6, <1>S DEF CheckProtection, PassSettled, Sound, InHand
  <2>2. CASE NextOrder(r)
    BY <1>N, <2>2
  <2>3. CASE Becomes(r, [q EXCEPT !.at = "reviewing"])
    BY <1>G, <2>1, <2>3 DEF InHand
  <2>4. ASSUME NEW next, next = Branch(q.cur, q.answer), next # "orders", Becomes(r, [q EXCEPT !.at = next])
        PROVE  PassSettled(pass'[r])
    <3>1. /\ next \notin {"answered", "filled"}
          /\ next = "ended" => q.answer.status \in EndedStatuses
      BY <2>1, <2>4 DEF Branch, EndedStatuses
    <3> QED
      BY <1>G, <2>1, <2>4, <3>1 DEF InHand
  <2> QED
    BY <1>6, <1>S, <2>2, <2>3, <2>4 DEF CheckProtection
<1>7. CASE MarkForReview(r) \/ OpenMissingPosition(r) \/ SizePosition(r) \/ EndPass(r) \/ PassFails(r)
  BY <1>7, <1>N DEF MarkForReview, OpenMissingPosition, SizePosition, EndPass, PassFails
<1>8. CASE SettleEnd(r)
  BY <1>8, <1>N, <1>G, <1>S DEF SettleEnd, InHand
<1>9. CASE SettlePartial(r) \/ SettleFill(r)
  BY <1>9, <1>G, <1>S DEF SettlePartial, SettleFill, InHand
<1>10. CASE RecordEnd(r) \/ RecordPartial(r) \/ RecordFill(r)
  BY <1>10, <1>N, <1>G, <1>S DEF RecordEnd, RecordPartial, RecordFill, RecordOutcome, InHand, Sound,
     EndedStatuses
<1>11. CASE ListPositions(r)
  <2>1. PassSettled([q EXCEPT !.at = "sweeping", !.sweep = {x \in positions : x.open}])
    BY <1>S DEF PassSettled, Pass, InHand
  <2> QED
    BY <1>11, <1>N, <1>M, <1>S, <2>1 DEF ListPositions
<1>12. CASE ClosePosition(r)
  <2>1. PassSettled([q EXCEPT !.at = "sweeping", !.found = Nothing])
    BY <1>S DEF PassSettled, Pass, InHand
  <2> QED
    BY <1>12, <1>M, <1>S, <2>1 DEF ClosePosition
<1>13. ASSUME NEW o \in Orders, RecoverStale(r, o) PROVE PassSettled(pass'[r])
  <2>1. PassSettled([q EXCEPT !.stale = @ \ {o}])
    BY <1>S DEF PassSettled, Pass
  <2> QED
    BY <1>13, <1>M, <1>S, <2>1 DEF RecoverStale
<1>14. ASSUME NEW l \in q.todo, AskBroker(r, l) PROVE PassSettled(pass'[r])
  <2>1. PassSettled([q EXCEPT !.todo = @ \ {l}])
    BY <1>S DEF PassSettled, Pass
  <2>2. ASSUME NEW a \in AnswersAbout(l.id)
        PROVE  PassSettled([q EXCEPT !.at = "answered", !.todo = @ \ {l}, !.cur = l, !.answer = a])
    <3>1. PICK x \in RepliesAbout(l.id) : a.status = x.status /\ a.confirmed = x.confirmed
      BY DEF AnswersAbout
    <3>2. l.id \in BrokerIds
      BY DEF Pass, LocalOrder
    <3>3. a.status = "failed" => ~a.confirmed
      BY <3>1, <3>2, RepliesAreReal
    <3> QED
      BY <1>S, <3>3 DEF PassSettled, Pass
  <2> QED
    BY <1>14, <1>M, <1>S, <2>1, <2>2 DEF AskBroker
<1>15. ASSUME NEW x \in q.sweep, SparePosition(r, x) \/ CondemnPosition(r, x)
       PROVE  PassSettled(pass'[r])
  <2>1. PassSettled([q EXCEPT !.sweep = @ \ {x}])
    BY <1>S DEF PassSettled, Pass
  <2>2. PassSettled([q EXCEPT !.at = "closing", !.sweep = @ \ {x}, !.found = x])
    BY <1>S DEF PassSettled, Pass, InHand
  <2> QED
    BY <1>15, <1>M, <1>S, <2>1, <2>2 DEF SparePosition, CondemnPosition
<1> QED
  BY <1>S, <1>1, <1>2, <1>3, <1>4, <1>5, <1>6, <1>7, <1>8, <1>9, <1>10, <1>11, <1>12, <1>13, <1>14,
     <1>15 DEF ReconStep

\* A pass ends an order's row only after the end of its own broker order, or
\* when it was never sent.
LEMMA PassSettlesRows ==
    ASSUME ReconInv, SettledInv, NEW r \in Reconcilers, ReconStep(r) \/ PassFails(r), NEW o \in Orders
    PROVE  CallSettled(o)'
<1>T. /\ TypeOK /\ LockInv /\ PassesSound
      /\ UNCHANGED <<handler, request, book>>
  BY PassKeepsCalls DEF ReconInv, IInv, Typed
<1>E. \A n \in Orders : Exposed(n)' = Exposed(n)
  BY <1>T DEF Exposed
<1>1. CASE UNCHANGED orders
  BY <1>1, <1>T, <1>E DEF SettledInv, CallSettled, IsTerminal
<1>2. ASSUME NEW n \in Orders, NEW status, NEW b, orders' = AfterTransition(orders, n, status, b),
             status \notin PreBrokerStaleStatuses, handler[n].at # "submitted",
             status \in TerminalStatuses => ~Exposed(n)
      PROVE  CallSettled(o)'
  <2>1. /\ orders'[n].status = status
        /\ \A p \in Orders \ {n} : orders'[p] = orders[p]
    BY <1>2, <1>T DEF AfterTransition, TypeOK
  <2> QED
    BY <1>2, <1>T, <1>E, <2>1 DEF SettledInv, CallSettled, IsTerminal
<1>3. ASSUME pass[r].at \in InHand \ {"answered"}
      PROVE  /\ pass[r].cur.order \in Orders
             /\ handler[pass[r].cur.order].at # "submitted"
             /\ pass[r].answer.status \in EndedStatuses => ~Exposed(pass[r].cur.order)
  <2> DEFINE n == pass[r].cur.order
             b == pass[r].cur.id
  <2>1. /\ n \in Orders /\ b \in BrokerIds /\ intents[n].brokerId = b
        /\ pass[r].answer.status \in EndedStatuses => book[b].status \in EndedStatuses
    BY <1>3, <1>T DEF PassesSound, Sound, LocalOrder
  <2>2. book[b].owner = n
    BY <1>T, <2>1, NoIdAssumption DEF LockInv, OwnIds
  <2>3. request[n] = "accepted"
    BY <1>T, <2>1, <2>2, NoOrderAssumption DEF LockInv, OneBrokerOrder
  <2>4. handler[n].at # "submitted"
    BY <1>T, <2>1, <2>3 DEF LockInv, ReadyToSend
  <2> QED
    BY <2>1, <2>2, <2>4, EndedOffMarket DEF ReconInv
<1>4. CASE MarkForReview(r) \/ SettlePartial(r)
  BY <1>2, <1>3, <1>4 DEF MarkForReview, SettlePartial, InHand, PreBrokerStaleStatuses,
     TerminalStatuses
<1>5. CASE SettleEnd(r)
  <2> DEFINE status == OrderStatusOf(pass[r].answer.status, pass[r].answer.confirmed)
  <2>1. status \notin PreBrokerStaleStatuses
    BY DEF OrderStatusOf, PreBrokerStaleStatuses
  <2>2. pass[r].at = "ended" /\ pass[r].answer.status \in EndedStatuses
    BY <1>5 DEF SettleEnd, SettledInv, PassSettled
  <2> QED
    BY <1>2, <1>3, <1>5, <2>1, <2>2 DEF SettleEnd, InHand
<1>6. CASE SettleFill(r)
  <2>1. pass[r].at = "filled" /\ pass[r].answer.status = "filled"
    BY <1>6 DEF SettleFill, SettledInv, PassSettled
  <2> QED
    BY <1>1, <1>2, <1>3, <1>6, <2>1 DEF SettleFill, InHand, EndedStatuses, PreBrokerStaleStatuses
<1>7. ASSUME NEW n \in Orders, RecoverStale(r, n) PROVE CallSettled(o)'
  <2>1. handler[n].at \in StoppedAt /\ request[n] = "unsent"
    BY <1>7 DEF RecoverStale, SettledInv, PassSettled
  <2>2. ~Exposed(n)
    BY <1>T, <2>1, NoOrderAssumption DEF Exposed, LockInv, OneBrokerOrder
  <2> QED
    BY <1>2, <1>7, <2>1, <2>2 DEF RecoverStale, StoppedAt, PreBrokerStaleStatuses
<1> QED
  BY <1>1, <1>4, <1>5, <1>6, <1>7
  DEF ReconStep, durable, StartPass, TakeSnapshot, FetchHoldings, JudgeAnswer, FindPosition,
      CheckProtection, RecordEnd, RecordPartial, RecordFill, RecordOutcome, SizePosition,
      OpenMissingPosition, ListPositions, ClosePosition, EndPass, AskBroker, SparePosition,
      CondemnPosition, PassFails

\* No call stays before its submission for long enough to be taken for stale,
\* and a lookup reports of another broker order at most that it was rejected:
\* then an order row that says filled, cancelled, rejected or failed is of an
\* order that is off the market, whatever calls and passes run beside it.
THEOREM SettledRowsAreOffMarket ==
    ASSUME ~SlowCalls, MisroutedReplies \subseteq {"rejected"}
    PROVE  ReconSpec => []SettledOrdersAreOffMarket
<1>1. ReconInit => SettledInv
  BY DEF ReconInit, Init, SettledInv, CallSettled, PassSettled, NewCall, NewPass, AbsentOrder,
     IsTerminal, TerminalStatuses, InHand, PreBrokerStaleStatuses
<1>2. ASSUME ReconInv, SettledInv, [ReconNext]_reconVars PROVE SettledInv'
  <2>1. ASSUME NEW r \in Reconcilers, ReconStep(r) \/ PassFails(r) PROVE SettledInv'
    <3>1. \A o \in Orders : CallSettled(o)'
      BY <1>2, <2>1, PassSettlesRows
    <3>2. PassSettled(pass'[r])
      BY <1>2, <2>1, PassStaysSettled
    <3>3. UNCHANGED <<handler, request>> /\ \A n \in Reconcilers \ {r} : pass'[n] = pass[n]
      BY <1>2, <2>1, PassFollows, PassKeepsCalls
    <3> QED
      BY <1>2, <3>1, <3>2, <3>3 DEF SettledInv, PassSettled
  <2>2. CASE Next /\ UNCHANGED <<pass, squared>>
    BY <1>2, <2>2, CallKeepsSettled, BrokerKeepsSettled DEF Next
  <2>3. CASE UNCHANGED <<vars, pass>>
    BY <1>2, <2>3 DEF vars, SettledInv, CallSettled, PassSettled, Exposed, IsTerminal
  <2> QED
    BY <1>2, <2>1, <2>2, <2>3 DEF ReconNext, reconVars, SquareOff
<1>3. ReconInv /\ SettledInv /\ [ReconNext]_reconVars => SettledInv'
  BY <1>2
<1>4. SettledInv => SettledOrdersAreOffMarket
  BY DEF SettledInv, CallSettled, SettledOrdersAreOffMarket
<1> QED
  BY <1>1, <1>3, <1>4, ReconInvariantHolds, PTL DEF ReconSpec
=============================================================================
