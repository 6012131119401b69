-------------------------- MODULE SubmissionIntent --------------------------
(***************************************************************************)
(* The durable broker submission intents on their own: any number of       *)
(* workers call claim_submission, mark_submission_started and              *)
(* record_broker_evidence in any order and with any arguments.  A call     *)
(* that raises changes nothing, so it is a stuttering step.  The modules   *)
(* of the handlers and of the reconciler refine this one.                  *)
(***************************************************************************)
EXTENDS IntentTable

VARIABLE intents

TableInit == intents = [o \in Orders |-> AbsentRow]

Claim(o) ==
    /\ CanClaim(intents, o)
    /\ intents' = AfterClaim(intents, o)

MarkStarted(o) ==
    /\ CanMarkStarted(intents, o)
    /\ intents' = AfterMarkStarted(intents, o)

RecordEvidence(o, b, status) ==
    /\ AcceptsEvidence(intents, o, b, status)
    /\ intents' = AfterEvidence(intents, o, b, status)

TableNext ==
    \E o \in Orders :
        \/ Claim(o)
        \/ MarkStarted(o)
        \/ \E b \in BrokerIds, status \in EvidenceStatuses : RecordEvidence(o, b, status)

TableSpec == TableInit /\ [][TableNext]_intents

-----------------------------------------------------------------------------

\* The rows have the shape of the table's columns.
TableTypeOK == intents \in [Orders -> IntentRow]

\* Two unresolved submissions never hold the same logical key, whichever
\* workers claimed, started and resolved them and in whatever order: a claim
\* is refused until evidence ended the previous holder, and no evidence puts
\* an order that gave its key up back among the holders.
OneHolderPerKey ==
    \A o, p \in Orders :
        o # p /\ SameKey(o, p) => ~(HoldsKey(intents, o) /\ HoldsKey(intents, p))

\* One broker order is never evidence for two local orders, and only a
\* submission that was started can be linked to a broker order.
BrokerIdentity ==
    \A o \in Orders : intents[o].brokerId # NoId =>
        /\ intents[o].status \in EvidenceStatuses
        /\ \A p \in Orders \ {o} : intents[p].brokerId # intents[o].brokerId

\* Evidence is final in two ways: the broker order a row was linked to is
\* never replaced, and a filled, cancelled or rejected row never changes
\* status again (a late or repeated observation cannot reopen it).
EvidenceIsFinal ==
    [][\A o \in Orders :
        /\ intents[o].brokerId # NoId => intents'[o].brokerId = intents[o].brokerId
        /\ intents[o].status \in TerminalIntentStatuses => intents'[o] = intents[o]
      ]_intents

\* A key is given up only by terminal evidence about a started submission:
\* a row that was only claimed keeps its key until it is started, and no row
\* is ever deleted or returned to "claimed".
KeyLeavesByEvidence ==
    [][\A o \in Orders :
        /\ HoldsKey(intents, o) /\ ~HoldsKey(intents', o) =>
              /\ intents[o].status # "claimed"
              /\ intents'[o].status \in TerminalIntentStatuses
              /\ intents'[o].brokerId # NoId
        /\ intents'[o].status = "claimed" => intents[o].status \in {"absent", "claimed"}
      ]_intents
=============================================================================
