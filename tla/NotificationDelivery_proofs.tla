-------------------- MODULE NotificationDelivery_proofs --------------------
(***************************************************************************)
(* Proofs about notification delivery for any notifications, any number of *)
(* concurrent passes, any retry limit and any number of faults.            *)
(*                                                                         *)
(* The argument: a row counts no more retries than sends have raised, and  *)
(* as long as a pass has its claim on a row, the count that it read is the *)
(* one in the row.  So a pass whose own send raised and that reaches the   *)
(* limit has a raised send for each retry and one more.                    *)
(*                                                                         *)
(* The argument about duplicates: a row is claimed only when no pass has a *)
(* valid claim on it, so a pass that sends without one lost it to a stall, *)
(* and an acceptance that its row does not report was lost to a fault.     *)
(***************************************************************************)
EXTENDS NotificationDelivery, FiniteSetTheorems, TLAPS

\* A pass has a notification in hand from its claim until it has settled.
InHand ==
    \A w \in Workers :
        IF worker[w].at \in {"idle", "next"}
          THEN worker[w].note = NoNote
          ELSE worker[w].note \in Notes

\* A pass that saw its message accepted or raised was there when it happened.
ResultsHappened ==
    \A w \in Workers :
        /\ worker[w].at = "accepted" => accepted[worker[w].note] > 0
        /\ worker[w].at = "raised" => raised[worker[w].note] > worker[w].retries

\* A retry is counted for a send that raised.
RetriesRaised ==
    /\ \A n \in Notes : outbox[n].retries <= raised[n]
    /\ \A w \in Workers : worker[w].at = "sending" =>
          worker[w].retries <= raised[worker[w].note]

\* The count that a pass read stays true for as long as it has the claim.
CountRead ==
    \A w \in Workers :
        worker[w].at \in {"sending", "accepted", "raised"}
            /\ outbox[worker[w].note].claim = w
        => worker[w].retries = outbox[worker[w].note].retries

IInv ==
    /\ TypeOK
    /\ InHand
    /\ ResultsHappened
    /\ RetriesRaised
    /\ CountRead
    /\ SentWasAccepted
    /\ GivesUpAfterFailures

-----------------------------------------------------------------------------

LEMMA MovesDef ==
    ASSUME TypeOK, NEW w \in Workers, NEW from, NEW pass \in Pass, Moves(w, from, pass)
    PROVE  /\ worker[w].at = from
           /\ worker' \in [Workers -> Pass]
           /\ worker'[w] = pass
           /\ \A v \in Workers \ {w} : worker'[v] = worker[v]
  BY DEF Moves, TypeOK

LEMMA WritesDef ==
    ASSUME TypeOK, NEW n \in Notes, NEW row \in Row, Writes(n, row)
    PROVE  /\ outbox' \in [Notes -> Row]
           /\ outbox'[n] = row
           /\ \A m \in Notes \ {n} : outbox'[m] = outbox[m]
  BY DEF Writes, TypeOK

LEMMA BetweenDef ==
    ASSUME NEW todo \in SUBSET Notes
    PROVE  Between(todo) \in Pass /\ Between(todo).at = "next" /\ Between(todo).note = NoNote
  BY DEF Between, Pass

LEMMA NewPassDef == NewPass \in Pass /\ NewPass.at = "idle" /\ NewPass.note = NoNote
  BY DEF NewPass, Pass

LEMMA InitInv == Init => IInv
<1> SUFFICES ASSUME Init PROVE IInv
  OBVIOUS
<1>1. TypeOK
  BY DEF Init, TypeOK, Row, Statuses, NewRow, Pass, NewPass
<1>2. \A w \in Workers : worker[w].at = "idle" /\ worker[w].note = NoNote
  BY DEF Init, NewPass
<1> QED
  BY <1>1, <1>2
  DEF Init, NewRow, IInv, InHand, ResultsHappened, RetriesRaised, CountRead,
      SentWasAccepted, GivesUpAfterFailures

-----------------------------------------------------------------------------
(* Steps that change only the table or only a pass.                        *)

\* A row that keeps its claim, has no outcome, and keeps its count if claimed.
LEMMA RowTouched ==
    ASSUME IInv, NEW n \in Notes,
           outbox' \in [Notes -> Row],
           \A m \in Notes \ {n} : outbox'[m] = outbox[m],
           outbox'[n].claim = outbox[n].claim,
           outbox'[n].claim = NoClaim <=> outbox'[n].status # "PROCESSING",
           outbox'[n].status \notin Settled,
           \/ outbox'[n].retries = outbox[n].retries
           \/ outbox'[n].retries = 0 /\ outbox'[n].claim = NoClaim,
           faults' \in [Notes \cup {NoNote} -> Nat],
           UNCHANGED <<worker, provider>>
    PROVE  IInv'
<1>1. TypeOK' /\ SentWasAccepted' /\ GivesUpAfterFailures'
  BY DEF IInv, TypeOK, SentWasAccepted, GivesUpAfterFailures, provider, Settled
<1>2. \A m \in Notes :
          /\ outbox'[m].claim = outbox[m].claim
          /\ outbox'[m].claim # NoClaim => outbox'[m].retries = outbox[m].retries
          /\ outbox'[m].retries <= raised[m]
  BY DEF IInv, RetriesRaised, TypeOK
<1>3. InHand' /\ ResultsHappened' /\ RetriesRaised'
  BY <1>2 DEF IInv, InHand, ResultsHappened, RetriesRaised, provider
<1>4. CountRead'
  BY <1>2, NoClaimAssumption DEF IInv, InHand, CountRead
<1> QED
  BY <1>1, <1>3, <1>4 DEF IInv

\* A pass that has nothing in hand afterwards.
LEMMA LetsGo ==
    ASSUME IInv, NEW w \in Workers, NEW pass \in Pass,
           pass.at \in {"idle", "next"}, pass.note = NoNote,
           worker' = [worker EXCEPT ![w] = pass],
           faults' \in [Notes \cup {NoNote} -> Nat],
           UNCHANGED <<outbox, provider>>
    PROVE  IInv'
<1>1. /\ worker' \in [Workers -> Pass]
      /\ worker'[w] = pass
      /\ \A v \in Workers \ {w} : worker'[v] = worker[v]
  BY DEF IInv, TypeOK
<1>2. TypeOK' /\ SentWasAccepted' /\ GivesUpAfterFailures'
  BY <1>1 DEF IInv, TypeOK, SentWasAccepted, GivesUpAfterFailures, provider
<1> QED
  BY <1>1, <1>2 DEF IInv, InHand, ResultsHappened, RetriesRaised, CountRead, provider

-----------------------------------------------------------------------------
(* Claiming, sending, settling.                                            *)

LEMMA ClaimInv ==
    ASSUME IInv, NEW w \in Workers, NEW n \in Notes, Claim(w, n)
    PROVE  IInv'
<1> DEFINE row == AfterClaim(outbox[n], w)
           pass == [at |-> "claimed", todo |-> worker[w].todo \ {n},
                    note |-> n, retries |-> 0]
<1>1. row \in Row /\ row.retries = outbox[n].retries /\ row.claim = w /\ row.status = "PROCESSING"
  BY DEF IInv, TypeOK, Row, Statuses, AfterClaim
<1>2. pass \in Pass
  BY DEF IInv, TypeOK, Pass
<1> HIDE DEF row
<1>3. /\ outbox' \in [Notes -> Row]
      /\ outbox'[n] = row
      /\ \A m \in Notes \ {n} : outbox'[m] = outbox[m]
  BY <1>1, WritesDef DEF Claim, IInv, row
<1>4. /\ worker[w].at = "next"
      /\ worker' \in [Workers -> Pass]
      /\ worker'[w] = pass
      /\ \A v \in Workers \ {w} : worker'[v] = worker[v]
  BY <1>2, MovesDef DEF Claim, IInv
<1>5. TypeOK' /\ SentWasAccepted' /\ GivesUpAfterFailures'
  BY <1>1, <1>3, <1>4, NoClaimAssumption
  DEF Claim, IInv, TypeOK, SentWasAccepted, GivesUpAfterFailures, provider
<1>6. InHand' /\ ResultsHappened'
  BY <1>4 DEF Claim, IInv, InHand, ResultsHappened, provider
<1>7. RetriesRaised'
  BY <1>1, <1>3, <1>4 DEF Claim, IInv, RetriesRaised, provider
<1>8. CountRead'
  <2> SUFFICES ASSUME NEW v \in Workers,
                      worker'[v].at \in {"sending", "accepted", "raised"},
                      outbox'[worker'[v].note].claim = v
               PROVE  worker'[v].retries = outbox'[worker'[v].note].retries
    BY DEF CountRead
  <2>1. v # w /\ worker'[v] = worker[v] /\ worker[v].note \in Notes
    BY <1>4 DEF IInv, InHand
  <2>2. worker[v].note # n
    BY <1>1, <1>3, <2>1
  <2> QED
    BY <1>3, <2>1, <2>2 DEF IInv, CountRead
<1> QED
  BY <1>5, <1>6, <1>7, <1>8 DEF IInv

LEMMA LoadInv ==
    ASSUME IInv, NEW w \in Workers, Load(w)
    PROVE  IInv'
<1> DEFINE n == worker[w].note
           pass == [at |-> "sending", todo |-> worker[w].todo, note |-> n,
                    retries |-> outbox[n].retries]
<1>1. n \in Notes /\ worker[w].at = "claimed"
  BY DEF Load, Moves, IInv, InHand
<1>2. /\ pass \in Pass
      /\ pass.at = "sending" /\ pass.note = n /\ pass.retries = outbox[n].retries
  BY <1>1 DEF IInv, TypeOK, Pass, Row
<1> HIDE DEF pass
<1>3. /\ worker' \in [Workers -> Pass]
      /\ worker'[w] = pass
      /\ \A v \in Workers \ {w} : worker'[v] = worker[v]
  BY <1>2, MovesDef DEF Load, IInv, pass
<1>4. TypeOK' /\ SentWasAccepted' /\ GivesUpAfterFailures'
  BY <1>3 DEF Load, IInv, TypeOK, SentWasAccepted, GivesUpAfterFailures, provider
<1> QED
  BY <1>1, <1>2, <1>3, <1>4
  DEF Load, IInv, InHand, ResultsHappened, RetriesRaised, CountRead, provider

\* What a send does: the pass learns the result, and the provider's counts grow.
LEMMA SendInv ==
    ASSUME IInv, NEW w \in Workers,
           SendAccepted(w) \/ SendRaises(w) \/ SendUnconfirmed(w)
    PROVE  IInv'
<1> DEFINE n == worker[w].note
<1>1. n \in Notes /\ worker[w].at = "sending"
  BY DEF SendAccepted, SendRaises, SendUnconfirmed, Raised, Moves, IInv, InHand
<1>2. PICK at \in {"accepted", "raised"} :
          /\ Moves(w, "sending", Learns(w, at))
          /\ at = "accepted" => accepted' = [accepted EXCEPT ![n] = @ + 1] /\ raised' = raised
          /\ at = "raised" =>
                /\ raised' = [raised EXCEPT ![n] = @ + 1]
                /\ accepted' = accepted \/ accepted' = [accepted EXCEPT ![n] = @ + 1]
          /\ outbox' = outbox
          /\ faults' \in [Notes \cup {NoNote} -> Nat]
  <2>1. CASE SendAccepted(w)
    BY <2>1 DEF SendAccepted, Accepted, IInv, TypeOK
  <2>2. CASE SendRaises(w)
    BY <2>2 DEF SendRaises, Raised, IInv, TypeOK
  <2>3. CASE SendUnconfirmed(w)
    BY <1>1, <2>3 DEF SendUnconfirmed, Raised, Accepted, Fault, IInv, TypeOK
  <2> QED
    BY <2>1, <2>2, <2>3
<1> DEFINE pass == Learns(w, at)
<1>3. pass \in Pass /\ pass.at = at /\ pass.note = n /\ pass.retries = worker[w].retries
  BY <1>2 DEF IInv, TypeOK, Pass, Learns
<1> HIDE DEF pass
<1>4. /\ worker' \in [Workers -> Pass]
      /\ worker'[w] = pass
      /\ \A v \in Workers \ {w} : worker'[v] = worker[v]
  BY <1>2, <1>3, MovesDef DEF IInv, pass
<1>5. /\ accepted' \in [Notes -> Nat]
      /\ raised' \in [Notes -> Nat]
      /\ \A m \in Notes : accepted'[m] >= accepted[m] /\ raised'[m] >= raised[m]
      /\ at = "accepted" => accepted'[n] > 0
      /\ at = "raised" => raised'[n] = raised[n] + 1
  BY <1>1, <1>2 DEF IInv, TypeOK
<1>6. \A m \in Notes : /\ accepted[m] \in Nat /\ accepted'[m] \in Nat
                        /\ raised[m] \in Nat /\ raised'[m] \in Nat
                        /\ outbox[m].retries \in Nat
  BY <1>5 DEF IInv, TypeOK, Row
<1>7. \A v \in Workers : worker[v].retries \in Nat
  BY DEF IInv, TypeOK, Pass
<1>8. TypeOK'
  BY <1>2, <1>4, <1>5 DEF IInv, TypeOK
<1>9. InHand'
  BY <1>1, <1>2, <1>3, <1>4 DEF IInv, InHand
<1>10. ResultsHappened'
  <2> SUFFICES ASSUME NEW v \in Workers
               PROVE  /\ worker'[v].at = "accepted" => accepted'[worker'[v].note] > 0
                      /\ worker'[v].at = "raised" =>
                            raised'[worker'[v].note] > worker'[v].retries
    BY DEF ResultsHappened
  <2>1. CASE v = w
    BY <1>1, <1>3, <1>4, <1>5, <1>6, <1>7, <2>1 DEF IInv, RetriesRaised
  <2>2. CASE v # w
    <3>1. worker'[v] = worker[v]
      BY <1>4, <2>2
    <3>2. worker[v].at \in {"accepted", "raised"} => worker[v].note \in Notes
      BY DEF IInv, InHand
    <3> QED
      BY <1>5, <1>6, <1>7, <3>1, <3>2 DEF IInv, ResultsHappened
  <2> QED
    BY <2>1, <2>2
<1>11. RetriesRaised'
  <2>1. \A m \in Notes : outbox'[m].retries <= raised'[m]
    BY <1>2, <1>5, <1>6 DEF IInv, RetriesRaised
  <2>2. ASSUME NEW v \in Workers, worker'[v].at = "sending"
        PROVE  worker'[v].retries <= raised'[worker'[v].note]
    <3>1. v # w /\ worker'[v] = worker[v] /\ worker[v].note \in Notes
      BY <1>2, <1>3, <1>4, <2>2 DEF IInv, InHand
    <3> QED
      BY <1>5, <1>6, <1>7, <2>2, <3>1 DEF IInv, RetriesRaised
  <2> QED
    BY <2>1, <2>2 DEF RetriesRaised
<1>12. CountRead'
  BY <1>1, <1>2, <1>3, <1>4 DEF IInv, CountRead
<1>13. SentWasAccepted' /\ GivesUpAfterFailures'
  BY <1>2, <1>5, <1>6, MaxRetriesAssumption DEF IInv, SentWasAccepted, GivesUpAfterFailures
<1> QED
  BY <1>8, <1>9, <1>10, <1>11, <1>12, <1>13 DEF IInv

\* A row that a pass settles: the pass has nothing in hand afterwards, and the
\* row is out of everyone's hands.
LEMMA SettleInv ==
    ASSUME IInv, NEW w \in Workers, NEW from \in {"accepted", "raised"}, NEW row \in Row,
           Settle(w, from, row),
           row.claim = NoClaim,
           row.status # "PROCESSING",
           row.retries <= raised[worker[w].note],
           row.status = "SENT" => accepted[worker[w].note] > 0,
           row.status = "FAILED" => raised[worker[w].note] >= MaxRetries
    PROVE  IInv'
<1> DEFINE n == worker[w].note
           pass == Between(worker[w].todo)
<1>1. n \in Notes
  BY DEF Settle, Moves, IInv, InHand
<1>2. pass \in Pass /\ pass.at = "next" /\ pass.note = NoNote
  BY BetweenDef DEF IInv, TypeOK, Pass
<1> HIDE DEF pass
<1>3. worker' = [worker EXCEPT ![w] = pass] /\ UNCHANGED <<provider, faults>>
  BY DEF Settle, Moves, pass
<1>4. CASE UNCHANGED outbox
  BY <1>2, <1>3, <1>4, LetsGo DEF IInv, TypeOK
<1>5. CASE Writes(n, row)
  <2>1. /\ outbox' \in [Notes -> Row]
        /\ outbox'[n] = row
        /\ \A m \in Notes \ {n} : outbox'[m] = outbox[m]
    BY <1>1, <1>5, WritesDef DEF IInv
  <2>2. /\ worker' \in [Workers -> Pass]
        /\ worker'[w] = pass
        /\ \A v \in Workers \ {w} : worker'[v] = worker[v]
    BY <1>2, <1>3 DEF IInv, TypeOK
  <2>3. TypeOK' /\ SentWasAccepted' /\ GivesUpAfterFailures'
    BY <1>3, <2>1, <2>2 DEF IInv, TypeOK, SentWasAccepted, GivesUpAfterFailures, provider
  <2>4. InHand' /\ ResultsHappened'
    BY <1>2, <1>3, <2>2 DEF IInv, InHand, ResultsHappened, provider
  <2>5. RetriesRaised'
    BY <1>2, <1>3, <2>1, <2>2 DEF IInv, RetriesRaised, provider
  <2>6. CountRead'
    <3> SUFFICES ASSUME NEW v \in Workers,
                        worker'[v].at \in {"sending", "accepted", "raised"},
                        outbox'[worker'[v].note].claim = v
                 PROVE  worker'[v].retries = outbox'[worker'[v].note].retries
      BY DEF CountRead
    <3>1. worker'[v] = worker[v] /\ worker[v].note \in Notes
      BY <1>2, <2>2 DEF IInv, InHand
    <3>2. worker[v].note # n
      BY <2>1, <3>1, NoClaimAssumption
    <3> QED
      BY <2>1, <3>1, <3>2 DEF IInv, CountRead
  <2> QED
    BY <2>3, <2>4, <2>5, <2>6 DEF IInv
<1> QED
  BY <1>4, <1>5 DEF Settle

LEMMA MarkSentInv ==
    ASSUME IInv, NEW w \in Workers, MarkSent(w)
    PROVE  IInv'
<1> DEFINE n == worker[w].note
           row == AfterOutcome(outbox[n], "SENT")
<1>1. n \in Notes /\ worker[w].at = "accepted"
  BY DEF MarkSent, Settle, Moves, IInv, InHand
<1>2. /\ row \in Row /\ row.status = "SENT" /\ row.claim = NoClaim
      /\ row.retries = outbox[n].retries
  BY <1>1 DEF AfterOutcome, IInv, TypeOK, Row, Statuses
<1>3. row.retries <= raised[n] /\ accepted[n] > 0
  BY <1>1, <1>2 DEF IInv, RetriesRaised, ResultsHappened
<1> HIDE DEF row
<1> QED
  BY <1>2, <1>3, SettleInv DEF MarkSent, row

LEMMA MarkFailedInv ==
    ASSUME IInv, NEW w \in Workers, MarkFailed(w)
    PROVE  IInv'
<1> DEFINE n == worker[w].note
           row == AfterOutcome(outbox[n], "FAILED")
<1>1. n \in Notes /\ worker[w].at = "raised"
  BY DEF MarkFailed, Settle, Moves, IInv, InHand
<1>2. /\ row \in Row /\ row.status = "FAILED" /\ row.claim = NoClaim
      /\ row.retries = outbox[n].retries
  BY <1>1 DEF AfterOutcome, IInv, TypeOK, Row, Statuses
<1>3. row.retries <= raised[n]
  BY <1>1, <1>2 DEF IInv, RetriesRaised
<1>4. raised[n] \in Nat /\ worker[w].retries \in Nat
  BY <1>1 DEF IInv, TypeOK, Pass
<1>5. raised[n] >= MaxRetries
  BY <1>1, <1>4, MaxRetriesAssumption DEF MarkFailed, GivesUp, IInv, ResultsHappened
<1> HIDE DEF row
<1> QED
  BY <1>2, <1>3, <1>5, SettleInv DEF MarkFailed, row

\* Only the pass that has the claim writes the row, and it read the row's count.
LEMMA ScheduleRetryInv ==
    ASSUME IInv, NEW w \in Workers, ScheduleRetry(w)
    PROVE  IInv'
<1> DEFINE n == worker[w].note
           row == AfterRetry(outbox[n])
<1>1. n \in Notes /\ worker[w].at = "raised"
  BY DEF ScheduleRetry, Settle, Moves, IInv, InHand
<1>2. CASE Owns(w, n)
  <2>1. worker[w].retries = outbox[n].retries /\ raised[n] > worker[w].retries
    BY <1>1, <1>2 DEF Owns, IInv, CountRead, ResultsHappened
  <2>2. raised[n] \in Nat /\ worker[w].retries \in Nat /\ outbox[n].retries \in Nat
    BY <1>1 DEF IInv, TypeOK, Pass, Row
  <2>3. /\ row \in Row /\ row.status = "RETRY" /\ row.claim = NoClaim
        /\ row.retries = outbox[n].retries + 1
    BY <1>1, <2>2 DEF AfterRetry, IInv, TypeOK, Row, Statuses
  <2>4. row.retries <= raised[n]
    BY <2>1, <2>2, <2>3
  <2> HIDE DEF row
  <2> QED
    BY <2>3, <2>4, SettleInv DEF ScheduleRetry, row
<1>3. CASE ~Owns(w, n)
  <2> DEFINE pass == Between(worker[w].todo)
  <2>1. pass \in Pass /\ pass.at = "next" /\ pass.note = NoNote
    BY BetweenDef DEF IInv, TypeOK, Pass
  <2> HIDE DEF pass
  <2>2. worker' = [worker EXCEPT ![w] = pass] /\ UNCHANGED <<outbox, provider, faults>>
    BY <1>3 DEF ScheduleRetry, Settle, Moves, pass
  <2> QED
    BY <2>1, <2>2, LetsGo DEF IInv, TypeOK
<1> QED
  BY <1>2, <1>3

-----------------------------------------------------------------------------
(* Every step.                                                             *)

LEMMA NoteStepInv ==
    ASSUME IInv, NEW n \in Notes, Enqueue(n) \/ TimePasses(n) \/ LiveLeaseExpires(n)
    PROVE  IInv'
<1>1. TypeOK
  BY DEF IInv
<1>2. faults' \in [Notes \cup {NoNote} -> Nat]
  BY <1>1
  DEF Enqueue, TimePasses, DeadLeaseExpires, RetryComesDue, LiveLeaseExpires, Fault, TypeOK
<1>3. CASE Enqueue(n)
  <2>1. /\ NewRow("PENDING") \in Row /\ NewRow("PENDING").status = "PENDING"
        /\ NewRow("PENDING").retries = 0 /\ NewRow("PENDING").claim = NoClaim
    BY DEF NewRow, Row, Statuses
  <2>2. /\ outbox' \in [Notes -> Row]
        /\ outbox'[n] = NewRow("PENDING")
        /\ \A m \in Notes \ {n} : outbox'[m] = outbox[m]
    BY <1>1, <1>3, <2>1, WritesDef DEF Enqueue
  <2>3. outbox[n].claim = NoClaim
    BY <1>1, <1>3 DEF Enqueue, TypeOK
  <2> QED
    BY <1>2, <1>3, <2>1, <2>2, <2>3, RowTouched DEF Enqueue, Settled
<1>4. CASE EndLease(n)
  <2>1. /\ outbox' \in [Notes -> Row]
        /\ \A m \in Notes \ {n} : outbox'[m] = outbox[m]
        /\ outbox'[n].claim = outbox[n].claim /\ outbox'[n].retries = outbox[n].retries
        /\ outbox'[n].status = "PROCESSING" /\ outbox[n].status = "PROCESSING"
    BY <1>1, <1>4 DEF EndLease, TypeOK, Row
  <2> QED
    BY <1>1, <1>2, <1>4, <2>1, RowTouched DEF EndLease, Settled, TypeOK
<1>5. CASE RetryComesDue(n)
  <2>1. /\ outbox' \in [Notes -> Row]
        /\ \A m \in Notes \ {n} : outbox'[m] = outbox[m]
        /\ outbox'[n].claim = outbox[n].claim /\ outbox'[n].retries = outbox[n].retries
        /\ outbox'[n].status = "RETRY" /\ outbox[n].status = "RETRY"
    BY <1>1, <1>5 DEF RetryComesDue, TypeOK, Row
  <2> QED
    BY <1>1, <1>2, <1>5, <2>1, RowTouched DEF RetryComesDue, Settled, TypeOK
<1> QED
  BY <1>3, <1>4, <1>5 DEF TimePasses, DeadLeaseExpires, LiveLeaseExpires

LEMMA PassStepInv ==
    ASSUME IInv, NEW w \in Workers, PassStep(w) \/ SendUnconfirmed(w) \/ Crash(w)
    PROVE  IInv'
<1>1. TypeOK
  BY DEF IInv
<1>2. CASE StartPass(w)
  BY <1>1, <1>2, BetweenDef, LetsGo DEF StartPass, Moves, TypeOK
<1>3. CASE \E n \in Notes : Claim(w, n)
  BY <1>3, ClaimInv
<1>4. CASE \E n \in Notes : Skip(w, n)
  <2>1. PICK n \in Notes : Skip(w, n)
    BY <1>4
  <2>2. worker[w].todo \ {n} \in SUBSET Notes
    BY <1>1 DEF TypeOK, Pass
  <2> QED
    BY <1>1, <2>1, <2>2, BetweenDef, LetsGo DEF Skip, Moves, TypeOK
<1>5. CASE Load(w)
  BY <1>5, LoadInv
<1>6. CASE SendAccepted(w) \/ SendRaises(w) \/ SendUnconfirmed(w)
  BY <1>6, SendInv
<1>7. CASE MarkSent(w) \/ MarkFailed(w) \/ ScheduleRetry(w)
  BY <1>7, MarkSentInv, MarkFailedInv, ScheduleRetryInv
<1>8. CASE EndPass(w)
  BY <1>1, <1>8, NewPassDef, LetsGo DEF EndPass, Moves, TypeOK
<1>9. CASE Crash(w)
  <2>1. faults' \in [Notes \cup {NoNote} -> Nat]
    BY <1>1, <1>9 DEF Crash, Fault, TypeOK, Pass
  <2> QED
    BY <1>9, <2>1, NewPassDef, LetsGo DEF Crash
<1> QED
  BY <1>2, <1>3, <1>4, <1>5, <1>6, <1>7, <1>8, <1>9 DEF PassStep

\* The inductive invariant holds of every state.
THEOREM Invariance == Spec => []IInv
<1>1. IInv /\ [Next]_vars => IInv'
  <2> SUFFICES ASSUME IInv, [Next]_vars PROVE IInv'
    OBVIOUS
  <2>1. CASE Next
    BY <2>1, NoteStepInv, PassStepInv DEF Next
  <2>2. CASE UNCHANGED vars
    BY <2>2
    DEF vars, IInv, TypeOK, InHand, ResultsHappened, RetriesRaised, CountRead,
        SentWasAccepted, GivesUpAfterFailures
  <2> QED
    BY <2>1, <2>2
<1> QED
  BY <1>1, InitInv, PTL DEF Spec

\* The notifications table and the passes are typed, and a row carries a claim
\* token exactly while it is PROCESSING.
THEOREM TypeCorrect == Spec => []TypeOK
<1>1. IInv => TypeOK
  BY DEF IInv
<1> QED
  BY <1>1, Invariance, PTL

\* What mark_sent wrote is true: the provider accepted the message.
THEOREM SentIsTrue == Spec => []SentWasAccepted
<1>1. IInv => SentWasAccepted
  BY DEF IInv
<1> QED
  BY <1>1, Invariance, PTL

\* What mark_failed wrote is true: MaxRetries sends raised, even with sends of
\* the same row by passes that had lost their claim in between.
THEOREM FailedIsTrue == Spec => []GivesUpAfterFailures
<1>1. IInv => GivesUpAfterFailures
  BY DEF IInv
<1> QED
  BY <1>1, Invariance, PTL

-----------------------------------------------------------------------------

\* mark_sent, mark_failed, schedule_retry, claim_notification and the passing of
\* time leave a SENT or FAILED row alone, whichever pass comes late.
THEOREM RecordedOutcomesStand == Spec => OutcomesStand
<1> DEFINE Stands == \A n \in Notes : outbox[n].status \in Settled => outbox'[n] = outbox[n]
<1>1. TypeOK /\ [Next]_vars => [Stands]_vars
  <2> SUFFICES ASSUME TypeOK, [Next]_vars PROVE Stands
    OBVIOUS
  <2>1. ASSUME NEW n \in Notes,
               outbox' = outbox \/ (outbox[n].status \notin Settled
                                    /\ \A m \in Notes \ {n} : outbox'[m] = outbox[m])
        PROVE  Stands
    BY <2>1
  <2>2. CASE \E n \in Notes : Enqueue(n) \/ TimePasses(n) \/ LiveLeaseExpires(n)
    BY <2>1, <2>2
    DEF Enqueue, TimePasses, DeadLeaseExpires, LiveLeaseExpires, EndLease, RetryComesDue,
        Writes, Settled, TypeOK
  <2>3. CASE \E w \in Workers, n \in Notes : Claim(w, n)
    BY <2>1, <2>3 DEF Claim, Deliverable, Writes, Settled, TypeOK
  <2>4. CASE \E w \in Workers : MarkSent(w) \/ MarkFailed(w) \/ ScheduleRetry(w)
    BY <2>4 DEF MarkSent, MarkFailed, ScheduleRetry, Settle, Owns, Writes, Settled, TypeOK
  <2>5. CASE UNCHANGED outbox
    BY <2>5
  <2>6. CASE UNCHANGED vars
    BY <2>6 DEF vars
  <2> QED
    BY <2>2, <2>3, <2>4, <2>5, <2>6
    DEF Next, PassStep, StartPass, Skip, Load, SendAccepted, SendRaises, SendUnconfirmed,
        Raised, EndPass, Crash
<1> QED
  BY <1>1, TypeCorrect, PTL DEF OutcomesStand, Spec

-----------------------------------------------------------------------------
(* Duplicates.                                                             *)

\* The passes that are about to send n without a valid claim on it.
Lost(n) ==
    {w \in Workers : /\ worker[w].note = n
                     /\ worker[w].at \in {"claimed", "sending"}
                     /\ ~Owns(w, n)}

\* The row of n reports an acceptance, or its pass is about to.
Reported(n) ==
    \/ outbox[n].status = "SENT"
    \/ \E w \in Workers : worker[w].note = n /\ worker[w].at = "accepted" /\ Owns(w, n)

\* Acceptances that nothing reports, and those about to happen, have a fault each.
Accounts(n) == accepted[n] + Cardinality(Lost(n)) <= faults[n] + (IF Reported(n) THEN 1 ELSE 0)

LEMMA LostCounts ==
    ASSUME NEW n \in Notes
    PROVE  IsFiniteSet(Lost(n)) /\ Cardinality(Lost(n)) \in Nat
  BY WorkersAssumption, FS_Subset, FS_CardinalityType DEF Lost

\* A valid claim is one pass's.
LEMMA OneOwner ==
    ASSUME NEW n \in Notes, NEW v \in Workers, NEW w \in Workers, Owns(v, n), Owns(w, n)
    PROVE  v = w
  BY DEF Owns

\* A step on which no pass turns to sending without a claim, and at which what
\* was reported stays so or a fault happens.
LEMMA Quietly ==
    ASSUME TypeOK, TypeOK', NEW n \in Notes, Accounts(n),
           accepted'[n] = accepted[n], faults'[n] >= faults[n],
           Lost(n)' \subseteq Lost(n),
           Reported(n) => Reported(n)' \/ faults'[n] > faults[n]
    PROVE  Accounts(n)'
<1>1. /\ accepted[n] \in Nat /\ faults[n] \in Nat /\ faults'[n] \in Nat
  BY DEF TypeOK
<1>2. /\ Cardinality(Lost(n)) \in Nat /\ Cardinality(Lost(n)') \in Nat
      /\ Cardinality(Lost(n)') <= Cardinality(Lost(n))
  BY LostCounts, FS_Subset, FS_CardinalityType
<1>3. accepted'[n] + Cardinality(Lost(n)') <= faults'[n] + (IF Reported(n)' THEN 1 ELSE 0)
  BY <1>1, <1>2 DEF Accounts
<1> QED
  BY <1>3 DEF Accounts

\* A fault pays for one more acceptance, or one more pass without its claim.
LEMMA Faulty ==
    ASSUME TypeOK, TypeOK', NEW n \in Notes, Accounts(n),
           faults'[n] = faults[n] + 1,
           Reported(n) => Reported(n)',
           \/ accepted'[n] = accepted[n] + 1 /\ Lost(n)' \subseteq Lost(n)
           \/ accepted'[n] = accepted[n] /\ \E w \in Workers : Lost(n)' \subseteq Lost(n) \cup {w}
    PROVE  Accounts(n)'
<1>1. accepted[n] \in Nat /\ faults[n] \in Nat
  BY DEF TypeOK
<1>2. Cardinality(Lost(n)) \in Nat /\ IsFiniteSet(Lost(n))
  BY LostCounts
<1>3. ASSUME NEW S, IsFiniteSet(S), Lost(n)' \subseteq S
      PROVE  Cardinality(Lost(n)') \in Nat /\ Cardinality(Lost(n)') <= Cardinality(S)
  BY <1>3, FS_Subset, FS_CardinalityType
<1>4. ASSUME NEW w
      PROVE  /\ IsFiniteSet(Lost(n) \cup {w})
             /\ Cardinality(Lost(n) \cup {w}) \in {Cardinality(Lost(n)), Cardinality(Lost(n)) + 1}
  BY <1>2, FS_AddElement
<1>5. /\ Cardinality(Lost(n)') \in Nat
      /\ accepted'[n] + Cardinality(Lost(n)') <= accepted[n] + Cardinality(Lost(n)) + 1
  <2>1. CASE accepted'[n] = accepted[n] + 1 /\ Lost(n)' \subseteq Lost(n)
    BY <1>1, <1>2, <1>3, <2>1
  <2>2. CASE accepted'[n] = accepted[n] /\ \E w \in Workers : Lost(n)' \subseteq Lost(n) \cup {w}
    <3>1. PICK w \in Workers : Lost(n)' \subseteq Lost(n) \cup {w}
      BY <2>2
    <3>2. /\ Cardinality(Lost(n)') \in Nat
          /\ Cardinality(Lost(n)') <= Cardinality(Lost(n) \cup {w})
      BY <1>3, <1>4, <3>1
    <3>3. Cardinality(Lost(n) \cup {w}) \in {Cardinality(Lost(n)), Cardinality(Lost(n)) + 1}
      BY <1>4
    <3> QED
      BY <1>1, <1>2, <2>2, <3>2, <3>3
  <2> QED
    BY <2>1, <2>2
<1>6. accepted'[n] \in Nat
  BY <1>1
<1>7. accepted'[n] + Cardinality(Lost(n)') <= faults'[n] + (IF Reported(n)' THEN 1 ELSE 0)
  BY <1>1, <1>2, <1>5, <1>6 DEF Accounts
<1> QED
  BY <1>7 DEF Accounts

\* Passes and rows that do not have to do with n keep what n accounts for.
LEMMA Elsewhere ==
    ASSUME TypeOK, TypeOK', NEW n \in Notes, Accounts(n),
           accepted'[n] = accepted[n], faults'[n] >= faults[n],
           outbox'[n] = outbox[n],
           \A w \in Workers :
              \/ worker'[w] = worker[w]
              \/ worker[w].note # n /\ worker'[w].note # n
    PROVE  Accounts(n)'
<1>1. \A w \in Workers : Owns(w, n)' = Owns(w, n)
  BY DEF Owns
<1>2. Lost(n)' \subseteq Lost(n)
  BY <1>1 DEF Lost
<1>3. Reported(n) => Reported(n)'
  BY <1>1 DEF Reported
<1> QED
  BY <1>2, <1>3, Quietly

\* A pass that puts its notification down after its result, or dies with it.
LEMMA PutsDown ==
    ASSUME TypeOK, TypeOK', NEW n \in Notes, Accounts(n), NEW w \in Workers,
           accepted'[n] = accepted[n], faults'[n] >= faults[n],
           outbox'[n] = outbox[n],
           worker[w].note = n, worker'[w].note # n,
           \A v \in Workers \ {w} : worker'[v] = worker[v],
           worker[w].at = "accepted" /\ Owns(w, n) => faults'[n] > faults[n]
    PROVE  Accounts(n)'
<1>1. \A v \in Workers : Owns(v, n)' = Owns(v, n)
  BY DEF Owns
<1>2. Lost(n)' \subseteq Lost(n)
  BY <1>1 DEF Lost
<1>3. Reported(n) => Reported(n)' \/ faults'[n] > faults[n]
  BY <1>1 DEF Reported
<1> QED
  BY <1>2, <1>3, Quietly

LEMMA ClaimAccounts ==
    ASSUME IInv, IInv', NEW w \in Workers, NEW n \in Notes, Claim(w, n), NEW m \in Notes, Accounts(m)
    PROVE  Accounts(m)'
<1>1. /\ worker[w].note = NoNote
      /\ worker'[w].note = n /\ worker'[w].at = "claimed"
      /\ \A v \in Workers \ {w} : worker'[v] = worker[v]
      /\ outbox'[n] = AfterClaim(outbox[n], w)
      /\ \A k \in Notes \ {n} : outbox'[k] = outbox[k]
      /\ UNCHANGED <<provider, faults>>
  BY DEF Claim, Moves, Writes, IInv, TypeOK, InHand
<1>T. TypeOK /\ TypeOK' /\ faults[m] \in Nat
  BY DEF IInv, TypeOK
<1>2. CASE m # n
  BY <1>1, <1>2, <1>T, NoNoteAssumption, Elsewhere DEF provider
<1>3. CASE m = n
  <2>1. \A v \in Workers : ~Owns(v, n)
    BY DEF Claim, Deliverable, Owns
  <2>2. Owns(w, n)'
    BY <1>1 DEF AfterClaim, Owns
  <2>3. Lost(n)' \subseteq Lost(n)
    BY <1>1, <2>1, <2>2 DEF Lost
  <2>4. ~Reported(n)
    BY <2>1 DEF Claim, Deliverable, Reported
  <2> QED
    BY <1>1, <1>3, <1>T, <2>3, <2>4, Quietly DEF provider
<1> QED
  BY <1>2, <1>3

LEMMA SendAccounts ==
    ASSUME IInv, IInv', NEW w \in Workers, NEW m \in Notes, Accounts(m),
           SendAccepted(w) \/ SendRaises(w) \/ SendUnconfirmed(w)
    PROVE  Accounts(m)'
<1> DEFINE n == worker[w].note
<1>T. TypeOK /\ TypeOK' /\ accepted[m] \in Nat /\ faults[m] \in Nat
  BY DEF IInv, TypeOK
<1>1. /\ n \in Notes /\ worker[w].at = "sending"
      /\ worker'[w].note = n /\ worker'[w].at \in {"accepted", "raised"}
      /\ SendAccepted(w) => worker'[w].at = "accepted"
      /\ \A v \in Workers \ {w} : worker'[v] = worker[v]
      /\ UNCHANGED outbox
  BY DEF SendAccepted, SendRaises, SendUnconfirmed, Raised, Moves, Learns, IInv, TypeOK, InHand, Pass
<1>2. \A v \in Workers, k \in Notes : Owns(v, k)' = Owns(v, k)
  BY <1>1 DEF Owns
<1>3. CASE m # n
  <2>1. accepted'[m] = accepted[m] /\ faults'[m] = faults[m]
    BY <1>1, <1>3, <1>T DEF SendAccepted, SendRaises, SendUnconfirmed, Accepted, Fault, TypeOK
  <2> QED
    BY <1>1, <1>3, <1>T, <2>1, Elsewhere
<1>4. CASE m = n
  <2>1. Lost(m)' = Lost(m) \ {w}
    BY <1>1, <1>2, <1>4 DEF Lost
  <2>2. Reported(m) => Reported(m)'
    BY <1>1, <1>2, <1>4 DEF Reported
  <2>3. CASE SendRaises(w)
    BY <1>T, <2>1, <2>2, <2>3, Quietly DEF SendRaises
  <2>4. CASE SendUnconfirmed(w)
    <3>1. accepted'[m] = accepted[m] + 1 /\ faults'[m] = faults[m] + 1
      BY <1>1, <1>4, <1>T, <2>4 DEF SendUnconfirmed, Accepted, Fault, TypeOK
    <3> QED
      BY <1>T, <2>1, <2>2, <3>1, Faulty
  <2>5. CASE SendAccepted(w)
    <3>1. accepted'[m] = accepted[m] + 1 /\ faults'[m] = faults[m]
      BY <1>1, <1>4, <1>T, <2>5 DEF SendAccepted, Accepted, TypeOK
    <3>2. /\ IsFiniteSet(Lost(m)) /\ Cardinality(Lost(m)) \in Nat
          /\ Cardinality(Lost(m) \ {w}) \in Nat
          /\ Cardinality(Lost(m) \ {w}) =
                IF w \in Lost(m) THEN Cardinality(Lost(m)) - 1 ELSE Cardinality(Lost(m))
      BY LostCounts, FS_RemoveElement, FS_CardinalityType
    <3>3. CASE Owns(w, m)
      <4>1. ~Reported(m)
        BY <1>1, <1>4, <3>3 DEF Reported, Owns
      <4>2. Reported(m)'
        BY <1>1, <1>2, <1>4, <2>5, <3>3 DEF Reported
      <4>3. accepted'[m] + Cardinality(Lost(m)') <= faults'[m] + 1
        BY <1>T, <2>1, <3>1, <3>2, <4>1 DEF Accounts
      <4> QED
        BY <4>2, <4>3 DEF Accounts
    <3>4. CASE ~Owns(w, m)
      <4>1. w \in Lost(m)
        BY <1>1, <1>4, <3>4 DEF Lost
      <4>2. accepted'[m] + Cardinality(Lost(m)') <= faults'[m] + (IF Reported(m)' THEN 1 ELSE 0)
        BY <1>T, <2>1, <2>2, <3>1, <3>2, <4>1 DEF Accounts
      <4> QED
        BY <4>2 DEF Accounts
    <3> QED
      BY <3>3, <3>4
  <2> QED
    BY <2>3, <2>4, <2>5
<1> QED
  BY <1>3, <1>4

LEMMA SettleAccounts ==
    ASSUME IInv, IInv', NEW w \in Workers, NEW m \in Notes, Accounts(m),
           MarkSent(w) \/ MarkFailed(w) \/ ScheduleRetry(w)
    PROVE  Accounts(m)'
<1> DEFINE n == worker[w].note
<1>T. TypeOK /\ TypeOK' /\ faults[m] \in Nat
  BY DEF IInv, TypeOK
<1>1. /\ n \in Notes /\ worker[w].at \in {"accepted", "raised"}
      /\ worker[w].at = "accepted" => MarkSent(w)
      /\ worker'[w].note = NoNote /\ worker'[w].at = "next"
      /\ \A v \in Workers \ {w} : worker'[v] = worker[v]
      /\ UNCHANGED <<provider, faults>>
  BY DEF MarkSent, MarkFailed, ScheduleRetry, Settle, Moves, Between, IInv, TypeOK, InHand
<1>2. /\ \A k \in Notes \ {n} : outbox'[k] = outbox[k]
      /\ ~Owns(w, n) => UNCHANGED outbox
      /\ MarkSent(w) /\ Owns(w, n) => outbox'[n].status = "SENT"
  BY <1>1 DEF MarkSent, MarkFailed, ScheduleRetry, Settle, Writes, AfterOutcome, IInv, TypeOK
<1>3. CASE m # n
  BY <1>1, <1>2, <1>3, <1>T, NoNoteAssumption, Elsewhere DEF provider
<1>4. CASE m = n /\ ~Owns(w, m)
  BY <1>1, <1>2, <1>4, <1>T, NoNoteAssumption, PutsDown DEF provider
<1>5. CASE m = n /\ Owns(w, m)
  <2>1. \A v \in Workers \ {w} : ~Owns(v, m)
    BY <1>5, OneOwner
  <2>2. Lost(m)' \subseteq Lost(m)
    BY <1>1, <2>1 DEF Lost
  <2>3. Reported(m) => worker[w].at = "accepted"
    BY <1>5, <2>1 DEF Reported, Owns
  <2>4. Reported(m) => Reported(m)'
    BY <1>1, <1>2, <1>5, <2>3 DEF Reported
  <2> QED
    BY <1>1, <1>T, <2>2, <2>4, Quietly DEF provider
<1> QED
  BY <1>3, <1>4, <1>5

LEMMA LeaseAccounts ==
    ASSUME IInv, IInv', NEW n \in Notes, DeadLeaseExpires(n) \/ LiveLeaseExpires(n),
           NEW m \in Notes, Accounts(m)
    PROVE  Accounts(m)'
<1>T. TypeOK /\ TypeOK' /\ faults[m] \in Nat
  BY DEF IInv, TypeOK
<1>1. /\ \A k \in Notes \ {n} : outbox'[k] = outbox[k]
      /\ outbox[n].status = "PROCESSING" /\ outbox'[n].status = "PROCESSING"
      /\ ~outbox'[n].leased
      /\ UNCHANGED <<worker, provider>>
  BY <1>T DEF DeadLeaseExpires, LiveLeaseExpires, EndLease, TypeOK, Row
<1>2. /\ faults'[m] >= faults[m]
      /\ LiveLeaseExpires(n) /\ m = n => faults'[m] = faults[m] + 1
  BY <1>T DEF DeadLeaseExpires, LiveLeaseExpires, Fault, TypeOK
<1>3. CASE m # n
  BY <1>1, <1>2, <1>3, <1>T, Elsewhere DEF provider
<1>4. CASE m = n /\ ~AtWork(m)
  <2>1. ASSUME NEW v \in Workers, worker[v].note = m PROVE ~Owns(v, m)
    BY <1>4, <2>1 DEF AtWork, Owns
  <2>2. Lost(m)' \subseteq Lost(m)
    BY <1>1, <2>1 DEF Lost
  <2>3. ~Reported(m)
    BY <1>1, <1>4, <2>1 DEF Reported
  <2> QED
    BY <1>1, <1>2, <1>T, <2>2, <2>3, Quietly DEF provider
<1>5. CASE m = n /\ AtWork(m)
  <2>1. faults'[m] = faults[m] + 1
    BY <1>2, <1>5 DEF DeadLeaseExpires
  <2>2. PICK w \in Workers : worker[w].note = m /\ outbox[m].claim = w
    BY <1>5 DEF AtWork
  <2>3. \A v \in Workers \ {w} : ~Owns(v, m)
    BY <2>2 DEF Owns
  <2>4. CASE worker[w].at = "accepted"
    <3>1. Lost(m)' \subseteq Lost(m)
      BY <1>1, <2>3, <2>4 DEF Lost
    <3> QED
      BY <1>1, <1>T, <2>1, <3>1, Quietly DEF provider
  <2>5. CASE worker[w].at # "accepted"
    <3>1. Lost(m)' \subseteq Lost(m) \cup {w}
      BY <1>1, <2>3 DEF Lost
    <3>2. ~Reported(m)
      BY <1>1, <1>5, <2>3, <2>5 DEF Reported
    <3> QED
      BY <1>1, <1>T, <2>1, <3>1, <3>2, Faulty DEF provider
  <2> QED
    BY <2>4, <2>5
<1> QED
  BY <1>3, <1>4, <1>5

\* The steps in which no pass with a claim lets go of it.
LEMMA OtherAccounts ==
    ASSUME IInv, IInv', NEW m \in Notes, Accounts(m),
           \/ \E n \in Notes : Enqueue(n) \/ RetryComesDue(n)
           \/ \E w \in Workers : StartPass(w) \/ Load(w) \/ EndPass(w) \/ \E n \in Notes : Skip(w, n)
    PROVE  Accounts(m)'
<1>T. TypeOK /\ TypeOK' /\ faults[m] \in Nat
  BY DEF IInv, TypeOK
<1>1. ASSUME NEW n \in Notes, Enqueue(n) \/ RetryComesDue(n) PROVE Accounts(m)'
  <2>1. /\ outbox[n].status \in {"absent", "RETRY"} /\ outbox'[n].status \in {"PENDING", "RETRY"}
        /\ \A k \in Notes \ {n} : outbox'[k] = outbox[k]
        /\ UNCHANGED <<worker, provider, faults>>
    BY <1>1, <1>T DEF Enqueue, RetryComesDue, Writes, NewRow, TypeOK, Row
  <2>2. \A v \in Workers : Owns(v, m)' = Owns(v, m)
    BY <2>1 DEF Owns
  <2>3. Lost(m)' \subseteq Lost(m)
    BY <2>1, <2>2 DEF Lost
  <2>4. Reported(m) => Reported(m)'
    BY <2>1, <2>2 DEF Reported
  <2> QED
    BY <1>T, <2>1, <2>3, <2>4, Quietly DEF provider
<1>2. ASSUME NEW w \in Workers, StartPass(w) \/ EndPass(w) \/ \E n \in Notes : Skip(w, n)
      PROVE  Accounts(m)'
  <2>1. /\ worker[w].note = NoNote /\ worker'[w].note = NoNote
        /\ \A v \in Workers \ {w} : worker'[v] = worker[v]
        /\ UNCHANGED <<outbox, provider, faults>>
    BY <1>2 DEF StartPass, EndPass, Skip, Moves, Between, NewPass, IInv, TypeOK, InHand
  <2> QED
    BY <1>T, <2>1, NoNoteAssumption, Elsewhere DEF provider
<1>3. ASSUME NEW w \in Workers, Load(w) PROVE Accounts(m)'
  <2>1. /\ worker[w].at = "claimed" /\ worker'[w].at = "sending"
        /\ worker'[w].note = worker[w].note
        /\ \A v \in Workers \ {w} : worker'[v] = worker[v]
        /\ UNCHANGED <<outbox, provider, faults>>
    BY <1>3, <1>T DEF Load, Moves, TypeOK
  <2>2. \A v \in Workers : Owns(v, m)' = Owns(v, m)
    BY <2>1 DEF Owns
  <2>3. Lost(m)' \subseteq Lost(m)
    BY <2>1, <2>2 DEF Lost
  <2>4. Reported(m) => Reported(m)'
    BY <2>1, <2>2 DEF Reported
  <2> QED
    BY <1>T, <2>1, <2>3, <2>4, Quietly DEF provider
<1> QED
  BY <1>1, <1>2, <1>3

LEMMA CrashAccounts ==
    ASSUME IInv, IInv', NEW w \in Workers, Crash(w), NEW m \in Notes, Accounts(m)
    PROVE  Accounts(m)'
<1>T. TypeOK /\ TypeOK' /\ faults[m] \in Nat /\ m # NoNote
  BY NoNoteAssumption DEF IInv, TypeOK
<1>1. /\ worker'[w].note = NoNote
      /\ \A v \in Workers \ {w} : worker'[v] = worker[v]
      /\ UNCHANGED <<outbox, provider>>
      /\ faults'[m] = IF worker[w].note = m THEN faults[m] + 1 ELSE faults[m]
  BY <1>T DEF Crash, NewPass, Fault, TypeOK
<1>2. CASE worker[w].note = m
  BY <1>1, <1>2, <1>T, PutsDown DEF provider
<1>3. CASE worker[w].note # m
  BY <1>1, <1>3, <1>T, Elsewhere DEF provider
<1> QED
  BY <1>2, <1>3

\* Two passes by themselves never deliver a notification twice, nor one that
\* is then given up: each such delivery has a death, a stall or a lost
\* confirmation of a pass that had this very notification in hand.
THEOREM DuplicatesAreFaults == Spec => []DuplicatesHaveFaults
<1> DEFINE AllAccounted == \A n \in Notes : Accounts(n)
<1>1. Init => AllAccounted
  <2> SUFFICES ASSUME Init, NEW n \in Notes PROVE Accounts(n)
    OBVIOUS
  <2>1. Lost(n) = {}
    BY DEF Init, NewPass, Lost
  <2>2. accepted[n] = 0 /\ faults[n] = 0
    BY DEF Init
  <2> QED
    BY <2>1, <2>2, FS_EmptySet DEF Accounts
<1>2. IInv /\ IInv' /\ AllAccounted /\ [Next]_vars => AllAccounted'
  <2> SUFFICES ASSUME IInv, IInv', AllAccounted, [Next]_vars, NEW m \in Notes
               PROVE  Accounts(m)'
    OBVIOUS
  <2>1. Accounts(m)
    OBVIOUS
  <2>2. ASSUME NEW n \in Notes, Enqueue(n) \/ TimePasses(n) \/ LiveLeaseExpires(n)
        PROVE  Accounts(m)'
    BY <2>1, <2>2, LeaseAccounts, OtherAccounts DEF TimePasses
  <2>3. ASSUME NEW w \in Workers, PassStep(w) \/ SendUnconfirmed(w) \/ Crash(w)
        PROVE  Accounts(m)'
    BY <2>1, <2>3, ClaimAccounts, SendAccounts, SettleAccounts, OtherAccounts, CrashAccounts
    DEF PassStep
  <2>4. CASE UNCHANGED vars
    BY <2>1, <2>4, Elsewhere DEF vars, IInv, TypeOK
  <2> QED
    BY <2>2, <2>3, <2>4 DEF Next
<1>3. IInv /\ AllAccounted => DuplicatesHaveFaults
  <2> SUFFICES ASSUME IInv, AllAccounted, NEW n \in Notes PROVE Surplus(n) <= faults[n]
    BY DEF DuplicatesHaveFaults
  <2>1. accepted[n] \in Nat /\ faults[n] \in Nat /\ Cardinality(Lost(n)) \in Nat
    BY LostCounts DEF IInv, TypeOK
  <2>2. outbox[n].status = "FAILED" => ~Reported(n)
    BY DEF Reported, Owns
  <2>3. accepted[n] + Cardinality(Lost(n)) <= faults[n] + (IF Reported(n) THEN 1 ELSE 0)
    BY DEF Accounts
  <2> QED
    BY <2>1, <2>2, <2>3 DEF Surplus
<1> QED
  BY <1>1, <1>2, <1>3, Invariance, PTL DEF Spec
=============================================================================
