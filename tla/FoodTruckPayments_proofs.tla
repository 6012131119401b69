---------------------- MODULE FoodTruckPayments_proofs ----------------------
(***************************************************************************)
(* Proofs about the payments of the food truck, for any orders, payments,  *)
(* verifications and processes, with requests that die anywhere and events *)
(* that are late, repeated and handled together.                           *)
(***************************************************************************)
EXTENDS FoodTruckPayments, TLAPS

-----------------------------------------------------------------------------
(* The inductive invariant.                                                *)

\* A row of orders says PENDING while its checkout runs, and no payments row
\* is there until the checkout has written it.
CheckoutsAreSound ==
    \A o \in Orders :
        /\ checkout[o] = "none" <=> order[o] = "none"
        /\ checkout[o] \in {"asking", "opened"} => order[o] = "PAYMENT_PENDING"
        /\ checkout[o] = "done" <=> payment[o] # Nothing

\* The provider reports only payments whose row is there.
PaymentsHaveRows ==
    \A a \in captured \cup declined : checkout[OrderOf[a]] = "done"

\* What a request holds in its variables: a verification a payment that was
\* captured, a handler of the webhook a true event and a row.
RequestsAreSound ==
    /\ \A v \in Verifiers : verified[v] # Nothing => verified[v] \in captured
    /\ \A p \in Processes : webhook[p] # Nothing =>
          webhook[p].event \in Reported /\ webhook[p].seen # Nothing

IInv ==
    /\ TypeOK
    /\ CheckoutsAreSound
    /\ PaymentsHaveRows
    /\ RequestsAreSound
    /\ CapturesAreReal
    /\ AnsweredCapturesCount

-----------------------------------------------------------------------------
(* Lemmas: what the operators do to the two rows.                          *)

\* A capture writes the two rows of its order and no other.
LEMMA RecordCaptureWrites ==
    ASSUME TypeOK, NEW a \in Attempts, RecordCapture(a)
    PROVE  /\ OrderOf[a] \in Orders
           /\ order' \in [Orders -> OrderStatuses]
           /\ payment' \in [Orders -> Payment \cup {Nothing}]
           /\ order'[OrderOf[a]] = "COMPLETED"
           /\ payment'[OrderOf[a]] = [status |-> "CAPTURED", attempt |-> a]
           /\ payment'[OrderOf[a]] \in Payment
           /\ \A o \in Orders \ {OrderOf[a]} : order'[o] = order[o] /\ payment'[o] = payment[o]
<1>1. OrderOf[a] \in Orders
  BY OrderOfAssumption
<1>2. [status |-> "CAPTURED", attempt |-> a] \in Payment
  BY DEF Payment
<1> QED
  BY <1>1, <1>2 DEF TypeOK, RecordCapture, OrderStatuses

\* A failure never touches a completed order.
LEMMA RecordFailureWrites ==
    ASSUME TypeOK, NEW a \in Attempts, RecordFailure(a)
    PROVE  /\ OrderOf[a] \in Orders
           /\ order' \in [Orders -> OrderStatuses]
           /\ payment' \in [Orders -> Payment \cup {Nothing}]
           /\ order'[OrderOf[a]] =
                 IF order[OrderOf[a]] = "COMPLETED" THEN "COMPLETED" ELSE "PAYMENT_FAILED"
           /\ payment'[OrderOf[a]] = [status |-> "FAILED", attempt |-> a]
           /\ payment'[OrderOf[a]] \in Payment
           /\ \A o \in Orders \ {OrderOf[a]} : order'[o] = order[o] /\ payment'[o] = payment[o]
<1>1. OrderOf[a] \in Orders
  BY OrderOfAssumption
<1>2. [status |-> "FAILED", attempt |-> a] \in Payment
  BY DEF Payment
<1>3. payment' = [payment EXCEPT ![OrderOf[a]] = [status |-> "FAILED", attempt |-> a]]
  BY DEF RecordFailure
<1>4. order' = IF order[OrderOf[a]] = "COMPLETED" THEN order
               ELSE [order EXCEPT ![OrderOf[a]] = "PAYMENT_FAILED"]
  BY DEF RecordFailure
<1> QED
  BY <1>1, <1>2, <1>3, <1>4 DEF TypeOK, OrderStatuses

\* An event that was reported is about a payment.
LEMMA ReportedAreEvents ==
    ASSUME TypeOK, NEW e \in Reported
    PROVE  /\ e \in Event
           /\ e.attempt \in Attempts
           /\ e.kind = "captured" => e.attempt \in captured
           /\ e.attempt \in captured \cup declined
  BY DEF TypeOK, Reported, Event

\* What the provider has reported it goes on reporting.
LEMMA ReportsStay ==
    ASSUME captured \subseteq captured', declined \subseteq declined'
    PROVE  Reported \subseteq Reported'
  BY DEF Reported

-----------------------------------------------------------------------------
(* Init, and each action in turn.                                          *)

LEMMA InitIsSound == Init => IInv
<1> SUFFICES ASSUME Init PROVE IInv
  OBVIOUS
<1>1. TypeOK
  BY DEF Init, TypeOK, OrderStatuses
<1>2. Reported = {} /\ captured \cup declined = {}
  BY DEF Init, Reported
<1> QED
  BY <1>1, <1>2 DEF Init, IInv, CheckoutsAreSound, PaymentsHaveRows, RequestsAreSound,
     CapturesAreReal, AnsweredCapturesCount

LEMMA CheckoutKeeps ==
    ASSUME IInv, NEW o \in Orders,
           OpenOrder(o) \/ ProviderOpens(o) \/ ProviderRaises(o) \/ RecordPayment(o) \/ CheckoutDies(o)
    PROVE  IInv'
<1> DEFINE Created == [status |-> "CREATED", attempt |-> Nothing]
<1>1. Created \in Payment /\ Created # Nothing
  BY NothingAssumption DEF Payment
<1>2. UNCHANGED <<verified, webhook, captured, declined, answered>> /\ Reported' = Reported
  BY DEF OpenOrder, ProviderOpens, ProviderRaises, RecordPayment, CheckoutDies, provider, Reported
<1>3. TypeOK'
  BY <1>1 DEF IInv, TypeOK, OrderStatuses, OpenOrder, ProviderOpens, ProviderRaises,
     RecordPayment, CheckoutDies, provider
<1>4. CheckoutsAreSound'
  BY <1>1 DEF IInv, TypeOK, OrderStatuses, CheckoutsAreSound, OpenOrder, ProviderOpens,
     ProviderRaises, RecordPayment, CheckoutDies
<1>5. checkout[o] # "done" /\ \A p \in Orders \ {o} : checkout'[p] = checkout[p]
  BY DEF IInv, TypeOK, OpenOrder, ProviderOpens, ProviderRaises, RecordPayment, CheckoutDies
<1>6. PaymentsHaveRows'
  BY <1>2, <1>5, OrderOfAssumption DEF IInv, TypeOK, PaymentsHaveRows
<1>7. RequestsAreSound'
  BY <1>2 DEF IInv, RequestsAreSound
<1>8. /\ payment[o] = Nothing
      /\ order[o] # "COMPLETED"
      /\ payment'[o] \in {Nothing, Created}
      /\ \A p \in Orders \ {o} : order'[p] = order[p] /\ payment'[p] = payment[p]
  BY <1>5 DEF IInv, TypeOK, CheckoutsAreSound, OpenOrder, ProviderOpens, ProviderRaises,
     RecordPayment, CheckoutDies
<1>9. CapturesAreReal'
  BY <1>2, <1>8 DEF IInv, CapturesAreReal
<1>10. AnsweredCapturesCount'
  BY <1>2, <1>8, OrderOfAssumption DEF IInv, TypeOK, AnsweredCapturesCount, Event
<1> QED
  BY <1>3, <1>4, <1>6, <1>7, <1>9, <1>10 DEF IInv

LEMMA ProviderKeeps ==
    ASSUME IInv, NEW a \in Attempts, Capture(a) \/ Decline(a)
    PROVE  IInv'
<1>1. /\ checkout[OrderOf[a]] = "done"
      /\ UNCHANGED <<order, payment, checkout, verified, webhook, answered>>
      /\ captured \subseteq captured' /\ declined \subseteq declined'
      /\ captured' \cup declined' = captured \cup declined \cup {a}
  BY DEF Capture, Decline, CanPay
<1>2. Reported \subseteq Reported'
  BY <1>1, ReportsStay
<1>3. TypeOK'
  BY <1>1 DEF IInv, TypeOK
<1>4. CheckoutsAreSound' /\ PaymentsHaveRows'
  BY <1>1 DEF IInv, CheckoutsAreSound, PaymentsHaveRows
<1>5. RequestsAreSound'
  BY <1>1, <1>2 DEF IInv, RequestsAreSound
<1>6. CapturesAreReal' /\ AnsweredCapturesCount'
  BY <1>1 DEF IInv, CapturesAreReal, AnsweredCapturesCount
<1> QED
  BY <1>3, <1>4, <1>5, <1>6 DEF IInv

\* Recording a capture that the provider reported.
LEMMA CaptureKeeps ==
    ASSUME IInv, NEW a \in captured, payment[OrderOf[a]] # Nothing, RecordCapture(a),
           UNCHANGED <<checkout, captured, declined>>
    PROVE  /\ CheckoutsAreSound' /\ PaymentsHaveRows' /\ CapturesAreReal'
           /\ \A o \in Orders : order[o] = "COMPLETED" => order'[o] = "COMPLETED"
           /\ Reported' = Reported
<1>1. a \in Attempts
  BY DEF IInv, TypeOK
<1> DEFINE o == OrderOf[a]
<1>2. /\ o \in Orders
      /\ order'[o] = "COMPLETED"
      /\ payment'[o] = [status |-> "CAPTURED", attempt |-> a]
      /\ payment'[o] \in Payment
      /\ \A p \in Orders \ {o} : order'[p] = order[p] /\ payment'[p] = payment[p]
  BY <1>1, RecordCaptureWrites DEF IInv
<1>3. payment'[o] # Nothing /\ payment'[o].attempt = a
  BY <1>2, NothingAssumption
<1>4. checkout[o] = "done" /\ checkout' = checkout
  BY <1>2 DEF IInv, CheckoutsAreSound
<1> HIDE DEF o
<1>5. CheckoutsAreSound'
  BY <1>2, <1>3, <1>4 DEF IInv, CheckoutsAreSound
<1>6. PaymentsHaveRows'
  BY DEF IInv, PaymentsHaveRows
<1>7. CapturesAreReal'
  BY <1>2, <1>3 DEF IInv, CapturesAreReal
<1> QED
  BY <1>2, <1>5, <1>6, <1>7 DEF Reported

LEMMA VerifierKeeps ==
    ASSUME IInv, NEW v \in Verifiers,
           (\E a \in Attempts : FetchPayment(v, a)) \/ VerifyPayment(v) \/ VerifierDies(v)
    PROVE  IInv'
<1>1. CASE \E a \in Attempts : FetchPayment(v, a)
  <2>1. PICK a \in Attempts : FetchPayment(v, a)
    BY <1>1
  <2>2. /\ UNCHANGED <<order, payment, checkout, webhook, captured, declined, answered>>
        /\ Reported' = Reported
        /\ verified' = [verified EXCEPT ![v] = a] /\ a \in captured
    BY <2>1 DEF FetchPayment, provider, Reported
  <2>3. TypeOK' /\ RequestsAreSound'
    BY <2>2 DEF IInv, TypeOK, RequestsAreSound
  <2> QED
    BY <2>2, <2>3 DEF IInv, CheckoutsAreSound, PaymentsHaveRows, CapturesAreReal, AnsweredCapturesCount
<1>2. CASE VerifyPayment(v)
  <2> DEFINE a == verified[v]
  <2>1. a \in captured /\ a \in Attempts /\ OrderOf[a] \in Orders
    BY <1>2, OrderOfAssumption DEF VerifyPayment, IInv, RequestsAreSound, TypeOK
  <2>2. /\ RecordCapture(a)
        /\ verified' = [verified EXCEPT ![v] = Nothing]
        /\ UNCHANGED <<checkout, webhook, captured, declined, answered>>
    BY <1>2 DEF VerifyPayment, provider
  <2>3. payment[OrderOf[a]] # Nothing
    BY <2>1 DEF IInv, PaymentsHaveRows, CheckoutsAreSound
  <2> HIDE DEF a
  <2>4. /\ CheckoutsAreSound' /\ PaymentsHaveRows' /\ CapturesAreReal'
        /\ \A o \in Orders : order[o] = "COMPLETED" => order'[o] = "COMPLETED"
        /\ Reported' = Reported
    BY <2>1, <2>2, <2>3, CaptureKeeps
  <2>5. TypeOK'
    BY <2>1, <2>2, RecordCaptureWrites DEF IInv, TypeOK
  <2>6. RequestsAreSound'
    BY <2>2, <2>4 DEF IInv, RequestsAreSound, TypeOK
  <2>7. AnsweredCapturesCount'
    BY <2>2, <2>4, OrderOfAssumption DEF IInv, TypeOK, AnsweredCapturesCount, Event
  <2> QED
    BY <2>4, <2>5, <2>6, <2>7 DEF IInv
<1>3. CASE VerifierDies(v)
  <2>1. /\ UNCHANGED <<order, payment, checkout, webhook, captured, declined, answered>>
        /\ Reported' = Reported
        /\ verified' = [verified EXCEPT ![v] = Nothing]
    BY <1>3 DEF VerifierDies, provider, Reported
  <2>2. TypeOK' /\ RequestsAreSound'
    BY <2>1 DEF IInv, TypeOK, RequestsAreSound
  <2> QED
    BY <2>1, <2>2 DEF IInv, CheckoutsAreSound, PaymentsHaveRows, CapturesAreReal, AnsweredCapturesCount
<1> QED
  BY <1>1, <1>2, <1>3

LEMMA ReceiveKeeps ==
    ASSUME IInv, NEW p \in Processes, NEW e \in Event, Receive(p, e)
    PROVE  IInv'
<1> DEFINE h == [event |-> e, seen |-> payment[OrderOf[e.attempt]]]
<1>1. /\ UNCHANGED <<order, payment, checkout, verified, captured, declined, answered>>
      /\ Reported' = Reported
      /\ webhook' = [webhook EXCEPT ![p] = h]
      /\ e \in Reported
  BY DEF Receive, provider, Reported
<1>2. e.attempt \in captured \cup declined /\ OrderOf[e.attempt] \in Orders
  BY <1>1, ReportedAreEvents, OrderOfAssumption DEF IInv
<1>3. h.event = e /\ h.seen # Nothing /\ h \in Handling
  BY <1>2 DEF IInv, TypeOK, PaymentsHaveRows, CheckoutsAreSound, Handling
<1> HIDE DEF h
<1>4. TypeOK' /\ RequestsAreSound'
  BY <1>1, <1>3 DEF IInv, TypeOK, RequestsAreSound
<1> QED
  BY <1>1, <1>4 DEF IInv, CheckoutsAreSound, PaymentsHaveRows, CapturesAreReal, AnsweredCapturesCount

\* What an answer does, whatever the rows became.
LEMMA AnswerWrites ==
    ASSUME IInv, NEW p \in Processes, webhook[p] # Nothing, Answer(p)
    PROVE  /\ webhook[p].event \in Event
           /\ webhook[p].event.attempt \in captured \cup declined
           /\ payment[OrderOf[webhook[p].event.attempt]] # Nothing
           /\ UNCHANGED <<checkout, verified, captured, declined>>
           /\ Reported' = Reported
           /\ answered' = answered \cup {webhook[p].event}
           /\ webhook' \in [Processes -> Handling \cup {Nothing}]
           /\ answered' \subseteq Event
           /\ RequestsAreSound'
<1>1. webhook[p].event \in Reported
  BY DEF IInv, RequestsAreSound
<1>2. webhook[p].event \in Event /\ webhook[p].event.attempt \in captured \cup declined
  BY <1>1, ReportedAreEvents DEF IInv
<1>3. payment[OrderOf[webhook[p].event.attempt]] # Nothing
  BY <1>2, OrderOfAssumption DEF IInv, TypeOK, PaymentsHaveRows, CheckoutsAreSound
<1>4. /\ UNCHANGED <<checkout, verified, captured, declined>>
      /\ answered' = answered \cup {webhook[p].event}
      /\ webhook' = [webhook EXCEPT ![p] = Nothing]
      /\ Reported' = Reported
  BY DEF Answer, provider, Reported
<1>5. RequestsAreSound'
  BY <1>4 DEF IInv, RequestsAreSound, TypeOK
<1> QED
  BY <1>2, <1>3, <1>4, <1>5 DEF IInv, TypeOK

LEMMA HandleCaptureKeeps ==
    ASSUME IInv, NEW p \in Processes, HandleCapture(p)
    PROVE  IInv'
<1> DEFINE e == webhook[p].event
<1>1. webhook[p] # Nothing /\ e.kind = "captured" /\ Answer(p)
  BY DEF HandleCapture
<1>2. RecordCapture(e.attempt)
  BY <1>1 DEF HandleCapture, IInv, RequestsAreSound
<1>3. e.attempt \in captured /\ e.attempt \in Attempts
  BY <1>1, ReportedAreEvents DEF IInv, RequestsAreSound
<1>4. /\ UNCHANGED <<checkout, verified, captured, declined>>
      /\ payment[OrderOf[e.attempt]] # Nothing
      /\ webhook' \in [Processes -> Handling \cup {Nothing}]
      /\ answered' = answered \cup {e} /\ answered' \subseteq Event
      /\ RequestsAreSound'
  BY <1>1, AnswerWrites
<1> HIDE DEF e
<1>5. /\ CheckoutsAreSound' /\ PaymentsHaveRows' /\ CapturesAreReal'
      /\ \A o \in Orders : order[o] = "COMPLETED" => order'[o] = "COMPLETED"
  BY <1>2, <1>3, <1>4, CaptureKeeps
<1>6. order'[OrderOf[e.attempt]] = "COMPLETED" /\ TypeOK'
  BY <1>2, <1>3, <1>4, RecordCaptureWrites DEF IInv, TypeOK
<1>7. AnsweredCapturesCount'
  BY <1>4, <1>5, <1>6, OrderOfAssumption DEF IInv, TypeOK, AnsweredCapturesCount, Event
<1> QED
  BY <1>4, <1>5, <1>6, <1>7 DEF IInv

\* The row that the handler read may be stale: what it writes is FAILED, and
\* the order is looked at when it is written.
LEMMA HandleFailureKeeps ==
    ASSUME IInv, NEW p \in Processes, HandleFailure(p)
    PROVE  IInv'
<1> DEFINE e == webhook[p].event
           o == OrderOf[e.attempt]
<1>1. webhook[p] # Nothing /\ e.kind = "failed" /\ Answer(p)
  BY DEF HandleFailure
<1>2. RecordFailure(e.attempt) \/ UNCHANGED <<order, payment>>
  BY DEF HandleFailure
<1>3. /\ e \in Event
      /\ UNCHANGED <<checkout, verified, captured, declined>>
      /\ payment[o] # Nothing
      /\ webhook' \in [Processes -> Handling \cup {Nothing}]
      /\ answered' = answered \cup {e} /\ answered' \subseteq Event
      /\ RequestsAreSound'
  BY <1>1, AnswerWrites
<1>4. e.attempt \in Attempts /\ o \in Orders
  BY <1>3, OrderOfAssumption DEF Event
<1>5. checkout[o] = "done" /\ order[o] # "none"
  BY <1>3, <1>4 DEF IInv, CheckoutsAreSound
<1>6. CASE RecordFailure(e.attempt)
  <2>1. /\ order' \in [Orders -> OrderStatuses]
        /\ payment' \in [Orders -> Payment \cup {Nothing}]
        /\ order'[o] = IF order[o] = "COMPLETED" THEN "COMPLETED" ELSE "PAYMENT_FAILED"
        /\ payment'[o] = [status |-> "FAILED", attempt |-> e.attempt]
        /\ payment'[o] \in Payment
        /\ \A q \in Orders \ {o} : order'[q] = order[q] /\ payment'[q] = payment[q]
    BY <1>4, <1>6, RecordFailureWrites DEF IInv
  <2>2. payment'[o] # Nothing /\ payment'[o].status # "CAPTURED"
    BY <2>1, NothingAssumption
  <2> HIDE DEF e, o
  <2>3. TypeOK'
    BY <1>3, <2>1 DEF IInv, TypeOK
  <2>4. CheckoutsAreSound'
    BY <1>3, <1>5, <2>1, <2>2 DEF IInv, CheckoutsAreSound
  <2>5. PaymentsHaveRows'
    BY <1>3 DEF IInv, PaymentsHaveRows
  <2>6. CapturesAreReal'
    BY <1>3, <2>1, <2>2 DEF IInv, CapturesAreReal
  <2>7. AnsweredCapturesCount'
    BY <1>1, <1>3, <2>1, OrderOfAssumption DEF IInv, TypeOK, AnsweredCapturesCount, Event
  <2> QED
    BY <1>3, <2>3, <2>4, <2>5, <2>6, <2>7 DEF IInv
<1>7. CASE UNCHANGED <<order, payment>>
  BY <1>1, <1>3, <1>7 DEF IInv, TypeOK, CheckoutsAreSound, PaymentsHaveRows, CapturesAreReal,
     AnsweredCapturesCount
<1> QED
  BY <1>2, <1>6, <1>7

LEMMA HandlerDiesKeeps ==
    ASSUME IInv, NEW p \in Processes, HandlerDies(p)
    PROVE  IInv'
<1>1. /\ UNCHANGED <<order, payment, checkout, verified, captured, declined, answered>>
      /\ Reported' = Reported
      /\ webhook' = [webhook EXCEPT ![p] = Nothing]
  BY DEF HandlerDies, provider, Reported
<1>2. TypeOK' /\ RequestsAreSound'
  BY <1>1 DEF IInv, TypeOK, RequestsAreSound
<1> QED
  BY <1>1, <1>2 DEF IInv, CheckoutsAreSound, PaymentsHaveRows, CapturesAreReal, AnsweredCapturesCount

LEMMA NextKeeps == IInv /\ [Next]_vars => IInv'
<1> SUFFICES ASSUME IInv, [Next]_vars PROVE IInv'
  OBVIOUS
<1>1. CASE Next
  BY <1>1, CheckoutKeeps, ProviderKeeps, VerifierKeeps, ReceiveKeeps, HandleCaptureKeeps,
     HandleFailureKeeps, HandlerDiesKeeps DEF Next
<1>2. CASE UNCHANGED vars
  BY <1>2 DEF vars, IInv, TypeOK, CheckoutsAreSound, PaymentsHaveRows, RequestsAreSound, Reported,
     CapturesAreReal, AnsweredCapturesCount
<1> QED
  BY <1>1, <1>2

-----------------------------------------------------------------------------
(* The theorems.                                                           *)

\* The invariant that ties what is recorded and what requests hold to what
\* the provider did.
THEOREM InvariantHolds == Spec => []IInv
  BY InitIsSound, NextKeeps, PTL DEF Spec

\* A payments row that says CAPTURED names a payment that was captured, and
\* its order is completed.
THEOREM CapturesHold == Spec => []CapturesAreReal
<1>1. IInv => CapturesAreReal
  BY DEF IInv
<1> QED
  BY <1>1, InvariantHolds, PTL

\* No capture is answered with success before its order is completed.
THEOREM AnsweredCapturesHold == Spec => []AnsweredCapturesCount
<1>1. IInv => AnsweredCapturesCount
  BY DEF IInv
<1> QED
  BY <1>1, InvariantHolds, PTL

-----------------------------------------------------------------------------
(* The shop: each step is one of PaidOrder, or leaves order and paid alone. *)

Paid == {OrderOf[a] : a \in captured}

\* Recording a capture completes the order, or finds it completed.
LEMMA CaptureCompletes ==
    ASSUME IInv, NEW a \in captured, payment[OrderOf[a]] # Nothing, RecordCapture(a),
           captured' = captured
    PROVE  [Shop!Next]_<<order, Paid>>
<1>1. a \in Attempts /\ OrderOf[a] \in Orders
  BY OrderOfAssumption DEF IInv, TypeOK
<1>2. Paid' = Paid /\ OrderOf[a] \in Paid
  BY DEF Paid
<1>3. order' = [order EXCEPT ![OrderOf[a]] = "COMPLETED"]
  BY DEF RecordCapture
<1>4. order[OrderOf[a]] \in {"PAYMENT_PENDING", "PAYMENT_FAILED", "COMPLETED"}
  BY <1>1 DEF IInv, TypeOK, OrderStatuses, CheckoutsAreSound
<1>5. CASE order[OrderOf[a]] = "COMPLETED"
  BY <1>1, <1>2, <1>3, <1>5 DEF IInv, TypeOK
<1>6. CASE order[OrderOf[a]] # "COMPLETED"
  <2>1. Shop!Complete(OrderOf[a])
    BY <1>2, <1>3, <1>4, <1>6 DEF Shop!Complete, Shop!Moves, Paid
  <2> QED
    BY <1>1, <2>1 DEF Shop!Next
<1> QED
  BY <1>5, <1>6

\* Recording a failure fails an order that is pending and changes no other.
LEMMA FailureFails ==
    ASSUME IInv, NEW a \in Attempts, payment[OrderOf[a]] # Nothing, RecordFailure(a),
           captured' = captured
    PROVE  [Shop!Next]_<<order, Paid>>
<1> DEFINE o == OrderOf[a]
<1>1. o \in Orders
  BY OrderOfAssumption
<1>2. Paid' = Paid
  BY DEF Paid
<1>3. order' = IF order[o] = "COMPLETED" THEN order ELSE [order EXCEPT ![o] = "PAYMENT_FAILED"]
  BY DEF RecordFailure
<1>4. order[o] \in {"PAYMENT_PENDING", "PAYMENT_FAILED", "COMPLETED"}
  BY <1>1 DEF IInv, TypeOK, OrderStatuses, CheckoutsAreSound
<1>5. CASE order[o] = "PAYMENT_PENDING"
  <2>1. Shop!Fail(o)
    BY <1>2, <1>3, <1>5 DEF Shop!Fail, Shop!Moves, Paid
  <2> QED
    BY <1>1, <2>1 DEF Shop!Next
<1>6. CASE order[o] # "PAYMENT_PENDING"
  BY <1>1, <1>2, <1>3, <1>4, <1>6 DEF IInv, TypeOK
<1> QED
  BY <1>5, <1>6

\* Steps of the checkout open and fail orders that nobody has paid.
LEMMA CheckoutRefines ==
    ASSUME IInv, NEW o \in Orders,
           OpenOrder(o) \/ ProviderOpens(o) \/ ProviderRaises(o) \/ RecordPayment(o) \/ CheckoutDies(o)
    PROVE  [Shop!Next]_<<order, Paid>>
<1>1. Paid' = Paid
  BY DEF Paid, OpenOrder, ProviderOpens, ProviderRaises, RecordPayment, CheckoutDies, provider
<1>2. CASE OpenOrder(o)
  <2>1. order[o] = "none" /\ order' = [order EXCEPT ![o] = "PAYMENT_PENDING"]
    BY <1>2 DEF OpenOrder, IInv, CheckoutsAreSound
  <2> QED
    BY <1>1, <2>1 DEF Shop!Next, Shop!Open, Shop!Moves, Paid
<1>3. CASE ProviderRaises(o)
  <2>1. order[o] = "PAYMENT_PENDING" /\ order' = [order EXCEPT ![o] = "PAYMENT_FAILED"]
    BY <1>3 DEF ProviderRaises, IInv, CheckoutsAreSound
  <2> QED
    BY <1>1, <2>1 DEF Shop!Next, Shop!Fail, Shop!Moves, Paid
<1>4. CASE ProviderOpens(o) \/ RecordPayment(o) \/ CheckoutDies(o)
  BY <1>1, <1>4 DEF ProviderOpens, RecordPayment, CheckoutDies
<1> QED
  BY <1>2, <1>3, <1>4

\* A capture pays its order, which has been opened.
LEMMA ProviderRefines ==
    ASSUME IInv, NEW a \in Attempts, Capture(a) \/ Decline(a)
    PROVE  [Shop!Next]_<<order, Paid>>
<1>1. CASE Capture(a)
  <2>1. /\ OrderOf[a] \in Orders
        /\ checkout[OrderOf[a]] = "done"
        /\ order' = order
        /\ captured' = captured \cup {a}
    BY <1>1, OrderOfAssumption DEF Capture, CanPay
  <2>2. order[OrderOf[a]] # "none"
    BY <2>1 DEF IInv, CheckoutsAreSound
  <2>3. Paid' = Paid \cup {OrderOf[a]}
    BY <2>1 DEF Paid
  <2>4. Shop!Pay(OrderOf[a])
    BY <2>1, <2>2, <2>3 DEF Shop!Pay, Paid
  <2> QED
    BY <2>1, <2>4 DEF Shop!Next
<1>2. CASE Decline(a)
  BY <1>2 DEF Decline, Paid
<1> QED
  BY <1>1, <1>2

LEMMA NextRefines == IInv /\ [Next]_vars => [Shop!Next]_<<order, Paid>>
<1> SUFFICES ASSUME IInv, [Next]_vars PROVE [Shop!Next]_<<order, Paid>>
  OBVIOUS
<1>1. ASSUME NEW v \in Verifiers, VerifyPayment(v) PROVE [Shop!Next]_<<order, Paid>>
  <2>1. verified[v] \in captured /\ RecordCapture(verified[v]) /\ captured' = captured
    BY <1>1 DEF VerifyPayment, provider, IInv, RequestsAreSound
  <2>2. payment[OrderOf[verified[v]]] # Nothing
    BY <2>1, OrderOfAssumption DEF IInv, TypeOK, PaymentsHaveRows, CheckoutsAreSound
  <2> QED
    BY <2>1, <2>2, CaptureCompletes
<1>2. ASSUME NEW p \in Processes, HandleCapture(p) PROVE [Shop!Next]_<<order, Paid>>
  <2>1. webhook[p] # Nothing /\ webhook[p].event.kind = "captured" /\ Answer(p)
    BY <1>2 DEF HandleCapture
  <2>2. RecordCapture(webhook[p].event.attempt)
    BY <1>2, <2>1 DEF HandleCapture, IInv, RequestsAreSound
  <2>3. webhook[p].event.attempt \in captured
    BY <2>1, ReportedAreEvents DEF IInv, RequestsAreSound
  <2> QED
    BY <2>1, <2>2, <2>3, AnswerWrites, CaptureCompletes
<1>3. ASSUME NEW p \in Processes, HandleFailure(p) PROVE [Shop!Next]_<<order, Paid>>
  <2>1. webhook[p] # Nothing /\ Answer(p)
    BY <1>3 DEF HandleFailure
  <2>2. webhook[p].event.attempt \in Attempts /\ payment[OrderOf[webhook[p].event.attempt]] # Nothing
        /\ captured' = captured
    BY <2>1, AnswerWrites DEF Event
  <2>3. RecordFailure(webhook[p].event.attempt) \/ UNCHANGED <<order, payment>>
    BY <1>3 DEF HandleFailure
  <2>4. CASE UNCHANGED <<order, payment>>
    BY <2>2, <2>4 DEF Paid
  <2> QED
    BY <2>2, <2>3, <2>4, FailureFails
<1>4. ASSUME UNCHANGED <<order, captured>> PROVE [Shop!Next]_<<order, Paid>>
  BY <1>4 DEF Paid
<1>5. ASSUME NEW v \in Verifiers, (\E a \in Attempts : FetchPayment(v, a)) \/ VerifierDies(v)
      PROVE  UNCHANGED <<order, captured>>
  BY <1>5 DEF FetchPayment, VerifierDies, provider
<1>6. ASSUME NEW p \in Processes, (\E e \in Event : Receive(p, e)) \/ HandlerDies(p)
      PROVE  UNCHANGED <<order, captured>>
  BY <1>6 DEF Receive, HandlerDies, provider
<1>7. ASSUME UNCHANGED vars PROVE UNCHANGED <<order, captured>>
  BY <1>7 DEF vars
<1> QED
  BY <1>1, <1>2, <1>3, <1>4, <1>5, <1>6, <1>7, CheckoutRefines, ProviderRefines DEF Next

\* Checkout, verification and webhook implement the abstract shop: an order is
\* completed only when the provider has taken its money, and for ever.
THEOREM RefinesShop == Spec => ImplementsPaidOrder
<1>1. Init => Shop!Init
  BY DEF Init, Shop!Init
<1>2. IInv /\ [Next]_vars => [Shop!Next]_<<order, {OrderOf[a] : a \in captured}>>
  BY NextRefines DEF Paid
<1> QED
  BY <1>1, <1>2, InvariantHolds, PTL DEF Spec, ImplementsPaidOrder, Shop!Spec
=============================================================================
