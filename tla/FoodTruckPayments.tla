------------------------- MODULE FoodTruckPayments -------------------------
(***************************************************************************)
(* Orders of the food truck that are paid through Razorpay (services/      *)
(* foodtruck-api/app/main.py): the checkout request that writes the order  *)
(* row, opens an order at the provider and writes the payments row; the    *)
(* request of the customer that asks the API to verify a payment; and the  *)
(* webhook through which the provider reports captures and failures, more  *)
(* than once and in any order.                                             *)
(*                                                                         *)
(* Every block of the code that holds a connection is a transaction of     *)
(* PostgreSQL under READ COMMITTED.  The two UPDATEs of a handler are one  *)
(* step: whoever holds the lock on the payments row commits both before    *)
(* another handler gets it.  The SELECT in front of them takes no lock and *)
(* is a step of its own.                                                   *)
(***************************************************************************)
EXTENDS Naturals

CONSTANTS
    Orders,     \* checkout requests, and the order row that each one writes
    Attempts,   \* payments at the provider
    OrderOf,    \* the order that each one pays
    Verifiers,  \* requests of customers to verify a payment
    Processes,  \* API processes; the handler of the webhook never awaits
                \* the database, so that each one handles one event at a time
    Nothing     \* no row, or no request

ASSUME OrderOfAssumption == OrderOf \in [Attempts -> Orders]

VARIABLES
    order,     \* the status column of each order
    payment,   \* the payments row of each order, or Nothing
    checkout,  \* how far each checkout request is
    verified,  \* the captured payment that each verifier is about to record
    webhook,   \* the event that each process is handling
    captured,  \* payments that the provider has captured
    declined,  \* payments that the provider has reported failed
    answered   \* events that the API has answered with success

vars == <<order, payment, checkout, verified, webhook, captured, declined, answered>>

provider == <<captured, declined>>

-----------------------------------------------------------------------------

OrderStatuses == {"none", "PAYMENT_PENDING", "PAYMENT_FAILED", "COMPLETED"}

Payment == [status : {"CREATED", "CAPTURED", "FAILED"}, attempt : Attempts \cup {Nothing}]

Event == [attempt : Attempts, kind : {"captured", "failed"}]

\* seen: the payments row that the handler's SELECT returned.
Handling == [event : Event, seen : Payment \cup {Nothing}]

ASSUME NothingAssumption == Nothing \notin Attempts \cup Payment \cup Handling

TypeOK ==
    /\ order \in [Orders -> OrderStatuses]
    /\ payment \in [Orders -> Payment \cup {Nothing}]
    /\ checkout \in [Orders -> {"none", "asking", "opened", "done", "gone"}]
    /\ verified \in [Verifiers -> Attempts \cup {Nothing}]
    /\ webhook \in [Processes -> Handling \cup {Nothing}]
    /\ captured \subseteq Attempts
    /\ declined \subseteq Attempts
    /\ answered \subseteq Event

Init ==
    /\ order = [o \in Orders |-> "none"]
    /\ payment = [o \in Orders |-> Nothing]
    /\ checkout = [o \in Orders |-> "none"]
    /\ verified = [v \in Verifiers |-> Nothing]
    /\ webhook = [p \in Processes |-> Nothing]
    /\ captured = {}
    /\ declined = {}
    /\ answered = {}

-----------------------------------------------------------------------------
(* The checkout request.  Its prices come from the menu, in whole paise,   *)
(* and stay with the order.                                                *)

OpenOrder(o) ==
    /\ checkout[o] = "none"
    /\ order' = [order EXCEPT ![o] = "PAYMENT_PENDING"]
    /\ checkout' = [checkout EXCEPT ![o] = "asking"]
    /\ UNCHANGED <<payment, verified, webhook, provider, answered>>

ProviderOpens(o) ==
    /\ checkout[o] = "asking"
    /\ checkout' = [checkout EXCEPT ![o] = "opened"]
    /\ UNCHANGED <<order, payment, verified, webhook, provider, answered>>

\* Refused or timed out; the provider may have opened an order that nobody
\* has the number of.
ProviderRaises(o) ==
    /\ checkout[o] = "asking"
    /\ order' = [order EXCEPT ![o] = "PAYMENT_FAILED"]
    /\ checkout' = [checkout EXCEPT ![o] = "gone"]
    /\ UNCHANGED <<payment, verified, webhook, provider, answered>>

RecordPayment(o) ==
    /\ checkout[o] = "opened"
    /\ payment' = [payment EXCEPT ![o] = [status |-> "CREATED", attempt |-> Nothing]]
    /\ checkout' = [checkout EXCEPT ![o] = "done"]
    /\ UNCHANGED <<order, verified, webhook, provider, answered>>

\* The process dies, or the database raises.
CheckoutDies(o) ==
    /\ checkout[o] \in {"asking", "opened"}
    /\ checkout' = [checkout EXCEPT ![o] = "gone"]
    /\ UNCHANGED <<order, payment, verified, webhook, provider, answered>>

-----------------------------------------------------------------------------
(* The provider (external).  It captures one payment of an order at most,  *)
(* and may capture late what it has reported failed.                       *)

\* Mutant of CanPay: the customer is told of the provider's order before its
\* payments row is written.
CanPayEarly(o) == checkout[o] \in {"opened", "done"}

\* The answer to the checkout is what tells the customer the provider's order.
CanPay(o) == checkout[o] = "done"

Capture(a) ==
    /\ CanPay(OrderOf[a])
    /\ \A b \in captured : OrderOf[b] # OrderOf[a]
    /\ captured' = captured \cup {a}
    /\ UNCHANGED <<order, payment, checkout, verified, webhook, declined, answered>>

Decline(a) ==
    /\ CanPay(OrderOf[a])
    /\ a \notin captured \cup declined
    /\ declined' = declined \cup {a}
    /\ UNCHANGED <<order, payment, checkout, verified, webhook, captured, answered>>

Reported ==
    [attempt : captured, kind : {"captured"}] \cup [attempt : declined, kind : {"failed"}]

-----------------------------------------------------------------------------
(* Recording a capture, by either way.                                     *)

\* Mutant of RecordCapture: COALESCE with its arguments swapped.
RecordCaptureOfFirst(a) ==
    /\ payment' = [payment EXCEPT ![OrderOf[a]] =
           [status |-> "CAPTURED", attempt |-> IF @.attempt = Nothing THEN a ELSE @.attempt]]
    /\ order' = [order EXCEPT ![OrderOf[a]] = "COMPLETED"]

RecordCapture(a) ==
    /\ payment' = [payment EXCEPT ![OrderOf[a]] = [status |-> "CAPTURED", attempt |-> a]]
    /\ order' = [order EXCEPT ![OrderOf[a]] = "COMPLETED"]

\* The row is there, the signature is the provider's, and the provider says
\* that the payment is captured; what it says of any other changes nothing.
FetchPayment(v, a) ==
    /\ verified[v] = Nothing
    /\ payment[OrderOf[a]] # Nothing
    /\ a \in captured
    /\ verified' = [verified EXCEPT ![v] = a]
    /\ UNCHANGED <<order, payment, checkout, webhook, provider, answered>>

VerifyPayment(v) ==
    /\ verified[v] # Nothing
    /\ RecordCapture(verified[v])
    /\ verified' = [verified EXCEPT ![v] = Nothing]
    /\ UNCHANGED <<checkout, webhook, provider, answered>>

VerifierDies(v) ==
    /\ verified[v] # Nothing
    /\ verified' = [verified EXCEPT ![v] = Nothing]
    /\ UNCHANGED <<order, payment, checkout, webhook, provider, answered>>

-----------------------------------------------------------------------------
(* The webhook.                                                            *)

Receive(p, e) ==
    /\ webhook[p] = Nothing
    /\ e \in Reported
    /\ webhook' = [webhook EXCEPT ![p] = [event |-> e, seen |-> payment[OrderOf[e.attempt]]]]
    /\ UNCHANGED <<order, payment, checkout, verified, provider, answered>>

\* An event of an order without a payments row is answered with success too.
Answer(p) ==
    /\ webhook' = [webhook EXCEPT ![p] = Nothing]
    /\ answered' = answered \cup {webhook[p].event}
    /\ UNCHANGED <<checkout, verified, provider>>

\* Mutant of HandleCapture: what has failed stays so.
HandleCaptureOfCreated(p) ==
    /\ webhook[p] # Nothing
    /\ webhook[p].event.kind = "captured"
    /\ IF webhook[p].seen = Nothing \/ webhook[p].seen.status # "CREATED"
         THEN UNCHANGED <<order, payment>>
         ELSE RecordCapture(webhook[p].event.attempt)
    /\ Answer(p)

HandleCapture(p) ==
    /\ webhook[p] # Nothing
    /\ webhook[p].event.kind = "captured"
    /\ IF webhook[p].seen = Nothing
         THEN UNCHANGED <<order, payment>>
         ELSE RecordCapture(webhook[p].event.attempt)
    /\ Answer(p)

\* Mutant of RecordFailure: the order is not looked at.
RecordFailureOfOrder(a) ==
    /\ payment' = [payment EXCEPT ![OrderOf[a]] = [status |-> "FAILED", attempt |-> a]]
    /\ order' = [order EXCEPT ![OrderOf[a]] = "PAYMENT_FAILED"]

\* What the SELECT returned decides about the payments row, the row itself
\* about the order.
RecordFailure(a) ==
    LET o == OrderOf[a]
    IN  /\ payment' = [payment EXCEPT ![o] = [status |-> "FAILED", attempt |-> a]]
        /\ order' = IF order[o] = "COMPLETED" THEN order
                    ELSE [order EXCEPT ![o] = "PAYMENT_FAILED"]

MayFail(row) == row # Nothing /\ row.status # "CAPTURED"

HandleFailure(p) ==
    /\ webhook[p] # Nothing
    /\ webhook[p].event.kind = "failed"
    /\ IF MayFail(webhook[p].seen)
         THEN RecordFailure(webhook[p].event.attempt)
         ELSE UNCHANGED <<order, payment>>
    /\ Answer(p)

\* The process dies, or the database raises: the event is not answered.
HandlerDies(p) ==
    /\ webhook[p] # Nothing
    /\ webhook' = [webhook EXCEPT ![p] = Nothing]
    /\ UNCHANGED <<order, payment, checkout, verified, provider, answered>>

-----------------------------------------------------------------------------

Next ==
    \/ \E o \in Orders :
         \/ OpenOrder(o) \/ ProviderOpens(o) \/ ProviderRaises(o)
         \/ RecordPayment(o) \/ CheckoutDies(o)
    \/ \E a \in Attempts : Capture(a) \/ Decline(a)
    \/ \E v \in Verifiers :
         \/ \E a \in Attempts : FetchPayment(v, a)
         \/ VerifyPayment(v) \/ VerifierDies(v)
    \/ \E p \in Processes :
         \/ \E e \in Event : Receive(p, e)
         \/ HandleCapture(p) \/ HandleFailure(p) \/ HandlerDies(p)

Spec == Init /\ [][Next]_vars

\* A handler ends.  The provider sends a capture again until it is answered
\* with success, and one of those times the database does not raise.
Fairness ==
    /\ \A p \in Processes : WF_vars(HandleCapture(p) \/ HandleFailure(p) \/ HandlerDies(p))
    /\ \A a \in Attempts :
         LET e == [attempt |-> a, kind |-> "captured"]
         IN  /\ SF_vars(e \notin answered /\ \E p \in Processes : Receive(p, e))
             /\ SF_vars(\E p \in Processes : webhook[p] # Nothing /\ webhook[p].event = e /\ HandleCapture(p))

FairSpec == Spec /\ Fairness

-----------------------------------------------------------------------------
(* Properties.                                                             *)

\* A payments row that says CAPTURED names a payment that the provider did
\* capture, not another that failed, and its order is completed, through
\* every order, repetition and loss of events and requests.
CapturesAreReal ==
    \A o \in Orders :
        payment[o] # Nothing /\ payment[o].status = "CAPTURED" =>
            /\ payment[o].attempt \in captured
            /\ order[o] = "COMPLETED"

\* A capture that the webhook answered with success, which the provider will
\* not report again, has completed its order: no such event finds the order
\* without its payments row.
AnsweredCapturesCount ==
    \A e \in answered : e.kind = "captured" => order[OrderOf[e.attempt]] = "COMPLETED"

\* The order row keeps the promise of a paid order: completed only when the
\* provider has taken the money, and for ever, whatever is reported late.
Shop == INSTANCE PaidOrder WITH status <- order, paid <- {OrderOf[a] : a \in captured}
ImplementsPaidOrder == Shop!Spec

\* An order whose money was taken is completed in the end, although requests
\* die, the customer never asks for a verification and the first reports fail.
PaidOrdersComplete ==
    \A o \in Orders :
        (\E a \in captured : OrderOf[a] = o) ~> order[o] = "COMPLETED"
=============================================================================
