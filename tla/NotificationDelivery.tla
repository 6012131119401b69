------------------------ MODULE NotificationDelivery ------------------------
(***************************************************************************)
(* The durable notifications (application/notification_store.py) and the   *)
(* passes of NotificationRetryWorker (application/notification_retry.py)   *)
(* that deliver them, several at once: each worker process runs a pass     *)
(* every minute, and queued jobs run further ones.                         *)
(*                                                                         *)
(* A pass lists what is deliverable, and claims, sends and settles one     *)
(* notification after another.  A claim is a lease.  The provider is       *)
(* external: it may accept a message and its confirmation may be lost.     *)
(***************************************************************************)
EXTENDS Integers, FiniteSetsExt

CONSTANTS
    Notes,      \* notifications, named by their deduplication key
    Workers,    \* concurrent passes
    NoClaim,    \* SQL NULL in the claim_token column
    NoNote,     \* a pass has no notification in hand
    MaxRetries, \* max_retries
    MaxFaults   \* bound on deaths of passes, stalls and lost confirmations

ASSUME NoClaimAssumption == NoClaim \notin Workers
ASSUME NoNoteAssumption == NoNote \notin Notes
ASSUME MaxRetriesAssumption == MaxRetries \in Nat \ {0}
ASSUME MaxFaultsAssumption == MaxFaults \in Nat
ASSUME WorkersAssumption == IsFiniteSet(Workers)

VARIABLES
    outbox,     \* the notifications table
    worker,     \* the control state and the local variables of each pass
    accepted,   \* how often the provider accepted each notification
    raised,     \* how often a send of each notification raised
    faults      \* deaths, stalls and lost confirmations that befell each
                \* notification, or (NoNote) a pass with none in hand

provider == <<accepted, raised>>
vars == <<outbox, worker, accepted, raised, faults>>

-----------------------------------------------------------------------------

Statuses == {"absent", "PENDING", "PROCESSING", "RETRY", "SENT", "FAILED"}

Settled == {"SENT", "FAILED"}

\* due: next_retry_at has come; leased: lease_expires_at has not.  A claim
\* token is made for one claim, and a pass holds at most one.
Row ==
    [status : Statuses, retries : Nat, due : BOOLEAN,
     claim : Workers \cup {NoClaim}, leased : BOOLEAN]

Pass ==
    [at : {"idle", "next", "claimed", "sending", "accepted", "raised"},
     todo : SUBSET Notes, note : Notes \cup {NoNote}, retries : Nat]

NewPass == [at |-> "idle", todo |-> {}, note |-> NoNote, retries |-> 0]

NewRow(status) ==
    [status |-> status, retries |-> 0, due |-> FALSE, claim |-> NoClaim, leased |-> FALSE]

Init ==
    /\ outbox = [n \in Notes |-> NewRow("absent")]
    /\ worker = [w \in Workers |-> NewPass]
    /\ accepted = [n \in Notes |-> 0]
    /\ raised = [n \in Notes |-> 0]
    /\ faults = [n \in Notes \cup {NoNote} |-> 0]

\* Mutant of Deliverable: a claimed notification is listed, lease or no lease.
DeliverableTwice(n) == outbox[n].status \notin {"absent"} \cup Settled

\* Mutant of Deliverable: nobody takes over a claim whose pass died.
DeliverableUnclaimed(n) ==
    \/ outbox[n].status = "PENDING"
    \/ outbox[n].status = "RETRY" /\ outbox[n].due

\* get_retry_notifications and the guard of claim_notification.
Deliverable(n) ==
    \/ outbox[n].status = "PENDING"
    \/ outbox[n].status = "RETRY" /\ outbox[n].due
    \/ outbox[n].status = "PROCESSING" /\ ~outbox[n].leased

\* Mutant of Owns: the row is found by its id alone.
OwnsById(w, n) == worker[w].note = n

\* The guard of mark_sent, mark_failed and schedule_retry.
Owns(w, n) ==
    /\ outbox[n].status = "PROCESSING"
    /\ outbox[n].claim = w
    /\ outbox[n].leased

\* The row after claim_notification.
AfterClaim(row, w) ==
    [status |-> "PROCESSING", retries |-> row.retries, due |-> row.due,
     claim |-> w, leased |-> TRUE]

\* The row after mark_sent or mark_failed.
AfterOutcome(row, status) ==
    [status |-> status, retries |-> row.retries, due |-> FALSE,
     claim |-> NoClaim, leased |-> FALSE]

\* The row after schedule_retry.
AfterRetry(row) ==
    [status |-> "RETRY", retries |-> row.retries + 1, due |-> FALSE,
     claim |-> NoClaim, leased |-> FALSE]

\* Mutant of GivesUp: off by one.
GivesUpEarly(w) == worker[w].retries + 2 >= MaxRetries

GivesUp(w) == worker[w].retries + 1 >= MaxRetries

\* Bound: faults in all.
MayFault == LET FaultsOf(n) == faults[n] IN MapThenSumSet(FaultsOf, DOMAIN faults) < MaxFaults

Fault(n) == MayFault /\ faults' = [faults EXCEPT ![n] = @ + 1]

\* The pass w goes on from one control point, its record becoming pass.
Moves(w, from, pass) ==
    /\ worker[w].at = from
    /\ worker' = [worker EXCEPT ![w] = pass]

Between(todo) == [at |-> "next", todo |-> todo, note |-> NoNote, retries |-> 0]

Writes(n, row) == outbox' = [outbox EXCEPT ![n] = row]

-----------------------------------------------------------------------------

\* create_notification, or enqueue_notifications_atomic; a second row with the
\* same deduplication key is not inserted.
Enqueue(n) ==
    /\ outbox[n].status = "absent"
    /\ Writes(n, NewRow("PENDING"))
    /\ UNCHANGED <<worker, provider, faults>>

StartPass(w) ==
    /\ Moves(w, "idle", Between({n \in Notes : Deliverable(n)}))
    /\ UNCHANGED <<outbox, provider, faults>>

Claim(w, n) ==
    /\ n \in worker[w].todo
    /\ Deliverable(n)
    /\ Writes(n, AfterClaim(outbox[n], w))
    /\ Moves(w, "next", [at |-> "claimed", todo |-> worker[w].todo \ {n},
                         note |-> n, retries |-> 0])
    /\ UNCHANGED <<provider, faults>>

\* Another pass was faster.
Skip(w, n) ==
    /\ n \in worker[w].todo
    /\ ~Deliverable(n)
    /\ Moves(w, "next", Between(worker[w].todo \ {n}))
    /\ UNCHANGED <<outbox, provider, faults>>

\* The row is read again after the claim, which expired it in the session.
Load(w) ==
    /\ Moves(w, "claimed", [at |-> "sending", todo |-> worker[w].todo, note |-> worker[w].note,
                            retries |-> outbox[worker[w].note].retries])
    /\ UNCHANGED <<outbox, provider, faults>>

\* The result of the send.
Learns(w, at) ==
    [at |-> at, todo |-> worker[w].todo, note |-> worker[w].note, retries |-> worker[w].retries]

Accepted(w) == accepted' = [accepted EXCEPT ![worker[w].note] = @ + 1]

Raised(w) ==
    /\ Moves(w, "sending", Learns(w, "raised"))
    /\ raised' = [raised EXCEPT ![worker[w].note] = @ + 1]
    /\ UNCHANGED outbox

\* send_notification_channel returns only after the provider accepted.
SendAccepted(w) ==
    /\ Moves(w, "sending", Learns(w, "accepted"))
    /\ Accepted(w)
    /\ UNCHANGED <<outbox, raised, faults>>

\* Mutant of SendRaises: an answer that confirms nothing passes for acceptance.
SendSwallows(w) ==
    /\ Moves(w, "sending", Learns(w, "accepted"))
    /\ UNCHANGED <<outbox, provider, faults>>

SendRaises(w) ==
    /\ Raised(w)
    /\ UNCHANGED <<accepted, faults>>

\* The provider accepts the message, and the answer is lost.
SendUnconfirmed(w) ==
    /\ Raised(w)
    /\ Accepted(w)
    /\ Fault(worker[w].note)

-----------------------------------------------------------------------------

\* The conditional UPDATE of the row in hand.  Without the claim it changes
\* nothing, and the pass goes on to the next notification.
Settle(w, from, row) ==
    /\ Moves(w, from, Between(worker[w].todo))
    /\ IF Owns(w, worker[w].note)
         THEN Writes(worker[w].note, row)
         ELSE UNCHANGED outbox
    /\ UNCHANGED <<provider, faults>>

MarkSent(w) == Settle(w, "accepted", AfterOutcome(outbox[worker[w].note], "SENT"))

MarkFailed(w) ==
    /\ GivesUp(w)
    /\ Settle(w, "raised", AfterOutcome(outbox[worker[w].note], "FAILED"))

ScheduleRetry(w) ==
    /\ ~GivesUp(w)
    /\ Settle(w, "raised", AfterRetry(outbox[worker[w].note]))

EndPass(w) ==
    /\ worker[w].todo = {}
    /\ Moves(w, "next", NewPass)
    /\ UNCHANGED <<outbox, provider, faults>>

\* The process dies, or the database fails and the error ends the pass.
Crash(w) ==
    /\ worker[w].at # "idle"
    /\ worker' = [worker EXCEPT ![w] = NewPass]
    /\ Fault(worker[w].note)
    /\ UNCHANGED <<outbox, provider>>

\* lease_seconds have gone by since the claim.
EndLease(n) ==
    /\ outbox[n].status = "PROCESSING"
    /\ outbox[n].leased
    /\ outbox' = [outbox EXCEPT ![n].leased = FALSE]
    /\ UNCHANGED <<worker, provider>>

AtWork(n) == \E w \in Workers : worker[w].note = n /\ outbox[n].claim = w

\* The pass that made the claim died.
DeadLeaseExpires(n) ==
    /\ ~AtWork(n)
    /\ EndLease(n)
    /\ UNCHANGED faults

\* A pass stalls for lease_seconds: 120, where a send gives up after 10.
LiveLeaseExpires(n) ==
    /\ AtWork(n)
    /\ EndLease(n)
    /\ Fault(n)

RetryComesDue(n) ==
    /\ outbox[n].status = "RETRY"
    /\ ~outbox[n].due
    /\ outbox' = [outbox EXCEPT ![n].due = TRUE]
    /\ UNCHANGED <<worker, provider, faults>>

-----------------------------------------------------------------------------

\* What a worker process does next if nothing goes wrong with it.
PassStep(w) ==
    \/ StartPass(w)
    \/ \E n \in Notes : Claim(w, n) \/ Skip(w, n)
    \/ Load(w)
    \/ SendAccepted(w) \/ SendRaises(w)
    \/ MarkSent(w) \/ MarkFailed(w) \/ ScheduleRetry(w)
    \/ EndPass(w)

TimePasses(n) == DeadLeaseExpires(n) \/ RetryComesDue(n)

Next ==
    \/ \E n \in Notes : Enqueue(n) \/ TimePasses(n) \/ LiveLeaseExpires(n)
    \/ \E w \in Workers : PassStep(w) \/ SendUnconfirmed(w) \/ Crash(w)

Spec == Init /\ [][Next]_vars

FairSpec ==
    /\ Spec
    /\ \A w \in Workers : WF_vars(PassStep(w))
    /\ \A n \in Notes : WF_vars(TimePasses(n))

-----------------------------------------------------------------------------

\* A row carries a claim token exactly while its status is PROCESSING.
TypeOK ==
    /\ outbox \in [Notes -> Row]
    /\ worker \in [Workers -> Pass]
    /\ accepted \in [Notes -> Nat]
    /\ raised \in [Notes -> Nat]
    /\ faults \in [Notes \cup {NoNote} -> Nat]
    /\ \A n \in Notes : outbox[n].claim = NoClaim <=> outbox[n].status # "PROCESSING"

\* A notification is reported SENT only if the provider accepted it, whatever
\* passes died, stalled or lost their claim on the way.
SentWasAccepted == \A n \in Notes : outbox[n].status = "SENT" => accepted[n] > 0

\* A notification is given up only after MaxRetries sends of it have raised.
GivesUpAfterFailures ==
    \A n \in Notes : outbox[n].status = "FAILED" => raised[n] >= MaxRetries

\* How often the provider accepted a notification beyond what its row reports.
Surplus(n) == IF outbox[n].status # "FAILED" /\ accepted[n] > 0 THEN accepted[n] - 1 ELSE accepted[n]

\* The provider accepts a notification twice, or one that is then reported
\* FAILED, only as often as a pass with that notification in hand died, stalled
\* or lost a confirmation: two passes by themselves never deliver the same row,
\* and what goes wrong with one notification duplicates no other.
DuplicatesHaveFaults == \A n \in Notes : Surplus(n) <= faults[n]

\* What mark_sent or mark_failed recorded is never changed again, not even by a
\* pass that lost its claim and learns the result of its own send afterwards.
OutcomesStand ==
    [][\A n \in Notes : outbox[n].status \in Settled => outbox'[n] = outbox[n]]_vars

\* Whatever is enqueued is in the end sent or given up.
EverySettles == \A n \in Notes : outbox[n].status = "PENDING" ~> outbox[n].status \in Settled
=============================================================================
