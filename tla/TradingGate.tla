---------------------------- MODULE TradingGate ----------------------------
(***************************************************************************)
(* The two switches that stop LIVE orders: the kill switch (application/   *)
(* kill_switch.py), a database row that each process caches for a moment,  *)
(* and the broker circuit breaker (application/broker_circuit_breaker.py), *)
(* a file that the processes share under an flock.  A call of the gate     *)
(* asks the first and then the second, as execution_guardrails.py does.    *)
(*                                                                         *)
(* Time is a counter of ticks.  What the code reads at two moments is read *)
(* in two steps: the row and the cache it goes to, the clock and the lock, *)
(* the load and the save of the file.                                      *)
(***************************************************************************)
EXTENDS Naturals, Functions

CONSTANTS
    Callers,      \* requests and jobs under way
    Processes,    \* the processes they run in
    ProcessOf,    \* where each caller runs
    TTL,          \* _CACHE_TTL_SECONDS
    MaxRead,      \* bound: ticks from the read of the row to its place in the cache
    Window,       \* BROKER_FAILURE_WINDOW_SECONDS
    Threshold,    \* BROKER_FAILURE_THRESHOLD
    Cooldown,     \* BROKER_CIRCUIT_COOLDOWN_SECONDS
    MaxTime,      \* bound: the last tick
    MaxFailures,  \* bound: failures in the file
    Nobody        \* the lock is free

ASSUME ProcessOfAssumption == ProcessOf \in [Callers -> Processes]
ASSUME PositiveAssumption == {TTL, Window, Threshold, Cooldown} \subseteq Nat \ {0}
ASSUME BoundAssumption == {MaxRead, MaxTime, MaxFailures} \subseteq Nat
ASSUME NobodyAssumption == Nobody \notin Callers

VARIABLES
    now,     \* the clock
    halted,  \* the active column of risk_state
    since,   \* when it last became true (nothing in the code reads it)
    cache,   \* _cached_status and _cached_at of each process
    file,    \* broker_circuit_breaker.json
    lock,    \* who holds the flock
    call     \* what each caller is doing

vars == <<now, halted, since, cache, file, lock, call>>

-----------------------------------------------------------------------------

Times == 0 .. MaxTime

\* until: cooldown_until; failures: how many were recorded at each tick.
File == [active : BOOLEAN, until : Nat, failures : [Times -> Nat]]

EmptyState == [active |-> FALSE, until |-> 0, failures |-> [t \in Times |-> 0]]

NoStatus == [known |-> FALSE, active |-> FALSE, at |-> 0]

Status == [known : BOOLEAN, active : BOOLEAN, at : Times]

CallAt == {"idle", "reading", "switching", "switched", "waiting", "loaded"}

Ops == {"none", "gate", "activate", "deactivate", "status", "failure", "reset"}

\* active: the column it read; time: its _utc_now, or the tick of its read;
\* state: the file it loaded; misread: that is not what the file holds.
Call == [at : CallAt, op : Ops, active : BOOLEAN, time : Times, state : File,
         misread : BOOLEAN]

CallOf(at, op, active, time) ==
    [at |-> at, op |-> op, active |-> active, time |-> time, state |-> EmptyState,
     misread |-> FALSE]

NoCall == CallOf("idle", "none", FALSE, 0)

Init ==
    /\ now = 0
    /\ halted \in BOOLEAN
    /\ since = 0
    /\ cache = [q \in Processes |-> NoStatus]
    /\ file = EmptyState
    /\ lock = Nobody
    /\ call = [c \in Callers |-> NoCall]

Becomes(c, new) == call' = [call EXCEPT ![c] = new]

-----------------------------------------------------------------------------
(* kill_switch_status: the cache, or the row and then the cache.           *)

CacheIsFresh(q) == cache[q].known /\ now - cache[q].at < TTL

\* The order is refused, or goes on to broker_circuit_status, which takes the
\* time before it asks for the lock.
AfterSwitch(active) == IF active THEN NoCall ELSE CallOf("waiting", "status", FALSE, now)

\* Mutant of UseCache: an answer from the cache is as good as a new one.
UseCacheAndKeep(c) ==
    LET q == ProcessOf[c]
    IN /\ call[c].at = "idle"
       /\ CacheIsFresh(q)
       /\ Becomes(c, AfterSwitch(cache[q].active))
       /\ cache' = [cache EXCEPT ![q].at = now]
       /\ UNCHANGED <<now, halted, since, file, lock>>

UseCache(c) ==
    LET q == ProcessOf[c]
    IN /\ call[c].at = "idle"
       /\ CacheIsFresh(q)
       /\ Becomes(c, AfterSwitch(cache[q].active))
       /\ UNCHANGED <<now, halted, since, cache, file, lock>>

ReadSwitch(c) ==
    /\ call[c].at = "idle"
    /\ ~CacheIsFresh(ProcessOf[c])
    /\ Becomes(c, CallOf("reading", "gate", halted, now))
    /\ UNCHANGED <<now, halted, since, cache, file, lock>>

\* _cached_at is the time of the store, and whatever was cached meanwhile, or
\* invalidated, is overwritten.
StoreStatus(c) ==
    /\ call[c].at = "reading"
    /\ cache' = [cache EXCEPT ![ProcessOf[c]] =
                   [known |-> TRUE, active |-> call[c].active, at |-> now]]
    /\ Becomes(c, AfterSwitch(call[c].active))
    /\ UNCHANGED <<now, halted, since, file, lock>>

-----------------------------------------------------------------------------
(* _db_activate_kill_switch and _db_deactivate_kill_switch.                *)

LoadSwitch(c) ==
    /\ call[c].at = "idle"
    /\ \E op \in {"activate", "deactivate"} :
          Becomes(c, CallOf("switching", op, halted, 0))
    /\ UNCHANGED <<now, halted, since, cache, file, lock>>

\* The session writes the column if it differs from what it loaded.
CommitSwitch(c) ==
    LET wanted == call[c].op = "activate"
    IN /\ call[c].at = "switching"
       /\ halted' = IF call[c].active = wanted THEN halted ELSE wanted
       /\ since' = IF ~halted' THEN 0 ELSE IF halted THEN since ELSE now
       /\ Becomes(c, CallOf("switched", call[c].op, FALSE, 0))
       /\ UNCHANGED <<now, cache, file, lock>>

InvalidateCache(c) ==
    /\ call[c].at = "switched"
    /\ cache' = [cache EXCEPT ![ProcessOf[c]] = NoStatus]
    /\ Becomes(c, NoCall)
    /\ UNCHANGED <<now, halted, since, file, lock>>

-----------------------------------------------------------------------------
(* The breaker: the clock, then the lock and the file.                     *)

Recent(failures, time) == [t \in Times |-> IF t + Window >= time THEN failures[t] ELSE 0]

CountOf(failures) == FoldFunction(+, 0, failures)

IsActive(state, time) == state.active /\ state.until > time

\* record_broker_failure, after a placement or a lookup that failed, or
\* reset_broker_circuit, by an operator.
BeginUpdate(c) ==
    /\ call[c].at = "idle"
    /\ \E op \in {"failure", "reset"} :
          /\ op = "failure" => CountOf(file.failures) < MaxFailures
          /\ Becomes(c, CallOf("waiting", op, FALSE, now))
    /\ UNCHANGED <<now, halted, since, cache, file, lock>>

\* Mutant of MayLock: the fallback of a platform without fcntl.
MayLockAlways(c) == c \in Callers

MayLock(c) == lock = Nobody /\ c \in Callers

\* A file that cannot be read, or decoded, is an empty one.
LoadState(c) ==
    /\ call[c].at = "waiting"
    /\ MayLock(c)
    /\ lock' = c
    /\ \E state \in {file, EmptyState} :
          Becomes(c, [at |-> "loaded", op |-> call[c].op, active |-> FALSE,
                      time |-> call[c].time, state |-> state, misread |-> state # file])
    /\ UNCHANGED <<now, halted, since, cache, file>>

Leaves(c) ==
    /\ call[c].at = "loaded"
    /\ lock' = Nobody
    /\ UNCHANGED <<now, halted, since, cache>>

\* The order is admitted or refused; a cooldown that is over is closed.
EndStatus(c) ==
    LET state == call[c].state
        time == call[c].time
    IN /\ call[c].op = "status"
       /\ Leaves(c)
       /\ file' = IF state.active /\ ~IsActive(state, time)
                    THEN [active |-> FALSE, until |-> state.until,
                          failures |-> Recent(state.failures, time)]
                    ELSE file
       /\ Becomes(c, NoCall)

\* Both end with a status as of the time they took.
Reports(c) == Becomes(c, CallOf("waiting", "status", FALSE, call[c].time))

EndFailure(c) ==
    LET state == call[c].state
        time == call[c].time
        failures == [Recent(state.failures, time) EXCEPT ![time] = @ + 1]
        trips == CountOf(failures) >= Threshold /\ ~IsActive(state, time)
    IN /\ call[c].op = "failure"
       /\ Leaves(c)
       /\ file' = [active |-> state.active \/ trips,
                   until |-> IF trips THEN time + Cooldown ELSE state.until,
                   failures |-> failures]
       /\ Reports(c)

EndReset(c) ==
    /\ call[c].op = "reset"
    /\ Leaves(c)
    /\ file' = EmptyState
    /\ Reports(c)

\* The process dies, or a call raises: the kernel drops its lock, and the file
\* is what it was, since it is replaced in one rename.
Die(c) ==
    /\ call[c].at # "idle"
    /\ lock' = IF lock = c THEN Nobody ELSE lock
    /\ Becomes(c, NoCall)
    /\ UNCHANGED <<now, halted, since, cache, file>>

Tick ==
    /\ now < MaxTime
    /\ \A c \in Callers : call[c].at = "reading" => now - call[c].time < MaxRead
    /\ now' = now + 1
    /\ UNCHANGED <<halted, since, cache, file, lock, call>>

Next ==
    \/ Tick
    \/ \E c \in Callers :
          \/ UseCache(c) \/ ReadSwitch(c) \/ StoreStatus(c)
          \/ LoadSwitch(c) \/ CommitSwitch(c) \/ InvalidateCache(c)
          \/ BeginUpdate(c) \/ LoadState(c)
          \/ EndStatus(c) \/ EndFailure(c) \/ EndReset(c)
          \/ Die(c)

Spec == Init /\ [][Next]_vars

-----------------------------------------------------------------------------
(* Correctness.                                                            *)

TypeOK ==
    /\ now \in Times
    /\ halted \in BOOLEAN
    /\ since \in Times
    /\ cache \in [Processes -> Status]
    /\ file \in File
    /\ lock \in Callers \cup {Nobody}
    /\ call \in [Callers -> Call]

\* The gate takes the kill switch for off.
PassesSwitch(c) ==
    /\ call[c].at \in {"idle", "reading"}
    /\ call'[c].at = "waiting" /\ call'[c].op = "status"

\* The kill switch works in time: in every process, an order that passes it
\* while it is on does so within the cache's life plus the time of one read
\* after it was turned on, though a reader that saw it off may fill the cache
\* after the activation has emptied it.
HaltIsTimely ==
    [][\A c \in Callers :
          PassesSwitch(c) /\ halted => now - since < TTL + MaxRead]_vars

\* The breaker forgets nothing that two processes tell it at once: a recorded
\* failure leaves the file when its window is over, and an activation ends when
\* its cooldown is.  Only an operator's reset and a failure recorded by a call
\* that could not read the file drop more.
BreakerStands ==
    [][\/ \E c \in Callers : EndReset(c) \/ (EndFailure(c) /\ call[c].misread)
       \/ /\ \A t \in Times : file'.failures[t] < file.failures[t] => t + Window < now
          /\ IsActive(file, now) => file'.active /\ file'.until = file.until]_vars
=============================================================================
