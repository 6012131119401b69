------------------------- MODULE TradingGate_proofs -------------------------
(***************************************************************************)
(* Proofs about the kill switch and the breaker for any callers, processes *)
(* and times.                                                              *)
(*                                                                         *)
(* The argument for the kill switch: a reader that saw it off and finds it *)
(* on now read it before it was turned on, so what it stores is at most    *)
(* one read older than its time stamp.  For the breaker: what a caller has *)
(* loaded, and did not misread, is the file, as long as it holds the lock. *)
(***************************************************************************)
EXTENDS TradingGate, TLAPS

\* Nothing is from the future.
PastTimes ==
    /\ since <= now
    /\ \A q \in Processes : cache[q].at <= now
    /\ \A c \in Callers : call[c].time <= now

\* A reader that saw the switch off read it before it was turned on.
ReadersAreRecent ==
    \A c \in Callers : call[c].at = "reading" =>
        /\ now - call[c].time <= MaxRead
        /\ ~call[c].active /\ halted => call[c].time <= since

CacheIsRecent ==
    \A q \in Processes :
        cache[q].known /\ ~cache[q].active /\ halted => cache[q].at <= since + MaxRead

\* The lock admits one, who has the file.
LoadedIsCurrent ==
    \A c \in Callers : call[c].at = "loaded" =>
        lock = c /\ call[c].state = IF call[c].misread THEN EmptyState ELSE file

IInv ==
    /\ TypeOK
    /\ PastTimes
    /\ ReadersAreRecent
    /\ CacheIsRecent
    /\ LoadedIsCurrent

-----------------------------------------------------------------------------
(* The constants, the records, and a step of one call.                     *)

LEMMA ConstantsDef ==
    /\ TTL \in Nat \ {0} /\ Window \in Nat \ {0} /\ Cooldown \in Nat \ {0}
    /\ MaxRead \in Nat /\ MaxTime \in Nat
    /\ Times \subseteq Nat /\ 0 \in Times
  BY PositiveAssumption, BoundAssumption DEF Times

LEMMA EmptyStateDef == EmptyState \in File
  BY ConstantsDef DEF EmptyState, File

LEMMA CallOfDef ==
    ASSUME NEW at \in CallAt, NEW op \in Ops, NEW active \in BOOLEAN, NEW time \in Times
    PROVE  /\ CallOf(at, op, active, time) \in Call
           /\ CallOf(at, op, active, time).at = at
           /\ CallOf(at, op, active, time).op = op
           /\ CallOf(at, op, active, time).active = active
           /\ CallOf(at, op, active, time).time = time
  BY EmptyStateDef DEF CallOf, Call

LEMMA NoCallDef == NoCall \in Call /\ NoCall.at = "idle" /\ NoCall.time = 0
  BY EmptyStateDef, ConstantsDef DEF NoCall, CallOf, Call, CallAt, Ops

\* What the gate goes on with after it has read the switch.
LEMMA AfterSwitchDef ==
    ASSUME now \in Times, NEW active \in BOOLEAN
    PROVE  /\ AfterSwitch(active) \in Call
           /\ AfterSwitch(active).at \in {"idle", "waiting"}
           /\ AfterSwitch(active).at = "waiting" => ~active
           /\ AfterSwitch(active).time \in Times
           /\ AfterSwitch(active).time <= now
<1>1. now \in Nat /\ 0 \in Times
  BY ConstantsDef
<1>2. CASE active
  BY <1>1, <1>2, NoCallDef DEF AfterSwitch
<1>3. CASE ~active
  <2>1. AfterSwitch(active) =
           [at |-> "waiting", op |-> "status", active |-> FALSE, time |-> now,
            state |-> EmptyState, misread |-> FALSE]
    BY <1>3 DEF AfterSwitch, CallOf
  <2> QED
    BY <1>1, <1>3, <2>1, EmptyStateDef DEF Call, CallAt, Ops
<1> QED
  BY <1>2, <1>3

LEMMA InitInv == Init => IInv
<1> SUFFICES ASSUME Init PROVE IInv
  OBVIOUS
<1>1. NoStatus \in Status /\ NoStatus.at = 0 /\ ~NoStatus.known
  BY ConstantsDef DEF NoStatus, Status
<1>2. TypeOK
  BY <1>1, NoCallDef, EmptyStateDef, ConstantsDef DEF Init, TypeOK
<1>3. PastTimes
  BY <1>1, NoCallDef DEF Init, PastTimes
<1>4. ReadersAreRecent /\ LoadedIsCurrent
  BY NoCallDef DEF Init, ReadersAreRecent, LoadedIsCurrent
<1>5. CacheIsRecent
  BY <1>1 DEF Init, CacheIsRecent
<1> QED
  BY <1>2, <1>3, <1>4, <1>5 DEF IInv

\* A step of one call at one tick, which holds the lock if it changes the file
\* and leaves a cache that is recent.
LEMMA CallMoves ==
    ASSUME IInv, NEW c \in Callers, NEW new \in Call, Becomes(c, new),
           now' = now, halted' \in BOOLEAN, since' \in Times,
           since' <= now,
           halted' => since' = IF halted THEN since ELSE now,
           new.time <= now,
           new.at = "reading" =>
              now - new.time <= MaxRead /\ (~new.active /\ halted' => new.time <= since'),
           new.at = "loaded" => lock' = c /\ new.state = IF new.misread THEN EmptyState ELSE file',
           file' \in File, lock' \in Callers \cup {Nobody},
           file' # file => lock = c /\ new.at # "loaded",
           lock' # lock => lock \in {c, Nobody},
           cache' \in [Processes -> Status],
           \A q \in Processes :
              \/ cache'[q] = cache[q]
              \/ ~cache'[q].known /\ cache'[q].at <= now
              \/ /\ cache'[q].at = now
                 /\ ~cache'[q].active /\ halted' => now <= since' + MaxRead
    PROVE  IInv'
<1>1. /\ call' \in [Callers -> Call]
      /\ call'[c] = new
      /\ \A d \in Callers \ {c} : call'[d] = call[d]
  BY DEF Becomes, IInv, TypeOK
<1>2. /\ now \in Nat /\ since \in Nat /\ since' \in Nat /\ MaxRead \in Nat
      /\ \A q \in Processes : cache[q].at \in Nat
      /\ \A d \in Callers : call[d].time \in Nat
      /\ new.time \in Nat
  BY ConstantsDef DEF IInv, TypeOK, Status, Call
<1>3. TypeOK'
  BY <1>1 DEF IInv, TypeOK
<1>4. PastTimes'
  <2>1. \A q \in Processes : cache'[q].at <= now
    BY <1>2 DEF IInv, PastTimes
  <2>2. \A d \in Callers : call'[d].time <= now
    BY <1>1 DEF IInv, PastTimes
  <2> QED
    BY <2>1, <2>2 DEF PastTimes
<1>5. ReadersAreRecent'
  <2> SUFFICES ASSUME NEW d \in Callers, call'[d].at = "reading"
               PROVE  /\ now' - call'[d].time <= MaxRead
                      /\ ~call'[d].active /\ halted' => call'[d].time <= since'
    BY DEF ReadersAreRecent
  <2>1. CASE d = c
    BY <1>1, <2>1
  <2>2. CASE d # c
    BY <1>1, <1>2, <2>2 DEF IInv, ReadersAreRecent, PastTimes
  <2> QED
    BY <2>1, <2>2
<1>6. CacheIsRecent'
  BY <1>2 DEF IInv, CacheIsRecent, PastTimes
<1>7. LoadedIsCurrent'
  BY <1>1, NobodyAssumption DEF IInv, LoadedIsCurrent
<1> QED
  BY <1>3, <1>4, <1>5, <1>6, <1>7 DEF IInv

\* The same for a call that touches neither the switch nor the cache.
LEMMA CallMovesAlone ==
    ASSUME IInv, NEW c \in Callers, NEW new \in Call, Becomes(c, new),
           UNCHANGED <<now, halted, since, cache>>,
           new.time <= now,
           new.at # "reading",
           new.at = "loaded" => lock' = c /\ new.state = IF new.misread THEN EmptyState ELSE file',
           file' \in File, lock' \in Callers \cup {Nobody},
           file' # file => lock = c /\ new.at # "loaded",
           lock' # lock => lock \in {c, Nobody}
    PROVE  IInv'
<1>1. /\ halted \in BOOLEAN /\ since \in Times /\ since <= now
      /\ cache \in [Processes -> Status]
  BY DEF IInv, TypeOK, PastTimes
<1> QED
  BY <1>1, CallMoves

-----------------------------------------------------------------------------
(* The kill switch.                                                        *)

LEMMA SwitchInv ==
    ASSUME IInv, NEW c \in Callers,
           UseCache(c) \/ ReadSwitch(c) \/ StoreStatus(c)
              \/ LoadSwitch(c) \/ CommitSwitch(c) \/ InvalidateCache(c)
    PROVE  IInv'
<1> USE DEF CallAt, Ops
<1>0. /\ now \in Times /\ now \in Nat /\ 0 \in Times /\ 0 <= now
      /\ since \in Times /\ since \in Nat /\ since <= now
      /\ halted \in BOOLEAN
      /\ cache \in [Processes -> Status]
      /\ file \in File /\ lock \in Callers \cup {Nobody}
      /\ call[c] \in Call /\ call[c].time \in Nat
      /\ ProcessOf[c] \in Processes
      /\ MaxRead \in Nat
  <2>1. now \in Times /\ since \in Times /\ call[c] \in Call /\ call[c].time \in Times
    BY DEF IInv, TypeOK, Call
  <2>2. now \in Nat /\ since \in Nat /\ call[c].time \in Nat
    BY <2>1, ConstantsDef
  <2> QED
    BY <2>1, <2>2, ConstantsDef, ProcessOfAssumption DEF IInv, TypeOK, PastTimes
<1>1. CASE UseCache(c)
  <2> DEFINE active == cache[ProcessOf[c]].active
  <2>1. active \in BOOLEAN
    BY <1>0 DEF Status
  <2>2. Becomes(c, AfterSwitch(active)) /\ UNCHANGED <<now, halted, since, cache, file, lock>>
    BY <1>1 DEF UseCache
  <2> HIDE DEF active
  <2> QED
    BY <1>0, <2>1, <2>2, AfterSwitchDef, CallMovesAlone
<1>2. CASE ReadSwitch(c)
  <2> DEFINE new == CallOf("reading", "gate", halted, now)
  <2>1. new \in Call /\ new.at = "reading" /\ new.active = halted /\ new.time = now
    BY <1>0, CallOfDef
  <2>2. Becomes(c, new) /\ UNCHANGED <<now, halted, since, cache, file, lock>>
    BY <1>2 DEF ReadSwitch
  <2> HIDE DEF new
  <2>3. now - new.time <= MaxRead /\ (~new.active /\ halted' => new.time <= since')
    BY <1>0, <2>1, <2>2
  <2> QED
    BY <1>0, <2>1, <2>2, <2>3, CallMoves
<1>3. CASE StoreStatus(c)
  <2> DEFINE stored == [known |-> TRUE, active |-> call[c].active, at |-> now]
             new == AfterSwitch(call[c].active)
  <2>1. /\ call[c].at = "reading"
        /\ cache' = [cache EXCEPT ![ProcessOf[c]] = stored]
        /\ Becomes(c, new)
        /\ UNCHANGED <<now, halted, since, file, lock>>
    BY <1>3 DEF StoreStatus
  <2>2. stored \in Status /\ stored.at = now /\ stored.active = call[c].active
    BY <1>0 DEF Status, Call
  <2>3. ~call[c].active /\ halted => now <= since + MaxRead
    BY <1>0, <2>1 DEF IInv, ReadersAreRecent
  <2>4. /\ new \in Call /\ new.at \in {"idle", "waiting"} /\ new.time <= now
    BY <1>0, AfterSwitchDef DEF Call
  <2> HIDE DEF stored, new
  <2>5. /\ cache' \in [Processes -> Status]
        /\ cache'[ProcessOf[c]] = stored
        /\ \A q \in Processes \ {ProcessOf[c]} : cache'[q] = cache[q]
    BY <1>0, <2>1, <2>2
  <2>6. \A q \in Processes :
           \/ cache'[q] = cache[q]
           \/ /\ cache'[q].at = now
              /\ ~cache'[q].active /\ halted' => now <= since' + MaxRead
    BY <2>1, <2>2, <2>3, <2>5
  <2> QED
    BY <1>0, <2>1, <2>4, <2>5, <2>6, CallMoves
<1>4. CASE LoadSwitch(c)
  <2>1. PICK op \in {"activate", "deactivate"} : Becomes(c, CallOf("switching", op, halted, 0))
    BY <1>4 DEF LoadSwitch
  <2> DEFINE new == CallOf("switching", op, halted, 0)
  <2>2. new \in Call /\ new.at = "switching" /\ new.time = 0
    BY <1>0, CallOfDef
  <2> HIDE DEF new
  <2> QED
    BY <1>0, <1>4, <2>1, <2>2, CallMovesAlone DEF LoadSwitch, new
<1>5. CASE CommitSwitch(c)
  <2> DEFINE new == CallOf("switched", call[c].op, FALSE, 0)
  <2>1. new \in Call /\ new.at = "switched" /\ new.time = 0
    BY <1>0, EmptyStateDef DEF Call, CallOf
  <2>2. Becomes(c, new) /\ UNCHANGED <<now, cache, file, lock>>
    BY <1>5 DEF CommitSwitch
  <2> HIDE DEF new
  <2>3. halted' \in BOOLEAN
    BY <1>0, <1>5 DEF CommitSwitch
  <2>4. /\ since' \in Times /\ since' <= now
        /\ halted' => since' = IF halted THEN since ELSE now
    BY <1>0, <1>5 DEF CommitSwitch
  <2> QED
    BY <1>0, <2>1, <2>2, <2>3, <2>4, CallMoves
<1>6. CASE InvalidateCache(c)
  <2>1. NoStatus \in Status /\ NoStatus.at = 0 /\ ~NoStatus.known
    BY <1>0 DEF NoStatus, Status
  <2>2. /\ cache' \in [Processes -> Status]
        /\ cache'[ProcessOf[c]] = NoStatus
        /\ \A q \in Processes \ {ProcessOf[c]} : cache'[q] = cache[q]
    BY <1>0, <1>6, <2>1 DEF InvalidateCache
  <2>3. \A q \in Processes :
           cache'[q] = cache[q] \/ (~cache'[q].known /\ cache'[q].at <= now)
    BY <1>0, <2>1, <2>2
  <2>4. Becomes(c, NoCall) /\ UNCHANGED <<now, halted, since, file, lock>>
    BY <1>6 DEF InvalidateCache
  <2> QED
    BY <1>0, <2>2, <2>3, <2>4, NoCallDef, CallMoves
<1> QED
  BY <1>1, <1>2, <1>3, <1>4, <1>5, <1>6

-----------------------------------------------------------------------------
(* The breaker.                                                            *)

\* What a caller with the lock has loaded, and when.
LEMMA LoadedDef ==
    ASSUME IInv, NEW c \in Callers, call[c].at = "loaded"
    PROVE  /\ lock = c /\ call[c].state = IF call[c].misread THEN EmptyState ELSE file
           /\ file \in File /\ call[c].state \in File
           /\ call[c].time \in Times /\ call[c].time \in Nat /\ now \in Nat
           /\ call[c].time <= now
<1>1. call[c] \in Call /\ now \in Times /\ file \in File
  BY DEF IInv, TypeOK
<1>2. call[c].time \in Times /\ call[c].state \in File
  BY <1>1 DEF Call
<1> QED
  BY <1>1, <1>2, ConstantsDef DEF IInv, LoadedIsCurrent, PastTimes

LEMMA RecentDef ==
    ASSUME NEW failures \in [Times -> Nat], NEW time \in Times
    PROVE  Recent(failures, time) \in [Times -> Nat]
  BY ConstantsDef DEF Recent

\* What a failure leaves in the file.
FailureFile(state, time, trips) ==
    [active |-> state.active \/ trips,
     until |-> IF trips THEN time + Cooldown ELSE state.until,
     failures |-> [Recent(state.failures, time) EXCEPT ![time] = @ + 1]]

LEMMA FailureFileDef ==
    ASSUME NEW state \in File, NEW time \in Times, NEW trips \in BOOLEAN
    PROVE  FailureFile(state, time, trips) \in File
<1>1. /\ state.active \in BOOLEAN /\ state.until \in Nat
      /\ state.failures \in [Times -> Nat]
      /\ time \in Nat /\ Cooldown \in Nat
  BY ConstantsDef DEF File
<1>2. [Recent(state.failures, time) EXCEPT ![time] = @ + 1] \in [Times -> Nat]
  BY <1>1, RecentDef
<1>3. (IF trips THEN time + Cooldown ELSE state.until) \in Nat
  BY <1>1
<1> QED
  BY <1>1, <1>2, <1>3 DEF FailureFile, File

LEMMA EndFailureDef ==
    ASSUME IInv, NEW c \in Callers, EndFailure(c)
    PROVE  \E trips \in BOOLEAN :
              /\ trips => ~IsActive(call[c].state, call[c].time)
              /\ file' = FailureFile(call[c].state, call[c].time, trips)
<1> DEFINE trips == /\ CountOf([Recent(call[c].state.failures, call[c].time)
                                   EXCEPT ![call[c].time] = @ + 1]) >= Threshold
                    /\ ~IsActive(call[c].state, call[c].time)
<1>1. trips \in BOOLEAN
  OBVIOUS
<1>2. file' = FailureFile(call[c].state, call[c].time, trips)
  BY DEF EndFailure, FailureFile
<1>3. trips => ~IsActive(call[c].state, call[c].time)
  OBVIOUS
<1> HIDE DEF trips
<1> QED
  BY <1>1, <1>2, <1>3

LEMMA EndStatusDef ==
    ASSUME IInv, NEW c \in Callers, EndStatus(c)
    PROVE  \/ file' = file
           \/ /\ ~IsActive(call[c].state, call[c].time) /\ call[c].state.active
              /\ file' = [active |-> FALSE, until |-> call[c].state.until,
                          failures |-> Recent(call[c].state.failures, call[c].time)]
  BY DEF EndStatus

LEMMA BreakerInv ==
    ASSUME IInv, NEW c \in Callers,
           BeginUpdate(c) \/ LoadState(c) \/ EndStatus(c) \/ EndFailure(c) \/ EndReset(c)
              \/ Die(c)
    PROVE  IInv'
<1>0. /\ now \in Times /\ now \in Nat
      /\ call[c] \in Call /\ call[c].time \in Times /\ call[c].op \in Ops
      /\ call[c].time <= now
      /\ file \in File /\ lock \in Callers \cup {Nobody}
  BY ConstantsDef DEF IInv, TypeOK, PastTimes, Call
<1>1. CASE BeginUpdate(c)
  <2>1. PICK op \in {"failure", "reset"} : Becomes(c, CallOf("waiting", op, FALSE, now))
    BY <1>1 DEF BeginUpdate
  <2> DEFINE new == CallOf("waiting", op, FALSE, now)
  <2>2. new \in Call /\ new.at = "waiting" /\ new.time = now
    BY <1>0, EmptyStateDef DEF CallOf, Call, CallAt, Ops
  <2>3. Becomes(c, new) /\ UNCHANGED <<now, halted, since, cache, file, lock>>
    BY <1>1, <2>1 DEF BeginUpdate
  <2> HIDE DEF new
  <2> QED
    BY <1>0, <2>2, <2>3, CallMovesAlone
<1>2. CASE LoadState(c)
  <2>1. PICK state \in {file, EmptyState} :
           Becomes(c, [at |-> "loaded", op |-> call[c].op, active |-> FALSE,
                       time |-> call[c].time, state |-> state, misread |-> state # file])
    BY <1>2 DEF LoadState
  <2> DEFINE new == [at |-> "loaded", op |-> call[c].op, active |-> FALSE,
                     time |-> call[c].time, state |-> state, misread |-> state # file]
  <2>2. /\ new \in Call /\ new.at = "loaded" /\ new.time = call[c].time
        /\ new.state = IF new.misread THEN EmptyState ELSE file
    BY <1>0, EmptyStateDef DEF Call, CallAt
  <2>3. /\ Becomes(c, new) /\ lock = Nobody /\ lock' = c
        /\ UNCHANGED <<now, halted, since, cache, file>>
    BY <1>2, <2>1 DEF LoadState, MayLock
  <2> HIDE DEF new
  <2> QED
    BY <1>0, <2>2, <2>3, CallMovesAlone
<1>3. CASE EndStatus(c)
  <2>1. /\ call[c].at = "loaded" /\ lock' = Nobody /\ Becomes(c, NoCall)
        /\ UNCHANGED <<now, halted, since, cache>>
    BY <1>3 DEF EndStatus, Leaves
  <2>2. lock = c /\ call[c].state \in File
    BY <2>1, LoadedDef
  <2>3. file' \in File
    <3>1. CASE file' = file
      BY <1>0, <3>1
    <3>2. CASE file' = [active |-> FALSE, until |-> call[c].state.until,
                        failures |-> Recent(call[c].state.failures, call[c].time)]
      BY <1>0, <2>2, <3>2, RecentDef DEF File
    <3> QED
      BY <1>3, <3>1, <3>2, EndStatusDef
  <2> QED
    BY <1>0, <2>1, <2>2, <2>3, NoCallDef, CallMovesAlone
<1>4. CASE EndFailure(c) \/ EndReset(c)
  <2> DEFINE new == CallOf("waiting", "status", FALSE, call[c].time)
  <2>1. /\ call[c].at = "loaded" /\ lock' = Nobody /\ Becomes(c, new)
        /\ UNCHANGED <<now, halted, since, cache>>
    BY <1>4 DEF EndFailure, EndReset, Leaves, Reports
  <2>2. new \in Call /\ new.at = "waiting" /\ new.time = call[c].time
    BY <1>0, EmptyStateDef DEF CallOf, Call, CallAt, Ops
  <2>3. lock = c /\ call[c].state \in File
    BY <2>1, LoadedDef
  <2>4. file' \in File
    <3>1. CASE EndFailure(c)
      BY <1>0, <2>3, <3>1, EndFailureDef, FailureFileDef
    <3>2. CASE EndReset(c)
      BY <3>2, EmptyStateDef DEF EndReset
    <3> QED
      BY <1>4, <3>1, <3>2
  <2> HIDE DEF new
  <2> QED
    BY <1>0, <2>1, <2>2, <2>3, <2>4, CallMovesAlone
<1>5. CASE Die(c)
  <2>1. /\ lock' = IF lock = c THEN Nobody ELSE lock
        /\ Becomes(c, NoCall) /\ UNCHANGED <<now, halted, since, cache, file>>
    BY <1>5 DEF Die
  <2>2. lock' \in Callers \cup {Nobody} /\ (lock' # lock => lock \in {c, Nobody})
    BY <1>0, <2>1
  <2> QED
    BY <1>0, <2>1, <2>2, NoCallDef, CallMovesAlone
<1> QED
  BY <1>1, <1>2, <1>3, <1>4, <1>5

LEMMA TickInv == ASSUME IInv, Tick PROVE IInv'
<1>1. /\ now \in Nat /\ MaxTime \in Nat /\ MaxRead \in Nat /\ since \in Nat
      /\ \A q \in Processes : cache[q].at \in Nat
      /\ \A c \in Callers : call[c].time \in Nat
  BY BoundAssumption, ConstantsDef DEF IInv, TypeOK, Status, Call
<1>2. /\ now' = now + 1 /\ now < MaxTime
      /\ \A c \in Callers : call[c].at = "reading" => now - call[c].time < MaxRead
      /\ UNCHANGED <<halted, since, cache, file, lock, call>>
  BY DEF Tick
<1>3. now' \in Times
  BY <1>1, <1>2 DEF Times
<1>4. TypeOK'
  BY <1>2, <1>3 DEF IInv, TypeOK
<1>5. PastTimes'
  BY <1>1, <1>2 DEF IInv, PastTimes
<1>6. ReadersAreRecent'
  BY <1>1, <1>2 DEF IInv, ReadersAreRecent
<1>7. CacheIsRecent' /\ LoadedIsCurrent'
  BY <1>2 DEF IInv, CacheIsRecent, LoadedIsCurrent
<1> QED
  BY <1>4, <1>5, <1>6, <1>7 DEF IInv

LEMMA StepInv == IInv /\ [Next]_vars => IInv'
<1> SUFFICES ASSUME IInv, [Next]_vars PROVE IInv'
  OBVIOUS
<1>1. CASE UNCHANGED vars
  BY <1>1
  DEF vars, IInv, TypeOK, PastTimes, ReadersAreRecent, CacheIsRecent, LoadedIsCurrent
<1>2. CASE Tick
  BY <1>2, TickInv
<1>3. ASSUME NEW c \in Callers,
             UseCache(c) \/ ReadSwitch(c) \/ StoreStatus(c)
                \/ LoadSwitch(c) \/ CommitSwitch(c) \/ InvalidateCache(c)
      PROVE  IInv'
  BY <1>3, SwitchInv
<1>4. ASSUME NEW c \in Callers,
             BeginUpdate(c) \/ LoadState(c) \/ EndStatus(c) \/ EndFailure(c) \/ EndReset(c)
                \/ Die(c)
      PROVE  IInv'
  BY <1>4, BreakerInv
<1> QED
  BY <1>1, <1>2, <1>3, <1>4 DEF Next

-----------------------------------------------------------------------------

\* The inductive invariant.
THEOREM InvariantHolds == Spec => []IInv
<1> QED
  BY InitInv, StepInv, PTL DEF Spec

Timely ==
    \A c \in Callers : PassesSwitch(c) /\ halted => now - since < TTL + MaxRead

LEMMA StepTimely == IInv /\ [Next]_vars => [Timely]_vars
<1> SUFFICES ASSUME IInv, [Next]_vars, NEW c \in Callers, PassesSwitch(c), halted
             PROVE  now - since < TTL + MaxRead
  BY DEF Timely
<1>0. /\ now \in Nat /\ since \in Nat /\ TTL \in Nat \ {0} /\ MaxRead \in Nat
      /\ call \in [Callers -> Call] /\ call[c].time \in Nat
      /\ ProcessOf[c] \in Processes /\ cache[ProcessOf[c]].at \in Nat
      /\ cache[ProcessOf[c]].active \in BOOLEAN /\ call[c].active \in BOOLEAN
  <2>1. cache \in [Processes -> Status] /\ call \in [Callers -> Call]
    BY DEF IInv, TypeOK
  <2>2. cache[ProcessOf[c]] \in Status /\ call[c] \in Call
    BY <2>1, ProcessOfAssumption
  <2> QED
    BY <2>1, <2>2, ConstantsDef, ProcessOfAssumption DEF IInv, TypeOK, Status, Call
<1>1. call[c].at \in {"idle", "reading"} /\ call'[c].at = "waiting" /\ call'[c].op = "status"
  BY DEF PassesSwitch
<1>2. ASSUME NEW d \in Callers, NEW new, Becomes(d, new) PROVE d = c /\ new = call'[c]
  BY <1>0, <1>1, <1>2 DEF Becomes
<1>3. now \in Times
  BY DEF IInv, TypeOK
<1>4. ASSUME NEW d \in Callers, UseCache(d) PROVE now - since < TTL + MaxRead
  <2>1. Becomes(d, AfterSwitch(cache[ProcessOf[d]].active)) /\ CacheIsFresh(ProcessOf[d])
    BY <1>4 DEF UseCache
  <2>2. d = c /\ ~cache[ProcessOf[c]].active
    BY <1>0, <1>1, <1>2, <1>3, <2>1, AfterSwitchDef
  <2> QED
    BY <1>0, <2>1, <2>2 DEF IInv, CacheIsRecent, CacheIsFresh
<1>5. ASSUME NEW d \in Callers, StoreStatus(d) PROVE now - since < TTL + MaxRead
  <2>1. Becomes(d, AfterSwitch(call[d].active)) /\ call[d].at = "reading"
    BY <1>5 DEF StoreStatus
  <2>2. d = c /\ ~call[c].active
    BY <1>0, <1>1, <1>2, <1>3, <2>1, AfterSwitchDef
  <2> QED
    BY <1>0, <2>1, <2>2 DEF IInv, ReadersAreRecent
<1>6. ASSUME NEW d \in Callers, ReadSwitch(d) \/ LoadSwitch(d) PROVE FALSE
  <2>1. \E op, active, time, at : at # "waiting" /\ Becomes(d, CallOf(at, op, active, time))
    BY <1>6 DEF ReadSwitch, LoadSwitch
  <2> QED
    BY <1>1, <1>2, <2>1 DEF CallOf
<1>7. ASSUME NEW d \in Callers, CommitSwitch(d) \/ InvalidateCache(d) \/ LoadState(d)
                                   \/ EndStatus(d) \/ EndFailure(d) \/ EndReset(d)
      PROVE  FALSE
  <2>1. call[d].at \notin {"idle", "reading"} /\ \E new : Becomes(d, new)
    BY <1>7
    DEF CommitSwitch, InvalidateCache, LoadState, EndStatus, EndFailure, EndReset, Leaves, Reports
  <2> QED
    BY <1>1, <1>2, <2>1
<1>8. ASSUME NEW d \in Callers, BeginUpdate(d) PROVE FALSE
  <2>1. \E op \in {"failure", "reset"} : Becomes(d, CallOf("waiting", op, FALSE, now))
    BY <1>8 DEF BeginUpdate
  <2> QED
    BY <1>1, <1>2, <2>1 DEF CallOf
<1>9. ASSUME NEW d \in Callers, Die(d) PROVE FALSE
  BY <1>1, <1>2, <1>9, NoCallDef DEF Die
<1>10. ASSUME Tick \/ UNCHANGED vars PROVE FALSE
  BY <1>1, <1>10 DEF Tick, vars
<1> QED
  BY <1>4, <1>5, <1>6, <1>7, <1>8, <1>9, <1>10 DEF Next

\* No process takes the kill switch for off longer than the cache's life plus
\* one read after it was turned on.
THEOREM HaltsInTime == Spec => HaltIsTimely
<1>1. IInv /\ [Next]_vars =>
        [\A c \in Callers : PassesSwitch(c) /\ halted => now - since < TTL + MaxRead]_vars
  BY StepTimely DEF Timely
<1> QED
  BY <1>1, InvariantHolds, PTL DEF Spec, HaltIsTimely

Stands ==
    \/ \E c \in Callers : EndReset(c) \/ (EndFailure(c) /\ call[c].misread)
    \/ /\ \A t \in Times : file'.failures[t] < file.failures[t] => t + Window < now
       /\ IsActive(file, now) => file'.active /\ file'.until = file.until

LEMMA StepStands == IInv /\ [Next]_vars => [Stands]_vars
<1> SUFFICES ASSUME IInv, [Next]_vars, ~\E c \in Callers : EndReset(c) \/ (EndFailure(c) /\ call[c].misread)
             PROVE  /\ \A t \in Times : file'.failures[t] < file.failures[t] => t + Window < now
                    /\ IsActive(file, now) => file'.active /\ file'.until = file.until
  BY DEF Stands
<1>0. /\ file \in File /\ file.until \in Nat /\ file.active \in BOOLEAN
      /\ file.failures \in [Times -> Nat]
      /\ now \in Nat /\ Window \in Nat /\ Times \subseteq Nat
  BY ConstantsDef DEF IInv, TypeOK, File
<1>1. ASSUME NEW c \in Callers, EndStatus(c), file' # file
      PROVE  /\ \A t \in Times : file'.failures[t] < file.failures[t] => t + Window < now
             /\ IsActive(file, now) => file'.active /\ file'.until = file.until
  <2>0. /\ call[c].state = IF call[c].misread THEN EmptyState ELSE file
        /\ call[c].time \in Nat /\ call[c].time <= now
    BY <1>1, LoadedDef DEF EndStatus, Leaves
  <2>1. /\ call[c].state = file /\ call[c].time \in Nat /\ call[c].time <= now
    BY <1>1, <2>0, EndStatusDef DEF EmptyState
  <2>2. /\ file'.failures = Recent(file.failures, call[c].time)
        /\ ~IsActive(file, call[c].time)
    BY <1>1, <2>1, EndStatusDef
  <2>3. \A t \in Times : file'.failures[t] < file.failures[t] => t + Window < now
    BY <1>0, <2>1, <2>2 DEF Recent
  <2>4. ~IsActive(file, now)
    BY <1>0, <2>1, <2>2 DEF IsActive
  <2> QED
    BY <2>3, <2>4
<1>2. ASSUME NEW c \in Callers, EndFailure(c)
      PROVE  /\ \A t \in Times : file'.failures[t] < file.failures[t] => t + Window < now
             /\ IsActive(file, now) => file'.active /\ file'.until = file.until
  <2> DEFINE time == call[c].time
             recent == Recent(file.failures, time)
  <2>1. call[c].state = file /\ time \in Times /\ time \in Nat /\ time <= now
    BY <1>2, LoadedDef DEF EndFailure, Leaves
  <2>2. PICK trips \in BOOLEAN :
           (trips => ~IsActive(file, time)) /\ file' = FailureFile(file, time, trips)
    BY <1>2, <2>1, EndFailureDef
  <2>3. /\ file'.failures = [recent EXCEPT ![time] = @ + 1]
        /\ file'.active = (file.active \/ trips)
        /\ file'.until = IF trips THEN time + Cooldown ELSE file.until
    BY <2>2 DEF FailureFile
  <2>4. /\ recent \in [Times -> Nat]
        /\ \A t \in Times : recent[t] # file.failures[t] => t + Window < time
    <3>1. recent \in [Times -> Nat]
      BY <1>0, <2>1, RecentDef
    <3>2. \A t \in Times : recent[t] # file.failures[t] => t + Window < time
      BY <1>0, <2>1 DEF Recent
    <3> QED
      BY <3>1, <3>2
  <2> HIDE DEF time, recent
  <2>5. \A t \in Times : file'.failures[t] < file.failures[t] => t + Window < now
    <3> SUFFICES ASSUME NEW t \in Times, file'.failures[t] < file.failures[t]
                 PROVE  t + Window < now
      OBVIOUS
    <3>1. recent[t] \in Nat /\ file.failures[t] \in Nat /\ t \in Nat
      BY <1>0, <2>4
    <3>2. file'.failures[t] = recent[t] \/ file'.failures[t] = recent[t] + 1
      BY <2>3, <2>4
    <3>3. recent[t] # file.failures[t]
      BY <3>1, <3>2
    <3> QED
      BY <1>0, <2>1, <2>4, <3>1, <3>3
  <2>6. IsActive(file, now) => IsActive(file, time) /\ file.active
    BY <1>0, <2>1 DEF IsActive
  <2> QED
    BY <2>2, <2>3, <2>5, <2>6
<1>3. ASSUME file' = file
      PROVE  /\ \A t \in Times : file'.failures[t] < file.failures[t] => t + Window < now
             /\ IsActive(file, now) => file'.active /\ file'.until = file.until
  <2>1. \A t \in Times : file.failures[t] \in Nat
    BY <1>0
  <2> QED
    BY <1>3, <2>1 DEF IsActive
<1>4. \/ file' = file
      \/ \E c \in Callers : EndStatus(c) \/ EndFailure(c)
  <2>1. ASSUME NEW c \in Callers,
               UseCache(c) \/ ReadSwitch(c) \/ StoreStatus(c) \/ LoadSwitch(c)
                  \/ CommitSwitch(c) \/ InvalidateCache(c)
        PROVE  file' = file
    BY <2>1 DEF UseCache, ReadSwitch, StoreStatus, LoadSwitch, CommitSwitch, InvalidateCache
  <2>2. ASSUME NEW c \in Callers, BeginUpdate(c) \/ LoadState(c) \/ Die(c) PROVE file' = file
    BY <2>2 DEF BeginUpdate, LoadState, Die
  <2>3. ASSUME Tick \/ UNCHANGED vars PROVE file' = file
    BY <2>3 DEF Tick, vars
  <2> QED
    BY <2>1, <2>2, <2>3 DEF Next
<1> QED
  BY <1>1, <1>2, <1>3, <1>4

\* No failure recorded in its window is lost, and no activation is cut short,
\* however many processes write the file, as long as each can read it.
THEOREM BreakerHolds == Spec => BreakerStands
<1>1. IInv /\ [Next]_vars =>
        [\/ \E c \in Callers : EndReset(c) \/ (EndFailure(c) /\ call[c].misread)
         \/ /\ \A t \in Times : file'.failures[t] < file.failures[t] => t + Window < now
            /\ IsActive(file, now) => file'.active /\ file'.until = file.until]_vars
  BY StepStands DEF Stands
<1> QED
  BY <1>1, InvariantHolds, PTL DEF Spec, BreakerStands

\* Every variable has its type.
THEOREM TypeCorrect == Spec => []TypeOK
<1>1. IInv => TypeOK
  BY DEF IInv
<1> QED
  BY <1>1, InvariantHolds, PTL
=============================================================================
