------------------------ MODULE PositionExit_proofs ------------------------
(***************************************************************************)
(* Proofs about position exits for any positions, any number of calls and  *)
(* any lot size, with crashes, lost answers and misrouted lookups.         *)
(*                                                                         *)
(* The argument: a call between its claim and its request is the only one  *)
(* there for its position, and nothing was sent for it yet; whatever was   *)
(* sent finds its row claimed.  The claim is never given back, so no       *)
(* second call gets that far.                                              *)
(***************************************************************************)
EXTENDS PositionExit, TLAPS

AtWork == {"claiming", "sending", "placing", "storing", "querying"}

\* What a call under way holds in its local variables.
CallsAreSound ==
    \A c \in Callers :
        /\ call[c].at \in AtWork => call[c].pos \in LivePositions /\ call[c].by = "exit"
        /\ call[c].at \in {"closing", "writing"} => call[c].pos \in Positions
        /\ call[c].at = "evidencing" => call[c].pos \in Positions \ LivePositions
        /\ call[c].at \in {"storing", "querying"} =>
              call[c].id \in BrokerIds /\ book[call[c].id].owner = call[c].pos

\* The claim admits one sender, and nothing was sent before it.
OneSender ==
    \A c \in Callers : call[c].at = "sending" =>
        /\ rows[call[c].pos].claimed
        /\ \A b \in BrokerIds : book[b].owner # call[c].pos
        /\ \A d \in Callers : call[d].at = "sending" /\ call[d].pos = call[c].pos => d = c

SoldWhole(p) == \E b \in BrokerIds : book[b].owner = p /\ book[b].filled = Lot

\* A call on its way to close a LIVE position as exited has seen it sold.
ClosersSawFill ==
    \A c \in Callers :
        call[c].at \in {"closing", "writing"} /\ call[c].by = "exit"
            /\ call[c].pos \in LivePositions
        => SoldWhole(call[c].pos)

\* An order that was not sent belongs to nobody.
UnusedIsNobodys == \A b \in BrokerIds : book[b].status = "unused" => book[b].owner = NoPosition

IInv ==
    /\ TypeOK
    /\ UnusedIsNobodys
    /\ CallsAreSound
    /\ OneSender
    /\ ClosersSawFill
    /\ OneExitPerPosition
    /\ ExitCloseIsWhole
    /\ ExitIdentity

-----------------------------------------------------------------------------
(* What changes when one call, one row or one order does.                  *)

CallBecomes(c, new) ==
    /\ call' \in [Callers -> Call]
    /\ call'[c] = new
    /\ \A d \in Callers \ {c} : call'[d] = call[d]

RowBecomes(p, new) ==
    /\ rows' \in [Positions -> Row]
    /\ rows'[p] = new
    /\ \A q \in Positions \ {p} : rows'[q] = rows[q]

OrderBecomes(b, new) ==
    /\ book' \in [BrokerIds -> ExitOrder]
    /\ book'[b] = new
    /\ \A a \in BrokerIds \ {b} : book'[a] = book[a]

LEMMA CallSet ==
    ASSUME IInv, NEW c \in Callers, NEW new \in Call, call' = [call EXCEPT ![c] = new]
    PROVE  CallBecomes(c, new)
  BY DEF IInv, TypeOK, CallBecomes

\* A call that goes on keeps its local variables.
LEMMA GoesDef ==
    ASSUME IInv, NEW c \in Callers, NEW from, NEW to \in CallAt, Goes(c, from, to)
    PROVE  \E new \in Call :
              /\ CallBecomes(c, new)
              /\ new.at = to /\ new.pos = call[c].pos /\ new.by = call[c].by /\ new.id = call[c].id
<1>1. call \in [Callers -> Call]
  BY DEF IInv, TypeOK
<1>2. call' = [call EXCEPT ![c].at = to]
  BY DEF Goes
<1>3. /\ call' \in [Callers -> Call]
      /\ call'[c].at = to /\ call'[c].pos = call[c].pos
      /\ call'[c].by = call[c].by /\ call'[c].id = call[c].id
      /\ \A d \in Callers \ {c} : call'[d] = call[d]
  BY <1>1, <1>2 DEF Call
<1> QED
  BY <1>3 DEF CallBecomes


LEMMA NoCallDef == NoCall \in Call /\ NoCall.at = "idle"
  BY DEF NoCall, Call, CallAt

LEMMA InitInv == Init => IInv
<1> SUFFICES ASSUME Init PROVE IInv
  OBVIOUS
<1>1. /\ rows \in [Positions -> Row]
      /\ \A p \in Positions : rows[p].exitId = NoId /\ rows[p].reason = "none"
  BY DEF Init, Row
<1>2. book \in [BrokerIds -> ExitOrder] /\ \A b \in BrokerIds : book[b].owner = NoPosition
  <2>1. Other \in ExitOrder /\ Unused \in ExitOrder
    BY LotAssumption DEF Other, Unused, ExitOrder, Unplaced, Working
  <2>2. Other.owner = NoPosition /\ Unused.owner = NoPosition
    BY DEF Other, Unused
  <2> QED
    BY <2>1, <2>2 DEF Init
<1>3. call \in [Callers -> Call] /\ \A c \in Callers : call[c].at = "idle"
  BY NoCallDef DEF Init
<1>4. evidence = {}
  BY DEF Init
<1>5. TypeOK
  BY <1>1, <1>2, <1>3, <1>4 DEF TypeOK
<1>6. CallsAreSound /\ OneSender /\ ClosersSawFill
  BY <1>3 DEF CallsAreSound, OneSender, ClosersSawFill, AtWork
<1>7. UnusedIsNobodys /\ OneExitPerPosition /\ ExitCloseIsWhole
  BY <1>1, <1>2, LiveAssumption DEF UnusedIsNobodys, OneExitPerPosition, ExitCloseIsWhole
<1>8. ExitIdentity
  BY <1>1, <1>2, NoneAssumption DEF ExitIdentity
<1> QED
  BY <1>5, <1>6, <1>7, <1>8 DEF IInv

-----------------------------------------------------------------------------
(* Steps that change a call and nothing else.                              *)

\* A call that ends, dies or goes on to a new control point.
LEMMA CallMoves ==
    ASSUME IInv, NEW c \in Callers, NEW new \in Call,
           CallBecomes(c, new),
           UNCHANGED <<rows, evidence, book>>,
           new.at # "sending",
           new.at \in AtWork => new.pos \in LivePositions /\ new.by = "exit",
           new.at \in {"closing", "writing"} => new.pos \in Positions,
           new.at = "evidencing" => new.pos \in Positions \ LivePositions,
           new.at \in {"storing", "querying"} =>
              new.id \in BrokerIds /\ book[new.id].owner = new.pos,
           new.at \in {"closing", "writing"} /\ new.by = "exit" /\ new.pos \in LivePositions
              => SoldWhole(new.pos)
    PROVE  IInv'
<1>1. /\ call' \in [Callers -> Call]
      /\ call'[c] = new
      /\ \A d \in Callers \ {c} : call'[d] = call[d]
  BY DEF CallBecomes
<1>2. TypeOK' /\ UnusedIsNobodys' /\ OneExitPerPosition' /\ ExitCloseIsWhole' /\ ExitIdentity'
  BY <1>1
  DEF IInv, TypeOK, UnusedIsNobodys, OneExitPerPosition, ExitCloseIsWhole, ExitIdentity
<1>3. CallsAreSound'
  BY <1>1 DEF IInv, CallsAreSound
<1>4. OneSender'
  BY <1>1 DEF IInv, OneSender
<1>5. ClosersSawFill'
  BY <1>1 DEF IInv, ClosersSawFill, SoldWhole
<1> QED
  BY <1>2, <1>3, <1>4, <1>5 DEF IInv

LEMMA EndsInv ==
    ASSUME IInv, NEW c \in Callers, NEW from, Ends(c, from), UNCHANGED <<rows, evidence, book>>
    PROVE  IInv'
  BY CallMoves, CallSet, NoCallDef DEF Ends, AtWork

LEMMA CrashInv == ASSUME IInv, NEW c \in Callers, Crash(c) PROVE IInv'
<1> DEFINE new == [NoCall EXCEPT !.at = "crashed"]
<1>1. new \in Call /\ new.at = "crashed"
  BY DEF NoCall, Call, CallAt
<1>2. call' = [call EXCEPT ![c] = new] /\ UNCHANGED <<rows, evidence, book>>
  BY DEF Crash
<1> HIDE DEF new
<1> QED
  BY <1>1, <1>2, CallSet, CallMoves DEF AtWork

\* A call that starts with what it read.
LEMMA BeginsInv ==
    ASSUME IInv, NEW c \in Callers, NEW at \in CallAt, NEW p \in Positions,
           NEW by \in {"exit", "swept"}, NEW id \in BrokerIds \cup {NoId},
           Begins(c, at, p, by, id), UNCHANGED <<rows, evidence, book>>,
           at \notin {"sending", "evidencing"},
           at \in AtWork => p \in LivePositions /\ by = "exit",
           at \in {"storing", "querying"} => id \in BrokerIds /\ book[id].owner = p,
           at \in {"closing", "writing"} => by = "swept" \/ p \notin LivePositions
    PROVE  IInv'
<1> DEFINE new == [at |-> at, pos |-> p, by |-> by, id |-> id]
<1>1. /\ new \in Call
      /\ new.at = at /\ new.pos = p /\ new.by = by /\ new.id = id
  BY DEF Call
<1>2. call' = [call EXCEPT ![c] = new]
  BY DEF Begins
<1> HIDE DEF new
<1> QED
  BY <1>1, <1>2, CallSet, CallMoves

LEMMA ReadPositionInv ==
    ASSUME IInv, NEW c \in Callers, NEW p \in Positions, ReadPosition(c, p)
    PROVE  IInv'
<1>1. rows[p].exitId \in BrokerIds \cup {NoId}
  BY DEF IInv, TypeOK, Row
<1>2. CASE p \notin LivePositions /\ Begins(c, "closing", p, "exit", NoId)
  BY <1>2, BeginsInv DEF ReadPosition, AtWork, CallAt
<1>3. CASE /\ p \in LivePositions
           /\ rows[p].exitId # NoId
           /\ Begins(c, "querying", p, "exit", rows[p].exitId)
  <2>1. rows[p].exitId \in BrokerIds /\ book[rows[p].exitId].owner = p
    BY <1>1, <1>3 DEF IInv, ExitIdentity
  <2> QED
    BY <1>3, <2>1, BeginsInv DEF ReadPosition, AtWork, CallAt
<1>4. CASE p \in LivePositions /\ Begins(c, "claiming", p, "exit", NoId)
  BY <1>4, BeginsInv DEF ReadPosition, AtWork, CallAt
<1> QED
  BY <1>2, <1>3, <1>4 DEF ReadPosition

LEMMA CondemnInv ==
    ASSUME IInv, NEW c \in Callers, NEW p \in Positions, Condemn(c, p)
    PROVE  IInv'
  BY BeginsInv DEF Condemn, AtWork, CallAt

LEMMA PlacementAckedInv == ASSUME IInv, NEW c \in Callers, PlacementAcked(c) PROVE IInv'
<1>1. call[c].pos \in LivePositions
  BY DEF IInv, CallsAreSound, PlacementAcked, AtWork
<1>2. PICK b \in BrokerIds :
        book[b].owner = call[c].pos /\ Begins(c, "storing", call[c].pos, "exit", b)
  BY DEF PlacementAcked
<1> QED
  BY <1>1, <1>2, LiveAssumption, BeginsInv DEF PlacementAcked, AtWork, CallAt

\* A lookup that proves the exit is about a broker order that was filled whole.
LEMMA JudgeInv ==
    ASSUME IInv, NEW c \in Callers, call[c].at = "querying",
           NEW r \in RepliesAbout(call[c].id), Judge(c, r)
    PROVE  IInv'
<1>1. CASE ~ProvesExit(r, call[c].id)
  BY <1>1, EndsInv DEF Judge
<1>2. CASE ProvesExit(r, call[c].id)
  <2>1. /\ call[c].pos \in LivePositions
        /\ call[c].id \in BrokerIds /\ book[call[c].id].owner = call[c].pos
    BY DEF IInv, CallsAreSound, AtWork
  <2>2. book[call[c].id].filled = Lot
    BY <1>2, LotAssumption DEF ProvesExit, RepliesAbout
  <2>3. SoldWhole(call[c].pos)
    BY <2>1, <2>2 DEF SoldWhole
  <2>4. PICK new \in Call :
          /\ CallBecomes(c, new)
          /\ new.at = "closing" /\ new.pos = call[c].pos
    BY <1>2, GoesDef DEF Judge, CallAt
  <2> QED
    BY <2>1, <2>3, <2>4, LiveAssumption, CallMoves DEF Judge, AtWork
<1> QED
  BY <1>1, <1>2

LEMMA FindOpenInv == ASSUME IInv, NEW c \in Callers, FindOpen(c) PROVE IInv'
<1>1. CASE Ends(c, "closing")
  BY <1>1, EndsInv DEF FindOpen
<1>2. CASE Goes(c, "closing", "writing")
  <2>1. PICK new \in Call :
          /\ CallBecomes(c, new)
          /\ new.at = "writing" /\ new.pos = call[c].pos /\ new.by = call[c].by
    BY <1>2, GoesDef DEF CallAt
  <2>2. /\ call[c].pos \in Positions
        /\ call[c].by = "exit" /\ call[c].pos \in LivePositions => SoldWhole(call[c].pos)
    BY DEF IInv, CallsAreSound, ClosersSawFill, FindOpen
  <2> QED
    BY <2>1, <2>2, CallMoves DEF FindOpen, AtWork
<1> QED
  BY <1>1, <1>2 DEF FindOpen

-----------------------------------------------------------------------------
(* Steps that write the row.                                               *)

\* A row that keeps its claim, and whose order id and reason are true.
LEMMA RowWritten ==
    ASSUME IInv, NEW p \in Positions, NEW row \in Row,
           RowBecomes(p, row), UNCHANGED book,
           rows[p].claimed => row.claimed,
           \A b \in BrokerIds : row.exitId = b => book[b].owner = p,
           p \in LivePositions /\ row.reason = "exit" => SoldWhole(p)
    PROVE  /\ rows' \in [Positions -> Row]
           /\ \A q \in Positions : rows[q].claimed => rows'[q].claimed
           /\ UnusedIsNobodys' /\ OneExitPerPosition' /\ ExitCloseIsWhole' /\ ExitIdentity'
<1>1. /\ rows' \in [Positions -> Row]
      /\ rows'[p] = row
      /\ \A q \in Positions \ {p} : rows'[q] = rows[q]
  BY DEF RowBecomes
<1>2. \A q \in Positions : rows[q].claimed => rows'[q].claimed
  BY <1>1
<1>3. UnusedIsNobodys' /\ OneExitPerPosition'
  BY DEF IInv, UnusedIsNobodys, OneExitPerPosition
<1>4. ExitCloseIsWhole'
  BY <1>1, LiveAssumption DEF IInv, ExitCloseIsWhole, SoldWhole
<1>5. ExitIdentity'
  BY <1>1, <1>2 DEF IInv, ExitIdentity
<1> QED
  BY <1>1, <1>2, <1>3, <1>4, <1>5

LEMMA ClaimExitInv == ASSUME IInv, NEW c \in Callers, ClaimExit(c) PROVE IInv'
<1> DEFINE p == call[c].pos
           row == [open |-> rows[p].open, claimed |-> TRUE, exitId |-> rows[p].exitId,
                   reason |-> rows[p].reason]
<1>1. CASE Ends(c, "claiming") /\ UNCHANGED <<rows, evidence, book>>
  BY <1>1, EndsInv
<1>2. CASE /\ Goes(c, "claiming", "sending")
           /\ CanClaimExit(rows[p])
           /\ rows' = [rows EXCEPT ![p].claimed = TRUE]
           /\ UNCHANGED <<evidence, book>>
  <2>1. call[c].at = "claiming" /\ p \in LivePositions /\ call[c].by = "exit" /\ p \in Positions
    BY <1>2, LiveAssumption DEF Goes, IInv, CallsAreSound, AtWork
  <2>2. rows[p] \in Row /\ ~rows[p].claimed /\ rows[p].exitId = NoId
    BY <1>2, <2>1 DEF CanClaimExit, IInv, TypeOK
  <2>3. row \in Row /\ RowBecomes(p, row)
    <3>1. row \in Row
      BY <2>2 DEF Row
    <3>2. rows'[p] = row
      BY <1>2, <2>1, <2>2 DEF IInv, TypeOK, Row
    <3> QED
      BY <1>2, <3>1, <3>2 DEF RowBecomes, IInv, TypeOK
  <2>4. p \in LivePositions /\ row.reason = "exit" => SoldWhole(p)
    BY <2>1 DEF IInv, ExitCloseIsWhole, SoldWhole
  <2>5. /\ rows' \in [Positions -> Row]
        /\ \A q \in Positions : rows[q].claimed => rows'[q].claimed
        /\ UnusedIsNobodys' /\ OneExitPerPosition' /\ ExitCloseIsWhole' /\ ExitIdentity'
    <3> HIDE DEF p
    <3>1. \A b \in BrokerIds : row.exitId = b => book[b].owner = p
      BY <2>2, NoneAssumption
    <3>2. row.claimed
      OBVIOUS
    <3> HIDE DEF row
    <3> QED
      BY <1>2, <2>1, <2>3, <2>4, <3>1, <3>2, RowWritten
  <2>6. rows'[p].claimed
    BY <2>3 DEF RowBecomes
  <2>7. PICK new \in Call :
          /\ CallBecomes(c, new)
          /\ new.at = "sending" /\ new.pos = p /\ new.by = "exit"
    BY <1>2, <2>1, GoesDef DEF CallAt
  <2>8. /\ call' \in [Callers -> Call]
        /\ call'[c] = new
        /\ \A d \in Callers \ {c} : call'[d] = call[d]
    BY <2>7 DEF CallBecomes
  <2>9. TypeOK'
    BY <1>2, <2>5, <2>8 DEF IInv, TypeOK
  <2>10. CallsAreSound'
    BY <1>2, <2>1, <2>7, <2>8 DEF IInv, CallsAreSound, AtWork
  <2>11. ClosersSawFill'
    BY <1>2, <2>7, <2>8 DEF IInv, ClosersSawFill, SoldWhole
  <2>12. OneSender'
    <3>1. \A b \in BrokerIds : book[b].owner # p
      BY <2>1, <2>2 DEF IInv, ExitIdentity
    <3>2. \A d \in Callers : call[d].at = "sending" => call[d].pos # p /\ call[d].pos \in Positions
      BY <2>2, LiveAssumption DEF IInv, OneSender, CallsAreSound, AtWork
    <3> HIDE DEF p
    <3> QED
      BY <1>2, <2>5, <2>6, <2>7, <2>8, <3>1, <3>2 DEF IInv, OneSender
  <2> QED
    BY <2>5, <2>9, <2>10, <2>11, <2>12 DEF IInv
<1> QED
  BY <1>1, <1>2 DEF ClaimExit

LEMMA StoreExitIdInv == ASSUME IInv, NEW c \in Callers, StoreExitId(c) PROVE IInv'
<1> DEFINE p == call[c].pos
           row == [open |-> rows[p].open, claimed |-> rows[p].claimed, exitId |-> call[c].id,
                   reason |-> rows[p].reason]
<1>1. CASE Ends(c, "storing") /\ UNCHANGED <<rows, evidence, book>>
  BY <1>1, EndsInv
<1>2. CASE /\ Goes(c, "storing", "querying")
           /\ rows' = [rows EXCEPT ![p].exitId = call[c].id]
           /\ UNCHANGED <<evidence, book>>
  <2>1. /\ p \in LivePositions /\ call[c].by = "exit" /\ p \in Positions
        /\ call[c].id \in BrokerIds /\ book[call[c].id].owner = p
    BY <1>2, LiveAssumption DEF Goes, IInv, CallsAreSound, AtWork
  <2>2. rows[p] \in Row
    BY <2>1 DEF IInv, TypeOK
  <2>3. row \in Row /\ RowBecomes(p, row)
    <3>1. row \in Row
      BY <2>1, <2>2 DEF Row
    <3>2. rows'[p] = row
      BY <1>2, <2>1, <2>2 DEF IInv, TypeOK, Row
    <3> QED
      BY <1>2, <3>1, <3>2 DEF RowBecomes, IInv, TypeOK
  <2>4. p \in LivePositions /\ row.reason = "exit" => SoldWhole(p)
    BY <2>1 DEF IInv, ExitCloseIsWhole, SoldWhole
  <2>5. /\ rows' \in [Positions -> Row]
        /\ \A q \in Positions : rows[q].claimed => rows'[q].claimed
        /\ UnusedIsNobodys' /\ OneExitPerPosition' /\ ExitCloseIsWhole' /\ ExitIdentity'
    <3> HIDE DEF p
    <3>1. \A b \in BrokerIds : row.exitId = b => book[b].owner = p
      BY <2>1
    <3>2. rows[p].claimed => row.claimed
      OBVIOUS
    <3> HIDE DEF row
    <3> QED
      BY <1>2, <2>1, <2>3, <2>4, <3>1, <3>2, RowWritten
  <2>6. PICK new \in Call :
          /\ CallBecomes(c, new)
          /\ new.at = "querying" /\ new.pos = p /\ new.by = "exit" /\ new.id = call[c].id
    BY <1>2, <2>1, GoesDef DEF CallAt
  <2>7. /\ call' \in [Callers -> Call]
        /\ call'[c] = new
        /\ \A d \in Callers \ {c} : call'[d] = call[d]
    BY <2>6 DEF CallBecomes
  <2>8. TypeOK'
    BY <1>2, <2>5, <2>7 DEF IInv, TypeOK
  <2>9. CallsAreSound'
    BY <1>2, <2>1, <2>6, <2>7 DEF IInv, CallsAreSound, AtWork
  <2>10. ClosersSawFill'
    BY <1>2, <2>6, <2>7 DEF IInv, ClosersSawFill, SoldWhole
  <2>11. OneSender'
    <3>1. \A d \in Callers : call[d].at = "sending" => call[d].pos \in Positions
      BY LiveAssumption DEF IInv, CallsAreSound, AtWork
    <3> HIDE DEF p
    <3> QED
      BY <1>2, <2>5, <2>6, <2>7, <3>1 DEF IInv, OneSender
  <2> QED
    BY <2>5, <2>8, <2>9, <2>10, <2>11 DEF IInv
<1> QED
  BY <1>1, <1>2 DEF StoreExitId

LEMMA CloseRowInv == ASSUME IInv, NEW c \in Callers, CloseRow(c) PROVE IInv'
<1> DEFINE p == call[c].pos
           row == [open |-> FALSE, claimed |-> rows[p].claimed, exitId |-> rows[p].exitId,
                   reason |-> call[c].by]
<1>1. call[c].at = "writing" /\ p \in Positions /\ UNCHANGED <<evidence, book>>
  BY DEF CloseRow, IInv, CallsAreSound
<1>2. rows[p] \in Row /\ call[c] \in Call
  BY <1>1 DEF IInv, TypeOK
<1>3. row \in Row /\ RowBecomes(p, row)
  <2>1. row \in Row
    BY <1>2 DEF Row, Call
  <2>2. rows' = [rows EXCEPT ![p] = row]
    BY <1>2 DEF CloseRow
  <2> QED
    BY <1>1, <2>1, <2>2 DEF RowBecomes, IInv, TypeOK
<1>4. p \in LivePositions /\ row.reason = "exit" => SoldWhole(p)
  BY <1>1 DEF IInv, ClosersSawFill
<1>5. /\ rows' \in [Positions -> Row]
      /\ \A q \in Positions : rows[q].claimed => rows'[q].claimed
      /\ UnusedIsNobodys' /\ OneExitPerPosition' /\ ExitCloseIsWhole' /\ ExitIdentity'
  <2>1. \A b \in BrokerIds : rows[p].exitId = b => book[b].owner = p
    BY <1>1 DEF IInv, ExitIdentity
  <2>2. (rows[p].claimed => row.claimed) /\ row.exitId = rows[p].exitId
    OBVIOUS
  <2> HIDE DEF p, row
  <2> QED
    BY <1>1, <1>3, <1>4, <2>1, <2>2, RowWritten
<1>6. PICK new \in Call :
        /\ CallBecomes(c, new)
        /\ \/ new.at = "idle"
           \/ new.at = "evidencing" /\ new.pos = p /\ p \notin LivePositions
  <2>1. CASE p \notin LivePositions /\ call[c].by = "exit"
    BY <2>1, GoesDef DEF CloseRow, CallAt
  <2>2. CASE ~(p \notin LivePositions /\ call[c].by = "exit")
    BY <2>2, NoCallDef, CallSet DEF CloseRow, Ends
  <2> QED
    BY <2>1, <2>2
<1>7. /\ call' \in [Callers -> Call]
      /\ call'[c] = new
      /\ \A d \in Callers \ {c} : call'[d] = call[d]
  BY <1>6 DEF CallBecomes
<1>8. TypeOK'
  BY <1>1, <1>5, <1>7 DEF IInv, TypeOK
<1>9. CallsAreSound'
  BY <1>1, <1>6, <1>7 DEF IInv, CallsAreSound, AtWork
<1>10. ClosersSawFill'
  BY <1>1, <1>6, <1>7 DEF IInv, ClosersSawFill, SoldWhole
<1>11. OneSender'
  <2>1. \A d \in Callers : call[d].at = "sending" => call[d].pos \in Positions
    BY LiveAssumption DEF IInv, CallsAreSound, AtWork
  <2> HIDE DEF p
  <2> QED
    BY <1>1, <1>5, <1>6, <1>7, <2>1 DEF IInv, OneSender
<1> QED
  BY <1>5, <1>8, <1>9, <1>10, <1>11 DEF IInv

LEMMA CloseEvidenceInv == ASSUME IInv, NEW c \in Callers, CloseEvidence(c) PROVE IInv'
<1>1. /\ call[c].pos \in Positions \ LivePositions
      /\ call' = [call EXCEPT ![c] = NoCall]
      /\ evidence' = evidence \cup {call[c].pos}
      /\ UNCHANGED <<rows, book>>
  BY DEF CloseEvidence, Ends, IInv, CallsAreSound
<1>2. /\ call' \in [Callers -> Call]
      /\ call'[c].at = "idle"
      /\ \A d \in Callers \ {c} : call'[d] = call[d]
  BY <1>1, NoCallDef DEF IInv, TypeOK
<1>3. TypeOK' /\ UnusedIsNobodys' /\ OneExitPerPosition' /\ ExitCloseIsWhole' /\ ExitIdentity'
  BY <1>1, <1>2
  DEF IInv, TypeOK, UnusedIsNobodys, OneExitPerPosition, ExitCloseIsWhole, ExitIdentity
<1> QED
  BY <1>1, <1>2, <1>3 DEF IInv, CallsAreSound, OneSender, ClosersSawFill, SoldWhole, AtWork

-----------------------------------------------------------------------------
(* Steps that change the broker's book.                                    *)

LEMMA SendExitInv == ASSUME IInv, NEW c \in Callers, SendExit(c) PROVE IInv'
<1> DEFINE p == call[c].pos
           sent == [owner |-> p, filled |-> 0, status |-> "inflight"]
<1>1. call[c].at = "sending" /\ p \in LivePositions /\ call[c].by = "exit" /\ p \in Positions
  BY LiveAssumption DEF SendExit, Goes, IInv, CallsAreSound, AtWork
<1>2. /\ rows[p].claimed
      /\ \A b \in BrokerIds : book[b].owner # p
      /\ \A d \in Callers : call[d].at = "sending" /\ call[d].pos = p => d = c
  BY <1>1 DEF IInv, OneSender
<1>3. PICK b \in BrokerIds : book[b].status = "unused" /\ book' = [book EXCEPT ![b] = sent]
  BY DEF SendExit
<1>4. sent \in ExitOrder
  BY <1>1, LotAssumption DEF ExitOrder, Unplaced
<1>5. /\ book' \in [BrokerIds -> ExitOrder]
      /\ book'[b].owner = p
      /\ \A a \in BrokerIds \ {b} : book'[a] = book[a]
  BY <1>3, <1>4 DEF IInv, TypeOK
<1>6. PICK new \in Call :
        /\ CallBecomes(c, new)
        /\ new.at = "placing" /\ new.pos = p /\ new.by = "exit"
  BY <1>1, GoesDef DEF SendExit, CallAt
<1>7. /\ call' \in [Callers -> Call]
      /\ call'[c] = new
      /\ \A d \in Callers \ {c} : call'[d] = call[d]
  BY <1>6 DEF CallBecomes
<1>8. UNCHANGED <<rows, evidence>>
  BY DEF SendExit
<1>9. TypeOK'
  BY <1>5, <1>7, <1>8 DEF IInv, TypeOK
<1>10. book[b].owner = NoPosition /\ NoPosition \notin Positions
  BY <1>3, NoneAssumption DEF IInv, UnusedIsNobodys
<1>11. UnusedIsNobodys'
  <2>1. book'[b].status = "inflight"
    BY <1>3 DEF IInv, TypeOK
  <2> QED
    BY <1>5, <2>1 DEF IInv, UnusedIsNobodys
<1>12. OneExitPerPosition'
  <2> HIDE DEF p
  <2> QED
    BY <1>2, <1>5 DEF IInv, OneExitPerPosition
<1>13. ExitIdentity'
  BY <1>2, <1>5, <1>8, <1>10 DEF IInv, ExitIdentity
<1>14. \A q \in Positions : SoldWhole(q) => SoldWhole(q)'
  BY <1>5, <1>10 DEF SoldWhole
<1>15. ExitCloseIsWhole'
  <2>1. \A q \in LivePositions : rows[q].reason = "exit" => SoldWhole(q)
    BY DEF IInv, ExitCloseIsWhole, SoldWhole
  <2> QED
    BY <1>8, <1>14, <2>1, LiveAssumption DEF ExitCloseIsWhole, SoldWhole
<1>16. CallsAreSound'
  <2>1. \A d \in Callers : call[d].at \in {"storing", "querying"} =>
          call[d].id \in BrokerIds \ {b} /\ book[call[d].id].owner = call[d].pos
    BY <1>10, LiveAssumption DEF IInv, CallsAreSound, AtWork
  <2> HIDE DEF p
  <2> QED
    BY <1>1, <1>5, <1>6, <1>7, <2>1 DEF IInv, CallsAreSound, AtWork
<1>17. OneSender'
  <2>1. \A d \in Callers \ {c} : call[d].at = "sending" => call[d].pos # p
    BY <1>2
  <2> HIDE DEF p
  <2> QED
    BY <1>5, <1>6, <1>7, <1>8, <2>1 DEF IInv, OneSender
<1>18. ClosersSawFill'
  BY <1>6, <1>7, <1>14, LiveAssumption DEF IInv, ClosersSawFill
<1> QED
  BY <1>9, <1>11, <1>12, <1>13, <1>15, <1>16, <1>17, <1>18 DEF IInv

\* An order the broker knows of keeps its owner and what it has filled.
LEMMA OrderMoves ==
    ASSUME IInv, NEW b \in BrokerIds, NEW new \in ExitOrder,
           OrderBecomes(b, new), UNCHANGED <<rows, evidence, call>>,
           new.owner = book[b].owner, new.status # "unused",
           book[b].filled = Lot => new.filled = Lot
    PROVE  IInv'
<1>1. /\ book' \in [BrokerIds -> ExitOrder]
      /\ book'[b] = new
      /\ \A a \in BrokerIds \ {b} : book'[a] = book[a]
  BY DEF OrderBecomes
<1>2. \A a \in BrokerIds : book'[a].owner = book[a].owner
  BY <1>1
<1>3. \A q \in LivePositions : SoldWhole(q) => SoldWhole(q)'
  BY <1>1, <1>2 DEF SoldWhole
<1>4. TypeOK' /\ UnusedIsNobodys'
  BY <1>1 DEF IInv, TypeOK, UnusedIsNobodys
<1>5. OneExitPerPosition' /\ ExitIdentity'
  BY <1>2 DEF IInv, OneExitPerPosition, ExitIdentity
<1>6. ExitCloseIsWhole' /\ ClosersSawFill'
  <2>1. ClosersSawFill'
    BY <1>3 DEF IInv, ClosersSawFill
  <2>2. \A q \in LivePositions : rows[q].reason = "exit" => SoldWhole(q)
    BY DEF IInv, ExitCloseIsWhole, SoldWhole
  <2>3. ExitCloseIsWhole'
    BY <1>3, <2>2 DEF ExitCloseIsWhole, SoldWhole
  <2> QED
    BY <2>1, <2>3
<1>7. CallsAreSound' /\ OneSender'
  BY <1>2 DEF IInv, CallsAreSound, OneSender, AtWork
<1> QED
  BY <1>4, <1>5, <1>6, <1>7 DEF IInv

LEMMA BrokerInv ==
    ASSUME IInv, NEW b \in BrokerIds, BrokerAccepts(b) \/ BrokerFills(b) \/ BrokerEnds(b)
    PROVE  IInv'
<1>1. book[b] \in ExitOrder /\ DOMAIN book = BrokerIds
  BY DEF IInv, TypeOK
<1>2. CASE BrokerFills(b)
  <2>1. PICK n \in book[b].filled + 1 .. Lot :
          book' = [book EXCEPT ![b] =
              [owner |-> book[b].owner, filled |-> n,
               status |-> IF n = Lot THEN "filled" ELSE "partially_filled"]]
    BY <1>1, <1>2 DEF BrokerFills
  <2> DEFINE new == [owner |-> book[b].owner, filled |-> n,
                     status |-> IF n = Lot THEN "filled" ELSE "partially_filled"]
  <2>2. book[b].filled \in 0 .. Lot /\ n \in 0 .. Lot /\ book[b].filled # Lot
    BY <1>1, <2>1, LotAssumption DEF ExitOrder
  <2>3. new \in ExitOrder /\ new.owner = book[b].owner /\ new.status # "unused"
    BY <1>1, <2>2 DEF ExitOrder, Working
  <2>4. OrderBecomes(b, new)
    BY <2>1, <2>3 DEF OrderBecomes, IInv, TypeOK
  <2> HIDE DEF new
  <2> QED
    BY <1>2, <2>2, <2>3, <2>4, OrderMoves DEF BrokerFills
<1>3. CASE BrokerAccepts(b) \/ BrokerEnds(b)
  <2>1. PICK s \in {"open", "rejected", "lost", "cancelled"} : book' = [book EXCEPT ![b].status = s]
    BY <1>3 DEF BrokerAccepts, BrokerEnds
  <2> DEFINE new == [owner |-> book[b].owner, filled |-> book[b].filled, status |-> s]
  <2>2. new \in ExitOrder
    BY <1>1 DEF ExitOrder, Working, Unplaced
  <2>3. book'[b] = new
    BY <1>1, <2>1 DEF IInv, TypeOK, ExitOrder
  <2>4. OrderBecomes(b, new)
    BY <2>1, <2>2, <2>3 DEF OrderBecomes, IInv, TypeOK
  <2>5. new.owner = book[b].owner /\ new.filled = book[b].filled /\ new.status # "unused"
    OBVIOUS
  <2> HIDE DEF new
  <2> QED
    BY <1>3, <2>2, <2>4, <2>5, OrderMoves DEF BrokerAccepts, BrokerEnds
<1> QED
  BY <1>2, <1>3

-----------------------------------------------------------------------------

LEMMA NextInv == IInv /\ [Next]_vars => IInv'
<1> SUFFICES ASSUME IInv, [Next]_vars PROVE IInv'
  OBVIOUS
<1>1. CASE UNCHANGED vars
  BY <1>1
  DEF vars, IInv, TypeOK, UnusedIsNobodys, CallsAreSound, OneSender, ClosersSawFill, SoldWhole,
      OneExitPerPosition, ExitCloseIsWhole, ExitIdentity
<1>2. ASSUME NEW c \in Callers, CallStep(c) \/ Crash(c)
      PROVE  IInv'
  <2>1. CASE PlacementFails(c) \/ LookupFails(c) \/ Restart(c)
    BY <2>1, EndsInv DEF PlacementFails, LookupFails, Restart
  <2>2. CASE QueryStatus(c)
    BY <2>2, JudgeInv DEF QueryStatus
  <2> QED
    BY <1>2, <2>1, <2>2, ClaimExitInv, SendExitInv, PlacementAckedInv, StoreExitIdInv,
       FindOpenInv, CloseRowInv, CloseEvidenceInv, CrashInv DEF CallStep
<1>3. ASSUME NEW c \in Callers, NEW p \in Positions, ReadPosition(c, p) \/ Condemn(c, p)
      PROVE  IInv'
  BY <1>3, ReadPositionInv, CondemnInv
<1> QED
  BY <1>1, <1>2, <1>3, BrokerInv DEF Next

THEOREM InvariantHolds == Spec => []IInv
  BY InitInv, NextInv, PTL DEF Spec

\* Rows, calls and the broker's book keep their shape, and only PAPER positions
\* have paper evidence to close.
THEOREM TypeCorrect == Spec => []TypeOK
<1>1. IInv => TypeOK
  BY DEF IInv
<1> QED
  BY <1>1, InvariantHolds, PTL

\* However many monitors and operators ask for it, and whatever they die on or
\* are told, at most one exit order is sent for a position.
THEOREM SoldOnce == Spec => []OneExitPerPosition
<1>1. IInv => OneExitPerPosition
  BY DEF IInv
<1> QED
  BY <1>1, InvariantHolds, PTL

\* A LIVE position recorded as exited was sold whole by its own exit order.
THEOREM ExitsAreWhole == Spec => []ExitCloseIsWhole
<1>1. IInv => ExitCloseIsWhole
  BY DEF IInv
<1> QED
  BY <1>1, InvariantHolds, PTL

\* The row of a position and the broker agree on which exit order is its own.
THEOREM ExitsAreTheirs == Spec => []ExitIdentity
<1>1. IInv => ExitIdentity
  BY DEF IInv
<1> QED
  BY <1>1, InvariantHolds, PTL
=============================================================================
