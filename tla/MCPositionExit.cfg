\* Exits of a LIVE position and of a PAPER one by two concurrent calls.
CONSTANTS
    p1 = p1
    p2 = p2
    Positions = {p1, p2}
    LivePositions = {p1}
    Callers = {c1, c2}
    BrokerIds = {b1, b2}
    NoId = NoId
    NoPosition = NoPosition
    Lot = 2
SPECIFICATION FairSpec
INVARIANTS
    OneExitPerPosition
    ExitCloseIsWhole
    ExitIdentity
PROPERTIES
    FilledExitCloses
CHECK_DEADLOCK FALSE
