SPECIFICATION FairSpec
CONSTANTS
    o1 = o1
    o2 = o2
    k1 = k1
    Orders <- MCOrders
    Keys = {k1}
    KeyOf <- MCKeyOf
    BrokerIds = {b1, b2}
    NoId = NoId
    NoOrder = NoOrder
    NoReply = NoReply
    Lot = 2
    Reconcilers = {}
    ConfirmedStatuses <- ConfirmsAll
    MisroutedReplies = {"rejected"}
INVARIANTS
    TypeOK
    SingleExposure
    SendsAreOnRecord
    DurableIdentity
PROPERTIES
    KeyReleasedOffMarket
    ImplementsLock
    ImplementsIntents
    UnknownOutcomeSurfaces
CHECK_DEADLOCK FALSE
