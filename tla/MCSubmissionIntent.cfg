SPECIFICATION TableSpec
CONSTANTS
    o1 = o1
    o2 = o2
    o3 = o3
    k1 = k1
    k2 = k2
    Orders <- MCOrders
    Keys <- MCKeys
    KeyOf <- MCKeyOf
    BrokerIds = {b1, b2}
    NoId = NoId
INVARIANTS
    OneHolderPerKey
    BrokerIdentity
PROPERTIES
    EvidenceIsFinal
    KeyLeavesByEvidence
