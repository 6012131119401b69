SPECIFICATION FairSpec
CONSTANTS
    o1 = o1
    o2 = o2
    k1 = k1
    s1 = s1
    b1 = b1
    b2 = b2
    api = api
    worker = worker
    Orders <- MCOrders
    Keys = {k1}
    KeyOf <- MCKeyOf
    BrokerIds = {b1, b2}
    NoId = NoId
    Processes = {api, worker}
    Passing = {worker}
    Worker = worker
    PaperId <- MCPaperId
    SignalOf <- MCSignalOf
    NoOrder = NoOrder
INVARIANTS
    OnePositionPerKey
PROPERTIES
    PositionsEndByExit
    StaleOrdersEnd
CHECK_DEADLOCK FALSE
