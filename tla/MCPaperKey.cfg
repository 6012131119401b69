SPECIFICATION FairSpec
CONSTANTS
    o1 = o1
    o2 = o2
    k1 = k1
    s1 = s1
    b1 = b1
    b2 = b2
    api = api
    worker = worker
    Orders <- MCOneOrder
    Keys = {k1}
    KeyOf <- MCOneKeyOf
    BrokerIds = {b1}
    NoId = NoId
    Processes = {api, worker}
    Passing = {worker}
    Worker = worker
    PaperId <- MCOneId
    SignalOf <- MCOneSignalOf
    NoOrder = NoOrder
PROPERTIES
    KeyComesFree
CHECK_DEADLOCK FALSE
