SPECIFICATION ReconSpec
CONSTANTS
  o1 = o1
  b1 = b1
  k1 = k1
  r1 = r1
  r2 = r2
  NoId = NoId
  NoOrder = NoOrder
  NoReply = NoReply
  Nothing = Nothing
  Reconcilers = {r1}
  Orders <- MCOneOrder
  BrokerIds <- MCOneId
  Keys <- MCKeys
  KeyOf <- MCKeyOf
  Lot = 2
  ConfirmedStatuses <- ConfirmsAll
  MisroutedReplies = {}
  SlowCalls = FALSE
PROPERTIES
  ExposureIsNotDeleted
CHECK_DEADLOCK FALSE
