SPECIFICATION FairClientSpec
CONSTANTS
  a = a
  b = b
  m1 = m1
  Chats = {a, b}
  NoChat = NoChat
  Messages = {m1}
  NoMessage = NoMessage
  HomeOf <- AllInA
  MaxActs = 2
  MaxLoads = 2
  MaxOutbox = 1
INVARIANTS ClientTypeOK ListIsOfActiveChat
PROPERTY LoadingEnds
CHECK_DEADLOCK FALSE
