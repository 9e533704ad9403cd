\* Two clients and two requests; a program that may call Stop.
SPECIFICATION FairSpec
CONSTANTS
  Clients = {c1, c2}
  ReplyWith = {"Send", "MessageClient"}
  FirstID = 15
  IDs = 16
  MaxRequests = 2
  Null = Null
INVARIANTS
  TypeOK
  RegistrySound
  NoNullVisited
  BroadcastReaches
  BroadcastReports
  UniqueIDs
PROPERTIES
  EveryoneAnswered
  MainReturns
CHECK_DEADLOCK FALSE
