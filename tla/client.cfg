\* SimpleClient, and a program that connects again after Disconnect.
SPECIFICATION FairSpec
CONSTANTS
  MaxConnects = 2
  MaxReads = 2
  MaxSends = 1
  Null = Null
INVARIANTS
  TypeOK
  ClosedWhenRunReturns
  HandlersHaveConnection
PROPERTIES
  DisconnectReturns
  QuitsWhenCut
  ReceivedIsHandled
CHECK_DEADLOCK FALSE
