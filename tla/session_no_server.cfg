\* Searches for a violation of ConnectFailureNoticed, with fair asio threads.
SPECIFICATION FairSpec
CONSTANTS
  Accept = Accept
  Ping = Ping
  All = All
  CloseOp = CloseOp
  None = None
  ClientSends = 1
  ServerSends = 1
  Messages <- MCMessages
  HasBody <- MCHasBody
  SentBy <- MCSentBy
  MaxSends <- MCMaxSends
  ValidationValues <- MCOneValue
  Scrambled <- MCScrambled
  SizeOfUint64 = 8
PROPERTIES
  ConnectFailureNoticed
CHECK_DEADLOCK FALSE
