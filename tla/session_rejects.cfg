\* Searches for a violation of GenuineClientAccepted.
SPECIFICATION Spec
CONSTANTS
  Accept = Accept
  Ping = Ping
  All = All
  CloseOp = CloseOp
  None = None
  ClientSends = 2
  ServerSends = 1
  Messages <- MCMessages
  HasBody <- MCHasBody
  SentBy <- MCSentBy
  MaxSends <- MCMaxSends
  ValidationValues <- MCOneValue
  Scrambled <- MCScrambled
  SizeOfUint64 = 8
INVARIANTS
  GenuineClientAccepted
CHECK_DEADLOCK FALSE
