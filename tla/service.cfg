\* Two requests of one client, fair threads, Update's bound never met.
SPECIFICATION FairServiceSpec
CONSTANTS
  Accept = Accept
  Ping1 = Ping1
  Ping2 = Ping2
  All = All
  CloseOp = CloseOp
  None = None
  Messages <- MCMessages
  HasBody <- MCHasBody
  SentBy <- MCSentBy
  MaxSends <- MCMaxSends
  ValidationValues <- MCValidationValues
  Scrambled <- MCScrambled
  nMaxMessages = 3
CONSTRAINTS
  Requests
  Cuts
INVARIANTS
  AnswersInOrder
PROPERTIES
  RequestsAreChannel
  PingAnswered
  CutIsNoticed
CHECK_DEADLOCK FALSE
