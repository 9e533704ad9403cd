\* Two messages from the client, ServerAccept from the server; handshakes with
\* every challenge.
SPECIFICATION Spec
CONSTANTS
  Accept = Accept
  Ping = Ping
  All = All
  CloseOp = CloseOp
  None = None
  ClientSends = 2
  ServerSends = 1
  Messages <- MCMessages
  HasBody <- MCHasBody
  SentBy <- MCSentBy
  MaxSends <- MCMaxSends
  ValidationValues <- MCValidationValues
  Scrambled <- MCScrambled
  SizeOfUint64 = 8
CONSTRAINT
  SendsWithOneValue
INVARIANTS
  TypeOK
  OneMessageWrite
  OneRead
  Framed
  OnlyValidatedClientsHeard
  BodyDelivered
  AnswersThisChallenge
PROPERTIES
  IsChannel
CHECK_DEADLOCK FALSE
