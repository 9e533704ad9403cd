\* Two messages from the client, one greeting, sizes that fit.
SPECIFICATION Spec
CONSTANTS
  UInt32 = 32
  SizeT = 4
  MaxTransfer = 2
  Challenge <- MCChallenge
  Answer <- MCAnswer
  OtherAnswer <- MCOtherAnswer
  TimePoints <- MCTimePoints
  OtherID <- MCOtherID
  MaxSends = 2
  MaxGreetings = 1
INVARIANTS
  TypeOK
  SizesTrue
  ReceivedAsSent
  PopsWhatWasPushed
PROPERTIES
  BuffersAreChannel
CONSTRAINT
  Unmixed
CHECK_DEADLOCK FALSE
