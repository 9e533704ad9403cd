\* A program that answers pings with MessageClient.
SPECIFICATION Spec
CONSTANTS
  Clients = {c1, c2}
  ReplyWith = {"MessageClient"}
  FirstID = 15
  IDs = 16
  MaxRequests = 1
  Null = Null
INVARIANTS
  ReportedIsRemoved
SYMMETRY Symmetry
CHECK_DEADLOCK FALSE
