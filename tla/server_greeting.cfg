\* CustomServer with two clients and one request.
SPECIFICATION Spec
CONSTANTS
  Clients = {c1, c2}
  ReplyWith = {"Send"}
  FirstID = 15
  IDs = 16
  MaxRequests = 1
  Null = Null
INVARIANTS
  AcceptedHasID
SYMMETRY Symmetry
CHECK_DEADLOCK FALSE
