\* CustomServer's use of the queue: does wait() sleep over a message?
CONSTANTS
  Producers = {asio}
  Consumers = {main}
  Items = {m1, m2, m3, m4}
  None = None
  Uses <- OnlyServer
  nMaxMessages = 2
SPECIFICATION Spec
SYMMETRY ItemSymmetry
INVARIANT SleepsOnlyWhileEmpty
CHECK_DEADLOCK FALSE
