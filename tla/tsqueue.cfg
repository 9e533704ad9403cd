\* The server's use of the queue, and every operation with a polling Update,
\* each with two pushing threads.
CONSTANTS
  Producers = {t1, t2}
  Consumers = {main}
  Items = {m1, m2, m3, m4}
  None = None
  Uses <- ServerOrEvery
  nMaxMessages = 2
SPECIFICATION FairSpec
INVARIANTS TypeOK NoPopOnEmpty HandledInOrder LockOrder Conservation
PROPERTIES IsChannel NotifiedDrains PushReturns
CHECK_DEADLOCK FALSE
