CONSTANTS
  Producers = {p1}
  Queues = {q1, q2}
  Uids = {1, 2}
  Messages = {m1, m2}
  NoMessage = NoMessage
  Capacity = 1
  MaxSubscriptions = 3
SPECIFICATION FairSpec
INVARIANTS
  SubscribersAreFound
  CountIsReferences
  ReachableIsIntact
PROPERTIES
  SubscribersReceive
  NoLeak
