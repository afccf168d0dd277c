CONSTANTS
  Putters = {p1, p2}
  Getters = {g1, g2}
  Messages = {m1, m2}
  NoMessage = NoMessage
  NoThread = NoThread
  Capacity = 2
SPECIFICATION FairSpec
INVARIANTS
  TypeOK
  MutualExclusion
  NoLostWakeup
  EventPerMessage
PROPERTIES
  ImplementsFifo
  OldestIsTaken
