CONSTANTS
  Callers = {c1, c2}
  NoCaller = NoCaller
  MAX_SEQNO = 3
  Failures = {"uninitialized", "init", "send", "epoll", "silent"}
  MaxForeign = 1
  MaxUnderWay = 1
SPECIFICATION FairSpec
INVARIANTS
  OneAnswerPerRequest
  TimeoutIsExpected
  ConvertedBeforeRead
PROPERTY ReadReturns
CHECK_DEADLOCK FALSE
