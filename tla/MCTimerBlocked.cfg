CONSTANTS
  Timers = {t1}
  NoTimer = NoTimer
  Timeouts = {1}
  Periods = {1}
  TICK = 2
  UINT_MOD = 64
  Capacity = 1
  MaxElapsed = 0
  Off = Off
SPECIFICATION FairSpec
PROPERTY CheckReturns
