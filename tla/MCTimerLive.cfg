CONSTANTS
  Timers = {t1, t2}
  NoTimer = NoTimer
  Timeouts = {0, 5}
  Periods = {0}
  TICK = 2
  UINT_MOD = 64
  Capacity = 2
  MaxElapsed = 5
  Off = Off
SPECIFICATION PatientSpec
INVARIANT LessThanTwoTicksEarly
PROPERTIES
  CheckReturns
  StartedExpires
