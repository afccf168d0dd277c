CONSTANTS
  Timers = {t1, t2, t3}
  NoTimer = NoTimer
  Timeouts = {0, 1}
  Periods = {0, 1}
  TICK = 1
  UINT_MOD = 64
  Capacity = 1
  MaxElapsed = 0
  Off = Off
SPECIFICATION Spec
SYMMETRY Symmetry
INVARIANTS CountersMatchFlight StaleIsInvalid
PROPERTY ImplementsCountdown
