CONSTANTS
  Addresses = {a1, a2}
  NoAddress = NoAddress
  Leases = {4}
  INT_MAX = 7
  MaxInFlight = 2
  Failures = {}
SPECIFICATION Spec
INVARIANT ConfiguredAsRequested
