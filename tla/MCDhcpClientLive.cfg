CONSTANTS
  Addresses = {a1}
  NoAddress = NoAddress
  Leases = {4}
  INT_MAX = 7
  MaxInFlight = 2
  Failures = {"send", "udp_socket", "configure", "interface"}
SPECIFICATION FairSpec
PROPERTIES
  BoundAgainAndAgain
  LeaseIsRenewed
