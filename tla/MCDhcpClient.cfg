CONSTANTS
  Addresses = {a1}
  NoAddress = NoAddress
  Leases = {0, 1, 4, 40}
  INT_MAX = 31
  MaxInFlight = 2
  Failures = {"send", "packet_socket", "udp_socket", "configure", "poll", "interface", "start"}
SPECIFICATION Spec
INVARIANTS
  NeverStuck
  SocketFitsState
  NoStaleTimeout
