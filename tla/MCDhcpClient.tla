----------------------------- MODULE MCDhcpClient ---------------------------
(* Model checking instances of DhcpClient.                                   *)
EXTENDS DhcpClient

=============================================================================
