-------------------------------- MODULE MCBus -------------------------------
(* Model checking instance of Bus.                                           *)
EXTENDS Bus

=============================================================================
