------------------------------ MODULE MCOneWire -----------------------------
(* Model checking instance of OneWire.                                       *)
EXTENDS OneWire

=============================================================================
