------------------------------- MODULE MCTimer ------------------------------
(* Model checking instances of Timer.                                        *)
EXTENDS Timer, TLC

\* Timers are interchangeable.
Symmetry == Permutations(Timers)

\* An application that starts a timer only if no message of it is in flight.
HandledFirst == \A t \in Timers : starting'.timer = t => outstanding[t] = 0 \/ starting.timer = t
PatientSpec == Init /\ [][Next /\ HandledFirst]_vars /\ Fairness

=============================================================================
