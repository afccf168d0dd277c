------------------------------ MODULE Countdown -----------------------------
(* What the timer handler promises about expiry, without its sorted list of  *)
(* differences: every started timer counts its own ticks down, fires at zero *)
(* before the next tick, and starts over if it is periodic.                  *)
EXTENDS Integers

CONSTANTS Timers, Off

VARIABLES remaining,  \* ticks until expiry, or Off
          period      \* ticks between expiries, 0 for a single shot timer

vars == <<remaining, period>>

Init ==
  /\ remaining = [t \in Timers |-> Off]
  /\ period = [t \in Timers |-> 0]

\* Any number of ticks before the first expiry and between the others.
Start(t) ==
  /\ remaining[t] = Off
  /\ remaining' = [remaining EXCEPT ![t] = remaining'[t]]
  /\ remaining'[t] \in Nat \ {0}
  /\ period' = [period EXCEPT ![t] = period'[t]]
  /\ period'[t] \in Nat

Stop(t) ==
  /\ remaining' = [remaining EXCEPT ![t] = Off]
  /\ UNCHANGED period

Tick ==
  /\ \A t \in Timers : remaining[t] # 0
  /\ remaining' = [t \in Timers |-> IF remaining[t] = Off THEN Off ELSE remaining[t] - 1]
  /\ UNCHANGED period

Fire(t) ==
  /\ remaining[t] = 0
  /\ remaining' = [remaining EXCEPT ![t] = IF period[t] = 0 THEN Off ELSE period[t]]
  /\ UNCHANGED period

Next == Tick \/ \E t \in Timers : Start(t) \/ Stop(t) \/ Fire(t)

Spec == Init /\ [][Next]_vars

=============================================================================
