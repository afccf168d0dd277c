-------------------------------- MODULE Timer -------------------------------
(* The timer handler of ml_timer.c and an application thread that starts and *)
(* stops timers and handles their expiry messages. Active timers are in a    *)
(* list sorted by expiry time, each with the difference in ticks to the one  *)
(* before it. The handler thread reads a timerfd that expires every TICK     *)
(* milliseconds and then runs tick(), which holds the handler's mutex all    *)
(* the way, also while it waits for room in the application's queue.         *)
(*                                                                           *)
(* Time passes independently of the threads: the handler may be late, and    *)
(* several expirations of the timerfd may be read as one. How long ago a     *)
(* timer was started is history that no code reads.                          *)
EXTENDS Integers, Sequences, FiniteSets

CONSTANTS Timers,
          NoTimer,
          Timeouts,   \* values of initial, in milliseconds
          Periods,    \* values of repeat, in milliseconds; 0: single shot
          TICK,       \* milliseconds between two ticks; 100 in the code
          UINT_MOD,   \* 2^32 in the code: unsigned arithmetic wraps here
          Capacity,   \* length of the queue of the application
          MaxElapsed, \* bound: milliseconds since a start are counted up to here
          Off         \* a timer that is not counting down

ASSUME TimerAssumption ==
  /\ TICK \in Nat \ {0}
  /\ UINT_MOD \in Nat \ {0}
  /\ Timeouts \subseteq 0 .. UINT_MOD - 1
  /\ Periods \subseteq 0 .. UINT_MOD - 1
  /\ Capacity \in Nat \ {0}
  /\ MaxElapsed \in Nat
  /\ NoTimer \notin Timers
  /\ Off \notin Nat

VARIABLES
  \* struct ml_timer_t and the list
  list,          \* the active timers, in order of expiry
  delta,         \* ticks after the timer before it in the list
  repeat_ticks,
  outstanding,   \* number_of_outstanding_timeouts
  ignore,        \* number_of_timeouts_to_ignore
  \* the handler thread
  hpc,           \* "read", "lock", "loop" or "put"; "dead" without a timerfd
  current,       \* the timer whose message tick() puts
  expired,       \* the timerfd has expired since it was read
  \* the application thread
  queue,         \* expiry messages: the timer, and if it was stopped since
  held,          \* messages got, for which the validity was not asked yet
  starting,      \* the call of ml_timer_start() in progress, if any
  checked,       \* answer of the last ml_timer_is_message_valid()
  \* time
  clock,         \* milliseconds since the timerfd last expired
  elapsed,       \* milliseconds since a timer was started, up to a bound
  timeout        \* the timeout it was started with, while it has not expired

listVars == <<list, delta, repeat_ticks>>
countVars == <<outstanding, ignore>>
handlerVars == <<hpc, current, expired>>
appVars == <<queue, held, starting, checked>>
timeVars == <<clock, elapsed, timeout>>
vars == <<listVars, countVars, handlerVars, appVars, timeVars>>

NotStarting == [timer |-> NoTimer, initial |-> 0, repeat |-> 0]

\* tick() keeps the mutex from its first to its last statement; the other
\* critical sections never block and are one step each.
MutexIsFree == hpc \in {"read", "lock", "dead"}

-----------------------------------------------------------------------------
(* The list                                                                  *)

DIV_CEIL(a, b) == ((a + b - 1) % UINT_MOD) \div b

\* The extra tick of a start does not wrap: certain if TICK > 1 and UINT_MOD > 2.
ASSUME TicksAssumption == \A initial \in Timeouts : DIV_CEIL(initial, TICK) + 1 < UINT_MOD

\* Ticks until the i:th timer of the list expires.
Sum(l, d) == LET sum[i \in 0 .. Len(l)] == IF i = 0 THEN 0 ELSE sum[i - 1] + d[l[i]]
             IN  sum

Minus(a, b) == (a - b) % UINT_MOD

\* Mutant: the timer that is passed last is not subtracted.
timer_list_insert_raw(l, d, t, ticks) ==
  LET sum == Sum(l, d)
      k == Cardinality({i \in 1 .. Len(l) : sum[i] < ticks})
  IN  [list |-> SubSeq(l, 1, k) \o <<t>> \o SubSeq(l, k + 1, Len(l)),
       delta |-> [d EXCEPT ![t] = ticks - sum[k]]]

\* Insert t before the first timer that does not expire earlier, and take its
\* difference off that timer's.
timer_list_insert(l, d, t, ticks) ==
  LET sum == Sum(l, d)
      k == Cardinality({i \in 1 .. Len(l) : sum[i] < ticks})
      left == ticks - sum[k]
  IN  [list |-> SubSeq(l, 1, k) \o <<t>> \o SubSeq(l, k + 1, Len(l)),
       delta |-> [u \in Timers |-> IF u = t THEN left
                                   ELSE IF k < Len(l) /\ u = l[k + 1] THEN Minus(d[u], left)
                                   ELSE d[u]]]

\* How many timers of the list are before t; all of them if t is not in it.
Before(l, t) == Cardinality({i \in 1 .. Len(l) : \A j \in 1 .. i : l[j] # t})

\* Mutant: the rest of the list goes with the timer.
timer_list_remove_rest(l, d, t) ==
  [list |-> SubSeq(l, 1, Before(l, t)), delta |-> d]

\* Remove t, if it is in the list, and add its difference to the next timer.
timer_list_remove(l, d, t) ==
  LET k == Before(l, t)
  IN  [list |-> SubSeq(l, 1, k) \o SubSeq(l, k + 2, Len(l)),
       delta |-> [u \in Timers |-> IF k + 2 <= Len(l) /\ u = l[k + 2]
                                     THEN (d[u] + d[t]) % UINT_MOD ELSE d[u]]]

SetList(new) == list' = new.list /\ delta' = new.delta

-----------------------------------------------------------------------------
(* Time and the handler thread                                               *)

AdvanceTime ==
  /\ clock' = (clock + 1) % TICK
  /\ expired' = (expired \/ clock' = 0)
  /\ elapsed' = [t \in Timers |-> IF timeout[t] = Off \/ elapsed[t] = MaxElapsed
                                    THEN elapsed[t] ELSE elapsed[t] + 1]
  /\ UNCHANGED <<listVars, countVars, hpc, current, appVars, timeout>>

\* read() returns; how many expirations it read is ignored.
HandlerRead ==
  /\ hpc = "read"
  /\ expired
  /\ expired' = FALSE
  /\ hpc' = "lock"
  /\ UNCHANGED <<listVars, countVars, current, appVars, timeVars>>

\* Mutant: tick() returns without unlocking if no timer is active.
TickBegin_no_unlock ==
  /\ hpc = "lock"
  /\ IF list = <<>>
       THEN hpc' = "locked" /\ UNCHANGED delta
       ELSE hpc' = "loop" /\ delta' = [delta EXCEPT ![Head(list)] = Minus(@, 1)]
  /\ UNCHANGED <<list, repeat_ticks, countVars, current, expired, appVars, timeVars>>

\* tick() takes the mutex. Only the first timer counts.
TickBegin ==
  /\ hpc = "lock"
  /\ IF list = <<>>
       THEN hpc' = "read" /\ UNCHANGED delta
       ELSE hpc' = "loop" /\ delta' = [delta EXCEPT ![Head(list)] = Minus(@, 1)]
  /\ UNCHANGED <<list, repeat_ticks, countVars, current, expired, appVars, timeVars>>

FirstExpires == list # <<>> /\ delta[Head(list)] = 0

\* Mutant: the message is counted when it is received.
TickPop_uncounted ==
  /\ hpc = "loop"
  /\ FirstExpires
  /\ current' = Head(list)
  /\ list' = Tail(list)
  /\ hpc' = "put"
  /\ UNCHANGED <<delta, repeat_ticks, countVars, expired, appVars, timeVars>>

TickPop ==
  /\ hpc = "loop"
  /\ FirstExpires
  /\ current' = Head(list)
  /\ list' = Tail(list)
  /\ outstanding' = [outstanding EXCEPT ![Head(list)] = @ + 1]
  /\ hpc' = "put"
  /\ UNCHANGED <<delta, repeat_ticks, ignore, expired, appVars, timeVars>>

\* The put blocks while the queue is full. Afterwards a periodic timer is
\* inserted again.
TickPut ==
  /\ hpc = "put"
  /\ Len(queue) < Capacity
  /\ queue' = Append(queue, [timer |-> current, stale |-> FALSE])
  /\ IF repeat_ticks[current] > 0
       THEN SetList(timer_list_insert(list, delta, current, repeat_ticks[current]))
       ELSE UNCHANGED <<list, delta>>
  /\ hpc' = "loop"
  /\ current' = NoTimer
  /\ timeout' = [timeout EXCEPT ![current] = Off]
  /\ elapsed' = [elapsed EXCEPT ![current] = 0]
  /\ UNCHANGED <<repeat_ticks, countVars, expired, held, starting, checked, clock>>

TickEnd ==
  /\ hpc = "loop"
  /\ ~FirstExpires
  /\ hpc' = "read"
  /\ UNCHANGED <<listVars, countVars, current, expired, appVars, timeVars>>

-----------------------------------------------------------------------------
(* The application thread                                                    *)

MarkStale(messages, t) ==
  [i \in 1 .. Len(messages) |->
     [messages[i] EXCEPT !.stale = @ \/ messages[i].timer = t]]

\* Mutant: only messages that are still to come are ignored.
StopTimer_keep(t) ==
  /\ SetList(timer_list_remove(list, delta, t))
  /\ UNCHANGED ignore
  /\ queue' = MarkStale(queue, t)
  /\ held' = MarkStale(held, t)

\* ml_timer_stop(), under the mutex.
StopTimer(t) ==
  /\ ignore' = [ignore EXCEPT ![t] = outstanding[t]]
  /\ SetList(timer_list_remove(list, delta, t))
  /\ queue' = MarkStale(queue, t)
  /\ held' = MarkStale(held, t)

ml_timer_stop(t) ==
  /\ starting = NotStarting
  /\ MutexIsFree
  /\ StopTimer(t)
  /\ timeout' = [timeout EXCEPT ![t] = Off]
  /\ elapsed' = [elapsed EXCEPT ![t] = 0]
  /\ UNCHANGED <<repeat_ticks, outstanding, handlerVars, starting, checked, clock>>

\* ml_timer_start() stops the timer first...
StartStops(t, initial, repeat) ==
  /\ starting = NotStarting
  /\ MutexIsFree
  /\ StopTimer(t)
  /\ starting' = [timer |-> t, initial |-> initial, repeat |-> repeat]
  /\ timeout' = [timeout EXCEPT ![t] = initial]
  /\ elapsed' = [elapsed EXCEPT ![t] = 0]
  /\ UNCHANGED <<repeat_ticks, outstanding, handlerVars, checked, clock>>

\* Mutant: the extra tick is forgotten.
StartTicks_no_extra(initial) == DIV_CEIL(initial, TICK)

\* One tick more than the timeout, as the next tick may be close.
StartTicks(initial) == DIV_CEIL(initial, TICK) + 1

\* ... then takes the mutex again and inserts it.
StartInserts ==
  /\ starting # NotStarting
  /\ MutexIsFree
  /\ repeat_ticks' = [repeat_ticks EXCEPT ![starting.timer] = DIV_CEIL(starting.repeat, TICK)]
  /\ SetList(timer_list_insert(list, delta, starting.timer, StartTicks(starting.initial)))
  /\ starting' = NotStarting
  /\ UNCHANGED <<countVars, handlerVars, queue, held, checked, timeVars>>

\* The application gets an expiry message.
Get ==
  /\ starting = NotStarting
  /\ held = <<>>
  /\ queue # <<>>
  /\ held' = <<Head(queue)>>
  /\ queue' = Tail(queue)
  /\ UNCHANGED <<listVars, countVars, handlerVars, starting, checked, timeVars>>

ml_timer_is_message_valid ==
  /\ starting = NotStarting
  /\ held # <<>>
  /\ MutexIsFree
  /\ LET t == held[1].timer
     IN  /\ outstanding' = [outstanding EXCEPT ![t] = @ - 1]
         /\ ignore' = [ignore EXCEPT ![t] = IF @ > 0 THEN @ - 1 ELSE @]
         /\ checked' = [valid |-> ignore[t] = 0, stale |-> held[1].stale]
  /\ held' = <<>>
  /\ UNCHANGED <<listVars, handlerVars, queue, starting, timeVars>>

-----------------------------------------------------------------------------
\* ml_timer_handler_init(), ml_timer_init() of each timer, and a handler
\* thread that got its timerfd or ended without.
Init ==
  /\ list = <<>>
  /\ delta = [t \in Timers |-> 0]
  /\ repeat_ticks = [t \in Timers |-> 0]
  /\ outstanding = [t \in Timers |-> 0]
  /\ ignore = [t \in Timers |-> 0]
  /\ hpc \in {"read", "dead"}
  /\ current = NoTimer
  /\ expired = FALSE
  /\ queue = <<>>
  /\ held = <<>>
  /\ starting = NotStarting
  /\ checked = [valid |-> FALSE, stale |-> TRUE]
  /\ clock = 0
  /\ elapsed = [t \in Timers |-> 0]
  /\ timeout = [t \in Timers |-> Off]

Handler == HandlerRead \/ TickBegin \/ TickPop \/ TickPut \/ TickEnd

Next ==
  \/ AdvanceTime
  \/ HandlerRead \/ TickBegin \/ TickPop \/ TickPut \/ TickEnd
  \/ \E t \in Timers : \/ ml_timer_stop(t)
                       \/ \E i \in Timeouts, r \in Periods : StartStops(t, i, r)
  \/ StartInserts \/ Get \/ ml_timer_is_message_valid

Spec == Init /\ [][Next]_vars

(* Time passes and both threads are scheduled. The application's critical    *)
(* sections compete with tick() for the mutex: the handler sleeps most of    *)
(* every tick, so an application that tries again and again gets it.         *)
Fairness ==
  /\ WF_vars(AdvanceTime)
  /\ WF_vars(Handler)
  /\ SF_vars(StartInserts)
  /\ WF_vars(Get)
  /\ SF_vars(ml_timer_is_message_valid)

FairSpec == Spec /\ Fairness

-----------------------------------------------------------------------------
\* Every variable has its type: differences and counters do not wrap, and tick()
\* has a timer in its hands exactly while it puts the message of it.
TypeOK ==
  /\ list \in Seq(Timers)
  /\ delta \in [Timers -> 0 .. UINT_MOD - 1]
  /\ repeat_ticks \in [Timers -> Nat]
  /\ outstanding \in [Timers -> Nat]
  /\ ignore \in [Timers -> Nat]
  /\ hpc \in {"read", "lock", "loop", "put", "dead"}
  /\ current \in Timers \cup {NoTimer} /\ (hpc = "put" <=> current # NoTimer)
  /\ expired \in BOOLEAN
  /\ queue \in Seq([timer : Timers, stale : BOOLEAN]) /\ Len(queue) <= Capacity
  /\ held \in Seq([timer : Timers, stale : BOOLEAN]) /\ Len(held) <= 1
  /\ starting \in [timer : Timers \cup {NoTimer},
                   initial : Timeouts \cup {0}, repeat : Periods \cup {0}]
  /\ checked \in [valid : BOOLEAN, stale : BOOLEAN]
  /\ clock \in 0 .. TICK - 1
  /\ elapsed \in [Timers -> 0 .. MaxElapsed]
  /\ timeout \in [Timers -> Timeouts \cup {Off}]

\* The messages in flight, in the order they will be checked, and those of t.
InFlight == held \o queue
MessagesOf(t) == {i \in 1 .. Len(InFlight) : InFlight[i].timer = t}
StaleOf(t) == {i \in MessagesOf(t) : InFlight[i].stale}

\* The counters account for every message in flight, also for the one tick()
\* is about to put, and the ones to ignore are the oldest: those put before
\* the timer was last stopped or restarted. With the types of the variables.
CountersMatchFlight ==
  /\ TypeOK
  /\ \A t \in Timers :
       /\ outstanding[t] = Cardinality(MessagesOf(t)) + (IF current = t THEN 1 ELSE 0)
       /\ ignore[t] = Cardinality(StaleOf(t))
       /\ \A i \in MessagesOf(t), j \in StaleOf(t) : i < j => i \in StaleOf(t)

\* ml_timer_is_message_valid() rejects the messages that were in flight when
\* the timer was stopped or restarted, and no others.
StaleIsInvalid == checked.valid <=> ~checked.stale

\* The list of differences counts down every timer on its own.
RemainingTicks ==
  [t \in Timers |->
     IF \E i \in 1 .. Len(list) : list[i] = t
       THEN Sum(list, delta)[CHOOSE i \in 1 .. Len(list) : list[i] = t]
       ELSE IF current = t THEN 0 ELSE Off]

C == INSTANCE Countdown WITH remaining <- RemainingTicks, period <- repeat_ticks
ImplementsCountdown == C!Spec

\* tick() is about to report the first expiry of a started timer.
FirstExpiry(t) == hpc = "put" /\ current = t /\ timeout[t] # Off

\* A timer expires less than two ticks before its time, however late the
\* handler thread is: of the ticks it counts, at most two were due before the
\* timer was started.
LessThanTwoTicksEarly ==
  \A t \in Timers : FirstExpiry(t) => elapsed[t] + 2 * TICK > timeout[t]

\* The question if a message is valid is answered.
CheckReturns == held # <<>> ~> held = <<>>

\* A started timer expires, or is stopped or restarted.
StartedExpires ==
  \A t \in Timers : (timeout[t] # Off /\ hpc # "dead") ~> (timeout[t] = Off \/ starting.timer = t)

=============================================================================
