-------------------------------- MODULE Queue -------------------------------
(* The message queue of ml_queue.c: a ring of length + 1 slots protected by  *)
(* one mutex, with one condition variable for putters (full_cond) and one    *)
(* for getters (empty_cond). A thread's program counter names the statement  *)
(* it executes next; what the mutex protects is split at every statement, so *)
(* that it is the mutex, and not the model, that makes a put atomic.         *)
(*                                                                           *)
(* A queue is either read by blocking gets or, when an on put callback is    *)
(* set, driven by events: the callback adds one to an eventfd opened with    *)
(* EFD_SEMAPHORE, and the reader takes one event before each get, as the one *)
(* wire thread does.                                                         *)
EXTENDS Integers, Sequences, FiniteSets

CONSTANTS Putters,    \* threads that put messages on the queue
          Getters,    \* threads that get messages from the queue
          Messages,   \* message pointers
          NoMessage,  \* not a message: no message held, a slot never written
          NoThread,   \* not a thread: the mutex is free
          Capacity    \* the length given to ml_queue_init()

Threads == Putters \cup Getters

ASSUME CapacityAssumption == Capacity \in Nat \ {0}
ASSUME ThreadAssumption ==
  /\ IsFiniteSet(Putters)
  /\ IsFiniteSet(Getters)
  /\ Putters \cap Getters = {}
  /\ NoThread \notin Threads
ASSUME MessageAssumption == NoMessage \notin Messages

VARIABLES phase,     \* "absent", "setup" (initialized, unused) or "in_use"
          rdpos,     \* index of the oldest message
          wrpos,     \* index of the first free slot
          messages,  \* messages_p, the ring
          on_put,    \* the on put callback: "null" or "set"
          events,    \* value of the eventfd the callback writes
          mutex,     \* owner of the queue's mutex, or NoThread
          pc,        \* the statement each thread executes next
          arg        \* the message a thread is putting, or got

ring == <<rdpos, wrpos, messages>>
vars == <<phase, rdpos, wrpos, messages, on_put, events, mutex, pc, arg>>

-----------------------------------------------------------------------------
(* The ring. Length is self_p->length, one more than the capacity, so that a *)
(* full ring can be told from an empty one.                                  *)

Length == Capacity + 1
Slots == 0 .. Length - 1

advance(pos) == (pos + 1) % Length

is_empty == rdpos = wrpos

\* Mutant: the comparison is not wrapped at the end of the ring.
is_full_no_wrap == wrpos + 1 = rdpos

is_full == advance(wrpos) = rdpos

\* Mutant: the write position is not wrapped.
push_message_no_wrap(m) ==
  /\ messages' = [messages EXCEPT ![wrpos] = m]
  /\ wrpos' = wrpos + 1
  /\ UNCHANGED rdpos

push_message(m) ==
  /\ messages' = [messages EXCEPT ![wrpos] = m]
  /\ wrpos' = advance(wrpos)
  /\ UNCHANGED rdpos

pop_message(g) ==
  /\ arg' = [arg EXCEPT ![g] = messages[rdpos]]
  /\ rdpos' = advance(rdpos)
  /\ UNCHANGED <<wrpos, messages>>

\* The number of messages in the ring, and the messages, oldest first.
Size == IF rdpos <= wrpos THEN wrpos - rdpos ELSE wrpos - rdpos + Length

Content == [i \in 1 .. Size |->
              messages[IF rdpos + i - 1 < Length THEN rdpos + i - 1
                                                 ELSE rdpos + i - 1 - Length]]

-----------------------------------------------------------------------------
(* Life cycle, called by one thread while no other uses the queue.           *)

Init ==
  /\ phase = "absent"
  /\ rdpos = 0
  /\ wrpos = 0
  /\ messages = [s \in Slots |-> NoMessage]
  /\ on_put = "null"
  /\ events = 0
  /\ mutex = NoThread
  /\ pc = [t \in Threads |-> "idle"]
  /\ arg = [t \in Threads |-> NoMessage]

ml_queue_init ==
  /\ phase = "absent"
  /\ phase' = "setup"
  /\ rdpos' = 0
  /\ wrpos' = 0
  /\ messages' = [s \in Slots |-> NoMessage]
  /\ on_put' = "null"
  /\ events' = 0
  /\ UNCHANGED <<mutex, pc, arg>>

ml_queue_set_on_put ==
  /\ phase = "setup"
  /\ on_put' = "set"
  /\ UNCHANGED <<phase, ring, events, mutex, pc, arg>>

\* Messages still in the queue are forgotten: only the ring is freed.
ml_queue_destroy ==
  /\ phase # "absent"
  /\ \A t \in Threads : pc[t] = "idle"
  /\ phase' = "absent"
  /\ UNCHANGED <<ring, on_put, events, mutex, pc, arg>>

-----------------------------------------------------------------------------
(* Threads. lock -> check -> push or pop -> signal -> unlock, with wait as   *)
(* the other way out of check. A thread that is woken takes the mutex again  *)
(* and re-evaluates the loop condition, hence goes back to "lock".           *)

GoTo(t, label) == pc' = [pc EXCEPT ![t] = label]

Waiting(S) == {t \in S : pc[t] = "wait"}

pthread_mutex_lock(t) ==
  /\ pc[t] = "lock"
  /\ mutex = NoThread
  /\ mutex' = t
  /\ GoTo(t, "check")
  /\ UNCHANGED <<phase, ring, on_put, events, arg>>

\* pthread_cond_wait() releases the mutex and starts waiting in one step.
pthread_cond_wait(t) ==
  /\ mutex' = NoThread
  /\ GoTo(t, "wait")

\* At least one of the waiting threads, if there is any, is unblocked.
pthread_cond_signal(t, waiters) ==
  /\ \E woken \in SUBSET waiters :
       /\ waiters # {} => woken # {}
       /\ pc' = [u \in Threads |-> IF u = t THEN "unlock"
                                   ELSE IF u \in woken THEN "lock" ELSE pc[u]]
  /\ UNCHANGED <<phase, ring, on_put, events, mutex, arg>>

\* pthread_cond_wait() may return without a signal.
SpuriousWakeup(t) ==
  /\ pc[t] = "wait"
  /\ GoTo(t, "lock")
  /\ UNCHANGED <<phase, ring, on_put, events, mutex, arg>>

-----------------------------------------------------------------------------
(* ml_queue_put()                                                            *)

PutCall(p, m) ==
  /\ phase # "absent"
  /\ pc[p] = "idle"
  /\ phase' = "in_use"
  /\ arg' = [arg EXCEPT ![p] = m]
  /\ GoTo(p, "lock")
  /\ UNCHANGED <<ring, on_put, events, mutex>>

\* Mutant: the putter does not wait for room.
PutCheck_no_wait(p) ==
  /\ pc[p] = "check"
  /\ GoTo(p, "push")
  /\ UNCHANGED <<phase, ring, on_put, events, mutex, arg>>

PutCheck(p) ==
  /\ pc[p] = "check"
  /\ \/ is_full /\ pthread_cond_wait(p)
     \/ ~is_full /\ GoTo(p, "push") /\ UNCHANGED mutex
  /\ UNCHANGED <<phase, ring, on_put, events, arg>>

PutPush(p) ==
  /\ pc[p] = "push"
  /\ push_message(arg[p])
  /\ GoTo(p, "signal")
  /\ UNCHANGED <<phase, on_put, events, mutex, arg>>

\* Mutant: the condition variable of the putters is signalled.
PutSignal_full_cond(p) ==
  /\ pc[p] = "signal"
  /\ pthread_cond_signal(p, Waiting(Putters))

PutSignal(p) ==
  /\ pc[p] = "signal"
  /\ pthread_cond_signal(p, Waiting(Getters))

PutUnlock(p) ==
  /\ pc[p] = "unlock"
  /\ mutex' = NoThread
  /\ GoTo(p, IF on_put = "set" THEN "on_put" ELSE "idle")
  /\ UNCHANGED <<phase, ring, on_put, events, arg>>

\* Mutant: the event is only signalled if none is pending.
PutOnPut_if_none(p) ==
  /\ pc[p] = "on_put"
  /\ events' = 1
  /\ GoTo(p, "idle")
  /\ UNCHANGED <<phase, ring, on_put, mutex, arg>>

\* The callback is called without the mutex.
PutOnPut(p) ==
  /\ pc[p] = "on_put"
  /\ events' = events + 1
  /\ GoTo(p, "idle")
  /\ UNCHANGED <<phase, ring, on_put, mutex, arg>>

-----------------------------------------------------------------------------
(* ml_queue_get()                                                            *)

\* An event driven reader has read one event before it calls get.
GetCall(g) ==
  /\ phase # "absent"
  /\ pc[g] = "idle"
  /\ on_put = "set" => events > 0
  /\ phase' = "in_use"
  /\ events' = IF on_put = "set" THEN events - 1 ELSE events
  /\ arg' = [arg EXCEPT ![g] = NoMessage]
  /\ GoTo(g, "lock")
  /\ UNCHANGED <<ring, on_put, mutex>>

GetCheck(g) ==
  /\ pc[g] = "check"
  /\ \/ is_empty /\ pthread_cond_wait(g)
     \/ ~is_empty /\ GoTo(g, "pop") /\ UNCHANGED mutex
  /\ UNCHANGED <<phase, ring, on_put, events, arg>>

GetPop(g) ==
  /\ pc[g] = "pop"
  /\ pop_message(g)
  /\ GoTo(g, "signal")
  /\ UNCHANGED <<phase, on_put, events, mutex>>

\* Mutant: putters are only signalled if the ring was full before the pop.
GetSignal_on_edge(g) ==
  /\ pc[g] = "signal"
  /\ pthread_cond_signal(g, IF Size = Capacity - 1 THEN Waiting(Putters) ELSE {})

GetSignal(g) ==
  /\ pc[g] = "signal"
  /\ pthread_cond_signal(g, Waiting(Putters))

GetUnlock(g) ==
  /\ pc[g] = "unlock"
  /\ mutex' = NoThread
  /\ GoTo(g, "idle")
  /\ UNCHANGED <<phase, ring, on_put, events, arg>>

-----------------------------------------------------------------------------
PutStep(p) == PutCheck(p) \/ PutPush(p) \/ PutSignal(p) \/ PutUnlock(p) \/ PutOnPut(p)
GetStep(g) == GetCheck(g) \/ GetPop(g) \/ GetSignal(g) \/ GetUnlock(g)

Next ==
  \/ ml_queue_init \/ ml_queue_set_on_put \/ ml_queue_destroy
  \/ \E p \in Putters : (\E m \in Messages : PutCall(p, m)) \/ PutStep(p)
  \/ \E g \in Getters : GetCall(g) \/ GetStep(g)
  \/ \E t \in Threads : pthread_mutex_lock(t) \/ SpuriousWakeup(t)

Spec == Init /\ [][Next]_vars

(* A thread inside put or get is scheduled, and a reader calls get again     *)
(* when it is done; nobody has to put, and nobody has to destroy the queue.  *)
(* The mutex is not assumed to be fair: that a thread gets it is only        *)
(* promised if it stays free. Spurious wakeups may happen, but not forever.  *)
Fairness ==
  /\ \A p \in Putters : WF_vars(PutStep(p))
  /\ \A g \in Getters : WF_vars(GetStep(g)) /\ WF_vars(GetCall(g))
  /\ \A t \in Threads : WF_vars(pthread_mutex_lock(t))
  /\ <>[][\A t \in Threads : ~SpuriousWakeup(t)]_vars

FairSpec == Spec /\ Fairness

-----------------------------------------------------------------------------
Labels == {"idle", "lock", "check", "push", "pop", "signal", "unlock", "wait", "on_put"}
CriticalSection == {"check", "push", "pop", "signal", "unlock"}

\* Every variable has its type: the positions stay inside the ring that
\* ml_queue_init() allocated, and no slot is written outside of it.
TypeOK ==
  /\ phase \in {"absent", "setup", "in_use"}
  /\ rdpos \in Slots
  /\ wrpos \in Slots
  /\ messages \in [Slots -> Messages \cup {NoMessage}]
  /\ on_put \in {"null", "set"}
  /\ events \in Nat
  /\ mutex \in Threads \cup {NoThread}
  /\ pc \in [Threads -> Labels]
  /\ arg \in [Threads -> Messages \cup {NoMessage}]
  /\ \A p \in Putters : pc[p] # "pop" /\ (pc[p] # "idle" => arg[p] \in Messages)
  /\ \A g \in Getters : pc[g] \notin {"push", "on_put"}

Holders == {t \in Threads : pc[t] \in CriticalSection}

\* The thread between lock and unlock is the owner of the mutex, so there is
\* at most one; and what it found out about the ring in the loop condition of
\* ml_queue_put() or ml_queue_get() still holds when it pushes or pops.
MutualExclusion ==
  /\ Holders = {mutex} \ {NoThread}
  /\ \A p \in Putters : pc[p] = "push" => ~is_full
  /\ \A g \in Getters : pc[g] = "pop" => ~is_empty

\* Getters that will take a message without waiting for a signal again, and
\* putters that have pushed one and not yet signalled it.
GettersOnTheWay == {g \in Getters : pc[g] \in {"lock", "check", "pop"}}
PutsToSignal == {p \in Putters : pc[p] = "signal"}

\* Putters that will fill a slot without waiting, and getters that have freed
\* one and not yet signalled it.
PuttersOnTheWay == {p \in Putters : pc[p] \in {"lock", "check", "push"}}
GetsToSignal == {g \in Getters : pc[g] = "signal"}

\* No wakeup is lost, although a signal may wake any one of the waiting
\* threads, and a thread that comes later may take what the signal was about:
\* while a getter waits in ml_queue_get() there is another thread on its way
\* for each message in the queue, and while a putter waits in ml_queue_put()
\* there is one for each free slot.
NoLostWakeup ==
  /\ Waiting(Getters) # {} =>
       Size <= Cardinality(GettersOnTheWay) + Cardinality(PutsToSignal)
  /\ Waiting(Putters) # {} =>
       Capacity - Size <= Cardinality(PuttersOnTheWay) + Cardinality(GetsToSignal)

PutsToAnnounce == {p \in Putters : pc[p] \in {"signal", "unlock", "on_put"}}
GettersInside == {g \in Getters : pc[g] \in {"lock", "check", "wait", "pop"}}

\* With an on put callback every message in the queue is accounted for by one
\* event, one putter about to call the callback or one reader that has taken
\* an event; so a reader that took an event never has to wait in
\* ml_queue_get(), which would block the event loop it runs in.
EventPerMessage ==
  on_put = "set" =>
    /\ Size = events + Cardinality(PutsToAnnounce) + Cardinality(GettersInside)
    /\ Waiting(Getters) = {}

\* The queue implements a bounded FIFO: each message is delivered once, in
\* the order of the pushes, and at most Capacity messages are held.
F == INSTANCE Fifo WITH
       buffer <- Content,
       offer <- [p \in Putters |->
                   IF pc[p] \in {"lock", "check", "wait", "push"} THEN arg[p] ELSE NoMessage],
       taken <- [g \in Getters |-> arg[g]]
ImplementsFifo == F!Spec

\* The oldest message in the queue is got in the end, whatever the putters
\* do, unless the queue is destroyed.
OldestIsTaken ==
  \A s \in Slots : (phase # "absent" /\ rdpos = s /\ ~is_empty)
                     ~> (rdpos # s \/ phase = "absent")

=============================================================================
