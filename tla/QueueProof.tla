----------------------------- MODULE QueueProof -----------------------------
(* Theorems about Queue, for any finite sets of threads, any messages and    *)
(* any capacity.                                                             *)
EXTENDS Queue, FiniteSetTheorems, TLAPS

-----------------------------------------------------------------------------
(* The ring                                                                  *)

\* The modulo of advance() is a wrap at the end of the ring.
LEMMA AdvanceWraps ==
  ASSUME NEW pos \in Slots
  PROVE  /\ advance(pos) = IF pos = Capacity THEN 0 ELSE pos + 1
         /\ advance(pos) \in Slots
<1>1. CASE pos = Capacity
  BY <1>1, CapacityAssumption DEF advance, Slots, Length
<1>2. CASE pos # Capacity
  BY <1>2, CapacityAssumption DEF advance, Slots, Length
<1> QED
  BY <1>1, <1>2

\* A push makes the ring one message larger unless it is full, a pop one
\* smaller unless it is empty, and the ring holds at most Capacity messages.
LEMMA RingSize ==
  ASSUME rdpos \in Slots, wrpos \in Slots
  PROVE  /\ Size \in 0 .. Capacity
         /\ is_empty <=> Size = 0
         /\ is_full <=> Size = Capacity
<1>1. advance(wrpos) = IF wrpos = Capacity THEN 0 ELSE wrpos + 1
  BY AdvanceWraps
<1> QED
  BY <1>1, CapacityAssumption DEF Size, is_empty, is_full, Slots, Length

\* push_message() on a ring that is not full adds one to the size.
LEMMA PushSize ==
  ASSUME rdpos \in Slots, wrpos \in Slots, ~is_full,
         wrpos' = advance(wrpos), rdpos' = rdpos
  PROVE  Size' = Size + 1
<1>1. advance(wrpos) = IF wrpos = Capacity THEN 0 ELSE wrpos + 1
  BY AdvanceWraps
<1> QED
  BY <1>1, CapacityAssumption DEF Size, is_full, Slots, Length

\* pop_message() on a ring that is not empty takes one off the size.
LEMMA PopSize ==
  ASSUME rdpos \in Slots, wrpos \in Slots, ~is_empty,
         rdpos' = advance(rdpos), wrpos' = wrpos
  PROVE  Size' = Size - 1
<1>1. advance(rdpos) = IF rdpos = Capacity THEN 0 ELSE rdpos + 1
  BY AdvanceWraps
<1> QED
  BY <1>1, CapacityAssumption DEF Size, is_empty, Slots, Length

-----------------------------------------------------------------------------
(* Types                                                                     *)

\* A queue that was not initialized yet has the types of a queue.
LEMMA TypeInit == Init => TypeOK
  BY CapacityAssumption, ThreadAssumption, MessageAssumption
     DEF Init, TypeOK, Slots, Length, Threads, Labels

\* Every statement of every function of ml_queue.c keeps the types.
LEMMA TypeStep == TypeOK /\ [Next]_vars => TypeOK'
<1> SUFFICES ASSUME TypeOK, [Next]_vars
             PROVE  TypeOK'
  OBVIOUS
<1> USE DEF TypeOK, Threads, Labels, GoTo, ring
<1>1. CASE ml_queue_init
  BY <1>1, CapacityAssumption DEF ml_queue_init, Slots, Length
<1>2. CASE ml_queue_set_on_put
  BY <1>2 DEF ml_queue_set_on_put
<1>3. CASE ml_queue_destroy
  BY <1>3 DEF ml_queue_destroy
<1>4. ASSUME NEW p \in Putters, NEW m \in Messages, PutCall(p, m)
      PROVE  TypeOK'
  BY <1>4, ThreadAssumption DEF PutCall
<1>5. ASSUME NEW p \in Putters, PutStep(p)
      PROVE  TypeOK'
  <2>1. CASE PutCheck(p)
    BY <2>1, <1>5, ThreadAssumption DEF PutCheck, pthread_cond_wait
  <2>2. CASE PutPush(p)
    BY <2>2, <1>5, AdvanceWraps, ThreadAssumption DEF PutPush, push_message
  <2>3. CASE PutSignal(p)
    BY <2>3, <1>5, ThreadAssumption DEF PutSignal, pthread_cond_signal, Waiting
  <2>4. CASE PutUnlock(p)
    BY <2>4, <1>5, ThreadAssumption DEF PutUnlock
  <2>5. CASE PutOnPut(p)
    BY <2>5, <1>5, ThreadAssumption DEF PutOnPut
  <2> QED
    BY <1>5, <2>1, <2>2, <2>3, <2>4, <2>5 DEF PutStep
<1>6. ASSUME NEW g \in Getters, GetCall(g)
      PROVE  TypeOK'
  BY <1>6, ThreadAssumption DEF GetCall
<1>7. ASSUME NEW g \in Getters, GetStep(g)
      PROVE  TypeOK'
  <2>1. CASE GetCheck(g)
    BY <2>1, <1>7, ThreadAssumption DEF GetCheck, pthread_cond_wait
  <2>2. CASE GetPop(g)
    BY <2>2, <1>7, AdvanceWraps, ThreadAssumption DEF GetPop, pop_message
  <2>3. CASE GetSignal(g)
    BY <2>3, <1>7, ThreadAssumption DEF GetSignal, pthread_cond_signal, Waiting
  <2>4. CASE GetUnlock(g)
    BY <2>4, <1>7, ThreadAssumption DEF GetUnlock
  <2> QED
    BY <1>7, <2>1, <2>2, <2>3, <2>4 DEF GetStep
<1>8. ASSUME NEW t \in Threads, pthread_mutex_lock(t)
      PROVE  TypeOK'
  BY <1>8, ThreadAssumption DEF pthread_mutex_lock
<1>9. ASSUME NEW t \in Threads, SpuriousWakeup(t)
      PROVE  TypeOK'
  BY <1>9, ThreadAssumption DEF SpuriousWakeup
<1>10. CASE UNCHANGED vars
  BY <1>10 DEF vars
<1> QED
  BY <1>1, <1>2, <1>3, <1>4, <1>5, <1>6, <1>7, <1>8, <1>9, <1>10 DEF Next

\* Every variable keeps its type; in particular the positions of the ring stay
\* inside the slots ml_queue_init() allocates.
THEOREM TypeCorrect == Spec => []TypeOK
  BY TypeInit, TypeStep, PTL DEF Spec

-----------------------------------------------------------------------------
(* Mutual exclusion. The ring must not be touched while it is (re)initialized,*)
(* so the invariant needs the life cycle: a queue that is absent, or not yet  *)
(* used, has no thread inside put or get.                                     *)

UnusedIsQuiet ==
  /\ phase # "in_use" => \A t \in Threads : pc[t] = "idle"
  /\ phase = "setup" => is_empty /\ events = 0

\* The first part of MutualExclusion, thread by thread.
OwnsMutex(t) == pc[t] \in CriticalSection <=> mutex = t

ExclusionInv == TypeOK /\ UnusedIsQuiet /\ MutualExclusion

\* Who is between lock and unlock, thread by thread.
LEMMA HoldersByThread ==
  ASSUME TypeOK
  PROVE  Holders = {mutex} \ {NoThread} <=> \A t \in Threads : OwnsMutex(t)
  BY ThreadAssumption DEF Holders, OwnsMutex, TypeOK

\* At first no thread is inside a function and the mutex is free.
LEMMA ExclusionInit == Init => ExclusionInv
<1> SUFFICES ASSUME Init PROVE ExclusionInv
  OBVIOUS
<1>1. TypeOK
  BY TypeInit
<1>2. \A t \in Threads : OwnsMutex(t)
  BY ThreadAssumption DEF Init, OwnsMutex, CriticalSection
<1> QED
  BY <1>1, <1>2, HoldersByThread
     DEF ExclusionInv, UnusedIsQuiet, MutualExclusion, Init, is_empty, Threads

\* Only the owner of the mutex moves inside the critical section.
LEMMA ExclusionStep == ExclusionInv /\ [Next]_vars => ExclusionInv'
<1> SUFFICES ASSUME ExclusionInv, [Next]_vars
             PROVE  ExclusionInv'
  OBVIOUS
<1>t. TypeOK /\ TypeOK'
  BY TypeStep DEF ExclusionInv
<1>h. \A t \in Threads : OwnsMutex(t)
  BY <1>t, HoldersByThread DEF ExclusionInv, MutualExclusion
<1> DEFINE Checked == /\ \A p \in Putters : pc[p] = "push" => ~is_full
                      /\ \A g \in Getters : pc[g] = "pop" => ~is_empty
<1>c. Checked /\ UnusedIsQuiet
  BY DEF ExclusionInv, MutualExclusion
<1> SUFFICES UnusedIsQuiet' /\ (\A t \in Threads : OwnsMutex(t)') /\ Checked'
  <2>1. (TypeOK => (Holders = {mutex} \ {NoThread} <=> \A t \in Threads : OwnsMutex(t)))'
    BY HoldersByThread, PTL
  <2> QED
    BY <1>t, <2>1 DEF ExclusionInv, MutualExclusion
<1> USE <1>t, <1>h, <1>c, ThreadAssumption
    DEF OwnsMutex, UnusedIsQuiet, CriticalSection, GoTo, ring, is_empty, is_full, advance
<1>1. CASE ml_queue_init
  BY <1>1 DEF ml_queue_init, TypeOK, Threads
<1>2. CASE ml_queue_set_on_put
  BY <1>2 DEF ml_queue_set_on_put, TypeOK, Threads
<1>3. CASE ml_queue_destroy
  BY <1>3 DEF ml_queue_destroy, TypeOK, Threads
<1>4. ASSUME NEW p \in Putters, NEW m \in Messages, PutCall(p, m)
      PROVE  UnusedIsQuiet' /\ (\A t \in Threads : OwnsMutex(t)') /\ Checked'
  BY <1>4 DEF PutCall, TypeOK, Threads
<1>5. ASSUME NEW p \in Putters, PutStep(p)
      PROVE  UnusedIsQuiet' /\ (\A t \in Threads : OwnsMutex(t)') /\ Checked'
  <2>1. CASE PutCheck(p)
    BY <2>1, <1>5 DEF PutCheck, pthread_cond_wait, TypeOK, Threads
  <2>2. CASE PutPush(p)
    BY <2>2, <1>5 DEF PutPush, push_message, TypeOK, Threads
  <2>3. CASE PutSignal(p)
    BY <2>3, <1>5 DEF PutSignal, pthread_cond_signal, Waiting, TypeOK, Threads
  <2>4. CASE PutUnlock(p)
    BY <2>4, <1>5 DEF PutUnlock, TypeOK, Threads
  <2>5. CASE PutOnPut(p)
    BY <2>5, <1>5 DEF PutOnPut, TypeOK, Threads
  <2> QED
    BY <1>5, <2>1, <2>2, <2>3, <2>4, <2>5 DEF PutStep
<1>6. ASSUME NEW g \in Getters, GetCall(g)
      PROVE  UnusedIsQuiet' /\ (\A t \in Threads : OwnsMutex(t)') /\ Checked'
  BY <1>6 DEF GetCall, TypeOK, Threads
<1>7. ASSUME NEW g \in Getters, GetStep(g)
      PROVE  UnusedIsQuiet' /\ (\A t \in Threads : OwnsMutex(t)') /\ Checked'
  <2>1. CASE GetCheck(g)
    BY <2>1, <1>7 DEF GetCheck, pthread_cond_wait, TypeOK, Threads
  <2>2. CASE GetPop(g)
    BY <2>2, <1>7 DEF GetPop, pop_message, TypeOK, Threads
  <2>3. CASE GetSignal(g)
    BY <2>3, <1>7 DEF GetSignal, pthread_cond_signal, Waiting, TypeOK, Threads
  <2>4. CASE GetUnlock(g)
    BY <2>4, <1>7 DEF GetUnlock, TypeOK, Threads
  <2> QED
    BY <1>7, <2>1, <2>2, <2>3, <2>4 DEF GetStep
<1>8. ASSUME NEW t \in Threads, pthread_mutex_lock(t)
      PROVE  UnusedIsQuiet' /\ (\A u \in Threads : OwnsMutex(u)') /\ Checked'
  BY <1>8 DEF pthread_mutex_lock, TypeOK, Threads
<1>9. ASSUME NEW t \in Threads, SpuriousWakeup(t)
      PROVE  UnusedIsQuiet' /\ (\A u \in Threads : OwnsMutex(u)') /\ Checked'
  BY <1>9 DEF SpuriousWakeup, TypeOK, Threads
<1>10. CASE UNCHANGED vars
  BY <1>10 DEF vars, TypeOK, Threads
<1> QED
  BY <1>1, <1>2, <1>3, <1>4, <1>5, <1>6, <1>7, <1>8, <1>9, <1>10 DEF Next

\* At most one thread is between lock and unlock of ml_queue_put() and
\* ml_queue_get(), and a push never finds the ring full nor a pop finds it
\* empty, although the condition is evaluated in an earlier step.
THEOREM MutexProtectsRing == Spec => []MutualExclusion
<1>1. ExclusionInv => MutualExclusion
  BY DEF ExclusionInv
<1> QED
  BY <1>1, ExclusionInit, ExclusionStep, PTL DEF Spec

-----------------------------------------------------------------------------
(* Counting threads. A step of one thread adds it to a set of threads or     *)
(* takes it out of one.                                                      *)

\* A new element adds one to the size of a finite set.
LEMMA CardinalityAdd ==
  ASSUME NEW S, IsFiniteSet(S), NEW x, x \notin S, NEW T, T = S \cup {x}
  PROVE  Cardinality(T) = Cardinality(S) + 1
  BY FS_AddElement

\* An element that leaves takes one off the size of a finite set.
LEMMA CardinalityRemove ==
  ASSUME NEW S, IsFiniteSet(S), NEW x \in S, NEW T, T = S \ {x}
  PROVE  Cardinality(T) = Cardinality(S) - 1
  BY FS_RemoveElement

\* A subset of a finite set is not larger.
LEMMA CardinalityMonotone ==
  ASSUME NEW T, IsFiniteSet(T), NEW S, S \subseteq T
  PROVE  Cardinality(S) <= Cardinality(T)
  BY FS_Subset

\* The sets of threads that the invariants count are finite.
LEMMA FiniteThreadSets ==
  ASSUME NEW S, S \subseteq Threads
  PROVE  IsFiniteSet(S) /\ Cardinality(S) \in Nat
<1>1. IsFiniteSet(Threads)
  BY ThreadAssumption, FS_Union DEF Threads
<1> QED
  BY <1>1, FS_Subset, FS_CardinalityType

-----------------------------------------------------------------------------
(* No lost wakeup                                                            *)

GettersAwake ==
  Waiting(Getters) # {} =>
    Size <= Cardinality(GettersOnTheWay) + Cardinality(PutsToSignal)

PuttersAwake ==
  Waiting(Putters) # {} =>
    Capacity - Size <= Cardinality(PuttersOnTheWay) + Cardinality(GetsToSignal)

\* A step that leaves the ring alone, takes no getter off its way and wakes
\* none but lets some continue keeps the getters awake.
LEMMA GettersAwakeFrame ==
  ASSUME TypeOK, GettersAwake, Size' = Size,
         Waiting(Getters)' \subseteq Waiting(Getters),
         GettersOnTheWay \subseteq GettersOnTheWay',
         PutsToSignal \subseteq PutsToSignal'
  PROVE  GettersAwake'
<1>1. /\ Cardinality(GettersOnTheWay) <= Cardinality(GettersOnTheWay')
      /\ Cardinality(PutsToSignal) <= Cardinality(PutsToSignal')
      /\ IsFiniteSet(GettersOnTheWay') /\ IsFiniteSet(PutsToSignal')
  <2>1. /\ GettersOnTheWay' \subseteq Threads
        /\ PutsToSignal' \subseteq Threads
    BY DEF GettersOnTheWay, PutsToSignal, Threads
  <2> QED
    BY <2>1, FiniteThreadSets, CardinalityMonotone
<1>2. /\ Cardinality(GettersOnTheWay) \in Nat /\ Cardinality(GettersOnTheWay') \in Nat
      /\ Cardinality(PutsToSignal) \in Nat /\ Cardinality(PutsToSignal') \in Nat
  BY FiniteThreadSets DEF GettersOnTheWay, PutsToSignal, Threads
<1>3. Size \in Int
  BY RingSize, CapacityAssumption DEF TypeOK
<1> QED
  BY <1>1, <1>2, <1>3 DEF GettersAwake

\* The same for the putters.
LEMMA PuttersAwakeFrame ==
  ASSUME TypeOK, PuttersAwake, Size' = Size,
         Waiting(Putters)' \subseteq Waiting(Putters),
         PuttersOnTheWay \subseteq PuttersOnTheWay',
         GetsToSignal \subseteq GetsToSignal'
  PROVE  PuttersAwake'
<1>1. /\ Cardinality(PuttersOnTheWay) <= Cardinality(PuttersOnTheWay')
      /\ Cardinality(GetsToSignal) <= Cardinality(GetsToSignal')
      /\ IsFiniteSet(PuttersOnTheWay') /\ IsFiniteSet(GetsToSignal')
  <2>1. /\ PuttersOnTheWay' \subseteq Threads
        /\ GetsToSignal' \subseteq Threads
    BY DEF PuttersOnTheWay, GetsToSignal, Threads
  <2> QED
    BY <2>1, FiniteThreadSets, CardinalityMonotone
<1>2. /\ Cardinality(PuttersOnTheWay) \in Nat /\ Cardinality(PuttersOnTheWay') \in Nat
      /\ Cardinality(GetsToSignal) \in Nat /\ Cardinality(GetsToSignal') \in Nat
  BY FiniteThreadSets DEF PuttersOnTheWay, GetsToSignal, Threads
<1>3. Size \in Int
  BY RingSize, CapacityAssumption DEF TypeOK
<1> QED
  BY <1>1, <1>2, <1>3, CapacityAssumption DEF PuttersAwake

\* Nothing is counted on an empty ring, nor on a full one.
LEMMA NothingToWakeFor ==
  ASSUME TypeOK, Size' = Size
  PROVE  /\ is_empty => GettersAwake'
         /\ is_full => PuttersAwake'
<1>1. /\ Cardinality(GettersOnTheWay') \in Nat /\ Cardinality(PutsToSignal') \in Nat
      /\ Cardinality(PuttersOnTheWay') \in Nat /\ Cardinality(GetsToSignal') \in Nat
  BY FiniteThreadSets
     DEF GettersOnTheWay, PutsToSignal, PuttersOnTheWay, GetsToSignal, Threads
<1> QED
  BY <1>1, RingSize, CapacityAssumption DEF TypeOK, GettersAwake, PuttersAwake

WakeupInv == ExclusionInv /\ NoLostWakeup

\* What ml_queue_put() does to the threads counted: the push counts a message
\* and the putter that will signal it, and takes the putter and the slot it
\* fills out of the other count; the signal hands over to a woken getter.
LEMMA PushKeepsAwake ==
  ASSUME WakeupInv, NEW p \in Putters, PutPush(p), TypeOK'
  PROVE  GettersAwake' /\ PuttersAwake'
<1> USE DEF WakeupInv, ExclusionInv, TypeOK, Threads
<1>1. Size' = Size + 1 /\ Size \in 0 .. Capacity
  <2>1. ~is_full
    BY DEF MutualExclusion, PutPush
  <2> QED
    BY <2>1, PushSize, RingSize DEF PutPush, push_message
<1>2. /\ Waiting(Getters)' = Waiting(Getters)
      /\ Waiting(Putters)' = Waiting(Putters)
      /\ GettersOnTheWay' = GettersOnTheWay
      /\ GetsToSignal' = GetsToSignal
      /\ PutsToSignal' = PutsToSignal \cup {p} /\ p \notin PutsToSignal
      /\ PuttersOnTheWay' = PuttersOnTheWay \ {p} /\ p \in PuttersOnTheWay
  BY ThreadAssumption DEF PutPush, GoTo,
         Waiting, GettersOnTheWay, PutsToSignal, PuttersOnTheWay, GetsToSignal
<1>3. /\ IsFiniteSet(PutsToSignal) /\ IsFiniteSet(PuttersOnTheWay)
      /\ Cardinality(PutsToSignal) \in Nat /\ Cardinality(PuttersOnTheWay) \in Nat
      /\ Cardinality(GettersOnTheWay) \in Nat /\ Cardinality(GetsToSignal) \in Nat
  BY FiniteThreadSets DEF Waiting, GettersOnTheWay, PutsToSignal,
         PuttersOnTheWay, GetsToSignal
<1>4. /\ Cardinality(PutsToSignal') = Cardinality(PutsToSignal) + 1
      /\ Cardinality(PuttersOnTheWay') = Cardinality(PuttersOnTheWay) - 1
  BY <1>2, <1>3, CardinalityAdd, CardinalityRemove
<1> QED
  BY <1>1, <1>2, <1>3, <1>4, CapacityAssumption DEF NoLostWakeup, GettersAwake, PuttersAwake

\* The signal at the end of ml_queue_put() wakes a getter if one waits.
LEMMA PutSignalKeepsAwake ==
  ASSUME WakeupInv, NEW p \in Putters, PutSignal(p), TypeOK'
  PROVE  GettersAwake' /\ PuttersAwake'
<1> USE DEF WakeupInv, ExclusionInv, TypeOK, Threads
<1>1. Size' = Size /\ Size \in 0 .. Capacity
  BY RingSize DEF PutSignal, pthread_cond_signal, ring, Size, Length
<1>2. PICK woken \in SUBSET Waiting(Getters) :
        /\ Waiting(Getters) # {} => woken # {}
        /\ pc' = [u \in Threads |-> IF u = p THEN "unlock"
                                    ELSE IF u \in woken THEN "lock" ELSE pc[u]]
  BY DEF PutSignal, pthread_cond_signal
<1>3. /\ Waiting(Getters)' \subseteq Waiting(Getters)
      /\ Waiting(Putters)' \subseteq Waiting(Putters)
      /\ PuttersOnTheWay \subseteq PuttersOnTheWay'
      /\ GetsToSignal \subseteq GetsToSignal'
      /\ GettersOnTheWay \cup woken \subseteq GettersOnTheWay'
      /\ PutsToSignal' = PutsToSignal \ {p} /\ p \in PutsToSignal
  BY <1>2, ThreadAssumption DEF PutSignal,
         Waiting, GettersOnTheWay, PutsToSignal, PuttersOnTheWay, GetsToSignal
<1>4. PuttersAwake'
  BY <1>1, <1>3, PuttersAwakeFrame DEF NoLostWakeup, PuttersAwake
<1>5. ASSUME Waiting(Getters)' # {}
      PROVE  Size' <= Cardinality(GettersOnTheWay') + Cardinality(PutsToSignal')
  <2>1. PICK w \in woken : TRUE
    BY <1>2, <1>3, <1>5
  <2>2. w \notin GettersOnTheWay
    BY <2>1, <1>2 DEF Waiting, GettersOnTheWay
  <2>3. /\ IsFiniteSet(PutsToSignal) /\ IsFiniteSet(GettersOnTheWay)
        /\ IsFiniteSet(GettersOnTheWay') /\ Cardinality(GettersOnTheWay') \in Nat
        /\ Cardinality(PutsToSignal) \in Nat /\ Cardinality(GettersOnTheWay) \in Nat
    BY FiniteThreadSets DEF PutsToSignal, GettersOnTheWay
  <2>4. Cardinality(GettersOnTheWay \cup {w}) = Cardinality(GettersOnTheWay) + 1
    BY <2>2, <2>3, CardinalityAdd
  <2>5. Cardinality(GettersOnTheWay \cup {w}) <= Cardinality(GettersOnTheWay')
    BY <1>3, <2>1, <2>3, CardinalityMonotone
  <2>6. Cardinality(PutsToSignal') = Cardinality(PutsToSignal) - 1
    BY <1>3, <2>3, CardinalityRemove
  <2>7. Size <= Cardinality(GettersOnTheWay) + Cardinality(PutsToSignal)
    BY <1>3, <1>5 DEF NoLostWakeup
  <2> QED
    BY <1>1, <2>3, <2>4, <2>5, <2>6, <2>7, CapacityAssumption
<1> QED
  BY <1>4, <1>5 DEF GettersAwake

\* The same for ml_queue_get(), with slots instead of messages.
LEMMA PopKeepsAwake ==
  ASSUME WakeupInv, NEW g \in Getters, GetPop(g), TypeOK'
  PROVE  GettersAwake' /\ PuttersAwake'
<1> USE DEF WakeupInv, ExclusionInv, TypeOK, Threads
<1>1. Size' = Size - 1 /\ Size \in 0 .. Capacity
  <2>1. ~is_empty
    BY DEF MutualExclusion, GetPop
  <2> QED
    BY <2>1, PopSize, RingSize DEF GetPop, pop_message
<1>2. /\ Waiting(Getters)' = Waiting(Getters)
      /\ Waiting(Putters)' = Waiting(Putters)
      /\ PuttersOnTheWay' = PuttersOnTheWay
      /\ PutsToSignal' = PutsToSignal
      /\ GetsToSignal' = GetsToSignal \cup {g} /\ g \notin GetsToSignal
      /\ GettersOnTheWay' = GettersOnTheWay \ {g} /\ g \in GettersOnTheWay
  BY ThreadAssumption DEF GetPop, GoTo,
         Waiting, GettersOnTheWay, PutsToSignal, PuttersOnTheWay, GetsToSignal
<1>3. /\ IsFiniteSet(GetsToSignal) /\ IsFiniteSet(GettersOnTheWay)
      /\ Cardinality(PutsToSignal) \in Nat /\ Cardinality(PuttersOnTheWay) \in Nat
      /\ Cardinality(GettersOnTheWay) \in Nat /\ Cardinality(GetsToSignal) \in Nat
  BY FiniteThreadSets DEF Waiting, GettersOnTheWay, PutsToSignal,
         PuttersOnTheWay, GetsToSignal
<1>4. /\ Cardinality(GetsToSignal') = Cardinality(GetsToSignal) + 1
      /\ Cardinality(GettersOnTheWay') = Cardinality(GettersOnTheWay) - 1
  BY <1>2, <1>3, CardinalityAdd, CardinalityRemove
<1> QED
  BY <1>1, <1>2, <1>3, <1>4, CapacityAssumption DEF NoLostWakeup, GettersAwake, PuttersAwake

\* The signal at the end of ml_queue_get() wakes a putter if one waits.
LEMMA GetSignalKeepsAwake ==
  ASSUME WakeupInv, NEW g \in Getters, GetSignal(g), TypeOK'
  PROVE  GettersAwake' /\ PuttersAwake'
<1> USE DEF WakeupInv, ExclusionInv, TypeOK, Threads
<1>1. Size' = Size /\ Size \in 0 .. Capacity
  BY RingSize DEF GetSignal, pthread_cond_signal, ring, Size, Length
<1>2. PICK woken \in SUBSET Waiting(Putters) :
        /\ Waiting(Putters) # {} => woken # {}
        /\ pc' = [u \in Threads |-> IF u = g THEN "unlock"
                                    ELSE IF u \in woken THEN "lock" ELSE pc[u]]
  BY DEF GetSignal, pthread_cond_signal
<1>3. /\ Waiting(Getters)' \subseteq Waiting(Getters)
      /\ Waiting(Putters)' \subseteq Waiting(Putters)
      /\ GettersOnTheWay \subseteq GettersOnTheWay'
      /\ PutsToSignal \subseteq PutsToSignal'
      /\ PuttersOnTheWay \cup woken \subseteq PuttersOnTheWay'
      /\ GetsToSignal' = GetsToSignal \ {g} /\ g \in GetsToSignal
  BY <1>2, ThreadAssumption DEF GetSignal,
         Waiting, GettersOnTheWay, PutsToSignal, PuttersOnTheWay, GetsToSignal
<1>4. GettersAwake'
  BY <1>1, <1>3, GettersAwakeFrame DEF NoLostWakeup, GettersAwake
<1>5. ASSUME Waiting(Putters)' # {}
      PROVE  Capacity - Size' <= Cardinality(PuttersOnTheWay') + Cardinality(GetsToSignal')
  <2>1. PICK w \in woken : TRUE
    BY <1>2, <1>3, <1>5
  <2>2. w \notin PuttersOnTheWay
    BY <2>1, <1>2 DEF Waiting, PuttersOnTheWay
  <2>3. /\ IsFiniteSet(GetsToSignal) /\ IsFiniteSet(PuttersOnTheWay)
        /\ IsFiniteSet(PuttersOnTheWay') /\ Cardinality(PuttersOnTheWay') \in Nat
        /\ Cardinality(GetsToSignal) \in Nat /\ Cardinality(PuttersOnTheWay) \in Nat
    BY FiniteThreadSets DEF GetsToSignal, PuttersOnTheWay
  <2>4. Cardinality(PuttersOnTheWay \cup {w}) = Cardinality(PuttersOnTheWay) + 1
    BY <2>2, <2>3, CardinalityAdd
  <2>5. Cardinality(PuttersOnTheWay \cup {w}) <= Cardinality(PuttersOnTheWay')
    BY <1>3, <2>1, <2>3, CardinalityMonotone
  <2>6. Cardinality(GetsToSignal') = Cardinality(GetsToSignal) - 1
    BY <1>3, <2>3, CardinalityRemove
  <2>7. Capacity - Size <= Cardinality(PuttersOnTheWay) + Cardinality(GetsToSignal)
    BY <1>3, <1>5 DEF NoLostWakeup
  <2> QED
    BY <1>1, <2>3, <2>4, <2>5, <2>6, <2>7, CapacityAssumption
<1> QED
  BY <1>4, <1>5 DEF PuttersAwake

\* At first nobody waits.
LEMMA WakeupInit == Init => WakeupInv
<1> SUFFICES ASSUME Init PROVE NoLostWakeup
  BY ExclusionInit DEF WakeupInv
<1>1. Waiting(Getters) = {} /\ Waiting(Putters) = {}
  BY DEF Init, Waiting, Threads
<1> QED
  BY <1>1 DEF NoLostWakeup

\* No statement of put or get, and no spurious wakeup, loses a wakeup.
LEMMA WakeupStep == WakeupInv /\ [Next]_vars => WakeupInv'
<1> SUFFICES ASSUME WakeupInv, [Next]_vars
             PROVE  WakeupInv'
  OBVIOUS
<1> SUFFICES GettersAwake' /\ PuttersAwake'
  <2>1. ExclusionInv'
    BY ExclusionStep DEF WakeupInv
  <2> QED
    BY <2>1 DEF WakeupInv, NoLostWakeup, GettersAwake, PuttersAwake
<1>t. TypeOK /\ TypeOK' /\ ExclusionInv /\ GettersAwake /\ PuttersAwake
  BY TypeStep DEF WakeupInv, ExclusionInv, NoLostWakeup, GettersAwake, PuttersAwake
<1> DEFINE SameSize == Size' = Size
           GettersFrame == /\ Waiting(Getters)' \subseteq Waiting(Getters)
                           /\ GettersOnTheWay \subseteq GettersOnTheWay'
                           /\ PutsToSignal \subseteq PutsToSignal'
           PuttersFrame == /\ Waiting(Putters)' \subseteq Waiting(Putters)
                           /\ PuttersOnTheWay \subseteq PuttersOnTheWay'
                           /\ GetsToSignal \subseteq GetsToSignal'
<1>f. SameSize /\ GettersFrame /\ PuttersFrame => GettersAwake' /\ PuttersAwake'
  BY <1>t, GettersAwakeFrame, PuttersAwakeFrame
<1>s. UNCHANGED ring => SameSize
  BY DEF ring, Size, Length
<1> HIDE DEF SameSize
<1> USE <1>t, ThreadAssumption
<1>1. CASE ml_queue_init
  <2>1. Waiting(Getters)' = {} /\ Waiting(Putters)' = {}
    BY <1>1 DEF ml_queue_init, ExclusionInv, UnusedIsQuiet, Waiting, Threads
  <2> QED
    BY <2>1 DEF GettersAwake, PuttersAwake
<1>2. CASE ml_queue_set_on_put
  BY <1>2, <1>f, <1>s DEF ml_queue_set_on_put,
         Waiting, GettersOnTheWay, PutsToSignal, PuttersOnTheWay, GetsToSignal
<1>3. CASE ml_queue_destroy
  BY <1>3, <1>f, <1>s DEF ml_queue_destroy,
         Waiting, GettersOnTheWay, PutsToSignal, PuttersOnTheWay, GetsToSignal
<1>4. ASSUME NEW p \in Putters, NEW m \in Messages, PutCall(p, m)
      PROVE  GettersAwake' /\ PuttersAwake'
  BY <1>4, <1>f, <1>s DEF PutCall, GoTo, TypeOK, Threads,
         Waiting, GettersOnTheWay, PutsToSignal, PuttersOnTheWay, GetsToSignal
<1>5. ASSUME NEW p \in Putters, PutStep(p)
      PROVE  GettersAwake' /\ PuttersAwake'
  <2>1. CASE PutCheck(p)
    <3>1. SameSize /\ GettersFrame
      BY <2>1, <1>s
         DEF PutCheck, pthread_cond_wait, GoTo, TypeOK, Threads,
         Waiting, GettersOnTheWay, PutsToSignal, PuttersOnTheWay, GetsToSignal
    <3>2. CASE is_full
      BY <3>1, <3>2, GettersAwakeFrame, NothingToWakeFor DEF SameSize
    <3>3. CASE ~is_full
      BY <2>1, <3>1, <3>3, <1>f DEF PutCheck, GoTo, TypeOK, Threads,
         Waiting, GettersOnTheWay, PutsToSignal, PuttersOnTheWay, GetsToSignal
    <3> QED
      BY <3>2, <3>3
  <2>2. CASE PutPush(p)
    BY <2>2, PushKeepsAwake
  <2>3. CASE PutSignal(p)
    BY <2>3, PutSignalKeepsAwake
  <2>4. CASE PutUnlock(p)
    BY <2>4, <1>f, <1>s DEF PutUnlock, GoTo, TypeOK, Threads,
         Waiting, GettersOnTheWay, PutsToSignal, PuttersOnTheWay, GetsToSignal
  <2>5. CASE PutOnPut(p)
    BY <2>5, <1>f, <1>s DEF PutOnPut, GoTo, TypeOK, Threads,
         Waiting, GettersOnTheWay, PutsToSignal, PuttersOnTheWay, GetsToSignal
  <2> QED
    BY <1>5, <2>1, <2>2, <2>3, <2>4, <2>5 DEF PutStep
<1>6. ASSUME NEW g \in Getters, GetCall(g)
      PROVE  GettersAwake' /\ PuttersAwake'
  BY <1>6, <1>f, <1>s DEF GetCall, GoTo, TypeOK, Threads,
         Waiting, GettersOnTheWay, PutsToSignal, PuttersOnTheWay, GetsToSignal
<1>7. ASSUME NEW g \in Getters, GetStep(g)
      PROVE  GettersAwake' /\ PuttersAwake'
  <2>1. CASE GetCheck(g)
    <3>1. SameSize /\ PuttersFrame
      BY <2>1, <1>s
         DEF GetCheck, pthread_cond_wait, GoTo, TypeOK, Threads,
         Waiting, GettersOnTheWay, PutsToSignal, PuttersOnTheWay, GetsToSignal
    <3>2. CASE is_empty
      BY <3>1, <3>2, PuttersAwakeFrame, NothingToWakeFor DEF SameSize
    <3>3. CASE ~is_empty
      BY <2>1, <3>1, <3>3, <1>f DEF GetCheck, GoTo, TypeOK, Threads,
         Waiting, GettersOnTheWay, PutsToSignal, PuttersOnTheWay, GetsToSignal
    <3> QED
      BY <3>2, <3>3
  <2>2. CASE GetPop(g)
    BY <2>2, PopKeepsAwake
  <2>3. CASE GetSignal(g)
    BY <2>3, GetSignalKeepsAwake
  <2>4. CASE GetUnlock(g)
    BY <2>4, <1>f, <1>s DEF GetUnlock, GoTo, TypeOK, Threads,
         Waiting, GettersOnTheWay, PutsToSignal, PuttersOnTheWay, GetsToSignal
  <2> QED
    BY <1>7, <2>1, <2>2, <2>3, <2>4 DEF GetStep
<1>8. ASSUME NEW t \in Threads, pthread_mutex_lock(t)
      PROVE  GettersAwake' /\ PuttersAwake'
  BY <1>8, <1>f, <1>s DEF pthread_mutex_lock, GoTo, TypeOK, Threads,
         Waiting, GettersOnTheWay, PutsToSignal, PuttersOnTheWay, GetsToSignal
<1>9. ASSUME NEW t \in Threads, SpuriousWakeup(t)
      PROVE  GettersAwake' /\ PuttersAwake'
  BY <1>9, <1>f, <1>s DEF SpuriousWakeup, GoTo, TypeOK, Threads,
         Waiting, GettersOnTheWay, PutsToSignal, PuttersOnTheWay, GetsToSignal
<1>10. CASE UNCHANGED vars
  BY <1>10, <1>f, <1>s DEF vars, ring,
         Waiting, GettersOnTheWay, PutsToSignal, PuttersOnTheWay, GetsToSignal
<1> QED
  BY <1>1, <1>2, <1>3, <1>4, <1>5, <1>6, <1>7, <1>8, <1>9, <1>10 DEF Next

\* A signal is never lost in ml_queue_put() and ml_queue_get(), whichever
\* waiting thread it wakes and whoever takes the message or the slot first: no
\* thread stays waiting next to a message or a slot nobody else comes for.
THEOREM WakeupsAreNotLost == Spec => []NoLostWakeup
<1>1. WakeupInv => NoLostWakeup
  BY DEF WakeupInv
<1> QED
  BY <1>1, WakeupInit, WakeupStep, PTL DEF Spec

-----------------------------------------------------------------------------
(* One event per message                                                     *)

EventInv == ExclusionInv /\ EventPerMessage

\* A step that moves no thread into or out of the counted sets, and changes
\* neither the ring nor the eventfd, keeps the balance.
LEMMA EventFrame ==
  ASSUME EventInv, Size' = Size, events' = events, on_put' = on_put,
         PutsToAnnounce' = PutsToAnnounce, GettersInside' = GettersInside,
         Waiting(Getters)' \subseteq Waiting(Getters)
  PROVE  EventPerMessage'
  BY DEF EventInv, EventPerMessage

\* At first there is no callback.
LEMMA EventInit == Init => EventInv
  BY ExclusionInit DEF EventInv, EventPerMessage, Init

\* Every step keeps events and messages in balance.
LEMMA EventStep == EventInv /\ [Next]_vars => EventInv'
<1> SUFFICES ASSUME EventInv, [Next]_vars
             PROVE  EventInv'
  OBVIOUS
<1> SUFFICES EventPerMessage'
  BY ExclusionStep DEF EventInv
<1>t. TypeOK /\ ExclusionInv /\ EventPerMessage
  BY DEF EventInv, ExclusionInv
<1>r. Size \in 0 .. Capacity
  BY <1>t, RingSize DEF TypeOK
<1>n. /\ IsFiniteSet(PutsToAnnounce) /\ IsFiniteSet(GettersInside)
      /\ Cardinality(PutsToAnnounce) \in Nat /\ Cardinality(GettersInside) \in Nat
      /\ events \in Nat
  BY <1>t, FiniteThreadSets DEF PutsToAnnounce, GettersInside, Threads, TypeOK
<1>s. UNCHANGED ring => Size' = Size
  BY DEF ring, Size, Length
<1> USE <1>t, ThreadAssumption DEF GoTo
<1>1. CASE ml_queue_init
  BY <1>1 DEF ml_queue_init, EventPerMessage
<1>2. CASE ml_queue_set_on_put
  <2>1. PutsToAnnounce' = {} /\ GettersInside' = {} /\ Waiting(Getters)' = {}
    BY <1>2 DEF ml_queue_set_on_put, ExclusionInv, UnusedIsQuiet, Threads,
                PutsToAnnounce, GettersInside, Waiting
  <2>2. Size' = 0 /\ events' = 0
    BY <1>2, <1>s, RingSize DEF ml_queue_set_on_put, ExclusionInv, UnusedIsQuiet, TypeOK
  <2> QED
    BY <2>1, <2>2, FS_EmptySet DEF EventPerMessage
<1>3. CASE ml_queue_destroy
  BY <1>3, <1>s, EventFrame
     DEF ml_queue_destroy, PutsToAnnounce, GettersInside, Waiting
<1>4. ASSUME NEW p \in Putters, NEW m \in Messages, PutCall(p, m)
      PROVE  EventPerMessage'
  BY <1>4, <1>s, EventFrame
     DEF PutCall, TypeOK, Threads, PutsToAnnounce, GettersInside, Waiting
<1>5. ASSUME NEW p \in Putters, PutStep(p)
      PROVE  EventPerMessage'
  <2>1. CASE PutCheck(p)
    BY <2>1, <1>s, EventFrame
       DEF PutCheck, pthread_cond_wait, TypeOK, Threads,
           PutsToAnnounce, GettersInside, Waiting
  <2>2. CASE PutPush(p)
    <3>1. Size' = Size + 1
      BY <2>2, PushSize
         DEF PutPush, push_message, TypeOK, ExclusionInv, MutualExclusion
    <3>2. /\ PutsToAnnounce' = PutsToAnnounce \cup {p} /\ p \notin PutsToAnnounce
          /\ GettersInside' = GettersInside
          /\ Waiting(Getters)' = Waiting(Getters)
          /\ UNCHANGED <<events, on_put>>
      BY <2>2 DEF PutPush, TypeOK, Threads, PutsToAnnounce, GettersInside, Waiting
    <3>3. Cardinality(PutsToAnnounce') = Cardinality(PutsToAnnounce) + 1
      BY <3>2, <1>n, CardinalityAdd
    <3> QED
      BY <3>1, <3>2, <3>3, <1>n, <1>r DEF EventPerMessage
  <2>3. CASE PutSignal(p)
    BY <2>3, <1>s, EventFrame
       DEF PutSignal, pthread_cond_signal, TypeOK, Threads,
           PutsToAnnounce, GettersInside, Waiting
  <2>4. CASE PutUnlock(p)
    <3>1. CASE on_put = "set"
      BY <2>4, <3>1, <1>s, EventFrame
         DEF PutUnlock, TypeOK, Threads, PutsToAnnounce, GettersInside, Waiting
    <3>2. CASE on_put # "set"
      BY <2>4, <3>2 DEF PutUnlock, EventPerMessage
    <3> QED
      BY <3>1, <3>2
  <2>5. CASE PutOnPut(p)
    <3>1. /\ PutsToAnnounce' = PutsToAnnounce \ {p} /\ p \in PutsToAnnounce
          /\ GettersInside' = GettersInside
          /\ Waiting(Getters)' = Waiting(Getters)
          /\ events' = events + 1 /\ on_put' = on_put
      BY <2>5 DEF PutOnPut, TypeOK, Threads, PutsToAnnounce, GettersInside, Waiting
    <3>2. Cardinality(PutsToAnnounce') = Cardinality(PutsToAnnounce) - 1
      BY <3>1, <1>n, CardinalityRemove
    <3>3. Size' = Size
      BY <2>5, <1>s DEF PutOnPut
    <3> QED
      BY <3>1, <3>2, <3>3, <1>n, <1>r DEF EventPerMessage
  <2> QED
    BY <1>5, <2>1, <2>2, <2>3, <2>4, <2>5 DEF PutStep
<1>6. ASSUME NEW g \in Getters, GetCall(g)
      PROVE  EventPerMessage'
  <2> SUFFICES ASSUME on_put = "set" PROVE EventPerMessage'
    BY <1>6 DEF GetCall, EventPerMessage
  <2>1. /\ GettersInside' = GettersInside \cup {g} /\ g \notin GettersInside
        /\ PutsToAnnounce' = PutsToAnnounce
        /\ Waiting(Getters)' = Waiting(Getters)
        /\ events' = events - 1 /\ on_put' = on_put
    BY <1>6 DEF GetCall, TypeOK, Threads, PutsToAnnounce, GettersInside, Waiting
  <2>2. Cardinality(GettersInside') = Cardinality(GettersInside) + 1
    BY <2>1, <1>n, CardinalityAdd
  <2>3. Size' = Size
    BY <1>6, <1>s DEF GetCall
  <2> QED
    BY <2>1, <2>2, <2>3, <1>n, <1>r DEF EventPerMessage
<1>7. ASSUME NEW g \in Getters, GetStep(g)
      PROVE  EventPerMessage'
  <2>1. CASE GetCheck(g)
    <3> SUFFICES ASSUME on_put = "set" PROVE EventPerMessage'
      BY <2>1 DEF GetCheck, EventPerMessage
    <3>1. g \in GettersInside
      BY <2>1 DEF GetCheck, GettersInside
    <3>2. Cardinality(GettersInside) # 0
      BY <3>1, <1>n, FS_EmptySet
    <3>3. ~is_empty
      BY <3>2, <1>n, <1>r, RingSize DEF EventPerMessage, TypeOK
    <3> QED
      BY <2>1, <3>3, <1>s, EventFrame
         DEF GetCheck, TypeOK, Threads, PutsToAnnounce, GettersInside, Waiting
  <2>2. CASE GetPop(g)
    <3>1. Size' = Size - 1
      BY <2>2, PopSize
         DEF GetPop, pop_message, TypeOK, ExclusionInv, MutualExclusion
    <3>2. /\ GettersInside' = GettersInside \ {g} /\ g \in GettersInside
          /\ PutsToAnnounce' = PutsToAnnounce
          /\ Waiting(Getters)' = Waiting(Getters)
          /\ UNCHANGED <<events, on_put>>
      BY <2>2 DEF GetPop, TypeOK, Threads, PutsToAnnounce, GettersInside, Waiting
    <3>3. Cardinality(GettersInside') = Cardinality(GettersInside) - 1
      BY <3>2, <1>n, CardinalityRemove
    <3> QED
      BY <3>1, <3>2, <3>3, <1>n, <1>r DEF EventPerMessage
  <2>3. CASE GetSignal(g)
    BY <2>3, <1>s, EventFrame
       DEF GetSignal, pthread_cond_signal, TypeOK, Threads,
           PutsToAnnounce, GettersInside, Waiting
  <2>4. CASE GetUnlock(g)
    BY <2>4, <1>s, EventFrame
       DEF GetUnlock, TypeOK, Threads, PutsToAnnounce, GettersInside, Waiting
  <2> QED
    BY <1>7, <2>1, <2>2, <2>3, <2>4 DEF GetStep
<1>8. ASSUME NEW t \in Threads, pthread_mutex_lock(t)
      PROVE  EventPerMessage'
  BY <1>8, <1>s, EventFrame
     DEF pthread_mutex_lock, TypeOK, Threads, PutsToAnnounce, GettersInside, Waiting
<1>9. ASSUME NEW t \in Threads, SpuriousWakeup(t)
      PROVE  EventPerMessage'
  BY <1>9, <1>s, EventFrame
     DEF SpuriousWakeup, TypeOK, Threads, PutsToAnnounce, GettersInside, Waiting
<1>10. CASE UNCHANGED vars
  BY <1>10, <1>s, EventFrame DEF vars, ring, PutsToAnnounce, GettersInside, Waiting
<1> QED
  BY <1>1, <1>2, <1>3, <1>4, <1>5, <1>6, <1>7, <1>8, <1>9, <1>10 DEF Next

\* A thread that reads one event of on_put_signal_event() before each
\* ml_queue_get() finds a message each time and never blocks in the get.
THEOREM EventDrivenGetNeverWaits == Spec => []EventPerMessage
<1>1. EventInv => EventPerMessage
  BY DEF EventInv
<1> QED
  BY <1>1, EventInit, EventStep, PTL DEF Spec

-----------------------------------------------------------------------------
(* Refinement of Fifo                                                        *)

\* A thread inside ml_queue_get() holds no message until it pops one.
GettersEmptyHanded ==
  \A g \in Getters : pc[g] \in {"lock", "check", "wait", "pop"} => arg[g] = NoMessage

\* A getter that has not popped yet holds no message.
LEMMA EmptyHandedStep ==
  ASSUME TypeOK, GettersEmptyHanded, [Next]_vars
  PROVE  GettersEmptyHanded'
<1> USE ThreadAssumption DEF GettersEmptyHanded, GoTo, TypeOK, Threads
<1>1. CASE ml_queue_init \/ ml_queue_set_on_put \/ ml_queue_destroy
  BY <1>1 DEF ml_queue_init, ml_queue_set_on_put, ml_queue_destroy
<1>2. ASSUME NEW p \in Putters,
             (\E m \in Messages : PutCall(p, m)) \/ PutStep(p)
      PROVE  GettersEmptyHanded'
  BY <1>2 DEF PutStep, PutCall, PutCheck, PutPush, PutSignal, PutUnlock, PutOnPut,
              pthread_cond_wait, pthread_cond_signal, Waiting
<1>3. ASSUME NEW g \in Getters, GetCall(g) \/ GetStep(g)
      PROVE  GettersEmptyHanded'
  BY <1>3 DEF GetStep, GetCall, GetCheck, GetPop, GetSignal, GetUnlock,
              pop_message, pthread_cond_wait, pthread_cond_signal, Waiting
<1>4. ASSUME NEW t \in Threads, pthread_mutex_lock(t) \/ SpuriousWakeup(t)
      PROVE  GettersEmptyHanded'
  BY <1>4 DEF pthread_mutex_lock, SpuriousWakeup
<1>5. CASE UNCHANGED vars
  BY <1>5 DEF vars
<1> QED
  BY <1>1, <1>2, <1>3, <1>4, <1>5 DEF Next

\* The content of the ring is a sequence of Size elements.
LEMMA ContentIsSequence ==
  ASSUME TypeOK
  PROVE  /\ Content \in Seq(Messages \cup {NoMessage})
         /\ Len(Content) = Size
<1>1. Size \in 0 .. Capacity
  BY RingSize DEF TypeOK
<1>2. \A i \in 1 .. Size : Content[i] \in Messages \cup {NoMessage}
  BY <1>1, CapacityAssumption DEF Content, Size, TypeOK, Slots, Length
<1> QED
  BY <1>1, <1>2, CapacityAssumption DEF Content

\* A push appends to the content.
LEMMA PushAppends ==
  ASSUME TypeOK, TypeOK', NEW m \in Messages, ~is_full, push_message(m)
  PROVE  Content' = Append(Content, m)
<1>1. Size \in 0 .. Capacity /\ Size # Capacity /\ Size' = Size + 1
  BY RingSize, PushSize DEF TypeOK, push_message
<1>2. Content \in Seq(Messages \cup {NoMessage}) /\ Len(Content) = Size
  BY ContentIsSequence
<1>3. advance(wrpos) = IF wrpos = Capacity THEN 0 ELSE wrpos + 1
  BY AdvanceWraps DEF TypeOK
<1>4. \A i \in 1 .. Size + 1 : Content'[i] = Append(Content, m)[i]
  <2> SUFFICES ASSUME NEW i \in 1 .. Size + 1
               PROVE  Content'[i] = Append(Content, m)[i]
    OBVIOUS
  <2> DEFINE Slot(k) == IF rdpos + k - 1 < Length THEN rdpos + k - 1
                                                  ELSE rdpos + k - 1 - Length
  <2>1. Content'[i] = messages'[Slot(i)]
    BY <1>1, CapacityAssumption DEF Content, push_message, Length
  <2>2. CASE i = Size + 1
    <3>1. Slot(i) = wrpos
      BY <2>2, <1>1, CapacityAssumption DEF Size, TypeOK, Slots, Length
    <3>2. messages'[wrpos] = m
      BY DEF TypeOK, push_message
    <3>3. Append(Content, m)[i] = m
      BY <1>1, <1>2, <2>2, CapacityAssumption
    <3> QED
      BY <2>1, <3>1, <3>2, <3>3
  <2>3. CASE i \in 1 .. Size
    <3>1. Slot(i) # wrpos /\ Slot(i) \in Slots
      BY <2>3, <1>1, CapacityAssumption DEF Size, TypeOK, Slots, Length
    <3>2. messages'[Slot(i)] = messages[Slot(i)]
      BY <3>1 DEF TypeOK, push_message
    <3>3. Content[i] = messages[Slot(i)]
      BY <2>3 DEF Content
    <3>4. Append(Content, m)[i] = Content[i]
      BY <1>1, <1>2, <2>3, CapacityAssumption
    <3> QED
      BY <2>1, <3>2, <3>3, <3>4
  <2>4. i = Size + 1 \/ i \in 1 .. Size
    BY <1>1, CapacityAssumption
  <2> QED
    BY <2>2, <2>3, <2>4
<1>5. /\ Content' = [i \in 1 .. Size + 1 |-> Content'[i]]
      /\ Append(Content, m) = [i \in 1 .. Size + 1 |-> Append(Content, m)[i]]
  BY <1>1, <1>2 DEF Content
<1> QED
  BY <1>4, <1>5

\* A pop returns the head of the content and leaves the tail.
LEMMA PopTakesHead ==
  ASSUME TypeOK, TypeOK', NEW g \in Getters, ~is_empty, pop_message(g)
  PROVE  /\ Content # <<>>
         /\ messages[rdpos] = Head(Content)
         /\ Content' = Tail(Content)
<1>1. Size \in 0 .. Capacity /\ Size # 0 /\ Size' = Size - 1
  BY RingSize, PopSize DEF TypeOK, pop_message
<1>2. Content \in Seq(Messages \cup {NoMessage}) /\ Len(Content) = Size
  BY ContentIsSequence
<1>3. advance(rdpos) = IF rdpos = Capacity THEN 0 ELSE rdpos + 1
  BY AdvanceWraps DEF TypeOK
<1>4. Head(Content) = Content[1] /\ Content[1] = messages[rdpos]
  BY <1>1, <1>2, CapacityAssumption DEF Content, TypeOK, Slots, Length
<1>5. \A i \in 1 .. Size - 1 : Content'[i] = Tail(Content)[i]
  <2> SUFFICES ASSUME NEW i \in 1 .. Size - 1
               PROVE  Content'[i] = Tail(Content)[i]
    OBVIOUS
  <2>1. Tail(Content)[i] = Content[i + 1]
    BY <1>1, <1>2, CapacityAssumption
  <2>2. Content'[i] = messages[IF rdpos' + i - 1 < Length THEN rdpos' + i - 1
                                                          ELSE rdpos' + i - 1 - Length]
    BY <1>1, CapacityAssumption DEF Content, pop_message, Length
  <2>3. Content[i + 1] = messages[IF rdpos + i < Length THEN rdpos + i
                                                        ELSE rdpos + i - Length]
    BY <1>1, CapacityAssumption DEF Content, TypeOK, Slots, Length
  <2>4. (IF rdpos' + i - 1 < Length THEN rdpos' + i - 1 ELSE rdpos' + i - 1 - Length)
          = (IF rdpos + i < Length THEN rdpos + i ELSE rdpos + i - Length)
    <3>1. rdpos' = IF rdpos = Capacity THEN 0 ELSE rdpos + 1
      BY <1>3 DEF pop_message
    <3> QED
      BY <3>1, <1>1, CapacityAssumption DEF TypeOK, Slots, Length
  <2> QED
    BY <2>1, <2>2, <2>3, <2>4
<1>6. /\ Content' = [i \in 1 .. Size - 1 |-> Content'[i]]
      /\ Tail(Content) = [i \in 1 .. Size - 1 |-> Tail(Content)[i]]
  BY <1>1, <1>2, CapacityAssumption DEF Content
<1> QED
  BY <1>1, <1>2, <1>4, <1>5, <1>6

RefinementInv == ExclusionInv /\ GettersEmptyHanded

\* The refinement mapping: what is being put, and what was got.
Offered(p) == IF pc[p] \in {"lock", "check", "wait", "push"} THEN arg[p] ELSE NoMessage
OfferMap == [p \in Putters |-> Offered(p)]
TakenMap == [g \in Getters |-> arg[g]]

\* A step that changes neither the ring, nor what is offered or taken.
LEMMA FifoStutter ==
  ASSUME UNCHANGED ring, OfferMap' = OfferMap, TakenMap' = TakenMap
  PROVE  UNCHANGED F!vars
<1>1. Content' = Content
  BY DEF Content, ring, Size, Length
<1> QED
  BY <1>1 DEF F!vars, OfferMap, TakenMap, Offered

\* A queue that was not initialized yet maps to an empty FIFO.
LEMMA FifoInit == Init => F!Init
<1> SUFFICES ASSUME Init PROVE F!Init
  OBVIOUS
<1>1. Size = 0
  BY DEF Init, Size
<1>2. Content = <<>>
  BY <1>1 DEF Content
<1> QED
  BY <1>2 DEF F!Init, Init, Threads

\* Every step maps to a step of the FIFO or changes nothing it sees.
LEMMA FifoStep == RefinementInv /\ [Next]_vars => [F!Next]_(F!vars)
<1> SUFFICES ASSUME RefinementInv, [Next]_vars
             PROVE  F!Next \/ UNCHANGED F!vars
  OBVIOUS
<1>t. TypeOK /\ TypeOK' /\ MutualExclusion /\ UnusedIsQuiet /\ GettersEmptyHanded
  BY TypeStep DEF RefinementInv, ExclusionInv
<1> USE <1>t, ThreadAssumption, MessageAssumption DEF GoTo
<1>1. CASE ml_queue_init
  <2>1. Size' = 0
    BY <1>1 DEF ml_queue_init, Size
  <2>2. Content' = <<>>
    BY <2>1 DEF Content
  <2>3. \A p \in Putters : pc[p] = "idle"
    BY <1>1 DEF ml_queue_init, UnusedIsQuiet, Threads
  <2>4. F!Reset
    BY <1>1, <2>2, <2>3 DEF ml_queue_init, F!Reset
  <2> QED
    BY <2>4 DEF F!Next
<1>2. CASE ml_queue_set_on_put
  BY <1>2, FifoStutter DEF ml_queue_set_on_put, OfferMap, TakenMap, Offered
<1>3. CASE ml_queue_destroy
  BY <1>3, FifoStutter DEF ml_queue_destroy, OfferMap, TakenMap, Offered
<1>4. ASSUME NEW p \in Putters, NEW m \in Messages, PutCall(p, m)
      PROVE  F!Next
  <2>1. Content' = Content
    BY <1>4 DEF PutCall, Content, ring, Size, Length
  <2>2. F!Offer(p, m)
    BY <1>4, <2>1, ZenonT(30) DEF PutCall, F!Offer, TypeOK, Threads
  <2> QED
    BY <2>2 DEF F!Next
<1>5. ASSUME NEW p \in Putters, PutStep(p)
      PROVE  F!Next \/ UNCHANGED F!vars
  <2>1. CASE PutCheck(p)
    BY <2>1, FifoStutter
       DEF PutCheck, pthread_cond_wait, OfferMap, TakenMap, Offered, TypeOK, Threads
  <2>2. CASE PutPush(p)
    <3>1. arg[p] \in Messages /\ ~is_full
      BY <2>2 DEF PutPush, TypeOK, MutualExclusion
    <3>2. Content' = Append(Content, arg[p])
      BY <2>2, <3>1, PushAppends DEF PutPush
    <3>3. Len(Content) < Capacity
      BY <3>1, ContentIsSequence, RingSize, CapacityAssumption DEF TypeOK
    <3>4. F!Put(p)
      BY <2>2, <3>1, <3>2, <3>3 DEF PutPush, F!Put, TypeOK, Threads
    <3> QED
      BY <3>4 DEF F!Next
  <2>3. CASE PutSignal(p)
    BY <2>3, FifoStutter
       DEF PutSignal, pthread_cond_signal, Waiting, OfferMap, TakenMap, Offered,
           TypeOK, Threads
  <2>4. CASE PutUnlock(p)
    BY <2>4, FifoStutter DEF PutUnlock, OfferMap, TakenMap, Offered, TypeOK, Threads
  <2>5. CASE PutOnPut(p)
    BY <2>5, FifoStutter DEF PutOnPut, OfferMap, TakenMap, Offered, TypeOK, Threads
  <2> QED
    BY <1>5, <2>1, <2>2, <2>3, <2>4, <2>5 DEF PutStep
<1>6. ASSUME NEW g \in Getters, GetCall(g)
      PROVE  F!Next
  <2>1. Content' = Content
    BY <1>6 DEF GetCall, Content, ring, Size, Length
  <2>2. F!Release(g)
    BY <1>6, <2>1 DEF GetCall, F!Release, TypeOK, Threads
  <2> QED
    BY <2>2 DEF F!Next
<1>7. ASSUME NEW g \in Getters, GetStep(g)
      PROVE  F!Next \/ UNCHANGED F!vars
  <2>1. CASE GetCheck(g)
    BY <2>1, FifoStutter
       DEF GetCheck, pthread_cond_wait, OfferMap, TakenMap, Offered, TypeOK, Threads
  <2>2. CASE GetPop(g)
    <3>1. /\ Content # <<>>
          /\ messages[rdpos] = Head(Content)
          /\ Content' = Tail(Content)
      BY <2>2, PopTakesHead DEF GetPop, MutualExclusion
    <3>2. arg[g] = NoMessage
      BY <2>2 DEF GetPop, GettersEmptyHanded
    <3>3. F!Get(g)
      BY <2>2, <3>1, <3>2 DEF GetPop, pop_message, F!Get, TypeOK, Threads
    <3> QED
      BY <3>3 DEF F!Next
  <2>3. CASE GetSignal(g)
    BY <2>3, FifoStutter
       DEF GetSignal, pthread_cond_signal, Waiting, OfferMap, TakenMap, Offered,
           TypeOK, Threads
  <2>4. CASE GetUnlock(g)
    BY <2>4, FifoStutter DEF GetUnlock, OfferMap, TakenMap, Offered, TypeOK, Threads
  <2> QED
    BY <1>7, <2>1, <2>2, <2>3, <2>4 DEF GetStep
<1>8. ASSUME NEW t \in Threads, pthread_mutex_lock(t)
      PROVE  UNCHANGED F!vars
  BY <1>8, FifoStutter
     DEF pthread_mutex_lock, OfferMap, TakenMap, Offered, TypeOK, Threads
<1>9. ASSUME NEW t \in Threads, SpuriousWakeup(t)
      PROVE  UNCHANGED F!vars
  BY <1>9, FifoStutter
     DEF SpuriousWakeup, OfferMap, TakenMap, Offered, TypeOK, Threads
<1>10. CASE UNCHANGED vars
  BY <1>10, FifoStutter DEF vars, ring, OfferMap, TakenMap, Offered
<1> QED
  BY <1>1, <1>2, <1>3, <1>4, <1>5, <1>6, <1>7, <1>8, <1>9, <1>10 DEF Next

\* The invariant that the refinement rests on.
LEMMA RefinementInvariant == Spec => []RefinementInv
<1>1. Init => RefinementInv
  BY ExclusionInit DEF RefinementInv, GettersEmptyHanded, Init, Threads
<1>2. RefinementInv /\ [Next]_vars => RefinementInv'
  BY ExclusionStep, EmptyHandedStep DEF RefinementInv, ExclusionInv
<1> QED
  BY <1>1, <1>2, PTL DEF Spec

\* ml_queue.c implements a bounded FIFO that each message enters and leaves in
\* one step, in the same order.
THEOREM QueueIsFifo == Spec => ImplementsFifo
  BY FifoInit, FifoStep, RefinementInvariant, PTL DEF Spec, ImplementsFifo, F!Spec

=============================================================================
