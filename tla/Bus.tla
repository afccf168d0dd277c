--------------------------------- MODULE Bus --------------------------------
(* Reference counted messages (ml_message.c) broadcast on a bus (ml_bus.c).  *)
(* A broadcast message is not copied: every subscribed queue gets the same   *)
(* pointer, and the last reader frees it. Queues are the bounded FIFOs that  *)
(* Queue is shown to implement, each with one reading thread.                *)
EXTENDS Integers, Sequences, FiniteSets, Functions

CONSTANTS Producers,        \* threads that allocate, broadcast and put messages
          Queues,           \* queues; a queue also names the thread that reads it
          Uids,             \* message identities: addresses, hence ordered
          Messages,         \* memory blocks malloc() hands out
          NoMessage,
          Capacity,         \* length of the queues
          MaxSubscriptions  \* bound: calls of ml_bus_subscribe()

Threads == Producers \cup Queues

ASSUME BusAssumption ==
  /\ Capacity \in Nat \ {0}
  /\ MaxSubscriptions \in Nat
  /\ Uids \subseteq Nat
  /\ IsFiniteSet(Uids) /\ IsFiniteSet(Producers) /\ IsFiniteSet(Queues)
  /\ Producers \cap Queues = {}
  /\ NoMessage \notin Messages

VARIABLES elems,          \* elems_p: records of a uid and its queues
          phase,          \* "setup" until the first broadcast
          subscriptions,  \* history: the queues subscribed to each uid, in order
          queue,          \* content of each queue
          header,         \* header of each message: uid, count, on_free
          allocated,      \* messages that malloc() returned and free() did not get
          attached,       \* messages whose on_free callback has yet to be called
          pc, arg,        \* what each thread does next, and with which message
          dest            \* queues a producer has yet to put its message on

busVars == <<elems, phase, subscriptions>>
msgVars == <<header, allocated, attached>>
thrVars == <<pc, arg, dest>>
vars == <<busVars, queue, msgVars, thrVars>>

-----------------------------------------------------------------------------
(* The index of the bus                                                      *)

\* bsearch(): the position of uid in an array sorted by uid, or 0.
bsearch(array, uid) ==
  LET search[s \in (0 .. Len(array)) \X (0 .. Len(array))] ==
        IF s[1] >= s[2] THEN 0
        ELSE LET mid == (s[1] + s[2]) \div 2
                 elem == array[mid + 1]
             IN  IF uid < elem.uid THEN search[<<s[1], mid>>]
                 ELSE IF uid = elem.uid THEN mid + 1
                 ELSE search[<<mid + 1, s[2]>>]
  IN  search[<<0, Len(array)>>]

find_element(array, uid) == bsearch(array, uid)

\* qsort(): the array, rearranged in order of uid.
qsort(array) ==
  LET p == CHOOSE p \in Bijection(DOMAIN array, DOMAIN array) :
             \A i, j \in DOMAIN array : i < j => array[p[i]].uid <= array[p[j]].uid
  IN  [i \in DOMAIN array |-> array[p[i]]]

\* Mutant: the array is not sorted again.
insert_element_unsorted(array, uid) == Append(array, [uid |-> uid, queues |-> <<>>])

insert_element(array, uid) ==
  qsort(Append(array, [uid |-> uid, queues |-> <<>>]))

append_queue_to_element(array, i, q) ==
  [array EXCEPT ![i].queues = Append(@, q)]

ml_bus_subscribe(q, uid) ==
  /\ phase = "setup"
  /\ Cardinality({s \in Uids \X (1 .. MaxSubscriptions) :
                    s[2] <= Len(subscriptions[s[1]])}) < MaxSubscriptions
  /\ LET array == IF find_element(elems, uid) = 0 THEN insert_element(elems, uid)
                                                  ELSE elems
     IN  elems' = append_queue_to_element(array, find_element(array, uid), q)
  /\ subscriptions' = [subscriptions EXCEPT ![uid] = Append(@, q)]
  /\ UNCHANGED <<phase, queue, msgVars, thrVars>>

-----------------------------------------------------------------------------
(* Messages                                                                  *)

GoTo(t, label) == pc' = [pc EXCEPT ![t] = label]

\* Allocate a message and, if wanted, set its on free callback.
ml_message_alloc(p, uid, on_free) ==
  /\ pc[p] = "idle"
  /\ \E m \in Messages \ allocated :
       /\ header' = [header EXCEPT ![m] = [uid |-> uid, count |-> 1, on_free |-> on_free]]
       /\ allocated' = allocated \cup {m}
       /\ attached' = IF on_free THEN attached \cup {m} ELSE attached
       /\ arg' = [arg EXCEPT ![p] = m]
  /\ GoTo(p, "allocated")
  /\ UNCHANGED <<busVars, queue, dest>>

\* Mutant: the reference the caller has is forgotten.
ml_message_share_all(m, count) ==
  header' = [header EXCEPT ![m].count = @ + count + 1]

\* Mutant: every reader is expected to share the message itself.
ml_message_share_none(m, count) == UNCHANGED header /\ count = count

ml_message_share(m, count) ==
  header' = [header EXCEPT ![m].count = @ + count]

\* The count is decremented and read under the mutex of the module; only the
\* thread that sees zero goes on.
ml_message_free(t) ==
  /\ pc[t] = "free"
  /\ header' = [header EXCEPT ![arg[t]].count = @ - 1]
  /\ IF header[arg[t]].count = 1
       THEN GoTo(t, "on_free") /\ UNCHANGED arg
       ELSE GoTo(t, "idle") /\ arg' = [arg EXCEPT ![t] = NoMessage]
  /\ UNCHANGED <<busVars, queue, allocated, attached, dest>>

\* Mutant: the callback is not called.
FreeCallback_skipped(t) ==
  /\ pc[t] = "on_free"
  /\ UNCHANGED attached
  /\ GoTo(t, "dealloc")
  /\ UNCHANGED <<busVars, queue, header, allocated, arg, dest>>

FreeCallback(t) ==
  /\ pc[t] = "on_free"
  /\ attached' = IF header[arg[t]].on_free THEN attached \ {arg[t]} ELSE attached
  /\ GoTo(t, "dealloc")
  /\ UNCHANGED <<busVars, queue, header, allocated, arg, dest>>

FreeMemory(t) ==
  /\ pc[t] = "dealloc"
  /\ allocated' = allocated \ {arg[t]}
  /\ arg' = [arg EXCEPT ![t] = NoMessage]
  /\ GoTo(t, "idle")
  /\ UNCHANGED <<busVars, queue, header, attached, dest>>

-----------------------------------------------------------------------------
(* Producers and readers                                                     *)

ml_bus_broadcast(p) ==
  /\ pc[p] = "allocated"
  /\ phase' = "running"
  /\ LET i == find_element(elems, header[arg[p]].uid)
     IN  \/ /\ i # 0
            /\ ml_message_share(arg[p], Len(elems[i].queues) - 1)
            /\ dest' = [dest EXCEPT ![p] = elems[i].queues]
            /\ GoTo(p, "put")
         \/ /\ i = 0
            /\ GoTo(p, "free")
            /\ UNCHANGED <<header, dest>>
  /\ UNCHANGED <<elems, subscriptions, queue, allocated, attached, arg>>

\* A message may also be put on one queue, without the bus.
PutDirectly(p, q) ==
  /\ pc[p] = "allocated"
  /\ dest' = [dest EXCEPT ![p] = <<q>>]
  /\ GoTo(p, "put")
  /\ UNCHANGED <<busVars, queue, msgVars, arg>>

\* Mutant: a full queue is skipped.
ml_queue_put_or_drop(p) ==
  /\ pc[p] = "put"
  /\ LET q == Head(dest[p])
     IN  queue' = IF Len(queue[q]) < Capacity
                    THEN [queue EXCEPT ![q] = Append(@, arg[p])] ELSE queue
  /\ dest' = [dest EXCEPT ![p] = Tail(@)]
  /\ IF Len(dest[p]) = 1
       THEN GoTo(p, "idle") /\ arg' = [arg EXCEPT ![p] = NoMessage]
       ELSE UNCHANGED <<pc, arg>>
  /\ UNCHANGED <<busVars, msgVars>>

\* One iteration of the loop of ml_bus_broadcast(); blocks on a full queue.
ml_queue_put(p) ==
  /\ pc[p] = "put"
  /\ LET q == Head(dest[p])
     IN  /\ Len(queue[q]) < Capacity
         /\ queue' = [queue EXCEPT ![q] = Append(@, arg[p])]
  /\ dest' = [dest EXCEPT ![p] = Tail(@)]
  /\ IF Len(dest[p]) = 1
       THEN GoTo(p, "idle") /\ arg' = [arg EXCEPT ![p] = NoMessage]
       ELSE UNCHANGED <<pc, arg>>
  /\ UNCHANGED <<busVars, msgVars>>

\* A reader gets a message, uses it and then frees it.
ml_queue_get(q) ==
  /\ pc[q] = "idle"
  /\ queue[q] # <<>>
  /\ arg' = [arg EXCEPT ![q] = Head(queue[q])]
  /\ queue' = [queue EXCEPT ![q] = Tail(@)]
  /\ GoTo(q, "free")
  /\ UNCHANGED <<busVars, msgVars, dest>>

-----------------------------------------------------------------------------
\* ml_bus_init(), and empty queues.
Init ==
  /\ elems = <<>>
  /\ phase = "setup"
  /\ subscriptions = [u \in Uids |-> <<>>]
  /\ queue = [q \in Queues |-> <<>>]
  /\ header = [m \in Messages |-> [uid |-> 0, count |-> 0, on_free |-> FALSE]]
  /\ allocated = {}
  /\ attached = {}
  /\ pc = [t \in Threads |-> "idle"]
  /\ arg = [t \in Threads |-> NoMessage]
  /\ dest = [p \in Producers |-> <<>>]

FreeStep(t) == ml_message_free(t) \/ FreeCallback(t) \/ FreeMemory(t)

Next ==
  \/ \E q \in Queues, u \in Uids : ml_bus_subscribe(q, u)
  \/ \E p \in Producers, u \in Uids, f \in BOOLEAN : ml_message_alloc(p, u, f)
  \/ \E p \in Producers : ml_bus_broadcast(p) \/ ml_queue_put(p)
  \/ \E p \in Producers, q \in Queues : PutDirectly(p, q)
  \/ \E q \in Queues : ml_queue_get(q)
  \/ \E t \in Threads : FreeStep(t)

Spec == Init /\ [][Next]_vars

(* A thread that can run does: a reader reads, a producer that has a message *)
(* sends it, and what blocks is only a put on a full queue. Nobody has to    *)
(* allocate or to subscribe.                                                 *)
Fairness ==
  /\ \A t \in Threads : WF_vars(FreeStep(t))
  /\ \A q \in Queues : WF_vars(ml_queue_get(q))
  /\ \A p \in Producers : /\ WF_vars(ml_queue_put(p))
                          /\ WF_vars(ml_bus_broadcast(p) \/ \E q \in Queues : PutDirectly(p, q))

FairSpec == Spec /\ Fairness

-----------------------------------------------------------------------------
\* Every variable has its type: queues stay within their length, counts do not
\* become negative, and a thread has a message exactly while it uses one.
TypeOK ==
  /\ phase \in {"setup", "running"}
  /\ \A q \in Queues : queue[q] \in Seq(Messages) /\ Len(queue[q]) <= Capacity
  /\ \A m \in Messages : header[m].count \in Nat
  /\ allocated \subseteq Messages
  /\ attached \subseteq Messages
  /\ pc \in [Threads -> {"idle", "allocated", "put", "free", "on_free", "dealloc"}]
  /\ arg \in [Threads -> Messages \cup {NoMessage}]
  /\ \A p \in Producers : dest[p] \in Seq(Queues) /\ (pc[p] = "put" <=> dest[p] # <<>>)
  /\ \A t \in Threads : pc[t] = "idle" <=> arg[t] = NoMessage

\* ml_bus_broadcast() finds the subscribers of a message by binary search,
\* all of them and in the order they subscribed, in whatever order of uids
\* ml_bus_subscribe() was called; and finds nothing without a subscriber.
SubscribersAreFound ==
  \A u \in Uids :
    LET i == find_element(elems, u)
    IN  IF i = 0 THEN subscriptions[u] = <<>>
                 ELSE elems[i].queues = subscriptions[u]

\* The references to m: in a queue, held by a thread that has not decremented
\* the count yet, and the puts that a broadcast has left.
InQueues(m) == {r \in Queues \X (1 .. Capacity) :
                  r[2] <= Len(queue[r[1]]) /\ queue[r[1]][r[2]] = m}
Held(m) == {t \in Threads : arg[t] = m /\ pc[t] \in {"allocated", "free"}}
PutsLeft(m) == {r \in Producers \X (1 .. MaxSubscriptions + 1) :
                  arg[r[1]] = m /\ r[2] <= Len(dest[r[1]])}
References(m) ==
  Cardinality(InQueues(m)) + Cardinality(Held(m)) + Cardinality(PutsLeft(m))

\* The count in the header is the number of references, however broadcasts,
\* gets and frees of the same message interleave: ml_message_share() runs
\* before the first reader can free. With the types of the variables.
CountIsReferences ==
  /\ TypeOK
  /\ \A m \in Messages : header[m].count = References(m)

\* A message somebody can still reach is allocated and its on free callback
\* has not run; a message that was freed has had its callback; and only one
\* thread frees it.
ReachableIsIntact ==
  /\ \A m \in Messages :
       References(m) > 0 => m \in allocated /\ (header[m].on_free <=> m \in attached)
  /\ attached \subseteq allocated
  /\ \A t, u \in Threads :
       /\ pc[t] \in {"on_free", "dealloc"}
       /\ pc[u] \in {"on_free", "dealloc"}
       /\ arg[t] = arg[u]
       => t = u

\* Every subscriber receives a broadcast message.
SubscribersReceive ==
  \A p \in Producers, q \in Queues, m \in Messages :
    (pc[p] = "put" /\ arg[p] = m /\ \E i \in DOMAIN dest[p] : dest[p][i] = q)
      ~> arg[q] = m

\* Every allocated message is freed, with or without subscribers.
NoLeak == \A m \in Messages : m \in allocated ~> m \notin allocated

=============================================================================
