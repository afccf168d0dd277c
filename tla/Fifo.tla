-------------------------------- MODULE Fifo --------------------------------
(* What a message queue promises to the threads that use it: a bounded FIFO  *)
(* of messages. A put in progress offers a message, which becomes visible in *)
(* one indivisible step; a get removes the oldest message in one step. There *)
(* are no indices, no mutex and no condition variables here: Queue is shown  *)
(* to implement this module.                                                 *)
EXTENDS Naturals, Sequences

CONSTANTS Putters,    \* threads that put messages
          Getters,    \* threads that get messages
          Messages,   \* message pointers
          NoMessage,  \* the absence of a message
          Capacity    \* the length given to ml_queue_init()

VARIABLES buffer,  \* the messages in the queue, oldest first
          offer,   \* offer[p]: the message p is putting, or NoMessage
          taken    \* taken[g]: the message g got last, or NoMessage

vars == <<buffer, offer, taken>>

Init ==
  /\ buffer = <<>>
  /\ offer = [p \in Putters |-> NoMessage]
  /\ taken = [g \in Getters |-> NoMessage]

Offer(p, m) ==
  /\ offer[p] = NoMessage
  /\ offer' = [offer EXCEPT ![p] = m]
  /\ UNCHANGED <<buffer, taken>>

Put(p) ==
  /\ offer[p] # NoMessage
  /\ Len(buffer) < Capacity
  /\ buffer' = Append(buffer, offer[p])
  /\ offer' = [offer EXCEPT ![p] = NoMessage]
  /\ UNCHANGED taken

Get(g) ==
  /\ taken[g] = NoMessage
  /\ buffer # <<>>
  /\ taken' = [taken EXCEPT ![g] = Head(buffer)]
  /\ buffer' = Tail(buffer)
  /\ UNCHANGED offer

Release(g) ==
  /\ taken' = [taken EXCEPT ![g] = NoMessage]
  /\ UNCHANGED <<buffer, offer>>

\* A queue is initialized again after it was destroyed, when nobody uses it.
Reset ==
  /\ \A p \in Putters : offer[p] = NoMessage
  /\ buffer' = <<>>
  /\ UNCHANGED <<offer, taken>>

Next ==
  \/ \E p \in Putters : \/ \E m \in Messages : Offer(p, m)
                        \/ Put(p)
  \/ \E g \in Getters : Get(g) \/ Release(g)
  \/ Reset

Spec == Init /\ [][Next]_vars

=============================================================================
