---------------------------- MODULE OneWireProof ----------------------------
(* Proofs about OneWire, for every set of callers, every MAX_SEQNO, whatever *)
(* fails and whatever others say on the netlink socket: a caller gets one    *)
(* answer, its own, and unless a message of another process had the awaited  *)
(* number, the conversion timeout only comes in the state that handles it,   *)
(* and a temperature is only read after a conversion.                        *)
(*                                                                           *)
(* The first holds of the counts alone: they are an invariant as they are.   *)
(* For the others: the timeout handler does not look at the state, and an    *)
(* answer is recognised by a sequence number that starts over. That both are *)
(* safe is a matter of what can be in the queues in each state, which the    *)
(* invariant IInv says: at most one message in the queue of the thread, one  *)
(* under way to the kernel, and of the answers on the socket none that could *)
(* be taken for the awaited one but that one; it does not matter how often   *)
(* the numbers have started over, because the socket keeps the order. IInv   *)
(* is lost for good when the thread takes a message of another for an        *)
(* answer.                                                                   *)
EXTENDS OneWire, FiniteSetTheorems, SequenceTheorems, TLAPS

Responses == [res : {"ok", "error", "busy"}, converted : BOOLEAN]
Messages == [seq : 1 .. MAX_SEQNO, kind : {"convert", "read"}]

\* Only messages of others are on the socket.
OnlyForeign(n) == \A i \in 1 .. Len(n) : n[i].foreign

\* Of the answers to messages of our own, only the temperature that follows an
\* error may be left: nobody waits for it.
OnlyLate(n) == \A i \in 1 .. Len(n) : ~n[i].foreign => n[i].command = "read"

\* Nothing of our own comes after the answer to a conversion.
ConvertAnswer(n) ==
  \A i, j \in 1 .. Len(n) :
    i < j /\ ~n[i].foreign /\ ~n[j].foreign => n[i].command \notin {"write", "error"}

\* After the first answer to a read there is at most one more, and after an
\* error it is the temperature.
ReadAnswer(n) ==
  \A i, j \in 1 .. Len(n) :
    i < j /\ ~n[i].foreign /\ ~n[j].foreign =>
      n[i].command = "write" \/ (n[i].command = "error" /\ n[j].command = "read")

\* What can be under way to the kernel and back, in each state.
Traffic ==
  /\ state \in {"idle", "wait_for_convert_timeout"} => toKernel = <<>>
  /\ state = "wait_for_convert_done" =>
       toKernel = <<>> \/ (Len(toKernel) = 1 /\ toKernel[1].kind = "convert")
  /\ state = "wait_for_read_done" =>
       toKernel = <<>> \/ (Len(toKernel) = 1 /\ toKernel[1].kind = "read")
  /\ state = "idle" => OnlyLate(netlink)
  /\ state = "wait_for_convert_done" =>
       ConvertAnswer(netlink) /\ (toKernel # <<>> => OnlyLate(netlink))
  /\ state = "wait_for_convert_timeout" => OnlyForeign(netlink)
  /\ state = "wait_for_read_done" =>
       ReadAnswer(netlink) /\ (toKernel # <<>> => OnlyForeign(netlink))

\* The request of the caller that holds the mutex: none, in the queue, active,
\* or answered. When it is read, its own conversion is done.
NoRequest ==
  queue = <<>> /\ state = "idle" /\ ~active /\ responses = <<>> /\ ~armed
InTheQueue ==
  queue = <<"request">> /\ state = "idle" /\ ~active /\ responses = <<>> /\ ~armed
Active ==
  /\ active
  /\ state # "idle"
  /\ responses = <<>>
  /\ armed => state = "wait_for_convert_timeout"
  /\ queue = IF state = "wait_for_convert_timeout" /\ ~armed THEN <<"timeout">> ELSE <<>>
  /\ armed => converted = "running"
  /\ state = "wait_for_read_done" => converted = "done"
  /\ state = "wait_for_convert_timeout" /\ ~armed => converted = "done"
Answered ==
  /\ queue = <<>> /\ state = "idle" /\ ~active /\ ~armed
  /\ Len(responses) = 1
  /\ responses[1].res # "busy"
  /\ responses[1].res = "ok" => responses[1].converted

IInv ==
  /\ TypeOK
  /\ \A c \in Callers : pc[c] = "wait" <=> mutex = c
  /\ thread # "crashed"
  /\ state = "idle" <=> seqno = None
  /\ mutex = NoCaller => NoRequest
  /\ mutex # NoCaller => InTheQueue \/ Active \/ Answered
  /\ Traffic

-----------------------------------------------------------------------------
(* What is on the socket                                                     *)

\* Nothing is left of a sequence of one element.
LEMMA TailOfOne ==
  ASSUME NEW S, NEW s \in Seq(S), Len(s) = 1
  PROVE  Tail(s) = <<>>
  <1>1. Tail(s) \in Seq(S) /\ Len(Tail(s)) = 0
    OBVIOUS
  <1> QED BY <1>1, EmptySeq

\* Reading the first message keeps what is known of the rest, and an answer
\* leaves what the next state allows.
LEMMA TailOfNetlink ==
  ASSUME NEW n \in Seq(Replies), n # <<>>
  PROVE  /\ Tail(n) \in Seq(Replies)
         /\ OnlyForeign(n) => OnlyForeign(Tail(n))
         /\ OnlyLate(n) => OnlyLate(Tail(n))
         /\ ConvertAnswer(n) => ConvertAnswer(Tail(n))
         /\ ReadAnswer(n) => ReadAnswer(Tail(n))
         /\ ~Head(n).foreign /\ Head(n).command \in {"write", "error"} /\ ConvertAnswer(n)
              => OnlyForeign(Tail(n))
         /\ ~Head(n).foreign /\ Head(n).command \in {"read", "error"} /\ ReadAnswer(n)
              => OnlyLate(Tail(n))
  <1>1. /\ Tail(n) \in Seq(Replies) /\ Len(Tail(n)) = Len(n) - 1 /\ Len(n) \in Nat \ {0}
        /\ \A i \in 1 .. Len(n) - 1 : Tail(n)[i] = n[i + 1]
        /\ Head(n) = n[1]
    OBVIOUS
  <1> DEFINE t == Tail(n)
             h == Head(n)
  <1> HIDE DEF t, h
  <1>2. /\ t \in Seq(Replies) /\ Len(t) = Len(n) - 1 /\ Len(n) \in Nat \ {0}
        /\ \A i \in 1 .. Len(n) - 1 : t[i] = n[i + 1]
        /\ h = n[1]
    BY <1>1 DEF t, h
  <1>3. OnlyForeign(n) => OnlyForeign(t)
    BY <1>2 DEF OnlyForeign
  <1>4. OnlyLate(n) => OnlyLate(t)
    BY <1>2 DEF OnlyLate
  <1>5. ASSUME NEW i \in 1 .. Len(t), NEW j \in 1 .. Len(t), i < j
        PROVE  /\ i + 1 \in 1 .. Len(n) /\ j + 1 \in 1 .. Len(n) /\ i + 1 < j + 1
               /\ t[i] = n[i + 1] /\ t[j] = n[j + 1]
    BY <1>2, <1>5
  <1>6. ConvertAnswer(n) => ConvertAnswer(t)
    BY <1>5 DEF ConvertAnswer
  <1>7. ReadAnswer(n) => ReadAnswer(t)
    BY <1>5 DEF ReadAnswer
  <1>8. ASSUME NEW j \in 1 .. Len(t)
        PROVE  1 \in 1 .. Len(n) /\ j + 1 \in 1 .. Len(n) /\ 1 < j + 1 /\ t[j] = n[j + 1]
    BY <1>2, <1>8
  <1>9. ~h.foreign /\ h.command \in {"write", "error"} /\ ConvertAnswer(n) => OnlyForeign(t)
    BY <1>2, <1>8 DEF ConvertAnswer, OnlyForeign
  <1>10. ~h.foreign /\ h.command \in {"read", "error"} /\ ReadAnswer(n) => OnlyLate(t)
    BY <1>2, <1>8 DEF ReadAnswer, OnlyLate
  <1> QED BY <1>1, <1>3, <1>4, <1>6, <1>7, <1>9, <1>10 DEF t, h

\* What follows from nothing of our own, or a late temperature, on the socket.
LEMMA Quiet ==
  ASSUME NEW n
  PROVE  /\ OnlyForeign(n) => OnlyLate(n) /\ ReadAnswer(n)
         /\ OnlyLate(n) => ConvertAnswer(n)
  BY DEF OnlyForeign, OnlyLate, ReadAnswer, ConvertAnswer

\* A message of another process changes nothing.
LEMMA ForeignMessage ==
  ASSUME NEW n \in Seq(Replies), NEW m \in Replies, m.foreign
  PROVE  /\ Append(n, m) \in Seq(Replies)
         /\ OnlyForeign(n) => OnlyForeign(Append(n, m))
         /\ OnlyLate(n) => OnlyLate(Append(n, m))
         /\ ConvertAnswer(n) => ConvertAnswer(Append(n, m))
         /\ ReadAnswer(n) => ReadAnswer(Append(n, m))
  <1> DEFINE a == Append(n, m)
  <1>1. /\ a \in Seq(Replies) /\ Len(a) = Len(n) + 1 /\ Len(n) \in Nat
        /\ \A i \in 1 .. Len(n) : a[i] = n[i]
        /\ a[Len(n) + 1] = m
    OBVIOUS
  <1> HIDE DEF a
  <1>2. \A i \in 1 .. Len(a) : ~a[i].foreign => i \in 1 .. Len(n) /\ a[i] = n[i]
    BY <1>1
  <1>3. OnlyForeign(n) => OnlyForeign(a)
    BY <1>2 DEF OnlyForeign
  <1>4. OnlyLate(n) => OnlyLate(a)
    BY <1>2 DEF OnlyLate
  <1>5. ConvertAnswer(n) => ConvertAnswer(a)
    BY <1>2 DEF ConvertAnswer
  <1>6. ReadAnswer(n) => ReadAnswer(a)
    BY <1>2 DEF ReadAnswer
  <1> QED BY <1>1, <1>3, <1>4, <1>5, <1>6 DEF a

\* The answer of the kernel to a message m, after what is on the socket.
LEMMA AnswerOfKernel ==
  ASSUME NEW n \in Seq(Replies), NEW m \in Messages, NEW a \in Answers(m.kind)
  PROVE  LET r == n \o [i \in 1 .. Len(a) |-> [seq |-> m.seq, command |-> a[i], foreign |-> FALSE]]
         IN  /\ r \in Seq(Replies)
             /\ m.kind = "convert" /\ OnlyLate(n) => ConvertAnswer(r)
             /\ m.kind = "read" /\ OnlyForeign(n) => ReadAnswer(r)
  <1> DEFINE b == [i \in 1 .. Len(a) |-> [seq |-> m.seq, command |-> a[i], foreign |-> FALSE]]
             r == n \o b
  <1>1. /\ Len(a) \in {1, 2}
        /\ \A i \in 1 .. Len(a) : a[i] \in {"write", "error", "read"}
        /\ m.kind = "convert" => Len(a) = 1
        /\ m.kind = "read" /\ Len(a) = 2 => \/ a[1] = "write"
                                            \/ a[1] = "error" /\ a[2] = "read"
    BY DEF Answers, Messages
  <1>2. m.seq \in 1 .. MAX_SEQNO
    BY DEF Messages
  <1>3. /\ b \in Seq(Replies) /\ Len(b) = Len(a)
        /\ \A i \in 1 .. Len(a) : b[i].command = a[i]
    BY <1>1, <1>2 DEF Replies, Commands
  <1> HIDE DEF b
  <1>4. /\ r \in Seq(Replies) /\ Len(r) = Len(n) + Len(a) /\ Len(n) \in Nat
        /\ \A i \in 1 .. Len(n) : r[i] = n[i]
        /\ \A i \in Len(n) + 1 .. Len(r) : r[i] = b[i - Len(n)]
    BY <1>1, <1>3
  <1> HIDE DEF r
  <1>5. ASSUME m.kind = "convert", OnlyLate(n)
        PROVE  ConvertAnswer(r)
    <2>1. Len(r) = Len(n) + 1
      BY <1>1, <1>4, <1>5
    <2>2. ASSUME NEW i \in 1 .. Len(r), NEW j \in 1 .. Len(r), i < j
          PROVE  i \in 1 .. Len(n) /\ r[i] = n[i]
      BY <1>4, <2>1, <2>2
    <2> QED BY <1>5, <2>2 DEF ConvertAnswer, OnlyLate
  <1>6. ASSUME m.kind = "read", OnlyForeign(n)
        PROVE  ReadAnswer(r)
    <2> SUFFICES ASSUME NEW i \in 1 .. Len(r), NEW j \in 1 .. Len(r),
                        i < j, ~r[i].foreign, ~r[j].foreign
                 PROVE  \/ r[i].command = "write"
                        \/ r[i].command = "error" /\ r[j].command = "read"
      BY DEF ReadAnswer
    <2>1. i = Len(n) + 1 /\ j = Len(n) + 2 /\ Len(a) = 2
      <3>1. i \notin 1 .. Len(n)
        BY <1>4, <1>6 DEF OnlyForeign
      <3>2. /\ Len(a) = 1 \/ Len(a) = 2
            /\ Len(r) = Len(n) + Len(a) /\ Len(n) \in Nat
            /\ i \in Int /\ j \in Int /\ i >= 1 /\ i < j /\ j <= Len(r)
        BY <1>1, <1>4
      <3>3. i > Len(n)
        BY <3>1, <3>2
      <3>4. CASE Len(a) = 1
        <4>1. Len(r) = Len(n) + 1
          BY <3>2, <3>4
        <4> QED BY <3>2, <3>3, <4>1
      <3>5. CASE Len(a) = 2
        <4>1. Len(r) = Len(n) + 2
          BY <3>2, <3>5
        <4> QED BY <3>2, <3>3, <3>5, <4>1
      <3> QED BY <3>2, <3>4, <3>5
    <2>2. r[i].command = a[1] /\ r[j].command = a[2]
      BY <1>3, <1>4, <2>1
    <2> QED BY <1>1, <1>6, <2>1, <2>2
  <1> QED BY <1>4, <1>5, <1>6 DEF r, b

-----------------------------------------------------------------------------
(* The invariant                                                             *)

\* ml_one_wire_init() establishes it.
LEMMA InitIInv == Init => IInv
  <1> SUFFICES ASSUME Init PROVE IInv
    OBVIOUS
  <1>1. TypeOK
    <2>1. seqno \in 1 .. MAX_SEQNO \cup {None} /\ cn_seqno \in 0 .. MAX_SEQNO
      BY OneWireAssumption DEF Init
    <2>2. /\ queue \in Seq({"request", "timeout"})
          /\ responses \in Seq(Responses)
          /\ toKernel \in Seq(Messages)
          /\ netlink \in Seq(Replies)
      BY EmptySeq DEF Init
    <2>3. heard \in 0 .. MaxForeign
      BY OneWireAssumption DEF Init
    <2>4. /\ pc \in [Callers -> {"idle", "lock", "wait"}]
          /\ mutex \in Callers \cup {NoCaller}
          /\ thread \in {"none", "run", "deaf", "ended", "crashed"}
          /\ state \in States /\ active \in BOOLEAN /\ armed \in BOOLEAN
          /\ converted \in {"none", "running", "done", "early"}
          /\ mistaken \in BOOLEAN /\ unanswered \in BOOLEAN
      BY DEF Init, States
    <2> QED BY <2>1, <2>2, <2>3, <2>4 DEF TypeOK, Responses, Messages
  <1>2. OnlyLate(netlink)
    BY DEF Init, OnlyLate
  <1> QED BY <1>1, <1>2, OneWireAssumption DEF Init, IInv, NoRequest, Traffic, None

\* The next number is in the range of the awaited ones, also after the last.
LEMMA NextSeqno ==
  ASSUME cn_seqno \in 0 .. MAX_SEQNO
  PROVE  next_seqno \in 1 .. MAX_SEQNO
  BY OneWireAssumption DEF next_seqno

\* A caller takes the mutex and puts its request.
LEMMA ReadPutStep ==
  ASSUME IInv, NEW c \in Callers, ReadPut(c)
  PROVE  IInv'
  <1>1. mutex = NoCaller /\ mutex' = c /\ c # NoCaller /\ NoRequest
    BY OneWireAssumption DEF IInv, ReadPut
  <1>2. queue' = <<"request">>
    BY <1>1 DEF ReadPut, NoRequest
  <1>3. TypeOK'
    BY <1>1, <1>2 DEF IInv, TypeOK, ReadPut, self, history
  <1>4. InTheQueue'
    BY <1>1, <1>2 DEF NoRequest, InTheQueue, ReadPut, self, history
  <1>5. \A d \in Callers : pc'[d] = "wait" <=> mutex' = d
    BY <1>1, OneWireAssumption DEF IInv, TypeOK, ReadPut
  <1>6. Traffic'
    BY DEF IInv, Traffic, ReadPut, self, OnlyLate, ConvertAnswer, ReadAnswer, OnlyForeign
  <1> QED BY <1>1, <1>3, <1>4, <1>5, <1>6 DEF IInv, ReadPut, self, history

\* A caller gets its response and releases the mutex.
LEMMA ReadReturnStep ==
  ASSUME IInv, NEW c \in Callers, ReadReturn(c)
  PROVE  IInv'
  <1>1. mutex = c /\ mutex # NoCaller /\ responses # <<>> /\ mutex' = NoCaller
    BY OneWireAssumption DEF IInv, ReadReturn
  <1>2. Answered
    BY <1>1 DEF IInv, InTheQueue, Active
  <1>3. responses' = <<>>
    BY <1>2, TailOfOne DEF ReadReturn, Answered, IInv, TypeOK
  <1>4. TypeOK'
    BY <1>1, <1>3 DEF IInv, TypeOK, ReadReturn, self, history
  <1>5. NoRequest'
    BY <1>2, <1>3 DEF NoRequest, Answered, ReadReturn, self, history
  <1>6. \A d \in Callers : pc'[d] = "wait" <=> mutex' = d
    BY <1>1, OneWireAssumption DEF IInv, TypeOK, ReadReturn
  <1>7. Traffic'
    BY DEF IInv, Traffic, ReadReturn, self, OnlyLate, ConvertAnswer, ReadAnswer, OnlyForeign
  <1> QED BY <1>1, <1>4, <1>5, <1>6, <1>7 DEF IInv, ReadReturn, self, history

\* A response that is put is the only one.
LEMMA PutOne ==
  ASSUME NEW r \in Responses, responses = <<>>, responses' = Append(responses, r)
  PROVE  responses' \in Seq(Responses) /\ Len(responses') = 1 /\ responses'[1] = r
  OBVIOUS

\* The thread sends a message for the active request, or gives it up.
LEMMA SendStep ==
  ASSUME IInv, mutex # NoCaller, UNCHANGED <<callerVars, armed, netlink, heard, mistaken, unanswered>>,
         NEW kind, NEW next, SendAndWait(kind, next, TRUE),
         queue' = <<>>, responses = <<>>, ~armed, toKernel = <<>>,
         converted' \in {"none", "done"},
         \/ /\ kind = "convert" /\ next = "wait_for_convert_done"
            /\ OnlyLate(netlink)
         \/ /\ kind = "read" /\ next = "wait_for_read_done"
            /\ OnlyForeign(netlink) /\ converted' = "done"
  PROVE  IInv'
  <1> DEFINE m == [seq |-> next_seqno, kind |-> kind]
  <1>1. TypeOK /\ pc' = pc /\ mutex' = mutex
    BY DEF IInv, callerVars
  <1>2. next_seqno \in 1 .. MAX_SEQNO /\ next_seqno \in 0 .. MAX_SEQNO /\ next_seqno # None
    BY <1>1, NextSeqno, OneWireAssumption DEF TypeOK, None
  <1>3. cn_seqno' = next_seqno
    BY DEF SendAndWait
  <1>4. CASE /\ toKernel' = Append(toKernel, m)
             /\ seqno' = next_seqno
             /\ state' = next
             /\ active' = TRUE
             /\ UNCHANGED <<responses, thread>>
    <2>1. m \in Messages /\ m.kind = kind
      BY <1>2 DEF Messages
    <2> HIDE DEF m
    <2>2. toKernel' = <<m>> /\ toKernel' \in Seq(Messages) /\ Len(toKernel') = 1 /\ toKernel'[1] = m
      BY <1>4, <2>1
    <2>3. TypeOK'
      <3>1. queue' \in Seq({"request", "timeout"})
        BY EmptySeq
      <3>2. state' \in States
        BY <1>4 DEF States
      <3> QED BY <1>1, <1>2, <1>3, <1>4, <2>2, <3>1, <3>2 DEF TypeOK, Messages
    <2>4. Active'
      BY <1>4 DEF Active
    <2>5. Traffic'
      BY <1>4, <2>1, <2>2, Quiet DEF Traffic
    <2> QED BY <1>1, <1>2, <1>4, <2>3, <2>4, <2>5 DEF IInv
  <1>5. CASE ds18b20_finalize("error", TRUE) /\ UNCHANGED toKernel
    <2> DEFINE r == [res |-> "error", converted |-> converted = "done"]
    <2>1. r \in Responses /\ r.res = "error"
      BY <1>1 DEF Responses, TypeOK
    <2> HIDE DEF r
    <2>2. /\ responses' = Append(responses, r)
          /\ thread' = thread /\ state' = "idle" /\ seqno' = None /\ active' = FALSE
      BY <1>5 DEF ds18b20_finalize, Put, r
    <2>3. responses' \in Seq(Responses) /\ Len(responses') = 1 /\ responses'[1] = r
      BY <2>1, <2>2, PutOne
    <2>4. TypeOK'
      <3>1. queue' \in Seq({"request", "timeout"})
        BY EmptySeq
      <3> QED BY <1>1, <1>2, <1>3, <1>5, <2>2, <2>3, <3>1 DEF TypeOK, States, Responses
    <2>5. Answered'
      BY <2>1, <2>2, <2>3 DEF Answered
    <2>6. Traffic'
      BY <1>5, <2>2, Quiet DEF Traffic
    <2> QED BY <1>1, <2>2, <2>4, <2>5, <2>6 DEF IInv
  <1> QED BY <1>4, <1>5 DEF SendAndWait

\* The thread handles a request or a timeout.
LEMMA HandleQueueStep ==
  ASSUME IInv, HandleQueue
  PROVE  IInv'
  <1>1. queue # <<>> /\ queue' = Tail(queue) /\ mutex # NoCaller
    BY DEF IInv, HandleQueue, NoRequest
  <1>2. InTheQueue \/ Active
    BY <1>1 DEF IInv, Answered
  <1>3. CASE InTheQueue
    <2>1. Head(queue) = "request" /\ queue' = <<>> /\ ~active /\ responses = <<>> /\ ~armed
      BY <1>1, <1>3 DEF InTheQueue
    <2>2. converted' = "none" /\ SendAndWait("convert", "wait_for_convert_done", TRUE)
      BY <2>1 DEF HandleQueue, ds18b20_handle_read_temperature
    <2>3. toKernel = <<>> /\ OnlyLate(netlink)
      BY <1>3 DEF IInv, Traffic, InTheQueue
    <2> QED BY <1>1, <2>1, <2>2, <2>3, SendStep DEF HandleQueue
  <1>4. CASE Active
    <2>1. /\ queue = <<"timeout">> /\ state = "wait_for_convert_timeout" /\ ~armed /\ converted = "done"
          /\ active = TRUE /\ responses = <<>>
      BY <1>1, <1>4 DEF Active, IInv, TypeOK
    <2>2. Head(queue) = "timeout" /\ queue' = <<>>
      BY <1>1, <2>1
    <2>3. converted' = converted /\ SendAndWait("read", "wait_for_read_done", TRUE)
      BY <2>1, <2>2 DEF HandleQueue, ds18b20_handle_read_temperature_timeout
    <2>4. toKernel = <<>> /\ OnlyForeign(netlink)
      BY <2>1 DEF IInv, Traffic
    <2> QED BY <1>1, <2>1, <2>2, <2>3, <2>4, SendStep DEF HandleQueue, IInv, TypeOK
  <1> QED BY <1>2, <1>3, <1>4

\* An active request is answered for good.
LEMMA FinalizeStep ==
  ASSUME IInv, NEW res \in {"ok", "error"}, ds18b20_finalize(res, active),
         seqno # None, res = "ok" => state = "wait_for_read_done", ~armed, queue = <<>>,
         UNCHANGED <<callerVars, queue, heard, converted, unanswered, toKernel, cn_seqno, armed>>,
         mistaken' \in BOOLEAN,
         toKernel = <<>>, netlink' \in Seq(Replies), OnlyLate(netlink')
  PROVE  IInv'
  <1> DEFINE r == [res |-> res, converted |-> converted = "done"]
  <1>1. TypeOK /\ Active /\ mutex # NoCaller
    BY DEF IInv, NoRequest, InTheQueue, Answered
  <1>2. active = TRUE /\ responses = <<>> /\ (res = "ok" => converted = "done")
    BY <1>1 DEF Active, TypeOK
  <1>3. r \in Responses /\ r.res = res /\ r.converted = (converted = "done")
    BY <1>1 DEF Responses, TypeOK
  <1> HIDE DEF r
  <1>4. /\ responses' = Append(responses, r)
        /\ thread' = thread /\ state' = "idle" /\ seqno' = None /\ active' = FALSE
    BY <1>2 DEF ds18b20_finalize, Put, r
  <1>5. responses' \in Seq(Responses) /\ Len(responses') = 1 /\ responses'[1] = r
    BY <1>2, <1>3, <1>4, PutOne
  <1>6. TypeOK'
    BY <1>1, <1>4, <1>5 DEF TypeOK, States, Responses, callerVars
  <1>7. Answered'
    BY <1>1, <1>2, <1>3, <1>4, <1>5 DEF Answered, Active
  <1>8. Traffic'
    BY <1>4 DEF Traffic
  <1> QED BY <1>1, <1>4, <1>6, <1>7, <1>8 DEF IInv, callerVars

\* The thread reads a message that it does not wait for.
LEMMA IgnoreStep ==
  ASSUME IInv, netlink # <<>>, netlink' = Tail(netlink),
         UNCHANGED <<callerVars, queue, responses, thread, self, armed, toKernel, heard,
                     converted, unanswered>>,
         mistaken' \in BOOLEAN
  PROVE  IInv'
  <1>1. netlink \in Seq(Replies)
    BY DEF IInv, TypeOK
  <1>2. TypeOK'
    BY <1>1, TailOfNetlink DEF IInv, TypeOK, callerVars, self, history
  <1>3. Traffic'
    BY <1>1, TailOfNetlink DEF IInv, Traffic, self
  <1>4. /\ NoRequest => NoRequest'
        /\ InTheQueue => InTheQueue'
        /\ Active => Active'
        /\ Answered => Answered'
    BY DEF NoRequest, InTheQueue, Active, Answered, self
  <1> QED BY <1>2, <1>3, <1>4 DEF IInv, callerVars, self, history

\* The thread reads a message from the socket, and it is not one of another with
\* the awaited number.
LEMMA HandleSocketStep ==
  ASSUME IInv, HandleSocket, ~mistaken'
  PROVE  IInv'
  <1> DEFINE m == Head(netlink)
  <1>1. /\ netlink \in Seq(Replies) /\ netlink # <<>> /\ netlink' = Tail(netlink)
        /\ UNCHANGED <<callerVars, queue, toKernel, heard, unanswered>>
        /\ mistaken' \in BOOLEAN
        /\ m.seq = seqno => ~m.foreign
    BY DEF IInv, TypeOK, HandleSocket
  <1>2. m \in Replies
    BY <1>1
  <1>3. netlink' \in Seq(Replies)
    BY <1>1, TailOfNetlink
  <1>4. CASE UNCHANGED <<self, armed, responses, thread, converted>>
    BY <1>1, <1>4, IgnoreStep DEF self
  <1>5. CASE m.seq = seqno /\ ~UNCHANGED <<self, armed, responses, thread, converted>>
    <2>1. ~m.foreign /\ seqno # None /\ state # "idle" /\ Active
      <3>1. ~m.foreign /\ m.seq \in 1 .. MAX_SEQNO
        BY <1>1, <1>2, <1>5 DEF Replies
      <3>2. seqno # None
        BY <1>5, <3>1, OneWireAssumption DEF None
      <3> QED BY <3>1, <3>2 DEF IInv, NoRequest, InTheQueue, Answered
    <2>2. netlink[1] = m /\ 1 \in 1 .. Len(netlink)
      BY <1>1
    <2> HIDE DEF m
    <2>3. ds18b20_handle_read_temperature_slave_response(m.command)
      BY <1>5 DEF HandleSocket, handle_message_done, m
    <2>4. CASE m.command = "error"
      <3>1. ds18b20_finalize("error", active) /\ UNCHANGED <<cn_seqno, armed, converted>>
        BY <2>3, <2>4 DEF ds18b20_handle_read_temperature_slave_response
      <3>2. ~OnlyForeign(netlink) /\ ~OnlyLate(netlink)
        BY <2>1, <2>2, <2>4 DEF OnlyForeign, OnlyLate
      <3>3. state \in {"wait_for_convert_done", "wait_for_read_done"} /\ toKernel = <<>>
        BY <2>1, <3>2 DEF IInv, Traffic, TypeOK, States
      <3>4. ~armed /\ queue = <<>>
        BY <2>1, <3>3 DEF Active
      <3>5. OnlyLate(netlink')
        BY <1>1, <2>1, <2>4, <3>3, TailOfNetlink, Quiet DEF IInv, Traffic, m
      <3> QED BY <1>1, <1>3, <2>1, <3>1, <3>3, <3>4, <3>5, FinalizeStep
    <2>5. CASE m.command = "write" /\ state = "wait_for_convert_done"
      <3>1. /\ armed' = TRUE
            /\ converted' = "running"
            /\ state' = "wait_for_convert_timeout"
            /\ UNCHANGED <<seqno, cn_seqno, active, responses, thread>>
        BY <2>3, <2>5 DEF ds18b20_handle_read_temperature_slave_response
      <3>2. ~OnlyLate(netlink)
        BY <2>1, <2>2, <2>5 DEF OnlyLate
      <3>3. toKernel = <<>>
        BY <2>5, <3>2 DEF IInv, Traffic
      <3>4. OnlyForeign(netlink')
        BY <1>1, <2>1, <2>5, TailOfNetlink DEF IInv, Traffic, m
      <3>5. TypeOK'
        BY <1>1, <1>3, <3>1 DEF IInv, TypeOK, States, callerVars
      <3>6. Active'
        BY <1>1, <2>1, <2>5, <3>1 DEF Active
      <3>7. Traffic'
        BY <1>1, <3>1, <3>3, <3>4 DEF Traffic
      <3>8. mutex # NoCaller
        BY <2>1 DEF IInv, NoRequest
      <3> QED BY <1>1, <2>1, <3>1, <3>5, <3>6, <3>7, <3>8 DEF IInv, callerVars
    <2>6. CASE m.command = "read" /\ state = "wait_for_read_done"
      <3>1. ds18b20_finalize("ok", active) /\ UNCHANGED <<cn_seqno, armed, converted>>
        BY <2>3, <2>6 DEF ds18b20_handle_read_temperature_slave_response
      <3>2. ~OnlyForeign(netlink)
        BY <2>1, <2>2 DEF OnlyForeign
      <3>3. toKernel = <<>>
        BY <2>6, <3>2 DEF IInv, Traffic
      <3>4. ~armed /\ queue = <<>>
        BY <2>1, <2>6 DEF Active
      <3>5. OnlyLate(netlink')
        BY <1>1, <2>1, <2>6, TailOfNetlink DEF IInv, Traffic, m
      <3> QED BY <1>1, <1>3, <2>1, <2>6, <3>1, <3>3, <3>4, <3>5, FinalizeStep
    <2> QED BY <1>5, <2>3, <2>4, <2>5, <2>6
            DEF ds18b20_handle_read_temperature_slave_response
  <1> QED BY <1>4, <1>5 DEF HandleSocket, handle_message_done

\* The conversion timer puts its timeout.
LEMMA ExpireStep ==
  ASSUME IInv, Expire
  PROVE  IInv'
  <1>1. armed /\ armed' = FALSE /\ Active /\ mutex # NoCaller
    BY DEF IInv, Expire, NoRequest, InTheQueue, Answered
  <1>2. state = "wait_for_convert_timeout" /\ queue = <<>>
    BY <1>1 DEF Active
  <1>3. queue' = <<"timeout">> /\ queue' \in Seq({"request", "timeout"})
    BY <1>2 DEF Expire
  <1>4. TypeOK'
    BY <1>1, <1>3 DEF IInv, TypeOK, Expire, callerVars, self, history
  <1>5. Active'
    BY <1>1, <1>2, <1>3 DEF Active, Expire, self
  <1>6. Traffic'
    BY DEF IInv, Traffic, Expire, self
  <1> QED BY <1>1, <1>4, <1>5, <1>6 DEF IInv, Expire, callerVars, self, history

\* The kernel answers the message that is under way, or does not.
LEMMA KernelStep ==
  ASSUME IInv, Answer \/ NoAnswer
  PROVE  IInv'
  <1> DEFINE m == Head(toKernel)
  <1>1. /\ netlink \in Seq(Replies) /\ toKernel \in Seq(Messages) /\ toKernel # <<>>
        /\ toKernel' = Tail(toKernel) /\ unanswered' \in BOOLEAN
        /\ UNCHANGED <<callerVars, queue, responses, thread, self, armed, heard, converted,
                       mistaken>>
    BY DEF IInv, TypeOK, Messages, Answer, NoAnswer, history
  <1>2. /\ m \in Messages /\ m = toKernel[1]
        /\ \/ state = "wait_for_convert_done" /\ m.kind = "convert"
           \/ state = "wait_for_read_done" /\ m.kind = "read"
        /\ Len(toKernel) = 1
    BY <1>1 DEF IInv, Traffic, TypeOK, States
  <1>3. toKernel' = <<>> /\ toKernel' \in Seq(Messages)
    BY <1>1, <1>2, TailOfOne
  <1> HIDE DEF m
  <1>4. /\ netlink' \in Seq(Replies)
        /\ state = "wait_for_convert_done" => ConvertAnswer(netlink')
        /\ state = "wait_for_read_done" => ReadAnswer(netlink')
    <2>1. /\ state = "wait_for_convert_done" => OnlyLate(netlink)
          /\ state = "wait_for_read_done" => OnlyForeign(netlink)
      BY <1>1 DEF IInv, Traffic
    <2>2. CASE Answer
      <3>1. PICK a \in Answers(m.kind) :
              netlink' = netlink \o [i \in 1 .. Len(a) |-> [seq |-> m.seq, command |-> a[i], foreign |-> FALSE]]
        BY <2>2 DEF Answer, m
      <3> QED BY <1>1, <1>2, <2>1, <3>1, AnswerOfKernel
    <2>3. CASE NoAnswer
      <3>1. CASE UNCHANGED netlink
        BY <1>1, <2>1, <3>1, Quiet
      <3>2. CASE netlink' = Append(netlink, [seq |-> m.seq, command |-> "short_read", foreign |-> FALSE])
        <4> DEFINE b == [seq |-> m.seq, command |-> "short_read", foreign |-> FALSE]
        <4>1. b \in Replies
          BY <1>2, OneWireAssumption DEF Messages, Replies, Commands
        <4> HIDE DEF b
        <4>2. /\ netlink' \in Seq(Replies) /\ Len(netlink') = Len(netlink) + 1
              /\ Len(netlink) \in Nat
              /\ \A i \in 1 .. Len(netlink) : netlink'[i] = netlink[i]
          BY <1>1, <3>2, <4>1 DEF b
        <4>3. ASSUME NEW i \in 1 .. Len(netlink'), NEW j \in 1 .. Len(netlink'), i < j
              PROVE  i \in 1 .. Len(netlink) /\ netlink'[i] = netlink[i]
          BY <4>2, <4>3
        <4>4. OnlyLate(netlink) => ConvertAnswer(netlink')
          BY <4>3 DEF OnlyLate, ConvertAnswer
        <4>5. OnlyForeign(netlink) => ReadAnswer(netlink')
          BY <4>3 DEF OnlyForeign, ReadAnswer
        <4> QED BY <2>1, <4>2, <4>4, <4>5
      <3> QED BY <2>3, <3>1, <3>2 DEF NoAnswer, m
    <2> QED BY <2>2, <2>3
  <1>5. TypeOK'
    BY <1>1, <1>3, <1>4 DEF IInv, TypeOK, Messages, callerVars, self, history
  <1>6. Traffic'
    BY <1>1, <1>2, <1>3, <1>4 DEF Traffic, self
  <1>7. Active => Active'
    BY <1>1 DEF Active, self
  <1>8. Active /\ mutex # NoCaller
    BY <1>2 DEF IInv, NoRequest, InTheQueue, Answered
  <1> QED BY <1>1, <1>5, <1>6, <1>7, <1>8 DEF IInv, callerVars, self, history

\* Another process is heard.
LEMMA ForeignStep ==
  ASSUME IInv, Foreign
  PROVE  IInv'
  <1>1. PICK s \in {None} \cup 0 .. MAX_SEQNO, c \in Commands :
          netlink' = Append(netlink, [seq |-> s, command |-> c, foreign |-> TRUE])
    BY DEF Foreign
  <1> DEFINE m == [seq |-> s, command |-> c, foreign |-> TRUE]
  <1>2. m \in Replies /\ m.foreign /\ netlink \in Seq(Replies)
    BY DEF Replies, IInv, TypeOK
  <1> HIDE DEF m
  <1>3. /\ netlink' \in Seq(Replies)
        /\ OnlyForeign(netlink) => OnlyForeign(netlink')
        /\ OnlyLate(netlink) => OnlyLate(netlink')
        /\ ConvertAnswer(netlink) => ConvertAnswer(netlink')
        /\ ReadAnswer(netlink) => ReadAnswer(netlink')
    BY <1>1, <1>2, ForeignMessage DEF m
  <1>4. TypeOK'
    BY <1>3, OneWireAssumption DEF IInv, TypeOK, Foreign, callerVars, self, history
  <1>5. Traffic'
    BY <1>3 DEF IInv, Traffic, Foreign, self, history
  <1>6. /\ NoRequest => NoRequest'
        /\ InTheQueue => InTheQueue'
        /\ Active => Active'
        /\ Answered => Answered'
    BY DEF NoRequest, InTheQueue, Active, Answered, Foreign, self, history
  <1> QED BY <1>4, <1>5, <1>6 DEF IInv, Foreign, callerVars, self, history

\* A step of no consequence: only a caller that is not waiting, or the life of
\* the thread, changes.
LEMMA IdleStep ==
  ASSUME IInv, TypeOK', thread' # "crashed",
         \A c \in Callers : pc'[c] = "wait" <=> pc[c] = "wait",
         UNCHANGED <<mutex, queue, responses, self, armed, toKernel, netlink, heard, history>>
  PROVE  IInv'
  <1>1. Traffic'
    BY DEF IInv, Traffic, self
  <1>2. /\ NoRequest => NoRequest'
        /\ InTheQueue => InTheQueue'
        /\ Active => Active'
        /\ Answered => Answered'
    BY DEF NoRequest, InTheQueue, Active, Answered, self, history
  <1> QED BY <1>1, <1>2 DEF IInv, self

\* Every step keeps the invariant.
LEMMA StepIInv == IInv /\ ~mistaken' /\ [Next]_vars => IInv'
  <1> SUFFICES ASSUME IInv, ~mistaken', [Next]_vars
               PROVE  IInv'
    OBVIOUS
  <1>1. ASSUME NEW c \in Callers, ReadCall(c)
        PROVE  IInv'
    <2>1. TypeOK' /\ \A d \in Callers : pc'[d] = "wait" <=> pc[d] = "wait"
      BY <1>1 DEF IInv, TypeOK, ReadCall, self, history
    <2> QED BY <1>1, <2>1, IdleStep DEF ReadCall, IInv
  <1>2. ASSUME NEW c \in Callers, ReadPut(c)
        PROVE  IInv'
    BY <1>2, ReadPutStep
  <1>3. ASSUME NEW c \in Callers, ReadReturn(c)
        PROVE  IInv'
    BY <1>3, ReadReturnStep
  <1>4. CASE ml_one_wire_start \/ ThreadEnds
    <2>1. TypeOK' /\ thread' # "crashed" /\ pc' = pc
      BY <1>4 DEF IInv, TypeOK, ml_one_wire_start, ThreadEnds, callerVars, self, history
    <2> QED BY <1>4, <2>1, IdleStep DEF ml_one_wire_start, ThreadEnds, callerVars
  <1>5. CASE HandleQueue
    BY <1>5, HandleQueueStep
  <1>6. CASE HandleSocket
    BY <1>6, HandleSocketStep
  <1>7. CASE Expire
    BY <1>7, ExpireStep
  <1>8. CASE Answer \/ NoAnswer
    BY <1>8, KernelStep
  <1>9. CASE Foreign
    BY <1>9, ForeignStep
  <1>10. CASE UNCHANGED vars
    <2>1. TypeOK' /\ thread' # "crashed" /\ pc' = pc
      BY <1>10 DEF IInv, TypeOK, vars, callerVars, self, history
    <2> QED BY <1>10, <2>1, IdleStep DEF vars, callerVars
  <1> QED BY <1>1, <1>2, <1>3, <1>4, <1>5, <1>6, <1>7, <1>8, <1>9, <1>10 DEF Next

-----------------------------------------------------------------------------
(* The counts                                                                *)

\* The number of messages of a kind in a queue of at most one.
LEMMA CountInQueue ==
  ASSUME NEW m, NEW k
  PROVE  /\ queue = <<>> => InQueue(m) = 0
         /\ queue = <<k>> => InQueue(m) = Number(m = k)
  <1>1. ASSUME queue = <<>>
        PROVE  InQueue(m) = 0
    <2>1. {i \in 1 .. Len(queue) : queue[i] = m} = {}
      BY <1>1
    <2> QED BY <2>1, FS_EmptySet DEF InQueue
  <1>2. ASSUME queue = <<k>>
        PROVE  InQueue(m) = Number(m = k)
    <2>1. CASE m = k
      <3>1. {i \in 1 .. Len(queue) : queue[i] = m} = {1}
        BY <1>2, <2>1
      <3> QED BY <2>1, <3>1, FS_Singleton DEF InQueue, Number
    <2>2. CASE m # k
      <3>1. {i \in 1 .. Len(queue) : queue[i] = m} = {}
        BY <1>2, <2>2
      <3> QED BY <2>2, <3>1, FS_EmptySet DEF InQueue, Number
    <2> QED BY <2>1, <2>2
  <1> QED BY <1>1, <1>2

\* Where a message is in a queue.
At(q, m) == {i \in 1 .. Len(q) : q[i] = m}

\* A message is in a queue finitely often.
LEMMA AtIsFinite ==
  ASSUME NEW S, NEW q \in Seq(S), NEW m
  PROVE  IsFiniteSet(At(q, m)) /\ At(q, m) \subseteq Nat /\ Cardinality(At(q, m)) \in Nat
  <1>1. Len(q) \in Nat
    OBVIOUS
  <1>2. IsFiniteSet(1 .. Len(q)) /\ At(q, m) \in SUBSET (1 .. Len(q))
    BY <1>1, FS_Interval DEF At
  <1>3. IsFiniteSet(At(q, m))
    BY <1>2, FS_Subset
  <1>4. Cardinality(At(q, m)) \in Nat
    BY <1>3, FS_CardinalityType
  <1> QED BY <1>2, <1>3, <1>4

\* A message that is put counts.
LEMMA CountAppend ==
  ASSUME NEW S, NEW q \in Seq(S), NEW k \in S, NEW m
  PROVE  Cardinality(At(Append(q, k), m)) = Cardinality(At(q, m)) + Number(m = k)
  <1> DEFINE a == Append(q, k)
  <1>1. /\ Len(q) \in Nat /\ Len(a) = Len(q) + 1 /\ a[Len(q) + 1] = k
        /\ \A i \in 1 .. Len(q) : a[i] = q[i]
    OBVIOUS
  <1> HIDE DEF a
  <1>2. At(a, m) = IF m = k THEN At(q, m) \cup {Len(q) + 1} ELSE At(q, m)
    BY <1>1 DEF At
  <1>3. Len(q) + 1 \notin At(q, m)
    BY <1>1 DEF At
  <1>4. IsFiniteSet(At(q, m)) /\ Cardinality(At(q, m)) \in Nat
    BY AtIsFinite
  <1>5. CASE m = k
    <2>1. Cardinality(At(q, m) \cup {Len(q) + 1}) = Cardinality(At(q, m)) + 1
      BY <1>3, <1>4, FS_AddElement
    <2> QED BY <1>2, <1>5, <2>1 DEF Number, a
  <1>6. CASE m # k
    BY <1>2, <1>4, <1>6 DEF Number, a
  <1> QED BY <1>5, <1>6

\* A message that is taken no longer counts.
LEMMA CountTail ==
  ASSUME NEW S, NEW q \in Seq(S), q # <<>>, NEW m
  PROVE  Cardinality(At(q, m)) = Cardinality(At(Tail(q), m)) + Number(m = Head(q))
  <1> DEFINE t == Tail(q)
  <1>1. /\ Len(q) \in Nat \ {0} /\ Len(t) = Len(q) - 1 /\ t \in Seq(S)
        /\ \A i \in 1 .. Len(t) : t[i] = q[i + 1]
        /\ Head(q) = q[1]
    OBVIOUS
  <1> HIDE DEF t
  <1> DEFINE B == At(t, m)
             A == At(q, m) \ {1}
             f == [i \in B |-> i + 1]
  <1>2. B \subseteq Nat /\ IsFiniteSet(B) /\ Cardinality(B) \in Nat
    BY <1>1, AtIsFinite
  <1>3. \A i \in B : i + 1 \in A
    BY <1>1 DEF At
  <1>4. \A j \in A : j - 1 \in B /\ (j - 1) + 1 = j
    BY <1>1 DEF At
  <1> HIDE DEF A, B
  <1>5. ExistsBijection(B, A)
    <2>1. f \in [B -> A]
      BY <1>3
    <2>2. \A i, j \in B : f[i] = f[j] => i = j
      BY <1>2
    <2>3. \A j \in A : \E i \in B : f[i] = j
      BY <1>4
    <2> HIDE DEF f
    <2>4. f \in Bijection(B, A)
      BY <2>1, <2>2, <2>3 DEF Bijection, Injection, Surjection, IsInjective
    <2> QED BY <2>4 DEF ExistsBijection
  <1>6. Cardinality(A) = Cardinality(B)
    BY <1>2, <1>5, FS_Bijection
  <1>7. 1 \in At(q, m) <=> m = Head(q)
    BY <1>1 DEF At
  <1>8. IsFiniteSet(At(q, m)) /\ Cardinality(At(q, m)) \in Nat
    BY AtIsFinite
  <1>9. Cardinality(A) = IF m = Head(q) THEN Cardinality(At(q, m)) - 1 ELSE Cardinality(At(q, m))
    BY <1>7, <1>8, FS_RemoveElement DEF A
  <1>10. Cardinality(At(q, m)) = Cardinality(B) + Number(m = Head(q))
    BY <1>2, <1>6, <1>8, <1>9 DEF Number
  <1> QED BY <1>10 DEF B, t

\* The two for the queue of the thread.
LEMMA InQueueStep ==
  ASSUME queue \in Seq({"request", "timeout"}), NEW m
  PROVE  /\ InQueue(m) \in Nat
         /\ queue' = queue => InQueue(m)' = InQueue(m)
         /\ \A k \in {"request", "timeout"} : queue' = Append(queue, k)
                                             => InQueue(m)' = InQueue(m) + Number(m = k)
         /\ queue # <<>> /\ queue' = Tail(queue)
               => InQueue(m)' \in Nat /\ InQueue(m) = InQueue(m)' + Number(m = Head(queue))
  <1>1. InQueue(m) = Cardinality(At(queue, m)) /\ InQueue(m)' = Cardinality(At(queue', m))
    BY DEF InQueue, At
  <1>2. InQueue(m) \in Nat
    BY <1>1, AtIsFinite
  <1>3. ASSUME NEW k \in {"request", "timeout"}, queue' = Append(queue, k)
        PROVE  InQueue(m)' = InQueue(m) + Number(m = k)
    BY <1>1, <1>3, CountAppend
  <1>4. ASSUME queue # <<>>, queue' = Tail(queue)
        PROVE  InQueue(m)' \in Nat /\ InQueue(m) = InQueue(m)' + Number(m = Head(queue))
    <2>1. Tail(queue) \in Seq({"request", "timeout"})
      BY <1>4
    <2>2. InQueue(m)' \in Nat
      BY <1>1, <1>4, <2>1, AtIsFinite
    <2> QED BY <1>1, <1>4, <2>2, CountTail
  <1> QED BY <1>1, <1>2, <1>3, <1>4

NoneIsBusy(r) == \A i \in 1 .. Len(r) : r[i].res # "busy"

\* A request that is given up, or answered, becomes a response.
LEMMA FinalizeCount ==
  ASSUME TypeOK, NoneIsBusy(responses), NEW res \in {"ok", "error"}, NEW pending \in BOOLEAN,
         ds18b20_finalize(res, pending)
  PROVE  /\ responses' \in Seq(Responses) /\ NoneIsBusy(responses')
         /\ thread' \in {"none", "run", "deaf", "ended", "crashed"}
         /\ state' \in States /\ seqno' \in 1 .. MAX_SEQNO \cup {None} /\ active' \in BOOLEAN
         /\ Number(active') + Len(responses') = Number(pending) + Len(responses)
  <1>1. responses \in Seq(Responses)
    BY DEF TypeOK, Responses
  <1>2. /\ thread' \in {"none", "run", "deaf", "ended", "crashed"}
        /\ state' \in States /\ seqno' \in 1 .. MAX_SEQNO \cup {None} /\ active' = FALSE
    BY DEF ds18b20_finalize, TypeOK, States
  <1>3. CASE pending
    <2> DEFINE r == [res |-> res, converted |-> converted = "done"]
    <2>1. responses' = Append(responses, r)
      BY <1>3 DEF ds18b20_finalize, Put
    <2>2. r \in Responses /\ r.res # "busy"
      BY DEF Responses
    <2> HIDE DEF r
    <2>3. /\ responses' \in Seq(Responses) /\ Len(responses') = Len(responses) + 1
          /\ Len(responses) \in Nat
          /\ \A i \in 1 .. Len(responses) : responses'[i] = responses[i]
          /\ responses'[Len(responses) + 1] = r
      BY <1>1, <2>1, <2>2
    <2>4. NoneIsBusy(responses')
      BY <2>2, <2>3 DEF NoneIsBusy
    <2>5. Number(active') = 0 /\ Number(pending) = 1
      BY <1>2, <1>3 DEF Number
    <2>6. Number(active') + Len(responses') = Number(pending) + Len(responses)
      BY <2>3, <2>5
    <2>7. active' \in BOOLEAN
      BY <1>2
    <2> QED BY <1>2, <2>3, <2>4, <2>6, <2>7
  <1>4. CASE ~pending
    <2>1. responses' = responses
      BY <1>4 DEF ds18b20_finalize
    <2> QED BY <1>1, <1>2, <1>4, <2>1 DEF Number
  <1> QED BY <1>3, <1>4

\* So does a request whose message cannot be sent; otherwise it is active.
LEMMA SendCount ==
  ASSUME TypeOK, NoneIsBusy(responses), NEW kind \in {"convert", "read"}, NEW next \in States,
         NEW pending \in BOOLEAN, SendAndWait(kind, next, pending)
  PROVE  /\ responses' \in Seq(Responses) /\ NoneIsBusy(responses')
         /\ thread' \in {"none", "run", "deaf", "ended", "crashed"}
         /\ state' \in States /\ seqno' \in 1 .. MAX_SEQNO \cup {None} /\ active' \in BOOLEAN
         /\ cn_seqno' \in 0 .. MAX_SEQNO /\ toKernel' \in Seq(Messages)
         /\ Number(active') + Len(responses') = Number(pending) + Len(responses)
  <1>1. /\ responses \in Seq(Responses) /\ toKernel \in Seq(Messages)
        /\ next_seqno \in 1 .. MAX_SEQNO /\ next_seqno \in 0 .. MAX_SEQNO
        /\ cn_seqno' = next_seqno
    BY NextSeqno DEF TypeOK, Responses, Messages, SendAndWait
  <1>2. CASE ds18b20_finalize("error", pending) /\ UNCHANGED toKernel
    BY <1>1, <1>2, FinalizeCount
  <1>3. CASE /\ toKernel' = Append(toKernel, [seq |-> next_seqno, kind |-> kind])
             /\ seqno' = next_seqno /\ state' = next /\ active' = pending
             /\ UNCHANGED <<responses, thread>>
    <2>1. [seq |-> next_seqno, kind |-> kind] \in Messages
      BY <1>1 DEF Messages
    <2>2. toKernel' \in Seq(Messages)
      BY <1>1, <1>3, <2>1
    <2> QED BY <1>1, <1>3, <2>2 DEF TypeOK, NoneIsBusy
  <1> QED BY <1>2, <1>3 DEF SendAndWait

\* ml_one_wire_init() starts with no request.
LEMMA InitOnce == Init => OneAnswerPerRequest
  <1> SUFFICES ASSUME Init PROVE OneAnswerPerRequest
    OBVIOUS
  <1>1. TypeOK /\ \A c \in Callers : pc[c] = "wait" <=> mutex = c
    BY InitIInv DEF IInv
  <1>2. InQueue("request") = 0 /\ Number(active) = 0 /\ Len(responses) = 0
    BY CountInQueue DEF Init, Number
  <1> QED BY <1>1, <1>2 DEF OneAnswerPerRequest, Init, Number

\* A step that moves no request and no response.
LEMMA OnceKept ==
  ASSUME OneAnswerPerRequest, TypeOK',
         \A c \in Callers : pc'[c] = "wait" <=> pc[c] = "wait",
         UNCHANGED <<mutex, responses, active>>, InQueue("request")' = InQueue("request")
  PROVE  OneAnswerPerRequest'
  BY DEF OneAnswerPerRequest, Number

\* The thread takes a message: a request is not busy, because it is the only one.
LEMMA HandleQueueOnce ==
  ASSUME OneAnswerPerRequest, HandleQueue
  PROVE  OneAnswerPerRequest'
  <1> DEFINE K == {"request", "timeout"}
  <1>1. /\ TypeOK /\ NoneIsBusy(responses) /\ queue \in Seq(K) /\ active \in BOOLEAN
        /\ responses \in Seq(Responses)
        /\ InQueue("request") + Number(active) + Len(responses) = Number(mutex # NoCaller)
    BY DEF OneAnswerPerRequest, NoneIsBusy, TypeOK, Responses
  <1>2. /\ queue # <<>> /\ queue' = Tail(queue)
        /\ UNCHANGED <<callerVars, armed, netlink, heard, mistaken, unanswered>>
    BY DEF HandleQueue
  <1>3. Head(queue) \in K /\ queue' \in Seq(K)
    BY <1>1, <1>2
  <1> HIDE DEF K
  <1>4. /\ InQueue("request")' \in Nat
        /\ InQueue("request") = InQueue("request")' + Number("request" = Head(queue))
    BY <1>1, <1>2, InQueueStep DEF K
  <1>5. /\ Len(responses) \in Nat /\ Number(active) \in {0, 1}
        /\ Number(mutex # NoCaller) \in {0, 1}
    BY <1>1 DEF Number
  <1>6. ASSUME NEW pending \in BOOLEAN, NEW kind \in {"convert", "read"}, NEW next \in States,
               SendAndWait(kind, next, pending),
               converted' \in {"none", "done", "early"},
               InQueue("request")' + Number(pending) + Len(responses) = Number(mutex # NoCaller)
        PROVE  OneAnswerPerRequest'
    <2>1. /\ responses' \in Seq(Responses) /\ NoneIsBusy(responses')
          /\ thread' \in {"none", "run", "deaf", "ended", "crashed"}
          /\ state' \in States /\ seqno' \in 1 .. MAX_SEQNO \cup {None} /\ active' \in BOOLEAN
          /\ cn_seqno' \in 0 .. MAX_SEQNO /\ toKernel' \in Seq(Messages)
          /\ Number(active') + Len(responses') = Number(pending) + Len(responses)
      BY <1>1, <1>6, SendCount
    <2>2. TypeOK'
      BY <1>1, <1>2, <1>3, <1>6, <2>1 DEF TypeOK, callerVars, Responses, Messages, K
    <2>3. /\ Number(pending) \in {0, 1} /\ Number(active') \in {0, 1}
          /\ Len(responses') \in Nat
      BY <2>1 DEF Number
    <2>4. InQueue("request")' + Number(active') + Len(responses') = Number(mutex # NoCaller)
      BY <1>4, <1>5, <1>6, <2>1, <2>3
    <2>5. pc' = pc /\ mutex' = mutex
      BY <1>2 DEF callerVars
    <2>6. Number(active)' = Number(active') /\ Number(mutex # NoCaller)' = Number(mutex # NoCaller)
      BY <2>5 DEF Number
    <2> QED BY <2>1, <2>2, <2>4, <2>5, <2>6 DEF OneAnswerPerRequest, NoneIsBusy
  <1>7. CASE Head(queue) = "request"
    <2>1. InQueue("request") = InQueue("request")' + 1
      BY <1>4, <1>7 DEF Number
    <2>2. /\ Number(active) = 0 /\ InQueue("request")' = 0 /\ Len(responses) = 0
          /\ Number(mutex # NoCaller) = 1
      BY <1>1, <1>4, <1>5, <2>1
    <2>3. ~active
      BY <2>2 DEF Number
    <2>4. SendAndWait("convert", "wait_for_convert_done", TRUE) /\ converted' = "none"
      BY <1>7, <2>3 DEF HandleQueue, ds18b20_handle_read_temperature
    <2>5. InQueue("request")' + Number(TRUE) + Len(responses) = Number(mutex # NoCaller)
      BY <2>2 DEF Number
    <2> QED BY <1>6, <2>4, <2>5 DEF States
  <1>8. CASE Head(queue) = "timeout"
    <2>1. InQueue("request") = InQueue("request")'
      BY <1>4, <1>8 DEF Number
    <2>2. /\ SendAndWait("read", "wait_for_read_done", active)
          /\ converted' \in {"done", "early"}
      BY <1>8 DEF HandleQueue, ds18b20_handle_read_temperature_timeout
    <2>3. InQueue("request")' + Number(active) + Len(responses) = Number(mutex # NoCaller)
      BY <1>1, <2>1
    <2> QED BY <1>1, <1>6, <2>2, <2>3 DEF States
  <1> QED BY <1>3, <1>7, <1>8 DEF K

\* The thread reads a message, whoever sent it: only a request that is active is
\* answered, and with it the process goes on.
LEMMA HandleSocketOnce ==
  ASSUME OneAnswerPerRequest, HandleSocket
  PROVE  OneAnswerPerRequest'
  <1> DEFINE m == Head(netlink)
  <1>1. /\ TypeOK /\ NoneIsBusy(responses) /\ active \in BOOLEAN
        /\ responses \in Seq(Responses) /\ netlink \in Seq(Replies) /\ mistaken \in BOOLEAN
        /\ InQueue("request") + Number(active) + Len(responses) = Number(mutex # NoCaller)
    BY DEF OneAnswerPerRequest, NoneIsBusy, TypeOK, Responses
  <1>2. /\ netlink # <<>> /\ netlink' = Tail(netlink)
        /\ UNCHANGED <<callerVars, queue, toKernel, heard, unanswered>>
        /\ pc' = pc /\ mutex' = mutex
    BY DEF HandleSocket, callerVars
  <1>3. netlink' \in Seq(Replies) /\ m \in Replies
    BY <1>1, <1>2, TailOfNetlink
  <1>4. mistaken' \in BOOLEAN
    BY <1>1, <1>3 DEF HandleSocket, Replies
  <1>5. InQueue("request")' = InQueue("request")
    BY <1>1, <1>2, InQueueStep DEF TypeOK
  <1> HIDE DEF m
  <1>6. CASE UNCHANGED <<self, armed, responses, thread, converted>>
    <2>1. TypeOK'
      BY <1>1, <1>2, <1>3, <1>4, <1>6 DEF TypeOK, callerVars, self
    <2> QED BY <1>2, <1>5, <1>6, <2>1, OnceKept DEF self
  <1>7. CASE /\ armed' = TRUE
             /\ converted' = "running"
             /\ state' = "wait_for_convert_timeout"
             /\ UNCHANGED <<seqno, cn_seqno, active, responses, thread>>
    <2>1. TypeOK'
      BY <1>1, <1>2, <1>3, <1>4, <1>7 DEF TypeOK, callerVars, States
    <2> QED BY <1>2, <1>5, <1>7, <2>1, OnceKept
  <1>8. ASSUME NEW res \in {"ok", "error"}, ds18b20_finalize(res, active),
               UNCHANGED <<cn_seqno, armed, converted>>
        PROVE  OneAnswerPerRequest'
    <2>1. /\ responses' \in Seq(Responses) /\ NoneIsBusy(responses')
          /\ thread' \in {"none", "run", "deaf", "ended", "crashed"}
          /\ state' \in States /\ seqno' \in 1 .. MAX_SEQNO \cup {None} /\ active' \in BOOLEAN
          /\ Number(active') + Len(responses') = Number(active) + Len(responses)
      BY <1>1, <1>8, FinalizeCount
    <2>2. TypeOK'
      BY <1>1, <1>2, <1>3, <1>4, <1>8, <2>1 DEF TypeOK, callerVars, Responses
    <2>3. /\ Len(responses) \in Nat /\ Len(responses') \in Nat
          /\ Number(active) \in {0, 1} /\ Number(active') \in {0, 1}
      BY <1>1, <2>1 DEF Number
    <2>4. InQueue("request")' + Number(active') + Len(responses') = Number(mutex # NoCaller)
      <3>1. InQueue("request") + (Number(active) + Len(responses)) = Number(mutex # NoCaller)
            /\ InQueue("request") \in Int
        <4>1. InQueue("request") \in Nat
          BY <1>1, InQueueStep DEF TypeOK
        <4> QED BY <1>1, <2>3, <4>1
      <3> QED BY <1>5, <2>1, <2>3, <3>1
    <2>5. Number(active)' = Number(active') /\ Number(mutex # NoCaller)' = Number(mutex # NoCaller)
      BY <1>2 DEF Number
    <2>6. \A c \in Callers : pc'[c] = "wait" <=> mutex' = c
      BY <1>2 DEF OneAnswerPerRequest
    <2> QED BY <2>1, <2>2, <2>4, <2>5, <2>6 DEF OneAnswerPerRequest, NoneIsBusy
  <1>9. \/ ds18b20_handle_read_temperature_slave_response(m.command)
        \/ UNCHANGED <<self, armed, responses, thread, converted>>
    BY DEF HandleSocket, handle_message_done, m
  <1> QED BY <1>6, <1>7, <1>8, <1>9 DEF ds18b20_handle_read_temperature_slave_response

\* Every step keeps the counts, whatever is on the socket.
LEMMA StepOnce == OneAnswerPerRequest /\ [Next]_vars => OneAnswerPerRequest'
  <1> SUFFICES ASSUME OneAnswerPerRequest, [Next]_vars
               PROVE  OneAnswerPerRequest'
    OBVIOUS
  <1>1. /\ TypeOK
        /\ \A c \in Callers : pc[c] = "wait" <=> mutex = c
        /\ InQueue("request") + Number(active) + Len(responses) = Number(mutex # NoCaller)
        /\ queue \in Seq({"request", "timeout"}) /\ responses \in Seq(Responses)
        /\ active \in BOOLEAN
        /\ netlink \in Seq(Replies) /\ toKernel \in Seq(Messages)
    BY DEF OneAnswerPerRequest, TypeOK, Responses, Messages
  <1>2. InQueue("request") \in Nat /\ (queue' = queue => InQueue("request")' = InQueue("request"))
    BY <1>1, InQueueStep
  <1>3. ASSUME NEW c \in Callers, ReadCall(c)
        PROVE  OneAnswerPerRequest'
    <2>1. TypeOK' /\ \A d \in Callers : pc'[d] = "wait" <=> pc[d] = "wait"
      BY <1>1, <1>3 DEF TypeOK, ReadCall, self, history
    <2> QED BY <1>2, <1>3, <2>1, OnceKept DEF ReadCall, self
  <1>4. ASSUME NEW c \in Callers, ReadPut(c)
        PROVE  OneAnswerPerRequest'
    <2>1. /\ mutex = NoCaller /\ mutex' = c /\ c # NoCaller /\ queue' = Append(queue, "request")
          /\ UNCHANGED <<responses, active>>
      BY <1>4, OneWireAssumption DEF ReadPut, self
    <2>2. InQueue("request")' = InQueue("request") + 1
      BY <1>1, <2>1, InQueueStep DEF Number
    <2>3. TypeOK'
      BY <1>1, <1>4, <2>1 DEF TypeOK, ReadPut, self, history
    <2>4. \A d \in Callers : pc'[d] = "wait" <=> mutex' = d
      BY <1>1, <1>4, <2>1, OneWireAssumption DEF TypeOK, ReadPut
    <2>5. /\ Number(mutex # NoCaller) = 0 /\ Number(mutex # NoCaller)' = 1
          /\ Number(active)' = Number(active) /\ Number(active) \in {0, 1}
          /\ Len(responses) \in Nat
      BY <1>1, <2>1 DEF Number
    <2>6. InQueue("request")' + Number(active)' + Len(responses)' = Number(mutex # NoCaller)'
      BY <1>1, <1>2, <2>1, <2>2, <2>5
    <2> QED BY <2>1, <2>3, <2>4, <2>6 DEF OneAnswerPerRequest
  <1>5. ASSUME NEW c \in Callers, ReadReturn(c)
        PROVE  OneAnswerPerRequest'
    <2>1. /\ mutex = c /\ c # NoCaller /\ mutex' = NoCaller
          /\ responses # <<>> /\ responses' = Tail(responses)
          /\ UNCHANGED <<queue, active>>
      BY <1>1, <1>5, OneWireAssumption DEF ReadReturn, self
    <2>2. /\ responses' \in Seq(Responses) /\ Len(responses') = Len(responses) - 1
          /\ Len(responses) \in Nat \ {0}
          /\ \A i \in 1 .. Len(responses') : i + 1 \in 1 .. Len(responses)
                                             /\ responses'[i] = responses[i + 1]
      BY <1>1, <2>1
    <2>3. TypeOK'
      BY <1>1, <1>5, <2>1, <2>2 DEF TypeOK, ReadReturn, Responses, self, history
    <2>4. \A d \in Callers : pc'[d] = "wait" <=> mutex' = d
      BY <1>1, <1>5, <2>1, OneWireAssumption DEF TypeOK, ReadReturn
    <2>5. /\ Number(mutex # NoCaller) = 1 /\ Number(mutex # NoCaller)' = 0
          /\ Number(active)' = Number(active) /\ Number(active) \in {0, 1}
      BY <1>1, <2>1 DEF Number
    <2>6. InQueue("request")' = InQueue("request")
      BY <1>2, <2>1
    <2>7. InQueue("request")' + Number(active)' + Len(responses)' = Number(mutex # NoCaller)'
      BY <1>1, <1>2, <2>2, <2>5, <2>6
    <2>8. \A i \in 1 .. Len(responses') : responses'[i].res # "busy"
      BY <2>2 DEF OneAnswerPerRequest
    <2> QED BY <2>3, <2>4, <2>7, <2>8 DEF OneAnswerPerRequest
  <1>6. CASE ml_one_wire_start \/ ThreadEnds
    <2>1. TypeOK'
      BY <1>1, <1>6 DEF TypeOK, ml_one_wire_start, ThreadEnds, callerVars, self, history
    <2> QED BY <1>2, <1>6, <2>1, OnceKept DEF ml_one_wire_start, ThreadEnds, callerVars, self
  <1>7. CASE Expire
    <2>1. queue' = Append(queue, "timeout")
      BY <1>7 DEF Expire
    <2>2. InQueue("request")' = InQueue("request")
      BY <1>1, <1>2, <2>1, InQueueStep DEF Number
    <2>3. queue' \in Seq({"request", "timeout"})
          /\ converted' \in {"none", "running", "done", "early"}
      BY <1>1, <1>7, <2>1 DEF TypeOK, Expire
    <2>4. TypeOK'
      BY <1>1, <1>7, <2>3 DEF TypeOK, Expire, callerVars, self
    <2> QED BY <1>7, <2>2, <2>4, OnceKept DEF Expire, callerVars, self
  <1>8. CASE Answer \/ NoAnswer
    <2> DEFINE m == Head(toKernel)
    <2>1. /\ m \in Messages /\ toKernel' \in Seq(Messages)
          /\ UNCHANGED <<callerVars, queue, responses, thread, self, armed, heard, converted,
                         mistaken>>
          /\ unanswered' \in BOOLEAN
      <3>1. /\ toKernel # <<>> /\ toKernel' = Tail(toKernel)
            /\ UNCHANGED <<callerVars, queue, responses, thread, self, armed, heard, converted,
                           mistaken>>
            /\ unanswered' = unanswered \/ unanswered' = TRUE
        BY <1>8 DEF Answer, NoAnswer, history
      <3>2. m \in Messages /\ toKernel' \in Seq(Messages)
        BY <1>1, <3>1
      <3> QED BY <1>1, <3>1, <3>2 DEF TypeOK
    <2> HIDE DEF m
    <2>2. netlink' \in Seq(Replies)
      <3>1. CASE Answer
        <4>1. PICK a \in Answers(m.kind) :
                netlink' = netlink \o [i \in 1 .. Len(a) |-> [seq |-> m.seq, command |-> a[i],
                                                              foreign |-> FALSE]]
          BY <3>1 DEF Answer, m
        <4> QED BY <1>1, <2>1, <4>1, AnswerOfKernel
      <3>2. CASE NoAnswer
        <4> DEFINE b == [seq |-> m.seq, command |-> "short_read", foreign |-> FALSE]
        <4>1. b \in Replies
          BY <2>1 DEF Messages, Replies, Commands
        <4>2. netlink' = netlink \/ netlink' = Append(netlink, b)
          BY <3>2 DEF NoAnswer, m
        <4> HIDE DEF b
        <4>3. Append(netlink, b) \in Seq(Replies)
          BY <1>1, <4>1
        <4> QED BY <1>1, <4>2, <4>3
      <3> QED BY <1>8, <3>1, <3>2
    <2>3. TypeOK'
      BY <1>1, <2>1, <2>2 DEF TypeOK, Messages, callerVars, self
    <2> QED BY <1>2, <2>1, <2>3, OnceKept DEF callerVars, self
  <1>9. CASE Foreign
    <2>1. PICK s \in {None} \cup 0 .. MAX_SEQNO, k \in Commands :
            netlink' = Append(netlink, [seq |-> s, command |-> k, foreign |-> TRUE])
      BY <1>9 DEF Foreign
    <2> DEFINE b == [seq |-> s, command |-> k, foreign |-> TRUE]
    <2>2. b \in Replies
      BY DEF Replies
    <2> HIDE DEF b
    <2>3. netlink' \in Seq(Replies)
      BY <1>1, <2>1, <2>2 DEF b
    <2>4. TypeOK'
      BY <1>1, <1>9, <2>3, OneWireAssumption DEF TypeOK, Foreign, callerVars, self, history
    <2> QED BY <1>2, <1>9, <2>4, OnceKept DEF Foreign, callerVars, self
  <1>10. CASE UNCHANGED vars
    <2>1. TypeOK'
      BY <1>1, <1>10 DEF TypeOK, vars, callerVars, self, history
    <2> QED BY <1>2, <1>10, <2>1, OnceKept DEF vars, callerVars, self
  <1> QED BY <1>3, <1>4, <1>5, <1>6, <1>7, <1>8, <1>9, <1>10, HandleQueueOnce, HandleSocketOnce
          DEF Next

-----------------------------------------------------------------------------
(* The theorems                                                              *)

\* What was taken for an answer stays known.
LEMMA MistakenStays == TypeOK /\ [Next]_vars /\ mistaken => mistaken'
  BY DEF TypeOK, Next, vars, history, ReadCall, ReadPut, ReadReturn, ml_one_wire_start,
         HandleQueue, HandleSocket, ThreadEnds, Expire, Answer, NoAnswer, Foreign

\* The invariant holds until a message of another is taken for an answer, and the
\* counts are right in every state.
LEMMA Invariance == Spec => [](OneAnswerPerRequest /\ (~mistaken => IInv))
  <1>1. Init => OneAnswerPerRequest /\ IInv
    BY InitOnce, InitIInv
  <1>2. OneAnswerPerRequest /\ (~mistaken => IInv) /\ [Next]_vars
          => OneAnswerPerRequest' /\ (~mistaken' => IInv')
    BY StepOnce, StepIInv, MistakenStays DEF OneAnswerPerRequest
  <1> QED BY <1>1, <1>2, PTL DEF Spec

\* Every variable has its type, the sequence numbers that start over in
\* next_seqno() among them, and a request of ml_one_wire_read_temperature() is in
\* one place until its caller returns, with one answer, which is never busy,
\* whatever other processes say on the socket.
THEOREM RequestsAreAnsweredOnce == Spec => []OneAnswerPerRequest
  BY Invariance, PTL

\* The timeout that ds18b20_handle_read_temperature_timeout() handles without a
\* look at the state only comes in the state that waits for it, and the thread
\* never answers a request that is not there, as long as handle_message_done() did
\* not take a message of another process for the answer.
THEOREM TimeoutsAreExpected == Spec => []TimeoutIsExpected
  <1>1. (~mistaken => IInv) => TimeoutIsExpected
    <2> SUFFICES ASSUME IInv PROVE TimeoutIsExpected
      BY DEF TimeoutIsExpected
    <2>1. thread # "crashed" /\ (NoRequest \/ InTheQueue \/ Active \/ Answered)
      BY DEF IInv
    <2>2. CASE NoRequest \/ Answered
      BY <2>1, <2>2, CountInQueue DEF NoRequest, Answered, TimeoutIsExpected, Number
    <2>3. CASE InTheQueue
      BY <2>1, <2>3, CountInQueue DEF InTheQueue, TimeoutIsExpected, Number
    <2>4. CASE Active
      <3>1. InQueue("timeout") = Number(state = "wait_for_convert_timeout" /\ ~armed)
        BY <2>4, CountInQueue DEF Active, Number
      <3> QED BY <2>1, <2>4, <3>1 DEF Active, TimeoutIsExpected, Number
    <2> QED BY <2>1, <2>2, <2>3, <2>4
  <1> QED BY <1>1, Invariance, PTL

\* A temperature that is returned was read after the timer of a conversion for
\* this very request had expired, under the same condition.
THEOREM ReadsFollowConversions == Spec => []ConvertedBeforeRead
  <1>1. (~mistaken => IInv) => ConvertedBeforeRead
    <2> SUFFICES ASSUME IInv PROVE ConvertedBeforeRead
      BY DEF ConvertedBeforeRead
    <2>1. CASE responses = <<>>
      BY <2>1 DEF ConvertedBeforeRead
    <2>2. CASE Answered
      BY <2>2 DEF Answered, ConvertedBeforeRead
    <2> QED BY <2>1, <2>2 DEF IInv, NoRequest, InTheQueue, Active
  <1> QED BY <1>1, Invariance, PTL

=============================================================================
