------------------------------- MODULE OneWire ------------------------------
(* The one wire module of ml_one_wire.c: threads that call                   *)
(* ml_one_wire_read_temperature(), the one wire thread with its epoll loop   *)
(* over a netlink socket and a message queue, the conversion timer, and the  *)
(* kernel that answers on the socket. Other users of the netlink group are   *)
(* heard too, and the sequence number is all that tells their messages from  *)
(* the answer that is awaited.                                               *)
(*                                                                           *)
(* The queue is a FIFO, and a message in it is an event for epoll: Queue     *)
(* shows that a thread that has taken an event finds a message.              *)
EXTENDS Integers, Sequences, FiniteSets

CONSTANTS Callers,     \* threads that read a temperature
          NoCaller,
          MAX_SEQNO,   \* 1000 in the code
          Failures,    \* what may go wrong
          MaxForeign,  \* bound on the messages of others
          MaxUnderWay  \* bound on what is under way to and from the kernel at a call

ASSUME OneWireAssumption ==
  /\ NoCaller \notin Callers
  /\ MAX_SEQNO \in Nat \ {0}
  /\ Failures \subseteq {"uninitialized", "init", "send", "epoll", "silent"}
  /\ MaxForeign \in Nat
  /\ MaxUnderWay \in Nat

VARIABLES pc,          \* of each caller: "idle", "lock" or "wait"
          mutex,       \* read_temperature.mutex
          queue,       \* requests and timeouts, for the one wire thread
          responses,   \* response_queue
          thread,      \* "none", "run", "deaf", "ended" or "crashed"
          state,       \* state of the DS18B20
          seqno,       \* of the message whose answer is awaited, or -1
          cn_seqno,    \* the last sequence number used
          active,      \* response_queue_p is set
          armed,       \* the conversion timer is running
          toKernel,    \* messages sent on the socket
          netlink,     \* messages to be read from the socket
          heard,       \* the number of messages of others so far
          converted,   \* history: how far the conversion of the last request is
          mistaken,    \* history: a message of another was taken for the answer
          unanswered   \* history: the kernel did not answer a message

callerVars == <<pc, mutex>>
self == <<state, seqno, cn_seqno, active>>
history == <<converted, mistaken, unanswered>>
vars == <<callerVars, queue, responses, thread, self, armed, toKernel, netlink, heard,
          history>>

ResponseQueueLength == 2
None == -1

Commands == {"write", "read", "short_read", "error"}

\* Answers to messages of our own, and messages of others. The number -1 is the
\* one that is compared with when none is awaited.
Replies == [seq : 1 .. MAX_SEQNO, command : Commands, foreign : {FALSE}]
             \cup [seq : {None} \cup 0 .. MAX_SEQNO, command : Commands, foreign : {TRUE}]

-----------------------------------------------------------------------------
(* Callers. A crash of the one wire thread ends the process, theirs too.     *)

\* The request is allocated and the mutex is waited for. Without the bound, once
\* a message of another is taken for an answer, answers come later and later, and
\* with a number that has started over they may pass for that of a later request.
ReadCall(c) ==
  /\ pc[c] = "idle"
  /\ thread # "crashed"
  /\ mistaken => Len(toKernel) + Len(netlink) <= MaxUnderWay
  /\ pc' = [pc EXCEPT ![c] = "lock"]
  /\ UNCHANGED <<mutex, queue, responses, thread, self, armed, toKernel, netlink, heard,
                 history>>

\* With the mutex, the request is put on the queue.
ReadPut(c) ==
  /\ pc[c] = "lock"
  /\ mutex = NoCaller
  /\ thread # "crashed"
  /\ mutex' = c
  /\ queue' = Append(queue, "request")
  /\ pc' = [pc EXCEPT ![c] = "wait"]
  /\ UNCHANGED <<responses, thread, self, armed, toKernel, netlink, heard, history>>

\* The response is got, and the mutex released.
ReadReturn(c) ==
  /\ pc[c] = "wait"
  /\ responses # <<>>
  /\ thread # "crashed"
  /\ responses' = Tail(responses)
  /\ mutex' = NoCaller
  /\ pc' = [pc EXCEPT ![c] = "idle"]
  /\ UNCHANGED <<queue, thread, self, armed, toKernel, netlink, heard, history>>

-----------------------------------------------------------------------------
(* The one wire thread                                                       *)

\* The result of init() is ignored: after a failure the descriptors are not
\* part of the epoll set. The loop condition reads res before it is written.
ml_one_wire_start ==
  /\ thread = "none"
  /\ \/ thread' = "run"
     \/ "init" \in Failures /\ thread' = "deaf"
     \/ "uninitialized" \in Failures /\ thread' = "ended"
  /\ UNCHANGED <<callerVars, queue, responses, self, armed, toKernel, netlink, heard,
                 history>>

next_seqno == IF cn_seqno = MAX_SEQNO THEN 1 ELSE cn_seqno + 1

Put(res) ==
  /\ Len(responses) < ResponseQueueLength
  /\ responses' = Append(responses, [res |-> res, converted |-> converted = "done"])

\* The response is put on the queue of the request; without a request that is
\* a null pointer.
ds18b20_finalize(res, pending) ==
  /\ IF pending THEN Put(res) /\ UNCHANGED thread
                ELSE thread' = "crashed" /\ UNCHANGED responses
  /\ state' = "idle"
  /\ seqno' = None
  /\ active' = FALSE

\* Send a message and go to the state that waits for its answer, or give up.
SendAndWait(kind, next, pending) ==
  /\ cn_seqno' = next_seqno
  /\ \/ /\ toKernel' = Append(toKernel, [seq |-> next_seqno, kind |-> kind])
        /\ seqno' = next_seqno
        /\ state' = next
        /\ active' = pending
        /\ UNCHANGED <<responses, thread>>
     \/ /\ "send" \in Failures
        /\ ds18b20_finalize("error", pending)
        /\ UNCHANGED toKernel

\* Mutant: a request that cannot be sent is not answered.
ds18b20_handle_read_temperature_no_answer ==
  /\ converted' = "none"
  /\ cn_seqno' = next_seqno
  /\ \/ /\ toKernel' = Append(toKernel, [seq |-> next_seqno, kind |-> "convert"])
        /\ seqno' = next_seqno
        /\ state' = "wait_for_convert_done"
        /\ active' = TRUE
        /\ UNCHANGED <<responses, thread>>
     \/ /\ "send" \in Failures
        /\ UNCHANGED <<toKernel, seqno, state, active, responses, thread>>

\* Mutant: the conversion is not started and not waited for.
ds18b20_handle_read_temperature_at_once ==
  converted' = "none" /\ SendAndWait("read", "wait_for_read_done", TRUE)

ds18b20_handle_read_temperature ==
  IF active
    THEN Put("busy") /\ UNCHANGED <<self, thread, toKernel, converted>>
    ELSE converted' = "none" /\ SendAndWait("convert", "wait_for_convert_done", TRUE)

\* Whatever the state is, and whether or not a request is active.
ds18b20_handle_read_temperature_timeout ==
  /\ SendAndWait("read", "wait_for_read_done", active)
  /\ converted' = IF converted = "done" THEN "done" ELSE "early"

HandleQueue ==
  /\ thread = "run"
  /\ queue # <<>>
  /\ queue' = Tail(queue)
  /\ IF Head(queue) = "request" THEN ds18b20_handle_read_temperature
                                ELSE ds18b20_handle_read_temperature_timeout
  /\ UNCHANGED <<callerVars, armed, netlink, heard, mistaken, unanswered>>

\* Mutant: an error is only logged.
ds18b20_handle_read_temperature_slave_response_ok(command) ==
  CASE command = "write" /\ state = "wait_for_convert_done" ->
         /\ armed' = TRUE
         /\ converted' = "running"
         /\ state' = "wait_for_convert_timeout"
         /\ UNCHANGED <<seqno, cn_seqno, active, responses, thread>>
    [] command = "read" /\ state = "wait_for_read_done" ->
         ds18b20_finalize("ok", active) /\ UNCHANGED <<cn_seqno, armed, converted>>
    [] OTHER -> UNCHANGED <<self, armed, responses, thread, converted>>

\* An answer with the awaited sequence number. A timer that is running starts
\* over.
ds18b20_handle_read_temperature_slave_response(command) ==
  CASE command = "error" ->
         ds18b20_finalize("error", active) /\ UNCHANGED <<cn_seqno, armed, converted>>
    [] command = "write" /\ state = "wait_for_convert_done" ->
         /\ armed' = TRUE
         /\ converted' = "running"
         /\ state' = "wait_for_convert_timeout"
         /\ UNCHANGED <<seqno, cn_seqno, active, responses, thread>>
    [] command = "read" /\ state = "wait_for_read_done" ->
         ds18b20_finalize("ok", active) /\ UNCHANGED <<cn_seqno, armed, converted>>
    [] OTHER -> UNCHANGED <<self, armed, responses, thread, converted>>

\* Mutant: the sequence number is not compared.
handle_message_done_any(m) ==
  ds18b20_handle_read_temperature_slave_response(m.command)

\* Messages with another sequence number are ignored.
handle_message_done(m) ==
  IF m.seq = seqno
    THEN ds18b20_handle_read_temperature_slave_response(m.command)
    ELSE UNCHANGED <<self, armed, responses, thread, converted>>

HandleSocket ==
  /\ thread = "run"
  /\ netlink # <<>>
  /\ netlink' = Tail(netlink)
  /\ handle_message_done(Head(netlink))
  /\ mistaken' = (mistaken \/ (Head(netlink).foreign /\ Head(netlink).seq = seqno))
  /\ UNCHANGED <<callerVars, queue, toKernel, heard, unanswered>>

\* epoll_wait() or a read fails, also if only interrupted: the thread ends.
ThreadEnds ==
  /\ thread = "run"
  /\ "epoll" \in Failures
  /\ thread' = "ended"
  /\ UNCHANGED <<callerVars, queue, responses, self, armed, toKernel, netlink, heard,
                 history>>

-----------------------------------------------------------------------------
(* Timer, kernel and the others                                              *)

\* The timer may have been started for an earlier request: only that of the last
\* one, which is "running", is the end of its conversion.
Expire ==
  /\ armed
  /\ thread # "crashed"
  /\ armed' = FALSE
  /\ queue' = Append(queue, "timeout")
  /\ converted' = IF converted = "running" THEN "done" ELSE converted
  /\ UNCHANGED <<callerVars, responses, thread, self, toKernel, netlink, heard, mistaken,
                 unanswered>>

\* The kernel reports the outcome of each command of a message. It may go on
\* after an error.
Answers(kind) ==
  CASE kind = "convert" -> {<<"write">>, <<"error">>}
    [] kind = "read"    -> {<<"write", "read">>, <<"error">>, <<"write", "error">>,
                            <<"error", "read">>}

Answer ==
  /\ toKernel # <<>>
  /\ toKernel' = Tail(toKernel)
  /\ \E a \in Answers(Head(toKernel).kind) :
       netlink' = netlink \o [i \in 1 .. Len(a) |->
                                [seq |-> Head(toKernel).seq, command |-> a[i],
                                 foreign |-> FALSE]]
  /\ UNCHANGED <<callerVars, queue, responses, thread, self, armed, heard, history>>

\* No answer, or one of the wrong length, which is ignored.
NoAnswer ==
  /\ toKernel # <<>>
  /\ "silent" \in Failures
  /\ toKernel' = Tail(toKernel)
  /\ \/ UNCHANGED netlink
     \/ netlink' = Append(netlink, [seq |-> Head(toKernel).seq, command |-> "short_read",
                                    foreign |-> FALSE])
  /\ unanswered' = TRUE
  /\ UNCHANGED <<callerVars, queue, responses, thread, self, armed, heard, converted,
                 mistaken>>

\* What another process sends or is sent: its numbers may be those of ours.
Foreign ==
  /\ heard < MaxForeign
  /\ heard' = heard + 1
  /\ \E s \in {None} \cup 0 .. MAX_SEQNO, c \in Commands :
       netlink' = Append(netlink, [seq |-> s, command |-> c, foreign |-> TRUE])
  /\ UNCHANGED <<callerVars, queue, responses, thread, self, armed, toKernel, history>>

-----------------------------------------------------------------------------
\* ml_one_wire_init()
Init ==
  /\ pc = [c \in Callers |-> "idle"]
  /\ mutex = NoCaller
  /\ queue = <<>>
  /\ responses = <<>>
  /\ thread = "none"
  /\ state = "idle"
  /\ seqno = None
  /\ cn_seqno = 0
  /\ active = FALSE
  /\ armed = FALSE
  /\ toKernel = <<>>
  /\ netlink = <<>>
  /\ heard = 0
  /\ converted = "none"
  /\ mistaken = FALSE
  /\ unanswered = FALSE

Next ==
  \/ \E c \in Callers : ReadCall(c) \/ ReadPut(c) \/ ReadReturn(c)
  \/ ml_one_wire_start \/ HandleQueue \/ HandleSocket \/ ThreadEnds
  \/ Expire \/ Answer \/ NoAnswer \/ Foreign

Spec == Init /\ [][Next]_vars

(* All threads are scheduled, epoll_wait() does not neglect one of the two   *)
(* descriptors, the timer expires and the kernel answers. Nobody has to read *)
(* a temperature; that a caller gets the mutex is not assumed.               *)
Fairness ==
  /\ \A c \in Callers : WF_vars(ReadPut(c)) /\ WF_vars(ReadReturn(c))
  /\ WF_vars(ml_one_wire_start)
  /\ WF_vars(HandleQueue) /\ WF_vars(HandleSocket)
  /\ WF_vars(Expire) /\ WF_vars(Answer)

FairSpec == Spec /\ Fairness

-----------------------------------------------------------------------------
States == {"idle", "wait_for_convert_done", "wait_for_convert_timeout", "wait_for_read_done"}

\* Every variable has its type. The sequence numbers stay positive and within
\* their range, also when next_seqno() starts over.
TypeOK ==
  /\ pc \in [Callers -> {"idle", "lock", "wait"}]
  /\ mutex \in Callers \cup {NoCaller}
  /\ queue \in Seq({"request", "timeout"})
  /\ responses \in Seq([res : {"ok", "error", "busy"}, converted : BOOLEAN])
  /\ thread \in {"none", "run", "deaf", "ended", "crashed"}
  /\ state \in States
  /\ seqno \in 1 .. MAX_SEQNO \cup {None}
  /\ cn_seqno \in 0 .. MAX_SEQNO
  /\ active \in BOOLEAN
  /\ armed \in BOOLEAN
  /\ toKernel \in Seq([seq : 1 .. MAX_SEQNO, kind : {"convert", "read"}])
  /\ netlink \in Seq(Replies)
  /\ heard \in 0 .. MaxForeign
  /\ converted \in {"none", "running", "done", "early"}
  /\ mistaken \in BOOLEAN
  /\ unanswered \in BOOLEAN

Number(S) == IF S THEN 1 ELSE 0
InQueue(m) == Cardinality({i \in 1 .. Len(queue) : queue[i] = m})

\* A request is in one place until it is answered: in the queue, active, or
\* answered and not yet returned. So there is a response for every caller that
\* waits, none is left over for a later one, and none is told to be busy
\* although callers compete for the one request that can be active. That holds
\* whatever others say on the socket. With the types of the variables, the
\* sequence numbers that start over among them.
OneAnswerPerRequest ==
  /\ TypeOK
  /\ InQueue("request") + Number(active) + Len(responses) = Number(mutex # NoCaller)
  /\ \A c \in Callers : pc[c] = "wait" <=> mutex = c
  /\ \A i \in 1 .. Len(responses) : responses[i].res # "busy"

\* The timeout, which is handled without asking ml_timer_is_message_valid() and
\* whatever the state is, only comes in the state that waits for it, once, and the
\* thread only answers a request that is there. The exception is a message of
\* another process with the awaited number: handle_message_done() takes it for the
\* answer. An error, while the timer runs, then ends the request and leaves the
\* timer armed, and in the idle state the number -1 is enough for a crash.
TimeoutIsExpected ==
  ~mistaken =>
    /\ Number(armed) + InQueue("timeout") = Number(state = "wait_for_convert_timeout")
    /\ active <=> state # "idle"
    /\ thread # "crashed"

\* A temperature is the result of a conversion of the same request that was waited
\* for: it is read when the timer that was started for it has expired, also if an
\* earlier read failed half way. The exception is the same: the timeout of a
\* request that another process ended reads for the next request at once.
ConvertedBeforeRead ==
  ~mistaken =>
    \A i \in 1 .. Len(responses) : responses[i].res = "ok" => responses[i].converted

\* A caller that waits for a temperature gets an answer, whatever others say,
\* unless the one wire thread is not there or the kernel does not answer.
ReadReturns ==
  \A c \in Callers :
    pc[c] = "wait" ~>
      pc[c] # "wait" \/ thread \in {"deaf", "ended", "crashed"} \/ unanswered

=============================================================================
