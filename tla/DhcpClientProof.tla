-------------------------- MODULE DhcpClientProof ---------------------------
(* Proofs about DhcpClient, for every set of addresses and leases, every     *)
(* width of int and every combination of failing system calls: the client    *)
(* never waits in a state that no timer leads out of, no timer of an earlier *)
(* state is taken for a timeout of a later one, and the socket is the one    *)
(* that the state needs; NeverStuck and NoStaleTimeout name the exceptions.  *)
(*                                                                           *)
(* None of the three is inductive: between poll() and process_events() a     *)
(* timer that made poll() return is read and off, and only the expired flags *)
(* of the struct still know of it. The invariant follows a timer from the    *)
(* descriptor into the flag, and knows that the two times of an offer are    *)
(* set in an int together or the longer alone.                               *)
EXTENDS DhcpClient, TLAPS

TimerStates == {"off", "armed", "expired", "closed"}
MaybeAddresses == Addresses \cup {NoAddress}

\* The struct of the client.
Client ==
  [state : States, packet_type : {"none", "offer", "ack", "nak"},
   expired : SUBSET TimerNames, timer : [TimerNames -> TimerStates],
   socket : {"packet", "udp", "closed"}, ip_address : MaybeAddresses,
   renewal_interval : Int, rebinding_time : Int,
   interval : Int, set : SUBSET LeaseTimers, open : BOOLEAN]

\* Messages to the servers.
Requests == [type : {"discover", "request"}, address : MaybeAddresses]

Typed ==
  /\ client \in Client
  /\ thread \in {"none", "poll", "process", "done"}
  /\ app \in {"idle", "started", "stopped", "joined"}
  /\ toServer \subseteq Requests
  /\ toClient \subseteq Packets
  /\ iface \in MaybeAddresses
  /\ requested \in MaybeAddresses

\* The timers that are armed or wait to be read.
PendingOf(c) == {n \in TimerNames : c.timer[n] \in {"armed", "expired"}}

\* No descriptor of a timer is closed.
OpenTimers(c) == \A n \in TimerNames : c.timer[n] # "closed"

\* One of the timers T leads out of the state of c.
LeadsOut(c, T) ==
  /\ c.state = "init" => "INIT" \in T
  /\ c.state \in {"selecting", "requesting", "renewing"} => "RESP" \in T
  /\ c.state = "bound" /\ c.interval >= 1 => "RENEW" \in T

\* None of the timers T belongs to an earlier state, but for RENEW without a
\* socket.
Fresh(c, T) ==
  /\ "RESP" \in T => c.state \in {"selecting", "requesting", "renewing"}
  /\ "REBIND" \in T => c.state \in {"bound", "renewing"}
  /\ "INIT" \in T => c.state = "init"
  /\ "RENEW" \in T => c.state = "bound" \/ ~c.open
  /\ c.state \in {"bound", "renewing"} /\ c.interval >= 0 => T \cap LeaseTimers \subseteq c.set

SocketFits(c) ==
  /\ c.state \in {"bound", "renewing"} => c.socket = "udp"
  /\ c.state \in {"selecting", "requesting"} => c.socket = "packet"
  /\ c.state = "init" => c.socket \in {"packet", "closed"}

\* If the renewal interval can be set, so can the rebinding time.
TimesFit(c) == c.renewal_interval >= 0 => c.rebinding_time >= 0

\* A client that waits in poll().
Waits(c) == LeadsOut(c, PendingOf(c)) /\ Fresh(c, PendingOf(c))

\* A client that has read its timers and has not processed them yet.
HasRead(c) ==
  /\ c.expired \cap PendingOf(c) = {}
  /\ LeadsOut(c, c.expired \cup PendingOf(c))
  /\ Fresh(c, c.expired \cup PendingOf(c))

Running(c) == OpenTimers(c) /\ SocketFits(c)

IInv ==
  /\ Typed
  /\ app = "idle" => client.state = "init" /\ thread = "none"
  /\ TimesFit(client)
  /\ app = "started" =>
       /\ Running(client)
       /\ thread = "poll" => Waits(client)
       /\ thread = "process" => HasRead(client)

-----------------------------------------------------------------------------
(* The operators on the struct                                               *)

\* Two structs that differ in their state, timers and socket at most.
SameData(c, d) ==
  /\ d.packet_type = c.packet_type
  /\ d.expired = c.expired
  /\ d.ip_address = c.ip_address
  /\ d.renewal_interval = c.renewal_interval
  /\ d.rebinding_time = c.rebinding_time

\* Two structs of the same lease.
SameLease(c, d) == d.interval = c.interval /\ d.open = c.open

\* What set_timer() does to c.
TimerSet(c, d, name, s) ==
  /\ d \in Client
  /\ SameData(c, d)
  /\ SameLease(c, d)
  /\ d.state = c.state
  /\ d.socket = c.socket
  /\ d.set = IF c.timer[name] = "closed" \/ s < 0 THEN c.set
             ELSE c.set \cup ({name} \cap LeaseTimers)
  /\ \A n \in TimerNames \ {name} : d.timer[n] = c.timer[n]
  /\ d.timer[name] = IF c.timer[name] = "closed" \/ s < 0 THEN c.timer[name]
                     ELSE IF s = 0 THEN "off" ELSE "armed"

\* set_timer() changes the one timer, and leaves it closed if it is.
LEMMA SetTimer ==
  ASSUME NEW c \in Client, NEW name \in TimerNames, NEW s
  PROVE  TimerSet(c, set_timer(c, name, s), name, s)
  <1> USE DEF Client, TimerStates, TimerSet, SameData, SameLease
  <1>1. CASE c.timer[name] = "closed" \/ s < 0
    BY <1>1 DEF set_timer
  <1>2. CASE ~(c.timer[name] = "closed" \/ s < 0)
    BY <1>2 DEF set_timer
  <1> QED BY <1>1, <1>2

\* The timers stay open.
LEMMA StillOpen ==
  ASSUME NEW c, NEW d, NEW name \in TimerNames, NEW s,
         TimerSet(c, d, name, s), OpenTimers(c)
  PROVE  OpenTimers(d)
  BY DEF TimerSet, OpenTimers

\* What enter_init() leaves: the init timer is armed if the timers are open,
\* the response and the rebinding timer are not, and there is a packet socket
\* or none.
LEMMA EnterInit ==
  ASSUME NEW c \in Client, NEW ok
  PROVE  LET d == enter_init(c, ok)
         IN  /\ d \in Client
             /\ SameData(c, d) /\ SameLease(c, d)
             /\ d.state = "init"
             /\ d.socket \in {"packet", "closed"}
             /\ d.timer["RENEW"] = c.timer["RENEW"]
             /\ OpenTimers(c) => /\ OpenTimers(d)
                                 /\ d.timer["INIT"] = "armed"
                                 /\ d.timer["RESP"] = "off"
                                 /\ d.timer["REBIND"] = "off"
  <1> DEFINE c1 == cancel_response_timer(c)
             c2 == cancel_rebinding_timer(c1)
             c3 == set_init_timer(c2)
             c4 == change_state(setup_packet_socket(c3, ok), "init")
  <1>1. TimerSet(c, c1, "RESP", 0) /\ c1 \in Client
    <2>1. TimerSet(c, set_timer(c, "RESP", 0), "RESP", 0)
      BY SetTimer DEF TimerNames
    <2> QED BY <2>1 DEF cancel_response_timer, TimerSet
  <1> HIDE DEF c1
  <1>2. TimerSet(c1, c2, "REBIND", 0) /\ c2 \in Client
    <2>1. TimerSet(c1, set_timer(c1, "REBIND", 0), "REBIND", 0)
      BY <1>1, SetTimer DEF TimerNames
    <2> QED BY <2>1 DEF cancel_rebinding_timer, TimerSet
  <1> HIDE DEF c2
  <1>3. TimerSet(c2, c3, "INIT", 10) /\ c3 \in Client
    <2>1. TimerSet(c2, set_timer(c2, "INIT", 10), "INIT", 10)
      BY <1>2, SetTimer DEF TimerNames
    <2> QED BY <2>1 DEF set_init_timer, TimerSet
  <1> HIDE DEF c3
  <1>4. /\ c4 \in Client /\ SameData(c3, c4) /\ SameLease(c3, c4)
        /\ c4.state = "init" /\ c4.socket \in {"packet", "closed"}
        /\ c4.timer = c3.timer
    BY <1>3 DEF setup_packet_socket, change_state, Client, States, SameData, SameLease
  <1> HIDE DEF c4
  <1>5. enter_init(c, ok) = c4
    BY DEF enter_init, c1, c2, c3, c4
  <1>6. SameData(c, c4) /\ SameLease(c, c4) /\ c4.timer["RENEW"] = c.timer["RENEW"]
    BY <1>1, <1>2, <1>3, <1>4 DEF TimerSet, SameData, SameLease, TimerNames
  <1>7. ASSUME OpenTimers(c)
        PROVE  /\ OpenTimers(c4)
               /\ c4.timer["INIT"] = "armed"
               /\ c4.timer["RESP"] = "off"
               /\ c4.timer["REBIND"] = "off"
    BY <1>1, <1>2, <1>3, <1>4, <1>7 DEF OpenTimers, TimerSet, TimerNames
  <1> QED BY <1>4, <1>5, <1>6, <1>7

\* What enter_bound() leaves: with an IP socket, the bound state, the renewal
\* timer armed if there is an interval and no response timer; without one, what
\* enter_init() leaves. Both timers of the lease are set if the times fit.
LEMMA EnterBound ==
  ASSUME NEW c \in Client, NEW ok
  PROVE  LET d == enter_bound(c, ok)
         IN  /\ d \in Client
             /\ SameData(c, d)
             /\ d.interval = c.renewal_interval
             /\ d.state \in {"bound", "init"}
             /\ d.state = "init" => ~d.open
             /\ d.state = "bound" => d.socket = "udp"
             /\ d.state = "init" => d.socket \in {"packet", "closed"}
             /\ OpenTimers(c) =>
                  /\ OpenTimers(d)
                  /\ d.timer["RESP"] = "off"
                  /\ d.state = "bound" =>
                       /\ c.renewal_interval >= 1 => d.timer["RENEW"] = "armed"
                       /\ c.renewal_interval >= 0 /\ TimesFit(c) => LeaseTimers \subseteq d.set
                       /\ d.timer["INIT"] = c.timer["INIT"]
                  /\ d.state = "init" =>
                       d.timer["INIT"] = "armed" /\ d.timer["REBIND"] = "off"
  <1> DEFINE c0 == NewLease(c, ok)
             c1 == cancel_response_timer(c0)
             c2 == set_renewal_timer(c1)
             c3 == set_rebinding_timer(c2)
             c4 == change_state([c3 EXCEPT !.socket = "udp"], "bound")
             c5 == change_state([c3 EXCEPT !.socket = "closed"], "bound")
  <1>0. /\ c0 \in Client /\ SameData(c, c0) /\ c0.timer = c.timer
        /\ c0.interval = c.renewal_interval /\ ("udp_socket" \notin ok => c0.open = FALSE)
    <2>1. CASE "udp_socket" \in ok
      <3>1. c0 = [c EXCEPT !.interval = c.renewal_interval, !.set = {}, !.open = TRUE]
        BY <2>1 DEF NewLease
      <3> QED BY <2>1, <3>1 DEF Client, SameData
    <2>2. CASE "udp_socket" \notin ok
      <3>1. c0 = [c EXCEPT !.interval = c.renewal_interval, !.set = {}, !.open = FALSE]
        <4>1. ("udp_socket" \in ok) = FALSE
          BY <2>2
        <4> QED BY <4>1, Zenon DEF NewLease
      <3> QED BY <2>2, <3>1 DEF Client, SameData
    <2> QED BY <2>1, <2>2
  <1> HIDE DEF c0
  <1>1. TimerSet(c0, c1, "RESP", 0) /\ c1 \in Client
    <2>1. TimerSet(c0, set_timer(c0, "RESP", 0), "RESP", 0)
      BY <1>0, SetTimer DEF TimerNames
    <2> QED BY <2>1 DEF cancel_response_timer, TimerSet
  <1> HIDE DEF c1
  <1>2. TimerSet(c1, c2, "RENEW", c1.renewal_interval) /\ c2 \in Client
    <2>1. TimerSet(c1, set_timer(c1, "RENEW", c1.renewal_interval), "RENEW", c1.renewal_interval)
      BY <1>1, SetTimer DEF TimerNames
    <2> QED BY <2>1 DEF set_renewal_timer, TimerSet
  <1> HIDE DEF c2
  <1>3. TimerSet(c2, c3, "REBIND", c2.rebinding_time) /\ c3 \in Client
    <2>1. TimerSet(c2, set_timer(c2, "REBIND", c2.rebinding_time), "REBIND", c2.rebinding_time)
      BY <1>2, SetTimer DEF TimerNames
    <2> QED BY <2>1 DEF set_rebinding_timer, TimerSet
  <1> HIDE DEF c3
  <1>4. /\ c4 \in Client /\ SameData(c3, c4) /\ SameLease(c3, c4) /\ c4.set = c3.set
        /\ c4.state = "bound" /\ c4.socket = "udp" /\ c4.timer = c3.timer
        /\ c5 \in Client /\ SameData(c3, c5) /\ SameLease(c3, c5) /\ c5.timer = c3.timer
    BY <1>3 DEF change_state, Client, States, SameData, SameLease
  <1> HIDE DEF c4, c5
  <1>5. /\ SameData(c, c4) /\ SameData(c, c5)
        /\ c4.interval = c.renewal_interval /\ c5.interval = c.renewal_interval
        /\ "udp_socket" \notin ok => c5.open = FALSE
    BY <1>0, <1>1, <1>2, <1>3, <1>4 DEF TimerSet, SameData, SameLease
  <1>6. enter_bound(c, ok) = IF "udp_socket" \in ok THEN c4 ELSE enter_init(c5, ok)
    BY DEF enter_bound, c0, c1, c2, c3, c4, c5
  <1>7. ASSUME OpenTimers(c)
        PROVE  /\ OpenTimers(c4) /\ OpenTimers(c5)
               /\ c4.timer["RESP"] = "off"
               /\ c.renewal_interval >= 1 => c4.timer["RENEW"] = "armed"
               /\ c.renewal_interval >= 0 /\ TimesFit(c) => LeaseTimers \subseteq c4.set
               /\ c4.timer["INIT"] = c.timer["INIT"]
    <2>1. OpenTimers(c0) /\ OpenTimers(c1) /\ OpenTimers(c2) /\ OpenTimers(c3)
      <3>1. OpenTimers(c0)
        BY <1>0, <1>7 DEF OpenTimers
      <3> QED BY <1>1, <1>2, <1>3, <3>1, StillOpen DEF TimerNames
    <2>2. c1.timer["RESP"] = "off" /\ c1.timer["INIT"] = c.timer["INIT"]
      BY <1>0, <1>1, <2>1 DEF TimerSet, TimerNames, OpenTimers
    <2>3. /\ c.renewal_interval \in Int /\ c1.renewal_interval = c.renewal_interval
          /\ c.rebinding_time \in Int /\ c2.rebinding_time = c.rebinding_time
      BY <1>0, <1>1, <1>2 DEF TimerSet, SameData, Client
    <2>4. /\ c2.timer["RESP"] = "off" /\ c2.timer["INIT"] = c.timer["INIT"]
          /\ c.renewal_interval >= 1 => c2.timer["RENEW"] = "armed"
      BY <1>2, <2>1, <2>2, <2>3 DEF TimerSet, TimerNames, OpenTimers
    <2>5. ASSUME c.renewal_interval >= 0, TimesFit(c)
          PROVE  LeaseTimers \subseteq c3.set
      <3>1. "RENEW" \in c2.set
        BY <1>2, <2>1, <2>3, <2>5 DEF TimerSet, TimerNames, LeaseTimers, OpenTimers
      <3>2. c2.rebinding_time >= 0
        BY <2>3, <2>5 DEF TimesFit
      <3>3. ~(c2.rebinding_time < 0)
        BY <2>3, <3>2
      <3>4. c3.set = c2.set \cup ({"REBIND"} \cap LeaseTimers)
        BY <1>3, <2>1, <3>3 DEF TimerSet, TimerNames, OpenTimers
      <3> QED BY <3>1, <3>4 DEF LeaseTimers
    <2> QED BY <1>3, <1>4, <2>1, <2>4, <2>5 DEF TimerSet, TimerNames, OpenTimers
  <1>8. CASE "udp_socket" \in ok
    <2>1. enter_bound(c, ok) = c4
      BY <1>6, <1>8
    <2> QED BY <1>4, <1>5, <1>7, <2>1
  <1>9. CASE "udp_socket" \notin ok
    <2>1. enter_bound(c, ok) = enter_init(c5, ok)
      BY <1>6, <1>9
    <2>2. /\ SameData(c, enter_init(c5, ok))
          /\ enter_init(c5, ok).interval = c.renewal_interval /\ ~enter_init(c5, ok).open
      BY <1>4, <1>5, <1>9, EnterInit DEF SameData, SameLease
    <2> QED BY <1>4, <1>7, <2>1, <2>2, EnterInit
  <1> QED BY <1>8, <1>9

\* A packet that is sent arms the response timer, and nothing else.
LEMMA SentTimer ==
  ASSUME NEW c \in Client, NEW ok
  PROVE  /\ Sent(c, ok) \in Client
         /\ SameData(c, Sent(c, ok)) /\ SameLease(c, Sent(c, ok))
         /\ Sent(c, ok).set = c.set
         /\ Sent(c, ok).state = c.state
         /\ Sent(c, ok).socket = c.socket
         /\ \A n \in TimerNames \ {"RESP"} : Sent(c, ok).timer[n] = c.timer[n]
         /\ OpenTimers(c) => /\ OpenTimers(Sent(c, ok))
                             /\ SendOk(c, ok) => Sent(c, ok).timer["RESP"] = "armed"
                             /\ ~SendOk(c, ok) => Sent(c, ok) = c
  <1>1. TimerSet(c, set_timer(c, "RESP", 5), "RESP", 5)
    BY SetTimer DEF TimerNames
  <1>2. CASE CanSend(c, ok)
    BY <1>1, <1>2, StillOpen
    DEF Sent, SendOk, set_response_timer, TimerSet, OpenTimers, TimerNames, LeaseTimers
  <1>3. CASE ~CanSend(c, ok)
    BY <1>3 DEF Sent, SendOk, SameData, SameLease
  <1> QED BY <1>2, <1>3

\* The interval that a lease is stored as is an integer.
LEMMA Interval ==
  ASSUME NEW l \in Leases
  PROVE  Half(ToInt(l)) \in Int
  BY DhcpAssumption DEF Half, ToInt

\* What update_events() does: it moves the expired timers to the flags, and
\* stores the offer, if there is one.
LEMMA UpdateEvents ==
  ASSUME NEW c \in Client, NEW p \in Packets \cup {NoPacket}
  PROVE  LET d == update_events(c, p)
         IN  /\ d \in Client
             /\ d.state = c.state
             /\ d.socket = c.socket
             /\ d.expired = ExpiredTimers(c)
             /\ d.timer = [n \in TimerNames |->
                             IF c.timer[n] = "expired" THEN "off" ELSE c.timer[n]]
             /\ SameLease(c, d) /\ d.set = c.set
             /\ TimesFit(c) => TimesFit(d)
  <1> DEFINE c1 == [c EXCEPT !.packet_type = "none"]
             c2 == unpack_packet(c1, p)
             t == [n \in TimerNames |-> IF c.timer[n] = "expired" THEN "off" ELSE c.timer[n]]
             d == update_events(c, p)
  <1>1. /\ c1 \in Client /\ c1.packet_type = "none" /\ c1.state = c.state
        /\ c1.socket = c.socket /\ c1.renewal_interval = c.renewal_interval
        /\ c1.rebinding_time = c.rebinding_time
        /\ SameLease(c, c1) /\ c1.set = c.set
    BY DEF Client, SameLease
  <1> HIDE DEF c1
  <1>2. /\ c2 \in Client
        /\ c2.state = c.state
        /\ c2.socket = c.socket
        /\ SameLease(c, c2) /\ c2.set = c.set
        /\ TimesFit(c) => TimesFit(c2)
    <2>1. CASE p.type = "offer"
      <3>1. p.lease \in Leases /\ p.address \in MaybeAddresses
        BY <2>1 DEF Packets, NoPacket, MaybeAddresses
      <3>2. Half(ToInt(p.lease)) \in Int /\ Half(ToInt(p.lease)) + 10 \in Int
        BY <3>1, Interval
      <3>3. CASE p.lease < 1
        BY <1>1, <2>1, <3>3 DEF unpack_packet, unpack_message_type_offer, TimesFit
      <3>4. CASE ~(p.lease < 1)
        <4>1. c2 = [c1 EXCEPT !.ip_address = p.address,
                              !.renewal_interval = Half(ToInt(p.lease)),
                              !.rebinding_time = Half(ToInt(p.lease)) + 10,
                              !.packet_type = "offer"]
          BY <2>1, <3>4 DEF unpack_packet, unpack_message_type_offer
        <4>2. /\ c2 \in Client /\ c2.state = c1.state /\ c2.socket = c1.socket
              /\ SameLease(c1, c2) /\ c2.set = c1.set
              /\ c2.renewal_interval = Half(ToInt(p.lease))
              /\ c2.rebinding_time = Half(ToInt(p.lease)) + 10
          BY <1>1, <3>1, <3>2, <4>1 DEF Client, SameLease
        <4>3. TimesFit(c2)
          BY <3>2, <4>2 DEF TimesFit
        <4> QED BY <1>1, <4>2, <4>3 DEF SameLease
      <3> QED BY <3>3, <3>4
    <2>2. CASE p.type \in {"ack", "nak"}
      <3>1. c2 = [c1 EXCEPT !.packet_type = p.type]
        BY <2>2 DEF unpack_packet
      <3> QED BY <1>1, <2>2, <3>1 DEF Client, SameLease, TimesFit
    <2>3. CASE p.type \notin {"offer", "ack", "nak"}
      BY <1>1, <2>3 DEF unpack_packet, TimesFit
    <2> QED BY <2>1, <2>2, <2>3
  <1> HIDE DEF c2
  <1>3. t \in [TimerNames -> TimerStates] /\ ExpiredTimers(c) \in SUBSET TimerNames
    BY DEF Client, TimerStates, ExpiredTimers
  <1> HIDE DEF t
  <1>4. d = [c2 EXCEPT !.expired = ExpiredTimers(c), !.timer = t]
    BY DEF update_events, c1, c2, t
  <1> HIDE DEF d
  <1>5. /\ d \in Client
        /\ d.state = c2.state /\ d.socket = c2.socket
        /\ d.expired = ExpiredTimers(c) /\ d.timer = t
        /\ d.rebinding_time = c2.rebinding_time /\ d.renewal_interval = c2.renewal_interval
        /\ SameLease(c2, d) /\ d.set = c2.set
    BY <1>2, <1>3, <1>4 DEF Client, SameLease
  <1>6. /\ d \in Client
        /\ d.state = c.state
        /\ d.socket = c.socket
        /\ d.expired = ExpiredTimers(c)
        /\ d.timer = t
        /\ SameLease(c, d) /\ d.set = c.set
        /\ TimesFit(c) => TimesFit(d)
    BY <1>2, <1>5 DEF SameLease, TimesFit
  <1> QED BY <1>6, Zenon DEF d, t

-----------------------------------------------------------------------------
(* process_events(), one lemma per state                                     *)

\* What every state of process_events() owes.
Processed(c, d) ==
  /\ d \in Client
  /\ TimesFit(c) => TimesFit(d)
  /\ Running(c) /\ HasRead(c) /\ TimesFit(c) => Running(d) /\ Waits(d)

\* The init state: a discover is sent, or tried again later.
LEMMA ProcessInit ==
  ASSUME NEW c \in Client, NEW ok, c.state = "init"
  PROVE  Processed(c, process_events_init(c, ok))
  <1> USE DEF Processed
  <1>1. CASE "INIT" \notin c.expired
    BY <1>1 DEF process_events_init, Running, HasRead, Waits, LeadsOut, Fresh
  <1>2. CASE "INIT" \in c.expired /\ SendOk(c, ok)
    <2> DEFINE d == change_state(Sent(c, ok), "selecting")
    <2>1. /\ d \in Client /\ SameData(c, d) /\ d.state = "selecting" /\ d.socket = c.socket
          /\ SameLease(c, d)
          /\ d.timer = Sent(c, ok).timer
      BY SentTimer DEF change_state, Client, SameData, SameLease, States
    <2>2. process_events_init(c, ok) = d
      BY <1>2 DEF process_events_init
    <2> HIDE DEF d
    <2>3. TimesFit(c) => TimesFit(d)
      BY <2>1 DEF TimesFit, SameData
    <2>4. ASSUME Running(c), HasRead(c)
          PROVE  Running(d) /\ Waits(d)
      <3>1. OpenTimers(d)
        BY <2>1, <2>4, SentTimer DEF Running, OpenTimers
      <3>2. SocketFits(d)
        BY <1>2, <2>1, <2>4 DEF Running, SocketFits, SendOk, CanSend
      <3>3. d.timer["RESP"] = "armed" /\ d.timer["INIT"] = c.timer["INIT"]
                /\ d.timer["REBIND"] = c.timer["REBIND"] /\ d.timer["RENEW"] = c.timer["RENEW"]
        BY <1>2, <2>1, <2>4, SentTimer DEF Running, TimerNames
      <3> QED BY <1>2, <2>1, <2>4, <3>1, <3>2, <3>3
              DEF Running, HasRead, Waits, LeadsOut, Fresh, PendingOf, TimerNames, SameLease
    <2> QED BY <2>1, <2>2, <2>3, <2>4
  <1>3. CASE "INIT" \in c.expired /\ ~SendOk(c, ok)
    <2> DEFINE b == Sent(c, ok)
               d == set_init_timer(b)
    <2>1. /\ b \in Client /\ SameData(c, b) /\ b.state = c.state /\ b.socket = c.socket
          /\ OpenTimers(c) => b = c
      BY <1>3, SentTimer
    <2>2. process_events_init(c, ok) = d
      BY <1>3 DEF process_events_init
    <2> HIDE DEF b
    <2>3. TimerSet(b, d, "INIT", 10)
      <3>1. TimerSet(b, set_timer(b, "INIT", 10), "INIT", 10)
        BY <2>1, SetTimer DEF TimerNames
      <3> QED BY <3>1 DEF set_init_timer
    <2> HIDE DEF d
    <2>4. d \in Client /\ (TimesFit(c) => TimesFit(d))
      BY <2>1, <2>3 DEF TimesFit, SameData, TimerSet
    <2>5. ASSUME Running(c), HasRead(c)
          PROVE  Running(d) /\ Waits(d)
      <3>1. b = c /\ OpenTimers(d)
        BY <2>1, <2>3, <2>5, StillOpen DEF Running, TimerNames
      <3>2. d.timer["INIT"] = "armed" /\ d.timer["RESP"] = c.timer["RESP"]
                /\ d.timer["REBIND"] = c.timer["REBIND"] /\ d.timer["RENEW"] = c.timer["RENEW"]
                /\ d.state = c.state /\ d.socket = c.socket /\ SameLease(c, d)
        BY <2>3, <2>5, <3>1 DEF Running, TimerSet, OpenTimers, TimerNames
      <3> QED BY <2>5, <3>1, <3>2
              DEF Running, HasRead, Waits, LeadsOut, Fresh, PendingOf, TimerNames, SocketFits,
                  SameLease
    <2> QED BY <2>2, <2>4, <2>5
  <1> QED BY <1>1, <1>2, <1>3

\* enter_init() ends well wherever it comes from: from the bound state it comes
\* when RENEW has expired.
LEMMA BackToInit ==
  ASSUME NEW c \in Client, NEW b \in Client, NEW ok,
         SameData(c, b), SameLease(c, b), OpenTimers(c) => OpenTimers(b),
         b.timer["RENEW"] = c.timer["RENEW"],
         c.state = "bound" => "RENEW" \in c.expired
  PROVE  Processed(c, enter_init(b, ok))
  <1> DEFINE d == enter_init(b, ok)
  <1>1. /\ d \in Client /\ SameData(c, d) /\ d.state = "init" /\ d.socket \in {"packet", "closed"}
        /\ SameLease(c, d) /\ d.timer["RENEW"] = c.timer["RENEW"]
    BY EnterInit DEF SameData, SameLease
  <1>2. OpenTimers(c) => /\ OpenTimers(d)
                         /\ d.timer["INIT"] = "armed"
                         /\ d.timer["RESP"] = "off"
                         /\ d.timer["REBIND"] = "off"
    BY EnterInit
  <1> HIDE DEF d
  <1>3. TimesFit(c) => TimesFit(d)
    BY <1>1 DEF TimesFit, SameData
  <1>4. ASSUME Running(c), HasRead(c)
        PROVE  Running(d) /\ Waits(d)
    <2>1. "RENEW" \in PendingOf(d) => ~d.open
      <3>1. "RENEW" \in PendingOf(d) => "RENEW" \in PendingOf(c)
        BY <1>1 DEF PendingOf
      <3>2. "RENEW" \in PendingOf(c) => c.state # "bound"
        BY <1>4 DEF HasRead
      <3> QED BY <1>1, <1>4, <3>1, <3>2 DEF HasRead, Fresh, SameLease
    <2> QED BY <1>1, <1>2, <1>4, <2>1
            DEF Running, SocketFits, Waits, LeadsOut, Fresh, PendingOf, TimerNames
  <1> QED BY <1>1, <1>3, <1>4 DEF Processed, d

\* enter_bound() ends well from a state that awaits an acknowledgement.
LEMMA IntoBound ==
  ASSUME NEW c \in Client, NEW ok, c.state \in {"requesting", "renewing"}
  PROVE  Processed(c, enter_bound(c, ok))
  <1> DEFINE d == enter_bound(c, ok)
  <1>1. /\ d \in Client /\ SameData(c, d)
        /\ d.interval = c.renewal_interval
        /\ d.state \in {"bound", "init"}
        /\ d.state = "init" => ~d.open
        /\ d.state = "bound" => d.socket = "udp"
        /\ d.state = "init" => d.socket \in {"packet", "closed"}
    BY EnterBound
  <1>2. OpenTimers(c) =>
          /\ OpenTimers(d)
          /\ d.timer["RESP"] = "off"
          /\ d.state = "bound" =>
               /\ c.renewal_interval >= 1 => d.timer["RENEW"] = "armed"
               /\ c.renewal_interval >= 0 /\ TimesFit(c) => LeaseTimers \subseteq d.set
               /\ d.timer["INIT"] = c.timer["INIT"]
          /\ d.state = "init" => d.timer["INIT"] = "armed" /\ d.timer["REBIND"] = "off"
    BY EnterBound
  <1> HIDE DEF d
  <1>3. TimesFit(c) => TimesFit(d)
    BY <1>1 DEF TimesFit, SameData
  <1>4. ASSUME Running(c), HasRead(c), TimesFit(c)
        PROVE  Running(d) /\ Waits(d)
    <2>1. Running(d)
      BY <1>1, <1>2, <1>4 DEF Running, SocketFits
    <2>2. LeadsOut(d, PendingOf(d))
      BY <1>1, <1>2, <1>4 DEF Running, LeadsOut, PendingOf, TimerNames, TimesFit
    <2>3. "INIT" \notin PendingOf(c)
      BY <1>4 DEF HasRead, Fresh
    <2>4. Fresh(d, PendingOf(d))
      BY <1>1, <1>2, <1>4, <2>3 DEF Running, Fresh, PendingOf, TimerNames
    <2> QED BY <2>1, <2>2, <2>4 DEF Waits
  <1> QED BY <1>1, <1>3, <1>4 DEF Processed, d

\* A request that is sent leads to the state that awaits the answer.
LEMMA IntoAwaiting ==
  ASSUME NEW c \in Client, NEW ok, SendOk(c, ok), NEW next,
         \/ c.state = "selecting" /\ c.packet_type = "offer" /\ next = "requesting"
         \/ c.state = "bound" /\ "RENEW" \in c.expired /\ next = "renewing"
  PROVE  Processed(c, change_state(Sent(c, ok), next))
  <1> DEFINE d == change_state(Sent(c, ok), next)
  <1>1. /\ d \in Client /\ SameData(c, d) /\ d.state = next /\ d.socket = c.socket
        /\ SameLease(c, d) /\ d.set = c.set
        /\ d.timer = Sent(c, ok).timer
    BY SentTimer DEF change_state, Client, SameData, SameLease, States
  <1> HIDE DEF d
  <1>2. TimesFit(c) => TimesFit(d)
    BY <1>1 DEF TimesFit, SameData
  <1>3. ASSUME Running(c), HasRead(c)
        PROVE  Running(d) /\ Waits(d)
    <2>1. OpenTimers(d)
      BY <1>1, <1>3, SentTimer DEF Running, OpenTimers
    <2>2. SocketFits(d)
      BY <1>1, <1>3 DEF Running, SocketFits
    <2>3. d.timer["RESP"] = "armed" /\ d.timer["INIT"] = c.timer["INIT"]
              /\ d.timer["REBIND"] = c.timer["REBIND"] /\ d.timer["RENEW"] = c.timer["RENEW"]
      BY <1>1, <1>3, SentTimer DEF Running, TimerNames
    <2>4. PendingOf(d) \subseteq PendingOf(c) \cup {"RESP"} /\ "RESP" \in PendingOf(d)
      BY <1>1, <2>3 DEF PendingOf, TimerNames
    <2>5. LeadsOut(d, PendingOf(d))
      BY <1>1, <2>4 DEF LeadsOut
    <2>6. c.state = "bound" => "RENEW" \notin PendingOf(c)
      BY <1>3 DEF HasRead
    <2>7. Fresh(d, PendingOf(d))
      BY <1>1, <1>3, <2>4, <2>6 DEF HasRead, Fresh, SameLease, LeaseTimers
    <2> QED BY <2>1, <2>2, <2>5, <2>7 DEF Running, Waits
  <1> QED BY <1>1, <1>2, <1>3 DEF Processed, d

\* A client that has nothing to process goes on waiting, if the timer that
\* leads out of its state was not among those it has read.
LEMMA NothingToDo ==
  ASSUME NEW c \in Client, LeadsOut(c, TimerNames \ c.expired)
  PROVE  Processed(c, c)
  <1>1. ASSUME HasRead(c)
        PROVE  Waits(c)
    BY <1>1 DEF HasRead, Waits, LeadsOut, Fresh, TimerNames
  <1> QED BY <1>1 DEF Processed

\* One pass of process_events() keeps what is known, and leaves a running
\* client that has read its timers in a state that some timer leads out of.
LEMMA ProcessEvents ==
  ASSUME NEW c \in Client, NEW ok
  PROVE  Processed(c, process_events(c, ok))
  <1>1. CASE c.state = "init"
    BY <1>1, ProcessInit DEF process_events
  <1>2. CASE c.state = "selecting"
    <2>1. process_events(c, ok) = process_events_selecting(c, ok)
      BY <1>2 DEF process_events
    <2>2. CASE c.packet_type = "offer" /\ SendOk(c, ok)
      <3>1. process_events_selecting(c, ok) = change_state(Sent(c, ok), "requesting")
        BY <2>2 DEF process_events_selecting
      <3> QED BY <1>2, <2>1, <2>2, <3>1, IntoAwaiting
    <2>3. CASE c.packet_type = "offer" /\ ~SendOk(c, ok)
      <3>1. process_events_selecting(c, ok) = enter_init(Sent(c, ok), ok)
        BY <2>3 DEF process_events_selecting
      <3> QED BY <1>2, <2>1, <3>1, SentTimer, BackToInit DEF TimerNames
    <2>4. CASE c.packet_type # "offer" /\ "RESP" \in c.expired
      <3>1. process_events_selecting(c, ok) = enter_init(c, ok)
        BY <2>4 DEF process_events_selecting
      <3> QED BY <1>2, <2>1, <3>1, BackToInit DEF SameData, SameLease
    <2>5. CASE c.packet_type # "offer" /\ "RESP" \notin c.expired
      <3>1. process_events_selecting(c, ok) = c
        BY <2>5 DEF process_events_selecting
      <3> QED BY <1>2, <2>1, <2>5, <3>1, NothingToDo DEF LeadsOut, TimerNames
    <2> QED BY <2>2, <2>3, <2>4, <2>5
  <1>3. CASE c.state = "requesting"
    <2>1. process_events(c, ok) = process_events_requesting(c, ok)
      BY <1>3 DEF process_events
    <2>2. CASE c.packet_type = "ack"
      BY <1>3, <2>1, <2>2, IntoBound DEF process_events_requesting
    <2>3. CASE c.packet_type # "ack" /\ (c.packet_type = "nak" \/ "RESP" \in c.expired)
      <3>1. process_events_requesting(c, ok) = enter_init(c, ok)
        BY <2>3 DEF process_events_requesting
      <3> QED BY <1>3, <2>1, <3>1, BackToInit DEF SameData, SameLease
    <2>4. CASE c.packet_type # "ack" /\ ~(c.packet_type = "nak" \/ "RESP" \in c.expired)
      <3>1. process_events_requesting(c, ok) = c
        BY <2>4 DEF process_events_requesting
      <3> QED BY <1>3, <2>1, <2>4, <3>1, NothingToDo DEF LeadsOut, TimerNames
    <2> QED BY <2>2, <2>3, <2>4
  <1>4. CASE c.state = "bound"
    <2>1. process_events(c, ok) = process_events_bound(c, ok)
      BY <1>4 DEF process_events
    <2>2. CASE "RENEW" \in c.expired /\ SendOk(c, ok)
      <3>1. process_events_bound(c, ok) = change_state(Sent(c, ok), "renewing")
        BY <2>2 DEF process_events_bound
      <3> QED BY <1>4, <2>1, <2>2, <3>1, IntoAwaiting
    <2>3. CASE "RENEW" \in c.expired /\ ~SendOk(c, ok)
      <3>1. process_events_bound(c, ok) = enter_init(Sent(c, ok), ok)
        BY <2>3 DEF process_events_bound
      <3> QED BY <1>4, <2>1, <2>3, <3>1, SentTimer, BackToInit DEF TimerNames
    <2>4. CASE "RENEW" \notin c.expired
      <3>1. process_events_bound(c, ok) = c
        BY <2>4 DEF process_events_bound
      <3> QED BY <1>4, <2>1, <2>4, <3>1, NothingToDo DEF LeadsOut, TimerNames
    <2> QED BY <2>2, <2>3, <2>4
  <1>5. CASE c.state = "renewing"
    <2> DEFINE late == c.expired \cap {"RESP", "REBIND"} # {}
    <2>1. process_events(c, ok) = process_events_renewing(c, ok)
      BY <1>5 DEF process_events
    <2>2. CASE c.packet_type = "ack"
      BY <1>5, <2>1, <2>2, IntoBound DEF process_events_renewing
    <2>3. CASE c.packet_type # "ack" /\ (c.packet_type = "nak" \/ late)
      <3>1. process_events_renewing(c, ok) = enter_init(c, ok)
        BY <2>3 DEF process_events_renewing
      <3> QED BY <1>5, <2>1, <3>1, BackToInit DEF SameData, SameLease
    <2>4. CASE c.packet_type # "ack" /\ ~(c.packet_type = "nak" \/ late)
      <3>1. process_events_renewing(c, ok) = c
        BY <2>4 DEF process_events_renewing
      <3> QED BY <1>5, <2>1, <2>4, <3>1, NothingToDo DEF LeadsOut, TimerNames
    <2> QED BY <2>2, <2>3, <2>4
  <1> QED BY <1>1, <1>2, <1>3, <1>4, <1>5 DEF Client, States

-----------------------------------------------------------------------------
(* The invariant                                                             *)

\* The invariant holds before the client is started.
LEMMA InitIInv == Init => IInv
  BY DhcpAssumption
  DEF Init, Stopped, IInv, Typed, Client, TimerNames, TimerStates, States, MaybeAddresses,
      Requests, Packets, TimesFit, LeaseTimers

\* Reading the events of poll().
LEMMA PollStep ==
  ASSUME IInv, NEW p \in toClient \cup {NoPacket}, Poll(p), toClient' \subseteq toClient
  PROVE  IInv'
  <1> DEFINE d == update_events(client, p)
  <1>1. p \in Packets \cup {NoPacket} /\ client \in Client
    BY DEF IInv, Typed
  <1>2. /\ d \in Client
        /\ d.state = client.state
        /\ d.socket = client.socket
        /\ d.expired = ExpiredTimers(client)
        /\ d.timer = [n \in TimerNames |->
                        IF client.timer[n] = "expired" THEN "off" ELSE client.timer[n]]
        /\ SameLease(client, d) /\ d.set = client.set
        /\ TimesFit(client) => TimesFit(d)
    BY <1>1, UpdateEvents
  <1>3. client' = d /\ thread = "poll" /\ thread' = "process"
    BY DEF Poll
  <1> HIDE DEF d
  <1>4. Typed'
    BY <1>2, <1>3 DEF IInv, Typed, Poll
  <1>5. TimesFit(client)'
    BY <1>2, <1>3 DEF IInv, TimesFit
  <1>6. ASSUME app = "started"
        PROVE  Running(d) /\ HasRead(d)
    <2>1. /\ OpenTimers(client) /\ SocketFits(client)
          /\ LeadsOut(client, PendingOf(client)) /\ Fresh(client, PendingOf(client))
      BY <1>3, <1>6 DEF IInv, Running, Waits
    <2>2. Running(d)
      BY <1>2, <2>1 DEF Running, OpenTimers, SocketFits
    <2>3. d.expired \cap PendingOf(d) = {}
      BY <1>2 DEF PendingOf, ExpiredTimers
    <2>4. d.expired \cup PendingOf(d) = PendingOf(client)
      BY <1>2 DEF PendingOf, ExpiredTimers
    <2> QED BY <1>2, <2>1, <2>2, <2>3, <2>4 DEF HasRead, LeadsOut, Fresh, SameLease
  <1> QED BY <1>3, <1>4, <1>5, <1>6 DEF IInv, Poll

\* One pass of the state machine.
LEMMA ProcessStep ==
  ASSUME IInv, NEW ok, Process(ok)
  PROVE  IInv'
  <1>1. /\ client \in Client /\ thread = "process" /\ thread' = "poll"
        /\ client' = process_events(client, ok)
    BY DEF IInv, Typed, Process
  <1>2. Processed(client, client')
    BY <1>1, ProcessEvents
  <1>3. PacketToSend(client) \subseteq Requests
    BY <1>1 DEF PacketToSend, Requests, Client, MaybeAddresses
  <1>4. client.ip_address \in MaybeAddresses
    BY <1>1 DEF Client
  <1>5. Typed'
    BY <1>1, <1>2, <1>3, <1>4 DEF IInv, Typed, Process, Processed
  <1>6. TimesFit(client)'
    BY <1>2 DEF IInv, Processed, TimesFit
  <1>7. app' = "started" => Running(client') /\ Waits(client')
    BY <1>1, <1>2 DEF IInv, Processed, Process
  <1> QED BY <1>1, <1>5, <1>6, <1>7 DEF IInv, Process

\* A timer expires.
LEMMA ExpireStep ==
  ASSUME IInv, NEW n \in TimerNames, Expire(n)
  PROVE  IInv'
  <1>1. /\ client \in Client /\ client.timer[n] = "armed"
        /\ client' = [client EXCEPT !.timer[n] = "expired"]
    BY DEF IInv, Typed, Expire
  <1>2. /\ client' \in Client /\ SameData(client, client') /\ SameLease(client, client')
        /\ client'.set = client.set
        /\ client'.state = client.state /\ client'.socket = client.socket
        /\ \A m \in TimerNames \ {n} : client'.timer[m] = client.timer[m]
        /\ client'.timer[n] = "expired"
    BY <1>1 DEF Client, SameData, SameLease, TimerStates
  <1>3. PendingOf(client') = PendingOf(client) /\ (OpenTimers(client) => OpenTimers(client'))
    BY <1>1, <1>2 DEF PendingOf, OpenTimers
  <1>4. Typed'
    BY <1>2 DEF IInv, Typed, Expire
  <1>5. TimesFit(client)'
    BY <1>2 DEF IInv, TimesFit, SameData
  <1>6. Running(client) => Running(client')
    BY <1>2, <1>3 DEF Running, SocketFits
  <1>7. /\ Waits(client) => Waits(client')
        /\ HasRead(client) => HasRead(client')
    BY <1>2, <1>3 DEF Waits, HasRead, LeadsOut, Fresh, SameData, SameLease
  <1> QED BY <1>2, <1>4, <1>5, <1>6, <1>7 DEF IInv, Expire

\* The application starts the client.
LEMMA StartStep ==
  ASSUME IInv, ml_dhcp_client_start
  PROVE  IInv'
  <1>1. CASE UNCHANGED <<client, thread, app>>
    BY <1>1 DEF IInv, Typed, ml_dhcp_client_start, TimesFit, Running, Waits, HasRead,
                OpenTimers, SocketFits, LeadsOut, Fresh, PendingOf
  <1>2. CASE ~UNCHANGED <<client, thread, app>>
    <2> DEFINE t == [n \in TimerNames |-> IF n = "INIT" THEN "armed" ELSE "off"]
    <2>1. /\ client \in Client /\ client.state = "init"
          /\ client' = [client EXCEPT !.socket = "packet", !.timer = t]
          /\ thread' = "poll" /\ app' = "started"
      BY <1>2 DEF IInv, Typed, ml_dhcp_client_start
    <2>2. t \in [TimerNames -> TimerStates]
      BY DEF TimerStates
    <2> HIDE DEF t
    <2>3. /\ client' \in Client /\ SameData(client, client') /\ client'.state = "init"
          /\ client'.socket = "packet" /\ client'.timer = t
      BY <2>1, <2>2 DEF Client, SameData
    <2>4. Typed'
      BY <2>1, <2>3 DEF IInv, Typed, ml_dhcp_client_start
    <2>5. TimesFit(client)'
      BY <2>1, <2>3 DEF IInv, TimesFit, SameData
    <2>6. Running(client') /\ Waits(client')
      BY <2>3 DEF t, Running, OpenTimers, SocketFits, Waits, LeadsOut, Fresh, PendingOf, TimerNames
    <2> QED BY <2>1, <2>4, <2>5, <2>6 DEF IInv
  <1> QED BY <1>1, <1>2

\* The application stops the client.
LEMMA StopStep ==
  ASSUME IInv, ml_dhcp_client_stop
  PROVE  IInv'
  <1> DEFINE t == [n \in TimerNames |-> "closed"]
  <1>1. /\ client \in Client
        /\ client' = [client EXCEPT !.socket = "closed", !.timer = t]
        /\ app' = "stopped"
    BY DEF IInv, Typed, ml_dhcp_client_stop
  <1>2. t \in [TimerNames -> TimerStates]
    BY DEF TimerStates
  <1> HIDE DEF t
  <1>3. client' \in Client /\ SameData(client, client') /\ client'.state = client.state
    BY <1>1, <1>2 DEF Client, SameData
  <1>4. TimesFit(client)'
    BY <1>3 DEF IInv, TimesFit, SameData
  <1> QED BY <1>1, <1>3, <1>4 DEF IInv, Typed, ml_dhcp_client_stop

\* The network and the servers do not touch the client, and send packets.
LEMMA NetworkStep ==
  ASSUME IInv, NetworkNext
  PROVE  IInv'
  <1>1. UNCHANGED <<client, thread, app, iface, requested>>
    BY DEF NetworkNext, Offer, Answer, Lose, Noise, Send
  <1>2. toServer' \subseteq toServer
    BY DEF NetworkNext, Offer, Answer, Lose, Noise
  <1>3. toClient' \subseteq Packets
    <2> USE DEF IInv, Typed, Send
    <2>1. ASSUME NEW p \in toServer, Offer(p) PROVE toClient' \subseteq Packets
      BY <2>1 DEF Offer, Packets
    <2>2. ASSUME NEW p \in toServer, NEW type \in {"ack", "nak"}, Answer(p, type)
          PROVE  toClient' \subseteq Packets
      BY <2>2 DEF Answer, Packets
    <2>3. CASE Lose
      BY <2>3 DEF Lose
    <2>4. CASE Noise
      BY <2>4 DEF Noise, Packets
    <2> QED BY <2>1, <2>2, <2>3, <2>4 DEF NetworkNext
  <1>4. Typed'
    BY <1>1, <1>2, <1>3 DEF IInv, Typed
  <1> QED BY <1>1, <1>4 DEF IInv, TimesFit, Running, Waits, HasRead, OpenTimers, SocketFits,
                            LeadsOut, Fresh, PendingOf

\* Every step keeps the invariant.
LEMMA StepIInv == IInv /\ [Next]_vars => IInv'
  <1> SUFFICES ASSUME IInv, [Next]_vars
               PROVE  IInv'
    OBVIOUS
  <1>1. ASSUME NEW p \in toClient \cup {NoPacket}, Receive(p) \/ ReceiveDuplicate(p)
        PROVE  IInv'
    BY <1>1, PollStep DEF Receive, ReceiveDuplicate
  <1>2. ASSUME NEW ok \in Outcomes, Process(ok)
        PROVE  IInv'
    BY <1>2, ProcessStep
  <1>3. CASE PollFails
    BY <1>3 DEF PollFails, IInv, Typed
  <1>4. ASSUME NEW n \in TimerNames, Expire(n)
        PROVE  IInv'
    BY <1>4, ExpireStep
  <1>5. CASE ml_dhcp_client_start
    BY <1>5, StartStep
  <1>6. CASE ml_dhcp_client_stop
    BY <1>6, StopStep
  <1>7. CASE ml_dhcp_client_join
    BY <1>7 DEF ml_dhcp_client_join, IInv, Typed
  <1>8. CASE NetworkNext
    BY <1>8, NetworkStep
  <1>9. CASE UNCHANGED vars
    BY <1>9 DEF vars, IInv, Typed, TimesFit, Running, Waits, HasRead, OpenTimers, SocketFits,
                LeadsOut, Fresh, PendingOf
  <1> QED BY <1>1, <1>2, <1>3, <1>4, <1>5, <1>6, <1>7, <1>8, <1>9 DEF Next, ClientNext, AppNext

\* The invariant holds in every state.
LEMMA Invariance == Spec => []IInv
  BY InitIInv, StepIInv, PTL DEF Spec

-----------------------------------------------------------------------------
(* The theorems                                                              *)

\* A client that waits in poll() has a timer pending that makes it leave its
\* state: process_events() never waits for a packet only, whatever was lost,
\* came late or failed (the retries of process_events_init() and enter_init()).
THEOREM ClientNeverStuck == Spec => []NeverStuck
  <1>1. IInv => NeverStuck
    BY DEF IInv, Waits, LeadsOut, PendingOf, NeverStuck, Pending, Typed, Client, States
  <1> QED BY <1>1, Invariance, PTL

\* The socket of the struct is the one that the state needs, and every variable
\* has its type: enter_bound() and setup_packet_socket() replace it with the state.
THEOREM SocketAlwaysFits == Spec => []SocketFitsState
  <1>1. IInv => TypeOK
    BY DEF IInv, Typed, TypeOK, Client, TimerStates, MaybeAddresses, Requests
  <1>2. IInv => SocketFitsState
    BY <1>1 DEF IInv, Running, SocketFits, SocketFitsState, Typed, Client, States
  <1> QED BY <1>2, Invariance, PTL

\* No timer of an earlier state is pending while the client waits, but for the
\* two cases that NoStaleTimeout names: the cancel calls of enter_init() and
\* enter_bound() miss RENEW alone, and only when the UDP socket was not opened, and
\* a new lease replaces the timers of an old one unless its times are negative.
THEOREM NoTimeoutIsStale == Spec => []NoStaleTimeout
  <1>1. IInv => NoStaleTimeout
    BY DEF IInv, Waits, Fresh, PendingOf, NoStaleTimeout, Pending, TimerNames, LeaseTimers
  <1> QED BY <1>1, Invariance, PTL

=============================================================================
