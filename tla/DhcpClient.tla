------------------------------ MODULE DhcpClient ----------------------------
(* The DHCP client of ml_dhcp_client.c: the thread that polls one socket and *)
(* four timerfds and runs the state machine, the application that starts,    *)
(* stops and joins it, DHCP servers, and a network that loses, duplicates,   *)
(* delays and reorders packets. The client is one record, as it is one       *)
(* struct in the code; the functions of the code are operators on it. System *)
(* calls that may fail, and the outcome they had, are parameters. Three      *)
(* fields are history: interval, the renewal interval of the last lease;     *)
(* set, its timers that were set; and open, if its UDP socket was opened.    *)
(*                                                                           *)
(* Time is abstract: an armed timer expires at some later point, and only    *)
(* the order that the code relies on is kept (the rebinding timer, set       *)
(* together with the renewal timer and longer, does not expire before it).   *)
EXTENDS Integers, FiniteSets

CONSTANTS Addresses,  \* addresses that servers offer
          NoAddress,
          Leases,     \* lease times that servers offer, in seconds
          INT_MAX,    \* 2^31 - 1 in the code; a lease is an unsigned integer
          Failures,   \* kinds of system calls that may fail
          MaxInFlight \* bound on the packets under way to the client

ASSUME DhcpAssumption ==
  /\ NoAddress \notin Addresses
  /\ INT_MAX \in Nat \ {0}
  /\ Leases \subseteq 0 .. 2 * INT_MAX + 1
  /\ Failures \subseteq {"send", "packet_socket", "udp_socket", "configure", "poll",
                       "interface", "start"}
  /\ MaxInFlight \in Nat \ {0}

VARIABLES client,   \* struct ml_dhcp_client_t
          thread,   \* "none", "poll", "process" or "done"
          app,      \* the application: "idle", "started", "stopped" or "joined"
          toServer, \* packets on their way to the servers
          toClient, \* packets on their way to the client
          iface,    \* address the interface is configured with
          requested \* history: address of the last request that was sent

vars == <<client, thread, app, toServer, toClient, iface, requested>>

TimerNames == {"RENEW", "REBIND", "RESP", "INIT"}
LeaseTimers == {"RENEW", "REBIND"}

Packets ==
  [type : {"offer"}, address : Addresses, lease : Leases]
    \cup [type : {"ack", "nak", "invalid"}, address : {NoAddress}, lease : {0}]
NoPacket == [type |-> "none", address |-> NoAddress, lease |-> 0]

-----------------------------------------------------------------------------
(* Timers. A timerfd is off, armed or expired; "closed" after stop.          *)

\* timerfd_settime(): zero seconds disarm the timer, a negative number and a
\* closed descriptor are errors that nobody looks at.
set_timer(c, name, seconds) ==
  IF c.timer[name] = "closed" \/ seconds < 0 THEN c
  ELSE [c EXCEPT !.timer[name] = IF seconds = 0 THEN "off" ELSE "armed",
                 !.set = @ \cup ({name} \cap LeaseTimers)]

set_renewal_timer(c) == set_timer(c, "RENEW", c.renewal_interval)
set_rebinding_timer(c) == set_timer(c, "REBIND", c.rebinding_time)
set_response_timer(c) == set_timer(c, "RESP", 5)
set_init_timer(c) == set_timer(c, "INIT", 10)
cancel_response_timer(c) == set_timer(c, "RESP", 0)
cancel_rebinding_timer(c) == set_timer(c, "REBIND", 0)

-----------------------------------------------------------------------------
(* Received packets                                                          *)

\* The unsigned lease time of the packet is stored in an int.
ToInt(lease) == IF lease <= INT_MAX THEN lease ELSE lease - 2 * (INT_MAX + 1)

\* Division of C: towards zero.
Half(n) == IF n >= 0 THEN n \div 2 ELSE -((-n) \div 2)

\* An offer without a lease time of at least one second is ignored. What the
\* client asks for next is overwritten whatever its state is.
unpack_message_type_offer(c, p) ==
  IF p.lease < 1 THEN c
  ELSE [c EXCEPT !.ip_address = p.address,
                 !.renewal_interval = Half(ToInt(p.lease)),
                 !.rebinding_time = Half(ToInt(p.lease)) + 10,
                 !.packet_type = "offer"]

unpack_packet(c, p) ==
  CASE p.type = "offer" -> unpack_message_type_offer(c, p)
    [] p.type \in {"ack", "nak"} -> [c EXCEPT !.packet_type = p.type]
    [] OTHER -> c

ExpiredTimers(c) == {n \in TimerNames : c.timer[n] = "expired"}

\* Reads a packet, if there is one, and every expired timer.
update_events(c, p) ==
  [unpack_packet([c EXCEPT !.packet_type = "none"], p) EXCEPT
     !.expired = ExpiredTimers(c),
     !.timer = [n \in TimerNames |-> IF c.timer[n] = "expired" THEN "off" ELSE c.timer[n]]]

-----------------------------------------------------------------------------
(* The state machine. ok is the set of the system calls that succeed.        *)

change_state(c, state) == [c EXCEPT !.state = state]

\* A failure leaves the closed descriptor in place.
setup_packet_socket(c, ok) ==
  [c EXCEPT !.socket = IF "packet_socket" \in ok THEN "packet" ELSE "closed"]

enter_init(c, ok) ==
  change_state(
    setup_packet_socket(
      set_init_timer(cancel_rebinding_timer(cancel_response_timer(c))), ok), "init")

\* History: a lease begins.
NewLease(c, ok) ==
  [c EXCEPT !.interval = c.renewal_interval, !.set = {}, !.open = "udp_socket" \in ok]

\* Mutant: the response timer is left running.
enter_bound_no_cancel(c, ok) ==
  LET armed == set_rebinding_timer(set_renewal_timer(NewLease(c, ok)))
  IN  IF "udp_socket" \in ok
        THEN change_state([armed EXCEPT !.socket = "udp"], "bound")
        ELSE enter_init(change_state([armed EXCEPT !.socket = "closed"], "bound"), ok)

\* Mutant: the failure to open the socket is not handled.
enter_bound_unchecked(c, ok) ==
  change_state([set_rebinding_timer(set_renewal_timer(cancel_response_timer(NewLease(c, ok))))
                EXCEPT !.socket = IF "udp_socket" \in ok THEN "udp" ELSE "closed"], "bound")

\* Mutant: the timers of the lease are only set the first time.
enter_bound_once(c, ok) ==
  LET new == cancel_response_timer(NewLease(c, ok))
      armed == IF c.state = "renewing" THEN new
               ELSE set_rebinding_timer(set_renewal_timer(new))
  IN  IF "udp_socket" \in ok
        THEN change_state([armed EXCEPT !.socket = "udp"], "bound")
        ELSE enter_init(change_state([armed EXCEPT !.socket = "closed"], "bound"), ok)

enter_bound(c, ok) ==
  LET armed == set_rebinding_timer(set_renewal_timer(cancel_response_timer(NewLease(c, ok))))
  IN  IF "udp_socket" \in ok
        THEN change_state([armed EXCEPT !.socket = "udp"], "bound")
        ELSE enter_init(change_state([armed EXCEPT !.socket = "closed"], "bound"), ok)

\* A packet is sent if the socket is open and the call succeeds; the response
\* timer is started then, which fails on a closed descriptor.
CanSend(c, ok) == c.socket # "closed" /\ "send" \in ok
SendOk(c, ok) == CanSend(c, ok) /\ c.timer["RESP"] # "closed"
Sent(c, ok) == IF CanSend(c, ok) THEN set_response_timer(c) ELSE c

\* Mutant: nothing is tried again if the discover cannot be sent.
process_events_init_no_retry(c, ok) ==
  IF "INIT" \notin c.expired THEN c
  ELSE IF SendOk(c, ok) THEN change_state(Sent(c, ok), "selecting")
  ELSE c

process_events_init(c, ok) ==
  IF "INIT" \notin c.expired THEN c
  ELSE IF SendOk(c, ok) THEN change_state(Sent(c, ok), "selecting")
  ELSE set_init_timer(Sent(c, ok))

process_events_selecting(c, ok) ==
  IF c.packet_type = "offer"
    THEN IF SendOk(c, ok) THEN change_state(Sent(c, ok), "requesting")
         ELSE enter_init(Sent(c, ok), ok)
  ELSE IF "RESP" \in c.expired THEN enter_init(c, ok)
  ELSE c

process_events_requesting(c, ok) ==
  IF c.packet_type = "ack" THEN enter_bound(c, ok)
  ELSE IF c.packet_type = "nak" \/ "RESP" \in c.expired THEN enter_init(c, ok)
  ELSE c

process_events_bound(c, ok) ==
  IF "RENEW" \notin c.expired THEN c
  ELSE IF SendOk(c, ok) THEN change_state(Sent(c, ok), "renewing")
  ELSE enter_init(Sent(c, ok), ok)

process_events_renewing(c, ok) ==
  IF c.packet_type = "ack" THEN enter_bound(c, ok)
  ELSE IF c.packet_type = "nak" \/ c.expired \cap {"RESP", "REBIND"} # {} THEN enter_init(c, ok)
  ELSE c

process_events(c, ok) ==
  CASE c.state = "init"       -> process_events_init(c, ok)
    [] c.state = "selecting"  -> process_events_selecting(c, ok)
    [] c.state = "requesting" -> process_events_requesting(c, ok)
    [] c.state = "bound"      -> process_events_bound(c, ok)
    [] c.state = "renewing"   -> process_events_renewing(c, ok)

\* What process_events() sends, if it can, and if it configures the interface.
PacketToSend(c) ==
  CASE c.state = "init" /\ "INIT" \in c.expired -> {[type |-> "discover", address |-> NoAddress]}
    [] \/ c.state = "selecting" /\ c.packet_type = "offer"
       \/ c.state = "bound" /\ "RENEW" \in c.expired
         -> {[type |-> "request", address |-> c.ip_address]}
    [] OTHER -> {}

Configures(c) == c.state \in {"requesting", "renewing"} /\ c.packet_type = "ack"

-----------------------------------------------------------------------------
(* The client thread                                                         *)

Calls == {"send", "packet_socket", "udp_socket", "configure"}
Outcomes == {Calls \ failed : failed \in SUBSET (Calls \cap Failures)}

\* Something is ready: a packet on the open socket, an expired timer, an error
\* on the socket because the interface is down, or a closed descriptor, for
\* which poll() returns at once.
Ready ==
  \/ ExpiredTimers(client) # {}
  \/ "interface" \in Failures
  \/ client.socket = "closed"
  \/ \E n \in TimerNames : client.timer[n] = "closed"

Poll(p) ==
  /\ thread = "poll"
  /\ IF p = NoPacket THEN Ready ELSE p \in toClient /\ client.socket # "closed"
  /\ client' = update_events(client, p)
  /\ thread' = "process"
  /\ UNCHANGED <<app, toServer, iface, requested>>

\* The packet is taken, or was a duplicate and comes again.
Receive(p) == Poll(p) /\ toClient' = toClient \ {p}
ReceiveDuplicate(p) == Poll(p) /\ p # NoPacket /\ UNCHANGED toClient

Process(ok) ==
  /\ thread = "process"
  /\ client' = process_events(client, ok)
  /\ toServer' = IF CanSend(client, ok) THEN toServer \cup PacketToSend(client) ELSE toServer
  /\ requested' = IF CanSend(client, ok) /\ \E p \in PacketToSend(client) : p.type = "request"
                    THEN client.ip_address ELSE requested
  /\ iface' = IF Configures(client) /\ "configure" \in ok THEN client.ip_address ELSE iface
  /\ thread' = "poll"
  /\ UNCHANGED <<app, toClient>>

\* poll() fails, and the thread ends.
PollFails ==
  /\ thread = "poll"
  /\ "poll" \in Failures
  /\ thread' = "done"
  /\ UNCHANGED <<client, app, toServer, toClient, iface, requested>>

Expire(n) ==
  /\ client.timer[n] = "armed"
  /\ n = "REBIND" /\ LeaseTimers \subseteq client.set => client.timer["RENEW"] # "armed"
  /\ client' = [client EXCEPT !.timer[n] = "expired"]
  /\ UNCHANGED <<thread, app, toServer, toClient, iface, requested>>

-----------------------------------------------------------------------------
(* The application                                                           *)

\* The struct before ml_dhcp_client_start().
Stopped == [state |-> "init", packet_type |-> "none", expired |-> {},
            timer |-> [n \in TimerNames |-> "closed"], socket |-> "closed",
            ip_address |-> NoAddress, renewal_interval |-> 0, rebinding_time |-> 0,
            interval |-> 0, set |-> {}, open |-> TRUE]

\* Open the socket and the timers and start the thread; or fail, and leave
\* nothing open.
ml_dhcp_client_start ==
  /\ app = "idle"
  /\ \/ /\ client' = [client EXCEPT
             !.socket = "packet",
             !.timer = [n \in TimerNames |-> IF n = "INIT" THEN "armed" ELSE "off"]]
        /\ thread' = "poll"
        /\ app' = "started"
     \/ "start" \in Failures /\ UNCHANGED <<client, thread, app>>
  /\ UNCHANGED <<toServer, toClient, iface, requested>>

\* Close all descriptors, whatever the thread is doing.
ml_dhcp_client_stop ==
  /\ app = "started"
  /\ client' = [client EXCEPT !.socket = "closed",
                              !.timer = [n \in TimerNames |-> "closed"]]
  /\ app' = "stopped"
  /\ UNCHANGED <<thread, toServer, toClient, iface, requested>>

ml_dhcp_client_join ==
  /\ app \in {"started", "stopped"}
  /\ thread = "done"
  /\ app' = "joined"
  /\ UNCHANGED <<client, thread, toServer, toClient, iface, requested>>

-----------------------------------------------------------------------------
(* Servers and network                                                       *)

Send(p) ==
  /\ toClient' = toClient \cup {p}
  /\ Cardinality(toClient') <= MaxInFlight
  /\ UNCHANGED <<client, thread, app, iface, requested>>

\* A server answers a discover with an offer, and a request with an
\* acknowledgement or with a refusal.
Offer(p) ==
  /\ p.type = "discover"
  /\ toServer' = toServer \ {p}
  /\ \E a \in Addresses, l \in Leases : Send([type |-> "offer", address |-> a, lease |-> l])

Answer(p, type) ==
  /\ p.type = "request"
  /\ toServer' = toServer \ {p}
  /\ Send([type |-> type, address |-> NoAddress, lease |-> 0])

\* A packet is lost on its way to or from the server.
Lose ==
  /\ \/ \E p \in toServer : toServer' = toServer \ {p} /\ UNCHANGED toClient
     \/ \E p \in toClient : toClient' = toClient \ {p} /\ UNCHANGED toServer
  /\ UNCHANGED <<client, thread, app, iface, requested>>

\* Another host sends something that unpack_packet() does not accept.
Noise == Send([type |-> "invalid", address |-> NoAddress, lease |-> 0]) /\ UNCHANGED toServer

-----------------------------------------------------------------------------
Init ==
  /\ client = Stopped
  /\ thread = "none"
  /\ app = "idle"
  /\ toServer = {}
  /\ toClient = {}
  /\ iface = NoAddress
  /\ requested = NoAddress

ClientNext ==
  \/ \E p \in toClient \cup {NoPacket} : Receive(p) \/ ReceiveDuplicate(p)
  \/ \E ok \in Outcomes : Process(ok)
  \/ PollFails
  \/ \E n \in TimerNames : Expire(n)

AppNext == ml_dhcp_client_start \/ ml_dhcp_client_stop \/ ml_dhcp_client_join

NetworkNext ==
  \/ \E p \in toServer : Offer(p) \/ Answer(p, "ack") \/ Answer(p, "nak")
  \/ Lose
  \/ Noise

Next == ClientNext \/ AppNext \/ NetworkNext

Spec == Init /\ [][Next]_vars

(* The client thread is scheduled, its timers expire, and servers answer.    *)
(* Misfortune ends: from some point on no call fails, no packet is lost,     *)
(* duplicated or refused, and the response timer does not expire while an    *)
(* answer is under way. Before that point anything may have happened.        *)
Smooth ==
  \/ \E p \in toClient \cup {NoPacket} : Receive(p)
  \/ Process(Calls)
  \/ \E n \in TimerNames :
       Expire(n) /\ (n = "RESP" => toServer = {} /\ \A p \in toClient : p.type = "invalid")
  \/ AppNext
  \/ \E p \in toServer : Offer(p) \/ Answer(p, "ack")
  \/ Noise

Fairness ==
  /\ WF_vars(\E p \in toClient \cup {NoPacket} : Receive(p))
  /\ \A p \in Packets : SF_vars(Receive(p))
  /\ WF_vars(\E ok \in Outcomes : Process(ok))
  /\ \A n \in TimerNames : WF_vars(Expire(n))
  /\ WF_vars(ml_dhcp_client_start)
  /\ SF_vars(\E p \in toServer : Offer(p)) /\ SF_vars(\E p \in toServer : Answer(p, "ack"))
  /\ <>[][Smooth]_vars

FairSpec == Spec /\ Fairness

-----------------------------------------------------------------------------
States == {"init", "selecting", "requesting", "bound", "renewing"}

\* Type invariant of the client, the application and the network.
TypeOK ==
  /\ client.state \in States
  /\ client.packet_type \in {"none", "offer", "ack", "nak"}
  /\ client.expired \subseteq TimerNames
  /\ client.timer \in [TimerNames -> {"off", "armed", "expired", "closed"}]
  /\ client.socket \in {"packet", "udp", "closed"}
  /\ client.ip_address \in Addresses \cup {NoAddress}
  /\ client.renewal_interval \in Int
  /\ client.rebinding_time \in Int
  /\ client.interval \in Int
  /\ client.set \subseteq LeaseTimers
  /\ client.open \in BOOLEAN
  /\ thread \in {"none", "poll", "process", "done"}
  /\ app \in {"idle", "started", "stopped", "joined"}
  /\ toServer \subseteq [type : {"discover", "request"}, address : Addresses \cup {NoAddress}]
  /\ toClient \subseteq Packets
  /\ iface \in Addresses \cup {NoAddress}
  /\ requested \in Addresses \cup {NoAddress}

Pending(n) == client.timer[n] \in {"armed", "expired"}

\* A client that waits in poll() has a timer pending that makes it leave the
\* state it is in, whatever was lost, came late or failed: no state of
\* process_events() is left waiting for a packet only. The exception is a lease
\* of one second, or of 2^31 seconds and more, which leaves no renewal interval in
\* an int: bound with it, the client does not renew. From all other states it
\* leads out, whatever leases were offered before.
NeverStuck ==
  app = "started" /\ thread = "poll" =>
    CASE client.state = "init" -> Pending("INIT")
      [] client.state \in {"selecting", "requesting", "renewing"} -> Pending("RESP")
      [] client.state = "bound" -> client.interval >= 1 => Pending("RENEW")

\* The socket is the one that the state needs: an IP socket while there is a
\* lease, a packet socket, or none if it could not be opened, before. With
\* the types of the variables.
SocketFitsState ==
  /\ TypeOK
  /\ app = "started" =>
       CASE client.state \in {"bound", "renewing"} -> client.socket = "udp"
         [] client.state \in {"selecting", "requesting"} -> client.socket = "packet"
         [] client.state = "init" -> client.socket \in {"packet", "closed"}

\* No timer of an earlier state is left pending, to be taken for a timeout of a
\* later one: a late response timeout cannot end a lease, nor a renewal or a
\* rebinding timeout of an old lease a new one. There are two exceptions. RENEW,
\* which enter_init() does not cancel, is left when the UDP socket of the lease
\* could not be opened; the states before the next lease ignore it. And if that
\* next lease is one of 2^31 seconds or more, setting its timers fails, and those
\* of the old lease may be left and expire in the new one.
NoStaleTimeout ==
  app = "started" /\ thread = "poll" =>
    /\ Pending("RESP") => client.state \in {"selecting", "requesting", "renewing"}
    /\ Pending("REBIND") => client.state \in {"bound", "renewing"}
    /\ Pending("INIT") => client.state = "init"
    /\ Pending("RENEW") => client.state = "bound" \/ ~client.open
    /\ client.state \in {"bound", "renewing"} /\ client.interval >= 0 =>
         \A n \in LeaseTimers : Pending(n) => n \in client.set

\* The interface is configured with the address that was requested and then
\* acknowledged; offers that come late are discarded.
ConfiguredAsRequested ==
  client.state = "bound" /\ thread = "poll" => iface = requested

\* A client that is not stopped gets a lease, and gets one again whenever it has
\* lost it: the retries of enter_init() lead back to the bound state.
BoundAgainAndAgain == []<>(client.state = "bound" \/ app # "started")

\* A lease is renewed, or given up, before it ends: the bound state is left.
LeaseIsRenewed ==
  client.state = "bound" ~> client.state # "bound" \/ app # "started"

=============================================================================
