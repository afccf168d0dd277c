------------------------------ MODULE Network -------------------------------
(* ml_network.c: the address, the flags and the routes of an interface, the  *)
(* settings of its link, and the packet filter. The functions are written    *)
(* as the labels of the code: one step is one system call, and goto out is   *)
(* a label.                                                                  *)
EXTENDS Process

AddressWords == {"10.0.0.1", "10.0.0.2", "word"}
Addresses == {inet_addr(w) : w \in AddressWords}
Hooks == {"in", "forward", "out"}
Domains == {"AF_INET", "AF_INET6"}
Verdicts == {"ACCEPT", "DROP"}
Settings == {"speed", "duplex", "autoneg"}
Unchanged == -1

\* An interface that has not been configured. Another flag than IFF_UP is set.
NetworkKernel ==
  [address |-> "none", netmask |-> "none", mtu |-> 0, flags |-> {"other"}, routes |-> {},
   mac |-> "mac", index |-> 1,
   link |-> [s \in Settings |-> 0],
   filter |-> [d \in Domains |-> [h \in Hooks |-> "ACCEPT"]]]

net_open(ok, err) == Acquire("netfd", ok, err)
net_close == At("out") /\ Release("netfd", "return")

-----------------------------------------------------------------------------
(* Interfaces.                                                               *)

\* Mutant: the result of set_netmask() is not looked at.
ml_network_interface_configure_no_check ==
  \/ At("begin") /\ net_open("address", "return")
  \/ At("address") /\ Call([kernel EXCEPT !.address = proc.arg.address], "netmask", "out")
  \/ At("netmask") /\ Call([kernel EXCEPT !.netmask = proc.arg.netmask], "mtu", "mtu")
  \/ At("mtu") /\ Call([kernel EXCEPT !.mtu = proc.arg.mtu], "out", "out")
  \/ net_close

ml_network_interface_configure ==
  \/ At("begin") /\ net_open("address", "return")
  \/ At("address") /\ Call([kernel EXCEPT !.address = proc.arg.address], "netmask", "out")
  \/ At("netmask") /\ Call([kernel EXCEPT !.netmask = proc.arg.netmask], "mtu", "out")
  \/ At("mtu") /\ Call([kernel EXCEPT !.mtu = proc.arg.mtu], "out", "out")
  \/ net_close

\* ml_network_interface_up() and _down(): the flags are read, IFF_UP is set or
\* cleared among them, and all of them are written.
SetFlags(flags) ==
  \/ At("begin") /\ net_open("get", "return")
  \/ At("get") /\ Get(kernel.flags, "set", "out")
  \/ At("set") /\ Call([kernel EXCEPT !.flags = flags], "out", "out")
  \/ net_close

ml_network_interface_up == SetFlags(proc.local[1] \cup {"IFF_UP"})
ml_network_interface_down == SetFlags(proc.local[1] \ {"IFF_UP"})

\* What each function asks the kernel for. command_ifconfig_print() calls the
\* other four.
Requests ==
  [ml_network_interface_index |-> <<"index">>,
   ml_network_interface_mac_address |-> <<"mac">>,
   ml_network_interface_ip_address |-> <<"address">>,
   ml_network_interface_mtu |-> <<"mtu">>,
   command_ifconfig_print |-> <<"address", "mac", "mtu", "index">>]

NoValue == <<>>

Missing(pc) ==
  /\ proc' = [proc EXCEPT !.pc = pc, !.fault = TRUE, !.local = Append(@, NoValue)]
  /\ UNCHANGED kernel

Requested == Requests[proc.fn][Len(proc.local) + 1]

get_ifreq ==
  \/ /\ At("begin") /\ Len(proc.local) < Len(Requests[proc.fn])
     /\ \/ Acquires("netfd", "ioctl")
        \/ Missing("begin")
  \/ /\ At("ioctl")
     /\ \/ Reads(<<kernel[Requested]>>, "close")
        \/ Missing("close")
  \/ At("close") /\ Release("netfd", "begin")

\* command_ifconfig_print() prints the failures, and succeeds.
ml_network_interface_get ==
  \/ get_ifreq
  \/ /\ At("begin") /\ Len(proc.local) = Len(Requests[proc.fn])
     /\ Result(IF proc.local = <<NoValue>> THEN Failed ELSE 0, "return")

\* SIOCADDRT fails with EEXIST for a route that is there already, and that is
\* a success.
ml_network_interface_add_route ==
  \/ At("begin") /\ net_open("add", "return")
  \/ /\ At("add") /\ proc.arg \notin kernel.routes
     /\ Call([kernel EXCEPT !.routes = @ \cup {proc.arg}], "out", "out")
  \/ /\ At("add") /\ proc.arg \in kernel.routes
     /\ Result(0, "out") \/ Fails("out")
  \/ net_close

command_ifconfig(argv) ==
  CASE Len(argv) = 2 -> [fn |-> "command_ifconfig_print", arg |-> <<>>]
    [] Len(argv) = 3 /\ argv[3] = "up" -> [fn |-> "ml_network_interface_up", arg |-> <<>>]
    [] Len(argv) = 3 /\ argv[3] = "down" -> [fn |-> "ml_network_interface_down", arg |-> <<>>]
    [] Len(argv) = 5 -> [fn |-> "ml_network_interface_configure",
                         arg |-> [address |-> inet_addr(argv[3]), netmask |-> inet_addr(argv[4]),
                                  mtu |-> atoi(argv[5])]]
    [] OTHER -> Usage

command_route(argv) ==
  IF Len(argv) # 3 THEN Usage
  ELSE [fn |-> "ml_network_interface_add_route", arg |-> inet_addr(argv[3])]

-----------------------------------------------------------------------------
(* The link.                                                                 *)

ml_network_interface_link_configure ==
  \/ At("begin") /\ net_open("get", "return")
  \/ At("get") /\ Get(kernel.link, "set", "out")
  \/ /\ At("set")
     /\ Call([kernel EXCEPT !.link =
                [s \in Settings |-> IF proc.arg[s] = Unchanged THEN proc.local[1][s] ELSE proc.arg[s]]],
             "out", "out")
  \/ net_close

command_ethtool_print ==
  \/ At("begin") /\ net_open("get", "return")
  \/ At("get") /\ Get(kernel.link, "out", "out")
  \/ net_close

DuplexOf == [half |-> 0, full |-> 1]
AutonegOf == [off |-> 0, on |-> 1]

\* A word of the two tables, or "-".
Choice(word, table) == IF word = "-" THEN Unchanged ELSE table[word]

command_ethtool(argv) ==
  IF Len(argv) = 2 THEN [fn |-> "command_ethtool_print", arg |-> <<>>]
  ELSE IF \/ Len(argv) # 5
          \/ argv[4] \notin DOMAIN DuplexOf \cup {"-"}
          \/ argv[5] \notin DOMAIN AutonegOf \cup {"-"}
       THEN Usage
       ELSE [fn |-> "ml_network_interface_link_configure",
             arg |-> [speed |-> IF argv[3] = "-" THEN Unchanged ELSE atoi(argv[3]),
                      duplex |-> Choice(argv[4], DuplexOf),
                      autoneg |-> Choice(argv[5], AutonegOf)]]

-----------------------------------------------------------------------------
(* The packet filter.                                                        *)

\* Socket, option, close; a, b and c are the labels of the three steps.
get_filter(a, b, c, v, ok, err) ==
  \/ At(a) /\ Acquire("sockfd", b, err)
  \/ At(b) /\ Get(v, c, c)
  \/ At(c) /\ Release("sockfd", IF proc.res = 0 THEN ok ELSE err)

set_filter(a, domain, filter) ==
  \/ At(a) /\ Acquire("sockfd", "setsockopt", "return")
  \/ At("setsockopt") /\ Call([kernel EXCEPT !.filter[domain] = filter], "set_close", "set_close")
  \/ At("set_close") /\ Release("sockfd", "return")

ml_network_filter_set == set_filter("begin", proc.arg.domain, proc.arg.filter)

get_info(domain, ok) ==
  get_filter("begin", "info_get", "info_close", Cardinality(Hooks), ok, "return")

hook_entry == [in |-> 1, forward |-> 2, out |-> 3]

filter_apply_all ==
  LET standard == [i \in 1 .. 3 |-> proc.arg]
  IN  \/ get_info("AF_INET", "set")
      \/ set_filter("set", "AF_INET", [h \in Hooks |-> standard[hook_entry[h]]])

\* ml_network_filter_ipv4_get() and _ipv6_get(). The caller gets the entries,
\* and frees them.
ml_network_filter_get(domain, done) ==
  \/ get_info(domain, "malloc")
  \/ At("malloc") /\ Acquire("entries_p", "entries", "return")
  \/ get_filter("entries", "entries_get", "entries_close", kernel.filter[domain], done, "free")
  \/ At("free") /\ Release("entries_p", "return")

ml_network_filter_log(domain) ==
  \/ ml_network_filter_get(domain, "log")
  \/ At("log") /\ Release("entries_p", "return")

-----------------------------------------------------------------------------
\* Calls by the application, and command lines.
InterfaceBegin ==
  \/ \E fn \in DOMAIN Requests \cup {"ml_network_interface_up", "ml_network_interface_down"} :
       Begin([fn |-> fn, arg |-> <<>>])
  \/ \E arg \in [address : Addresses, netmask : Addresses, mtu : 0 .. 1] :
       Begin([fn |-> "ml_network_interface_configure", arg |-> arg])
  \/ \E arg \in Addresses : Begin([fn |-> "ml_network_interface_add_route", arg |-> arg])
  \/ \E argv \in {<<"ifconfig">>, <<"ifconfig", "eth0">>, <<"ifconfig", "eth0", "up">>,
                   <<"ifconfig", "eth0", "down">>, <<"ifconfig", "eth0", "off">>,
                   <<"ifconfig", "eth0", "10.0.0.1", "word", "one">>} :
       Begin(command_ifconfig(argv))
  \/ \E argv \in {<<"route", "eth0">>, <<"route", "eth0", "10.0.0.2">>} :
       Begin(command_route(argv))

LinkBegin ==
  \/ \E arg \in [Settings -> -1 .. 1] :
       Begin([fn |-> "ml_network_interface_link_configure", arg |-> arg])
  \/ \E words \in {<<>>, <<"one">>} \cup [1 .. 3 -> {"one", "-", "half", "full", "on", "off"}] :
       Begin(command_ethtool(<<"ethtool", "eth0">> \o words))

FilterBegin ==
  \/ \E arg \in Verdicts : Begin([fn |-> "filter_apply_all", arg |-> arg])
  \/ \E arg \in [domain : Domains, filter : [Hooks -> Verdicts]] :
       Begin([fn |-> "ml_network_filter_set", arg |-> arg])
  \/ \E fn \in {"ml_network_filter_get", "ml_network_filter_log"}, arg \in Domains :
       Begin([fn |-> fn, arg |-> arg])

\* The step of the call that is made.
NetworkStep ==
  \/ In("ml_network_interface_configure") /\ ml_network_interface_configure
  \/ In("ml_network_interface_up") /\ ml_network_interface_up
  \/ In("ml_network_interface_down") /\ ml_network_interface_down
  \/ proc.fn \in DOMAIN Requests /\ ml_network_interface_get
  \/ In("ml_network_interface_add_route") /\ ml_network_interface_add_route
  \/ In("ml_network_interface_link_configure") /\ ml_network_interface_link_configure
  \/ In("command_ethtool_print") /\ command_ethtool_print
  \/ In("ml_network_filter_set") /\ ml_network_filter_set
  \/ In("filter_apply_all") /\ filter_apply_all
  \/ In("ml_network_filter_get") /\ ml_network_filter_get(proc.arg, "return")
  \/ In("ml_network_filter_log") /\ ml_network_filter_log(proc.arg)

\* What a call that returned without an error has done.
NetworkDone ==
  LET before == proc.before
      arg == proc.arg
      shown == proc.local
  IN  CASE In("ml_network_interface_configure") ->
             kernel = [before EXCEPT !.address = arg.address, !.netmask = arg.netmask, !.mtu = arg.mtu]
        [] In("ml_network_interface_up") -> kernel = [before EXCEPT !.flags = @ \cup {"IFF_UP"}]
        [] In("ml_network_interface_down") -> kernel = [before EXCEPT !.flags = @ \ {"IFF_UP"}]
        [] proc.fn \in DOMAIN Requests ->
             /\ kernel = before
             /\ Len(shown) = Len(Requests[proc.fn])
             /\ \A i \in DOMAIN shown : shown[i] \in {NoValue, <<before[Requests[proc.fn][i]]>>}
             /\ shown # <<NoValue>>
        [] In("ml_network_interface_add_route") -> kernel = [before EXCEPT !.routes = @ \cup {arg}]
        [] In("ml_network_interface_link_configure") ->
             /\ kernel = [before EXCEPT !.link = kernel.link]
             /\ \A s \in Settings : kernel.link[s] = IF arg[s] = Unchanged THEN before.link[s] ELSE arg[s]
        [] In("command_ethtool_print") -> kernel = before /\ shown = <<before.link>>
        [] In("ml_network_filter_set") -> kernel = [before EXCEPT !.filter[arg.domain] = arg.filter]
        [] In("filter_apply_all") ->
             kernel = [before EXCEPT !.filter["AF_INET"] = [h \in Hooks |-> arg]]
        [] In("ml_network_filter_get") -> kernel = before /\ shown[2] = before.filter[arg]
        [] In("ml_network_filter_log") -> kernel = before

\* What a call that failed has done: nothing, or the first part of what it does.
NetworkUndone ==
  \/ kernel = proc.before
  \/ /\ In("ml_network_interface_configure")
     /\ LET one == [proc.before EXCEPT !.address = proc.arg.address]
        IN  kernel \in {one, [one EXCEPT !.netmask = proc.arg.netmask]}

\* What a call that returned still holds: only the entries, when it hands them out.
NetworkHolds ==
  IF In("ml_network_filter_get") /\ proc.res = 0 THEN {"entries_p"} ELSE {}

=============================================================================
