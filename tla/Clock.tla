------------------------------- MODULE Clock --------------------------------
(* The clocks: ml_ntp_client.c, ml_rtc.c and the shell command date. Time is *)
(* in seconds since 1970.                                                    *)
EXTENDS Process, Algorithms

CONSTANTS Servers   \* at most this many addresses of the name of a server

ASSUME ServersAssumption == Servers \in Nat \ {0}

\* The times that the code can tell: the second half of NTP's first era, and
\* the first half of the one that follows, from 1970.
Times == {t \in 0 .. 2 * NTP_ERA : NTP_ERA \div 2 <= t + JAN_1900_TO_1970
                                   /\ 2 * (t + JAN_1900_TO_1970) < 3 * NTP_ERA}

ClockKernel == [clock |-> 0, rtc |-> 0]

NTP_MODE_SERVER == 4
NTP_VERSION == 4
NTP_PACKET_MIN == 48

\* What a server answers, an unusable answer included, at the time now.
Answers(now) ==
  [size : {NTP_PACKET_MIN - 1, NTP_PACKET_MIN}, mode : {3, NTP_MODE_SERVER}, version : {3, NTP_VERSION},
   secs : {(now + JAN_1900_TO_1970) % NTP_ERA}]

\* poll() fails or times out after 5 s, read() fails, or there is an answer.
receive_response(ok, err) ==
  \/ Fails(err)
  \/ \E answer \in Answers(proc.arg.now) :
       IF answer.size < NTP_PACKET_MIN \/ answer.mode # NTP_MODE_SERVER \/ answer.version # NTP_VERSION
       THEN Fails(err)
       ELSE Reads(ntp_time_to_timespec(answer.secs), ok)

try_sync ==
  \/ At("send") /\ Call(kernel, "receive", "close")
  \/ At("receive") /\ receive_response("settime", "close")
  \/ At("settime") /\ Call([kernel EXCEPT !.clock = proc.local[Len(proc.local)]], "close", "close")

\* Mutant: the socket is closed only after a success.
try_sync_with_server_leak ==
  \/ At("socket") /\ Acquire("sock", "connect", "next")
  \/ At("connect") /\ Call(kernel, "send", "close")
  \/ try_sync
  \/ At("close") /\ proc.res = 0 /\ Release("sock", "next")
  \/ At("close") /\ proc.res # 0 /\ Goto("next")

try_sync_with_server ==
  \/ At("socket") /\ Acquire("sock", "connect", "next")
  \/ At("connect") /\ Call(kernel, "send", "close")
  \/ try_sync
  \/ At("close") /\ Release("sock", "next")

\* The addresses of the server are tried in turn until one works.
ml_ntp_client_sync ==
  \/ At("begin") /\ Acquire("infolist_p", "socket", "return")
  \/ try_sync_with_server
  \/ /\ At("next")
     /\ IF proc.res = 0 \/ proc.arg.servers = 1 THEN Goto("free")
        ELSE /\ proc' = [proc EXCEPT !.pc = "socket", !.arg.servers = @ - 1, !.local = <<>>]
             /\ UNCHANGED kernel
  \/ At("free") /\ Release("infolist_p", "return")

ml_rtc_get_time ==
  \/ At("begin") /\ Acquire("fd", "ioctl", "return")
  \/ At("ioctl") /\ Get(kernel.rtc, "close", "close")
  \/ At("close") /\ Release("fd", "return")

ml_rtc_set_time ==
  \/ At("begin") /\ Acquire("fd", "ioctl", "return")
  \/ At("ioctl") /\ Call([kernel EXCEPT !.rtc = proc.arg], "close", "close")
  \/ At("close") /\ Release("fd", "return")

\* Without an argument the time is printed, with one it is set.
date == At("begin") /\ Get(kernel.clock, "return", "return")
date_set == At("begin") /\ Call([kernel EXCEPT !.clock = proc.arg], "return", "return")

command_date(argv) ==
  CASE Len(argv) = 1 -> [fn |-> "date", arg |-> <<>>]
    [] Len(argv) = 2 -> [fn |-> "date_set", arg |-> atoi(argv[2])]
    [] OTHER -> Usage

\* The default server of the command has an address, as every name here.
command_ntp_sync(argv, now) ==
  Takes(argv, 1 .. 2, "ml_ntp_client_sync", [now |-> now, servers |-> Servers])

ClockBegin ==
  \/ \E arg \in [now : Times, servers : 1 .. Servers] :
       Begin([fn |-> "ml_ntp_client_sync", arg |-> arg])
  \/ Begin([fn |-> "ml_rtc_get_time", arg |-> <<>>])
  \/ \E arg \in 0 .. 1 : Begin([fn |-> "ml_rtc_set_time", arg |-> arg])
  \/ \E argv \in {<<"date">>, <<"date", "two">>, <<"date", "word">>, <<"date", "one", "two">>} :
       Begin(command_date(argv))
  \/ \E argv \in {<<"ntp_sync">>, <<"ntp_sync", "a">>, <<"ntp_sync", "a", "b">>}, now \in Times :
       Begin(command_ntp_sync(argv, now))

ClockStep ==
  \/ In("ml_ntp_client_sync") /\ ml_ntp_client_sync
  \/ In("ml_rtc_get_time") /\ ml_rtc_get_time
  \/ In("ml_rtc_set_time") /\ ml_rtc_set_time
  \/ In("date") /\ date
  \/ In("date_set") /\ date_set

ClockDone ==
  CASE In("ml_ntp_client_sync") -> kernel = [proc.before EXCEPT !.clock = proc.arg.now]
    [] In("ml_rtc_get_time") -> kernel = proc.before /\ proc.local = <<kernel.rtc>>
    [] In("ml_rtc_set_time") -> kernel = [proc.before EXCEPT !.rtc = proc.arg]
    [] In("date") -> kernel = proc.before /\ proc.local = <<kernel.clock>>
    [] In("date_set") -> kernel = [proc.before EXCEPT !.clock = proc.arg]

=============================================================================
