------------------------------ MODULE Library -------------------------------
(* The parts of the library that have no thread of their own: its functions  *)
(* around system calls, the log objects and their file, the dumps of         *)
(* programs that died, and the functions without state. They share nothing,  *)
(* so a behaviour is about one of them, area, while the others stay as they  *)
(* are; a function without state is looked at for one input at a time.       *)
EXTENDS Network, DeviceMapper, Clock, Files, LogObject, Coredump

CONSTANTS Lines,      \* command lines, sequences of Characters
          Buffers,    \* sequences of bytes
          Dumped      \* records [length, offset, size]

VARIABLES area, input

libraryVars == <<procVars, area, input, logVars, dumpVars>>

KernelOf ==
  [interface |-> NetworkKernel, link |-> NetworkKernel, filter |-> NetworkKernel,
   mapper |-> MapperKernel, clock |-> ClockKernel, files |-> FilesKernel]

NoInput == [kind |-> "none"]

NoLog == list = <<>> /\ level = [o \in Objects |-> Default] /\ file = NoFile
         /\ store = None /\ load = NoLoad /\ log = NoHistory

CallsInit ==
  /\ area \in DOMAIN KernelOf
  /\ kernel = KernelOf[area]
  /\ proc = Idle
  /\ input = NoInput
  /\ NoLog

StoresInit ==
  /\ area \in {"log", "coredump"}
  /\ kernel = <<>>
  /\ proc = Idle
  /\ input = NoInput
  /\ IF area = "log" THEN LogInit ELSE NoLog

FunctionsInit ==
  /\ area = "functions"
  /\ kernel = <<>>
  /\ proc = Idle
  /\ \/ \E line \in Lines : input = [kind |-> "line", line |-> line]
     \/ \E buf \in Buffers, acc \in 0 .. Acc - 1 : input = [kind |-> "buf", buf |-> buf, acc |-> acc]
     \/ \E d \in Dumped : input = [kind |-> "dump", dump |-> d]
  /\ NoLog

Init == DumpInit /\ (CallsInit \/ StoresInit \/ FunctionsInit)

\* A thread calls a function; it runs to its end, whatever fails; another call.
CallBegin ==
  \/ area = "interface" /\ InterfaceBegin
  \/ area = "link" /\ LinkBegin
  \/ area = "filter" /\ FilterBegin
  \/ area = "mapper" /\ MapperBegin
  \/ area = "clock" /\ ClockBegin
  \/ area = "files" /\ FilesBegin

CallStep ==
  /\ proc # Idle
  /\ \/ NetworkStep
     \/ MapperStep
     \/ ClockStep
     \/ FilesStep
     \/ UsageStep

\* Functions without state have no steps, and programs need not die.
Rest == area \in {"functions", "coredump"} /\ UNCHANGED procVars

\* Without a step to take a call would be stuck.
Next ==
  /\ UNCHANGED <<area, input>>
  /\ \/ (CallBegin \/ CallStep \/ Return \/ Rest) /\ UNCHANGED <<logVars, dumpVars>>
     \/ area = "log" /\ LogNext /\ UNCHANGED <<procVars, dumpVars>>
     \/ area = "coredump" /\ DumpNext /\ UNCHANGED <<procVars, logVars>>

Spec == Init /\ [][Next]_libraryVars

-----------------------------------------------------------------------------
\* A call that has returned holds nothing: every descriptor, stream, list and
\* buffer it got is released whatever failed, and a mutex is unlocked. Only the
\* entries of a filter are handed to the caller, and only with a success.
AllReleased == Returned => proc.held = IF area = "filter" THEN NetworkHolds ELSE {}

Done ==
  CASE area \in {"interface", "link", "filter"} -> NetworkDone
    [] area = "mapper" -> MapperDone
    [] area = "clock" -> ClockDone
    [] area = "files" -> FilesDone

Undone ==
  CASE area \in {"interface", "link", "filter"} -> NetworkUndone
    [] area = "mapper" -> MapperUndone
    [] area = "clock" -> kernel = proc.before
    [] area = "files" -> FilesUndone

\* The result tells the truth, also after earlier calls that failed halfway: a
\* call that returns without an error has done all that it was asked, and has
\* kept the rest; one that returns an error met a failure or refused its
\* arguments, and did nothing or the first part.
ReturnsTruth ==
  Returned =>
    IF proc.res = 0 THEN Done
    ELSE /\ Undone
         /\ \/ proc.fault \/ proc.ignored \/ proc.usage
            \/ area = "files" /\ FilesRefuses

\* parse_command(), which takes quotes and backslashes out of the line while it
\* walks over it, gives the arguments that the line means.
ParseMatches == input.kind = "line" => parse_command(input.line) = Meaning(input.line)

\* The checksum is that of ones' complement arithmetic whatever has been
\* accumulated, also in two parts of which the first is even; and a buffer with
\* its checksum has the checksum zero.
ChecksumMatches ==
  input.kind = "buf" =>
    LET buf == input.buf
        acc == input.acc
        sum == acc + FoldLeft(LAMBDA a, w : a + w, 0, InetWords(buf))
        checksum == ml_inet_checksum(buf)
        even == IF Len(buf) % 2 = 0 THEN buf ELSE Append(buf, 0)
    IN  /\ sum < Acc => ml_inet_checksum_end(ml_inet_checksum_acc(acc, buf)) = Word - 1 - OnesComplementSum(sum)
        /\ \A n \in 0 .. Len(buf) : n % 2 = 0 =>
             ml_inet_checksum_acc(acc, buf)
               = ml_inet_checksum_acc(ml_inet_checksum_acc(acc, SubSeq(buf, 1, n)), SubSeq(buf, n + 1, Len(buf)))
        /\ ml_inet_checksum(even \o <<checksum \div BYTE, checksum % BYTE>>) = 0

\* ml_hexdump_file() prints the bytes from offset that there are, at most size
\* of them when it is given, in lines that are full up to the last, each with
\* the address of its first byte.
DumpMatches ==
  input.kind = "dump" =>
    LET d == input.dump
        out == ml_hexdump_file(d.length, d.offset, d.size).out
        last == IF d.size < 0 THEN d.length ELSE Least(d.length, d.offset + d.size)
        bytes == FoldLeft(LAMBDA b, l : b \o l.bytes, <<>>, out)
    IN  /\ bytes = [i \in 1 .. (IF last > d.offset THEN last - d.offset ELSE 0) |-> d.offset + i - 1]
        /\ \A l \in DOMAIN out : out[l].address = out[l].bytes[1]
        /\ \A l \in 1 .. Len(out) - 1 : Len(out[l].bytes) = LINE_SIZE

=============================================================================
