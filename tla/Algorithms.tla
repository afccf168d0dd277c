----------------------------- MODULE Algorithms -----------------------------
(* Functions of the library without state: the internet checksum, the        *)
(* splitting of a shell command into arguments, the hexdump of a file and    *)
(* the seconds of an NTP time. Each is translated as the code computes it,   *)
(* and stands beside a definition of what it is to compute. The sizes that   *)
(* the code fixes are constants here.                                        *)
EXTENDS Integers, Sequences, SequencesExt, FiniteSetsExt

CONSTANTS BYTE,      \* 256: values of a byte
          ARGS_MAX,  \* 32: length of argv
          LINE_SIZE, \* 16: bytes on a line of a hexdump
          BUF_SIZE,  \* 256: bytes that are read from a file at a time
          NTP_ERA,   \* 2^32: seconds of an NTP era
          JAN_1900_TO_1970

ASSUME AlgorithmsAssumption ==
  /\ BYTE \in Nat \ {0, 1}
  /\ ARGS_MAX \in Nat \ {0} /\ LINE_SIZE \in Nat \ {0}
  /\ BUF_SIZE \in Nat \ {0} /\ BUF_SIZE % LINE_SIZE = 0
  /\ NTP_ERA \in Nat \ {0} /\ NTP_ERA % 2 = 0
  /\ JAN_1900_TO_1970 \in Nat

\* n steps of a loop, from state s. A loop that has ended stays as it is.
Loop(Body(_), s, n) == FoldLeft(LAMBDA t, i : Body(t), s, [i \in 1 .. n |-> i])

-----------------------------------------------------------------------------
(* ml_inet.c                                                                 *)

Word == BYTE * BYTE
Acc == Word * Word

\* The words of a buffer in network order; the last byte of an odd number is
\* the upper half of a word.
InetWords(buf) ==
  [i \in 1 .. (Len(buf) + 1) \div 2 |->
     BYTE * buf[2 * i - 1] + (IF 2 * i <= Len(buf) THEN buf[2 * i] ELSE 0)]

ml_inet_checksum_acc(acc, buf) == FoldLeft(LAMBDA a, w : (a + w) % Acc, acc, InetWords(buf))

Folded(acc) == (acc \div Word) + (acc % Word)

\* Mutant: the carry of the first folding is dropped.
ml_inet_checksum_end_once(acc) == Word - 1 - (Folded(acc) % Word)

ml_inet_checksum_end(acc) ==
  LET once == Folded(acc)
      twice == IF once >= Word THEN Folded(once) ELSE once
  IN  Word - 1 - (twice % Word)

ml_inet_checksum(buf) == ml_inet_checksum_end(ml_inet_checksum_acc(0, buf))

\* The sum of ones' complement arithmetic, in which the carry is added again,
\* and zero has two forms: only a sum of zeroes gives the first.
OnesComplementSum(n) == IF n = 0 THEN 0 ELSE ((n - 1) % (Word - 1)) + 1

-----------------------------------------------------------------------------
(* ml_strip() of ml.c, and parse_command() of ml_shell.c. A line is a        *)
(* sequence of the names of its characters.                                  *)

Characters == {"letter", "space", "tab", "quote", "backslash"}
Whitespace == {"space", "tab"}

ml_strip(line) ==
  LET text == {i \in DOMAIN line : line[i] \notin Whitespace}
  IN  IF text = {} THEN <<>> ELSE SubSeq(line, Min(text), Max(text))

\* One character of the loop of parse_argument(), at position i. Quotes, and
\* the backslash before a quote, are removed from the line itself; q: in_quote.
parse_argument_step(a) ==
  LET At(c) == a.i <= Len(a.line) /\ a.line[a.i] = c
      escape == At("backslash") /\ a.i < Len(a.line) /\ a.line[a.i + 1] = "quote"
  IN  CASE a.end \/ a.i > Len(a.line) -> a
        [] escape -> [a EXCEPT !.line = RemoveAt(@, a.i), !.i = @ + 1]
        [] At("quote") -> [a EXCEPT !.line = RemoveAt(@, a.i), !.q = ~@]
        [] At("space") /\ ~a.q -> [a EXCEPT !.end = TRUE]
        [] OTHER -> [a EXCEPT !.i = @ + 1]

parse_argument(line) ==
  LET a == Loop(parse_argument_step, [line |-> line, i |-> 1, q |-> FALSE, end |-> FALSE],
                Len(line))
  IN  [argument |-> SubSeq(a.line, 1, a.i - 1),
       rest |-> SubSeq(a.line, a.i + 1, Len(a.line)),
       ok |-> ~a.q]

\* Mutant: white space before an argument is left in place.
parse_command_step_no_strip(c) ==
  IF ~c.ok \/ c.line = <<>> THEN c
  ELSE IF Len(c.argv) = ARGS_MAX THEN [c EXCEPT !.ok = FALSE]
  ELSE LET a == parse_argument(c.line)
       IN  [line |-> a.rest, argv |-> Append(c.argv, a.argument), ok |-> a.ok]

parse_command_step(c) ==
  IF ~c.ok \/ c.line = <<>> THEN c
  ELSE IF Len(c.argv) = ARGS_MAX THEN [c EXCEPT !.ok = FALSE]
  ELSE LET a == parse_argument(ml_strip(c.line))
       IN  [line |-> a.rest, argv |-> Append(c.argv, a.argument), ok |-> a.ok]

Refused == [ok |-> FALSE, argv |-> <<>>]

parse_command(line) ==
  LET text == ml_strip(line)
      c == Loop(parse_command_step, [line |-> text, argv |-> <<>>, ok |-> TRUE], Len(text))
  IN  IF text = <<>> \/ ~c.ok THEN Refused ELSE [ok |-> TRUE, argv |-> c.argv]

\* What a command line means, character by character from left to right: words
\* are separated by spaces, white space before a word does not count, quotes
\* protect spaces, and a backslash protects a quote and is itself otherwise.
Meaning(line) ==
  LET Put(s, c) == [s EXCEPT !.word = Append(@, c), !.begun = TRUE, !.esc = FALSE]
      Plain(s, c) ==
        CASE c = "quote" -> [s EXCEPT !.q = ~@, !.begun = TRUE]
          [] c = "backslash" -> [s EXCEPT !.esc = TRUE, !.begun = TRUE]
          [] c \in Whitespace /\ ~s.begun -> s
          [] c = "space" /\ ~s.q ->
               [s EXCEPT !.words = Append(@, s.word), !.word = <<>>, !.begun = FALSE]
          [] OTHER -> Put(s, c)
      Next(s, c) ==
        CASE s.esc /\ c = "quote" -> Put(s, c)
          [] s.esc /\ c # "quote" -> Plain(Put(s, "backslash"), c)
          [] OTHER -> Plain(s, c)
      s == FoldLeft(Next, [words |-> <<>>, word |-> <<>>, begun |-> FALSE, q |-> FALSE, esc |-> FALSE],
                    ml_strip(line))
      last == IF s.esc THEN Append(s.word, "backslash") ELSE s.word
      words == Append(s.words, last)
  IN  IF s.q \/ ~s.begun \/ Len(words) > ARGS_MAX THEN Refused ELSE [ok |-> TRUE, argv |-> words]

-----------------------------------------------------------------------------
(* hexdump() and ml_hexdump_file() of ml.c. A byte of a file is its position *)
(* in the file; a line is its address and its bytes.                         *)

hexdump(buf, offset) ==
  [l \in 1 .. (Len(buf) + LINE_SIZE - 1) \div LINE_SIZE |->
     LET pos == (l - 1) * LINE_SIZE
     IN  [address |-> offset + pos,
          bytes |-> SubSeq(buf, pos + 1, Min({pos + LINE_SIZE, Len(buf)}))]]

\* Mutant: the size is not counted down.
hexdump_chunk_keep_size(length, h) ==
  LET wanted == IF 0 <= h.size /\ h.size < BUF_SIZE THEN h.size ELSE BUF_SIZE
      got == Max({0, Min({wanted, length - h.offset})})
      buf == [i \in 1 .. got |-> h.offset + i - 1]
  IN  IF h.end THEN h
      ELSE [out |-> h.out \o hexdump(buf, h.offset), offset |-> h.offset + got,
            size |-> h.size, end |-> got < BUF_SIZE]

\* One round of the loop, for a file of the given length. A negative size, -1
\* or what is left of it, is a very large one, or none at all.
hexdump_chunk(length, h) ==
  LET wanted == IF 0 <= h.size /\ h.size < BUF_SIZE THEN h.size ELSE BUF_SIZE
      got == Max({0, Min({wanted, length - h.offset})})
      buf == [i \in 1 .. got |-> h.offset + i - 1]
  IN  IF h.end THEN h
      ELSE [out |-> h.out \o hexdump(buf, h.offset), offset |-> h.offset + got,
            size |-> h.size - got, end |-> got < BUF_SIZE]

ml_hexdump_file(length, offset, size) ==
  LET Round(h) == hexdump_chunk(length, h)
  IN  Loop(Round, [out |-> <<>>, offset |-> offset, size |-> size, end |-> FALSE], length + 1)

-----------------------------------------------------------------------------
\* ntp_time_to_timespec() of ml_ntp_client.c: the era is taken from the uppermost
\* bit of the seconds.
ntp_time_to_timespec(secs) ==
  (IF secs < NTP_ERA \div 2 THEN secs + NTP_ERA ELSE secs) - JAN_1900_TO_1970

=============================================================================
