-------------------------------- MODULE Shell -------------------------------
(* The shell thread of ml_shell.c: it reads a character at a time, edits a   *)
(* line of limited length, walks and searches the history, completes command *)
(* names and keeps the terminal up to date by printing differences.          *)
(*                                                                           *)
(* module.prev_line is the line when a key was pressed. Nothing else changes *)
(* the line before it is shown, so it is the unprimed value of line.         *)
(* carriage_return_received only adds a \r to the newline that is printed;   *)
(* it is left out.                                                           *)
EXTENDS Terminal, SequencesExt

CONSTANTS COMMAND_MAX,
          MAXIMUM_HISTORY_LENGTH,
          Printable,     \* the characters that are typed, blank among them
          Unprintable,   \* other bytes that are typed and that are no key: Ctrl+L, UTF-8
          Names,         \* of the registered commands, sorted by ml_shell_start()
          Exit,          \* the line "exit"
          MallocFails    \* whether memory for the history may be short

\* The characters of a line: those that are typed or completed.
Characters == Printable \cup Unprintable \cup UNION {Range(Names[i]) : i \in DOMAIN Names}

NUL == "NUL"
FORM_FEED == "^L"

\* What strncmp() compares of a name.
Take(s, n) == SubSeq(s, 1, Min({n, Len(s)}))

\* In a sorted table the names that begin alike are next to each other.
ASSUME ShellAssumption ==
  /\ Names \in Seq(Seq(Characters))
  /\ COMMAND_MAX \in Nat \ {0}
  /\ MAXIMUM_HISTORY_LENGTH \in Nat \ {0}
  /\ BLANK \in Printable /\ NUL \notin Characters
  /\ Unprintable \cap Printable = {}
  /\ \A i \in 1 .. Len(Names) : Len(Names[i]) \in 1 .. COMMAND_MAX - 1
  /\ \A i, j, k \in 1 .. Len(Names), n \in 0 .. COMMAND_MAX :
       i <= j /\ j <= k /\ Take(Names[i], n) = Take(Names[k], n)
         => Take(Names[j], n) = Take(Names[i], n)
  /\ MallocFails \in BOOLEAN

VARIABLES line,       \* contents and cursor; the length is that of the contents
          mode,       \* what the next character is read for
          history,    \* from head_p to tail_p
          current,    \* position of current_p, 0 for NULL
          saved,      \* history.line, empty while it is not valid
          lineValid,  \* history.line_valid
          pattern,    \* of the search; empty when none is going on
          match,      \* what the search found
          term,       \* the row of the terminal with the cursor
          origin      \* history: the line when the walk through history began

historyVars == <<history, current, saved, lineValid, origin>>
searchVars == <<pattern, match>>
vars == <<line, mode, historyVars, searchVars, term>>

Room == COMMAND_MAX - 1
PROMPT == <<"$", BLANK>>
SEARCH == [i \in 1 .. 17 |-> "?"]     \* (history-search)`
FOUND == <<"'", ":", BLANK>>

-----------------------------------------------------------------------------
(* struct line_t                                                             *)

AtEnd(buf) == [buf |-> buf, cursor |-> Len(buf)]
line_init == AtEnd(<<>>)

line_insert(l, ch) ==
  IF Len(l.buf) = Room THEN l
  ELSE [buf |-> InsertAt(l.buf, l.cursor + 1, ch), cursor |-> l.cursor + 1]

line_insert_string(l, s) ==
  LET inserted[i \in 0 .. Len(s)] == IF i = 0 THEN l ELSE line_insert(inserted[i - 1], s[i])
  IN  inserted[Len(s)]

line_delete(l) ==
  IF l.cursor = Len(l.buf) THEN l ELSE [l EXCEPT !.buf = RemoveAt(@, l.cursor + 1)]

line_truncate(l) == [l EXCEPT !.buf = SubSeq(@, 1, l.cursor)]

line_seek(l, pos) ==
  IF l.cursor + pos \in 0 .. Len(l.buf) THEN [l EXCEPT !.cursor = @ + pos] ELSE l

line_seek_begin(l) == [l EXCEPT !.cursor = 0]
line_seek_end(l) == AtEnd(l.buf)

-----------------------------------------------------------------------------
(* The terminal                                                              *)

print_prompt(t) == Write(t, PROMPT)

\* A terminal does anything but fill a cell with a byte that is not printable.
Show(t, s) == IF Range(s) \cap Unprintable = {} THEN Write(t, s) ELSE Garbled

SamePrefix(prev, new) ==
  LET same == Min({Len(prev.buf), Len(new.buf)})
  IN  SubSeq(new.buf, 1, same) = SubSeq(prev.buf, 1, same)

\* Mutant: where the new cursor is does not matter.
OnlyEndChanged_any_cursor(prev, new) == SamePrefix(prev, new)

OnlyEndChanged(prev, new) == SamePrefix(prev, new) /\ new.cursor = Len(new.buf)

Backspace(t) == Left(Write(Left(t, 1), <<BLANK>>), 1)

\* Overwrite the rest of the old line with blanks, and go back over its end.
Shrink(t, prev, newLength) ==
  LET length == Len(prev.buf)
      blanks == Write(t, [i \in 1 .. length - prev.cursor |-> BLANK])
  IN  FoldLeft(LAMBDA s, i : Backspace(s), blanks, [i \in 1 .. length - newLength |-> i])

\* Print the difference between what is shown and the new line.
show_line(prev, new, t) ==
  LET length == Len(prev.buf)
      newLength == Len(new.buf)
      back(s) == IF new.cursor < newLength THEN Left(s, newLength - new.cursor) ELSE s
  IN  IF new.buf # prev.buf
        THEN IF OnlyEndChanged(prev, new)
               THEN IF length < newLength
                      THEN Show(t, SubSeq(new.buf, prev.cursor + 1, newLength))
                      ELSE Shrink(t, prev, newLength)
               ELSE back(Show(Erase(IF prev.cursor > 0 THEN Left(t, prev.cursor) ELSE t),
                              new.buf))
        ELSE IF prev.cursor < new.cursor THEN Right(t, new.cursor - prev.cursor)
        ELSE IF new.cursor < prev.cursor THEN Left(t, prev.cursor - new.cursor)
        ELSE t

-----------------------------------------------------------------------------
(* The end of the handling of a key in read_command()                        *)

Finish(l, t) ==
  /\ line' = l
  /\ term' = show_line(line, l, t)
  /\ mode' = "line"

\* Mutant: a command is appended although it is at the end already.
history_append_always(command, allocated) ==
  LET room == IF Len(history) = MAXIMUM_HISTORY_LENGTH THEN Tail(history) ELSE history
  IN  IF allocated THEN Append(room, command) ELSE room

history_append(command, allocated) ==
  LET room == IF Len(history) = MAXIMUM_HISTORY_LENGTH THEN Tail(history) ELSE history
  IN  IF history # <<>> /\ Last(history) = command THEN history
      ELSE IF allocated THEN Append(room, command) ELSE room

\* Of the characters that are stripped, the others are keys.
ml_strip(s) ==
  LET text == {i \in 1 .. Len(s) : s[i] \notin {BLANK, FORM_FEED}}
  IN  IF text = {} THEN <<>> ELSE SubSeq(s, Min(text), Max(text))

\* What is done with a line that was read. The commands do not touch what is
\* modelled here; read_command() is called again with an empty line.
shell_main(l) ==
  /\ line' = line_init
  /\ IF ml_strip(l.buf) = Exit
       THEN mode' = "ended" /\ term' = EmptyRow
       ELSE mode' = "line" /\ term' = print_prompt(EmptyRow)

\* The saved line stays valid.
execute_line(l) ==
  /\ \E allocated \in {TRUE, ~MallocFails} :
       history' = IF l.buf = <<>> THEN history ELSE history_append(l.buf, allocated)
  /\ current' = 0
  /\ origin' = <<>>
  /\ UNCHANGED <<saved, lineValid>>
  /\ shell_main(l)

-----------------------------------------------------------------------------
(* Completion                                                                *)

CharAt(s, n) == IF n < Len(s) THEN s[n + 1] ELSE NUL
Matching(buf, size) == {i \in 1 .. Len(Names) : Take(Names[i], size) = Take(buf, size)}

\* The commands that match, from the first one on.
Run(first, buf, size) ==
  {i \in first .. Len(Names) : first .. i \subseteq Matching(buf, size)}

\* Mutant: the next character is that of the first command.
auto_complete_command_first(l) ==
  LET size == Len(l.buf)
      matching == Matching(l.buf, size)
      name == Names[Min(matching)]
  IN  IF matching = {} THEN [line |-> l, listed |-> FALSE]
      ELSE [line |-> line_insert_string(l, Append(SubSeq(name, size + 1, Len(name)), BLANK)),
            listed |-> FALSE]

\* Insert characters as long as the commands agree on the next one, and a
\* blank at the end of a name. Without any, the commands are listed.
auto_complete_command(l) ==
  LET size == Len(l.buf)
      matching == Matching(l.buf, size)
      first == Min(matching)
      name == Names[first]
      after(k) == line_insert_string(l, SubSeq(name, size + 1, size + k))
      mismatch(k) == \E i \in Run(first, after(k).buf, size + k) :
                       CharAt(Names[i], size + k) # CharAt(name, size + k)
      stop == Min({k \in 0 .. Len(name) - size : mismatch(k) \/ size + k = Len(name)})
  IN  IF matching = {} THEN [line |-> l, listed |-> FALSE]
      ELSE IF mismatch(stop) THEN [line |-> after(stop), listed |-> stop = 0]
      ELSE [line |-> line_insert(after(stop), BLANK), listed |-> FALSE]

-----------------------------------------------------------------------------
(* Keys                                                                      *)

Editing == mode = "line" /\ UNCHANGED <<historyVars, searchVars>>

handle_tab ==
  LET c == auto_complete_command(line)
  IN  /\ Editing
      /\ Finish(c.line, IF c.listed THEN Show(print_prompt(EmptyRow), line.buf) ELSE term)

handle_carrige_return == Editing /\ Finish(line, term)

handle_newline ==
  /\ mode = "line"
  /\ execute_line(line)
  /\ UNCHANGED searchVars

handle_backspace ==
  Editing /\ Finish(IF line.cursor = 0 THEN line ELSE line_delete(line_seek(line, -1)), term)

handle_ctrl_a == Editing /\ Finish(line_seek_begin(line), term)
handle_ctrl_e == Editing /\ Finish(line_seek_end(line), term)
handle_ctrl_d == Editing /\ Finish(line_delete(line), term)
handle_ctrl_k == Editing /\ Finish(line_truncate(line), term)

\* Swap the character at the cursor, or the last one, with the one before.
handle_ctrl_t ==
  LET l == IF line.cursor = Len(line.buf) THEN line_seek(line, -1) ELSE line
      ch == l.buf[l.cursor + 1]
  IN  /\ Editing
      /\ Finish(IF line.cursor = 0 \/ Len(line.buf) < 2 THEN line
                ELSE line_seek(line_insert(line_seek(line_delete(l), -1), ch), 1), term)

\* Whatever is no key is inserted.
handle_other(ch) == Editing /\ Finish(line_insert(line, ch), term)

-----------------------------------------------------------------------------
(* Escape sequences, ALT and what follows it. Nothing happens between the    *)
(* characters of a sequence: it is one key.                                  *)

\* Blanks at the cursor and the word after them are deleted.
DeleteWord(l) ==
  LET rest == l.cursor + 1 .. Len(l.buf)
      word == Min({i \in rest : l.buf[i] # BLANK} \cup {Len(l.buf) + 1})
      end == Min({i \in rest : i > word /\ l.buf[i] = BLANK} \cup {Len(l.buf) + 1})
  IN  [l EXCEPT !.buf = SubSeq(@, 1, l.cursor) \o SubSeq(@, end, Len(@))]

AltD == Editing /\ Finish(DeleteWord(line), term)
Home == Editing /\ Finish(line_seek_begin(line), term)
End == Editing /\ Finish(line_seek_end(line), term)
ArrowRight == Editing /\ Finish(line_seek(line, 1), term)
ArrowLeft == Editing /\ Finish(line_seek(line, -1), term)
UnknownSequence == Editing /\ Finish(line, term)

Recall(buf) == line_insert_string(line_init, buf)

\* Mutant: each UP saves the line.
history_get_previous_command_saves ==
  /\ current # Min({1, Len(history)})
  /\ current' = IF current = 0 THEN Len(history) ELSE current - 1
  /\ saved' = line.buf /\ lineValid' = TRUE

\* The element before the current one, or the last one for the first UP,
\* which saves the line.
history_get_previous_command ==
  /\ current # Min({1, Len(history)})
  /\ current' = IF current = 0 THEN Len(history) ELSE current - 1
  /\ IF current = 0 THEN saved' = line.buf /\ lineValid' = TRUE
                    ELSE UNCHANGED <<saved, lineValid>>

Up ==
  /\ mode = "line"
  /\ \/ /\ history_get_previous_command
        /\ Finish(Recall(history[current']), term)
        /\ origin' = IF current = 0 THEN line.buf ELSE origin
     \/ /\ current = Min({1, Len(history)})
        /\ Finish(line, term)
        /\ UNCHANGED <<current, saved, lineValid, origin>>
  /\ UNCHANGED <<history, searchVars>>

\* The element after the current one, or the line that was saved.
Down ==
  LET next == IF current \in {0, Len(history)} THEN 0 ELSE current + 1
  IN  /\ mode = "line"
      /\ current' = next
      /\ IF next # 0
           THEN Finish(Recall(history[next]), term) /\ UNCHANGED lineValid
           ELSE /\ Finish(IF lineValid THEN Recall(saved) ELSE line, term)
                /\ lineValid' = FALSE
      /\ saved' = IF next = 0 THEN <<>> ELSE saved
      /\ origin' = IF next = 0 THEN <<>> ELSE origin
      /\ UNCHANGED <<history, searchVars>>

-----------------------------------------------------------------------------
(* Ctrl+R                                                                    *)

\* The length of the line is taken for the distance to its beginning.
handle_ctrl_r ==
  /\ mode = "line"
  /\ mode' = "search"
  /\ pattern' = <<>> /\ match' = <<>>
  /\ term' = LET begin == IF line.buf = <<>> THEN term ELSE Left(term, Len(line.buf))
             IN  Left(Write(Erase(begin), SEARCH \o FOUND), 3)
  /\ UNCHANGED <<line, historyVars>>

\* Mutant: the first one is returned.
history_reverse_search_oldest(p) ==
  LET i == SelectInSeq(history, LAMBDA h : p \in SubSeqs(h))
  IN  IF i = 0 THEN <<>> ELSE history[i]

history_reverse_search(p) ==
  LET i == SelectLastInSeq(history, LAMBDA h : p \in SubSeqs(h))
  IN  IF i = 0 THEN <<>> ELSE history[i]

ShowMatch(t) == Left(Show(t, FOUND \o match'), Len(match') + 3)

SearchDelete ==
  /\ mode = "search"
  /\ pattern # <<>>
  /\ pattern' = Front(pattern)
  /\ match' = history_reverse_search(pattern')
  /\ term' = ShowMatch(Erase(Left(term, 1)))
  /\ UNCHANGED <<line, mode, historyVars>>

SearchInsert(ch) ==
  /\ mode = "search"
  /\ Len(pattern) < Room
  /\ pattern' = Append(pattern, ch)
  /\ match' = history_reverse_search(pattern')
  /\ term' = ShowMatch(Write(Erase(term), <<ch>>))
  /\ UNCHANGED <<line, mode, historyVars>>

SearchCarriageReturn == mode = "search" /\ UNCHANGED vars

restore_previous_line ==
  LET t == Show(Erase(Left(term, 17 + Len(pattern))), line.buf)
  IN  IF line.cursor = Len(line.buf) THEN t ELSE Left(t, Len(line.buf) - line.cursor)

SearchEnd(l) ==
  /\ mode = "search"
  /\ Finish(l, restore_previous_line)
  /\ pattern' = <<>> /\ match' = <<>>
  /\ UNCHANGED historyVars

SearchAbort == SearchEnd(line)

\* Any other key that is not printable; all of an escape sequence is read.
SearchAccept == SearchEnd(AtEnd(match))

SearchNewline ==
  /\ mode = "search"
  /\ execute_line(AtEnd(match))
  /\ pattern' = <<>> /\ match' = <<>>

-----------------------------------------------------------------------------
Reading == mode \notin {"ended", "exited"}

\* history_init(), and the first call of read_command().
Init ==
  /\ line = line_init
  /\ mode = "line"
  /\ history = <<>> /\ current = 0 /\ saved = <<>> /\ lineValid = FALSE
  /\ pattern = <<>> /\ match = <<>> /\ origin = <<>>
  /\ term = EmptyRow

\* The end of the input ends the process, and nothing of its state is left.
xgetc_eof ==
  /\ Reading
  /\ mode' = "exited"
  /\ line' = line_init
  /\ history' = <<>> /\ current' = 0 /\ saved' = <<>> /\ lineValid' = FALSE
  /\ pattern' = <<>> /\ match' = <<>> /\ origin' = <<>>
  /\ term' = EmptyRow

Next ==
  \/ handle_tab \/ handle_carrige_return \/ handle_newline \/ handle_backspace
  \/ handle_ctrl_a \/ handle_ctrl_e \/ handle_ctrl_d \/ handle_ctrl_k \/ handle_ctrl_t
  \/ AltD \/ Home \/ End \/ ArrowRight \/ ArrowLeft \/ Up \/ Down \/ UnknownSequence
  \/ handle_ctrl_r \/ SearchDelete \/ SearchCarriageReturn \/ SearchAbort
  \/ SearchAccept \/ SearchNewline
  \/ \E ch \in Printable \cup Unprintable : handle_other(ch)
  \/ \E ch \in Printable : SearchInsert(ch)
  \/ xgetc_eof

Spec == Init /\ [][Next]_vars

-----------------------------------------------------------------------------
Buffers == UNION {[1 .. n -> Characters] : n \in 0 .. Room}

\* Every variable has its type: all lines fit in their buffers with the
\* terminating null, and the cursor is inside the line.
TypeOK ==
  /\ line \in [buf : Buffers, cursor : 0 .. Room] /\ line.cursor <= Len(line.buf)
  /\ mode \in {"line", "search", "ended", "exited"}
  /\ lineValid \in BOOLEAN
  /\ history \in Seq(Buffers)
  /\ current \in 0 .. Len(history)
  /\ {saved, pattern, match, origin} \subseteq Buffers

\* The history stays within its limit and has no line twice in a row, nor an
\* empty one, also when memory is short; walking through it always has a line
\* to come back to. With the types of the variables: all lines fit in their
\* buffers.
HistoryIsSound ==
  /\ TypeOK
  /\ Len(history) <= MAXIMUM_HISTORY_LENGTH
  /\ \A i \in 1 .. Len(history) : history[i] # <<>>
  /\ \A i \in 2 .. Len(history) : history[i] # history[i - 1]
  /\ current # 0 => lineValid

\* DOWN after the last element of the history gives back the line that was
\* being edited when UP was pressed first, whatever was edited in between.
DownReturns ==
  [][current # 0 /\ current' = 0 /\ Down => line' = AtEnd(origin)]_vars

\* The match is the latest command with the pattern in it, also after
\* characters of the pattern were deleted. A search starts without one.
MatchIsLatest ==
  LET found == {i \in 1 .. Len(history) : pattern \in SubSeqs(history[i])}
  IN  mode = "search" =>
        \/ pattern = <<>> /\ match = <<>>
        \/ match = IF found = {} THEN <<>> ELSE history[Max(found)]

\* TAB at the end of the line completes it to what all commands that begin
\* with it have in common, and adds a blank if there is only one; the blank is
\* dropped if the line is full.
CompletionIsCommon ==
  [][line.cursor = Len(line.buf) /\ handle_tab =>
       LET names == {n \in Range(Names) : IsPrefix(line.buf, n)}
           common == LongestCommonPrefix(names)
           whole == IF Cardinality(names) = 1 /\ Len(common) < Room
                      THEN Append(common, BLANK) ELSE common
       IN  line'.buf = IF names = {} THEN line.buf ELSE whole]_vars

\* There is no prompt before the first command.
LineShown(t) ==
  \E p \in {<<>>, PROMPT} :
    t = [row |-> Trim(p \o line.buf), col |-> Len(p) + line.cursor]
SearchShown(t) ==
  \E p \in {<<>>, PROMPT} :
    t = [row |-> Trim(p \o SEARCH \o pattern \o FOUND \o match),
         col |-> Len(p \o SEARCH \o pattern)]

\* The terminal shows the line with its cursor, or the search.
Shown ==
  /\ mode = "search" => SearchShown(term)
  /\ mode = "line" => LineShown(term)

\* Printing only differences keeps what is shown in step with the line, with
\* these exceptions. A byte that is not printable is counted as a cell and is none:
\* a line or a match that gets one is not shown. And when the cursor is not at the
\* end of the line three things go wrong: a line from the history that begins the
\* shown one (the blanks that move the cursor wipe it out), Ctrl+R, and TAB that
\* lists commands.
ScreenFollowsLine ==
  [][Shown =>
       \/ Shown'
       \/ Range(line'.buf \o match') \cap Unprintable # {}
       \/ /\ line.cursor < Len(line.buf)
          /\ Up \/ Down \/ SearchAccept \/ handle_ctrl_r \/ (handle_tab /\ line' = line)]_vars
=============================================================================
