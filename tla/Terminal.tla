------------------------------ MODULE Terminal ------------------------------
(* One row of a terminal that understands the control sequences the shell    *)
(* prints. The row is wide enough. A blank cell and an erased one look the   *)
(* same: a row does not end in blanks.                                       *)
EXTENDS Integers, Sequences, FiniteSetsExt

BLANK == " "

Trim(s) ==
  SubSeq(s, 1, CHOOSE n \in 0 .. Len(s) : /\ n = 0 \/ s[n] # BLANK
                                         /\ \A i \in n + 1 .. Len(s) : s[i] = BLANK)

EmptyRow == [row |-> <<>>, col |-> 0]

\* What is on a row, and where the cursor is, is not known after a byte was
\* printed that is not a character of one cell.
Garbled == [row |-> <<"garbled">>, col |-> 0]
Known(t, new) == IF t = Garbled THEN t ELSE new

Cell(t, i) == IF i <= Len(t.row) THEN t.row[i] ELSE BLANK

\* Printable characters overwrite what is there.
Write(t, s) ==
  LET end == t.col + Len(s)
      cells == [i \in 1 .. Max({Len(t.row), end}) |->
                  IF i \in t.col + 1 .. end THEN s[i - t.col] ELSE Cell(t, i)]
  IN  Known(t, [row |-> Trim(cells), col |-> end])

\* CUB and CUF. Zero means one, and the cursor stops at the first column.
Left(t, n) == Known(t, [t EXCEPT !.col = Max({0, @ - Max({1, n})})])
Right(t, n) == Known(t, [t EXCEPT !.col = @ + Max({1, n})])

\* EL: erase from the cursor to the end.
Erase(t) == Known(t, [t EXCEPT !.row = Trim(SubSeq(@, 1, Min({Len(@), t.col})))])
=============================================================================
