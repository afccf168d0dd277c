------------------------------- MODULE MCShell ------------------------------
(* A shell with two commands for model checking.                             *)
EXTENDS Shell

MCNames == <<<<"a", "a">>, <<"a", "b">>>>
MCExit == <<"a", "a">>

\* Bound: with bytes that are not printable the history has at most one line.
MCBound ==
  \/ Len(history) <= 1
  \/ \A s \in Range(history) \cup {line.buf, saved, origin} : Range(s) \cap Unprintable = {}
=============================================================================
