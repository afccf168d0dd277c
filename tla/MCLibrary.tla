------------------------------ MODULE MCLibrary -----------------------------
(* Model checking instance of Library.                                       *)
EXTENDS Library, TLC

MCInput == <<7, 8, 9>>
MCEntries == <<"x", "y">>
MCLines == BoundedSeq(Characters, 6)
MCBuffers == BoundedSeq(0 .. BYTE - 1, 3)
MCDumped == [length : 0 .. 10, offset : 0 .. 6, size : -1 .. 9]

\* No definition tells two log objects apart.
Symmetry == Permutations(Objects)

=============================================================================
