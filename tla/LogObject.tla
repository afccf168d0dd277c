------------------------------ MODULE LogObject -----------------------------
(* The log objects of ml_log_object.c: the list that objects are prepended   *)
(* to and that is walked without a lock, their levels, the file the levels   *)
(* are stored to and loaded from, and an application that may be killed at   *)
(* any point of it. A line of the file is an object and a level. The store   *)
(* writes through a buffer of the C library: any part of what was written,   *)
(* and half a line too, may be in the file when the application is killed.   *)
EXTENDS Naturals, Sequences, SequencesExt, FiniteSets

CONSTANTS Objects,  \* log objects that the application may register
          Foreign,  \* a name in the file that no object has
          Levels,   \* the levels that have a name, and their names
          Default,  \* the level objects are initialized with
          Unnamed,  \* any other number
          Unknown,  \* the words "*** unknown ***" that are stored for it
          Bad       \* a word in the file that names no level

None == "none"

ASSUME LogObjectAssumption ==
  /\ Foreign \notin Objects
  /\ {"head", None} \cap Objects = {} /\ None \notin Levels
  /\ Default \in Levels
  /\ {Unnamed, Unknown, Bad} \cap Levels = {} /\ Bad # Unknown

VARIABLES list,   \* module.head_p and the next_p of every object
          level,  \* level of every object
          file,   \* the lines, and how many half lines of them are in the file
          store,  \* a store under way: the object it wrote last, or where it is
          load,   \* a load under way: the lines that it has yet to look at
          log     \* history, for LevelsSurvive

logVars == <<list, level, file, store, load, log>>

NoFile == [exists |-> FALSE, lines |-> <<>>, halves |-> 0]
NoLoad == [active |-> FALSE, lines |-> <<>>]

\* of the last store, or of the file written by hand: the levels every object had
\* during it, the objects there were before, if it wrote everything, and if there
\* was one; and since the start: the objects at the last load, those that were
\* set, and if it ended.
NoHistory ==
  [during |-> [o \in Objects |-> {}], before |-> {}, complete |-> FALSE, stored |-> FALSE,
   present |-> {}, set |-> {}, loaded |-> FALSE]

Line(o, l) == [object |-> o, level |-> l]
Registered == Range(list)

-----------------------------------------------------------------------------
(* Registration and levels                                                   *)

ml_log_object_register(o) ==
  /\ o \notin Registered
  /\ list' = <<o>> \o list
  /\ level' = [level EXCEPT ![o] = Default]
  /\ UNCHANGED <<file, store, load, log>>

\* The application may set any number.
ml_log_object_set_level(o, l) ==
  /\ o \in Registered
  /\ level' = [level EXCEPT ![o] = l]
  /\ log' = [log EXCEPT !.set = @ \cup {o},
                        !.during[o] = IF store = None THEN @ ELSE @ \cup {l}]
  /\ UNCHANGED <<list, file, store, load>>

\* The object after o, or the head; NULL ends the walk.
ml_log_object_list_next(o) ==
  IF o = "head" THEN IF list = <<>> THEN None ELSE list[1]
  ELSE LET i == CHOOSE i \in DOMAIN list : list[i] = o
       IN  IF i = Len(list) THEN None ELSE list[i + 1]

ml_log_object_get_by_name(name) == IF name \in Registered THEN name ELSE None
ml_log_object_level_to_string(l) == IF l \in Levels THEN l ELSE Unknown
ml_log_object_level_from_string(word) == IF word \in Levels THEN word ELSE None

\* Of the shell; what is refused changes nothing.
command_log_set_level(name, word) ==
  /\ ml_log_object_get_by_name(name) # None
  /\ ml_log_object_level_from_string(word) # None
  /\ ml_log_object_set_level(name, word)

-----------------------------------------------------------------------------
(* ml_log_object_store(), one action per fopen(), fprintf() and fclose(). An *)
(* fopen() that fails changes nothing.                                       *)

StoreOpen ==
  /\ store = None /\ ~load.active
  /\ store' = "head"
  /\ file' = [exists |-> TRUE, lines |-> <<>>, halves |-> 0]
  /\ log' = [log EXCEPT !.during = [o \in Objects |-> {level[o]}],
                        !.before = Registered, !.complete = FALSE, !.stored = TRUE]
  /\ UNCHANGED <<list, level, load>>

StoreLine ==
  LET o == ml_log_object_list_next(store)
  IN  /\ store # None /\ o # None
      /\ store' = o
      /\ file' = [file EXCEPT !.lines = Append(@, Line(o, ml_log_object_level_to_string(level[o])))]
      /\ UNCHANGED <<list, level, load, log>>

\* The C library writes a part of its buffer.
StoreFlush ==
  /\ store # None
  /\ \E n \in file.halves + 1 .. 2 * Len(file.lines) : file' = [file EXCEPT !.halves = n]
  /\ UNCHANGED <<list, level, store, load, log>>

\* fclose() writes the rest of the buffer, or a part of it if the disk is full:
\* nobody looks at its result, and the caller gets zero either way.
StoreClose ==
  /\ store # None
  /\ ml_log_object_list_next(store) = None
  /\ \E n \in file.halves .. 2 * Len(file.lines) :
       /\ file' = [file EXCEPT !.halves = n,
                               !.lines = SubSeq(@, 1, (n + 1) \div 2)]
       /\ log' = [log EXCEPT !.complete = (n = 2 * Len(file.lines))]
  /\ store' = None
  /\ UNCHANGED <<list, level, load>>

-----------------------------------------------------------------------------
(* ml_log_object_load(). The file is read at once, its lines applied one by  *)
(* one. A line without its newline ends it, and so does one with more than   *)
(* two words.                                                                *)

Readable(f) ==
  LET whole == SubSeq(f.lines, 1, f.halves \div 2)
      ends == {i \in DOMAIN whole : whole[i].level = Unknown}
  IN  IF ends = {} THEN whole
      ELSE SubSeq(whole, 1, (CHOOSE i \in ends : \A j \in ends : i <= j) - 1)

\* An fopen() that fails changes nothing. A load and a store do not overlap:
\* the application loads when it starts, before its shell runs.
LoadOpen ==
  /\ ~load.active /\ store = None
  /\ file.exists
  /\ load' = [active |-> TRUE, lines |-> Readable(file)]
  /\ log' = [log EXCEPT !.present = Registered, !.loaded = FALSE]
  /\ UNCHANGED <<list, level, file, store>>

\* Mutant: an unknown name or level ends the load.
LoadLine_stop ==
  /\ load.lines # <<>>
  /\ LET line == Head(load.lines)
         known == line.object \in Registered /\ line.level \in Levels
     IN  /\ load' = [load EXCEPT !.lines = IF known THEN Tail(@) ELSE <<>>]
         /\ level' = IF known THEN [level EXCEPT ![line.object] = line.level] ELSE level
  /\ UNCHANGED <<list, file, store, log>>

LoadLine ==
  /\ load.lines # <<>>
  /\ load' = [load EXCEPT !.lines = Tail(@)]
  /\ LET line == Head(load.lines)
         o == ml_log_object_get_by_name(line.object)
         l == ml_log_object_level_from_string(line.level)
     IN  level' = IF o # None /\ l # None THEN [level EXCEPT ![o] = l] ELSE level
  /\ UNCHANGED <<list, file, store, log>>

LoadClose ==
  /\ load.active /\ load.lines = <<>>
  /\ load' = NoLoad
  /\ log' = [log EXCEPT !.loaded = TRUE]
  /\ UNCHANGED <<list, level, file, store>>

-----------------------------------------------------------------------------
(* The application is killed: memory and the buffer of the C library are     *)
(* gone. The file loses what was not written to it, or is lost itself with   *)
(* the file system in memory that it is on by default.                       *)

Killed(f) ==
  /\ list' = <<>>
  /\ level' = [o \in Objects |-> Default]
  /\ file' = f
  /\ store' = None
  /\ load' = NoLoad
  /\ log' = IF f.exists THEN [log EXCEPT !.set = {}, !.loaded = FALSE, !.present = {}]
            ELSE NoHistory

Written == [file EXCEPT !.lines = SubSeq(@, 1, (file.halves + 1) \div 2)]

\* The file may have been written by hand: a line that is to be skipped, and one
\* that counts unless its newline is missing. What counts is what was stored.
LogInit ==
  /\ list = <<>>
  /\ level = [o \in Objects |-> Default]
  /\ \/ file = NoFile /\ log = NoHistory
     \/ \E o \in Objects, l \in Levels \ {Default}, h \in {3, 4} :
          /\ \E first \in {Line(Foreign, l)} \cup {Line(n, Bad) : n \in Objects} :
               file = [exists |-> TRUE, lines |-> <<first, Line(o, l)>>, halves |-> h]
          /\ log = IF h = 3 THEN [NoHistory EXCEPT !.stored = TRUE]
                   ELSE [NoHistory EXCEPT !.stored = TRUE, !.complete = TRUE,
                                          !.before = {o}, !.during[o] = {l}]
  /\ store = None
  /\ load = NoLoad

\* Killed, or switched off.
Die == Killed(Written) \/ Killed(NoFile)

LogNext ==
  \/ \E o \in Objects : ml_log_object_register(o)
  \/ \E o \in Objects, l \in Levels \cup {Unnamed} : ml_log_object_set_level(o, l)
  \/ \E name \in Objects \cup {Foreign}, word \in Levels \cup {Bad} : command_log_set_level(name, word)
  \/ StoreOpen \/ StoreLine \/ StoreFlush \/ StoreClose
  \/ LoadOpen \/ LoadLine \/ LoadClose
  \/ Die

\* A load gives an object that was registered in time, and that nobody has set
\* since the start, the level it had when last stored, or that the file written
\* by hand has for it: no line of another object, of an older file or without
\* its newline is applied, wherever the application was killed and whatever the
\* C library had written by then. If that file is complete, and all levels had
\* names, no level is missing, also behind a line that names no object or no
\* level; otherwise some objects are left with their default.
LevelsSurvive ==
  log.loaded /\ log.stored /\ store = None =>
    \A o \in log.present \ log.set :
      /\ level[o] \in log.during[o] \cup {Default}
      /\ /\ log.complete /\ o \in log.before
         /\ \A p \in Objects : Unnamed \notin log.during[p]
         => level[o] \in log.during[o]

=============================================================================
