------------------------------- MODULE Coredump -----------------------------
(* ml_finalize_coredump() of ml.c: the process that the kernel starts for    *)
(* every program that dies. It looks for a directory name that is not taken, *)
(* makes the directory and writes three files into it. Several may run at    *)
(* the same time, and the power may be lost at any point.                    *)
EXTENDS Naturals

CONSTANTS MaximumNumberOfCoredumps,
          Dumps     \* bound on the number of programs that die: their numbers

ASSUME CoredumpAssumption ==
  /\ MaximumNumberOfCoredumps \in Nat \ {0}
  /\ Dumps \subseteq Nat \ {0}

VARIABLES dumper,   \* dumper[d]: the process that writes dump d
          slots,    \* the directories, and whose dump is in each of their files
          durable   \* the same as it is on the disk

dumpVars == <<dumper, slots, durable>>

Slots == 0 .. MaximumNumberOfCoredumps - 1
DumpFiles == {"core", "log", "info"}

\* A directory that is not there, and the files of one that is: 0 for a file
\* that is missing or not complete.
NoDir == [made |-> FALSE, files |-> [f \in DumpFiles |-> 0]]
DumpOf(d) == [made |-> TRUE, files |-> [f \in DumpFiles |-> d]]

\* owed is a history variable: the dump has to be written and kept, since there
\* was room when it began, no other ran beside it, no system call failed, and no
\* lstat() of its slot has failed later.
NotBegun == [pc |-> "idle", slot |-> 0, owed |-> FALSE]
Ended(p) == IF p.owed THEN [p EXCEPT !.pc = "done"] ELSE [NotBegun EXCEPT !.pc = "done"]
Running == {d \in Dumps : dumper[d].pc \notin {"idle", "done"}}
RoomLeft == \E s \in Slots : ~slots[s].made

-----------------------------------------------------------------------------
\* A program dies. The directory of all dumps is made, and entered unless
\* chdir() fails.
ml_finalize_coredump(d) ==
  /\ dumper[d].pc = "idle"
  /\ \A e \in Dumps : e < d => dumper[e].pc # "idle"
  /\ \E p \in {[pc |-> "find", slot |-> 0, owed |-> RoomLeft /\ Running = {}], Ended(NotBegun)} :
       dumper' = [e \in Dumps |-> IF e = d THEN p
                                  ELSE IF e \in Running THEN [dumper[e] EXCEPT !.owed = FALSE]
                                  ELSE dumper[e]]
  /\ UNCHANGED <<slots, durable>>

\* One lstat() of the loop of find_slot(). All slots may be taken. A slot passes
\* for free whatever lstat() fails for, also when it is taken: the dump that is in
\* it is no longer safe.
find_slot(d) ==
  LET p == dumper[d]
  IN  /\ p.pc = "find"
      /\ \/ dumper' = [dumper EXCEPT ![d] =
              IF ~slots[p.slot].made THEN [p EXCEPT !.pc = "mkdir"]
              ELSE IF p.slot + 1 < MaximumNumberOfCoredumps THEN [p EXCEPT !.slot = p.slot + 1]
              ELSE Ended(p)]
         \/ /\ slots[p.slot].made
            /\ dumper' = [e \in Dumps |->
                 IF e = d THEN [p EXCEPT !.pc = "mkdir", !.owed = FALSE]
                 ELSE IF dumper[e].pc = "done" /\ dumper[e].slot = p.slot THEN Ended(NotBegun)
                 ELSE dumper[e]]
      /\ UNCHANGED <<slots, durable>>

\* mkdir(), whose result is ignored, also if the directory is there, and chdir(),
\* which fails if it is not, and may fail if it is.
MakeSlot(d) ==
  LET p == dumper[d]
  IN  /\ p.pc = "mkdir"
      /\ \E made \in {TRUE, slots[p.slot].made} :
           /\ slots' = [slots EXCEPT ![p.slot].made = made]
           /\ \/ made /\ dumper' = [dumper EXCEPT ![d].pc = "core"]
              \/ dumper' = [dumper EXCEPT ![d] = Ended([p EXCEPT !.owed = FALSE])]
      /\ UNCHANGED durable

\* The file is written, written in part, or not opened at all.
WriteFile(d, file, next) ==
  LET p == dumper[d]
  IN  /\ p.pc = file
      /\ \E w \in {d, 0, slots[p.slot].files[file]} :
           /\ slots' = [slots EXCEPT ![p.slot].files[file] = w]
           /\ dumper' = [dumper EXCEPT ![d].pc = next, ![d].owed = @ /\ w = d]
      /\ UNCHANGED durable

write_core(d) == WriteFile(d, "core", "log")
write_log(d) == WriteFile(d, "log", "info")
write_info(d) == WriteFile(d, "info", "sync")

\* Mutant: the process exits without sync().
Sync_none(d) ==
  /\ dumper[d].pc = "sync"
  /\ dumper' = [dumper EXCEPT ![d] = Ended(@)]
  /\ UNCHANGED <<slots, durable>>

\* sync() writes everything to the disk, and the process exits.
Sync(d) ==
  /\ dumper[d].pc = "sync"
  /\ durable' = slots
  /\ dumper' = [dumper EXCEPT ![d] = Ended(@)]
  /\ UNCHANGED slots

\* The power is lost. Of what was not synced, any slot may be there or not.
PowerLoss ==
  /\ \E lost \in SUBSET Slots :
       slots' = [s \in Slots |-> IF s \in lost THEN durable[s] ELSE slots[s]]
  /\ durable' = slots'
  /\ dumper' = [d \in Dumps |-> IF d \in Running THEN Ended(NotBegun) ELSE dumper[d]]

DumpInit ==
  /\ dumper = [d \in Dumps |-> NotBegun]
  /\ slots = [s \in Slots |-> NoDir]
  /\ durable = slots

DumpNext ==
  \/ \E d \in Dumps :
       \/ ml_finalize_coredump(d) \/ find_slot(d) \/ MakeSlot(d)
       \/ write_core(d) \/ write_log(d) \/ write_info(d) \/ Sync(d)
  \/ PowerLoss

\* A dump is written unless as many as allowed are there already, and is then
\* left alone. One that began when there was room, that no other ran beside and
\* in which no call failed, is complete in a slot of its own when it ends, on
\* the disk too; and nothing changes it later: no other dump, no two dumps that
\* race for a slot or share one, no loss of power. The exception is a later dump
\* whose lstat() of this very slot fails: it overwrites the files.
DumpsAreKept ==
  \A d \in Dumps :
    dumper[d].pc = "done" /\ dumper[d].owed =>
      slots[dumper[d].slot] = DumpOf(d) /\ durable[dumper[d].slot] = DumpOf(d)

=============================================================================
