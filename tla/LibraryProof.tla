---------------------------- MODULE LibraryProof ----------------------------
(* Proofs about the parts of the library that Library puts together, for     *)
(* every value of the constants.                                             *)
EXTENDS Library, SequenceTheorems, WellFoundedInduction, TLAPS

-----------------------------------------------------------------------------
(* Dumps of programs that died. A dump that is owed is alone while it is     *)
(* written, so it finds a slot and fills it; afterwards its slot is made, in *)
(* memory and on the disk, and every process that gets past find_slot() has  *)
(* seen its own slot free since, or has made the slot unsafe by an lstat()   *)
(* that failed, and then no dump in it is owed. That is what keeps the races *)
(* that the code allows between other dumps, and a loss of power, away.      *)

Dumpers == [pc : {"idle", "find", "mkdir", "core", "log", "info", "sync", "done"},
            slot : Slots, owed : BOOLEAN]
Directories == [made : BOOLEAN, files : [DumpFiles -> Nat]]

DumpTypeOK ==
  /\ dumper \in [Dumps -> Dumpers]
  /\ slots \in [Slots -> Directories]
  /\ durable \in [Slots -> Directories]

\* Dump d is complete and is kept.
Kept(d) == dumper[d].pc = "done" /\ dumper[d].owed

\* How far the one process that writes an owed dump has come.
Progress(d) ==
  LET p == dumper[d]
      f == slots[p.slot].files
  IN  /\ p.pc = "find" => \E s \in Slots : p.slot <= s /\ ~slots[s].made
      /\ p.pc = "mkdir" => ~slots[p.slot].made
      /\ p.pc \in {"core", "log", "info", "sync"} => slots[p.slot].made
      /\ p.pc \in {"log", "info", "sync"} => f["core"] = d
      /\ p.pc \in {"info", "sync"} => f["log"] = d
      /\ p.pc = "sync" => f["info"] = d

DumpInv ==
  /\ DumpTypeOK
  /\ DumpsAreKept
  /\ \A d \in Dumps : dumper[d].pc = "idle" => ~dumper[d].owed
  /\ \A d \in Running : dumper[d].owed => Running = {d} /\ Progress(d)
  /\ \A e \in Running, d \in Dumps :
       Kept(d) /\ dumper[e].pc # "find" => dumper[e].slot # dumper[d].slot

\* Before any program has died.
LEMMA DumpInitInv == DumpInit => DumpInv
  <1> SUFFICES ASSUME DumpInit PROVE DumpInv
    OBVIOUS
  <1>1. 0 \in Slots
    BY CoredumpAssumption DEF Slots
  <1>2. NotBegun \in Dumpers
    BY <1>1 DEF NotBegun, Dumpers
  <1>3. NoDir \in Directories
    BY DEF NoDir, Directories
  <1>4. DumpTypeOK
    BY <1>2, <1>3 DEF DumpInit, DumpTypeOK
  <1>5. \A d \in Dumps : dumper[d].pc = "idle" /\ dumper[d].owed = FALSE
    BY DEF DumpInit, NotBegun
  <1> QED BY <1>4, <1>5 DEF DumpInv, DumpsAreKept, Running, Kept

\* Another program dies: no running dump is owed any more, and the new one is
\* only if it is alone.
LEMMA BeginDump ==
  ASSUME DumpInv, NEW d \in Dumps, ml_finalize_coredump(d)
  PROVE  DumpInv'
  <1> USE DEF DumpInv
  <1> DEFINE alone == RoomLeft /\ Running = {}
             begun == [pc |-> "find", slot |-> 0, owed |-> alone]
  <1>0. alone \in BOOLEAN /\ begun.pc = "find" /\ begun.slot = 0 /\ begun.owed = alone
    OBVIOUS
  <1>1. PICK p \in {begun, Ended(NotBegun)} :
          dumper' = [e \in Dumps |-> IF e = d THEN p
                                     ELSE IF e \in Running THEN [dumper[e] EXCEPT !.owed = FALSE]
                                     ELSE dumper[e]]
    BY DEF ml_finalize_coredump
  <1> HIDE DEF alone, begun
  <1>2. slots' = slots /\ durable' = durable /\ d \notin Running /\ dumper[d].pc = "idle"
    BY DEF ml_finalize_coredump, Running
  <1>3. 0 \in Slots /\ \A s \in Slots : 0 <= s
    BY CoredumpAssumption DEF Slots
  <1>4. /\ dumper'[d] = p
        /\ p.pc \in {"find", "done"}
        /\ p.slot = 0
        /\ p.owed => p = begun /\ alone
        /\ p \in Dumpers
    <2>1. begun \in Dumpers
      BY <1>0, <1>3 DEF Dumpers, begun
    <2>2. CASE p = begun
      BY <1>0, <1>1, <2>1, <2>2
    <2>3. CASE p = Ended(NotBegun)
      BY <1>1, <1>3, <2>3 DEF Ended, NotBegun, Dumpers
    <2> QED BY <2>2, <2>3
  <1>5. \A e \in Dumps \ {d} :
          /\ dumper'[e].pc = dumper[e].pc
          /\ dumper'[e].slot = dumper[e].slot
          /\ dumper'[e].owed => dumper[e].owed /\ e \notin Running
    <2> SUFFICES ASSUME NEW e \in Dumps \ {d}
                 PROVE  /\ dumper'[e].pc = dumper[e].pc
                        /\ dumper'[e].slot = dumper[e].slot
                        /\ dumper'[e].owed => dumper[e].owed /\ e \notin Running
      OBVIOUS
    <2>1. dumper[e] \in Dumpers
      BY DEF DumpTypeOK
    <2>2. CASE e \in Running
      BY <1>1, <2>1, <2>2 DEF Dumpers
    <2>3. CASE e \notin Running
      BY <1>1, <2>1, <2>3 DEF Dumpers
    <2> QED BY <2>2, <2>3
  <1>6. DumpTypeOK'
    <2>1. \A e \in Dumps : dumper'[e] \in Dumpers
      <3> SUFFICES ASSUME NEW e \in Dumps PROVE dumper'[e] \in Dumpers
        OBVIOUS
      <3>1. dumper[e] \in Dumpers
        BY DEF DumpTypeOK
      <3>2. CASE e = d
        BY <1>4, <3>2
      <3>3. CASE e # d /\ e \in Running
        BY <1>1, <3>1, <3>3 DEF Dumpers
      <3>4. CASE e # d /\ e \notin Running
        BY <1>1, <3>1, <3>4
      <3> QED BY <3>2, <3>3, <3>4
    <2> QED BY <1>1, <1>2, <2>1 DEF DumpTypeOK
  <1>7. DumpsAreKept'
    <2> SUFFICES ASSUME NEW k \in Dumps, dumper'[k].pc = "done", dumper'[k].owed
                 PROVE  /\ slots'[dumper'[k].slot] = DumpOf(k)
                        /\ durable'[dumper'[k].slot] = DumpOf(k)
      BY DEF DumpsAreKept
    <2>1. k # d
      BY <1>0, <1>4
    <2> QED BY <1>2, <1>5, <2>1 DEF DumpsAreKept
  <1>8. ASSUME NEW e \in Dumps, dumper'[e].pc = "idle"
        PROVE  ~dumper'[e].owed
    <2>1. e # d
      BY <1>4, <1>8
    <2> QED BY <1>5, <1>8, <2>1
  <1>9. \A e \in Running' : dumper'[e].owed => Running' = {e} /\ Progress(e)'
    <2> SUFFICES ASSUME NEW e \in Running', dumper'[e].owed
                 PROVE  Running' = {e} /\ Progress(e)'
      OBVIOUS
    <2>1. e = d /\ p.pc = "find" /\ RoomLeft /\ Running = {}
      BY <1>0, <1>4, <1>5 DEF Running, alone
    <2>2. Running' = {d}
      BY <1>4, <1>5, <2>1 DEF Running
    <2>3. Progress(d)'
      BY <1>2, <1>3, <1>4, <2>1 DEF Progress, RoomLeft
    <2> QED BY <2>1, <2>2, <2>3
  <1>10. ASSUME NEW e \in Running', NEW k \in Dumps, Kept(k)', dumper'[e].pc # "find"
         PROVE  dumper'[e].slot # dumper'[k].slot
    <2>1. k # d /\ Kept(k) /\ dumper'[k].slot = dumper[k].slot
      <3>1. k # d
        BY <1>0, <1>4, <1>10 DEF Kept
      <3> QED BY <1>5, <1>10, <3>1 DEF Kept
    <2>2. e # d /\ e \in Running /\ dumper'[e].slot = dumper[e].slot /\ dumper[e].pc # "find"
      <3>1. e # d
        BY <1>4, <1>10 DEF Running
      <3> QED BY <1>5, <1>10, <3>1 DEF Running
    <2> QED BY <2>1, <2>2
  <1> QED BY <1>6, <1>7, <1>8, <1>9, <1>10

\* A step of the process of d that changes at most the slot it is in, and keeps
\* what it owes; other dumps stay, or are no longer owed.
LEMMA DumperStepOf ==
  ASSUME DumpInv, NEW d \in Running,
         NEW q \in Dumpers, dumper' \in [Dumps -> Dumpers], dumper'[d] = q,
         \A e \in Dumps \ {d} : \/ dumper'[e] = dumper[e]
                               \/ /\ dumper[e].pc = "done" /\ dumper'[e].pc = "done"
                                  /\ ~dumper'[e].owed,
         slots' \in [Slots -> Directories], durable' = durable,
         q.pc # "idle",
         \A s \in Slots : slots'[s] = slots[s] \/ (s = dumper[d].slot /\ dumper[d].pc # "find"),
         q.owed => dumper[d].owed /\ q.pc # "done" /\ Progress(d)',
         q.pc \notin {"find", "done"} => q.slot = dumper[d].slot,
         dumper[d].pc = "find" /\ q.pc \notin {"find", "done"} =>
           \A k \in Dumps : Kept(k)' => dumper[k].slot # q.slot
  PROVE  DumpInv'
  <1> USE DEF DumpInv
  <1>1. d \in Dumps /\ dumper'[d] = q
    BY DEF Running
  <1>2. DumpTypeOK'
    BY <1>1 DEF DumpTypeOK
  <1>3. \A k \in Dumps : Kept(k)' => Kept(k) /\ k # d /\ dumper'[k] = dumper[k]
    BY <1>1 DEF Kept
  <1>4. \A k \in Dumps : Kept(k) => dumper[k].slot \in Slots
    BY DEF DumpTypeOK, Dumpers
  <1>5. DumpsAreKept'
    <2> SUFFICES ASSUME NEW k \in Dumps, Kept(k)'
                 PROVE  /\ slots'[dumper'[k].slot] = DumpOf(k)
                        /\ durable'[dumper'[k].slot] = DumpOf(k)
      BY DEF DumpsAreKept, Kept
    <2>1. Kept(k) /\ dumper'[k] = dumper[k] /\ dumper[k].slot \in Slots
      BY <1>3, <1>4
    <2>2. slots[dumper[k].slot] = DumpOf(k) /\ durable[dumper[k].slot] = DumpOf(k)
      BY <2>1 DEF DumpsAreKept, Kept
    <2>3. slots'[dumper[k].slot] = slots[dumper[k].slot]
      BY <2>1
    <2> QED BY <2>1, <2>2, <2>3
  <1>6. \A e \in Dumps : dumper'[e].pc = "idle" => ~dumper'[e].owed
    BY <1>1
  <1>7. \A e \in Running' : dumper'[e].owed => Running' = {e} /\ Progress(e)'
    <2> SUFFICES ASSUME NEW e \in Running', dumper'[e].owed
                 PROVE  Running' = {e} /\ Progress(e)'
      OBVIOUS
    <2>1. e = d
      <3> SUFFICES ASSUME e # d PROVE FALSE
        OBVIOUS
      <3>1. e \in Running /\ dumper[e].owed
        BY DEF Running
      <3> QED BY <3>1
    <2>2. Running = {d}
      BY <1>1, <2>1
    <2>3. Running' = {d}
      BY <1>1, <2>1, <2>2 DEF Running
    <2> QED BY <1>1, <2>1, <2>3
  <1>8. \A e \in Running', k \in Dumps :
          Kept(k)' /\ dumper'[e].pc # "find" => dumper'[e].slot # dumper'[k].slot
    <2> SUFFICES ASSUME NEW e \in Running', NEW k \in Dumps, Kept(k)', dumper'[e].pc # "find"
                 PROVE  dumper'[e].slot # dumper'[k].slot
      OBVIOUS
    <2>1. Kept(k) /\ k # d /\ dumper'[k] = dumper[k] /\ slots[dumper[k].slot] = DumpOf(k)
      BY <1>3 DEF DumpsAreKept, Kept
    <2>2. CASE e # d
      <3>1. e \in Running /\ dumper'[e] = dumper[e]
        BY <1>1, <2>2 DEF Running
      <3> QED BY <2>1, <3>1
    <2>3. CASE e = d /\ dumper[d].pc # "find"
      <3>1. q.slot = dumper[d].slot
        BY <1>1, <2>3 DEF Running
      <3> QED BY <1>1, <2>1, <2>3, <3>1
    <2>4. CASE e = d /\ dumper[d].pc = "find"
      <3>1. q.pc \notin {"find", "done"}
        BY <1>1, <2>4 DEF Running
      <3> QED BY <1>1, <2>1, <2>4, <3>1
    <2> QED BY <2>2, <2>3, <2>4
  <1> QED BY <1>2, <1>5, <1>6, <1>7, <1>8

\* The same when no other process is touched, and d has seen its slot free.
LEMMA DumperStep ==
  ASSUME DumpInv, NEW d \in Running,
         NEW q \in Dumpers, dumper' = [dumper EXCEPT ![d] = q],
         slots' \in [Slots -> Directories], durable' = durable,
         q.pc # "idle",
         \A s \in Slots : slots'[s] = slots[s] \/ (s = dumper[d].slot /\ dumper[d].pc # "find"),
         q.owed => dumper[d].owed /\ q.pc # "done" /\ Progress(d)',
         q.pc \notin {"find", "done"} => q.slot = dumper[d].slot,
         dumper[d].pc = "find" /\ q.pc \notin {"find", "done"} => ~slots[q.slot].made
  PROVE  DumpInv'
  <1>1. /\ d \in Dumps /\ dumper' \in [Dumps -> Dumpers] /\ dumper'[d] = q
        /\ \A e \in Dumps \ {d} : dumper'[e] = dumper[e]
    BY DEF DumpInv, DumpTypeOK, Running
  <1>2. ASSUME dumper[d].pc = "find", q.pc \notin {"find", "done"}, NEW k \in Dumps, Kept(k)'
        PROVE  dumper[k].slot # q.slot
    <2>1. k # d /\ Kept(k)
      BY <1>1, <1>2 DEF Kept
    <2>2. slots[dumper[k].slot] = DumpOf(k)
      BY <2>1 DEF DumpInv, DumpsAreKept, Kept
    <2> QED BY <1>2, <2>2 DEF DumpOf
  <1> QED BY <1>1, <1>2, DumperStepOf

\* An owed dump that looks for a slot finds one.
LEMMA SlotSeen ==
  ASSUME DumpInv, NEW d \in Dumps, find_slot(d),
         dumper' = [dumper EXCEPT ![d] =
           IF ~slots[dumper[d].slot].made THEN [dumper[d] EXCEPT !.pc = "mkdir"]
           ELSE IF dumper[d].slot + 1 < MaximumNumberOfCoredumps
                  THEN [dumper[d] EXCEPT !.slot = dumper[d].slot + 1]
           ELSE Ended(dumper[d])]
  PROVE  DumpInv'
  <1> DEFINE p == dumper[d]
             q == IF ~slots[p.slot].made THEN [p EXCEPT !.pc = "mkdir"]
                  ELSE IF p.slot + 1 < MaximumNumberOfCoredumps THEN [p EXCEPT !.slot = p.slot + 1]
                  ELSE Ended(p)
  <1>1. /\ p.pc = "find" /\ d \in Running /\ p \in Dumpers
        /\ dumper' = [dumper EXCEPT ![d] = q] /\ slots' = slots /\ durable' = durable
    BY DEF find_slot, Running, DumpInv, DumpTypeOK
  <1>2. p.slot \in Slots /\ 0 \in Slots
    BY <1>1, CoredumpAssumption DEF Dumpers, Slots
  <1>3. p.owed => \E s \in Slots : p.slot <= s /\ ~slots[s].made
    BY <1>1 DEF DumpInv, Progress
  <1>4. dumper'[d] = q
    BY <1>1 DEF DumpInv, DumpTypeOK
  <1> HIDE DEF p
  <1>5. CASE ~slots[p.slot].made
    <2>1. q = [p EXCEPT !.pc = "mkdir"]
      BY <1>5
    <2> HIDE DEF q
    <2>2. q \in Dumpers /\ q.pc = "mkdir" /\ q.slot = p.slot /\ q.owed = p.owed
      BY <1>1, <2>1 DEF Dumpers
    <2>3. Progress(d)'
      BY <1>1, <1>4, <1>5, <2>2 DEF Progress
    <2> QED BY <1>1, <1>5, <2>2, <2>3, DumperStep DEF p, DumpInv, DumpTypeOK
  <1>6. CASE slots[p.slot].made /\ p.slot + 1 < MaximumNumberOfCoredumps
    <2>1. q = [p EXCEPT !.slot = p.slot + 1]
      BY <1>6
    <2> HIDE DEF q
    <2>2. p.slot + 1 \in Slots
      BY <1>2, <1>6, CoredumpAssumption DEF Slots
    <2>3. q \in Dumpers /\ q.pc = "find" /\ q.slot = p.slot + 1 /\ q.owed = p.owed
      BY <1>1, <2>1, <2>2 DEF Dumpers
    <2>4. q.owed => Progress(d)'
      <3> SUFFICES ASSUME q.owed PROVE Progress(d)'
        OBVIOUS
      <3>1. PICK s \in Slots : p.slot <= s /\ ~slots[s].made
        BY <1>3, <2>3
      <3>2. s # p.slot
        BY <1>6, <3>1
      <3>3. p.slot + 1 <= s
        BY <1>2, <3>1, <3>2 DEF Slots
      <3> QED BY <1>1, <1>4, <2>3, <3>1, <3>3 DEF Progress
    <2> QED BY <1>1, <2>3, <2>4, DumperStep DEF p, DumpInv, DumpTypeOK
  <1>7. CASE slots[p.slot].made /\ ~(p.slot + 1 < MaximumNumberOfCoredumps)
    <2>1. ~p.owed
      <3> SUFFICES ASSUME p.owed PROVE FALSE
        OBVIOUS
      <3>1. PICK s \in Slots : p.slot <= s /\ ~slots[s].made
        BY <1>3
      <3>2. s = p.slot
        BY <1>2, <1>7, <3>1, CoredumpAssumption DEF Slots
      <3> QED BY <1>7, <3>1, <3>2
    <2>2. q = [pc |-> "done", slot |-> 0, owed |-> FALSE]
      BY <1>7, <2>1 DEF Ended, NotBegun
    <2> HIDE DEF q
    <2>3. q \in Dumpers /\ q.pc = "done" /\ q.owed = FALSE
      BY <1>2, <2>2 DEF Dumpers
    <2> QED BY <1>1, <2>3, DumperStep DEF p, DumpInv, DumpTypeOK
  <1> QED BY <1>5, <1>6, <1>7

\* A process that takes a slot for free that it is not is not owed anything, and
\* neither is a dump in that slot any longer.
LEMMA SlotMistaken ==
  ASSUME DumpInv, NEW d \in Dumps, find_slot(d),
         dumper' = [e \in Dumps |->
           IF e = d THEN [dumper[d] EXCEPT !.pc = "mkdir", !.owed = FALSE]
           ELSE IF dumper[e].pc = "done" /\ dumper[e].slot = dumper[d].slot THEN Ended(NotBegun)
           ELSE dumper[e]]
  PROVE  DumpInv'
  <1> DEFINE p == dumper[d]
             q == [p EXCEPT !.pc = "mkdir", !.owed = FALSE]
  <1>1. /\ p.pc = "find" /\ d \in Running /\ p \in Dumpers /\ dumper \in [Dumps -> Dumpers]
        /\ slots' = slots /\ durable' = durable /\ slots \in [Slots -> Directories]
    BY DEF find_slot, Running, DumpInv, DumpTypeOK
  <1>2. q \in Dumpers /\ q.pc = "mkdir" /\ q.slot = p.slot /\ q.owed = FALSE
    BY <1>1 DEF Dumpers
  <1>3. /\ Ended(NotBegun) \in Dumpers /\ Ended(NotBegun).pc = "done"
        /\ Ended(NotBegun).owed = FALSE
    <2>1. 0 \in Slots
      BY CoredumpAssumption DEF Slots
    <2>2. Ended(NotBegun) = [pc |-> "done", slot |-> 0, owed |-> FALSE]
      BY DEF Ended, NotBegun
    <2> QED BY <2>1, <2>2 DEF Dumpers
  <1> DEFINE g == Ended(NotBegun)
  <1>4. /\ dumper' = [e \in Dumps |->
             IF e = d THEN q
             ELSE IF dumper[e].pc = "done" /\ dumper[e].slot = p.slot THEN g ELSE dumper[e]]
        /\ g \in Dumpers /\ g.pc = "done" /\ g.owed = FALSE
    BY <1>3
  <1> HIDE DEF p, q, g
  <1>5. dumper' \in [Dumps -> Dumpers] /\ dumper'[d] = q
    BY <1>1, <1>2, <1>4
  <1>6. \A e \in Dumps \ {d} : \/ dumper'[e] = dumper[e]
                               \/ /\ dumper[e].pc = "done" /\ dumper'[e].pc = "done"
                                  /\ ~dumper'[e].owed
    BY <1>4
  <1>7. \A k \in Dumps : Kept(k)' => dumper[k].slot # q.slot
    BY <1>2, <1>4 DEF Kept
  <1> QED BY <1>1, <1>2, <1>5, <1>6, <1>7, DumperStepOf DEF p

\* One lstat() of the loop.
LEMMA FindSlot ==
  ASSUME DumpInv, NEW d \in Dumps, find_slot(d)
  PROVE  DumpInv'
  <1>1. \/ dumper' = [dumper EXCEPT ![d] =
             IF ~slots[dumper[d].slot].made THEN [dumper[d] EXCEPT !.pc = "mkdir"]
             ELSE IF dumper[d].slot + 1 < MaximumNumberOfCoredumps
                  THEN [dumper[d] EXCEPT !.slot = dumper[d].slot + 1]
             ELSE Ended(dumper[d])]
        \/ dumper' = [e \in Dumps |->
             IF e = d THEN [dumper[d] EXCEPT !.pc = "mkdir", !.owed = FALSE]
             ELSE IF dumper[e].pc = "done" /\ dumper[e].slot = dumper[d].slot THEN Ended(NotBegun)
             ELSE dumper[e]]
    BY Zenon DEF find_slot
  <1> QED BY <1>1, SlotSeen, SlotMistaken, Zenon

\* mkdir() and chdir(): the slot is made, or the dump is given up.
LEMMA MakeSlotStep ==
  ASSUME DumpInv, NEW d \in Dumps, MakeSlot(d)
  PROVE  DumpInv'
  <1> DEFINE p == dumper[d]
  <1>1. p.pc = "mkdir" /\ d \in Running /\ p \in Dumpers /\ durable' = durable
    BY DEF MakeSlot, Running, DumpInv, DumpTypeOK
  <1>2. p.slot \in Slots /\ 0 \in Slots /\ dumper \in [Dumps -> Dumpers]
    BY <1>1, CoredumpAssumption DEF Dumpers, Slots, DumpInv, DumpTypeOK
  <1>3. slots \in [Slots -> Directories]
    BY DEF DumpInv, DumpTypeOK
  <1>4. CASE /\ slots' = [slots EXCEPT ![p.slot].made = TRUE]
             /\ dumper' = [dumper EXCEPT ![d].pc = "core"]
    <2> DEFINE q == [p EXCEPT !.pc = "core"]
    <2>1. dumper' = [dumper EXCEPT ![d] = q]
      BY <1>4
    <2>2. q \in Dumpers /\ q.pc = "core" /\ q.slot = p.slot /\ q.owed = p.owed
      BY <1>1 DEF Dumpers
    <2> HIDE DEF q
    <2>3. dumper'[d] = q
      BY <1>2, <2>1
    <2> HIDE DEF p
    <2>4. /\ slots' \in [Slots -> Directories]
          /\ \A s \in Slots : s # p.slot => slots'[s] = slots[s]
          /\ slots'[p.slot].made
      BY <1>2, <1>3, <1>4 DEF Directories
    <2>5. Progress(d)'
      BY <2>2, <2>3, <2>4 DEF Progress
    <2> QED BY <1>1, <2>1, <2>2, <2>4, <2>5, DumperStep DEF p
  <1>5. CASE /\ dumper' = [dumper EXCEPT ![d] = Ended([p EXCEPT !.owed = FALSE])]
             /\ \E made \in {TRUE, slots[p.slot].made} : slots' = [slots EXCEPT ![p.slot].made = made]
    <2> DEFINE q == Ended([p EXCEPT !.owed = FALSE])
    <2>1. q = [pc |-> "done", slot |-> 0, owed |-> FALSE]
      BY <1>1 DEF Ended, NotBegun, Dumpers
    <2> HIDE DEF q
    <2>2. q \in Dumpers /\ q.pc = "done" /\ q.owed = FALSE
      BY <1>2, <2>1 DEF Dumpers
    <2>3. dumper' = [dumper EXCEPT ![d] = q]
      BY <1>5 DEF q
    <2> HIDE DEF p
    <2>4. /\ slots' \in [Slots -> Directories]
          /\ \A s \in Slots : s # p.slot => slots'[s] = slots[s]
      <3>1. slots[p.slot].made \in BOOLEAN
        BY <1>2, <1>3 DEF Directories
      <3>2. PICK made \in BOOLEAN : slots' = [slots EXCEPT ![p.slot].made = made]
        BY <1>5, <3>1
      <3> QED BY <1>2, <1>3, <3>2 DEF Directories
    <2> QED BY <1>1, <2>2, <2>3, <2>4, DumperStep DEF p
  <1>6. PICK made \in {TRUE, slots[p.slot].made} :
          /\ slots' = [slots EXCEPT ![p.slot].made = made]
          /\ \/ made /\ dumper' = [dumper EXCEPT ![d].pc = "core"]
             \/ dumper' = [dumper EXCEPT ![d] = Ended([p EXCEPT !.owed = FALSE])]
    BY DEF MakeSlot
  <1>7. made => made = TRUE
    BY <1>2, <1>3 DEF Directories
  <1> QED BY <1>4, <1>5, <1>6, <1>7

\* A file is written, in whole or in part.
LEMMA WriteStep ==
  ASSUME DumpInv, NEW d \in Dumps, NEW part, NEW next, WriteFile(d, part, next),
         <<part, next>> \in {<<"core", "log">>, <<"log", "info">>, <<"info", "sync">>}
  PROVE  DumpInv'
  <1> DEFINE p == dumper[d]
  <1>1. /\ p.pc = part /\ d \in Running /\ p \in Dumpers /\ durable' = durable
        /\ part \in DumpFiles /\ next \in {"log", "info", "sync"} /\ part \notin {"find", "done"}
        /\ d \in Nat
    BY CoredumpAssumption DEF WriteFile, Running, DumpInv, DumpTypeOK, DumpFiles
  <1>2. p.slot \in Slots /\ dumper \in [Dumps -> Dumpers] /\ slots \in [Slots -> Directories]
    BY <1>1 DEF Dumpers, DumpInv, DumpTypeOK
  <1>3. PICK w \in {d, 0, slots[p.slot].files[part]} :
          /\ slots' = [slots EXCEPT ![p.slot].files[part] = w]
          /\ dumper' = [dumper EXCEPT ![d].pc = next, ![d].owed = @ /\ w = d]
    BY DEF WriteFile
  <1>4. w \in Nat
    BY <1>1, <1>2, <1>3 DEF Directories
  <1> DEFINE q == dumper'[d]
  <1>5. /\ q.pc = next /\ q.slot = p.slot /\ q \in Dumpers
        /\ q.owed => p.owed /\ w = d
        /\ dumper' = [dumper EXCEPT ![d] = q]
    <2> DEFINE o == p.owed /\ w = d
               r == [[p EXCEPT !.pc = next] EXCEPT !.owed = o]
    <2>1. o \in BOOLEAN
      OBVIOUS
    <2>2. dumper' = [dumper EXCEPT ![d] = r]
      BY <1>2, <1>3
    <2> HIDE DEF o
    <2>3. r \in Dumpers /\ r.pc = next /\ r.slot = p.slot /\ r.owed = o
      BY <1>1, <2>1 DEF Dumpers
    <2> HIDE DEF r
    <2>4. q = r
      BY <1>2, <2>2
    <2> QED BY <2>2, <2>3, <2>4 DEF o
  <1>6. /\ slots' \in [Slots -> Directories]
        /\ \A s \in Slots : s # p.slot => slots'[s] = slots[s]
        /\ slots'[p.slot].made = slots[p.slot].made
        /\ slots'[p.slot].files[part] = w
        /\ \A g \in DumpFiles \ {part} : slots'[p.slot].files[g] = slots[p.slot].files[g]
    <2> DEFINE f == [slots[p.slot].files EXCEPT ![part] = w]
               b == [slots[p.slot] EXCEPT !.files = f]
    <2>1. slots[p.slot] \in Directories
      BY <1>2
    <2>2. /\ f \in [DumpFiles -> Nat] /\ f[part] = w
          /\ \A g \in DumpFiles \ {part} : f[g] = slots[p.slot].files[g]
      BY <1>1, <1>4, <2>1 DEF Directories
    <2>3. slots' = [slots EXCEPT ![p.slot] = b]
      BY <1>3
    <2> HIDE DEF f
    <2>4. b \in Directories /\ b.files = f /\ b.made = slots[p.slot].made
      BY <2>1, <2>2 DEF Directories
    <2> HIDE DEF b, p
    <2>5. slots'[p.slot] = b
      BY <1>2, <2>3
    <2> QED BY <1>2, <2>2, <2>3, <2>4, <2>5
  <1>7. q.owed => Progress(d)'
    <2> SUFFICES ASSUME q.owed PROVE Progress(d)'
      OBVIOUS
    <2>1. Progress(d) /\ w = d
      BY <1>1, <1>5 DEF DumpInv
    <2> QED BY <1>1, <1>5, <1>6, <2>1 DEF Progress, DumpFiles
  <1> HIDE DEF q
  <1> QED BY <1>1, <1>5, <1>6, <1>7, DumperStep

\* The dump is on the disk, and the process ends.
LEMMA SyncStep ==
  ASSUME DumpInv, NEW d \in Dumps, Sync(d)
  PROVE  DumpInv'
  <1> USE DEF DumpInv
  <1> DEFINE p == dumper[d]
             q == Ended(p)
  <1>1. /\ p.pc = "sync" /\ d \in Running /\ p \in Dumpers
        /\ slots' = slots /\ durable' = slots /\ dumper' = [dumper EXCEPT ![d] = q]
    BY DEF Sync, Running, DumpTypeOK
  <1>2. /\ dumper'[d] = q /\ \A e \in Dumps \ {d} : dumper'[e] = dumper[e]
    BY <1>1 DEF DumpTypeOK
  <1>3. q \in Dumpers /\ q.pc = "done" /\ (q.owed => p.owed /\ q.slot = p.slot)
    <2>1. 0 \in Slots
      BY CoredumpAssumption DEF Slots
    <2>2. CASE p.owed
      <3>1. q = [p EXCEPT !.pc = "done"]
        BY <2>2 DEF Ended
      <3> QED BY <1>1, <2>2, <3>1 DEF Dumpers
    <2>3. CASE ~p.owed
      <3>1. q = [pc |-> "done", slot |-> 0, owed |-> FALSE]
        BY <2>3 DEF Ended, NotBegun
      <3> QED BY <2>1, <3>1 DEF Dumpers
    <2> QED BY <2>2, <2>3
  <1> HIDE DEF q
  <1>4. DumpTypeOK'
    BY <1>1, <1>3 DEF DumpTypeOK
  <1>5. p.owed => slots[p.slot] = DumpOf(d)
    <2> SUFFICES ASSUME p.owed PROVE slots[p.slot] = DumpOf(d)
      OBVIOUS
    <2>1. slots[p.slot] \in Directories
      BY <1>1 DEF DumpTypeOK, Dumpers
    <2>2. /\ slots[p.slot].made = TRUE
          /\ \A f \in DumpFiles : slots[p.slot].files[f] = d
      BY <1>1, <2>1 DEF Progress, DumpFiles, Directories
    <2>3. slots[p.slot].files = [f \in DumpFiles |-> d]
      BY <2>1, <2>2 DEF Directories
    <2> QED BY <2>1, <2>2, <2>3 DEF DumpOf, Directories
  <1>6. DumpsAreKept'
    <2> SUFFICES ASSUME NEW k \in Dumps, dumper'[k].pc = "done", dumper'[k].owed
                 PROVE  /\ slots'[dumper'[k].slot] = DumpOf(k)
                        /\ durable'[dumper'[k].slot] = DumpOf(k)
      BY DEF DumpsAreKept
    <2>1. CASE k = d
      BY <1>1, <1>2, <1>3, <1>5, <2>1
    <2>2. CASE k # d
      BY <1>1, <1>2, <2>2 DEF DumpsAreKept
    <2> QED BY <2>1, <2>2
  <1>7. \A e \in Dumps : dumper'[e].pc = "idle" => ~dumper'[e].owed
    BY <1>2, <1>3
  <1>8. Running' = Running \ {d} /\ \A e \in Running' : dumper'[e] = dumper[e]
    BY <1>1, <1>2, <1>3 DEF Running
  <1>9. \A e \in Running' : ~dumper'[e].owed
    BY <1>1, <1>8
  <1>10. ASSUME NEW e \in Running', NEW k \in Dumps, Kept(k)', dumper'[e].pc # "find"
         PROVE  dumper'[e].slot # dumper'[k].slot
    <2>1. k # d
      <3> SUFFICES ASSUME k = d PROVE FALSE
        OBVIOUS
      <3>1. p.owed
        BY <1>2, <1>3, <1>10 DEF Kept
      <3>2. Running = {d}
        BY <1>1, <3>1
      <3> QED BY <1>8, <3>2
    <2> QED BY <1>2, <1>8, <1>10, <2>1 DEF Kept
  <1> QED BY <1>4, <1>6, <1>7, <1>9, <1>10

\* The power is lost: no process is left, and a slot is as it was or as it is on
\* the disk.
LEMMA PowerLossStep ==
  ASSUME DumpInv, PowerLoss
  PROVE  DumpInv'
  <1> USE DEF DumpInv
  <1>1. /\ dumper' = [d \in Dumps |-> IF d \in Running THEN Ended(NotBegun) ELSE dumper[d]]
        /\ durable' = slots'
        /\ \E lost \in SUBSET Slots :
             slots' = [s \in Slots |-> IF s \in lost THEN durable[s] ELSE slots[s]]
    BY DEF PowerLoss
  <1>2. /\ Ended(NotBegun) \in Dumpers /\ Ended(NotBegun).pc = "done"
        /\ Ended(NotBegun).owed = FALSE
    <2>1. 0 \in Slots
      BY CoredumpAssumption DEF Slots
    <2>2. Ended(NotBegun) = [pc |-> "done", slot |-> 0, owed |-> FALSE]
      BY DEF Ended, NotBegun
    <2> QED BY <2>1, <2>2 DEF Dumpers
  <1>3. \A d \in Dumps : dumper'[d] = dumper[d] \/ (d \in Running /\ dumper'[d] = Ended(NotBegun))
    BY <1>1
  <1>4. slots' \in [Slots -> Directories]
        /\ \A s \in Slots : slots'[s] = slots[s] \/ slots'[s] = durable[s]
    BY <1>1 DEF DumpTypeOK
  <1>5. DumpTypeOK'
    BY <1>1, <1>2, <1>4 DEF DumpTypeOK
  <1>6. Running' = {}
    BY <1>1, <1>2 DEF Running
  <1>7. DumpsAreKept'
    <2> SUFFICES ASSUME NEW k \in Dumps, dumper'[k].pc = "done", dumper'[k].owed
                 PROVE  /\ slots'[dumper'[k].slot] = DumpOf(k)
                        /\ durable'[dumper'[k].slot] = DumpOf(k)
      BY DEF DumpsAreKept
    <2>1. dumper'[k] = dumper[k]
      BY <1>2, <1>3
    <2>2. dumper[k].slot \in Slots
      BY DEF DumpTypeOK, Dumpers
    <2> QED BY <1>1, <1>4, <2>1, <2>2 DEF DumpsAreKept
  <1>8. \A e \in Dumps : dumper'[e].pc = "idle" => ~dumper'[e].owed
    BY <1>2, <1>3
  <1> QED BY <1>5, <1>6, <1>7, <1>8

\* Every step of a dump keeps the invariant.
LEMMA DumpStepInv == DumpInv /\ [DumpNext]_dumpVars => DumpInv'
  <1> SUFFICES ASSUME DumpInv, [DumpNext]_dumpVars PROVE DumpInv'
    OBVIOUS
  <1>1. ASSUME NEW d \in Dumps,
               \/ ml_finalize_coredump(d) \/ find_slot(d) \/ MakeSlot(d)
               \/ write_core(d) \/ write_log(d) \/ write_info(d) \/ Sync(d)
        PROVE  DumpInv'
    BY <1>1, BeginDump, FindSlot, MakeSlotStep, WriteStep, SyncStep
    DEF write_core, write_log, write_info
  <1>2. CASE PowerLoss
    BY <1>2, PowerLossStep
  <1>3. CASE UNCHANGED dumpVars
    BY <1>3 DEF dumpVars, DumpInv, DumpTypeOK, DumpsAreKept, Running, Kept, Progress
  <1> QED BY <1>1, <1>2, <1>3 DEF DumpNext

\* A dump that began with room left, that no other ran beside and in which no
\* call failed is complete when ml_finalize_coredump() ends, in memory and on the
\* disk, and stays so, until an lstat() of its slot in a later find_slot() fails.
THEOREM DumpsStayComplete == Spec => []DumpsAreKept
  <1>1. Init => DumpInv
    BY DumpInitInv DEF Init
  <1>2. DumpInv /\ [Next]_libraryVars => DumpInv'
    BY DumpStepInv DEF Next, libraryVars
  <1>3. DumpInv => DumpsAreKept
    BY DEF DumpInv
  <1> QED BY <1>1, <1>2, <1>3, PTL DEF Spec

-----------------------------------------------------------------------------
(* The file of the log objects. While a store walks over the list, every     *)
(* object it has not come to is ahead of it, for objects are only prepended;  *)
(* and the file has no whole line that the last store did not write, except  *)
(* one that a load skips. So a load of a whole file finds a line of every    *)
(* object, and applies no other.                                             *)

LineSet == [object : Objects \cup {Foreign}, level : Levels \cup {Unknown, Bad}]
AnyLevel == Levels \cup {Unnamed}
Listed(seq, o) == \E i \in 1 .. Len(seq) : seq[i] = o
Has(lines, o) == \E i \in 1 .. Len(lines) : lines[i].object = o /\ lines[i].level # Bad

LogTypeOK ==
  /\ list \in Seq(Objects)
  /\ level \in [Objects -> AnyLevel]
  /\ file \in [exists : BOOLEAN, lines : Seq(LineSet), halves : Nat]
  /\ store \in {None, "head"} \cup Objects
  /\ load \in [active : BOOLEAN, lines : Seq(LineSet)]
  /\ log \in [during : [Objects -> SUBSET AnyLevel], before : SUBSET Objects,
              complete : BOOLEAN, stored : BOOLEAN, present : SUBSET Objects,
              set : SUBSET Objects, loaded : BOOLEAN]

\* The list has no object twice, and only its objects have another level than
\* the default; a store is at one of them.
OnTheList ==
  /\ \A i, j \in 1 .. Len(list) : list[i] = list[j] => i = j
  /\ \A o \in Objects : ~Listed(list, o) => level[o] = Default
  /\ store \in Objects => Listed(list, store)
  /\ \A o \in log.present : Listed(list, o)
  /\ store # None => \A o \in log.before : Listed(list, o)

\* At most one store or load is under way; the file has no more than its lines.
Phases ==
  /\ file.halves <= 2 * Len(file.lines)
  /\ log.complete => log.stored /\ file.halves = 2 * Len(file.lines)
  /\ store # None => ~load.active /\ log.stored /\ ~log.complete
  /\ load.active => ~log.loaded
  /\ ~load.active => load.lines = <<>>

\* A line that the last store wrote, or that a load skips.
Stored(l) ==
  \/ l.level = Bad \/ (l.object = Foreign /\ l.level \in Levels)
  \/ /\ l.object \in Objects
     /\ \/ l.level \in log.during[l.object]
        \/ l.level = Unknown /\ Unnamed \in log.during[l.object]

AllStored(lines) == \A i \in 1 .. Len(lines) : Stored(lines[i])

\* The last line of a file that was written by hand may lack its newline.
LinesAreStored ==
  /\ log.stored => AllStored(load.lines)
  /\ log.stored => \A i \in 1 .. Len(file.lines) : i <= file.halves \div 2 => Stored(file.lines[i])
  /\ store # None => AllStored(file.lines)

\* The levels that an object may have.
LevelsAreSeen ==
  /\ store # None => \A o \in Objects : level[o] \in log.during[o]
  /\ log.stored => \A o \in Objects \ log.set : level[o] \in log.during[o] \cup {Default}

\* An object that the store has yet to come to.
Ahead(o) == store = "head" \/ \E i, j \in 1 .. Len(list) : i < j /\ list[i] = store /\ list[j] = o

\* No object is missing in the file.
StoreCovers ==
  /\ store # None => \A o \in log.before : Has(file.lines, o) \/ Ahead(o)
  /\ log.complete => \A o \in log.before : Has(file.lines, o)

Named == \A o \in Objects : Unnamed \notin log.during[o]

\* A load of all the lines gives every object its level.
LoadCovers ==
  (load.active \/ log.loaded) /\ log.complete /\ Named =>
    \A o \in (log.before \cap log.present) \ log.set :
      level[o] \in log.during[o] \/ Has(load.lines, o)

LogInv == LogTypeOK /\ OnTheList /\ Phases /\ LinesAreStored /\ LevelsAreSeen /\ StoreCovers /\ LoadCovers

\* The least of some natural numbers.
LEMMA LeastIs ==
  ASSUME NEW S \in SUBSET Nat, S # {}
  PROVE  \E n \in S : \A m \in S : n <= m
<1> DEFINE R == OpToRel(<, Nat)
<1>1. IsWellFoundedOn(R, Nat)
  BY NatLessThanWellFounded
<1>2. PICK n \in S : \A m \in S : ~(<<m, n>> \in R)
  <2> HIDE DEF R
  <2> QED
    BY <1>1, WFMin
<1>3. \A m \in S : m \in Nat /\ n \in Nat /\ ~(m < n)
  <2> TAKE m \in S
  <2>1. m \in Nat /\ n \in Nat /\ <<m, n>> \notin R
    BY <1>2
  <2> QED
    BY <2>1 DEF OpToRel
<1>4. \A m \in S : n <= m
  BY <1>3
<1> QED
  BY <1>4

\* Nothing has been loaded; the lines of a file written by hand count or are skipped.
LEMMA LogInitInv == LogInit \/ NoLog => LogInv
<1> SUFFICES ASSUME LogInit \/ NoLog PROVE LogInv
  OBVIOUS
<1>1. /\ list = <<>> /\ level = [o \in Objects |-> Default] /\ store = None
      /\ load = [active |-> FALSE, lines |-> <<>>]
  BY Zenon DEF LogInit, NoLog, NoLoad
<1> DEFINE during == [o \in Objects |-> {}]
           History == [during : [Objects -> SUBSET AnyLevel], before : SUBSET Objects,
                       complete : BOOLEAN, stored : BOOLEAN, present : SUBSET Objects,
                       set : SUBSET Objects, loaded : BOOLEAN]
           Contents == [exists : BOOLEAN, lines : Seq(LineSet), halves : Nat]
<1>2. NoHistory = [during |-> during, before |-> {}, complete |-> FALSE,
                   stored |-> FALSE, present |-> {}, set |-> {}, loaded |-> FALSE]
  BY DEF NoHistory
<1>3. during \in [Objects -> SUBSET AnyLevel]
  OBVIOUS
<1>4. ASSUME log \in History, file \in Contents PROVE LogTypeOK
  BY <1>1, <1>4, LogObjectAssumption DEF LogTypeOK, AnyLevel
<1>5. CASE file = NoFile /\ log = NoHistory
  <2>1. log \in History /\ file \in Contents
    <3> HIDE DEF during
    <3>1. log = [during |-> during, before |-> {}, complete |-> FALSE,
                 stored |-> FALSE, present |-> {}, set |-> {}, loaded |-> FALSE]
      BY <1>2, <1>5 DEF during
    <3> QED BY <1>3, <1>5, <3>1 DEF NoFile
  <2>2. /\ ~log.complete /\ ~log.stored /\ ~log.loaded /\ log.present = {}
        /\ file.halves <= 2 * Len(file.lines)
    BY <1>2, <1>5 DEF NoFile
  <2> QED
    BY <1>1, <1>4, <2>1, <2>2, LogObjectAssumption
    DEF LogInv, OnTheList, Phases, LinesAreStored, LevelsAreSeen, StoreCovers, LoadCovers
<1> DEFINE Edited(o, l, h) ==
             /\ \E first \in {Line(Foreign, l)} \cup {Line(n, Bad) : n \in Objects} :
                  file = [exists |-> TRUE, lines |-> <<first, Line(o, l)>>, halves |-> h]
             /\ log = IF h = 3 THEN [NoHistory EXCEPT !.stored = TRUE]
                      ELSE [NoHistory EXCEPT !.stored = TRUE, !.complete = TRUE,
                                             !.before = {o}, !.during[o] = {l}]
<1>6. ASSUME NEW o \in Objects, NEW l \in Levels \ {Default}, NEW h \in {3, 4}, Edited(o, l, h)
      PROVE  LogInv
  <2>1. PICK first \in {Line(Foreign, l)} \cup {Line(n, Bad) : n \in Objects} :
             file = [exists |-> TRUE, lines |-> <<first, Line(o, l)>>, halves |-> h]
    BY <1>6
  <2> DEFINE seen == [during EXCEPT ![o] = {l}]
  <2>2. /\ Line(o, l).object = o /\ Line(o, l).level = l /\ Line(o, l) \in LineSet
        /\ first \in LineSet
        /\ first.level = Bad \/ (first.object = Foreign /\ first.level \in Levels)
    <3>1. Line(o, l).object = o /\ Line(o, l).level = l /\ Line(o, l) \in LineSet
      BY DEF Line, LineSet
    <3>2. first = Line(Foreign, l) \/ \E n \in Objects : first = Line(n, Bad)
      BY <2>1, Zenon
    <3>3. CASE first = Line(Foreign, l)
      <4>1. first.object = Foreign /\ first.level = l /\ first \in LineSet
        BY <3>3 DEF Line, LineSet
      <4> QED BY <3>1, <4>1
    <3>4. CASE \E n \in Objects : first = Line(n, Bad)
      <4>1. PICK n \in Objects : first = Line(n, Bad)
        BY <3>4
      <4>2. first.level = Bad /\ first \in LineSet
        BY <4>1 DEF Line, LineSet
      <4> QED BY <3>1, <4>2, Zenon
    <3> QED BY <3>2, <3>3, <3>4
  <2>3. /\ seen \in [Objects -> SUBSET AnyLevel] /\ seen[o] = {l}
        /\ during \in [Objects -> SUBSET AnyLevel]
    BY DEF AnyLevel
  <2>4. log = IF h = 3 THEN [during |-> during, before |-> {}, complete |-> FALSE,
                 stored |-> TRUE, present |-> {}, set |-> {}, loaded |-> FALSE]
              ELSE [during |-> seen, before |-> {o}, complete |-> TRUE,
                 stored |-> TRUE, present |-> {}, set |-> {}, loaded |-> FALSE]
    <3>1. CASE h = 3
      <4>1. log = [NoHistory EXCEPT !.stored = TRUE]
        BY <1>6, <3>1
      <4> HIDE DEF during
      <4>2. log = [during |-> during, before |-> {}, complete |-> FALSE,
                   stored |-> TRUE, present |-> {}, set |-> {}, loaded |-> FALSE]
        BY <1>2, <4>1
      <4> QED BY <3>1, <4>2
    <3>2. CASE h = 4
      <4>1. log = [NoHistory EXCEPT !.stored = TRUE, !.complete = TRUE, !.before = {o}, !.during[o] = {l}]
        BY <1>6, <3>2
      <4> HIDE DEF during
      <4>2. log = [during |-> seen, before |-> {o}, complete |-> TRUE,
                   stored |-> TRUE, present |-> {}, set |-> {}, loaded |-> FALSE]
        BY <1>2, <4>1
      <4> QED BY <3>2, <4>2
    <3> QED BY <3>1, <3>2
  <2> HIDE DEF seen, during
  <2>5. /\ log \in History /\ log.stored /\ ~log.loaded /\ log.present = {} /\ log.set = {}
        /\ log.complete => h = 4 /\ log.before = {o}
        /\ h = 4 => l \in log.during[o]
    BY <2>3, <2>4
  <2> DEFINE second == Line(o, l)
             lines == <<first, second>>
  <2> HIDE DEF second
  <2>6. /\ lines \in Seq(LineSet) /\ Len(lines) = 2 /\ lines[1] = first /\ lines[2] = second
    BY <2>2 DEF second
  <2>7. /\ file \in Contents /\ file.halves = h /\ file.lines = lines
    <3> HIDE DEF lines
    <3> QED BY <2>1, <2>6 DEF lines, second
  <2> HIDE DEF lines
  <2>8. h \div 2 = IF h = 3 THEN 1 ELSE 2
    OBVIOUS
  <2>9. \A i \in 1 .. Len(file.lines) : i <= file.halves \div 2 => Stored(file.lines[i])
    <3> SUFFICES ASSUME NEW i \in 1 .. 2, i <= h \div 2 PROVE Stored(lines[i])
      BY <2>6, <2>7
    <3>1. CASE i = 1
      BY <2>2, <2>6, <3>1 DEF Stored
    <3>2. CASE i = 2
      BY <2>2, <2>5, <2>6, <2>8, <3>2 DEF Stored, second
    <3> QED BY <3>1, <3>2
  <2>10. LinesAreStored
    BY <1>1, <2>9 DEF LinesAreStored, AllStored
  <2>11. log.complete => \A p \in log.before : Has(file.lines, p)
    <3>1. l # Bad
      BY LogObjectAssumption
    <3>2. Has(lines, o)
      <4>1. 2 \in 1 .. Len(lines) /\ lines[2].object = o /\ lines[2].level # Bad
        BY <2>2, <2>6, <3>1 DEF second
      <4> QED BY <4>1 DEF Has
    <3> QED BY <2>5, <2>7, <3>2
  <2>12. LogTypeOK
    BY <1>4, <2>5, <2>7
  <2>13. OnTheList /\ LevelsAreSeen
    BY <1>1, <2>5, LogObjectAssumption DEF OnTheList, LevelsAreSeen
  <2>14. Phases
    <3>1. file.halves <= 2 * Len(file.lines) /\ (h = 4 => file.halves = 2 * Len(file.lines))
      <4>1. file.halves = h /\ Len(file.lines) = 2 /\ h \in {3, 4}
        BY <2>6, <2>7, Zenon
      <4> HIDE DEF Contents, History
      <4> QED BY <4>1
    <3> QED BY <1>1, <2>5, <3>1 DEF Phases
  <2>15. StoreCovers /\ LoadCovers
    BY <1>1, <2>5, <2>11 DEF StoreCovers, LoadCovers
  <2> QED
    BY <2>10, <2>12, <2>13, <2>14, <2>15 DEF LogInv
<1>7. \/ file = NoFile /\ log = NoHistory
      \/ \E o \in Objects, l \in Levels \ {Default}, h \in {3, 4} : Edited(o, l, h)
  BY Zenon DEF LogInit, NoLog
<1> HIDE DEF Edited
<1> QED
  BY <1>5, <1>6, <1>7

\* An object that is registered is new, and in front of those that a store walks over.
LEMMA RegisterInv ==
  ASSUME LogInv, NEW o \in Objects, ml_log_object_register(o)
  PROVE  LogInv'
<1> DEFINE n == Len(list)
<1>1. /\ list \in Seq(Objects) /\ n \in Nat /\ ~Listed(list, o)
      /\ list' = <<o>> \o list /\ level' = [level EXCEPT ![o] = Default]
      /\ file' = file /\ store' = store /\ load' = load /\ log' = log
  BY DEF ml_log_object_register, LogInv, LogTypeOK, Registered, Range, Listed
<1>2. /\ list' \in Seq(Objects) /\ Len(list') = n + 1 /\ list'[1] = o
      /\ \A i \in 1 .. n : list'[i + 1] = list[i]
  BY <1>1
<1> HIDE DEF n
<1>3. \A i \in 2 .. n + 1 : i - 1 \in 1 .. n /\ list'[i] = list[i - 1]
  <2> TAKE i \in 2 .. n + 1
  <2>1. i - 1 \in 1 .. n /\ (i - 1) + 1 = i
    BY <1>1
  <2> QED
    BY <1>2, <2>1
<1>4. \A p \in Objects : Listed(list', p) <=> p = o \/ Listed(list, p)
  <2> TAKE p \in Objects
  <2>1. ASSUME Listed(list, p) PROVE Listed(list', p)
    <3>1. PICK i \in 1 .. n : list[i] = p
      BY <2>1 DEF Listed, n
    <3>2. i + 1 \in 1 .. Len(list')
      BY <1>1, <1>2
    <3> QED
      BY <1>2, <3>1, <3>2 DEF Listed
  <2>2. Listed(list', o)
    BY <1>1, <1>2 DEF Listed
  <2>3. ASSUME Listed(list', p), p # o PROVE Listed(list, p)
    <3>1. PICK i \in 1 .. n + 1 : list'[i] = p
      BY <1>2, <2>3 DEF Listed
    <3>2. i \in 2 .. n + 1
      BY <1>1, <1>2, <2>3, <3>1
    <3> QED
      BY <1>3, <3>1, <3>2 DEF Listed, n
  <2> QED
    BY <2>1, <2>2, <2>3
<1>5. LogTypeOK'
  BY <1>1, <1>2, LogObjectAssumption DEF LogInv, LogTypeOK, AnyLevel
<1>6. \A p \in Objects : p # o => level'[p] = level[p]
  BY <1>1 DEF LogInv, LogTypeOK
<1>7. level'[o] = level[o] /\ level'[o] = Default /\ o \notin log.present
  BY <1>1 DEF LogInv, LogTypeOK, OnTheList
<1>8. OnTheList'
  <2>1. ASSUME NEW i \in 1 .. n + 1, NEW j \in 1 .. n + 1, list'[i] = list'[j] PROVE i = j
    <3>1. \A k \in 2 .. n + 1 : list'[k] # o
      BY <1>1, <1>3 DEF Listed, n
    <3>2. CASE i = 1 \/ j = 1
      BY <1>1, <1>2, <2>1, <3>1, <3>2
    <3>3. CASE i # 1 /\ j # 1
      <4>1. i \in 2 .. n + 1 /\ j \in 2 .. n + 1
        BY <1>1, <3>3
      <4>2. i - 1 = j - 1
        BY <1>3, <2>1, <4>1 DEF LogInv, OnTheList, n
      <4> QED
        BY <1>1, <4>2
    <3> QED
      BY <3>2, <3>3
  <2>2. \A p \in Objects : ~Listed(list', p) => level'[p] = Default
    BY <1>4, <1>6 DEF LogInv, OnTheList
  <2> QED
    BY <1>1, <1>2, <1>4, <2>1, <2>2 DEF LogInv, LogTypeOK, OnTheList
<1>9. LevelsAreSeen'
  BY <1>1, <1>6, <1>7 DEF LogInv, LevelsAreSeen
<1>10. StoreCovers'
  <2>1. ASSUME NEW p \in Objects, Ahead(p) PROVE Ahead(p)'
    <3>1. CASE store = "head"
      BY <1>1, <3>1 DEF Ahead
    <3>2. CASE store # "head"
      <4>1. PICK i \in 1 .. n, j \in 1 .. n : i < j /\ list[i] = store /\ list[j] = p
        BY <2>1, <3>2 DEF Ahead, n
      <4>2. i + 1 \in 1 .. Len(list') /\ j + 1 \in 1 .. Len(list') /\ i + 1 < j + 1
        BY <1>1, <1>2, <4>1
      <4> QED
        BY <1>1, <1>2, <4>1, <4>2 DEF Ahead
    <3> QED
      BY <3>1, <3>2
  <2> QED
    BY <1>1, <2>1 DEF LogInv, LogTypeOK, StoreCovers
<1>11. LoadCovers'
  BY <1>1, <1>6, <1>7 DEF LogInv, LogTypeOK, LoadCovers, Named
<1> QED
  BY <1>1, <1>5, <1>8, <1>9, <1>10, <1>11
  DEF LogInv, Phases, LinesAreStored, AllStored, Stored

\* A level that is set during a store may or may not be stored.
LEMMA SetLevelInv ==
  ASSUME LogInv, NEW o \in Objects, NEW l \in AnyLevel, ml_log_object_set_level(o, l)
  PROVE  LogInv'
<1> DEFINE seen == IF store = None THEN log.during[o] ELSE log.during[o] \cup {l}
<1>1. /\ Listed(list, o) /\ level' = [level EXCEPT ![o] = l]
      /\ log' = [log EXCEPT !.set = @ \cup {o}, !.during[o] = seen]
      /\ list' = list /\ file' = file /\ store' = store /\ load' = load
  <2>1. Listed(list, o)
    <3>1. o \in Registered /\ list \in Seq(Objects)
      BY DEF ml_log_object_set_level, LogInv, LogTypeOK
    <3> QED
      BY <3>1 DEF Registered, Range, Listed
  <2> QED
    BY <2>1, Zenon DEF ml_log_object_set_level
<1>2. /\ log.during \in [Objects -> SUBSET AnyLevel] /\ seen \in SUBSET AnyLevel
      /\ level \in [Objects -> AnyLevel] /\ log.set \in SUBSET Objects
  BY DEF LogInv, LogTypeOK
<1>3. /\ log'.set = log.set \cup {o}
      /\ log'.during = [log.during EXCEPT ![o] = seen]
      /\ log'.before = log.before /\ log'.complete = log.complete /\ log'.stored = log.stored
      /\ log'.present = log.present /\ log'.loaded = log.loaded
  BY <1>1 DEF LogInv, LogTypeOK
<1>4. LogTypeOK'
  <2>1. log'.during \in [Objects -> SUBSET AnyLevel]
    BY <1>2, <1>3
  <2>2. log' \in [during : [Objects -> SUBSET AnyLevel], before : SUBSET Objects,
                  complete : BOOLEAN, stored : BOOLEAN, present : SUBSET Objects,
                  set : SUBSET Objects, loaded : BOOLEAN]
    BY <1>1, <1>2, <2>1, <1>3 DEF LogInv, LogTypeOK
  <2> QED
    BY <1>1, <1>2, <2>2 DEF LogInv, LogTypeOK
<1>5. \A p \in Objects : p # o => level'[p] = level[p] /\ log'.during[p] = log.during[p]
  BY <1>1, <1>2, <1>3
<1>6. level'[o] = l /\ log'.during[o] = seen
  BY <1>1, <1>2, <1>3
<1>7. \A p \in Objects : log.during[p] \subseteq log'.during[p]
  BY <1>5, <1>6
<1>8. OnTheList'
  BY <1>1, <1>3, <1>5 DEF LogInv, OnTheList, Listed
<1>9. Phases'
  BY <1>1, <1>3 DEF LogInv, Phases
<1>10. \A x : Stored(x) => Stored(x)'
  BY <1>7 DEF Stored
<1>11. LinesAreStored'
  BY <1>1, <1>3, <1>10 DEF LogInv, LinesAreStored, AllStored
<1>12. LevelsAreSeen'
  <2>1. store # None => \A p \in Objects : level'[p] \in log'.during[p]
    BY <1>5, <1>6 DEF LogInv, LevelsAreSeen
  <2>2. log.stored => \A p \in Objects \ (log.set \cup {o}) : level'[p] \in log'.during[p] \cup {Default}
    BY <1>5 DEF LogInv, LevelsAreSeen
  <2> QED
    BY <1>1, <1>3, <2>1, <2>2 DEF LevelsAreSeen
<1>13. StoreCovers'
  BY <1>1, <1>3 DEF LogInv, StoreCovers, Has, Ahead
<1>14. LoadCovers'
  BY <1>1, <1>3, <1>5, <1>7 DEF LogInv, LogTypeOK, LoadCovers, Named, Has
<1> QED
  BY <1>4, <1>8, <1>9, <1>11, <1>12, <1>13, <1>14 DEF LogInv

\* A store starts with an empty file, and with the levels there are.
LEMMA StoreOpenInv ==
  ASSUME LogInv, StoreOpen
  PROVE  LogInv'
<1> DEFINE seen == [o \in Objects |-> {level[o]}]
<1>1. /\ store = None /\ load.active = FALSE /\ store' = "head"
      /\ file' = [exists |-> TRUE, lines |-> <<>>, halves |-> 0]
      /\ log' = [log EXCEPT !.during = seen, !.before = Registered, !.complete = FALSE, !.stored = TRUE]
      /\ list' = list /\ level' = level /\ load' = load
  BY DEF StoreOpen, LogInv, LogTypeOK
<1>2. /\ seen \in [Objects -> SUBSET AnyLevel] /\ Registered \in SUBSET Objects
      /\ \A o \in Registered : Listed(list, o)
  BY DEF LogInv, LogTypeOK, Registered, Range, Listed
<1>3. /\ log'.set = log.set /\ log'.during = seen
      /\ log'.before = Registered /\ log'.complete = FALSE /\ log'.stored = TRUE
      /\ log'.present = log.present /\ log'.loaded = log.loaded
  BY <1>1 DEF LogInv, LogTypeOK
<1> HIDE DEF seen
<1>4. LogTypeOK'
  <2>1. log' \in [during : [Objects -> SUBSET AnyLevel], before : SUBSET Objects,
                  complete : BOOLEAN, stored : BOOLEAN, present : SUBSET Objects,
                  set : SUBSET Objects, loaded : BOOLEAN]
    BY <1>1, <1>2 DEF LogInv, LogTypeOK
  <2>2. file' \in [exists : BOOLEAN, lines : Seq(LineSet), halves : Nat]
    BY <1>1
  <2> QED
    BY <1>1, <2>1, <2>2 DEF LogInv, LogTypeOK
<1> USE DEF seen
<1>5. OnTheList' /\ Phases'
  BY <1>1, <1>2, <1>3, LogObjectAssumption DEF LogInv, OnTheList, Phases, Listed
<1>6. LinesAreStored' /\ LevelsAreSeen'
  BY <1>1, <1>3 DEF LogInv, Phases, LinesAreStored, AllStored, LevelsAreSeen
<1> QED
  BY <1>1, <1>3, <1>4, <1>5, <1>6 DEF LogInv, StoreCovers, LoadCovers, Ahead

\* The object that a store comes to next: the first, or the one after.
LEMMA NextIs ==
  ASSUME LogInv, store # None, NEW o, o = ml_log_object_list_next(store)
  PROVE  \/ store = "head" /\ list = <<>> /\ o = None
         \/ store = "head" /\ 1 \in 1 .. Len(list) /\ o = list[1]
         \/ \E i \in 1 .. Len(list) :
              /\ list[i] = store
              /\ o = IF i = Len(list) THEN None ELSE list[i + 1]
<1>1. list \in Seq(Objects) /\ store \in {"head"} \cup Objects /\ "head" \notin Objects
  BY LogObjectAssumption DEF LogInv, LogTypeOK
<1>2. CASE store = "head"
  BY <1>1, <1>2 DEF ml_log_object_list_next
<1>3. CASE store # "head"
  <2> DEFINE i == CHOOSE i \in DOMAIN list : list[i] = store
  <2>1. i \in 1 .. Len(list) /\ list[i] = store
    BY <1>1, <1>3 DEF LogInv, OnTheList, Listed
  <2>2. o = IF i = Len(list) THEN None ELSE list[i + 1]
    BY <1>3 DEF ml_log_object_list_next
  <2> HIDE DEF i
  <2> QED
    BY <2>1, <2>2
<1> QED
  BY <1>2, <1>3

\* The next object is written with its level, and those behind it are still ahead.
LEMMA StoreLineInv ==
  ASSUME LogInv, StoreLine
  PROVE  LogInv'
<1> DEFINE o == ml_log_object_list_next(store)
           l == Line(o, ml_log_object_level_to_string(level[o]))
           m == Len(file.lines)
<1>1. /\ store # None /\ o # None /\ store' = o
      /\ file' = [file EXCEPT !.lines = Append(file.lines, l)]
      /\ list' = list /\ level' = level /\ load' = load /\ log' = log
  BY DEF StoreLine
<1>2. \/ store = "head" /\ 1 \in 1 .. Len(list) /\ o = list[1]
      \/ \E i \in 1 .. Len(list) : list[i] = store /\ i # Len(list) /\ o = list[i + 1]
  BY <1>1, NextIs
<1> HIDE DEF o
<1>3. list \in Seq(Objects) /\ Len(list) \in Nat
  BY DEF LogInv, LogTypeOK
<1>4. o \in Objects /\ Listed(list, o)
  <2>1. CASE store = "head" /\ 1 \in 1 .. Len(list) /\ o = list[1]
    BY <1>3, <2>1 DEF Listed
  <2>2. ASSUME NEW i \in 1 .. Len(list), i # Len(list), o = list[i + 1] PROVE o \in Objects /\ Listed(list, o)
    <3>1. i + 1 \in 1 .. Len(list)
      BY <1>3, <2>2
    <3> QED
      BY <1>3, <2>2, <3>1 DEF Listed
  <2> QED
    BY <1>2, <2>1, <2>2
<1>5. l \in LineSet /\ Stored(l) /\ l.object = o /\ l.level # Bad
  <2>1. level[o] \in AnyLevel /\ level[o] \in log.during[o]
    BY <1>1, <1>4 DEF LogInv, LogTypeOK, LevelsAreSeen
  <2> QED
    BY <1>4, <2>1, LogObjectAssumption DEF Line, LineSet, Stored, ml_log_object_level_to_string, AnyLevel
<1> HIDE DEF l
<1>6. /\ file.lines \in Seq(LineSet) /\ m \in Nat
      /\ Append(file.lines, l) \in Seq(LineSet) /\ Len(Append(file.lines, l)) = m + 1
      /\ Append(file.lines, l)[m + 1] = l
      /\ \A i \in 1 .. m : Append(file.lines, l)[i] = file.lines[i]
  BY <1>5 DEF LogInv, LogTypeOK
<1> HIDE DEF m
<1>7. /\ file'.lines = Append(file.lines, l) /\ file'.halves = file.halves
      /\ file' \in [exists : BOOLEAN, lines : Seq(LineSet), halves : Nat]
  BY <1>1, <1>6 DEF LogInv, LogTypeOK
<1>8. LogTypeOK'
  BY <1>1, <1>4, <1>7 DEF LogInv, LogTypeOK
<1>9. OnTheList'
  BY <1>1, <1>4, LogObjectAssumption DEF LogInv, OnTheList, Listed
<1>10. Phases'
  BY <1>1, <1>6, <1>7 DEF LogInv, Phases, LogTypeOK, m
<1>11. LinesAreStored'
  <2>1. log.stored => \A i \in 1 .. m + 1 : Stored(file'.lines[i])
    <3> SUFFICES ASSUME log.stored, NEW i \in 1 .. m + 1 PROVE Stored(file'.lines[i])
      OBVIOUS
    <3>1. CASE i = m + 1
      BY <1>5, <1>6, <1>7, <3>1
    <3>2. CASE i # m + 1
      <4>1. i \in 1 .. m
        BY <1>6, <3>2
      <4> QED
        BY <1>1, <1>6, <1>7, <4>1 DEF LogInv, LinesAreStored, AllStored, m
    <3> QED
      BY <3>1, <3>2
  <2> QED
    BY <1>1, <1>6, <1>7, <2>1 DEF LogInv, Phases, LinesAreStored, AllStored, Stored
<1>12. LevelsAreSeen'
  BY <1>1, <1>4, LogObjectAssumption DEF LogInv, LevelsAreSeen
<1>13. StoreCovers'
  <2> SUFFICES ASSUME NEW p \in log.before PROVE Has(file'.lines, p) \/ Ahead(p)'
    BY <1>1 DEF LogInv, Phases, StoreCovers
  <2>1. CASE Has(file.lines, p)
    <3>1. PICK i \in 1 .. m : file.lines[i].object = p /\ file.lines[i].level # Bad
      BY <2>1 DEF Has, m
    <3>2. i \in 1 .. m + 1 /\ file'.lines[i] = file.lines[i]
      BY <1>6, <1>7
    <3> QED
      BY <1>6, <1>7, <3>1, <3>2 DEF Has
  <2>2. CASE p = o
    <3>1. m + 1 \in 1 .. m + 1
      BY <1>6
    <3> QED
      BY <1>5, <1>6, <1>7, <2>2, <3>1 DEF Has
  <2>3. CASE p # o /\ ~Has(file.lines, p)
    <3>1. Ahead(p) /\ Listed(list, p)
      BY <1>1, <2>3 DEF LogInv, StoreCovers, OnTheList
    <3>2. ASSUME NEW i \in 1 .. Len(list), NEW j \in 1 .. Len(list), i < j, list[i] = o, list[j] = p
          PROVE  Ahead(p)'
      BY <1>1, <3>2 DEF Ahead
    <3>3. CASE store = "head" /\ 1 \in 1 .. Len(list) /\ o = list[1]
      <4>1. PICK j \in 1 .. Len(list) : list[j] = p
        BY <3>1 DEF Listed
      <4>2. 1 < j
        BY <1>3, <2>3, <3>3, <4>1
      <4> QED
        BY <3>2, <3>3, <4>1, <4>2
    <3>4. ASSUME NEW i \in 1 .. Len(list), list[i] = store, i # Len(list), o = list[i + 1]
          PROVE  Ahead(p)'
      <4>1. store # "head"
        BY <1>3, <3>4, LogObjectAssumption
      <4>2. PICK k \in 1 .. Len(list), j \in 1 .. Len(list) : k < j /\ list[k] = store /\ list[j] = p
        BY <3>1, <4>1 DEF Ahead
      <4>3. k = i
        BY <3>4, <4>2 DEF LogInv, OnTheList
      <4>4. i + 1 \in 1 .. Len(list) /\ i + 1 < j
        <5>1. j # i + 1
          BY <2>3, <3>4, <4>2
        <5> QED
          BY <1>3, <4>2, <4>3, <5>1
      <4> QED
        BY <3>2, <3>4, <4>2, <4>4
    <3> QED
      BY <1>2, <3>3, <3>4
  <2> QED
    BY <2>1, <2>2, <2>3
<1>14. LoadCovers'
  BY <1>1 DEF LogInv, Phases, LoadCovers
<1> QED
  BY <1>8, <1>9, <1>10, <1>11, <1>12, <1>13, <1>14 DEF LogInv

\* The C library writes, and nothing else changes.
LEMMA StoreFlushInv ==
  ASSUME LogInv, StoreFlush
  PROVE  LogInv'
<1>1. PICK n \in file.halves + 1 .. 2 * Len(file.lines) : file' = [file EXCEPT !.halves = n]
  BY DEF StoreFlush
<1>2. /\ store # None /\ list' = list /\ level' = level /\ store' = store /\ load' = load /\ log' = log
  BY DEF StoreFlush
<1>3. file.lines \in Seq(LineSet) /\ file.halves \in Nat /\ Len(file.lines) \in Nat
  BY DEF LogInv, LogTypeOK
<1>4. /\ file'.halves = n /\ file'.lines = file.lines /\ n \in Nat /\ n <= 2 * Len(file.lines)
      /\ file' \in [exists : BOOLEAN, lines : Seq(LineSet), halves : Nat]
  <2>1. file \in [exists : BOOLEAN, lines : Seq(LineSet), halves : Nat]
    BY DEF LogInv, LogTypeOK
  <2>2. n \in Nat /\ n <= 2 * Len(file.lines)
    BY <1>3
  <2> QED
    BY <1>1, <2>1, <2>2
<1>5. LogTypeOK' /\ Phases'
  BY <1>2, <1>4 DEF LogInv, LogTypeOK, Phases
<1> QED
  BY <1>2, <1>4, <1>5
  DEF LogInv, OnTheList, LinesAreStored, AllStored, Stored, LevelsAreSeen, StoreCovers, LoadCovers,
      Named, Has, Ahead, Listed

\* The first lines of a sequence.
LEMMA PrefixOf ==
  ASSUME NEW lines \in Seq(LineSet), NEW k \in 0 .. Len(lines)
  PROVE  /\ SubSeq(lines, 1, k) \in Seq(LineSet) /\ Len(SubSeq(lines, 1, k)) = k
         /\ \A i \in 1 .. k : i \in 1 .. Len(lines) /\ SubSeq(lines, 1, k)[i] = lines[i]
         /\ k = Len(lines) => SubSeq(lines, 1, k) = lines
<1>1. /\ SubSeq(lines, 1, k) \in Seq(LineSet) /\ Len(SubSeq(lines, 1, k)) = k
      /\ \A i \in 1 .. k : i \in 1 .. Len(lines) /\ SubSeq(lines, 1, k)[i] = lines[i]
  OBVIOUS
<1>2. ASSUME k = Len(lines) PROVE SubSeq(lines, 1, k) = lines
  BY <1>1, <1>2, SeqEqual
<1> QED
  BY <1>1, <1>2

\* So much of the lines is in a file with n halves of them.
LEMMA HalvesIs ==
  ASSUME NEW m \in Nat, NEW n \in 0 .. 2 * m
  PROVE  /\ (n + 1) \div 2 \in 0 .. m /\ n <= 2 * ((n + 1) \div 2) /\ n \div 2 \in 0 .. m
         /\ n = 2 * m => (n + 1) \div 2 = m /\ n \div 2 = m
OBVIOUS

\* A store that ends has passed every object, and the file has all the lines or
\* is not complete.
LEMMA StoreCloseInv ==
  ASSUME LogInv, StoreClose
  PROVE  LogInv'
<1> DEFINE m == Len(file.lines)
<1>1. PICK n \in file.halves .. 2 * m :
        /\ file' = [file EXCEPT !.halves = n, !.lines = SubSeq(file.lines, 1, (n + 1) \div 2)]
        /\ log' = [log EXCEPT !.complete = (n = 2 * m)]
  BY DEF StoreClose
<1>2. /\ store # None /\ ml_log_object_list_next(store) = None /\ store' = None
      /\ list' = list /\ level' = level /\ load' = load
  BY DEF StoreClose
<1> DEFINE k == (n + 1) \div 2
<1>3. file.lines \in Seq(LineSet) /\ file.halves \in Nat /\ m \in Nat /\ n \in 0 .. 2 * m
  BY <1>1 DEF LogInv, LogTypeOK
<1>4. k \in 0 .. m /\ n <= 2 * k /\ (n = 2 * m => k = m)
  BY <1>3, HalvesIs
<1>5. /\ SubSeq(file.lines, 1, k) \in Seq(LineSet) /\ Len(SubSeq(file.lines, 1, k)) = k
      /\ \A i \in 1 .. k : i \in 1 .. m /\ SubSeq(file.lines, 1, k)[i] = file.lines[i]
      /\ k = m => SubSeq(file.lines, 1, k) = file.lines
  BY <1>3, <1>4, PrefixOf
<1>6. /\ file'.halves = n /\ file'.lines = SubSeq(file.lines, 1, k)
      /\ file' \in [exists : BOOLEAN, lines : Seq(LineSet), halves : Nat]
  <2>1. file \in [exists : BOOLEAN, lines : Seq(LineSet), halves : Nat] /\ n \in Nat
    BY <1>3 DEF LogInv, LogTypeOK
  <2> DEFINE part == SubSeq(file.lines, 1, k)
  <2>2. part \in Seq(LineSet) /\ file' = [file EXCEPT !.halves = n, !.lines = part]
    BY <1>1, <1>5
  <2> HIDE DEF part
  <2>3. /\ file'.halves = n /\ file'.lines = part
        /\ file' \in [exists : BOOLEAN, lines : Seq(LineSet), halves : Nat]
    BY <2>1, <2>2
  <2> QED
    BY <2>3 DEF part
<1>7. /\ log'.complete = (n = 2 * m)
      /\ log'.set = log.set /\ log'.during = log.during /\ log'.before = log.before
      /\ log'.stored = log.stored /\ log'.present = log.present /\ log'.loaded = log.loaded
  BY <1>1 DEF LogInv, LogTypeOK
<1> HIDE DEF k
<1>8. LogTypeOK'
  <2>1. log' \in [during : [Objects -> SUBSET AnyLevel], before : SUBSET Objects,
                  complete : BOOLEAN, stored : BOOLEAN, present : SUBSET Objects,
                  set : SUBSET Objects, loaded : BOOLEAN]
    BY <1>1 DEF LogInv, LogTypeOK
  <2> QED
    BY <1>2, <1>6, <2>1 DEF LogInv, LogTypeOK
<1>9. OnTheList'
  BY <1>2, <1>7, LogObjectAssumption DEF LogInv, OnTheList, Listed
<1>10. Phases'
  <2>1. file'.halves <= 2 * Len(file'.lines)
    BY <1>3, <1>4, <1>5, <1>6
  <2>2. log'.complete => log.stored /\ n = 2 * k
    BY <1>2, <1>4, <1>7 DEF LogInv, Phases
  <2> QED
    BY <1>2, <1>5, <1>6, <1>7, <2>1, <2>2 DEF LogInv, Phases
<1> HIDE DEF m
<1>11. LinesAreStored'
  <2>1. \A i \in 1 .. Len(file'.lines) : i \in 1 .. m /\ file'.lines[i] = file.lines[i]
    BY <1>5, <1>6
  <2> QED
    BY <1>2, <1>7, <2>1 DEF LogInv, LinesAreStored, AllStored, Stored, m
<1>12. LevelsAreSeen' /\ LoadCovers'
  BY <1>2, <1>7 DEF LogInv, LogTypeOK, LevelsAreSeen, LoadCovers
<1>13. StoreCovers'
  <2> SUFFICES ASSUME n = 2 * m, NEW p \in log.before PROVE Has(file'.lines, p)
    BY <1>2, <1>7 DEF StoreCovers
  <2>1. file'.lines = file.lines
    BY <1>4, <1>5, <1>6
  <2>2. ~Ahead(p)
    <3>1. list \in Seq(Objects) /\ None \notin Objects /\ "head" \notin Objects
      BY LogObjectAssumption DEF LogInv, LogTypeOK
    <3>2. \/ store = "head" /\ list = <<>>
          \/ store = "head" /\ 1 \in 1 .. Len(list) /\ list[1] = None
          \/ \E i \in 1 .. Len(list) : list[i] = store /\ None = IF i = Len(list) THEN None ELSE list[i + 1]
      BY <1>2, NextIs
    <3>3. Listed(list, p)
      BY <1>2 DEF LogInv, OnTheList
    <3>4. CASE store = "head"
      BY <3>1, <3>2, <3>3, <3>4 DEF Listed
    <3>5. CASE store # "head"
      <4>1. PICK i \in 1 .. Len(list) : list[i] = store /\ None = IF i = Len(list) THEN None ELSE list[i + 1]
        BY <3>2, <3>5
      <4>2. i = Len(list)
        <5>1. CASE i # Len(list)
          <6>1. i + 1 \in 1 .. Len(list) /\ list[i + 1] \in Objects
            BY <3>1, <5>1
          <6> QED
            BY <3>1, <4>1, <5>1, <6>1
        <5> QED
          BY <5>1
      <4>3. ASSUME NEW a \in 1 .. Len(list), NEW b \in 1 .. Len(list), a < b, list[a] = store PROVE FALSE
        <5>1. a = i
          BY <4>1, <4>3 DEF LogInv, OnTheList
        <5> QED
          BY <3>1, <4>2, <4>3, <5>1
      <4> QED
        BY <3>5, <4>3 DEF Ahead
    <3> QED
      BY <3>4, <3>5
  <2> QED
    BY <1>2, <2>1, <2>2 DEF LogInv, StoreCovers
<1> QED
  BY <1>8, <1>9, <1>10, <1>11, <1>12, <1>13 DEF LogInv

\* What a load reads of a file: some of its first lines; all of them if the file
\* is whole and every level in it has a name.
LEMMA ReadableIs ==
  ASSUME NEW f \in [exists : BOOLEAN, lines : Seq(LineSet), halves : Nat],
         f.halves <= 2 * Len(f.lines)
  PROVE  /\ Readable(f) \in Seq(LineSet)
         /\ \A i \in 1 .. Len(Readable(f)) : /\ i \in 1 .. Len(f.lines) /\ Readable(f)[i] = f.lines[i]
                                             /\ i <= f.halves \div 2
         /\ f.halves = 2 * Len(f.lines) /\ (\A i \in 1 .. Len(f.lines) : f.lines[i].level # Unknown)
              => Readable(f) = f.lines
<1> DEFINE m == Len(f.lines)
           k == f.halves \div 2
           whole == SubSeq(f.lines, 1, k)
           ends == {i \in DOMAIN whole : whole[i].level = Unknown}
           least == CHOOSE i \in ends : \A j \in ends : i <= j
<1>1. f.lines \in Seq(LineSet) /\ m \in Nat /\ f.halves \in 0 .. 2 * m
  OBVIOUS
<1>2. k \in 0 .. m /\ (f.halves = 2 * m => k = m) /\ k = f.halves \div 2
  BY <1>1, HalvesIs
<1>3. /\ whole \in Seq(LineSet) /\ Len(whole) = k
      /\ \A i \in 1 .. k : i \in 1 .. m /\ whole[i] = f.lines[i]
      /\ k = m => whole = f.lines
  BY <1>1, <1>2, PrefixOf
<1>4. Readable(f) = IF ends = {} THEN whole ELSE SubSeq(whole, 1, least - 1)
  BY DEF Readable
<1> HIDE DEF whole, k
<1>5. CASE ends = {}
  BY <1>3, <1>4, <1>5, <1>2
<1>6. CASE ends # {}
  <2>1. ends \in SUBSET Nat /\ ends \subseteq 1 .. k
    BY <1>3
  <2>2. \E i \in ends : \A j \in ends : i <= j
    <3> HIDE DEF ends
    <3> QED
      BY <1>6, <2>1, LeastIs
  <2>3. least \in ends
    <3> HIDE DEF ends
    <3> QED
      BY <2>2
  <2>4. least \in 1 .. k /\ least - 1 \in 0 .. Len(whole) /\ whole[least].level = Unknown
    <3> HIDE DEF least
    <3> QED
      BY <1>2, <1>3, <2>1, <2>3
  <2> HIDE DEF least, ends
  <2>5. /\ SubSeq(whole, 1, least - 1) \in Seq(LineSet)
        /\ Len(SubSeq(whole, 1, least - 1)) = least - 1
        /\ \A i \in 1 .. least - 1 : i \in 1 .. Len(whole) /\ SubSeq(whole, 1, least - 1)[i] = whole[i]
    BY <1>3, <2>4, PrefixOf
  <2>6. ~(\A i \in 1 .. m : f.lines[i].level # Unknown)
    BY <1>3, <2>4
  <2> QED
    BY <1>2, <1>3, <1>4, <1>6, <2>4, <2>5, <2>6
<1> QED
  BY <1>5, <1>6

\* The lines of a whole file are about to be applied, each to its object.
LEMMA LoadOpenInv ==
  ASSUME LogInv, LoadOpen
  PROVE  LogInv'
<1> DEFINE lines == Readable(file)
<1>1. /\ load.active = FALSE /\ store = None
      /\ load' = [active |-> TRUE, lines |-> lines]
      /\ log' = [log EXCEPT !.present = Registered, !.loaded = FALSE]
      /\ list' = list /\ level' = level /\ file' = file /\ store' = store
  BY DEF LoadOpen, LogInv, LogTypeOK
<1>2. /\ lines \in Seq(LineSet)
      /\ \A i \in 1 .. Len(lines) : /\ i \in 1 .. Len(file.lines) /\ lines[i] = file.lines[i]
                                     /\ i <= file.halves \div 2
      /\ file.halves = 2 * Len(file.lines) /\ (\A i \in 1 .. Len(file.lines) : file.lines[i].level # Unknown)
           => lines = file.lines
  BY ReadableIs DEF LogInv, LogTypeOK, Phases
<1> HIDE DEF lines
<1>3. list \in Seq(Objects) /\ Registered \in SUBSET Objects /\ \A o \in Registered : Listed(list, o)
  BY DEF LogInv, LogTypeOK, Registered, Range, Listed
<1>4. /\ log'.present = Registered /\ log'.loaded = FALSE
      /\ log'.set = log.set /\ log'.during = log.during /\ log'.before = log.before
      /\ log'.stored = log.stored /\ log'.complete = log.complete
  BY <1>1 DEF LogInv, LogTypeOK
<1>5. LogTypeOK'
  <2>1. log' \in [during : [Objects -> SUBSET AnyLevel], before : SUBSET Objects,
                  complete : BOOLEAN, stored : BOOLEAN, present : SUBSET Objects,
                  set : SUBSET Objects, loaded : BOOLEAN]
    BY <1>1, <1>3 DEF LogInv, LogTypeOK
  <2>2. load' \in [active : BOOLEAN, lines : Seq(LineSet)]
    BY <1>1, <1>2
  <2> QED
    BY <1>1, <2>1, <2>2 DEF LogInv, LogTypeOK
<1>6. OnTheList' /\ Phases'
  BY <1>1, <1>3, <1>4 DEF LogInv, OnTheList, Phases, Listed
<1>7. LinesAreStored'
  BY <1>1, <1>2, <1>4 DEF LogInv, LinesAreStored, AllStored, Stored
<1>8. LevelsAreSeen' /\ StoreCovers'
  BY <1>1, <1>4 DEF LogInv, LevelsAreSeen, StoreCovers, Has
<1>9. LoadCovers'
  <2> SUFFICES ASSUME log.complete, Named, NEW o \in log.before PROVE Has(lines, o)
    BY <1>1, <1>4 DEF LoadCovers, Named, Has
  <2>1. log.stored /\ file.halves = 2 * Len(file.lines)
    BY DEF LogInv, Phases
  <2>2. \A i \in 1 .. Len(file.lines) : file.lines[i].level # Unknown
    <3> TAKE i \in 1 .. Len(file.lines)
    <3>1. Stored(file.lines[i]) /\ log.during \in [Objects -> SUBSET AnyLevel]
      <4>1. i <= file.halves \div 2
        BY <2>1 DEF LogInv, LogTypeOK
      <4> QED BY <2>1, <4>1 DEF LogInv, LogTypeOK, LinesAreStored
    <3>2. ASSUME file.lines[i].level = Unknown PROVE FALSE
      <4>1. Unknown \in log.during[file.lines[i].object] /\ file.lines[i].object \in Objects
        BY <3>1, <3>2, LogObjectAssumption DEF Stored, Named
      <4>2. Unknown \in AnyLevel /\ Unknown # Unnamed
        BY <3>1, <4>1 DEF Named
      <4> QED
        BY <4>2, LogObjectAssumption DEF AnyLevel
    <3> QED
      BY <3>2
  <2>3. lines = file.lines
    BY <1>2, <2>1, <2>2
  <2> QED
    BY <2>3 DEF LogInv, StoreCovers
<1> QED
  BY <1>5, <1>6, <1>7, <1>8, <1>9 DEF LogInv

\* A line changes the level of the object that it names, to one that was stored.
LEMMA LoadLineInv ==
  ASSUME LogInv, LoadLine
  PROVE  LogInv'
<1> DEFINE rest == Tail(load.lines)
           l == Head(load.lines)
           n == Len(load.lines)
           applies == l.object \in Registered /\ l.level \in Levels
<1>1. /\ load.lines \in Seq(LineSet) /\ load.lines # <<>> /\ list \in Seq(Objects)
      /\ load' = [load EXCEPT !.lines = rest]
      /\ list' = list /\ file' = file /\ store' = store /\ log' = log
  BY DEF LoadLine, LogInv, LogTypeOK
<1>2. /\ l \in LineSet /\ l = load.lines[1] /\ n \in Nat /\ 1 \in 1 .. n
      /\ rest \in Seq(LineSet) /\ Len(rest) = n - 1
      /\ \A i \in 1 .. n - 1 : i + 1 \in 1 .. n /\ rest[i] = load.lines[i + 1]
  BY <1>1
<1>3. Registered \subseteq Objects /\ (\A o \in Objects : o \in Registered <=> Listed(list, o))
  BY <1>1 DEF Registered, Range, Listed
<1>4. level' = IF applies THEN [level EXCEPT ![l.object] = l.level] ELSE level
  <2>1. ml_log_object_get_by_name(l.object) = IF l.object \in Registered THEN l.object ELSE None
    BY DEF ml_log_object_get_by_name
  <2>2. ml_log_object_level_from_string(l.level) = IF l.level \in Levels THEN l.level ELSE None
    BY DEF ml_log_object_level_from_string
  <2>3. None \notin Objects /\ None \notin Levels
    BY LogObjectAssumption
  <2>4. level' = IF ml_log_object_get_by_name(l.object) # None /\ ml_log_object_level_from_string(l.level) # None
                 THEN [level EXCEPT ![ml_log_object_get_by_name(l.object)] = ml_log_object_level_from_string(l.level)]
                 ELSE level
    BY DEF LoadLine
  <2> HIDE DEF l
  <2> QED
    BY <1>3, <2>1, <2>2, <2>3, <2>4
<1>5. load.active /\ store = None /\ ~log.loaded
  BY <1>1 DEF LogInv, LogTypeOK, Phases
<1> HIDE DEF l, rest
<1>6. /\ load'.active = load.active /\ load'.lines = rest
      /\ load' \in [active : BOOLEAN, lines : Seq(LineSet)]
  BY <1>1, <1>2 DEF LogInv, LogTypeOK
<1>7. /\ level' \in [Objects -> AnyLevel]
      /\ \A o \in Objects : level'[o] = IF applies /\ o = l.object THEN l.level ELSE level[o]
  BY <1>3, <1>4 DEF LogInv, LogTypeOK, AnyLevel
<1>8. LogTypeOK' /\ Phases'
  BY <1>1, <1>5, <1>6, <1>7 DEF LogInv, LogTypeOK, Phases
<1>9. OnTheList'
  BY <1>1, <1>3, <1>5, <1>7, LogObjectAssumption DEF LogInv, OnTheList, Listed
<1>10. LinesAreStored'
  BY <1>1, <1>2, <1>6 DEF LogInv, LinesAreStored, AllStored, Stored, n
<1>11. ASSUME log.stored, applies PROVE l.level \in log.during[l.object]
  <2>1. Stored(l)
    BY <1>2, <1>11 DEF LogInv, LinesAreStored, AllStored, n
  <2>2. l.level # Unknown /\ l.level # Bad /\ l.object # Foreign
    BY <1>3, <1>11, LogObjectAssumption
  <2> QED
    BY <2>1, <2>2 DEF Stored
<1>12. LevelsAreSeen' /\ StoreCovers'
  BY <1>1, <1>5, <1>7, <1>11 DEF LogInv, Phases, LevelsAreSeen, StoreCovers
<1>13. LoadCovers'
  <2> SUFFICES ASSUME log.complete, Named, NEW o \in (log.before \cap log.present) \ log.set
               PROVE  level'[o] \in log.during[o] \/ Has(rest, o)
    BY <1>1, <1>6 DEF LoadCovers, Named, Has
  <2>1. log.stored /\ o \in Objects /\ o \in Registered
    BY <1>3 DEF LogInv, LogTypeOK, Phases, OnTheList
  <2>2. level[o] \in log.during[o] \/ Has(load.lines, o)
    BY <1>5 DEF LogInv, LoadCovers
  <2>3. CASE level[o] \in log.during[o]
    BY <1>7, <1>11, <2>1, <2>3
  <2>4. CASE Has(load.lines, o)
    <3>1. PICK i \in 1 .. n : load.lines[i].object = o /\ load.lines[i].level # Bad
      BY <2>4 DEF Has, n
    <3>2. CASE i = 1
      <4>1. l.object = o /\ l.level \in log.during[o] /\ l.level # Unnamed
        <5>1. Stored(l) /\ l.object = o /\ l.level # Bad /\ o # Foreign
          BY <1>2, <2>1, <3>1, <3>2, LogObjectAssumption DEF LogInv, LinesAreStored, AllStored, n
        <5> QED
          BY <2>1, <5>1 DEF Stored, Named
      <4>2. l.level \in AnyLevel
        BY <2>1, <4>1 DEF LogInv, LogTypeOK
      <4>3. applies
        BY <2>1, <4>1, <4>2 DEF AnyLevel
      <4> QED
        BY <1>7, <1>11, <2>1, <4>1, <4>3
    <3>3. CASE i # 1
      <4>1. i - 1 \in 1 .. n - 1 /\ (i - 1) + 1 = i
        BY <1>2, <3>3
      <4>2. i - 1 \in 1 .. Len(rest) /\ rest[i - 1].object = o /\ rest[i - 1].level # Bad
        BY <1>2, <3>1, <4>1
      <4> QED
        BY <4>2 DEF Has
    <3> QED
      BY <3>2, <3>3
  <2> QED
    BY <2>2, <2>3, <2>4
<1> QED
  BY <1>8, <1>9, <1>10, <1>12, <1>13 DEF LogInv

\* No line is left: every object has its level.
LEMMA LoadCloseInv ==
  ASSUME LogInv, LoadClose
  PROVE  LogInv'
<1>1. /\ load.active /\ load.lines = <<>> /\ load' = [active |-> FALSE, lines |-> <<>>]
      /\ log' = [log EXCEPT !.loaded = TRUE]
      /\ list' = list /\ level' = level /\ file' = file /\ store' = store
  BY DEF LoadClose, NoLoad
<1>2. /\ log'.loaded = TRUE /\ load'.active = FALSE /\ load'.lines = load.lines
      /\ log'.set = log.set /\ log'.during = log.during /\ log'.before = log.before
      /\ log'.stored = log.stored /\ log'.complete = log.complete /\ log'.present = log.present
  BY <1>1 DEF LogInv, LogTypeOK
<1>3. LogTypeOK'
  BY <1>1 DEF LogInv, LogTypeOK
<1>4. OnTheList' /\ Phases'
  BY <1>1, <1>2 DEF LogInv, OnTheList, Phases, Listed
<1>5. LinesAreStored' /\ LevelsAreSeen' /\ StoreCovers' /\ LoadCovers'
  BY <1>1, <1>2 DEF LogInv, LinesAreStored, AllStored, Stored, LevelsAreSeen, StoreCovers, Has,
                    Ahead, LoadCovers, Named
<1> QED
  BY <1>3, <1>4, <1>5 DEF LogInv

\* What was not written is lost with the levels, and the file if it was in memory.
LEMMA DieInv ==
  ASSUME LogInv, Die
  PROVE  LogInv'
<1>1. PICK f \in {Written, NoFile} : Killed(f)
  BY DEF Die
<1>2. /\ list' = <<>> /\ level' = [o \in Objects |-> Default] /\ file' = f /\ store' = None
      /\ load' = [active |-> FALSE, lines |-> <<>>]
      /\ log' = IF f.exists THEN [log EXCEPT !.set = {}, !.loaded = FALSE, !.present = {}]
                ELSE NoHistory
  BY <1>1 DEF Killed, NoLoad
<1> DEFINE k == (file.halves + 1) \div 2
           m == Len(file.lines)
<1>3. file.lines \in Seq(LineSet) /\ m \in Nat /\ file.halves \in 0 .. 2 * m
  BY DEF LogInv, LogTypeOK, Phases
<1>4. k \in 0 .. m /\ file.halves <= 2 * k /\ (file.halves = 2 * m => k = m)
  BY <1>3, HalvesIs
<1>5. /\ SubSeq(file.lines, 1, k) \in Seq(LineSet) /\ Len(SubSeq(file.lines, 1, k)) = k
      /\ \A i \in 1 .. k : i \in 1 .. m /\ SubSeq(file.lines, 1, k)[i] = file.lines[i]
      /\ k = m => SubSeq(file.lines, 1, k) = file.lines
  BY <1>3, <1>4, PrefixOf
<1>6. /\ f \in [exists : BOOLEAN, lines : Seq(LineSet), halves : Nat]
      /\ f.halves <= 2 * Len(f.lines)
      /\ f.exists => /\ f.halves = file.halves
                     /\ \A i \in 1 .. Len(f.lines) : i \in 1 .. m /\ f.lines[i] = file.lines[i]
                     /\ file.halves = 2 * m => f.lines = file.lines
  <2>1. CASE f = NoFile
    BY <2>1 DEF NoFile
  <2>2. CASE f = Written
    <3>1. file \in [exists : BOOLEAN, lines : Seq(LineSet), halves : Nat]
      BY DEF LogInv, LogTypeOK
    <3> DEFINE part == SubSeq(file.lines, 1, k)
    <3>2. part \in Seq(LineSet) /\ f = [file EXCEPT !.lines = part]
      BY <1>5, <2>2 DEF Written
    <3> HIDE DEF part
    <3>3. /\ f.halves = file.halves /\ f.lines = part
          /\ f \in [exists : BOOLEAN, lines : Seq(LineSet), halves : Nat]
      BY <3>1, <3>2
    <3> HIDE DEF k
    <3> QED
      BY <1>4, <1>5, <3>3 DEF part
  <2> QED
    BY <2>1, <2>2
<1> HIDE DEF k
<1>7. CASE ~f.exists
  <2>1. log' = [during |-> [o \in Objects |-> {}], before |-> {}, complete |-> FALSE,
                stored |-> FALSE, present |-> {}, set |-> {}, loaded |-> FALSE]
    BY <1>2, <1>7 DEF NoHistory
  <2>2. /\ log'.during = [o \in Objects |-> {}] /\ log'.before = {} /\ ~log'.complete
        /\ ~log'.stored /\ log'.present = {} /\ log'.set = {} /\ ~log'.loaded
    BY <2>1
  <2>3. log' \in [during : [Objects -> SUBSET AnyLevel], before : SUBSET Objects,
                  complete : BOOLEAN, stored : BOOLEAN, present : SUBSET Objects,
                  set : SUBSET Objects, loaded : BOOLEAN]
    <3>1. [o \in Objects |-> {}] \in [Objects -> SUBSET AnyLevel]
      OBVIOUS
    <3> HIDE DEF AnyLevel
    <3> QED
      BY <2>1, <3>1
  <2>4. /\ list' \in Seq(Objects) /\ level' \in [Objects -> AnyLevel]
        /\ store' \in {None, "head"} \cup Objects
        /\ load' \in [active : BOOLEAN, lines : Seq(LineSet)]
        /\ file' \in [exists : BOOLEAN, lines : Seq(LineSet), halves : Nat]
    BY <1>2, <1>6, LogObjectAssumption DEF AnyLevel
  <2>5. LogTypeOK'
    BY <2>3, <2>4 DEF LogTypeOK
  <2>6. OnTheList'
    BY <1>2, <2>2, LogObjectAssumption DEF OnTheList
  <2>7. Phases'
    BY <1>2, <1>6, <2>2 DEF Phases
  <2>8. LinesAreStored' /\ LevelsAreSeen' /\ StoreCovers' /\ LoadCovers'
    BY <1>2, <2>2 DEF LinesAreStored, LevelsAreSeen, StoreCovers, LoadCovers
  <2> QED
    BY <2>5, <2>6, <2>7, <2>8 DEF LogInv
<1>8. CASE f.exists
  <2>1. /\ log'.set = {} /\ log'.loaded = FALSE /\ log'.present = {}
        /\ log'.during = log.during /\ log'.before = log.before
        /\ log'.stored = log.stored /\ log'.complete = log.complete
    BY <1>2, <1>8 DEF LogInv, LogTypeOK
  <2>2. LogTypeOK'
    <3>1. log' \in [during : [Objects -> SUBSET AnyLevel], before : SUBSET Objects,
                    complete : BOOLEAN, stored : BOOLEAN, present : SUBSET Objects,
                    set : SUBSET Objects, loaded : BOOLEAN]
      BY <1>2, <1>8 DEF LogInv, LogTypeOK
    <3> QED
      BY <1>2, <1>6, <3>1, LogObjectAssumption DEF LogTypeOK, AnyLevel
  <2>3. OnTheList'
    BY <1>2, <1>8, <2>1, LogObjectAssumption DEF OnTheList
  <2>7. Phases'
    <3>1. log.complete => log.stored /\ f.halves = 2 * Len(f.lines)
      BY <1>6, <1>8 DEF LogInv, Phases
    <3> QED
      BY <1>2, <1>6, <2>1, <3>1 DEF Phases
  <2>4. LinesAreStored'
    BY <1>2, <1>6, <1>8, <2>1 DEF LogInv, LinesAreStored, AllStored, Stored
  <2>5. LevelsAreSeen' /\ LoadCovers'
    BY <1>2, <2>1 DEF LevelsAreSeen, LoadCovers
  <2>6. StoreCovers'
    <3> SUFFICES ASSUME log.complete, NEW o \in log.before PROVE Has(f.lines, o)
      BY <1>2, <2>1 DEF StoreCovers, Has
    <3>1. f.lines = file.lines
      BY <1>6, <1>8 DEF LogInv, Phases
    <3> QED
      BY <3>1 DEF LogInv, StoreCovers, Has
  <2> QED
    BY <2>2, <2>3, <2>4, <2>5, <2>6, <2>7 DEF LogInv
<1> QED
  BY <1>7, <1>8

\* Every step of the application keeps the invariant.
LEMMA LogStepInv == LogInv /\ [LogNext]_logVars => LogInv'
<1> SUFFICES ASSUME LogInv, [LogNext]_logVars PROVE LogInv'
  OBVIOUS
<1>1. ASSUME NEW name, NEW word, command_log_set_level(name, word) PROVE LogInv'
  <2>1. name \in Objects /\ word \in AnyLevel /\ ml_log_object_set_level(name, word)
    <3>1. list \in Seq(Objects)
      BY DEF LogInv, LogTypeOK
    <3>2. name \in Registered /\ word \in Levels
      BY <1>1 DEF command_log_set_level, ml_log_object_get_by_name, ml_log_object_level_from_string
    <3> QED
      BY <1>1, <3>1, <3>2 DEF command_log_set_level, Registered, Range, AnyLevel
  <2> QED
    BY <2>1, SetLevelInv
<1>2. ASSUME NEW o \in Objects, NEW l \in Levels \cup {Unnamed}, ml_log_object_set_level(o, l) PROVE LogInv'
  BY <1>2, SetLevelInv DEF AnyLevel
<1>3. CASE UNCHANGED logVars
  <2>1. /\ list' = list /\ level' = level /\ file' = file /\ store' = store
        /\ load' = load /\ log' = log
    BY <1>3 DEF logVars
  <2>2. LogTypeOK' /\ OnTheList' /\ Phases'
    BY <2>1 DEF LogInv, LogTypeOK, OnTheList, Phases, Listed
  <2>3. LinesAreStored' /\ LevelsAreSeen' /\ LoadCovers'
    BY <2>1 DEF LogInv, LinesAreStored, AllStored, Stored, LevelsAreSeen, LoadCovers, Named, Has
  <2>4. StoreCovers'
    BY <2>1 DEF LogInv, StoreCovers, Has, Ahead
  <2> QED
    BY <2>2, <2>3, <2>4 DEF LogInv
<1> QED
  BY <1>1, <1>2, <1>3, RegisterInv, StoreOpenInv, StoreLineInv, StoreFlushInv, StoreCloseInv,
     LoadOpenInv, LoadLineInv, LoadCloseInv, DieInv DEF LogNext

LEMMA LogInvMeans == LogInv => LevelsSurvive
<1> SUFFICES ASSUME LogInv, log.loaded, log.stored, store = None, NEW o \in log.present \ log.set
             PROVE  /\ level[o] \in log.during[o] \cup {Default}
                    /\ log.complete /\ o \in log.before /\ Named => level[o] \in log.during[o]
  BY DEF LevelsSurvive, Named
<1>1. level[o] \in log.during[o] \cup {Default}
  BY DEF LogInv, LogTypeOK, LevelsAreSeen
<1>2. ~Has(load.lines, o)
  BY DEF LogInv, LogTypeOK, Phases, Has
<1> QED
  BY <1>1, <1>2 DEF LogInv, LogTypeOK, LoadCovers

\* A load gives an object that was registered in time and not set since the
\* start a level that it had during the last store, or leaves its default; and
\* the former, if that store was complete and all levels had names. Wherever
\* the application was killed, and whatever part of its buffer the C library
\* had written.
THEOREM LevelsAlwaysSurvive == Spec => []LevelsSurvive
<1>1. Init => LogInv
  BY LogInitInv DEF Init, CallsInit, StoresInit, FunctionsInit
<1>2. LogInv /\ [Next]_libraryVars => LogInv'
  BY LogStepInv DEF Next, libraryVars
<1>3. LogInv => LevelsSurvive
  BY LogInvMeans
<1> QED
  BY <1>1, <1>2, <1>3, PTL DEF Spec

-----------------------------------------------------------------------------
(* The call that is made: a record, of which no step changes the function,   *)
(* the arguments or the kernel from before.                                  *)

IsCall ==
  proc = [fn |-> proc.fn, arg |-> proc.arg, pc |-> proc.pc, held |-> proc.held, res |-> proc.res,
          local |-> proc.local, fault |-> proc.fault, ignored |-> proc.ignored,
          usage |-> proc.usage, before |-> proc.before]

Same == /\ proc'.fn = proc.fn /\ proc'.arg = proc.arg /\ proc'.before = proc.before
        /\ IsCall'

Becomes(pc, held, res, local, fault, ignored, usage) ==
  /\ Same
  /\ proc'.pc = pc /\ proc'.held = held /\ proc'.res = res /\ proc'.local = local
  /\ proc'.fault = fault /\ proc'.ignored = ignored /\ proc'.usage = usage

LEMMA FailedIs == Failed # 0
BY DEF Failed

LEMMA FailsIs ==
  ASSUME NEW pc, IsCall, Fails(pc)
  PROVE  /\ Becomes(pc, proc.held, Failed, proc.local, TRUE, proc.ignored, proc.usage)
         /\ kernel' = kernel
BY DEF IsCall, Fails, Becomes, Same

\* The functions that a thread calls in each area, with what they are called with.
CallsOf ==
  [interface |-> {"ml_network_interface_index", "ml_network_interface_mac_address",
                  "ml_network_interface_ip_address", "ml_network_interface_mtu",
                  "command_ifconfig_print", "ml_network_interface_up", "ml_network_interface_down",
                  "ml_network_interface_configure", "ml_network_interface_add_route", "usage"},
   link |-> {"ml_network_interface_link_configure", "command_ethtool_print", "usage"},
   filter |-> {"filter_apply_all", "ml_network_filter_set", "ml_network_filter_get",
               "ml_network_filter_log"},
   mapper |-> {"ml_device_mapper_verity_create"},
   clock |-> {"ml_ntp_client_sync", "ml_rtc_get_time", "ml_rtc_set_time", "date", "date_set", "usage"},
   files |-> {"ml_insert_module", "ml_file_write_string", "ml_file_read", "ml_dd", "ml_print_file",
              "cat", "ls", "ll", "df", "dmesg", "i2c_scan", "top", "find", "dump", "print", "rm",
              "make", "unmake", "usage"}]

LEMMA RequestsAre ==
  /\ DOMAIN Requests = {"ml_network_interface_index", "ml_network_interface_mac_address",
                        "ml_network_interface_ip_address", "ml_network_interface_mtu",
                        "command_ifconfig_print"}
  /\ Requests["ml_network_interface_index"] = <<"index">>
  /\ Requests["ml_network_interface_mac_address"] = <<"mac">>
  /\ Requests["ml_network_interface_ip_address"] = <<"address">>
  /\ Requests["ml_network_interface_mtu"] = <<"mtu">>
  /\ Requests["command_ifconfig_print"] = <<"address", "mac", "mtu", "index">>
BY DEF Requests

\* The words of the command lines in FilesBegin.
Names == {"name", "a", "b", "one", "two"}

ArgsOK ==
  /\ In("ml_ntp_client_sync") =>
       /\ proc.arg = [now |-> proc.arg.now, servers |-> proc.arg.servers]
       /\ proc.arg.now \in Times
  /\ In("ml_file_write_string") => proc.arg \in Seq(Nat)
  /\ In("print") => proc.arg \in Seq(Nat)
  /\ In("ml_dd") => proc.arg.total_size \in Nat /\ proc.arg.chunk_size \in Nat \ {0}
  /\ In("rm") => proc.arg \in Seq(Names)

Called == IsCall /\ area \in DOMAIN CallsOf /\ proc.fn \in CallsOf[area] /\ ArgsOK

\* A call that has just been made.
Fresh ==
  /\ proc.pc = "begin" /\ proc.held = {} /\ proc.res = 0 /\ proc.local = <<>>
  /\ proc.fault = FALSE /\ proc.ignored = FALSE /\ proc.usage = FALSE
  /\ proc.before = kernel

LEMMA BeginIs ==
  ASSUME NEW call, Begin(call)
  PROVE  /\ IsCall' /\ Fresh' /\ kernel' = kernel
         /\ proc'.fn = call.fn /\ proc'.arg = call.arg
BY DEF Begin, IsCall, Fresh

\* What is called with arguments that matter.
Typed == {"ml_ntp_client_sync", "ml_file_write_string", "print", "ml_dd", "rm"}

LEMMA InterfaceBegun ==
  ASSUME area = "interface", InterfaceBegin, area' = area
  PROVE  Called' /\ Fresh' /\ kernel' = kernel
<1> DEFINE names == CallsOf["interface"]
<1>1. \A argv : command_ifconfig(argv).fn \in names
  BY DEF CallsOf, command_ifconfig, Usage
<1>2. \A argv : command_route(argv).fn \in names
  BY DEF CallsOf, command_route, Usage
<1>3. \E call : Begin(call) /\ call.fn \in names
  <2>1. ASSUME NEW fn \in DOMAIN Requests \cup {"ml_network_interface_up", "ml_network_interface_down"}
        PROVE  [fn |-> fn, arg |-> <<>>].fn \in names
    BY <2>1, RequestsAre DEF CallsOf
  <2>2. ASSUME NEW arg
        PROVE  /\ [fn |-> "ml_network_interface_configure", arg |-> arg].fn \in names
               /\ [fn |-> "ml_network_interface_add_route", arg |-> arg].fn \in names
    BY DEF CallsOf
  <2> HIDE DEF names
  <2> QED BY <1>1, <1>2, <2>1, <2>2, Zenon DEF InterfaceBegin
<1>4. IsCall' /\ Fresh' /\ kernel' = kernel /\ proc'.fn \in names
  BY <1>3, BeginIs
<1>5. proc'.fn \notin Typed
  BY <1>4 DEF CallsOf, Typed
<1>6. ArgsOK'
  BY <1>5 DEF ArgsOK, Typed, In
<1> QED BY <1>4, <1>6 DEF Called, CallsOf

LEMMA LinkBegun ==
  ASSUME area = "link", LinkBegin, area' = area
  PROVE  Called' /\ Fresh' /\ kernel' = kernel
<1> DEFINE names == CallsOf["link"]
<1>1. \A argv : command_ethtool(argv).fn \in names
  BY DEF CallsOf, command_ethtool, Usage
<1>2. \A arg : [fn |-> "ml_network_interface_link_configure", arg |-> arg].fn \in names
  BY DEF CallsOf
<1>3. \E call : Begin(call) /\ call.fn \in names
  <2> HIDE DEF names
  <2> QED BY <1>1, <1>2, Zenon DEF LinkBegin
<1>4. IsCall' /\ Fresh' /\ kernel' = kernel /\ proc'.fn \in names
  BY <1>3, BeginIs
<1>5. proc'.fn \notin Typed
  BY <1>4 DEF CallsOf, Typed
<1>6. ArgsOK'
  BY <1>5 DEF ArgsOK, Typed, In
<1> QED BY <1>4, <1>6 DEF Called, CallsOf

LEMMA FilterBegun ==
  ASSUME area = "filter", FilterBegin, area' = area
  PROVE  Called' /\ Fresh' /\ kernel' = kernel
<1> DEFINE names == CallsOf["filter"]
<1>1. \A arg : /\ [fn |-> "filter_apply_all", arg |-> arg].fn \in names
               /\ [fn |-> "ml_network_filter_set", arg |-> arg].fn \in names
  BY DEF CallsOf
<1>2. \A arg : \A fn \in {"ml_network_filter_get", "ml_network_filter_log"} :
        [fn |-> fn, arg |-> arg].fn \in names
  BY DEF CallsOf
<1>3. \E call : Begin(call) /\ call.fn \in names
  <2> HIDE DEF names
  <2> QED BY <1>1, <1>2, Zenon DEF FilterBegin
<1>4. IsCall' /\ Fresh' /\ kernel' = kernel /\ proc'.fn \in names
  BY <1>3, BeginIs
<1>5. proc'.fn \notin Typed
  BY <1>4 DEF CallsOf, Typed
<1>6. ArgsOK'
  BY <1>5 DEF ArgsOK, Typed, In
<1> QED BY <1>4, <1>6 DEF Called, CallsOf

LEMMA MapperBegun ==
  ASSUME area = "mapper", MapperBegin, area' = area
  PROVE  Called' /\ Fresh' /\ kernel' = kernel
<1>1. \E call : Begin(call) /\ call.fn = "ml_device_mapper_verity_create"
  BY DEF MapperBegin
<1>2. IsCall' /\ Fresh' /\ kernel' = kernel /\ proc'.fn = "ml_device_mapper_verity_create"
  BY <1>1, BeginIs
<1>3. ArgsOK'
  BY <1>2 DEF ArgsOK, In
<1> QED BY <1>2, <1>3 DEF Called, CallsOf

\* What a call of ml_ntp_client_sync(), and one of the other four, is given.
ArgOK(call) ==
  /\ call.fn = "ml_ntp_client_sync" =>
       /\ call.arg = [now |-> call.arg.now, servers |-> call.arg.servers]
       /\ call.arg.now \in Times
  /\ call.fn = "ml_file_write_string" => call.arg \in Seq(Nat)
  /\ call.fn = "print" => call.arg \in Seq(Nat)
  /\ call.fn = "ml_dd" => call.arg.total_size \in Nat /\ call.arg.chunk_size \in Nat \ {0}
  /\ call.fn = "rm" => call.arg \in Seq(Names)

LEMMA ClockBegun ==
  ASSUME area = "clock", ClockBegin, area' = area
  PROVE  Called' /\ Fresh' /\ kernel' = kernel
<1> DEFINE OK(call) == call.fn \in CallsOf["clock"] /\ ArgOK(call)
<1>1. \A arg \in [now : Times, servers : 1 .. Servers] : OK([fn |-> "ml_ntp_client_sync", arg |-> arg])
  BY DEF CallsOf, ArgOK
<1>2. OK([fn |-> "ml_rtc_get_time", arg |-> <<>>])
  BY DEF CallsOf, ArgOK
<1>3. \A arg : OK([fn |-> "ml_rtc_set_time", arg |-> arg])
  BY DEF CallsOf, ArgOK
<1>4. \A argv : OK(command_date(argv))
  BY DEF CallsOf, ArgOK, command_date, Usage
<1>5. \A argv : \A now \in Times : OK(command_ntp_sync(argv, now))
  BY DEF CallsOf, ArgOK, command_ntp_sync, Takes, Usage
<1>6. \E call : Begin(call) /\ OK(call)
  <2> HIDE DEF OK
  <2> QED BY <1>1, <1>2, <1>3, <1>4, <1>5, Zenon DEF ClockBegin
<1>7. PICK call : Begin(call) /\ OK(call)
  BY <1>6
<1>8. IsCall' /\ Fresh' /\ kernel' = kernel /\ proc'.fn = call.fn /\ proc'.arg = call.arg
  BY <1>7, BeginIs
<1>9. ArgsOK'
  BY <1>7, <1>8 DEF ArgsOK, ArgOK, In
<1> QED BY <1>7, <1>8, <1>9 DEF Called, CallsOf

\* The command lines of FilesBegin.
Words == {<<"name">>, <<"name", "a">>, <<"name", "a", "b">>, <<"name", "b", "a", "a">>,
          <<"name", "b", "a", "one", "two">>}

LEMMA WordsAre ==
  ASSUME NEW argv \in Words
  PROVE  /\ argv \in Seq(Names)
         /\ Len(argv) = 5 => argv[4] = "one" /\ argv[5] = "two"
<1>1. CASE argv = <<"name">>
  BY <1>1 DEF Names
<1>2. CASE argv = <<"name", "a">>
  BY <1>2 DEF Names
<1>3. CASE argv = <<"name", "a", "b">>
  BY <1>3 DEF Names
<1>4. CASE argv = <<"name", "b", "a", "a">>
  BY <1>4 DEF Names
<1>5. CASE argv = <<"name", "b", "a", "one", "two">>
  BY <1>5 DEF Names
<1> QED BY <1>1, <1>2, <1>3, <1>4, <1>5 DEF Words

LEMMA FilesBegun ==
  ASSUME area = "files", FilesBegin, area' = area
  PROVE  Called' /\ Fresh' /\ kernel' = kernel
<1> DEFINE OK(call) == call.fn \in CallsOf["files"] /\ ArgOK(call)
<1>1. \A data \in Data : /\ OK([fn |-> "ml_file_write_string", arg |-> data])
                         /\ OK(command_print(<<"print", data, "file">>))
  <2> SUFFICES ASSUME NEW data \in Data
               PROVE  /\ OK([fn |-> "ml_file_write_string", arg |-> data])
                      /\ OK(command_print(<<"print", data, "file">>))
    OBVIOUS
  <2>1. data \in Seq(Nat)
    <3>1. <<>> \in Seq(Nat) /\ <<1>> \in Seq(Nat) /\ <<1, 2>> \in Seq(Nat)
      OBVIOUS
    <3> QED BY <3>1, Zenon DEF Data
  <2>2. command_print(<<"print", data, "file">>) = [fn |-> "print", arg |-> data]
    BY DEF command_print, Takes
  <2> QED BY <2>1, <2>2 DEF CallsOf, ArgOK
<1>2. \A size : OK([fn |-> "ml_file_read", arg |-> size])
  BY DEF CallsOf, ArgOK
<1>3. \A arg \in [total_size : 0 .. Len(Input) + 1, chunk_size : 1 .. 2] :
        OK([fn |-> "ml_dd", arg |-> arg])
  BY FilesAssumption DEF CallsOf, ArgOK
<1>4. OK([fn |-> "ml_print_file", arg |-> <<>>])
  BY DEF CallsOf, ArgOK
<1>5. \A argv : /\ OK(command_cat(argv)) /\ OK(command_ls(argv)) /\ OK(command_ll(argv))
                /\ OK(command_df(argv)) /\ OK(command_dmesg(argv)) /\ OK(command_top(argv))
                /\ OK(command_find(argv))
  BY DEF CallsOf, ArgOK, command_cat, command_ls, command_ll, command_df, command_dmesg,
         command_top, command_find, Takes, Usage
<1>6. \A argv : /\ OK(command_mkdir(argv)) /\ OK(command_mount(argv)) /\ OK(command_umount(argv))
                /\ OK(command_rmmod(argv)) /\ OK(command_insmod(argv))
  BY DEF CallsOf, ArgOK, command_mkdir, command_mount, command_umount, command_rmmod,
         command_insmod, Takes, Usage
<1>7. \A argv : /\ OK(command_hexdump(argv)) /\ OK(command_mknod(argv)) /\ OK(command_i2c(argv))
  BY DEF CallsOf, ArgOK, command_hexdump, command_mknod, command_i2c, Usage
<1>8. \A argv \in Words : OK(command_rm(argv))
  <2> SUFFICES ASSUME NEW argv \in Words PROVE OK(command_rm(argv))
    OBVIOUS
  <2>1. argv \in Seq(Names)
    BY WordsAre
  <2>2. CASE Len(argv) < 2
    BY <2>2 DEF command_rm, CallsOf, ArgOK, Usage
  <2>3. CASE ~(Len(argv) < 2)
    <3>1. argv # <<>>
      BY <2>1, <2>3
    <3>2. Tail(argv) \in Seq(Names)
      BY <2>1, <3>1
    <3> QED BY <2>3, <3>2 DEF command_rm, CallsOf, ArgOK
  <2> QED BY <2>2, <2>3
<1>9. \A argv \in Words : OK(command_dd(argv))
  <2> SUFFICES ASSUME NEW argv \in Words PROVE OK(command_dd(argv))
    OBVIOUS
  <2>1. atoi("one") = 1 /\ atoi("two") = 2
    BY DEF atoi, Digits
  <2>2. CASE Len(argv) = 5
    <3>1. argv[4] = "one" /\ argv[5] = "two"
      BY <2>2, WordsAre
    <3>2. command_dd(argv) = [fn |-> "ml_dd", arg |-> [total_size |-> 1, chunk_size |-> 2]]
      BY <2>1, <2>2, <3>1 DEF command_dd, Takes
    <3> QED BY <3>2 DEF CallsOf, ArgOK
  <2>3. CASE Len(argv) # 5
    BY <2>3 DEF command_dd, Takes, Usage, CallsOf, ArgOK
  <2> QED BY <2>2, <2>3
<1>10. \E call : Begin(call) /\ OK(call)
  <2> HIDE DEF OK
  <2>1. ASSUME NEW argv \in Words,
              \/ Begin(command_cat(argv)) \/ Begin(command_ls(argv)) \/ Begin(command_ll(argv))
              \/ Begin(command_df(argv)) \/ Begin(command_dmesg(argv)) \/ Begin(command_top(argv))
              \/ Begin(command_find(argv)) \/ Begin(command_rm(argv)) \/ Begin(command_mkdir(argv))
              \/ Begin(command_mount(argv)) \/ Begin(command_umount(argv)) \/ Begin(command_rmmod(argv))
              \/ Begin(command_insmod(argv)) \/ Begin(command_dd(argv)) \/ Begin(command_hexdump(argv))
        PROVE  \E call : Begin(call) /\ OK(call)
    BY <2>1, <1>5, <1>6, <1>7, <1>8, <1>9, Zenon
  <2> QED BY <1>1, <1>2, <1>3, <1>4, <1>7, <2>1, ZenonT(60) DEF FilesBegin, Words
<1>11. PICK call : Begin(call) /\ OK(call)
  BY <1>10
<1>12. IsCall' /\ Fresh' /\ kernel' = kernel /\ proc'.fn = call.fn /\ proc'.arg = call.arg
  BY <1>11, BeginIs
<1>13. ArgsOK'
  BY <1>11, <1>12 DEF ArgsOK, ArgOK, In
<1> QED BY <1>11, <1>12, <1>13 DEF Called, CallsOf

\* A call begins with the kernel as it is, one of the functions of its area,
\* and nothing held.
LEMMA CallBegun ==
  ASSUME CallBegin, area' = area
  PROVE  Called' /\ Fresh' /\ kernel' = kernel
BY InterfaceBegun, LinkBegun, FilterBegun, MapperBegun, ClockBegun, FilesBegun DEF CallBegin

-----------------------------------------------------------------------------
(* What a call holds is a matter of where it is: each function has a label   *)
(* for every set of things to release.                                       *)

Ends == {"begin", "return"}

\* One thing is held, but at the given labels.
Only(what, labels) == proc.held = IF proc.pc \in labels THEN {} ELSE {what}

NetfdCalls ==
  {"ml_network_interface_index", "ml_network_interface_mac_address",
   "ml_network_interface_ip_address", "ml_network_interface_mtu", "command_ifconfig_print",
   "ml_network_interface_up", "ml_network_interface_down", "ml_network_interface_configure",
   "ml_network_interface_add_route", "ml_network_interface_link_configure", "command_ethtool_print"}

FdCalls == {"ml_rtc_get_time", "ml_rtc_set_time", "ml_insert_module", "dmesg", "i2c_scan"}
FileCalls == {"ml_file_write_string", "ml_file_read", "dump", "print"}
BareCalls == {"usage", "date", "date_set", "rm", "make", "unmake"}

\* The entries are held from malloc() on. ml_network_filter_get() goes to the
\* label free only with an error.
FilterHolds ==
  /\ proc.pc \in {"begin", "malloc"} => proc.held = {}
  /\ proc.pc \in {"info_get", "info_close"} => proc.held = {"sockfd"}
  /\ proc.pc \in {"entries", "free", "log"} => proc.held = {"entries_p"}
  /\ proc.pc \in {"entries_get", "entries_close"} => proc.held = {"entries_p", "sockfd"}

GetHolds ==
  /\ FilterHolds
  /\ proc.pc = "free" => proc.res # 0
  /\ proc.pc = "return" => proc.held = IF proc.res = 0 THEN {"entries_p"} ELSE {}

LogHolds == FilterHolds /\ (proc.pc = "return" => proc.held = {})

NtpHolds ==
  /\ proc.pc \in Ends => proc.held = {}
  /\ proc.pc \in {"socket", "next", "free"} => proc.held = {"infolist_p"}
  /\ proc.pc \in {"connect", "send", "receive", "settime", "close"} => proc.held = {"infolist_p", "sock"}

DdHolds ==
  /\ proc.pc \in Ends => proc.held = {}
  /\ proc.pc \in {"open", "out1"} => proc.held = {"fdin"}
  /\ proc.pc \in {"malloc", "out2"} => proc.held = {"fdin", "fdout"}
  /\ proc.pc \in {"chunk", "read", "write", "free"} => proc.held = {"fdin", "fdout", "buf_p"}

NetworkHeld ==
  /\ proc.fn \in NetfdCalls => Only("netfd", Ends)
  /\ In("ml_network_filter_set") => Only("sockfd", Ends)
  /\ In("filter_apply_all") => Only("sockfd", Ends \cup {"set"})
  /\ In("ml_network_filter_get") => GetHolds
  /\ In("ml_network_filter_log") => LogHolds

FilesHeld ==
  /\ proc.fn \in FileCalls => Only("file_p", Ends)
  /\ In("top") => Only("file_p", Ends \cup {"again", "compare"})
  /\ In("cat") \/ In("ml_print_file") \/ In("df") => Only("fin_p", Ends)
  /\ In("ls") \/ In("ll") => Only("dir_p", Ends)
  /\ In("find") => Only("mutex", Ends)
  /\ In("ml_dd") => DdHolds

Held ==
  /\ NetworkHeld
  /\ FilesHeld
  /\ proc.fn \in FdCalls => Only("fd", Ends)
  /\ proc.fn \in BareCalls => Only("nothing", Ends)
  /\ In("ml_device_mapper_verity_create") => Only("control_fd", Ends)
  /\ In("ml_ntp_client_sync") => NtpHolds

\* Where a step goes, and with what it holds.
Holding(pc, held) == Same /\ proc'.pc = pc /\ proc'.held = held

LEMMA Holds ==
  ASSUME IsCall
  PROVE  /\ \A pc : Goto(pc) => Holding(pc, proc.held)
         /\ \A res, pc : Result(res, pc) => Holding(pc, proc.held)
         /\ \A pc : Fails(pc) => Holding(pc, proc.held)
         /\ \A pc : FailsUnseen(pc) => Holding(pc, proc.held)
         /\ \A pc : Refuses(pc) => Holding(pc, proc.held)
         /\ \A v, pc : Reads(v, pc) => Holding(pc, proc.held)
         /\ \A pc : Missing(pc) => Holding(pc, proc.held)
         /\ \A data, pc : Buffered(data, pc) => Holding(pc, proc.held)
         /\ \A what, pc : Acquires(what, pc) => Holding(pc, proc.held \cup {what})
         /\ \A what, pc : Release(what, pc) => Holding(pc, proc.held \ {what})
         /\ \A pc : Flush(pc) => Holding(pc, proc.held \ {"file_p"})
<1> USE DEF IsCall, Same, Holding
<1>1. \A pc : Goto(pc) => Holding(pc, proc.held)
  BY DEF Goto
<1>2. \A res, pc : Result(res, pc) => Holding(pc, proc.held)
  BY DEF Result
<1>3. \A pc : Fails(pc) => Holding(pc, proc.held)
  BY DEF Fails
<1>4. \A pc : FailsUnseen(pc) => Holding(pc, proc.held)
  BY DEF FailsUnseen
<1>5. \A pc : Refuses(pc) => Holding(pc, proc.held)
  BY DEF Refuses
<1>6. \A v, pc : Reads(v, pc) => Holding(pc, proc.held)
  BY DEF Reads
<1>7. \A pc : Missing(pc) => Holding(pc, proc.held)
  BY DEF Missing
<1>8. \A data, pc : Buffered(data, pc) => Holding(pc, proc.held)
  BY DEF Buffered
<1>9. \A what, pc : Acquires(what, pc) => Holding(pc, proc.held \cup {what})
  BY DEF Acquires
<1>10. \A what, pc : Release(what, pc) => Holding(pc, proc.held \ {what})
  BY DEF Release
<1>11. \A pc : Flush(pc) => Holding(pc, proc.held \ {"file_p"})
  BY DEF Flush
<1> HIDE DEF Holding
<1> QED BY <1>1, <1>2, <1>3, <1>4, <1>5, <1>6, <1>7, <1>8, <1>9, <1>10, <1>11, Zenon

LEMMA HoldsOr ==
  ASSUME IsCall
  PROVE  /\ \A what, ok, err : Acquire(what, ok, err) =>
              Holding(ok, proc.held \cup {what}) \/ Holding(err, proc.held)
         /\ \A v, ok, err : Get(v, ok, err) => Holding(ok, proc.held) \/ Holding(err, proc.held)
         /\ \A k, ok, err : Call(k, ok, err) => Holding(ok, proc.held) \/ Holding(err, proc.held)
         /\ \A ok, err : Truncate(ok, err) =>
              Holding(ok, proc.held \cup {"file_p"}) \/ Holding(err, proc.held)
<1>1. \A ok, k : kernel' = k /\ proc' = [proc EXCEPT !.pc = ok, !.res = 0] => Holding(ok, proc.held)
  BY DEF IsCall, Same, Holding
<1>2. \A ok, k : kernel' = k /\ proc' = [proc EXCEPT !.pc = ok, !.held = @ \cup {"file_p"}] =>
        Holding(ok, proc.held \cup {"file_p"})
  BY DEF IsCall, Same, Holding
<1> QED BY <1>1, <1>2, Holds, Zenon DEF Acquire, Get, Call, Truncate

\* What the steps of a function do to what is held.
LEMMA NetfdSteps ==
  ASSUME IsCall, Only("netfd", Ends),
         \/ ml_network_interface_configure \/ ml_network_interface_up \/ ml_network_interface_down
         \/ ml_network_interface_get \/ ml_network_interface_add_route
         \/ ml_network_interface_link_configure \/ command_ethtool_print
  PROVE  Same /\ Only("netfd", Ends)'
<1>1. CASE ml_network_interface_configure
  <2>1. \/ At("begin") /\ (Holding("address", proc.held \cup {"netfd"}) \/ Holding("return", proc.held))
        \/ At("address") /\ (Holding("netmask", proc.held) \/ Holding("out", proc.held))
        \/ At("netmask") /\ (Holding("mtu", proc.held) \/ Holding("out", proc.held))
        \/ At("mtu") /\ Holding("out", proc.held)
        \/ At("out") /\ Holding("return", proc.held \ {"netfd"})
    BY <1>1, Holds, HoldsOr, Zenon DEF ml_network_interface_configure, net_open, net_close
  <2> QED BY <2>1 DEF Holding, Only, Ends, At
<1>2. ASSUME NEW flags, SetFlags(flags) PROVE Same /\ Only("netfd", Ends)'
  <2>1. \/ At("begin") /\ (Holding("get", proc.held \cup {"netfd"}) \/ Holding("return", proc.held))
        \/ At("get") /\ (Holding("set", proc.held) \/ Holding("out", proc.held))
        \/ At("set") /\ Holding("out", proc.held)
        \/ At("out") /\ Holding("return", proc.held \ {"netfd"})
    BY <1>2, Holds, HoldsOr, Zenon DEF SetFlags, net_open, net_close
  <2> QED BY <2>1 DEF Holding, Only, Ends, At
<1>3. CASE ml_network_interface_get
  <2>1. \/ At("begin") /\ (Holding("ioctl", proc.held \cup {"netfd"}) \/ Holding("begin", proc.held) \/ Holding("return", proc.held))
        \/ At("ioctl") /\ Holding("close", proc.held)
        \/ At("close") /\ Holding("begin", proc.held \ {"netfd"})
    BY <1>3, Holds, HoldsOr, Zenon DEF ml_network_interface_get, get_ifreq, net_open, net_close
  <2> QED BY <2>1 DEF Holding, Only, Ends, At
<1>4. CASE ml_network_interface_add_route
  <2>1. \/ At("begin") /\ (Holding("add", proc.held \cup {"netfd"}) \/ Holding("return", proc.held))
        \/ At("add") /\ Holding("out", proc.held)
        \/ At("out") /\ Holding("return", proc.held \ {"netfd"})
    BY <1>4, Holds, HoldsOr, Zenon DEF ml_network_interface_add_route, net_open, net_close
  <2> QED BY <2>1 DEF Holding, Only, Ends, At
<1>5. CASE ml_network_interface_link_configure
  <2>1. \/ At("begin") /\ (Holding("get", proc.held \cup {"netfd"}) \/ Holding("return", proc.held))
        \/ At("get") /\ (Holding("set", proc.held) \/ Holding("out", proc.held))
        \/ At("set") /\ Holding("out", proc.held)
        \/ At("out") /\ Holding("return", proc.held \ {"netfd"})
    BY <1>5, Holds, HoldsOr, Zenon DEF ml_network_interface_link_configure, net_open, net_close
  <2> QED BY <2>1 DEF Holding, Only, Ends, At
<1>6. CASE command_ethtool_print
  <2>1. \/ At("begin") /\ (Holding("get", proc.held \cup {"netfd"}) \/ Holding("return", proc.held))
        \/ At("get") /\ Holding("out", proc.held)
        \/ At("out") /\ Holding("return", proc.held \ {"netfd"})
    BY <1>6, Holds, HoldsOr, Zenon DEF command_ethtool_print, net_open, net_close
  <2> QED BY <2>1 DEF Holding, Only, Ends, At
<1> QED BY <1>1, <1>2, <1>3, <1>4, <1>5, <1>6 DEF ml_network_interface_up, ml_network_interface_down

LEMMA SetHeld ==
  ASSUME IsCall, Only("sockfd", Ends), ml_network_filter_set
  PROVE  Same /\ Only("sockfd", Ends)'
<1>1. \/ At("begin") /\ (Holding("setsockopt", proc.held \cup {"sockfd"}) \/ Holding("return", proc.held))
      \/ At("setsockopt") /\ Holding("set_close", proc.held)
      \/ At("set_close") /\ Holding("return", proc.held \ {"sockfd"})
  BY Holds, HoldsOr, Zenon DEF ml_network_filter_set, set_filter
<1> QED BY <1>1 DEF Holding, Only, Ends, At

LEMMA ApplyHeld ==
  ASSUME IsCall, Only("sockfd", Ends \cup {"set"}), filter_apply_all
  PROVE  Same /\ Only("sockfd", Ends \cup {"set"})'
<1>1. CASE get_info("AF_INET", "set")
  <2>1. \/ At("begin") /\ (Holding("info_get", proc.held \cup {"sockfd"}) \/ Holding("return", proc.held))
        \/ At("info_get") /\ Holding("info_close", proc.held)
        \/ At("info_close") /\ Holding(IF proc.res = 0 THEN "set" ELSE "return", proc.held \ {"sockfd"})
    BY <1>1, Holds, HoldsOr, Zenon DEF get_info, get_filter
  <2> QED BY <2>1 DEF Holding, Only, Ends, At
<1>2. ASSUME NEW filter, set_filter("set", "AF_INET", filter)
      PROVE  Same /\ Only("sockfd", Ends \cup {"set"})'
  <2>1. \/ At("set") /\ (Holding("setsockopt", proc.held \cup {"sockfd"}) \/ Holding("return", proc.held))
        \/ At("setsockopt") /\ Holding("set_close", proc.held)
        \/ At("set_close") /\ Holding("return", proc.held \ {"sockfd"})
    BY <1>2, Holds, HoldsOr, Zenon DEF set_filter
  <2> QED BY <2>1 DEF Holding, Only, Ends, At
<1> QED BY <1>1, <1>2 DEF filter_apply_all

LEMMA EntriesHeld ==
  ASSUME IsCall, FilterHolds, NEW domain, NEW done \in {"return", "log"},
         ml_network_filter_get(domain, done)
  PROVE  /\ Same /\ FilterHolds'
         /\ proc'.pc = "free" => proc'.res # 0
         /\ proc.pc = "free" => proc'.pc = "return" /\ proc'.res = proc.res /\ proc'.held = {}
         /\ proc.pc # "free" /\ proc'.pc = "return" =>
              proc'.held = IF proc'.res = 0 THEN {"entries_p"} ELSE {}
         /\ done = "log" /\ proc'.pc = "return" => proc'.held = {}
<1>1. CASE get_info(domain, "malloc")
  <2>1. Same
    BY <1>1 DEF get_info, get_filter, Get, Reads, At, Acquire, Acquires, Fails, Release, Same, IsCall
  <2>2. \/ proc.pc = "begin" /\ proc'.pc = "info_get" /\ proc'.held = proc.held \cup {"sockfd"}
        \/ proc.pc = "begin" /\ proc'.pc = "return" /\ proc'.held = proc.held /\ proc'.res = Failed
        \/ proc.pc = "info_get" /\ proc'.pc = "info_close" /\ proc'.held = proc.held
        \/ /\ proc.pc = "info_close" /\ proc'.pc = (IF proc.res = 0 THEN "malloc" ELSE "return")
           /\ proc'.held = proc.held \ {"sockfd"} /\ proc'.res = proc.res
    BY <1>1 DEF get_info, get_filter, Get, Reads, At, Acquire, Acquires, Fails, Release, Same, IsCall
  <2> QED BY <2>1, <2>2, FailedIs DEF FilterHolds
<1>2. CASE At("malloc") /\ Acquires("entries_p", "entries")
  BY <1>2 DEF FilterHolds, Same, IsCall, At, Acquires
<1>3. CASE At("malloc") /\ Fails("return")
  <2>1. Becomes("return", proc.held, Failed, proc.local, TRUE, proc.ignored, proc.usage)
    BY <1>3, FailsIs
  <2> QED BY <1>3, <2>1, FailedIs DEF Becomes, FilterHolds, At
<1>4. CASE get_filter("entries", "entries_get", "entries_close", kernel.filter[domain], done, "free")
  <2>1. Same
    BY <1>4 DEF get_filter, Get, Reads, At, Acquire, Acquires, Fails, Release, Same, IsCall
  <2>2. \/ proc.pc = "entries" /\ proc'.pc = "entries_get" /\ proc'.held = proc.held \cup {"sockfd"}
        \/ proc.pc = "entries" /\ proc'.pc = "free" /\ proc'.held = proc.held /\ proc'.res = Failed
        \/ proc.pc = "entries_get" /\ proc'.pc = "entries_close" /\ proc'.held = proc.held
        \/ /\ proc.pc = "entries_close" /\ proc'.pc = (IF proc.res = 0 THEN done ELSE "free")
           /\ proc'.held = proc.held \ {"sockfd"} /\ proc'.res = proc.res
    BY <1>4 DEF get_filter, Get, Reads, At, Acquire, Acquires, Fails, Release, Same, IsCall
  <2> QED BY <2>1, <2>2, FailedIs DEF FilterHolds
<1>5. CASE At("free") /\ Release("entries_p", "return")
  BY <1>5 DEF FilterHolds, Same, IsCall, At, Release
<1> QED
  BY <1>1, <1>2, <1>3, <1>4, <1>5 DEF ml_network_filter_get, Acquire

LEMMA GetHeld ==
  ASSUME IsCall, GetHolds, ml_network_filter_get(proc.arg, "return")
  PROVE  Same /\ GetHolds'
<1>1. /\ Same /\ FilterHolds'
      /\ proc'.pc = "free" => proc'.res # 0
      /\ proc.pc = "free" => proc'.pc = "return" /\ proc'.res = proc.res /\ proc'.held = {}
      /\ proc.pc # "free" /\ proc'.pc = "return" =>
           proc'.held = IF proc'.res = 0 THEN {"entries_p"} ELSE {}
  BY EntriesHeld DEF GetHolds
<1> QED BY <1>1 DEF GetHolds

LEMMA LogHeld ==
  ASSUME IsCall, LogHolds, ml_network_filter_log(proc.arg)
  PROVE  Same /\ LogHolds'
<1>1. CASE ml_network_filter_get(proc.arg, "log")
  <2>1. /\ Same /\ FilterHolds'
        /\ proc'.pc = "return" => proc'.held = {}
    BY <1>1, EntriesHeld DEF LogHolds
  <2> QED BY <2>1 DEF LogHolds
<1>2. CASE At("log") /\ Release("entries_p", "return")
  BY <1>2 DEF LogHolds, FilterHolds, Same, IsCall, At, Release
<1> QED BY <1>1, <1>2 DEF ml_network_filter_log

LEMMA MapperHeld ==
  ASSUME IsCall, Only("control_fd", Ends), ml_device_mapper_verity_create
  PROVE  Same /\ Only("control_fd", Ends)'
<1>1. \/ At("begin") /\ (Holding("create", proc.held \cup {"control_fd"}) \/ Holding("return", proc.held))
      \/ At("create") /\ (Holding("mknod", proc.held) \/ Holding("out", proc.held))
      \/ At("mknod") /\ (Holding("load", proc.held) \/ Holding("out", proc.held))
      \/ At("load") /\ (Holding("suspend", proc.held) \/ Holding("out", proc.held))
      \/ At("suspend") /\ Holding("out", proc.held)
      \/ At("out") /\ Holding("return", proc.held \ {"control_fd"})
  BY Holds, HoldsOr, Zenon DEF ml_device_mapper_verity_create, create_device, load_table, suspend_device
<1> QED BY <1>1 DEF Holding, Only, Ends, At

\* The next address is tried with one address less to go.
Keeps == /\ proc'.fn = proc.fn /\ proc'.before = proc.before /\ IsCall'
         /\ proc'.arg \in {proc.arg, [proc.arg EXCEPT !.servers = @ - 1]}

LEMMA NtpHeld ==
  ASSUME IsCall, NtpHolds, ml_ntp_client_sync
  PROVE  Keeps /\ NtpHolds'
<1> USE DEF Keeps, NtpHolds, Ends, IsCall
<1>1. CASE At("begin") /\ Acquire("infolist_p", "socket", "return")
  BY <1>1 DEF At, Acquire, Acquires, Fails
<1>2. CASE At("socket") /\ Acquire("sock", "connect", "next")
  BY <1>2 DEF At, Acquire, Acquires, Fails
<1>3. CASE At("connect") /\ Call(kernel, "send", "close")
  BY <1>3 DEF At, Call, Fails
<1>4. CASE At("send") /\ Call(kernel, "receive", "close")
  BY <1>4 DEF At, Call, Fails
<1>5. CASE At("receive") /\ receive_response("settime", "close")
  <2>1. Holding("settime", proc.held) \/ Holding("close", proc.held)
    BY <1>5, Holds, Zenon DEF receive_response
  <2> QED BY <1>5, <2>1 DEF Holding, Same, At
<1>6. ASSUME NEW k, At("settime") /\ Call(k, "close", "close")
      PROVE  Keeps /\ NtpHolds'
  BY <1>6 DEF At, Call, Fails
<1>7. CASE At("close") /\ Release("sock", "next")
  BY <1>7 DEF At, Release
<1>8. CASE /\ At("next")
           /\ IF proc.res = 0 \/ proc.arg.servers = 1 THEN Goto("free")
              ELSE /\ proc' = [proc EXCEPT !.pc = "socket", !.arg.servers = @ - 1, !.local = <<>>]
                   /\ UNCHANGED kernel
  BY <1>8 DEF At, Goto
<1>9. CASE At("free") /\ Release("infolist_p", "return")
  BY <1>9 DEF At, Release
<1> QED
  <2> HIDE DEF Keeps, NtpHolds
  <2> QED BY <1>1, <1>2, <1>3, <1>4, <1>5, <1>6, <1>7, <1>8, <1>9
          DEF ml_ntp_client_sync, try_sync_with_server, try_sync

LEMMA Starts ==
  ASSUME IsCall
  PROVE  \A what, res : /\ proc' = [proc EXCEPT !.pc = "next", !.held = @ \cup {what}, !.res = res]
                        /\ UNCHANGED kernel
                        => Holding("next", proc.held \cup {what})
BY DEF IsCall, Same, Holding

LEMMA FdHeld ==
  ASSUME IsCall, Only("fd", Ends),
         ml_rtc_get_time \/ ml_rtc_set_time \/ ml_insert_module \/ dmesg \/ i2c_scan
  PROVE  Same /\ Only("fd", Ends)'
<1>1. CASE ml_rtc_get_time
  <2>1. \/ At("begin") /\ (Holding("ioctl", proc.held \cup {"fd"}) \/ Holding("return", proc.held))
        \/ At("ioctl") /\ Holding("close", proc.held)
        \/ At("close") /\ Holding("return", proc.held \ {"fd"})
    BY <1>1, Holds, HoldsOr, Zenon DEF ml_rtc_get_time
  <2> QED BY <2>1 DEF Holding, Only, Ends, At
<1>2. CASE ml_rtc_set_time
  <2>1. \/ At("begin") /\ (Holding("ioctl", proc.held \cup {"fd"}) \/ Holding("return", proc.held))
        \/ At("ioctl") /\ Holding("close", proc.held)
        \/ At("close") /\ Holding("return", proc.held \ {"fd"})
    BY <1>2, Holds, HoldsOr, Zenon DEF ml_rtc_set_time
  <2> QED BY <2>1 DEF Holding, Only, Ends, At
<1>3. CASE ml_insert_module
  <2>1. \/ At("begin") /\ (Holding("init", proc.held \cup {"fd"}) \/ Holding("return", proc.held))
        \/ At("init") /\ Holding("close", proc.held)
        \/ At("close") /\ Holding("return", proc.held \ {"fd"})
    BY <1>3, Holds, HoldsOr, Zenon DEF ml_insert_module
  <2> QED BY <2>1 DEF Holding, Only, Ends, At
<1>4. CASE dmesg
  <2>1. \/ At("begin") /\ (Holding("next", proc.held \cup {"fd"}) \/ Holding("return", proc.held))
        \/ At("next") /\ (Holding("next", proc.held) \/ Holding("close", proc.held))
        \/ At("close") /\ Holding("return", proc.held \ {"fd"})
    BY <1>4, Holds, Starts, Zenon DEF dmesg, Listing, Each
  <2> QED BY <2>1 DEF Holding, Only, Ends, At
<1>5. CASE i2c_scan
  <2>1. \/ At("begin") /\ (Holding("next", proc.held \cup {"fd"}) \/ Holding("return", proc.held))
        \/ At("next") /\ (Holding("next", proc.held) \/ Holding("close", proc.held))
        \/ At("close") /\ Holding("return", proc.held \ {"fd"})
    BY <1>5, Holds, Starts, Zenon DEF i2c_scan, Listing
  <2> QED BY <2>1 DEF Holding, Only, Ends, At
<1> QED BY <1>1, <1>2, <1>3, <1>4, <1>5

LEMMA DirHeld ==
  ASSUME IsCall, Only("dir_p", Ends), ls \/ ll
  PROVE  Same /\ Only("dir_p", Ends)'
<1>1. CASE ls
  <2>1. \/ At("begin") /\ (Holding("next", proc.held \cup {"dir_p"}) \/ Holding("return", proc.held))
        \/ At("next") /\ (Holding("next", proc.held) \/ Holding("close", proc.held))
        \/ At("close") /\ Holding("return", proc.held \ {"dir_p"})
    BY <1>1, Holds, Starts, Zenon DEF ls, Listing, Each
  <2> QED BY <2>1 DEF Holding, Only, Ends, At
<1>2. CASE ll
  <2>1. \/ At("begin") /\ (Holding("next", proc.held \cup {"dir_p"}) \/ Holding("return", proc.held))
        \/ At("next") /\ (Holding("next", proc.held) \/ Holding("close", proc.held))
        \/ At("close") /\ Holding("return", proc.held \ {"dir_p"})
    BY <1>2, Holds, Starts, Zenon DEF ll, Listing, Each
  <2> QED BY <2>1 DEF Holding, Only, Ends, At
<1> QED BY <1>1, <1>2

LEMMA FinHeld ==
  ASSUME IsCall, Only("fin_p", Ends), cat \/ ml_print_file \/ ml_print_file_systems_space_usage
  PROVE  Same /\ Only("fin_p", Ends)'
<1>1. CASE CopyOut
  <2>1. \/ At("begin") /\ (Holding("copy", proc.held \cup {"fin_p"}) \/ Holding("return", proc.held))
        \/ At("copy") /\ (Holding("copy", proc.held) \/ Holding("close", proc.held))
        \/ At("close") /\ Holding("return", proc.held \ {"fin_p"})
    BY <1>1, Holds, HoldsOr, Zenon DEF CopyOut
  <2> QED BY <2>1 DEF Holding, Only, Ends, At
<1>2. CASE ml_print_file_systems_space_usage
  <2>1. \/ At("begin") /\ (Holding("next", proc.held \cup {"fin_p"}) \/ Holding("return", proc.held))
        \/ At("next") /\ (Holding("next", proc.held) \/ Holding("close", proc.held))
        \/ At("close") /\ Holding("return", proc.held \ {"fin_p"})
    BY <1>2, Holds, Starts, Zenon DEF ml_print_file_systems_space_usage, Listing, Each
  <2> QED BY <2>1 DEF Holding, Only, Ends, At
<1> QED BY <1>1, <1>2 DEF cat, ml_print_file

LEMMA FileHeld ==
  ASSUME IsCall, Only("file_p", Ends), ml_file_write_string \/ ml_file_read \/ dump \/ print
  PROVE  Same /\ Only("file_p", Ends)'
<1>1. CASE ml_file_write_string
  <2>1. \/ At("begin") /\ (Holding("write", proc.held \cup {"file_p"}) \/ Holding("return", proc.held))
        \/ At("write") /\ Holding("close", proc.held)
        \/ At("close") /\ Holding("return", proc.held \ {"file_p"})
    BY <1>1, Holds, HoldsOr, Zenon DEF ml_file_write_string
  <2> QED BY <2>1 DEF Holding, Only, Ends, At
<1>2. CASE ml_file_read
  <2>1. \/ At("begin") /\ (Holding("read", proc.held \cup {"file_p"}) \/ Holding("return", proc.held))
        \/ At("read") /\ Holding("close", proc.held)
        \/ At("close") /\ Holding("return", proc.held \ {"file_p"})
    BY <1>2, Holds, HoldsOr, Zenon DEF ml_file_read
  <2> QED BY <2>1 DEF Holding, Only, Ends, At
<1>3. CASE dump
  <2>1. \/ At("begin") /\ (Holding("seek", proc.held \cup {"file_p"}) \/ Holding("return", proc.held))
        \/ At("seek") /\ Holding("close", proc.held)
        \/ At("close") /\ Holding("return", proc.held \ {"file_p"})
    BY <1>3, Holds, HoldsOr, Zenon DEF dump
  <2> QED BY <2>1 DEF Holding, Only, Ends, At
<1>4. CASE print
  <2>1. \/ At("begin") /\ (Holding("text", proc.held \cup {"file_p"}) \/ Holding("return", proc.held))
        \/ At("text") /\ (Holding("newline", proc.held) \/ Holding("close", proc.held))
        \/ At("newline") /\ Holding("close", proc.held)
        \/ At("close") /\ Holding("return", proc.held \ {"file_p"})
    BY <1>4, Holds, HoldsOr, Zenon DEF print
  <2> QED BY <2>1 DEF Holding, Only, Ends, At
<1> QED BY <1>1, <1>2, <1>3, <1>4

LEMMA TopHeld ==
  ASSUME IsCall, Only("file_p", Ends \cup {"again", "compare"}), ml_get_cpus_stats
  PROVE  Same /\ Only("file_p", Ends \cup {"again", "compare"})'
<1>1. CASE read_cpus_stats("begin", "read1", "close1", proc.arg, "again")
  <2>1. \/ At("begin") /\ (Holding("read1", proc.held \cup {"file_p"}) \/ Holding("return", proc.held))
        \/ At("read1") /\ Holding("close1", proc.held)
        \/ At("close1") /\ Holding(IF proc.res = 0 THEN "again" ELSE "return", proc.held \ {"file_p"})
    BY <1>1, Holds, HoldsOr, Zenon DEF read_cpus_stats
  <2> QED BY <2>1 DEF Holding, Only, Ends, At
<1>2. CASE read_cpus_stats("again", "read2", "close2", proc.local[1], "compare")
  <2>1. \/ At("again") /\ (Holding("read2", proc.held \cup {"file_p"}) \/ Holding("return", proc.held))
        \/ At("read2") /\ Holding("close2", proc.held)
        \/ At("close2") /\ Holding(IF proc.res = 0 THEN "compare" ELSE "return", proc.held \ {"file_p"})
    BY <1>2, Holds, HoldsOr, Zenon DEF read_cpus_stats
  <2> QED BY <2>1 DEF Holding, Only, Ends, At
<1>3. CASE At("compare") /\ (Goto("return") \/ Fails("return"))
  <2>1. \/ At("compare") /\ Holding("return", proc.held)
    BY <1>3, Holds, HoldsOr, Zenon
  <2> QED BY <2>1 DEF Holding, Only, Ends, At
<1> QED BY <1>1, <1>2, <1>3 DEF ml_get_cpus_stats

LEMMA FindHeld ==
  ASSUME IsCall, Only("mutex", Ends), find
  PROVE  Same /\ Only("mutex", Ends)'
<1>1. \/ At("begin") /\ Holding("walk", proc.held \cup {"mutex"})
      \/ At("walk") /\ Holding("unlock", proc.held)
      \/ At("unlock") /\ Holding("return", proc.held \ {"mutex"})
  BY Holds, HoldsOr, Zenon DEF find
<1> QED BY <1>1 DEF Holding, Only, Ends, At

LEMMA BareHeld ==
  ASSUME IsCall, Only("nothing", Ends), UsageStep \/ date \/ date_set \/ rm \/ make \/ unmake
  PROVE  Same /\ Only("nothing", Ends)'
<1> USE DEF Same, IsCall, Only, Ends, At, Fails
<1>1. CASE UsageStep
  BY <1>1 DEF UsageStep, Refuses
<1>2. CASE date
  BY <1>2 DEF date, Get, Reads
<1>3. CASE date_set
  BY <1>3 DEF date_set, Call
<1>4. CASE rm
  BY <1>4 DEF rm, Goto
<1>5. CASE make
  BY <1>5 DEF make, Call
<1>6. CASE unmake
  BY <1>6 DEF unmake, Call
<1> QED
  <2> HIDE DEF Same, Only
  <2> QED BY <1>1, <1>2, <1>3, <1>4, <1>5, <1>6

LEMMA DdHeld ==
  ASSUME IsCall, DdHolds, ml_dd
  PROVE  Same /\ DdHolds'
<1> USE DEF DdHolds, Ends, Same, IsCall
<1>1. CASE At("begin") /\ Acquire("fdin", "open", "return")
  BY <1>1 DEF At, Acquire, Acquires, Fails
<1>2. CASE /\ At("open")
           /\ \/ /\ proc' = [proc EXCEPT !.pc = "malloc", !.held = @ \cup {"fdout"}]
                 /\ kernel' = [kernel EXCEPT !.out = <<>>]
              \/ Fails("out1")
  <2>1. Holding("malloc", proc.held \cup {"fdout"}) \/ Holding("out1", proc.held)
    <3>1. proc' = [proc EXCEPT !.pc = "malloc", !.held = @ \cup {"fdout"}] =>
            Holding("malloc", proc.held \cup {"fdout"})
      BY DEF Holding
    <3> QED BY <1>2, <3>1, Holds, Zenon
  <2> QED BY <1>2, <2>1 DEF Holding, At
<1>3. CASE At("malloc") /\ Acquire("buf_p", "chunk", "out2")
  BY <1>3 DEF At, Acquire, Acquires, Fails
<1>4. CASE At("chunk") /\ (Goto("read") \/ Result(0, "free"))
  BY <1>4 DEF At, Goto, Result
<1>5. ASSUME NEW done, NEW size, dd_copy_chunk(done, size)
      PROVE  Same /\ DdHolds'
  BY <1>5 DEF dd_copy_chunk, At, Goto, Fails, Result, Call
<1>6. CASE At("free") /\ Release("buf_p", "out2")
  BY <1>6 DEF At, Release
<1>7. CASE At("out2") /\ Release("fdout", "out1")
  BY <1>7 DEF At, Release
<1>8. CASE At("out1") /\ Release("fdin", "return")
  BY <1>8 DEF At, Release
<1> QED
  <2> HIDE DEF Same, DdHolds
  <2> QED BY <1>1, <1>2, <1>3, <1>4, <1>5, <1>6, <1>7, <1>8 DEF ml_dd

LEMMA SameCalled ==
  ASSUME Called, Same, area' = area
  PROVE  Called'
BY DEF Called, Same, ArgsOK, In

LEMMA KeepsCalled ==
  ASSUME Called, In("ml_ntp_client_sync"), Keeps, area' = area
  PROVE  Called'
<1>1. PICK now, servers : proc.arg = [now |-> now, servers |-> servers] /\ now \in Times
  BY DEF Called, ArgsOK
<1>2. /\ proc'.arg = [now |-> proc'.arg.now, servers |-> proc'.arg.servers]
      /\ proc'.arg.now = now
  BY <1>1 DEF Keeps
<1>3. ArgsOK'
  BY <1>1, <1>2 DEF ArgsOK, In, Keeps
<1> QED BY <1>3 DEF Called, Keeps

LEMMA FreshHeld == Fresh => Held
<1> SUFFICES ASSUME Fresh PROVE Held
  OBVIOUS
<1>1. \A what, labels : "begin" \in labels => Only(what, labels)
  BY DEF Fresh, Only
<1>2. "begin" \in Ends /\ "begin" \in Ends \cup {"set"} /\ "begin" \in Ends \cup {"again", "compare"}
  BY DEF Ends
<1>3. FilterHolds /\ GetHolds /\ LogHolds /\ NtpHolds /\ DdHolds
  BY DEF Fresh, FilterHolds, GetHolds, LogHolds, NtpHolds, DdHolds, Ends
<1> QED BY <1>1, <1>2, <1>3, Zenon DEF Held, NetworkHeld, FilesHeld

\* The step of a call is a step of its own function.
LEMMA NetworkStepHeld ==
  ASSUME Called, Held, NetworkStep, area' = area
  PROVE  Called' /\ Held'
<1>1. CASE proc.fn \in NetfdCalls
  <2>1. \/ ml_network_interface_configure \/ ml_network_interface_up \/ ml_network_interface_down
        \/ ml_network_interface_get \/ ml_network_interface_add_route
        \/ ml_network_interface_link_configure \/ command_ethtool_print
    BY <1>1 DEF NetworkStep, NetfdCalls, In
  <2>2. Same /\ Only("netfd", Ends)'
    BY <1>1, <2>1, NetfdSteps DEF Called, Held, NetworkHeld
  <2>3. Called' /\ proc'.fn = proc.fn
    BY <2>2, SameCalled DEF Same
  <2> QED BY <1>1, <2>2, <2>3
          DEF Held, NetworkHeld, FilesHeld, In, NetfdCalls, FileCalls, FdCalls, BareCalls
<1>2. CASE In("ml_network_filter_set")
  <2>1. ml_network_filter_set
    BY <1>2, RequestsAre DEF NetworkStep, In
  <2>2. Same /\ Only("sockfd", Ends)'
    BY <1>2, <2>1, SetHeld DEF Called, Held, NetworkHeld
  <2>3. Called' /\ proc'.fn = proc.fn
    BY <2>2, SameCalled DEF Same
  <2> QED BY <1>2, <2>2, <2>3
          DEF Held, NetworkHeld, FilesHeld, In, NetfdCalls, FileCalls, FdCalls, BareCalls
<1>3. CASE In("filter_apply_all")
  <2>1. filter_apply_all
    BY <1>3, RequestsAre DEF NetworkStep, In
  <2>2. Same /\ Only("sockfd", Ends \cup {"set"})'
    BY <1>3, <2>1, ApplyHeld DEF Called, Held, NetworkHeld
  <2>3. Called' /\ proc'.fn = proc.fn
    BY <2>2, SameCalled DEF Same
  <2> QED BY <1>3, <2>2, <2>3
          DEF Held, NetworkHeld, FilesHeld, In, NetfdCalls, FileCalls, FdCalls, BareCalls
<1>4. CASE In("ml_network_filter_get")
  <2>1. ml_network_filter_get(proc.arg, "return")
    BY <1>4, RequestsAre DEF NetworkStep, In
  <2>2. Same /\ GetHolds'
    BY <1>4, <2>1, GetHeld DEF Called, Held, NetworkHeld
  <2>3. Called' /\ proc'.fn = proc.fn
    BY <2>2, SameCalled DEF Same
  <2> QED BY <1>4, <2>2, <2>3
          DEF Held, NetworkHeld, FilesHeld, In, NetfdCalls, FileCalls, FdCalls, BareCalls
<1>5. CASE In("ml_network_filter_log")
  <2>1. ml_network_filter_log(proc.arg)
    BY <1>5, RequestsAre DEF NetworkStep, In
  <2>2. Same /\ LogHolds'
    BY <1>5, <2>1, LogHeld DEF Called, Held, NetworkHeld
  <2>3. Called' /\ proc'.fn = proc.fn
    BY <2>2, SameCalled DEF Same
  <2> QED BY <1>5, <2>2, <2>3
          DEF Held, NetworkHeld, FilesHeld, In, NetfdCalls, FileCalls, FdCalls, BareCalls
<1> QED BY <1>1, <1>2, <1>3, <1>4, <1>5, RequestsAre DEF NetworkStep, In, NetfdCalls

LEMMA FilesStepHeld ==
  ASSUME Called, Held, FilesStep, area' = area
  PROVE  Called' /\ Held'
<1>1. CASE proc.fn \in FileCalls
  <2>1. ml_file_write_string \/ ml_file_read \/ dump \/ print
    BY <1>1 DEF FilesStep, FileCalls, In
  <2>2. Same /\ Only("file_p", Ends)'
    BY <1>1, <2>1, FileHeld DEF Called, Held, FilesHeld
  <2>3. Called' /\ proc'.fn = proc.fn
    BY <2>2, SameCalled DEF Same
  <2> QED BY <1>1, <2>2, <2>3
          DEF Held, NetworkHeld, FilesHeld, In, NetfdCalls, FileCalls, FdCalls, BareCalls
<1>2. CASE In("top")
  <2>1. ml_get_cpus_stats
    BY <1>2 DEF FilesStep, In
  <2>2. Same /\ Only("file_p", Ends \cup {"again", "compare"})'
    BY <1>2, <2>1, TopHeld DEF Called, Held, FilesHeld
  <2>3. Called' /\ proc'.fn = proc.fn
    BY <2>2, SameCalled DEF Same
  <2> QED BY <1>2, <2>2, <2>3
          DEF Held, NetworkHeld, FilesHeld, In, NetfdCalls, FileCalls, FdCalls, BareCalls
<1>3. CASE In("cat") \/ In("ml_print_file") \/ In("df")
  <2>1. cat \/ ml_print_file \/ ml_print_file_systems_space_usage
    BY <1>3 DEF FilesStep, In
  <2>2. Same /\ Only("fin_p", Ends)'
    BY <1>3, <2>1, FinHeld DEF Called, Held, FilesHeld
  <2>3. Called' /\ proc'.fn = proc.fn
    BY <2>2, SameCalled DEF Same
  <2> QED BY <1>3, <2>2, <2>3
          DEF Held, NetworkHeld, FilesHeld, In, NetfdCalls, FileCalls, FdCalls, BareCalls
<1>4. CASE In("ls") \/ In("ll")
  <2>1. ls \/ ll
    BY <1>4 DEF FilesStep, In
  <2>2. Same /\ Only("dir_p", Ends)'
    BY <1>4, <2>1, DirHeld DEF Called, Held, FilesHeld
  <2>3. Called' /\ proc'.fn = proc.fn
    BY <2>2, SameCalled DEF Same
  <2> QED BY <1>4, <2>2, <2>3
          DEF Held, NetworkHeld, FilesHeld, In, NetfdCalls, FileCalls, FdCalls, BareCalls
<1>5. CASE In("find")
  <2>1. find
    BY <1>5 DEF FilesStep, In
  <2>2. Same /\ Only("mutex", Ends)'
    BY <1>5, <2>1, FindHeld DEF Called, Held, FilesHeld
  <2>3. Called' /\ proc'.fn = proc.fn
    BY <2>2, SameCalled DEF Same
  <2> QED BY <1>5, <2>2, <2>3
          DEF Held, NetworkHeld, FilesHeld, In, NetfdCalls, FileCalls, FdCalls, BareCalls
<1>6. CASE In("ml_dd")
  <2>1. ml_dd
    BY <1>6 DEF FilesStep, In
  <2>2. Same /\ DdHolds'
    BY <1>6, <2>1, DdHeld DEF Called, Held, FilesHeld
  <2>3. Called' /\ proc'.fn = proc.fn
    BY <2>2, SameCalled DEF Same
  <2> QED BY <1>6, <2>2, <2>3
          DEF Held, NetworkHeld, FilesHeld, In, NetfdCalls, FileCalls, FdCalls, BareCalls
<1>7. CASE proc.fn \in {"ml_insert_module", "dmesg", "i2c_scan"}
  <2>1. ml_insert_module \/ dmesg \/ i2c_scan
    BY <1>7 DEF FilesStep, In
  <2>2. proc.fn \in FdCalls
    BY <1>7 DEF FdCalls
  <2>3. Same /\ Only("fd", Ends)'
    BY <2>1, <2>2, FdHeld DEF Called, Held
  <2>4. Called' /\ proc'.fn = proc.fn
    BY <2>3, SameCalled DEF Same
  <2> QED BY <1>7, <2>3, <2>4
          DEF Held, NetworkHeld, FilesHeld, In, NetfdCalls, FileCalls, FdCalls, BareCalls
<1>8. CASE proc.fn \in {"rm", "make", "unmake"}
  <2>1. rm \/ make \/ unmake
    BY <1>8 DEF FilesStep, In
  <2>2. proc.fn \in BareCalls
    BY <1>8 DEF BareCalls
  <2>3. Same /\ Only("nothing", Ends)'
    BY <2>1, <2>2, BareHeld DEF Called, Held
  <2>4. Called' /\ proc'.fn = proc.fn
    BY <2>3, SameCalled DEF Same
  <2> QED BY <1>8, <2>3, <2>4
          DEF Held, NetworkHeld, FilesHeld, In, NetfdCalls, FileCalls, FdCalls, BareCalls
<1> QED BY <1>1, <1>2, <1>3, <1>4, <1>5, <1>6, <1>7, <1>8 DEF FilesStep, In, FileCalls

LEMMA OtherStepHeld ==
  ASSUME Called, Held, MapperStep \/ ClockStep \/ UsageStep, area' = area
  PROVE  Called' /\ Held'
<1>1. CASE MapperStep
  <2>1. Same /\ Only("control_fd", Ends)'
    BY <1>1, MapperHeld DEF MapperStep, Called, Held
  <2>2. Called' /\ proc'.fn = proc.fn
    BY <2>1, SameCalled DEF Same
  <2> QED BY <1>1, <2>1, <2>2
          DEF MapperStep, Held, NetworkHeld, FilesHeld, In, NetfdCalls, FileCalls, FdCalls, BareCalls
<1>2. CASE In("ml_ntp_client_sync") /\ ml_ntp_client_sync
  <2>1. Keeps /\ NtpHolds'
    BY <1>2, NtpHeld DEF Called, Held
  <2>2. Called' /\ proc'.fn = proc.fn
    BY <1>2, <2>1, KeepsCalled DEF Keeps
  <2> QED BY <1>2, <2>1, <2>2
          DEF Held, NetworkHeld, FilesHeld, In, NetfdCalls, FileCalls, FdCalls, BareCalls
<1>3. CASE \/ In("ml_rtc_get_time") /\ ml_rtc_get_time
           \/ In("ml_rtc_set_time") /\ ml_rtc_set_time
  <2>1. proc.fn \in FdCalls
    BY <1>3 DEF FdCalls, In
  <2>2. Same /\ Only("fd", Ends)'
    BY <1>3, <2>1, FdHeld DEF Called, Held
  <2>3. Called' /\ proc'.fn = proc.fn
    BY <2>2, SameCalled DEF Same
  <2> QED BY <2>1, <2>2, <2>3
          DEF Held, NetworkHeld, FilesHeld, In, NetfdCalls, FileCalls, FdCalls, BareCalls
<1>4. CASE \/ In("date") /\ date
           \/ In("date_set") /\ date_set
           \/ UsageStep
  <2>1. proc.fn \in BareCalls
    BY <1>4 DEF BareCalls, In, UsageStep
  <2>2. Same /\ Only("nothing", Ends)'
    BY <1>4, <2>1, BareHeld DEF Called, Held
  <2>3. Called' /\ proc'.fn = proc.fn
    BY <2>2, SameCalled DEF Same
  <2> QED BY <2>1, <2>2, <2>3
          DEF Held, NetworkHeld, FilesHeld, In, NetfdCalls, FileCalls, FdCalls, BareCalls
<1> QED BY <1>1, <1>2, <1>3, <1>4 DEF ClockStep

\* No call, or one that holds what it holds where it is.
HeldInv == proc = Idle \/ (Called /\ Held)

LEMMA HeldStepInv == HeldInv /\ [Next]_libraryVars => HeldInv'
<1> SUFFICES ASSUME HeldInv, [Next]_libraryVars PROVE HeldInv'
  OBVIOUS
<1>1. CASE UNCHANGED libraryVars
  <2>1. proc' = proc /\ kernel' = kernel /\ area' = area
    BY <1>1 DEF libraryVars, procVars
  <2> QED BY <2>1
    DEF HeldInv, Called, IsCall, ArgsOK, In, Held, NetworkHeld, FilesHeld, Only, FilterHolds,
        GetHolds, LogHolds, NtpHolds, DdHolds
<1>2. CASE area' = area /\ CallBegin
  <2>1. Called' /\ Fresh'
    BY <1>2, CallBegun
  <2>2. Held'
    BY <2>1, FreshHeld, PTL
  <2> QED BY <2>1, <2>2 DEF HeldInv
<1>3. CASE area' = area /\ CallStep
  BY <1>3, NetworkStepHeld, FilesStepHeld, OtherStepHeld DEF CallStep, HeldInv
<1>4. CASE Return
  BY <1>4 DEF Return, HeldInv
<1>5. CASE UNCHANGED procVars /\ area' = area
  <2>1. proc' = proc /\ kernel' = kernel /\ area' = area
    BY <1>5 DEF procVars
  <2> QED BY <2>1
    DEF HeldInv, Called, IsCall, ArgsOK, In, Held, NetworkHeld, FilesHeld, Only, FilterHolds,
        GetHolds, LogHolds, NtpHolds, DdHolds
<1> QED BY <1>1, <1>2, <1>3, <1>4, <1>5 DEF Next, Rest

LEMMA HeldInvMeans == HeldInv => AllReleased
<1> SUFFICES ASSUME Called, Held, proc.pc = "return"
             PROVE  proc.held = IF area = "filter" THEN NetworkHolds ELSE {}
  BY DEF HeldInv, AllReleased, Returned
<1>1. \A what, labels : "return" \in labels /\ Only(what, labels) => proc.held = {}
  BY DEF Only
<1>2. "return" \in Ends /\ "return" \in Ends \cup {"set"} /\ "return" \in Ends \cup {"again", "compare"}
  BY DEF Ends
<1>3. In("ml_network_filter_get") => proc.held = NetworkHolds
  BY DEF Held, NetworkHeld, GetHolds, NetworkHolds
<1>4. In("ml_network_filter_log") \/ In("ml_ntp_client_sync") \/ In("ml_dd") => proc.held = {}
  BY <1>2 DEF Held, NetworkHeld, LogHolds, NtpHolds, FilesHeld, DdHolds
<1>5. proc.fn \in NetfdCalls \cup FileCalls \cup FdCalls \cup BareCalls => proc.held = {}
  BY <1>1, <1>2 DEF Held, NetworkHeld, FilesHeld
<1>6. \/ In("ml_network_filter_set") \/ In("filter_apply_all") \/ In("top") \/ In("cat")
      \/ In("ml_print_file") \/ In("df") \/ In("ls") \/ In("ll") \/ In("find")
      \/ In("ml_device_mapper_verity_create")
      => proc.held = {}
  BY <1>1, <1>2 DEF Held, NetworkHeld, FilesHeld
<1>7. proc.fn \in UNION {CallsOf[a] : a \in DOMAIN CallsOf}
  BY DEF Called
<1>8. ~In("ml_network_filter_get") => proc.held = {} /\ NetworkHolds = {}
  BY <1>4, <1>5, <1>6, <1>7
  DEF In, CallsOf, NetfdCalls, FileCalls, FdCalls, BareCalls, NetworkHolds
<1>9. In("ml_network_filter_get") => area = "filter"
  BY DEF In, Called, CallsOf
<1> QED BY <1>3, <1>8, <1>9

\* A call that has returned holds nothing, whichever of its system calls failed:
\* every descriptor, stream, list, buffer and mutex has been released, in every
\* function around system calls. Only ml_network_filter_get() hands out the
\* entries, and only with a success.
THEOREM CallsReleaseAll == Spec => []AllReleased
<1>1. Init => HeldInv
  BY DEF Init, CallsInit, StoresInit, FunctionsInit, HeldInv
<1>2. HeldInv /\ [Next]_libraryVars => HeldInv'
  BY HeldStepInv
<1>3. HeldInv => AllReleased
  BY HeldInvMeans
<1> QED
  BY <1>1, <1>2, <1>3, PTL DEF Spec

\* How a step leaves the call: nothing but its label is new, a system call
\* failed, one left the kernel as k, or one read v.
Moved(pc) ==
  /\ Same /\ kernel' = kernel
  /\ proc'.pc = pc /\ proc'.res = proc.res /\ proc'.local = proc.local
  /\ proc'.fault = proc.fault /\ proc'.ignored = proc.ignored /\ proc'.usage = proc.usage

Broken(pc) ==
  /\ Same /\ kernel' = kernel
  /\ proc'.pc = pc /\ proc'.res = Failed /\ proc'.local = proc.local
  /\ proc'.fault = TRUE /\ proc'.ignored = proc.ignored

Worked(k, pc) ==
  /\ Same /\ kernel' = k
  /\ proc'.pc = pc /\ proc'.res = 0 /\ proc'.local = proc.local
  /\ proc'.fault = proc.fault /\ proc'.ignored = proc.ignored

Found(v, pc) ==
  /\ Same /\ kernel' = kernel
  /\ proc'.pc = pc /\ proc'.res = 0 /\ proc'.local = Append(proc.local, v)
  /\ proc'.fault = proc.fault /\ proc'.ignored = proc.ignored

LEMMA Moves ==
  /\ \A pc : IsCall /\ Goto(pc) => Moved(pc)
  /\ \A what, pc : IsCall /\ Release(what, pc) => Moved(pc)
  /\ \A what, pc : IsCall /\ Acquires(what, pc) => Moved(pc)
BY DEF Goto, Release, Acquires, IsCall, Same, Moved

LEMMA Breaks == \A pc : IsCall /\ Fails(pc) => Broken(pc)
BY DEF Fails, IsCall, Same, Broken

LEMMA Opens == \A what, ok, err : IsCall /\ Acquire(what, ok, err) => Moved(ok) \/ Broken(err)
BY Moves, Breaks, Zenon DEF Acquire

LEMMA Works == \A k, ok, err : IsCall /\ Call(k, ok, err) => Worked(k, ok) \/ Broken(err)
<1>1. \A k, ok : IsCall /\ kernel' = k /\ proc' = [proc EXCEPT !.pc = ok, !.res = 0] => Worked(k, ok)
  BY DEF IsCall, Same, Worked
<1> QED BY <1>1, Breaks, Zenon DEF Call

LEMMA ReadsFind == \A v, pc : IsCall /\ Reads(v, pc) => Found(v, pc)
BY DEF Reads, IsCall, Same, Found

LEMMA Gets == \A v, ok, err : IsCall /\ Get(v, ok, err) => Found(v, ok) \/ Broken(err)
BY ReadsFind, Breaks, Zenon DEF Get

-----------------------------------------------------------------------------
(* The results of the calls. What a call has done so far, and what its       *)
(* result says of it, is a matter of where it is as well.                    *)

Blamed == proc.fault = TRUE \/ proc.ignored = TRUE \/ proc.usage = TRUE

\* Nothing is done at the given labels; past them the result tells whether the
\* kernel has become k.
Sets(labels, k) ==
  IF proc.pc \in labels THEN kernel = proc.before
  ELSE \/ proc.res = 0 /\ kernel = k
       \/ proc.res # 0 /\ kernel = proc.before /\ Blamed

\* Nothing is done at all; past the given labels the result tells whether v has
\* been read.
Finds(labels, v) ==
  /\ kernel = proc.before
  /\ IF proc.pc \in labels THEN proc.local = <<>>
     ELSE \/ proc.res = 0 /\ proc.local = <<v>>
          \/ proc.res # 0 /\ Blamed

\* Nothing is done, and nothing has to be read.
Looks == kernel = proc.before /\ (proc.res = 0 \/ Blamed)

IsNet ==
  kernel = [address |-> kernel.address, netmask |-> kernel.netmask, mtu |-> kernel.mtu,
            flags |-> kernel.flags, routes |-> kernel.routes, mac |-> kernel.mac,
            index |-> kernel.index, link |-> kernel.link, filter |-> kernel.filter]

\* The address, the netmask and the MTU, in that order.
Addressed == [proc.before EXCEPT !.address = proc.arg.address]
Masked == [Addressed EXCEPT !.netmask = proc.arg.netmask]
Configured == [Masked EXCEPT !.mtu = proc.arg.mtu]

ConfigureTruth ==
  /\ proc.pc \in {"begin", "address"} => kernel = proc.before
  /\ proc.pc = "netmask" => kernel = Addressed
  /\ proc.pc = "mtu" => kernel = Masked
  /\ proc.pc \in {"out", "return"} =>
       \/ proc.res = 0 /\ kernel = Configured
       \/ proc.res # 0 /\ kernel \in {proc.before, Addressed, Masked} /\ Blamed

FlagsTruth(k) ==
  /\ Sets({"begin", "get", "set"}, k)
  /\ proc.pc \in {"begin", "get"} => proc.local = <<>>
  /\ proc.pc = "set" => proc.local = <<proc.before.flags>>

UpKernel == [proc.before EXCEPT !.flags = @ \cup {"IFF_UP"}]
DownKernel == [proc.before EXCEPT !.flags = @ \ {"IFF_UP"}]

RouteTruth == Sets({"begin", "add"}, [proc.before EXCEPT !.routes = @ \cup {proc.arg}])

NewLink ==
  [s \in Settings |-> IF proc.arg[s] = Unchanged THEN proc.before.link[s] ELSE proc.arg[s]]

LinkTruth ==
  /\ Sets({"begin", "get", "set"}, [proc.before EXCEPT !.link = NewLink])
  /\ proc.pc \in {"begin", "get"} => proc.local = <<>>
  /\ proc.pc = "set" => proc.local = <<proc.before.link>>

EthtoolTruth == Finds({"begin", "get"}, proc.before.link)

LEMMA ConfigureTrue ==
  ASSUME IsCall, IsNet, ConfigureTruth, ml_network_interface_configure
  PROVE  Same /\ IsNet' /\ ConfigureTruth'
<1>1. \/ At("begin") /\ (Moved("address") \/ Broken("return"))
      \/ At("address") /\ (Worked([kernel EXCEPT !.address = proc.arg.address], "netmask") \/ Broken("out"))
      \/ At("netmask") /\ (Worked([kernel EXCEPT !.netmask = proc.arg.netmask], "mtu") \/ Broken("out"))
      \/ At("mtu") /\ (Worked([kernel EXCEPT !.mtu = proc.arg.mtu], "out") \/ Broken("out"))
      \/ At("out") /\ Moved("return")
  BY Moves, Opens, Works, Zenon DEF ml_network_interface_configure, net_open, net_close
<1>2. Same
  BY <1>1 DEF Moved, Broken, Worked
<1>3. IsNet'
  BY <1>1 DEF Moved, Broken, Worked, IsNet
<1>4. proc'.before = proc.before /\ Addressed' = Addressed /\ Masked' = Masked /\ Configured' = Configured
  BY <1>2 DEF Same, Addressed, Masked, Configured
<1>5. \/ proc.pc = "begin" /\ kernel' = kernel /\ proc'.pc = "address"
      \/ proc.pc = "address" /\ kernel' = [kernel EXCEPT !.address = proc.arg.address] /\ proc'.pc = "netmask"
      \/ proc.pc = "netmask" /\ kernel' = [kernel EXCEPT !.netmask = proc.arg.netmask] /\ proc'.pc = "mtu"
      \/ proc.pc = "mtu" /\ kernel' = [kernel EXCEPT !.mtu = proc.arg.mtu] /\ proc'.pc = "out" /\ proc'.res = 0
      \/ /\ proc.pc \in {"begin", "address", "netmask", "mtu"} /\ kernel' = kernel
         /\ proc'.pc \in {"out", "return"} /\ proc'.res # 0 /\ Blamed'
      \/ /\ proc.pc = "out" /\ kernel' = kernel /\ proc'.pc = "return" /\ proc'.res = proc.res
         /\ Blamed' = Blamed
  BY <1>1, FailedIs DEF Moved, Broken, Worked, At, Blamed
<1>6. ConfigureTruth'
  BY <1>4, <1>5 DEF ConfigureTruth, Addressed, Masked, Configured
<1> QED BY <1>2, <1>3, <1>6

LEMMA UpTrue ==
  ASSUME IsCall, IsNet, FlagsTruth(UpKernel), ml_network_interface_up
  PROVE  Same /\ IsNet' /\ FlagsTruth(UpKernel)'
<1> DEFINE flags == proc.local[1] \cup {"IFF_UP"}
<1>1. \/ At("begin") /\ (Moved("get") \/ Broken("return"))
      \/ At("get") /\ (Found(kernel.flags, "set") \/ Broken("out"))
      \/ At("set") /\ (Worked([kernel EXCEPT !.flags = flags], "out") \/ Broken("out"))
      \/ At("out") /\ Moved("return")
  BY Moves, Opens, Works, Gets, Zenon DEF ml_network_interface_up, SetFlags, net_open, net_close
<1>2. Same
  BY <1>1 DEF Moved, Broken, Worked, Found
<1>3. IsNet'
  BY <1>1 DEF Moved, Broken, Worked, Found, IsNet
<1>4. proc'.before = proc.before /\ UpKernel' = UpKernel
  BY <1>2 DEF Same, UpKernel
<1>5. \/ proc.pc = "begin" /\ kernel' = kernel /\ proc'.pc = "get" /\ proc'.local = proc.local
      \/ proc.pc = "get" /\ kernel' = kernel /\ proc'.pc = "set" /\ proc'.local = Append(proc.local, kernel.flags)
      \/ proc.pc = "set" /\ kernel' = [kernel EXCEPT !.flags = flags] /\ proc'.pc = "out" /\ proc'.res = 0
      \/ /\ proc.pc \in {"begin", "get", "set"} /\ kernel' = kernel
         /\ proc'.pc \in {"out", "return"} /\ proc'.res # 0 /\ Blamed'
      \/ /\ proc.pc = "out" /\ kernel' = kernel /\ proc'.pc = "return" /\ proc'.res = proc.res
         /\ Blamed' = Blamed
  BY <1>1, FailedIs DEF Moved, Broken, Worked, Found, At, Blamed
<1>6. FlagsTruth(UpKernel)'
  BY <1>4, <1>5 DEF FlagsTruth, Sets, UpKernel
<1> QED BY <1>2, <1>3, <1>6

LEMMA DownTrue ==
  ASSUME IsCall, IsNet, FlagsTruth(DownKernel), ml_network_interface_down
  PROVE  Same /\ IsNet' /\ FlagsTruth(DownKernel)'
<1> DEFINE flags == proc.local[1] \ {"IFF_UP"}
<1>1. \/ At("begin") /\ (Moved("get") \/ Broken("return"))
      \/ At("get") /\ (Found(kernel.flags, "set") \/ Broken("out"))
      \/ At("set") /\ (Worked([kernel EXCEPT !.flags = flags], "out") \/ Broken("out"))
      \/ At("out") /\ Moved("return")
  BY Moves, Opens, Works, Gets, Zenon DEF ml_network_interface_down, SetFlags, net_open, net_close
<1>2. Same
  BY <1>1 DEF Moved, Broken, Worked, Found
<1>3. IsNet'
  BY <1>1 DEF Moved, Broken, Worked, Found, IsNet
<1>4. proc'.before = proc.before /\ DownKernel' = DownKernel
  BY <1>2 DEF Same, DownKernel
<1>5. \/ proc.pc = "begin" /\ kernel' = kernel /\ proc'.pc = "get" /\ proc'.local = proc.local
      \/ proc.pc = "get" /\ kernel' = kernel /\ proc'.pc = "set" /\ proc'.local = Append(proc.local, kernel.flags)
      \/ proc.pc = "set" /\ kernel' = [kernel EXCEPT !.flags = flags] /\ proc'.pc = "out" /\ proc'.res = 0
      \/ /\ proc.pc \in {"begin", "get", "set"} /\ kernel' = kernel
         /\ proc'.pc \in {"out", "return"} /\ proc'.res # 0 /\ Blamed'
      \/ /\ proc.pc = "out" /\ kernel' = kernel /\ proc'.pc = "return" /\ proc'.res = proc.res
         /\ Blamed' = Blamed
  BY <1>1, FailedIs DEF Moved, Broken, Worked, Found, At, Blamed
<1>6. FlagsTruth(DownKernel)'
  BY <1>4, <1>5 DEF FlagsTruth, Sets, DownKernel
<1> QED BY <1>2, <1>3, <1>6

LEMMA RouteTrue ==
  ASSUME IsCall, IsNet, RouteTruth, ml_network_interface_add_route
  PROVE  Same /\ IsNet' /\ RouteTruth'
<1> DEFINE routed == [kernel EXCEPT !.routes = @ \cup {proc.arg}]
<1>1. \/ At("begin") /\ (Moved("add") \/ Broken("return"))
      \/ At("add") /\ (Worked(routed, "out") \/ Broken("out"))
      \/ At("add") /\ proc.arg \in kernel.routes /\ Worked(kernel, "out")
      \/ At("out") /\ Moved("return")
  <2>1. \A pc : IsCall /\ Result(0, pc) => Worked(kernel, pc)
    BY DEF Result, IsCall, Same, Worked
  <2> QED BY <2>1, Moves, Opens, Works, Breaks, Zenon DEF ml_network_interface_add_route, net_open, net_close
<1>2. Same
  BY <1>1 DEF Moved, Broken, Worked
<1>3. IsNet'
  BY <1>1 DEF Moved, Broken, Worked, IsNet
<1>4. proc'.before = proc.before /\ proc'.arg = proc.arg
  BY <1>2 DEF Same
<1>5. proc.arg \in kernel.routes => kernel = routed
  <2> SUFFICES ASSUME proc.arg \in kernel.routes PROVE kernel = routed
    OBVIOUS
  <2>1. kernel.routes \cup {proc.arg} = kernel.routes
    OBVIOUS
  <2> QED BY <2>1 DEF IsNet
<1>6. \/ proc.pc = "begin" /\ kernel' = kernel /\ proc'.pc = "add"
      \/ proc.pc = "add" /\ kernel' = routed /\ proc'.pc = "out" /\ proc'.res = 0
      \/ /\ proc.pc \in {"begin", "add"} /\ kernel' = kernel
         /\ proc'.pc \in {"out", "return"} /\ proc'.res # 0 /\ Blamed'
      \/ /\ proc.pc = "out" /\ kernel' = kernel /\ proc'.pc = "return" /\ proc'.res = proc.res
         /\ Blamed' = Blamed
  BY <1>1, <1>5, FailedIs DEF Moved, Broken, Worked, At, Blamed
<1>7. RouteTruth'
  BY <1>4, <1>6 DEF RouteTruth, Sets
<1> QED BY <1>2, <1>3, <1>7

LEMMA LinkTrue ==
  ASSUME IsCall, IsNet, LinkTruth, ml_network_interface_link_configure
  PROVE  Same /\ IsNet' /\ LinkTruth'
<1> DEFINE link == [s \in Settings |-> IF proc.arg[s] = Unchanged THEN proc.local[1][s] ELSE proc.arg[s]]
<1>1. \/ At("begin") /\ (Moved("get") \/ Broken("return"))
      \/ At("get") /\ (Found(kernel.link, "set") \/ Broken("out"))
      \/ At("set") /\ (Worked([kernel EXCEPT !.link = link], "out") \/ Broken("out"))
      \/ At("out") /\ Moved("return")
  BY Moves, Opens, Works, Gets, Zenon DEF ml_network_interface_link_configure, net_open, net_close
<1>2. Same
  BY <1>1 DEF Moved, Broken, Worked, Found
<1>3. IsNet'
  BY <1>1 DEF Moved, Broken, Worked, Found, IsNet
<1>4. proc'.before = proc.before /\ NewLink' = NewLink
  BY <1>2 DEF Same, NewLink
<1>5. proc.local = <<proc.before.link>> => link = NewLink
  BY DEF NewLink
<1>6. \/ proc.pc = "begin" /\ kernel' = kernel /\ proc'.pc = "get" /\ proc'.local = proc.local
      \/ proc.pc = "get" /\ kernel' = kernel /\ proc'.pc = "set" /\ proc'.local = Append(proc.local, kernel.link)
      \/ proc.pc = "set" /\ kernel' = [kernel EXCEPT !.link = link] /\ proc'.pc = "out" /\ proc'.res = 0
      \/ /\ proc.pc \in {"begin", "get", "set"} /\ kernel' = kernel
         /\ proc'.pc \in {"out", "return"} /\ proc'.res # 0 /\ Blamed'
      \/ /\ proc.pc = "out" /\ kernel' = kernel /\ proc'.pc = "return" /\ proc'.res = proc.res
         /\ Blamed' = Blamed
  <2> HIDE DEF link
  <2> QED BY <1>1, FailedIs DEF Moved, Broken, Worked, Found, At, Blamed
<1>7. LinkTruth'
  <2> HIDE DEF link
  <2> QED BY <1>4, <1>5, <1>6 DEF LinkTruth, Sets
<1> QED BY <1>2, <1>3, <1>7

LEMMA EthtoolTrue ==
  ASSUME IsCall, IsNet, EthtoolTruth, command_ethtool_print
  PROVE  Same /\ IsNet' /\ EthtoolTruth'
<1>1. \/ At("begin") /\ (Moved("get") \/ Broken("return"))
      \/ At("get") /\ (Found(kernel.link, "out") \/ Broken("out"))
      \/ At("out") /\ Moved("return")
  BY Moves, Opens, Gets, Zenon DEF command_ethtool_print, net_open, net_close
<1>2. Same
  BY <1>1 DEF Moved, Broken, Found
<1>3. IsNet'
  BY <1>1 DEF Moved, Broken, Found, IsNet
<1>4. EthtoolTruth'
  BY <1>1, FailedIs DEF Moved, Broken, Found, At, Same, Blamed, EthtoolTruth, Finds
<1> QED BY <1>2, <1>3, <1>4

\* What has been asked for so far is there, or was missing and is blamed.
Asked == Requests[proc.fn]

GetTruth ==
  /\ kernel = proc.before
  /\ proc.local \in Seq({<<>>} \cup {<<kernel[r]>> : r \in DOMAIN kernel})
  /\ Len(proc.local) <= Len(Asked)
  /\ \A i \in 1 .. Len(proc.local) : proc.local[i] \in {NoValue, <<proc.before[Asked[i]]>>}
  /\ (\E i \in 1 .. Len(proc.local) : proc.local[i] = NoValue) => proc.fault = TRUE
  /\ proc.pc = "ioctl" => Len(proc.local) < Len(Asked)
  /\ proc.pc = "return" => /\ Len(proc.local) = Len(Asked)
                           /\ proc.res = IF proc.local = <<NoValue>> THEN Failed ELSE 0

LEMMA AskedIs ==
  ASSUME IsNet, proc.fn \in DOMAIN Requests
  PROVE  Asked \in Seq(DOMAIN kernel) /\ Len(Asked) \in Nat
<1>1. {"index", "mac", "address", "mtu"} \subseteq DOMAIN kernel
  BY DEF IsNet
<1>2. \A D : {"index", "mac", "address", "mtu"} \subseteq D =>
        /\ <<"index">> \in Seq(D) /\ <<"mac">> \in Seq(D) /\ <<"address">> \in Seq(D)
        /\ <<"mtu">> \in Seq(D) /\ <<"address", "mac", "mtu", "index">> \in Seq(D)
  OBVIOUS
<1>3. Asked \in Seq(DOMAIN kernel)
  BY <1>1, <1>2, RequestsAre DEF Asked
<1> QED BY <1>3

LEMMA MissingMoves ==
  ASSUME IsCall, NEW pc, Missing(pc)
  PROVE  /\ Same /\ kernel' = kernel /\ proc'.pc = pc
         /\ proc'.local = Append(proc.local, NoValue) /\ proc'.fault = TRUE
BY DEF IsCall, Same, Missing

LEMMA GetTrue ==
  ASSUME IsCall, IsNet, GetTruth, proc.fn \in DOMAIN Requests, ml_network_interface_get
  PROVE  Same /\ IsNet' /\ GetTruth'
<1> DEFINE values == {<<>>} \cup {<<kernel[r]>> : r \in DOMAIN kernel}
           n == Len(proc.local)
<1>1. Asked \in Seq(DOMAIN kernel) /\ Len(Asked) \in Nat
  BY AskedIs
<1>2. n \in Nat /\ proc.local \in Seq(values)
  BY DEF GetTruth
<1>3. CASE At("begin") /\ n < Len(Asked) /\ Acquires("netfd", "ioctl")
  <2>1. Moved("ioctl")
    BY <1>3, Moves
  <2> QED BY <1>3, <2>1 DEF Moved, Same, IsNet, GetTruth, Asked
<1>4. CASE At("close") /\ Release("netfd", "begin")
  <2>1. Moved("begin")
    BY <1>4, Moves
  <2> QED BY <1>4, <2>1 DEF Moved, Same, IsNet, GetTruth, Asked
<1>5. ASSUME NEW v \in {NoValue, <<kernel[Asked[n + 1]]>>}, n < Len(Asked),
             Same, kernel' = kernel, proc'.local = Append(proc.local, v),
             proc'.pc \in {"begin", "close"},
             IF v = NoValue THEN proc'.fault = TRUE ELSE proc'.fault = proc.fault
      PROVE  Same /\ IsNet' /\ GetTruth'
  <2>1. n + 1 \in 1 .. Len(Asked) /\ Asked[n + 1] \in DOMAIN kernel
    BY <1>1, <1>2, <1>5
  <2>2. v \in values
    BY <2>1 DEF NoValue
  <2>3. /\ proc'.local \in Seq(values) /\ Len(proc'.local) = n + 1
        /\ \A i \in 1 .. n : proc'.local[i] = proc.local[i]
        /\ proc'.local[n + 1] = v
    <3> HIDE DEF values
    <3> QED BY <1>2, <1>5, <2>2
  <2>4. Asked' = Asked /\ proc'.before = proc.before /\ values' = values
    BY <1>5 DEF Same, Asked
  <2>5. \A i \in 1 .. n + 1 : i \in 1 .. n \/ i = n + 1
    BY <1>2
  <2>6. \A i \in 1 .. n + 1 : proc'.local[i] \in {NoValue, <<proc.before[Asked[i]]>>}
    BY <2>3, <2>5 DEF GetTruth
  <2>7. (\E i \in 1 .. n + 1 : proc'.local[i] = NoValue) => proc'.fault = TRUE
    BY <1>5, <2>3, <2>5 DEF GetTruth
  <2>8. n + 1 <= Len(Asked)
    BY <1>1, <1>2, <1>5
  <2>9. GetTruth'
    <3> HIDE DEF values
    <3>1. proc'.local \in Seq(values')
      BY <2>3, <2>4
    <3>2. kernel' = proc'.before
      BY <1>5, <2>4 DEF GetTruth
    <3> QED BY <1>5, <2>3, <2>4, <2>6, <2>7, <2>8, <3>1, <3>2 DEF GetTruth, values
  <2> QED BY <1>5, <2>9 DEF IsNet
<1>6. CASE At("begin") /\ n < Len(Asked) /\ Missing("begin")
  BY <1>5, <1>6, MissingMoves
<1>7. CASE At("ioctl") /\ Reads(<<kernel[Requested]>>, "close")
  <2>1. Found(<<kernel[Asked[n + 1]]>>, "close")
    BY <1>7, ReadsFind DEF Requested, Asked
  <2>2. n < Len(Asked)
    BY <1>7 DEF At, GetTruth
  <2>3. <<kernel[Asked[n + 1]]>> # NoValue
    BY DEF NoValue
  <2> QED BY <1>5, <2>1, <2>2, <2>3 DEF Found
<1>8. CASE At("ioctl") /\ Missing("close")
  <2>1. n < Len(Asked)
    BY <1>8 DEF At, GetTruth
  <2> QED BY <1>5, <1>8, <2>1, MissingMoves
<1>9. CASE /\ At("begin") /\ n = Len(Asked)
           /\ Result(IF proc.local = <<NoValue>> THEN Failed ELSE 0, "return")
  <2>1. /\ Same /\ kernel' = kernel /\ proc'.pc = "return" /\ proc'.local = proc.local
        /\ proc'.fault = proc.fault
        /\ proc'.res = IF proc.local = <<NoValue>> THEN Failed ELSE 0
    BY <1>9 DEF Result, IsCall, Same
  <2> QED BY <1>9, <2>1 DEF Same, IsNet, GetTruth, Asked
<1> QED BY <1>3, <1>4, <1>6, <1>7, <1>8, <1>9 DEF ml_network_interface_get, get_ifreq, Asked

FilterSetTruth ==
  Sets({"begin", "setsockopt"}, [proc.before EXCEPT !.filter[proc.arg.domain] = proc.arg.filter])

ApplyTruth ==
  /\ Sets({"begin", "info_get", "info_close", "set", "setsockopt"},
          [proc.before EXCEPT !.filter["AF_INET"] = [h \in Hooks |-> proc.arg]])
  /\ proc.pc = "info_close" => proc.res = 0 \/ Blamed

\* The number of entries is read first, then the entries.
FilterGetTruth ==
  /\ Looks
  /\ proc.pc \in {"begin", "info_get"} => proc.local = <<>>
  /\ \/ proc.pc \in {"malloc", "entries", "entries_get"}
     \/ proc.pc = "info_close" /\ proc.res = 0
     => proc.local = <<Cardinality(Hooks)>>
  /\ proc.pc \in {"entries_close", "return"} /\ proc.res = 0 =>
       proc.local = <<Cardinality(Hooks), proc.before.filter[proc.arg]>>
  /\ proc.pc = "free" => proc.res # 0

LEMMA FilterSetTrue ==
  ASSUME IsCall, IsNet, FilterSetTruth, ml_network_filter_set
  PROVE  Same /\ IsNet' /\ FilterSetTruth'
<1> DEFINE k == [kernel EXCEPT !.filter[proc.arg.domain] = proc.arg.filter]
<1>1. \/ At("begin") /\ (Moved("setsockopt") \/ Broken("return"))
      \/ At("setsockopt") /\ (Worked(k, "set_close") \/ Broken("set_close"))
      \/ At("set_close") /\ Moved("return")
  BY Moves, Opens, Works, Zenon DEF ml_network_filter_set, set_filter
<1>2. Same
  BY <1>1 DEF Moved, Broken, Worked
<1>3. IsNet'
  BY <1>1 DEF Moved, Broken, Worked, IsNet
<1>4. proc'.before = proc.before /\ proc'.arg = proc.arg
  BY <1>2 DEF Same
<1>5. \/ proc.pc = "begin" /\ kernel' = kernel /\ proc'.pc = "setsockopt"
      \/ proc.pc = "setsockopt" /\ kernel' = k /\ proc'.pc = "set_close" /\ proc'.res = 0
      \/ /\ proc.pc \in {"begin", "setsockopt"} /\ kernel' = kernel
         /\ proc'.pc \in {"set_close", "return"} /\ proc'.res # 0 /\ Blamed'
      \/ /\ proc.pc = "set_close" /\ kernel' = kernel /\ proc'.pc = "return" /\ proc'.res = proc.res
         /\ Blamed' = Blamed
  <2> HIDE DEF k
  <2> QED BY <1>1, FailedIs DEF Moved, Broken, Worked, At, Blamed
<1>6. FilterSetTruth'
  BY <1>4, <1>5 DEF FilterSetTruth, Sets
<1> QED BY <1>2, <1>3, <1>6

LEMMA ApplyTrue ==
  ASSUME IsCall, IsNet, ApplyTruth, filter_apply_all
  PROVE  Same /\ IsNet' /\ ApplyTruth'
<1> DEFINE k == [kernel EXCEPT !.filter["AF_INET"] = [h \in Hooks |-> proc.arg]]
<1>1. [h \in Hooks |-> [i \in 1 .. 3 |-> proc.arg][hook_entry[h]]] = [h \in Hooks |-> proc.arg]
  BY DEF Hooks, hook_entry
<1>2. \/ At("begin") /\ (Moved("info_get") \/ Broken("return"))
      \/ At("info_get") /\ (Found(Cardinality(Hooks), "info_close") \/ Broken("info_close"))
      \/ At("info_close") /\ Moved(IF proc.res = 0 THEN "set" ELSE "return")
      \/ At("set") /\ (Moved("setsockopt") \/ Broken("return"))
      \/ At("setsockopt") /\ (Worked(k, "set_close") \/ Broken("set_close"))
      \/ At("set_close") /\ Moved("return")
  <2>1. CASE get_info("AF_INET", "set")
    BY <2>1, Moves, Opens, Gets, Zenon DEF get_info, get_filter
  <2>2. CASE set_filter("set", "AF_INET", [h \in Hooks |-> proc.arg])
    BY <2>2, Moves, Opens, Works, Zenon DEF set_filter
  <2>3. set_filter("set", "AF_INET", [h \in Hooks |-> [i \in 1 .. 3 |-> proc.arg][hook_entry[h]]])
        => set_filter("set", "AF_INET", [h \in Hooks |-> proc.arg])
    BY <1>1
  <2> QED BY <2>1, <2>2, <2>3 DEF filter_apply_all
<1>3. Same
  BY <1>2 DEF Moved, Broken, Worked, Found
<1>4. IsNet'
  BY <1>2 DEF Moved, Broken, Worked, Found, IsNet
<1>5. proc'.before = proc.before /\ proc'.arg = proc.arg
  BY <1>3 DEF Same
<1>6. \/ proc.pc = "begin" /\ kernel' = kernel /\ proc'.pc = "info_get"
      \/ proc.pc = "info_get" /\ kernel' = kernel /\ proc'.pc = "info_close" /\ (proc'.res = 0 \/ Blamed')
      \/ proc.pc = "info_close" /\ kernel' = kernel /\ proc.res = 0 /\ proc'.pc = "set"
      \/ /\ proc.pc = "info_close" /\ kernel' = kernel /\ proc.res # 0 /\ proc'.pc = "return"
         /\ proc'.res = proc.res /\ Blamed' = Blamed
      \/ proc.pc = "set" /\ kernel' = kernel /\ proc'.pc = "setsockopt"
      \/ proc.pc = "setsockopt" /\ kernel' = k /\ proc'.pc = "set_close" /\ proc'.res = 0
      \/ /\ proc.pc \in {"begin", "set", "setsockopt"} /\ kernel' = kernel
         /\ proc'.pc \in {"set_close", "return"} /\ proc'.res # 0 /\ Blamed'
      \/ /\ proc.pc = "set_close" /\ kernel' = kernel /\ proc'.pc = "return" /\ proc'.res = proc.res
         /\ Blamed' = Blamed
  <2> HIDE DEF k
  <2> QED BY <1>2, FailedIs DEF Moved, Broken, Worked, Found, At, Blamed
<1>7. ApplyTruth'
  BY <1>5, <1>6 DEF ApplyTruth, Sets
<1> QED BY <1>3, <1>4, <1>7

\* The steps of ml_network_filter_get(), whatever the label after the last one.
EntriesStep(domain, done) ==
  \/ At("begin") /\ (Moved("info_get") \/ Broken("return"))
  \/ At("info_get") /\ (Found(Cardinality(Hooks), "info_close") \/ Broken("info_close"))
  \/ At("info_close") /\ Moved(IF proc.res = 0 THEN "malloc" ELSE "return")
  \/ At("malloc") /\ (Moved("entries") \/ Broken("return"))
  \/ At("entries") /\ (Moved("entries_get") \/ Broken("free"))
  \/ At("entries_get") /\ (Found(kernel.filter[domain], "entries_close") \/ Broken("entries_close"))
  \/ At("entries_close") /\ Moved(IF proc.res = 0 THEN done ELSE "free")
  \/ At("free") /\ Moved("return")

LEMMA EntriesStepIs ==
  ASSUME IsCall, NEW domain, NEW done, ml_network_filter_get(domain, done)
  PROVE  EntriesStep(domain, done)
BY Moves, Opens, Gets, Zenon DEF ml_network_filter_get, get_info, get_filter, EntriesStep

LEMMA EntriesLooks ==
  ASSUME IsNet, Looks, NEW domain, NEW done, EntriesStep(domain, done)
  PROVE  Same /\ IsNet' /\ Looks'
<1>1. /\ Same /\ kernel' = kernel
      /\ proc'.res = 0 \/ Blamed' \/ (proc'.res = proc.res /\ Blamed' = Blamed)
  BY DEF EntriesStep, Moved, Broken, Found, Blamed
<1> QED BY <1>1 DEF Same, IsNet, Looks

LEMMA AppendToOne == ASSUME NEW a, NEW b PROVE Append(<<a>>, b) = <<a, b>>
<1> DEFINE s == Append(<<a>>, b)
           t == <<a, b>>
<1>1. <<a>> \in Seq({a, b}) /\ t \in Seq({a, b}) /\ Len(t) = 2 /\ t[1] = a /\ t[2] = b
  OBVIOUS
<1>2. s \in Seq({a, b}) /\ Len(s) = 2 /\ s[1] = a /\ s[2] = b
  BY <1>1
<1>3. \A i \in 1 .. Len(s) : s[i] = t[i]
  <2>1. \A i \in 1 .. 2 : i = 1 \/ i = 2
    OBVIOUS
  <2> HIDE DEF s, t
  <2> QED BY <1>1, <1>2, <2>1
<1> HIDE DEF s, t
<1>4. s = t
  BY <1>1, <1>2, <1>3, SeqEqual
<1> QED BY <1>4 DEF s, t

LEMMA FilterGetTrue ==
  ASSUME IsCall, IsNet, FilterGetTruth, ml_network_filter_get(proc.arg, "return")
  PROVE  Same /\ IsNet' /\ FilterGetTruth'
<1> DEFINE read == Append(proc.local, kernel.filter[proc.arg])
           one == Append(proc.local, Cardinality(Hooks))
<1>1. EntriesStep(proc.arg, "return")
  BY EntriesStepIs
<1>2. Same /\ IsNet' /\ Looks'
  BY <1>1, EntriesLooks DEF FilterGetTruth
<1>3. /\ proc'.before = proc.before /\ proc'.arg = proc.arg
      /\ kernel = proc.before
  BY <1>2 DEF Same, FilterGetTruth, Looks
<1>4. \/ proc.pc = "begin" /\ proc'.pc = "info_get" /\ proc'.local = proc.local
      \/ proc.pc = "info_get" /\ proc'.pc = "info_close" /\ proc'.local = one
      \/ proc.pc = "info_get" /\ proc'.pc = "info_close" /\ proc'.res # 0
      \/ proc.pc = "info_close" /\ proc.res = 0 /\ proc'.pc = "malloc" /\ proc'.local = proc.local
      \/ proc.pc = "info_close" /\ proc.res # 0 /\ proc'.pc = "return" /\ proc'.res # 0
      \/ proc.pc = "malloc" /\ proc'.pc = "entries" /\ proc'.local = proc.local
      \/ proc.pc \in {"begin", "malloc"} /\ proc'.pc = "return" /\ proc'.res # 0
      \/ proc.pc = "entries" /\ proc'.pc = "entries_get" /\ proc'.local = proc.local
      \/ proc.pc = "entries" /\ proc'.pc = "free" /\ proc'.res # 0
      \/ /\ proc.pc = "entries_get" /\ proc'.pc = "entries_close"
         /\ proc'.local = read
      \/ proc.pc = "entries_get" /\ proc'.pc = "entries_close" /\ proc'.res # 0
      \/ /\ proc.pc = "entries_close" /\ proc.res = 0 /\ proc'.pc = "return"
         /\ proc'.res = proc.res /\ proc'.local = proc.local
      \/ proc.pc = "entries_close" /\ proc.res # 0 /\ proc'.pc = "free" /\ proc'.res = proc.res
      \/ proc.pc = "free" /\ proc'.pc = "return" /\ proc'.res = proc.res
  BY <1>1, FailedIs DEF EntriesStep, Moved, Broken, Found, At
<1>5. proc.pc = "entries_get" => read = <<Cardinality(Hooks), proc.before.filter[proc.arg]>>
  <2> SUFFICES ASSUME proc.pc = "entries_get"
               PROVE  read = <<Cardinality(Hooks), proc.before.filter[proc.arg]>>
    OBVIOUS
  <2>1. proc.local = <<Cardinality(Hooks)>>
    BY DEF FilterGetTruth
  <2> QED BY <1>3, <2>1, AppendToOne, Zenon
<1>6. proc.pc = "info_get" => one = <<Cardinality(Hooks)>>
  <2> SUFFICES ASSUME proc.pc = "info_get" PROVE one = <<Cardinality(Hooks)>>
    OBVIOUS
  <2>1. proc.local = <<>>
    BY DEF FilterGetTruth
  <2> QED BY <2>1
<1>7. FilterGetTruth'
  <2> HIDE DEF read, one
  <2> QED BY <1>2, <1>3, <1>4, <1>5, <1>6 DEF FilterGetTruth
<1> QED BY <1>2, <1>7

LEMMA FilterLogTrue ==
  ASSUME IsCall, IsNet, Looks, ml_network_filter_log(proc.arg)
  PROVE  Same /\ IsNet' /\ Looks'
<1>1. CASE ml_network_filter_get(proc.arg, "log")
  BY <1>1, EntriesStepIs, EntriesLooks
<1>2. CASE At("log") /\ Release("entries_p", "return")
  <2>1. Moved("return")
    BY <1>2, Moves
  <2> QED BY <2>1 DEF Moved, Same, IsNet, Looks, Blamed
<1> QED BY <1>1, <1>2 DEF ml_network_filter_log

-----------------------------------------------------------------------------
(* A verity device is created step by step; a device that is there keeps     *)
(* every later call from its first step.                                     *)

IsMapper ==
  /\ kernel = [device |-> kernel.device, node |-> kernel.node, table |-> kernel.table, active |-> kernel.active]
  /\ kernel.device \in BOOLEAN
  /\ kernel.table # "none" => kernel.node
  /\ kernel.node => kernel.device
  /\ ~kernel.device => kernel = MapperKernel

\* The device, the node and the table, in that order.
Created == [MapperKernel EXCEPT !.device = TRUE]
Noded == [Created EXCEPT !.node = TRUE]
Loaded == [Noded EXCEPT !.table = proc.arg]
Resumed == [Loaded EXCEPT !.active = proc.arg]

MapperTruth ==
  /\ proc.pc \in {"begin", "create"} => kernel = proc.before
  /\ proc.pc = "mknod" => proc.before = MapperKernel /\ kernel = Created
  /\ proc.pc = "load" => proc.before = MapperKernel /\ kernel = Noded
  /\ proc.pc = "suspend" => proc.before = MapperKernel /\ kernel = Loaded
  /\ proc.pc \in {"out", "return"} =>
       \/ proc.res = 0 /\ proc.before = MapperKernel /\ kernel = Resumed
       \/ /\ proc.res # 0 /\ Blamed
          /\ \/ kernel = proc.before
             \/ proc.before = MapperKernel /\ kernel \in {Created, Noded, Loaded}

LEMMA MapperTrue ==
  ASSUME IsCall, IsMapper, MapperTruth, ml_device_mapper_verity_create
  PROVE  Same /\ IsMapper' /\ MapperTruth'
<1>1. \/ At("begin") /\ (Moved("create") \/ Broken("return"))
      \/ At("create") /\ ~kernel.device /\ Worked([kernel EXCEPT !.device = TRUE], "mknod")
      \/ At("create") /\ Broken("out")
      \/ At("mknod") /\ (Worked([kernel EXCEPT !.node = TRUE], "load") \/ Broken("out"))
      \/ At("load") /\ (Worked([kernel EXCEPT !.table = proc.arg], "suspend") \/ Broken("out"))
      \/ At("suspend") /\ (Worked([kernel EXCEPT !.active = kernel.table], "out") \/ Broken("out"))
      \/ At("out") /\ Moved("return")
  BY Moves, Breaks, Opens, Works, Zenon
  DEF ml_device_mapper_verity_create, create_device, load_table, suspend_device
<1>2. Same
  BY <1>1 DEF Moved, Broken, Worked
<1>3. proc'.before = proc.before /\ Loaded' = Loaded /\ Resumed' = Resumed
  BY <1>2 DEF Same, Loaded, Resumed
<1>4. \/ proc.pc = "begin" /\ kernel' = kernel /\ proc'.pc = "create"
      \/ /\ proc.pc = "create" /\ ~kernel.device /\ kernel' = [kernel EXCEPT !.device = TRUE]
         /\ proc'.pc = "mknod"
      \/ proc.pc = "mknod" /\ kernel' = [kernel EXCEPT !.node = TRUE] /\ proc'.pc = "load"
      \/ proc.pc = "load" /\ kernel' = [kernel EXCEPT !.table = proc.arg] /\ proc'.pc = "suspend"
      \/ /\ proc.pc = "suspend" /\ kernel' = [kernel EXCEPT !.active = kernel.table]
         /\ proc'.pc = "out" /\ proc'.res = 0
      \/ /\ proc.pc \in {"begin", "create", "mknod", "load", "suspend"} /\ kernel' = kernel
         /\ proc'.pc \in {"out", "return"} /\ proc'.res # 0 /\ Blamed'
      \/ /\ proc.pc = "out" /\ kernel' = kernel /\ proc'.pc = "return" /\ proc'.res = proc.res
         /\ Blamed' = Blamed
  BY <1>1, FailedIs DEF Moved, Broken, Worked, At, Blamed
<1>5. CASE \/ proc.pc = "begin" /\ kernel' = kernel /\ proc'.pc = "create"
           \/ /\ proc.pc \in {"begin", "create", "mknod", "load", "suspend"} /\ kernel' = kernel
              /\ proc'.pc \in {"out", "return"} /\ proc'.res # 0 /\ Blamed'
           \/ /\ proc.pc = "out" /\ kernel' = kernel /\ proc'.pc = "return" /\ proc'.res = proc.res
              /\ Blamed' = Blamed
  <2>1. IsMapper'
    BY <1>5 DEF IsMapper
  <2>2. MapperTruth'
    BY <1>3, <1>5 DEF MapperTruth
  <2> QED BY <1>2, <2>1, <2>2
<1>6. CASE proc.pc = "create" /\ ~kernel.device /\ kernel' = [kernel EXCEPT !.device = TRUE] /\ proc'.pc = "mknod"
  <2>1. kernel = MapperKernel /\ proc.before = MapperKernel /\ kernel' = Created
    BY <1>6 DEF IsMapper, MapperTruth, Created
  <2> QED BY <1>2, <1>3, <1>6, <2>1 DEF MapperTruth, IsMapper, Created, MapperKernel
<1>7. CASE proc.pc = "mknod" /\ kernel' = [kernel EXCEPT !.node = TRUE] /\ proc'.pc = "load"
  <2>1. proc.before = MapperKernel /\ kernel' = Noded
    BY <1>7 DEF MapperTruth, Noded
  <2> QED BY <1>2, <1>3, <1>7, <2>1 DEF MapperTruth, IsMapper, Created, Noded, MapperKernel
<1>8. CASE proc.pc = "load" /\ kernel' = [kernel EXCEPT !.table = proc.arg] /\ proc'.pc = "suspend"
  <2>1. proc.before = MapperKernel /\ kernel' = Loaded
    BY <1>8 DEF MapperTruth, Loaded
  <2> QED BY <1>2, <1>3, <1>8, <2>1 DEF MapperTruth, IsMapper, Created, Noded, Loaded, MapperKernel
<1>9. CASE /\ proc.pc = "suspend" /\ kernel' = [kernel EXCEPT !.active = kernel.table]
           /\ proc'.pc = "out" /\ proc'.res = 0
  <2>1. proc.before = MapperKernel /\ kernel' = Resumed
    BY <1>9 DEF MapperTruth, Resumed, Loaded, Noded, Created, MapperKernel
  <2> QED BY <1>2, <1>3, <1>9, <2>1 DEF MapperTruth, IsMapper, Created, Noded, Loaded, Resumed, MapperKernel
<1> QED BY <1>4, <1>5, <1>6, <1>7, <1>8, <1>9

-----------------------------------------------------------------------------
(* The clocks.                                                               *)

RtcGetTruth == Finds({"begin", "ioctl"}, proc.before.rtc)
RtcSetTruth == Sets({"begin", "ioctl"}, [proc.before EXCEPT !.rtc = proc.arg])
DateTruth == Finds({"begin"}, proc.before.clock)
DateSetTruth == Sets({"begin"}, [proc.before EXCEPT !.clock = proc.arg])

\* Every address is tried with a new answer, and the clock is set once.
NtpTruth ==
  /\ proc.pc \in {"begin", "socket", "connect", "send", "receive"} => proc.local = <<>>
  /\ proc.pc = "settime" => proc.local = <<proc.arg.now>>
  /\ proc.pc \in {"begin", "socket", "connect", "send", "receive", "settime"} => kernel = proc.before
  /\ proc.pc \in {"close", "next", "free", "return"} =>
       \/ proc.res = 0 /\ kernel = [proc.before EXCEPT !.clock = proc.arg.now]
       \/ proc.res # 0 /\ kernel = proc.before /\ Blamed

\* The era is found for every time that the code can tell.
LEMMA EraIs ==
  ASSUME NEW now \in Times
  PROVE  ntp_time_to_timespec((now + JAN_1900_TO_1970) % NTP_ERA) = now
<1> DEFINE x == now + JAN_1900_TO_1970
           h == NTP_ERA \div 2
<1>1. x \in Nat /\ h <= x /\ 2 * x < 3 * NTP_ERA /\ now \in Nat
  BY AlgorithmsAssumption DEF Times
<1>2. NTP_ERA \in Nat \ {0} /\ NTP_ERA = 2 * h /\ h \in Nat
  BY AlgorithmsAssumption
<1>3. CASE x < NTP_ERA
  <2>1. x % NTP_ERA = x
    BY <1>1, <1>2, <1>3
  <2> QED BY <1>1, <1>2, <2>1, AlgorithmsAssumption DEF ntp_time_to_timespec
<1>4. CASE x >= NTP_ERA
  <2>1. x % NTP_ERA = x - NTP_ERA
    BY <1>1, <1>2, <1>4
  <2> QED BY <1>1, <1>2, <1>4, <2>1, AlgorithmsAssumption DEF ntp_time_to_timespec
<1> QED BY <1>1, <1>2, <1>3, <1>4

LEMMA RtcGetTrue ==
  ASSUME IsCall, RtcGetTruth, ml_rtc_get_time
  PROVE  Same /\ RtcGetTruth'
<1>1. \/ At("begin") /\ (Moved("ioctl") \/ Broken("return"))
      \/ At("ioctl") /\ (Found(kernel.rtc, "close") \/ Broken("close"))
      \/ At("close") /\ Moved("return")
  BY Moves, Opens, Gets, Zenon DEF ml_rtc_get_time
<1>2. Same
  BY <1>1 DEF Moved, Broken, Found
<1>3. RtcGetTruth'
  BY <1>1, FailedIs DEF Moved, Broken, Found, At, Same, Blamed, RtcGetTruth, Finds
<1> QED BY <1>2, <1>3

LEMMA RtcSetTrue ==
  ASSUME IsCall, RtcSetTruth, ml_rtc_set_time
  PROVE  Same /\ RtcSetTruth'
<1>1. \/ At("begin") /\ (Moved("ioctl") \/ Broken("return"))
      \/ At("ioctl") /\ (Worked([kernel EXCEPT !.rtc = proc.arg], "close") \/ Broken("close"))
      \/ At("close") /\ Moved("return")
  BY Moves, Opens, Works, Zenon DEF ml_rtc_set_time
<1>2. Same
  BY <1>1 DEF Moved, Broken, Worked
<1>3. RtcSetTruth'
  BY <1>1, FailedIs DEF Moved, Broken, Worked, At, Same, Blamed, RtcSetTruth, Sets
<1> QED BY <1>2, <1>3

LEMMA DateTrue ==
  ASSUME IsCall, DateTruth, date
  PROVE  Same /\ DateTruth'
<1>1. At("begin") /\ (Found(kernel.clock, "return") \/ Broken("return"))
  BY Gets, Zenon DEF date
<1>2. Same
  BY <1>1 DEF Broken, Found
<1>3. DateTruth'
  BY <1>1, FailedIs DEF Broken, Found, At, Same, Blamed, DateTruth, Finds
<1> QED BY <1>2, <1>3

LEMMA DateSetTrue ==
  ASSUME IsCall, DateSetTruth, date_set
  PROVE  Same /\ DateSetTruth'
<1>1. At("begin") /\ (Worked([kernel EXCEPT !.clock = proc.arg], "return") \/ Broken("return"))
  BY Works, Zenon DEF date_set
<1>2. Same
  BY <1>1 DEF Broken, Worked
<1>3. DateSetTruth'
  BY <1>1, FailedIs DEF Broken, Worked, At, Same, Blamed, DateSetTruth, Sets
<1> QED BY <1>2, <1>3

LEMMA NtpTrue ==
  ASSUME IsCall, NtpTruth, ml_ntp_client_sync,
         proc.arg = [now |-> proc.arg.now, servers |-> proc.arg.servers], proc.arg.now \in Times
  PROVE  Keeps /\ NtpTruth'
<1> DEFINE k == [kernel EXCEPT !.clock = proc.local[Len(proc.local)]]
           Again == /\ proc' = [proc EXCEPT !.pc = "socket", !.arg.servers = @ - 1, !.local = <<>>]
                    /\ kernel' = kernel
<1>1. receive_response("settime", "close") => Found(proc.arg.now, "settime") \/ Broken("close")
  <2>1. ASSUME NEW answer \in Answers(proc.arg.now), Reads(ntp_time_to_timespec(answer.secs), "settime")
        PROVE  Found(proc.arg.now, "settime")
    <3>1. answer.secs = (proc.arg.now + JAN_1900_TO_1970) % NTP_ERA
      BY DEF Answers
    <3>2. ntp_time_to_timespec(answer.secs) = proc.arg.now
      BY <3>1, EraIs
    <3> QED BY <2>1, <3>2, ReadsFind
  <2> QED BY <2>1, Breaks, Zenon DEF receive_response
<1>2. \/ At("begin") /\ (Moved("socket") \/ Broken("return"))
      \/ At("socket") /\ (Moved("connect") \/ Broken("next"))
      \/ At("connect") /\ (Worked(kernel, "send") \/ Broken("close"))
      \/ At("send") /\ (Worked(kernel, "receive") \/ Broken("close"))
      \/ At("receive") /\ (Found(proc.arg.now, "settime") \/ Broken("close"))
      \/ At("settime") /\ (Worked(k, "close") \/ Broken("close"))
      \/ At("close") /\ Moved("next")
      \/ At("next") /\ Moved("free")
      \/ At("next") /\ proc.res # 0 /\ Again
      \/ At("free") /\ Moved("return")
  BY <1>1, Moves, Opens, Works, Zenon DEF ml_ntp_client_sync, try_sync_with_server, try_sync
<1>3. CASE At("next") /\ proc.res # 0 /\ Again
  <2>1. /\ IsCall' /\ proc'.fn = proc.fn /\ proc'.before = proc.before
        /\ proc'.arg = [proc.arg EXCEPT !.servers = @ - 1]
        /\ proc'.pc = "socket" /\ proc'.local = <<>> /\ kernel' = kernel
    BY <1>3 DEF IsCall
  <2>2. kernel = proc.before
    BY <1>3 DEF NtpTruth, At
  <2> QED BY <2>1, <2>2 DEF Keeps, NtpTruth
<1>4. CASE ~(At("next") /\ proc.res # 0 /\ Again)
  <2>1. Same
    <3> HIDE DEF k, Again
    <3> QED BY <1>2, <1>4 DEF Moved, Broken, Worked, Found
  <2>2. proc'.before = proc.before /\ proc'.arg = proc.arg
    BY <2>1 DEF Same
  <2>3. proc.pc = "settime" => k = [proc.before EXCEPT !.clock = proc.arg.now]
    BY DEF NtpTruth
  <2>4. proc.pc = "receive" => Append(proc.local, proc.arg.now) = <<proc.arg.now>>
    <3> SUFFICES ASSUME proc.pc = "receive" PROVE Append(proc.local, proc.arg.now) = <<proc.arg.now>>
      OBVIOUS
    <3>1. proc.local = <<>>
      BY DEF NtpTruth
    <3> QED BY <3>1
  <2>5. \/ proc.pc = "begin" /\ proc'.pc = "socket" /\ kernel' = kernel /\ proc'.local = proc.local
        \/ proc.pc = "socket" /\ proc'.pc = "connect" /\ kernel' = kernel /\ proc'.local = proc.local
        \/ proc.pc = "connect" /\ proc'.pc = "send" /\ kernel' = kernel /\ proc'.local = proc.local
        \/ proc.pc = "send" /\ proc'.pc = "receive" /\ kernel' = kernel /\ proc'.local = proc.local
        \/ proc.pc = "receive" /\ proc'.pc = "settime" /\ kernel' = kernel /\ proc'.local = <<proc.arg.now>>
        \/ proc.pc = "settime" /\ proc'.pc = "close" /\ kernel' = k /\ proc'.res = 0
        \/ /\ proc.pc \in {"begin", "socket", "connect", "send", "receive", "settime"} /\ kernel' = kernel
           /\ proc'.pc \in {"close", "next", "return"} /\ proc'.res # 0 /\ Blamed'
        \/ /\ proc.pc \in {"close", "next", "free"} /\ proc'.pc \in {"next", "free", "return"}
           /\ kernel' = kernel /\ proc'.res = proc.res /\ Blamed' = Blamed
    <3> HIDE DEF k, Again
    <3> QED BY <1>2, <1>4, <2>4, FailedIs, SMTT(30) DEF Moved, Broken, Worked, Found, At, Blamed
  <2>6. NtpTruth'
    <3> HIDE DEF k
    <3> QED BY <2>2, <2>3, <2>5 DEF NtpTruth
  <2> QED BY <2>1, <2>6 DEF Same, Keeps
<1> QED BY <1>3, <1>4

-----------------------------------------------------------------------------
(* Files and directories.                                                    *)

IsFiles == kernel = [out |-> kernel.out, objects |-> kernel.objects]

\* The ways of a step that Files adds: the file is emptied, data is put in the
\* buffer, the buffer is written or lost, a failure is not seen, and a result
\* without a failure.
Emptied(pc) ==
  /\ Same /\ kernel' = [kernel EXCEPT !.out = <<>>]
  /\ proc'.pc = pc /\ proc'.res = proc.res /\ proc'.local = proc.local
  /\ proc'.fault = proc.fault /\ proc'.ignored = proc.ignored

Added(data, pc) ==
  /\ Same /\ kernel' = kernel
  /\ proc'.pc = pc /\ proc'.res = 0 /\ proc'.local = proc.local \o data
  /\ proc'.fault = proc.fault /\ proc'.ignored = proc.ignored

Flushed(pc) ==
  /\ Same
  /\ proc'.pc = pc /\ proc'.res = proc.res /\ proc'.fault = proc.fault /\ proc'.usage = proc.usage
  /\ \/ kernel' = [kernel EXCEPT !.out = proc.local] /\ proc'.ignored = proc.ignored
     \/ kernel' = kernel /\ proc'.ignored = TRUE

Unseen(pc) ==
  /\ Same /\ kernel' = kernel
  /\ proc'.pc = pc /\ proc'.res = proc.res /\ proc'.local = proc.local
  /\ proc'.fault = proc.fault /\ proc'.ignored = TRUE

Resulted(res, pc) ==
  /\ Same /\ kernel' = kernel
  /\ proc'.pc = pc /\ proc'.res = res /\ proc'.local = proc.local
  /\ proc'.fault = proc.fault /\ proc'.ignored = proc.ignored

LEMMA Empties == \A ok, err : IsCall /\ Truncate(ok, err) => Emptied(ok) \/ Broken(err)
<1>1. \A ok : /\ IsCall /\ kernel' = [kernel EXCEPT !.out = <<>>]
              /\ proc' = [proc EXCEPT !.pc = ok, !.held = @ \cup {"file_p"}]
              => Emptied(ok)
  BY DEF IsCall, Same, Emptied
<1> QED BY <1>1, Breaks, Zenon DEF Truncate

LEMMA Adds == \A data, pc : IsCall /\ Buffered(data, pc) => Added(data, pc)
BY DEF Buffered, IsCall, Same, Added

LEMMA Flushes == \A pc : IsCall /\ Flush(pc) => Flushed(pc)
BY DEF Flush, IsCall, Same, Flushed

LEMMA Overlooks == \A pc : IsCall /\ FailsUnseen(pc) => Unseen(pc)
BY DEF FailsUnseen, IsCall, Same, Unseen

LEMMA Results == \A res, pc : IsCall /\ Result(res, pc) => Resulted(res, pc)
BY DEF Result, IsCall, Same, Resulted

LEMMA PrefixFacts ==
  ASSUME NEW S, NEW s \in Seq(S), NEW n \in 0 .. Len(s)
  PROVE  IsPrefix(SubSeq(s, 1, n), s)
<1>1. SubSeq(s, 1, n) \in Seq(S) /\ Len(SubSeq(s, 1, n)) = n
  BY SubSeqProperties
<1>2. SubSeq(SubSeq(s, 1, n), 1, n) = SubSeq(s, 1, n)
  BY <1>1, SubSeqFull, Zenon
<1> QED BY <1>1, <1>2 DEF IsPrefix

LEMMA PrefixEnds ==
  ASSUME NEW S, NEW s \in Seq(S)
  PROVE  IsPrefix(s, s) /\ IsPrefix(<<>>, s) /\ SubSeq(s, 1, Len(s)) = s
<1>1. SubSeq(s, 1, Len(s)) = s
  BY SubSeqFull
<1>2. Len(s) \in Nat /\ Len(s) \in 0 .. Len(s) /\ 0 \in 0 .. Len(s)
  OBVIOUS
<1>3. SubSeq(s, 1, 0) = <<>>
  BY SubSeqEmpty
<1>4. IsPrefix(SubSeq(s, 1, Len(s)), s) /\ IsPrefix(SubSeq(s, 1, 0), s)
  BY <1>2, PrefixFacts
<1> QED BY <1>1, <1>3, <1>4

InsertTruth == Sets({"begin", "init"}, [proc.before EXCEPT !.objects = @ \cup {proc.arg}])
MakeTruth == Sets({"begin"}, [proc.before EXCEPT !.objects = @ \cup {proc.arg}])
UnmakeTruth == Sets({"begin"}, [proc.before EXCEPT !.objects = @ \ {proc.arg}])

LEMMA InsertTrue ==
  ASSUME IsCall, IsFiles, InsertTruth, ml_insert_module
  PROVE  Same /\ IsFiles' /\ InsertTruth'
<1> DEFINE k == [kernel EXCEPT !.objects = @ \cup {proc.arg}]
<1>1. \/ At("begin") /\ (Moved("init") \/ Broken("return"))
      \/ At("init") /\ (Worked(k, "close") \/ Broken("close"))
      \/ At("close") /\ Moved("return")
  BY Moves, Breaks, Opens, Works, Zenon DEF ml_insert_module
<1>2. Same
  BY <1>1 DEF Moved, Broken, Worked
<1>3. IsFiles'
  BY <1>1 DEF Moved, Broken, Worked, IsFiles
<1>4. InsertTruth'
  BY <1>1, FailedIs DEF Moved, Broken, Worked, At, Same, Blamed, InsertTruth, Sets
<1> QED BY <1>2, <1>3, <1>4

LEMMA MakeTrue ==
  ASSUME IsCall, IsFiles, MakeTruth, make
  PROVE  Same /\ IsFiles' /\ MakeTruth'
<1> DEFINE k == [kernel EXCEPT !.objects = @ \cup {proc.arg}]
<1>1. At("begin") /\ (Worked(k, "return") \/ Broken("return"))
  BY Breaks, Works, Zenon DEF make
<1>2. Same
  BY <1>1 DEF Broken, Worked
<1>3. IsFiles'
  BY <1>1 DEF Broken, Worked, IsFiles
<1>4. MakeTruth'
  BY <1>1, FailedIs DEF Broken, Worked, At, Same, Blamed, MakeTruth, Sets
<1> QED BY <1>2, <1>3, <1>4

LEMMA UnmakeTrue ==
  ASSUME IsCall, IsFiles, UnmakeTruth, unmake
  PROVE  Same /\ IsFiles' /\ UnmakeTruth'
<1> DEFINE k == [kernel EXCEPT !.objects = @ \ {proc.arg}]
<1>1. At("begin") /\ (Worked(k, "return") \/ Broken("return"))
  BY Breaks, Works, Zenon DEF unmake
<1>2. Same
  BY <1>1 DEF Broken, Worked
<1>3. IsFiles'
  BY <1>1 DEF Broken, Worked, IsFiles
<1>4. UnmakeTruth'
  BY <1>1, FailedIs DEF Broken, Worked, At, Same, Blamed, UnmakeTruth, Sets
<1> QED BY <1>2, <1>3, <1>4

ReadTruth ==
  /\ kernel = proc.before
  /\ proc.pc \in {"begin", "read"} => proc.local = <<>>
  /\ proc.pc \in {"close", "return"} =>
       \/ proc.res = 0 /\ proc.local = <<Prefix(proc.arg)>>
       \/ proc.res # 0 /\ (Blamed \/ proc.arg \notin 1 .. Len(Input))

LEMMA ReadTrue ==
  ASSUME IsCall, IsFiles, ReadTruth, ml_file_read
  PROVE  Same /\ IsFiles' /\ ReadTruth'
<1> DEFINE inside == proc.arg \in 1 .. Len(Input)
<1>1. \/ At("begin") /\ (Moved("read") \/ Broken("return"))
      \/ At("read") /\ (Found(Prefix(proc.arg), "close") \/ Broken("close"))
      \/ At("read") /\ ~inside /\ Resulted(Failed, "close")
      \/ At("close") /\ Moved("return")
  BY Moves, Opens, Gets, Results, Zenon DEF ml_file_read
<1>2. Same
  BY <1>1 DEF Moved, Broken, Found, Resulted
<1>3. IsFiles'
  BY <1>1 DEF Moved, Broken, Found, Resulted, IsFiles
<1>4. proc'.before = proc.before /\ proc'.arg = proc.arg /\ kernel' = kernel
  BY <1>1, <1>2 DEF Moved, Broken, Found, Resulted, Same
<1>5. \/ proc.pc = "begin" /\ proc'.pc = "read" /\ proc'.local = proc.local
      \/ /\ proc.pc = "read" /\ proc'.pc = "close" /\ proc'.res = 0
         /\ proc'.local = Append(proc.local, Prefix(proc.arg))
      \/ proc.pc \in {"begin", "read"} /\ proc'.pc \in {"close", "return"} /\ proc'.res # 0 /\ (Blamed' \/ ~inside)
      \/ /\ proc.pc = "close" /\ proc'.pc = "return" /\ proc'.res = proc.res /\ proc'.local = proc.local
         /\ Blamed' = Blamed
  <2> HIDE DEF inside
  <2> QED BY <1>1, FailedIs DEF Moved, Broken, Found, Resulted, At, Blamed
<1>6. ReadTruth'
  BY <1>4, <1>5 DEF ReadTruth, Prefix
<1> QED BY <1>2, <1>3, <1>6

\* What is written is in the buffer until the file is closed, and closing it
\* may lose it without a word.
WriteTruth ==
  /\ proc.pc = "begin" => kernel = proc.before
  /\ proc.pc \in {"begin", "write"} => proc.local = <<>>
  /\ proc.pc \in {"write", "close"} => kernel.out = <<>>
  /\ proc.pc = "close" =>
       \/ proc.res = 0 /\ proc.local = proc.arg
       \/ proc.res # 0 /\ proc.local = <<>> /\ (Blamed \/ proc.arg = <<>>)
  /\ proc.pc = "return" =>
       \/ proc.res = 0 /\ (kernel.out = proc.arg \/ (kernel.out = <<>> /\ proc.ignored = TRUE))
       \/ /\ proc.res # 0 /\ (kernel = proc.before \/ kernel.out = <<>>)
          /\ Blamed \/ proc.arg = <<>>

Printed == proc.arg \o <<10>>

PrintTruth ==
  /\ proc.pc = "begin" => kernel = proc.before
  /\ proc.pc \in {"begin", "text"} => proc.local = <<>>
  /\ proc.pc = "newline" => proc.local = proc.arg
  /\ proc.pc \in {"text", "newline", "close"} => kernel.out = <<>>
  /\ proc.pc = "close" =>
       \/ proc.res = 0 /\ proc.local = Printed
       \/ proc.res # 0 /\ proc.local \in {<<>>, proc.arg} /\ Blamed
  /\ proc.pc = "return" =>
       \/ proc.res = 0 /\ (kernel.out = Printed \/ (kernel.out = <<>> /\ proc.ignored = TRUE))
       \/ proc.res # 0 /\ (kernel = proc.before \/ kernel.out \in {<<>>, proc.arg}) /\ Blamed

LEMMA WriteTrue ==
  ASSUME IsCall, IsFiles, proc.arg \in Seq(Nat), WriteTruth, ml_file_write_string
  PROVE  Same /\ IsFiles' /\ WriteTruth'
<1>1. \/ At("begin") /\ (Emptied("write") \/ Broken("return"))
      \/ At("write") /\ (Added(proc.arg, "close") \/ Broken("close"))
      \/ At("write") /\ proc.arg = <<>> /\ Resulted(Failed, "close")
      \/ At("close") /\ Flushed("return")
  BY Breaks, Empties, Adds, Results, Flushes, Zenon DEF ml_file_write_string
<1>2. Same
  BY <1>1 DEF Broken, Emptied, Added, Resulted, Flushed
<1>3. IsFiles'
  BY <1>1 DEF Broken, Emptied, Added, Resulted, Flushed, IsFiles
<1>4. proc'.before = proc.before /\ proc'.arg = proc.arg
  BY <1>2 DEF Same
<1>5. proc.pc = "write" => proc.local \o proc.arg = proc.arg
  <2> SUFFICES ASSUME proc.pc = "write" PROVE proc.local \o proc.arg = proc.arg
    OBVIOUS
  <2>1. proc.local = <<>>
    BY DEF WriteTruth
  <2> QED BY <2>1, ConcatEmptySeq
<1>6. \A v : [kernel EXCEPT !.out = v].out = v
  BY DEF IsFiles
<1>7. \/ proc.pc = "begin" /\ kernel'.out = <<>> /\ proc'.pc = "write" /\ proc'.local = proc.local
      \/ proc.pc = "begin" /\ kernel' = kernel /\ proc'.pc = "return" /\ proc'.res # 0 /\ Blamed'
      \/ proc.pc = "write" /\ kernel' = kernel /\ proc'.pc = "close" /\ proc'.res = 0 /\ proc'.local = proc.arg
      \/ /\ proc.pc = "write" /\ kernel' = kernel /\ proc'.pc = "close" /\ proc'.res # 0
         /\ proc'.local = proc.local /\ (Blamed' \/ proc.arg = <<>>)
      \/ /\ proc.pc = "close" /\ proc'.pc = "return" /\ proc'.res = proc.res
         /\ \/ kernel'.out = proc.local /\ (Blamed => Blamed')
            \/ kernel' = kernel /\ proc'.ignored = TRUE /\ Blamed'
  <2>1. \A pc : Flushed(pc) => /\ proc'.pc = pc /\ proc'.res = proc.res
                               /\ \/ kernel'.out = proc.local /\ (Blamed => Blamed')
                                  \/ kernel' = kernel /\ proc'.ignored = TRUE /\ Blamed'
    BY <1>6 DEF Flushed, Blamed
  <2> QED BY <1>1, <1>5, <1>6, <2>1, FailedIs DEF Broken, Emptied, Added, Resulted, At, Blamed
<1>8. WriteTruth'
  BY <1>4, <1>7 DEF WriteTruth
<1> QED BY <1>2, <1>3, <1>8

LEMMA PrintTrue ==
  ASSUME IsCall, IsFiles, proc.arg \in Seq(Nat), PrintTruth, print
  PROVE  Same /\ IsFiles' /\ PrintTruth'
<1>1. \/ At("begin") /\ (Emptied("text") \/ Broken("return"))
      \/ At("text") /\ (Added(proc.arg, "newline") \/ Broken("close"))
      \/ At("newline") /\ (Added(<<10>>, "close") \/ Broken("close"))
      \/ At("close") /\ Flushed("return")
  BY Breaks, Empties, Adds, Flushes, Zenon DEF print
<1>2. Same
  BY <1>1 DEF Broken, Emptied, Added, Flushed
<1>3. IsFiles'
  BY <1>1 DEF Broken, Emptied, Added, Flushed, IsFiles
<1>4. proc'.before = proc.before /\ proc'.arg = proc.arg /\ Printed' = Printed
  BY <1>2 DEF Same, Printed
<1>5. proc.pc = "text" => proc.local \o proc.arg = proc.arg
  <2> SUFFICES ASSUME proc.pc = "text" PROVE proc.local \o proc.arg = proc.arg
    OBVIOUS
  <2>1. proc.local = <<>>
    BY DEF PrintTruth
  <2> QED BY <2>1, ConcatEmptySeq
<1>6. proc.pc = "newline" => proc.local \o <<10>> = Printed
  BY DEF PrintTruth, Printed
<1>7. \A v : [kernel EXCEPT !.out = v].out = v
  BY DEF IsFiles
<1>8. \/ proc.pc = "begin" /\ kernel'.out = <<>> /\ proc'.pc = "text" /\ proc'.local = proc.local
      \/ proc.pc = "begin" /\ kernel' = kernel /\ proc'.pc = "return" /\ proc'.res # 0 /\ Blamed'
      \/ proc.pc = "text" /\ kernel' = kernel /\ proc'.pc = "newline" /\ proc'.local = proc.arg
      \/ proc.pc = "newline" /\ kernel' = kernel /\ proc'.pc = "close" /\ proc'.res = 0 /\ proc'.local = Printed
      \/ /\ proc.pc \in {"text", "newline"} /\ kernel' = kernel /\ proc'.pc = "close" /\ proc'.res # 0
         /\ proc'.local = proc.local /\ Blamed'
      \/ /\ proc.pc = "close" /\ proc'.pc = "return" /\ proc'.res = proc.res
         /\ \/ kernel'.out = proc.local /\ (Blamed => Blamed')
            \/ kernel' = kernel /\ proc'.ignored = TRUE /\ Blamed'
  <2> HIDE DEF Printed
  <2>1. \A pc : Flushed(pc) => /\ proc'.pc = pc /\ proc'.res = proc.res
                               /\ \/ kernel'.out = proc.local /\ (Blamed => Blamed')
                                  \/ kernel' = kernel /\ proc'.ignored = TRUE /\ Blamed'
    BY <1>7 DEF Flushed, Blamed
  <2> QED BY <1>1, <1>5, <1>6, <1>7, <2>1, FailedIs DEF Broken, Emptied, Added, At, Blamed
<1>9. PrintTruth'
  BY <1>4, <1>8 DEF PrintTruth
<1> QED BY <1>2, <1>3, <1>9

\* SubSeq() of the first elements grows with what follows them.
LEMMA PrefixGrows ==
  ASSUME NEW S, NEW s \in Seq(S), NEW m \in 0 .. Len(s), NEW n \in m .. Len(s)
  PROVE  SubSeq(s, 1, m) \o SubSeq(s, m + 1, n) = SubSeq(s, 1, n)
<1> DEFINE a == SubSeq(s, 1, m)
           b == SubSeq(s, m + 1, n)
           c == SubSeq(s, 1, n)
<1>1. a \in Seq(S) /\ Len(a) = m /\ \A i \in 1 .. m : a[i] = s[i]
  BY SubSeqProperties
<1>2. b \in Seq(S) /\ Len(b) = n - m /\ \A i \in 1 .. n - m : b[i] = s[m + i]
  <2>1. m \in Nat /\ n \in Nat /\ Len(s) \in Nat /\ m <= n /\ n <= Len(s)
    OBVIOUS
  <2>2. \A i \in m + 1 .. n : s[i] \in S
    BY <2>1
  <2>3. /\ b \in Seq(S)
        /\ Len(b) = IF m + 1 <= n THEN n - (m + 1) + 1 ELSE 0
        /\ \A i \in 1 .. n - (m + 1) + 1 : b[i] = s[m + 1 + i - 1]
    BY <2>1, <2>2, SubSeqProperties
  <2>4. Len(b) = n - m /\ n - (m + 1) + 1 = n - m
    BY <2>1, <2>3
  <2>5. \A i \in 1 .. n - m : m + 1 + i - 1 = m + i
    BY <2>1
  <2> HIDE DEF b
  <2> QED BY <2>3, <2>4, <2>5
<1>3. c \in Seq(S) /\ Len(c) = n /\ \A i \in 1 .. n : c[i] = s[i]
  BY SubSeqProperties
<1> HIDE DEF a, b, c
<1>4. /\ a \o b \in Seq(S) /\ Len(a \o b) = n
      /\ \A i \in 1 .. n : (a \o b)[i] = IF i <= m THEN a[i] ELSE b[i - m]
  BY <1>1, <1>2
<1>5. \A i \in 1 .. n : (a \o b)[i] = c[i]
  <2> SUFFICES ASSUME NEW i \in 1 .. n PROVE (a \o b)[i] = c[i]
    OBVIOUS
  <2>0. i \in Int /\ m \in Int /\ n \in Int /\ i <= n
    OBVIOUS
  <2>1. CASE i <= m
    BY <1>1, <1>3, <1>4, <2>1
  <2>2. CASE i > m
    <3>1. i - m \in 1 .. n - m /\ m + (i - m) = i /\ ~(i <= m)
      BY <2>0, <2>2
    <3>2. (a \o b)[i] = b[i - m]
      BY <1>4, <3>1
    <3>3. b[i - m] = s[m + (i - m)]
      BY <1>2, <3>1
    <3> QED BY <1>3, <3>1, <3>2, <3>3
  <2>3. i <= m \/ i > m
    BY <2>0
  <2> QED BY <2>1, <2>2, <2>3, Zenon
<1>6. a \o b = c
  BY <1>3, <1>4, <1>5, SeqEqual
<1> QED BY <1>6 DEF a, b, c

LEMMA PrefixAppends ==
  ASSUME NEW S, NEW s \in Seq(S), NEW m \in 0 .. Len(s), m < Len(s)
  PROVE  Append(SubSeq(s, 1, m), s[m + 1]) = SubSeq(s, 1, m + 1)
<1> DEFINE a == SubSeq(s, 1, m)
           b == Append(a, s[m + 1])
           c == SubSeq(s, 1, m + 1)
<1>1. m \in Nat /\ Len(s) \in Nat /\ m + 1 \in 1 .. Len(s) /\ s[m + 1] \in S
  OBVIOUS
<1>2. a \in Seq(S) /\ Len(a) = m /\ \A i \in 1 .. m : a[i] = s[i]
  BY SubSeqProperties
<1>3. c \in Seq(S) /\ Len(c) = m + 1 /\ \A i \in 1 .. m + 1 : c[i] = s[i]
  <2>1. \A i \in 1 .. m + 1 : s[i] \in S
    BY <1>1
  <2>2. /\ c \in Seq(S)
        /\ Len(c) = IF 1 <= m + 1 THEN m + 1 - 1 + 1 ELSE 0
        /\ \A i \in 1 .. m + 1 - 1 + 1 : c[i] = s[1 + i - 1]
    BY <1>1, <2>1, SubSeqProperties
  <2>3. m + 1 - 1 + 1 = m + 1 /\ \A i \in 1 .. m + 1 : 1 + i - 1 = i
    BY <1>1
  <2> HIDE DEF c
  <2> QED BY <1>1, <2>2, <2>3
<1> HIDE DEF a, c
<1>4. b \in Seq(S) /\ Len(b) = m + 1 /\ (\A i \in 1 .. m : b[i] = a[i]) /\ b[m + 1] = s[m + 1]
  BY <1>1, <1>2, AppendProperties
<1> HIDE DEF b
<1>5. \A i \in 1 .. m + 1 : b[i] = c[i]
  <2>1. \A i \in 1 .. m + 1 : i \in 1 .. m \/ i = m + 1
    BY <1>1
  <2> QED BY <1>2, <1>3, <1>4, <2>1
<1>6. b = c
  BY <1>3, <1>4, <1>5, SeqEqual
<1> QED BY <1>6 DEF a, b, c

\* What has been copied is the beginning of the file, all of it unless a
\* failure is told or overlooked.
CopyTruth ==
  /\ Looks
  /\ Len(proc.local) \in 0 .. Len(Input) /\ proc.local = Prefix(Len(proc.local))
  /\ proc.pc \in {"close", "return"} => proc.res # 0 \/ proc.ignored = TRUE \/ proc.local = Input

LEMMA CopyTrue ==
  ASSUME IsCall, IsFiles, CopyTruth, CopyOut
  PROVE  Same /\ IsFiles' /\ CopyTruth'
<1> DEFINE m == Len(proc.local)
           n == Least(m + Chunk, Len(Input))
           chunk == SubSeq(Input, m + 1, n)
<1>1. Input \in Seq(Nat) /\ Len(Input) \in Nat /\ Chunk \in Nat \ {0} /\ m \in 0 .. Len(Input)
  BY FilesAssumption DEF CopyTruth
<1>2. n \in m .. Len(Input) /\ (m < Len(Input) => m < n)
  BY <1>1 DEF Least
<1>3. proc.local \o chunk = Prefix(n) /\ Len(Prefix(n)) = n
  <2>1. Prefix(m) \o chunk = Prefix(n)
    BY <1>1, <1>2, PrefixGrows DEF Prefix
  <2>2. n \in 0 .. Len(Input)
    BY <1>1, <1>2
  <2>3. Len(Prefix(n)) = n
    BY <1>1, <2>2, SubSeqProperties DEF Prefix
  <2> QED BY <2>1, <2>3 DEF CopyTruth
<1>4. chunk = <<>> => proc.local = Input
  <2> SUFFICES ASSUME chunk = <<>> PROVE proc.local = Input
    OBVIOUS
  <2>1. CASE m < Len(Input)
    <3>1. m \in Nat /\ n \in Nat /\ m + 1 <= n /\ n <= Len(Input)
      BY <1>1, <1>2, <2>1
    <3>2. \A i \in m + 1 .. n : Input[i] \in Nat
      BY <1>1, <3>1
    <3>3. Len(chunk) = IF m + 1 <= n THEN n - (m + 1) + 1 ELSE 0
      BY <1>1, <3>1, <3>2, SubSeqProperties
    <3> HIDE DEF chunk, n
    <3>4. Len(chunk) > 0
      BY <3>1, <3>3
    <3>5. Len(chunk) = 0
      OBVIOUS
    <3> QED BY <3>4, <3>5
  <2>2. CASE ~(m < Len(Input))
    <3>1. m = Len(Input)
      BY <1>1, <2>2
    <3> QED BY <1>1, <3>1, PrefixEnds DEF CopyTruth, Prefix
  <2> QED BY <2>1, <2>2
<1> HIDE DEF n, chunk
<1>5. \/ At("begin") /\ (Moved("copy") \/ Broken("return"))
      \/ At("copy") /\ (Added(chunk, "copy") \/ Broken("close") \/ Unseen("close"))
      \/ At("copy") /\ chunk = <<>> /\ Moved("close")
      \/ At("close") /\ Moved("return")
  BY Moves, Opens, Adds, Breaks, Overlooks, Zenon DEF CopyOut, n, chunk
<1>6. Same /\ kernel' = kernel
  BY <1>5 DEF Moved, Broken, Added, Unseen
<1>7. IsFiles'
  BY <1>6 DEF IsFiles
<1>8. /\ proc'.before = proc.before
      /\ proc'.res = 0 \/ Blamed' \/ (proc'.res = proc.res /\ Blamed' = Blamed)
  BY <1>5, <1>6 DEF Moved, Broken, Added, Unseen, Same, Blamed
<1>9. \/ proc'.local = proc.local /\ proc'.pc \notin {"close", "return"}
      \/ proc'.local = Prefix(n) /\ proc'.pc = "copy"
      \/ proc'.local = proc.local /\ proc'.res # 0
      \/ proc'.local = proc.local /\ proc'.ignored = TRUE
      \/ proc'.local = proc.local /\ proc.local = Input
      \/ /\ proc.pc = "close" /\ proc'.local = proc.local /\ proc'.res = proc.res
         /\ proc'.ignored = proc.ignored
  BY <1>3, <1>4, <1>5, FailedIs DEF Moved, Broken, Added, Unseen, At
<1>10. n \in 0 .. Len(Input)
  BY <1>1, <1>2
<1>11. CopyTruth'
  BY <1>3, <1>6, <1>8, <1>9, <1>10 DEF CopyTruth, Looks
<1> QED BY <1>6, <1>7, <1>11

\* A list is read in order. A function that begins with a result other than
\* zero returns it when there is no entry.
ListTruth(start) ==
  /\ kernel = proc.before
  /\ Len(proc.local) \in 0 .. Len(Entries) /\ proc.local = SubSeq(Entries, 1, Len(proc.local))
  /\ proc.pc = "begin" => proc.local = <<>>
  /\ proc.pc = "next" => proc.res = 0 \/ (proc.res = start /\ proc.local = <<>>)
  /\ proc.pc \in {"close", "return"} =>
       /\ proc.res # 0 \/ proc.ignored = TRUE \/ proc.local = Entries
       /\ proc.res = 0 \/ Blamed \/ (start # 0 /\ Entries = <<>>)

ListStep(start) ==
  \/ At("begin") /\ (Resulted(start, "next") \/ Broken("return"))
  \/ At("next") /\ Len(proc.local) < Len(Entries) /\ (Found(Entry, "next") \/ Unseen("close") \/ Broken("close"))
  \/ At("next") /\ Len(proc.local) = Len(Entries) /\ Moved("close")
  \/ At("close") /\ Moved("return")

LEMMA ListsStep ==
  ASSUME IsCall
  PROVE  /\ ls \/ dmesg => ListStep(0)
         /\ ll \/ ml_print_file_systems_space_usage => ListStep(Failed)
<1>1. \A what, start : /\ proc' = [proc EXCEPT !.pc = "next", !.held = @ \cup {what}, !.res = start]
                       /\ UNCHANGED kernel
                       => Resulted(start, "next")
  BY DEF IsCall, Same, Resulted
<1>2. Each => Found(Entry, "next") \/ Unseen("close")
  BY ReadsFind, Overlooks, Zenon DEF Each
<1>3. ls => ListStep(0)
  BY <1>1, <1>2, Moves, Breaks, Zenon DEF ls, Listing, ListStep
<1>4. dmesg => ListStep(0)
  BY <1>1, <1>2, Moves, Breaks, Zenon DEF dmesg, Listing, ListStep
<1>5. ll => ListStep(Failed)
  BY <1>1, <1>2, Moves, Breaks, Zenon DEF ll, Listing, ListStep
<1>6. ml_print_file_systems_space_usage => ListStep(Failed)
  BY <1>1, <1>2, Moves, Breaks, Zenon DEF ml_print_file_systems_space_usage, Listing, ListStep
<1> QED BY <1>3, <1>4, <1>5, <1>6

LEMMA ListTrue ==
  ASSUME NEW start \in {0, Failed}, IsFiles, ListTruth(start), ListStep(start)
  PROVE  Same /\ IsFiles' /\ ListTruth(start)'
<1> DEFINE n == Len(proc.local)
           next == Append(proc.local, Entry)
<1>1. Entries \in Seq(STRING) /\ Len(Entries) \in Nat /\ n \in 0 .. Len(Entries)
  BY FilesAssumption DEF ListTruth
<1>2. n < Len(Entries) => next = SubSeq(Entries, 1, n + 1) /\ Len(next) = n + 1 /\ n + 1 \in 0 .. Len(Entries)
  <2> SUFFICES ASSUME n < Len(Entries)
               PROVE  next = SubSeq(Entries, 1, n + 1) /\ Len(next) = n + 1 /\ n + 1 \in 0 .. Len(Entries)
    OBVIOUS
  <2>1. Append(SubSeq(Entries, 1, n), Entries[n + 1]) = SubSeq(Entries, 1, n + 1)
    BY <1>1, PrefixAppends
  <2>2. next = SubSeq(Entries, 1, n + 1)
    BY <2>1 DEF ListTruth, Entry
  <2>3. n + 1 \in 0 .. Len(Entries)
    BY <1>1
  <2>4. Len(SubSeq(Entries, 1, n + 1)) = n + 1
    BY <1>1, <2>3, SubSeqProperties
  <2> HIDE DEF next
  <2> QED BY <2>2, <2>3, <2>4
<1>3. n = Len(Entries) => proc.local = Entries
  BY <1>1, PrefixEnds DEF ListTruth
<1> HIDE DEF next
<1>4. Same /\ kernel' = kernel
  BY DEF ListStep, Moved, Broken, Found, Unseen, Resulted
<1>5. IsFiles'
  BY <1>4 DEF IsFiles
<1>6. proc'.before = proc.before
  BY <1>4 DEF Same
<1>7. \/ /\ proc.pc = "begin" /\ proc'.pc = "next" /\ proc'.local = proc.local
         /\ proc'.res = start
      \/ proc.pc = "begin" /\ proc'.pc = "return" /\ proc'.local = proc.local /\ proc'.res # 0 /\ Blamed'
      \/ /\ proc.pc = "next" /\ n < Len(Entries) /\ proc'.pc = "next" /\ proc'.local = next
         /\ proc'.res = 0
      \/ /\ proc.pc = "next" /\ proc'.pc = "close" /\ proc'.local = proc.local
         /\ proc'.ignored = TRUE /\ Blamed'
      \/ proc.pc = "next" /\ proc'.pc = "close" /\ proc'.local = proc.local /\ proc'.res # 0 /\ Blamed'
      \/ /\ proc.pc = "next" /\ proc'.pc = "close" /\ proc'.local = proc.local /\ proc.local = Entries
         /\ proc'.res = proc.res
      \/ /\ proc.pc = "close" /\ proc'.pc = "return" /\ proc'.local = proc.local /\ proc'.res = proc.res
         /\ proc'.ignored = proc.ignored /\ Blamed' = Blamed
  BY <1>3, FailedIs DEF ListStep, Moved, Broken, Found, Unseen, Resulted, At, Blamed, next
<1>8. ListTruth(start)'
  BY <1>1, <1>2, <1>4, <1>6, <1>7, FailedIs DEF ListTruth
<1> QED BY <1>4, <1>5, <1>8

\* Every address of the bus is asked, and answers or not.
ScanTruth ==
  /\ Looks
  /\ proc.local \in Seq({Entries[i] : i \in 1 .. Len(Entries)} \cup {"nothing"})
  /\ Len(proc.local) <= Len(Entries)
  /\ \A i \in 1 .. Len(proc.local) : proc.local[i] \in {Entries[i], "nothing"}
  /\ proc.pc \in {"close", "return"} => proc.res # 0 \/ Len(proc.local) = Len(Entries)

LEMMA ScanTrue ==
  ASSUME IsCall, IsFiles, ScanTruth, i2c_scan
  PROVE  Same /\ IsFiles' /\ ScanTruth'
<1> DEFINE n == Len(proc.local)
           answers == {Entries[i] : i \in 1 .. Len(Entries)} \cup {"nothing"}
<1>1. n \in Nat /\ Len(Entries) \in Nat /\ n <= Len(Entries) /\ proc.local \in Seq(answers)
  BY FilesAssumption DEF ScanTruth
<1>2. \/ At("begin") /\ (Resulted(0, "next") \/ Broken("return"))
      \/ At("next") /\ n < Len(Entries) /\ (Found(Entry, "next") \/ Found("nothing", "next"))
      \/ At("next") /\ n = Len(Entries) /\ Moved("close")
      \/ At("close") /\ Moved("return")
  <2>1. \A what, start : /\ proc' = [proc EXCEPT !.pc = "next", !.held = @ \cup {what}, !.res = start]
                         /\ UNCHANGED kernel
                         => Resulted(start, "next")
    BY DEF IsCall, Same, Resulted
  <2> QED BY <2>1, ReadsFind, Moves, Breaks, Zenon DEF i2c_scan, Listing
<1>3. Same /\ kernel' = kernel
  BY <1>2 DEF Moved, Broken, Found, Resulted
<1>4. IsFiles'
  BY <1>3 DEF IsFiles
<1>5. /\ proc'.before = proc.before
      /\ proc'.res = 0 \/ Blamed' \/ (proc'.res = proc.res /\ Blamed' = Blamed)
  BY <1>2, <1>3 DEF Moved, Broken, Found, Resulted, Same, Blamed
<1>6. Looks'
  BY <1>3, <1>5 DEF ScanTruth, Looks
<1>7. CASE \E v : n < Len(Entries) /\ v \in {Entry, "nothing"} /\ Found(v, "next")
  <2>1. PICK v : n < Len(Entries) /\ v \in {Entry, "nothing"} /\ Found(v, "next")
    BY <1>7
  <2>2. n + 1 \in 1 .. Len(Entries) /\ v \in answers /\ v \in {Entries[n + 1], "nothing"}
    BY <1>1, <2>1 DEF Entry
  <2>3. proc'.local = Append(proc.local, v) /\ proc'.pc = "next"
    BY <2>1 DEF Found
  <2> HIDE DEF answers
  <2>4. /\ proc'.local \in Seq(answers) /\ Len(proc'.local) = n + 1
        /\ \A i \in 1 .. n : proc'.local[i] = proc.local[i]
        /\ proc'.local[n + 1] = v
    BY <1>1, <2>2, <2>3
  <2>5. \A i \in 1 .. n + 1 : i \in 1 .. n \/ i = n + 1
    BY <1>1
  <2>6. \A i \in 1 .. n + 1 : proc'.local[i] \in {Entries[i], "nothing"}
    BY <2>2, <2>4, <2>5 DEF ScanTruth
  <2>7. n + 1 <= Len(Entries)
    BY <1>1, <2>1
  <2> QED BY <1>3, <1>4, <1>6, <2>3, <2>4, <2>6, <2>7 DEF ScanTruth, answers
<1>8. CASE ~\E v : n < Len(Entries) /\ v \in {Entry, "nothing"} /\ Found(v, "next")
  <2>1. /\ proc'.local = proc.local
        /\ \/ proc'.pc = "next"
           \/ proc'.res # 0
           \/ Len(proc.local) = Len(Entries)
           \/ proc.pc = "close" /\ proc'.res = proc.res
    BY <1>2, <1>8, FailedIs DEF Moved, Broken, Resulted, At
  <2> QED BY <1>3, <1>4, <1>6, <2>1 DEF ScanTruth
<1> QED BY <1>7, <1>8

TopTruth == Looks /\ (proc.pc = "return" => proc.res # 0 \/ proc.local[1] = proc.local[2])

LEMMA TopTrue ==
  ASSUME IsCall, IsFiles, TopTruth, ml_get_cpus_stats
  PROVE  Same /\ IsFiles' /\ TopTruth'
<1>1. \A a, b, c, length, ok :
        read_cpus_stats(a, b, c, length, ok) =>
          \/ At(a) /\ (Moved(b) \/ Broken("return"))
          \/ At(b) /\ (Broken(c) \/ \E n : Found(n, c))
          \/ At(c) /\ Moved(IF proc.res = 0 THEN ok ELSE "return")
  BY Moves, Opens, Breaks, ReadsFind, Zenon DEF read_cpus_stats
<1>2. \/ At("begin") /\ (Moved("read1") \/ Broken("return"))
      \/ At("read1") /\ (Broken("close1") \/ \E n : Found(n, "close1"))
      \/ At("close1") /\ Moved(IF proc.res = 0 THEN "again" ELSE "return")
      \/ At("again") /\ (Moved("read2") \/ Broken("return"))
      \/ At("read2") /\ (Broken("close2") \/ \E n : Found(n, "close2"))
      \/ At("close2") /\ Moved(IF proc.res = 0 THEN "compare" ELSE "return")
      \/ At("compare") /\ proc.local[1] = proc.local[2] /\ Moved("return")
      \/ At("compare") /\ Broken("return")
  BY <1>1, Moves, Breaks, Zenon DEF ml_get_cpus_stats
<1>3. Same /\ kernel' = kernel
  BY <1>2 DEF Moved, Broken, Found
<1>4. IsFiles'
  BY <1>3 DEF IsFiles
<1>5. /\ proc'.before = proc.before
      /\ proc'.res = 0 \/ Blamed' \/ (proc'.res = proc.res /\ Blamed' = Blamed)
  BY <1>2, <1>3 DEF Moved, Broken, Found, Same, Blamed
<1>6. proc'.pc = "return" => proc'.res # 0 \/ proc'.local[1] = proc'.local[2]
  BY <1>2, FailedIs DEF Moved, Broken, Found, At
<1> QED BY <1>3, <1>4, <1>5, <1>6 DEF TopTruth, Looks

LEMMA FindTrue ==
  ASSUME IsCall, IsFiles, Looks, find \/ dump
  PROVE  Same /\ IsFiles' /\ Looks'
<1>1. \A pc : IsCall /\ Refuses(pc) =>
        Same /\ kernel' = kernel /\ proc'.pc = pc /\ proc'.usage = TRUE
  BY DEF Refuses, IsCall, Same
<1>2. \/ \E pc : Moved(pc) \/ Broken(pc) \/ Worked(kernel, pc)
      \/ Same /\ kernel' = kernel /\ proc'.usage = TRUE
  <2>1. CASE find
    BY <1>1, <2>1, Moves, Works, Zenon DEF find
  <2>2. CASE dump
    BY <2>2, Moves, Opens, Works, Zenon DEF dump
  <2> QED BY <2>1, <2>2
<1>3. Same /\ kernel' = kernel /\ (proc'.res = 0 \/ Blamed' \/ (proc'.res = proc.res /\ Blamed' = Blamed))
  BY <1>2 DEF Moved, Broken, Worked, Blamed
<1> QED BY <1>3 DEF IsFiles, Looks, Same

\* Arguments that are refused.
UsageTruth == Looks /\ (proc.pc = "return" => proc.res # 0)

LEMMA UsageTrue ==
  ASSUME IsCall, UsageTruth, UsageStep
  PROVE  Same /\ kernel' = kernel /\ UsageTruth'
<1>1. Same /\ kernel' = kernel /\ proc'.usage = TRUE /\ proc'.res = Failed
  BY DEF UsageStep, Refuses, IsCall, Same
<1> QED BY <1>1, FailedIs DEF UsageTruth, Looks, Blamed, Same

\* The first of the arguments are gone.
Gone(n) == [proc.before EXCEPT !.objects = @ \ {File(proc.arg[i]) : i \in 1 .. n}]
WasFiles == proc.before = [out |-> proc.before.out, objects |-> proc.before.objects]

RmTruth ==
  /\ WasFiles
  /\ proc.local \in Seq(Names) /\ Len(proc.local) <= Len(proc.arg)
  /\ kernel = Gone(Len(proc.local))
  /\ proc.pc = "begin" => proc.res = 0
  /\ proc.pc = "return" =>
       \/ proc.res = 0 /\ Len(proc.local) = Len(proc.arg)
       \/ proc.res # 0 /\ Len(proc.local) < Len(proc.arg) /\ Blamed

LEMMA RmTrue ==
  ASSUME IsCall, IsFiles, proc.arg \in Seq(Names), RmTruth, rm
  PROVE  Same /\ IsFiles' /\ RmTruth'
<1> DEFINE n == Len(proc.local)
           path == proc.arg[n + 1]
<1>1. n \in Nat /\ Len(proc.arg) \in Nat /\ n <= Len(proc.arg)
  BY DEF RmTruth
<1>2. CASE /\ At("begin") /\ n < Len(proc.arg)
           /\ kernel' = [kernel EXCEPT !.objects = @ \ {File(path)}]
           /\ proc' = [proc EXCEPT !.local = Append(@, path)]
  <2>1. Same /\ proc'.pc = "begin" /\ proc'.res = proc.res /\ proc'.local = Append(proc.local, path)
    BY <1>2 DEF Same, IsCall, At
  <2>2. IsFiles'
    BY <1>2 DEF IsFiles
  <2>3. path \in Names /\ n + 1 <= Len(proc.arg)
    BY <1>1, <1>2
  <2>4. proc'.local \in Seq(Names) /\ Len(proc'.local) = n + 1
    BY <2>1, <2>3 DEF RmTruth
  <2>5. proc'.before = proc.before /\ proc'.arg = proc.arg
    BY <2>1 DEF Same
  <2>6. {File(proc.arg[i]) : i \in 1 .. n + 1} = {File(proc.arg[i]) : i \in 1 .. n} \cup {File(path)}
    <3>1. \A i : i \in 1 .. n + 1 <=> i \in 1 .. n \/ i = n + 1
      BY <1>1
    <3> QED BY <3>1
  <2>7. kernel' = Gone(n + 1)
    <3> DEFINE A == {File(proc.arg[i]) : i \in 1 .. n}
               B == {File(proc.arg[i]) : i \in 1 .. n + 1}
               f == File(path)
    <3>1. kernel = [proc.before EXCEPT !.objects = @ \ A]
      BY DEF RmTruth, Gone
    <3>2. kernel' = [kernel EXCEPT !.objects = @ \ {f}]
      BY <1>2
    <3>3. B = A \cup {f}
      BY <2>6
    <3> HIDE DEF A, B, f
    <3>4. (proc.before.objects \ A) \ {f} = proc.before.objects \ B
      BY <3>3
    <3>5. kernel' = [proc.before EXCEPT !.objects = @ \ B]
      BY <3>1, <3>2, <3>4 DEF RmTruth, WasFiles
    <3> QED BY <3>5 DEF Gone, B
  <2>9. kernel' = Gone(Len(proc.local))'
    BY <2>4, <2>5, <2>7 DEF Gone
  <2> QED BY <1>2, <2>1, <2>2, <2>3, <2>4, <2>5, <2>9 DEF RmTruth, WasFiles, At
<1>3. CASE At("begin") /\ n < Len(proc.arg) /\ Fails("return")
  <2>1. Broken("return")
    BY <1>3, Breaks
  <2>2. proc'.before = proc.before /\ proc'.arg = proc.arg /\ kernel' = kernel /\ proc'.local = proc.local
    BY <2>1 DEF Broken, Same
  <2>3. kernel' = Gone(Len(proc.local))'
    BY <2>2 DEF RmTruth, Gone
  <2> QED BY <1>3, <2>1, <2>2, <2>3, FailedIs DEF Broken, RmTruth, WasFiles, IsFiles, Blamed
<1>4. CASE At("begin") /\ n = Len(proc.arg) /\ Goto("return")
  <2>1. Moved("return")
    BY <1>4, Moves
  <2>2. proc'.before = proc.before /\ proc'.arg = proc.arg /\ kernel' = kernel /\ proc'.local = proc.local
    BY <2>1 DEF Moved, Same
  <2>3. kernel' = Gone(Len(proc.local))'
    BY <2>2 DEF RmTruth, Gone
  <2> QED BY <1>4, <2>1, <2>2, <2>3 DEF Moved, RmTruth, WasFiles, IsFiles, At
<1> QED BY <1>2, <1>3, <1>4 DEF rm

\* What ml_dd() has copied so far.
Copied(n) == [proc.before EXCEPT !.out = Prefix(n)]
Bound == Least(proc.arg.total_size, Len(Input))
Part == \E n \in 0 .. Bound : kernel = Copied(n)
Step == Least(proc.arg.chunk_size, proc.arg.total_size - Len(kernel.out))

DdTruth ==
  /\ WasFiles
  /\ proc.pc \in {"begin", "open"} => kernel = proc.before
  /\ proc.pc \in {"malloc", "chunk", "read", "write"} => Part
  /\ proc.pc \in {"read", "write"} => Len(kernel.out) < proc.arg.total_size
  /\ proc.pc = "write" => Len(kernel.out) + Step <= Len(Input)
  /\ proc.pc \in {"free", "out2", "out1", "return"} =>
       \/ proc.res = 0 /\ kernel = Copied(proc.arg.total_size)
       \/ /\ proc.res # 0 /\ (kernel = proc.before \/ Part)
          /\ Blamed \/ proc.arg.total_size > Len(Input)

LEMMA CopiedIs ==
  ASSUME WasFiles, NEW n \in 0 .. Len(Input)
  PROVE  Copied(n).out = Prefix(n) /\ Len(Prefix(n)) = n
<1>1. Input \in Seq(Nat) /\ Len(Input) \in Nat
  BY FilesAssumption
<1>2. Len(Prefix(n)) = n
  BY <1>1, SubSeqProperties DEF Prefix
<1>3. Copied(n).out = Prefix(n)
  BY DEF Copied, WasFiles
<1> QED BY <1>2, <1>3

\* A write that wrote less than the chunk.
Parted(n) ==
  /\ Same /\ kernel' = [kernel EXCEPT !.out = Prefix(n)]
  /\ proc'.pc = "free" /\ proc'.res = Failed /\ proc'.fault = TRUE

LEMMA DdTrue ==
  ASSUME IsCall, IsFiles, proc.arg.total_size \in Nat, proc.arg.chunk_size \in Nat \ {0}, DdTruth, ml_dd
  PROVE  Same /\ IsFiles' /\ DdTruth'
<1> DEFINE total == proc.arg.total_size
           done == Len(kernel.out)
           size == Least(proc.arg.chunk_size, total - done)
<1>1. /\ total \in Nat /\ Len(Input) \in Nat /\ Input \in Seq(Nat)
      /\ Bound \in Nat /\ Bound <= total /\ Bound <= Len(Input)
  BY FilesAssumption DEF Bound, Least
<1>2. Part => done \in 0 .. Bound /\ kernel = Copied(done)
  <2> SUFFICES ASSUME NEW n \in 0 .. Bound, kernel = Copied(n)
               PROVE  done \in 0 .. Bound /\ kernel = Copied(done)
    BY DEF Part
  <2>1. n \in 0 .. Len(Input)
    BY <1>1
  <2>2. done = n
    BY <2>1, CopiedIs DEF DdTruth
  <2> QED BY <2>2
<1>3. \A k, n : kernel = Copied(n) => [kernel EXCEPT !.out = Prefix(k)] = Copied(k)
  BY DEF Copied, DdTruth, WasFiles
<1>4. kernel = proc.before => [kernel EXCEPT !.out = <<>>] = Copied(0)
  <2>1. Prefix(0) = <<>>
    BY <1>1, SubSeqEmpty DEF Prefix
  <2> QED BY <2>1 DEF Copied
<1>5. Step = size
  BY DEF Step
<1>6. \/ At("begin") /\ (Moved("open") \/ Broken("return"))
      \/ At("open") /\ (Emptied("malloc") \/ Broken("out1"))
      \/ At("malloc") /\ (Moved("chunk") \/ Broken("out2"))
      \/ At("chunk") /\ total - done > 0 /\ Moved("read")
      \/ At("chunk") /\ total - done = 0 /\ Resulted(0, "free")
      \/ At("read") /\ done + size <= Len(Input) /\ Moved("write")
      \/ At("read") /\ Broken("free")
      \/ At("read") /\ done + size > Len(Input) /\ Resulted(Failed, "free")
      \/ At("write") /\ Worked([kernel EXCEPT !.out = Prefix(done + size)], "chunk")
      \/ At("write") /\ Broken("free")
      \/ At("write") /\ \E part \in 0 .. size - 1 : Parted(done + part)
      \/ At("free") /\ Moved("out2")
      \/ At("out2") /\ Moved("out1")
      \/ At("out1") /\ Moved("return")
  <2>1. /\ proc' = [proc EXCEPT !.pc = "malloc", !.held = @ \cup {"fdout"}]
        /\ kernel' = [kernel EXCEPT !.out = <<>>]
        => Emptied("malloc")
    BY DEF IsCall, Same, Emptied
  <2>2. \A part :
          /\ kernel' = [kernel EXCEPT !.out = Prefix(done + part)]
          /\ proc' = [proc EXCEPT !.pc = "free", !.res = Failed, !.fault = TRUE]
          => Parted(done + part)
    BY DEF IsCall, Same, Parted
  <2> HIDE DEF size
  <2>3. dd_copy_chunk(done, size) =>
          \/ At("read") /\ done + size <= Len(Input) /\ Moved("write")
          \/ At("read") /\ Broken("free")
          \/ At("read") /\ done + size > Len(Input) /\ Resulted(Failed, "free")
          \/ At("write") /\ Worked([kernel EXCEPT !.out = Prefix(done + size)], "chunk")
          \/ At("write") /\ Broken("free")
          \/ At("write") /\ \E part \in 0 .. size - 1 : Parted(done + part)
    BY <2>2, Moves, Breaks, Works, Results, Zenon DEF dd_copy_chunk
  <2>4. \/ At("begin") /\ Acquire("fdin", "open", "return")
        \/ /\ At("open")
           /\ \/ /\ proc' = [proc EXCEPT !.pc = "malloc", !.held = @ \cup {"fdout"}]
                 /\ kernel' = [kernel EXCEPT !.out = <<>>]
              \/ Fails("out1")
        \/ At("malloc") /\ Acquire("buf_p", "chunk", "out2")
        \/ At("chunk") /\ total - done > 0 /\ Goto("read")
        \/ At("chunk") /\ total - done = 0 /\ Result(0, "free")
        \/ dd_copy_chunk(done, size)
        \/ At("free") /\ Release("buf_p", "out2")
        \/ At("out2") /\ Release("fdout", "out1")
        \/ At("out1") /\ Release("fdin", "return")
    BY Zenon DEF ml_dd, size
  <2> QED BY <2>1, <2>3, <2>4, Moves, Breaks, Opens, Results, Zenon
<1>7. Same
  BY <1>6 DEF Moved, Broken, Worked, Emptied, Resulted, Parted
<1>8. IsFiles'
  BY <1>6 DEF Moved, Broken, Worked, Emptied, Resulted, Parted, IsFiles
<1>9. /\ proc'.before = proc.before /\ proc'.arg = proc.arg /\ WasFiles' /\ Bound' = Bound
      /\ \A n : Copied(n)' = Copied(n)
  BY <1>7 DEF Same, WasFiles, DdTruth, Bound, Copied
<1>10. \A n \in 0 .. Bound : kernel' = Copied(n) => Part'
  BY <1>9 DEF Part
<1>11. kernel' = kernel => Step' = Step /\ Part' = Part
  BY <1>9 DEF Part, Step
<1>12. CASE proc.pc \in {"begin", "open", "malloc"}
  <2>1. \/ proc.pc = "begin" /\ proc'.pc = "open" /\ kernel' = kernel
        \/ proc.pc = "open" /\ proc'.pc = "malloc" /\ kernel' = [kernel EXCEPT !.out = <<>>]
        \/ proc.pc = "malloc" /\ proc'.pc = "chunk" /\ kernel' = kernel
        \/ /\ proc.pc \in {"begin", "open", "malloc"} /\ proc'.pc \in {"out2", "out1", "return"}
           /\ kernel' = kernel /\ proc'.res # 0 /\ Blamed'
    BY <1>6, <1>12, FailedIs DEF Moved, Broken, Worked, Emptied, Resulted, Parted, At, Blamed
  <2>2. proc.pc = "open" /\ proc'.pc = "malloc" => Part'
    <3>1. 0 \in 0 .. Bound
      BY <1>1
    <3>2. proc.pc = "open" => kernel = proc.before
      BY DEF DdTruth
    <3>3. proc.pc = "open" /\ proc'.pc = "malloc" => kernel' = Copied(0)
      BY <1>4, <2>1, <3>2
    <3> QED BY <1>10, <3>1, <3>3
  <2> QED BY <1>7, <1>8, <1>9, <1>11, <2>1, <2>2 DEF DdTruth
<1>13. CASE proc.pc = "chunk"
  <2>1. \/ total - done > 0 /\ proc'.pc = "read" /\ kernel' = kernel
        \/ total - done = 0 /\ proc'.pc = "free" /\ kernel' = kernel /\ proc'.res = 0
    BY <1>6, <1>13 DEF Moved, Broken, Worked, Emptied, Resulted, Parted, At
  <2>2. Part /\ done \in 0 .. Bound /\ kernel = Copied(done)
    BY <1>2, <1>13 DEF DdTruth
  <2>3. proc'.pc = "read" => Len(kernel'.out) < total
    BY <1>1, <2>1, <2>2
  <2>4. proc'.pc = "free" => kernel' = Copied(total)
    BY <1>1, <2>1, <2>2
  <2>5. Part'
    BY <1>11, <2>1, <2>2
  <2> QED BY <1>7, <1>8, <1>9, <2>1, <2>3, <2>4, <2>5 DEF DdTruth
<1>14. CASE proc.pc = "read"
  <2>1. \/ done + size <= Len(Input) /\ proc'.pc = "write" /\ kernel' = kernel
        \/ done + size > Len(Input) /\ proc'.pc = "free" /\ kernel' = kernel /\ proc'.res # 0
        \/ proc'.pc = "free" /\ kernel' = kernel /\ proc'.res # 0 /\ Blamed'
    <3> HIDE DEF size
    <3> QED BY <1>6, <1>14, FailedIs DEF Moved, Broken, Worked, Emptied, Resulted, Parted, At, Blamed
  <2>2. Part /\ done \in 0 .. Bound /\ done < total
    BY <1>2, <1>14 DEF DdTruth
  <2>3. size \in Nat /\ done + size <= total
    BY <1>1, <2>2 DEF Least
  <2>4. done + size > Len(Input) => total > Len(Input)
    <3> HIDE DEF size
    <3> QED BY <1>1, <2>2, <2>3
  <2>5. Part' /\ Step' = size /\ Len(kernel'.out) = done
    BY <1>5, <1>11, <2>1, <2>2
  <2> HIDE DEF size
  <2> QED BY <1>7, <1>8, <1>9, <2>1, <2>2, <2>4, <2>5 DEF DdTruth
<1>15. CASE proc.pc = "write"
  <2>1. \/ proc'.pc = "chunk" /\ kernel' = [kernel EXCEPT !.out = Prefix(done + size)]
        \/ proc'.pc = "free" /\ kernel' = kernel /\ proc'.res # 0 /\ Blamed'
        \/ /\ proc'.pc = "free" /\ proc'.res # 0 /\ Blamed'
           /\ \E part \in 0 .. size - 1 : kernel' = [kernel EXCEPT !.out = Prefix(done + part)]
    <3> HIDE DEF size
    <3> QED BY <1>6, <1>15, FailedIs DEF Moved, Broken, Worked, Emptied, Resulted, Parted, At, Blamed
  <2>2. Part /\ done \in 0 .. Bound /\ kernel = Copied(done) /\ done < total /\ done + size <= Len(Input)
    BY <1>2, <1>5, <1>15 DEF DdTruth
  <2>3. size \in Nat /\ done + size <= total
    BY <1>1, <2>2 DEF Least
  <2> HIDE DEF size
  <2>4. \A part \in 0 .. size : done + part \in 0 .. Bound
    BY <1>1, <2>2, <2>3 DEF Bound, Least
  <2>5. \A part \in 0 .. size : kernel' = [kernel EXCEPT !.out = Prefix(done + part)] => Part'
    BY <1>3, <1>10, <2>2, <2>4
  <2>6. size \in 0 .. size /\ \A part \in 0 .. size - 1 : part \in 0 .. size
    BY <2>3
  <2>7. Part'
    BY <1>11, <2>1, <2>2, <2>5, <2>6
  <2>8. /\ proc'.pc = "chunk" \/ (proc'.pc = "free" /\ proc'.res # 0 /\ Blamed')
    BY <2>1
  <2> QED BY <1>7, <1>8, <1>9, <2>7, <2>8 DEF DdTruth
<1>16. CASE proc.pc \in {"free", "out2", "out1"}
  <2>1. /\ proc'.pc \in {"out2", "out1", "return"} /\ kernel' = kernel
        /\ proc'.res = proc.res /\ Blamed' = Blamed
    BY <1>6, <1>16 DEF Moved, Broken, Worked, Emptied, Resulted, Parted, At, Blamed
  <2> QED BY <1>7, <1>8, <1>9, <1>11, <1>16, <2>1 DEF DdTruth
<1>17. proc.pc \in {"begin", "open", "malloc", "chunk", "read", "write", "free", "out2", "out1"}
  BY <1>6 DEF At
<1> QED BY <1>12, <1>13, <1>14, <1>15, <1>16, <1>17

-----------------------------------------------------------------------------
(* The results of all calls.                                                 *)

UpTruth == FlagsTruth(UpKernel)
DownTruth == FlagsTruth(DownKernel)
LsTruth == ListTruth(0)
LlTruth == ListTruth(Failed)

NetworkTruth ==
  /\ proc.fn \in DOMAIN Requests => GetTruth
  /\ In("ml_network_interface_configure") => ConfigureTruth
  /\ In("ml_network_interface_up") => UpTruth
  /\ In("ml_network_interface_down") => DownTruth
  /\ In("ml_network_interface_add_route") => RouteTruth
  /\ In("ml_network_interface_link_configure") => LinkTruth
  /\ In("command_ethtool_print") => EthtoolTruth
  /\ In("ml_network_filter_set") => FilterSetTruth
  /\ In("filter_apply_all") => ApplyTruth
  /\ In("ml_network_filter_get") => FilterGetTruth
  /\ In("ml_network_filter_log") => Looks

ClockTruth ==
  /\ In("ml_ntp_client_sync") => NtpTruth
  /\ In("ml_rtc_get_time") => RtcGetTruth
  /\ In("ml_rtc_set_time") => RtcSetTruth
  /\ In("date") => DateTruth
  /\ In("date_set") => DateSetTruth

FilesTruth ==
  /\ In("ml_insert_module") => InsertTruth
  /\ In("make") => MakeTruth
  /\ In("unmake") => UnmakeTruth
  /\ In("rm") => RmTruth
  /\ In("ml_file_write_string") => WriteTruth
  /\ In("print") => PrintTruth
  /\ In("ml_file_read") => ReadTruth
  /\ In("ml_dd") => DdTruth
  /\ In("cat") => CopyTruth
  /\ In("ml_print_file") => CopyTruth
  /\ In("ls") => LsTruth
  /\ In("dmesg") => LsTruth
  /\ In("ll") => LlTruth
  /\ In("df") => LlTruth
  /\ In("i2c_scan") => ScanTruth
  /\ In("top") => TopTruth
  /\ In("find") => Looks
  /\ In("dump") => Looks

Truth ==
  /\ NetworkTruth
  /\ In("ml_device_mapper_verity_create") => MapperTruth
  /\ ClockTruth
  /\ FilesTruth
  /\ In("usage") => UsageTruth

\* What the kernel keeps for the functions of an area.
Shape ==
  /\ area \in {"interface", "link", "filter"} => IsNet
  /\ area = "mapper" => IsMapper
  /\ area = "files" => IsFiles

\* A call of an area, with the kernel of that area.
LEMMA StepsArea ==
  ASSUME Called
  PROVE  /\ NetworkStep => area \in {"interface", "link", "filter"}
         /\ MapperStep => area = "mapper"
         /\ ClockStep => area = "clock"
         /\ FilesStep => area = "files"
<1>1. area \in DOMAIN CallsOf /\ proc.fn \in CallsOf[area]
  BY DEF Called
<1>2. NetworkStep => area \in {"interface", "link", "filter"}
  BY <1>1, RequestsAre DEF NetworkStep, In, CallsOf
<1>3. MapperStep => area = "mapper"
  BY <1>1 DEF MapperStep, In, CallsOf
<1>4. ClockStep => area = "clock"
  BY <1>1 DEF ClockStep, In, CallsOf
<1>5. FilesStep => area = "files"
  BY <1>1 DEF FilesStep, In, CallsOf
<1> QED BY <1>2, <1>3, <1>4, <1>5

\* A step is a step of one function, and all that is said of the others does
\* not apply.
LEMMA NetworkStepTrue ==
  ASSUME Called, IsNet, Truth, NetworkStep
  PROVE  Same /\ IsNet' /\ Truth'
<1>1. CASE In("ml_network_interface_configure") /\ ml_network_interface_configure
  <2>1. Same /\ IsNet' /\ ConfigureTruth'
    BY <1>1, ConfigureTrue DEF Called, Truth, NetworkTruth
  <2> QED BY <1>1, <2>1, RequestsAre DEF Same, Truth, NetworkTruth, ClockTruth, FilesTruth, In
<1>2. CASE In("ml_network_interface_up") /\ ml_network_interface_up
  <2>1. Same /\ IsNet' /\ UpTruth'
    BY <1>2, UpTrue DEF Called, Truth, NetworkTruth, UpTruth
  <2> QED BY <1>2, <2>1, RequestsAre DEF Same, Truth, NetworkTruth, ClockTruth, FilesTruth, In
<1>3. CASE In("ml_network_interface_down") /\ ml_network_interface_down
  <2>1. Same /\ IsNet' /\ DownTruth'
    BY <1>3, DownTrue DEF Called, Truth, NetworkTruth, DownTruth
  <2> QED BY <1>3, <2>1, RequestsAre DEF Same, Truth, NetworkTruth, ClockTruth, FilesTruth, In
<1>4. CASE In("ml_network_interface_add_route") /\ ml_network_interface_add_route
  <2>1. Same /\ IsNet' /\ RouteTruth'
    BY <1>4, RouteTrue DEF Called, Truth, NetworkTruth
  <2> QED BY <1>4, <2>1, RequestsAre DEF Same, Truth, NetworkTruth, ClockTruth, FilesTruth, In
<1>5. CASE In("ml_network_interface_link_configure") /\ ml_network_interface_link_configure
  <2>1. Same /\ IsNet' /\ LinkTruth'
    BY <1>5, LinkTrue DEF Called, Truth, NetworkTruth
  <2> QED BY <1>5, <2>1, RequestsAre DEF Same, Truth, NetworkTruth, ClockTruth, FilesTruth, In
<1>6. CASE In("command_ethtool_print") /\ command_ethtool_print
  <2>1. Same /\ IsNet' /\ EthtoolTruth'
    BY <1>6, EthtoolTrue DEF Called, Truth, NetworkTruth
  <2> QED BY <1>6, <2>1, RequestsAre DEF Same, Truth, NetworkTruth, ClockTruth, FilesTruth, In
<1>7. CASE In("ml_network_filter_set") /\ ml_network_filter_set
  <2>1. Same /\ IsNet' /\ FilterSetTruth'
    BY <1>7, FilterSetTrue DEF Called, Truth, NetworkTruth
  <2> QED BY <1>7, <2>1, RequestsAre DEF Same, Truth, NetworkTruth, ClockTruth, FilesTruth, In
<1>8. CASE In("filter_apply_all") /\ filter_apply_all
  <2>1. Same /\ IsNet' /\ ApplyTruth'
    BY <1>8, ApplyTrue DEF Called, Truth, NetworkTruth
  <2> QED BY <1>8, <2>1, RequestsAre DEF Same, Truth, NetworkTruth, ClockTruth, FilesTruth, In
<1>9. CASE In("ml_network_filter_get") /\ ml_network_filter_get(proc.arg, "return")
  <2>1. Same /\ IsNet' /\ FilterGetTruth'
    BY <1>9, FilterGetTrue DEF Called, Truth, NetworkTruth
  <2> QED BY <1>9, <2>1, RequestsAre DEF Same, Truth, NetworkTruth, ClockTruth, FilesTruth, In
<1>10. CASE In("ml_network_filter_log") /\ ml_network_filter_log(proc.arg)
  <2>1. Same /\ IsNet' /\ Looks'
    BY <1>10, FilterLogTrue DEF Called, Truth, NetworkTruth
  <2> QED BY <1>10, <2>1, RequestsAre DEF Same, Truth, NetworkTruth, ClockTruth, FilesTruth, In
<1>11. CASE proc.fn \in DOMAIN Requests /\ ml_network_interface_get
  <2>1. Same /\ IsNet' /\ GetTruth'
    BY <1>11, GetTrue DEF Called, Truth, NetworkTruth
  <2> QED BY <1>11, <2>1, RequestsAre DEF Same, Truth, NetworkTruth, ClockTruth, FilesTruth, In
<1> QED BY <1>1, <1>2, <1>3, <1>4, <1>5, <1>6, <1>7, <1>8, <1>9, <1>10, <1>11 DEF NetworkStep

LEMMA FilesStepTrue ==
  ASSUME Called, IsFiles, Truth, FilesStep
  PROVE  Same /\ IsFiles' /\ Truth'
<1>1. CASE In("ml_insert_module") /\ ml_insert_module
  <2>1. Same /\ IsFiles' /\ InsertTruth'
    BY <1>1, InsertTrue DEF Called, Truth, FilesTruth
  <2> QED BY <1>1, <2>1, RequestsAre DEF Same, Truth, NetworkTruth, ClockTruth, FilesTruth, In
<1>2. CASE In("make") /\ make
  <2>1. Same /\ IsFiles' /\ MakeTruth'
    BY <1>2, MakeTrue DEF Called, Truth, FilesTruth
  <2> QED BY <1>2, <2>1, RequestsAre DEF Same, Truth, NetworkTruth, ClockTruth, FilesTruth, In
<1>3. CASE In("unmake") /\ unmake
  <2>1. Same /\ IsFiles' /\ UnmakeTruth'
    BY <1>3, UnmakeTrue DEF Called, Truth, FilesTruth
  <2> QED BY <1>3, <2>1, RequestsAre DEF Same, Truth, NetworkTruth, ClockTruth, FilesTruth, In
<1>4. CASE In("rm") /\ rm
  <2>1. Same /\ IsFiles' /\ RmTruth'
    BY <1>4, RmTrue DEF Called, Truth, FilesTruth, ArgsOK
  <2> QED BY <1>4, <2>1, RequestsAre DEF Same, Truth, NetworkTruth, ClockTruth, FilesTruth, In
<1>5. CASE In("ml_file_write_string") /\ ml_file_write_string
  <2>1. Same /\ IsFiles' /\ WriteTruth'
    BY <1>5, WriteTrue DEF Called, Truth, FilesTruth, ArgsOK
  <2> QED BY <1>5, <2>1, RequestsAre DEF Same, Truth, NetworkTruth, ClockTruth, FilesTruth, In
<1>6. CASE In("print") /\ print
  <2>1. Same /\ IsFiles' /\ PrintTruth'
    BY <1>6, PrintTrue DEF Called, Truth, FilesTruth, ArgsOK
  <2> QED BY <1>6, <2>1, RequestsAre DEF Same, Truth, NetworkTruth, ClockTruth, FilesTruth, In
<1>7. CASE In("ml_file_read") /\ ml_file_read
  <2>1. Same /\ IsFiles' /\ ReadTruth'
    BY <1>7, ReadTrue DEF Called, Truth, FilesTruth
  <2> QED BY <1>7, <2>1, RequestsAre DEF Same, Truth, NetworkTruth, ClockTruth, FilesTruth, In
<1>8. CASE In("ml_dd") /\ ml_dd
  <2>1. Same /\ IsFiles' /\ DdTruth'
    BY <1>8, DdTrue DEF Called, Truth, FilesTruth, ArgsOK
  <2> QED BY <1>8, <2>1, RequestsAre DEF Same, Truth, NetworkTruth, ClockTruth, FilesTruth, In
<1>9. CASE In("cat") /\ cat
  <2>1. Same /\ IsFiles' /\ CopyTruth'
    BY <1>9, CopyTrue DEF Called, Truth, FilesTruth, cat
  <2> QED BY <1>9, <2>1, RequestsAre DEF Same, Truth, NetworkTruth, ClockTruth, FilesTruth, In
<1>10. CASE In("ml_print_file") /\ ml_print_file
  <2>1. Same /\ IsFiles' /\ CopyTruth'
    BY <1>10, CopyTrue DEF Called, Truth, FilesTruth, ml_print_file
  <2> QED BY <1>10, <2>1, RequestsAre DEF Same, Truth, NetworkTruth, ClockTruth, FilesTruth, In
<1>11. CASE In("ls") /\ ls
  <2>1. Same /\ IsFiles' /\ LsTruth'
    BY <1>11, ListTrue, ListsStep DEF Called, Truth, FilesTruth, LsTruth
  <2> QED BY <1>11, <2>1, RequestsAre DEF Same, Truth, NetworkTruth, ClockTruth, FilesTruth, In
<1>12. CASE In("dmesg") /\ dmesg
  <2>1. Same /\ IsFiles' /\ LsTruth'
    BY <1>12, ListTrue, ListsStep DEF Called, Truth, FilesTruth, LsTruth
  <2> QED BY <1>12, <2>1, RequestsAre DEF Same, Truth, NetworkTruth, ClockTruth, FilesTruth, In
<1>13. CASE In("ll") /\ ll
  <2>1. Same /\ IsFiles' /\ LlTruth'
    BY <1>13, ListTrue, ListsStep DEF Called, Truth, FilesTruth, LlTruth
  <2> QED BY <1>13, <2>1, RequestsAre DEF Same, Truth, NetworkTruth, ClockTruth, FilesTruth, In
<1>14. CASE In("df") /\ ml_print_file_systems_space_usage
  <2>1. Same /\ IsFiles' /\ LlTruth'
    BY <1>14, ListTrue, ListsStep DEF Called, Truth, FilesTruth, LlTruth
  <2> QED BY <1>14, <2>1, RequestsAre DEF Same, Truth, NetworkTruth, ClockTruth, FilesTruth, In
<1>15. CASE In("i2c_scan") /\ i2c_scan
  <2>1. Same /\ IsFiles' /\ ScanTruth'
    BY <1>15, ScanTrue DEF Called, Truth, FilesTruth
  <2> QED BY <1>15, <2>1, RequestsAre DEF Same, Truth, NetworkTruth, ClockTruth, FilesTruth, In
<1>16. CASE In("top") /\ ml_get_cpus_stats
  <2>1. Same /\ IsFiles' /\ TopTruth'
    BY <1>16, TopTrue DEF Called, Truth, FilesTruth
  <2> QED BY <1>16, <2>1, RequestsAre DEF Same, Truth, NetworkTruth, ClockTruth, FilesTruth, In
<1>17. CASE In("find") /\ find
  <2>1. Same /\ IsFiles' /\ Looks'
    BY <1>17, FindTrue DEF Called, Truth, FilesTruth
  <2> QED BY <1>17, <2>1, RequestsAre DEF Same, Truth, NetworkTruth, ClockTruth, FilesTruth, In
<1>18. CASE In("dump") /\ dump
  <2>1. Same /\ IsFiles' /\ Looks'
    BY <1>18, FindTrue DEF Called, Truth, FilesTruth
  <2> QED BY <1>18, <2>1, RequestsAre DEF Same, Truth, NetworkTruth, ClockTruth, FilesTruth, In
<1> QED BY <1>1, <1>2, <1>3, <1>4, <1>5, <1>6, <1>7, <1>8, <1>9, <1>10, <1>11, <1>12, <1>13, <1>14, <1>15, <1>16, <1>17, <1>18 DEF FilesStep

LEMMA ClockStepTrue ==
  ASSUME Called, Truth, ClockStep, area' = area
  PROVE  Called' /\ Truth'
<1>1. CASE In("ml_rtc_get_time") /\ ml_rtc_get_time
  <2>1. Same /\ RtcGetTruth'
    BY <1>1, RtcGetTrue DEF Called, Truth, ClockTruth
  <2>2. Called'
    BY <2>1, SameCalled
  <2> QED BY <1>1, <2>1, <2>2, RequestsAre DEF Same, Truth, NetworkTruth, ClockTruth, FilesTruth, In
<1>2. CASE In("ml_rtc_set_time") /\ ml_rtc_set_time
  <2>1. Same /\ RtcSetTruth'
    BY <1>2, RtcSetTrue DEF Called, Truth, ClockTruth
  <2>2. Called'
    BY <2>1, SameCalled
  <2> QED BY <1>2, <2>1, <2>2, RequestsAre DEF Same, Truth, NetworkTruth, ClockTruth, FilesTruth, In
<1>3. CASE In("date") /\ date
  <2>1. Same /\ DateTruth'
    BY <1>3, DateTrue DEF Called, Truth, ClockTruth
  <2>2. Called'
    BY <2>1, SameCalled
  <2> QED BY <1>3, <2>1, <2>2, RequestsAre DEF Same, Truth, NetworkTruth, ClockTruth, FilesTruth, In
<1>4. CASE In("date_set") /\ date_set
  <2>1. Same /\ DateSetTruth'
    BY <1>4, DateSetTrue DEF Called, Truth, ClockTruth
  <2>2. Called'
    BY <2>1, SameCalled
  <2> QED BY <1>4, <2>1, <2>2, RequestsAre DEF Same, Truth, NetworkTruth, ClockTruth, FilesTruth, In
<1>5. CASE In("ml_ntp_client_sync") /\ ml_ntp_client_sync
  <2>1. Keeps /\ NtpTruth'
    BY <1>5, NtpTrue DEF Called, ArgsOK, Truth, ClockTruth
  <2>2. Called'
    BY <1>5, <2>1, KeepsCalled
  <2> QED BY <1>5, <2>1, <2>2, RequestsAre DEF Keeps, Truth, NetworkTruth, ClockTruth, FilesTruth, In
<1> QED BY <1>1, <1>2, <1>3, <1>4, <1>5 DEF ClockStep

LEMMA OtherStepTrue ==
  ASSUME Called, Truth
  PROVE  /\ IsMapper /\ MapperStep => Same /\ IsMapper' /\ Truth'
         /\ UsageStep => Same /\ kernel' = kernel /\ Truth'
<1>1. ASSUME IsMapper, MapperStep
      PROVE  Same /\ IsMapper' /\ Truth'
  <2>1. Same /\ IsMapper' /\ MapperTruth'
    BY <1>1, MapperTrue DEF Called, Truth, MapperStep
  <2> QED BY <1>1, <2>1, RequestsAre
          DEF MapperStep, Same, Truth, NetworkTruth, ClockTruth, FilesTruth, In
<1>2. ASSUME UsageStep
      PROVE  Same /\ kernel' = kernel /\ Truth'
  <2>1. Same /\ kernel' = kernel /\ UsageTruth'
    BY <1>2, UsageTrue DEF Called, Truth, UsageStep
  <2> QED BY <1>2, <2>1, RequestsAre
          DEF UsageStep, Same, Truth, NetworkTruth, ClockTruth, FilesTruth, In
<1> QED BY <1>1, <1>2

\* Nothing has been done by a call that has just been made.
LEMMA FreshTrue ==
  ASSUME Called, Fresh, Shape
  PROVE  Truth
<1>1. /\ proc.pc = "begin" /\ proc.res = 0 /\ proc.local = <<>> /\ kernel = proc.before
  BY DEF Fresh
<1>2. \A labels, k : "begin" \in labels => Sets(labels, k)
  BY <1>1 DEF Sets
<1>3. \A labels, v : "begin" \in labels => Finds(labels, v)
  BY <1>1 DEF Finds
<1>4. Looks
  BY <1>1 DEF Looks
<1>5. NetworkTruth
  <2>1. UpTruth /\ DownTruth /\ RouteTruth /\ LinkTruth /\ EthtoolTruth /\ FilterSetTruth
    BY <1>1, <1>2, <1>3
    DEF UpTruth, DownTruth, FlagsTruth, RouteTruth, LinkTruth, EthtoolTruth, FilterSetTruth
  <2>2. ConfigureTruth /\ ApplyTruth /\ FilterGetTruth
    BY <1>1, <1>2, <1>4 DEF ConfigureTruth, ApplyTruth, FilterGetTruth
  <2>3. ASSUME proc.fn \in DOMAIN Requests
        PROVE  GetTruth
    <3>1. IsNet
      BY <2>3, RequestsAre DEF Called, CallsOf, Shape
    <3>2. Len(Asked) \in Nat
      BY <2>3, <3>1, AskedIs
    <3>3. \A S : <<>> \in Seq(S)
      OBVIOUS
    <3>4. proc.local \in Seq({<<>>} \cup {<<kernel[r]>> : r \in DOMAIN kernel})
      BY <1>1, <3>3, Zenon
    <3>5. Len(proc.local) = 0 /\ 1 .. Len(proc.local) = {} /\ Len(proc.local) <= Len(Asked)
      BY <1>1, <3>2
    <3> QED BY <1>1, <3>4, <3>5 DEF GetTruth
  <2> QED BY <1>4, <2>1, <2>2, <2>3, Zenon DEF NetworkTruth
<1>6. MapperTruth /\ UsageTruth
  BY <1>1, <1>4 DEF MapperTruth, UsageTruth
<1>7. ClockTruth
  BY <1>1, <1>2, <1>3
  DEF ClockTruth, NtpTruth, RtcGetTruth, RtcSetTruth, DateTruth, DateSetTruth
<1>8. FilesTruth
  <2>1. InsertTruth /\ MakeTruth /\ UnmakeTruth
    BY <1>2 DEF InsertTruth, MakeTruth, UnmakeTruth
  <2>2. WriteTruth /\ PrintTruth /\ ReadTruth /\ TopTruth
    BY <1>1, <1>4 DEF WriteTruth, PrintTruth, ReadTruth, TopTruth
  <2>3. Input \in Seq(Nat) /\ Entries \in Seq(STRING) /\ Len(Input) \in Nat /\ Len(Entries) \in Nat
    BY FilesAssumption
  <2>4. Len(proc.local) = 0 /\ 1 .. Len(proc.local) = {}
    BY <1>1
  <2>5. Prefix(0) = <<>> /\ SubSeq(Entries, 1, 0) = <<>>
    BY <2>3, SubSeqEmpty DEF Prefix
  <2>6. CopyTruth
    BY <1>1, <1>4, <2>3, <2>4, <2>5 DEF CopyTruth
  <2>7. LsTruth /\ LlTruth
    BY <1>1, <2>3, <2>4, <2>5 DEF LsTruth, LlTruth, ListTruth
  <2>8. ScanTruth
    <3>1. \A S : <<>> \in Seq(S)
      OBVIOUS
    <3>2. proc.local \in Seq({Entries[i] : i \in 1 .. Len(Entries)} \cup {"nothing"})
      BY <1>1, <3>1, Zenon
    <3> QED BY <1>1, <1>4, <2>3, <2>4, <3>2 DEF ScanTruth
  <2>9. area = "files" => WasFiles
    BY <1>1 DEF Shape, IsFiles, WasFiles
  <2>10. ASSUME In("ml_dd") PROVE DdTruth
    <3>1. area = "files"
      BY <2>10 DEF Called, CallsOf, In
    <3> QED BY <1>1, <2>9, <3>1 DEF DdTruth
  <2>11. ASSUME In("rm") PROVE RmTruth
    <3>1. area = "files"
      BY <2>11 DEF Called, CallsOf, In
    <3>2. proc.arg \in Seq(Names) /\ Len(proc.arg) \in Nat
      BY <2>11 DEF Called, ArgsOK
    <3>3. {File(proc.arg[i]) : i \in 1 .. 0} = {}
      OBVIOUS
    <3>4. Gone(0) = proc.before
      <4>1. Gone(0) = [proc.before EXCEPT !.objects = @ \ {}]
        BY <3>3, Zenon DEF Gone
      <4>2. proc.before.objects \ {} = proc.before.objects
        OBVIOUS
      <4> QED BY <2>9, <3>1, <4>1, <4>2 DEF WasFiles
    <3>5. proc.local \in Seq(Names)
      BY <1>1
    <3> QED BY <1>1, <2>4, <2>9, <3>1, <3>2, <3>4, <3>5 DEF RmTruth
  <2> QED BY <1>4, <2>1, <2>2, <2>6, <2>7, <2>8, <2>10, <2>11, Zenon DEF FilesTruth
<1> QED BY <1>5, <1>6, <1>7, <1>8, Zenon DEF Truth

\* The kernel is one of the area, and a call that is made is as far as its
\* label says.
TruthInv == Shape /\ (proc = Idle \/ (Called /\ Truth))

LEMMA TruthInit == Init => TruthInv
<1> SUFFICES ASSUME Init PROVE TruthInv
  OBVIOUS
<1>1. proc = Idle
  BY DEF Init, CallsInit, StoresInit, FunctionsInit
<1>2. area \in {"interface", "link", "filter", "mapper", "files"} => kernel = KernelOf[area]
  BY DEF Init, CallsInit, StoresInit, FunctionsInit
<1>3. area \in {"interface", "link", "filter"} => IsNet
  <2>1. area \in {"interface", "link", "filter"} => kernel = NetworkKernel
    BY <1>2 DEF KernelOf
  <2>2. NetworkKernel = [address |-> NetworkKernel.address, netmask |-> NetworkKernel.netmask,
          mtu |-> NetworkKernel.mtu, flags |-> NetworkKernel.flags, routes |-> NetworkKernel.routes,
          mac |-> NetworkKernel.mac, index |-> NetworkKernel.index, link |-> NetworkKernel.link,
          filter |-> NetworkKernel.filter]
    BY DEF NetworkKernel
  <2> QED BY <2>1, <2>2 DEF IsNet
<1>4. area = "mapper" => IsMapper
  <2>1. area = "mapper" => kernel = MapperKernel
    BY <1>2 DEF KernelOf
  <2>2. /\ MapperKernel = [device |-> MapperKernel.device, node |-> MapperKernel.node,
                           table |-> MapperKernel.table, active |-> MapperKernel.active]
        /\ MapperKernel.device = FALSE /\ MapperKernel.node = FALSE /\ MapperKernel.table = "none"
    BY DEF MapperKernel
  <2> QED BY <2>1, <2>2 DEF IsMapper
<1>5. area = "files" => IsFiles
  <2>1. area = "files" => kernel = FilesKernel
    BY <1>2 DEF KernelOf
  <2> QED BY <2>1 DEF IsFiles, FilesKernel
<1> QED BY <1>1, <1>3, <1>4, <1>5 DEF TruthInv, Shape

LEMMA ShapeStays ==
  ASSUME Shape, kernel' = kernel, area' = area
  PROVE  Shape'
BY DEF Shape, IsNet, IsMapper, IsFiles

LEMMA TruthStays ==
  ASSUME TruthInv, kernel' = kernel, area' = area, proc' = proc
  PROVE  TruthInv'
<1>1. Shape'
  BY ShapeStays DEF TruthInv
<1>2. CASE proc = Idle
  BY <1>1, <1>2 DEF TruthInv
<1>3. CASE Called /\ Truth
  <2>1. Called'
    BY <1>3 DEF Called, IsCall, ArgsOK, In
  <2>2. Truth'
    <3>1. NetworkTruth'
      <4>1. proc'.fn \in DOMAIN Requests => GetTruth'
        BY <1>3 DEF Truth, NetworkTruth, GetTruth, Asked
      <4>2. In("ml_network_interface_configure")' => ConfigureTruth'
        BY <1>3 DEF Truth, NetworkTruth, In, ConfigureTruth, Blamed, Addressed, Masked, Configured
      <4>3. /\ In("ml_network_interface_up")' => UpTruth'
            /\ In("ml_network_interface_down")' => DownTruth'
        BY <1>3 DEF Truth, NetworkTruth, In, UpTruth, DownTruth, FlagsTruth, Sets, UpKernel, DownKernel, Blamed
      <4>4. /\ In("ml_network_interface_add_route")' => RouteTruth'
            /\ In("ml_network_interface_link_configure")' => LinkTruth'
            /\ In("command_ethtool_print")' => EthtoolTruth'
        BY <1>3
        DEF Truth, NetworkTruth, In, RouteTruth, LinkTruth, NewLink, EthtoolTruth, Sets, Finds, Blamed
      <4>5. /\ In("ml_network_filter_set")' => FilterSetTruth'
            /\ In("filter_apply_all")' => ApplyTruth'
        BY <1>3 DEF Truth, NetworkTruth, In, FilterSetTruth, ApplyTruth, Sets, Blamed
      <4>6. /\ In("ml_network_filter_get")' => FilterGetTruth'
            /\ In("ml_network_filter_log")' => Looks'
        BY <1>3 DEF Truth, NetworkTruth, In, FilterGetTruth, Looks, Blamed
      <4> QED BY <4>1, <4>2, <4>3, <4>4, <4>5, <4>6 DEF NetworkTruth
    <3>2. In("ml_device_mapper_verity_create")' => MapperTruth'
      BY <1>3 DEF Truth, In, MapperTruth, Blamed, Created, Noded, Loaded, Resumed
    <3>3. ClockTruth'
      BY <1>3
      DEF Truth, ClockTruth, In, NtpTruth, RtcGetTruth, RtcSetTruth, DateTruth, DateSetTruth, Sets, Finds, Blamed
    <3>4. FilesTruth'
      BY <1>3, SMTT(30)
      DEF Truth, FilesTruth, In, InsertTruth, MakeTruth, UnmakeTruth, RmTruth, WriteTruth, PrintTruth,
          Printed, ReadTruth, DdTruth, CopyTruth, LsTruth, LlTruth, ListTruth, ScanTruth, TopTruth,
          Looks, Sets, Finds, Blamed, WasFiles, Gone, Copied, Part, Step, Bound, Prefix
    <3>5. In("usage")' => UsageTruth'
      BY <1>3 DEF Truth, In, UsageTruth, Looks, Blamed
    <3> QED BY <3>1, <3>2, <3>3, <3>4, <3>5 DEF Truth
  <2> QED BY <1>1, <2>1, <2>2 DEF TruthInv
<1> QED BY <1>2, <1>3 DEF TruthInv

LEMMA TruthStepInv == TruthInv /\ [Next]_libraryVars => TruthInv'
<1> SUFFICES ASSUME TruthInv, [Next]_libraryVars PROVE TruthInv'
  OBVIOUS
<1>1. CASE UNCHANGED libraryVars
  BY <1>1, TruthStays DEF libraryVars, procVars
<1>2. CASE area' = area /\ CallBegin
  <2>1. Called' /\ Fresh' /\ kernel' = kernel
    BY <1>2, CallBegun
  <2>2. Shape'
    BY <1>2, <2>1, ShapeStays DEF TruthInv
  <2>3. Truth'
    BY <2>1, <2>2, FreshTrue, PTL
  <2> QED BY <2>1, <2>2, <2>3 DEF TruthInv
<1>3. CASE area' = area /\ CallStep
  <2>1. Called /\ Truth /\ Shape
    BY <1>3 DEF CallStep, TruthInv
  <2>2. CASE NetworkStep
    <3>1. Same /\ IsNet' /\ Truth'
      BY <2>1, <2>2, StepsArea, NetworkStepTrue DEF Shape
    <3>2. Called'
      BY <1>3, <2>1, <3>1, SameCalled
    <3>3. Shape'
      BY <1>3, <2>1, <2>2, <3>1, StepsArea DEF Shape
    <3> QED BY <3>1, <3>2, <3>3 DEF TruthInv
  <2>3. CASE MapperStep
    <3>1. Same /\ IsMapper' /\ Truth'
      BY <2>1, <2>3, StepsArea, OtherStepTrue DEF Shape
    <3>2. Called'
      BY <1>3, <2>1, <3>1, SameCalled
    <3>3. Shape'
      BY <1>3, <2>1, <2>3, <3>1, StepsArea DEF Shape
    <3> QED BY <3>1, <3>2, <3>3 DEF TruthInv
  <2>4. CASE ClockStep
    <3>1. Called' /\ Truth'
      BY <1>3, <2>1, <2>4, ClockStepTrue
    <3>2. Shape'
      BY <1>3, <2>1, <2>4, StepsArea DEF Shape
    <3> QED BY <3>1, <3>2 DEF TruthInv
  <2>5. CASE FilesStep
    <3>1. Same /\ IsFiles' /\ Truth'
      BY <2>1, <2>5, StepsArea, FilesStepTrue DEF Shape
    <3>2. Called'
      BY <1>3, <2>1, <3>1, SameCalled
    <3>3. Shape'
      BY <1>3, <2>1, <2>5, <3>1, StepsArea DEF Shape
    <3> QED BY <3>1, <3>2, <3>3 DEF TruthInv
  <2>6. CASE UsageStep
    <3>1. Same /\ kernel' = kernel /\ Truth'
      BY <2>1, <2>6, OtherStepTrue
    <3>2. Called'
      BY <1>3, <2>1, <3>1, SameCalled
    <3>3. Shape'
      BY <1>3, <2>1, <3>1, ShapeStays
    <3> QED BY <3>1, <3>2, <3>3 DEF TruthInv
  <2> QED BY <1>3, <2>2, <2>3, <2>4, <2>5, <2>6 DEF CallStep
<1>4. CASE area' = area /\ Return
  <2>1. Shape'
    BY <1>4, ShapeStays DEF Return, TruthInv
  <2> QED BY <1>4, <2>1 DEF Return, TruthInv
<1>5. CASE UNCHANGED procVars /\ area' = area
  BY <1>5, TruthStays DEF procVars
<1> QED BY <1>1, <1>2, <1>3, <1>4, <1>5 DEF Next, Rest

-----------------------------------------------------------------------------
(* What the result says when a call has returned.                            *)

LEMMA BlameIs == Blamed => proc.fault \/ proc.ignored \/ proc.usage
BY Zenon DEF Blamed

LEMMA NetworkTells ==
  ASSUME Called, Shape, Truth, proc.pc = "return", area \in {"interface", "link", "filter"}
  PROVE  IF proc.res = 0 THEN NetworkDone ELSE NetworkUndone /\ Blamed
<1>1. IsNet
  BY DEF Shape
<1>2. proc.fn \in CallsOf["interface"] \cup CallsOf["link"] \cup CallsOf["filter"]
  BY DEF Called
<1>3. CASE In("ml_network_interface_configure")
  <2>1. ConfigureTruth
    BY <1>3 DEF Truth, NetworkTruth
  <2>2. proc.res = 0 => kernel = [proc.before EXCEPT !.address = proc.arg.address,
                                    !.netmask = proc.arg.netmask, !.mtu = proc.arg.mtu]
    BY <2>1 DEF ConfigureTruth, Configured, Masked, Addressed
  <2>3. proc.res # 0 => NetworkUndone /\ Blamed
    BY <1>3, <2>1 DEF ConfigureTruth, NetworkUndone, Masked, Addressed
  <2> QED BY <1>3, <2>2, <2>3, RequestsAre DEF NetworkDone, In
<1>4. CASE In("ml_network_interface_up")
  BY <1>4, RequestsAre DEF Truth, NetworkTruth, UpTruth, FlagsTruth, Sets, UpKernel, NetworkDone, NetworkUndone, In
<1>5. CASE In("ml_network_interface_down")
  BY <1>5, RequestsAre DEF Truth, NetworkTruth, DownTruth, FlagsTruth, Sets, DownKernel, NetworkDone, NetworkUndone, In
<1>6. CASE proc.fn \in DOMAIN Requests
  <2>1. GetTruth
    BY <1>6 DEF Truth, NetworkTruth
  <2>2. /\ proc.local \in Seq({<<>>} \cup {<<kernel[r]>> : r \in DOMAIN kernel})
        /\ Len(proc.local) = Len(Requests[proc.fn])
    BY <2>1 DEF GetTruth, Asked
  <2>3. DOMAIN proc.local = 1 .. Len(proc.local)
    BY <2>2
  <2>4. proc.res # 0 => NetworkUndone /\ Blamed
    <3>1. proc.res # 0 => proc.local = <<NoValue>>
      BY <2>1 DEF GetTruth
    <3>2. proc.local = <<NoValue>> => 1 \in 1 .. Len(proc.local) /\ proc.local[1] = NoValue
      OBVIOUS
    <3>3. proc.res # 0 => proc.fault = TRUE
      BY <2>1, <3>1, <3>2 DEF GetTruth
    <3> QED BY <2>1, <3>3 DEF GetTruth, NetworkUndone, Blamed
  <2>5. ASSUME proc.res = 0
        PROVE  /\ kernel = proc.before
               /\ \A i \in DOMAIN proc.local : proc.local[i] \in {NoValue, <<proc.before[Requests[proc.fn][i]]>>}
               /\ proc.local # <<NoValue>>
    BY <2>1, <2>3, <2>5, FailedIs DEF GetTruth, Asked
  <2>6. proc.res = 0 => NetworkDone
    BY <1>6, <2>2, <2>5, RequestsAre DEF NetworkDone, In
  <2> QED BY <2>4, <2>6
<1>7. CASE In("ml_network_interface_add_route")
  BY <1>7, RequestsAre DEF Truth, NetworkTruth, RouteTruth, Sets, NetworkDone, NetworkUndone, In
<1>8. CASE In("ml_network_interface_link_configure")
  <2>1. \/ proc.res = 0 /\ kernel = [proc.before EXCEPT !.link = NewLink]
        \/ proc.res # 0 /\ NetworkUndone /\ Blamed
    BY <1>8 DEF Truth, NetworkTruth, LinkTruth, Sets, NetworkUndone
  <2>2. proc.res = 0 => kernel.link = NewLink
    <3>1. "link" \in DOMAIN kernel
      BY <1>1 DEF IsNet
    <3> QED BY <2>1, <3>1
  <2>3. proc.res = 0 => /\ kernel = [proc.before EXCEPT !.link = kernel.link]
                        /\ \A s \in Settings : kernel.link[s] =
                             IF proc.arg[s] = Unchanged THEN proc.before.link[s] ELSE proc.arg[s]
    BY <2>1, <2>2 DEF NewLink
  <2> QED BY <1>8, <2>1, <2>3, RequestsAre DEF NetworkDone, In
<1>9. CASE In("command_ethtool_print")
  BY <1>9, RequestsAre DEF Truth, NetworkTruth, EthtoolTruth, Finds, NetworkDone, NetworkUndone, In
<1>10. CASE In("ml_network_filter_set")
  BY <1>10, RequestsAre DEF Truth, NetworkTruth, FilterSetTruth, Sets, NetworkDone, NetworkUndone, In
<1>11. CASE In("filter_apply_all")
  BY <1>11, RequestsAre DEF Truth, NetworkTruth, ApplyTruth, Sets, NetworkDone, NetworkUndone, In
<1>12. CASE In("ml_network_filter_get")
  BY <1>12, RequestsAre DEF Truth, NetworkTruth, FilterGetTruth, Looks, NetworkDone, NetworkUndone, In
<1>13. CASE In("ml_network_filter_log")
  BY <1>13, RequestsAre DEF Truth, NetworkTruth, Looks, NetworkDone, NetworkUndone, In
<1>14. CASE In("usage")
  BY <1>14 DEF Truth, UsageTruth, Looks, NetworkUndone
<1> QED BY <1>2, <1>3, <1>4, <1>5, <1>6, <1>7, <1>8, <1>9, <1>10, <1>11, <1>12, <1>13, <1>14, RequestsAre
        DEF CallsOf, In

LEMMA MapperTells ==
  ASSUME Called, Shape, Truth, proc.pc = "return", area = "mapper"
  PROVE  IF proc.res = 0 THEN MapperDone ELSE MapperUndone /\ Blamed
<1>1. IsMapper /\ MapperTruth
  BY DEF Called, CallsOf, In, Shape, Truth
<1>2. CASE proc.res = 0
  <2>1. Resumed = [device |-> TRUE, node |-> TRUE, table |-> proc.arg, active |-> proc.arg]
    <3> DEFINE yes == TRUE
               no == FALSE
    <3>1. MapperKernel = [device |-> no, node |-> no, table |-> "none", active |-> "none"]
      BY Zenon DEF MapperKernel
    <3>2. Created = [MapperKernel EXCEPT !.device = yes]
      BY Zenon DEF Created
    <3>3. Noded = [Created EXCEPT !.node = yes]
      BY Zenon DEF Noded
    <3> HIDE DEF yes, no
    <3>4. Created = [device |-> yes, node |-> no, table |-> "none", active |-> "none"]
      BY <3>1, <3>2
    <3>5. Noded = [device |-> yes, node |-> yes, table |-> "none", active |-> "none"]
      BY <3>3, <3>4
    <3>6. Loaded = [device |-> yes, node |-> yes, table |-> proc.arg, active |-> "none"]
      BY <3>5 DEF Loaded
    <3>7. Resumed = [device |-> yes, node |-> yes, table |-> proc.arg, active |-> proc.arg]
      BY <3>6 DEF Resumed
    <3> QED BY <3>7, Zenon DEF yes
  <2> QED BY <1>1, <1>2, <2>1 DEF MapperTruth, MapperDone
<1>3. CASE proc.res # 0
  <2>1. /\ Created.active = MapperKernel.active /\ Noded.active = MapperKernel.active
        /\ Loaded.active = MapperKernel.active /\ MapperKernel.device = FALSE
    BY DEF Loaded, Noded, Created, MapperKernel
  <2>2. /\ Blamed
        /\ \/ kernel = proc.before
           \/ proc.before = MapperKernel /\ kernel.active = proc.before.active
    BY <1>1, <1>3, <2>1 DEF MapperTruth
  <2> QED BY <1>1, <1>3, <2>1, <2>2 DEF IsMapper, MapperUndone
<1> QED BY <1>2, <1>3

LEMMA ClockTells ==
  ASSUME Called, Truth, proc.pc = "return", area = "clock"
  PROVE  IF proc.res = 0 THEN ClockDone ELSE kernel = proc.before /\ Blamed
<1>1. proc.fn \in CallsOf["clock"]
  BY DEF Called
<1>2. CASE In("ml_ntp_client_sync")
  BY <1>2 DEF Truth, ClockTruth, NtpTruth, ClockDone, In
<1>3. CASE In("ml_rtc_get_time")
  BY <1>3 DEF Truth, ClockTruth, RtcGetTruth, Finds, ClockDone, In
<1>4. CASE In("ml_rtc_set_time")
  BY <1>4 DEF Truth, ClockTruth, RtcSetTruth, Sets, ClockDone, In
<1>5. CASE In("date")
  BY <1>5 DEF Truth, ClockTruth, DateTruth, Finds, ClockDone, In
<1>6. CASE In("date_set")
  BY <1>6 DEF Truth, ClockTruth, DateSetTruth, Sets, ClockDone, In
<1>7. CASE In("usage")
  BY <1>7 DEF Truth, UsageTruth, Looks
<1> QED BY <1>1, <1>2, <1>3, <1>4, <1>5, <1>6, <1>7 DEF CallsOf, In

\* Whether everything, or the first part where a failure was ignored.
Whole(v, w) == IF proc.ignored THEN IsPrefix(v, w) ELSE v = w

LEMMA WholeIs ==
  ASSUME NEW S, NEW w \in Seq(S), NEW v, v = w \/ (IsPrefix(v, w) /\ proc.ignored = TRUE)
  PROVE  Whole(v, w)
<1>1. IsPrefix(w, w)
  BY PrefixEnds
<1>2. CASE v = w
  BY <1>1, <1>2, Zenon DEF Whole
<1>3. CASE IsPrefix(v, w) /\ proc.ignored = TRUE
  BY <1>3, Zenon DEF Whole
<1> QED BY <1>2, <1>3

LEMMA FilesTells ==
  ASSUME Called, Shape, Truth, proc.pc = "return", area = "files"
  PROVE  IF proc.res = 0 THEN FilesDone ELSE FilesUndone /\ (Blamed \/ FilesRefuses)
<1>1. IsFiles /\ FilesTruth
  BY DEF Shape, Truth
<1>2. Input \in Seq(Nat) /\ Entries \in Seq(STRING) /\ Len(Input) \in Nat /\ Len(Entries) \in Nat
  BY FilesAssumption
<1>3. CASE In("ml_insert_module")
  BY <1>1, <1>3 DEF FilesTruth, InsertTruth, Sets, FilesDone, FilesUndone, In
<1>4. CASE In("make")
  BY <1>1, <1>4 DEF FilesTruth, MakeTruth, Sets, FilesDone, FilesUndone, In
<1>5. CASE In("unmake")
  BY <1>1, <1>5 DEF FilesTruth, UnmakeTruth, Sets, FilesDone, FilesUndone, In
<1>6. CASE In("rm")
  <2>1. RmTruth /\ proc.arg \in Seq(Names)
    BY <1>1, <1>6 DEF FilesTruth, Called, ArgsOK
  <2>2. DOMAIN proc.arg = 1 .. Len(proc.arg) /\ Len(proc.arg) \in Nat /\ Len(proc.local) \in Nat
    BY <2>1 DEF RmTruth
  <2>3. CASE proc.res = 0
    <3>1. kernel = Gone(Len(proc.arg))
      BY <2>1, <2>3 DEF RmTruth
    <3>2. kernel = [proc.before EXCEPT !.objects = @ \ {File(proc.arg[i]) : i \in DOMAIN proc.arg}]
      BY <2>2, <3>1, Zenon DEF Gone
    <3> DEFINE k == [proc.before EXCEPT !.objects = @ \ {File(proc.arg[i]) : i \in DOMAIN proc.arg}]
    <3>3. FilesDone = (kernel = k)
      BY <1>6 DEF FilesDone, In
    <3> QED BY <2>3, <3>2, <3>3
  <2>4. CASE proc.res # 0
    <3> DEFINE n == Len(proc.local)
    <3>1. n < Len(proc.arg) /\ Blamed /\ kernel = Gone(n) /\ WasFiles
      BY <2>1, <2>4 DEF RmTruth
    <3>2. n \in 0 .. Len(proc.arg) - 1
      BY <2>2, <3>1
    <3>3. kernel.objects = proc.before.objects \ {File(proc.arg[i]) : i \in 1 .. n}
      <4> DEFINE A == {File(proc.arg[i]) : i \in 1 .. n}
      <4>1. kernel = [proc.before EXCEPT !.objects = @ \ A]
        BY <3>1 DEF Gone
      <4> HIDE DEF A
      <4>2. kernel.objects = proc.before.objects \ A
        BY <3>1, <4>1 DEF WasFiles
      <4> QED BY <4>2 DEF A
    <3> DEFINE some == \E m \in 0 .. Len(proc.arg) - 1 :
                         kernel.objects = proc.before.objects \ {File(proc.arg[i]) : i \in 1 .. m}
    <3>4. some
      BY <3>2, <3>3, Zenon
    <3>5. FilesUndone = some
      BY <1>6 DEF FilesUndone, In
    <3> QED BY <2>4, <3>1, <3>4, <3>5
  <2> QED BY <2>3, <2>4
<1>7. CASE In("ml_file_write_string")
  <2>1. WriteTruth /\ proc.arg \in Seq(Nat)
    BY <1>1, <1>7 DEF FilesTruth, Called, ArgsOK
  <2>2. IsPrefix(<<>>, proc.arg)
    BY <2>1, PrefixEnds
  <2>3. proc.res = 0 => kernel.out = proc.arg \/ (IsPrefix(kernel.out, proc.arg) /\ proc.ignored = TRUE)
    BY <2>1, <2>2 DEF WriteTruth
  <2>4. proc.res = 0 => Whole(kernel.out, proc.arg)
    BY <2>1, <2>3, WholeIs
  <2>5. proc.res # 0 => /\ kernel = proc.before \/ IsPrefix(kernel.out, proc.arg)
                        /\ Blamed \/ proc.arg = <<>>
    BY <2>1, <2>2 DEF WriteTruth
  <2>6. FilesDone = Whole(kernel.out, proc.arg)
    BY <1>7 DEF FilesDone, Whole, In
  <2>7. FilesUndone = (kernel = proc.before \/ IsPrefix(kernel.out, proc.arg))
    BY <1>7 DEF FilesUndone, In
  <2> QED BY <1>7, <2>4, <2>5, <2>6, <2>7 DEF FilesRefuses
<1>8. CASE In("print")
  <2>1. PrintTruth /\ proc.arg \in Seq(Nat)
    BY <1>1, <1>8 DEF FilesTruth, Called, ArgsOK
  <2>2. Printed \in Seq(Nat)
    BY <2>1 DEF Printed
  <2>3. IsPrefix(<<>>, proc.arg) /\ IsPrefix(proc.arg, proc.arg) /\ IsPrefix(<<>>, Printed)
    BY <2>1, <2>2, PrefixEnds
  <2>4. proc.res = 0 => kernel.out = Printed \/ (IsPrefix(kernel.out, Printed) /\ proc.ignored = TRUE)
    BY <2>1, <2>3 DEF PrintTruth
  <2>5. proc.res = 0 => Whole(kernel.out, Printed)
    BY <2>2, <2>4, WholeIs
  <2>6. proc.res # 0 => Blamed /\ (kernel = proc.before \/ IsPrefix(kernel.out, proc.arg))
    BY <2>1, <2>3 DEF PrintTruth
  <2>7. FilesDone = Whole(kernel.out, Printed)
    BY <1>8 DEF FilesDone, Whole, Printed, In
  <2>8. FilesUndone = (kernel = proc.before \/ IsPrefix(kernel.out, proc.arg))
    BY <1>8 DEF FilesUndone, In
  <2> QED BY <2>5, <2>6, <2>7, <2>8
<1>9. CASE In("ml_file_read")
  BY <1>1, <1>9 DEF FilesTruth, ReadTruth, FilesDone, FilesUndone, FilesRefuses, In
<1>10. CASE In("ml_dd")
  <2>1. DdTruth /\ proc.arg.total_size \in Nat
    BY <1>1, <1>10 DEF FilesTruth, Called, ArgsOK
  <2>2. Part => IsPrefix(kernel.out, Input) /\ Len(kernel.out) <= proc.arg.total_size
    <3> SUFFICES ASSUME NEW n \in 0 .. Bound, kernel = Copied(n)
                 PROVE  IsPrefix(kernel.out, Input) /\ Len(kernel.out) <= proc.arg.total_size
      BY DEF Part
    <3>1. n \in 0 .. Len(Input) /\ n <= proc.arg.total_size
      BY <1>2, <2>1 DEF Bound, Least
    <3>2. kernel.out = Prefix(n) /\ Len(kernel.out) = n
      BY <2>1, <3>1, CopiedIs DEF DdTruth
    <3>3. IsPrefix(Prefix(n), Input)
      BY <1>2, <3>1, PrefixFacts DEF Prefix
    <3> QED BY <3>1, <3>2, <3>3
  <2>3. proc.res = 0 => kernel = [proc.before EXCEPT !.out = Prefix(proc.arg.total_size)]
    BY <2>1 DEF DdTruth, Copied
  <2>4. proc.res # 0 =>
          /\ kernel = proc.before \/ (IsPrefix(kernel.out, Input) /\ Len(kernel.out) <= proc.arg.total_size)
          /\ Blamed \/ proc.arg.total_size > Len(Input)
    BY <2>1, <2>2 DEF DdTruth
  <2>5. FilesDone = (kernel = [proc.before EXCEPT !.out = Prefix(proc.arg.total_size)])
    BY <1>10 DEF FilesDone, In
  <2>6. FilesUndone =
          (kernel = proc.before \/ (IsPrefix(kernel.out, Input) /\ Len(kernel.out) <= proc.arg.total_size))
    BY <1>10 DEF FilesUndone, In
  <2> QED BY <1>10, <2>3, <2>4, <2>5, <2>6 DEF FilesRefuses
<1>11. CASE In("cat") \/ In("ml_print_file")
  <2>1. CopyTruth
    BY <1>1, <1>11 DEF FilesTruth
  <2>2. IsPrefix(proc.local, Input)
    BY <1>2, <2>1, PrefixFacts DEF CopyTruth, Prefix
  <2>3. proc.res = 0 => Whole(proc.local, Input)
    BY <1>2, <2>1, <2>2, WholeIs DEF CopyTruth
  <2>4. FilesDone = (kernel = proc.before /\ Whole(proc.local, Input))
    BY <1>11 DEF FilesDone, Whole, In
  <2>5. FilesUndone = (kernel = proc.before)
    BY <1>11 DEF FilesUndone, In
  <2> QED BY <2>1, <2>3, <2>4, <2>5 DEF CopyTruth, Looks
<1>12. CASE In("ls") \/ In("dmesg") \/ In("ll") \/ In("df")
  <2>1. \E start : ListTruth(start) /\ (In("ls") \/ In("dmesg") => start = 0)
    BY <1>1, <1>12 DEF FilesTruth, LsTruth, LlTruth, In
  <2>2. PICK start : ListTruth(start) /\ (In("ls") \/ In("dmesg") => start = 0)
    BY <2>1
  <2>3. IsPrefix(proc.local, Entries)
    BY <1>2, <2>2, PrefixFacts DEF ListTruth
  <2>4. proc.res = 0 => Whole(proc.local, Entries)
    BY <1>2, <2>2, <2>3, WholeIs DEF ListTruth
  <2>5. proc.res # 0 => Blamed \/ ((In("ll") \/ In("df")) /\ Entries = <<>>)
    BY <1>12, <2>2 DEF ListTruth
  <2>6. FilesDone = (kernel = proc.before /\ Whole(proc.local, Entries))
    BY <1>12 DEF FilesDone, Whole, In
  <2>7. FilesUndone = (kernel = proc.before)
    BY <1>12 DEF FilesUndone, In
  <2> QED BY <2>2, <2>4, <2>5, <2>6, <2>7 DEF ListTruth, FilesRefuses
<1>13. CASE In("i2c_scan")
  <2>1. ScanTruth
    BY <1>1, <1>13 DEF FilesTruth
  <2>2. DOMAIN Entries = 1 .. Len(Entries)
    BY <1>2
  <2>3. proc.res = 0 => /\ kernel = proc.before /\ Len(proc.local) = Len(Entries)
                        /\ \A i \in DOMAIN Entries : proc.local[i] \in {Entries[i], "nothing"}
    BY <2>1, <2>2 DEF ScanTruth, Looks
  <2>4. proc.res = 0 => FilesDone
    BY <1>13, <2>3 DEF FilesDone, In
  <2> QED BY <1>13, <2>1, <2>4 DEF ScanTruth, Looks, FilesUndone, In
<1>14. CASE In("top")
  BY <1>1, <1>14 DEF FilesTruth, TopTruth, Looks, FilesDone, FilesUndone, In
<1>15. CASE In("find") \/ In("dump")
  BY <1>1, <1>15 DEF FilesTruth, Looks, FilesDone, FilesUndone, In
<1>16. CASE In("usage")
  BY <1>16 DEF Truth, UsageTruth, Looks, FilesUndone, In
<1>17. proc.fn \in CallsOf["files"]
  BY DEF Called
<1> QED BY <1>3, <1>4, <1>5, <1>6, <1>7, <1>8, <1>9, <1>10, <1>11, <1>12, <1>13, <1>14, <1>15, <1>16, <1>17
        DEF CallsOf, In

LEMMA TruthInvMeans == TruthInv => ReturnsTruth
<1> SUFFICES ASSUME Called, Shape, Truth, proc.pc = "return"
             PROVE  IF proc.res = 0 THEN Done
                    ELSE /\ Undone
                         /\ \/ proc.fault \/ proc.ignored \/ proc.usage
                            \/ area = "files" /\ FilesRefuses
  BY Zenon DEF TruthInv, ReturnsTruth, Returned
<1>1. area \in {"interface", "link", "filter", "mapper", "clock", "files"}
  BY DEF Called, CallsOf
<1>2. CASE area \in {"interface", "link", "filter"}
  <2>1. Done = NetworkDone /\ Undone = NetworkUndone
    BY <1>2 DEF Done, Undone
  <2> QED BY <1>2, <2>1, NetworkTells, BlameIs
<1>3. CASE area = "mapper"
  <2>1. Done = MapperDone /\ Undone = MapperUndone
    BY <1>3 DEF Done, Undone
  <2> QED BY <1>3, <2>1, MapperTells, BlameIs
<1>4. CASE area = "clock"
  <2>1. Done = ClockDone /\ Undone = (kernel = proc.before)
    BY <1>4 DEF Done, Undone
  <2> QED BY <1>4, <2>1, ClockTells, BlameIs
<1>5. CASE area = "files"
  <2>1. Done = FilesDone /\ Undone = FilesUndone
    BY <1>5 DEF Done, Undone
  <2> QED BY <1>5, <2>1, FilesTells, BlameIs
<1> QED BY <1>1, <1>2, <1>3, <1>4, <1>5

\* The result of a call tells the truth for every content of the files and
\* lists, and every range of times, after any calls before it and whichever of
\* its system calls fail: without an error all that was asked has been done and
\* the rest is as it was; with one nothing or the first part has been done, and
\* a failure or a refusal is to blame.
THEOREM ResultsTellTruth == Spec => []ReturnsTruth
<1>1. Init => TruthInv
  BY TruthInit
<1>2. TruthInv /\ [Next]_libraryVars => TruthInv'
  BY TruthStepInv
<1>3. TruthInv => ReturnsTruth
  BY TruthInvMeans
<1> QED
  BY <1>1, <1>2, <1>3, PTL DEF Spec

=============================================================================
