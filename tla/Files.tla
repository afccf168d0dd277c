------------------------------- MODULE Files --------------------------------
(* The functions of ml.c and the commands of ml_shell.c that work on files,  *)
(* directories, modules and devices. A loop of the code over the chunks of a *)
(* file, or the entries of a directory, is a label that is come back to.     *)
EXTENDS Process, SequencesExt

CONSTANTS Input,    \* content of the file that is read, a sequence of bytes
          Entries,  \* what a directory, the kernel log or a bus has, in order
          Chunk,    \* 256: bytes read at a time
          MaximumCpus  \* 16: lines of /proc/stat that are read

ASSUME FilesAssumption ==
  /\ Input \in Seq(Nat) /\ Entries \in Seq(STRING)
  /\ Chunk \in Nat \ {0} /\ MaximumCpus \in Nat \ {0}

\* out: content of the file that is written; objects: files (directories and
\* nodes), mounts and modules, each a pair of its kind and its name.
FilesKernel == [out |-> <<>>, objects |-> {}]

File(path) == <<"file", path>>
Mount(path) == <<"mount", path>>
Module(name) == <<"module", name>>

Prefix(n) == SubSeq(Input, 1, n)

-----------------------------------------------------------------------------
(* Functions of ml.c.                                                        *)

ml_insert_module ==
  \/ At("begin") /\ Acquire("fd", "init", "return")
  \/ /\ At("init")
     /\ IF proc.arg \in kernel.objects THEN Fails("close")
        ELSE Call([kernel EXCEPT !.objects = @ \cup {proc.arg}], "close", "close")
  \/ At("close") /\ Release("fd", "return")

\* fopen(path, "w"): the file is empty from here on.
Truncate(ok, err) ==
  \/ /\ proc' = [proc EXCEPT !.pc = ok, !.held = @ \cup {"file_p"}]
     /\ kernel' = [kernel EXCEPT !.out = <<>>]
  \/ Fails(err)

\* fclose() writes what fwrite() has left in the buffer, proc.local. Nobody
\* looks at its result.
Flush(pc) ==
  \/ /\ proc' = [proc EXCEPT !.pc = pc, !.held = @ \ {"file_p"}]
     /\ kernel' = [kernel EXCEPT !.out = proc.local]
  \/ /\ proc' = [proc EXCEPT !.pc = pc, !.held = @ \ {"file_p"}, !.ignored = TRUE]
     /\ UNCHANGED kernel

Buffered(data, pc) ==
  /\ proc' = [proc EXCEPT !.pc = pc, !.local = @ \o data, !.res = 0]
  /\ UNCHANGED kernel

\* fwrite() of an item of no bytes writes no item: an empty string cannot be
\* written.
ml_file_write_string ==
  \/ At("begin") /\ Truncate("write", "return")
  \/ At("write") /\ proc.arg # <<>> /\ (Buffered(proc.arg, "close") \/ Fails("close"))
  \/ At("write") /\ proc.arg = <<>> /\ Result(Failed, "close")
  \/ At("close") /\ Flush("return")

\* fread() of one item of the given size.
ml_file_read ==
  \/ At("begin") /\ Acquire("file_p", "read", "return")
  \/ At("read") /\ proc.arg \in 1 .. Len(Input) /\ Get(Prefix(proc.arg), "close", "close")
  \/ At("read") /\ proc.arg \notin 1 .. Len(Input) /\ Result(Failed, "close")
  \/ At("close") /\ Release("file_p", "return")

\* One chunk: read() and write() of less than that is an error. What was
\* written of the chunk stays in the file.
dd_copy_chunk(done, size) ==
  \/ At("read") /\ done + size <= Len(Input) /\ (Goto("write") \/ Fails("free"))
  \/ At("read") /\ done + size > Len(Input) /\ (Result(Failed, "free") \/ Fails("free"))
  \/ At("write") /\ Call([kernel EXCEPT !.out = Prefix(done + size)], "chunk", "free")
  \/ /\ At("write")
     /\ \E part \in 0 .. size - 1 :
          /\ kernel' = [kernel EXCEPT !.out = Prefix(done + part)]
          /\ proc' = [proc EXCEPT !.pc = "free", !.res = Failed, !.fault = TRUE]

Least(a, b) == IF a < b THEN a ELSE b

\* The labels free, out2 and out1 release what has been opened so far, in the
\* order of the code; success comes to the same.
ml_dd ==
  LET done == Len(kernel.out)
      left == proc.arg.total_size - done
  IN  \/ At("begin") /\ Acquire("fdin", "open", "return")
      \/ /\ At("open")
         /\ \/ /\ proc' = [proc EXCEPT !.pc = "malloc", !.held = @ \cup {"fdout"}]
               /\ kernel' = [kernel EXCEPT !.out = <<>>]
            \/ Fails("out1")
      \/ At("malloc") /\ Acquire("buf_p", "chunk", "out2")
      \/ At("chunk") /\ left > 0 /\ Goto("read")
      \/ At("chunk") /\ left = 0 /\ Result(0, "free")
      \/ dd_copy_chunk(done, Least(proc.arg.chunk_size, left))
      \/ At("free") /\ Release("buf_p", "out2")
      \/ At("out2") /\ Release("fdout", "out1")
      \/ At("out1") /\ Release("fdin", "return")

-----------------------------------------------------------------------------
(* Loops over what is read, to the output of the command in proc.local.      *)

\* ml_print_file() and command_cat(). A read that fails ends the loop as the
\* end of the file does; the output may fail too.
CopyOut ==
  LET chunk == SubSeq(Input, Len(proc.local) + 1, Least(Len(proc.local) + Chunk, Len(Input)))
  IN  \/ At("begin") /\ Acquire("fin_p", "copy", "return")
      \/ /\ At("copy") /\ chunk # <<>>
         /\ \/ Buffered(chunk, "copy")
            \/ Fails("close")
            \/ FailsUnseen("close")
      \/ At("copy") /\ chunk = <<>> /\ Goto("close")
      \/ At("close") /\ Release("fin_p", "return")

cat == CopyOut

\* As cat, but there is no result.
ml_print_file == CopyOut

\* What has been opened is read entry by entry; start: res before the first. An
\* entry that cannot be read ends the loop as the last one does.
Entry == Entries[Len(proc.local) + 1]

Listing(what, start, Item) ==
  \/ /\ At("begin")
     /\ \/ /\ proc' = [proc EXCEPT !.pc = "next", !.held = @ \cup {what}, !.res = start]
           /\ UNCHANGED kernel
        \/ Fails("return")
  \/ At("next") /\ Len(proc.local) < Len(Entries) /\ Item
  \/ At("next") /\ Len(proc.local) = Len(Entries) /\ Goto("close")
  \/ At("close") /\ Release(what, "return")

Each == Reads(Entry, "next") \/ FailsUnseen("close")

ls == Listing("dir_p", 0, Each)
dmesg == Listing("fd", 0, Each)

\* lstat() and statvfs() of each entry.
ll == Listing("dir_p", Failed, Each \/ Fails("close"))
ml_print_file_systems_space_usage == Listing("fin_p", Failed, Each \/ Fails("close"))

\* Addresses that cannot be set, or do not answer, are passed over.
i2c_scan ==
  Listing("fd", 0, Reads(Entry, "next") \/ Reads("nothing", "next"))

\* Two readings of /proc/stat, 500 ms apart, of at most length lines. The
\* second has to have as many lines as the first; processors come and go.
read_cpus_stats(a, b, c, length, ok) ==
  \/ At(a) /\ Acquire("file_p", b, "return")
  \/ At(b) /\ (Fails(c) \/ \E n \in 1 .. length : Reads(n, c))
  \/ At(c) /\ Release("file_p", IF proc.res = 0 THEN ok ELSE "return")

ml_get_cpus_stats ==
  \/ read_cpus_stats("begin", "read1", "close1", proc.arg, "again")
  \/ read_cpus_stats("again", "read2", "close2", proc.local[1], "compare")
  \/ At("compare") /\ proc.local[1] = proc.local[2] /\ Goto("return")
  \/ At("compare") /\ proc.local[1] # proc.local[2] /\ Fails("return")

\* The file is printed under the mutex that protects find_fout_p.
find ==
  \/ At("begin") /\ Acquires("mutex", "walk")
  \/ At("walk") /\ proc.arg \in 1 .. 2 /\ Call(kernel, "unlock", "unlock")
  \/ At("walk") /\ proc.arg \notin 1 .. 2 /\ Refuses("unlock")
  \/ At("unlock") /\ Release("mutex", "return")

\* ml_hexdump_file() looks at no result but that of fseek().
dump ==
  \/ At("begin") /\ Acquire("file_p", "seek", "return")
  \/ At("seek") /\ Call(kernel, "close", "close")
  \/ At("close") /\ Release("file_p", "return")

command_hexdump(argv) ==
  IF \/ Len(argv) = 2
     \/ Len(argv) = 3 /\ atoi(argv[2]) >= 0
     \/ Len(argv) = 4 /\ atoi(argv[2]) >= 0 /\ atoi(argv[3]) >= 0
  THEN [fn |-> "dump", arg |-> <<>>]
  ELSE Usage

-----------------------------------------------------------------------------
(* Commands that write.                                                      *)

print ==
  \/ At("begin") /\ Truncate("text", "return")
  \/ At("text") /\ (Buffered(proc.arg, "newline") \/ Fails("close"))
  \/ At("newline") /\ (Buffered(<<10>>, "close") \/ Fails("close"))
  \/ At("close") /\ Flush("return")

\* The arguments in turn, up to the first that cannot be removed.
rm ==
  LET path == proc.arg[Len(proc.local) + 1]
  IN  \/ /\ At("begin") /\ Len(proc.local) < Len(proc.arg)
         /\ \/ /\ File(path) \in kernel.objects
               /\ kernel' = [kernel EXCEPT !.objects = @ \ {File(path)}]
               /\ proc' = [proc EXCEPT !.local = Append(@, path)]
            \/ Fails("return")
      \/ At("begin") /\ Len(proc.local) = Len(proc.arg) /\ Goto("return")

\* mkdir, mknod and mount make what is not there, and the kernel refuses to
\* make it twice, as it does for one device on one directory; umount and rmmod
\* take what is there.
make ==
  /\ At("begin")
  /\ IF proc.arg \in kernel.objects THEN Fails("return")
     ELSE Call([kernel EXCEPT !.objects = @ \cup {proc.arg}], "return", "return")

unmake ==
  /\ At("begin")
  /\ IF proc.arg \notin kernel.objects THEN Fails("return")
     ELSE Call([kernel EXCEPT !.objects = @ \ {proc.arg}], "return", "return")

(* What the commands make of their arguments.                                *)

command_cat(argv) == Takes(argv, {2}, "cat", <<>>)
command_ls(argv) == [fn |-> "ls", arg |-> <<>>]
command_ll(argv) == [fn |-> "ll", arg |-> <<>>]
command_df(argv) == [fn |-> "df", arg |-> <<>>]
command_dmesg(argv) == Takes(argv, {1}, "dmesg", <<>>)
command_top(argv) == Takes(argv, {1}, "top", MaximumCpus)
command_find(argv) == [fn |-> "find", arg |-> Len(argv)]
command_print(argv) == Takes(argv, {3}, "print", argv[2])
command_rm(argv) == IF Len(argv) < 2 THEN Usage ELSE [fn |-> "rm", arg |-> Tail(argv)]
command_mkdir(argv) == Takes(argv, {2}, "make", File(argv[2]))
command_mount(argv) == Takes(argv, 4 .. 5, "make", Mount(argv[3]))
command_umount(argv) == Takes(argv, {2}, "unmake", Mount(argv[2]))
command_rmmod(argv) == Takes(argv, 2 .. 3, "unmake", Module(argv[2]))
command_insmod(argv) == Takes(argv, 2 .. 3, "ml_insert_module", Module(argv[2]))

command_mknod(argv) ==
  IF \/ Len(argv) = 3 /\ argv[3] = "p"
     \/ Len(argv) = 5 /\ argv[3] \in {"c", "b"}
  THEN [fn |-> "make", arg |-> File(argv[2])] ELSE Usage

command_i2c(argv) ==
  IF Len(argv) = 3 /\ argv[2] = "scan" THEN [fn |-> "i2c_scan", arg |-> <<>>] ELSE Usage

command_dd(argv) ==
  Takes(argv, {5}, "ml_dd", [total_size |-> atoi(argv[4]), chunk_size |-> atoi(argv[5])])

-----------------------------------------------------------------------------
Data == {<<>>, <<1>>, <<1, 2>>}

FilesBegin ==
  \/ \E data \in Data : Begin([fn |-> "ml_file_write_string", arg |-> data])
  \/ \E size \in 0 .. Len(Input) + 1 : Begin([fn |-> "ml_file_read", arg |-> size])
  \/ \E arg \in [total_size : 0 .. Len(Input) + 1, chunk_size : 1 .. 2] :
       Begin([fn |-> "ml_dd", arg |-> arg])
  \/ Begin([fn |-> "ml_print_file", arg |-> <<>>])
  \/ \E argv \in {<<"name">>, <<"name", "a">>, <<"name", "a", "b">>, <<"name", "b", "a", "a">>,
                   <<"name", "b", "a", "one", "two">>} :
       \/ Begin(command_cat(argv)) \/ Begin(command_ls(argv)) \/ Begin(command_ll(argv))
       \/ Begin(command_df(argv)) \/ Begin(command_dmesg(argv)) \/ Begin(command_top(argv))
       \/ Begin(command_find(argv)) \/ Begin(command_rm(argv)) \/ Begin(command_mkdir(argv))
       \/ Begin(command_mount(argv)) \/ Begin(command_umount(argv)) \/ Begin(command_rmmod(argv))
       \/ Begin(command_insmod(argv)) \/ Begin(command_dd(argv)) \/ Begin(command_hexdump(argv))
  \/ \E argv \in {<<"mknod", "a">>, <<"mknod", "b", "p">>, <<"mknod", "b", "c", "one", "one">>,
                   <<"mknod", "a", "d", "one", "one">>} : Begin(command_mknod(argv))
  \/ \E argv \in {<<"i2c", "scan">>, <<"i2c", "scan", "a">>} : Begin(command_i2c(argv))
  \/ \E argv \in {<<"hexdump", "minus", "a">>, <<"hexdump", "one", "minus", "a">>} :
       Begin(command_hexdump(argv))
  \/ \E data \in Data : Begin(command_print(<<"print", data, "file">>))

FilesStep ==
  \/ In("ml_insert_module") /\ ml_insert_module
  \/ In("ml_file_write_string") /\ ml_file_write_string
  \/ In("ml_file_read") /\ ml_file_read
  \/ In("ml_dd") /\ ml_dd
  \/ In("ml_print_file") /\ ml_print_file
  \/ In("cat") /\ cat
  \/ In("ls") /\ ls
  \/ In("ll") /\ ll
  \/ In("df") /\ ml_print_file_systems_space_usage
  \/ In("dmesg") /\ dmesg
  \/ In("i2c_scan") /\ i2c_scan
  \/ In("top") /\ ml_get_cpus_stats
  \/ In("find") /\ find
  \/ In("dump") /\ dump
  \/ In("print") /\ print
  \/ In("rm") /\ rm
  \/ In("make") /\ make
  \/ In("unmake") /\ unmake

\* What a call that returned without an error has done. A failure that was
\* ignored may have cut it short.
FilesDone ==
  LET before == proc.before
      arg == proc.arg
      Whole(v, w) == IF proc.ignored THEN IsPrefix(v, w) ELSE v = w
  IN  CASE In("ml_insert_module") \/ In("make") -> kernel = [before EXCEPT !.objects = @ \cup {arg}]
        [] In("unmake") -> kernel = [before EXCEPT !.objects = @ \ {arg}]
        [] In("rm") -> kernel = [before EXCEPT !.objects = @ \ {File(arg[i]) : i \in DOMAIN arg}]
        [] In("ml_file_write_string") -> Whole(kernel.out, arg)
        [] In("print") -> Whole(kernel.out, arg \o <<10>>)
        [] In("ml_file_read") -> kernel = before /\ proc.local = <<Prefix(arg)>>
        [] In("ml_dd") -> kernel = [before EXCEPT !.out = Prefix(arg.total_size)]
        [] In("cat") \/ In("ml_print_file") -> kernel = before /\ Whole(proc.local, Input)
        [] In("ls") \/ In("ll") \/ In("df") \/ In("dmesg") -> kernel = before /\ Whole(proc.local, Entries)
        [] In("i2c_scan") ->
             /\ kernel = before
             /\ Len(proc.local) = Len(Entries)
             /\ \A i \in DOMAIN Entries : proc.local[i] \in {Entries[i], "nothing"}
        [] In("top") -> kernel = before /\ proc.local[1] = proc.local[2]
        [] OTHER -> kernel = before

\* What a call that failed has done, and why it may fail when no system call
\* did: an empty string, a file that is too short, a list without an entry.
FilesUndone ==
  CASE In("ml_dd") ->
         \/ kernel = proc.before
         \/ IsPrefix(kernel.out, Input) /\ Len(kernel.out) <= proc.arg.total_size
    [] In("ml_file_write_string") -> kernel = proc.before \/ IsPrefix(kernel.out, proc.arg)
    [] In("print") -> kernel = proc.before \/ IsPrefix(kernel.out, proc.arg)
    [] In("rm") -> \E n \in 0 .. Len(proc.arg) - 1 :
                     kernel.objects = proc.before.objects \ {File(proc.arg[i]) : i \in 1 .. n}
    [] OTHER -> kernel = proc.before

FilesRefuses ==
  \/ In("ml_file_write_string") /\ proc.arg = <<>>
  \/ In("ml_file_read") /\ proc.arg \notin 1 .. Len(Input)
  \/ In("ml_dd") /\ proc.arg.total_size > Len(Input)
  \/ (In("ll") \/ In("df")) /\ Entries = <<>>

=============================================================================
