------------------------------ MODULE Process -------------------------------
(* A thread inside one of the library's functions that wrap system calls.    *)
(* Every system call can fail, and the code decides what happens then. The   *)
(* kernel keeps what earlier calls did, those that failed halfway included.  *)
EXTENDS Integers, Sequences, FiniteSets

VARIABLES proc,   \* the call that is made, if any
          kernel  \* what the kernel keeps, a record of the component's own

procVars == <<proc, kernel>>

Idle == [fn |-> "none"]

Failed == -1   \* any negative result

\* held: what the call has opened, allocated or locked; res: the variable res;
\* local: values the call has read; fault: a system call failed; ignored: one
\* failed and the code does not look; usage: the arguments were refused;
\* before: the kernel when the call was made.
Begin(call) ==
  /\ proc = Idle
  /\ proc' = [fn |-> call.fn, arg |-> call.arg, pc |-> "begin", held |-> {}, res |-> 0,
              local |-> <<>>, fault |-> FALSE, ignored |-> FALSE, usage |-> FALSE,
              before |-> kernel]
  /\ UNCHANGED kernel

In(fn) == proc.fn = fn
At(pc) == proc.pc = pc

Returned == proc # Idle /\ proc.pc = "return"

Return ==
  /\ Returned
  /\ proc' = Idle
  /\ UNCHANGED kernel

Goto(pc) ==
  /\ proc' = [proc EXCEPT !.pc = pc]
  /\ UNCHANGED kernel

Result(res, pc) ==
  /\ proc' = [proc EXCEPT !.pc = pc, !.res = res]
  /\ UNCHANGED kernel

Fails(pc) ==
  /\ proc' = [proc EXCEPT !.pc = pc, !.res = Failed, !.fault = TRUE]
  /\ UNCHANGED kernel

\* A failure that leaves res as it is.
FailsUnseen(pc) ==
  /\ proc' = [proc EXCEPT !.pc = pc, !.ignored = TRUE]
  /\ UNCHANGED kernel

\* open(), socket(), fopen(), malloc() and the like.
Acquires(what, ok) ==
  /\ proc' = [proc EXCEPT !.pc = ok, !.held = @ \cup {what}]
  /\ UNCHANGED kernel

Acquire(what, ok, err) == Acquires(what, ok) \/ Fails(err)

Release(what, pc) ==
  /\ proc' = [proc EXCEPT !.pc = pc, !.held = @ \ {what}]
  /\ UNCHANGED kernel

\* A system call that leaves the kernel as k.
Call(k, ok, err) ==
  \/ kernel' = k /\ proc' = [proc EXCEPT !.pc = ok, !.res = 0]
  \/ Fails(err)

\* A system call that reads v.
Reads(v, ok) ==
  /\ proc' = [proc EXCEPT !.pc = ok, !.res = 0, !.local = Append(@, v)]
  /\ UNCHANGED kernel

Get(v, ok, err) == Reads(v, ok) \/ Fails(err)

\* A command that is called with arguments it does not take: it prints how it
\* is used and returns -EINVAL.
Usage == [fn |-> "usage", arg |-> <<>>]

\* A command that looks at the number of its arguments alone.
Takes(argv, lengths, fn, arg) ==
  IF Len(argv) \in lengths THEN [fn |-> fn, arg |-> arg] ELSE Usage

Refuses(pc) ==
  /\ proc' = [proc EXCEPT !.pc = pc, !.res = Failed, !.usage = TRUE]
  /\ UNCHANGED kernel

UsageStep == In("usage") /\ At("begin") /\ Refuses("return")

\* atoi() and inet_addr() of the words that the instances use: what is not a
\* number is zero, what is not an address is INADDR_NONE.
Digits == [zero |-> 0, one |-> 1, two |-> 2, minus |-> -1]
atoi(word) == IF word \in DOMAIN Digits THEN Digits[word] ELSE 0

INADDR_NONE == "INADDR_NONE"
inet_addr(word) == IF word \in {"10.0.0.1", "10.0.0.2"} THEN word ELSE INADDR_NONE

=============================================================================
