# TLA+ models of the Monolinux C library

These modules model the Monolinux C library. The parts that are concurrent, or
that keep a state over time, have a module each: message queues, reference
counted messages, the message bus, the worker pool, the timer handler, the DHCP
client, the one wire thread and the line editor of the shell. The functions around
system calls, the file of log levels, the core dumps and the functions without
state are the areas of one more specification. TLC checks all of them on small
instances; TLAPS proves all properties of states that are not about a fold over data
or the screen of a terminal, and most action properties, for every value of the
constants.

Run TLC with `tlc -config <cfg> <module>`, and the proofs with
`tlapm <module>.tla` for each module whose name ends in `Proof`.

## The system

The library is a set of C modules for applications that run as the init process
of a small Linux system. Its parts, the state they keep and how they interact:

| part | state | operations | uses |
|---|---|---|---|
| queue (`ml_queue.c`) | ring of pointers, read and write position, mutex, two condition variables, on put callback | init, destroy, set_on_put, put, get | |
| message (`ml_message.c`) | header with uid, reference count and on free callback; one mutex for all counts | alloc, set_on_free, share, free | |
| bus (`ml_bus.c`) | array of (uid, queues), sorted by uid | subscribe, broadcast | message, queue |
| worker pool (`ml_worker_pool.c`) | one queue of jobs, a fixed number of threads | spawn | message, queue |
| timer handler (`ml_timer.c`) | sorted list of active timers with differences in ticks, mutex, timerfd; in each timer, counters of outstanding messages and of messages to ignore | start, stop, is_message_valid, tick | message, queue |
| DHCP client (`ml_dhcp_client.c`) | state, socket, four timerfds, what the last offer said | start, stop, join, events | network |
| one wire (`ml_one_wire.c`) | state of the sensor, active request, sequence number | start, read_temperature, events | queue, timer, netlink |
| shell (`ml_shell.c`) | line being edited, history, registered commands | edit, complete, search, execute | log object |
| log objects (`ml_log_object.c`) | list of log objects and their levels, file of levels | register, load, store, set_level, print | |
| NTP client (`ml_ntp_client.c`), RTC (`ml_rtc.c`) | none; the clocks of the kernel | sync, get and set time | |
| network (`ml_network.c`) | none; addresses, flags, routes, links and filters of the kernel | configure, up, down, add_route, link_configure, filters, and three commands of the shell | |
| device mapper (`ml_device_mapper.c`) | none; the devices of the kernel | verity_create | |
| checksum (`ml_inet.c`) | none | begin, acc, end | |
| core (`ml.c`) | none; files and directories | files, ml_dd, hexdump, statistics, core dumps | |

Threads communicate only by messages on queues and by the mutexes named above.
A thread that waits for several things uses poll() on file descriptors; a queue
takes part in this by an on put callback that writes an eventfd.

What is hard here:

* *Interleaving.* put and get may run in any number of threads, and
  pthread_cond_signal() wakes at least one waiting thread, no matter which.
  Broadcast messages are shared by readers that free them at the same time.
* *Messages in flight.* A timer is stopped while expiry messages of it are in
  its queue. A DHCP answer arrives after the client has given up waiting for it.
* *Blocking.* put waits if a queue is full, whoever calls it: the bus in the
  middle of a broadcast, a job inside a worker thread, and tick() with the mutex
  of the timer handler held.
* *Failure.* Every system call of the DHCP client may fail in every state, and
  its packets may be lost, duplicated, delayed and reordered.
* *Waiting for an answer.* A thread that reads a temperature holds a mutex and waits
  for the one response of a thread that talks to the kernel, over a socket that
  others use too.
* *Differences.* The shell prints only what changes: what is shown and what is
  edited must stay in step for every sequence of keys.
* *Partial failure.* A function makes several system calls, and one in the middle
  fails: what has been opened must be closed, and the result must say so.
* *Crashes.* The application is killed while it stores its log levels; the power is
  lost while core dumps are written, several at the same time.
* *Numbers.* The ring wraps; the differences in the timer list are unsigned; the
  unsigned lease time of a DHCP offer is stored in an int and halved.

The hazards are listed one by one, each with the line where it bites and the
properties about it, in `PROJECT.json`.

## Modules

| module | models | checked by |
|---|---|---|
| `Fifo` | what a queue promises: a bounded FIFO | refined by `Queue` |
| `Queue` | `ml_queue.c`, statement by statement | `MCQueue`, `QueueProof` |
| `QueueProof` | theorems about `Queue` | TLAPS |
| `Bus` | `ml_bus.c` and `ml_message.c`, on FIFO queues | `MCBus`, `BusProof` |
| `BusProof` | theorems about `Bus` | TLAPS |
| `Countdown` | what the timer handler promises: independent countdowns | refined by `Timer` |
| `Timer` | `ml_timer.c` with an application thread and time | `MCTimer`, `TimerProof` |
| `TimerProof` | theorems about `Timer` and `Countdown` | TLAPS |
| `WorkerPool` | `ml_worker_pool.c`, on a FIFO queue | `MCWorkerPool`, `WorkerPoolProof` |
| `WorkerPoolProof` | theorem about `WorkerPool` | TLAPS |
| `DhcpClient` | `ml_dhcp_client.c` with network and servers | `MCDhcpClient`, `DhcpClientProof` |
| `DhcpClientProof` | theorems about `DhcpClient` | TLAPS |
| `OneWire` | `ml_one_wire.c` with callers, timer and kernel | `MCOneWire`, `OneWireProof` |
| `OneWireProof` | theorems about `OneWire` | TLAPS |
| `Terminal` | a row of a terminal and its control sequences | used by `Shell` |
| `Shell` | the line editor of `ml_shell.c` | `MCShell`, `ShellProof` |
| `ShellProof` | theorems about `Shell` | TLAPS |
| `Process` | a thread in a function around system calls that may fail | used by the next four |
| `Network` | `ml_network.c` with its shell commands | `MCLibrary`, `LibraryProof` |
| `DeviceMapper` | `ml_device_mapper.c` | `MCLibrary`, `LibraryProof` |
| `Clock` | `ml_ntp_client.c`, `ml_rtc.c`, commands date and ntp_sync | `MCLibrary`, `LibraryProof` |
| `Files` | files and devices of `ml.c`, and the commands on them | `MCLibrary`, `LibraryProof` |
| `Algorithms` | `ml_inet.c`, the argument parser, ml_strip(), the hexdump, NTP seconds | `MCLibrary` |
| `LogObject` | `ml_log_object.c`, with an application that is killed | `MCLibrary`, `LibraryProof` |
| `Coredump` | ml_finalize_coredump() of `ml.c`, with loss of power | `MCLibrary`, `LibraryProof` |
| `Library` | the composition of these | `MCLibrary`, `LibraryProof` |
| `LibraryProof` | theorems about the calls, the log levels and the core dumps of `Library` | TLAPS |

`Bus`, `Timer`, `WorkerPool` and `OneWire` use a queue as a sequence with an atomic put and
an atomic get. That is what `Fifo` says, and `Queue` is proved to implement it.

Operators named *something*`_`*fault* next to a definition, with a comment that
starts with "Mutant", are variants with a plausible fault. No specification uses
them: they exist to show, by putting them in the place of the definition, that
the property named with them in `PROJECT.json` is violated by that fault.

### Queue

`pc` is the statement a thread executes next: `lock`, `check` (the condition of
the while loop), `push` or `pop`, `signal`, `unlock`, and `on_put` for the
callback; `wait` is pthread_cond_wait(). A woken thread goes back to `lock`, as
it evaluates the condition again. Locking, waiting and signalling follow POSIX:
a signal wakes a nonempty set of waiting threads, and a wait may end
spuriously. `phase` keeps the rules of use of `ml.h`: the callback is set before
the queue is used, and the queue is destroyed when nobody uses it. With a
callback, a getter takes one event before it calls get, as the one wire thread
does. `events` is the value of an eventfd opened with EFD_SEMAPHORE.

`ml.h` says that only one thread may get messages from a queue, yet the worker
pool reads its queue from several threads. The model allows any number of
getters, and all properties hold for them.

### Bus

`elems` is the sorted array. qsort() and bsearch() of the C library are modelled by
what they do: some permutation that is in order, and a search that halves the array.
`subscriptions` remembers the calls of subscribe as a reference to compare with. Each producer allocates a
message, and broadcasts it or puts it on one queue; each queue has a thread that
gets a message and frees it. The put of a broadcast is one step per queue and
blocks while the queue is full; free is three steps, of which only the first is
under the mutex.

### Timer

`list` and `delta` are the linked list. tick() holds the mutex throughout but is
several steps, as it may wait in put; the critical sections of the application
are one step each. `AdvanceTime` passes a millisecond whatever the threads do.
The number of expirations that read() returns is ignored in the code, so several
ticks may become one, and one tick may be handled late. `elapsed` and `timeout`
are history for the properties about time; the flag `stale` in a message, which
no code reads, says whether its timer was stopped after it was put.

### WorkerPool

Threads outside the pool spawn jobs; the entry of a job may spawn one job.
`Standstill` is the state that the pool cannot leave: the queue is full and every
worker is inside a job that puts another one on it.

### DhcpClient

The client is a record, and its functions are operators on the record; `ok` is
the set of system calls that succeed, chosen anew for each pass of the loop of
client_main(). A packet is reduced to what the client tells apart: an offer with
an address and a lease, an acknowledgement, a refusal, or anything that
unpack_packet() drops. Time is abstract: an armed timer expires at some point.
The rebinding timer, which is armed with the renewal timer and is ten seconds
longer, does not expire before it. `requested` and three fields of the client are
history for the properties: `interval` is the renewal interval of the last lease, which
a later offer overwrites in the client, `set` the timers of that lease that were set, as
timerfd_settime() fails for a negative time, and `open` whether its UDP socket was opened.
The model stands for a client in a process in which no other code opens
descriptors: a closed descriptor stays closed, and is not reused.

### OneWire

Callers lock the mutex, put a request on the queue of the thread and wait for the
response. The thread handles one event of its epoll set at a time: a message of
its queue (a request, or the timeout of the conversion timer) or a message of the
netlink socket. A netlink message is its sequence number and the outcome of one
command. The kernel answers each message that is sent with success or failure of
its commands, or, in a run with that failure, not at all. The messages of other processes
that the socket hears have any number, as theirs may count from 1 too, and the one of
no request, -1; the code only compares the number, and `mistaken` remembers that one of
them was taken for an answer. `Failures` also has
what may go wrong in the library: sending, the calls in init(), epoll_wait(), and
the first evaluation of the loop condition, which reads a variable that has no
value yet. A put on the queue of no request ends the process ("crashed"). `converted`,
`mistaken` and `unanswered` are history for the properties; `converted` follows the
conversion of the last request: its timer is "running", or the conversion is "done",
or a timeout of an earlier request was taken for the end of it ("early").

### Shell

A step handles a key: a character, or an escape sequence as a whole, as nothing
happens between its characters. `line` is the buffer with its cursor; `history` is
the list from head to tail, and `current` a position in it. The functions on
struct line_t and the completion are operators on lines; the loop of
auto_complete_command() is the least number of characters after which it stops.
`term` is what `Terminal` shows after everything that was printed: show_line(),
Ctrl+R and the list of commands print control sequences relative to where they
believe the cursor is. Text of the search prompt is reduced to its width.
`pattern`, `match` and `saved` are empty while the code does not use them.
`origin` is history: the line when the walk through the history began. The text
of a terminal of finite width would wrap; that is not modelled.

The default case of read_command() inserts every byte that is no key. Those that are
not printable (`Unprintable`: Ctrl+L, Ctrl+U, the bytes of UTF-8) go into the line, the
history and the completion like any other; the search takes printable ones only. On the
terminal they do something else than fill a cell, and what it shows then is `Garbled`
until the row is begun anew. Of these bytes ml_strip() takes the form feed (Ctrl+L) off
the ends of a command, and NUL (Ctrl+Space), which ends the string it is inserted in, is
not in the model.

### Process, Network, DeviceMapper, Clock, Files

A call is a record: the function, its arguments, the label it is at, what it holds,
the variable `res` and what it has read. One step is one system call, which may
fail; `goto out` is a label. `kernel` is what the kernel keeps, and keeps from call
to call: a call starts from whatever an earlier one left behind when it failed
halfway. `fault`, `ignored`, `usage` and `before` are history for the properties: a
call failed, it failed and the code does not look at it, the arguments were
refused, and the kernel at the beginning. A shell command is a function from its
arguments to the call that it makes, or to `Usage`.

The kernel is external: an interface with an address, flags and routes, a link with
three settings, a packet filter with a verdict for each hook, a device with a node
and a table, two clocks, a file that is read, a file that is written, and a set of
directories, nodes, mounts and modules. Streams of the C library have a buffer that
fclose() writes. `Network` assumes one caller at a time: ml_network_interface_up()
and _down() read all flags and write them back, and the code has no lock that would
keep two of them, or another program, apart.

### Algorithms

The functions are translated as the code computes them, loops as folds, beside a
definition of what they are to compute (`OnesComplementSum`, `Meaning`, and the
statement of `DumpMatches`). Characters are the five that parse_argument() and
ml_strip() tell apart. ml_strip() is in `Shell` too, where a character is what a
terminal shows. A byte of a file is its position. `BYTE`, `ARGS_MAX`, `LINE_SIZE`,
`BUF_SIZE`, `NTP_ERA` and `JAN_1900_TO_1970` stand for the numbers of the code, and
`Word` and `Acc`, the widths of the sum and its accumulator, follow from `BYTE`.

### LogObject

`list` is the linked list, `file` the lines of the file and how many half lines of
them have left the buffer of the C library: `StoreFlush` writes any part at any
time. A load reads the file at once and applies a line per step. The application
may be killed at every step, and the file survives or is lost, as it is on a file
system in memory by default. A level without a name is stored as three words, at
which a load ends. At first there may be a file that was written by hand: a line with
a name that no object has, or a word that is no level, before a line that counts, or that
lacks its newline. For `LevelsSurvive` the whole lines that count are what was stored. A load and a store do not overlap, as applications load before
they start their shell.

### Coredump

Each dump is a process: one lstat() of find_slot(), the mkdir() and chdir(), each
file, and sync() are a step, and may fail. An lstat() that fails for a slot that is taken
makes it pass for free, and mkdir() and the files then meet what is there. `owed` is
history: the dump must be complete, and kept; it is withdrawn if another ran beside it, a
call of it failed, or a later dump failed in the lstat() of its slot. Several dumps run at
the same time. `durable` is what the
disk has: after a loss of power every slot is as it was at the last sync() or as it
was in memory.

### Library

The areas share nothing, so a behaviour is about one of them (`area`), and the rest
of the state stays as it is. A function without state is evaluated for one `input`.

## Runs

Passing:

* **queue** (`MCQueue.cfg`): two putters, two getters, two messages, a ring of
  two. Two threads of each kind make signals ambiguous, and a ring of two (three
  slots) wraps and has states between empty and full. `MutualExclusion`: the
  condition a thread evaluated still holds when it pushes or pops.
  `NoLostWakeup`: a getter waits only if another thread is on its way for each
  message in the ring, and the same for putters and slots. `EventPerMessage`: a
  reader that took an event never waits in get. `ImplementsFifo`: each message
  is delivered once and in order. `OldestIsTaken`: the oldest message is got.
* **bus** (`MCBus.cfg`): a producer, two readers, queues of one message, two
  messages, up to three subscriptions to two uids, in any order and also twice
  by the same queue. `SubscribersAreFound`: binary search finds what was
  subscribed. `CountIsReferences` and `ReachableIsIntact`: the count is the
  number of references, and what can be reached is not freed. `SubscribersReceive`,
  `NoLeak`: everybody gets the message, and it is freed.
* **timer** (`MCTimer.cfg`): three timers, so that one is inserted and removed
  in the middle of the list; single shot and periodic; a queue of one message,
  so that three messages are in flight: one held, one queued, one being put.
  `CountersMatchFlight`, `StaleIsInvalid`: exactly the messages put before the
  last stop are rejected. `ImplementsCountdown`: a timer's expiry does not depend
  on the others.
* **timer_time** (`MCTimerLive.cfg`): two timers and a tick of two milliseconds.
  `LessThanTwoTicksEarly` bounds how early a timer may expire; `StartedExpires`
  and `CheckReturns` say that timers expire and that the application is never
  blocked. The application restarts a timer only when it has handled its
  message, and its queue has room for a message of each timer.
* **worker_pool** (`MCWorkerPool.cfg`): two workers, two spawning threads, two
  jobs that spawn another and two that do not, room for two jobs. `JobRunsOnce`: a job
  is in one place and called once. `SpawnedIsRun`: it is called, unless the pool
  comes to a `Standstill`. Both workers can be inside a job that spawns while the other
  two jobs fill the queue, so that the run has a standstill, which is why it may end;
  the property says that nothing else keeps a job from being called.
* **dhcp** (`MCDhcpClient.cfg`): all failures, two packets in flight, and leases of
  0 seconds, which is refused, 1, 4, and 40 where `INT_MAX` is 31, one that is negative
  as an int. `NeverStuck`: in every state a timer is pending that leads out of it, with
  the exception of the bound state of a lease without a renewal interval.
  `NoStaleTimeout`: no timer of an earlier state or lease is pending. There are two
  exceptions: enter_bound() sets the renewal timer before it opens the UDP socket, and
  if that fails enter_init() does not cancel it; it is left armed and the states up to
  the next lease ignore it. If the next lease has 2^31 seconds or more, its timers are not
  set, and one of the old lease may expire in the new one. `SocketFitsState`: the socket
  is the one the state needs.
* **dhcp_liveness** (`MCDhcpClientLive.cfg`): `BoundAgainAndAgain`,
  `LeaseIsRenewed`, after any finite number of failures and losses, except for a
  failure to open the packet socket: the result of setup_packet_socket() is
  ignored in enter_init(), and no later step tries again.

* **one_wire** (`MCOneWire.cfg`): two callers, sequence numbers up to three, so that
  they start over, all failures, and a message of another process with any number.
  `OneAnswerPerRequest`: a response for each caller that waits and none left over, whatever
  others say. `TimeoutIsExpected`: the timeout, which is handled whatever the state is,
  comes only in the state that waits for it, and only a request that is there is answered.
  `ConvertedBeforeRead`: no temperature without the 750 ms that the conversion of the same
  request takes. These two hold until a message of another process with the awaited
  number is taken for the answer, and not after it, as said below. One such message is
  enough for all that can follow; one with another number may come in any state. `ReadReturns`: a caller gets its answer, unless the thread is
  not there or the kernel is silent. The exceptions are needed: init() may fail
  unnoticed, the loop condition reads an uninitialized variable, an interrupted
  epoll_wait() ends the thread, and there is no timeout for an answer; the caller
  then waits for ever with the mutex held, and every other caller with it. The
  run may end, when the thread has ended and all callers wait.
* **shell** (`MCShell.cfg`): all sequences of keys with the characters a and blank and a
  byte that is not printable, lines of at most two characters, a history of two lines,
  commands aa and ab, and memory that may be short. `MCBound` keeps the history at one
  line while such a byte is in a line or in the history. Two characters are enough for every position of the
  cursor relative to the ends, and a history of two for a head that is dropped and
  a walk with more than one step. `HistoryIsSound`, `MatchIsLatest`,
  `DownReturns`; `CompletionIsCommon` compares completion with the longest common
  prefix of the commands; `ScreenFollowsLine`: what is shown stays in step with
  what is edited, when the cursor is at the end of the line. When it is not,
  these keys may break it, which the property names: UP, DOWN or the end of a search, if
  the line recalled from the history is a prefix of the shown one, which is then wiped
  out by the blanks that should move the cursor; Ctrl+R, which moves the cursor by the
  length of the line into the prompt; and TAB that lists the commands, which leaves the
  cursor at the end. A line or a match with a byte that is not printable is the other
  exception. The run may end, with the input or the shell.
* **library** (`MCLibrary.cfg`): the functions around system calls in any order,
  with every failure; two log objects (a symmetry set), two levels, a level without a name, and
  files edited by hand; three core dumps for two slots; all lines of up to six
  characters, all buffers of up to three bytes with all values of the accumulator,
  and files of up to ten bytes with all offsets and sizes around two chunks.
  `AllReleased`: whatever fails, a function that returns holds nothing, except for
  the entries of a filter that it hands out. `ReturnsTruth`: a success means that
  all was done, and nothing else, and an error that something failed and at most
  the first part was done, also after calls that failed halfway. `LevelsSurvive`:
  a load restores the levels of the last store, or of the file written by hand, or of a
  part of it, and no other. `DumpsAreKept`: a dump that was written alone and without a
  failure stays as it is, whatever dies later, whatever fails then and whenever power is
  lost, except for a later dump that fails in the lstat() of its slot. `ParseMatches`,
  `ChecksumMatches`, `DumpMatches`: the functions agree with their definitions.
  The checksum of all accumulators needs the second folding, six characters are
  enough for a quoted word with an escape beside another word, and a line of more
  arguments than `ARGS_MAX`.

The type invariant of each module is the first conjunct of one of its invariants
(`CountIsReferences`, `CountersMatchFlight`, `SocketFitsState`,
`OneAnswerPerRequest`, `HistoryIsSound`); `Queue` has it as an invariant of its own,
which is proved. `Library` has none: its state is records that the properties read.

Runs that find a disagreement between the code and what the repository says:

* **timer_blocked**: with a queue of one message, as in `test_timer.c`, tick() can
  wait for the reader of the queue while the reader waits for the mutex.
* **dhcp_late_offer**: an offer that arrives in the requesting state is not
  discarded: its address is configured instead of the one that was requested.

Other cases that the models show, without a run of their own:

* ml_dhcp_client_stop() only closes the descriptors. poll() then reports POLLNVAL for
  each of them at once, a positive number, so the loop of client_main() goes on for
  ever and ml_dhcp_client_join() does not return.
* A comment in ml_timer_start() says that the extra tick ensures that a timer does
  not expire early. A tick that is due, and that the handler has not handled yet,
  counts for a timer that is started meanwhile: a timer may expire up to two ticks
  early, and `LessThanTwoTicksEarly` is the bound that holds.
* DIV_CEIL wraps for a timeout of more than UINT_MAX - 99 milliseconds;
  `LessThanTwoTicksEarly` is then violated (`Timeouts = {63}`, `TICK = 2`,
  `UINT_MOD = 64`, `MaxElapsed = 63`).
* A lease of one second passes the check of the offer, its renewal interval is
  zero, and zero disarms the timer: with `Leases = {1}`, `LeaseIsRenewed` is
  violated. A lease of 2^31 seconds or more gives a negative interval: no timer is set,
  and only one that is left of an earlier lease ends the bound state.
* When the UDP socket of a lease cannot be opened the renewal timer stays armed, as
  said for the run dhcp.
* A message of another process with the awaited number is taken for the answer to a
  command of the one wire thread. An error, while the conversion timer runs, ends the
  request and leaves the timer armed. If no request follows, its timeout sends a read
  command without a request, and its answer is for a null pointer; if one has been made, its
  temperature is read before it is converted. When nothing is awaited, an error with the
  number -1 has the effect of the first case at once.
* With more jobs that spawn jobs than the queue of a worker pool has room for, all
  workers can wait for room that only they make (`Standstill`).
* An lstat() that fails for another reason than a missing directory makes find_slot()
  take a slot that is in use, and the core dump in it is overwritten.
* A byte that is not printable is inserted in the line, and the screen is out of step
  from there on. NUL (Ctrl+Space) ends the line where it is inserted: a command of NUL
  alone becomes an empty entry of the history, which `HistoryIsSound` excludes.
* If a command was recalled with UP and executed, the line that UP saved stays
  valid: DOWN at the next prompt replaces what was typed there by that line.
* TAB with the cursor inside the line inserts the rest of the command name at the
  cursor, not at the end.
* ml_network_interface_configure() that fails leaves the address, or the address and
  the mask, behind; `NetworkUndone` lists these cases.
* ml_device_mapper_verity_create() that fails after the device was created cannot be
  repeated: the name exists, nothing removes it, and every later call fails.
* ml_file_write_string() of an empty string truncates the file and returns an error,
  as fwrite() of an item of no bytes writes no item; ml_file_read() of zero bytes
  fails likewise.
* Nobody looks at the result of fclose(): ml_file_write_string(), the command print
  and ml_log_object_store() return success when the disk is full. `ReturnsTruth`
  says what holds then: the file has a prefix of what was written.
* A read that fails ends the loops of cat, ls, dmesg and ml_print_file() as the end
  of the file does, with success. For dmesg this includes the error that the kernel
  reports when messages were overwritten.
* ml_dd() with a chunk size of zero loops for ever: it reads and writes nothing, and
  takes nothing off the size that is left. The model has positive sizes.
* calc_cpu_load() divides by the time that passed between two readings, which is zero
  for a processor whose counters did not move. The model leaves out the loads.
* inet_addr() gives INADDR_NONE, that is 255.255.255.255, for a word that is no
  address, and it is configured.
* Two core dumps that look for a slot at the same time may get the same one, as the
  result of mkdir() is ignored; their files are then mixed. `DumpsAreKept` is about
  a dump that no other ran beside; later ones may race as they like.

### Bounds

`Capacity`, the sets of threads, timers, messages and jobs, and the sets of
timeouts, periods and leases are constants. `MaxSubscriptions` (bus),
`MaxElapsed` (timer), `MaxInFlight` (DHCP), `MaxForeign` and `MaxUnderWay` (one wire)
bound what would grow without limit: `MaxUnderWay` what is under way to and from the
kernel at a call, and only after a message of another was taken for an answer, as before
that an answer is waited for before the next command is sent. `UINT_MOD` and `INT_MAX` are small stand-ins for 2^32 and
2^31 - 1, `MAX_SEQNO`, `COMMAND_MAX` and `MAXIMUM_HISTORY_LENGTH` for 1000, 256 and
64. In `MCLibrary`, a byte has 4 values (a word 16, the accumulator 256), argv has 2
entries, a line of a hexdump has 2 bytes and a chunk 4, an NTP era has 8 seconds, a
server has 2 addresses, the file that is read has 3 bytes in chunks of 2, a directory
has 2 entries and there are 2 processors. The number of calls in sequence is not
bounded: the kernel's state is finite.

### Fairness

* Queue: a thread inside put or get is scheduled and readers call get again (weak
  fairness). The mutex is not assumed to be fair. Spurious wakeups do not
  go on forever.
* Bus, worker pool: weak fairness of each thread; nobody has to allocate,
  subscribe or spawn.
* Timer: time passes and both threads are scheduled; the application gets the
  mutex if it is free again and again (strong fairness), which the handler
  thread, asleep for most of each tick, justifies.
* DHCP client: the thread is scheduled and timers expire. From some point on calls
  do not fail, packets are not lost, duplicated or refused, and answers arrive
  before the response timer expires. Nothing is assumed about what came before.
* One wire: the threads are scheduled, epoll_wait() neglects neither descriptor,
  the timer expires and the kernel handles what it is sent. Nobody has to read a
  temperature.
* Library: none, as all its properties are about states; deadlock is checked, so that
  no call is stuck.

## Proofs

`QueueProof` proves, from the assumptions that the capacity is a positive natural
number, that the sets of putters and getters are finite and disjoint, and that the
special values are not threads or messages:

* `TypeCorrect`: the positions stay inside the ring.
* `MutexProtectsRing`: `MutualExclusion` alone is not inductive, as the first use
  of a queue must not find a thread inside; `ExclusionInv` adds the types and
  that nobody is inside a queue that is not in use.
* `WakeupsAreNotLost`: the counting invariant `NoLostWakeup` is preserved because
  a push adds a message and a putter that is to signal it, a signal turns that
  putter into a woken getter, unless nobody waits, and a getter goes back to
  waiting only on an empty ring. Frame lemmas treat the steps that move no
  counted thread.
* `EventDrivenGetNeverWaits`: `EventPerMessage` is a balance: each message in the
  ring is announced, is about to be, or has a getter inside that took its event.
* `QueueIsFifo`: with `RefinementInv` (a getter that has not popped holds no
  message), each step maps to a step of `Fifo` or changes nothing it can see; that
  a push appends to `Content` and a pop takes its head are lemmas about the ring.

`BusProof`, for all finite sets of producers, queues and uids, any messages and any
capacity. The invariant `IInv` has four parts:

* `Index`: the array is sorted by uid, without duplicates, and its entries are
  `subscriptions`. From it `EverySubscriberIsFound` follows, as the binary search of
  a sorted array finds a uid that is there, and 0 otherwise.
* `Types`, and `Counts`: the count of each allocated message is the number of its
  references. A reference is a thread that has the message, a place in a queue, or a
  queue the message has yet to be put on. `CountsAreRight` is this; each step moves,
  adds or removes references, and lemmas say what that does to their cardinality.
* `Intact`: what is referenced is allocated, its on free callback has not been
  called, and only the one thread that saw the count reach zero is inside the rest of
  ml_message_free(). `ReachableStaysIntact` needs the counts: a thread that sees zero
  is the last one only because the count is right.

`TimerProof`, for any set of timers, timeouts, periods, tick and width of the
integers. `IInv` adds to the types: `Listing` (the list has no timer twice, the sums of
differences do not wrap, the timer that tick() or a start is working on is not in it,
and no listed timer has no ticks left outside tick()), and `Counting` (what the two
counters of each timer say of its messages in flight, in their order).

* `CountersAccount`, `StaleRejected`: `StaleIsInvalid` is preserved because the stale
  messages of a timer are its oldest ones, and as many as it is to ignore.
* `ListCountsDown`: every step of the list is a step of `Countdown` or leaves its
  countdowns alone. Lemmas say what insertion, removal and a tick do to the sums of
  differences, which are the countdowns of the refinement mapping.
* `NeverTwoTicksEarly`: with `OnTime`, a bound on the time that has passed for a timer
  with so many ticks left and so much time not yet counted. The theorem assumes that
  timeouts are at most `MaxElapsed`, where the history variable stops, and that
  DIV_CEIL does not wrap; where it wraps the property is false, as said under Runs.

Its assumption `TicksAssumption`, that the ticks of a timeout and one more do not
wrap, holds for every timeout of 32 bits, as a tick is 100 milliseconds.

`WorkerPoolProof`, for any number of workers, spawning threads, jobs and slots:
`JobsRunOnce`, with the invariant that no job is twice in the queue and that a job is
in at most one of the places it can be in. It assumes that no two jobs spawn the same
one, which is how the model tells the calls of spawn apart.

`DhcpClientProof`, for any addresses, leases, failures and number of packets:
`ClientNeverStuck`, `SocketAlwaysFits`, `NoTimeoutIsStale`. The properties speak of a
client that waits in poll(). The invariant follows it through the events of one pass
too: timers that have been read and not been handled yet are as good as pending ones
(`HasRead`), as a handler that leaves the state throws the rest away. It also says that
when the renewal interval is not negative the rebinding time is not either (`TimesFit`):
so a lease that sets one of its timers anew sets both, and none is left of an old lease.

`OneWireProof`, for any number of callers, any range of sequence numbers and any
messages of others. `RequestsAreAnsweredOnce`: the counts are an invariant by themselves,
also after a message of another was taken for an answer. `TimeoutsAreExpected` and
`ReadsFollowConversions` rest on `~mistaken => IInv`. `IInv` says where the request of the
caller with the mutex is: not made, in the queue, active in the thread with so much of its
conversion done, or answered; and what the netlink socket and the kernel may carry in
each state of the sensor (`Traffic`): of the answers to our own commands, one with the
expected number is one to the last command that was sent. Messages of others may be
anywhere between them; those with another number change nothing.

`ShellProof`, for all sizes of the line and of the history, all characters and all
sorted tables of commands. First come lemmas about the functions on lines: each gives a
line that fits in its buffer, with the cursor inside it. `ShellInv` has `HistoryIsSound`
with the types, `MatchIsLatest`, and that the saved line is the one that was edited when
the walk through the history began.

* `HistoryStaysSound`, `MatchStaysLatest`: the search, a loop over the history from its
  end, finds the last line with the pattern in it, and the history only gets a line
  when a search has ended.
* `DownAlwaysReturns`: from `ShellInv`, as the line that is recalled last is the saved one.
* `CompletionStaysCommon`: the loop compares the next character of the first name that
  begins with the line with that of the names after it, up to one that does not begin
  so. That these are all the names that do is where the table must be sorted:
  `ShellAssumption` says that names that begin alike are next to each other, which is
  what qsort() with strcmp() in ml_shell_start() (`ml_shell.c`, line 2178) gives. It
  also says that NUL is in no line or name: they are strings that NUL ends.

`LibraryProof`, from the assumptions of the modules that `Library` composes:

* `DumpsStayComplete`, for any number of slots and dumps. `DumpInv` says how far a dump
  that nothing disturbs has come (`Progress`), and that everyone who has left find_slot()
  has another slot than a dump that is kept: a failing lstat() leaves it with the slot of a
  dump that is kept no longer.
* `LevelsAlwaysSurvive`, for any log objects and levels. `LogInv` says that every object
  that a store has yet to write is ahead of it in the list, as objects are only prepended;
  that the lines written have levels that their objects had during the store, or are ones that
  a load skips, in a file written by hand, the last line of which may lack its newline; and that
  a load has a line for every object of a complete file. The assumption that the special
  values are no objects or levels only keeps pointers and names apart.
* `CallsReleaseAll`: `HeldInv` says of each of the 39 functions and commands what it holds at each of
  its labels. The code has one label for every set of things to release, so the label
  tells what is held, and at "return" nothing is; the entries of ml_network_filter_get()
  are held with a result of zero alone.
* `ResultsTellTruth`: `TruthInv` says of each function what it has done to the kernel and
  what it has read, at each of its labels, and what its result says of that from the
  point on where it is decided. With `Shape`, the fields of the kernel's record in each
  area: what a later call finds is what earlier ones, also failed ones, left. For the
  verity device this includes the order of its three parts. The loops need lemmas about
  prefixes: what has been read, buffered or written is always a first part of the file,
  the list or the arguments. This holds for a file, a list of entries and a chunk of any
  length, any number of processors, and any times of which the NTP era can be told. The
  words of the command lines are those of the specification.

  The attempt to prove it for every list of entries showed two cases that the instance
  of TLC does not have. The command ll, and df, return the error that `res` has at first when
  there is no entry: `FilesRefuses` says so now. And the command ntp_sync was only
  modelled at one time.

Some of these facts need an induction over the natural numbers: that bsearch() finds,
that the recursive sums of differences exist and grow. The induction rules of the
library cannot be used, as they take a predicate as a parameter. `SetInduction`, that
a set of naturals with 0 and with the successor of each of its members is all of them,
takes a set; it follows from the existence of a least member of its complement, and
each of the inductions is over the set of the numbers for which the fact holds.

Model checked only:

* Liveness (`OldestIsTaken`, `SubscribersReceive`, `NoLeak`, `StartedExpires`,
  `CheckReturns`, `SpawnedIsRun`, `BoundAgainAndAgain`, `LeaseIsRenewed`,
  `ReadReturns`): the proof system does not reason about fairness.
* `ParseMatches`, `ChecksumMatches` and `DumpMatches` of `Library`: they compare folds
  over sequences with their definitions, for every sequence: an induction over the data.
* `ScreenFollowsLine` of `Shell`: the screen is a fold over what has been printed.

## Not modelled, and the plan

Not modelled, and why:

* `ml_libc.c`: wrappers of system calls that tests replace.
* The commands help, history, suicide and reboot of the shell: they print, or end the
  system. Of the command log, set_level and store are in `LogObject`.
* Printing to the kernel log (`ml_log_object_vprint`, `ml_log_object_hexdump`), and
  the formats of what the commands print: no property is about them.
* The encoding of DHCP packets and of netlink messages.
* Two callers that change the flags or the link of one interface at the same time:
  the code does not handle it.

What is left of the plan is what the proof system does not reach: the properties listed
under "Model checked only".
