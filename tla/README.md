# unplearn in TLA+

`unplearn` is a collection of small C programs written along *UNIX Network
Programming*: threads, POSIX shared memory and semaphores, record locks, pipes
and FIFOs, TCP, UDP and Sun RPC.  Its programs have no tests, and most of what
can go wrong in them depends on the order in which threads, processes and the
network act.  This directory models the programs in TLA+, checks the models
with TLC on small instances and proves the most important results with TLAPS.

Paths below are relative to `src/`.

## 1. Inventory

| Component | State | Operations | Interacts through | Correct when |
|---|---|---|---|---|
| `mutex/prodcons2.c` | `buff`, `put`, `nready`, per-thread `count` | produce, consume, create/join | two mutexes, a condition variable | the consumer never reads an unset entry, never sleeps on work, the program ends, the totals are right |
| `mutex/prodcons.c` | `shared` | produce, consume (unsynchronised), create/join | one mutex | an entry differs only because it was read too early |
| `pxshm/client2.c`, `server2.c`, `cliserv2.h` | `struct shmstruct`: ring, `nput`, `noverflow`, four semaphores | create, size, initialise; attach; reserve, copy, post, overflow; print, free | shared memory | messages are whole, once and in order, or counted as lost; a client that comes before the ring is set up hurts itself only |
| `select_echo/tcpserv.c` | `clientfd`, `maxi`, `maxfd`, `allset`, `rset`, `nready` | select, accept, scan, read, write, close | sockets of many clients | the table agrees with the open descriptors and every client is echoed while all read what they get |
| `udpcliserv/udpcli.c`, `udpcli02.c`, `udpserv.c` | the line waited for | send, receive; echo | datagrams, ICMP errors | answers are those to the lines sent |
| `shm/incr1.c`, `incr2.c`, `incr3.c`, `lock/lockmain.c`, `pxshm/client1.c`, `server1.c` | a counter: a global, a mapping, a file, a named object; the names | lock, load, store, unlock; unlink, create, open | shared memory, a file, names in the kernel | no increment is lost where all users of a counter share a lock |
| `fifocliserv/` | the FIFOs' contents and ends | request, read, answer | FIFOs | every client is answered or ends, but for requests read together |
| `echo/` | parent, children, zombies, who holds a connection | accept, fork, echo, reap | TCP, SIGCHLD | children are reaped, connections end |
| `select_echo/tcpcli.c` | `stdineof`, the two halves of a connection | select, read, write, shutdown | TCP | nothing on its way is lost at end of input |
| `pipe/mainpipe.c`, `mainfifo.c` | ends of two pipes or FIFOs | open, request, answer, wait | pipes, `waitpid` | neither side waits for ever |
| `lock/test1.c`, `test2.c`, `onedaemon.c` | record locks, the pid file | lock with and without waiting, fork, unlock; truncate, write | `fcntl` | who tells of a lock has it; one daemon runs and the pid file names it |
| `udpcliserv/udpserv02.c`, `udpcli03.c` | `count`, unread datagrams | send without waiting; count, report | datagrams, ICMP errors, SIGINT | the count told is what arrived, but for what is in hand or unread |
| `sunrpc/square1`, `square2` | calls not yet read, the port mapper's registration | register, call, dispatch, reply, time out | RPC over TCP | what is shown is the square of the argument; clients end, and time out only in a queue |
| `daytime/`, `names/` | none beyond one connection | connect, read to the end | TCP, DNS | – |
| `pxsem/`, `pxmsg/`, `pxshm/shm*.c`, small exercises | a name in the kernel | one library call each | – | – |

What is hard to test, with the line where it bites, is the list `hazards` in
`PROJECT.json`.  In short: threads that overtake each other between two
mutexes; data read or written outside a lock; a condition variable that is
signalled only sometimes; processes killed while they hold a slot or a lock;
requests that coalesce in a FIFO; clients that come, go or reset while a table
of descriptors is being scanned; datagrams that are lost, doubled, late or
someone else's; names that are removed and recreated while others open them.

## 2. Modules

| Module | Models | Abstract specification |
|---|---|---|
| `ProdCons2` | `mutex/prodcons2.c` | `ItemStream` |
| `ProdCons` | `mutex/prodcons.c` | |
| `ShmRing` | `pxshm/client2.c`, `server2.c`, `cliserv2.h` | `DropQueue` |
| `SelectServer` | `select_echo/tcpserv.c` and clients of it | |
| `UdpEcho` | `udpcliserv/udpcli.c`, `udpcli02.c`, `udpcli03.c`, `udpserv.c`, `udpserv02.c` | |
| `EchoFork` | `echo/tcpserv.c`, `tcpcli.c` | |
| `SharedCounter` | `shm/incr1.c`, `incr2.c`, `incr3.c`, `lock/lockmain.c`, `pxshm/client1.c`, `server1.c` | `CounterService` |
| `FifoServ` | `fifocliserv/mainclient.c`, `mainserver.c` | |
| `HalfClose` | `select_echo/tcpcli.c` and an echoing process | |
| `PipeCat` | `pipe/mainpipe.c`, `mainfifo.c` | |
| `SquareRpc` | `sunrpc/square1/`, `sunrpc/square2/` | |
| `RecordLock` | `lock/test1.c`, `test2.c`, `onedaemon.c` | |

The theorems about a module are in a module of proofs that extends it:
`ProdCons2Proof`, `ProdConsProof`, `ShmRingProof`, `SelectServerProof`,
`UdpEchoProof`, `SharedCounterProof`, `RecordLockProof`, and `ServicesProof`
for `SquareRpc`, `HalfClose`, `FifoServ`, `EchoFork` and `PipeCat`.

Common conventions.  A variable has the name of the code's variable wherever
there is one; `pc`, `cpc`, `spc` and `mpc` hold the point a thread or process
has reached, and an action is what it does between two points at which another
one may interfere: an operation on shared state, or a system call.  What only
the kernel does (a mutex, a FIFO, the network, a kill) is modelled from how the
code uses it and is marked `external` in the map.  An operator named
`...Mutant` is the operator of the same name with a plausible fault; no
specification uses it, and it records that the property next to it in
`PROJECT.json` would notice that fault.  Error paths that only print and
exit before anything is shared (bad arguments, `socket` or `open` failing at
start-up) are left out.

### ProdCons2 and ItemStream

Producers fill `buff` under `put.mutex` (`LockPut`, `StoreItem`, `AdvancePut`,
or `NoMoreItems`), then lock `nready.mutex` and raise `nready`, signalling when
it was zero (`LockReady`, `Announce`), then raise their own `count` (`Tally`).
The consumer waits for `nready`, takes one, releases the mutex and compares
`buff[i]` with no lock (`CheckItem`).  The subtle point is that the producer
which announces an item need not be the one which stored the entry the consumer
then reads: the grants are anonymous.  `main` creates threads, may fail to, and
joins them; a failure ends the process and every thread.  The consumer's
creation is not checked: without it `main` joins a thread id that was never set
(`JoinNobody`), and nothing is said from then on.  A sleeping consumer
is one whose `pc` is `"wait"`, woken by a signal or, at most `MaxSpurious`
times, spuriously.  `ItemStream` is what the program promises: items are made
and got, got never passes made, and the stream finishes only when all items
were got.  `StoreItem` leaves the abstract state alone and `AdvancePut` makes
the item; `CheckItem` gets it.

### ProdCons

As above with one mutex and a consumer that runs through `buff` without
waiting: `consume_wait` exists but is not called.  The comparison and the
printing of `buff[i]` load it twice.

### ShmRing and DropQueue

`cpc` follows a client through one turn of its loop.  The slot number is
reserved under `mutex` (`LockRing`, `Reserve`) but the text is copied after the
mutex is posted; the copy has a beginning and an end, so that another copy, the
server's `printf` or a kill can fall into it, which makes the text `Torn`.
`order`, `dropped` and `early` are history: the order in which slots were
reserved, the messages counted as overflows, and whether the server ever
printed a slot that a client had still to fill.  `DropQueue` is a bounded queue
that delivers what it takes, in order, and counts the rest; it may break its
promise once messages of two senders are waiting, which is when `nstored`,
posted for one slot, lets the server print another.  With one client the ring
never breaks it.

The server starts with `Open`, `Truncate` and one step for each semaphore a
client can reach too early, and clients attach at any moment.  Without the
object, or without its size, a client dies of its first access.  A client that
still maps the object of an earlier server, before `Open` unlinks the name,
works on that object and never touches this ring; here it is no other than one
that crashed.  Before
`nempty` is initialised it takes the ring for full, and in the overflow branch
waits for a semaphore of zeroes: `sem_init` resets it without waking anybody
and forgets the waiter (and a zeroed semaphore is process-private, so that a
later `sem_post` from elsewhere does not reach it), so it is `asleep` for good.
After `nempty` but before `nstored` it may go through all of its turn and post
`nstored`, which `sem_init` then sets to 0: `wiped` counts those.  A wiped post
costs the ring a slot (`SemaphoreBudget`) and lets the server lag by one
message for ever (`Drained`), but breaks neither the order nor the other
clients.  `mutex` needs no step of its own: `nempty` lets nobody through to it
before it is initialised.

### SelectServer

The select loop with its table, the highest used index and descriptor, the
descriptor sets and the count of ready descriptors.  `allset` is an
uninitialised automatic variable, so `Init` leaves a choice of stray bits.
`select` writes whole words of the set only: bits of `rset` beyond the word of
`maxfd` keep what `rset = allset` put there.  Clients connect, send, read what
is echoed or leave it, close, reset, or lose their host.  Bytes are counted,
not named: TCP does not reorder them.

`writen` is a loop of writes: each takes as much of `buff` as there is room for
(`Capacity` bytes that the client has not read, the buffers of both sides
together), and the server stays in it until `buff` is empty (`WriteBack`).  A
client that is there but does not read keeps it in `write`, and keeps everybody
else waiting (`Stuck`); one that has gone makes the write fail and ends the
server (`WriteFails`).

`limit` is the process's `RLIMIT_NOFILE`, which the code neither sets nor
checks, so it may be any of `FDLimits`, below, at or above `FD_SETSIZE`.  Up to
`FD_SETSIZE`, `accept` fails when the descriptors are used up and the server
ends.  Above it, `accept` returns a descriptor for which `allset` has no bit,
and `FD_SET` at l.128 writes beyond the set (`Overrun`): the C program is
undefined from there, the model stops, and no property says anything of what
follows.

### EchoFork

The parent is at `accept`, `fork` or `close` (of its copy of the connection)
and `held` is the set of connections it has open.  `SIGCHLD` is one pending
bit: the handler starts between any two steps of the parent, and children that
end while it runs set the bit again.  A child has the listening socket until
`CloseListen`.  The server's end of a connection is closed when neither the
parent nor a child has it; the client then reads end of file (`Cut`).  Bytes
are counted, and a reply may arrive in pieces, of which `str_cli` reads one per
line; a client that leaves with bytes unread resets the connection.

### UdpEcho

One client in three points (`gets`, `send`, `recv`) and a server.  `toServer`
and `toClient` are sets, so datagrams overtake each other; `Lose` and
`Duplicate` act on any of them, and `Foreign` lets another host send to the
client.  `program` is chosen at the start.  With `udpcli02` and `udpcli03` the
socket is connected: it filters by sender and receives the ICMP error of a
server that is off or dead.  `udpcli03` never receives, and a pending error
makes its next `sendto` send nothing, which it does not notice.  Its server
counts: `TakeDatagram` and `Count` are two steps, and SIGINT (`ServerDies`) may
come between them and leaves `count` as the number it tells.  `lost` includes
what arrives where no server runs, unless the client is `udpcli02`, which then
ends.

### SharedCounter and CounterService

One loop for all programs: lock, load, store and print, unlock.  `program` is
chosen at the start and decides what a process counts in (`cell`), under which
semaphore (`sem`), and in which order it stores and prints: `lockmain` prints
the number it read before it writes the next one; the others print
`count++`, which is stored before `printf` is called (`PrintsFirst`).  `log` is
what was printed, per counter, and grows in `Printf`; output is taken to be
seen when `printf` returns, as on a terminal.  The processes of `client1` open
both names while `server1` unlinks and creates first one and then the other, so
that they may get a pair that does not belong together, an object without its
size, or nothing; none of this is checked in the code, and the process dies at
its first access (`Crash`).  `Guarded(x)` says that all users of a counter are
under one semaphore.

What is printed of a counter that is not guarded may repeat numbers and, in all
programs but `lockmain`, come out of order: a process that has stored 1 may be
overtaken before it prints 0.  What can be said of it (`Printed`) is that a
smaller number that is missing is with a process that is about to print it.

`CounterService` is what is promised without system calls, names and
semaphores: a process attaches once, to a counter and a lock, and then `nloop`
times takes the value (`Take`), raises it (`Raise`) and shows it (`Show`), the
last two in either order.  While all who are attached to a counter have one
lock, a value is taken when all below it were shown, is still the value when it
is raised, and is shown in its turn; else a process may raise a value that is
no longer current and be overtaken before it shows it.  In the mapping a
process is attached when it has opened both names (`OpenSem`), `Load` takes,
`Store` raises and `Printf` shows; `value` is `count`, `shown` is `log`, and
`hand` and `owed` are `seqno` as long as it is to be stored and to be printed.

### FifoServ

`queue` is what lies in the well-known FIFO. An `open` for reading waits for a
writer and vice versa, reading an empty FIFO returns end of file when nobody
has it open for writing, and its content vanishes when the last process closes
it.  The server treats what one `read` returns as one request: as many requests
as fit in `buff`.  When the limit of `buff` cuts a request, l.43 writes the
final zero behind it; the model stops there (`Overfill`, `"overrun"`), and
nothing is said from then on.  The branches for a bogus request and for a
client's FIFO that cannot be opened need the other half of such a request, and
have no action.  `swallowed` and `lost` are history: the requests that were
read behind another one, and those that were never written or vanished.

### HalfClose

`cpc` is the point of the client's loop: `select`, the socket, standard input,
`writen`.  `rset` is zeroed once, before the loop, so that what was ready the
last time is watched again whatever `stdineof` says; that is why `FD_CLR` at
end of input matters.  Lengths are modelled, not contents, except that a byte
may be nul: `strlen(sendline)` stops there, and runs on over a `sendline` that
`read` has filled (`Lengths`; how far depends on what lies behind it, at most
`MaxJunk` here).  Each direction of the connection holds `Capacity` bytes, and
`writen` waits for room on both sides.  The peer is the loop of `str_echo`,
which the select server repeats for its clients; it may die at any time.

### PipeCat

`program` is chosen at the start.  `ends` are the descriptors of each process:
inherited and then closed (`CloseOthers`), or opened by name (`Open`), where an
`open` without a partner waits and the partner's `open` wakes it.  A pipe is
named by what it is for (1 to the server, 2 to the client) and by the instance
that made it, a FIFO by the number of its creation, since `mainfifo` removes
the names at its end and the next instance creates them anew.  End of file,
`SIGPIPE` and the loss of what is in a pipe follow from who has which end.
`waitpid` and the closes after it are one step.

### SquareRpc

`vers` chooses between square1 and square2, which differ in the five seconds
the server sleeps.  A client creates its handle (which fails, and is used
nevertheless, if no server is registered and running), calls, and waits for a
reply, for the connection to end, or for 25 seconds; its user may interrupt it.
The server registers in two steps (`Unset`, `Register`) and stays registered
when it dies.  `svc_run` takes one call at a time, also those of clients that
have gone.  A long travels as 32 bits.  The library (glibc's Sun RPC, which the
binaries in the tree link) refuses a number that does not fit: an argument
fails in the client (`CallFails`); a result is found out only after the header
of the reply was written, so the client gets a reply without a result, and the
server sends a second one.  To a client that has gone, the second one is a
write to a reset connection, which kills the server (`BrokenPipe`).  Time is a
clock that ticks only when no step is due: what takes time here is `sleep` and
waiting.  `ahead` is history, the calls that were worked on while a client
waited.

### RecordLock

`held` is the kernel's lock table for the one file all instances share, `Cmd`
the command a process uses: a parent and a daemon ask with `F_SETLK`, which
refuses, and children with `F_SETLKW`, which waits.  A refusal is noticed by
`onedaemon` only; parents of `test1` and `test2` go on (`refused`).  Locks
belong to a process: a child starts without, and they go when it ends.  The
sleeps are steps that may take any time, since a loaded machine may stretch
them.  `pidfile` holds the pids in the file: `Truncate` empties it and
`WritePid` adds one.

## 3. Runs

| Run | Instance | Shows |
|---|---|---|
| `prodcons2` | 3 producers, 3 items, 1 spurious wake-up | all properties of `ProdCons2`, refinement of `ItemStream` |
| `prodcons` | 3 producers, 3 items | a mismatch is only ever an early read; totals; the program ends |
| `shmring` | 2 slots, 2 clients, 3 messages each, 1 kill, start-up | slots, overflows, everything drained but what start-up undid, refinement of `DropQueue` |
| `select_server` | 3 clients for 2 descriptors, limits 6 and 7 for 6 bits, 2 bytes, buffers of 1, stray bits 0 and 5 | table and sets agree, who blocks, why the server ends, everything echoed |
| `echo_fork` | 2 clients, 2 lines of 2 bytes, 1 killed child | who is cut off, zombies, every client ends |
| `udp_echo` | 3 lines, 2 duplicates, 1 foreign datagram, 3 clients | lag of the answers, what stops a client, the count told |
| `shared_counter` | 3 processes, 2 turns, 2 runs of `server1`, each program | printed values, final counts, all finish, refinement of `CounterService` |
| `fifo_serv` | 3 clients, 1 killed, 1 kill of the server | where requests are, who is answered |
| `half_close` | up to 6 bytes, buffers and directions of 2, 1 byte of junk | nothing lost at end of input; the client ends or both sides wait |
| `pipe_cat` | 2 instances, answers of up to 2 writes, pipes of 1, 1 killed | whole answers, no child left, who waits for ever |
| `square_rpc` | 3 clients, numbers 2, 3 and 9 of which 4 fits and 9 does not, sleep 1 for a time-out of 2, 1 kill, 1 interrupt | right answers, who times out, every client ends |
| `record_lock` | 3 instances, 1 killed, each program | true claims, a true pid file, all end |

Why the bounds are enough.  Three producers are the least number in which one
stores, one announces and a third is past both; three items let `nready` rise
from one and fall to zero again.  A ring of two slots wraps, and three messages
of each client write every slot more than once with both clients in one slot at
a time.  In `select_server`, two descriptors and a third client give every
pattern of free and used entries up to `maxi`, reuse, and exhaustion; two bytes
and a buffer of two give short and full reads, and with room for one byte a
`writen` of two writes and one that waits; a limit of 7 lets a descriptor
without a bit in the sets appear, as one of 1025 does in the code; `WordBits =
5` puts descriptor 5 in the second word, as descriptor 64 is in the code.  Two
children are enough for one `SIGCHLD` to stand for both.  Three lines and two
duplicates let an answer be late by two.  Three processes with two turns are
the least with which a whole run of increments can be lost to a stale store,
and two runs of `server1` the least with which old and new names mix.  Three
clients of the FIFO give two requests that lie behind the first.  Six bytes
over a connection that holds two each way are the least with which both
directions and both buffers are full and a byte is left to write.  Two
instances of `mainfifo` share names, or follow each other on them; two writes
fill a pipe of one.  Three calls that sleep one unit each against a time-out of
two stand for six of five seconds against 25: the last answer but one races the
time-out and the last is late.  Three daemons let one be killed, the next one
run and the third be refused.  Every bound on a fault (`MaxSpurious`,
`MaxKilled`, `MaxInterrupted`, `MaxDeaths`, `MaxDups`, `MaxForeign`,
`MaxStarts`, `MaxJunk`) is a constant, and the fault happens in the run.

Each passing property has a mutant in `PROJECT.json`: a definition of the model
changed as a plausible slip in the code would change it (a semaphore that is
not posted, `if` for `while`, a missing `close`), with which TLC finds the
property violated.

In all modules but `ProdCons2`, which has a run for it, `TypeOK` is the first
conjunct of one of the invariants, and so is checked with it.

Deadlock is not checked: every program ends, and some of them wait for ever by
design (a server without clients).  What must not wait is said by liveness
properties.

## 4. Fairness

Each thread or process that can take a step takes one in the end (weak fairness
of its own actions): that is the scheduler's promise.  Weak fairness is enough
for mutexes and semaphores here: every loop that takes them is finite, so a
waiter is passed over finitely often.  In `EchoFork` a pending signal is
delivered in the end.  Nothing is assumed of clients of `SelectServer`, of
`server1`, of kills, losses, duplicates, spurious wake-ups, or of a thread that
cannot be created.  In `UdpEcho` a datagram that is not lost arrives.  In
`HalfClose` standard input comes to its end.  In `SquareRpc` time passes, and a
server that runs goes on; nobody need start one.  In `RecordLock` whatever was
started goes on.

## 5. Proofs

Every invariant and every action property that a run checks is proved, for all
values of the constants, and so are all three refinements.  Each theorem rests
on the assumption its module states about its constants (`ProdConsAssumption`,
`RingAssumption`, ...) and on nothing else, but for `NeverStuck` (at least one
producer) and `SingleClientIsSafe` (a single client).  They say that numbers
are natural, that sizes are not zero, that a name for "nobody" is nobody's and
that sets of clients are finite where they are counted.  `SelectAssumption`
also has `FD_SETSIZE` and every limit in `FDLimits` above the listening
descriptor, which is open when the loop begins, and `listenfd` not among the
unset bits, as it was set; no limit is held below `FD_SETSIZE`.  A theorem
about an instance has that assumption as its hypothesis.  Type correctness is
part of every inductive invariant.

| Theorem | States | For every number of |
|---|---|---|
| `ProdCons2Proof!TypeCorrect` | `TypeOK` | producers, items, spurious wake-ups |
| `ProdCons2Proof!NoMismatchEver` | `NoMismatch` | " |
| `ProdCons2Proof!NoWakeupIsLost` | `NoLostWakeup` | " |
| `ProdCons2Proof!ItemsAccountedFor` | `EveryItemAccountedFor` | " |
| `ProdCons2Proof!ReportIsRight` | `MainReport` | " |
| `ProdCons2Proof!Refinement` | `ImplementsStream` | " |
| `ProdCons2Proof!NeverStuck` | at rest: the program has ended | ", at least one producer |
| `ProdConsProof!DifferOnlyIfEarly` | `OnlyEarlyReadsDiffer` | producers, items |
| `ProdConsProof!ReportIsRight` | `MainReport` | " |
| `ShmRingProof!SlotsAreKept` | `SemaphoreBudget` | slots, clients, messages, kills |
| `ShmRingProof!NoOverflowIsLost` | `OverflowExact` | " |
| `ShmRingProof!Refinement` | `ImplementsDropQueue` | " |
| `ShmRingProof!SingleClientIsSafe` | one client: never `early` | slots, messages |
| `ShmRingProof!NoLockUp` | at rest: a killed client has a mutex, or `Drained`'s end | slots, clients, messages, kills |
| `SelectServerProof!TableAgrees` | `TableConsistent` | clients, descriptors, limits, words, stray bits, buffers |
| `SelectServerProof!BlockedByGarbageOnly` | `BlocksOnlyByGarbage` | " |
| `SelectServerProof!EndsWhenFull` | `EndsOnlyWhenFull` | " |
| `SelectServerProof!NobodyLeftWaiting` | at rest: echoed, down, led astray, or held in `writen` by a client that does not read | " |
| `UdpEchoProof!AnswersLagBehind` | `AnswersLag` | lines, duplicates, foreign datagrams |
| `UdpEchoProof!CountsAreExact` | `CountExact` | " |
| `UdpEchoProof!OnlyLossKeepsWaiting` | at rest: the client has ended, or `lost` | " |
| `SharedCounterProof!PrintedInOrder` | `Printed` | processes, turns, runs of `server1` |
| `SharedCounterProof!CountInTheEnd` | `FinalCount` | " |
| `SharedCounterProof!Refinement` | `ImplementsService` | " |
| `SharedCounterProof!OnlyTheDeadKeepWaiting` | at rest: ended, crashed, or a crashed one has the semaphore | " |
| `RecordLockProof!LocksMeanWhatIsTold` | `ClaimsHold` | instances, kills |
| `RecordLockProof!PidFileIsTrue` | `PidFileTrue` | " |
| `RecordLockProof!OnlyOneDaemon` | one daemon past its lock | " |
| `RecordLockProof!LocksComeFree` | at rest: what `Settles` says | " |
| `ServicesProof!SquaresAreRight` | `AnswersRight` | clients, numbers, kills; any width of the wire |
| `ServicesProof!OnlyAQueueTimesOut` | `TimeoutNeedsQueue` | clients; any durations |
| `ServicesProof!NoCallForgotten` | who waits: answered, cut off, unread or in work | clients, kills, interrupts |
| `ServicesProof!EverythingEchoed` | `HalfClose!AllEchoed` | bytes, junk; any buffer and capacity |
| `ServicesProof!OnlyFullConnectionsStop` | at rest: ended, or `Deadlocked` with both directions full | " |
| `ServicesProof!NobodyForgotten` | `FifoServ!WaitingAccountedFor` | clients, kills, deaths of the server |
| `ServicesProof!OpensMeet` | who waits at rest: swallowed, lost, or the server is down, overrun or with a killed one | " |
| `ServicesProof!OnlyFailureCuts` | `EchoFork!CutOnlyByFailure` | clients, lines, bytes, kills |
| `ServicesProof!NoneLeftBehind` | at rest: clients ended, children reaped | " |
| `ServicesProof!NothingLeftUnshown` | `PipeCat!AnswerWhole` | instances, writes, kills; any capacity |
| `ServicesProof!OnlyTheUnaskedWait` | at rest in a clean run: ended, `blank`, or no server was forked | " |

`ServicesProof` extends `SquareRpc` and has the other four services as named
instances (`H`, `F`, `E`, `P`).  They take over the variables and constants
that have the same names and share nothing else: each section uses the
specification of one of them only.

None of the interesting invariants is inductive alone.  What each proof adds to
them, and why:

**ProdCons2.**  That the consumer finds its entry stored needs that `i` plus the
granted item is below `nput`, which `EveryItemAccountedFor` gives, and that all
entries below `nput` are filled, which needs the producers' section to be
exclusive:

    IInv == TypeOK /\ Owners /\ Filled /\ Progress
            /\ EveryItemAccountedFor /\ NoLostWakeup /\ NoMismatch

`Owners` says that a mutex belongs to exactly the thread in its section,
`Filled` that `buff` holds `k` at `k` below `nput` (and at `nput` in a producer
that has stored and not advanced), and `Progress` ties `i` to the consumer's
loop.  The number of producers that have stored but not announced is a
cardinality: `AnnouncingFinite`, `AnnouncingJoined` and `AnnouncingLeft` say
that one step changes it by one.  For the refinement each action is mapped to
`Make`, `Get`, `Finish`, `GiveUp` or a stutter.  `MainReport` is a sum over all
producers, and a sum defined by recursion is beyond the provers.  `Totals`
therefore says that there are partial sums `s[0] = 0`, `s[p+1] = s[p] + Made[p]`
whose last one is `nput` and which agree with `sum` up to the producer `main`
has come to; `SumsRaised` shows how one more item changes them.

**ProdCons.**  The same with `Places` (who may be where, and who has the mutex)
and the partial sums (`Account`) in the invariant itself.

**ShmRing.**  Three invariants, each resting on the one before.  `BudgetInv`
counts the places of a slot: `nempty`, `nstored`, the clients between taking a
slot and posting it, the server between taking and freeing one, and the posts
that start-up wiped.  `OverflowInv` adds that whoever holds `overflowmutex` has
counted or is about to, and that a dropped message was of an earlier turn.
`RingInv` says, while the server was never early, that the messages waiting are
in consecutive slots up to `nput`, that each of these slots holds its message or
is being filled by the one client which reserved it (`Placed`, `Kept`), and that
their number is `nstored` and the clients still copying (`WaitingCount`); the
messages of one client are in increasing order.  From it each step of the ring
is an `Accept`, `Deliver`, `Drop`, `Break` or stutter of `DropQueue`.  `Break`
needs messages of two clients, since a client which is still copying is the last
one to have reserved of its own.

**SelectServer.** `Entries` (used entries of the table and open descriptors are
one to one, below `maxi` and `maxfd`), `Bits` (up to `maxfd` a descriptor is in
`allset` exactly when it is open, beyond it only what was there at first),
`Once` and `Queued` (a client has one connection and is in the backlog at most
once), `Walk`: what is still to be scanned was reported by `select` and is
still due, or is a stray bit, and `Writing`: in `writen` something is left to
write, and to a client that has closed there is room for it.  That a table
entry is free when the descriptors are used up (`EndsOnlyWhenFull`) is no
assumption on the limit: used entries and open descriptors are one to one, and
four of the `FD_SETSIZE` descriptors that have a bit are nobody's connection
(`NoDescriptorKeeps`).  The first free descriptor and entry exist by
`Smallest`, an instance of the well-foundedness of `<`; that the words of a set
grow with the descriptor (`WordsGrow`) is proved from the definition of
division.

**UdpEcho.**  A datagram is in one place (`Apart`), every duplicate is one of
its kind (`CopyOnce`), and each was sent, doubled or foreign (`Known`).  How far
answers lag is then a comparison of cardinalities: a shown line that is late is
mapped one to one to the duplicate or foreign datagram shown in its place
(`OneToOne`, `AnswersCounted`).  `Tally` follows what was sent to the counting
server: counted, in hand, unread or lost.

**SharedCounter.** `Stores(x)` is the set of turns in which a user of counter
`x` stored.  Under one lock (`OneLock`, which once false stays false) the
counter is its cardinality, and the log the numbers up to it, without the last
one while that is still to be printed (`Exact`).  Without one the counter is at
most that (`Bounded`), every value below one that is stored or about to be is
in the log or with a process that is about to print it (`Given`,
`NoneSkipped`), and a count of 1 has a process behind it that is at its first
turn (`NotReset`), which is why it ends at 2 or more.  `Exact` is also what
makes `Load` a `Take`, `Store` a `Raise` and `Printf` a `Show` of
`CounterService` under one lock.

**RecordLock.**  `LockTable` (no conflicting locks, none held at other points
than between a grant and the end), `Granted` (who goes on without a lock was
refused and is a parent), `Family` (no child before its parent's attempt) and
`Daemons` (who is past its lock is a parent that has it, and the file is empty
or holds its pid accordingly).  `OnlyOneDaemon` follows from the lock table.

**SquareRpc.**  `Linked` ties a reply to its client's argument and a connection
to a living server; `Once` says that a client is ahead of another at most once,
as it calls once.  `Pacing` bounds the time a client has waited by `Duration`
times the number of calls worked on ahead of it, less what the present one has
still to go; a time-out (`Patience`) then needs a queue as long as
`TimeoutNeedsQueue` says.  What the wire does to a number that fits (`QWire`)
is two's complement at any width.

**HalfClose.**  `Flow` is the balance: what was written is left to write, on its
way to the server, in its buffer, on its way back, or printed.  `Order` is the
order of the end: the client shuts its half when all is written, the server
closes when all is echoed, and the client ends last.

**FifoServ.**  `InHand` says that whoever is in the FIFO or with the server
waits for its answer and is there once, `Accounted` that nobody else waits but
those swallowed, lost or killed.  What `read` takes from the FIFO and what it
leaves are `FTaken`.

**EchoFork.**  `Served` follows a connection from the backlog to the parent to
its child: a connected client without a child is in the backlog, held by the
parent, or the parent has gone; a child that ends by itself had its client
leave first.  `Echoed` bounds the bytes of a connection by the lines sent.

**PipeCat.**  `Always` holds whatever happens: types, how many pipes and FIFOs
were made against how many instances have begun, and which points a process may
be at (`Roles`); that a client leaves no child is in it.  `Tidy` holds while
nobody was killed and no two instances met on the FIFOs: one instance at a time
is on them (`Alone`), what a process has open is determined by its point
(`Exact`), a pipe nobody has open is empty (`Unheld`), the names exist while
they are needed (`Names`), client and server are at matching points
(`Together`), and what was answered is what was shown and what lies in the pipe
(`Whole`).

**Nobody waits for ever.**  A liveness property can fail in two ways: a process
that can go on is never scheduled, or none can go on and something is still to
be done.  The second is a matter of safety, and is proved: the theorems marked
"at rest" say that in every reachable state some process can take a step, or
what the liveness property promises has come about, or one of the excuses it
names is there.  `ENABLED` is beyond the prover, so each proof module spells out
when a process can go on (`ProducerRuns`, `ServerRuns`, `LockRuns`, ...); TLC
found these equivalent to `ENABLED` of the actions on instances of the size of
the runs.  Steps that nobody promises (kills, losses, spurious wake-ups, new
clients, `pthread_create` failing) do not count as going on.  Each needs an
invariant of its own beside the one of its module:

- `Begun` (`ProdCons2`): which threads are created when `main` joins them, and
  that a producer ends only at the limit.
- `Heard` (`HalfClose`): the client has shut its half at end of input, and the
  server writes only what it has.  Both can then only be at a stop in `writen`
  with both directions full, after more bytes than two directions hold.
- `Balance` and `Home` (`SelectServer`): the bytes sent on an open connection
  are written back, in `buff` or unread, and the listening descriptor is
  watched.
- `Awaited` (`EchoFork`): while a child is a zombie a `SIGCHLD` is pending or
  the handler runs, and a client that reads has bytes on their way unless its
  child was killed over them.
- `Asked` (`PipeCat`): the pathname of a client that waits for the answer is in
  its pipe until its server has read it, and a client that waits for its server
  has seen it end.
- `Successor` (`RecordLock`): while a refused daemon has ended and nobody was
  killed, another one is on its way to `pause` or there; a child that waits for
  a lock waits for one whose holder can go on, since nobody who holds a lock
  waits for another one.
- `Firsts` (`UdpEcho`): the first copy of every line sent is on its way or
  shown while nothing is lost; a client that waits has shown one datagram less
  than it has sent lines, so by the pigeonhole (`OneToCome`) one is still to
  come, however many of the shown ones were duplicates or somebody else's.
- `Holders` and `Built` (`SharedCounter`): a semaphore that is taken is with a
  process that is going to post it or has crashed, and only `client1` crashes.
- For `ShmRing` and `FifoServ` the invariants of the other theorems are enough:
  the counts of slots, and who is in the FIFO.
- For `SquareRpc`, time always passes; what matters is that `svc_run` forgets
  no call (`NoCallForgotten`), which `Pacing` contains.

Model-checked only: the rest of the liveness properties `Terminates` (of both
producer-consumer modules), `Drained`, `Echoed`, `Reaped`, `ClientsEnd` (of
`EchoFork` and `SquareRpc`), `Ends`, `Answered`, `Finish`, `Served`,
`InstanceEnds` and `Settles`: that under the fairness of section 4 the state of
rest is reached.  That rests on `ENABLED`, which this version of the proof
system does not handle.

## 6. Where code and text disagree

- `mutex/prodcons.c:56`: the consumer's check prints entries that are merely
  not there yet, as `consume_wait` is never called (`OnlyEarlyReadsDiffer` says
  that this is the only reason for it).
- `select_echo/tcpserv.c:117`: the comment says that a client too many is
  turned away.  With a limit on descriptors of up to `FD_SETSIZE` they run out
  before the table's `FD_SETSIZE` entries do, `accept` fails and the server
  ends instead.  With a larger limit the branch can be reached, but four
  entries too late: by then l.128 has used `FD_SET` with descriptors from
  `FD_SETSIZE` on, for which `allset` has no bit (`EndsOnlyWhenFull`).
- `udpcliserv/udpcli.c:58`: a datagram reported as "ignored" is printed like an
  answer (`AnswersLag` counts it in `Strays`).
- `lock/test2.c:42`: the parent tells of a read lock; it has asked for a write
  lock, and may not have got it (`refused` in `ClaimsHold`).
- `pxshm/server2.c:21`: nothing tells a client that the ring is not yet set up
  (`wiped` and the clients asleep in `Drained`).

Ways to wait for ever that no text denies, so that they are exceptions in a
liveness property and not refuted ones: `select_echo/tcpserv.c` in `writen` to
a client that does not read (`SelectServer!Stuck`); `select_echo/tcpcli.c` and
its server both in `writen` (`HalfClose!Deadlocked`);
`fifocliserv/mainserver.c` in `open` for a client that was killed (`killed` in
`FifoServ!Served`); `pipe/mainpipe.c` without a pathname (`blank` in
`PipeCat!InstanceEnds`); two instances of `pipe/mainfifo.c` at the same time
(`Sharing`).

## 7. Plan

All components that share state are modelled, every invariant, action property
and refinement of the runs is proved, and so is the safety part of the liveness
properties, but for `ProdCons`, whose threads wait for one mutex only.  What
could still be added are abstract specifications for `UdpEcho` (a sequence of
lines, each answered at most once or lost) and `RecordLock` (one lock, given to
one owner at a time), with refinements proved as those of `ItemStream`,
`DropQueue` and `CounterService` are.

## 8. Not modelled

- `daytime/` and `names/`: one connection, one line, read to the end of file,
  or a loop over addresses; no state that two actors share.
- `pxsem/`, `pxmsg/`, `pxshm/shm*.c`, `pxshm/test3.c`: one library call each,
  on a name the user gives, or a loop over a mapping.
- `mutex/test.c`, `shm/test1.c`, `shm/test2.c`, `pipe/fduplex.c`,
  `pipe/mainpopen.c`, `select_echo/test.c`: exercises without a protocol.
- Of the Sun RPC stubs, `NULLPROC`, unknown procedures and the UDP transport,
  which no client here uses.
- Of errors in the middle of a run: those of `accept` other than `EMFILE`,
  which end `select_echo/tcpserv.c` too; the one of `accept` in
  `echo/tcpserv.c`, which ends the parent as a failing `fork` does; a failing
  write of `echo/tcpcli.c`, which ends the client as end of file does (`Cut`);
  and `svcerr_decode` of the Sun RPC server, for which the client library never
  sends the occasion (`CallFails`).
- Of the programs that are modelled: bad arguments, calls that fail at start-up
  before anything is shared, and the text that is printed (so also the 8-byte
  buffer of `udpserv02.c`, which `printf` reads past its end).
