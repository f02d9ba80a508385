# linux-damon: a verification project

The repository is a collection of small C programs on Linux system and network
programming, 4,700 lines in 70 files. Each numbered file is a program of its
own; a few come in pairs (a server and its client) or share a library
(`broadcast.c`, `udp_lib.c`). Most show one system call. Some are small
concurrent systems: two threads that share a table without a lock, servers that
fork, processes that share a queue, clients that broadcast over UDP. This
directory holds TLA+ models of those, the TLC configurations that check them,
and TLAPS proofs about most of them, first of all the ping of
`57-socket_raw_ping.c`.

Programs that meet in the kernel are composed: those that share a directory's
System V objects (`SysV`), one UDP port (`Port9999`), or the names in a working
directory (`WorkDir`).

To run: `tlc -config MCPing_summary.cfg MCPing` (module and configuration of
every run are in `PROJECT.json`), `tlapm PingProofs.tla`, and
likewise for the other seven modules whose names end in `Proofs`.

## 1. Inventory

State, operations, hard behaviours and the properties that make each component
correct. "Modelled in" names the modules; a dash means none yet.

| Component | State and operations | What is hard about it | What makes it correct | Modelled in |
|---|---|---|---|---|
| **Ping** (57) | a sending and a receiving thread share `pingpacket[128]`, `alive`, `packet_send`, `packet_recv`, without a lock; a SIGINT handler clears `alive`; `main` joins both and prints | every load and store of two threads interleaves; signals at any point; a thread that cannot be created; lost, duplicated, reordered and foreign packets; 16-bit counters; a full table | each answer is matched with its own probe; entries are not reused early or leaked; the statistics are exact; SIGINT ends it | `Ping`, `PingAbs`, `PingProps`, `PingInv`, `PingArith`, proofs |
| **Forking TCP servers** (26, 33, 34), **clients** (27, 32, 35) | processes, the descriptors each has open, the accept queue, both directions of each connection | descriptors shared by parent and child; children that return into the accept loop; TCP cuts messages; accept, fork and write fail; SIGPIPE | one reader per connection; no descriptor kept by mistake; every byte reported once; a waiting client is answered or freed | `ForkServer`, `ForkServerProps`, proofs |
| **Linked list** (05) | heap nodes, `next` pointers; three ways to create, insert, delete, remove duplicates, reverse, destroy; get, locate, length | pointers into nodes that are freed; uninitialised memory; positions at both ends | no access to freed memory, no leak, each operation does to the sequence, or says of it, what its name says, loops end | `LinkList`, `LinkListProps`, proofs |
| **Pipes** (16, 17; 18, a FIFO) | a child writes, its parent reads | short writes, end of file only when all writers have closed, opens that wait for each other, a name that stays, death of either side | nothing lost or read twice, the survivor ends | `Pipe`, `WorkDir`, proofs |
| **Files** (01, 02, 03, 06, 08, 10) | `test.txt`, `hole.txt`, `mmap.txt`: created, read in chunks, written over, appended to, mapped | several programs at once on one file; a mode passed among the flags; a write nobody checks before the mapping | no text is written over by an append, no mapped file is emptied, holes are where they were left | `FileIo`, `WorkDir`, proofs |
| **Discovery by broadcast** (`broadcast.c`, 49, 50) | a server that answers `IP_FOUND`, clients that send it ten times; timeouts; buffers that outlive a datagram | UDP loses, duplicates, reorders; `form_len` uninitialised; stale buffers; a timeout that is set once | only requests are answered, each once; what is reported as a server is one, or sent back what was behind one's answer; every client ends | `Discovery`, `Port9999`, proofs |
| **UDP echo** (40–43, `udp_lib.c`) | a server that sends back what it gets, or ends after one datagram; clients that send one, and wait for one or not | the same network, no timeout, the same port as discovery, ports that change their owner | the answer is the request; a client waits for ever only if a datagram was lost | `UdpEcho`, `Port9999`, proofs |
| **Non-blocking server** (38), **client** (39) | `s_c`, `buffer`, the connection it serves | `s_c` and `buffer` outlive the connection; TCP cuts commands | one answer per client, the right one | `NonBlock`, proofs |
| **Local socket** (45, 46, `unix_fd.h`) | names in the file system, the server's buffer, clients that `select` between terminal and socket | a name that outlives its server; crash and restart; a buffer that is never cleared; terminals at their end | one server at a time; the server stops on the bytes of its client, and then frees its clients | `UnixFd`, `UnixFdProps`, proofs |
| **Message queues** (19, 20) | a System V queue that all runs in a directory share | one run removes the queue of another; a full queue with `IPC_NOWAIT`; kills leave the queue behind; in 19, an `int` type where `msgsnd` reads a `long` | each message reaches one run; undisturbed runs all end and leave nothing | `MsgQueue`, `SysV`, proofs |
| **Semaphores, shared memory** (21, 22) | a semaphore and a segment that outlive the run | `Sem_P` and `Sem_V` are swapped and do not wait; overlapping runs reset and remove the semaphore; parent and child of 22 do not synchronise | 21 alone prints 99; 22 prints a beginning of the text, all of it if it was there before | `SemShm`, `SysV`, proofs |
| **Threads** (24, 25) | a stop flag, a counter and its mutex, a result that is joined | lost updates; a flag read without the mutex; destroying a mutex in use | the counter is exact, the stop is seen, the program ends with the thread's result | `Threads`, proofs |
| Signals (23), byte order and addresses (28–30) | none: single calls and conversions of constants | – | – | – |
| Demonstrations of one call (04, 07, 09, 11–15, 31, 36, 44, 53, 55, 56, 58-route_set, `get_nic_info.c`) | none | – | – | – |
| Programs that do not compile (37, 47, 48, 51, 52, 54, `unix_fd.c`) | – | – | – | – |
| Packet flood (58-dos_icmp) | – | left out on purpose | – | – |

The programs do not call each other. They interact through the kernel (sockets,
pipes, queues, files, signals), so a module models one program together with the
processes it talks to, and the kernel's part, modelled from how the code uses
it. Where programs meet through a shared name, a module composes theirs:

| Composition | of | They share |
|---|---|---|
| `Port9999` | `Discovery` (49, 50), `UdpEcho` (40–43), both on `Udp` | UDP port 9999 and the network: a client of the one meets a server of the other |
| `SysV` | `MsgQueue` (19, 20), `SemShm` (21, 22), both on `Directory` | the key that `ftok` makes of the working directory, one per program |
| `WorkDir` | `Pipe` (16, 17, 18), `FileIo` (01, 02, 03, 06, 08, 10), both on `Cwd` | the names in the working directory, and what earlier runs left there |

## 2. Plan

In order of weight:

1. `Ping`: the largest program with real concurrency. Abstract specification
   `PingAbs`, inductive invariants, proofs. *Done.*
2. `ForkServer`, one module for three servers and their clients. *Done, proved.*
3. `LinkList` with the sequence it stands for. *Done; memory, leaks and loops proved.*
4. The programs that share a kernel object: `Discovery` and `UdpEcho` in
   `Port9999`, `MsgQueue` and `SemShm` in `SysV`, `Pipe` and `FileIo` in `WorkDir`;
   `UnixFd`, `NonBlock`, `Threads`. *Done, checked.*
5. The arithmetic of `Ping`: `PingArith`. *Done, proved.*
6. Proofs about the other processes: `ForkServerProofs`, `SysVProofs`,
   `UnixFdProofs`, `Port9999Proofs`, `WorkDirProofs`, `SmallProofs`, and about the
   list: `LinkListProofs`. *Done: every safety invariant that a run checks is proved.*
7. Next: what can be proved of `KeepsPromise` (reading, `Insert`, `Delete`, `revers`,
   the queries), and, as lemmas about single actions, the safety half of the
   liveness properties (nobody is put back to waiting once he is freed).

Conventions. A module that is proved about has its type invariant with the proofs; the
others state only what could fail. An operator that computes what one statement of the
code assigns (`FreeEntry`, `ConnClosed`, `LeftAfterWrite`, ...) has a name of its own;
some have a sibling just before them (`FreeEntryAny`, `ConnKept`, ...) that states how
that statement could be wrong. No action uses a sibling. They exist to measure the
properties: `PROJECT.json` lists under "mutants" which property must fail when the
sibling takes the operator's place.

## 3. The modules

### Ping (57)

`Ping.tla` has one process per thread. `mpc`, `spc` and `rpc` are the control of
`main`, `icmp_send` and `icmp_recv`; the other variables are the program's, by
its names. One pass of `icmp_send`'s loop is an *attempt*; its number stands for
the time `gettimeofday` returns in it.

- **Grain.** Each access to a member that the other thread may also access is a step:
  each entry that `icmp_findpacket` looks at (`S_Scan`, `R_Scan`), each of the four
  stores that save a probe (`S_SetSeq`, `S_SetFlag`, and `gettimeofday`'s two,
  `S_SetSec` and `S_SetUsec`), the release of an entry (`R_Free`) and the two loads of
  its send time after that (`R_ReadSec`, `R_Count`), between which the time may change.
  The accesses are plain loads and stores of C without a lock; the model takes each as
  atomic and in program order, as an unoptimised build on x86 has them (a `struct
  timeval` is two words).
- **Main.** `pthread_create` reports a failure by a positive number, which `err < 0`
  does not see: `main` goes on without the thread (`M_StartSend`, `M_StartRecv`), and
  joins what an uninitialised `pthread_t` says. The call returns an error (`Joined`), or
  it never returns or faults (`M_JoinMissing`).
- **Signals.** `SigInt` may come at every point from `signal()` on, on either
  thread. On the receiving thread it interrupts `select`, which leaves `EINTR` in
  `errno` (`eintr`); `icmp_recv` tests `errno` after a `recv` that succeeded.
- **Network.** `wire` holds the replies the socket may still deliver, in any
  order; a reply that is never delivered is lost; up to `MaxDups` are delivered
  and kept. `Foreign` packets are what a raw ICMP socket also delivers: echo
  requests, answers to other processes, and among them answers to a ping whose pid ends
  in the same 16 bits (`Twin`), which line 302 takes for its own, up to `MaxTwins` times.
- **Widths.** `packet_send`, `packet_recv` and the saved `seq` are shorts
  (`ToShort`), the fields of the packet are 16 bits unsigned (`ToU16`, `IdMod`),
  compared as C compares them: `Matches` compares a short with an unsigned
  number, `Own` a 16-bit `id` with an `int`.
- **Abstracted.** Formatting, the payload; `tv_interval` says only from which
  start the difference was taken. The arithmetic is in `PingArith`, apart from
  the threads: `icmp_tvsub`, the milliseconds printed, and the checksum of
  `icmp_cksum` for every sum of words that an `int` holds. The branch of
  `icmp_cksum` for odd lengths is never taken (a probe has 64 bytes).
- **Ghosts.** `att` and `slot` of a message say which attempt sent it and which
  entry it was saved in; `sent` and `counted` collect attempts. No guard of the
  program reads them.

`PingAbs.tla` is what a ping promises: probes are transmitted, each is answered
at most once, and one report of both numbers ends it. `PingProps.tla` has the
properties, `PingInv.tla` the inductive invariants, `PingProofs.tla` the proofs.

### ForkServer (26, 33, 34 with 27, 32, 35)

One module for the three pairs of programs, which differ in four facts
(`TcpServer`, `TcpServerIo`, `TcpReadvServer`): whether the child closes the
listener, whether it closes the connection when it is done, whether a failed
`accept` forks all the same, and whether the client asks again. `prog`, chosen in
`Init`, says which pair runs. A process is its control, its listener, its open
connections (`fds`) and the two variables `sc` and `size`. `link` is what the
server's kernel knows of the client: `fin` after an orderly close, `rst` after a
close with unread answers, `half` once a write has met a closed client (the next
raises SIGPIPE), `broken` once an error was reported. A child that returns from
`process_conn_server` goes back to `accept` with the descriptors it has, which is
what the code does.

### LinkList (05)

`live` is what `malloc` has handed out; `data` and `next` exist for freed nodes too, so
that reading one is an event `MemorySafe` notices. A fresh node's `next` is arbitrary
(`ReadItem`). The three functions that create a list, `pur_LinkList`, `revers` and
`Destroy_LinkList` take a step per iteration. `Insert`, `Delete` and `Get` walk first
and change afterwards, and are one step. `LinkListProps` says what sequence a list
stands for (`Items`) and what each operation may do to it; the queries (`Get`, `Locate`,
both lengths) are compared with it in every state between two operations. `header` says
whether the list has a header node: only `Create_LinkList3` makes one, and only its
lists are given to the operations that need one, as in `main`. `Scan_Link_list` is
compared too: it prints all values of a list with a header, and skips the first of one
without.

### The smaller ones

- **Pipe** (16, 17, 18): a write is the bytes it copies, in portions of any size
  (`Copy`), and its return. `HasWriter` and `HasReader` count the ends that both
  processes hold after `fork` and close one after the other. The array that 17
  gives to `write` is shorter than the length asked for; the call copies the
  `Mapped` bytes it can reach. In 18 each `open` of the FIFO waits for the other
  or fails (`WriterOpenFails`, `ReaderOpenFails`), `waitpid` fails when 18 was started
  with SIGCHLD ignored (`ReaderWaits`), and the name stays, so that the next `mkfifo` fails.
- **FileIo** (01, 02, 03, 06, 08, 10): a file is the sequence of what its bytes
  say (`"hello"`, `"fcntl"`, `"zero"`, ...). 01, 06 and 08 pass the mode `S_IRWXU`
  among the flags of `open`, where its bits are `O_CREAT`, `O_EXCL` and
  `O_NOCTTY`: `Openable` is what `O_EXCL` makes of it. No mode is passed, so
  whether a later `open` succeeds is left open (`OpenFails`).
- **Discovery** (`broadcast.c`): `net` is a bag of datagrams. `form_len`, `from_len` and the
  server's buffer start with arbitrary values, as in the code; of the client's it is
  assumed that chance does not spell the text it looks for. `found` is the set of
  addresses a client has printed as servers', `Nobody` for one that `recvfrom` could not
  write or cut. `left` is the rest
  of the timeout that `select` counts down and nobody resets.
- **UdpEcho** (40–43): `Udp` gives every client a port that another may have had
  before; a datagram under way then reaches the new owner. The clients send to
  their own host's server (`Local`), discovery broadcasts to all. Programs outside
  send to servers only, for they would have to guess a client's port.
- **NonBlock** (38, 39): a message is three parts, two of which can spell a
  command, and arrives whole or cut. `buffer` keeps what a shorter `recv` does
  not overwrite. `open` says that `s_c` still names a descriptor. A client whose
  `connect` fails goes on with the closed descriptor (`ConnectFails`). A server that
  nobody connects to tries again every second (`AcceptNothing`).
- **UnixFd** (45, 46): `Path` is what the server removes, `Domain` what it binds.
  Several servers are started; a client talks to the server that owned the name
  when it connected. A text is a sequence of bytes and `sent` all that a client has sent,
  without borders between texts. A read takes what is unread, `ReadLen` bytes at most,
  and overwrites so many bytes of the buffer, whose first three are `head`: `Overwrite`,
  `AfterRead`. So a text may be compared from its middle, or with the end of an older one
  behind it.
- **MsgQueue** (19, 20): runs of one program that share a queue; `live` is the
  identifier the key leads to, and a process that holds an older one fails.
  `lp64` says that a `long` has 64 bits; then the type that 19 sends is not the
  one it asks for (`SentType`, `AskedType`).
- **SemShm** (21, 22): the semaphore is an identifier and a value; `Sem_P` adds,
  `Sem_V` takes if it can. `memcpy` writes the bytes of the segment one by one in
  any order, `printf` looks at one after the other. All runs write the same text,
  so a position of the segment is written or not.
- **Threads** (24, 25): `buffer_has_item++` is `Load` and `Store`. 24 has no mutex;
  its thread leaves `retvalue` for `main`. Its definitions are called `ThreadsInit`,
  `ThreadsNext`, ..., so that `SmallProofs` can extend it together with `NonBlock`; the
  two have nothing else in common.

## 4. The runs

All pass but the two marked *violation*. Bounds are chosen so that every action
happens and each hazard it is meant for occurs.

| Run | What it asks | Bounds, and why they are enough | States |
|---|---|---|---|
| `ping_summary` | what is counted, measured and printed | 4 attempts with 8 values of a short: the counter wraps to negative; 2 entries, 1 failed `sendto`, 1 duplicate, 2 SIGINTs; three foreign packets, one of them an answer with our 16-bit id, counted at most once; either thread missing | 1,893,000 |
| `ping_table` | the table; refinement of `PingAbs`; the end after SIGINT | 5 attempts on 2 entries, 2 failed `sendto` calls: entries are reused, lost and run out; no duplicates or twins, since most of these promises do not hold with them; 16 values of a short, so that none wraps | 355,000 |
| `ping_sigint` | *violation* of the comment on `signal` (line 152) | 1 attempt, 1 SIGINT | 305 |
| `fork` | readers, descriptors, bytes, and that no one waits for ever | all three programs; 2 clients, 3 processes: a child that returns to `accept` can serve the second client while the parent does other things; messages of 2 bytes cut by TCP; 1 failing call, 1 kill | 299,000 |
| `list` | memory, leaks, effects, answers, end of loops | 5 nodes: up to 4 values of 2 kinds, so that duplicates are adjacent, apart and repeated; 2 operations, with every query and a scan on each list between them; nodes are symmetric | 20,900 |
| `workdir` | nothing lost; who ends when the other dies; what programs do to each other's files | transfer 13, pipe 4, write 5, read 3: no two divide each other; eight sets of three programs on the same files, among them each creator twice and two writers around an append, every initial state of the directory | 11,800 |
| `port9999` | who is answered; what is reported and printed; which clients end | seven mixes of servers and clients, which mix discovery with echo or share a client port; 2 rounds, 1 tick of timeout, 1 duplicate or 1 foreign datagram, every initial value of `form_len` and `from_len` | 392,000 |
| `nonblock` | who is answered, with what | 3 clients, of which two queue; messages that are commands or share a part with one; any connect may fail | 94,900 |
| `unixfd` | one server; when it stops; who is freed | 2 servers, 2 clients, one served, one queued, 2 texts each of `exi`, `ex`, `ooi`, `quit`; a read takes 3 bytes: a text spells the command, or in part, or over the end of an older one (`ex` over `ooi`), or in mid-text | 250,000 |
| `unixfd_restart` | *violation* of the comment on `unlink` (line 22) | 2 servers | – |
| `sysv` | who receives what; what is printed; nothing left behind | 3 runs of 19, 20 or 21 on a queue of 2: it is full, and removed under a third; 21 counts 2 passes from 7; 2 runs of 22 with a text of 2 bytes, which can be torn | 200,000 |
| `threads` | counter, mutex, stop, end | 3 rounds of each thread before the stop | 1,700 |

Some promises hold only when something did not happen: no reply was duplicated,
no short has wrapped (`Clean` in `PingProps`), no message was cut (`cut` in
`NonBlock`), no process was killed (`Disturbed` in `SysV`),
no datagram was lost (`lost` in `Udp`). These are
conditions on the history of the execution and stand in the property; the run
explores both sides.

`CHECK_DEADLOCK FALSE` is set where programs end or may wait for a user:
everywhere but in `nonblock`. There the server never ends: it polls in `accept`, with a
step of its own when nobody waits, and in `recv`. What is left to find is a state in
which it stands with a connection or a command at hand.

**Symmetry** is used in `list` only, whose properties are invariants and action
properties. `LoopsAdvance` therefore states the end of the loops as a measure
that each iteration lowers, which needs no fairness.

### Fairness

Weak fairness of each thread or process: the kernel's scheduler runs whoever can
run. Nothing is assumed of users (nobody has to connect, type or leave), of
signals, of failing calls or of the network: datagrams may all be lost.
`ForkServer`, `NonBlock` and `UnixFd` assume that a client that waits in `read` or
`select` for something that has come takes it. `Port9999` assumes that time
passes (`Tick` is a step of the client that waits). In `WorkDir` the two
processes of a pipe run, the programs on files need not. In `Threads` weak fairness of
`Lock` is enough: main clears `running`, and the other thread then leaves.

## 5. What is proved

TLAPS checks the proofs in eight modules. Those of `PingProofs` hold for every value of
the constants that satisfies `PingAssumption`: at least one entry, an even number of
values of a short, any process id, any width of `icmp_id`, any set of foreign packets,
also such as carry this process's id, any bounds. The proofs about the other programs
ask no more of the constants than the assumption their module states: any number of
processes, runs, clients, servers, nodes, messages and rounds, any backlog, capacity and
length. Only where a theorem counts must the set be finite (`Runs`, `Servers`, `Nodes`),
and 21 begins with a positive `InitValue` and loops at least once. The bounds
(`MaxAttempts`, `MaxProcs` and so on) may be as large as one likes; they only name how
often the environment acts. No theorem uses fairness.

| Theorem | Property | Says |
|---|---|---|
| `TypeCorrect` | `TypeOK` (in no run) | counters stay shorts, no index leaves the table |
| `NeverStaleEintr` | `NoStaleEintr` | the misplaced test of `errno` never discards a packet |
| `ReceivedIsAccounted` | `ReceivedAccounted` | `packet_recv` is at most the probes transmitted, the duplicates and the answers to pings with the same 16 bits of pid, before the short can wrap |
| `SummaryTime` | `SummaryTimeMeasured` | the time printed starts with `icmp_send` |
| `SummaryIsRight` | `SummaryRight` | the conjunction of the next two |
| `SummaryCounts` | `SummaryExact` | the two numbers printed are exact |
| `CrashUnsent` | `DividesByZeroOnlyUnsent` | the division fails only if nothing was transmitted |
| `TableKeeps` | `TableKeepsProbes` | an entry whose answer may come is not reused |
| `TableNoLeak` | `NoEntryLeak` | a taken entry belongs to a probe under way |
| `TableAnswers` | `AnswersMatched` | the conjunction of the next two |
| `TableDiscards` | `DiscardsOnlyUnsaved` | own answers are dropped only for unsaved probes |
| `TableRtt` | `RttNeverFromEarlierProbe` | neither load of a send time finds that of an earlier probe |
| `Refines` | `AbsSpec` | `Ping` implements `PingAbs`, given `MaxDups = 0`, `MaxTwins = 0` and `MaxAttempts < Half` |
| `OneReaderEach` | `OneReader` | a connection served is open and has one reader |
| `NoLeak` | `NoDescriptorLeak` | the acceptor keeps no connection that it does not serve, and in 34 nobody does |
| `BytesOnce` | `BytesReportedOnce` | every byte waits, is in one process's hands or was reported once |
| `MessagesShared` | `OneMessageEach` | a message reaches one receiver at most; a run of 19 whose queue exists goes without only if it was full for a run that shares it, or if a `long` has 64 bits, and then all do |
| `NoneLeft` | `NothingLeft` | undisturbed runs of 19, 20, 21 leave no kernel object |
| `OnlyOneServer` | `OneServer` | at most one instance of 45 listens |
| `ExitOnly` | `StopsOnlyOnExit` | 45 stops only on bytes `e`, `x`, `i` that the client it serves has sent, at the start of one read unless a read was shorter than three bytes |
| `CounterIsExact` | `CounterExact` | no update of the two threads of 25 is lost |
| `AtMostOneLateRound` | `OneLateRound` | a thread ends one round at most after `running` was cleared |
| `PipeLosesNothing` | `NothingLost` | a pipe's text arrives whole, unless its writer was killed |
| `LeaksBounded` | `LeaksOnlyOnFailure` | no more entries are lost than sends failed |
| `PrintedIsRight` | `PrintedRight` | what 21 and 22 print, alone and with others |
| `AppendedTextKept` | `TextKept` | an appended text is not written over; 02 prints the file's beginning |
| `MappedFileKept` | `MappedKept` | no run empties a file that 08 has mapped or overwrites that of 06 |
| `OnlyRequestsAnswered` | `AnswersOnlyRequests` | no port gets more answers of 49 than requests of its were heard |
| `ReportedServersAnswered` | `FoundMeansServer` | an address that 50 prints is that of a 49 that answered its port, or of a 42 that echoed its request after some 49 had answered, or was never written |
| `PrintedFromOwnPort` | `PrintsOwnPort` | what an echo client prints was sent from its own port, or answers a discovery from there |
| `AnsweredOnce` | `AnswersOnce` | 38 answers a client once, and rightly if nothing was cut |
| `MemorySafety` | `MemorySafe` | no freed or unallocated node is read, written or freed |
| `NothingLost` | `NoNodeLost` | every allocated node is reachable, in the middle of an operation too |
| `LoopsEnd` | `LoopsAdvance` | every iteration of a loop leaves less to do |
| `TvsubExact` | – | `icmp_tvsub` is exact and normalised for all times |
| `MillisExact` | – | the milliseconds printed are those of the whole difference, rounded down |
| `ChecksumVerifies` | – | the checksum makes the sum a multiple of 65535: two additions of the carry are enough for every `int` |

**The argument for the summary.** None of these is inductive alone. `SummaryInv` has
five parts. `ControlInv` ties the threads' control to main's and to `alive` (which of
them exist in which phase of `main`): once a thread has ended, or `errno` holds `EINTR`,
`alive` is 0 for good, so no further packet is looked at. `TimeInv` says that nothing is
transmitted before `tv_begin` is set, so that a summary with a probe in it comes with a
SIGINT after that. `WireInv` says that what is on the wire answers what was sent.
`NoDupInv` says that, without duplicates, an attempt is on the wire, in `icmp_recv`'s
hands or counted, never two of them. `CountInv` says that the shorts are the sizes of
the two sets, less the probe whose increment is pending; it needs `NoDupInv` for the
step that counts, and the bounds of `SizeBounds` for the claim that a short does not
wrap there. `ReceivedAccounted` has to do without identities, since a twin's answer is
not told from an own one: `AccountInv` counts what was counted, is being matched and may
still come against the probes, the duplicates and the twins there were.

**The argument for the table.** The properties hold in `Clean` executions, for
which `TableInv` is inductive with `SummaryInv`. `NumberInv`: the attempt *n*
carries the number *n* − 1, on the wire and in `packet_send`. `SeqInv`: no two
entries hold the same number, save the 0 they start with, which is why a match
that ignores `flag` finds at most one entry. `FirstInv` deals with that 0: the
first probe finds the table empty and takes entry 0, where the scan looks first.
`SlotInv`: an entry being filled is nobody else's. `HeldInv`: the entry of a
probe whose answer may come keeps number, flag and time; a probe that was not
saved matches nothing. `ScanInv`: so the scan cannot pass the right entry.
`TakenInv`: whoever is taken is being sent or held.

**The argument for the leaks.** `LeaksOnlyOnFailure` has to hold where `TableInv` does
not: after a `sendto` that failed, the next attempt has the same number and takes a
second entry, and the answer releases whichever the scan meets first. `RetryInv` does
without the identity of the entries. `RetryNumberInv`: the probes that may still be
answered have different numbers below the one in use. `RetryTakenInv`: all entries
with the number of such a probe are taken, of number 0 those up to the probe's own.
`RetrySlotInv`: the scan never passes the probe's own entry, so an own answer always
releases one. Then every step keeps the count in `TakenCount`: taken entries, against
probes held, failures and the attempt under way.

The times in these invariants are two numbers each, `sec` and `usec`: a load may find one
of them stored and the other not, and `ScanInv` says of each that it is not an earlier
probe's.

**The refinement** maps `report` to both counters once main has printed, and is
the identity on `sent` and `counted`. A successful `sendto` is `Transmit`,
`R_Count` is `Answer`, `M_Stats` is `Report`, everything else stutters. With a
duplicated reply the program counts an answer twice, with a twin's it counts a stranger's,
and with a wrapped short it prints another number, hence the three assumptions.

**The arithmetic.** The proofs about `PingArith` take 1000 and 65536 as
constants (`Thousand`, `Word`), of which they need that they are at least 1 and 2.
They rest on the uniqueness of quotient and remainder (`Remainder`); the checksum
splits on whether adding the carry carries once more, which happens at most once
since the sum of an `int` has a high half below 2^15 (`Sum`).

**The forking servers.** `OneReader` is not inductive: it says nothing of the
process between `accept` and `fork`. `ReaderInv` covers a connection from `accept` to
the end of its service, and adds that it is no longer in the backlog, for which
`BacklogInv` says that a client waits there once. `HolderInv` says that whatever else a
child of 26 or 33 still has open is no longer up, so that a grandchild that inherits
it cannot read there. On these rests `BytesInv`, which counts: a read moves bytes from
the socket to the one process that can have them, a reply from there to the
client.

**The queue.** `GotInv` and `KeptInv` say that a message in the live queue is
there until one receiver has it. That a run of 19 finds a message is a pigeonhole argument
(`OneForEach`), for a `long` of 32 bits and a queue that was not full for anybody who shares
it: if a run found its queue empty, every message sent to that queue,
its own included, would have been taken by a run that had sent one and is not the
one that looks: an injection of a finite set into a proper part of it. It needs that
an identifier is not used again (`IdInv`) and that the runs are finitely many
(`DirectoryAssumption`). For `NothingLeft`, `OwnerInv` names the run that will remove what
exists.

**The local socket, the threads, the pipe.** `OneServer` is inductive with the types,
since no server removes the name that is bound. For `StopsOnlyOnExit`, `StopInv` says
that a server that goes on has no `exi` at the start of its buffer, and that one that
has stopped has. `HeadInv` says where the three bytes come from: there is an offset into
the client's text for each, at which a read began that brought it (`FromReads`). A read
overwrites a beginning of the buffer, so the offset of an earlier byte is never smaller,
and all are equal until a read brings fewer than three bytes (`cut`). The zeroes of an
unused buffer are no bytes of a text. `MutexInv` ties what a thread has loaded to the
counter, `LateInv` places a late thread behind the body of its loop. In the pipe,
`WrittenInv` counts the bytes, `WholeInv` says that 16 and 18 write and read in one
piece, `FifoInv` that a parent of 18 is past its `open` only if the child is too, and
`EndInv` what a parent that has seen the end has.

**Semaphores and shared memory.** Nothing waits here, so `PrintedRight` can only bound
what runs of 21 do to each other. `BoundInv` counts, since the last time the value was
set, the runs that have it one up (between `Sem_P` and `Sem_V`), those past their last
pass, which have it one down, and the killed ones, which may be either. `AloneInv` follows
a run nobody came between. For 22, `TextInv` says that what was printed, and what the
segment held when the child began, is in the segment; the child stops at the first byte
that is not, whose existence is the least-number principle (`LeastNumber`).

**The files.** `HoleInv`: the `O_EXCL` that 06 and 08 pass by mistake lets one run create
the file, so it alone says what is in it. `MapInv`: a mapped file has its byte. `TextInv`
counts the texts that lie beyond the reach of 03 (`Safe`), which nobody takes away, and
says that what 02 has read is a prefix until 03 writes under it. They rest on a lemma
about `WriteAt`, which says what a write at an offset leaves of each byte (`WriteAtLaw`).

**Port 9999.** `WireInv` holds of every datagram however often it is duplicated or
delayed: to a server goes what its sender's port has sent, to a port goes what that port
has sent or an answer to its discovery. `answered` records which server has answered
which port. `TakenInv` carries that on into the buffers that outlive a datagram: a
client whose buffer holds an answer has been answered by some 49, which is all that
`FoundMeansServer` can say of the echo of a 42. `OweInv` counts answers given and owed
against requests heard, per port; those that go nowhere, because `form_len` was too
short when the request came, are at most one for each server, since `recvfrom` corrects
it.

**The non-blocking server.** `OneServedInv`: there is no second accept. `BufferInv`:
unless a message was cut, the buffer is empty or all that was sent, so the commands of
two messages do not mix. `AnswerInv`: the descriptor is open until the answer.

**The list.** The properties speak of `Path`, the nodes one meets from `L` on, which is
defined by following `next`; the proof speaks of a *chain*: an injective function `f` on
`1 .. k` with `next[f[i]] = f[i + 1]`. That `Path` gives the elements of a chain that ends
in `Null` is shown by minimal counterexample. Four lemmas say what a
store does to a chain: `InsertChain` (and `AppendChain`), `RemoveChain`, `PrependChain`,
`TailChain`. `ShapeInv` says for each control state what the allocated nodes are: one open
chain while a list is read (`OpenInv`, since the last node's `next` is not yet set), one
list between operations (`ClosedInv`), a list with `p` not behind `q` in the inner loop of
`pur_LinkList` (`InnerInv`), two disjoint lists in `revers` (`TwoInv`), nothing at the end
(`EndsInv`). `MemorySafe` and `NoNodeLost` follow, with no bound on the length. For
`LoopsEnd`, `Long` says how far a pointer is from the end, and `WorkFact` expresses the
measure of `LoopsAdvance` in it; in `pur_LinkList` it is lexicographic, and a node removed
brings both pointers nearer to the end.

The large invariants were first tried with TLC, as `INVARIANT SummaryInv` and
`INVARIANT TableInv` and `INVARIANT RetryInv` on the two runs of `MCPing`, `IInv`, `SemInv`,
`FileInv` and `ShapeInv` on the runs of the other systems (`ShapeInv` with three nodes),
and hold there; the configurations leave them out because the theorems imply them.

Only model-checked: `KeepsPromise` (05) and all liveness. `KeepsPromise` compares the
values along the list before and after an operation, as sequences. For `pur_LinkList` it
uses `Distinct`, a fold with an operator as its argument, whose value for every sequence
needs an induction over data that the provers cannot instantiate; the other operations
are not out of reach, since `ShapeInv` gives the chains before and after, and are next
(section 2). Where an induction is about numbers only, a minimal counterexample does
instead (`LeastNumber`), which is how `Path` was dealt with. Liveness under fairness and
`ENABLED` are out of reach too: `StopsAfterSigint`, `WaitEnds`, `ConnectionReleased`,
`AllDelivered`, `SurvivorEnds`, `ClientsEnd`, `CommandAnswered`, `ExitEndsAll`,
`ReceiversEnd` and `MainEnds` are checked on the bounds of section 4.

## 6. What the code does otherwise

Two comments are contradicted by a run (`PROJECT.json`, "findings"):

- 57, line 152: SIGINT ends the program. `main` sets `alive = 1` (156) after
  it installs the handler (153); a SIGINT in between is lost.
- 45, line 22: all links of the socket file are removed. `unlink` gets
  `/tmp/unix_socket.domain`, `bind` creates `/tmp/unix.doma`; the second start
  fails.

Others were met while modelling. The models contain the behaviour; the
properties are stated beside it:

- 57, line 193: the division by `packet_send`, which is 0 when SIGINT comes before
  the first probe, or when the short has wrapped to 0.
- 57, line 359: with the table full a probe is sent and not saved, although the
  comment on line 29 says that all are; its answer is dropped.
- 57, line 302: a 16-bit `id` is compared with the whole pid. The comments on lines 35 and
  114 say that the pid tells whether a packet answers one of this process, but the answer
  to a ping whose pid is congruent mod 65536 is counted (`Twin`; `ReceivedAccounted` says
  how far that goes); and with a pid above 65535 no reply at all is recognised (`Pid` and
  `IdMod`; the table properties assume `Pid < IdMod`).
- 57, line 369: a failed `sendto` leaves its entry taken, and no more than that
  one (`LeaksOnlyOnFailure`).
- 57, lines 160 and 167: `err < 0` is never true, for `pthread_create` reports a failure by
  a positive number; `main` then joins a thread that does not exist.
- 57, line 309: the send time is copied in two loads after its entry was released, so that
  its seconds may be one probe's and its microseconds a later one's.
- 05, line 94: `Scan_Link_list` begins behind the first node, which in the lists of
  `Create_LinkList` and `Create_LinkList2` is not a header.
- 33, line 24: the answer to a message that TCP cuts is one size per piece; the
  comment on line 17 promises the size of the message.
- 38, line 66: `s_c` is never set back to −1, so the server serves one client and
  then spins on a closed descriptor.
- 39, line 58: after a failed `connect` the client goes on with the descriptor it has closed.
- 45, line 64: `strncmp(buffer, "exit", 3)` compares three bytes, so every text that begins
  with "exi" stops the server; and the buffer is never cleared, so that "ex" read over
  "ooi" does, too. A read of all 1024 bytes leaves no 0 behind them for line 63 to print
  up to (not modelled).
- `broadcast.c`, line 132: with the end of an earlier answer still in the buffer, the
  client's own request, sent back by 42, is reported as a server's; and `from_len`
  (130) is not initialised, so that the address printed may never have been written.
- 46, line 82: at the end of the terminal's input the client never looks at the
  socket again.
- 17, line 39: `write_size >= 0` always holds: the child writes 0 bytes for ever,
  so the parent never sees the end of the pipe.
- 20, line 46: two runs in one directory receive each other's messages.
- 19, line 66: with a `long` of 64 bits no message has the type asked for; no run of 19
  receives anything, which it reports.
- 21 and 22: `Sem_P` adds and `Sem_V` takes, neither waits; runs of 21 that overlap
  print −1 or a number that is off, and the child of 22 may print any beginning of the text.
- 01, 06 and 08: the mode is passed among the flags (`S_IRWXU` is `O_EXCL` there), so
  that a second start fails.
- 08, line 26: nobody looks whether the byte was written; if not, line 36 raises
  SIGBUS.
- 18, line 17: the FIFO is never removed, so that a second start fails; and if
  either process dies before its `open`, the other waits in its own for ever.
- `udp_lib.c`, line 24: without a timeout a lost datagram leaves the client of 43
  waiting.

## 7. Not modelled

Listed under "components" in `PROJECT.json` with the reason each: the programs
that show one call, one after the other on constants or on the terminal (no
second actor, no state, nothing to check), those that do not compile, and the
packet flood. Inside modelled programs:
text output, address conversion, socket options; `socket`, `bind` and `listen`
succeed except where their failure is the point (`BindFails` in `UnixFd`, `off`
in `Udp`, `M_Setup` in `Ping`); zombies of the forking servers; memory
exhausted by `malloc`; processor time spent in busy loops;
`pthread_create` of 25, whose result is not looked at, failing; the calls on an
attribute of 24 that is not initialised yet, whose effect is never used; reads, `mmap`
and `lseek` on regular files failing; the upper limit of a semaphore.
