# Verification of the programs of eltex_autumn

The repository holds some thirty small C programs, most of them independent of each
other: thread and socket servers, two chats over POSIX IPC, kernel modules, editors,
interpreters. There is no common library, no test and no document; what a program is
meant to do is said by its messages, its few comments and its code. This directory
holds TLA+ modules of the programs in which something can go wrong between two actors
or over a long sequence of commands, TLC configurations that check them, and TLAPS
proofs of all of their safety properties.

    tlc -config MCThreadsShop.cfg MCThreadsShop     # a run of PROJECT.json
    tlapm ThreadsShopProofs.tla                     # the proofs of a module

`PROJECT.json` lists components, runs, the mutants that show that each property can
fail, the source lines behind every definition, hazards, findings and theorems.

## 1. Inventory

### The modelled programs

| program | state | operations | interaction | hard behaviour |
|---|---|---|---|---|
| `threads_shop` | `store[]` with a mutex for each shelf, the counter `sum`, needs of customers | load, buy, count itself as finished, join and print | shared memory of five threads | three accesses without a lock: the emptiness test, `sum++`, the loader's test of `sum` |
| `one_time_init` | `once_control`: mutex, indicator | `one_time_init()` | callback under the mutex | a return inside the critical section |
| `server models/1` | `client_count`, `cfds[10]` | accept, count, store, create thread; recv, send, close, uncount | main and one thread per client share counter and array; TCP | two-step updates, a pointer into an array that is reused |
| `server models/2` | one listening socket, a buffer per worker | accept, recv, send, memset, close | workers race in `accept()` | partial `recv()`, reused buffers, end of main |
| `server models/3` | POSIX queue of descriptors as `char`s | main: accept, post; worker: take, recv, send, close | message queue, descriptor table | descriptors cut to 8 bits and reused, full queue, uninitialised `len` |
| `server models/4` | five sockets, a set of `select()` per worker | select, accept on each port of the set, serve | workers race in `accept()` | stale sets and an `accept()` that blocks |
| `chat` | five non-blocking queues, `name_list[4096]` and `chat[8192]` of the server, what each client shows | server's loop of five calls; client: name, message, two polling threads, goodbye | message queues | lost sends, unterminated texts, one queue of copies for all clients, arrays that grow without a test |
| `chat 2` | semaphore, shared memory `name_list` and `chat` | enter, leave under the semaphore; `strcat()` without it; server starts and stops | shared memory of processes | death inside the critical section, restart of the server, racing `strcat()`, uninitialised array |
| `structure` | array of records | add, delete, search, show | none | a loop that copies fields from two different places; negative numbers |
| `dirname & basename` | a buffer for each thread and function | `dirn()`, `basen()` | thread-specific data | answers that live in a buffer; arrays read past what was written, and written past their end |
| `block_device` | resources of the module, disk data, 16-bit counter | load with seven failing steps, remove, request | kernel calls requests on any CPU | partial failure, removal under load, unlocked counter that wraps |
| `echo_TCP` | one listening socket, one buffer | accept, recv, send, memset, close | TCP | partial `recv()` |
| `echo_UDP`, `RAW/IP`, `unix_sockets/s1`, `c1` | socket queues, the server's buffer and `caddr` | receive, answer; send, wait, print | datagrams; raw sockets get copies of all of them | dropped requests and answers without a timeout, clients on one port |
| `traceroute` | `time_to_live`, the newest raw socket | probe, read one packet | ICMP answers of a network that loses and reorders | packets of others, a wait without a timeout, a comparison of prefixes |
| `text_editor`, `text_editor2` | `fd`, `buf`, the table of descriptors | open, write, save, quit | files | numbers of closed descriptors, descriptors left open |
| `command interpreter`, `... 2 (pipe)` | children, one pipe per line | read a line, fork, exec, close, wait | processes that share a pipe | who holds which end, three and more commands on one pipe, room for ten commands, a crash while children run |
| `ioctl` | `msg_ptr`, `msg_buff`, the position in the file | open, SET, GET, read, write, release, reload | any number of processes inside the handlers | a pointer shared by all openers that GET leaves NULL |
| `proc` | `temp` | read, write, reload | the same | a counter read three times in one call |
| `sys` | `foo`, the kobject | show, store, load, remove | the same | test and clear in two steps, a load that fails half way |

What makes each of them correct is what section 3 lists under its module.

### Not modelled

* `block_port_module`: its hook is registered for a `struct net` that the module itself
  declares, so no packet ever passes it; what is left is a number that is stored.
* `icmp`: a network device whose transmit function sends one packet for each packet and
  frees all it has allocated; nothing is kept between two calls.
* `RAW/UDP` and `RAW/ethernet`: the exchange of `RAW/IP` with headers of another layout
  and, in the second, fixed addresses. `unix_sockets/socket1`, `socket2`: one line is sent
  and printed.
* `kernel/hello.c`, `broadcast`, `multicast`, `calculator`, `pointers`: one message, one
  datagram or one sum each, no state over which a property could be stated.
* Everywhere: curses windows (`text_editor2/graphics.c`), printing, terminal settings.

## 2. Modules

| module | models | extends / refines |
|---|---|---|
| `ThreadsShop`, `ThreadsShopProofs` | `threads_shop/*` | |
| `OneTimeInit` | `one_time_init/oni.c` | |
| `EchoService` | the promise of an echo server to its clients | the abstract specification |
| `EchoCore` | client program and the body of `customer_service()` | |
| `EchoThreads` | server models/1 | extends `EchoCore`; uses `EchoService!Echoes` |
| `EchoWorkers` | server models/2, /4 and `echo_TCP`, chosen in `Init` | extends `EchoCore`, refines `EchoService` |
| `EchoQueue` | server models/3 | extends `EchoCore`, refines `EchoService` |
| `DatagramEcho` | `echo_UDP`, `RAW/IP`, `unix_sockets/s1`, `c1` | refines `EchoService` (`INSTANCE ... WITH`) |
| `Traceroute` | `traceroute/traceroute.c` | |
| `ChatQueues` | `chat/server.c`, `chat/client.c` | |
| `ChatShmNames` | `chat 2`: server, semaphore and name list | |
| `ChatShmChat` | `chat 2`: `send_message()` | |
| `Phonebook` | `structure/struct_home.c` | |
| `PathNames` | `dirn.c`, `basen.c` | |
| `Editors` | `text_editor`, `text_editor2` | |
| `PipeShell` | the two command interpreters | |
| `BlockDevice` | `block_device/main.c` | |
| `KernelCalls` | processes inside the handlers of a kernel module | |
| `RWDevice`, `ProcFile`, `SysFile` | `ioctl`, `proc`, `sys` | extend `KernelCalls` |
| `EchoThreadsProofs`, `EchoWorkersProofs`, `EchoQueueProofs`, `ChatQueuesProofs` | proofs about the module of that name | each extends it |
| `ChatShmProofs` | proofs about both parts of `chat 2` | extends `ChatShmNames`, `ChatShmChat` |
| `KernelProofs` | proofs about the kernel modules | extends `BlockDevice`, `RWDevice`, `ProcFile`, `SysFile` |
| `ProgramsProofs` | proofs about the programs without a proof module of their own | extends `OneTimeInit`, `Phonebook`, `Editors`, `Traceroute`, `DatagramEcho`, `PipeShell`, `PathNames` |
| `MC...` | the instances that TLC checks | |
| `MCChat2`, `MCPrograms`, `MCKernel`, `MCNet` | several programs, one at a time | compose the modules of both parts of `chat 2`; phone book, editors, interpreters and `one_time_init`; the kernel modules; `Traceroute` and `DatagramEcho` |

In the last four a variable (`program`, `part`) is chosen at the start and says which of
the programs runs; the variables of the others stay as they are, so the states of a run
are those of its programs side by side, not their product.

Definitions have the names of the functions they model where there is one; a function
that blocks or is interleaved is split into one action for each access to shared state.

**Arrays that nothing guards.** Where the code writes past an array, the model goes to a
place from which nothing is claimed any more, and the properties and theorems say so:

| array | constant | the model ends in |
|---|---|---|
| `chat/server.c:138,140`: `name_list[4096]`, `chat[8192]` | `ListSize`, `ChatSize` | `"overrun"` |
| `chat 2`: 1024 bytes of the list, `buf[4096]` and `name_list[4096]` of `delete_name()` | `ListSize`, `BufSize` | `"dead_in_section"` of the client |
| `chat 2`: the shared chat | `ChatSize` | what `Fits` excludes |
| `dirn.c`, `basen.c`: a buffer of 4096; `basen.c:20`: `filename[255]` | `PathSize`, `NameSize` | `"undefined"` |
| pipe interpreter, `main.c:24`: `command_path[10]` | `CommandRoom` | `"crashed"` (`Overfill`) |
| editors: `buf[1024]` | `BufSize` | `"overrun"` |
| server models/1: `cfds[10]` | `MaxClients` | `"undefined"` |

A single name, telephone number, message or file name is taken to fit the array it is typed
into.

**Threads of the shop.** `LoaderNext` and `CustomerNext(c)` are the two thread
functions; a read of `store[j]` or `sum` and the write that depends on it are two
actions with a register between them. `random_number()` is a choice from its range.
`StoreCap` bounds the shelves: the real loader goes on for ever while customers do not
come, and the model's loader skips a shelf above the cap. `stocked`, `sold` and
`wanted` are history.

**One-time initialisation.** `TestFirst`, `TestAgain`, `InitReturns` and `Unlock` follow
`oni.c:4-22`; `TestAgain` returns 1 and keeps the mutex, as line 10 does.

**Echo servers.** A connection is named by its client, a byte by its client, its place
and its case. `recv()` may return any beginning of what is under way, 0 when the client
has closed, -1 for a descriptor that is not open; no server tests it. SIGPIPE of a
`send()` to a client that has gone is not modelled (the bytes are dropped).
`EchoThreads` and `EchoQueue` have the table of descriptors, because these two programs
keep descriptors as numbers in shared places; the kernel gives out the lowest free one.
In `EchoThreads` every use of `client_count` and `cfds[i]` is a step, as in a build
without optimisation, and a write outside `cfds[]` ends the model in `"undefined"`.
The uninitialised `len` of server models/3 is `lenOk`: chosen at the start, and put
right by the first `accept()` that succeeds.

**chat.** The queues are bounded sequences; a send to a full one is lost. The server is
its loop: each call of it takes all messages or posts all copies before the next one.
A text is a sequence of letters, and `Overlay` is what an `mq_receive()` into a buffer
that was not cleared leaves. The uninitialised arrays begin with `NameGarbage` and
`ChatGarbage`. `NameCapacity` and `Capacity` stand for the ten messages of each queue: the
queues of names hold less than those of messages and copies, which keeps the run small.

**chat 2.** Objects of the n-th start of the server are generation n; a client keeps the
semaphore it opened and opens the list by name each time, so it may hold an old
semaphore and write a new list. The three `unlink` calls of the server are one step; a
server that is killed leaves its objects linked, which is no step at all, and its next
start does not replace them (O_EXCL). A client may be killed anywhere. `delete_name()`
is its steps: `LoadList` reads the list, `CopyOthers` takes one token of `rest` at a time and
appends it to `copy` unless it is the client's name, then the list is cleared and the copy
written, so that a death or another generation's client can come between. The array `delete_name()`
appends to is not initialised: what it holds before its first zero may contain newlines, and
leaves the lines `GhostLines` above the list and its last piece, a `Garbage`, in front of the
first entry. `ChatShmChat`
keeps every byte of the shared chat and every step of `strcat()`; it is a module of its
own because the chat is not touched by what happens to the name list.

**Phone book.** One action for each command that changes something; `Without(r)` is the
copying loop with the number always taken from record i+1. `truth` is what the user expects
to have (`Expected`): the records entered and not deleted, and of each how many `behind` it
have been deleted. A negative number passes the test of the code though it is no record's;
nothing is said of the book after that (`strayed`).

**Paths.** One action for each pass over the string, on the buffer of the calling thread;
`Kept` and `Squeezed` give what the first loop copies into `buf`, by the `Rank` of a place
among those that are kept. The reference, `IsParent` and `BaseName`, is stated on the
`Components` of a path: a parent is a text that `Joins` all components but the last. `Joins`
is a relation; that it leaves no choice is evaluated by TLC (`MCJoinsIsUnique`). Once a
call has written past its buffer or past `filename` (`GoOn`), nothing is claimed of any thread.
The characters found behind `buf` and `filename` are choices from `BufTails` and
`FileTails`. `string[-1]`, read for an empty path, is a 0 byte of the allocator's header.

**Block device.** `Acquire` takes the next resource of `LoadOrder` and may fail until the
disk is there; `ReleaseNext` gives back what is held in the order of
`blkdev_remove_device()`. The block layer is external: it calls `_queue_rq()` with
requests inside the disk on any CPU, and a queue is released only when it is drained.

**Datagram echo.** `family` says whether the UDP servers run (their loops are the same, and
echo_UDP and RAW clients may be served by one) or the unix socket's. A request is dropped
by a full UDP socket or when no server is there; a sender to a full unix socket waits. Any raw
socket may be full when an answer comes (`Answered`): then it misses that answer.
`Promise` is `EchoService` for the clients with an address of their own. An empty line
makes c1 send an empty datagram and print garbage: it is mapped to no answer. The raw
clients share port 7777; `crossed` is history and names those that waited while another
one's answer was due.

**Traceroute.** A probe and what the network answers are one message of `flight`, which is
delivered in any order or lost. `inbox` is the first packet at the newest raw socket: the
program reads no other. `BeginsWith` is what `strncmp()` compares.

**Editors.** `desc` is the table of descriptors, `offset` their positions; `open()` gives out
the lowest free number. A file is shorter than the 1024 bytes that one `read()` takes. A
save before the first open closes descriptor 0: the editor is `"deaf"` from then on.

**Interpreters.** `piped` says which of the two runs. `ends` is who holds which end of the
pipe: main until `ClosePipe`, a child until it dies. The programs that are run are
external and of three kinds: one writes, one reads to the end, one does not exist.
`Miscount` is the crash that `command_count()` and `lexemes_count()` can lead to.

**ioctl, proc, sys.** `KernelCalls` lets any number of processes into the handlers and
remembers in `tainted` whether calls have overlapped since one that sets the shared state
anew was alone. In `RWDevice` and `ProcFile` each access to `msg_ptr` or `temp` is a step;
a process that follows NULL is killed and its file closed by the kernel. Between open and
release a process of `RWDevice` reads, writes, SETs and GETs in any order and as often as it
likes, so a second GET on one open, which follows the NULL that the first one left, is among
the behaviours. A character is named by its place; of `my_read()` only the position in the
file is kept, which `my_write()` goes on from. All places behind the end of a text are one, and
what is there is a choice. The memory that
`write_proc()` allocates is read by nobody and left out. In `SysFile` the load is two steps, each of which may fail.

## 3. Runs

All runs but `shop_sum` and `book_numbers` pass. Each property has a mutant: a plausible slip in one of the
mapped definitions with which TLC finds the property violated. `TypeOK`, where a module
has it, says what the variables may hold; it holds on the same instances (`INVARIANT
TypeOK` in the cfg) but is not a run's question. What a proof needs of types is the first
conjunct of its inductive invariant (`ShopInv`, `OnceInv`, `...Types`).

| run | instance | distinct states | what it shows |
|---|---|---|---|
| `shop` | 2 customers with needs 2 or 3, 2 shelves, cap 1 | 337 642 | `ShopInv`: with the ledger of each shelf - no unit is lost or sold twice although the test for emptiness is stale; the racy `sum` can lag but never run ahead. `EveryNeedMet`. `PrintsUnlessLost`: main prints in the end, unless an increment of `sum` was lost. `LeftoversFinal`: nothing changes after "All needs of customers are met!" |
| `shop_sum` | the same | violation | `SumCountsFinished`, the comment at `main.c:8`, is false: two increments may count once, and then the loader never stops |
| `echo1` | 3 clients, 3 threads, room for 2 | 1 798 000 | `SlotsSafe`: no race makes main write above `cfds[]`, and no thread finds a place that was never written. `AloneIsSafe`: clients that do not overlap are served rightly and leave the counter at 0 |
| `echo2_4` | 3 clients, 2 workers (one in `echo_TCP`), 3 ports, 2 bytes | 437 449 | `OneServerEach`: of the workers that wake for one connection one serves it, the others touch nothing, and no connection is forgotten. `KeepsPromise`, `AnsweredUnlessAllAsleep` |
| `echo3` | 4 clients, 1 worker, queue of 1, a char that is just wide enough | 338 000 | `FdsSafe`: a descriptor is in one place of main, queue and worker; these bound the open descriptors, so none is cut. `KeepsPromise`, and `Answered` if `len` was good |
| `chat` | 2 clients, 2 messages of 1 and 2 letters, queues of 2 for messages and copies and of 1 for names, a list of 7 bytes, a chat of 6 | 432 907 | Until an array is overrun: `MessagesKept`, `ViewsTrue` - nothing accepted is lost or reordered, two messages queued together included, and nobody sees anything but a beginning of the chat, though an older and a newer copy wait together. `LeaversVanish`, and `AllSeeChat`: everybody in the end sees the whole chat, if the arrays hold |
| `chat2` | names: 3 clients, one without a name, 2 starts of the server, garbage of up to two lines; chat: 2 clients, 2 messages of 1 or 2 bytes | 685 835 | `SemGuards`: a semaphore and its holders always make one, over deaths and restarts, and two clients meet on one list only if one of them brings an older semaphore. `ListRight`: in the server's first run the list is right up to garbage at its top. `GetsThrough`. `SoloKept`: a message appended alone survives all later races, and deaths inside `strcat()` |
| `paths` | 2 threads, 26 paths, one of them too long for the buffer and one for `filename` | 2 096 296 | `AnswersRight`: the answers agree with the reference and survive every other call, until a path overruns an array |
| `programs` | 5 records, numbers -1..5; 2 files, 5 descriptors, a text too long for `buf`; lines of 4 commands, and of 5, for which there is no room, a pipe for one item; 3 threads, 2 calls each | 220 417 | `BookRight`: people and ids are right, and so is the telephone number of a record behind which nothing was deleted. `SavesLandRight`: a save never reaches another file than the one opened last, over closed, reused and forgotten numbers. `PipelineRight`: one pipe for a whole line loses nothing, and who sees its end sees the end of all writers. `LineEnds`. `OnceContract`: `init()` runs once and is complete for everybody who gets an answer. `AnsweredUnlessRefused`: only a refusal leaves callers asleep |
| `book_numbers` | the same | violation | `RecordsStay`: one record is deleted (the comment at `struct_home.c:76`), but the record ahead of it gets its telephone number, and a search by number finds the wrong person |
| `kernel` | disk: 2 CPUs, 3 requests, 2 loads, 1-bit counter; others: 2 processes, 5 calls; ioctl: 3 opens, a buffer of 2, an answer of 1, a GET of 2 | 1 606 992 | `NothingLeaks` for every failing step of a load. `RequestsSafe`: no request finds its memory freed. `AloneCounts`: while no two accesses of one load overlap the counter is right modulo its width. `RemovalEnds`. `AloneAnswered`: whoever has the ioctl device alone is killed only by his own second GET without a new hello, never by what others left, and gets the text his own calls chose. `BudgetKept`: reads that do not overlap get what a hello granted, in portions of any size. `SysFileSound`: how often one hello is answered, and that only a load whose file failed leaves the directory behind |
| `net` | 2 traces of 2 hops to targets of which one begins like the other, 1 foreign packet; 2 + 2 clients, a socket for 2 requests | 153 103 | `RouteRight`: an undisturbed trace shows its route; a disturbed one never shows a router nearer than it is. `TraceEnds`. `DatagramPromise`: the servers implement `EchoService` for clients with an address of their own. `RawAnswers`: a raw client gets another's answer only if both waited at one time. `AnsweredUnlessDropped` |

**Bounds.** Two or three actors of each kind are enough for every race here: the races
are between two accesses, and the third actor is the one whose state they damage. Queues
of one element make "full" and "empty" the common case; those of `chat` that keep an order
hold two, so that two messages, and two copies of different age, wait together. Its list and
its chat hold what some behaviours send and are overrun in others. Two-byte requests make a partial
`recv()` possible, texts of one and two letters an older text that shows through. In
`echo3` `CharHalf` is the smallest value `QueueAssumption` allows, so a single descriptor
more than queue, worker and main account for would be cut. `MaxClients` is 2 with three
clients, so that the table overflows. The counter of `kernel` has one bit, so that it wraps after two
writes. `ChatSize` of `chat2` holds all messages (`RoomFor(2)`): the overrun of a full chat is not
in question. Its names are apart (`NamesApart`); TLC evaluates both in `MCChat2`. Lines of four commands have two writers and two readers on the one pipe, and a
pipe for one item makes every writer wait. Three probes are one more than the way is long,
so that a foreign packet can cost one. Five descriptors leave two for files, so that they
run out. Every bound that is not in the code is marked as a bound of the model where it
is declared.

**Deadlock.** `CHECK_DEADLOCK FALSE` stands where a behaviour may really end: threads and
processes return, `one_time_init()` leaves its mutex locked, the bounds are used up, an array is overrun.

**Fairness.** Threads that can run are scheduled (weak fairness of each thread function),
and a client that has connected sends at once. Nobody has to press a key, to connect, to
write or to leave. Two places need strong fairness: a customer's `pthread_mutex_lock`,
because the loader that competes for the mutex sleeps for a second between two locks, and
the polling for the chat's copies, because a client that got one sleeps for a second while
the others poll. A customer that draws shelves draws a full one in the end, because
`rand()` takes every residue. A trace that was started runs on and an answer that is not
lost arrives some day; a datagram server that runs and a client that waits are scheduled; so
are the children of an interpreter, whose standard input, where it is the terminal, comes
to an end. A removal of the disk waits for handlers, which the kernel runs to their end.
A thread inside `one_time_init()` is scheduled and `init()` returns; weak fairness is enough,
because the mutex is taken twice at most before it stays locked.
Nobody has to start a program, to type a line or to load a module.

## 4. Proofs

TLAPS proves the following for every value of the constants that the named assumption
allows: any numbers of clients, threads, CPUs, processes and files, any sizes of queues and
buffers, and any values of the model's bounds. 27 of the 39 properties of the passing
runs are stated by a theorem, all but the liveness properties; the run shows a property on an instance in which everything it is about
happens, the theorem everywhere.

| theorem | states | inductive invariant | assumption |
|---|---|---|---|
| `ThreadsShopProofs!ShopInvariant` | `ShopInv` | `ShopInv` | `ShopAssumption` |
| `...!LedgerBalances` | no update of a shelf is lost | the same | |
| `...!LoaderStopsAfterCustomers` | `LoaderStopsLast`, a conjunct of it | the same | |
| `...!PrintedLeftoversFinal` | `LeftoversFinal`, an action property | the same | |
| `EchoThreadsProofs!ThreadsSlotsSafe` | `SlotsSafe` | `SlotInv` | `ThreadsAssumption` |
| `...!ThreadsAloneSafe` | `AloneIsSafe` | `AloneInv` | and `CoreAssumption` |
| `EchoWorkersProofs!WorkersServeOnce` | `OneServerEach` | `WorkersInv` | `WorkersAssumption`, `CoreAssumption` |
| `...!WorkersEcho` | `KeepsPromise`: refines `EchoService` | the same | |
| `EchoQueueProofs!FdsAreSafe` | `FdsSafe` | `FdInv` | `QueueAssumption`, `CoreAssumption` |
| `...!QueueServerEchoes` | `KeepsPromise`: refines `EchoService` | `EchoInv` | |
| `ChatQueuesProofs!AcceptedAreKept` | `MessagesKept` | `ChatInv` | `ChatAssumption` |
| `...!ClientsShowTheChat` | `ViewsTrue` | the same | |
| `ChatShmProofs!SemaphoresGuard` | `SemGuards` | `NamesInv` | `NamesAssumption` |
| `...!NameListIsRight` | `ListRight` | `ListInv` | the same; hypothesis `NamesApart` |
| `...!SoloMessagesStay` | `SoloKept`, while the chat fits | `StrcatInv` | `ChatShmAssumption` |
| `...!RoomyChatFits` | no `strcat()` leaves the object | `RoomInv` | the same; hypothesis `Roomy` |
| `...!RoomyChatKeepsSolo` | `SoloKept` | both | the same; hypothesis `Roomy` |
| `KernelProofs!ProcBudget` | `BudgetKept` | `ProcInv` | `CallsAssumption`, `ProcAssumption` |
| `...!SysFileIsSound` | `SysFileSound` | `SysInv` | `CallsAssumption`, `SysAssumption` |
| `...!RWAlone` | `AloneAnswered` | `RWInv` | `CallsAssumption`, `RWAssumption` |
| `...!BlockRequestsSafe`, `BlockNothingLeaks` | `RequestsSafe`, `NothingLeaks` | `Held` | `BlockAssumption` |
| `...!BlockCountsAlone` | `AloneCounts` | `Held`, `CounterInv` | the same |
| `ProgramsProofs!OnceHolds` | `OnceContract` | `OnceInv` | `OnceAssumption` |
| `...!PhonebookIsRight` | `BookRight` | `BookInv` | `PhonebookAssumption` |
| `...!EditorsSaveRight` | `SavesLandRight`, an action property | `EditInv` | `EditorsAssumption` |
| `...!TraceroutesAreRight` | `RouteRight` | `TraceInv` | `TracerouteAssumption` |
| `...!RawClientsAnswered` | `RawAnswers` | `DgramInv` | `DatagramAssumption` |
| `...!DatagramServersEcho` | `DatagramPromise`: refines `EchoService` | the same | |
| `...!PipelinesAreRight` | `PipelineRight` | `ShellInv` | `ShellAssumption` |
| `...!PathAnswersAreRight` | `AnswersRight` | `PathInv` | `PathAssumption` |

Every inductive invariant was checked by TLC on the instance of its run before it was
proved. They are needed for the following reasons.

* **Shop.** `ShelfLedger` is not inductive: a thread that has read a shelf writes back a
  value computed from what it read. `ShopInv` adds that a thread between lock and unlock
  owns the mutex of its shelf (`OwnsShelf`) and that what it has read is still there
  (`FreshRead`). `LoaderStopsLast` needs `SumLags`: `sum`, and every value of it in a
  register, is at most the number of customers that have counted themselves, and
  `NoNeedLeft`: who counts itself needs nothing any more.
* **One-time initialisation.** Who owns the mutex (`OwnsMutex`: a thread past the lock, and
  nobody once a refusal has leaked it) and what the indicator tells of `init()` (`InitTold`).
* **server models/1.** The limit of the counter is not inductive, because threads write back
  what they read long ago. `SlotInv` says instead which places were written: those below the
  counter, up to one place while main is between `client_count++` and the store, and those
  below one less than any value a thread has read (`MainWritten`, `ThreadsWritten`). A
  `client_count--` may write back an old value, and whatever it writes is below a written
  place. `AloneInv` describes the time before the first overlap: main and one thread take
  turns, the counter tells whose turn it is, the one connection is at place 0 and its
  buffer is its own (`Turns`, `OneConnection`, `Fresh`, `OwnBuffer`). Only `MainAccept`
  can end it.
* **server models/2, /4, echo_TCP.** A connection waits once at its client's port and has
  left it when it is served (`QueuedOnce`, `ServedOnce`); it is untouched until `recv()`, so
  what `recv()` leaves in a blank buffer is an echo of its client (`BufferOwn`). Between its
  connection and its close it is at one of these places (`Accounted`). With that a
  `send()` is `EchoService!Answer` and every other step of a worker a stutter.
* **server models/3.** `FdsSafe` bounds descriptors by where they are held; that needs
  `AllHeld` (no open descriptor is forgotten) and a count of the places, hence the
  cardinalities in `QueueAssumption`: main, the queue and the workers together stay below
  what a `char` holds. `EchoInv` adds the same three facts as above.
* **chat.** A view is a beginning of the chat because all copies under way are, the older
  ones the shorter ones, and nobody shows more than the oldest (`CopiesGrow`): with one queue
  for all clients an older copy can still be taken after a newer one was posted, never after
  it was shown. Nothing of this is said once the list or the chat has outgrown its array.
* **chat 2, names.** `SemGuards` needs that every semaphore in use was created (`Opened`); two clients on a
  list that is no newer than their semaphores have opened the same one, which admits one.
  `ListRight` is about clients that are in and out; while one rewrites the list it is neither.
  In the first run of the server, and while
  nobody has died in the section, `ListInv` says that the list is `Good` (each member once, nobody else, garbage at its top
  at most), that the section has one client inside, and that of a rewriter the copy
  and the rest together are a `Good` list, the copy alone once it is complete. The hypothesis
  `NamesApart` is needed: of two users with one name, one takes the other off.
* **chat 2, chat.** `SoloKept` needs that a `strcat()` copies behind every message that was
  appended alone (`SoloBehind`: it began at a zero, and there is none before), and what a lone
  `strcat()` has found (`AloneSoFar`). `SoloMessagesStay` has the hypothesis `[]Fits`, that no
  `strcat()` comes to the end of the shared object: the program does not test it, and nothing
  is claimed of a chat that runs over. `RoomyChatFits` proves `[]Fits` of an object with room
  for all that can be sent (`Roomy`), whatever the races: by `RoomInv` the memory is zero from
  some place on, no further than the number of bytes copied, and every search for the end
  stops there at the latest. `RoomyChatKeepsSolo` puts the two together.
* **proc, sys, ioctl.** While calls do not overlap one process is inside (`OneInside`), and
  its place in the handler says where the shared value is: the budget between `temp` and a
  reader's register (`Portion`), the pointer where the last open, SET or GET has put it (`Stands`) and, in a GET, as far in the
  text as the reader, whose copy is its beginning (`Reading`, `Copied`).
  In `sys` the bound holds for overlapping calls too: those about to answer are among those
  that have not answered (`Answers`).
* **Block device.** `Held` lists what is held in each phase of load, use, failure and
  removal; requests are under way only while all they use is. `CounterInv` says that the
  counter, with what the access under way is going to add, is the number of hellos not
  answered, modulo its width.
* **Phone book.** `BookRight` is inductive once typed: `truth` counts for each record what
  `remove_sub()` has deleted behind it, which is when its number moves.
* **Editors.** `fd` leads to the file opened last and not saved since, and 0 to the keyboard
  (`LeadsToCurrent`, `Keyboard`), as long as the editor has not closed it.
* **Traceroute.** `InStep`: an undisturbed trace has one message in the network or at its
  socket, and that is the answer to its newest probe. `NothingTooNear`: what is under
  way, at a socket or printed comes from no further than the probes have got.
* **Datagram echo.** Every request, answer and reply belongs to a client that sent it
  (`RequestsKnown`, `AnswersKnown`, `RepliesKnown`), and raw clients that were not crossed
  are alone at their port (`AloneAtPort`).
* **Interpreters.** Who sees the end of the pipe must know that nobody can write any more:
  `Holds` says of every process which ends it has at each moment between fork, exec and exit.
  With it `SinksLast`: who reads the pipe to its end outlives all that write to it, and no
  writer is killed while there is such a reader; so every writer has written its quota, and by
  `NothingLost` all of it was read or is in the pipe.
* **Paths.** `AnswersRight` is about finished calls. `PathInv` says what the buffer holds
  between two passes (`Halfway`) and that the buffer of a finished call still holds what the
  call left (`Left`), because only its own thread writes it, and only in that function; both hold until a call overruns an
  array. The
  lemmas relate the loops to the components without an induction: the place of a character
  in `buf` is its rank among the kept ones, ranks grow by one at each kept place, and so a
  component goes over as it stands (`SqueezedComponents`); a text cut before a slash keeps its
  first components (`CutComponents`). Together they give what each way through the two functions
  leaves (`TrimmedRight`, `DirectoryRight`, `NameRight`).

The assumptions say what the code's constants and its surroundings are: sizes are natural
numbers, the marks for "nobody" are not clients, sets that are counted are finite. Three say
more. `QueueAssumption`: the queue and the workers number less than a `char` holds, as 10 and
10 do. `TracerouteAssumption`: a route comes to no address twice, and an address begins
itself. `EditorsAssumption`: there is room for a descriptor besides the three standard ones.
`Letters` of the chats and `Chars` of `Editors` are alphabets, any sets; `PathChars` has a slash
and a dot in it. `NamesApart` and `Roomy` are no assumptions on the constants but hypotheses of
the theorems that need them. The fairness of
the liveness properties is no part of these theorems: they hold of `Spec` without it.

Only model-checked:

* the liveness properties (`EveryNeedMet`, `PrintsUnlessLost`, `AnsweredUnlessRefused`, `Answered`,
  `AnsweredUnlessAllAsleep`, `AnsweredUnlessDropped`, `LeaversVanish`, `AllSeeChat`,
  `GetsThrough`, `LineEnds`, `RemovalEnds`, `TraceEnds`): fairness and ENABLED are out of the
  prover's reach;
* that `Joins` determines a text (`MCJoinsIsUnique`), on short texts: an induction over them.

## 5. Findings and observations

Two comments say something the code does not do: `main.c:8` of the shop (run `shop_sum`)
and `struct_home.c:76` (run `book_numbers`). Other behaviour a reader of the code should know
follows from the properties that hold, or is what they except:

* `one_time_init()` is usable once: the second call that returns keeps the mutex
  (`oni.c:10`) and blocks all others. No line of the repository says what a second call
  should do, so there is no statement to refute; `AnsweredUnlessRefused` says that this
  is the only way a caller is left asleep.
* In server models/1 only `AloneIsSafe` holds of the answers. With overlapping clients a
  thread can find another thread's descriptor in `cfds[]`, and lost updates of
  `client_count` can end the server early or make an index negative.
* In server models/4 all workers can sleep on ports nobody uses while a client waits on
  another one.
* In the phone book a negative number deletes the first record.
* In `chat 2` a client that dies inside the critical section closes the list for all.
  After a restart of the server old and new clients are not excluded from each other.
* Two traces that run at once can take each other's answers for ever, and a trace whose
  answer is lost never ends; `TraceEnds` excludes exactly these two cases.
* A UDP or raw client whose request or answer is dropped waits for ever.
* A second GET on one open of the ioctl device, without a new hello, follows NULL and ends
  the process.
* Overlapping calls leave the kernel modules with values that no later call was meant to
  see: a greeting counter that wraps, a negative `temp`, a pointer past its text.
* None of the arrays listed in section 2 is guarded: a long chat, list, path, line or text
  overruns it.
* A read of 0 bytes of the `/proc` file gives up what is left of the answer.
* A load of `sys` whose file fails leaves its directory, and no later load succeeds.
* A save before the first open leaves the editor without its keyboard.
* The command interpreters run the first command of the last line again and again when
  their input has ended.

## 6. Plan

All programs in which several actors or a long sequence of commands matter are modelled, and
all their safety properties are proved. What is left are the liveness properties, which stay
with TLC.
