# TLA+ models of haskell-os

haskell-os is an operating system in Haskell for the Raspberry Pi Zero: MicroHs
compiles the Haskell sources (`hs/`) to combinators, a C runtime (`c/eval.c`)
reduces them on the bare machine, and a few hundred lines of C and assembly
drive the hardware. This directory holds the TLA+ specifications of the system,
the TLC configurations that check them, and proofs for TLAPS.

```
tlc -config AnyClient.cfg MCThreads      # one run
tlapm ThreadsProofs.tla                  # one module's proofs
```

## 1. The system: inventory

Everything Haskell runs as *green threads*, interleaved by the scheduler of
`c/eval.c` on one CPU; the only other agent is the hardware (interrupt handler,
timer, UART, radio, SD card). Threads share MVars; MVars carry channels;
channels connect processes; drivers poll the hardware and yield.

| part | state | operations | talks to | what is hard |
|---|---|---|---|---|
| **scheduler and MVars** `c/eval.c` | `runq`, `timeq`, per thread `mt_state`, `mt_mval`, `mt_at`, per MVar `mv_data`, `mv_takeput`, `mv_read` | take/read/put and try forms, fork, yield, threadDelay, preemption, pause_exec, end | the clock; every Haskell part | a blocked primitive is *executed again* when the thread is rescheduled, so what a wake-up leaves behind (stash, mark) must fit that second execution; one link field for all queues |
| **clock and timer** `c/extra.c`, `asm/hal-asm.S`, `hs/Timer.hs` | a 32-bit microsecond counter | read; busy-wait | scheduler, radio, SD driver | it wraps every 71.6 minutes |
| **channels** `hs/Process.hs` | a chain of single-use MVars, an MVar for either end | newChan, send, recv, tryRecv, select | MVars | an operation is three MVar operations and can be preempted in between |
| **processes** `hs/Process.hs` | a state MVar per process | spawn, waitProc, supervisor | MVars | the supervisor polls while the child swaps its state |
| **serial input** `c/hal.c`, `hs/UART.hs`, `hs/Interrupt.hs` | hardware FIFO, ring buffer with head and tail | interrupt handler, getChar | scheduler (yield) | no lock between handler and reader; two ways to get a byte |
| **FAT32** `hs/FAT32.hs` | the copies of the FAT, directory entries, two sector buffers | create, write, delete, rename, read, list | SD driver | an operation is many sector writes; power can fail between any two |
| **SD card** `c/emmc.c`, `c/sd.c` | RCA, CCS, last response and error; controller registers | initialise, command, transfer, read, write | timer | timeouts, retries, ignored results |
| **radio** `hs/NRF.hs`, `hs/NetChan.hs`, `hs/SPI.hs`, `c/spi.c` | chip registers and FIFOs, statistics, inbox and outbox | send (ack, retries), recv, encode and decode | channels, SPI | loss, repetition, two threads on one chip |
| **memory** `c/hal.c`, `hs/Alloc.hs`, `hs/VM.hs` | bump pointer; page tables | kmalloc, alloc, map | everyone | 32-bit arithmetic; never freed |
| **shell, heartbeat, start-up** `hs/Main.hs`, `hs/Shell.hs` | heartbeatVar, working directory | commands | all of the above | shares heartbeatVar with the heartbeat thread |
| **Lisp and parser** `hs/Lisp.hs`, `hs/Parse.hs` | an environment of bindings | parse, eval | shell | pure recursion |
| **GPIO, HAL bindings, serial output** | none | register accesses | | |
| **boot and stubs** `asm/boot.S`, `c/cstart.c`, `c/rts-stubs.c` | none after start-up | start; division, popcount, printf for the runtime | | |
| **reducer, GC, loader** `c/eval.c` | cells, free map with `num_free` and `next_scan_index`, stack, roots, label table, handlers; lists of arrays, weak pointers, threads, MVars, foreign pointers | load, reduce, collect | scheduler (its roots, its slices) | cells move under the locals of C code; a preempted evaluation starts again from its root; the mark phase keeps its progress in the arrays it marks |

What makes each part correct:

- scheduler: a thread is in exactly one queue, the one its state names; a
  wake-up is never lost; a handed-over value goes to the take it was meant for;
  no delay is short, a check of `timeq` leaves no expired sleeper behind; every
  runnable thread runs; a value put is taken once.
- channels: a FIFO queue per channel, whoever interleaves; senders never wait
  for receivers; everything sent arrives.
- processes: one instance of a child at a time; ends are noticed and restarted;
  the heartbeat goes on.
- serial input: bytes accepted by the ring come out once, in order; the ring
  drains; nobody blocks the CPU while waiting.
- FAT32: chains are disjoint, acyclic and owned; after a crash a file never
  reads another file's clusters; an operation that reports success has
  happened.
- SD card: a transfer that reports success has happened, no other sector is
  written, a card that is up is addressed the way it counts; every call returns.
- reducer, GC, loader: nothing reachable is freed, nothing else is kept;
  `alloc_node` never runs dry behind `gc_check`; a program's value does not depend
  on where it is preempted or collected.
- radio: what arrives was sent, as it was meant, in the order sent; what is
  reported as acknowledged has been taken, or held for a repeat of an equal message; what was
  taken and not thrown away arrives; sending returns.
- memory: blocks are aligned, disjoint and inside the heap, and keep what was
  written to them.

`PROJECT.json` lists every component with its status, and under "hazards" what
is hard to test in this code, each at its line.

## 2. The modules

| module | models | extends |
|---|---|---|
| `Rts` | scheduler, MVars, sleeping queue, clock: the state and one action per primitive | |
| `Threads`, `MCThreads` | any client of the runtime: each thread calls any primitive allowed to it | `Rts` |
| `RtsProofs` | queue lemmas, and two lemmas per primitive: it preserves `RtsInv`; what it does to any one thread and MVar | `Rts` |
| `ThreadsProofs` | the theorems about `Threads` | `Threads`, `RtsProofs` |
| `Async`, `MCAsync` | throwTo, masking, catch, threads interrupted while they wait | `Rts` |
| `AsyncProofs` | the theorems about `Async` | `Async`, `RtsProofs` |
| `Chan`, `MCChan` | newChan, send, recv, tryRecv, select as clients of `Rts` | `Rts` |
| `Fifo` | what a channel promises: a queue of messages | |
| `ChanProofs` | the theorems about `Chan`: locks, puts that never block, the refinement of `Fifo` | `Chan`, `RtsProofs` |
| `Process`, `MCProcess` | spawn, waitProc, supervisor; heartbeat and shell as children | `Rts` |
| `ProcessProofs` | the theorems about `Process`: types, one instance, no contention | `Process`, `RtsProofs` |
| `UartRx` | FIFO, interrupt handler, ring buffer, getChar | |
| `Fat32`, `MCFat32` | file operations on the copies of the FAT, a directory and the clusters | |
| `Files` | what the file operations promise: a map from names to contents | |
| `Fat32Proofs` | the theorems about `Fat32`: types, unique names, chains apart, refinement of `Files` | `Fat32` |
| `Emmc` | SD card driver, controller and card: initialisation, commands, transfers, retries, faults | |
| `Disk` | what the driver promises: an array of sectors | |
| `EmmcProofs` | the theorems about `Emmc`: types, `ReadyCard`, the refinement of `Disk` | `Emmc` |
| `Heap` | cells, free map, records, mark and sweep | |
| `Collector` | the most general mutator over `Heap`, and what is reachable | `Heap` |
| `Reducer`, `MCReducer` | loader and evaluator over `Heap`; the programs of its runs | `Heap` |
| `Codec` | `encode` and `decode` of a message | |
| `Radio`, `MCRadio` | two machines: bridge threads, radio driver, radios and air | `Codec` (`MCRadio`) |
| `Memory` | kmalloc, the malloc family, `poke8` | |
| `MachineProofs` | the theorems about what surrounds the runtime: `UartRx`, `Memory`, `Radio` | `UartRx`, `Memory`, `Radio` |

### Rts

A green thread has no program counter in C. It is a graph, `mt_root`, and the
scheduler calls `evali(mt_root)` each time: reduction resumes at the redex it
reached, and a primitive that blocked (`longjmp` out of `take_mvar`,
`read_mvar`, `put_mvar`, `thread_delay` or `yield`) is executed again from the
start. `redex[t]` is that primitive with its arguments (`NoRedex`: none). An
action such as `TakeMVar` is enabled when the running thread (`Cur`, the head of
`runq`) either has no redex or has this one. The rest of the state is the C
struct's: `state` (`mt_state`), `mval` (`mt_mval`, the value handed over by a
put), `at` (`mt_at`: wake-up time, or -1 once `check_timeq` has found it due),
`runq`, `timeq`, and per MVar `data`, `takeput`, `rd`. `exit` says how
`start_exec` ended.

A primitive is one step, because preemption happens between reductions only
(`evali` tests `preempt_pending` and the slice at the top of its loop; action
`Preempt`). `put_mvar` is modelled as it is written: with anyone waiting it hands
the value to *every* thread of `mv_takeput`, and it never serves `mv_read`.
`check_timeq`, which `yield()` and `pause_exec` call, is `CheckTimeq(n)`: it moves the `n` sleepers
at the front of `timeq` that are due. The clock counts modulo `ClockMod`, the
wake-up time does not.

Asynchronous exceptions are added by `Async`; the Haskell sources of the system do
not use them. The garbage collection of threads nobody refers to is left out here.

### Threads

Every thread may call every primitive that `May` allows it at any time. This is
the most general client; every program's behaviours are among these, so the
scheduler's invariants hold under channels, processes and drivers as well. Each
value is put once, and three history variables (`sent`, `taken`, `left`) let
properties speak about the fate of a value and about real time, the wrapped
clock or not.

### Async

`throwTo` puts an exception into `mt_exn`, an MVar that every thread has
(`ExnOf[t]`), after `thread_intr` has taken the target out of the queue it waits in
(`ThreadIntr`, `Unlinked`). The target looks into its `mt_exn` when it executes a
primitive that can block, and in `yield()` (`check_thrown`: `Thrown`, then
`RaisesThrown`, which takes the exception out with `take_mvar`, stash first).
`mask` is `mt_mask`. `frames[t]` is what the thread is inside of: actions under a
catch, handlers, changes of the masking state, each with what it restores;
`raising` is an exception between `raise_exn` and the `setjmp` it arrives at. A
switch frees the handlers, and each `CATCHR` on the path to the redex is executed
again, with the masking state of that time (`Again`). The primitives are those of
`Rts` behind `Asks`; each thread calls any that `May` allows it. Each exception is
thrown once, so that `thrown` and `raised` can follow it. A catch around code that
raises by itself is in `Reducer`; SIGINT is off (`WANT_SIGINT`, config.h 34).

### Chan and Fifo

Each MVar operation of an operation of `hs/Process.hs` is a step; `frame[t]` is
where the thread is, with its Haskell locals. Preemption, other threads and the
clock come in between. `select` always polls from the first channel, because
`startVar` is a new MVar in each call. `Fifo` is the abstract specification; the
refinement maps its queue to the messages linked and not yet taken.

### Process

`main` is the supervisor (or a thread that waits for the others with
`waitProc`); children run one of four bodies: the heartbeat (`readMVar`, sleep),
the shell's `heartbeat on/off` command (`swapMVar`), a clean end, and a crash in
the reducer. `swapMVar` is not in the repository's sources; it is modelled as the
library's `takeMVar` followed by `putMVar`, two steps. `cut` records that the
processor was taken from a thread between those two.

### UartRx

The interrupt handler runs between any two memory accesses of `getChar`, and to
its end (interrupts are off in it). The test, load and store of
`uart_rx_buf_pop` are steps of their own, and so are `hasData`, the status loop
of `c_uart_get8` and its read. Bytes arrive at any time; the hardware drops them
when its FIFO is full.

### Fat32 and Files

Each write of a sector is a step, together with the reads that lead to it.
`createFile` and `renameFile` write one sector; `writeFile` and `deleteFile` run
through `op.pc`: `data` (the loop of `writeDataChain`), `free` (the loop of
`freeChain`), `dirent` (the entry, always last). `pend` holds the FAT entries to
be written, and `WriteFat` writes one copy of one of them. `Chain(c)` is what `followChain` returns:
the walk `Walk(c)` through the first copy, up to its first number that is no valid cluster.
`ReadFile` and `FollowChain` are the same walk as the program makes it, for `cat` and the like: an
entry of the FAT a step, `reading` the cluster it has come to, and nothing but the chain to end it.
It writes nothing, so a power failure in it is no other than one between two operations and is left
out. One operation runs
at a time: none of them yields to another, and only the shell uses the file
system. `PowerFails` may hit between any two steps; the locals are gone, the
disk stays.

`Files` does each operation at once on a map from names to contents and knows
that space is limited (`Room`: the clusters that are neither lost nor another file's); `seen` is the file system as it was when no operation ran,
and the refinement maps `Files` to it. A power cut may change the contents of
the file being worked on and lose clusters, and nothing else, except in two
moments: `Clearing` (the chain of a live entry is being freed) and `Linking` (a
cluster is linked that is not yet marked). `hurt` records a cut in one of them,
and `Files` promises nothing any more.

Taken as given: sector reads and writes do not fail (`Emmc` says when they do,
and `hs/FAT32.hs` would not notice: 542, 560 and 656 drop the results); a cluster holds one chunk
of data and sizes count chunks; the directory is one sector; names are those
that `formatSFN` and `parseSFN` give back as typed (`FOO.` is stored as `FOO`,
so a second `touch FOO.` makes a second entry), and their first byte is neither 0 nor
0xE5; the FAT has an entry for each
cluster of the volume and no more, and fewer than 0x0FFFFFF8, where the end marks
begin (`isValidCluster`, 290).

### Emmc and Disk

Nothing else runs while the driver waits, so a command with its answer and its
data is one step. What the controller and the card may do in it is an
`Exchange`: the interrupt flags at the end of the command, for each block and at
the end of the transfer, and the card afterwards. `Good` is the exchange without a
fault (a card that does not understand a command does not answer); a fault may
lose the answer or damage it, with the command executed or not, break a transfer
off at any block, or spoil its end. What the driver makes of the flags
(`CommandOK`, `TransferOK`) is `emmc_issue_command`, with its tolerance for a data
timeout next to "transfer done" and with the flags that `do_data_transfer` leaves
set. `emmc_init` is a program counter over the commands of `emmc_card_reset`,
attempt after attempt; `dev` is what of `emmc_device` later commands depend on and
outlives a failed attempt. Cards are old, standard or high capacity.

`Disk` is the abstract specification: a request may happen in part, success means
all of it, and no other sector changes. The refinement is the identity on the
sectors and the request.

Taken as given: the controller's own waits end (`CMD_INHIBIT`, `RESET_CMD`); a
request is inside the card, and `lba * 512` inside 32 bits; `last_error` is left out
because nothing reads it.

### Heap and Collector

A cell is a tag and two fields; the free map is a set, `nfree` and `scan` are
`num_free` and `next_scan_index`. Records (arrays, MVars, threads, weak pointers,
stable and foreign pointers) are kept in lists that the sweep unlinks. One
`GcStep` is one turn of the loop of `mark`, or one pass of `sweep_weaks`; arrays
keep their place in themselves and are pushed again, as in the code.

`Collector` lets a program do anything the primitives allow: build, update and
drop graphs, make, read and write arrays, make, read and finalize weak pointers,
fork, block and end threads, put and take MVars, use stable and foreign pointers.
`feature` picks one of these groups for a behaviour, so that each is explored on
all of the small heap. What is reachable is defined without the collector, as the
closure of the roots, in which a weak pointer hands on its value once its key is
reached. The operands are on the stack; a new weak pointer takes the place of the operand
on top, and so does a value read from one (`Replace`), so a stack of two is enough for
two weak pointers, one with the key of the other for its value. The reductions that the collector may do on the way (`GCRED`) are not
compiled in this configuration and not modelled.

### Reducer

A program is the tokens of its bytecode; `Token` is `parse`, label table included.
One step of evaluation is one turn of `evali`'s loop. The combinators are data:
`Full` and `Short` give for each the cells it asks for, its arguments and what it
builds, so `RuleFor` is the code's `GCCHECK`, `CHKARG` and `GOAP` together. `calls`
are the nested calls of `evali`, each with the place of its stack and the primitive
that made it. `Preempt` drops stack, calls and handlers and starts again at the
root, as `yield` and `resched` do; a collection may come at each `GCCHECK`. Cells,
records and arithmetic are `Heap`'s and a `Width`-bit word's.

### Codec and Radio

`Encode` and `Decode` are `encode` and `decode` of `hs/NetChan.hs` on bytes of
`Base` values and packets of `PktSize`; a word has four bytes. `Meant` is what the
comments promise of a message (strings and byte lists cut to 30, tags to 10), and
`Fits` that its encoding is no longer than a packet.

`Radio` takes the codec as constants, `ToPacket`, `FromPacket`, `Meaning` and `Whole`,
and states what it needs of it as `PacketAssumption`: a packet gives back what its
message means, or nothing if the message does not fit. `MCRadio` puts `Codec` in their
place, and every run of it evaluates the assumption for all its messages; so the
recursion of the codec stays out of the module the proofs are about.

In `Radio` an access to the chip that reads or changes what it does is a step;
each thread can be preempted between two of them. On each side `snd` is
`sendThread` inside `nrfSend` (drain, load, TX mode, wait, clear, flush, RX mode,
retry), `rcv` is `recvThread` inside `nrfRecv`. Messages wait in the outbox
(`traffic`), the inbox is a channel whose `send` does not wait (run `Channels`).
The chip is external: `OnAir` is a packet with the chip's own retransmissions,
answered (TX_DS) or given up (MAX_RT); the packet or the answer may be lost. A chip
hears in RX mode with room in its FIFO; a packet with the identity and contents of the
one it took last it answers and drops. `took` has the messages of the packets it has put
into its FIFO, `mistaken` those it has answered and dropped without ever having taken
them: the identity counts to four, and each attempt of `nrfSend` is a new packet. A read of an empty FIFO gives zeros or the last packet.
`nrfSendNoAck`, which only the tests use, is taken by radios without
acknowledgements.

Not in the model: `nrfInit`, the statistics, the shutdown flag `ncActive`, which
nothing clears, and what is in an SPI transfer. `yield` in the
wait is a preemption here; that with two threads that yield nobody gets further is
`TwoYielders`.

### Memory

`Kmalloc`, `KmallocAligned`, `Malloc` (`_sbrk` and `mmap` too), `Calloc` and
`Realloc` are single steps, being C; addresses and sizes are taken modulo `Word`
where the code adds in 32 bits. `mem` are the bytes of the heap, `blocks` what has
been handed out, with the bytes each owner can count on (`ANY`: none, for up to
three bytes at the end of a block that `kmalloc` does not clear). A request beyond
the heap reboots (`mode` is `panic`); one that passes the test by wrapping around
is `wild`, and nothing is said of what follows. `poke8` is two steps, read and
write of a word. The header of `malloc`, a word in C, is kept in its first byte.

## 3. The runs

| run | module | what it asks | states |
|---|---|---|---|
| `AnyClient` | `MCThreads` | with every primitive in any order and a wrapping clock: `OneQueue`, `OneKindWaits`, `StashIsForTake`, `NeverEarly` | 177 410 |
| `OneTaker` | `MCThreads` | one blocking taker, no blocking reader, no wrap: `NoDuplicate`, `NoLoss`, `ExpiredAreMoved`, `RunnableRuns`, `SleeperWakes` | 53 746 |
| `Channels` | `MCChan` | `EndsAreLocks`, `PutsNeverBlock`, `IsFifo` (refinement), `Delivered` | 353 738 |
| `Processes` | `MCProcess` | `OneInstance`, `NoContention`, `EndIsSeen`, `HeartBeats` | 41 771 |
| `SerialInput` | `UartRx` | `RingIsFifo`, `RingDrains` | 17 592 |
| `FileSystem` | `MCFat32` | `ChainsApart`, `NamesAreUnique`, `ImplementsFiles` (refinement), `OperationsEnd` | 527 426 |
| `SdCard` | `Emmc` | `ReadyCard`, `ImplementsDisk` (refinement), `CallsReturn` | 47 680 |
| `Collector` | `Collector` | `NoLiveFree`, `NoGarbage`, `OnlyGarbageDies`, `CollectionEnds` | 878 493 |
| `Programs` | `MCReducer` | `ValueIsRight`, `ReserveKept`, `SpineKept`, `EvaluationEnds` | 194 805 |
| `Radios` | `MCRadio` | `AckedIsTaken`, `InOrder`, `TakenArrives`, `SendReturns` | 515 619 |
| `Memory` | `Memory` | `BlocksApart`, `ContentsKept` | 330 378 |
| `ThreeSenders` | `MCChan` | counterexample to `Delivered` | |

Further configurations, kept beside the runs; TLC finds a counterexample in each:

| configuration | module | violated | what it shows |
|---|---|---|---|
| `ClockWraps` | `MCThreads` | `WakeTimeComes` | a delay across the wrap of the timer |
| `TwoYielders` | `MCThreads` | `YieldReturns` | two threads that yield until nobody else can run |
| `SerialSpins` | `UartRx` | `ThreadsGetTime` | `getChar` waiting in C |
| `DiskFull` | `MCFat32` | `WroteIsThere` | a write that runs out of space and reports success |
| `SdRetry` | `Emmc` | `RetriesHelp` | a failed attempt that makes the later ones fail |
| `ArrayLost` | `Collector` | `NoLiveFree` | a new array collected before anything refers to it |
| `CutSwap` | `MCProcess` | `AlwaysRestarts` | a switch inside a `swapMVar` that makes the supervisor hang |
| `StaleHandler` | `MCReducer` | `HandlerRuns` | an exception handler collected while its action runs |
| `FalseAck` | `MCRadio` | `AckedIsTrue` | a packet sent between the clearing of MAX_RT and the flush |
| `FalseAck`, with `NoPhantom` for its invariant | `MCRadio` | `NoPhantom` | two threads draining one receive FIFO |
| `Radios`, with `NeverMistaken` for its invariants and properties | `MCRadio` | `NeverMistaken` | a message dropped as a repeat of an equal one, three lost packets earlier |
| `OneTaker`, with `EverySwitchMoves` for its invariants and properties | `MCThreads` | `EverySwitchMoves` | a thread that blocks or ends, and leaves an expired sleeper behind |
| `FileSystem`, with `ReadsEnd` for its invariants and properties | `MCFat32` | `ReadsEnd` | a cluster linked to itself, by a write between two power failures |
| `Collector`, with `WeaksDieLast` for its invariants and properties | `Collector` | `WeaksDieLast` | a weak pointer dead though the value of an older one is its key |
| `Collector`, with `NoDeadThread` for its invariants and properties | `Collector` | `NoDeadThread` | a finished thread kept through `mt_next` |
| `Memory`, with `NeverWild` for its invariants | `Memory` | `NeverWild` | a request that wraps around |
| `StashRaised` | `MCAsync` | `RaisesExceptions` | a thread woken with a value and thrown at before it runs |
| `DelaySkipped` | `MCAsync` | `DelayIsWaitedFor` | a delay after an interrupted wait for an MVar |
| `MaskLeaks` | `MCAsync` | `HandlerRestores` | a switch between a catch and the exception it catches |

and one without: `Exceptions`, of `MCAsync` (319 344 states), where two threads throw at
each other and at themselves, in every masking state, while they take, read, put,
sleep, catch and end. It keeps beside the proofs of `AsyncProofs`

- `OneQueue`, `NobodySleepsOnIt` (both proved), `AsyncTypeOK`;
- `WokenForAReason`: a sleeper is interrupted only for an exception that it raises at
  once, so the mark that `thread_intr` does not give it is not missed;
- `RaisedOnce`: an exception that was delivered is raised once, or waits in `mt_exn`;
- `ThrownArrives`: an exception for a thread that does not mask it is raised.

The type invariants (`TypeOK` of `Rts`, `UartTypeOK`, `ChanTypeOK`, `ProcTypeOK`,
`FatTypeOK`, `EmmcTypeOK`) and the invariants `MarkIsForDelay`, `TimeqSorted`, `ChainsEnd`
(which `OperationsEnd` rests on), `CountsFree` and `PermanentsStay` hold in the runs of their modules
too, and so does `CopiesAgree` in `FileSystem` with two copies of the FAT and one power
failure; add them to the configuration when a module changes. Those of `Rts`, `UartRx`,
`Emmc` and `Fat32` are proved.

**Bounds.** `AnyClient`: three threads, two MVars, three values. Two threads on a
queue and one that acts is what it takes to wait in front of or behind somebody,
to be woken together and to be preempted in between; two MVars are what it takes
for a stash to surface in the wrong one; three values let two putters wait while
the MVar is full. `ClockMod = 3` with delays of 1 and 2 gives ties, delays
across the wrap and sleepers behind sleepers. `OneTaker`: `ClockMod = 4` and
`Wraps = FALSE`, since both delays fit and the properties are those of a clock
that does not wrap. `Channels`: two channels, at most six holes and two messages
per sender; three programs: one reader that also polls with two writers, a
selector of both channels, two readers. `Processes`: four threads, so two
children and one restart. `SerialInput`: a ring of three slots (two in use, so it
fills, wraps and refuses), a FIFO of two, five bytes. `FileSystem`: two names and
two entries, two clusters, and contents of none to three: files grow, shrink, share the
free space and fill the disk in the middle of a write; two power failures, between and after
which the operations go on, since a circle takes two; one copy of the FAT, because no
operation reads another one than the first. The theorems of `Fat32Proofs` hold for every
number of clusters, copies and failures; with more of them TLC takes too long over the
liveness property.
`DiskFull`: two clusters and
no cut. `SdCard`: a card of two sectors, requests of none, one and two, three tries
and three attempts as many faults as it takes to use them all up (`emmc_init` makes
ten attempts; nothing depends on the number), two addresses a card may choose, one
busy answer. `Collector`: seven cells, two of them permanent, in words of three
bits, so that the free map ends inside a word; two records of a kind, arrays of up
to two elements, a stack of two. `Programs`: 818 programs on 88 dynamic cells, the
laws, recursions and actions with a collection and a preemption that nothing calls
for at any place, the arithmetic without; a 4-bit word, with every operation on the
least, the greatest and the middle values; `Wanted` defines what it should give on
integers and sets of bits. `Radios`: bytes of 16 values and packets of eight of
them, so a word is 16 bits, strings of up to six and tags of up to three: each kind
of message, alone, in pairs, tagged and nested, too long ones included, crosses an
air without losses; two equal messages one way with four losses, enough to use up all
attempts of one of them, and two different ones with two; one message each way at the same
time, where a sender is deaf while it sends. Three retries instead of the seven of the code:
with four identities the third is the first at which a packet looks like the one taken
before, and more only repeat what the retries before them do.
FIFOs of two, four identities as in the chip. `Memory`: a heap of 36 bytes in
an address space of 128, requests of 0, 1 and 6 bytes, of 100, which does not fit, and
of 125, which wraps around; three blocks, so that one lies between two others, an
alignment of 16, two calls of `poke8` by two threads. `Exceptions`: two threads, one
that throws, puts and masks and one that does everything, so that the second is found
in every queue and every masking state; two exceptions, so that one must wait for the
other; one MVar of the program; one level of catch or mask (two in `MaskLeaks`).

`SYMMETRY` is used in `AnyClient` and `Memory` only, which have no liveness property. `CHECK_DEADLOCK FALSE` stands where the system does stop: `start_exec` returns
when the main thread ends or when nobody can run, the bounded byte source of
`UartRx` dries up, and the small heap of `Collector` can be full of live cells.

**Fairness.** `FairSpec` of `Threads` has weak fairness on `Slice`, `Pause` and
`Time`: the evaluator counts a slice down at every reduction and the timer
interrupt sets `preempt_pending` (eval.c 4752-4759), `pause_exec` loops until a
sleeper is due, and the hardware clock counts. It does not say that a thread ever
gets anywhere. `LiveSpec` adds strong fairness for each thread: a thread that
gets the processor again and again completes its next primitive, because
`start_exec` gives it a whole slice on top of the reductions it needs to reach
the redex it left (`mt_slice`). Strong, because between two turns of a thread the
action is disabled. In `Fat32`, weak
fairness of the steps that write and of `FollowChain`, together: the driver is a loop that
never waits for anybody, and nobody has to start an operation. In
`Emmc`, of the steps of a call, in `Collector` of `GcSteps`: both are loops of C.
In `Reducer` of `Next` as a whole, stated directly (`Runs`), since `Next` is enabled
until the program ends; that a run's preemptions are bounded is then an assumption
of `EvaluationEnds`: a spine that takes longer to climb than a time slice would
never get anywhere. In `UartRx`, weak fairness of the handler is the CPU taking a
pending interrupt, and of the reader is `RunnableRuns`. In `Radio`, weak fairness of
each chip (it transmits what it has), and of each thread on each side, which is
`RunnableRuns` again; that no loss goes on for ever is in `losses`, the bound.

In `Async`, `Slice`, `Pause` and `Time` as in `Threads`, and `longjmp` arrives.

**Findings.** The run `ThreeSenders` and the further configurations show behaviour the
repository's own comments, README or tests exclude:

1. `ThreeSenders`: `put_mvar` hands one value to all threads of `mv_takeput`
   (eval.c 1521-1531). With two senders waiting for the write end of a channel,
   both get the same hole; one message, and with it the channel, is lost. Two
   threads that use an end are safe (run `Channels`, and proved in `ChanProofs`),
   three are not.
2. `CutSwap`: `put_mvar` with only readers waiting neither stores the value nor
   hands it to anybody (eval.c 1509-1551). A switch inside a `swapMVar` turns a
   `readMVar` elsewhere into such a waiting reader, and the supervisor hangs.
3. `StaleHandler`: `T_CATCHR` keeps its handler in a local across the action
   (5798-5823). A collection in between replaces an indirection on the path by its
   target and frees the cell that the local names; when the exception comes, what
   that cell was given to is applied as the handler.
4. `ClockWraps`: a delay across the wrap of the 32-bit timer never ends, and
   holds up every sleeper behind it in `timeq`.
5. `TwoYielders`: the primitive `yield` leaves its redex in the graph, so a
   thread that yields yields again whenever it is scheduled, until nobody else
   can run.
6. `SerialSpins`: the interrupt handler may take the byte between `hasData` and
   `c_uart_get8`, which then waits in C; no green thread runs until the next
   key.
7. `DiskFull`: a write that runs out of space stores its beginning, records the
   full size and reports success.
8. `SdRetry`: after an attempt that failed once the card had given its address, the
   next attempts send that address to a card that has forgotten it, and fail. And,
   in `SdCard`: when the answer to CMD8 is lost, an SDHC card is asked for ever
   whether it is ready (`Deaf`, which `CallsReturn` excepts); a transfer of several
   blocks that was broken off is not stopped by anybody, so its retries fail too.
9. `ArrayLost`: `arr_alloc` links the array before `GCCHECK(2)` (5535): a collection
   there unlinks it and frees its elements. The run `Collector` leaves that one
   window out (`GcInWindow`).
10. `FalseAck`: `nrfSend` clears MAX_RT and flushes the FIFO two SPI transfers later
   (501-502), in TX mode: the chip goes on sending meanwhile. TX_DS is then set with
   nobody waiting for it, and the next `nrfSend` returns True before its packet has
   left, though it "returns True if the packet was successfully ACKed" (455).
11. `NoPhantom`: `nrfSend` and `recvThread` drain one FIFO (464, 592). A thread that
   reads what the other has just emptied gets a packet of zeros, which is `MsgNone`,
   or the last packet again.
12. `NeverWild`: `heap_ptr + nbytes > heap_end` (hal.c 275) is computed in 32 bits; a
   request near 2^32, and a `malloc` or `calloc` whose size overflows, is granted.
13. `StashRaised`: `check_thrown` gets the exception with `take_mvar`, which returns
    the stash first (1244, 1384): a thread woken with a value and thrown at before it
    runs raises the value, and the exception stays for the next primitive.
14. `DelaySkipped`: `thread_intr` leaves the mark of an expired delay on a thread that
    waited in an MVar (1648); its next `threadDelay` returns at once. On a thread that
    slept the mark is missing, which does no harm (`WokenForAReason`).
15. `MaskLeaks`: `CATCHR` records `mt_mask` as the old mask each time it is executed
    (5803), after a switch too, when the action inside may have masked: the handler
    then leaves its thread masked.
16. `EverySwitchMoves`: "The scheduler checks timeq on every context switch and moves
    expired threads back to runq" (README 179). `yield()` and `pause_exec` do; a thread
    that waits, sleeps or ends goes through `resched` (1168) or the end of `start_exec`
    (1868), which do not look at `timeq`. What `check_timeq` does when it is called is
    `ExpiredAreMoved`; that a sleeper gets its turn all the same is `SleeperWakes`.
17. `ReadsEnd`: `followChain` ends at a number that is no cluster, and nowhere else
    (FAT32.hs 294). After a power failure at one of the two bad moments an entry's chain
    runs into a free cluster; the next write that lengthens the file takes that cluster
    and links it to itself (602), and if the power fails once more before it is marked,
    every `cat` of the file goes on for ever.
18. `NeverMistaken`: a packet loaded again has a new identity (NRF.hs 514), of two bits.
    Three packets of a message lost, and the fourth has the identity of the last message
    taken; if the two messages are equal, the chip answers it and throws it away, and
    `nrfSend` returns True. Not so if the messages differ (proved).
19. `WeaksDieLast`: "This marking might have marked other keys, so restart the scan"
    (2376). The scan has by then declared dead (2380) a weak pointer it met earlier, whose
    key the value of an older one keeps: that it dies, and not the other way round,
    depends on the order of the list. `OnlyGarbageDies` allows this order and no other.
20. `NoDeadThread`: `mark_mvar` starts at the first thread that waits and follows `mt_next`
    (2490-2493), the list of all threads, instead of `mt_queue`: a finished thread that
    nobody can refer to outlives every collection as long as a younger one waits.

Smaller things seen in `eval.c` while modelling, none of them with a run: arrays
without elements are unlinked while they are live (harmless, and excepted in
`OnlyGarbageDies`);
`T_WKDEREF`, `T_SPDEREF`, `GETMASKINGSTATE` and the callers of `mkStrNode` allocate
without a `GCCHECK` of their own; `finalize_weak_ptr` clears the finalizer before it
runs it, so a preempted one is lost; an `IND` to itself is followed without looking
at the slice.

`NoLoss`, `NoDuplicate`, `Delivered`, `EndIsSeen` and `HeartBeats` say what is
left: they hold in the disciplines, or until the event, that the runs state.

Every property of a passing run has a mutant in `PROJECT.json`: a changed
definition (a wake-up of one putter instead of all, a stash not cleared, a
heap test before the rounding, a tail index that does not wrap ...) under which
TLC finds the property violated. The mutated forms stand next to the originals.

## 4. The proofs

Everything below holds for any number of threads, MVars, values, any ring size,
every client (`May`), any card, request and number of faults, any heap, any number of
channels, messages and children, and any FAT, directory and number of power failures.

**Scheduler** (`RtsProofs`, `ThreadsProofs`). None of `OneQueue`,
`OneKindWaits`, `StashIsForTake`, `MarkIsForDelay` is inductive alone. That a
thread is appended to a queue once needs to know that the running thread is in no
other queue (`OneQueue`); that waking a queue makes only waiting threads runnable
needs to know for what they wait (`OneKindWaits`); that a put may overwrite the
stashes of all it wakes needs these to be empty, which holds because a stash
belongs to a runnable thread (`StashIsForTake`); and the two executions of
`threadDelay` are told apart by the mark (`MarkIsForDelay`). Their conjunction
with `TypeOK`, `RtsInv`, is inductive. `RtsProofs` has one lemma per primitive,
`RtsInv /\ Primitive => RtsInv'`, resting on lemmas about membership and repetition
under `Append`, `Tail`, concatenation and splitting of queues; they mention no
client, so the same lemmas serve `Chan` and `Process`. `ThreadsProofs` lifts them
to `Spec`:

- `SchedulerInvariant`: `Spec => []RtsInv`, and `Typing`, `QueuesAreDisjoint`,
  `NoLostWakeup`, `StashGoesToTake`, `MarkGoesToDelay` from it.
- `SleepersInOrder`: `timeq` stays sorted. The insertion is the interesting
  step; a step that removes a prefix keeps order by `SuffixSorted`.
- `DelaysAreNeverShort`: `NeverEarly`, by the invariant `AtLeast`: the clock plus
  the real time left never exceeds `mt_at`. Wrapping only decreases the clock, so
  this holds for every `ClockMod`.
- `ChecksMoveExpired`: `ExpiredAreMoved` if the clock does not wrap, by the
  opposite bound `AtMost` and the order of `timeq`. It is about the steps that call
  `check_timeq`, which are not all the switches (finding 16).

**The fate of values** (`ThreadsProofs`). `NoDuplicate` and `NoLoss` do not hold for
every program (findings 1 and 2), so the theorems say when they do:

- `NothingTwice`: no value comes out twice in a behaviour in which no two takes wait
  at the same MVar (`OneTakeWaits`). The invariant is `OnePlace`: a value that was not
  put yet is nowhere; afterwards it is at one place only, in an MVar, in one stash, or
  taken. It needs `RtsInv`: a stash is overwritten only when it is empty.
- `NothingLost`: no value is lost in a behaviour in which no `readMVar` waits at an
  MVar where no take waits (`NoReadWaitsAlone`); the invariant is `Somewhere`.
  Here and in the next theorem threads and MVars are finitely many, since places are
  counted.
- `OneTakerEach`: both hold when each MVar has an owner, the only thread that ever waits in
  `takeMVar` on it, and nobody waits in `readMVar` (`OnlyOwnersWait`): a value that was put
  is from then on in exactly one place. Different MVars may have different owners, and
  everybody may take, read and put as long as it need not wait. That a thread suspended in
  a take is the owner is the invariant (`WaitsAsOwner`). The run `OneTaker` is the case of
  one owner.

**Channels** (`ChanProofs`). A program may break a channel too (finding 1), so there
are two steps. First, as long as no two takes wait at one MVar, `ChanInv` is
inductive (`ChanInvariant`). It says that there is a map `hole`, which lists the MVars
of each channel in the order they were linked, such that

- every hole between the read and the write end holds its message and the next hole,
  the last one is empty, and no MVar stands in two places (`EndsHold`, `Holds`);
- each end is in its MVar, in one stash or with one thread, never twice (`Lock`);
- a thread that is suspended in an operation waits for the MVar its place in the
  program names (`Suspended`), and nobody waits in a put.

Neither `EndsAreLocks` nor `IsFifo` is inductive without it: which hole a `putMVar`
fills was read three steps earlier, and that it is still the last one is so because
the sender has the write end, whoever else woke up meanwhile. The map is a witness:
newChan and the link of a message extend it, all else leaves it alone. Second,
`TwoUsers`, a property of the programs: at most two threads send on a channel and at
most two receive from it. One of the two has the end when both have got past their
takes, so one at most waits (`TwoUsersInvariant`), and `OneTakeWaits` follows. The
programs of `Channels` satisfy it, those of `ThreeSenders` do not.

- `EndsStayLocks`: `EndsAreLocks`; `SendersNeverWait`: `PutsNeverBlock`.
- `ChannelsAreQueues`: `Spec => IsFifo`. Linking a message is `Send`, taking one is
  `Receive`, every other step of an operation, of the scheduler and of the clock is a
  stutter.

All steps of `Rts` come in through the second kind of lemma of `RtsProofs` (`TakeEffect`, `PutEffect` ...):
what a primitive does to a thread that is not the running one (`KeptOrWoken`: nothing,
or it is woken, with a value if it waited in a take), and to an MVar (`HandsTo`,
`Gives`).

**Processes** (`ProcessProofs`). Neither `OneInstance` nor `NoContention` is
inductive. Main checks the state of a child, and restarts it several steps and any
number of switches later; that the old instance is through by then has to be carried
along, and the comment at Main.hs 90 depends on where every thread stands in its
`swapMVar`. `ProcInv` adds to `RtsInv` and the types

- `Places`: main is in its own program, a child in its own, and a thread is unborn
  exactly as long as it has no place;
- `Lineage`: a thread at work is the one that the handle of its child names; main has
  spawned the children before the one it is at; when it respawns a child, the thread of
  the handle is `over`;
- `Marks`: the state of a thread is `Done` only when the thread is through, and the
  states of threads to come are empty, but for the one `spawn` has just filled: this
  ties what `checkChild` reads in one step to `Lineage` in a later one;
- `Quiet`: unless a switch has hit a `swapMVar` (`cut`), nobody waits and no stash is
  filled, a thread inside a `swapMVar` is the running one, and each MVar is empty exactly
  when some thread is between the take and the put on it.

`TakesDoes`, `PutsDoes`, `ReadDoes` and `SleepsDoes` reduce the operations of `Rts`
to what `ProcInv` speaks about; `KidStep` and `MainStep` are a step of a child and of
main that go on, `BlockedStep`, `LeavesStep` and `SystemStep` the others, and each
action is an instance, but for the fork (`ForksStep`), which moves two threads and a
handle at once.

- `OneInstanceEach`: `OneInstance`; `NobodyContends`: `NoContention`; `ProcessesTyped`:
  `ProcTypeOK`. For every number of children, threads and restarts and every set of
  programs, a main that supervises or waits, children that beat, swap, end and crash.

**Serial input** (`MachineProofs`). `RingTyping`, and `RingIsAQueue`: with
`UartTypeOK`, `RingIsFifo` is inductive; it counts the slots between tail and head,
ties each to the byte pushed, and says that the byte loaded by the reader is still
at the tail when the tail is stored, because the handler never fills the slot
before it.

**SD card** (`EmmcProofs`). `ReadyCard` is not inductive: whether a card that comes
up is addressed rightly was decided commands earlier. `Knows` says what the driver
has learnt at each command: how the card counts once ACMD41 has been answered, its
address from CMD3 on, that it is selected from CMD7 on, and during a transfer that
the buffer has the blocks asked for and lies inside the card. `EmmcInv`, which is
`EmmcTypeOK /\ Knows`, is inductive; there is one lemma per action. `MovesOfCards`
and `ExchangeTyped` give what one exchange may do to the card, faults included,
`OkIsDone` that an exchange the driver takes for good was one, `TransferEffect` that
a transfer is good only if all its blocks were moved, and changes its own sectors
only.

- `DriverTyping`, `CardIsReady`: `EmmcTypeOK` and `ReadyCard` hold.
- `DriverImplementsDisk`: `Spec => ImplementsDisk`. Every action is a stutter of
  `Disk` but the call, its return, and the transfers, where each try that fails is
  `Goes`, a part of the transfer, and the last one an `Answer`.

**File system** (`Fat32Proofs`). `NamesStandOnce` is `NamesAreUnique`. That both
searches agree needs that an entry that was never used is followed by no other
(`InARow`): `findDirEntrySlot` stops there, `findEntry` does not. `FatTypes` is
`FatTypeOK`.

`ChainsApart` says nothing about the middle of an operation, and nothing about clusters
that no file reaches, so it is far from inductive. `OwnInv` gives every cluster an owner
(an entry; the operation, `InHand`; or nobody) and a place in its owner's chain:

- `Laid`: a cluster that is somebody's is not free, the next one is the same owner's and
  one place on, two clusters of an owner have different places, and only the last place
  has no next. Chains that do not branch, join or close to circles follow from the
  places alone.
- `Rooted`: the first cluster of an entry is its own, at place 0, and who owns clusters
  is a live entry whose chain nobody is clearing.
- `Working`: what the operation has in hand: all of a new file's chain until the entry is
  written, the rest of a chain that is being freed, from `op.cl` on.
- `Writing`: the FAT is only on its way to what `Laid` speaks of, `Will`, the FAT with
  `pend` written; `Freeing`, `Cutting`, `Taking` and `Linked` are the four shapes of
  `pend` with how much of it the first copy may show already.

Owners and places are existentially quantified. Eight lemmas about `Laid` alone say what
becomes of them (`LaidFreed`, `LaidCut`, `LaidJoined`, `LaidLonger` ...), and one lemma
per action applies them; `WriteFat` changes neither map, since `Will` stays. A power
failure is the interesting step: what was in hand becomes nobody's, except that the rest
of a chain whose cut had not been written yet is joined again (`CutRejoins`), and that a
cluster that was taken and not yet linked is dropped (`CutUnlinks`). The two
bad moments of `hurt` are exactly those in which no map is left: `Clearing`, since the
entry still names a cluster that is free, and `Linking`, since the last cluster
already names one that is. What `Walk` comes through before its first invalid number is
exactly what the map gives to the entry, in the order of the places (`OwnChain`), so

- `ChainsStayApart`: `ChainsApart`.
- `ChainsAllEnd`: `ChainsEnd`. The clusters of a chain have different places, so none comes
  twice and `followChain` is through after no more steps than there are clusters. It is what
  can be proved of `OperationsEnd`, which is a liveness property.

That `Fat32` implements `Files` rests on `OwnInv` and three invariants more, since a
write takes effect in its last sector only, with what was decided many steps before:

- `SeenInv`: between operations `seen` is what the disk shows; during one, the entry at
  work has the name and the size it was found with.
- `OthersInv`: the contents of every other name are those of `seen`. An operation touches
  clusters that are its own or nobody's, so a map that gives the others the same clusters
  at the same places (`Agree`, `Apart`) gives them the same chains (`SameChain`).
- `BookInv`: of the maps that fit the disk there is one whose books balance as well.
  `Books` says that the clusters nobody owns and that are not free are as many as `seen`
  has lost, that nothing is left in hand when the entry is about to be written, and
  (`Stored`) which part of the data stands at which place and what is left to be written:
  data remains at the end only if no cluster is free.

How much a write stores is then a matter of counting: every cluster is lost, another
file's, the file's or free (`AllCounted`), and the others' clusters are as many as the
pairs of a file and a place below its length (`OthersCount`), which is how `Files` counts
the room it has (`Others`). Both are bijections; nothing is summed. A cut is
the other step with a count: the clusters in hand become lost, so their number grows or
stays. One lemma per action that takes effect shows it to be one of `Files`
(`CreateFileIs`, `RenameFileIs`, `DeleteIs`, `WriteIs`, `CutIs`); every other step leaves
`seen` alone or spoils it (`StepIs`).

- `FilesImplemented`: `Spec => ImplementsFiles`.

What `Walk` does along its length is proved by induction, as a least counterexample: the
library says that `<` is well-founded on the naturals (`NatLessThanWellFounded`,
`WFMin`), so a set of numbers that is not empty has a least one (`LeastNat`). This uses no
theorem with an operator for a parameter.

**Memory** (`MachineProofs`). `BlocksApart` is not inductive: that a new block lies
apart from the old ones needs that all of them end at or below the heap pointer, and
that the pointer stays inside the heap. `MemInv` says that, and that a block with a
header begins after the end of the block before. `GrantedFits` is the arithmetic: a
request that `kmalloc` grants without wrapping lies behind the pointer, aligned to
eight, inside the heap. `NewKeepsInv` adds a block; each operation is an instance.

`ContentsKept` needs two things more, which `FullInv` adds to `MemInv`: what a thread
inside `poke8` has read is still what the memory holds, and that is so because the
word it will write back lies inside the space, a multiple of eight bytes, of its own
block (`WordBelow`), where no other thread writes and no new block is cleared.

- `AllocatorInvariant`: `Spec => []MemInv`; `NothingHandedOutTwice`: `BlocksApart`.
- `ContentsSurvive`: `ContentsKept`, through `Spec => []FullInv`.

**Radio** (`MachineProofs`). Neither property is inductive: what is in an inbox, or
what `nrfSend` has returned, says nothing of what is on its way. `RadioInv` has four
parts besides the types.

- `Busy`: a sender at work has a message. `Genuine`: each packet in a FIFO and in the
  receiver's hand is that of the message it is numbered with, and each entry of an inbox
  is what its message means, except on a side where a read hit an empty FIFO (`raced`).
- `Flow`: the way from a sender to an inbox is one queue in five stages (the message
  being sent, the two FIFOs, the packet in hand, the inbox). In each the numbers rise
  (`Rising`), and three marks, existentially quantified, keep the stages apart. A step
  moves one packet to the next stage and one mark to its number; a retransmission, a
  duplicate the chip does not recognise, a flush and a packet dropped all leave the order.
- `Handshake`: what flags and FIFO of the sending chip mean at each point of `nrfSend`.
  While it waits, the payload is in the FIFO (`Loaded`) and `TX_DS` is clear, or it is
  gone, `TX_DS` is set and the peer has answered it (`Answered`: taken, or held for a repeat). `~slipped` is needed in exactly one place:
  at `flush` the payload is loaded and nothing but luck keeps the chip from sending it.

`RisingPush`, `RisingPop` and `RisingWiden` are the lemmas about queues, `OnAirParts`,
`ReadParts`, `LoadParts` and `DullParts` say what each kind of step changes, and each part
of the invariant has one lemma for the air, the receiver and the sender.

- `AckedMeansTaken`: `AckedIsTaken`; `InboxInOrder`: `InOrder`; both through
  `RadioInvariant`, for all traffic, losses, depths of the FIFOs, packet identities and
  numbers of attempts.
- `DifferentNeverMistaken`: if the messages of a side have different packets (`Different`),
  none is ever held for a repeat of another, so `nrfSend` returns True only for a message
  that has been taken. `RepeatsTrue` says why: what a chip compares with is the packet of
  a message it took (`Remembers`), so what looks the same is that message.

**Asynchronous exceptions** (`AsyncProofs`). `AsyncInv` is the placement of the
threads (`PlacedNow`, of which `OneQueue` is a part), `NobodySleepsOnIt`, and the
types of the variables they read. `throwTo` moves its target and may then block the
thrower, in one step, so the placement is stated of values (`Placed`): `WakingPlaces`,
`LeavingPlaces` and `CompletingPlaces` follow one move each, `Unlinking` says what
`find_and_unlink` does, and the steps are put together from them. `NobodySleepsOnIt`
then is inductive (`StaysAwake`): who starts to wait has just looked, who is thrown at
is woken or uninterruptible.

`WokenForAReason` needs to know besides that a thread that is not born yet is in no
delay (`WokenInv`): a step that makes a thread runnable in the middle of its delay marks
it (`MarkedEarly`) or has just thrown at it (`ThrowEarly`), and only the thread itself
takes its exception or changes its masking state, giving up the redex as it does
(`StaysEarly`). `RaisedOnce` counts, so `CountInv` says where an exception is: nowhere
yet, in the `mt_exn` of exactly one thread, or raised once (`Accounted`). It needs that
a stash is never an exception, because `take_mvar` would raise the stash instead of what
is in `mt_exn` (finding 13): nobody waits to take from an `mt_exn`, so nobody is handed one.

- `QueuesSurvive`: `OneQueue`; `NobodyOversleeps`: `NobodySleepsOnIt`.
- `SleepersWakeForAReason`: `WokenForAReason`; `ExceptionsCount`: `RaisedOnce`.

They have the hypothesis `ExnAssumption`: no two threads share an `mt_exn`, as
`new_thread` makes one for each. `Exceptions` checks it of its constants.

Assumptions: `ThreadAssumption`, `ValueAssumption`, `ClockAssumption` (the main
thread exists; `NIL` is no value and no MVar; the modulus is positive),
`MayAssumption`, `TimeAssumption`, `SizeAssumption` (a ring of at least two slots),
`BytesAssumption`, and `EmmcAssumption` (a card of at least one sector, requests no
longer than it, at least one attempt and one try, no card with the address 0), `HeapAssumption`
(the heap and an alignment end below the top of the address space), `ChanAssumption` (at
least one channel; the ends and the holes are different MVars, the holes finitely many;
holes and messages are values, and no hole is a message), `ProcAssumption` (at least
one child; every thread has a state of its own, none of them `heartbeatVar`; the programs
are well formed), `RadioAssumption` (traffic of messages, a FIFO of at least one packet,
at least two identities), `PacketAssumption` (above) and `FatAssumption` (above, at least
one copy of the FAT, and `NoFile`, the absence of a file, is no file). TLC evaluates each of them in every run of the module.

**Only model-checked**: liveness (`RunnableRuns`, `SleeperWakes`, `Delivered`,
`EndIsSeen`, `HeartBeats`, `RingDrains`, `OperationsEnd`, `CallsReturn`,
`CollectionEnds`, `EvaluationEnds`, `TakenArrives`, `SendReturns`, `ThrownArrives`),
which the prover cannot do under fairness; that the codec satisfies `PacketAssumption`
(it is recursive over messages); and the safety of collector and reducer: `NoLiveFree`,
`NoGarbage` and `OnlyGarbageDies` speak of all that the roots reach (`Reached`, a closure
computed by recursion over a graph of any shape), and `Reducer` computes with bit
operations and recursive operators, which the provers cannot use.

## 5. What is not modelled, and the plan

Of `eval.c`: foreign calls, byte strings, 64-bit and floating-point numbers,
serialisation and printing of graphs (data conversions without control of their
own). GPIO, HAL bindings and serial output
have no state; the boot code is a straight line.

Planned, most important first:

1. The rest of `Fat32`: `mountFS`, directories of several sectors with the two
   rules for their end, the bit fields of names and entries; sectors that fail as
   `Disk` allows.
2. `Vm`: the bit fields of page-table entries and of `armTimer`; the division stubs
   of `rts-stubs.c` as functions checked against a reference definition.
3. `Shell` (commands over `Fat32`), then `Lisp` and `Parse` as functions over
   bounded terms.
4. Asynchronous exceptions in the other clients: processes that are killed while
   they hold the end of a channel.

Proofs to come: that a collection frees nothing that is reachable, by the invariant that
what a marked cell refers to is marked or in `gc.todo`, with a set closed under `Kids` in
place of the computed closure.
