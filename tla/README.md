# VirtualForce: TLA+ models and proofs

VirtualForce lets an operator at a PC press virtual forces onto a robot. A Qt
program (`src/SimForce_Qt`) sends commands over TCP to a server on the robot's
controller (`src/VirtualForce_linux`); the server hands them to the *force
core*, a program outside this repository, through areas of physical memory, and
sends the core's state and joint angles back to the PC.

This directory holds TLA+ modules of that system, TLC configurations that check
them on small instances, and TLAPS proofs of what matters most for every
instance. Run everything in this directory:

    tlc -config ring_window.cfg MCCircleBuffer     (the runs: see the table below)
    tlapm CircleBufferProofs.tla                   (and the other *Proofs modules)

## 1. Inventory

### Components, their state and operations

| component | source | state | operations |
|---|---|---|---|
| circular buffer | `buffer_manager.c` | two offsets, item and buffer length, the bytes | push/pull one item, push/pull a bundle, full test, empty test |
| network layer | `network_client.c` | `net_buff`: listening socket, connection `fd`, `FILE *fp`, ring, mutex | `network_init`, `network_rcv` (test the connection, read or reconnect), `read_data`, `network_set`; `network_producer` (threaded server) |
| controller | `controller.c` | the frame on the stack | `controller_msg_parase` (dispatch one command), `controller_display_res` (upload one frame); `controller_msg_process`, `controller_display_result` (threaded server) |
| server processes | `main.c` | `pid_child` | parent loop, child loop, `sighandler`; a `main` with three threads under `#if 0` |
| shared-memory mailboxes | `force_interface.c/.h` | `virtual_info`, `monitor_info`, `service_info`; `instruct_info`, `back_info` and others that nobody maps | `Force_Virtual_Download`, `Force_Monitor_Upload`, the `Servo_Force_Comm_*` calls |
| force core | not in the repository | - | takes commands and vectors, publishes samples |
| PC client | `widget.cpp`, `Force_Comm.h` | socket, last frame, widgets | connect, disconnect, six command buttons, receive, show |
| memory mapping | `mmap_comm.c` | mapped pages of `/dev/mem` | map, unmap |
| System V shared memory | `shmem_client.c` | - | called by nothing |

### How they interact

    PC --TCP--> [kernel queue] --read_data--> ring --controller_msg_parase--> service_info / virtual_info --> core
    PC <--TCP-- network_set <-- frame <--Force_Monitor_Upload-- monitor_info <-- core

In the **deployed server** the upper line is the parent process, one step after
the other: `network_rcv`, `controller_msg_parase`, sleep. The lower line is the
child, forked for each connection with copies of the parent's descriptors. They
share nothing but the socket (its state, its pending error) and the mapped
areas; the parent ends the child with `SIGKILL` when it notices a disconnect.
`SIGCHLD` is ignored, so ended children are reaped by the kernel. The core runs
beside them on memory of its own.

In the **threaded server** (`main` under `#if 0`) reading, dispatching and
uploading are three threads around the ring and its mutex, with one `FILE` for
both directions.

### What is hard here

* **Interleavings**: parent, child, PC, kernel and core move independently; the
  connection's state is tested first and used afterwards, by reader and writer.
* **Crashes**: the child is killed wherever it happens to be; the server ends on
  SIGINT and on read errors; the areas outlive it and are never cleared.
* **Atomicity**: the areas are written and read word by word; one `valid` word
  guards each, and one area has none.
* **Streams**: TCP cuts commands and frames anywhere and ends between any two
  bytes; one side loops until it has a command, the other looks at chunks.
* **Limits**: a ring whose length (280) is no multiple of its items (32), a copy
  that does not wrap, and the ring's mutex right behind the array.
* **Lost steps**: commands unread at a disconnect, samples taken and not sent, a
  stop that finds the area full.
* **Locks**: a mutex held during a blocking read, and stdio's lock on a `FILE`.
* **Progress**: the server must come back to `accept`, a child must not outlive
  its connection, the threads must not wait for each other for good.

`PROJECT.json` lists each of these at its line under `hazards`, with the
properties aimed at it or the reason there is none.

### What makes each component correct

* Ring: it is a queue (whole items, once, in order); the offsets alone tell
  empty from not empty; pushes stay inside the array.
* Areas: one-place slots; no torn vector, sample or command; none taken twice.
* Network layer and controller: what is pushed is the next command of the
  stream, whole; what is dispatched is what was sent on this connection, in
  order; the ring stays within the window in which it is a queue.
* Processes: at most one uploader, always the one the parent can kill; no sample
  shown twice or late; clients are served; uploaders end.
* Server as a whole: one sequential service, one connection at a time.
* Threads: one queue from the PC's write to the consumer's pull; what has
  arrived is read; an upload waits for nobody but the PC; the process ends with
  its connection.
* PC client: what is shown is a whole frame and never an older one; after
  a start nothing but its stop is written; the user can always leave and come back.

## 2. The modules

| module | models | role |
|---|---|---|
| `FifoQueue` | - | abstract: what a command queue promises |
| `OnePlaceSlot` | - | abstract: what an area guarded by `valid` promises |
| `FrameFeed` | - | abstract: what the PC's display promises |
| `ForceService` | - | abstract: what the server promises the PC and the core |
| `CircleBuffer` | `buffer_manager.c`, item operations | implements `FifoQueue` (`FifoSpec`) |
| `BundleTransfer` | `buffer_manager.c`, bundle operations | three buffers implement one `FifoQueue` (`StreamSpec`) |
| `SharedAreas` | `force_interface.c`, `controller_display_res`, against the core | each area with `valid` implements `OnePlaceSlot` (`SlotSpec`) |
| `ReadData` | `read_data` against a byte stream | what it pushes is the next command |
| `ThreadedServer` | `network_producer`, `controller_msg_process`, `controller_display_result`, the threaded `main` | composes `ReadData` and `CircleBuffer`; implements `FifoQueue` (`PipelineSpec`) |
| `PcClient` | `widget.cpp` with `QTcpSocket` and the network around it | implements `FrameFeed` (`FeedSpec`) |
| `ForceServer` | `main.c`, `network_client.c`, `controller.c`, with PC, kernel and core around them | composes ring and areas by their abstract specifications; implements `ForceService` (`ServiceSpec`) |
| `MC*` | - | values and bounds for TLC |
| `*Proofs`, `SequenceLemmas` | - | theorems |

How they fit: `ForceServer` uses the ring as a queue of at most one command
(`NetqAtMostOne` is the premise, `CircleBuffer` the justification), the areas as
slots (`SharedAreas`), commands as wholes (`ReadData`, `PushesNextCommand`), and
a PC that gives a stop only after its start (`PcClient`, `StopFollowsStart`). In
turn its `OneUploader` is why `monitor_info` has one reader in `SharedAreas`.

### CircleBuffer

Memory is a function from addresses to cells; the addresses from `buff_length`
on are the bytes behind the array. `CopyTo` is the `memcpy` of a push, which
runs straight on past the end; `Advance` is the step with the modulo. One action
per outcome: `PushStored`, `PushRefused`, `PullTaken`, `PullRefused`. The
history `pending` holds the items pushed and not pulled, and `Window` bounds how
many of them the callers leave there; with `Window` large the full test is the
only limit. Cells stand for 8 bytes: every offset of the program is a multiple
of 8, so 4 cells in 35 *is* its geometry (32 bytes in 280).

### BundleTransfer

A producer's local buffer, the circular buffer and a consumer's local buffer,
each with its own length. `Copies` lists the `memcpy` calls a bundle is moved by,
one alternative for each branch of the code; push and pull have the same branches
with the buffers' roles exchanged, so both use it, and the pull adds its test for
emptiness. Nothing in the repository calls these operations. The callers modelled
move a bundle only when it fits and push none that is empty; the code leaves both
to them (an empty local buffer looks to the push like one that wraps, and
`buff_length` stale bytes would go into the circular buffer).

### SharedAreas

The three areas that carry data (those `mmap_comm.c:31-46` maps), one load or
store per step. They are independent, so a behaviour is about one of them, picked
by the initial state.

| side | actions |
|---|---|
| server writes | `Force_Virtual_Download` tests `valid`, `Servo_Force_Comm_Set_Cmd` has none to test; then `StoreWord` and `Publish` |
| server reads | `controller_display_res` (with `Force_Monitor_Upload`) tests `valid`, then `LoadWord`, `ClearValid` and `network_set` |
| core | `CorePuts`, `CoreNotices`, `CoreLooks`, `CoreIsTold` |
| kills | `WriterKilled`, `ReaderKilled`, between any two stores or loads |

The axes of a vector are stored in the order of the loop, the words of a `memcpy`
in any order. Areas start with whatever an earlier run left. `service_info` has
no `valid` word: the next command overwrites the one before, and nothing in the
code claims otherwise; what can be claimed is that the core never reads a mixture
(`NoTornCommand`), which holds because the commands that are called differ in
their first word only.

Stores are taken in source order. The pointers are not `volatile`, so this rests
on the build: the makefile compiles without optimisation, and `/dev/mem` is
opened `O_SYNC` (`mmap_comm.c:20`), which maps the pages uncached. The core's
side is external: it reads an area only while `valid` is set and clears it last,
and writes one only while `valid` is clear and sets it last. The code relies on
exactly that.

### ReadData

The PC's stream is counted in cells, `CLIENT_BUFF_SIZE` to a command; counters
say how much is `sent`, has `arrived` in the server's kernel, was `fetched` into
the `FILE`'s buffer and `consumed` by `fread`. The loop of `read_data` is
`Fread` (the top), the outcomes of the call one by one (`FreadCopies` a cell;
`FreadEnds`, `FreadFails`, `FreadReset`, `FreadStuck`) and `Push`. `ferror` and
`errno` are kept because the loop asks for them after any short read and nothing
clears them: an end of file after an interrupt is taken for another interrupt.

`InterruptsAt` is where in a command an interrupt may hit. The loop stores the
rest of an interrupted command at the start of its buffer, so anywhere but before
the first cell TLC finds a mangled command at once. `PushesNextCommand` is
therefore checked and proved for interrupts before the first cell only
(`InterruptsAt` is `{0}`), and claims nothing of the others. No build of the
repository meets those: the handler that is installed does not return, a read is
restarted after a stop and continue, and the socket is not non-blocking.

`OtherWrites` and `OtherIsStuck` are another user of the connection. In the
threaded server that user writes to the very `FILE` `fread` reads from, with no
`fseek` or `fflush` between, which C leaves undefined. The library of the build
(the makefile's native `gcc`, so glibc) gives back what it has read ahead by
seeking, which a socket refuses; the `FILE` is then left in the middle of a write
and neither reads nor writes again (`stuck`). With nothing read ahead, the write
works. In the deployed server reader and writer have a `FILE` each.

### ThreadedServer

`producer`, `consumer` and `display` are the three threads' places, `mutex` the
ring's. `network_producer` holds the mutex across `read_data`; `DisplayWrite`
needs stdio's lock on the `FILE`, which `fread` holds while it waits
(`reader # "fread"`). The consumer of this build only prints what it pulls. The
module EXTENDS `ReadData` and instantiates `CircleBuffer` with the commands as
items, so both are used as they are.

In `Net_Circle_Buff_t` the mutex follows `local_buff`, with at most four bytes of
padding between, so the cells behind the array are its own. `Lock` stores there,
and `overwritten` says that a push has run over the end of the array into it; from
then on taking it may succeed whoever has it, or never. `pthread_mutex_unlock`
stores there too, but before anybody reads those cells a lock has done so again.
In the deployed server nobody takes the mutex.

At the program's 32 bytes in 280 it is the ninth command that runs over the end,
however the PC spaces its commands: there is no burst small enough that nine
commands are safe. At most eight are sent before that, and eight never reach the
full test. So what the threads do with a *full* ring can only be checked at another
geometry, one in which no item runs over the end (`threads`), and what they do at
the program's own is the subject of `threads_ninth` and `FirstEightAreWhole`.

### PcClient

`readyReadSlot` takes all that has arrived as one chunk and keeps it only if it
begins with the head and has the length of a frame; `updateShow` copies what is
kept into the labels every 100 ms. `socket`, `outbox`, `rx` are `QTcpSocket`'s
state and buffers; the slots of the buttons, `connectedSlot` and
`disconnectedSlot` are actions or parts of those in which Qt calls them. A
command written while there is no connection is dropped by Qt. `wire` is what the
server has sent and the network not yet delivered, cut anywhere.

### ForceServer

| state | code |
|---|---|
| `tcp`, `reset`, `rx`, `backlog` | the kernel: state of each connection, an error not yet reported, data not yet read, connections not yet accepted |
| `parent` | where the parent is (`connect` = first `accept`, `main_fork`, `signal`, then the loop `check`, `read`, `parse`; `accept`, `fork`, `return` on the reconnect path) |
| `fd`, `netq` | `net_buff.fd`/`fp` and the ring |
| `pid`, `pid_child` | `network_rcv`'s static `pid` and main's `pid_child`, which `sighandler` uses |
| `buff` | the command `controller_msg_parase` pulled last |
| `kid`, `frame` | each child's place and the sample in its frame |
| `inherited` | the `pid_child` each child was forked with, which its copy of `sighandler` uses |
| `monitor`, `virtual`, `service` | the three mapped areas |
| `applied` | the vector the core took last |
| `sent`, `handled`, `published`, `shown` | histories, read by the properties (`published` and the length of `sent` also bound the environment) |

Actions bear the functions' names. `network_rcv` stops where the code blocks:
after the test it is either in `fread` (`read_data` with `ReadCommand`,
`ReadEnd`) or, having killed and closed, in `accept` (`Accept`, `AcceptFails`),
followed by `fork` and by `return`, the assignment of `pid_child`. These places
are kept apart because a signal, a reset or the child's step between them
matters. `controller_msg_parase` is one step: nothing it touches is used by
another process but the areas, which keep their promise by `SharedAreas`. The
child has three steps: fill the frame, test the connection, write.

The kernel, as far as the code sees it: a FIN makes the state `CLOSE_WAIT` and
gives end of file after the data; a reset makes it `CLOSE` and leaves an error
for the first process that reads or writes (the parent exits with it, the child
ignores it); a write on a reset connection raises SIGPIPE; a write after the PC
has closed is answered by a reset. `kill(-1)`, reached through a failed `fork`,
ends every child. SIGINT reaches parent and child one by one (`Interrupt`,
`InterruptChild`), as the keyboard sends it to both: the first child was forked
before the handler was installed, the later ones run it with the `pid_child` of
their fork.

As a `ForceService`, the session is `fd`, the sessions begun are the connections
taken from the backlog (`Accepted`), those over the ones a test no longer finds
established (`Ended`); the histories and the areas are themselves. `parent`,
`pid`, `pid_child`, `kid`, `inherited`, `frame`, `netq`, `rx` and `backlog` are not
seen by the service: forks, kills, signals, tests and reads are steps it does not
notice, and a parent's `exit` leaves it with its last session.

`RingFull` is the code's equality of offsets, in terms of the queue's length (met
at 34 waiting commands). It is part of `StillConnected` although no state reaches
it: the code has the test, and `NetqAtMostOne` is the reason it never bites.
`ForceService` is given a table of its own (`NamedCall`) of which call a
state-machine button stands for; the dispatch in `controller_msg_parase` is
compared with it.

Simplifications: `SIGKILL` acts at once; a command is read whole; numbers of
ended processes are not reused; the PC has one socket and one mouse, so
connection c+1 comes after connection c has ended and a button is released before
the next is pressed; frames that carry no sample are not recorded in `shown`.

## 3. The runs

| run | module | checks | expected |
|---|---|---|---|
| `ring_window` | `MCCircleBuffer` | `TypeOK`, `EmptyMeansNothingPending`, `PendingIntact`, `FifoSpec` at the program's geometry, window 8 | pass |
| `ring_overfull` | `MCCircleBuffer` | `FifoSpec` at the program's geometry with the full test as only limit | **violated** |
| `ring_bounds` | `MCCircleBuffer` | `PushStaysInBuffer` | **violated** |
| `bundle` | `MCBundleTransfer` | `TypeOK`, `CopiesStayInside`, `StreamSpec` | pass |
| `areas` | `MCSharedAreas` | `TypeOK`, `NoTornFrame`, `NoTornCommand`, `StableWhilePublished`, `SlotSpec` | pass |
| `monitor_blank` | `MCSharedAreas` | `FrameHasCoreState` | **violated** |
| `server_safety` | `MCForceServer` | `NetqAtMostOne`, `CommandsInOrder`, `OneUploader`, `SamplesInOrder`, `ServiceSpec` | pass |
| `server_progress` | `MCForceServer` | `TypeOK`, `ClientServed`, `CommandsHandled`, `UploaderEnds`, `SampleTaken`, `ServiceSpec` | pass |
| `stop_lost` | `MCForceServer` | `ReleaseReachesCore` | **violated** |
| `threads` | `MCThreadedServer` | `TypeOK`, `PushesNextCommand`, `PipelineSpec`, `ArrivedIsRead`, `UploadWaitsForPc`, `EndsAfterDisconnect` | pass |
| `threads_ninth` | `MCThreadedServer` | `PipelineSpec` at the program's geometry | **violated** |
| `pc_client` | `MCPcClient` | `TypeOK`, `StopFollowsStart`, `ButtonsFollowSocket`, `FeedSpec`, `LoneFrameShown` | pass |

What the properties that take several steps to break are for:

* `SamplesInOrder`: a child is killed with a sample copied and `valid` not
  cleared, its successor copies the same sample; it must not reach the PC twice.
* `CommandsInOrder`: a connection that ends with commands unread, and the next
  one; nothing unread may turn up there.
* `OneUploader`: forks, failed forks, kills and signals; the child the parent (or
  its handler) can kill is the only one. In the window between `fork` and the
  assignment of `pid_child` (`parent = "return"`) it speaks of `pid`, for there the
  handler would kill the child before; that a child left so ends is `UploaderEnds`.
* `ServiceSpec`: a session taken over before its connection has ended, a command
  carried out without its effect on the core, or with another one's, a vector
  overwritten before the core took it, a sample shown on a connection that is
  no longer the session.
* `PipelineSpec`: the ring is tested for room before a read that may take any
  time; it must have room when the push comes.
* `ArrivedIsRead`: producer and consumer wait for each other when the ring is
  full, unless the producer gives the mutex back.
* `UploadWaitsForPc`: only a reader inside `fread` with nothing left to read may
  keep the display thread from its `FILE` for good.
* `EndsAfterDisconnect`: a reader in its loop with the mutex in hand, and a stuck
  `FILE` that gives nothing; the display thread's test still ends the process. (The
  model has the sticky error flag too, which no build meets.)
* `LoneFrameShown`: after any cut or joined chunks, a frame that stands alone in
  the socket is shown.
* `StopFollowsStart`: connections are made and lost while the button is held; what
  comes after a start on its connection is its stop. It does not say that there is
  one: when the connection is lost while the button is held, no stop is sent.

### Bounds, and why they are enough

* `ring_window`: 4 cells in 35; the offsets return to their start after 35 items,
  and the run visits all 35 positions of the head with 0 to 8 items waiting.
  Items are numbered in turn (`InTurn`) from 11 names, so any two that can meet
  in memory differ in every cell. Window 8 is the largest safe one
  (8 * 32 <= 280 < 9 * 32).
* `bundle`: lengths 4, 5 and 3, so that a bundle goes to a longer and to a shorter
  buffer; every branch of both operations is taken, and bytes are numbered in turn
  so that any two under way differ. A bundle too long for the next buffer stays
  where it is for good, hence `CHECK_DEADLOCK FALSE`.
* `areas`: three words (first, middle, last store) besides `valid`, two items that
  differ in all of them, a vector of mixed words, every leftover.
* `server_safety`: two connections, two commands and two samples - one command in
  the ring or the area and one behind it, commands left unread at a disconnect,
  those of one connection turning up under the next; a child killed with a sample
  in its frame, and its successor.
* `server_progress`: two connections, so a reconnect happens, of two commands, so
  that one waits in the socket while the other is read and dispatched, and one
  sample, which one child may leave to its successor. Its PC has one state-machine
  button (`Cmd_working`) and no force button; `server_safety`'s has the force
  button. All four state-machine buttons at once take TLC too long here, so a wrong
  entry of the dispatch for one of the other three is not met by a run;
  `ImplementsService` is proved for all of them.
* `threads`: commands of two cells, so a read is cut in the middle of one; a ring
  of three slots, of which the full test gives two, and four commands that the PC
  may send at once, so it fills, refuses and wraps. Interrupts hit before the first
  cell of a command only. The geometry is not the program's: items fill the ring
  without a rest, so none runs over the end into the mutex (see ThreadedServer
  above for why a full ring needs such a geometry).
* `threads_ninth`: the program's geometry, nine commands, one schedule
  (`OneByOneSpec`): each command is sent when the one before was pulled. That is
  enough for a counterexample, and shows that no burst is needed.
* `pc_client`: frames of three cells (head, middle, last), three of them over two
  connections, so a connection ends inside a frame and two frames join; four
  clicks, so a press meets a connecting socket and a second press follows a stop.

`CHECK_DEADLOCK FALSE` stands in the servers' configurations because the system
does stop: the parent exits on SIGINT and on errors, the threaded server with its
connection (or on a mutex it has overwritten), and the PC runs out of connections
and commands by the bounds.

### Fairness

`ForceServer` assumes weak fairness of the parent's steps and of each child's:
an operating system runs a process that can run. Weak fairness is enough because
each waits in one place at a time and nothing but itself, its end, or a peer's
disconnect disables its step. A child's write ends because the PC's event loop
reads what arrives.

`ThreadedServer` assumes weak fairness of each thread, and strong fairness of
taking a lock: both loops call `pthread_yield` after giving the mutex back
(`network_client.c:191`, `:196`, `controller.c:118`; after a turn with an item the
consumer works on without the mutex first), and stdio's lock wakes who waits for
it. Of a mutex that was overwritten nothing is assumed. The consumer's and the
producer's turns end whatever the PC does, except inside `fread`.

`PcClient` assumes that the event loop runs the socket's slot and the timer's.

Nothing is assumed of the user, the network, the core, failing calls, or signals;
each property is stated so that it holds without them.

### What the violations say

* `ring_overfull`: `is_buff_full` is an equality that items of 32 bytes in 280
  meet only after 34 outstanding items; before that, pushes overwrite waiting
  ones. The deployed loop never has more than one waiting (`NetqAtMostOne`), so
  this is latent; the threaded `main` would let the ring fill, but its ninth command
  already meets `threads_ninth`.
* `ring_bounds`: the ninth push starts at offset 256 and writes 8 bytes behind
  `local_buff`, into `net_buff.mutex`. The pull reads them back from there, so items
  survive as long as nobody uses the mutex. This happens in the deployed loop, with
  one item, where nobody does.
* `threads_ninth`: in the threaded `main` somebody does. The ninth push writes over
  the lock word of the mutex its thread holds, the consumer's lock writes over the
  command's last word, and what is pulled is not what was sent.
* `monitor_blank`: a frame of zeros goes out every 200 ms without news from the
  core; the PC displays its state 0 as FORCE_BOOT, a state the core does not have.
* `stop_lost`: press and release are both dispatched before the core takes the
  first; the release is dropped, the core takes the press, and nothing ends it.

## 4. The proofs

**CircleBufferProofs** (for every geometry, alphabet and window such that either
the item length divides the buffer length or `Window * element_length <=
buff_length`, `SafeGeometry`): `TypeCorrect`, `EmptyTestCorrect`,
`ItemsStayWhole`, and `ImplementsFifo`, the refinement of `FifoQueue`.
`PendingIntact` alone is not inductive: a push keeps the waiting items whole only
because they lie in the cells between head and tail. `IInv` adds that the tail is
the slot behind the newest item (`TailFollows`) and that the waiting items leave a
cell free (`Fits`); the arithmetic of slots (`SlotNext`, `SlotsDisjoint`) is in
lemmas. Where the length is a multiple, the full test is what keeps `Fits`
(`DivisibleRoom`; the program's geometry is not of this kind); otherwise the window
does. The program's geometry with window 8 satisfies the second alternative.

`OverhangIsBounded`: a push writes at most an item less one unit behind the array,
where a unit is any common divisor of the two lengths, whatever the window. The
invariant is that the tail is a whole number of units from the start
(`TailAligned`), so at least one unit of the item fits before the end
(`StepReach`); it holds also where items overwrite each other, hence needs nothing
of `IInv`. `ProgramOverhang` takes it to 32 and 280: never more than 24 bytes
behind `local_buff`, hence within the padding and the mutex and never in the
condition variables after it. `ring_bounds` shows that the end is passed. Where
the unit is the item itself, nothing is written behind the array (`AlignedFits`),
which `ThreadedServerProofs` uses.

**BundleTransferProofs** (buffers of any three lengths): `BundleTypeCorrect`,
`CopiesInside`, and `ImplementsStream`, the refinement of `FifoQueue`. `TypeOK` is
inductive as it stands. The work is in `MovedIs`: whichever of the five ways
`Copies` cuts a bundle, the cell `k` places behind the tail of the buffer it goes
to ends with the byte `k` places behind the head of the one it comes from, for
every `k` below the bundle's length, and every other cell keeps its own. From it
follow what a move does to the contents (`FilledIs`: the bundle at the end) and that
no piece leaves the buffers.

**SharedAreasProofs** (any number of words, values and items): `TypeCorrect`,
`FramesAreWhole`, `CommandsAreWhole`, `ReadersAreUndisturbed`, and `ImplementsSlot`,
the refinement of `OnePlaceSlot`. The invariant says that the `valid` word keeps
the two sides apart (`Turns`: a writer past its test means `valid` is clear, a
reader past its test that it is set) and that the words stored or copied so far
agree with their source; a killed side only forgets, and leftovers are why
`StoredSoFar` speaks of the words stored, not of the memory.

**ForceServerProofs** (any number of connections, commands and samples):

1. `Shape`: types, that the parent holds a connection at each of its places that
   uses one, and how full the ring is there. Gives `TypeCorrect` and
   `RingHoldsOne`, the premise under which the ring may be taken for a queue:
   window 1 is within window 8.
2. `Children`: `OneUploader`, strengthened by who lives while the parent is
   before, between or after its forks. Gives `OneUploaderAlways`.
3. `Traffic`: `CommandsInOrder`, strengthened by what is known of a connection
   that is not accepted yet (nothing of it is handled, all it sent is unread).
   Gives `CommandsStayInOrder`.
4. `Order`: `SamplesInOrder`, strengthened by where the samples are that were not
   shown: the area holds the newest, a frame on its way one newer than all shown
   and older than the area's; and connections are accepted one after another.
   Gives `SamplesStayInOrder`.
5. `Sessions`: every child that lives belongs to the connection the parent holds,
   also when the parent has ended; and connections wait in the order they were made,
   behind all accepted ones. With 1, 3 and 4 it gives `ImplementsService`, the
   refinement of `ForceService`, one lemma for each step the service notices
   (`...Serves`) and one for all it does not (`ServiceStutters`).

Each uses the ones before. `ImplementsService` says more than the invariants: they
speak of the histories, it relates each step to the effect it has - a session ends
only after its connection has, a vector is never overwritten, a state-machine
command calls what the table says, the dispatch of a command and its entry in the
history are one step.

**ReadDataProofs** (commands of any size, any number of them, interrupts only
before a command's first cell): `ReadPushesNextCommand`. The invariant counts:
what was consumed is the commands pushed and the part in the buffer, unless
nothing will be read again (`NoMore`: the stream is over or the `FILE` stuck), in
which case the count is lost with the part that `read_data` forgets.

**ThreadedServerProofs** (interrupts only before a command's first cell):
`ThreadsPushNextCommand` for any ring; `ThreadsTypeCorrect` and `ImplementsPipeline`
where `Ring!SafeGeometry` holds with all the PC sends for the window, that is, up to
the first command that has to run over the end of the array: for any number of
commands if items fill the array without a rest, otherwise for as many as fit into
it once. Nothing is proved twice: the reader's part of a behaviour is one of
`ReadData` (`ImplementsReadData`), the ring's steps are `CircleBuffer`'s, by the
lemmas of `CircleBufferProofs` instantiated. What the invariant `TInv` adds is who
holds the mutex and that a reader under way means a ring that is not full
(`Locked`), that no more waits than was pushed (`Backlog`), where the next push
begins (`TailPlace`), and that mutex and array have left each other's cells alone
(`Apart`), so that locking changes nothing in the ring (`LockKeepsRing`).
`FirstEightAreWhole` takes it to the program's own sizes: with 32 and 280 the
threads are one queue for the first eight commands, however they are sent;
`threads_ninth` shows what happens to the ninth.

**PcClientProofs** (frames of any size; any number of frames, connections and
clicks): `UserIsNeverLockedOut`, `StartsAreStopped`, `ImplementsFeed` and
`PcTypeCorrect`, from three separate invariants: which buttons a socket's state
leaves enabled; that what was written on the present connection ends in a start
exactly while the button is held; and that the cells still unread or under way
are consecutive ones of the stream, all of frames newer than the one kept - which
is why a chunk with a head and the length of a frame *is* a frame.

**SequenceLemmas**: equality, concatenation and single-element facts of sequences
the other modules cite.

The assumptions are those the modules name: the constants' types, that the
"nothing" values are none of the values, that commands differ in one word
(`CommandAssumption`); and where stated `SafeGeometry` and
`InterruptsAt \subseteq {0}`. The lengths of `ProgramOverhang` and
`FirstEightAreWhole` are the program's.

**Only model-checked**: the liveness properties, which the prover cannot reach.

## 5. Not modelled, and why

* `shmem_client.c`, `proto.h`: used by nothing. `mmap_comm.c`: start-up calls,
  whose failure ends the program before it has done anything; their consequence,
  areas that are never cleared, is in the initial states.
* In `force_interface.c`, what nothing calls and no mapping serves: handshake and
  heart beat (`comm_info`), `Servo_Force_Comm_Get_State`, the parameters
  (`para_info`), `Force_Virtual_Reset`, instructions and results
  (`Servo_Force_Comm_Set_Instruct`, `Servo_Force_Comm_Get_Result`):
  `mmap_comm.c:31-46` maps the command, monitor and virtual areas only, so
  `instruct_info` and `back_info` stay null. Three of these do not do what their
  comments say: `Servo_Force_Comm_Set_Para` (`:195`) takes the *value* of a
  parameter for the address of the first and never moves its destination on,
  `Servo_Force_Comm_ServoHeart_Inc` (`:102`) counts in the word `force_interface.h`
  gives the core, and `Servo_Force_Comm_Cmd_DignoseCfg` (`:179`) sends
  `CMD_SWITCH_MODE`. `NoTornCommand` is about the four commands that are called;
  `Servo_Force_Comm_Cmd_Mode` and `_DignoseCfg` set parameters and could be read
  half done.
* `contoller_send_thread` repeats `Force_Virtual_Download` and is started by
  nothing; `handler`, `network_close` and `setCurrentThreadHighPriority` likewise
  concern threads nobody cancels, or a scheduling class.
* The conversion of forces in `setForceVal` and the layout of labels: data no
  property tells apart.
* Project, GUI and build files: no behaviour of their own.
* `kill(-1)`'s effect on other processes, reuse of process numbers, and the time
  the kernel takes to give up on a silent peer: outside this program's state.

## 6. The plan

Done: every module above, its runs, and the theorems above. Left:

1. The composition of `PcClient` and `ForceServer` over one stream, instead of each
   with an environment that stands for the other: `ForceService` and `FrameFeed` are
   the two specifications to compose.
