# A TLA+ model of the 452-OS kernel

452-OS is a small teaching kernel for the x86: up to 25 processes that share one
address space, a priority scheduler with time slices, blocking system calls, a
serial port, a console, a page allocator, drivers for a network card, a sound card
and VGA, and a set of user programs. This directory holds TLA+ modules for the
kernel, its drivers, its libraries and the user programs, TLC configurations that
check them on small instances, and proofs that TLAPS checks for every instance.

## The system

### What runs when

The kernel is single-threaded. `isrs.S` enters every handler, system call or
device interrupt, through an interrupt gate, so a handler runs to its end with
interrupts disabled; then the context of `current` is restored. A handler is
therefore one atomic step of the model, and the interleavings are those of the
processes' system calls with the clock, serial and other interrupts. What makes
this code hard is not data races but long sequences of legal calls: the queues are
linked through one field of the process control block (PCB), a PCB is moved from
one to the other by half a dozen functions, and a link that one handler forgets is
followed by another one much later.

Three things do run beside a handler or beside each other: a device that shares
memory or registers with its driver (the rings of the network card, the command
registers of the sound card, the UART), a user program that calls a kernel function
directly with interrupts enabled (`cio_getchar`), and the user processes among
themselves, whose static variables exist once for all of them.

### Components

| component | source | state | operations | modelled by |
|---|---|---|---|---|
| process module | `procs.c` | `ptable`, six PCB queues, `current`, `init_pcb`, `next_pid` | queue insertion and removal, `pcb_zombify`, `pcb_cleanup`, `schedule`, `dispatch` | `Procs` |
| system calls | `syscalls.c` | none of its own | one handler per call | `Kernel`; `write` in `Sio` |
| clock | `clock.c` | `system_time` | `clk_isr`: time, sleepers, time slice | `Kernel`, `MCSleep` |
| serial port (SIO) | `sio.c` | input and output buffer, `sending`, `ier` | receive and transmit interrupt, `sio_read`, `sio_write`, `sio_writec` | `Sio`; who is woken in `Kernel` |
| physical memory | `kmem.c` | free list of pages, free list of slices, their counts | `km_init`, `km_page_alloc`, `km_page_free[_multi]`, `km_slice_alloc`, `km_slice_free` | `Kmem`, `Allocator` |
| boot | `main.c` | | creation of the first processes, initialisation of the devices | initial states of `Kernel`, `Kmem`, `Nic`, `Pci`, `Hda` |
| user stacks | `user.c` | | `stack_setup` lays out the arguments | `UserStack` |
| console (CIO) | `cio.c` | cursor, scroll region, keyboard ring | output, `cio_getchar`, `cio_gets`, keyboard interrupt, console side of `read` | `Cio`, `Console` |
| kernel and user libraries | `klibc.c`, `usercode/u*.c`, `itoa.c` | | memory, strings, number conversion, formatting | `Klibc`, `Ulibc` |
| network | `net.c`, `ethernet.c`, `ipv4.c`, `udp.c` | | packet construction, checksums | `Net` |
| Intel 8255x | `intel8255x.c` | transmit ring, receive ring, their tails | initialisation, transmit, receive, station address | `Nic`, `Net` |
| DMX | `dmx.c` | | packs a packet into bytes for the serial port | `Dmx`, up to the data register |
| PCI | `pci.c` | configuration spaces | search by ID and by class, probing of base addresses | `Pci` |
| audio (HDA) | `hda.c` | command registers | immediate commands, walk through the codecs, volume | `Hda` |
| VGA | `vga_graphics.c`, `usercode/vga/` | picture, back buffer | lines, circles, rectangles, sprites, text; typing, snake | `Vga`, `Snake` |
| user programs | `usercode/` | spawn tables, `children`, `time_to_stop` | init, shell, the test programs A to Z | `Userland` |
| list | `list.c` | | a linked list, called by nothing | no |
| interrupt entry, boot loader | `isrs.S`, `startup.S`, `boot.S` | | | no: assembly. One fact of it is used: handlers are atomic |

The components meet in a few places. The system calls and `clk_isr` move PCBs with
the process module's functions and call `schedule` and `dispatch`. The serial
interrupt takes a reader off the `sioread` queue, fills its buffer and schedules
it. `fork`, `exec` and the end of a process take stacks from and return them to
`kmem`. Every printable console character is copied to the serial output
(`CIO_DUP2_SIO` is on in the Makefile). `net.c` and `hda.c` find their devices with
`pci.c`. `init`, the shell and the test programs use `fork`, `exec`, `waitpid`,
`kill` and the serial port through the user library.

### What makes each component correct

*Process module.* Each of the six queues is a sound list in its order; every PCB is
on the one queue its state calls for; every process has a living parent; stacks
are neither lost nor freed twice; the kernel neither panics nor follows a list for
ever; PIDs are unique as long as the counter lasts; the running process has the highest priority; nobody ready
starves among equals. *Clock.* Every sleeper wakes, at the tick it asked for.
*Serial port.* Both buffers are FIFOs; output that was accepted is sent. *Memory.*
An allocation returns memory nobody else holds and fails only when there is none.
*Console.* The region is a window on the end of an endless paper; keys come out in
the order typed. *Libraries.* What the C standard, or the comment above the
function, says. *Stack.* A program finds its arguments. *Network.* Each frame is
sent once, in order, and carries the message. *PCI, HDA.* The first
matching function is found; each answer is that of its question. *User programs.*
The shell knows how many children it has and comes back to its prompt; every zombie
is collected; what died is restarted.

`PROJECT.json` lists, under `hazards`, the lines where each of these could go wrong
and the properties that watch them.

## The modules

A module `M` is a component, `MCM` puts it to work and states its properties, `MProofs`
holds its theorems (`DevicesProofs` those of everything `MCDevices` composes: `Pci`,
`Nic`, `Hda`, `Console`, `Snake` and `Vga`; `ScreenProofs` those of `Cio` against the
paper of `MCConsole`; `KernelProofs` those of `Procs`, `Kernel` and the clock of
`MCSleep`). `ProofBasics` has the lemmas about least numbers, loops and
rings that several of them use.

### `Procs` and `Kernel`

`Procs` is `procs.c`. Its operators take the state `k` of the kernel's globals (a
record: process table, queues, `current`, time, ...) and return the state the C
function leaves; they have the C functions' names (`pcb_queue_insert`,
`pcb_queue_remove_this`, `pcb_zombify`, `schedule`, `dispatch`). The queues are
kept as the code keeps them, by head, tail, length and the `next` field of each
PCB, because the interesting cases are those in which a PCB is on two queues. A
loop over a list is modelled by the set of PCBs it steps over (`Visited`) and where
it ends (`LastOf`); a loop that never ends gives the kernel status `"hang"`, a
failed assertion or `kpanic` gives `"panic"`, and both stop the model, as they stop
the kernel. The lengths, the clock and the PIDs wrap as the code's 32-bit integers do,
at the named constants `LenMod`, `TimeMod` and `PidMod`. Of `next_pid` the model keeps
the count, and gives its remainder as PID: the code's counter is that remainder, and
the count says whether it has wrapped (`Wrapped`). From then on `fork` gives PIDs that
may be in use, 0 and 1 among them, in the model as in the code.

`Kernel` adds the handlers of `syscalls.c`, `clk_isr` and the receive side of
`sio_isr`, and an action for each. The running process makes any call from the
constant `Calls` with arguments from small sets; `init` forks and waits and `idle`
only runs, as their programs do (both are known by their slots, not by a PID that
another process may be given after the wrap). `clk_isr` is three kinds of step (`ClockTick`,
`ClockLoop` for each sleeper it wakes, `ClockEnd`), between which nothing else can
happen, because the status is `"clock"`. The initial state is the one in which the
boot has settled: `init` waits for its children, `idle` is ready, the shell (PID 3)
runs; at any time of the clock.

Left out of a PCB: the context except for the arguments and the result that a
blocked call needs; the stack pointer (stacks are counted); `ticks`, of which one is
kept, because only the current process's is read.

`MCKernel` adds a history variable, `MCSleep` counts how long each sleeper has slept
and looks at who is dispatched, and `MCFindings` states sentences of the comments and
of `doc/api.txt` that the code contradicts.

### `Sio`

`Sio` is `sio.c` with its two buffers as arrays with indices for the pointers
(`inlast`, `innext`, `outlast`, `outnext`), including the index one past the end. A
store there sets `stray` and ends the behaviour, since what it overwrites depends on
the linker. Characters carry numbers, modulo a bound larger than what the buffers
hold, in the order in which they must come out; so a lost, repeated or misplaced
character shows in the numbers. The transmitter is external: it takes a character,
and is eventually empty again. The mapping of CR to LF on input does not matter for
order and is left out; that of LF to CR LF on output does, and is modelled.
`MCSio` adds a history variable and the properties.

### `Kmem` and `Allocator`

`Kmem` is `kmem.c`. An address counts slices (1 KB), a page is four of them, and
`blk` holds the headers (length and link) of the blocks on the page list. `km_init`
processes one region of the BIOS memory map per step, with the cutoffs and the
rounding of the code. The places at which the list loops stop are defined directly
(`Prev`, `Curr`, `FirstFit`), which is right as long as the list is in address
order; the property `LoopsEndThere` runs the loops on the links and compares. The
callers are the environment: they return pages they hold, in any grouping. No more
than `MaxCarved` pages are cut into slices.

`Allocator` is the abstract specification: sets of free and held pages and slices;
an allocation returns the lowest run of free pages that is long enough, and NULL
only if there is none. `MCKmem` maps the lists to these sets.

### `Klibc`, `Ulibc`, `UserStack`, `Dmx`, `Vga`, `Net`

Pure functions, with the names of the C functions, as operators on small data: memory
is a function from addresses to bytes, a picture a function from pixels to colours, a
packet a sequence of bytes. Loops are recursive functions. Unsigned 32-bit values,
which TLC's integers cannot hold, are given by their bits or by quotient and
remainder. The user library has the text of the kernel's with the calls renamed, and
`Ulibc` says so function by function. `UserStack` lays out a stack byte by byte;
`Dmx` keeps the bit array of `dmx_write`, in which the second stop bit of a slot is
overwritten by the next slot's start bit, and ends with the bytes written to the port's
data register, before the UART adds bits of its own; `Net` builds a frame layer by layer and
reads the station address.

`MCLibrary` calls one of them at a time, with every small argument and with values at
the ends of their ranges, and compares the result with a definition of what it is
for: a receiver that decodes the frame, the DMX slots found in the bytes one after the
other, what C's `printf` prints, the ideal line and circle, the program that looks at
its stack. Where the code is known to fall short of that definition, the property says
in which cases and what it does there: `FormatsKnown` (padding with zeroes),
`FrameDecodes` (the padding of a frame, and a buffer that is too small) and
`ChecksumExchanged`.

### `Cio` and `Console`

`Cio` is `cio.c`: the record `v` is the screen with its scroll region and cursor, the
record `k` the keyboard with its shift state and ring. `Console` puts the keyboard to
work: the interrupt, a user program inside `cio_getchar`, which is interrupted between
its test and its access, and the console side of `sys_read`, which polls with
interrupts disabled. `MCConsole` compares the screen with a typewriter on paper that
never ends, and adds the two programs that use screen and keyboard: typing (`Vga`) and
`Snake`. Of the snake's random numbers the lowest bit is kept, because it alternates
and therefore decides which columns the food can be in.

### `Pci`, `Nic`, `Hda`

Drivers beside their devices. The device is external: what it does is taken from how
the driver uses it. `Pci` reads one configuration register per step; the bus counter
is as wide as the code's. `Nic` has both rings with the descriptors' done bits, heads
and tails, and every way in which `i8255x_init` can fail. `Hda` has the command
protocol (busy and valid bits, of which the latter is cleared by writing 1) and the
loops of `enumerate_codecs` as one question per answer. `MCDevices` puts these and
the console together. They share no state once they are initialised, so a behaviour
is about one of them.

### `Userland`

The user processes on the system calls as `ulib.h` promises them (what the kernel
makes of that promise is `Kernel`). A test program is the sequence of what it does to
others, loops over counts unrolled; writing, delaying and sleeping are turns in which
the others may act. The shell's line reader, its spawn table and its wait loop, and
init's table and its loop, are modelled statement by statement, with the static
variables shared by every process that runs the program. A word of `children[]` that
was not assigned holds any value of `Garbage`. `MCUserland` gives the spawn tables and
what is typed; between them the jobs start every program of the repository's table.

## The runs

| run | checks | bounds |
|---|---|---|
| `kernel_clean` | `QueuesSoundUntilStale`, `PlacedOnceUntilStale`, `ParentAliveUntilStale`, `StacksConservedUntilStale`, `KernelRunsUntilStale` | 5 slots, 5 stacks, PIDs up to 5; exit, waitpid, fork, read, kill, sleep, clock and serial interrupts |
| `kernel_full` | `TypeOK`, `CurrentSet`, `PidsUnique`, `InitLives` | 4 slots, 4 stacks, PIDs modulo 5 and two forks that succeed; every call except read; stale entries and the wrap of `next_pid` included |
| `kernel_live` | `SleepersWake`, `ReadyRuns` | 5 slots, time modulo 3; fork, sleep, read, exec |
| `sleep_on_time` | `WakesOnTime`, `DispatchHighest` | 5 slots, three sleepers, time modulo 4, sleeps of 0, 1 and 3 ticks; three priorities; fork, exec, setprio |
| `kmem` | `PageListSound`, `LoopsEndThere`, `ImplementsAllocator` | memory maps of 6 and 5 pages, and an empty one; allocations of 0 to 3 pages; one page of slices |
| `sio` | `InputInOrder`, `OutputInOrder`, `PumpPrimed`, `OutputProgress` | buffers of 3, texts of 0 to 4, bursts of 1 and 2, two blocked readers |
| `library` | `MemoryRight`, `ConversionsKnown`, `ProgramSeesArgs`, `DmxPacked`, `DrawingRight`, `FramesKnown` | 12 bytes of memory, strings of up to 3, up to 4 arguments, pages of 48, 8 DMX slots, a screen of 5 by 4, circles of radius up to 12, payloads up to two beyond the largest |
| `devices` | `ScreenShowsPaper`, `RegionsKept`, `KeyboardInOrder`, `ProgramsInside`, `FoundAndProbed`, `SearchEndsIfFound`, `RingsInOrder`, `SentUnlessFull`, `WalkRight` | a screen of 3 by 3 and 4 calls, a ring of 4 and 5 keys, a board of 4 by 2, 4 buses of 2 devices of 2 functions, rings of 3 and 6 frames, two codecs walked twice |
| `userland` | `ChildrenKnown`, `TableTrue`, `LineRuns`, `ZombiesCollected`, `ShellReturns` | 7 processes, lines of 6, 21 spawn tables with what is typed |
| `v_walks_end`, `v_killed_runs`, `v_childless` | one sentence each, which TLC refutes (see Findings) | 4 slots |

Most of the properties of the last three passing runs are conjunctions of named
parts, one per function or per component, each with its own comment.

*Why these bounds are enough.* With 5 slots there are two processes besides `init`,
`idle` and the shell: a parent, a child and a grandchild or sibling exist at once,
the free list can be empty, and every queue can have its first, a middle and a last
element. `N_STACKS` is at most one above the number of slots, so that exec meets an
exhausted allocator. In `kernel_clean` there are as many stacks as slots and two
forks: a fork there finds no PCB before it finds no stack, and that it gives the PCB back
in the other case is shown by the theorem `StacksAlwaysConservedUntilStale`, not by
the run. The PID bound lets each slot be reused in `kernel_full` and in the refuting
runs; in `kernel_full` the PIDs given are 4 and 0, so that `next_pid` wraps, and the
properties are checked behind the wrap too. (A larger `MaxPid` there makes the state
space infinite: a PCB that is on two queues can be freed twice, and then the count of
stacks grows.) In all other runs `PidMod` is above the bound, and `next_pid` does not
wrap. In `kmem` the regions straddle both cutoffs, come out of
address order, have lengths and bases that are no multiple of a page, or have to be
skipped; six pages are enough for a free block before, after and between
held ones. In `sio` buffers of three make both pointers wrap at different times,
and a text of four fills the buffer after the first character was sent directly.
In `library` every overlap of source and destination occurs, by bytes and by words;
arguments reach the limit of a page and the number the arrays hold. In `devices` a
region can lie beside, above and inside the rest of the screen, the keyboard ring
fills and wraps, both network rings wrap twice and are full and empty, the memory has
no page, too few for the rings, just enough, and plenty; the 4 buses equal the range
of the bus counter, as the code's 256 do. In `userland` seven processes let progI,
progJ and the shell run out of processes, and a line of six is cut off.

*Deadlock* is not checked in `devices`: a search that ended, a driver that is not
there and a program that was left are ends.

*`...UntilStale`.* Two handlers leave an entry behind in a queue. `pcb_zombify`
(`procs.c:491`) schedules a waiting parent without taking it off the waiting queue,
and `sys_waitpid` (`syscalls.c:285`) frees a zombie without taking it off the zombie
queue. After either, the queues are no longer sound lists, and what happens then is
the subject of the finding `WalksEnd`. The variable `stale` records that one of them
has happened; the properties say that nothing else breaks the data structures, and
the runs stop at that point (`CONSTRAINT NotStale`). They also end where `next_pid`
wraps (`Clean`), for two processes with one PID confuse `kill` and `waitpid`.
`kernel_full` goes on, with damaged queues and past the wrap, and shows what holds
even then.

*`garbled`, `stray`.* In the same way the properties of `sio` hold until a character
is stored past the end of a buffer (`stray`), or output is put out of order by one
of two things the code does (`garbled`): `sio_write` of a text that begins with LF
while nothing is being sent puts the LF after the rest of the text, and `sio_writec`
into a full buffer overwrites a character that was not sent.

*Fairness.* `kernel_live` assumes that the timer keeps interrupting and that a clock
handler that was entered finishes. Nothing is assumed of the processes: each may
compute for ever without a call. The first assumption is the hardware's, the second
holds because the handler is a loop over a finite queue with interrupts disabled.
`ReadyRuns` is for processes of the standard priority, with no `setprio`; a process
of a lower priority may starve by design. `sio` assumes that the transmitter
finishes each character and that its interrupt, when enabled, is taken. `devices`
assumes that a search goes on (it is a loop) and that the network card sends what it
was given; nothing of what is called or received. `userland` assumes that a process that can act eventually does, which is what the
scheduler gives to processes of one priority (`ReadyRuns`); nothing of idle, of
whether anybody types, or of when the victim of a kill ends.

## What is proved

Every theorem is about all values of the constants that satisfy the named assumptions
of the modules; TLC evaluates the same assumptions in the runs. Where a property of a
run is named, the theorem states that property.

| theorem | property | for every |
|---|---|---|
| `TypeCorrect`, `CurrentAlwaysSet` | `TypeOK`, `CurrentSet` | number of processes and stacks, width of the counters, set of arguments; on damaged queues and past the wrap of `next_pid` too |
| `PidsAlwaysUnique` | `PidsUnique` | the same, on damaged queues too, until `next_pid` wraps |
| `QueuesAlwaysSoundUntilStale` | `QueuesSoundUntilStale` | the same, until the first stale entry or the wrap of `next_pid` |
| `AlwaysPlacedOnceUntilStale` | `PlacedOnceUntilStale` | the same |
| `ParentAlwaysAliveUntilStale` | `ParentAliveUntilStale` | the same |
| `StacksAlwaysConservedUntilStale` | `StacksConservedUntilStale` | the same |
| `KernelAlwaysRunsUntilStale` | `KernelRunsUntilStale` | the same, if `N_STACKS > N_PROCS` or `exec` is not called |
| `InitAlwaysLivesUntilStale` | (`InitLives`, until then) | the same |
| `AlwaysWakesOnTime`, `AlwaysDispatchHighest` | `WakesOnTime`, `DispatchHighest` | number of sleepers, set of sleep times and of priorities, width of the clock |
| `PageListAlwaysSound`, `LoopsAlwaysEndThere` | `PageListSound`, `LoopsEndThere` | memory map, cutoffs, sizes of allocations |
| `KmemImplementsAllocator` | `ImplementsAllocator` | the same |
| `KmemSeparate`, `MemorySeparate` | (`Separate`, of `Kmem` and of `Allocator`) | the same |
| `InputAlwaysInOrder`, `OutputAlwaysInOrder`, `AlwaysPumpPrimed` | `InputInOrder`, `OutputInOrder`, `PumpPrimed` | size of the buffers, lengths of texts, reads and bursts |
| `KeyboardAlwaysInOrder` | `KeyboardInOrder` | size of the keyboard ring, scan codes, lengths of a read |
| `ScreenAlwaysShowsPaper`, `RegionsAlwaysKept` | `ScreenShowsPaper`, `RegionsKept` | size of the screen, number and order of the calls |
| `AlwaysProgramsInside` | `ProgramsInside` | size of the board, the screen and a glyph |
| `RingsAlwaysInOrder` | `RingsInOrder` | length of the rings, number of pages |
| `AlwaysFoundAndProbed` | `FoundAndProbed` | number of buses, devices and functions; whatever is plugged in |
| `WalkAlwaysRight` | `WalkRight` | set of codecs with their groups and widgets |
| `AlwaysTableTrue`, `AlwaysChildrenKnown`, `AlwaysLineRuns` | `TableTrue`, `ChildrenKnown`, `LineRuns` | size of the process table, set of PIDs, spawn table, text typed, length of a line; as long as there is a PID to give |
| `AlwaysPidsLeft` | (`PidsLeft`, that there always is) | infinite set of PIDs |

*Assumptions.* `ProcsAssumption`: at least three slots and stacks (the boot needs
them), a time slice of at least a tick, a queue length that can count all slots, and
more PIDs than slots.
`KernelAssumption`, `SioAssumption`, `ConsoleAssumption`, `CioAssumption`,
`NicAssumption`, `PciAssumption`, `HdaAssumption`, `DevicesAssumption`,
`UserlandAssumption`, `JobsAssumption`: types and non-empty buffers (a line of the
shell has room for four characters); the bus counter of the code can hold the number of buses, and
characters are numbered modulo more than a buffer holds. `MapsAssumption`: the BIOS
reports usable regions whose whole pages neither overlap nor touch; `add_block` takes
that for granted. `BoardsAssumption`: the upper half of a 64-bit base address
follows the lower one, and a register that exists was given an address.
`CodecsAssumption`: node numbers have seven bits. `SnakeAssumption`,
`VgaAssumption`: the first snake fits on the board, a glyph on the screen.

### The kernel, whatever the queues look like: `KernelProofs`

The inductive invariant is `IInv`, the conjunction of the three properties. It has to
include `TypeOK` because every operator dereferences PCBs, and `PidsUnique` needs the
bound `pid < next_pid` that it contains. `PidsUnique` claims nothing once `next_pid` has
wrapped; that is inductive because only `fork` counts, one at a time, and a count is
never taken back (`Counts`), so that a state before the wrap comes from one before the
wrap. The hard part is that all this has to hold on
damaged queues too: nothing may be assumed of the links but their type. So the proof
does not follow lists. It is built from two relations between kernel states, each with
lemmas for the operators of `Procs` and `Kernel`: `Keeps` (links, queues, states and
results may change, but `current`, `next_pid` and every PID stay: what the process
module does, except `dispatch`) and `Serves` (what a handler leaves: the same PIDs and
`next_pid`, and a current process unless the kernel has stopped). The relations
compose, so that a handler's proof is the chain of its calls. `TypeOK` is more than a
formality here: it says that no handler stores a pointer that is neither NULL nor a
PCB, whatever stale entries the queues contain.

### The kernel until the first stale entry: `KernelProofs`

The inductive invariant is `HInv`: as long as nothing is stale, `next_pid` has not
wrapped and the kernel runs, the state is `Settled`. None of the five properties is inductive alone. A queue is sound
because its PCBs are on it alone; that they are, their states say (`Home`); that a
handler finds the state it expects depends on who is whose parent; and that a PCB that
is freed has no children left rests on the way parents are found: a parent other than
`init` is older (has the smaller PID) than its child, so that nobody is its own
ancestor (`Family`).

`Settled` says that there are six lists, one per queue (`Fine`), such that head, tail,
length and links are those of the list (`Chain`), keys ascend (`Ordered`), no PCB is
on two places (`Apart`) and each is on a queue that its state allows (`Placed`). To
say "there is a list" and not "the walk along the links is" is what makes this provable
without induction along a list: insertion and removal are shown to turn one family of
lists into another (`GoodInsert`, `GoodRemove`), index by index. The model's own
walks (`Walk`, a recursive function of the number of steps) are connected to the list
by the lemma `WalkIs`, in which the first step where the two would differ is a
contradiction. `Held(k, F, Z)` is the same in the middle of a handler, with the PCBs
`F` in hand and the PIDs of `Z` just returned; each operator of `Procs` has a lemma
that takes one `Held` state to the next.

A handler need not leave a settled state: it may leave a stale entry. Then the step
must be one that sets `stale`. The lemmas conclude `Served`: settled, or some `waitpid`
has been given a PID in the way that `MCKernel` records (`Marks`). For that one has to
know that a PID returned earlier is not mistaken for a new one: `Waits` and `Spent`
say that who waits has no result yet and that a returned PID is nobody's any more.

`sys_exec` asks for a second stack and panics if there is none, so the theorem that
the kernel runs has the hypothesis that this cannot happen. `kernel_clean` is without
`exec`.

The clock of `MCSleep` adds to a settled state that the sleep queue is in time
(`SleepInv`, `InTime`): a PCB is asleep if, and only if, the observer still counts ticks
for it, and its `wakeup` is the clock plus that count. `clk_isr` stops at the first
sleeper that is not due; that nobody behind it is due either is `Ordered`, of the list
of `Settled`, and that those it woke are the ones whose count has come to 0 is shown by
following its loop from one settled state to the next. A sleeper whose `wakeup` wraps
is outside the claim, and inside the proof: it must not disturb the others'. The same
invariant gives `DispatchHighest`, since the head of an ordered ready queue has the
highest priority. The calls are those after which no entry becomes stale, so neither
theorem has a hypothesis about stale entries. Nor have they one about the wrap of
`next_pid`: no process ends there, so `next_pid` and the free stacks always add up to
`N_STACKS + 1` (`Balance`), and there are fewer stacks in use than PIDs (`NeverWraps`).

### Memory: `KmemProofs`, `Allocator`

The inductive invariant `KInv` says of the page list only what can be said of one block
and its successor: a block's link is NULL, and then no block is above it, or a block
above it beyond its end, and then none is between. That is local, so a split or a merge
touches two blocks, and no induction along the list is needed; that the whole list is
sorted follows. With it go `Separate` (no byte is in two hands), that each slice is on
the slice list once, and that during the boot the regions still to come lie apart from
the blocks. The refinement is then proved action by action: the lowest block that is
long enough begins the lowest run of free pages, because blocks that touch have been
merged.

### Buffers and rings: `SioProofs`, `DevicesProofs`

For a ring the invariant is that the i-th place after the reading end holds the i-th
character (or frame) that is due, and that the number of them is the distance of the
ends (`InInv`, `OutInv`, `KbdInv`, `TxKept`, `RxKept`). Two places of a ring are the
same only if they are equally far from its end: those lemmas are in `ProofBasics`. For
the receive ring of the network card the invariant also says which descriptors the card
owns, and that the driver has not passed the card. In `SioProofs` the input buffer is
not a ring, and the invariant keeps `inlast` exactly `incount` places after `innext`.

The search of `pci.c` has the invariant that no place before the one to be read next
matches (`PciInv`); that probing leaves each address in its slot is shown register by
register of the function found. The walk of
`hda.c` has an invariant for each place in its three loops: what has been asked and
answered so far, what is under way on the link, and that the answer register holds the
answer to the last question (`HdaInv`). The snake stays a chain because its new head is
next to the old one and the rest moves up (`SnakeInv`).

### The screen: `ScreenProofs`

The inductive invariant is `ScreenInv`: the screen is one of `Screens` (the region lies
on it, and the cursor in the region, or at the left margin of the line below it), and
`Shows` relates it to the paper: the region has the last lines of the paper, and the
cursor is where the typewriter is. The cursor needs the clause about the left margin,
because `cio_setscroll` and `cio_moveto` come between a newline and its delayed scroll
and must find a cursor they can bring back into the region. `Shows` allows the line
below: the scroll is delayed on the screen, and on paper is a blank line appended.

Each operator of `cio.c` has two lemmas: given a screen, it gives a screen that agrees
with it outside the region; and if it writes at the cursor, the paper typed on is shown
by what it gives. The loops of `cio_puts`, `mypad` and `cio_puts_at` are the iteration
of one step (`Iterates` and its lemmas in `ProofBasics`). `cio_putchar_at` is not
bounded by the region, so its lemma says which cells it can reach (`Reach`): one cell,
or for a newline the rest of the line up to the end of the region, and that is why
`RegionsKept` may name the side on which it stays.

That `cio_printf` writes what `sprint` builds is proved for the formats the program of
the run prints, each followed directive by directive through both parsers. `sprint`
calls itself on the rest of the format, and the proof first shows that there is such a
function, since nothing can be said of a recursive one without its existence. Of
`cvtdec0` it is used only that its recursion ends in a text: both sides convert alike.

### The programs: `UserlandProofs`

The inductive invariant is `UInv`. `ChildrenKnown` is about counts (the shell's
`children`, the arrays of progT, progU and progV, the loop of progI) at the moment
somebody trusts them; what keeps them right is a statement about every moment before
(`Knows`): the count, or the rest of the array, is that of the children there are, at
each place in the loop that collects them. A child enters the family by `fork` and
leaves it by a `waitpid` of its parent, but also changes hands when its parent dies,
and then the new parent is `init`, about which `Knows` claims nothing. The program a
process runs is fixed by its text, so each test is followed instruction by instruction
(`Well`), with lemmas for a process that is added (`Grows`), removed (`Shrinks`) or
changed where it stands (`Moved`). The statics belong to all shells: a shell that dies
leaves its count to the next one, so the invariant says that a shell is always the
process of its entry in init's table (`Shelled`), and that while there is none the
count is 0 unless a kill has hit the shell, the case `lost` records.

A new process takes a PID that nobody has; if there were none, the choice would be of
nothing. So the theorems say `[]PidsLeft`, and `AlwaysPidsLeft` that this holds if
there are infinitely many PIDs: a family is finite. Infinitely many is an
idealisation of the kernel's 32-bit counter, which gives fresh PIDs until it wraps
(`PidsUnique`); what the programs do behind the wrap is not modelled.

`AlwaysLineRuns` needs little of the invariant: the shell leaves "read" by the last
`read()` of the line, so its buffer is what it held and the new piece, cut at the
newline, and the places of the first newline and of the first `@` in the pieces are
those in the whole.

### Only model-checked

The liveness properties (`SleepersWake`, `ReadyRuns`, `OutputProgress`,
`SearchEndsIfFound`, `SentUnlessFull`, `ZombiesCollected`, `ShellReturns`): fairness and
ENABLED are outside the prover's reach. What the recursive functions of the libraries
compute (`MCLibrary`), and with it formatted output in formats other than those
`MCConsole` prints: the prover has no induction over data. `InitLives` after an entry has
become stale: one has to know that `init` cannot be reached through the free list, a
statement about damaged lists.

## Findings

Each is a run with the expected result `violation`.

* `WalksEnd`. A parent that was woken by its child's exit is still on the waiting
  queue. Its next `waitpid` links it behind itself; the next insertion into that
  queue never ends, with interrupts disabled. (`procs.c:491`)
* `KilledNeverRuns`. `kill` marks a ready process and leaves it on the ready queue;
  `dispatch` does not look at the mark, sets the process running, and the kill is
  lost. (`procs.c:946`)
* `ChildlessNeverWaits`. `waitpid(0)` counts PCBs that are free: a child that was
  collected keeps its parent pointer, and its former parent blocks for ever instead
  of being told that it has no children. (`syscalls.c:216`)

Seen while modelling, and visible in the models, but without a run of its own.

Kernel:

* A sleeping process has the state Running, because `sys_sleep` does not change it.
  `kill` of a sleeper takes the case for the running process and terminates the
  caller instead (`syscalls.c:733`).
* `inlast` goes back only when the input buffer is drained, but the receive interrupt
  tests the number of unread characters: after a partial read it stores past the end
  of the buffer (`sio.c:170`; the variable `stray`).
* `next_pid`, by its comment the "next available PID" (`procs.c:72`), is counted up by
  `fork` and never tested (`syscalls.c:364`). After 2^32 forks it gives PIDs that are in
  use, 1 among them, which is init's, and 0, with which nobody finds the process.
* `kill(0)` returns `E_FAILURE`; `doc/api.txt:165` says it terminates the caller.
* `exec` without memory for a second stack fails an assertion; `doc/api.txt:69` says it
  returns on failure. `sys_dmxwrite` sets no result (`syscalls.c:829`).
* A sleep whose wakeup time wraps around ends at the next tick (every 49 days).
* With two blocked readers, a burst of input wakes only the first.
* `carve_slices` counts each slice twice; `n_slices` is only printed.
* `add_block` rounds the length of a region but not its base; the header comment of
  `kmem.c` says blocks are aligned. Two usable regions that touch are not merged.
* `write` returns the length asked for, not what `sio_write` accepted, and `sio_write`
  of an empty text sends one character.
* `stack_setup` does not compare the number of arguments with `N_ARGS`, the size of
  its arrays (`user.c:78`; `ArraysOverrun`).

Console and libraries:

* A console `read`, "non-blocking" by its comment (`syscalls.c:474`), polls with
  interrupts disabled until the line or the buffer is full; it needs two waiting
  characters to begin, and with a length of 1 it reads nothing.
* `cio_getchar` of a user program tests and takes in two steps: a read in between
  leaves it to take from an empty ring (the variable `raced`).
* Undefined scan codes are marked `'\377'` and compared with 255, which differ as
  `char` and `int`: they are stored in the ring.
* `str2int` in base 16 accepts the characters from `:` to `?`; `sprint` reads past a
  format that ends in `%`; `itoa` writes the smallest number with characters below `0`.
  Circles are up to 1.24 pixels off.
* `sprint` pads with zeroes where C does not: before the sign (`%03d` of -7 gives `0-7`)
  and on the right (`%-012d`) (`PadsUnlikeC`).
* The snake's food appears only in columns of one parity per game, and when these are
  full `place_food` never returns.

Devices:

* `pci_find_device_by_class` counts 256 buses in a `uint8_t`: if there is no such device
  it never returns (`pci.c:66`), and `hda_init` calls it at boot. `pci.h` says -1.
* The command that sets the volume does not wait for its answer, and the next
  command may take it for its own (the variable `spoilt`).
* The packet `dmx_write` builds contains the start and stop bits of each slot, as
  `doc/dmx.txt` wants them on the line, but the port is set to 8N1 (`sio.c:359`), so that
  the UART puts a start and a stop bit around each of the bytes the packet is cut into.
  The bytes are written without a test whether the transmitter is ready
  (`dmx.c:102-109`), so that bytes can be lost. The last stop bits of the packet go one
  place past the array.
* A full transmit ring looks empty to the network card: neither side goes on
  (`RingFull`). Transmit pages are never freed; `km_slice_alloc` is used without a test
  (`intel8255x.c:194`); missing receive pages leave the rings unset; both network calls
  dereference a null pointer if there is no card.
* `net_transmit` sends a fixed text, never the caller's frame, and passes the size of a
  pointer to `eth_serialize`, which then returns 0: the frame sent is empty.
* A short frame is not zero-filled, as the comment says (`ethernet.c:51`): `klibc.c` has
  `memset(buf, len, value)`, and the call passes 0 as the length, so that the padding is
  what the buffer held before.
* The IPv4 checksum is stored with its bytes exchanged (`ipv4.c:107`); the UDP checksum is
  set "in network byte order" (`udp.c:102`), but its pseudo-header is summed in host order. A word of the EEPROM that times out reads as 0xFFFF.

User programs:

* `@x` sets the static `time_to_stop`, which no shell resets: each restarted shell exits
  at once. A killed shell leaves `children` too high for its successor.
* What was typed ahead and read with a line is lost or run as a command.
* A restart that fails is not retried by init; a child of init whose `exec` fails would
  go on in init's loop.
* progI and progTUV use words of `children[]` that a failed spawn did not set. progR is
  started with sequence number 20 and never forks, although `shell.c:100` announces five
  copies. progV compares the result of `kill`, 0, with a PID. progS and dmxTest never
  end, so the shell waits for ever.

## Not modelled

Device registers that are written and never decide anything: the programming of the
interrupt controller, the timer, the UART's line parameters (and with them what is on
the DMX line), the VGA mode and palette,
the audio stream. Dumps, statistics and messages. The assembly of `isrs.S`,
`startup.S` and `boot.S`, and the host programs of the build. `list.c`, which nothing
calls; `vm.h`, which nothing implements; `kernel.c`, an old copy of `main.c` that is not
compiled. Of the VGA demonstrations, those that only call the drawing routines.
`fork`'s fix-up of the frame pointers saved on the copied stack.

## Plan

Done: the models of all components above, and the proofs for `Kernel`, `Kmem`, `Sio`,
the drivers, the keyboard, the screen, the programs on the screen and the user
programs. Left:

1. *Abstract specifications*: a process module in which a process is simply in one of
   its states, implemented by `Kernel` until the first stale entry.
2. *Composition*: `Kernel` with `Kmem` instead of a count of stacks, `Userland` on
   `Kernel`.
