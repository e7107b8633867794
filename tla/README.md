# Velora OS: TLA+ models, checks and proofs

Velora OS is a single-core x86-64 kernel written in Rust (`src/src/`), with a small
user-space (`src/disk/`). This directory holds TLA+ models of it, TLC
configurations that check them on small instances, and TLAPS proofs of the
properties that matter most, for every value of the constants.

## 1. The system

| Part | Source | State | Operations |
|---|---|---|---|
| Scheduler | `scheduler/mod.rs`, `scheduler/context.rs`, `gdt.rs` | thread table, ready queue, current thread, zombie, slot generations; CR3, RSP0 and the interrupt flag | `init`, `spawn*`, `yield_now`/`tick`/`schedule`, `exit_current_thread`, `kill_current_thread`, `reap_zombie`, `thread_alive`, the trampolines |
| Ring buffers | `scheduler/mod.rs` (`ReadyQueue`), `task/keyboard.rs` (`InputQueue`) | array, head, length | push, pop |
| Interrupts | `interrupts.rs`, `lib.rs` | the IDT | timer, keyboard, exceptions |
| Physical frames and address spaces | `memory.rs` | cursor over the usable regions, free list; page tables | `allocate_frame`, `deallocate_frame`, `new_address_space`, `free_address_space`, translation, range checks |
| System calls | `syscall.rs`, descriptor part of `scheduler/mod.rs` | per-thread descriptor table, the input queue | write, exit, read, open, close, spawn, wait |
| Async executor and keyboard | `task/*.rs` | ready queue, task map, scancode queue, waker, input queue | spawn, poll, wake, sleep; the keyboard ISR |
| ELF loader | `elf.rs` | pages mapped in a new space | `load` |
| FAT16 reader | `fs.rs` | none (reads sectors) | `read_file` |
| ATA driver | `ata.rs` | device registers | `read_sector` |
| Kernel heap | `allocator.rs` | the external `LockedHeap` | `init_heap`, alloc, dealloc |
| Consoles | `vga_buffer.rs`, `serial.rs` | screen cells, column | `write_byte`, `new_line` |
| Boot and demos | `main.rs`, `userspace.rs` | none of its own | the boot sequence, ring-3 demos |
| Shell | `disk/shell.s` | line buffer, history ring | line editor, spawn and wait |

How they interact: the timer interrupt calls the scheduler on whatever thread is
running; the scheduler frees dead threads through the heap and through
`free_address_space`; system calls enter with interrupts off and reach the scheduler,
the file system and the ELF loader; the keyboard interrupt feeds the scancode queue,
the executor (which is the boot thread) decodes it into the input queue, and the
shell takes it out with the read system call.

What makes it hard: preemption at any instruction of ring-0 code that runs with
interrupts on; interrupt handlers that run under any thread's address space, most of
which do not map the kernel heap; resources freed by somebody other than their
owner, later; slots and pids that are reused; wake-ups that race the decision to
sleep; fixed-size tables and queues at their limit.

## 2. Overview

| | Modules | Question | Proofs |
|---|---|---|---|
| 1 | `Scheduler` | rotation, zombies, pids, memory and CPU state under preemption | `SchedulerProofs`: every safety property |
| 2 | `RingBuffer`, `Fifo` | do the two hand-written buffers implement a queue | in `TerminalProofs` |
| 3 | `Keyboard` | lost wakeups and lost bytes between ISR, executor and reader | `KeyboardProofs`: every safety property |
| 4 | `Terminal` (on `RingBuffer`) | from a key to the shell's line, its history and the screen | `TerminalProofs`: every property |
| 5 | `Elf`, `Frames` | what a file's headers make the loader map; one owner per frame | `FramesProofs`, `FramesOwnershipProofs`: all but the image of a file |
| 6 | `Syscalls` | input and file contents under bad pointers, kills, slot reuse | `SyscallsProofs`: every property |
| 7 | `Fat16` | what `read_file` returns and reads on well-formed and damaged volumes | `Fat16Proofs`: every safety property |
| 8 | `Boot` | the whole kernel from its entry point: locks, interrupts, ports, order of initialisation | `BootProofs`: every safety property |

Each is also model-checked (section 4). Of the properties that hold, only the liveness ones
and `ImageIsTheFiles` are checked by TLC alone.

## 3. The modules

**`Scheduler`.** One kernel with `MAX_THREADS` slots. `kind`, `generation`, `queue`,
`current` and `zombie` are the fields of `SchedulerState`; `cr3`, `rsp0` and the interrupt
flag are the CPU's; `stacks` and `spaces` are the memory that is allocated. What runs with
interrupts off is one step (`Tick`, `SysExit`, `Spawn`, the locked part of `schedule`).
What ring-0 code does with interrupts on is several, with a `Tick` possible between any
two: a call of `yield_now` or `exit_current_thread` goes through `ReapTake`, `ReapForce`,
`ReapFree` and `ReapFreeSpace` (the parts of `reap_zombie`: the locked one, the write of CR3,
the stack, the address space) before `Yield` or `Exit`. `SpawnKinds`
says what is spawned and `ExitKinds` which ring-0 threads end by calling
`exit_current_thread` themselves, rather than through `SYS_EXIT` or a kill.

**`RingBuffer`, `Fifo`.** `ReadyQueue` and `InputQueue` are the same array, head and
length; `Fifo` says what they promise. The mapping reads `len` places from `head` on.

**`Keyboard`.** The interrupt handler is a step; the executor's loop is cut wherever an
interrupt can come: pop of the ready queue, first look at the scancode queue, the two
halves of `AtomicWaker::register` (a library, modelled from its use and contract), second
look, each byte queued, the idle check with its `hlt`. `Decode` gives the bytes of a key.

**`Terminal`.** The executor's task (`Decode` echoes a key, `push_input_byte` puts
its bytes into the input queue one by one) and the shell (read a byte, edit, recall, redraw) as two threads
that may be preempted between any two steps and share the queue and the screen. It extends
`RingBuffer`, whose variables are `INPUT_QUEUE`. The history variables `submitted`, `garbled`
and `inStep` only serve the properties. A control character, a letter and the punctuation of
escape sequences are values of one set; `Glyph` is what `write_string` shows for one.

**`Elf`, `Frames`.** `Elf` is `elf::load` as a pure algorithm on the program headers: the
checked sums, the sign extension of `VirtAddr::try_new`, the pages of each segment in order,
what is copied into each, the stack above the highest. `Frames` carries such a plan out one frame at a time. There a path of table
indices names a page-table entry, and `tree[s]` gives its frame. Each `allocate_frame` and
`deallocate_frame` is a step, so that building and freeing of different spaces interleave
where the kernel's do: a build in a system call runs to its end (`MayStep`), one of the boot
thread's can be cut anywhere outside `spawn_isolated_inner`. Entries 0 and `OffsetIndex` of a
new space are clones, and what is mapped below them goes to the kernel's tables. `BootPages`
are the pages the bootloader has mapped, huge ones included, on which `map_to` fails. The walk of
`free_table` takes, each time, the next entry in the order the recursion comes to it.
`map_to` and the heap's allocator are libraries.

**`Syscalls`.** One step per call, since a call runs with interrupts off throughout.
Buffers are pointer and length over small pages with access rights, in an address space with a
canonical boundary, where `VirtAddr::try_new` extends the sign and the sum of address and
length may overflow. The input queue is bounded and drops a byte when it is full. `got` and
`delivered` record what programs received, `accepted` what the queue took.

**`Fat16`.** `read_file` one directory slot, data sector or FAT look-up at a time; the bytes
read carry the address they were read from. The directory is searched over its whole sectors,
the slack slots of the last included. A directory entry and the FAT hold any 16-bit words, and
the reader follows every one that is no end mark: to a cluster beyond the volume that the drive
still has, whose own word then comes from what follows the FAT, or to one the drive has not,
at which `ata::read_sector` panics. The allocation of the buffer fails for a size above `HeapFree`.

**`Boot`.** The composition: every routine reduced to the locks it takes and drops, the
interrupt flag, the ports, the statics and the scheduler's decisions, in the code's order.
`todo[t]` is what thread `t` has still to do; an interrupt puts its handler in front of what
the running thread was about to do. `kernel_main`, the demos, the loops of exiting threads, the
shell, a command and both interrupts are programs of this kind. What a routine computes is
left to the other modules. `kernel_main` is `BringUp` and a list of calls, one for each of its
parts and for each turn of its two loops; a call is replaced by the code it stands for when it
is reached, so that the model fits any number of turns. Repeated calls (a frame per page, a sector after another) are one.
CR3 is left to `Scheduler`. The disk holds the files `build.rs` writes, so the boot's branches
for a missing one are left out; a drive that fails is not. What is typed to the shell is any
line: `RunCommand` has the program that starts and is waited for, the path that names no file
and the file that `elf::load` refuses.

Names of definitions are the source's where TLA+ allows. A definition that no action uses
and that stands just before another one of the same parameters is a variant of it with a
plausible mistake in it; replacing the one by the other makes the property named in
`PROJECT.json` fail, which shows that the property depends on that code.

## 4. What the runs check

| Run | Properties | Result |
|---|---|---|
| `scheduler_syscall_exits` | the rotation holds distinct live threads; assertions cannot fire; at most the one pending zombie; stacks and spaces are exactly those of existing threads; panic only with a full table; a dead pid stays dead; ready threads run, zombies are reaped, waits end | hold |
| `scheduler_kernel_exits` | every kind of thread, with ring-0 threads that exit with interrupts on: stacks and spaces as above; CR3, RSP0 and the interrupt flag are the current thread's. That the rotation is sound here too is proved, not checked | hold |
| `scheduler_zombie_overwrite` | at most one pending zombie, ring-0 exits included | **violated** |
| `scheduler_reap_under_own_table` | the heap is mapped when `reap_zombie` frees | **violated** |
| `keyboard` | no lost wakeup; bytes once and in order; everything accepted is read | hold |
| `terminal` | the input queue implements `Fifo`; unless the queue overflowed, no byte of a key's sequence gets into a line; Up and Down walk the last lines entered in order, though the ring wraps; once both threads are idle the screen shows the line | hold |
| `frames` | one holder per frame, a space's own frames all go back, no freed table read, stacks mapped; what a loaded space maps is what the file says, with the stack above; the two causes of a panic: no frame left, and a file's page that is mapped already; the kernel's tables are kept | hold |
| `frames_refused_file` | no file makes the loader panic on a page that is mapped already | **violated** |
| `syscalls` | input and files delivered once and in order, descriptors never redirected, no kernel fault on a program's buffer | hold |
| `fat16` | returns the file, finds it; reads beyond its areas only by a link that is no cluster of the volume; panics only on such links, reserved clusters, a volume larger than its drive, a size too large for the heap, or a failing drive; terminates | hold |
| `boot` | locks used with interrupts off are never contended; nothing hangs once the kernel is up; a reader gets the sector it asked for; a program starts at its own entry; the timer stays deliverable; nothing is used before it is set up; boot comes to its end, and a key reaches the shell and its command runs and ends, or a message says that it could not (or the kernel has stopped) | hold |
| `boot_deadlock` | a scheduling decision never waits for a lock with interrupts off | **violated** |

The four violated ones state what a comment in the code says; `PROJECT.json` quotes each.

1. *Zombie overwritten.* `exit_current_thread` reaps before it disables interrupts. Between
   the two, a tick runs another thread that exits too; its zombie entry is then
   overwritten, and its slot and stack are lost. System-call exits run with interrupts off
   and are not affected (`scheduler_syscall_exits`).
2. *CR3 forced, then preempted.* An isolated ring-0 thread that exits with interrupts on
   can be preempted after `reap_zombie` loaded the kernel's table. It is resumed under its
   own, and the deallocation that follows faults.
3. *The heap's lock.* The boot thread frees memory with interrupts on, on its return from
   spawning a demo that is already in the rotation. A tick before that lets the demo run and
   exit, which leaves it to be reaped. The boot thread then takes the heap's lock, and the next
   tick lands inside the deallocation: it reaps the demo and waits for the lock that its own
   thread holds. (A demo that runs while the lock is held, and allocates in a system call, waits
   for it in the same way.)
   `NoHangOnceUp` says that this ends with the boot sequence: from the executor's start, and
   the last of the ring-0 threads, every user of these locks has interrupts off.

4. *A file that is refused.* `load` returns `None` for a file whose entry point is no address
   and frees the address space, but a page that the file has below a shared top-level entry was
   mapped in the kernel's tables and is not given back (`elf.rs` line 105: "freed back ... rather
   than leaked"). Loading the file again finds the page mapped, and the `expect` on `map_to`
   panics (line 91: "Returns `None` — never panics"). `link.ld` keeps the kernel's own programs
   away from there.

The `frames` run contains more files on which the comments of `elf.rs` and the code disagree:
two segments on one page, a page of the heap or of the bootloader, and a segment that starts
below the canonical boundary and ends above it. For the last `try_new` extends the sign of the
last byte's address, the loop has pages for all that lies between, and the frames run out
(lines 229-231: "`None` — not a panic"). `PanicCauses` says what panics there are, not that
there should be any; `OneHolder` counts a page left below a shared entry as the kernel's.

## 5. Bounds

- Scheduler: three slots used up to twice each, so that a pid outlives its thread
  and its slot is reused; four slots used once where ring-0 exits multiply the steps: boot
  thread, two that exit and one more to run between them. `MaxGeneration` bounds reuse.
- Terminal: an input queue of three bytes, so that a sequence of three or four overflows it
  with one or more bytes left; lines of two, a history of two, a row of five (prompt, line
  and one). `MaxKeys = 8` keys let the history wrap and be walked; the first `MaxRushed = 4`
  come at any time, the later ones to an idle shell that has missed nothing. The theorems
  cover every line, history and row, and every capacity but for the screen (section 7).
- Keyboard: queues of two, two and four entries and up to four keys fill every queue, with
  a key of no byte, one byte and three. `MaxKeys` and `MaxRead` are the bounds.
- Frames: twelve usable frames in three regions with reserved and empty ones between them,
  three levels of tables of eight entries (the walk treats all levels above the last alike),
  pages of two bytes, words of 2048. Seventeen files reach every check of the loader: segments
  that end inside a page, out of order, unaligned, twice on a page, on a page of the heap or the
  bootloader, in a huge page, outside the file, across the canonical boundary, or wrapping
  around, and stacks with no address, no room, or on a low page.
  Two spaces (interchangeable, hence the symmetry) that do not both fit at their largest.
  `MaxLoads` bounds the number of spaces made.
- Syscalls: two threads, two descriptors each, two files (one of them empty)
  and a missing one, a queue of two bytes for three keys, and seven buffers: null, good, running
  into a read-only page, too long, across the end of the lower half, in the part that is sign
  extended, and past the end of the address space.
- Fat16: two clusters, of one or two sectors each, with room for one or two more on the drive.
  Each word is one of seven: a reserved cluster, the two of the volume, one beyond them on the
  drive, one beyond the drive, the mark of a bad cluster and an end mark; every combination of
  them is in the FAT, and each is tried as first cluster. A directory of three entries has a
  slack slot. Sizes on and off sector and cluster boundaries, beyond the chain and beyond the
  heap. `sectors_per_cluster` is at least 1; the parser does not check that.

- Boot: all four demos, the shell and a command; `MaxKeys = 1`. `boot` leaves the two loops of
  exiting ring-0 threads out: checking liveness under strong fairness takes twelve minutes
  with one such thread (97,055 states, no error). The theorems of `BootProofs` cover them for safety, in any number. `boot_deadlock` has two
  threads of the first loop and one of the second.

## 6. Fairness

- `Scheduler`: weak fairness of `Tick` (the timer is periodic), and strong fairness of each
  ring-0 thread's own steps: a thread that gets the CPU again and again makes progress,
  since a time slice is many instructions long. A ring-3 thread is assumed to do nothing.
- `Keyboard`: weak fairness of the executor (the boot thread is scheduled, by
  `NoStarvation`), of the timer interrupt that ends a `hlt`, and of a program that reads.
- `Fat16`: the reader runs.
- `Boot`: weak fairness of the CPU, which always executes something; strong fairness of the
  timer, which is periodic and pending until interrupts are on; and, for each thread, strong
  fairness of its steps with interrupts on: interrupts do not come so thick that the code
  between them is never reached. Without the last, a tick after every instruction would be a
  behaviour.

`CHECK_DEADLOCK FALSE` is used for `Syscalls` only: all programs may have ended.

## 7. Proofs

Every theorem holds for all values of the constants that satisfy the assumptions of its
module: table, queue, line, history and screen sizes, numbers of levels, entries, threads
and descriptors, memory maps, volumes, sets of files, and the bounds on keys, reads and
generations. The assumptions are named in the modules, TLC evaluates them on every run, and
the code's constants satisfy them; those that are not merely types are listed at the end.
Every proof has the same plan: an inductive invariant,
one lemma per action that the action preserves it, and a short theorem per property.
`tlapm M.tla` checks module `M`. A step that cites `Zenon` is first-order reasoning; the others
need arithmetic, records or sequences and go to the SMT solver.

**`SchedulerProofs`.** `RotationInv` is not inductive: that an exiting thread finds a
successor, and that the queue has a place for the thread put back, need the boot thread to be
always current or queued. `IInv` adds `BootStays` (the boot thread is in the rotation and
does not exit) and `Populated` (an occupied slot has a generation from 1 on, which makes its
pid well typed). That the queue cannot be full is a counting argument (`QueueHasRoom`): it
holds distinct slots other than the current one. On top of `IInv` stand the others: `MemInv`
for `MemoryAccounted` (what `reap_zombie` has taken out of the table is taken once, by one
caller, and is out of the rotation; between its two frees the stack is gone and the space is not), `CpuInv` for `CpuStateIsCurrents` (a queued thread's
saved flag is the one its place in the code needs), `ExitInv` and `PanicInv`.
`AtMostOneZombie` and `PanicsAreDue` assume `ExitKinds = {}`, as the runs
that check them do: with ring-0 exits both are false, which two of the violated runs show.
`PanicsAreDue` also excludes isolated ring-0 threads, for the reason given in section 4.

**`TerminalProofs`** begins with the ring buffer by itself: the indices stay in the array, and
it implements `Fifo`. The step simulation compares the sequences before and after place by
place; its core is that adding modulo the capacity is injective on fewer than `Capacity`
places. `InputIsFifo` says the same of the terminal, by showing that each of its steps is a
step of the ring buffer or none. `TypeInv` carries `TermTypeOK`; `HistoryInv` relates the ring
of the history to all lines ever entered: the k-th slot back from `history_next` holds the
k-th last line. `ParseInv` says that the bytes in the queue, followed by those still to be
pushed, are ones the escape parser gets through from where it is without taking a byte of a
sequence for a character. `StepInv` lists the phases between two keys: which bytes are under
way, and what the row shows of the line meanwhile. `ScreenIsTheLine` assumes a queue of at
least four bytes, the longest sequence of a key; the code's has 128. (The run has three, and so
also covers a page key whose last byte is dropped.)

**`KeyboardProofs`.** `WakeInv` ties the waker's state to the executor's: it is registering
exactly while the executor is inside `register`, only then can an interrupt leave the waking to
it, and a task that has registered is still to be woken or already queued. `ByteInv` says that
the bytes received, queued, being emitted and of the scancodes still to be decoded, in this order,
are the bytes of the accepted scancodes. It needs that flattening distributes over
concatenation, which is proved by induction on the length.

**`FramesProofs`, `FramesOwnershipProofs`.** `Shape` says that the tables above every entry are
there, that what a space has left to do is not done yet, that pages mapped were asked for, that
a stack's pages are mapped on the kernel's frames, and that no two threads share one. It
gives every property but `OneHolder`. Its hardest steps are the writing of an entry, which can
land in the kernel's tables, and `free_table`'s choice of the next entry: that the order of the
walk has a first element is proved from a lexicographic order on padded paths, and that the
first one has nothing below it makes the walk safe. `Exclusive` says that no two places hold the
same frame, that no held frame is at or above the cursor, and that every usable frame is
held or above it; every step either moves one frame from one place to another or moves none
(`Moves`, `Allocated`, `Freed`). The two modules are one proof, split for its length.

**`SyscallsProofs`.** `InputInv` and `FileInv` say that what was delivered followed by what is
queued is everything the queue accepted, and that what an open file has delivered is the beginning of its
contents, as long as its offset. `CallsNeverFault` rests on a lemma on ranges: if every page from
the first byte's to the last byte's is accessible, every byte of a copy no longer than the range
is. An accessible page is in the lower half, so a pointer whose sign was extended, and which the
copy then uses as it was given, never passes the check.

**`Fat16Proofs`.** The chain that the properties speak of is a recursive function over the FAT;
the invariant says which link the reader is at and that the bytes taken so far are the first of
the chain's. `FileReturned` then counts: the places of the readable bytes are in bijection
with an interval. The FAT may hold any words, so that cycles and links out of the volume are
covered, and so is every directory, slack slots included.

**`BootProofs`.** A program of `Boot` is a sequence of steps, and the proof is a check of that
code, as of a typed program. A *view* is what a thread may count on: its interrupt flag and
the saved ones, the locks it holds, the interrupts it has to end, what is set up, which of
its threads may be alive, how far it is with a sector. `Step` says what each kind of step
requires of a view and makes of it; `Runs(c, v, w)` that code `c` takes view `v` to `w`. Every
routine is checked once, whatever it is called from. The invariant says that what each thread in
the rotation has left to do runs from a view that fits the state (`Fits`). A thread that may be
interrupted has an `Open` view: it holds no lock that it takes masked, has ended its interrupts, and
uses the drive only while no other user of it is alive. The
proof holds for any number of threads in the two loops; the code has 40 and 20.

Assumptions that are not just types: `MAX_THREADS` from 2 to 256 (a slot is a byte of the pid);
regions in order and apart, as `skip_to_next_usable_region` needs, with the bootloader's tables
outside the usable ones; the heap below neither shared top-level entry and, like the
bootloader's tables, in none of its pages; the pages a program may use in the lower half, as
`map_segment` ensures; the pages of a demo distinct; a row wide enough for prompt and
line; at least one sector per cluster, a FAT with room for its entries, and fewer clusters
than the number that marks a bad one; threads with distinct names.

What TLC alone shows, and why: the liveness properties (`NoStarvation`, `ExitsAreNoticed`,
`EverythingRead`, `Terminates`, `KeyRunsCommand`), since fairness and `ENABLED` are beyond the proof
system; and `ImageIsTheFiles`, which would need the loader's recursion over segments and over
the bytes of a page unfolded in step with the mapping of its pages; that a file's plan
consists of pages is proved, what each page contains is not. The library's induction theorems
take an operator as a parameter and cannot be used here; where recursion had to be reasoned about,
the proofs use induction on a set of naturals (`InductionOnNat`).

## 8. Not modelled

- Code that only computes constants or prints: the shellcode builders, the boot self-checks
  and their translation functions, the IDT and GDT contents, the exception handlers other
  than as the end of the kernel, colours and the rows above the last.
- Register contents and the assembly entry paths. What they have to preserve is a matter of
  single instructions, not of states these models have.
- The bytes of file headers, directory names (8.3) and the parameter block: the fields are
  read at fixed offsets. The models start from the values. A volume with zero sectors per
  cluster is therefore left out; `parse` does not check for it.
- In `Terminal`, Tab and Delete, and a program that reads the keyboard while the shell waits for it.
- `wait` on a thread's own pid, for which the code defines no result.
- The heap's allocator, `map_to` and `AtomicWaker` are libraries, modelled by their contract.
- `echo.s`, `greet.s`, the shell's splitting of a line into words, and the build script.

The kernel runs on one CPU; nothing here says anything about several.
