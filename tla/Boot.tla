-------------------------------- MODULE Boot --------------------------------
(***************************************************************************)
(* The kernel from its entry point to the running shell: kernel_main, the  *)
(* threads it starts, the programs these run in ring 3, and the timer and  *)
(* keyboard interrupts that land on whatever is running, on one CPU.       *)
(*                                                                         *)
(* The subject is what the parts of the kernel share: the spin locks, the  *)
(* interrupt flag, the interrupt controller, the ATA ports and the statics *)
(* that hand an entry point to a thread.  Each routine is reduced to the   *)
(* sequence of steps it takes on those; what it computes is left to the    *)
(* other modules.  A call repeated many times in a row (allocate_frame for *)
(* each page, read_sector for each sector) is one.  todo[t] is what thread *)
(* t still has to do, innermost call first: an interrupt puts its handler  *)
(* in front of what the running thread was about to do.                    *)
(***************************************************************************)
EXTENDS Integers, Sequences, Functions

CONSTANTS
  ExitThreads,      \* the threads of the loop over exit_demo_thread
  IsolatedThreads,  \* ... and over isolated_exit_demo_thread
  MaxKeys           \* bound of the model: capacity of SCANCODE_QUEUE

None == "none"
Phases == <<"load_demos", "run_demos", "exit_loops", "start_shell">>  \* of kernel_main
Demos == {"open_read", "bad_pointer", "spawn_wait", "greet"}
Threads == {"boot", "shell", "command"} \union Demos
             \union Range(ExitThreads) \union Range(IsolatedThreads)

ASSUME BootAssumption ==
  /\ ExitThreads \in Seq(Range(ExitThreads))
  /\ IsolatedThreads \in Seq(Range(IsolatedThreads))
  /\ IsInjective(ExitThreads \o IsolatedThreads)
  /\ Range(ExitThreads \o IsolatedThreads) \intersect
       ({None, "boot", "shell", "command"} \union Demos \union Range(Phases)) = {}
  /\ MaxKeys \in Nat \ {0}

Locks == {"scheduler", "writer", "serial", "input", "pics",
          "heap", "frames", "offset"}

(* The locks whose holders have the interrupt flag clear by design: all    *)
(* are taken inside without_interrupts or in an interrupt handler.         *)
MaskedLocks == {"scheduler", "writer", "serial", "input", "pics"}

(* What has to be set up before it is used: the first three are an Option  *)
(* in a lock, with an expect wherever it is used.                          *)
NeedsSetup == {"scheduler", "frames", "offset", "heap", "scancodes", "executor"}

VARIABLES
  todo,       \* what each thread has still to do
  saved,      \* the interrupt flags it will go back to, innermost first
  current,    \* SchedulerState::current
  queue,      \* ready_queue
  zombie,     \* zombie
  alive,      \* the threads in the thread table
  owner,      \* who holds each lock
  ifl,        \* the interrupt flag
  inService,  \* interrupts the PICs have delivered and seen no end of
  ready,      \* what has been set up
  taskfile,   \* the sector the ATA registers describe
  drive,      \* the sector the drive is transferring
  elfEntry,   \* ELF_DEMO_ENTRY and ELF_DEMO_STACK_TOP: whose they are
  keys,       \* scancodes queued
  input       \* a command line is in INPUT_QUEUE

schedVars == <<current, queue, zombie, alive>>
devVars == <<taskfile, drive, elfEntry>>
keyVars == <<keys, input>>
vars == <<todo, saved, schedVars, owner, ifl, inService, ready, devVars, keyVars>>

-----------------------------------------------------------------------------
(* The routines.                                                           *)

Lock(l) == <<"lock", l>>
Unlock(l) == <<"unlock", l>>
Off == <<"off", None>>          \* save the interrupt flag and clear it
Restore == <<"restore", None>>  \* go back to the flag saved last

without_interrupts(body) == <<Off>> \o body \o <<Restore>>
Locked(l, body) == <<Lock(l)>> \o body \o <<Unlock(l)>>

PrintsWithInterruptsOn == Locked("writer", <<>>)

print == without_interrupts(Locked("writer", <<>>))
serial_print == without_interrupts(Locked("serial", <<>>))

(* The global allocator: an allocation or a deallocation.                  *)
heap == Locked("heap", <<>>)
allocate_frame == Locked("frames", <<>>)

(* Pushing onto the free list may make it grow.                            *)
deallocate_frame == Locked("frames", heap)
physical_memory_offset == Locked("offset", <<>>)
kernel_page_table == without_interrupts(Locked("scheduler", <<>>))

(* reap_zombie up to the point where it knows whether there is a zombie,   *)
(* and what it does with one: the stack, then the address space of a       *)
(* thread that has one of its own, then the files it left open.            *)
reap_zombie == <<Off, Lock("scheduler"), <<"take_zombie", None>>>>
Free(t) ==
  CASE t = None -> <<>>
    [] t \in Range(ExitThreads) -> heap
    [] OTHER -> heap \o physical_memory_offset \o deallocate_frame \o heap

schedule == reap_zombie \o <<Off, Lock("scheduler"), <<"switch", None>>>>
exit_current_thread ==
  reap_zombie \o <<<<"cli", None>>, Lock("scheduler"), <<"die", None>>>>

(* while thread_alive(t) { yield_now() }                                   *)
wait_while_alive(t) == <<Off, Lock("scheduler"), <<"poll", t>>>>

(* spawn and spawn_isolated_inner.                                         *)
spawn_thread(t) ==
  without_interrupts(
    heap \o (IF t \in Range(ExitThreads) THEN <<>> ELSE allocate_frame)
         \o Locked("scheduler", <<<<"spawn", t>>>>))

(* ata::read_sector: the address registers, the command, the data.         *)
read_sector(sector) ==
  <<<<"select", sector>>, <<"command", None>>, <<"transfer", sector>>>>
read_file(file) == read_sector(file) \o heap

elf_load == allocate_frame

spawn_loaded_elf_demo(t, run) ==
  elf_load \o print \o <<<<"store", t>>>> \o IF run THEN spawn_thread(t) ELSE <<>>

spawn_disk_elf_demo(t, run) == spawn_loaded_elf_demo(t, run)
spawn_elf_demo == heap \o spawn_loaded_elf_demo("test_elf", FALSE) \o heap

(* The panic handler.                                                      *)
panic == print \o serial_print \o <<<<"halt", None>>>>

-----------------------------------------------------------------------------
(* Interrupts and system calls: all come in by interrupt gates, so with    *)
(* the interrupt flag saved and cleared.                                   *)

end_of_interrupt(i) == Locked("pics", <<<<"eoi", i>>>>)

EndsInterruptLast == schedule \o end_of_interrupt("timer") \o <<Restore>>

timer_interrupt_handler == end_of_interrupt("timer") \o schedule \o <<Restore>>
keyboard_interrupt_handler ==
  kernel_page_table \o <<<<"add_scancode", None>>>>
    \o end_of_interrupt("keyboard") \o <<Restore>>

syscall(body) == <<Off>> \o body \o <<Restore>>

sys_write == syscall(physical_memory_offset \o print)
sys_open(file) ==
  syscall(physical_memory_offset \o kernel_page_table \o read_file(file)
            \o kernel_page_table)
sys_read_file == syscall(physical_memory_offset \o kernel_page_table)
sys_spawn(t) ==
  syscall(physical_memory_offset \o kernel_page_table \o read_file(t)
            \o physical_memory_offset \o elf_load \o spawn_thread(t) \o heap)

(* sys_spawn of a path that names no file, and of a file that elf::load    *)
(* refuses, giving back the address space it had begun.                    *)
sys_spawn_missing ==
  syscall(physical_memory_offset \o kernel_page_table \o read_sector("command"))
sys_spawn_refused ==
  syscall(physical_memory_offset \o kernel_page_table \o read_file("command")
            \o physical_memory_offset \o elf_load \o deallocate_frame \o heap)

sys_wait(t) == syscall(wait_while_alive(t))
sys_exit == <<Off>> \o exit_current_thread

(* sys_read_stdin up to try_pop_input_byte, and the rest of it.            *)
sys_read_stdin ==
  <<Off>> \o physical_memory_offset \o kernel_page_table
          \o <<Off, Lock("input"), <<"pop_input", None>>>>

-----------------------------------------------------------------------------
(* What the threads run.                                                   *)

PollAllocates ==
  heap \o print \o without_interrupts(Locked("input", <<<<"push_input", None>>>>))

(* One scancode that print_keypresses decodes.                             *)
poll_task ==
  print \o without_interrupts(Locked("input", <<<<"push_input", None>>>>))

thread_trampoline == kernel_page_table \o <<<<"sti", None>>>>

(* The machine code of the demos in ring 3.                                *)
build_open_read_shellcode == sys_open("hello") \o sys_read_file \o sys_write \o sys_exit
build_bad_pointer_shellcode ==
  <<Off>> \o physical_memory_offset \o print \o exit_current_thread
build_spawn_wait_shellcode ==
  sys_spawn("greet") \o sys_wait("greet") \o sys_write \o sys_exit

(* A loaded program: ring3_trampoline takes its entry point from the       *)
(* thread, run_elf_demo from the statics.                                  *)
ring3_trampoline == kernel_page_table
run_elf_demo(t) == <<<<"load", t>>>>

(* What the shell does with a line that is not empty, before its prompt:   *)
(* start the program it names and wait for it, or show that it could not.  *)
RunCommand ==
  {sys_spawn("command") \o sys_wait("command")}
    \union {failed \o sys_write : failed \in {sys_spawn_missing, sys_spawn_refused}}

exit_demo_thread == exit_current_thread

Program(t) == thread_trampoline \o
  CASE t = "open_read" -> build_open_read_shellcode
    [] t = "bad_pointer" -> build_bad_pointer_shellcode
    [] t = "spawn_wait" -> build_spawn_wait_shellcode
    [] t \in {"greet", "command"} -> ring3_trampoline \o sys_write \o sys_exit
    [] t = "shell" -> run_elf_demo(t) \o sys_write \o sys_read_stdin
    [] OTHER -> exit_demo_thread

(* A page of machine code in an address space of its own, and, for the     *)
(* three demos that run, the thread; the code's buffer is dropped last.    *)
map_shellcode_page == heap \o allocate_frame
spawn_isolated_demo == allocate_frame \o map_shellcode_page \o heap
spawn_open_read_demo ==
  allocate_frame \o map_shellcode_page \o spawn_thread("open_read") \o heap
spawn_bad_pointer_demo ==
  allocate_frame \o map_shellcode_page \o spawn_thread("bad_pointer") \o heap
spawn_spawn_wait_demo ==
  allocate_frame \o map_shellcode_page \o spawn_thread("spawn_wait") \o heap

-----------------------------------------------------------------------------
(* kernel_main.                                                            *)

init == Locked("pics", <<>>)
init_frame_allocator == <<<<"setup", "frames">>>>
set_physical_memory_offset == <<<<"setup", "offset">>>>
init_heap == allocate_frame \o <<<<"setup", "heap">>>>
init_queue == heap \o <<<<"setup", "scancodes">>>>
scheduler_init == <<<<"setup", "scheduler">>>>
enable_interrupts == <<<<"sti", None>>>>

EnablesInterruptsEarly ==
  print \o init \o init_frame_allocator \o set_physical_memory_offset \o init_heap
    \o enable_interrupts \o init_queue \o scheduler_init

(* Up to enable_interrupts.                                                *)
BringUp ==
  print \o init \o init_frame_allocator \o set_physical_memory_offset \o init_heap
    \o init_queue \o scheduler_init \o enable_interrupts

run_bringup_demo == allocate_frame \o heap \o print \o heap

LoadsWhileDemoRuns ==
  run_bringup_demo \o read_sector("boot_sector") \o print
    \o spawn_isolated_demo \o print \o spawn_open_read_demo
    \o read_file("echo") \o print \o spawn_disk_elf_demo("echo", FALSE) \o heap

(* The bring-up demo, the boot sector, and the demos that are only loaded. *)
LoadDemos ==
  run_bringup_demo \o read_sector("boot_sector") \o print
    \o spawn_isolated_demo \o print \o spawn_elf_demo
    \o read_file("echo") \o print \o spawn_disk_elf_demo("echo", FALSE) \o heap

wait_for_demo(t) == wait_while_alive(t)

RunDemos ==
  print \o spawn_open_read_demo \o wait_for_demo("open_read")
    \o spawn_bad_pointer_demo \o wait_for_demo("bad_pointer")
    \o spawn_spawn_wait_demo \o wait_for_demo("spawn_wait")

(* The two loops that create threads which exit.                           *)
Calls(args) == [i \in DOMAIN args |-> <<"call", args[i]>>]
ExitLoops == Calls(ExitThreads) \o print \o Calls(IsolatedThreads) \o print

(* The shell, and the executor, which allocates up to its first poll and   *)
(* never after.                                                            *)
StartShell ==
  read_file("shell") \o spawn_disk_elf_demo("shell", TRUE) \o heap \o print
    \o heap \o <<<<"setup", "executor">>, <<"run_executor", None>>>>

(* What a call stands for: a part of kernel_main, or, for a thread, a turn *)
(* of the loop that creates it.                                            *)
Body(p) ==
  CASE p = "load_demos" -> LoadDemos
    [] p = "run_demos" -> RunDemos
    [] p = "exit_loops" -> ExitLoops
    [] p = "start_shell" -> StartShell
    [] p \in Range(ExitThreads) -> spawn_thread(p) \o schedule
    [] p \in Range(IsolatedThreads) -> allocate_frame \o spawn_thread(p) \o schedule

kernel_main == BringUp \o Calls(Phases)

-----------------------------------------------------------------------------
(* Steps of the CPU.                                                       *)

Init ==
  /\ todo = [t \in Threads |-> IF t = "boot" THEN kernel_main ELSE <<>>]
  /\ saved = [t \in Threads |-> <<>>]
  /\ current = "boot"
  /\ queue = <<>>
  /\ zombie = None
  /\ alive = {"boot"}
  /\ owner = [l \in Locks |-> None]
  /\ ifl = FALSE
  /\ inService = {}
  /\ ready = {}
  /\ taskfile = None
  /\ drive = None
  /\ elfEntry = None
  /\ keys = 0
  /\ input = FALSE

(* The step the CPU takes next, and its operand.                           *)
Op == Head(todo[current])[1]
Arg == Head(todo[current])[2]

(* It has been taken, and code comes before whatever was to follow it.     *)
Then(code) == todo' = [todo EXCEPT ![current] = code \o Tail(@)]

(* Nothing can come between taking a lock and dropping it at once when     *)
(* interrupts are off: one step then stands for both.                      *)
Brief == ~ifl /\ todo[current][2] = Unlock(Arg)

Acquire ==
  /\ Op = "lock"
  /\ owner[Arg] = None
  /\ owner' = IF Brief THEN owner ELSE [owner EXCEPT ![Arg] = current]
  /\ todo' = [todo EXCEPT ![current] = IF Brief THEN Tail(Tail(@)) ELSE Tail(@)]
  /\ UNCHANGED <<saved, schedVars, ifl, inService, ready, devVars, keyVars>>

(* spin::Mutex::lock on a lock that is held.                               *)
Spin ==
  /\ Op = "lock"
  /\ owner[Arg] # None
  /\ UNCHANGED vars

Release ==
  /\ Op = "unlock"
  /\ owner' = [owner EXCEPT ![Arg] = None]
  /\ Then(<<>>)
  /\ UNCHANGED <<saved, schedVars, ifl, inService, ready, devVars, keyVars>>

(* sti, cli, and the two ends of without_interrupts, of an interrupt       *)
(* handler and of a system call.                                           *)
SetFlag ==
  /\ \/ /\ Op = "off"
        /\ saved' = [saved EXCEPT ![current] = <<ifl>> \o @]
        /\ ifl' = FALSE
     \/ /\ Op = "restore"
        /\ saved' = [saved EXCEPT ![current] = Tail(@)]
        /\ ifl' = Head(saved[current])
     \/ /\ Op \in {"sti", "cli"}
        /\ ifl' = (Op = "sti")
        /\ UNCHANGED saved
  /\ Then(<<>>)
  /\ UNCHANGED <<schedVars, owner, inService, ready, devVars, keyVars>>

Setup ==
  /\ Op = "setup"
  /\ ready' = ready \union {Arg}
  /\ Then(<<>>)
  /\ UNCHANGED <<saved, schedVars, owner, ifl, inService, devVars, keyVars>>

Call ==
  /\ Op = "call"
  /\ Then(Body(Arg))
  /\ UNCHANGED <<saved, schedVars, owner, ifl, inService, ready, devVars, keyVars>>

(* SCHEDULER's guard is dropped and interrupts are what they were.         *)
LeaveScheduler == <<Unlock("scheduler"), Restore>>

TakeZombie ==
  /\ Op = "take_zombie"
  /\ zombie' = None
  /\ alive' = alive \ {zombie}
  /\ Then(LeaveScheduler \o Free(zombie))
  /\ UNCHANGED <<saved, current, queue, owner, ifl, inService, ready, devVars, keyVars>>

(* thread_alive, and another turn of the loop around it if it is.          *)
Poll ==
  /\ Op = "poll"
  /\ Then(LeaveScheduler
            \o IF Arg \in alive THEN schedule \o wait_while_alive(Arg) ELSE <<>>)
  /\ UNCHANGED <<saved, schedVars, owner, ifl, inService, ready, devVars, keyVars>>

Spawn ==
  /\ Op = "spawn"
  /\ alive' = alive \union {Arg}
  /\ queue' = Append(queue, Arg)
  /\ todo' = [todo EXCEPT ![current] = Tail(@), ![Arg] = Program(Arg)]
  /\ UNCHANGED <<saved, current, zombie, owner, ifl, inService, ready, devVars, keyVars>>

(* schedule from the lock on: the guard is dropped before the switch.      *)
Switch ==
  /\ Op = "switch"
  /\ owner' = [owner EXCEPT !["scheduler"] = None]
  /\ IF queue = <<>> THEN UNCHANGED <<queue, current>>
     ELSE queue' = Append(Tail(queue), current) /\ current' = Head(queue)
  /\ Then(<<Restore>>)
  /\ UNCHANGED <<saved, zombie, alive, ifl, inService, ready, devVars, keyVars>>

FreesOwnSlot ==
  /\ Op = "die"
  /\ owner' = [owner EXCEPT !["scheduler"] = None]
  /\ alive' = alive \ {current}
  /\ zombie' = current
  /\ queue' = Tail(queue)
  /\ current' = Head(queue)
  /\ todo' = [todo EXCEPT ![current] = <<>>]
  /\ saved' = [saved EXCEPT ![current] = <<>>]
  /\ UNCHANGED <<ifl, inService, ready, devVars, keyVars>>

(* exit_current_thread from the lock on.                                   *)
Die ==
  /\ Op = "die"
  /\ owner' = [owner EXCEPT !["scheduler"] = None]
  /\ zombie' = current
  /\ queue' = Tail(queue)
  /\ current' = Head(queue)
  /\ todo' = [todo EXCEPT ![current] = <<>>]
  /\ saved' = [saved EXCEPT ![current] = <<>>]
  /\ UNCHANGED <<alive, ifl, inService, ready, devVars, keyVars>>

EndOfInterrupt ==
  /\ Op = "eoi"
  /\ inService' = inService \ {Arg}
  /\ Then(<<>>)
  /\ UNCHANGED <<saved, schedVars, owner, ifl, ready, devVars, keyVars>>

(* The ATA ports: the address registers are written, the drive starts on   *)
(* the sector they hold, and its words are read.                           *)
AtaPort ==
  /\ \/ Op = "select" /\ taskfile' = Arg /\ UNCHANGED drive
     \/ Op = "command" /\ drive' = taskfile /\ UNCHANGED taskfile
     \/ Op = "transfer" /\ UNCHANGED <<taskfile, drive>>
  /\ Then(<<>>)
  /\ UNCHANGED <<saved, schedVars, owner, ifl, inService, ready, elfEntry, keyVars>>

(* The drive stays busy, reports an error or never has the data.           *)
AtaFails ==
  /\ Op \in {"select", "transfer"}
  /\ todo' = [todo EXCEPT ![current] = panic]
  /\ UNCHANGED <<saved, schedVars, owner, ifl, inService, ready, devVars, keyVars>>

(* interrupts::disable and hlt_loop.                                       *)
Halt ==
  /\ Op = "halt"
  /\ ifl' = FALSE
  /\ UNCHANGED <<todo, saved, schedVars, owner, inService, ready, devVars, keyVars>>

(* The statics are written by spawn_loaded_elf_demo, read by run_elf_demo. *)
ElfStatics ==
  /\ \/ Op = "store" /\ elfEntry' = Arg
     \/ Op = "load" /\ UNCHANGED elfEntry
  /\ Then(<<>>)
  /\ UNCHANGED <<saved, schedVars, owner, ifl, inService, ready, taskfile, drive, keyVars>>

(* add_scancode, which prints a warning when the queue is full.            *)
AddScancode ==
  /\ Op = "add_scancode"
  /\ keys' = IF keys < MaxKeys THEN keys + 1 ELSE keys
  /\ Then(IF keys < MaxKeys THEN <<>> ELSE print)
  /\ UNCHANGED <<saved, schedVars, owner, ifl, inService, ready, devVars, input>>

(* Executor::run: decode what is queued, over and over.                    *)
RunExecutor ==
  /\ Op = "run_executor"
  /\ keys > 0
  /\ keys' = keys - 1
  /\ todo' = [todo EXCEPT ![current] = poll_task \o @]
  /\ UNCHANGED <<saved, schedVars, owner, ifl, inService, ready, devVars, input>>

PushInput ==
  /\ Op = "push_input"
  /\ input' = TRUE
  /\ Then(<<>>)
  /\ UNCHANGED <<saved, schedVars, owner, ifl, inService, ready, devVars, keys>>

(* try_pop_input_byte and the end of sys_read; with a line read, the shell *)
(* runs a command, and then, or without one, reads again.                  *)
PopInput ==
  /\ Op = "pop_input"
  /\ input' = FALSE
  /\ \E reply \in IF input THEN {code \o sys_write : code \in RunCommand} ELSE {<<>>} :
       Then(<<Unlock("input"), Restore, Restore>> \o reply \o sys_read_stdin)
  /\ UNCHANGED <<saved, schedVars, owner, ifl, inService, ready, devVars, keys>>

CpuStep ==
  \/ Acquire \/ Spin \/ Release \/ SetFlag \/ Setup \/ Call
  \/ TakeZombie \/ Poll \/ Spawn \/ Switch \/ Die
  \/ EndOfInterrupt \/ AtaPort \/ AtaFails \/ Halt \/ ElfStatics
  \/ AddScancode \/ RunExecutor \/ PushInput \/ PopInput

(* An interrupt: the PIC delivers one only when neither it nor one of a    *)
(* higher priority (the timer's is the highest) is in service.             *)
Interrupt(i, handler) ==
  /\ ifl
  /\ inService \intersect {i, "timer"} = {}
  /\ inService' = inService \union {i}
  /\ ifl' = FALSE
  /\ saved' = [saved EXCEPT ![current] = <<TRUE>> \o @]
  /\ todo' = [todo EXCEPT ![current] = handler \o @]
  /\ UNCHANGED <<schedVars, owner, ready, devVars, keyVars>>

Timer == Interrupt("timer", timer_interrupt_handler)
Keyboard == Interrupt("keyboard", keyboard_interrupt_handler)

Next == CpuStep \/ Timer \/ Keyboard

Spec == Init /\ [][Next]_vars

(* The CPU never stops, the timer interrupts whoever has interrupts on,    *)
(* and interrupts do not come so thick that the code between them is never *)
(* reached: a thread that keeps returning to it gets a step in.            *)
FairSpec ==
  /\ Spec
  /\ WF_vars(CpuStep)
  /\ SF_vars(Timer)
  /\ \A t \in Threads : SF_vars(CpuStep /\ ifl /\ current = t)

-----------------------------------------------------------------------------
(* Properties.                                                             *)

Interrupts == {"timer", "keyboard"}
Sectors == {"boot_sector", "hello", "echo", "greet", "command", "shell"}
Operands ==
  {None, "test_elf"} \union Threads \union Locks \union NeedsSetup
    \union Interrupts \union Sectors \union Range(Phases)

(* The type invariant: in particular the running thread, the queued ones,  *)
(* the zombie and whoever holds a lock are in the thread table.            *)
TypeOK ==
  /\ \A t \in Threads : todo[t] # <<>> => Head(todo[t])[2] \in Operands
  /\ \A t \in Threads : saved[t] \in Seq(BOOLEAN)
  /\ {current} \union Range(queue) \union ({zombie} \ {None}) \subseteq alive
  /\ \A l \in Locks : owner[l] \in alive \union {None}
  /\ inService \subseteq Interrupts
  /\ ready \subseteq NeedsSetup
  /\ keys \in 0 .. MaxKeys
  /\ {ifl, input} \subseteq BOOLEAN

(* A lock that every user takes with interrupts off is held only by the    *)
(* thread that runs, with interrupts off, and by no two routines of it:    *)
(* neither another thread nor a handler finds it taken, so println in an   *)
(* interrupt handler or the scheduler's own lock cannot hang the kernel.   *)
MaskedLocksUncontended ==
  \A l \in MaskedLocks :
    /\ owner[l] # None => owner[l] = current /\ ~ifl
    /\ todo[current] # <<>> /\ Head(todo[current]) = Lock(l) => owner[l] = None

(* The CPU spins on a lock with interrupts off: nothing can ever run, the  *)
(* holder of the lock included.                                            *)
Hung == Op = "lock" /\ owner[Arg] # None /\ ~ifl

(* Once kernel_main has set up the executor and the threads of its loops,  *)
(* which reap with interrupts on, are gone, no lock is waited for with     *)
(* interrupts off: the executor allocates nothing any more, and what else  *)
(* takes the locks of the heap and of the frame allocator (system calls,   *)
(* and the reaping inside them and in the timer interrupt) is masked.      *)
NoHangOnceUp ==
  /\ "executor" \in ready
  /\ alive \intersect Range(ExitThreads \o IsolatedThreads) = {}
  => ~Hung

(* What a thread has left outside itself is still its own when it comes    *)
(* back for it.  The drive answers each reader with the sector that reader *)
(* asked for: nobody else has touched the ports between the address        *)
(* registers and the last word of data ("exclusive access to the ATA I/O   *)
(* ports").  And a thread that starts a loaded program finds that          *)
(* program's entry point and stack in the statics.                         *)
HandedOverIntact ==
  \A t \in alive : todo[t] # <<>> =>
    /\ Head(todo[t])[1] = "transfer" => drive = Head(todo[t])[2]
    /\ Head(todo[t])[1] = "load" => elfEntry = t

(* Interrupts may come whenever they are on.  Nothing is used before it    *)
(* has been set up, by a handler or by a thread: no expect("... never      *)
(* called") or uninitialised queue.  And the PIC can deliver the timer's:  *)
(* no thread is ever resumed, or left running, with its end of interrupt   *)
(* outstanding.                                                            *)
InterruptsReady ==
  /\ Op = "lock" /\ Arg \in NeedsSetup => Arg \in ready
  /\ Op = "add_scancode" => "scancodes" \in ready
  /\ Op = "run_executor" => "executor" \in ready
  /\ ifl => "timer" \notin inService

(* The CPU will run nothing more: it hangs, or a panic has halted it.      *)
Stopped == Hung \/ Op = "halt"

(* The shell is about to show that it could not run what a line names.     *)
ShowsFailure ==
  LET rest == sys_write \o sys_write \o sys_read_stdin
  IN  Len(rest) <= Len(todo["shell"]) /\ SubSeq(todo["shell"], 1, Len(rest)) = rest

(* kernel_main gets to its last line: each wait_for_demo comes to an end.  *)
(* A key pressed is decoded, the line it ends is read by the shell, though *)
(* the shell polls for input without ever yielding, and the command it     *)
(* names is started, or the shell says that it was not.  A command that    *)
(* was started comes to an end and is reaped.                              *)
KeyRunsCommand ==
  /\ <>("executor" \in ready \/ Stopped)
  /\ keys > 0 ~> ("command" \in alive \/ ShowsFailure \/ Stopped)
  /\ "command" \in alive ~> ("command" \notin alive \/ Stopped)

(* The CPU is in the part of reap_zombie that frees the thread it took,    *)
(* on behalf of a scheduling decision.                                     *)
Reaping ==
  \E t \in Threads : \E k \in 1 .. Len(Free(t)) :
    LET rest == SubSeq(Free(t), k, Len(Free(t)))
                  \o <<Off, Lock("scheduler"), <<"switch", None>>>>
    IN  Len(rest) <= Len(todo[current]) /\ SubSeq(todo[current], 1, Len(rest)) = rest

(* The comment in spawn: "holding the global allocator's own lock with     *)
(* interrupts enabled would risk the timer ISR's scheduling code trying to *)
(* lock it too".  No scheduling decision taken with interrupts off, the    *)
(* timer's above all, waits for a lock when it frees a dead thread.        *)
ReapNeverHangs == ~(Hung /\ Reaping)
=============================================================================
