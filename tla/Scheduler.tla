----------------------------- MODULE Scheduler -----------------------------
(***************************************************************************)
(* The preemptive thread scheduler of the kernel (scheduler/mod.rs), on    *)
(* one CPU, at the granularity at which an interrupt can be taken.         *)
(*                                                                         *)
(* Code that runs with the interrupt flag clear is one step: nothing can   *)
(* come between its instructions.  That covers the timer interrupt handler *)
(* and every system call, both of which enter through interrupt gates.     *)
(* Kernel-mode threads call yield_now and exit_current_thread with the     *)
(* flag set, so for them each stretch between two points where a timer     *)
(* interrupt can land is a step of its own.                                *)
(*                                                                         *)
(* A thread is named by its slot in the thread table; its stack, its       *)
(* address space and its pid are all identified by the pid.                *)
(***************************************************************************)
EXTENDS Integers, Sequences, Functions

CONSTANTS
  MAX_THREADS,    \* slots in the thread table, the boot thread's included
  MaxGeneration,  \* bound of the model: how often one slot is populated
  SpawnKinds,     \* the kinds of threads the boot thread creates
  ExitKinds       \* the kinds whose body calls exit_current_thread itself

(* A kernel thread shares the kernel's address space, an isolated one has  *)
(* its own but stays in ring 0, and a user thread drops to ring 3 in its   *)
(* own and reaches the kernel only by system call.                         *)
Kinds == {"kernel", "isolated", "user"}

ASSUME SchedulerAssumption ==
  /\ MAX_THREADS \in 2 .. 256
  /\ MaxGeneration \in Nat \ {0}
  /\ SpawnKinds \subseteq Kinds
  /\ ExitKinds \subseteq {"kernel", "isolated"}

VARIABLES
  kind,        \* threads[i]: "none" for None, else what the thread is
  generation,  \* slot_generations
  queue,       \* ready_queue, as the sequence of ids it holds
  current,     \* current
  zombie,      \* zombie
  pc,          \* where the thread in each slot is, or will resume
  op,          \* which of schedule and exit_current_thread it is inside
  resumeIF,    \* the interrupt flag it will have once it is switched to
               \* (FALSE while it runs)
  reaped,      \* the Thread reap_zombie took out of the table, as a pid
  waitFor,     \* the pid a wait loop polls
  iflag,       \* the CPU's interrupt flag
  cr3,         \* the CPU's CR3: KernelTable or an isolated thread's pid
  rsp0,        \* the TSS's RSP0: whose kernel stack top it holds
  stacks,      \* kernel stacks not yet returned to the heap
  spaces,      \* isolated address spaces not yet freed
  panicked     \* the kernel has panicked and halted

tableVars == <<kind, generation, queue, current, zombie>>
localVars == <<pc, op, resumeIF, reaped, waitFor>>
cpuVars   == <<iflag, cr3, rsp0>>
memVars   == <<stacks, spaces>>
vars      == <<tableVars, localVars, cpuVars, memVars, panicked>>

Slots       == 0 .. MAX_THREADS - 1
Boot        == 0
NoThread    == -1
NoPid       == 0
KernelTable == 0

pack_pid(slot, gen) == gen * 256 + slot
unpack_pid(pid) == [slot |-> pid % 256, generation |-> pid \div 256]

Pid(s) == pack_pid(s, generation[s])
Pids == {pack_pid(s, g) : s \in Slots, g \in 1 .. MaxGeneration}
IssuedPids == UNION {{pack_pid(s, g) : g \in 1 .. generation[s]} : s \in Slots}

(* Definitions named after a defect (ForgetsX, ...) are variants that the   *)
(* specification does not use: each is what the definition after it would  *)
(* be with a plausible bug, and breaks a property below.                   *)

AliveIgnoresGeneration(pid) == kind[unpack_pid(pid).slot] # "none"

(* thread_alive: the slot is occupied, and by the thread the pid was       *)
(* issued for.                                                             *)
thread_alive(pid) ==
  LET u == unpack_pid(pid)
  IN  /\ u.slot < MAX_THREADS
      /\ kind[u.slot] # "none"
      /\ generation[u.slot] = u.generation

(* Thread::page_table, with None read as the kernel's own table, and       *)
(* Thread::kernel_stack_top, 0 for the boot thread.                        *)
page_table(s) == IF kind[s] = "kernel" THEN KernelTable ELSE Pid(s)
kernel_stack_top(s) == IF s = Boot THEN NoPid ELSE Pid(s)

(* The slots holding None, the first of them, and the pid that a thread    *)
(* put there is issued: its generation is bumped first.                    *)
MissesLastSlot == {s \in Slots : kind[s] = "none" /\ s < MAX_THREADS - 1}

FreeSlots == {s \in Slots : kind[s] = "none"}
FirstFree == CHOOSE s \in FreeSlots : \A r \in FreeSlots : s <= r

PidBeforeBump(id) == pack_pid(id, generation[id])

NewPid(id) == pack_pid(id, generation[id] + 1)

-----------------------------------------------------------------------------
(* init: the running context becomes thread 0.                             *)
Init ==
  /\ kind = [s \in Slots |-> IF s = Boot THEN "kernel" ELSE "none"]
  /\ generation = [s \in Slots |-> IF s = Boot THEN 1 ELSE 0]
  /\ queue = <<>>
  /\ current = Boot
  /\ zombie = NoThread
  /\ pc = [s \in Slots |-> "run"]
  /\ op = [s \in Slots |-> "none"]
  /\ resumeIF = [s \in Slots |-> FALSE]
  /\ reaped = [s \in Slots |-> NoPid]
  /\ waitFor = [s \in Slots |-> NoPid]
  /\ iflag = TRUE
  /\ cr3 = KernelTable
  /\ rsp0 = NoPid
  /\ stacks = {}
  /\ spaces = {}
  /\ panicked = FALSE

RestoresCallersFlag(next) ==
  /\ current' = next
  /\ rsp0' = kernel_stack_top(next)
  /\ cr3' = page_table(next)
  /\ UNCHANGED iflag

(* set_rsp0 and switch_to: the address space and the entry stack become    *)
(* the next thread's, which goes on with the interrupt flag it had.        *)
SwitchTo(next) ==
  /\ current' = next
  /\ rsp0' = kernel_stack_top(next)
  /\ cr3' = page_table(next)
  /\ iflag' = resumeIF[next]

KeepsSlot == UNCHANGED <<kind, stacks, spaces>>

LeaksAddressSpace ==
  /\ kind' = [s \in Slots |-> IF s = zombie THEN "none" ELSE kind[s]]
  /\ stacks' = stacks \ {IF zombie = NoThread THEN NoPid ELSE Pid(zombie)}
  /\ UNCHANGED spaces

(* reap_zombie where interrupts are off from its start to its end, and     *)
(* the address space it leaves active.                                     *)
ReapZombie ==
  LET dead == IF zombie = NoThread THEN NoPid ELSE Pid(zombie)
  IN  /\ kind' = [s \in Slots |-> IF s = zombie THEN "none" ELSE kind[s]]
      /\ stacks' = stacks \ {dead}
      /\ spaces' = spaces \ {dead}

SpaceAfterReap == IF zombie = NoThread THEN cr3 ELSE KernelTable

NeverRequeues(enabled, space) ==
  \/ /\ queue # <<>>
     /\ queue' = Tail(queue)
     /\ resumeIF' = [resumeIF EXCEPT ![current] = enabled, ![Head(queue)] = FALSE]
     /\ SwitchTo(Head(queue))
  \/ /\ queue = <<>>
     /\ iflag' = enabled
     /\ cr3' = space
     /\ UNCHANGED <<queue, current, resumeIF, rsp0>>

RequeuesAtFront(enabled, space) ==
  \/ /\ queue # <<>>
     /\ queue' = <<current>> \o Tail(queue)
     /\ resumeIF' = [resumeIF EXCEPT ![current] = enabled, ![Head(queue)] = FALSE]
     /\ SwitchTo(Head(queue))
  \/ /\ queue = <<>>
     /\ iflag' = enabled
     /\ cr3' = space
     /\ UNCHANGED <<queue, current, resumeIF, rsp0>>

(* The second half of schedule: rotate to the head of the ready queue, or  *)
(* return to the caller when no other thread wants to run.  enabled is     *)
(* what the interrupt flag goes back to when this thread continues, space  *)
(* the address space reap_zombie left active.                              *)
Rotate(enabled, space) ==
  \/ /\ queue # <<>>
     /\ queue' = Append(Tail(queue), current)
     /\ resumeIF' = [resumeIF EXCEPT ![current] = enabled, ![Head(queue)] = FALSE]
     /\ SwitchTo(Head(queue))
  \/ /\ queue = <<>>
     /\ iflag' = enabled
     /\ cr3' = space
     /\ UNCHANGED <<queue, current, resumeIF, rsp0>>

StaysInRotation ==
  /\ current # Boot
  /\ queue # <<>>
  /\ zombie' = current
  /\ queue' = Append(Tail(queue), current)
  /\ SwitchTo(Head(queue))
  /\ resumeIF' = [resumeIF EXCEPT ![Head(queue)] = FALSE]

(* exit_current_thread from its interrupts::disable() on: leave the        *)
(* rotation, become the zombie, switch away for good.                      *)
ExitCurrent ==
  /\ current # Boot
  /\ queue # <<>>
  /\ zombie' = current
  /\ queue' = Tail(queue)
  /\ SwitchTo(Head(queue))
  /\ resumeIF' = [resumeIF EXCEPT ![Head(queue)] = FALSE]

-----------------------------------------------------------------------------
(* Kernel-mode threads (interrupt flag set).                               *)

InKernelCode(s) == current = s /\ kind[s] # "user" /\ ~panicked
At(s, label) == current = s /\ pc[s] = label /\ ~panicked

(* yield_now() or exit_current_thread() is called.                         *)
Call(s, o) ==
  /\ InKernelCode(s)
  /\ pc[s] = "run"
  /\ waitFor[s] = NoPid
  /\ o = "exit" => s # Boot /\ kind[s] \in ExitKinds
  /\ pc' = [pc EXCEPT ![s] = "reap"]
  /\ op' = [op EXCEPT ![s] = o]
  /\ UNCHANGED <<tableVars, resumeIF, reaped, waitFor, cpuVars, memVars, panicked>>

(* The first part of reap_zombie: under the lock, take the zombie and its  *)
(* table entry.                                                            *)
ReapTake(s) ==
  /\ At(s, "reap")
  /\ kind' = [r \in Slots |-> IF r = zombie THEN "none" ELSE kind[r]]
  /\ zombie' = NoThread
  /\ reaped' = [reaped EXCEPT ![s] = IF zombie = NoThread THEN NoPid
                                     ELSE Pid(zombie)]
  /\ pc' = [pc EXCEPT ![s] = IF zombie = NoThread THEN "switch" ELSE "force"]
  /\ UNCHANGED <<generation, queue, current, op, resumeIF, waitFor, cpuVars,
                 memVars, panicked>>

(* Its second part: load the kernel's address space.                       *)
ReapForce(s) ==
  /\ At(s, "force")
  /\ cr3' = KernelTable
  /\ pc' = [pc EXCEPT ![s] = "free"]
  /\ UNCHANGED <<tableVars, op, resumeIF, reaped, waitFor, iflag, rsp0,
                 memVars, panicked>>

(* Its third part: free the stack, and go on to the address space if the   *)
(* thread had one of its own.  Freeing writes to the kernel heap, which    *)
(* only the kernel's own table maps: under any other the CPU faults and    *)
(* page_fault_handler panics.                                              *)
ReapFree(s) ==
  /\ At(s, "free")
  /\ panicked' = (cr3 # KernelTable)
  /\ stacks' = IF panicked' THEN stacks ELSE stacks \ {reaped[s]}
  /\ reaped' = IF panicked' \/ reaped[s] \in spaces THEN reaped
               ELSE [reaped EXCEPT ![s] = NoPid]
  /\ pc' = [pc EXCEPT ![s] = IF panicked' THEN "free"
                             ELSE IF reaped[s] \in spaces THEN "free_space" ELSE "switch"]
  /\ UNCHANGED <<tableVars, op, resumeIF, waitFor, cpuVars, spaces>>

(* Its last part: free_address_space, whose free list is on the heap too.  *)
ReapFreeSpace(s) ==
  /\ At(s, "free_space")
  /\ panicked' = (cr3 # KernelTable)
  /\ spaces' = IF panicked' THEN spaces ELSE spaces \ {reaped[s]}
  /\ reaped' = IF panicked' THEN reaped ELSE [reaped EXCEPT ![s] = NoPid]
  /\ pc' = [pc EXCEPT ![s] = IF panicked' THEN "free_space" ELSE "switch"]
  /\ UNCHANGED <<tableVars, op, resumeIF, waitFor, cpuVars, stacks>>

(* The rest of schedule, for yield_now.                                    *)
Yield(s) ==
  /\ At(s, "switch")
  /\ op[s] = "yield"
  /\ pc' = [pc EXCEPT ![s] = "run"]
  /\ op' = [op EXCEPT ![s] = "none"]
  /\ Rotate(iflag, cr3)
  /\ UNCHANGED <<kind, generation, zombie, reaped, waitFor, memVars, panicked>>

(* The rest of exit_current_thread.                                        *)
Exit(s) ==
  /\ At(s, "switch")
  /\ op[s] = "exit"
  /\ ExitCurrent
  /\ pc' = [pc EXCEPT ![s] = "run"]
  /\ op' = [op EXCEPT ![s] = "none"]
  /\ UNCHANGED <<kind, generation, reaped, waitFor, memVars, panicked>>

(* wait_for_demo: kernel_main polls thread_alive, yielding in between.     *)
WaitForDemo(pid) ==
  /\ At(Boot, "run")
  /\ waitFor[Boot] = NoPid
  /\ waitFor' = [waitFor EXCEPT ![Boot] = pid]
  /\ UNCHANGED <<tableVars, pc, op, resumeIF, reaped, cpuVars, memVars, panicked>>

DemoPoll ==
  /\ At(Boot, "run")
  /\ waitFor[Boot] # NoPid
  /\ IF thread_alive(waitFor[Boot])
       THEN /\ pc' = [pc EXCEPT ![Boot] = "reap"]
            /\ op' = [op EXCEPT ![Boot] = "yield"]
            /\ UNCHANGED waitFor
       ELSE /\ waitFor' = [waitFor EXCEPT ![Boot] = NoPid]
            /\ UNCHANGED <<pc, op>>
  /\ UNCHANGED <<tableVars, resumeIF, reaped, cpuVars, memVars, panicked>>

-----------------------------------------------------------------------------
(* Thread creation and first run.                                          *)

(* kernel_main creates threads of any kind, a user thread (by SYS_SPAWN)   *)
(* only user threads.                                                      *)
MaySpawn(k) ==
  /\ At(current, "run")
  /\ \/ current = Boot /\ waitFor[Boot] = NoPid /\ k \in SpawnKinds
     \/ kind[current] = "user" /\ k = "user"

(* spawn, spawn_isolated_inner and SYS_SPAWN, which comes back under the   *)
(* caller's own CR3.                                                       *)
Spawn(k) ==
  /\ MaySpawn(k)
  /\ FreeSlots # {}
  /\ LET id  == FirstFree
         pid == NewPid(id)
     IN  /\ generation[id] < MaxGeneration
         /\ generation' = [generation EXCEPT ![id] = @ + 1]
         /\ kind' = [kind EXCEPT ![id] = k]
         /\ queue' = Append(queue, id)
         /\ pc' = [pc EXCEPT ![id] = "fresh"]
         /\ resumeIF' = [resumeIF EXCEPT ![id] = FALSE]
         /\ stacks' = stacks \cup {pid}
         /\ spaces' = IF k = "kernel" THEN spaces ELSE spaces \cup {pid}
  /\ UNCHANGED <<current, zombie, op, reaped, waitFor, cpuVars, panicked>>

(* The same with every slot taken: "thread table full".                    *)
SpawnPanics ==
  /\ \E k \in Kinds : MaySpawn(k)
  /\ FreeSlots = {}
  /\ panicked' = TRUE
  /\ UNCHANGED <<tableVars, localVars, cpuVars, memVars>>

(* thread_trampoline, entered with interrupts off.                         *)
Trampoline(s) ==
  /\ At(s, "fresh")
  /\ pc' = [pc EXCEPT ![s] = "run"]
  /\ iflag' = TRUE
  /\ UNCHANGED <<tableVars, op, resumeIF, reaped, waitFor, cr3, rsp0, memVars,
                 panicked>>

-----------------------------------------------------------------------------
(* The timer interrupt and the system calls (interrupt flag clear).        *)

TickWithoutReap ==
  /\ iflag
  /\ ~panicked
  /\ Rotate(TRUE, cr3)
  /\ UNCHANGED <<kind, stacks, spaces, zombie, generation, pc, op, reaped,
                 waitFor, panicked>>

(* timer_interrupt_handler: a whole schedule() inside the handler, whose   *)
(* iretq later gives the interrupted thread its flag back.                 *)
Tick ==
  /\ iflag
  /\ ~panicked
  /\ ReapZombie
  /\ zombie' = NoThread
  /\ Rotate(TRUE, SpaceAfterReap)
  /\ UNCHANGED <<generation, pc, op, reaped, waitFor, panicked>>

(* SYS_EXIT, or kill_current_thread on a bad pointer: reap_zombie and      *)
(* exit_current_thread without an interrupt in between.                    *)
SysExit(s) ==
  /\ At(s, "run")
  /\ kind[s] = "user"
  /\ ReapZombie
  /\ ExitCurrent
  /\ UNCHANGED <<generation, pc, op, reaped, waitFor, panicked>>

(* SYS_WAIT: an error at once unless the pid is alive, else the poll loop, *)
(* which is entered with interrupts off.                                   *)
SysWait(s, pid) ==
  /\ At(s, "run")
  /\ kind[s] = "user"
  /\ thread_alive(pid)
  /\ waitFor' = [waitFor EXCEPT ![s] = pid]
  /\ pc' = [pc EXCEPT ![s] = "wait"]
  /\ iflag' = FALSE
  /\ UNCHANGED <<tableVars, op, resumeIF, reaped, cr3, rsp0, memVars, panicked>>

(* One turn of the loop: yield_now while the child is alive, ...           *)
SysWaitYield(s) ==
  /\ At(s, "wait")
  /\ thread_alive(waitFor[s])
  /\ ReapZombie
  /\ zombie' = NoThread
  /\ Rotate(iflag, SpaceAfterReap)
  /\ UNCHANGED <<generation, pc, op, reaped, waitFor, panicked>>

(* ... and the return to ring 3 once it is not.                            *)
SysWaitReturn(s) ==
  /\ At(s, "wait")
  /\ ~thread_alive(waitFor[s])
  /\ waitFor' = [waitFor EXCEPT ![s] = NoPid]
  /\ pc' = [pc EXCEPT ![s] = "run"]
  /\ iflag' = TRUE
  /\ UNCHANGED <<tableVars, op, resumeIF, reaped, cr3, rsp0, memVars, panicked>>

(* The panic handler's hlt_loop, with interrupts off.                      *)
Halted == panicked /\ UNCHANGED vars

-----------------------------------------------------------------------------
(* What a thread does once it has entered the kernel, whatever its program *)
(* wants.                                                                  *)
KernelStep(s) ==
  \/ ReapTake(s)
  \/ ReapForce(s)
  \/ ReapFree(s)
  \/ ReapFreeSpace(s)
  \/ Yield(s)
  \/ Exit(s)
  \/ s = Boot /\ DemoPoll
  \/ Trampoline(s)
  \/ SysWaitYield(s)
  \/ SysWaitReturn(s)

(* What its program decides.                                               *)
ProgramStep(s) ==
  \/ \E o \in {"yield", "exit"} : Call(s, o)
  \/ SysExit(s)
  \/ \E pid \in IssuedPids : SysWait(s, pid)

Next ==
  \/ \E s \in Slots : KernelStep(s) \/ ProgramStep(s)
  \/ \E pid \in IssuedPids : WaitForDemo(pid)
  \/ \E k \in Kinds : Spawn(k)
  \/ SpawnPanics
  \/ Tick
  \/ Halted

Spec == Init /\ [][Next]_vars

(* The timer keeps ticking, and a time slice is long enough for a thread   *)
(* inside the kernel to get on: not every one of its slices is cut before  *)
(* its next step.                                                          *)
FairSpec ==
  /\ Spec
  /\ WF_vars(Tick)
  /\ \A s \in Slots : SF_vars(KernelStep(s))
-----------------------------------------------------------------------------
(* Properties.                                                             *)

(* The variables hold what the code's fields can: in particular every      *)
(* stack, address space and wait belongs to a pid that can be issued.      *)
TypeOK ==
  /\ kind \in [Slots -> Kinds \cup {"none"}]
  /\ generation \in [Slots -> 0 .. MaxGeneration]
  /\ queue \in Seq(Slots)
  /\ current \in Slots
  /\ zombie \in Slots \cup {NoThread}
  /\ pc \in [Slots -> {"fresh", "run", "reap", "force", "free", "free_space", "switch",
                    "wait"}]
  /\ op \in [Slots -> {"none", "yield", "exit"}]
  /\ resumeIF \in [Slots -> BOOLEAN]
  /\ reaped \in [Slots -> Pids \cup {NoPid}]
  /\ waitFor \in [Slots -> Pids \cup {NoPid}]
  /\ iflag \in BOOLEAN
  /\ cr3 \in Pids \cup {KernelTable}
  /\ rsp0 \in Pids \cup {NoPid}
  /\ stacks \subseteq Pids
  /\ spaces \subseteq Pids
  /\ panicked \in BOOLEAN

Occupied == {s \in Slots : kind[s] # "none"}

(* The ready queue holds each waiting thread once, each in an occupied     *)
(* slot, and neither the running thread nor the zombie.  So what schedule  *)
(* and exit_current_thread pop is a live thread, "next thread missing from *)
(* thread table" never happens, and nobody resumes a thread that exited.   *)
RotationInv ==
  /\ IsInjective(queue)
  /\ Range(queue) \subseteq Occupied \ {current, zombie}
  /\ current \in Occupied \ {zombie}
  /\ zombie # NoThread => zombie \in Occupied

(* push_back's assertion "ready queue full" never fires, and the boot      *)
(* thread never leaves the rotation: whoever exits has a thread to exit    *)
(* into, and is not the boot thread (the two panics exit_current_thread    *)
(* documents as unreachable).                                              *)
AssertionsHold ==
  /\ Len(queue) < MAX_THREADS
  /\ Boot = current \/ Boot \in Range(queue)
  /\ zombie # Boot /\ op[Boot] # "exit" /\ kind[Boot] = "kernel"

(* "At most one pending zombie ever exists": a thread that has left the    *)
(* rotation but still has its slot is the one recorded in zombie.          *)
OnlyPendingZombie ==
  \A s \in Occupied : s \in {current, zombie} \cup Range(queue)

(* Kernel stacks are freed exactly once, and only after their thread's     *)
(* table entry has gone: a stack is allocated for each occupied slot and   *)
(* each thread being reaped, until its reaper is at the address space, and *)
(* for no other.  The same for address spaces, which are freed second even *)
(* when the timer comes between the two, and CR3 never holds one that has  *)
(* been freed.                                                             *)
BeingReaped == {reaped[s] : s \in Slots} \ {NoPid}
StackGone == {reaped[s] : s \in {r \in Slots : pc[r] = "free_space"}}
MemoryAccounted ==
  /\ {Pid(s) : s \in Occupied \ {Boot}} \cap BeingReaped = {}
  /\ stacks = ({Pid(s) : s \in Occupied \ {Boot}} \cup BeingReaped) \ StackGone
  /\ spaces \subseteq {Pid(s) : s \in Occupied \ {Boot}} \cup BeingReaped
  /\ StackGone \subseteq spaces
  /\ \A s \in Occupied : kind[s] # "kernel" => Pid(s) \in spaces
  /\ cr3 \in spaces \cup {KernelTable}

(* "Forcing CR3 back to the shared kernel address space first makes that   *)
(* safe unconditionally": whenever reap_zombie frees a thread's stack or   *)
(* its address space, the table that maps the heap is the active one.      *)
HeapMapped ==
  At(current, "free") \/ At(current, "free_space") => cr3 = KernelTable

(* The CPU's state is the running thread's own.  In ring 3 an interrupt or *)
(* a system call lands on its own kernel stack and it sees its own address *)
(* space; only inside reap_zombie may the kernel's table be active instead,*)
(* and never while code of an isolated or user thread goes on.  Interrupts *)
(* are off from its first switch to the trampoline's enable() and inside a *)
(* system call, and otherwise on whatever call of schedule() it came back  *)
(* from.                                                                   *)
CpuStateIsCurrents ==
  /\ rsp0 = kernel_stack_top(current)
  /\ \/ cr3 = page_table(current)
     \/ cr3 = KernelTable /\ pc[current] \in {"free", "free_space", "switch"}
  /\ iflag <=> pc[current] \notin {"fresh", "wait"}

(* The kernel panics only when a thread is created with every slot taken   *)
(* by a thread that can still run or is about to be reaped.                *)
PanicsOnlyWhenFull ==
  panicked => Slots \subseteq {current, zombie} \cup Range(queue)

(* A pid that has stopped being alive is never alive again, whatever is    *)
(* later put in its slot (slot_generations), so a wait loop that polls     *)
(* seldom still sees the exit.                                             *)
DeadStaysDead ==
  [][\A p \in IssuedPids : ~thread_alive(p) => ~thread_alive(p)']_vars

(* Every thread in the ready queue runs again.                             *)
NoStarvation ==
  \A s \in Slots : s \in Range(queue) ~> (current = s \/ panicked)

(* An exited thread's slot is reclaimed, by whoever is scheduled next, and *)
(* once the thread a wait loop polls for has left the rotation, the loop   *)
(* ends.                                                                   *)
HasExited(p) == ~thread_alive(p) \/ \A s \in {current} \cup Range(queue) : Pid(s) # p
ExitsAreNoticed ==
  /\ \A s \in Slots : zombie = s ~> (zombie # s \/ panicked)
  /\ \A s \in Slots : \A p \in Pids :
       (waitFor[s] = p /\ HasExited(p)) ~> (waitFor[s] # p \/ panicked)
=============================================================================
