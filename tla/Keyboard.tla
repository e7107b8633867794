------------------------------ MODULE Keyboard ------------------------------
(***************************************************************************)
(* The way of a keystroke: keyboard_interrupt_handler queues its scancode  *)
(* and wakes the decoding task; the executor, which is the boot thread,    *)
(* polls that task (print_keypresses) or halts the CPU; the task queues    *)
(* the decoded bytes; a program takes them out with the read system call.  *)
(*                                                                         *)
(* The executor runs with interrupts on, so the keyboard interrupt, and by *)
(* way of the timer a program's read, can come between any two of its      *)
(* steps.  The interrupt handler and the system call run with interrupts   *)
(* off and are one step each.  The kernel spawns one task only, so the     *)
(* executor's queue of task ids is the number of entries in it.            *)
(***************************************************************************)
EXTENDS Integers, Sequences, SequencesExt

CONSTANTS
  Scancodes,         \* what the keyboard sends
  Decode,            \* the bytes print_keypresses makes of each scancode
  SCANCODE_CAPACITY, \* of SCANCODE_QUEUE
  MAX_QUEUED_TASKS,  \* of the executor's ready queue
  INPUT_CAPACITY,    \* INPUT_QUEUE_CAPACITY
  MaxKeys,           \* bound of the model: scancodes sent
  MaxRead            \* bound of the model: bytes asked for in one read

ASSUME KeyboardAssumption ==
  /\ \A sc \in Scancodes : Decode[sc] \in Seq(STRING)
  /\ {SCANCODE_CAPACITY, MAX_QUEUED_TASKS, INPUT_CAPACITY, MaxRead} \subseteq Nat \ {0}
  /\ MaxKeys \in Nat

VARIABLES
  scancodes,  \* SCANCODE_QUEUE
  waker,      \* WAKER: "none", "registering" or "set"
  waking,     \* WAKER was woken while a registration was under way
  queued,     \* entries in the executor's ready queue
  pc,         \* where the executor is
  emitting,   \* bytes of the current key still to be queued
  input,      \* INPUT_QUEUE
  sent,       \* number of scancodes sent so far
  accepted,   \* the scancodes that were queued, ever
  lost,       \* a decoded byte has been dropped
  received    \* the bytes programs have read, ever

execVars == <<pc, emitting>>
wakeVars == <<waker, waking, queued>>
histVars == <<sent, accepted, lost, received>>
vars == <<scancodes, wakeVars, execVars, input, histVars>>

(* Executor::new and spawn: the task is queued once, to be polled.         *)
Init ==
  /\ scancodes = <<>>
  /\ waker = "none"
  /\ waking = FALSE
  /\ queued = 1
  /\ pc = "pop"
  /\ emitting = <<>>
  /\ input = <<>>
  /\ sent = 0
  /\ accepted = <<>>
  /\ lost = FALSE
  /\ received = <<>>

-----------------------------------------------------------------------------
(* The interrupt handler.                                                  *)

(* wake_task: a wakeup that does not fit in the ready queue is dropped.    *)
wake_task == IF queued < MAX_QUEUED_TASKS THEN queued + 1 ELSE queued

WakesNobody == UNCHANGED wakeVars

(* AtomicWaker::wake: take the waker and wake its task; a registration     *)
(* under way is left to do that itself.                                    *)
Wake ==
  /\ waker' = IF waker = "set" THEN "none" ELSE waker
  /\ waking' = (waking \/ waker = "registering")
  /\ queued' = IF waker = "set" THEN wake_task ELSE queued

(* keyboard_interrupt_handler and add_scancode; the interrupt also ends    *)
(* a hlt.                                                                  *)
KeyboardInterrupt(sc) ==
  /\ sent < MaxKeys
  /\ sent' = sent + 1
  /\ \/ /\ Len(scancodes) < SCANCODE_CAPACITY
        /\ scancodes' = Append(scancodes, sc)
        /\ accepted' = Append(accepted, sc)
        /\ Wake
     \/ /\ Len(scancodes) = SCANCODE_CAPACITY
        /\ UNCHANGED <<scancodes, accepted, wakeVars>>
  /\ pc' = IF pc = "halted" THEN "pop" ELSE pc
  /\ UNCHANGED <<emitting, input, lost, received>>

-----------------------------------------------------------------------------
(* The executor and its task.                                              *)

(* run_ready_tasks: poll the next queued task, if any.                     *)
RunReadyTasks ==
  /\ pc = "pop"
  /\ pc' = IF queued = 0 THEN "idle" ELSE "fast"
  /\ queued' = IF queued = 0 THEN 0 ELSE queued - 1
  /\ UNCHANGED <<scancodes, waker, waking, emitting, input, histVars>>

(* sleep_if_idle, with interrupts off until the hlt.                       *)
SleepIfIdle ==
  /\ pc = "idle"
  /\ pc' = IF queued = 0 THEN "halted" ELSE "pop"
  /\ UNCHANGED <<scancodes, wakeVars, emitting, input, histVars>>

(* A timer interrupt ends the hlt too.                                     *)
TimerInterrupt ==
  /\ pc = "halted"
  /\ pc' = "pop"
  /\ UNCHANGED <<scancodes, wakeVars, emitting, input, histVars>>

(* A scancode is taken from the queue and decoded.                         *)
TakeScancode ==
  /\ scancodes' = Tail(scancodes)
  /\ emitting' = Decode[Head(scancodes)]
  /\ pc' = "emit"

(* poll_next's fast path.                                                  *)
PollFast ==
  /\ pc = "fast"
  /\ \/ scancodes # <<>> /\ TakeScancode
     \/ scancodes = <<>> /\ pc' = "register" /\ UNCHANGED <<scancodes, emitting>>
  /\ UNCHANGED <<wakeVars, input, histVars>>

(* WAKER.register, which an interrupt can land in the middle of.           *)
RegisterBegin ==
  /\ pc = "register"
  /\ pc' = "registering"
  /\ waker' = "registering"
  /\ UNCHANGED <<scancodes, waking, queued, emitting, input, histVars>>

RegisterEnd ==
  /\ pc = "registering"
  /\ pc' = "second"
  /\ waker' = IF waking THEN "none" ELSE "set"
  /\ queued' = IF waking THEN wake_task ELSE queued
  /\ waking' = FALSE
  /\ UNCHANGED <<scancodes, emitting, input, histVars>>

PendingWithoutSecondLook ==
  /\ pc = "second"
  /\ pc' = "pop"
  /\ UNCHANGED <<scancodes, emitting, wakeVars, input, histVars>>

(* The second look at the queue, then WAKER.take or Pending.               *)
PollSecond ==
  /\ pc = "second"
  /\ \/ scancodes # <<>> /\ TakeScancode /\ waker' = "none"
     \/ scancodes = <<>> /\ pc' = "pop" /\ UNCHANGED <<scancodes, emitting, waker>>
  /\ UNCHANGED <<waking, queued, input, histVars>>

(* push_input_byte for each byte of the key; a byte that does not fit is   *)
(* dropped.  Then the task asks for the next scancode.                     *)
Emit ==
  /\ pc = "emit"
  /\ \/ /\ emitting # <<>>
        /\ emitting' = Tail(emitting)
        /\ input' = IF Len(input) = INPUT_CAPACITY THEN input
                    ELSE Append(input, Head(emitting))
        /\ lost' = (lost \/ Len(input) = INPUT_CAPACITY)
        /\ UNCHANGED pc
     \/ /\ emitting = <<>>
        /\ pc' = "fast"
        /\ UNCHANGED <<emitting, input, lost>>
  /\ UNCHANGED <<scancodes, wakeVars, sent, accepted, received>>

ExecutorStep ==
  \/ RunReadyTasks \/ SleepIfIdle \/ PollFast \/ RegisterBegin \/ RegisterEnd
  \/ PollSecond \/ Emit

-----------------------------------------------------------------------------
(* The reading program.                                                    *)

PopsOneTooMany(len) ==
  LET n == IF len < Len(input) THEN len ELSE Len(input)
  IN  /\ received' = received \o SubSeq(input, 1, n)
      /\ input' = SubSeq(input, n + 2, Len(input))

(* sys_read_stdin's loop: up to len bytes, and fewer if the queue runs out.*)
PopInput(len) ==
  LET n == IF len < Len(input) THEN len ELSE Len(input)
  IN  /\ received' = received \o SubSeq(input, 1, n)
      /\ input' = SubSeq(input, n + 1, Len(input))

(* SYS_READ of stdin into a buffer the caller may write; with any other    *)
(* the caller is killed before the queue is touched.                       *)
SysReadStdin(len) ==
  /\ PopInput(len)
  /\ UNCHANGED <<scancodes, wakeVars, execVars, sent, accepted, lost>>

Next ==
  \/ \E sc \in Scancodes : KeyboardInterrupt(sc)
  \/ TimerInterrupt
  \/ ExecutorStep
  \/ \E len \in 1 .. MaxRead : SysReadStdin(len)

Spec == Init /\ [][Next]_vars

(* The boot thread gets its turns (NoStarvation of module Scheduler), the  *)
(* timer ticks, and the shell keeps reading.                               *)
FairSpec ==
  /\ Spec
  /\ WF_vars(ExecutorStep)
  /\ WF_vars(TimerInterrupt)
  /\ WF_vars(SysReadStdin(1))

-----------------------------------------------------------------------------
(* The queues stay within their capacity: the ISR never blocks or panics.  *)
TypeOK ==
  /\ scancodes \in Seq(Scancodes) /\ Len(scancodes) <= SCANCODE_CAPACITY
  /\ waker \in {"none", "registering", "set"}
  /\ waking \in BOOLEAN
  /\ queued \in 0 .. MAX_QUEUED_TASKS
  /\ pc \in {"pop", "idle", "halted", "fast", "register", "registering",
             "second", "emit"}
  /\ Len(input) <= INPUT_CAPACITY
  /\ sent \in 0 .. MaxKeys

(* The wakeup is never lost: when the executor has nothing to poll, and so *)
(* may halt, the task is registered to be woken and has no scancode left.  *)
(* A keystroke that lands between the fast path and the registration, in   *)
(* the middle of the registration, before the hlt or on a full ready queue *)
(* leaves an entry in the queue.                                           *)
NoLostWakeup ==
  pc \in {"pop", "idle", "halted"} /\ queued = 0 =>
    scancodes = <<>> /\ waker = "set"

(* Bytes are delivered once each and in the order typed, whatever the      *)
(* interleaving of interrupts, polls and reads, unless INPUT_QUEUE was     *)
(* full; and every queue stays within its capacity.                        *)
BytesOf(codes) == FlattenSeq([i \in DOMAIN codes |-> Decode[codes[i]]])
BytesConserved ==
  /\ TypeOK
  /\ ~lost => received \o input \o emitting \o BytesOf(scancodes) = BytesOf(accepted)

(* Every accepted keystroke gets to the reading program.                   *)
EverythingRead == <>[](scancodes = <<>> /\ emitting = <<>> /\ input = <<>>)
=============================================================================
