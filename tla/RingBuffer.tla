----------------------------- MODULE RingBuffer -----------------------------
(***************************************************************************)
(* The ring buffer written twice in the kernel: ReadyQueue in              *)
(* scheduler/mod.rs (thread ids) and InputQueue in task/keyboard.rs        *)
(* (decoded bytes).  They differ in what a push onto a full buffer does:   *)
(* ReadyQueue asserts that it never happens (theorem AssertionsUnreachable *)
(* of SchedulerProofs), InputQueue drops the byte.                         *)
(***************************************************************************)
EXTENDS Integers, Sequences

CONSTANTS
  Capacity,  \* MAX_THREADS and INPUT_QUEUE_CAPACITY
  Values,    \* thread ids, or bytes
  Zero,      \* what the array is filled with at first
  None       \* pop's answer when nothing is queued

ASSUME RingAssumption ==
  /\ Capacity \in Nat \ {0}
  /\ Zero \in Values
  /\ None \notin Values

VARIABLES
  slots,   \* ids, bytes
  head,
  len,
  popped   \* what the last pop returned

vars == <<slots, head, len, popped>>

(* The index of the i-th place from the head.                              *)
Place(i) == (head + i) % Capacity

Init ==
  /\ slots = [i \in 0 .. Capacity - 1 |-> Zero]
  /\ head = 0
  /\ len = 0
  /\ popped = None

OverwritesOldest(v) ==
  /\ slots' = [slots EXCEPT ![Place(len)] = v]
  /\ len' = IF len < Capacity THEN len + 1 ELSE len
  /\ UNCHANGED <<head, popped>>

(* push_back, push *)
Push(v) ==
  /\ len < Capacity
  /\ slots' = [slots EXCEPT ![Place(len)] = v]
  /\ len' = len + 1
  /\ UNCHANGED <<head, popped>>

(* push's early return *)
PushFull ==
  /\ len = Capacity
  /\ UNCHANGED vars

(* pop_front, pop *)
Pop ==
  /\ len # 0
  /\ popped' = slots[head]
  /\ head' = Place(1)
  /\ len' = len - 1
  /\ UNCHANGED slots

PopNothing ==
  /\ len = 0
  /\ popped' = None
  /\ UNCHANGED <<slots, head, len>>

Next == (\E v \in Values : Push(v)) \/ PushFull \/ Pop \/ PopNothing

Spec == Init /\ [][Next]_vars

-----------------------------------------------------------------------------
(* The indices stay inside the array, so no access to ids or bytes panics. *)
TypeOK ==
  /\ slots \in [0 .. Capacity - 1 -> Values]
  /\ head \in 0 .. Capacity - 1
  /\ len \in 0 .. Capacity
  /\ popped \in Values \cup {None}

(* The buffer is a bounded first-in first-out queue of the len values from *)
(* head on, wherever in the array they lie: pop returns the oldest value   *)
(* that was pushed and not dropped, and a push never touches one.          *)
Contents == [i \in 1 .. len |-> slots[Place(i - 1)]]
Queue == INSTANCE Fifo WITH items <- Contents
IsFifo == Queue!FifoSpec
=============================================================================
