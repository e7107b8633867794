-------------------------- MODULE SchedulerProofs --------------------------
(***************************************************************************)
(* The scheduler is sound for every number of threads and every mix of     *)
(* kinds: first the rotation, with the invariant IInv that everything else *)
(* uses; then pids, the memory of the threads, the registers of the CPU,   *)
(* the zombie and the panics.  See module Scheduler for the properties.    *)
(***************************************************************************)
EXTENDS Scheduler, FiniteSetTheorems, TLAPS

-----------------------------------------------------------------------------
(* The ready queue as a sequence without repetitions.                      *)

(* pop_front: the head leaves, everyone else stays.                        *)
LEMMA TailQueue ==
  ASSUME NEW S, NEW q \in Seq(S), q # <<>>, IsInjective(q)
  PROVE  /\ Head(q) \in S
         /\ Head(q) \in Range(q)
         /\ Tail(q) \in Seq(S)
         /\ IsInjective(Tail(q))
         /\ Range(Tail(q)) = Range(q) \ {Head(q)}
<1>1. /\ Len(q) \in Nat \ {0}
      /\ Head(q) = q[1]
      /\ DOMAIN q = 1 .. Len(q)
      /\ q \in [1 .. Len(q) -> S]
  OBVIOUS
<1>2. /\ Tail(q) \in Seq(S)
      /\ Len(Tail(q)) = Len(q) - 1
      /\ DOMAIN Tail(q) = 1 .. Len(q) - 1
      /\ \A i \in 1 .. Len(q) - 1 : Tail(q)[i] = q[i + 1]
  BY <1>1
<1>3. Head(q) \in S /\ Head(q) \in Range(q)
  BY <1>1 DEF Range
<1>4. IsInjective(Tail(q))
  BY <1>1, <1>2 DEF IsInjective
<1>5. Range(Tail(q)) \subseteq Range(q) \ {Head(q)}
  BY <1>1, <1>2 DEF Range, IsInjective
<1>6. Range(q) \ {Head(q)} \subseteq Range(Tail(q))
  <2> SUFFICES ASSUME NEW x \in Range(q), x # Head(q)
               PROVE  x \in Range(Tail(q))
    BY Zenon
  <2>1. PICK i \in 1 .. Len(q) : x = q[i]
    BY <1>1, Zenon DEF Range
  <2>2. i - 1 \in 1 .. Len(q) - 1 /\ x = Tail(q)[i - 1]
    BY <1>1, <1>2, <2>1
  <2> QED BY <1>2, <2>2, Zenon DEF Range
<1> QED BY <1>2, <1>3, <1>4, <1>5, <1>6, Zenon

(* push_back of a thread that is not in the queue.                         *)
LEMMA AppendQueue ==
  ASSUME NEW S, NEW q \in Seq(S), IsInjective(q), NEW c \in S, c \notin Range(q)
  PROVE  /\ Append(q, c) \in Seq(S)
         /\ IsInjective(Append(q, c))
         /\ Range(Append(q, c)) = Range(q) \cup {c}
<1>1. /\ Len(q) \in Nat
      /\ DOMAIN q = 1 .. Len(q)
      /\ Append(q, c) \in Seq(S)
      /\ DOMAIN Append(q, c) = 1 .. Len(q) + 1
      /\ \A i \in 1 .. Len(q) : Append(q, c)[i] = q[i]
      /\ Append(q, c)[Len(q) + 1] = c
  OBVIOUS
<1>2. \A i \in 1 .. Len(q) : q[i] # c
  BY <1>1, Zenon DEF Range
<1>3. \A i \in 1 .. Len(q) + 1 : i \in 1 .. Len(q) \/ i = Len(q) + 1
  BY <1>1
<1>4. IsInjective(Append(q, c))
  BY <1>1, <1>2, <1>3, Zenon DEF IsInjective
<1>5. Range(Append(q, c)) \subseteq Range(q) \cup {c}
  BY <1>1, <1>3, Zenon DEF Range
<1>6. Range(q) \cup {c} \subseteq Range(Append(q, c))
  <2>1. \A i \in 1 .. Len(q) : i \in 1 .. Len(q) + 1
    BY <1>1
  <2>2. Len(q) + 1 \in 1 .. Len(q) + 1
    BY <1>1
  <2> QED BY <1>1, <2>1, <2>2, Zenon DEF Range
<1> QED BY <1>1, <1>4, <1>5, <1>6, Zenon

(* A queue of distinct threads that misses one thread is shorter than the  *)
(* thread table.                                                           *)
LEMMA QueueHasRoom ==
  ASSUME NEW q \in Seq(Slots), IsInjective(q),
         NEW c \in Slots, c \notin Range(q)
  PROVE  Len(q) < MAX_THREADS
<1> DEFINE Others == Slots \ {c}
<1>1. MAX_THREADS \in Nat \ {0} /\ MAX_THREADS - 1 \in Nat
  BY SchedulerAssumption
<1>2. IsFiniteSet(Slots) /\ Cardinality(Slots) = MAX_THREADS
  BY <1>1, FS_Interval DEF Slots
<1>3. IsFiniteSet(Others) /\ Cardinality(Others) = MAX_THREADS - 1
  BY <1>1, <1>2, FS_RemoveElement, Zenon
<1>4. Len(q) \in Nat /\ DOMAIN q = 1 .. Len(q) /\ q \in [1 .. Len(q) -> Slots]
  OBVIOUS
<1>5. q \in Injection(1 .. Len(q), Others)
  BY <1>4, Zenon DEF Injection, IsInjective, Range
<1>6. Cardinality(1 .. Len(q)) <= Cardinality(Others)
  BY <1>3, <1>5, FS_Injection, Zenon
<1>7. Cardinality(1 .. Len(q)) = Len(q)
  BY <1>4, FS_Interval
<1> QED BY <1>1, <1>3, <1>4, <1>6, <1>7

-----------------------------------------------------------------------------
(* The inductive invariant.                                                *)

(* A populated slot has had its generation bumped: its pid is a real one.  *)
Populated == \A s \in Slots : kind[s] # "none" => generation[s] # 0

(* The boot thread never leaves the rotation.                              *)
BootStays ==
  /\ Boot = current \/ Boot \in Range(queue)
  /\ zombie # Boot
  /\ op[Boot] # "exit"
  /\ kind[Boot] = "kernel"

IInv == TypeOK /\ RotationInv /\ BootStays /\ Populated

(* What the assumptions on the table and on the kinds of threads say.      *)
LEMMA Constants ==
  /\ MAX_THREADS \in Nat /\ MAX_THREADS >= 2
  /\ MaxGeneration \in Nat /\ MaxGeneration >= 1
  /\ Boot \in Slots
  /\ NoThread \notin Slots
  /\ SpawnKinds \subseteq Kinds
  /\ "none" \notin Kinds
BY SchedulerAssumption DEF Slots, Boot, NoThread, Kinds

(* What pack_pid makes of a slot and a generation that has been issued.    *)
LEMMA PackedPid ==
  ASSUME NEW s \in Slots, NEW g \in 1 .. MaxGeneration
  PROVE  pack_pid(s, g) \in Pids
BY DEF Pids

(* The pid of a thread in the table is one that spawn can have returned.   *)
LEMMA OccupiedPid ==
  ASSUME TypeOK, Populated, NEW s \in Slots, kind[s] # "none"
  PROVE  Pid(s) \in Pids
<1>1. generation[s] \in 1 .. MaxGeneration
  BY Constants DEF TypeOK, Populated
<1> QED BY <1>1, PackedPid, Zenon DEF Pid

(* Every pid that spawn has returned is in the range of pids.              *)
LEMMA IssuedArePids ==
  ASSUME TypeOK
  PROVE  IssuedPids \subseteq Pids
<1> SUFFICES ASSUME NEW s \in Slots, NEW g \in 1 .. generation[s]
             PROVE  pack_pid(s, g) \in Pids
  BY DEF IssuedPids
<1>1. g \in 1 .. MaxGeneration
  BY Constants DEF TypeOK
<1> QED BY <1>1, PackedPid, Zenon

(* There is a first free slot whenever there is a free one, and the new    *)
(* thread goes there.                                                      *)
LEMMA FirstFreeIsFree ==
  ASSUME FreeSlots # {}
  PROVE  FirstFree \in FreeSlots
<1> DEFINE Less == {p \in Nat \X Nat : p[1] < p[2]}
<1>1. FreeSlots \subseteq Nat
  BY Constants DEF FreeSlots, Slots
<1>2. PICK s \in FreeSlots : \A r \in FreeSlots : <<r, s>> \notin Less
  <2>1. IsWellFoundedOn(Less, Nat)
    BY NatLessThanWellFounded, Zenon DEF OpToRel
  <2> HIDE DEF Less
  <2> QED BY <1>1, <2>1, WFMin, Zenon
<1>3. \A a, b \in Nat : a < b => <<a, b>> \in Less
  BY Zenon
<1> HIDE DEF Less
<1>4. ASSUME NEW r \in FreeSlots PROVE s <= r
  <2>1. r \in Nat /\ s \in Nat
    BY <1>1, Zenon
  <2>2. ~(r < s)
    BY <1>2, <1>3, <2>1, Zenon
  <2> QED BY <2>1, <2>2
<1> QED BY <1>4, Zenon DEF FirstFree

(* init satisfies it.                                                      *)
LEMMA InitIInv == Init => IInv
<1> SUFFICES ASSUME Init PROVE IInv
  BY Zenon
<1> USE Constants DEF Init
<1>1. TypeOK
  <2>1. /\ kind \in [Slots -> Kinds \cup {"none"}]
        /\ generation \in [Slots -> 0 .. MaxGeneration]
        /\ queue \in Seq(Slots)
        /\ current \in Slots
        /\ zombie \in Slots \cup {NoThread}
    BY DEF Kinds
  <2>2. /\ pc \in [Slots -> {"fresh", "run", "reap", "force", "free", "free_space", "switch", "wait"}]
        /\ op \in [Slots -> {"none", "yield", "exit"}]
        /\ reaped \in [Slots -> Pids \cup {NoPid}]
        /\ waitFor \in [Slots -> Pids \cup {NoPid}]
    BY Zenon
  <2>3. resumeIF \in [Slots -> BOOLEAN] /\ iflag \in BOOLEAN /\ panicked \in BOOLEAN
    BY Zenon
  <2>4. /\ cr3 \in Pids \cup {KernelTable}
        /\ rsp0 \in Pids \cup {NoPid}
        /\ stacks \subseteq Pids
        /\ spaces \subseteq Pids
    BY Zenon
  <2> QED BY <2>1, <2>2, <2>3, <2>4, Zenon DEF TypeOK
<1>2. RotationInv
  BY DEF RotationInv, IsInjective, Range, Occupied
<1>3. BootStays
  BY Zenon DEF BootStays, NoThread, Boot
<1>4. Populated
  BY DEF Populated
<1> QED BY <1>1, <1>2, <1>3, <1>4, Zenon DEF IInv

(* switch_to loads the address space and the entry stack of a thread in    *)
(* the table.                                                              *)
LEMMA SwitchTypes ==
  ASSUME IInv, NEW next \in Slots, kind[next] # "none", SwitchTo(next)
  PROVE  /\ current' \in Slots
         /\ iflag' \in BOOLEAN
         /\ cr3' \in Pids \cup {KernelTable}
         /\ rsp0' \in Pids \cup {NoPid}
<1>1. Pid(next) \in Pids
  BY OccupiedPid, Zenon DEF IInv
<1>2. page_table(next) \in Pids \cup {KernelTable}
  BY <1>1, Zenon DEF page_table
<1>3. kernel_stack_top(next) \in Pids \cup {NoPid}
  BY <1>1, Zenon DEF kernel_stack_top
<1>4. resumeIF[next] \in BOOLEAN
  BY Zenon DEF IInv, TypeOK
<1> QED BY <1>2, <1>3, <1>4, Zenon DEF SwitchTo

(* Taking the zombie's table entry leaves every other slot as it is.       *)
LEMMA ReapClears ==
  ASSUME IInv,
         kind' = [s \in Slots |-> IF s = zombie THEN "none" ELSE kind[s]]
  PROVE  /\ kind' \in [Slots -> Kinds \cup {"none"}]
         /\ Occupied' = Occupied \ {zombie}
         /\ kind'[Boot] = "kernel"
         /\ generation' = generation => Populated'
<1> USE Constants DEF IInv
<1>1. kind' \in [Slots -> Kinds \cup {"none"}]
  BY Zenon DEF TypeOK
<1>2. Occupied' = Occupied \ {zombie}
  BY Zenon DEF Occupied
<1>3. kind'[Boot] = "kernel"
  BY Zenon DEF BootStays
<1>4. ASSUME generation' = generation PROVE Populated'
  BY <1>4, Zenon DEF Populated
<1> QED BY <1>1, <1>2, <1>3, <1>4, Zenon

(* The two ways a thread gives up the CPU, on a table from which reap_zombie *)
(* has taken the zombie, or has not had to.                                  *)

(* schedule: the thread goes to the back of the queue.                       *)
LEMMA RotateKeeps ==
  ASSUME IInv, NEW e \in BOOLEAN, NEW sp \in Pids \cup {KernelTable}, Rotate(e, sp),
         \/ kind' = kind /\ zombie' = zombie
         \/ /\ kind' = [s \in Slots |-> IF s = zombie THEN "none" ELSE kind[s]]
            /\ zombie' = NoThread
  PROVE  /\ queue' \in Seq(Slots)
         /\ current' \in Slots
         /\ resumeIF' \in [Slots -> BOOLEAN]
         /\ iflag' \in BOOLEAN
         /\ cr3' \in Pids \cup {KernelTable}
         /\ rsp0' \in Pids \cup {NoPid}
         /\ RotationInv'
         /\ Boot = current' \/ Boot \in Range(queue')
<1> USE Constants
<1>0. /\ queue \in Seq(Slots) /\ IsInjective(queue)
      /\ current \in Slots /\ current \notin Range(queue)
      /\ Range(queue) \subseteq Slots
  BY Zenon DEF IInv, TypeOK, RotationInv, Occupied
<1>1. /\ Occupied \ {zombie} \subseteq Occupied'
      /\ zombie' = NoThread \/ (zombie' = zombie /\ Occupied' = Occupied)
  BY ReapClears, Zenon DEF Occupied
<1>2. CASE queue = <<>>
  <2>1. /\ queue' = queue /\ current' = current /\ resumeIF' = resumeIF /\ rsp0' = rsp0
        /\ iflag' = e /\ cr3' = sp
    BY <1>2, Zenon DEF Rotate
  <2>2. RotationInv'
    BY <1>0, <1>1, <2>1, Zenon DEF IInv, RotationInv, NoThread, Slots, Occupied
  <2>3. iflag' \in BOOLEAN /\ cr3' \in Pids \cup {KernelTable}
    BY <2>1, Zenon
  <2> QED BY <1>0, <2>1, <2>2, <2>3, Zenon DEF IInv, TypeOK, BootStays
<1>3. CASE queue # <<>>
  <2> DEFINE next == Head(queue)
  <2>1. /\ queue' = Append(Tail(queue), current)
        /\ resumeIF' = [resumeIF EXCEPT ![current] = e, ![next] = FALSE]
        /\ SwitchTo(next)
        /\ current' = next
    BY <1>3, Zenon DEF Rotate, SwitchTo
  <2>2. /\ next \in Slots /\ next \in Range(queue)
        /\ Tail(queue) \in Seq(Slots) /\ IsInjective(Tail(queue))
        /\ Range(Tail(queue)) = Range(queue) \ {next}
    BY <1>0, <1>3, TailQueue, Zenon
  <2>3. /\ queue' \in Seq(Slots) /\ IsInjective(queue')
        /\ Range(queue') = (Range(queue) \ {next}) \cup {current}
    <3>1. current \notin Range(Tail(queue))
      BY <1>0, <2>2, Zenon
    <3>2. /\ Append(Tail(queue), current) \in Seq(Slots)
          /\ IsInjective(Append(Tail(queue), current))
          /\ Range(Append(Tail(queue), current)) = Range(Tail(queue)) \cup {current}
      BY <1>0, <2>2, <3>1, AppendQueue, Zenon
    <3> QED BY <2>1, <2>2, <3>2, Zenon
  <2>4. /\ current' \in Slots /\ iflag' \in BOOLEAN
        /\ cr3' \in Pids \cup {KernelTable} /\ rsp0' \in Pids \cup {NoPid}
    <3>1. kind[next] # "none"
      BY <2>2, Zenon DEF IInv, RotationInv, Occupied
    <3> QED BY <2>1, <2>2, <3>1, SwitchTypes, Zenon
  <2>5. resumeIF' \in [Slots -> BOOLEAN]
    <3>1. resumeIF \in [Slots -> BOOLEAN]
      BY Zenon DEF IInv, TypeOK
    <3> QED BY <2>1, <3>1, Zenon
  <2>6. RotationInv'
    <3>1. current # next
      BY <1>0, <2>2, Zenon
    <3>2. Range(queue') \subseteq Occupied' \ {current', zombie'}
      BY <1>0, <1>1, <2>1, <2>3, <3>1, Zenon DEF IInv, RotationInv, NoThread, Slots
    <3>3. current' \in Occupied' \ {zombie'}
      BY <1>1, <2>1, <2>2, Zenon DEF IInv, RotationInv, NoThread, Slots
    <3>4. zombie' # NoThread => zombie' \in Occupied'
      BY <1>1, Zenon DEF IInv, RotationInv
    <3> QED BY <2>3, <3>2, <3>3, <3>4, Zenon DEF RotationInv
  <2>7. Boot = current' \/ Boot \in Range(queue')
    BY <2>1, <2>3, Zenon DEF IInv, BootStays
  <2> QED BY <2>3, <2>4, <2>5, <2>6, <2>7, Zenon
<1> QED BY <1>2, <1>3, Zenon

(* exit_current_thread: the thread leaves the queue for good, to a thread    *)
(* that is still in it.                                                      *)
LEMMA ExitKeeps ==
  ASSUME IInv, ExitCurrent,
         \/ kind' = kind
         \/ kind' = [s \in Slots |-> IF s = zombie THEN "none" ELSE kind[s]]
  PROVE  /\ queue' \in Seq(Slots)
         /\ current' \in Slots
         /\ zombie' \in Slots /\ zombie' # Boot
         /\ resumeIF' \in [Slots -> BOOLEAN]
         /\ iflag' \in BOOLEAN
         /\ cr3' \in Pids \cup {KernelTable}
         /\ rsp0' \in Pids \cup {NoPid}
         /\ RotationInv'
         /\ Boot = current' \/ Boot \in Range(queue')
<1> USE Constants
<1> DEFINE next == Head(queue)
<1>1. /\ queue \in Seq(Slots) /\ IsInjective(queue)
      /\ current \in Slots /\ current \notin Range(queue)
      /\ current \in Occupied \ {zombie}
      /\ Range(queue) \subseteq Occupied \ {zombie}
      /\ Occupied \subseteq Slots
  BY Zenon DEF IInv, TypeOK, RotationInv, Occupied
<1>2. Occupied \ {zombie} \subseteq Occupied'
  BY ReapClears, Zenon DEF Occupied
<1>3. /\ current # Boot /\ queue # <<>>
      /\ queue' = Tail(queue) /\ zombie' = current
      /\ resumeIF' = [resumeIF EXCEPT ![next] = FALSE]
      /\ SwitchTo(next) /\ current' = next
  BY Zenon DEF ExitCurrent, SwitchTo
<1>4. /\ next \in Slots /\ next \in Range(queue)
      /\ queue' \in Seq(Slots) /\ IsInjective(queue')
      /\ Range(queue') = Range(queue) \ {next}
  BY <1>1, <1>3, TailQueue, Zenon
<1>5. /\ current' \in Slots /\ iflag' \in BOOLEAN
      /\ cr3' \in Pids \cup {KernelTable} /\ rsp0' \in Pids \cup {NoPid}
  <2>1. kind[next] # "none"
    BY <1>1, <1>4, Zenon DEF Occupied
  <2> QED BY <1>3, <1>4, <2>1, SwitchTypes, Zenon
<1>6. resumeIF' \in [Slots -> BOOLEAN]
  <2>1. resumeIF \in [Slots -> BOOLEAN]
    BY Zenon DEF IInv, TypeOK
  <2> QED BY <1>3, <2>1, Zenon
<1>7. RotationInv'
  <2>1. Range(queue') \subseteq Occupied' \ {current', zombie'}
    BY <1>1, <1>2, <1>3, <1>4, Zenon
  <2>2. current' \in Occupied' \ {zombie'} /\ zombie' \in Occupied'
    BY <1>1, <1>2, <1>3, <1>4, Zenon
  <2> QED BY <1>4, <2>1, <2>2, Zenon DEF RotationInv
<1>8. Boot = current' \/ Boot \in Range(queue')
  BY <1>3, <1>4, Zenon DEF IInv, BootStays
<1> QED BY <1>1, <1>3, <1>4, <1>5, <1>6, <1>7, <1>8, Zenon

(* A step that leaves the thread table alone keeps what is said of it.       *)
LEMMA TableUnchanged ==
  ASSUME IInv, UNCHANGED tableVars
  PROVE  RotationInv' /\ Populated' /\ (op'[Boot] # "exit" => BootStays')
<1>1. RotationInv'
  BY Zenon DEF IInv, RotationInv, tableVars, Occupied, IsInjective, Range
<1>2. Populated'
  BY Zenon DEF IInv, Populated, tableVars
<1>3. op'[Boot] # "exit" => BootStays'
  BY Zenon DEF IInv, BootStays, tableVars, Range
<1> QED BY <1>1, <1>2, <1>3, Zenon

(* Every step of the scheduler keeps the invariant.                          *)
LEMMA NextIInv == IInv /\ [Next]_vars => IInv'
<1> SUFFICES ASSUME IInv, [Next]_vars PROVE IInv'
  BY Zenon
<1> USE Constants
<1>a. /\ TypeOK /\ RotationInv /\ BootStays /\ Populated
  BY Zenon DEF IInv
<1>1. ASSUME NEW s \in Slots, NEW o \in {"yield", "exit"}, Call(s, o) PROVE IInv'
  <2>1. TypeOK'
    BY <1>1, <1>a DEF Call, TypeOK, tableVars, cpuVars, memVars, Pids
  <2>2. op'[Boot] # "exit"
    BY <1>1, <1>a, Zenon DEF Call, TypeOK, BootStays
  <2> QED BY <1>1, <2>1, <2>2, TableUnchanged, Zenon DEF Call, IInv
<1>2. ASSUME NEW s \in Slots, ReapTake(s) PROVE IInv'
  <2>1. reaped' \in [Slots -> Pids \cup {NoPid}]
    <3>1. zombie # NoThread => Pid(zombie) \in Pids
      BY <1>a, OccupiedPid, Zenon DEF RotationInv, Occupied
    <3> QED BY <1>2, <1>a, <3>1, Zenon DEF ReapTake, TypeOK
  <2>2. TypeOK'
    BY <1>2, <1>a, <2>1, ReapClears DEF ReapTake, TypeOK, cpuVars, memVars, Pids
  <2>3. RotationInv'
    <3>1. /\ queue' = queue /\ current' = current /\ zombie' = NoThread
          /\ Occupied' = Occupied \ {zombie}
      BY <1>2, ReapClears, Zenon DEF ReapTake
    <3>2. NoThread \notin Occupied
      BY Zenon DEF Occupied
    <3> QED BY <1>a, <3>1, <3>2, Zenon DEF RotationInv
  <2>4. BootStays' /\ Populated'
    BY <1>2, <1>a, ReapClears, Zenon DEF ReapTake, BootStays, Range, NoThread, Slots
  <2> QED BY <2>2, <2>3, <2>4, Zenon DEF IInv
<1>3. ASSUME NEW s \in Slots, ReapForce(s) PROVE IInv'
  <2>1. TypeOK'
    BY <1>3, <1>a DEF ReapForce, TypeOK, tableVars, memVars, Pids
  <2> QED BY <1>3, <1>a, <2>1, TableUnchanged, Zenon DEF ReapForce, IInv, BootStays
<1>4. ASSUME NEW s \in Slots, ReapFree(s) PROVE IInv'
  <2>1. TypeOK'
    BY <1>4, <1>a DEF ReapFree, TypeOK, tableVars, cpuVars, Pids
  <2> QED BY <1>4, <1>a, <2>1, TableUnchanged, Zenon DEF ReapFree, IInv, BootStays
<1>20. ASSUME NEW s \in Slots, ReapFreeSpace(s) PROVE IInv'
  <2>1. TypeOK'
    BY <1>20, <1>a DEF ReapFreeSpace, TypeOK, tableVars, cpuVars, Pids
  <2> QED BY <1>20, <1>a, <2>1, TableUnchanged, Zenon DEF ReapFreeSpace, IInv, BootStays
<1>5. ASSUME NEW s \in Slots, Yield(s) PROVE IInv'
  <2>1. TypeOK' /\ RotationInv' /\ (Boot = current' \/ Boot \in Range(queue'))
    BY <1>5, <1>a, RotateKeeps DEF Yield, TypeOK, memVars, Pids
  <2>2. BootStays' /\ Populated'
    BY <1>5, <1>a, <2>1 DEF Yield, BootStays, Populated, TypeOK
  <2> QED BY <2>1, <2>2, Zenon DEF IInv
<1>6. ASSUME NEW s \in Slots, Exit(s) PROVE IInv'
  <2>1. TypeOK' /\ RotationInv' /\ zombie' # Boot /\ (Boot = current' \/ Boot \in Range(queue'))
    BY <1>6, <1>a, ExitKeeps DEF Exit, TypeOK, memVars, Pids
  <2>2. BootStays' /\ Populated'
    BY <1>6, <1>a, <2>1 DEF Exit, BootStays, Populated, TypeOK
  <2> QED BY <2>1, <2>2, Zenon DEF IInv
<1>7. ASSUME DemoPoll PROVE IInv'
  <2>1. /\ pc' \in [Slots -> {"fresh", "run", "reap", "force", "free", "free_space", "switch", "wait"}]
        /\ op' \in [Slots -> {"none", "yield", "exit"}]
        /\ waitFor' \in [Slots -> Pids \cup {NoPid}]
    <3>1. CASE thread_alive(waitFor[Boot])
      BY <1>7, <1>a, <3>1, Zenon DEF DemoPoll, TypeOK
    <3>2. CASE ~thread_alive(waitFor[Boot])
      BY <1>7, <1>a, <3>2, Zenon DEF DemoPoll, TypeOK
    <3> QED BY <3>1, <3>2, Zenon
  <2> TypeOK'
    BY <1>7, <1>a, <2>1, Zenon DEF DemoPoll, TypeOK, tableVars, cpuVars, memVars
  <2>2. op'[Boot] # "exit"
    BY <1>7, <1>a, Zenon DEF DemoPoll, TypeOK, BootStays
  <2> QED BY <1>7, <2>1, <2>2, TableUnchanged, Zenon DEF DemoPoll, IInv
<1>8. ASSUME NEW s \in Slots, Trampoline(s) PROVE IInv'
  <2>1. TypeOK'
    BY <1>8, <1>a DEF Trampoline, TypeOK, tableVars, memVars, Pids
  <2> QED BY <1>8, <1>a, <2>1, TableUnchanged, Zenon DEF Trampoline, IInv, BootStays
<1>9. ASSUME NEW s \in Slots, SysWaitYield(s) PROVE IInv'
  <2>1. SpaceAfterReap \in Pids \cup {KernelTable} /\ iflag \in BOOLEAN
    BY <1>a, Zenon DEF TypeOK, SpaceAfterReap
  <2>2. /\ kind' = [r \in Slots |-> IF r = zombie THEN "none" ELSE kind[r]]
        /\ zombie' = NoThread
        /\ stacks' \subseteq stacks /\ spaces' \subseteq spaces
        /\ UNCHANGED <<generation, pc, op, reaped, waitFor, panicked>>
        /\ Rotate(iflag, SpaceAfterReap)
    BY <1>9, Zenon DEF SysWaitYield, ReapZombie
  <2>3. TypeOK' /\ RotationInv' /\ (Boot = current' \/ Boot \in Range(queue'))
    BY <1>a, <2>1, <2>2, ReapClears, RotateKeeps DEF TypeOK, Pids
  <2>4. BootStays' /\ Populated'
    BY <1>a, <2>2, <2>3, ReapClears, Zenon DEF BootStays, NoThread, Boot
  <2> QED BY <2>3, <2>4, Zenon DEF IInv
<1>10. ASSUME NEW s \in Slots, SysWaitReturn(s) PROVE IInv'
  <2>1. TypeOK'
    BY <1>10, <1>a DEF SysWaitReturn, TypeOK, tableVars, memVars, Pids
  <2> QED BY <1>10, <1>a, <2>1, TableUnchanged, Zenon DEF SysWaitReturn, IInv, BootStays
<1>11. ASSUME NEW s \in Slots, SysExit(s) PROVE IInv'
  <2>1. /\ kind' = [r \in Slots |-> IF r = zombie THEN "none" ELSE kind[r]]
        /\ stacks' \subseteq stacks /\ spaces' \subseteq spaces
        /\ UNCHANGED <<generation, pc, op, reaped, waitFor, panicked>>
        /\ ExitCurrent
    BY <1>11, Zenon DEF SysExit, ReapZombie
  <2>2. TypeOK' /\ RotationInv' /\ zombie' # Boot /\ (Boot = current' \/ Boot \in Range(queue'))
    BY <1>a, <2>1, ReapClears, ExitKeeps DEF TypeOK, Pids
  <2>3. BootStays' /\ Populated'
    BY <1>a, <2>1, <2>2, ReapClears, Zenon DEF BootStays
  <2> QED BY <2>2, <2>3, Zenon DEF IInv
<1>12. ASSUME NEW s \in Slots, NEW pid \in IssuedPids, SysWait(s, pid) PROVE IInv'
  <2>1. pid \in Pids
    BY <1>a, IssuedArePids, Zenon
  <2>2. TypeOK'
    BY <1>12, <1>a, <2>1, Zenon DEF SysWait, TypeOK, tableVars, memVars
  <2> QED BY <1>12, <1>a, <2>2, TableUnchanged, Zenon DEF SysWait, IInv, BootStays
<1>13. ASSUME NEW pid \in IssuedPids, WaitForDemo(pid) PROVE IInv'
  <2>1. pid \in Pids
    BY <1>a, IssuedArePids, Zenon
  <2>2. TypeOK'
    BY <1>13, <1>a, <2>1 DEF WaitForDemo, TypeOK, tableVars, cpuVars, memVars, Pids
  <2> QED BY <1>13, <1>a, <2>2, TableUnchanged, Zenon DEF WaitForDemo, IInv, BootStays
<1>14. ASSUME NEW k \in Kinds, Spawn(k) PROVE IInv'
  <2> DEFINE id == FirstFree
  <2>1. /\ generation[id] < MaxGeneration
        /\ generation' = [generation EXCEPT ![id] = @ + 1]
        /\ kind' = [kind EXCEPT ![id] = k]
        /\ queue' = Append(queue, id)
        /\ pc' = [pc EXCEPT ![id] = "fresh"]
        /\ resumeIF' = [resumeIF EXCEPT ![id] = FALSE]
        /\ stacks' = stacks \cup {NewPid(id)}
        /\ spaces' = IF k = "kernel" THEN spaces ELSE spaces \cup {NewPid(id)}
        /\ UNCHANGED <<current, zombie, op, reaped, waitFor, cpuVars, panicked>>
        /\ FreeSlots # {}
    BY <1>14, Zenon DEF Spawn
  <2>2. id \in Slots /\ kind[id] = "none"
    BY <2>1, FirstFreeIsFree, Zenon DEF FreeSlots
  <2> HIDE DEF id
  <2>3. /\ id \notin Occupied /\ id \notin Range(queue)
        /\ id # Boot /\ id # zombie /\ id # current
        /\ queue \in Seq(Slots) /\ IsInjective(queue)
    BY <1>a, <2>2, Zenon DEF RotationInv, BootStays, Occupied, TypeOK
  <2>4. /\ queue' \in Seq(Slots) /\ IsInjective(queue')
        /\ Range(queue') = Range(queue) \cup {id}
    BY <2>1, <2>2, <2>3, AppendQueue, Zenon
  <2>5. generation[id] + 1 \in 1 .. MaxGeneration
    BY <1>a, <2>1, <2>2 DEF TypeOK
  <2>6. NewPid(id) \in Pids
    BY <2>2, <2>5, PackedPid, Zenon DEF NewPid
  <2>7. generation' \in [Slots -> 0 .. MaxGeneration]
    BY <1>a, <2>1, <2>2, <2>5 DEF TypeOK
  <2>8. TypeOK'
    BY <1>a, <2>1, <2>2, <2>4, <2>6, <2>7, Zenon DEF TypeOK, cpuVars
  <2>9. RotationInv'
    <3>1. Occupied' = Occupied \cup {id}
      BY <1>a, <2>1, <2>2 DEF Occupied, TypeOK
    <3> QED BY <1>a, <2>1, <2>2, <2>3, <2>4, <3>1, Zenon DEF RotationInv
  <2>10. BootStays'
    BY <1>a, <2>1, <2>3, <2>4, Zenon DEF BootStays, TypeOK
  <2>11. Populated'
    BY <1>a, <2>1, <2>2, <2>5 DEF Populated, TypeOK
  <2> QED BY <2>8, <2>9, <2>10, <2>11, Zenon DEF IInv
<1>15. ASSUME SpawnPanics PROVE IInv'
  <2>1. TypeOK'
    BY <1>15, <1>a DEF SpawnPanics, TypeOK, tableVars, localVars, cpuVars, memVars, Pids
  <2> QED BY <1>15, <1>a, <2>1, TableUnchanged, Zenon DEF SpawnPanics, localVars, IInv, BootStays
<1>16. ASSUME Tick PROVE IInv'
  <2>1. SpaceAfterReap \in Pids \cup {KernelTable}
    BY <1>a, Zenon DEF TypeOK, SpaceAfterReap
  <2>2. /\ kind' = [r \in Slots |-> IF r = zombie THEN "none" ELSE kind[r]]
        /\ zombie' = NoThread
        /\ stacks' \subseteq stacks /\ spaces' \subseteq spaces
        /\ UNCHANGED <<generation, pc, op, reaped, waitFor, panicked>>
        /\ Rotate(TRUE, SpaceAfterReap)
    BY <1>16, Zenon DEF Tick, ReapZombie
  <2>3. PICK e \in BOOLEAN : Rotate(e, SpaceAfterReap)
    BY <2>2, Zenon
  <2> TypeOK' /\ RotationInv' /\ (Boot = current' \/ Boot \in Range(queue'))
    BY <1>a, <2>1, <2>2, <2>3, ReapClears, RotateKeeps DEF TypeOK, Pids
  <2>4. BootStays' /\ Populated'
    BY <1>a, <2>2, ReapClears, Zenon DEF BootStays, NoThread, Boot
  <2> QED BY <2>4, Zenon DEF IInv
<1>17. ASSUME UNCHANGED vars PROVE IInv'
  <2>1. TypeOK'
    BY <1>17, <1>a DEF vars, TypeOK, tableVars, localVars, cpuVars, memVars, Pids
  <2> QED BY <1>17, <1>a, <2>1, TableUnchanged, Zenon DEF vars, localVars, IInv, BootStays
<1> QED
  BY <1>1, <1>2, <1>3, <1>4, <1>5, <1>6, <1>7, <1>8, <1>9, <1>10, <1>11, <1>12,
     <1>13, <1>14, <1>15, <1>16, <1>17, <1>20, Zenon
  DEF Next, KernelStep, ProgramStep, Halted

-----------------------------------------------------------------------------
(* IInv holds in every state of the scheduler.                             *)
LEMMA SpecIInv == Spec => []IInv
BY InitIInv, NextIInv, PTL DEF Spec

(* The variables keep the types of the code's fields; every stack, address   *)
(* space and wait belongs to a pid that was issued.                          *)
THEOREM TypeCorrect == Spec => []TypeOK
<1>1. IInv => TypeOK
  BY Zenon DEF IInv
<1> QED BY <1>1, SpecIInv, PTL

(* schedule and exit_current_thread only ever switch to a live thread that   *)
(* has not exited, whatever threads exit and however they do.                *)
THEOREM RotationSound == Spec => []RotationInv
<1>1. IInv => RotationInv
  BY Zenon DEF IInv
<1> QED BY <1>1, SpecIInv, PTL

(* "ready queue full", "the boot thread can't exit" and "no other thread     *)
(* left to run" are unreachable, for every size of the thread table.         *)
THEOREM AssertionsUnreachable == Spec => []AssertionsHold
<1>1. ASSUME IInv PROVE AssertionsHold
  <2>1. /\ queue \in Seq(Slots) /\ IsInjective(queue)
        /\ current \in Slots /\ current \notin Range(queue)
    BY <1>1, Zenon DEF IInv, TypeOK, RotationInv
  <2>2. Len(queue) < MAX_THREADS
    BY <2>1, QueueHasRoom, Zenon
  <2> QED BY <1>1, <2>2, Zenon DEF IInv, BootStays, AssertionsHold
<1> QED BY <1>1, SpecIInv, PTL

-----------------------------------------------------------------------------
(* Pids.                                                                   *)

(* A slot fits in the low byte of a pid, so unpacking undoes packing.      *)
LEMMA Unpacks ==
  ASSUME NEW s \in Slots, NEW g \in Nat
  PROVE  /\ unpack_pid(pack_pid(s, g)).slot = s
         /\ unpack_pid(pack_pid(s, g)).generation = g
<1>1. s \in 0 .. 255
  BY SchedulerAssumption DEF Slots
<1>2. (g * 256 + s) % 256 = s /\ (g * 256 + s) \div 256 = g
  BY <1>1
<1> QED BY <1>2, Zenon DEF unpack_pid, pack_pid

(* pack_pid loses nothing: a pid determines its slot and its generation.   *)
LEMMA PackInjective ==
  ASSUME NEW r \in Slots, NEW s \in Slots, NEW g \in Nat, NEW h \in Nat,
         pack_pid(r, g) = pack_pid(s, h)
  PROVE  r = s /\ g = h
BY Unpacks

(* No pid is the value that stands for none.                               *)
LEMMA PidsPositive == NoPid \notin Pids
<1> SUFFICES ASSUME NEW s \in Slots, NEW g \in 1 .. MaxGeneration
             PROVE  pack_pid(s, g) # 0
  BY DEF Pids, NoPid
<1>1. s \in Nat /\ g \in Nat \ {0}
  BY Constants DEF Slots
<1> QED BY <1>1 DEF pack_pid

(* A pid is alive while its slot holds the thread it was issued for.       *)
LEMMA AliveMeans ==
  ASSUME NEW s \in Slots, NEW g \in Nat
  PROVE  thread_alive(pack_pid(s, g)) <=> kind[s] # "none" /\ generation[s] = g
<1>1. s < MAX_THREADS
  BY Constants DEF Slots
<1> QED BY <1>1, Unpacks DEF thread_alive

(* What thread_alive says of a pid after a step.                           *)
LEMMA AliveMeansNext ==
  ASSUME NEW s \in Slots, NEW g \in Nat
  PROVE  thread_alive(pack_pid(s, g))' <=> kind'[s] # "none" /\ generation'[s] = g
<1>1. s < MAX_THREADS
  BY Constants DEF Slots
<1> QED BY <1>1, Unpacks DEF thread_alive

(* Distinct occupied slots have distinct pids.                             *)
LEMMA PidInjective ==
  ASSUME TypeOK, NEW r \in Slots, NEW s \in Slots, Pid(r) = Pid(s)
  PROVE  r = s
BY PackInjective DEF Pid, TypeOK

(* Every step but Spawn only ever empties slots.                           *)
Empties ==
  /\ generation' = generation
  /\ \A s \in Slots : kind'[s] \in {kind[s], "none"}

(* A step empties slots, or leaves the table as it is, unless it is a      *)
(* spawn.                                                                  *)
LEMMA EmptiesOrSpawns ==
  ASSUME IInv, [Next]_vars
  PROVE  Empties \/ \E k \in Kinds : Spawn(k)
<1>1. (\E k \in Kinds : Spawn(k))
      \/ (generation' = generation
          /\ \/ kind' = kind
             \/ kind' = [r \in Slots |-> IF r = zombie THEN "none" ELSE kind[r]])
  <2>1. ASSUME NEW s \in Slots, KernelStep(s) PROVE
          generation' = generation
          /\ \/ kind' = kind
             \/ kind' = [r \in Slots |-> IF r = zombie THEN "none" ELSE kind[r]]
    BY <2>1, Zenon DEF KernelStep, ReapTake, ReapForce, ReapFree, ReapFreeSpace,
          Yield, Exit, DemoPoll, Trampoline,
                SysWaitYield, SysWaitReturn, ReapZombie, tableVars
  <2>2. ASSUME NEW s \in Slots, ProgramStep(s) PROVE
          generation' = generation
          /\ \/ kind' = kind
             \/ kind' = [r \in Slots |-> IF r = zombie THEN "none" ELSE kind[r]]
    BY <2>2, Zenon DEF ProgramStep, Call, SysExit, SysWait, ReapZombie, tableVars
  <2>3. ASSUME (\E pid \in IssuedPids : WaitForDemo(pid)) \/ SpawnPanics \/ Tick \/ UNCHANGED vars
        PROVE generation' = generation
          /\ \/ kind' = kind
             \/ kind' = [r \in Slots |-> IF r = zombie THEN "none" ELSE kind[r]]
    BY <2>3, Zenon DEF WaitForDemo, SpawnPanics, Tick, ReapZombie, vars, tableVars
  <2> QED BY <2>1, <2>2, <2>3, Zenon DEF Next, Halted
<1>2. kind \in [Slots -> Kinds \cup {"none"}]
  BY Zenon DEF IInv, TypeOK
<1> QED BY <1>1, <1>2, Zenon DEF Empties

(* What Spawn does: see there for the code.                                *)
LEMMA SpawnPlace ==
  ASSUME IInv, NEW k \in Kinds, Spawn(k)
  PROVE  \E id \in Slots :
           /\ kind[id] = "none"
           /\ id # Boot /\ id # current /\ id # zombie /\ id \notin Range(queue)
           /\ generation[id] \in Nat /\ generation[id] + 1 \in 1 .. MaxGeneration
           /\ generation' = [generation EXCEPT ![id] = generation[id] + 1]
           /\ kind' = [kind EXCEPT ![id] = k]
           /\ queue' = Append(queue, id)
           /\ Range(queue') = Range(queue) \cup {id}
           /\ pc' = [pc EXCEPT ![id] = "fresh"]
           /\ resumeIF' = [resumeIF EXCEPT ![id] = FALSE]
           /\ stacks' = stacks \cup {pack_pid(id, generation[id] + 1)}
           /\ spaces' = IF k = "kernel" THEN spaces
                        ELSE spaces \cup {pack_pid(id, generation[id] + 1)}
           /\ UNCHANGED <<current, zombie, op, reaped, waitFor, iflag, cr3, rsp0, panicked>>
           /\ ~panicked
<1> DEFINE id == FirstFree
<1>1. id \in Slots /\ kind[id] = "none"
  BY FirstFreeIsFree, Zenon DEF Spawn, FreeSlots
<1>2. /\ generation[id] < MaxGeneration
      /\ generation' = [generation EXCEPT ![id] = generation[id] + 1]
      /\ kind' = [kind EXCEPT ![id] = k]
      /\ queue' = Append(queue, id)
      /\ pc' = [pc EXCEPT ![id] = "fresh"]
      /\ resumeIF' = [resumeIF EXCEPT ![id] = FALSE]
      /\ stacks' = stacks \cup {pack_pid(id, generation[id] + 1)}
      /\ spaces' = IF k = "kernel" THEN spaces
                   ELSE spaces \cup {pack_pid(id, generation[id] + 1)}
      /\ UNCHANGED <<current, zombie, op, reaped, waitFor, iflag, cr3, rsp0, panicked>>
      /\ ~panicked
  BY Zenon DEF Spawn, NewPid, cpuVars, MaySpawn, At
<1> HIDE DEF id
<1>3. /\ id # Boot /\ id # current /\ id # zombie /\ id \notin Range(queue)
      /\ queue \in Seq(Slots) /\ IsInjective(queue)
  <2>1. queue \in Seq(Slots) /\ IsInjective(queue)
    BY Zenon DEF IInv, RotationInv, TypeOK
  <2>2. current \in Occupied /\ Range(queue) \subseteq Occupied
        /\ (zombie = NoThread \/ zombie \in Occupied)
    BY Zenon DEF IInv, RotationInv
  <2>3. id \notin Occupied /\ Boot \in Occupied
    BY <1>1, <2>2, Zenon DEF IInv, BootStays, Occupied
  <2> QED BY <1>1, <2>1, <2>2, <2>3, Constants, Zenon
<1>4. Range(queue') = Range(queue) \cup {id}
  BY <1>1, <1>2, <1>3, AppendQueue
<1>5. generation[id] \in Nat /\ generation[id] + 1 \in 1 .. MaxGeneration
  BY <1>1, <1>2, Constants DEF IInv, TypeOK
<1> QED BY <1>1, <1>2, <1>3, <1>4, <1>5, Zenon

(* A pid that has been issued stays issued, and once dead stays dead.      *)
LEMMA IssuedStays ==
  ASSUME IInv, [Next]_vars, NEW p \in IssuedPids
  PROVE  p \in IssuedPids' /\ (~thread_alive(p) => ~thread_alive(p)')
<1>0. PICK s \in Slots : p \in {pack_pid(s, h) : h \in 1 .. generation[s]}
  BY Zenon DEF IssuedPids
<1>1. PICK g \in 1 .. generation[s] : p = pack_pid(s, g)
  BY <1>0, Zenon
<1>2. generation[s] \in Nat /\ g \in Nat /\ g <= generation[s]
  BY <1>1 DEF IInv, TypeOK
<1>3. thread_alive(p) <=> kind[s] # "none" /\ generation[s] = g
  BY <1>1, <1>2, AliveMeans, Zenon
<1>4. thread_alive(p)' <=> kind'[s] # "none" /\ generation'[s] = g
  BY <1>1, <1>2, AliveMeansNext, Zenon
<1>5. generation'[s] \in Nat /\ generation'[s] >= generation[s]
      /\ (generation'[s] = generation[s] => kind'[s] \in {kind[s], "none"})
  <2>1. CASE Empties
    BY <1>2, <2>1 DEF Empties
  <2>2. ASSUME NEW k \in Kinds, Spawn(k)
        PROVE  generation'[s] \in Nat /\ generation'[s] >= generation[s]
               /\ (generation'[s] = generation[s] => kind'[s] \in {kind[s], "none"})
    <3>1. PICK id \in Slots :
            /\ generation[id] \in Nat
            /\ generation' = [generation EXCEPT ![id] = generation[id] + 1]
            /\ kind' = [kind EXCEPT ![id] = k]
      BY <2>2, SpawnPlace, Zenon
    <3>2. kind \in [Slots -> Kinds \cup {"none"}] /\ generation \in [Slots -> 0 .. MaxGeneration]
      BY Zenon DEF IInv, TypeOK
    <3> QED BY <1>2, <3>1, <3>2
  <2> QED BY <2>1, <2>2, EmptiesOrSpawns, Zenon
<1>6. p \in IssuedPids'
  <2>1. g \in 1 .. generation'[s]
    BY <1>1, <1>2, <1>5
  <2> QED BY <1>1, <2>1 DEF IssuedPids
<1>7. ASSUME ~thread_alive(p) PROVE ~thread_alive(p)'
  BY <1>2, <1>3, <1>4, <1>5, <1>7
<1> QED BY <1>6, <1>7, Zenon

(* A pid that has stopped being alive is never alive again, however often  *)
(* its slot is used again (up to the bound on generations): a wait loop    *)
(* that polls thread_alive seldom cannot take a newcomer for its child.    *)
THEOREM PidsNeverRevive == Spec => DeadStaysDead
<1>1. ASSUME IInv, [Next]_vars
      PROVE  [\A p \in IssuedPids : ~thread_alive(p) => ~thread_alive(p)']_vars
  BY <1>1, IssuedStays, Zenon
<1> QED BY <1>1, SpecIInv, PTL DEF Spec, DeadStaysDead

-----------------------------------------------------------------------------
(* Who runs next.                                                          *)

(* schedule either finds nobody else, and then the boot thread goes on, or *)
(* switches to a thread of the queue and queues the one it leaves.         *)
LEMMA RotateLeadsTo ==
  ASSUME IInv, NEW e, NEW sp, Rotate(e, sp)
  PROVE  \/ /\ current = Boot
            /\ UNCHANGED <<queue, current, resumeIF, rsp0>>
            /\ iflag' = e /\ cr3' = sp
         \/ \E next \in Range(queue) :
              /\ next \in Slots /\ next # current /\ next # zombie /\ kind[next] # "none"
              /\ SwitchTo(next)
              /\ Range(queue') = (Range(queue) \ {next}) \cup {current}
              /\ resumeIF' = [resumeIF EXCEPT ![current] = e, ![next] = FALSE]
<1>0. /\ queue \in Seq(Slots) /\ IsInjective(queue)
      /\ current \in Slots /\ current \notin Range(queue)
      /\ Range(queue) \subseteq Occupied \ {zombie}
  BY Zenon DEF IInv, TypeOK, RotationInv
<1>1. CASE queue = <<>>
  <2>1. Range(queue) = {}
    BY <1>1 DEF Range
  <2>2. current = Boot
    BY <2>1, Zenon DEF IInv, BootStays
  <2>3. UNCHANGED <<queue, current, resumeIF, rsp0>> /\ iflag' = e /\ cr3' = sp
    BY <1>1, Zenon DEF Rotate
  <2> QED BY <2>2, <2>3, Zenon
<1>2. CASE queue # <<>>
  <2> DEFINE next == Head(queue)
  <2>1. /\ queue' = Append(Tail(queue), current)
        /\ resumeIF' = [resumeIF EXCEPT ![current] = e, ![next] = FALSE]
        /\ SwitchTo(next)
    BY <1>2, Zenon DEF Rotate
  <2>2. /\ next \in Slots /\ next \in Range(queue)
        /\ Tail(queue) \in Seq(Slots) /\ IsInjective(Tail(queue))
        /\ Range(Tail(queue)) = Range(queue) \ {next}
    BY <1>0, <1>2, TailQueue, Zenon
  <2>3. Range(Append(Tail(queue), current)) = Range(Tail(queue)) \cup {current}
    <3>1. /\ Tail(queue) \in Seq(Slots) /\ IsInjective(Tail(queue))
          /\ current \in Slots /\ current \notin Range(Tail(queue))
      BY <1>0, <2>2, Zenon
    <3>2. /\ Append(Tail(queue), current) \in Seq(Slots)
          /\ IsInjective(Append(Tail(queue), current))
          /\ Range(Append(Tail(queue), current)) = Range(Tail(queue)) \cup {current}
      BY <3>1, AppendQueue
    <3> QED BY <3>2, Zenon
  <2>4. next # current /\ next # zombie /\ kind[next] # "none"
    BY <1>0, <2>2, Zenon DEF Occupied
  <2> HIDE DEF next
  <2>5. Range(queue') = (Range(queue) \ {next}) \cup {current}
    BY <2>1, <2>2, <2>3, Zenon
  <2> QED BY <2>1, <2>2, <2>4, <2>5, Zenon
<1> QED BY <1>1, <1>2, Zenon

(* exit_current_thread switches to a thread of the queue.                  *)
LEMMA ExitLeadsTo ==
  ASSUME IInv, ExitCurrent
  PROVE  \E next \in Range(queue) :
           /\ next \in Slots /\ next # current /\ next # zombie /\ kind[next] # "none"
           /\ SwitchTo(next)
           /\ Range(queue') = Range(queue) \ {next}
           /\ resumeIF' = [resumeIF EXCEPT ![next] = FALSE]
           /\ zombie' = current
<1>0. /\ queue \in Seq(Slots) /\ IsInjective(queue)
      /\ current \in Slots /\ current \notin Range(queue)
      /\ Range(queue) \subseteq Occupied \ {zombie}
  BY Zenon DEF IInv, TypeOK, RotationInv
<1> DEFINE next == Head(queue)
<1>1. /\ queue # <<>> /\ queue' = Tail(queue) /\ SwitchTo(next) /\ zombie' = current
      /\ resumeIF' = [resumeIF EXCEPT ![next] = FALSE]
  BY Zenon DEF ExitCurrent
<1>2. /\ next \in Slots /\ next \in Range(queue)
      /\ Range(Tail(queue)) = Range(queue) \ {next}
  BY <1>0, <1>1, TailQueue, Zenon
<1>3. next # current /\ next # zombie /\ kind[next] # "none"
  BY <1>0, <1>2, Zenon DEF Occupied
<1> HIDE DEF next
<1> QED BY <1>1, <1>2, <1>3, Zenon

-----------------------------------------------------------------------------
(* Memory.                                                                 *)

(* What reap_zombie has taken out of the table was issued and is dead, no  *)
(* two callers hold the same thread, and only callers inside reap_zombie   *)
(* hold one.                                                               *)
DeadOnly ==
  \A s \in Slots : reaped[s] # NoPid =>
    reaped[s] \in IssuedPids /\ ~thread_alive(reaped[s])
TakenOnce ==
  \A r, s \in Slots : r # s /\ reaped[r] = reaped[s] => reaped[r] = NoPid
TakenInReap ==
  ~panicked => \A s \in Slots : reaped[s] # NoPid <=> pc[s] \in {"force", "free", "free_space"}

(* A slot outside the rotation is not inside reap_zombie.                  *)
OutOfRotation ==
  \A s \in Slots : s # current /\ s \notin Range(queue) => pc[s] = "run"

ThreadPids == {Pid(s) : s \in Occupied \ {Boot}}

Accounted ==
  /\ stacks = (ThreadPids \cup BeingReaped) \ StackGone
  /\ spaces \subseteq ThreadPids \cup BeingReaped
  /\ StackGone \subseteq spaces
  /\ \A s \in Occupied : kind[s] # "kernel" => Pid(s) \in spaces
  /\ cr3 \in spaces \cup {KernelTable}

ReapInv == DeadOnly /\ TakenOnce /\ TakenInReap /\ OutOfRotation
MemInv == IInv /\ ReapInv /\ Accounted

(* An occupied slot's pid has been issued and is alive, so reap_zombie     *)
(* holds none of them.                                                     *)
LEMMA OccupiedAlive ==
  ASSUME IInv, NEW s \in Slots, kind[s] # "none"
  PROVE  Pid(s) \in IssuedPids /\ thread_alive(Pid(s)) /\ Pid(s) # NoPid
<1>1. generation[s] \in Nat /\ generation[s] >= 1
  BY DEF IInv, TypeOK, Populated
<1>2. generation[s] \in 1 .. generation[s]
  BY <1>1
<1>3. Pid(s) \in IssuedPids
  BY <1>2 DEF Pid, IssuedPids
<1>4. thread_alive(Pid(s))
  BY <1>1, AliveMeans, Zenon DEF Pid
<1>5. Pid(s) # NoPid
  BY <1>3, PidsPositive, IssuedArePids, Zenon DEF IInv
<1> QED BY <1>3, <1>4, <1>5, Zenon

(* A thread in the table is not one that a caller of reap_zombie has taken *)
(* out.                                                                    *)
LEMMA ThreadsNotReaped ==
  ASSUME IInv, DeadOnly, NEW s \in Slots, kind[s] # "none"
  PROVE  Pid(s) \notin BeingReaped
BY OccupiedAlive, Zenon DEF DeadOnly, BeingReaped

(* At boot no stack or address space but the boot thread's is in use.      *)
LEMMA InitMemInv == Init => MemInv
<1> SUFFICES ASSUME Init PROVE MemInv
  BY Zenon
<1>1. IInv
  BY InitIInv, Zenon
<1>2. ReapInv
  BY Zenon DEF Init, ReapInv, DeadOnly, TakenOnce, TakenInReap, OutOfRotation
<1>3. BeingReaped = {}
  BY Zenon DEF Init, BeingReaped
<1>4. Occupied = {Boot}
  BY Constants, Zenon DEF Init, Occupied
<1>5. StackGone = {}
  BY Zenon DEF Init, StackGone
<1>6. Accounted
  BY <1>3, <1>4, <1>5, Constants, Zenon DEF Init, Accounted, ThreadPids
<1> QED BY <1>1, <1>2, <1>6, Zenon DEF MemInv

(* Threads that stay dead.                                                 *)
LEMMA DeadOnlyKept ==
  ASSUME IInv, [Next]_vars, DeadOnly,
         NEW s \in Slots, reaped'[s] \in {reaped[s], NoPid}, reaped'[s] # NoPid
  PROVE  reaped'[s] \in IssuedPids' /\ ~thread_alive(reaped[s])'
<1>1. reaped'[s] = reaped[s] /\ reaped[s] \in IssuedPids /\ ~thread_alive(reaped[s])
  BY Zenon DEF DeadOnly
<1>2. reaped[s] \in IssuedPids' /\ ~thread_alive(reaped[s])'
  BY <1>1, IssuedStays, Zenon
<1> QED BY <1>1, <1>2, Zenon

(* The stacks that are gone before their address spaces, after a step that *)
(* begins and ends no such interval.                                       *)
LEMMA GoneKept ==
  ASSUME \A r \in Slots : pc'[r] = "free_space" <=> pc[r] = "free_space",
         \A r \in Slots : pc[r] = "free_space" => reaped'[r] = reaped[r]
  PROVE  StackGone' = StackGone
<1>1. ASSUME NEW p \in StackGone PROVE p \in StackGone'
  BY <1>1, Zenon DEF StackGone
<1>2. ASSUME NEW p \in StackGone' PROVE p \in StackGone
  <2>1. PICK r \in Slots : pc'[r] = "free_space" /\ p = reaped'[r]
    BY <1>2, Zenon DEF StackGone
  <2> QED BY <2>1, Zenon DEF StackGone
<1> QED BY <1>1, <1>2, Zenon

(* Steps that touch neither the table nor memory.                          *)
LEMMA QuietKeeps ==
  ASSUME MemInv, [Next]_vars, UNCHANGED <<tableVars, reaped, memVars>>,
         cr3' \in {cr3, KernelTable},
         ~panicked' => ~panicked,
         \A s \in Slots : \/ pc'[s] = pc[s]
                          \/ /\ s = current
                             /\ pc[s] \in {"force", "free"} <=> pc'[s] \in {"force", "free"}
                             /\ pc[s] # "free_space" /\ pc'[s] # "free_space"
  PROVE  ReapInv' /\ Accounted'
<1>0. IInv /\ DeadOnly /\ TakenOnce /\ TakenInReap /\ OutOfRotation /\ Accounted
  BY Zenon DEF MemInv, ReapInv
<1>1. DeadOnly'
  BY <1>0, DeadOnlyKept, Zenon DEF DeadOnly
<1>2. TakenOnce' /\ TakenInReap' /\ OutOfRotation'
  BY <1>0, Zenon DEF TakenOnce, TakenInReap, OutOfRotation, tableVars, Range
<1>3. ThreadPids' = ThreadPids /\ BeingReaped' = BeingReaped /\ Occupied' = Occupied
  BY Zenon DEF ThreadPids, BeingReaped, Occupied, Pid, tableVars
<1>5. StackGone' = StackGone
  BY Zenon DEF StackGone
<1>4. Accounted'
  BY <1>0, <1>3, <1>5, Zenon DEF Accounted, Pid, tableVars, memVars
<1> QED BY <1>1, <1>2, <1>4, Zenon DEF ReapInv

(* Steps that only give the CPU to another thread.                         *)
LEMMA SwitchKeeps ==
  ASSUME MemInv, [Next]_vars, UNCHANGED <<kind, generation, reaped, memVars>>,
         cr3' = cr3 \/ \E next \in Slots : kind[next] # "none" /\ cr3' = page_table(next),
         ~panicked' => ~panicked,
         \A s \in Slots : pc'[s] = pc[s] \/ (pc[s] = "switch" /\ pc'[s] = "run"),
         \A s \in Slots : s # current' /\ s \notin Range(queue') =>
                            (s # current /\ s \notin Range(queue)) \/ pc'[s] = "run"
  PROVE  ReapInv' /\ Accounted'
<1>0. IInv /\ DeadOnly /\ TakenOnce /\ TakenInReap /\ OutOfRotation /\ Accounted
  BY Zenon DEF MemInv, ReapInv
<1>1. DeadOnly'
  BY <1>0, DeadOnlyKept, Zenon DEF DeadOnly
<1>2. TakenOnce' /\ TakenInReap' /\ OutOfRotation'
  BY <1>0, Zenon DEF TakenOnce, TakenInReap, OutOfRotation
<1>3. ThreadPids' = ThreadPids /\ BeingReaped' = BeingReaped /\ Occupied' = Occupied
  BY Zenon DEF ThreadPids, BeingReaped, Occupied, Pid
<1>4. cr3' \in spaces \cup {KernelTable}
  BY <1>0, Zenon DEF Accounted, page_table, Occupied
<1>6. StackGone' = StackGone
  BY Zenon DEF StackGone
<1>5. Accounted'
  BY <1>0, <1>3, <1>4, <1>6, Zenon DEF Accounted, Pid, memVars
<1> QED BY <1>1, <1>2, <1>5, Zenon DEF ReapInv

(* The pids of the threads when the zombie's slot is cleared.              *)
LEMMA ClearingZombie ==
  ASSUME IInv, generation' = generation, zombie # NoThread,
         kind' = [s \in Slots |-> IF s = zombie THEN "none" ELSE kind[s]]
  PROVE  /\ ThreadPids' = ThreadPids \ {Pid(zombie)}
         /\ Pid(zombie) \in ThreadPids
         /\ Pid(zombie) # NoPid
         /\ \A s \in Occupied' : s \in Occupied /\ kind'[s] = kind[s] /\ Pid(s) # Pid(zombie)
<1>1. zombie \in Slots /\ kind[zombie] # "none" /\ zombie # Boot
  BY Zenon DEF IInv, RotationInv, BootStays, Occupied
<1>2. \A r, s \in Slots : Pid(r) = Pid(s) => r = s
  BY PidInjective, Zenon DEF IInv
<1>3. Pid(zombie) # NoPid
  BY <1>1, OccupiedAlive, Zenon
<1>4. \A s : Pid(s)' = Pid(s)
  BY Zenon DEF Pid
<1>5. Occupied' = Occupied \ {zombie} /\ \A s \in Occupied' : kind'[s] = kind[s]
  BY Zenon DEF Occupied
<1>6. Occupied \subseteq Slots
  BY Zenon DEF Occupied
<1>7. ThreadPids' = {Pid(s) : s \in Occupied \ {zombie, Boot}}
  BY <1>4, <1>5, Zenon DEF ThreadPids
<1>8. ThreadPids' = ThreadPids \ {Pid(zombie)}
  BY <1>1, <1>2, <1>6, <1>7, Zenon DEF ThreadPids
<1>9. Pid(zombie) \in ThreadPids
  BY <1>1, Zenon DEF ThreadPids, Occupied
<1> QED BY <1>1, <1>2, <1>3, <1>5, <1>6, <1>8, <1>9, Zenon

(* reap_zombie with interrupts off, followed by a switch.                  *)
LEMMA ReapZombieKeeps ==
  ASSUME MemInv, [Next]_vars, ReapZombie, UNCHANGED <<generation, pc, reaped>>,
         \/ cr3' = SpaceAfterReap
         \/ \E next \in Slots : next # zombie /\ kind[next] # "none" /\ cr3' = page_table(next),
         ~panicked' => ~panicked,
         \A s \in Slots : s # current' /\ s \notin Range(queue') =>
                            (s # current /\ s \notin Range(queue)) \/ pc[s] = "run"
  PROVE  ReapInv' /\ Accounted'
<1>0. IInv /\ DeadOnly /\ TakenOnce /\ TakenInReap /\ OutOfRotation /\ Accounted
  BY Zenon DEF MemInv, ReapInv
<1>1. DeadOnly'
  BY <1>0, DeadOnlyKept, Zenon DEF DeadOnly
<1>2. TakenOnce' /\ TakenInReap' /\ OutOfRotation'
  BY <1>0, Zenon DEF TakenOnce, TakenInReap, OutOfRotation
<1>3. kind' = [s \in Slots |-> IF s = zombie THEN "none" ELSE kind[s]]
  BY Zenon DEF ReapZombie
<1>4. BeingReaped' = BeingReaped /\ StackGone' = StackGone
  BY Zenon DEF BeingReaped, StackGone
<1>5. Accounted'
  <2>1. CASE zombie = NoThread
    <3>1. kind \in [Slots -> Kinds \cup {"none"}] /\ zombie \notin Slots
          /\ NoPid \notin stacks /\ NoPid \notin spaces
      BY <1>0, <2>1, Constants, PidsPositive, Zenon DEF IInv, TypeOK
    <3>2. kind' = kind
      BY <1>3, <3>1, Zenon
    <3>3. stacks' = stacks /\ spaces' = spaces
      BY <2>1, <3>1, Zenon DEF ReapZombie
    <3>4. ThreadPids' = ThreadPids /\ Occupied' = Occupied
      BY <3>2, Zenon DEF ThreadPids, Occupied, Pid
    <3>5. cr3' \in spaces \cup {KernelTable}
      BY <1>0, <2>1, Zenon DEF Accounted, page_table, Occupied, SpaceAfterReap
    <3> QED BY <1>0, <1>4, <3>2, <3>3, <3>4, <3>5, Zenon DEF Accounted, Pid
  <2>2. CASE zombie # NoThread
    <3>1. /\ ThreadPids' = ThreadPids \ {Pid(zombie)}
          /\ \A s \in Occupied' : s \in Occupied /\ kind'[s] = kind[s] /\ Pid(s) # Pid(zombie)
      BY <1>0, <1>3, <2>2, ClearingZombie, Zenon
    <3>2. stacks' = stacks \ {Pid(zombie)} /\ spaces' = spaces \ {Pid(zombie)}
      BY <2>2, Zenon DEF ReapZombie
    <3>3. zombie \in Slots /\ kind[zombie] # "none"
      BY <1>0, <2>2, Zenon DEF IInv, RotationInv, Occupied
    <3>4. Pid(zombie) \notin BeingReaped
      BY <1>0, <3>3, ThreadsNotReaped, Zenon
    <3>5. cr3' \in spaces' \cup {KernelTable}
      <4>1. CASE cr3' = SpaceAfterReap
        BY <2>2, <4>1, Zenon DEF SpaceAfterReap
      <4>2. CASE \E next \in Slots : next # zombie /\ kind[next] # "none" /\ cr3' = page_table(next)
        <5>1. PICK next \in Slots : next # zombie /\ kind[next] # "none" /\ cr3' = page_table(next)
          BY <4>2, Zenon
        <5>2. Pid(next) # Pid(zombie)
          BY <1>0, <3>3, <5>1, PidInjective, Zenon DEF IInv
        <5>3. kind[next] # "kernel" => Pid(next) \in spaces
          BY <1>0, <5>1, Zenon DEF Accounted, Occupied
        <5> QED BY <3>2, <5>1, <5>2, <5>3, Zenon DEF page_table
      <4> QED BY <4>1, <4>2, Zenon
    <3>6. \A s : Pid(s)' = Pid(s)
      BY Zenon DEF Pid
    <3>7. /\ stacks' = (ThreadPids' \cup BeingReaped') \ StackGone'
          /\ spaces' \subseteq ThreadPids' \cup BeingReaped'
      BY <1>0, <1>4, <3>1, <3>2, <3>4, Zenon DEF Accounted
    <3>9. StackGone' \subseteq spaces'
      <4>1. Pid(zombie) # NoPid
        BY <1>0, <3>3, OccupiedAlive, Zenon
      <4>2. Pid(zombie) \notin StackGone
        BY <3>4, <4>1, Zenon DEF StackGone, BeingReaped
      <4> QED BY <1>0, <1>4, <3>2, <4>2, Zenon DEF Accounted
    <3>8. \A s \in Occupied' : kind'[s] # "kernel" => Pid(s)' \in spaces'
      BY <1>0, <3>1, <3>2, <3>6, Zenon DEF Accounted
    <3> QED BY <3>5, <3>7, <3>8, <3>9, Zenon DEF Accounted
  <2> QED BY <2>1, <2>2, Zenon
<1> QED BY <1>1, <1>2, <1>5, Zenon DEF ReapInv

(* reap_zombie's first part: the thread moves from the table to its caller. *)
LEMMA ReapTakeKeeps ==
  ASSUME MemInv, [Next]_vars, NEW s \in Slots, ReapTake(s)
  PROVE  ReapInv' /\ Accounted'
<1>0. IInv /\ DeadOnly /\ TakenOnce /\ TakenInReap /\ OutOfRotation /\ Accounted
  BY Zenon DEF MemInv, ReapInv
<1>1. /\ current = s /\ pc[s] = "reap" /\ ~panicked /\ ~panicked'
      /\ kind' = [r \in Slots |-> IF r = zombie THEN "none" ELSE kind[r]]
      /\ UNCHANGED <<generation, queue, current, stacks, spaces, cr3>>
      /\ reaped' = [reaped EXCEPT ![s] = IF zombie = NoThread THEN NoPid ELSE Pid(zombie)]
      /\ pc' = [pc EXCEPT ![s] = IF zombie = NoThread THEN "switch" ELSE "force"]
  BY Zenon DEF ReapTake, At, cpuVars, memVars
<1>2. /\ reaped \in [Slots -> Pids \cup {NoPid}] /\ kind \in [Slots -> Kinds \cup {"none"}]
      /\ pc \in [Slots -> {"fresh", "run", "reap", "force", "free", "free_space", "switch", "wait"}]
      /\ reaped[s] = NoPid
  BY <1>0, <1>1, Zenon DEF IInv, TypeOK, TakenInReap
<1>3. OutOfRotation'
  BY <1>0, <1>1, <1>2, Zenon DEF OutOfRotation
<1>4. CASE zombie = NoThread
  <2>1. zombie \notin Slots
    BY <1>4, Constants, Zenon
  <2>2. kind' = kind /\ reaped' = reaped
    BY <1>1, <1>2, <1>4, <2>1, Zenon
  <2>3. DeadOnly' /\ TakenOnce'
    BY <1>0, <2>2, DeadOnlyKept, Zenon DEF DeadOnly, TakenOnce
  <2>4. TakenInReap'
    BY <1>0, <1>1, <1>2, <1>4, <2>2, Zenon DEF TakenInReap
  <2>5. ThreadPids' = ThreadPids /\ BeingReaped' = BeingReaped /\ Occupied' = Occupied
    BY <1>1, <2>2 DEF ThreadPids, BeingReaped, Occupied, Pid
  <2>7. StackGone' = StackGone
    <3>1. \A r \in Slots : pc'[r] = "free_space" <=> pc[r] = "free_space"
      BY <1>1, <1>2, <1>4, Zenon
    <3> QED BY <2>2, <3>1, GoneKept, Zenon
  <2>6. Accounted'
    BY <1>0, <1>1, <2>2, <2>5, <2>7, Zenon DEF Accounted, Pid
  <2> QED BY <1>3, <2>3, <2>4, <2>6, Zenon DEF ReapInv
<1>5. CASE zombie # NoThread
  <2> DEFINE z == Pid(zombie)
  <2>1. zombie \in Slots /\ kind[zombie] # "none" /\ generation[zombie] \in Nat
    BY <1>0, <1>5 DEF IInv, RotationInv, Occupied, TypeOK
  <2>2. /\ ThreadPids' = ThreadPids \ {z} /\ z \in ThreadPids /\ z # NoPid
        /\ \A r \in Occupied' : r \in Occupied /\ kind'[r] = kind[r]
    BY <1>0, <1>1, <1>5, ClearingZombie, Zenon
  <2>3. z \in IssuedPids /\ z \notin BeingReaped
    BY <1>0, <2>1, OccupiedAlive, ThreadsNotReaped, Zenon
  <2>4. reaped' = [reaped EXCEPT ![s] = z]
    BY <1>1, <1>5, Zenon
  <2>5. DeadOnly'
    <3>1. z \in IssuedPids'
      BY <1>1, <2>3, Zenon DEF IssuedPids
    <3>2. PICK v \in Slots, g \in Nat : v = zombie /\ g = generation[zombie]
      BY <2>1, Zenon
    <3>3. kind'[v] = "none"
      BY <1>1, <3>2, Zenon
    <3>4. ~thread_alive(pack_pid(v, g))'
      BY <3>3, AliveMeansNext, Zenon
    <3>5. reaped'[s] = pack_pid(v, g) /\ reaped'[s] \in IssuedPids'
      BY <1>2, <2>4, <3>1, <3>2, Zenon DEF Pid
    <3>6. ~thread_alive(reaped[s])'
      BY <3>4, <3>5, Zenon
    <3>7. ASSUME NEW r \in Slots, r # s, reaped'[r] # NoPid
          PROVE  reaped'[r] \in IssuedPids' /\ ~thread_alive(reaped[r])'
      <4>1. reaped'[r] = reaped[r]
        BY <1>2, <2>4, <3>7, Zenon
      <4> QED BY <1>0, <3>7, <4>1, DeadOnlyKept, Zenon
    <3> QED BY <3>5, <3>6, <3>7, Zenon DEF DeadOnly
  <2>6. TakenOnce'
    BY <1>0, <1>2, <2>3, <2>4, Zenon DEF TakenOnce, BeingReaped
  <2>7. TakenInReap'
    BY <1>0, <1>1, <1>2, <1>5, <2>2, <2>4, Zenon DEF TakenInReap
  <2>8. BeingReaped' = BeingReaped \cup {z}
    BY <1>2, <2>2, <2>4, Zenon DEF BeingReaped
  <2>9. \A r : Pid(r)' = Pid(r)
    BY <1>1, Zenon DEF Pid
  <2>11. StackGone' = StackGone
    <3>1. /\ \A r \in Slots : pc'[r] = "free_space" <=> pc[r] = "free_space"
          /\ \A r \in Slots : pc[r] = "free_space" => reaped'[r] = reaped[r]
      BY <1>1, <1>2, <2>4, Zenon
    <3> QED BY <3>1, GoneKept, Zenon
  <2>10. Accounted'
    BY <1>0, <1>1, <2>2, <2>8, <2>9, <2>11, Zenon DEF Accounted
  <2> QED BY <1>3, <2>5, <2>6, <2>7, <2>10, Zenon DEF ReapInv
<1> QED BY <1>4, <1>5, Zenon

(* Its third part: the caller gives the stack back.                        *)
LEMMA ReapFreeKeeps ==
  ASSUME MemInv, [Next]_vars, NEW s \in Slots, ReapFree(s)
  PROVE  ReapInv' /\ Accounted'
<1>0. IInv /\ DeadOnly /\ TakenOnce /\ TakenInReap /\ OutOfRotation /\ Accounted
  BY Zenon DEF MemInv, ReapInv
<1> DEFINE d == reaped[s]
<1>1. /\ current = s /\ pc[s] = "free" /\ ~panicked
      /\ UNCHANGED <<kind, generation, queue, current, cr3, spaces>>
      /\ \/ /\ panicked' /\ UNCHANGED <<stacks, reaped>>
            /\ pc' = [pc EXCEPT ![s] = "free"]
         \/ /\ ~panicked' /\ d \in spaces /\ stacks' = stacks \ {d}
            /\ reaped' = reaped /\ pc' = [pc EXCEPT ![s] = "free_space"]
         \/ /\ ~panicked' /\ d \notin spaces /\ stacks' = stacks \ {d}
            /\ reaped' = [reaped EXCEPT ![s] = NoPid] /\ pc' = [pc EXCEPT ![s] = "switch"]
  BY Zenon DEF ReapFree, At, cpuVars, tableVars
<1>2. /\ reaped \in [Slots -> Pids \cup {NoPid}]
      /\ pc \in [Slots -> {"fresh", "run", "reap", "force", "free", "free_space", "switch", "wait"}]
      /\ d # NoPid
  BY <1>0, <1>1, Zenon DEF IInv, TypeOK, TakenInReap
<1>3. \A r \in Slots \ {s} : pc'[r] = pc[r] /\ reaped'[r] = reaped[r] /\ reaped[r] # d
  BY <1>0, <1>1, <1>2, Zenon DEF TakenOnce
<1>4. OutOfRotation'
  BY <1>0, <1>1, <1>3, Zenon DEF OutOfRotation
<1>5. \A r \in Slots : reaped'[r] \in {reaped[r], NoPid}
  BY <1>1, <1>2, Zenon
<1>6. DeadOnly'
  BY <1>0, <1>5, DeadOnlyKept, Zenon DEF DeadOnly
<1>7. TakenOnce'
  BY <1>0, <1>1, <1>2, Zenon DEF TakenOnce
<1>8. TakenInReap'
  BY <1>0, <1>1, <1>2, <1>3, Zenon DEF TakenInReap
<1>9. ThreadPids' = ThreadPids /\ Occupied' = Occupied /\ \A r : Pid(r)' = Pid(r)
  BY <1>1, Zenon DEF ThreadPids, Occupied, Pid
<1>10. d \notin ThreadPids /\ d \in BeingReaped /\ d \notin StackGone
  <2>1. d \in BeingReaped
    BY <1>2, Zenon DEF BeingReaped
  <2>2. \A r \in Occupied : Pid(r) # d
    BY <1>0, <2>1, ThreadsNotReaped, Zenon DEF Occupied
  <2>3. d \notin StackGone
    BY <1>1, <1>3, Zenon DEF StackGone
  <2> QED BY <2>1, <2>2, <2>3, Zenon DEF ThreadPids
<1>11. Accounted'
  <2>1. CASE panicked' /\ UNCHANGED <<stacks, reaped>> /\ pc' = [pc EXCEPT ![s] = "free"]
    <3>1. BeingReaped' = BeingReaped /\ StackGone' = StackGone
      BY <1>1, <1>2, <2>1, Zenon DEF BeingReaped, StackGone
    <3> QED BY <1>0, <1>1, <1>9, <2>1, <3>1, Zenon DEF Accounted
  <2>2. CASE /\ d \in spaces /\ stacks' = stacks \ {d} /\ reaped' = reaped
             /\ pc' = [pc EXCEPT ![s] = "free_space"]
    <3>1. BeingReaped' = BeingReaped
      BY <2>2, Zenon DEF BeingReaped
    <3>2. pc'[s] = "free_space"
      BY <1>2, <2>2, Zenon
    <3>3. StackGone' = StackGone \cup {d}
      BY <1>1, <1>3, <2>2, <3>2, Zenon DEF StackGone
    <3> HIDE DEF d
    <3> QED BY <1>0, <1>1, <1>9, <1>10, <2>2, <3>1, <3>3, Zenon DEF Accounted
  <2>3. CASE /\ d \notin spaces /\ stacks' = stacks \ {d}
             /\ reaped' = [reaped EXCEPT ![s] = NoPid] /\ pc' = [pc EXCEPT ![s] = "switch"]
    <3>1. reaped'[s] = NoPid /\ pc'[s] = "switch"
      BY <1>2, <2>3, Zenon
    <3>2. BeingReaped' = BeingReaped \ {d}
      BY <1>3, <3>1, Zenon DEF BeingReaped
    <3>3. StackGone' = StackGone
      <4>1. /\ \A r \in Slots : pc'[r] = "free_space" <=> pc[r] = "free_space"
            /\ \A r \in Slots : pc[r] = "free_space" => reaped'[r] = reaped[r]
        BY <1>1, <1>3, <3>1, Zenon
      <4> QED BY <4>1, GoneKept, Zenon
    <3> HIDE DEF d
    <3> QED BY <1>0, <1>1, <1>9, <1>10, <2>3, <3>2, <3>3, Zenon DEF Accounted
  <2> QED BY <1>1, <2>1, <2>2, <2>3, Zenon
<1> QED BY <1>4, <1>6, <1>7, <1>8, <1>11, Zenon DEF ReapInv

(* Its last part: and the address space.                                   *)
LEMMA ReapFreeSpaceKeeps ==
  ASSUME MemInv, [Next]_vars, NEW s \in Slots, ReapFreeSpace(s)
  PROVE  ReapInv' /\ Accounted'
<1>0. IInv /\ DeadOnly /\ TakenOnce /\ TakenInReap /\ OutOfRotation /\ Accounted
  BY Zenon DEF MemInv, ReapInv
<1> DEFINE d == reaped[s]
<1>1. /\ current = s /\ pc[s] = "free_space" /\ ~panicked
      /\ UNCHANGED <<kind, generation, queue, current, cr3, stacks>>
      /\ \/ /\ panicked' /\ UNCHANGED <<spaces, reaped>>
            /\ pc' = [pc EXCEPT ![s] = "free_space"]
         \/ /\ ~panicked' /\ cr3 = KernelTable /\ spaces' = spaces \ {d}
            /\ reaped' = [reaped EXCEPT ![s] = NoPid] /\ pc' = [pc EXCEPT ![s] = "switch"]
  BY Zenon DEF ReapFreeSpace, At, cpuVars, tableVars
<1>2. /\ reaped \in [Slots -> Pids \cup {NoPid}]
      /\ pc \in [Slots -> {"fresh", "run", "reap", "force", "free", "free_space", "switch", "wait"}]
      /\ d # NoPid
  BY <1>0, <1>1, Zenon DEF IInv, TypeOK, TakenInReap
<1>3. \A r \in Slots \ {s} : pc'[r] = pc[r] /\ reaped'[r] = reaped[r] /\ reaped[r] # d
  BY <1>0, <1>1, <1>2, Zenon DEF TakenOnce
<1>4. OutOfRotation'
  BY <1>0, <1>1, <1>3, Zenon DEF OutOfRotation
<1>5. \A r \in Slots : reaped'[r] \in {reaped[r], NoPid}
  BY <1>1, <1>2, Zenon
<1>6. DeadOnly'
  BY <1>0, <1>5, DeadOnlyKept, Zenon DEF DeadOnly
<1>7. TakenOnce'
  BY <1>0, <1>1, <1>2, Zenon DEF TakenOnce
<1>8. TakenInReap'
  BY <1>0, <1>1, <1>2, <1>3, Zenon DEF TakenInReap
<1>9. ThreadPids' = ThreadPids /\ Occupied' = Occupied /\ \A r : Pid(r)' = Pid(r)
  BY <1>1, Zenon DEF ThreadPids, Occupied, Pid
<1>10. d \notin ThreadPids /\ d \in StackGone /\ \A r \in Occupied : Pid(r) # d
  <2>1. d \in BeingReaped
    BY <1>2, Zenon DEF BeingReaped
  <2>2. \A r \in Occupied : Pid(r) # d
    BY <1>0, <2>1, ThreadsNotReaped, Zenon DEF Occupied
  <2>3. d \in StackGone
    BY <1>1, Zenon DEF StackGone
  <2> QED BY <2>2, <2>3, Zenon DEF ThreadPids
<1>11. Accounted'
  <2>1. CASE panicked' /\ UNCHANGED <<spaces, reaped>> /\ pc' = [pc EXCEPT ![s] = "free_space"]
    <3>1. BeingReaped' = BeingReaped /\ StackGone' = StackGone
      BY <1>1, <1>2, <2>1, Zenon DEF BeingReaped, StackGone
    <3> QED BY <1>0, <1>1, <1>9, <2>1, <3>1, Zenon DEF Accounted
  <2>2. CASE /\ cr3 = KernelTable /\ spaces' = spaces \ {d}
             /\ reaped' = [reaped EXCEPT ![s] = NoPid] /\ pc' = [pc EXCEPT ![s] = "switch"]
    <3>1. reaped'[s] = NoPid /\ pc'[s] = "switch"
      BY <1>2, <2>2, Zenon
    <3>2. BeingReaped' = BeingReaped \ {d}
      BY <1>3, <3>1, Zenon DEF BeingReaped
    <3>3. StackGone' = StackGone \ {d}
      BY <1>3, <3>1, Zenon DEF StackGone
    <3> HIDE DEF d
    <3> QED BY <1>0, <1>1, <1>9, <1>10, <2>2, <3>2, <3>3, Zenon DEF Accounted
  <2> QED BY <1>1, <2>1, <2>2, Zenon
<1> QED BY <1>4, <1>6, <1>7, <1>8, <1>11, Zenon DEF ReapInv

(* A new thread's stack and address space are under a pid never used yet.  *)
LEMMA SpawnKeeps ==
  ASSUME MemInv, [Next]_vars, NEW k \in Kinds, Spawn(k)
  PROVE  ReapInv' /\ Accounted'
<1>0. IInv /\ DeadOnly /\ TakenOnce /\ TakenInReap /\ OutOfRotation /\ Accounted
  BY Zenon DEF MemInv, ReapInv
<1>1. PICK id \in Slots :
        /\ kind[id] = "none"
        /\ id # Boot /\ id # current /\ id \notin Range(queue)
        /\ generation[id] \in Nat
        /\ generation' = [generation EXCEPT ![id] = generation[id] + 1]
        /\ kind' = [kind EXCEPT ![id] = k]
        /\ Range(queue') = Range(queue) \cup {id}
        /\ pc' = [pc EXCEPT ![id] = "fresh"]
        /\ stacks' = stacks \cup {pack_pid(id, generation[id] + 1)}
        /\ spaces' = IF k = "kernel" THEN spaces
                     ELSE spaces \cup {pack_pid(id, generation[id] + 1)}
        /\ UNCHANGED <<current, reaped, cr3>>
        /\ ~panicked
  BY <1>0, SpawnPlace, Zenon
<1>2. /\ kind \in [Slots -> Kinds \cup {"none"}]
      /\ generation \in [Slots -> 0 .. MaxGeneration]
      /\ pc \in [Slots -> {"fresh", "run", "reap", "force", "free", "free_space", "switch", "wait"}]
  BY <1>0, Zenon DEF IInv, TypeOK
<1>3. DeadOnly'
  BY <1>0, <1>1, DeadOnlyKept, Zenon DEF DeadOnly
<1>4. pc[id] = "run" /\ reaped[id] = NoPid
  BY <1>0, <1>1, Zenon DEF OutOfRotation, TakenInReap
<1>5. TakenOnce' /\ TakenInReap' /\ OutOfRotation'
  BY <1>0, <1>1, <1>2, <1>4, Zenon DEF TakenOnce, TakenInReap, OutOfRotation
<1> DEFINE new == pack_pid(id, generation[id] + 1)
<1>6. Pid(id)' = new /\ \A s \in Occupied : Pid(s)' = Pid(s) /\ kind'[s] = kind[s]
  BY <1>1, <1>2, Zenon DEF Pid, Occupied
<1>7. Occupied' = Occupied \cup {id} /\ kind'[id] = k
  BY <1>1, <1>2, Constants, Zenon DEF Occupied
<1> HIDE DEF new
<1>8. BeingReaped' = BeingReaped /\ StackGone' = StackGone
  <2>1. \A s \in Slots : pc'[s] = "free_space" <=> pc[s] = "free_space"
    BY <1>1, <1>2, <1>4, Zenon
  <2> QED BY <1>1, <2>1, GoneKept, Zenon DEF BeingReaped
<1>11. new \notin StackGone
  <2>1. PICK v \in Slots, g \in Nat : v = id /\ g = generation[id] + 1
    BY <1>1
  <2>2. kind'[v] # "none" /\ generation'[v] = g
    BY <1>1, <1>2, <1>7, <2>1, Constants DEF Kinds
  <2>3. thread_alive(pack_pid(v, g))'
    BY <2>2, AliveMeansNext, Zenon
  <2>4. new = pack_pid(v, g)
    BY <2>1, Zenon DEF new
  <2>5. ASSUME NEW s \in Slots, pc[s] = "free_space", reaped[s] = pack_pid(v, g) PROVE FALSE
    <3>1. reaped'[s] = pack_pid(v, g) /\ reaped[s] # NoPid
      BY <1>0, <1>1, <2>5, Zenon DEF TakenInReap
    <3>2. ~thread_alive(reaped[s])'
      BY <1>3, <2>5, <3>1, Zenon DEF DeadOnly
    <3> QED BY <2>3, <3>1, <3>2, Zenon
  <2> QED BY <2>4, <2>5, Zenon DEF StackGone
<1>9. ThreadPids' = ThreadPids \cup {new}
  <2>1. ThreadPids' = {Pid(s)' : s \in Occupied' \ {Boot}}
    BY Zenon DEF ThreadPids
  <2> QED BY <1>1, <1>6, <1>7, <2>1 DEF ThreadPids
<1>10. Accounted'
  <2>1. stacks' = stacks \cup {new} /\ spaces \subseteq spaces' /\ spaces' \subseteq spaces \cup {new}
        /\ (k # "kernel" => new \in spaces')
    BY <1>1, Zenon DEF new
  <2>2. \A s \in Occupied' : kind'[s] # "kernel" => Pid(s)' \in spaces'
    BY <1>0, <1>6, <1>7, <2>1, Zenon DEF Accounted
  <2> QED BY <1>0, <1>1, <1>8, <1>9, <1>11, <2>1, <2>2, Zenon DEF Accounted
<1> QED BY <1>3, <1>5, <1>10, Zenon DEF ReapInv

(* What the rotation and the zombie's exit change for the thread that goes *)
(* on: see SwitchKeeps and ReapZombieKeeps.                                *)
LEMMA RotateCr3 ==
  ASSUME IInv, NEW e, NEW sp, Rotate(e, sp)
  PROVE  /\ \/ cr3' = sp /\ current = Boot
            \/ \E next \in Slots : next # zombie /\ kind[next] # "none" /\ cr3' = page_table(next)
         /\ \A s \in Slots : s # current' /\ s \notin Range(queue') =>
                               s # current /\ s \notin Range(queue)
<1>1. CASE UNCHANGED <<queue, current>> /\ cr3' = sp /\ current = Boot
  BY <1>1, Zenon DEF Range
<1>2. CASE \E next \in Range(queue) :
             /\ next \in Slots /\ next # zombie /\ kind[next] # "none"
             /\ SwitchTo(next)
             /\ Range(queue') = (Range(queue) \ {next}) \cup {current}
  BY <1>2, Zenon DEF SwitchTo
<1> QED BY <1>1, <1>2, RotateLeadsTo, Zenon

(* exit_current_thread loads the table of a thread that stays, and only    *)
(* the caller leaves the rotation.                                         *)
LEMMA ExitCr3 ==
  ASSUME IInv, ExitCurrent
  PROVE  /\ \E next \in Slots : next # zombie /\ kind[next] # "none" /\ cr3' = page_table(next)
         /\ \A s \in Slots : s # current' /\ s \notin Range(queue') =>
                               s = current \/ (s # current /\ s \notin Range(queue))
<1>1. PICK next \in Range(queue) :
        /\ next \in Slots /\ next # zombie /\ kind[next] # "none"
        /\ SwitchTo(next)
        /\ Range(queue') = Range(queue) \ {next}
  BY ExitLeadsTo, Zenon
<1> QED BY <1>1, Zenon DEF SwitchTo

(* Every step of the scheduler keeps the account of stacks and address     *)
(* spaces.                                                                 *)
LEMMA NextMemInv == MemInv /\ [Next]_vars => MemInv'
<1> SUFFICES ASSUME MemInv, [Next]_vars PROVE ReapInv' /\ Accounted'
  BY NextIInv, Zenon DEF MemInv
<1>0. /\ IInv /\ kind \in [Slots -> Kinds \cup {"none"}]
      /\ pc \in [Slots -> {"fresh", "run", "reap", "force", "free", "free_space", "switch", "wait"}]
  BY Zenon DEF MemInv, IInv, TypeOK
<1>1. ASSUME NEW s \in Slots, NEW o \in {"yield", "exit"}, Call(s, o)
      PROVE  ReapInv' /\ Accounted'
  BY <1>0, <1>1, QuietKeeps, Zenon DEF Call, InKernelCode, cpuVars
<1>2. ASSUME NEW s \in Slots, ReapTake(s) PROVE ReapInv' /\ Accounted'
  BY <1>2, ReapTakeKeeps, Zenon
<1>3. ASSUME NEW s \in Slots, ReapForce(s) PROVE ReapInv' /\ Accounted'
  BY <1>0, <1>3, QuietKeeps, Zenon DEF ReapForce, At
<1>4. ASSUME NEW s \in Slots, ReapFree(s) PROVE ReapInv' /\ Accounted'
  BY <1>4, ReapFreeKeeps, Zenon
<1>18. ASSUME NEW s \in Slots, ReapFreeSpace(s) PROVE ReapInv' /\ Accounted'
  BY <1>18, ReapFreeSpaceKeeps, Zenon
<1>5. ASSUME NEW s \in Slots, Yield(s) PROVE ReapInv' /\ Accounted'
  <2>1. /\ UNCHANGED <<kind, generation, reaped, memVars>> /\ (~panicked' => ~panicked)
        /\ pc[s] = "switch" /\ pc' = [pc EXCEPT ![s] = "run"] /\ Rotate(iflag, cr3)
    BY <1>5, Zenon DEF Yield, At
  <2> QED BY <1>0, <2>1, RotateCr3, SwitchKeeps, Zenon
<1>6. ASSUME NEW s \in Slots, Exit(s) PROVE ReapInv' /\ Accounted'
  <2>1. /\ UNCHANGED <<kind, generation, reaped, memVars>> /\ (~panicked' => ~panicked)
        /\ pc[s] = "switch" /\ pc' = [pc EXCEPT ![s] = "run"] /\ s = current /\ ExitCurrent
    BY <1>6, Zenon DEF Exit, At
  <2> QED BY <1>0, <2>1, ExitCr3, SwitchKeeps, Zenon
<1>7. ASSUME DemoPoll PROVE ReapInv' /\ Accounted'
  <2>1. /\ UNCHANGED <<tableVars, reaped, memVars, cr3>> /\ (~panicked' => ~panicked)
        /\ pc[Boot] = "run" /\ current = Boot
        /\ pc' = pc \/ pc' = [pc EXCEPT ![Boot] = "reap"]
    BY <1>7, Zenon DEF DemoPoll, At, cpuVars
  <2> QED BY <1>0, <2>1, QuietKeeps
<1>8. ASSUME NEW s \in Slots, Trampoline(s) PROVE ReapInv' /\ Accounted'
  BY <1>0, <1>8, QuietKeeps, Zenon DEF Trampoline, At
<1>9. ASSUME NEW s \in Slots, SysWaitYield(s) PROVE ReapInv' /\ Accounted'
  <2>1. /\ UNCHANGED <<generation, pc, reaped>> /\ (~panicked' => ~panicked)
        /\ ReapZombie /\ Rotate(iflag, SpaceAfterReap)
    BY <1>9, Zenon DEF SysWaitYield
  <2> QED BY <1>0, <2>1, RotateCr3, ReapZombieKeeps, Zenon
<1>10. ASSUME NEW s \in Slots, SysWaitReturn(s) PROVE ReapInv' /\ Accounted'
  BY <1>0, <1>10, QuietKeeps, Zenon DEF SysWaitReturn, At
<1>11. ASSUME NEW s \in Slots, SysExit(s) PROVE ReapInv' /\ Accounted'
  <2>1. /\ UNCHANGED <<generation, pc, reaped>> /\ (~panicked' => ~panicked)
        /\ ReapZombie /\ ExitCurrent /\ s = current /\ pc[s] = "run"
    BY <1>11, Zenon DEF SysExit, At
  <2> QED BY <1>0, <2>1, ExitCr3, ReapZombieKeeps, Zenon
<1>12. ASSUME NEW s \in Slots, NEW pid \in IssuedPids, SysWait(s, pid)
       PROVE  ReapInv' /\ Accounted'
  BY <1>0, <1>12, QuietKeeps, Zenon DEF SysWait, At
<1>13. ASSUME NEW pid \in IssuedPids, WaitForDemo(pid) PROVE ReapInv' /\ Accounted'
  BY <1>13, QuietKeeps, Zenon DEF WaitForDemo, cpuVars
<1>14. ASSUME NEW k \in Kinds, Spawn(k) PROVE ReapInv' /\ Accounted'
  BY <1>14, SpawnKeeps, Zenon
<1>15. ASSUME SpawnPanics PROVE ReapInv' /\ Accounted'
  BY <1>15, QuietKeeps, Zenon DEF SpawnPanics, localVars, cpuVars
<1>16. ASSUME Tick PROVE ReapInv' /\ Accounted'
  <2>1. /\ UNCHANGED <<generation, pc, reaped>> /\ (~panicked' => ~panicked)
        /\ ReapZombie /\ Rotate(TRUE, SpaceAfterReap)
    BY <1>16, Zenon DEF Tick
  <2>2. /\ \/ cr3' = SpaceAfterReap
           \/ \E next \in Slots : next # zombie /\ kind[next] # "none" /\ cr3' = page_table(next)
        /\ \A s \in Slots : s # current' /\ s \notin Range(queue') =>
                              s # current /\ s \notin Range(queue)
    BY <1>0, <2>1, RotateCr3, Zenon
  <2> QED BY <2>1, <2>2, ReapZombieKeeps, Zenon
<1>17. ASSUME UNCHANGED vars PROVE ReapInv' /\ Accounted'
  BY <1>17, QuietKeeps, Zenon DEF vars, localVars, cpuVars
<1> QED
  BY <1>1, <1>2, <1>3, <1>4, <1>5, <1>6, <1>7, <1>8, <1>9, <1>10, <1>11, <1>12,
     <1>13, <1>14, <1>15, <1>16, <1>17, <1>18, Zenon
  DEF Next, KernelStep, ProgramStep, Halted

(* The account holds in every state.                                       *)
LEMMA SpecMemInv == Spec => []MemInv
BY InitMemInv, NextMemInv, PTL DEF Spec

(* A kernel stack or an address space is allocated exactly while its       *)
(* thread is in the table or with a caller of reap_zombie, so each is      *)
(* freed once; and CR3 never holds a freed one.  Ring-0 threads that exit  *)
(* with interrupts on are included.                                        *)
THEOREM MemoryAlwaysAccounted == Spec => []MemoryAccounted
<1>1. ASSUME MemInv PROVE MemoryAccounted
  <2>1. IInv /\ DeadOnly /\ Accounted
    BY <1>1, Zenon DEF MemInv, ReapInv
  <2>2. {Pid(s) : s \in Occupied \ {Boot}} \cap BeingReaped = {}
    BY <2>1, ThreadsNotReaped, Zenon DEF Occupied
  <2> QED BY <2>1, <2>2, Zenon DEF Accounted, ThreadPids, MemoryAccounted
<1> QED BY <1>1, SpecMemInv, PTL

-----------------------------------------------------------------------------
(* The CPU's registers.                                                    *)

(* A thread is entered with interrupts off, or stopped inside a system     *)
(* call's wait loop: nothing may interrupt it there.                       *)
Masked(s) == pc[s] \in {"fresh", "wait"}

(* Each queued thread will get the interrupt flag that suits the place     *)
(* where it stopped.                                                       *)
ResumesAsLeft == \A s \in Range(queue) : resumeIF[s] <=> ~Masked(s)

FlagIsCurrents == iflag <=> ~Masked(current)

SpaceIsCurrents ==
  /\ rsp0 = kernel_stack_top(current)
  /\ \/ cr3 = page_table(current)
     \/ cr3 = KernelTable /\ pc[current] \in {"free", "free_space", "switch"}

CpuInv == IInv /\ ResumesAsLeft /\ FlagIsCurrents /\ SpaceIsCurrents

(* At boot the registers are the boot thread's.                            *)
LEMMA InitCpuInv == Init => CpuInv
<1> SUFFICES ASSUME Init PROVE CpuInv
  BY Zenon
<1>1. Range(queue) = {}
  BY DEF Init, Range
<1>2. ResumesAsLeft
  BY <1>1, Zenon DEF ResumesAsLeft
<1>3. pc[current] = "run" /\ kind[current] = "kernel" /\ current = Boot
  BY Constants, Zenon DEF Init
<1>4. ~Masked(current)
  BY <1>3, Zenon DEF Masked
<1>5. FlagIsCurrents
  BY <1>4, Zenon DEF Init, FlagIsCurrents
<1>6. SpaceIsCurrents
  BY <1>3, Zenon DEF Init, SpaceIsCurrents, kernel_stack_top, page_table
<1> QED BY <1>2, <1>5, <1>6, InitIInv, Zenon DEF CpuInv

(* Steps on which the running thread keeps the CPU and its own place in    *)
(* the table.                                                              *)
LEMMA StaysOn ==
  ASSUME CpuInv, UNCHANGED <<current, rsp0>>,
         kind'[current] = kind[current], generation'[current] = generation[current],
         \A s \in Range(queue') : \/ s \in Range(queue) /\ pc'[s] = pc[s] /\ resumeIF'[s] = resumeIF[s]
                                  \/ pc'[s] = "fresh" /\ ~resumeIF'[s],
         \/ cr3' = cr3 /\ pc'[current] = pc[current]
         \/ cr3' = page_table(current)
         \/ cr3' = KernelTable /\ pc'[current] \in {"free", "free_space", "switch"},
         \/ iflag' = iflag /\ (Masked(current)' <=> Masked(current))
         \/ iflag' = TRUE /\ ~Masked(current)'
         \/ iflag' = FALSE /\ Masked(current)'
  PROVE  ResumesAsLeft' /\ FlagIsCurrents' /\ SpaceIsCurrents'
<1>0. iflag <=> ~Masked(current)
  BY Zenon DEF CpuInv, FlagIsCurrents
<1>1. iflag' <=> ~Masked(current)'
  <2>1. CASE iflag' = iflag /\ (Masked(current)' <=> Masked(current))
    BY <1>0, <2>1, Zenon
  <2>2. CASE iflag' = TRUE /\ ~Masked(current)'
    BY <2>2, Zenon
  <2>3. CASE iflag' = FALSE /\ Masked(current)'
    BY <2>3, Zenon
  <2> QED BY <2>1, <2>2, <2>3, Zenon
<1>2. ASSUME NEW s \in Range(queue') PROVE resumeIF'[s] <=> ~Masked(s)'
  <2>1. CASE s \in Range(queue) /\ pc'[s] = pc[s] /\ resumeIF'[s] = resumeIF[s]
    <3>1. Masked(s)' <=> Masked(s)
      BY <2>1, Zenon DEF Masked
    <3> QED BY <2>1, <3>1, Zenon DEF CpuInv, ResumesAsLeft
  <2>2. CASE pc'[s] = "fresh" /\ ~resumeIF'[s]
    BY <2>2, Zenon DEF Masked
  <2> QED BY <1>2, <2>1, <2>2, Zenon
<1>3. page_table(current)' = page_table(current) /\ kernel_stack_top(current)' = kernel_stack_top(current)
  BY Zenon DEF page_table, kernel_stack_top, Pid
<1>4. SpaceIsCurrents'
  BY <1>3, Zenon DEF CpuInv, SpaceIsCurrents
<1> QED BY <1>1, <1>2, <1>4, Zenon DEF ResumesAsLeft, FlagIsCurrents

(* switch_to loads the next thread's registers, and saves what the thread  *)
(* it leaves needs to go on.                                               *)
LEMMA SwitchesOver ==
  ASSUME CpuInv, NEW next \in Range(queue), next \in Slots, next # current, next # zombie,
         SwitchTo(next), generation' = generation,
         \A s \in Slots : s # zombie => kind'[s] = kind[s],
         \A s \in Slots : s # current => pc'[s] = pc[s],
         \A s \in Range(queue') : s # next /\ s \in Slots,
         \A s \in Range(queue') : s # current => s \in Range(queue) /\ resumeIF'[s] = resumeIF[s],
         current \in Range(queue') => (resumeIF'[current] <=> ~(pc'[current] \in {"fresh", "wait"}))
  PROVE  ResumesAsLeft' /\ FlagIsCurrents' /\ SpaceIsCurrents'
<1>1. \A s \in Slots : s # current => (Masked(s)' <=> Masked(s))
  BY Zenon DEF Masked
<1>2. current' = next /\ iflag' = resumeIF[next]
  BY Zenon DEF SwitchTo
<1>3. resumeIF[next] <=> ~Masked(next)
  BY Zenon DEF CpuInv, ResumesAsLeft
<1>4. Masked(current)' <=> Masked(next)
  BY <1>2, Zenon DEF Masked
<1>5. FlagIsCurrents'
  BY <1>2, <1>3, <1>4, Zenon DEF FlagIsCurrents
<1>6. ASSUME NEW s \in Range(queue') PROVE resumeIF'[s] <=> ~Masked(s)'
  <2>1. CASE s = current
    BY <1>6, <2>1, Zenon DEF Masked
  <2>2. CASE s # current
    BY <1>1, <1>6, <2>2, Zenon DEF CpuInv, ResumesAsLeft
  <2> QED BY <2>1, <2>2, Zenon
<1>7. rsp0' = kernel_stack_top(next) /\ cr3' = page_table(next)
  BY Zenon DEF SwitchTo
<1>8. page_table(current)' = page_table(next) /\ kernel_stack_top(current)' = kernel_stack_top(next)
  BY <1>2, Zenon DEF page_table, kernel_stack_top, Pid
<1>9. SpaceIsCurrents'
  BY <1>7, <1>8, Zenon DEF SpaceIsCurrents
<1> QED BY <1>5, <1>6, <1>9, Zenon DEF ResumesAsLeft

(* schedule, wherever it is called from.                                   *)
LEMMA RotatesOver ==
  ASSUME CpuInv, NEW e, NEW sp, Rotate(e, sp), generation' = generation,
         \A s \in Slots : s # zombie => kind'[s] = kind[s],
         \A s \in Slots : s # current => pc'[s] = pc[s],
         sp \in {cr3, KernelTable},
         e <=> ~(pc'[current] \in {"fresh", "wait"})
  PROVE  ResumesAsLeft' /\ FlagIsCurrents' /\ SpaceIsCurrents'
<1>0. /\ IInv /\ current \in Slots /\ resumeIF \in [Slots -> BOOLEAN]
      /\ current \notin Range(queue) /\ Range(queue) \subseteq Slots
      /\ kind[Boot] = "kernel" /\ zombie # Boot /\ Boot \in Slots
  BY Constants, Zenon DEF CpuInv, IInv, TypeOK, RotationInv, BootStays, Occupied
<1>1. CASE /\ current = Boot
           /\ UNCHANGED <<queue, current, resumeIF, rsp0>>
           /\ iflag' = e /\ cr3' = sp
  <2>1. FlagIsCurrents'
    <3>1. e <=> ~Masked(current)'
      BY <1>1, Zenon DEF Masked
    <3> QED BY <1>1, <3>1, Zenon DEF FlagIsCurrents
  <2>2. ASSUME NEW s \in Range(queue') PROVE resumeIF'[s] <=> ~Masked(s)'
    <3>1. s \in Range(queue) /\ s \in Slots /\ s # current
      BY <1>0, <1>1, <2>2, Zenon DEF Range
    <3>2. Masked(s)' <=> Masked(s)
      BY <3>1, Zenon DEF Masked
    <3> QED BY <1>1, <3>1, <3>2, Zenon DEF CpuInv, ResumesAsLeft
  <2>3. page_table(current)' = KernelTable /\ kernel_stack_top(current)' = NoPid
    BY <1>0, <1>1, Zenon DEF page_table, kernel_stack_top
  <2>4. cr3 = KernelTable /\ rsp0 = NoPid
    BY <1>0, <1>1, Zenon DEF CpuInv, SpaceIsCurrents, page_table, kernel_stack_top
  <2>5. SpaceIsCurrents'
    BY <1>1, <2>3, <2>4, Zenon DEF SpaceIsCurrents
  <2> QED BY <2>1, <2>2, <2>5, Zenon DEF ResumesAsLeft
<1>2. ASSUME NEW next \in Range(queue),
             /\ next \in Slots /\ next # current /\ next # zombie /\ kind[next] # "none"
             /\ SwitchTo(next)
             /\ Range(queue') = (Range(queue) \ {next}) \cup {current}
             /\ resumeIF' = [resumeIF EXCEPT ![current] = e, ![next] = FALSE]
      PROVE  ResumesAsLeft' /\ FlagIsCurrents' /\ SpaceIsCurrents'
  <2>1. \A s \in Range(queue') : s # next /\ s \in Slots
    BY <1>0, <1>2, Zenon
  <2>2. ASSUME NEW s \in Range(queue'), s # current
        PROVE  s \in Range(queue) /\ resumeIF'[s] = resumeIF[s]
    <3>1. s \in Range(queue) /\ s # next /\ s \in Slots
      BY <1>0, <1>2, <2>2, Zenon
    <3>2. resumeIF'[s] = resumeIF[s]
      BY <1>0, <1>2, <2>2, <3>1, Zenon
    <3> QED BY <3>1, <3>2, Zenon
  <2>3. resumeIF'[current] = e
    BY <1>0, <1>2, Zenon
  <2> QED BY <1>2, <2>1, <2>2, <2>3, SwitchesOver, Zenon
<1> QED BY <1>0, <1>1, <1>2, RotateLeadsTo, Zenon

(* exit_current_thread leaves the registers to the thread it switches to.  *)
LEMMA ExitsOver ==
  ASSUME CpuInv, ExitCurrent, generation' = generation,
         \A s \in Slots : s # zombie => kind'[s] = kind[s],
         \A s \in Slots : s # current => pc'[s] = pc[s]
  PROVE  ResumesAsLeft' /\ FlagIsCurrents' /\ SpaceIsCurrents'
<1>0. /\ IInv /\ current \in Slots /\ resumeIF \in [Slots -> BOOLEAN]
      /\ current \notin Range(queue) /\ Range(queue) \subseteq Slots
  BY Zenon DEF CpuInv, IInv, TypeOK, RotationInv, Occupied
<1>1. PICK next \in Range(queue) :
           /\ next \in Slots /\ next # current /\ next # zombie /\ kind[next] # "none"
           /\ SwitchTo(next)
           /\ Range(queue') = Range(queue) \ {next}
           /\ resumeIF' = [resumeIF EXCEPT ![next] = FALSE]
  BY <1>0, ExitLeadsTo, Zenon
<1>2. \A s \in Range(queue') : s # next /\ s # current /\ s \in Slots /\ s \in Range(queue)
  BY <1>0, <1>1, Zenon
<1>3. ASSUME NEW s \in Range(queue') PROVE resumeIF'[s] = resumeIF[s]
  BY <1>0, <1>1, <1>2, Zenon
<1> QED BY <1>1, <1>2, <1>3, SwitchesOver, Zenon

(* Every step of the scheduler leaves the registers to the running thread. *)
LEMMA NextCpuInv == CpuInv /\ [Next]_vars => CpuInv'
<1> SUFFICES ASSUME CpuInv, [Next]_vars PROVE ResumesAsLeft' /\ FlagIsCurrents' /\ SpaceIsCurrents'
  BY NextIInv, Zenon DEF CpuInv
<1>0. /\ IInv /\ kind \in [Slots -> Kinds \cup {"none"}]
      /\ pc \in [Slots -> {"fresh", "run", "reap", "force", "free", "free_space", "switch", "wait"}]
      /\ current \in Slots /\ current # zombie /\ current \notin Range(queue)
      /\ Range(queue) \subseteq Slots
  BY Zenon DEF CpuInv, IInv, TypeOK, RotationInv, Occupied
<1>a. /\ iflag <=> ~Masked(current)
      /\ \/ cr3 = page_table(current)
         \/ cr3 = KernelTable /\ pc[current] \in {"free", "free_space", "switch"}
  BY Zenon DEF CpuInv, FlagIsCurrents, SpaceIsCurrents
<1>b. ASSUME UNCHANGED <<tableVars, resumeIF, rsp0, cr3, iflag>>,
             \A s \in Slots : s # current => pc'[s] = pc[s],
             pc'[current] = pc[current] \/ (pc[current] = "run" /\ pc'[current] = "reap")
      PROVE  ResumesAsLeft' /\ FlagIsCurrents' /\ SpaceIsCurrents'
  <2>1. Masked(current)' <=> Masked(current)
    BY <1>b, Zenon DEF Masked, tableVars
  <2>2. UNCHANGED <<current, rsp0, iflag>> /\ kind' = kind /\ generation' = generation
    BY <1>b, Zenon DEF tableVars
  <2>3. \A s \in Range(queue') : s \in Range(queue) /\ pc'[s] = pc[s] /\ resumeIF'[s] = resumeIF[s]
    <3>1. Range(queue') = Range(queue) /\ resumeIF' = resumeIF
      BY <1>b, Zenon DEF tableVars
    <3>2. \A s \in Range(queue) : s \in Slots /\ s # current
      BY <1>0, Zenon
    <3> QED BY <1>b, <3>1, <3>2, Zenon
  <2>4. (cr3' = cr3 /\ pc'[current] = pc[current]) \/ cr3' = page_table(current)
    BY <1>a, <1>b, Zenon
  <2> QED BY <2>1, <2>2, <2>3, <2>4, StaysOn, Zenon
<1>c. ASSUME NEW s \in Slots, s = current, UNCHANGED <<queue, current, resumeIF, rsp0, generation>>,
             kind'[s] = kind[s],
             NEW l \in {"fresh", "run", "reap", "force", "free", "free_space", "switch", "wait"},
             pc' = [pc EXCEPT ![s] = l]
      PROVE  /\ UNCHANGED <<current, rsp0>>
             /\ kind'[current] = kind[current] /\ generation'[current] = generation[current]
             /\ \A r \in Range(queue') :
                  r \in Range(queue) /\ pc'[r] = pc[r] /\ resumeIF'[r] = resumeIF[r]
             /\ pc'[current] = l
             /\ Masked(current)' <=> l \in {"fresh", "wait"}
  <2>1. \A r \in Range(queue') :
           r \in Range(queue) /\ pc'[r] = pc[r] /\ resumeIF'[r] = resumeIF[r]
    BY <1>0, <1>c, Zenon DEF Range
  <2>2. pc'[current] = l
    BY <1>0, <1>c, Zenon
  <2>3. Masked(current)' <=> l \in {"fresh", "wait"}
    BY <1>c, <2>2, Zenon DEF Masked
  <2> QED BY <1>c, <2>1, <2>2, <2>3, Zenon
<1>1. ASSUME NEW s \in Slots, NEW o \in {"yield", "exit"}, Call(s, o)
      PROVE  ResumesAsLeft' /\ FlagIsCurrents' /\ SpaceIsCurrents'
  BY <1>0, <1>1, <1>b, Zenon DEF Call, InKernelCode, cpuVars
<1>2. ASSUME NEW s \in Slots, ReapTake(s) PROVE ResumesAsLeft' /\ FlagIsCurrents' /\ SpaceIsCurrents'
  <2>1. PICK l \in {"switch", "force"} :
          /\ pc' = [pc EXCEPT ![s] = l] /\ s = current /\ kind'[s] = kind[s]
          /\ UNCHANGED <<queue, current, resumeIF, rsp0, generation, cr3>>
          /\ pc[s] = "reap"
    BY <1>0, <1>2, Zenon DEF ReapTake, At, cpuVars
  <2>2. iflag' = iflag
    BY <1>2, Zenon DEF ReapTake, cpuVars
  <2>3. ~Masked(current)' /\ ~Masked(current) /\ cr3' = page_table(current)
    BY <1>0, <1>a, <1>c, <2>1, Zenon DEF Masked
  <2> QED BY <1>c, <2>1, <2>2, <2>3, StaysOn, Zenon
<1>3. ASSUME NEW s \in Slots, ReapForce(s) PROVE ResumesAsLeft' /\ FlagIsCurrents' /\ SpaceIsCurrents'
  <2>1. /\ pc' = [pc EXCEPT ![s] = "free"] /\ s = current /\ kind'[s] = kind[s]
        /\ UNCHANGED <<queue, current, resumeIF, rsp0, generation>>
        /\ pc[s] = "force" /\ cr3' = KernelTable
    BY <1>0, <1>3, Zenon DEF ReapForce, At, tableVars
  <2>2. iflag' = iflag
    BY <1>3, Zenon DEF ReapForce
  <2>3. ~Masked(current)' /\ ~Masked(current)
    BY <1>0, <1>c, <2>1, Zenon DEF Masked
  <2> QED BY <1>c, <2>1, <2>2, <2>3, StaysOn, Zenon
<1>4. ASSUME NEW s \in Slots, ReapFree(s) \/ ReapFreeSpace(s)
      PROVE  ResumesAsLeft' /\ FlagIsCurrents' /\ SpaceIsCurrents'
  <2>1. PICK l \in {"free", "free_space", "switch"} :
          /\ pc' = [pc EXCEPT ![s] = l] /\ s = current /\ kind'[s] = kind[s]
          /\ UNCHANGED <<queue, current, resumeIF, rsp0, generation>>
          /\ pc[s] \in {"free", "free_space"} /\ cr3' = cr3
    BY <1>4, Zenon DEF ReapFree, ReapFreeSpace, At, tableVars, cpuVars
  <2>2. iflag' = iflag
    BY <1>4, Zenon DEF ReapFree, ReapFreeSpace, cpuVars
  <2>3. ~Masked(current)' /\ ~Masked(current)
    BY <1>0, <1>c, <2>1, Zenon DEF Masked
  <2>4. cr3' = page_table(current) \/ cr3' = KernelTable
    BY <1>a, <2>1, Zenon
  <2> QED BY <1>c, <2>1, <2>2, <2>3, <2>4, StaysOn, Zenon
<1>5. ASSUME NEW s \in Slots, Yield(s) PROVE ResumesAsLeft' /\ FlagIsCurrents' /\ SpaceIsCurrents'
  <2>1. /\ generation' = generation /\ kind' = kind /\ s = current /\ pc[s] = "switch"
        /\ pc' = [pc EXCEPT ![s] = "run"] /\ Rotate(iflag, cr3)
    BY <1>5, Zenon DEF Yield, At
  <2>2. iflag <=> ~(pc'[current] \in {"fresh", "wait"})
    BY <1>0, <1>a, <2>1, Zenon DEF Masked
  <2> QED BY <1>0, <2>1, <2>2, RotatesOver, Zenon
<1>6. ASSUME NEW s \in Slots, Exit(s) PROVE ResumesAsLeft' /\ FlagIsCurrents' /\ SpaceIsCurrents'
  <2>1. /\ generation' = generation /\ kind' = kind /\ s = current
        /\ pc' = [pc EXCEPT ![s] = "run"] /\ ExitCurrent
    BY <1>6, Zenon DEF Exit, At
  <2> QED BY <1>0, <2>1, ExitsOver, Zenon
<1>7. ASSUME DemoPoll PROVE ResumesAsLeft' /\ FlagIsCurrents' /\ SpaceIsCurrents'
  <2>1. /\ UNCHANGED <<tableVars, resumeIF, rsp0, cr3, iflag>>
        /\ pc[Boot] = "run" /\ current = Boot
        /\ pc' = pc \/ pc' = [pc EXCEPT ![Boot] = "reap"]
    BY <1>7, Zenon DEF DemoPoll, At, cpuVars
  <2> QED BY <1>0, <1>b, <2>1, Zenon
<1>8. ASSUME NEW s \in Slots, Trampoline(s) PROVE ResumesAsLeft' /\ FlagIsCurrents' /\ SpaceIsCurrents'
  <2>1. /\ pc' = [pc EXCEPT ![s] = "run"] /\ s = current /\ kind'[s] = kind[s]
        /\ UNCHANGED <<queue, current, resumeIF, rsp0, generation>>
        /\ pc[s] = "fresh" /\ cr3' = cr3
    BY <1>8, Zenon DEF Trampoline, At, tableVars
  <2>2. iflag' = TRUE
    BY <1>8, Zenon DEF Trampoline
  <2>3. ~Masked(current)'
    BY <1>c, <2>1, Zenon
  <2>4. cr3' = page_table(current)
    BY <1>a, <2>1, Zenon
  <2> QED BY <1>c, <2>1, <2>2, <2>3, <2>4, StaysOn, Zenon
<1>9. ASSUME NEW s \in Slots, SysWaitYield(s) PROVE ResumesAsLeft' /\ FlagIsCurrents' /\ SpaceIsCurrents'
  <2>1. /\ UNCHANGED <<generation, pc>> /\ ReapZombie /\ Rotate(iflag, SpaceAfterReap)
    BY <1>9, Zenon DEF SysWaitYield
  <2>2. iflag <=> ~(pc'[current] \in {"fresh", "wait"})
    BY <1>a, <2>1, Zenon DEF Masked
  <2>3. \A r \in Slots : r # zombie => kind'[r] = kind[r]
    BY <2>1, Zenon DEF ReapZombie
  <2> QED BY <2>1, <2>2, <2>3, RotatesOver, Zenon DEF SpaceAfterReap
<1>10. ASSUME NEW s \in Slots, SysWaitReturn(s)
       PROVE  ResumesAsLeft' /\ FlagIsCurrents' /\ SpaceIsCurrents'
  <2>1. /\ pc' = [pc EXCEPT ![s] = "run"] /\ s = current /\ kind'[s] = kind[s]
        /\ UNCHANGED <<queue, current, resumeIF, rsp0, generation>>
        /\ pc[s] = "wait" /\ cr3' = cr3
    BY <1>10, Zenon DEF SysWaitReturn, At, tableVars
  <2>2. iflag' = TRUE
    BY <1>10, Zenon DEF SysWaitReturn
  <2>3. ~Masked(current)'
    BY <1>c, <2>1, Zenon
  <2>4. cr3' = page_table(current)
    BY <1>a, <2>1, Zenon
  <2> QED BY <1>c, <2>1, <2>2, <2>3, <2>4, StaysOn, Zenon
<1>11. ASSUME NEW s \in Slots, SysExit(s) PROVE ResumesAsLeft' /\ FlagIsCurrents' /\ SpaceIsCurrents'
  <2>1. /\ UNCHANGED <<generation, pc>> /\ ReapZombie /\ ExitCurrent
    BY <1>11, Zenon DEF SysExit
  <2>2. \A r \in Slots : r # zombie => kind'[r] = kind[r]
    BY <2>1, Zenon DEF ReapZombie
  <2> QED BY <2>1, <2>2, ExitsOver, Zenon
<1>12. ASSUME NEW s \in Slots, NEW pid \in IssuedPids, SysWait(s, pid)
       PROVE  ResumesAsLeft' /\ FlagIsCurrents' /\ SpaceIsCurrents'
  <2>1. /\ pc' = [pc EXCEPT ![s] = "wait"] /\ s = current /\ kind'[s] = kind[s]
        /\ UNCHANGED <<queue, current, resumeIF, rsp0, generation>>
        /\ pc[s] = "run" /\ cr3' = cr3
    BY <1>12, Zenon DEF SysWait, At, tableVars
  <2>2. iflag' = FALSE
    BY <1>12, Zenon DEF SysWait
  <2>3. Masked(current)'
    BY <1>c, <2>1, Zenon
  <2>4. cr3' = page_table(current)
    BY <1>a, <2>1, Zenon
  <2> QED BY <1>c, <2>1, <2>2, <2>3, <2>4, StaysOn, Zenon
<1>13. ASSUME NEW pid \in IssuedPids, WaitForDemo(pid)
       PROVE  ResumesAsLeft' /\ FlagIsCurrents' /\ SpaceIsCurrents'
  BY <1>13, <1>b, Zenon DEF WaitForDemo, cpuVars
<1>14. ASSUME NEW k \in Kinds, Spawn(k) PROVE ResumesAsLeft' /\ FlagIsCurrents' /\ SpaceIsCurrents'
  <2>1. PICK id \in Slots :
          /\ id # current /\ id \notin Range(queue)
          /\ generation' = [generation EXCEPT ![id] = generation[id] + 1]
          /\ kind' = [kind EXCEPT ![id] = k]
          /\ Range(queue') = Range(queue) \cup {id}
          /\ pc' = [pc EXCEPT ![id] = "fresh"]
          /\ resumeIF' = [resumeIF EXCEPT ![id] = FALSE]
          /\ UNCHANGED <<current, iflag, cr3, rsp0>>
    BY <1>0, <1>14, SpawnPlace, Zenon
  <2>2. resumeIF \in [Slots -> BOOLEAN] /\ generation \in [Slots -> 0 .. MaxGeneration]
    BY <1>0, Zenon DEF IInv, TypeOK
  <2>3. \A s \in Slots : s # id => resumeIF'[s] = resumeIF[s]
    BY <2>1, <2>2, Zenon
  <2>4. ~resumeIF'[id]
    BY <2>1, <2>2, Zenon
  <2>5. \A s \in Range(queue') : \/ s \in Range(queue) /\ pc'[s] = pc[s] /\ resumeIF'[s] = resumeIF[s]
                                 \/ pc'[s] = "fresh" /\ ~resumeIF'[s]
    BY <1>0, <2>1, <2>3, <2>4, Zenon
  <2>6. /\ kind'[current] = kind[current] /\ generation'[current] = generation[current]
        /\ pc'[current] = pc[current]
    BY <1>0, <2>1, <2>2, Zenon
  <2>7. Masked(current)' <=> Masked(current)
    BY <2>1, <2>6, Zenon DEF Masked
  <2> QED BY <2>1, <2>5, <2>6, <2>7, StaysOn, Zenon
<1>15. ASSUME SpawnPanics PROVE ResumesAsLeft' /\ FlagIsCurrents' /\ SpaceIsCurrents'
  BY <1>15, <1>b, Zenon DEF SpawnPanics, localVars, cpuVars
<1>16. ASSUME Tick PROVE ResumesAsLeft' /\ FlagIsCurrents' /\ SpaceIsCurrents'
  <2>1. UNCHANGED <<generation, pc>> /\ ReapZombie /\ iflag /\ Rotate(TRUE, SpaceAfterReap)
    BY <1>16, Zenon DEF Tick
  <2>2. TRUE <=> ~(pc'[current] \in {"fresh", "wait"})
    BY <1>a, <2>1, Zenon DEF Masked
  <2>3. \A r \in Slots : r # zombie => kind'[r] = kind[r]
    BY <2>1, Zenon DEF ReapZombie
  <2>4. SpaceAfterReap \in {cr3, KernelTable} /\ \A r \in Slots : r # current => pc'[r] = pc[r]
    BY <2>1, Zenon DEF SpaceAfterReap
  <2> QED BY <2>1, <2>2, <2>3, <2>4, RotatesOver, Zenon
<1>17. ASSUME UNCHANGED vars PROVE ResumesAsLeft' /\ FlagIsCurrents' /\ SpaceIsCurrents'
  BY <1>17, <1>b, Zenon DEF vars, localVars, cpuVars
<1> QED
  BY <1>1, <1>2, <1>3, <1>4, <1>5, <1>6, <1>7, <1>8, <1>9, <1>10, <1>11, <1>12,
     <1>13, <1>14, <1>15, <1>16, <1>17, Zenon
  DEF Next, KernelStep, ProgramStep, Halted

(* The registers are the running thread's in every state.                  *)
LEMMA SpecCpuInv == Spec => []CpuInv
BY InitCpuInv, NextCpuInv, PTL DEF Spec

(* CR3, the TSS's RSP0 and the interrupt flag are the running thread's own  *)
(* after every switch, preemption inside reap_zombie included: only there  *)
(* is the kernel's table active instead.                                   *)
THEOREM RegistersAreCurrents == Spec => []CpuStateIsCurrents
<1>1. ASSUME CpuInv PROVE CpuStateIsCurrents
  <2>1. iflag <=> pc[current] \notin {"fresh", "wait"}
    BY <1>1, Zenon DEF CpuInv, FlagIsCurrents, Masked
  <2> QED BY <1>1, <2>1, Zenon DEF CpuInv, SpaceIsCurrents, CpuStateIsCurrents
<1> QED BY <1>1, SpecCpuInv, PTL

-----------------------------------------------------------------------------
(* Exits by system call only.  The shipped kernel's demos are the only     *)
(* ring-0 threads that call exit_current_thread with interrupts on; once   *)
(* they are over every thread that exits is a ring-3 one, in SYS_EXIT or   *)
(* kill_current_thread.                                                    *)

NoRingZeroExit == \A s \in Slots : op[s] # "exit"
InRotation == {current} \cup Range(queue)

ExitInv == IInv /\ NoRingZeroExit /\ OnlyPendingZombie

(* At boot there is no zombie.                                             *)
LEMMA InitExitInv == Init => ExitInv
<1> SUFFICES ASSUME Init PROVE ExitInv
  BY Zenon
<1>1. NoRingZeroExit
  BY Zenon DEF Init, NoRingZeroExit
<1>2. OnlyPendingZombie
  BY Constants, Zenon DEF Init, OnlyPendingZombie, Occupied
<1> QED BY <1>1, <1>2, InitIInv, Zenon DEF ExitInv

(* schedule puts the caller back: the same threads are in the rotation.    *)
LEMMA RotateMembers ==
  ASSUME IInv, NEW e, NEW sp, Rotate(e, sp)
  PROVE  InRotation' = InRotation
<1>1. CASE UNCHANGED <<queue, current>>
  BY <1>1, Zenon DEF InRotation, Range
<1>2. CASE \E next \in Range(queue) :
             SwitchTo(next) /\ Range(queue') = (Range(queue) \ {next}) \cup {current}
  BY <1>2, Zenon DEF InRotation, SwitchTo
<1> QED BY <1>1, <1>2, RotateLeadsTo, Zenon

(* Whoever leaves the rotation in exit_current_thread is recorded as the   *)
(* zombie.                                                                 *)
LEMMA ExitMembers ==
  ASSUME IInv, ExitCurrent
  PROVE  InRotation \subseteq InRotation' \cup {zombie'}
<1>1. PICK next \in Range(queue) :
        SwitchTo(next) /\ Range(queue') = Range(queue) \ {next} /\ zombie' = current
  BY ExitLeadsTo, Zenon
<1> QED BY <1>1, Zenon DEF InRotation, SwitchTo

(* Without ring-0 exits, every step keeps the zombie the only one that     *)
(* waits to be reaped.                                                     *)
LEMMA NextExitInv ==
  ASSUME ExitKinds = {}, ExitInv, [Next]_vars
  PROVE  ExitInv'
<1>0. IInv /\ NoRingZeroExit /\ Occupied \subseteq InRotation \cup {zombie}
  BY Zenon DEF ExitInv, OnlyPendingZombie, InRotation
<1>1. NoRingZeroExit'
  <2>0. op \in [Slots -> {"none", "yield", "exit"}]
    BY <1>0, Zenon DEF IInv, TypeOK
  <2>1. ASSUME NEW s \in Slots, KernelStep(s) PROVE NoRingZeroExit'
    BY <1>0, <2>0, <2>1, Zenon DEF KernelStep, ReapTake, ReapForce, ReapFree, ReapFreeSpace, Yield,
          Exit, DemoPoll,
       Trampoline, SysWaitYield, SysWaitReturn, NoRingZeroExit
  <2>2. ASSUME NEW s \in Slots, ProgramStep(s) PROVE NoRingZeroExit'
    BY <1>0, <2>0, <2>2, Zenon DEF ProgramStep, Call, SysExit, SysWait, NoRingZeroExit
  <2>3. ASSUME \/ \E pid \in IssuedPids : WaitForDemo(pid)
               \/ \E k \in Kinds : Spawn(k)
               \/ SpawnPanics \/ Tick \/ UNCHANGED vars
        PROVE  NoRingZeroExit'
    BY <1>0, <2>3, Zenon DEF WaitForDemo, Spawn, SpawnPanics, Tick, vars, localVars, NoRingZeroExit
  <2> QED BY <2>1, <2>2, <2>3, Zenon DEF Next, Halted
<1>2. Occupied' \subseteq InRotation' \cup {zombie'}
  <2>1. ASSUME UNCHANGED tableVars PROVE Occupied' \subseteq InRotation' \cup {zombie'}
    BY <1>0, <2>1, Zenon DEF tableVars, Occupied, InRotation, Range
  <2>2. ASSUME kind' = [s \in Slots |-> IF s = zombie THEN "none" ELSE kind[s]],
               InRotation \subseteq InRotation' \cup {zombie'}
        PROVE  Occupied' \subseteq InRotation' \cup {zombie'}
    <3>1. Occupied' \subseteq Occupied \ {zombie}
      BY <2>2, Zenon DEF Occupied
    <3> QED BY <1>0, <2>2, <3>1, Zenon
  <2>3. ASSUME NEW s \in Slots, KernelStep(s) PROVE Occupied' \subseteq InRotation' \cup {zombie'}
    <3>1. CASE ReapTake(s)
      <4>1. InRotation' = InRotation
        BY <3>1, Zenon DEF ReapTake, InRotation, Range
      <4> QED BY <2>2, <3>1, <4>1, Zenon DEF ReapTake
    <3>2. CASE \/ ReapForce(s) \/ ReapFree(s) \/ ReapFreeSpace(s) \/ (s = Boot /\ DemoPoll)
               \/ Trampoline(s) \/ SysWaitReturn(s)
      BY <2>1, <3>2, Zenon DEF ReapForce, ReapFree, ReapFreeSpace, DemoPoll, Trampoline, SysWaitReturn
    <3>3. CASE Yield(s)
      <4>1. InRotation' = InRotation
        BY <1>0, <3>3, RotateMembers, Zenon DEF Yield
      <4>2. kind' = kind /\ zombie' = zombie
        BY <3>3, Zenon DEF Yield
      <4> QED BY <1>0, <4>1, <4>2, Zenon DEF Occupied
    <3>4. CASE Exit(s)
      BY <1>0, <3>4, Zenon DEF Exit, NoRingZeroExit
    <3>5. CASE SysWaitYield(s)
      <4>1. InRotation' = InRotation
        BY <1>0, <3>5, RotateMembers, Zenon DEF SysWaitYield
      <4> QED BY <2>2, <3>5, <4>1, Zenon DEF SysWaitYield, ReapZombie
    <3> QED BY <2>3, <3>1, <3>2, <3>3, <3>4, <3>5, Zenon DEF KernelStep
  <2>4. ASSUME NEW s \in Slots, ProgramStep(s) PROVE Occupied' \subseteq InRotation' \cup {zombie'}
    <3>1. CASE SysExit(s)
      <4>1. InRotation \subseteq InRotation' \cup {zombie'}
        BY <1>0, <3>1, ExitMembers, Zenon DEF SysExit
      <4> QED BY <2>2, <3>1, <4>1, Zenon DEF SysExit, ReapZombie
    <3>2. CASE (\E o \in {"yield", "exit"} : Call(s, o)) \/ \E pid \in IssuedPids : SysWait(s, pid)
      BY <2>1, <3>2, Zenon DEF Call, SysWait
    <3> QED BY <2>4, <3>1, <3>2, Zenon DEF ProgramStep
  <2>5. ASSUME NEW k \in Kinds, Spawn(k) PROVE Occupied' \subseteq InRotation' \cup {zombie'}
    <3>1. PICK id \in Slots :
            /\ kind' = [kind EXCEPT ![id] = k]
            /\ Range(queue') = Range(queue) \cup {id}
            /\ UNCHANGED <<current, zombie>>
      BY <1>0, <2>5, SpawnPlace, Zenon
    <3>2. Occupied' \subseteq Occupied \cup {id}
      BY <1>0, <3>1, Zenon DEF Occupied, IInv, TypeOK
    <3> QED BY <1>0, <3>1, <3>2, Zenon DEF InRotation
  <2>6. CASE Tick
    <3>1. InRotation' = InRotation
      <4>1. Rotate(TRUE, SpaceAfterReap)
        BY <2>6, Zenon DEF Tick
      <4> QED BY <1>0, <4>1, RotateMembers, Zenon
    <3> QED BY <2>2, <2>6, <3>1, Zenon DEF Tick, ReapZombie
  <2>7. CASE (\E pid \in IssuedPids : WaitForDemo(pid)) \/ SpawnPanics \/ UNCHANGED vars
    BY <2>1, <2>7, Zenon DEF WaitForDemo, SpawnPanics, vars
  <2> QED BY <2>3, <2>4, <2>5, <2>6, <2>7, Zenon DEF Next, Halted
<1> QED BY <1>0, <1>1, <1>2, NextIInv, Zenon DEF ExitInv, OnlyPendingZombie, InRotation

(* "At most one pending zombie ever exists": where threads exit only by    *)
(* system call, whoever has left the rotation and still has a slot is the  *)
(* thread recorded in zombie, so no slot is ever lost.  (With ring-0 exits *)
(* it is false.)                                                           *)
THEOREM AtMostOneZombie ==
  ASSUME ExitKinds = {}
  PROVE  Spec => []OnlyPendingZombie
<1>1. ExitInv /\ [Next]_vars => ExitInv'
  BY NextExitInv, Zenon
<1>2. ExitInv => OnlyPendingZombie
  BY Zenon DEF ExitInv
<1> QED BY <1>1, <1>2, InitExitInv, PTL DEF Spec

-----------------------------------------------------------------------------
(* Panics.                                                                 *)

(* Ring-3 threads are never inside reap_zombie with interrupts on, and no  *)
(* thread stays in ring 0 under an address space of its own.               *)
RingThreeOutside ==
  \A s \in Slots : kind[s] = "user" => pc[s] \in {"fresh", "run", "wait"}
NoIsolated == \A s \in Slots : kind[s] # "isolated"

PanicInv == CpuInv /\ ExitInv /\ RingThreeOutside /\ NoIsolated /\ PanicsOnlyWhenFull

(* At boot nothing has panicked.                                           *)
LEMMA InitPanicInv == Init => PanicInv
<1> SUFFICES ASSUME Init PROVE PanicInv
  BY Zenon
<1>1. RingThreeOutside /\ NoIsolated
  BY Zenon DEF Init, RingThreeOutside, NoIsolated
<1>2. PanicsOnlyWhenFull
  BY Zenon DEF Init, PanicsOnlyWhenFull
<1> QED BY <1>1, <1>2, InitCpuInv, InitExitInv, Zenon DEF PanicInv

(* Without ring-0 exits and isolated threads, a step panics only for want  *)
(* of a slot.                                                              *)
LEMMA NextPanicInv ==
  ASSUME ExitKinds = {}, SpawnKinds \subseteq {"kernel", "user"}, PanicInv, [Next]_vars
  PROVE  PanicInv'
<1>0. /\ IInv /\ CpuInv /\ ExitInv /\ RingThreeOutside /\ NoIsolated /\ PanicsOnlyWhenFull
      /\ kind \in [Slots -> Kinds \cup {"none"}]
      /\ pc \in [Slots -> {"fresh", "run", "reap", "force", "free", "free_space", "switch", "wait"}]
      /\ current \in Slots /\ kind[current] # "none" /\ kind[Boot] = "kernel"
  BY Zenon DEF PanicInv, CpuInv, IInv, TypeOK, RotationInv, Occupied, BootStays
<1>1. RingThreeOutside' /\ NoIsolated'
  <2>1. CASE Empties
    <3>1. NoIsolated'
      BY <1>0, <2>1, Zenon DEF Empties, NoIsolated
    <3>2. ASSUME \A s \in Slots : \/ pc'[s] \in {pc[s], "run", "wait"}
                                  \/ pc[s] \in {"reap", "force", "free", "free_space", "switch"}
                                  \/ kind[s] # "user"
          PROVE  RingThreeOutside'
      BY <1>0, <2>1, <3>2, Zenon DEF Empties, RingThreeOutside
    <3>3. ASSUME NEW s \in Slots, KernelStep(s) PROVE RingThreeOutside'
      BY <1>0, <3>2, <3>3, Zenon DEF KernelStep, ReapTake, ReapForce, ReapFree, ReapFreeSpace, Yield,
          Exit, DemoPoll,
         Trampoline, SysWaitYield, SysWaitReturn, At
    <3>4. ASSUME NEW s \in Slots, ProgramStep(s) PROVE RingThreeOutside'
      BY <1>0, <3>2, <3>4, Zenon DEF ProgramStep, Call, SysExit, SysWait, InKernelCode
    <3>5. CASE (\E pid \in IssuedPids : WaitForDemo(pid)) \/ SpawnPanics \/ Tick \/ UNCHANGED vars
      <4>1. pc' = pc
        BY <3>5, Zenon DEF WaitForDemo, SpawnPanics, Tick, vars, localVars
      <4> QED BY <3>1, <3>2, <4>1, Zenon
    <3>6. CASE \E k \in Kinds : Spawn(k)
      <4>1. PICK k \in Kinds, id \in Slots : generation' = [generation EXCEPT ![id] = generation[id] + 1]
                          /\ generation[id] \in Nat
        BY <1>0, <3>6, SpawnPlace, Zenon
      <4>2. generation \in [Slots -> 0 .. MaxGeneration]
        BY <1>0, Zenon DEF IInv, TypeOK
      <4> QED BY <2>1, <4>1, <4>2 DEF Empties
    <3> QED BY <3>1, <3>3, <3>4, <3>5, <3>6, Zenon DEF Next, Halted
  <2>2. ASSUME NEW k \in Kinds, Spawn(k) PROVE RingThreeOutside' /\ NoIsolated'
    <3>1. k \in {"kernel", "user"}
      BY <2>2, Zenon DEF Spawn, MaySpawn
    <3>2. PICK id \in Slots : kind' = [kind EXCEPT ![id] = k] /\ pc' = [pc EXCEPT ![id] = "fresh"]
      BY <1>0, <2>2, SpawnPlace
    <3> QED BY <1>0, <3>1, <3>2, Zenon DEF RingThreeOutside, NoIsolated
  <2> QED BY <1>0, <2>1, <2>2, EmptiesOrSpawns, Zenon
<1>2. PanicsOnlyWhenFull'
  <2>1. CASE ~panicked'
    BY <2>1, Zenon DEF PanicsOnlyWhenFull
  <2>2. CASE UNCHANGED vars
    BY <1>0, <2>2 DEF vars, tableVars, PanicsOnlyWhenFull, Range
  <2>3. CASE SpawnPanics
    <3>1. Slots \subseteq {current, zombie} \cup Range(queue)
      BY <1>0, <2>3, Zenon DEF SpawnPanics, FreeSlots, ExitInv, OnlyPendingZombie, Occupied
    <3>2. UNCHANGED <<current, zombie, queue>>
      BY <2>3, Zenon DEF SpawnPanics, tableVars
    <3> QED BY <3>1, <3>2, Zenon DEF PanicsOnlyWhenFull, Range
  <2>4. ASSUME NEW s \in Slots, ReapFree(s) \/ ReapFreeSpace(s) PROVE ~panicked'
    <3>1. current = s /\ pc[s] \in {"free", "free_space"}
      BY <2>4, Zenon DEF ReapFree, ReapFreeSpace, At
    <3>2. kind[s] = "kernel"
      BY <1>0, <3>1, Zenon DEF RingThreeOutside, NoIsolated, Kinds
    <3>3. cr3 = KernelTable
      BY <1>0, <3>1, <3>2, Zenon DEF CpuInv, SpaceIsCurrents, page_table
    <3> QED BY <2>4, <3>3, Zenon DEF ReapFree, ReapFreeSpace
  <2>5. ASSUME NEW s \in Slots, KernelStep(s) PROVE ~panicked'
    BY <2>4, <2>5, Zenon DEF KernelStep, ReapTake, ReapForce, Yield, Exit, DemoPoll,
       Trampoline, SysWaitYield, SysWaitReturn, At
  <2>6. ASSUME NEW s \in Slots, ProgramStep(s) PROVE ~panicked'
    BY <2>6, Zenon DEF ProgramStep, Call, SysExit, SysWait, InKernelCode, At
  <2>7. CASE (\E pid \in IssuedPids : WaitForDemo(pid)) \/ (\E k \in Kinds : Spawn(k)) \/ Tick
    BY <2>1, <2>7, Zenon DEF WaitForDemo, Spawn, MaySpawn, Tick, At
  <2> QED BY <2>1, <2>2, <2>3, <2>5, <2>6, <2>7, Zenon DEF Next, Halted
<1> QED BY <1>0, <1>1, <1>2, NextCpuInv, NextExitInv, Zenon DEF PanicInv

(* With exits by system call and no isolated ring-0 thread, the kernel     *)
(* panics only when a thread is created with every slot taken by a thread  *)
(* that can still run or is about to be reaped: in particular reap_zombie  *)
(* never frees under a table that does not map the heap.                   *)
THEOREM PanicsAreDue ==
  ASSUME ExitKinds = {}, SpawnKinds \subseteq {"kernel", "user"}
  PROVE  Spec => []PanicsOnlyWhenFull
<1>1. PanicInv /\ [Next]_vars => PanicInv'
  BY NextPanicInv, Zenon
<1>2. PanicInv => PanicsOnlyWhenFull
  BY Zenon DEF PanicInv
<1> QED BY <1>1, <1>2, InitPanicInv, PTL DEF Spec
=============================================================================
