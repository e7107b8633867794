--------------------------- MODULE KeyboardProofs ---------------------------
(***************************************************************************)
(* No keystroke is left behind by a sleeping executor, for all capacities  *)
(* of the queues: see module Keyboard for the properties.                  *)
(***************************************************************************)
EXTENDS Keyboard, SequenceTheorems, WellFoundedInduction, TLAPS

(* Where the registration stands: AtomicWaker is in its registering state  *)
(* exactly while the executor is inside register, and only then can an     *)
(* interrupt leave the waking to it; a task that has registered is either  *)
(* still to be woken or already back in the ready queue.                   *)
Registration ==
  /\ waker = "registering" <=> pc = "registering"
  /\ waking => pc = "registering"
  /\ pc = "second" => waker = "set" \/ queued > 0

Bytes == STRING

(* What is in the queues and in the histories.                             *)
Streams ==
  /\ emitting \in Seq(Bytes) /\ input \in Seq(Bytes) /\ received \in Seq(Bytes)
  /\ accepted \in Seq(Scancodes)

WakeInv == TypeOK /\ Streams /\ Registration /\ NoLostWakeup

(* What the assumptions on the queues and on the decoder say.              *)
LEMMA Capacities ==
  /\ SCANCODE_CAPACITY \in Nat \ {0}
  /\ MAX_QUEUED_TASKS \in Nat \ {0}
  /\ INPUT_CAPACITY \in Nat \ {0}
  /\ MaxRead \in Nat \ {0}
  /\ MaxKeys \in Nat
  /\ \A sc \in Scancodes : Decode[sc] \in Seq(Bytes)
BY KeyboardAssumption, Zenon DEF Bytes

(* The flag aside, which another prover deals with.                        *)
FlagOK == waking \in BOOLEAN
QueuesOK ==
  /\ scancodes \in Seq(Scancodes) /\ Len(scancodes) <= SCANCODE_CAPACITY
  /\ waker \in {"none", "registering", "set"}
  /\ queued \in 0 .. MAX_QUEUED_TASKS
  /\ pc \in {"pop", "idle", "halted", "fast", "register", "registering",
             "second", "emit"}
  /\ Len(input) <= INPUT_CAPACITY
  /\ sent \in 0 .. MaxKeys

(* The type invariant, with its Boolean part by itself.                    *)
LEMMA TypeSplit == TypeOK <=> QueuesOK /\ FlagOK
BY Zenon DEF TypeOK, QueuesOK, FlagOK

(* The executor starts with its task queued and nothing registered.        *)
LEMMA InitWakeInv == Init => WakeInv
<1> SUFFICES ASSUME Init PROVE WakeInv
  BY Zenon
<1>1. QueuesOK
  BY Capacities DEF Init, QueuesOK
<1>2. FlagOK
  BY Zenon DEF Init, FlagOK
<1>3. Streams /\ Registration /\ NoLostWakeup
  BY DEF Init, Streams, Registration, NoLostWakeup
<1> QED BY <1>1, <1>2, <1>3, TypeSplit, Zenon DEF WakeInv

(* Every step keeps the flag a flag.                                       *)
LEMMA NextFlag == FlagOK /\ [Next]_vars => FlagOK'
BY Zenon DEF FlagOK, Next, vars, wakeVars, execVars, histVars, ExecutorStep, KeyboardInterrupt, Wake,
   TimerInterrupt, RunReadyTasks, SleepIfIdle, PollFast, RegisterBegin, RegisterEnd,
   PollSecond, Emit, SysReadStdin

(* add_scancode, without the flag.                                         *)
LEMMA InterruptSteps ==
  ASSUME NEW sc \in Scancodes, KeyboardInterrupt(sc)
  PROVE  /\ sent < MaxKeys /\ sent' = sent + 1
         /\ pc' = IF pc = "halted" THEN "pop" ELSE pc
         /\ UNCHANGED <<emitting, input, received>>
         /\ \/ /\ Len(scancodes) < SCANCODE_CAPACITY
               /\ scancodes' = Append(scancodes, sc)
               /\ accepted' = Append(accepted, sc)
               /\ waker' = IF waker = "set" THEN "none" ELSE waker
               /\ queued' = IF waker = "set" THEN wake_task ELSE queued
               /\ waking' => waking \/ waker = "registering"
            \/ /\ Len(scancodes) = SCANCODE_CAPACITY
               /\ UNCHANGED <<scancodes, accepted, waker, waking, queued>>
BY Zenon DEF KeyboardInterrupt, Wake, wakeVars

(* ScancodeStream hands over the first scancode and leaves the others.     *)
LEMMA TakesOne ==
  ASSUME QueuesOK, Streams, scancodes # <<>>, TakeScancode
  PROVE  /\ scancodes' \in Seq(Scancodes) /\ Len(scancodes') <= SCANCODE_CAPACITY
         /\ emitting' \in Seq(Bytes)
<1>1. scancodes \in Seq(Scancodes) /\ Len(scancodes) <= SCANCODE_CAPACITY
  BY Zenon DEF QueuesOK
<1>2. Head(scancodes) \in Scancodes
  BY <1>1
<1> QED BY <1>1, <1>2, Capacities DEF TakeScancode

(* The queues stay within their capacity and the histories well formed.    *)
LEMMA NextStreams ==
  ASSUME QueuesOK, Streams, [Next]_vars
  PROVE  QueuesOK' /\ Streams'
<1> USE Capacities DEF QueuesOK, Streams
<1>1. ASSUME NEW sc \in Scancodes, KeyboardInterrupt(sc) PROVE QueuesOK' /\ Streams'
  <2>0. /\ sent' \in 0 .. MaxKeys
        /\ pc' = IF pc = "halted" THEN "pop" ELSE pc
        /\ waker' \in {"none", "registering", "set"}
        /\ queued' \in 0 .. MAX_QUEUED_TASKS
        /\ UNCHANGED <<emitting, input, received>>
    <3>1. queued' \in {queued, wake_task} /\ waker' \in {waker, "none"}
      BY <1>1, Zenon DEF KeyboardInterrupt, Wake, wakeVars
    <3>2. sent < MaxKeys /\ sent' = sent + 1
      BY <1>1, Zenon DEF KeyboardInterrupt
    <3>3. wake_task \in 0 .. MAX_QUEUED_TASKS
      BY DEF wake_task
    <3> QED BY <1>1, <3>1, <3>2, <3>3 DEF KeyboardInterrupt
  <2>1. CASE scancodes' = scancodes /\ accepted' = accepted
    BY <2>0, <2>1, Zenon
  <2>2. CASE /\ Len(scancodes) < SCANCODE_CAPACITY
             /\ scancodes' = Append(scancodes, sc)
             /\ accepted' = Append(accepted, sc)
    <3>1. scancodes' \in Seq(Scancodes) /\ Len(scancodes') = Len(scancodes) + 1
      BY <2>2
    <3>2. accepted' \in Seq(Scancodes)
      BY <2>2
    <3>3. Len(scancodes') <= SCANCODE_CAPACITY
      BY <2>2, <3>1
    <3> QED BY <2>0, <3>1, <3>2, <3>3, Zenon
  <2> QED BY <1>1, <2>1, <2>2, InterruptSteps, Zenon
<1>2. CASE TimerInterrupt
  BY <1>2, Zenon DEF TimerInterrupt, wakeVars, histVars
<1>3. CASE RunReadyTasks
  BY <1>3 DEF RunReadyTasks, histVars
<1>4. CASE SleepIfIdle
  BY <1>4, Zenon DEF SleepIfIdle, wakeVars, histVars
<1>5. CASE PollFast
  BY <1>5, TakesOne, Zenon DEF PollFast, TakeScancode, wakeVars, histVars
<1>6. CASE RegisterBegin
  BY <1>6, Zenon DEF RegisterBegin, histVars
<1>7. CASE RegisterEnd
  BY <1>7 DEF RegisterEnd, wake_task, histVars
<1>8. CASE PollSecond
  BY <1>8, TakesOne, Zenon DEF PollSecond, TakeScancode, histVars
<1>9. CASE Emit
  <2>1. /\ pc = "emit" /\ pc' \in {"emit", "fast"}
        /\ \/ /\ emitting # <<>>
              /\ emitting' = Tail(emitting)
              /\ input' = IF Len(input) = INPUT_CAPACITY THEN input
                          ELSE Append(input, Head(emitting))
           \/ UNCHANGED <<emitting, input>>
        /\ UNCHANGED <<scancodes, waker, queued, sent, accepted, received>>
    BY <1>9, Zenon DEF Emit, wakeVars
  <2>2. emitting' \in Seq(Bytes) /\ input' \in Seq(Bytes) /\ Len(input') <= INPUT_CAPACITY
    <3>1. emitting # <<>> => Head(emitting) \in Bytes /\ Tail(emitting) \in Seq(Bytes)
      OBVIOUS
    <3>2. CASE UNCHANGED <<emitting, input>>
      BY <3>2, Zenon
    <3>3. CASE emitting # <<>> /\ emitting' = Tail(emitting) /\ input' = input
      BY <3>1, <3>3, Zenon
    <3>4. CASE /\ emitting # <<>> /\ emitting' = Tail(emitting)
               /\ Len(input) # INPUT_CAPACITY /\ input' = Append(input, Head(emitting))
      <4>1. input' \in Seq(Bytes) /\ Len(input') = Len(input) + 1
        BY <3>1, <3>4
      <4>2. Len(input) \in Nat /\ Len(input) < INPUT_CAPACITY
        BY <3>4
      <4> QED BY <3>1, <3>4, <4>1, <4>2
    <3> QED BY <2>1, <3>2, <3>3, <3>4, Zenon
  <2> QED BY <2>1, <2>2, Zenon
<1>10. ASSUME NEW len \in 1 .. MaxRead, SysReadStdin(len) PROVE QueuesOK' /\ Streams'
  BY <1>10 DEF SysReadStdin, PopInput, wakeVars, execVars
<1>11. CASE UNCHANGED vars
  BY <1>11, Zenon DEF vars, wakeVars, execVars, histVars
<1> QED
  BY <1>1, <1>2, <1>3, <1>4, <1>5, <1>6, <1>7, <1>8, <1>9, <1>10, <1>11, Zenon
  DEF Next, ExecutorStep

(* The step from a key queued to a task woken is never missed.             *)
LEMMA NextRegistration ==
  ASSUME QueuesOK, Registration, NoLostWakeup, [Next]_vars
  PROVE  Registration' /\ NoLostWakeup'
<1> USE Capacities DEF QueuesOK, Registration, NoLostWakeup
<1>1. ASSUME NEW sc \in Scancodes, KeyboardInterrupt(sc)
      PROVE  Registration' /\ NoLostWakeup'
  <2>1. wake_task > 0 /\ wake_task >= queued
    BY DEF wake_task
  <2> QED BY <1>1, <2>1, InterruptSteps
<1>2. CASE TimerInterrupt
  BY <1>2, Zenon DEF TimerInterrupt, wakeVars, histVars
<1>3. CASE RunReadyTasks
  BY <1>3, Zenon DEF RunReadyTasks, histVars
<1>4. CASE SleepIfIdle
  BY <1>4, Zenon DEF SleepIfIdle, wakeVars, histVars
<1>5. CASE PollFast
  BY <1>5, Zenon DEF PollFast, TakeScancode, wakeVars, histVars
<1>6. CASE RegisterBegin
  BY <1>6, Zenon DEF RegisterBegin, histVars
<1>7. CASE RegisterEnd
  BY <1>7 DEF RegisterEnd, wake_task, histVars
<1>8. CASE PollSecond
  BY <1>8 DEF PollSecond, TakeScancode, histVars
<1>9. CASE Emit
  BY <1>9, Zenon DEF Emit, wakeVars
<1>10. ASSUME NEW len \in 1 .. MaxRead, SysReadStdin(len)
       PROVE  Registration' /\ NoLostWakeup'
  BY <1>10, Zenon DEF SysReadStdin, wakeVars, execVars
<1>11. CASE UNCHANGED vars
  BY <1>11, Zenon DEF vars, wakeVars, execVars, histVars
<1> QED
  BY <1>1, <1>2, <1>3, <1>4, <1>5, <1>6, <1>7, <1>8, <1>9, <1>10, <1>11, Zenon
  DEF Next, ExecutorStep

(* Every step of the interrupt, the executor and the reader keeps WakeInv. *)
LEMMA NextWakeInv == WakeInv /\ [Next]_vars => WakeInv'
<1> SUFFICES ASSUME WakeInv, [Next]_vars PROVE WakeInv'
  BY Zenon
<1>1. QueuesOK /\ FlagOK /\ Streams /\ Registration /\ NoLostWakeup
  BY TypeSplit, Zenon DEF WakeInv
<1>2. FlagOK'
  BY <1>1, NextFlag, Zenon
<1>3. QueuesOK' /\ Streams'
  BY <1>1, NextStreams, Zenon
<1>4. Registration' /\ NoLostWakeup'
  BY <1>1, NextRegistration, Zenon
<1>5. TypeOK'
  BY <1>2, <1>3, Zenon DEF TypeOK, QueuesOK, FlagOK
<1> QED BY <1>3, <1>4, <1>5, Zenon DEF WakeInv

(* The executor never halts on a keystroke it has not seen, however the    *)
(* interrupts fall around poll_next, AtomicWaker and sleep_if_idle.        *)
THEOREM WakeupsKept == Spec => []NoLostWakeup
<1>1. WakeInv => NoLostWakeup
  BY Zenon DEF WakeInv
<1> QED BY <1>1, InitWakeInv, NextWakeInv, PTL DEF Spec

-----------------------------------------------------------------------------
(* What FlattenSeq computes.  The recursion is on the number of sequences, *)
(* and induction on that number is stated for a set.                       *)

(* Induction, with a set in the place of a predicate.                      *)
LEMMA InductionOnNat ==
  ASSUME NEW T, 0 \in T, \A n \in Nat : n \in T => n + 1 \in T
  PROVE  \A n \in Nat : n \in T
<1> SUFFICES ASSUME NEW m \in Nat, m \notin T PROVE FALSE
  BY Zenon
<1> DEFINE Less == {p \in Nat \X Nat : p[1] < p[2]}
           Out == {n \in Nat : n \notin T}
<1>1. PICK s \in Out : \A r \in Out : <<r, s>> \notin Less
  <2>1. IsWellFoundedOn(Less, Nat)
    BY NatLessThanWellFounded, Zenon DEF OpToRel
  <2>2. Out \subseteq Nat /\ Out # {}
    BY Zenon
  <2> HIDE DEF Less, Out
  <2> QED BY <2>1, <2>2, WFMin, Zenon
<1>2. \A a, b \in Nat : a < b => <<a, b>> \in Less
  BY Zenon
<1> HIDE DEF Less
<1>3. s \in Nat /\ s # 0
  BY Zenon
<1>4. s - 1 \in Nat /\ s - 1 < s /\ (s - 1) + 1 = s
  BY <1>3
<1>5. s - 1 \notin T
  BY <1>4, Zenon
<1> QED BY <1>1, <1>2, <1>4, <1>5, Zenon

(* f holds the flattenings of the first 1, 2, ... n members of seqs.       *)
Flattens(f, seqs, n) ==
  f = [i \in 1 .. n |-> IF i = 1 THEN seqs[i] ELSE f[i - 1] \o seqs[i]]

(* Sequences can be put one after the other, however many there are.       *)
LEMMA FlatteningExists ==
  ASSUME NEW seqs, NEW n \in Nat
  PROVE  \E f : Flattens(f, seqs, n)
<1> DEFINE T == {k \in Nat : \E f : Flattens(f, seqs, k)}
<1>1. 0 \in T
  <2>1. Flattens(<<>>, seqs, 0)
    BY DEF Flattens
  <2> QED BY <2>1, Zenon
<1>2. ASSUME NEW k \in Nat, k \in T PROVE k + 1 \in T
  <2>1. PICK f : Flattens(f, seqs, k)
    BY <1>2, Zenon
  <2> DEFINE g == [i \in 1 .. k + 1 |->
                     IF i <= k THEN f[i]
                     ELSE IF i = 1 THEN seqs[i] ELSE f[i - 1] \o seqs[i]]
             h == [i \in 1 .. k + 1 |-> IF i = 1 THEN seqs[i] ELSE g[i - 1] \o seqs[i]]
  <2>2. ASSUME NEW i \in 1 .. k + 1 PROVE g[i] = h[i]
    <3>1. i \in Nat /\ (i <= k => i \in 1 .. k) /\ (i > 1 => i - 1 \in 1 .. k + 1 /\ i - 1 <= k)
      OBVIOUS
    <3>2. i <= k => f[i] = IF i = 1 THEN seqs[i] ELSE f[i - 1] \o seqs[i]
      BY <2>1, <3>1, Zenon DEF Flattens
    <3>3. i > 1 => g[i - 1] = f[i - 1]
      BY <3>1, Zenon
    <3> HIDE DEF g
    <3>4. g[i] = IF i <= k THEN f[i] ELSE IF i = 1 THEN seqs[i] ELSE f[i - 1] \o seqs[i]
      BY Zenon DEF g
    <3>5. h[i] = IF i = 1 THEN seqs[i] ELSE g[i - 1] \o seqs[i]
      BY Zenon
    <3> HIDE DEF h
    <3> QED BY <3>1, <3>2, <3>3, <3>4, <3>5
  <2>3. g = h
    <3> HIDE DEF g
    <3>1. g = [i \in 1 .. k + 1 |-> g[i]]
      BY Zenon DEF g
    <3> QED BY <2>2, <3>1, Zenon
  <2>4. Flattens(g, seqs, k + 1)
    BY <2>3, Zenon DEF Flattens
  <2> QED BY <2>4
<1> HIDE DEF T
<1>3. n \in T
  BY <1>1, <1>2, InductionOnNat, Zenon
<1> QED BY <1>3, Zenon DEF T

(* FlattenSeq takes the last of them.                                      *)
LEMMA FlattenIsLast ==
  ASSUME NEW seqs, Len(seqs) \in Nat \ {0}
  PROVE  \E f : Flattens(f, seqs, Len(seqs)) /\ FlattenSeq(seqs) = f[Len(seqs)]
<1> DEFINE F == CHOOSE f : f = [i \in 1 .. Len(seqs) |-> IF i = 1 THEN seqs[i] ELSE f[i - 1] \o seqs[i]]
<1>1. \E f : Flattens(f, seqs, Len(seqs))
  BY FlatteningExists, Zenon
<1>2. Flattens(F, seqs, Len(seqs))
  BY <1>1, Zenon DEF Flattens
<1>3. FlattenSeq(seqs) = F[Len(seqs)]
  BY Zenon DEF FlattenSeq
<1> HIDE DEF F
<1> QED BY <1>2, <1>3, Zenon

(* The bytes of the first 0, 1, ... Len(codes) scancodes.                  *)
Accumulates(f, codes) ==
  /\ f \in [0 .. Len(codes) -> Seq(Bytes)]
  /\ f[0] = <<>>
  /\ \A i \in 1 .. Len(codes) : f[i] = f[i - 1] \o Decode[codes[i]]

(* The bytes of a sequence of scancodes, one scancode after another.       *)
LEMMA BytesOfAccumulates ==
  ASSUME NEW codes \in Seq(Scancodes)
  PROVE  \E f : Accumulates(f, codes) /\ BytesOf(codes) = f[Len(codes)]
<1> DEFINE seqs == [i \in DOMAIN codes |-> Decode[codes[i]]]
           n == Len(codes)
<1>1. /\ n \in Nat /\ DOMAIN codes = 1 .. n
      /\ \A i \in 1 .. n : codes[i] \in Scancodes
  OBVIOUS
<1>2. /\ seqs \in Seq(Seq(Bytes)) /\ Len(seqs) = n
      /\ \A i \in 1 .. n : seqs[i] = Decode[codes[i]] /\ seqs[i] \in Seq(Bytes)
  BY <1>1, Capacities
<1>3. CASE n = 0
  <2>1. BytesOf(codes) = seqs /\ seqs = <<>>
    BY <1>1, <1>2, <1>3 DEF BytesOf, FlattenSeq
  <2>2. Accumulates([i \in 0 .. 0 |-> <<>>], codes)
    BY <1>3 DEF Accumulates
  <2> QED BY <1>3, <2>1, <2>2
<1>4. CASE n # 0
  <2>1. PICK f : Flattens(f, seqs, n) /\ FlattenSeq(seqs) = f[n]
    BY <1>1, <1>2, <1>4, FlattenIsLast, Zenon
  <2> HIDE DEF seqs
  <2>2. /\ DOMAIN f = 1 .. n
        /\ \A i \in 1 .. n : f[i] = IF i = 1 THEN seqs[i] ELSE f[i - 1] \o seqs[i]
    BY <2>1, Zenon DEF Flattens
  <2> DEFINE T == {k \in Nat : k \in 1 .. n => f[k] \in Seq(Bytes)}
  <2>3. \A k \in Nat : k \in T
    <3>1. 0 \in T
      BY <1>1
    <3>2. ASSUME NEW k \in Nat, k \in T PROVE k + 1 \in T
      <4> SUFFICES ASSUME k + 1 \in 1 .. n PROVE f[k + 1] \in Seq(Bytes)
        OBVIOUS
      <4>1. CASE k = 0
        <5>1. k + 1 = 1 /\ 1 \in 1 .. n
          BY <4>1
        <5>2. f[1] = seqs[1] /\ seqs[1] \in Seq(Bytes)
          BY <1>2, <2>2, <5>1, Zenon
        <5> QED BY <5>1, <5>2, Zenon
      <4>2. CASE k # 0
        <5>1. k \in 1 .. n /\ f[k] \in Seq(Bytes) /\ (k + 1) - 1 = k /\ k + 1 # 1
          BY <1>1, <3>2, <4>2
        <5>2. f[k + 1] = f[k] \o seqs[k + 1]
          BY <2>2, <5>1, Zenon
        <5> QED BY <1>2, <5>1, <5>2
      <4> QED BY <4>1, <4>2, Zenon
    <3> HIDE DEF T
    <3> QED BY <3>1, <3>2, InductionOnNat, Zenon
  <2>4. \A k \in 1 .. n : f[k] \in Seq(Bytes)
    BY <1>1, <2>3
  <2> DEFINE g == [i \in 0 .. n |-> IF i = 0 THEN <<>> ELSE f[i]]
  <2>5. g \in [0 .. n -> Seq(Bytes)] /\ g[0] = <<>> /\ \A i \in 1 .. n : g[i] = f[i]
    BY <1>1, <2>4
  <2> HIDE DEF g
  <2>6. ASSUME NEW i \in 1 .. n PROVE g[i] = g[i - 1] \o Decode[codes[i]]
    <3>1. seqs[i] \in Seq(Bytes) /\ seqs[i] = Decode[codes[i]]
      BY <1>2, Zenon
    <3>2. CASE i = 1
      <4>1. g[i] = seqs[i] /\ g[i - 1] = <<>>
        BY <2>2, <2>5, <3>2
      <4> QED BY <3>1, <4>1
    <3>3. CASE i # 1
      <4>1. i - 1 \in 1 .. n
        BY <1>1, <3>3
      <4> QED BY <2>2, <2>5, <3>1, <3>3, <4>1, Zenon
    <3> QED BY <3>2, <3>3, Zenon
  <2>7. BytesOf(codes) = g[n]
    BY <1>1, <1>4, <2>1, <2>5 DEF BytesOf, seqs
  <2> QED BY <2>5, <2>6, <2>7, Zenon DEF Accumulates
<1> QED BY <1>3, <1>4, Zenon

(* No scancodes, no bytes.                                                 *)
LEMMA BytesOfNothing == BytesOf(<<>>) = <<>>
BY DEF BytesOf, FlattenSeq

(* A scancode at the end adds its bytes at the end.                        *)
LEMMA BytesOfAppend ==
  ASSUME NEW codes \in Seq(Scancodes), NEW sc \in Scancodes
  PROVE  /\ BytesOf(codes) \in Seq(Bytes)
         /\ BytesOf(Append(codes, sc)) = BytesOf(codes) \o Decode[sc]
<1> DEFINE n == Len(codes)
           more == Append(codes, sc)
<1>1. PICK f : Accumulates(f, codes) /\ BytesOf(codes) = f[n]
  BY BytesOfAccumulates, Zenon
<1>2. /\ n \in Nat /\ more \in Seq(Scancodes) /\ Len(more) = n + 1
      /\ \A i \in 1 .. n : more[i] = codes[i]
      /\ more[n + 1] = sc
  OBVIOUS
<1> HIDE DEF more
<1>3. PICK g : Accumulates(g, more) /\ BytesOf(more) = g[n + 1]
  BY <1>2, BytesOfAccumulates, Zenon
<1> DEFINE T == {k \in Nat : k <= n => g[k] = f[k]}
<1>4. \A k \in Nat : k \in T
  <2>1. 0 \in T
    BY <1>1, <1>3, Zenon DEF Accumulates
  <2>2. ASSUME NEW k \in Nat, k \in T PROVE k + 1 \in T
    <3> SUFFICES ASSUME k + 1 <= n PROVE g[k + 1] = f[k + 1]
      OBVIOUS
    <3>1. /\ k + 1 \in 1 .. n /\ k + 1 \in 1 .. n + 1 /\ (k + 1) - 1 = k
          /\ g[k] = f[k]
      BY <1>2, <2>2
    <3>2. g[k + 1] = g[k] \o Decode[more[k + 1]]
      BY <1>2, <1>3, <3>1, Zenon DEF Accumulates
    <3>3. f[k + 1] = f[k] \o Decode[codes[k + 1]]
      BY <1>1, <3>1, Zenon DEF Accumulates
    <3> QED BY <1>2, <3>1, <3>2, <3>3, Zenon
  <2> HIDE DEF T
  <2> QED BY <2>1, <2>2, InductionOnNat, Zenon
<1>5. g[n] = f[n]
  BY <1>2, <1>4
<1>6. n + 1 \in 1 .. n + 1 /\ (n + 1) - 1 = n /\ n \in 0 .. n
  BY <1>2
<1>7. g[n + 1] = g[n] \o Decode[more[n + 1]]
  BY <1>2, <1>3, <1>6, Zenon DEF Accumulates
<1>8. f[n] \in Seq(Bytes)
  BY <1>1, <1>6, Zenon DEF Accumulates
<1> QED BY <1>1, <1>2, <1>3, <1>5, <1>7, <1>8, Zenon DEF more

(* The bytes of the scancode at the front come first.                      *)
LEMMA BytesOfTail ==
  ASSUME NEW codes \in Seq(Scancodes), codes # <<>>
  PROVE  BytesOf(codes) = Decode[Head(codes)] \o BytesOf(Tail(codes))
<1> DEFINE n == Len(codes)
           rest == Tail(codes)
           first == Decode[Head(codes)]
<1>1. PICK f : Accumulates(f, codes) /\ BytesOf(codes) = f[n]
  BY BytesOfAccumulates, Zenon
<1>2. /\ n \in Nat /\ n # 0 /\ rest \in Seq(Scancodes) /\ Len(rest) = n - 1
      /\ \A i \in 1 .. n - 1 : rest[i] = codes[i + 1]
      /\ Head(codes) = codes[1] /\ Head(codes) \in Scancodes
      /\ \A i \in 1 .. n : codes[i] \in Scancodes
  OBVIOUS
<1>3. first \in Seq(Bytes)
  BY <1>2, Capacities, Zenon
<1> HIDE DEF rest, first
<1>4. PICK g : Accumulates(g, rest) /\ BytesOf(rest) = g[n - 1]
  BY <1>2, BytesOfAccumulates, Zenon
<1> DEFINE T == {k \in Nat : k <= n - 1 => f[k + 1] = first \o g[k]}
<1>5. \A k \in Nat : k \in T
  <2>1. 0 \in T
    <3>0. 1 \in 1 .. n /\ 1 - 1 = 0
      BY <1>2
    <3>1. f[1] = f[0] \o Decode[codes[1]] /\ f[0] = <<>> /\ g[0] = <<>>
      BY <1>1, <1>4, <3>0, Zenon DEF Accumulates
    <3>2. f[1] = first /\ first \o g[0] = first
      BY <1>2, <1>3, <3>1 DEF first
    <3> QED BY <3>2
  <2>2. ASSUME NEW k \in Nat, k \in T PROVE k + 1 \in T
    <3> SUFFICES ASSUME k + 1 <= n - 1 PROVE f[(k + 1) + 1] = first \o g[k + 1]
      OBVIOUS
    <3>1. /\ k + 2 \in 1 .. n /\ k + 1 \in 1 .. n - 1 /\ k \in 0 .. n - 1
          /\ (k + 2) - 1 = k + 1 /\ (k + 1) - 1 = k /\ (k + 1) + 1 = k + 2
          /\ f[k + 1] = first \o g[k]
      BY <1>2, <2>2
    <3>2. f[k + 2] = f[k + 1] \o Decode[codes[k + 2]]
      BY <1>1, <3>1, Zenon DEF Accumulates
    <3>3. g[k + 1] = g[k] \o Decode[rest[k + 1]] /\ g[k] \in Seq(Bytes)
      BY <1>2, <1>4, <3>1, Zenon DEF Accumulates
    <3>4. rest[k + 1] = codes[k + 2] /\ Decode[codes[k + 2]] \in Seq(Bytes)
      BY <1>2, <3>1, Capacities, Zenon
    <3>5. (first \o g[k]) \o Decode[codes[k + 2]] = first \o (g[k] \o Decode[codes[k + 2]])
      <4>1. \A a, b, c \in Seq(Bytes) : (a \o b) \o c = a \o (b \o c)
        BY ConcatAssociative
      <4> QED BY <1>3, <3>3, <3>4, <4>1, Zenon
    <3> QED BY <3>1, <3>2, <3>3, <3>4, <3>5, Zenon
  <2> HIDE DEF T
  <2> QED BY <2>1, <2>2, InductionOnNat, Zenon
<1>6. n - 1 \in Nat /\ n - 1 <= n - 1 /\ (n - 1) + 1 = n
  BY <1>2
<1>7. f[n] = first \o g[n - 1]
  BY <1>5, <1>6, Zenon
<1> QED BY <1>1, <1>4, <1>7, Zenon DEF rest, first

-----------------------------------------------------------------------------
(* The task holds bytes of a key only while it queues them.                *)
EmitsOnlyThere == pc # "emit" => emitting = <<>>

Conserved ==
  ~lost => received \o input \o emitting \o BytesOf(scancodes) = BytesOf(accepted)

ByteInv == WakeInv /\ EmitsOnlyThere /\ Conserved

(* Concatenation is associative, and stays within the bytes.               *)
LEMMA Associative ==
  \A a, b, c \in Seq(Bytes) : (a \o b) \o c = a \o (b \o c) /\ a \o b \in Seq(Bytes)
BY ConcatAssociative, ConcatProperties

(* What scancodes decode to are bytes.                                     *)
LEMMA BytesOfType ==
  ASSUME NEW codes \in Seq(Scancodes)
  PROVE  BytesOf(codes) \in Seq(Bytes)
<1>1. PICK f : Accumulates(f, codes) /\ BytesOf(codes) = f[Len(codes)]
  BY BytesOfAccumulates, Zenon
<1>2. Len(codes) \in 0 .. Len(codes)
  OBVIOUS
<1> QED BY <1>1, <1>2, Zenon DEF Accumulates

(* The bytes of an accepted key are appended on both sides.                *)
LEMMA InterruptConserves ==
  ASSUME ByteInv, NEW sc \in Scancodes, KeyboardInterrupt(sc)
  PROVE  EmitsOnlyThere' /\ Conserved'
<1>1. /\ scancodes \in Seq(Scancodes) /\ Streams /\ EmitsOnlyThere /\ Conserved
  BY Zenon DEF ByteInv, WakeInv, TypeOK
<1>2. /\ UNCHANGED <<emitting, input, lost, received>>
      /\ \/ scancodes' = Append(scancodes, sc) /\ accepted' = Append(accepted, sc)
         \/ UNCHANGED <<scancodes, accepted>>
      /\ pc' = IF pc = "halted" THEN "pop" ELSE pc
  BY Zenon DEF KeyboardInterrupt
<1>3. EmitsOnlyThere'
  BY <1>1, <1>2, Zenon DEF EmitsOnlyThere
<1>4. CASE UNCHANGED <<scancodes, accepted>>
  BY <1>1, <1>2, <1>3, <1>4, Zenon DEF Conserved
<1>5. CASE scancodes' = Append(scancodes, sc) /\ accepted' = Append(accepted, sc)
  <2> DEFINE held == received \o input \o emitting
  <2>1. held \in Seq(Bytes) /\ Decode[sc] \in Seq(Bytes) /\ BytesOf(scancodes) \in Seq(Bytes)
    BY <1>1, Associative, Capacities, BytesOfType, Zenon DEF Streams
  <2>2. BytesOf(scancodes') = BytesOf(scancodes) \o Decode[sc]
    BY <1>1, <1>5, BytesOfAppend, Zenon
  <2>3. BytesOf(accepted') = BytesOf(accepted) \o Decode[sc]
    BY <1>1, <1>5, BytesOfAppend, Zenon DEF Streams
  <2>4. held' = held
    BY <1>2, Zenon
  <2>5. ASSUME ~lost PROVE held \o BytesOf(scancodes') = BytesOf(accepted')
    <3>1. held \o BytesOf(scancodes) = BytesOf(accepted)
      BY <1>1, <2>5, Zenon DEF Conserved
    <3>2. held \o (BytesOf(scancodes) \o Decode[sc]) = (held \o BytesOf(scancodes)) \o Decode[sc]
      BY <2>1, Associative
    <3> QED BY <2>2, <2>3, <3>1, <3>2, Zenon
  <2> QED BY <1>2, <1>3, <2>4, <2>5, Zenon DEF Conserved
<1> QED BY <1>2, <1>4, <1>5, Zenon

(* Decoding moves a key's bytes from the scancode to the task.             *)
LEMMA TakeConserves ==
  ASSUME ByteInv, pc # "emit", scancodes # <<>>, TakeScancode,
         UNCHANGED <<input, lost, received, accepted>>
  PROVE  EmitsOnlyThere' /\ Conserved'
<1>1. /\ scancodes \in Seq(Scancodes) /\ Streams /\ emitting = <<>> /\ Conserved
  BY Zenon DEF ByteInv, WakeInv, TypeOK, EmitsOnlyThere
<1>2. /\ scancodes' = Tail(scancodes) /\ emitting' = Decode[Head(scancodes)] /\ pc' = "emit"
      /\ Tail(scancodes) \in Seq(Scancodes) /\ Head(scancodes) \in Scancodes
  BY <1>1 DEF TakeScancode
<1> DEFINE taken == received \o input
           rest == BytesOf(Tail(scancodes))
<1>3. taken \in Seq(Bytes) /\ emitting' \in Seq(Bytes) /\ rest \in Seq(Bytes)
  BY <1>1, <1>2, Associative, Capacities, BytesOfType, Zenon DEF Streams
<1>4. BytesOf(scancodes) = emitting' \o rest
  BY <1>1, <1>2, BytesOfTail, Zenon
<1>5. taken \o <<>> = taken
  BY <1>3
<1>6. (taken \o emitting') \o rest = taken \o (emitting' \o rest)
  BY <1>3, Associative
<1>7. ASSUME ~lost PROVE (taken \o emitting') \o rest = BytesOf(accepted)
  BY <1>1, <1>4, <1>5, <1>6, <1>7, Zenon DEF Conserved
<1>8. Conserved'
  BY <1>2, <1>7, Zenon DEF Conserved
<1> QED BY <1>2, <1>8, Zenon DEF EmitsOnlyThere

(* A byte that is queued moves from the task to the input queue; one that  *)
(* is dropped is remembered.                                               *)
LEMMA EmitConserves ==
  ASSUME ByteInv, Emit
  PROVE  EmitsOnlyThere' /\ Conserved'
<1>1. /\ scancodes \in Seq(Scancodes) /\ Streams /\ Conserved
  BY Zenon DEF ByteInv, WakeInv, TypeOK
<1>2. pc = "emit" /\ UNCHANGED <<scancodes, accepted, received>>
  BY Zenon DEF Emit
<1>3. CASE emitting = <<>>
  <2>1. UNCHANGED <<emitting, input, lost>>
    BY <1>3, Zenon DEF Emit
  <2>2. Conserved'
    BY <1>1, <1>2, <2>1, Zenon DEF Conserved
  <2> QED BY <1>3, <2>1, <2>2, Zenon DEF EmitsOnlyThere
<1>4. CASE emitting # <<>>
  <2>1. /\ emitting' = Tail(emitting) /\ pc' = pc
        /\ input' = IF Len(input) = INPUT_CAPACITY THEN input
                    ELSE Append(input, Head(emitting))
    BY <1>4, Zenon DEF Emit
  <2>2. ~lost' => ~lost /\ Len(input) # INPUT_CAPACITY
    BY <1>4, Zenon DEF Emit
  <2>3. ASSUME ~lost', ~lost, Len(input) # INPUT_CAPACITY
        PROVE  received' \o input' \o emitting' \o BytesOf(scancodes') = BytesOf(accepted')
    <3> DEFINE h == Head(emitting)
    <3>1. h \in Bytes /\ Tail(emitting) \in Seq(Bytes) /\ <<h>> \in Seq(Bytes)
      BY <1>1, <1>4 DEF Streams
    <3>2. emitting = <<h>> \o Tail(emitting)
      BY <1>1, <1>4 DEF Streams
    <3>3. input' = input \o <<h>>
      BY <1>1, <2>1, <2>3, <3>1, AppendIsConcat, Zenon DEF Streams
    <3> HIDE DEF h
    <3>4. received \o input' = (received \o input) \o <<h>>
      BY <1>1, <3>1, <3>3, Associative, Zenon DEF Streams
    <3>5. received \o input \in Seq(Bytes)
      BY <1>1, Associative, Zenon DEF Streams
    <3>6. (received \o input') \o emitting' = (received \o input) \o emitting
      <4>1. ((received \o input) \o <<h>>) \o Tail(emitting)
              = (received \o input) \o (<<h>> \o Tail(emitting))
        BY <3>1, <3>5, Associative, Zenon
      <4> QED BY <2>1, <3>2, <3>4, <4>1, Zenon
    <3> QED BY <1>1, <1>2, <2>3, <3>6, Zenon DEF Conserved
  <2>4. Conserved'
    BY <2>2, <2>3, Zenon DEF Conserved
  <2> QED BY <1>2, <2>1, <2>4, Zenon DEF EmitsOnlyThere
<1> QED BY <1>3, <1>4, Zenon

(* What a read takes out of the queue is what it hands over.               *)
LEMMA ReadConserves ==
  ASSUME ByteInv, NEW len \in 1 .. MaxRead, SysReadStdin(len)
  PROVE  EmitsOnlyThere' /\ Conserved'
<1>1. Streams /\ EmitsOnlyThere /\ Conserved
  BY Zenon DEF ByteInv, WakeInv
<1> DEFINE n == IF len < Len(input) THEN len ELSE Len(input)
<1>2. n \in 0 .. Len(input)
  BY <1>1, Capacities DEF Streams
<1>3. /\ received' = received \o SubSeq(input, 1, n)
      /\ input' = SubSeq(input, n + 1, Len(input))
      /\ UNCHANGED <<scancodes, pc, emitting, accepted, lost>>
  BY Zenon DEF SysReadStdin, PopInput, execVars
<1> HIDE DEF n
<1>4. /\ SubSeq(input, 1, n) \in Seq(Bytes) /\ SubSeq(input, n + 1, Len(input)) \in Seq(Bytes)
      /\ SubSeq(input, 1, n) \o SubSeq(input, n + 1, Len(input)) = input
  <2>1. input \in Seq(Bytes) /\ n \in Nat /\ n <= Len(input) /\ Len(input) \in Nat
    BY <1>1, <1>2 DEF Streams
  <2>2. SubSeq(input, 1, n) \in Seq(Bytes) /\ SubSeq(input, n + 1, Len(input)) \in Seq(Bytes)
    BY <2>1, SubSeqProperties
  <2>3. SubSeq(input, 1, n) \o SubSeq(input, n + 1, Len(input)) = SubSeq(input, 1, Len(input))
    <3>1. 1 \in 1 .. Len(input) + 1 /\ n \in 1 - 1 .. Len(input)
          /\ Len(input) \in n .. Len(input)
      BY <2>1
    <3> QED BY <2>1, <3>1, ConcatAdjacentSubSeq, Zenon
  <2>4. SubSeq(input, 1, Len(input)) = input
    BY <2>1, SubSeqFull, Zenon
  <2> QED BY <2>2, <2>3, <2>4, Zenon
<1>5. received' \o input' = received \o input
  <2>1. received \in Seq(Bytes)
    BY <1>1, Zenon DEF Streams
  <2>2. (received \o SubSeq(input, 1, n)) \o SubSeq(input, n + 1, Len(input))
          = received \o (SubSeq(input, 1, n) \o SubSeq(input, n + 1, Len(input)))
    BY <1>4, <2>1, Associative, Zenon
  <2> QED BY <1>3, <1>4, <2>2, Zenon
<1>6. Conserved'
  BY <1>1, <1>3, <1>5, Zenon DEF Conserved
<1> QED BY <1>1, <1>3, <1>6, Zenon DEF EmitsOnlyThere

(* Every step keeps the bytes delivered and on their way those of the      *)
(* scancodes accepted.                                                     *)
LEMMA NextByteInv == ByteInv /\ [Next]_vars => ByteInv'
<1> SUFFICES ASSUME ByteInv, [Next]_vars PROVE EmitsOnlyThere' /\ Conserved'
  BY NextWakeInv, Zenon DEF ByteInv
<1>0. EmitsOnlyThere /\ Conserved
  BY Zenon DEF ByteInv
<1>1. ASSUME NEW sc \in Scancodes, KeyboardInterrupt(sc)
      PROVE  EmitsOnlyThere' /\ Conserved'
  BY <1>1, InterruptConserves, Zenon
<1>2. CASE PollFast
  <2>1. CASE scancodes # <<>>
    BY <1>2, <2>1, TakeConserves, Zenon DEF PollFast, histVars
  <2>2. CASE scancodes = <<>>
    BY <1>0, <1>2, <2>2, Zenon DEF PollFast, histVars, EmitsOnlyThere, Conserved
  <2> QED BY <2>1, <2>2, Zenon
<1>3. CASE PollSecond
  <2>1. CASE scancodes # <<>>
    BY <1>3, <2>1, TakeConserves, Zenon DEF PollSecond, histVars
  <2>2. CASE scancodes = <<>>
    BY <1>0, <1>3, <2>2, Zenon DEF PollSecond, histVars, EmitsOnlyThere, Conserved
  <2> QED BY <2>1, <2>2, Zenon
<1>4. CASE TimerInterrupt \/ RunReadyTasks \/ SleepIfIdle \/ RegisterBegin \/ RegisterEnd
  BY <1>0, <1>4, Zenon DEF TimerInterrupt, RunReadyTasks, SleepIfIdle, RegisterBegin, RegisterEnd,
     histVars, EmitsOnlyThere, Conserved
<1>5. CASE Emit
  BY <1>5, EmitConserves, Zenon
<1>6. ASSUME NEW len \in 1 .. MaxRead, SysReadStdin(len)
      PROVE  EmitsOnlyThere' /\ Conserved'
  BY <1>6, ReadConserves, Zenon
<1>7. CASE UNCHANGED vars
  BY <1>0, <1>7, Zenon DEF vars, execVars, histVars, EmitsOnlyThere, Conserved
<1> QED BY <1>1, <1>2, <1>3, <1>4, <1>5, <1>6, <1>7, Zenon DEF Next, ExecutorStep

(* Every byte of every accepted keystroke is delivered once and in order,  *)
(* or is still on its way, as long as INPUT_QUEUE has dropped none.        *)
THEOREM KeystrokesConserved == Spec => []BytesConserved
<1>1. Init => ByteInv
  <2> SUFFICES ASSUME Init PROVE ByteInv
    BY Zenon
  <2>1. EmitsOnlyThere
    BY Zenon DEF Init, EmitsOnlyThere
  <2>2. <<>> \o <<>> \o <<>> \o <<>> = <<>>
    OBVIOUS
  <2>3. Conserved
    BY <2>2, BytesOfNothing, Zenon DEF Init, Conserved
  <2> QED BY <2>1, <2>3, InitWakeInv, Zenon DEF ByteInv
<1>2. ByteInv => BytesConserved
  BY Zenon DEF ByteInv, WakeInv, Conserved, BytesConserved
<1> QED BY <1>1, <1>2, NextByteInv, PTL DEF Spec
=============================================================================
