----------------------------- MODULE BootProofs -----------------------------
(***************************************************************************)
(* What module Boot says of the locks, the interrupt flag and what threads *)
(* hand over to one another, for any number of threads in the two loops of *)
(* kernel_main.                                                            *)
(*                                                                         *)
(* What a thread has left to do is a sequence of steps, and the argument   *)
(* is a check of that code, as of a typed program.  A view is what the     *)
(* code of a thread may count on when it takes a step, Step says what each *)
(* kind of step requires of the view and how it changes it, and Runs(c, v, *)
(* w) that code c takes view v to view w.  Every routine is checked once,  *)
(* whatever it is called from.  The invariant says that what each thread   *)
(* has left to do runs from the view that the state gives it.              *)
(***************************************************************************)
EXTENDS Boot, TLAPS

-----------------------------------------------------------------------------
(* Views.                                                                  *)

Loops == Range(ExitThreads) \union Range(IsolatedThreads)

(* The threads that read the disk, other than boot.                        *)
DiskUsers == {"open_read", "spawn_wait", "shell"}

(* The threads that t starts.                                              *)
Children(t) ==
  IF t = "boot" THEN Threads \ {"boot", "greet", "command"}
  ELSE IF t = "spawn_wait" THEN {"greet"}
  ELSE IF t = "shell" THEN {"command"} ELSE {}

(* What kernel_main sets up before it enables interrupts.                  *)
Basics == NeedsSetup \ {"executor"}

Ops ==
  {"lock", "unlock", "off", "restore", "sti", "cli", "setup", "call", "take_zombie", "poll",
   "spawn", "switch", "die", "eoi", "select", "command", "transfer", "halt", "store", "load",
   "add_scancode", "run_executor", "push_input", "pop_input"}
Steps == Ops \X Operands
Code == Seq(Steps)
Idle == <<"idle", None>>

ViewTypes ==
  [me : Threads,                   \* whose view it is
   fl : BOOLEAN,                   \* the interrupt flag
   sv : Seq(BOOLEAN),              \* the flags saved
   held : SUBSET Locks,            \* the locks it holds
   isv : SUBSET Interrupts,        \* the interrupts it has to end
   rd : SUBSET NeedsSetup,         \* what it knows to be set up
   elf : Operands,                 \* what it knows the statics to hold
   out : SUBSET Threads,           \* those of its threads that may be alive
   ata : {"idle", "selected", "started"} \X Operands]  \* how far it is with a sector

(* The locks that it takes only with interrupts off.                       *)
Masking(v) ==
  IF v.me \in Loops \/ (v.me = "boot" /\ "executor" \notin v.rd)
  THEN MaskedLocks ELSE Locks

(* Nobody else can be using the disk.                                      *)
Alone(v) == v.me = "boot" /\ v.out \intersect DiskUsers = {}

(* Another thread or an interrupt may take over.                           *)
Open(v) ==
  /\ v.held \intersect Masking(v) = {}
  /\ v.isv = {}
  /\ Basics \subseteq v.rd
  /\ v.ata = Idle \/ Alone(v)

Views == {v \in ViewTypes : v.fl = TRUE => Open(v)}

-----------------------------------------------------------------------------
(* Steps.                                                                  *)

(* It may call whatever the kernel's routines share.                       *)
Calm(v) ==
  /\ v \in Views
  /\ v.held \intersect Masking(v) = {}
  /\ Basics \subseteq v.rd
  /\ v.fl = TRUE => Masking(v) = MaskedLocks

(* ... and schedule.                                                       *)
Yields(v) == Calm(v) /\ v.isv = {} /\ (v.ata = Idle \/ Alone(v))

OffView(v) == [v EXCEPT !.sv = <<v.fl>> \o v.sv, !.fl = FALSE]
Locking(v, l) == [v EXCEPT !.held = v.held \union {l}]
Unlocking(v, l) == [v EXCEPT !.held = v.held \ {l}]
Restoring(v) == [v EXCEPT !.fl = Head(v.sv), !.sv = Tail(v.sv)]
Leaving(v) == Restoring(Unlocking(v, "scheduler"))

(* boot, between two lines of kernel_main.                                 *)
Main(v) ==
  /\ v \in Views /\ v.me = "boot" /\ v.fl = TRUE /\ v.sv = <<>> /\ v.held = {} /\ v.isv = {}
  /\ v.rd = Basics /\ v.ata = Idle

CanRead(v) ==
  /\ (v.fl = FALSE /\ v.me \in DiskUsers) \/ Alone(v)
  /\ v.held \intersect {"writer", "serial"} = {}

(* What a step requires of the view v, and what it makes of it.            *)
Changes(v, op, arg, w) ==
  \/ /\ op = "lock" /\ arg \in Locks \ v.held
     /\ arg \in NeedsSetup => arg \in v.rd
     /\ arg \in Masking(v) => v.fl = FALSE
     /\ w = Locking(v, arg)
  \/ op = "unlock" /\ arg \in v.held /\ w = Unlocking(v, arg)
  \/ op = "off" /\ w = OffView(v)
  \/ op = "restore" /\ v.sv # <<>> /\ w = Restoring(v)
  \/ op = "sti" /\ w = [v EXCEPT !.fl = TRUE]
  \/ op = "cli" /\ w = [v EXCEPT !.fl = FALSE]
  \/ /\ op = "setup" /\ v.me = "boot" /\ arg \in NeedsSetup
     /\ arg = "executor" => v.held = {}
     /\ w = [v EXCEPT !.rd = v.rd \union {arg}]
  \/ /\ op = "take_zombie" /\ "scheduler" \in v.held /\ v.sv # <<>>
     /\ Calm(Leaving(v)) /\ w = Leaving(v)
  \/ /\ op = "poll" /\ "scheduler" \in v.held /\ v.sv # <<>> /\ arg \in Threads
     /\ Yields(Leaving(v)) /\ w = [Leaving(v) EXCEPT !.out = v.out \ {arg}]
  \/ /\ op = "switch" /\ "scheduler" \in v.held /\ v.sv # <<>> /\ v.fl = FALSE
     /\ Open(Unlocking(v, "scheduler")) /\ w = Leaving(v)
  \/ /\ op = "spawn" /\ arg \in Children(v.me) \ v.out /\ Basics \subseteq v.rd /\ v.ata = Idle
     /\ arg = "shell" => v.elf = "shell"
     /\ w = [v EXCEPT !.out = v.out \union {arg}]
  \/ op = "eoi" /\ w = [v EXCEPT !.isv = v.isv \ {arg}]
  \/ op = "select" /\ CanRead(v) /\ w = [v EXCEPT !.ata = <<"selected", arg>>]
  \/ /\ op = "command" /\ CanRead(v) /\ v.ata[1] = "selected"
     /\ w = [v EXCEPT !.ata = <<"started", v.ata[2]>>]
  \/ op = "transfer" /\ CanRead(v) /\ v.ata = <<"started", arg>> /\ w = [v EXCEPT !.ata = Idle]
  \/ /\ op = "store" /\ v.me = "boot" /\ "shell" \notin v.out /\ arg \in Operands
     /\ w = [v EXCEPT !.elf = arg]
  \/ op = "load" /\ v.me = "shell" /\ arg = "shell" /\ w = v
  \/ op = "add_scancode" /\ "scancodes" \in v.rd /\ "writer" \notin v.held /\ w = v
  \/ op = "push_input" /\ w = v
  \/ /\ op = "call" /\ Main(v)
     /\ \/ arg = "load_demos" /\ v.out = {} /\ w = [v EXCEPT !.elf = "echo"]
        \/ arg = "run_demos" /\ v.out = {} /\ w = v
        \/ arg = "exit_loops" /\ v.out = {} /\ w = [v EXCEPT !.out = Loops]
        \/ arg \in Loops \ v.out /\ w = [v EXCEPT !.out = v.out \union {arg}]

(* Steps that no other follows: the lock is already the thread's own, the  *)
(* thread exits, the kernel halts, or the thread is in its last loop.      *)
Ends(v, op, arg) ==
  \/ /\ op = "lock" /\ arg \in v.held \ Masking(v)
     /\ arg \in NeedsSetup => arg \in v.rd
  \/ /\ op = "die" /\ v.me # "boot" /\ v.held = {"scheduler"} /\ v.fl = FALSE /\ v.isv = {}
     /\ v.out = {}
  \/ op = "halt"
  \/ /\ op = "run_executor" /\ "executor" \in v.rd
     /\ v.held \intersect {"writer", "input"} = {}
  \/ /\ op = "pop_input" /\ v.me = "shell" /\ v.held = {"input"} /\ v.fl = FALSE
     /\ v.sv = <<FALSE, TRUE>> /\ v.isv = {} /\ v.rd = Basics /\ v.out = {} /\ v.ata = Idle
  \/ /\ op = "call" /\ arg = "start_shell" /\ Main(v) /\ v.out \intersect DiskUsers = {}

(* A view outside Views stands for code that is never reached.             *)
Step(v, s, w) ==
  v \in Views => \/ Changes(v, s[1], s[2], w) /\ w \in Views
                 \/ Ends(v, s[1], s[2])

Runs(c, v, w) ==
  /\ c \in Code
  /\ \E a : /\ a[1] = v /\ a[Len(c) + 1] = w
            /\ \A i \in 1 .. Len(c) : Step(a[i], c[i], a[i + 1])

-----------------------------------------------------------------------------
(* The threads of the loops have names of their own.                       *)

(* The threads of the two loops are distinct, and none of the others.      *)
LEMMA LoopNames ==
  /\ ExitThreads \in Seq(Loops) /\ IsolatedThreads \in Seq(Loops)
  /\ Loops \subseteq Threads
  /\ \A t \in Loops :
       t \notin {None, "boot", "shell", "command"} \union Demos \union Range(Phases)
  /\ \A i, j \in DOMAIN ExitThreads : ExitThreads[i] = ExitThreads[j] => i = j
  /\ \A i, j \in DOMAIN IsolatedThreads : IsolatedThreads[i] = IsolatedThreads[j] => i = j
  /\ Range(ExitThreads) \intersect Range(IsolatedThreads) = {}
  /\ Loops \subseteq Range(ExitThreads \o IsolatedThreads)
<1> DEFINE E == ExitThreads
           I == IsolatedThreads
           c == E \o I
<1>1. E \in Seq(Loops) /\ I \in Seq(Loops) /\ Loops \subseteq Threads
  BY BootAssumption DEF Loops, Threads
<1>2. IsInjective(c) /\ Range(c) \intersect
        ({None, "boot", "shell", "command"} \union Demos \union Range(Phases)) = {}
  BY BootAssumption, Zenon
<1>3. /\ Len(E) \in Nat /\ Len(I) \in Nat /\ DOMAIN E = 1 .. Len(E) /\ DOMAIN I = 1 .. Len(I)
      /\ DOMAIN c = 1 .. Len(E) + Len(I)
      /\ \A i \in DOMAIN c : c[i] = IF i <= Len(E) THEN E[i] ELSE I[i - Len(E)]
  BY <1>1
<1> HIDE DEF E, I, c
<1>4. \A i \in DOMAIN E : i \in DOMAIN c /\ c[i] = E[i]
  BY <1>3
<1>5. ASSUME NEW i \in DOMAIN I PROVE i + Len(E) \in DOMAIN c /\ c[i + Len(E)] = I[i]
  <2>1. i + Len(E) \in DOMAIN c /\ ~(i + Len(E) <= Len(E)) /\ (i + Len(E)) - Len(E) = i
    BY <1>3
  <2> QED BY <1>3, <2>1, Zenon
<1>6. Range(E) \subseteq Range(c) /\ Range(I) \subseteq Range(c)
  BY <1>4, <1>5, Zenon DEF Range
<1>7. \A i, j \in DOMAIN c : c[i] = c[j] => i = j
  BY <1>2, Zenon DEF IsInjective
<1>8. \A i, j \in DOMAIN E : E[i] = E[j] => i = j
  BY <1>4, <1>7, Zenon
<1>9. ASSUME NEW i \in DOMAIN I, NEW j \in DOMAIN I, I[i] = I[j] PROVE i = j
  <2>1. i + Len(E) = j + Len(E)
    BY <1>5, <1>7, <1>9, Zenon
  <2> QED BY <1>3, <2>1
<1>10. Range(E) \intersect Range(I) = {}
  <2> SUFFICES ASSUME NEW i \in DOMAIN E, NEW j \in DOMAIN I, E[i] = I[j] PROVE FALSE
    BY Zenon DEF Range
  <2>1. i = j + Len(E)
    BY <1>4, <1>5, <1>7, Zenon
  <2> QED BY <1>3, <2>1
<1> QED BY <1>1, <1>2, <1>6, <1>8, <1>9, <1>10, Zenon DEF Loops, E, I, c

-----------------------------------------------------------------------------
(* Code.                                                                   *)

(* No code changes no view.                                                *)
LEMMA RunsNothing == ASSUME NEW v PROVE Runs(<<>>, v, v)
<1> DEFINE a == [i \in {1} |-> v]
<1>1. a[1] = v /\ <<>> \in Code /\ Len(<<>>) = 0
  BY DEF Code
<1>2. \A i \in 1 .. Len(<<>>) : Step(a[i], <<>>[i], a[i + 1])
  BY <1>1
<1>3. a[Len(<<>>) + 1] = v
  BY <1>1
<1> HIDE DEF a
<1> QED BY <1>1, <1>2, <1>3, Zenon DEF Runs

(* Code of one step.                                                       *)
LEMMA RunsOne ==
  ASSUME NEW s \in Steps, NEW v, NEW w, Step(v, s, w)
  PROVE  Runs(<<s>>, v, w)
<1> DEFINE a == [i \in {1, 2} |-> IF i = 1 THEN v ELSE w]
<1>1. a[1] = v /\ a[2] = w /\ <<s>> \in Code /\ Len(<<s>>) = 1 /\ <<s>>[1] = s
  BY DEF Code
<1>2. \A i \in 1 .. Len(<<s>>) : Step(a[i], <<s>>[i], a[i + 1])
  BY <1>1
<1>3. a[Len(<<s>>) + 1] = w
  BY <1>1
<1> HIDE DEF a
<1> QED BY <1>1, <1>2, <1>3, Zenon DEF Runs

(* Code of three steps.                                                    *)
LEMMA RunsThree ==
  ASSUME NEW s1 \in Steps, NEW s2 \in Steps, NEW s3 \in Steps, NEW v, NEW u, NEW x, NEW w,
         Step(v, s1, u), Step(u, s2, x), Step(x, s3, w)
  PROVE  Runs(<<s1, s2, s3>>, v, w)
<1> DEFINE c == <<s1, s2, s3>>
           a == <<v, u, x, w>>
<1>1. c \in Code /\ Len(c) = 3 /\ c[1] = s1 /\ c[2] = s2 /\ c[3] = s3
  BY DEF Code
<1>2. a[1] = v /\ a[2] = u /\ a[3] = x /\ a[4] = w
  BY Zenon
<1> HIDE DEF a, c
<1>3. ASSUME NEW i \in 1 .. 3 PROVE Step(a[i], c[i], a[i + 1])
  <2>1. i = 1 \/ i = 2 \/ i = 3
    OBVIOUS
  <2> QED BY <1>1, <1>2, <2>1
<1>4. a[Len(c) + 1] = w
  BY <1>1, <1>2
<1>5. Runs(c, v, w)
  BY <1>1, <1>2, <1>3, <1>4, Zenon DEF Runs
<1> QED BY <1>5, Zenon DEF c

(* One piece of code after another.                                        *)
LEMMA Compose ==
  ASSUME NEW c, NEW d, NEW v, NEW u, NEW w, Runs(c, v, u), Runs(d, u, w)
  PROVE  Runs(c \o d, v, w)
<1>1. c \in Seq(Steps) /\ d \in Seq(Steps)
  BY Zenon DEF Runs, Code
<1>2. PICK a : /\ a[1] = v /\ a[Len(c) + 1] = u
               /\ \A i \in 1 .. Len(c) : Step(a[i], c[i], a[i + 1])
  BY Zenon DEF Runs
<1>3. PICK b : /\ b[1] = u /\ b[Len(d) + 1] = w
               /\ \A i \in 1 .. Len(d) : Step(b[i], d[i], b[i + 1])
  BY Zenon DEF Runs
<1> DEFINE m == Len(c)
           n == Len(d)
           e == [i \in 1 .. m + n + 1 |-> IF i <= m + 1 THEN a[i] ELSE b[i - m]]
<1>4. /\ c \o d \in Seq(Steps) /\ Len(c \o d) = m + n /\ m \in Nat /\ n \in Nat
      /\ \A i \in 1 .. m + n : (c \o d)[i] = IF i <= m THEN c[i] ELSE d[i - m]
  BY <1>1
<1>5. e[1] = v /\ e[m + n + 1] = w
  BY <1>2, <1>3, <1>4
<1>6. ASSUME NEW i \in 1 .. m + n PROVE Step(e[i], (c \o d)[i], e[i + 1])
  <2>1. CASE i <= m
    <3>1. e[i] = a[i] /\ e[i + 1] = a[i + 1] /\ (c \o d)[i] = c[i] /\ i \in 1 .. m
      BY <1>4, <2>1
    <3> QED BY <1>2, <3>1, Zenon
  <2>2. CASE i > m
    <3>1. e[i] = b[i - m] /\ e[i + 1] = b[(i - m) + 1] /\ (c \o d)[i] = d[i - m] /\ i - m \in 1 .. n
      BY <1>2, <1>3, <1>4, <2>2
    <3> QED BY <1>3, <3>1, Zenon
  <2> QED BY <1>4, <2>1, <2>2
<1> QED BY <1>4, <1>5, <1>6, Zenon DEF Runs, Code

(* After its first step, code runs on from the view that step leaves.      *)
LEMMA Advance ==
  ASSUME NEW c, NEW v, NEW w, Runs(c, v, w), c # <<>>
  PROVE  /\ Head(c) \in Steps /\ Tail(c) \in Code
         /\ \E u : Step(v, Head(c), u) /\ Runs(Tail(c), u, w)
<1>1. c \in Seq(Steps) /\ Len(c) \in Nat \ {0}
  BY DEF Runs, Code
<1>2. PICK a : /\ a[1] = v /\ a[Len(c) + 1] = w
               /\ \A i \in 1 .. Len(c) : Step(a[i], c[i], a[i + 1])
  BY Zenon DEF Runs
<1>3. /\ Head(c) = c[1] /\ Head(c) \in Steps
      /\ Tail(c) \in Seq(Steps) /\ Len(Tail(c)) = Len(c) - 1
      /\ \A i \in 1 .. Len(c) - 1 : Tail(c)[i] = c[i + 1]
  BY <1>1
<1> DEFINE b == [i \in 1 .. Len(c) |-> a[i + 1]]
<1>4. b[1] = a[2] /\ b[Len(c)] = w
  BY <1>1, <1>2
<1>5. ASSUME NEW i \in 1 .. Len(c) - 1 PROVE Step(b[i], Tail(c)[i], b[i + 1])
  <2>1. b[i] = a[i + 1] /\ b[i + 1] = a[(i + 1) + 1] /\ Tail(c)[i] = c[i + 1] /\ i + 1 \in 1 .. Len(c)
    BY <1>1, <1>3
  <2> QED BY <1>2, <2>1, Zenon
<1> HIDE DEF b
<1>6. Runs(Tail(c), a[2], w)
  <2>1. Len(Tail(c)) + 1 = Len(c)
    BY <1>1, <1>3
  <2> QED BY <1>3, <1>4, <1>5, <2>1, Zenon DEF Runs, Code
<1>7. Step(v, Head(c), a[2])
  BY <1>1, <1>2, <1>3
<1> QED BY <1>3, <1>6, <1>7, Zenon DEF Code

-----------------------------------------------------------------------------
(* Views of code with interrupts off, and with a lock.                     *)

Same(v, w) ==
  /\ w.me = v.me /\ w.isv = v.isv /\ w.rd = v.rd /\ w.elf = v.elf /\ w.out = v.out /\ w.ata = v.ata

(* Which locks are taken masked depends on the thread and on what is set   *)
(* up.                                                                     *)
LEMMA SameMasking ==
  ASSUME NEW v, NEW w, w.me = v.me, w.rd = v.rd PROVE Masking(w) = Masking(v)
BY Zenon DEF Masking

(* The view after without_interrupts has saved the flag and cleared it.    *)
LEMMA OffFacts ==
  ASSUME NEW v \in Views
  PROVE  LET w == OffView(v) IN
         /\ w \in Views /\ Same(v, w) /\ w.fl = FALSE /\ w.held = v.held
         /\ w.sv # <<>> /\ Head(w.sv) = v.fl /\ Tail(w.sv) = v.sv
         /\ Masking(w) = Masking(v) /\ Restoring(w) = v
<1> DEFINE w == OffView(v)
           t == <<v.fl>> \o v.sv
<1>1. v \in ViewTypes /\ v.sv \in Seq(BOOLEAN) /\ v.fl \in BOOLEAN
  BY Zenon DEF Views, ViewTypes
<1>2. t \in Seq(BOOLEAN) /\ t # <<>> /\ Head(t) = v.fl /\ Tail(t) = v.sv
  BY <1>1
<1>3. w = [v EXCEPT !.sv = t, !.fl = FALSE]
  BY Zenon DEF OffView
<1> HIDE DEF t, w
<1>4. /\ w.sv = t /\ w.fl = FALSE /\ w.held = v.held /\ Same(v, w)
      /\ w \in ViewTypes
  BY <1>1, <1>2, <1>3, Zenon DEF ViewTypes, Same
<1>5. w \in Views
  BY <1>4, Zenon DEF Views
<1>6. Masking(w) = Masking(v)
  BY <1>4, SameMasking, Zenon DEF Same
<1>7. Restoring(w) = [w EXCEPT !.fl = v.fl, !.sv = v.sv]
  BY <1>2, <1>4, Zenon DEF Restoring
<1>8. Restoring(w) = v
  BY <1>1, <1>3, <1>7, Zenon DEF ViewTypes
<1> QED BY <1>2, <1>4, <1>5, <1>6, <1>8, Zenon DEF w

(* The view with one more lock held.                                       *)
LEMMA LockFacts ==
  ASSUME NEW v \in Views, NEW l \in Locks \ v.held, l \in Masking(v) => v.fl = FALSE
  PROVE  LET w == Locking(v, l) IN
         /\ w \in Views /\ Same(v, w) /\ w.fl = v.fl /\ w.sv = v.sv /\ w.held = v.held \union {l}
         /\ Masking(w) = Masking(v) /\ Unlocking(w, l) = v
<1> DEFINE w == Locking(v, l)
           h == v.held \union {l}
<1>1. v \in ViewTypes /\ v.held \in SUBSET Locks /\ v.fl \in BOOLEAN
  BY Zenon DEF Views, ViewTypes
<1>2. w = [v EXCEPT !.held = h]
  BY Zenon DEF Locking
<1>3. h \in SUBSET Locks /\ h \ {l} = v.held
  BY <1>1, Zenon
<1> HIDE DEF h, w
<1>4. w.held = h /\ w.sv = v.sv /\ w.fl = v.fl /\ Same(v, w) /\ w \in ViewTypes
  BY <1>1, <1>2, <1>3, Zenon DEF ViewTypes, Same
<1>5. Masking(w) = Masking(v)
  BY <1>4, SameMasking, Zenon DEF Same
<1>6. ASSUME v.fl = TRUE PROVE Open(w)
  <2>1. Open(v) /\ l \notin Masking(v)
    BY <1>6, Zenon DEF Views
  <2> QED BY <1>4, <1>5, <2>1, Zenon DEF Open, Alone, Same, h
<1>7. w \in Views
  BY <1>4, <1>6, Zenon DEF Views
<1>8. Unlocking(w, l) = [w EXCEPT !.held = v.held]
  BY <1>3, <1>4, Zenon DEF Unlocking
<1>9. Unlocking(w, l) = v
  BY <1>1, <1>2, <1>8, Zenon DEF ViewTypes
<1> QED BY <1>4, <1>5, <1>7, <1>9, Zenon DEF w, h

(* without_interrupts, whatever it is given.                               *)
LEMMA WithoutInterrupts ==
  ASSUME NEW v \in Views, NEW w \in Views, NEW body, Runs(body, OffView(v), OffView(w))
  PROVE  Runs(without_interrupts(body), v, w)
<1> DEFINE x == OffView(v)
           y == OffView(w)
<1>1. x \in Views /\ y \in Views /\ y.sv # <<>> /\ Restoring(y) = w
  BY OffFacts, Zenon
<1>2. Step(v, Off, x) /\ Step(y, Restore, w)
  BY <1>1, Zenon DEF Step, Changes, Off, Restore
<1>3. Off \in Steps /\ Restore \in Steps
  BY Zenon DEF Steps, Ops, Operands, Off, Restore
<1> HIDE DEF x, y
<1>4. Runs(<<Off>>, v, x) /\ Runs(<<Restore>>, y, w) /\ Runs(body, x, y)
  BY <1>2, <1>3, RunsOne, Zenon DEF x, y
<1>5. Runs(<<Off>> \o body, v, y)
  BY <1>4, Compose, Zenon
<1> QED BY <1>4, <1>5, Compose, Zenon DEF without_interrupts

(* Code that is never reached may be anything.                             *)
LEMMA NeverReached ==
  ASSUME NEW c \in Code, NEW v, v \notin Views, NEW w
  PROVE  c # <<>> => Runs(c, v, w)
<1> SUFFICES ASSUME c # <<>> PROVE Runs(c, v, w)
  BY Zenon
<1> DEFINE a == [i \in 1 .. Len(c) + 1 |-> IF i = Len(c) + 1 THEN w ELSE v]
<1>1. Len(c) \in Nat \ {0}
  BY DEF Code
<1>2. a[1] = v /\ a[Len(c) + 1] = w /\ \A i \in 1 .. Len(c) : a[i] = v
  BY <1>1
<1> HIDE DEF a
<1>3. \A i \in 1 .. Len(c) : Step(a[i], c[i], a[i + 1])
  BY <1>2, Zenon DEF Step
<1> QED BY <1>2, <1>3, Zenon DEF Runs

(* A critical section does to the view what its body does.                 *)
LEMMA LockedRuns ==
  ASSUME NEW v \in Views, NEW w \in Views, NEW l \in Locks, NEW body \in Code,
         l \in NeedsSetup => l \in v.rd,
         l \in Masking(v) => v.fl = FALSE /\ l \notin v.held,
         l \notin v.held => /\ Runs(body, Locking(v, l), Locking(w, l))
                           /\ l \notin w.held /\ (l \in Masking(w) => w.fl = FALSE)
  PROVE  Runs(Locked(l, body), v, w)
<1>1. Lock(l) \in Steps /\ Unlock(l) \in Steps
  BY Zenon DEF Steps, Ops, Operands, Lock, Unlock
<1>2. CASE l \notin v.held
  <2> DEFINE x == Locking(v, l)
             y == Locking(w, l)
  <2>1. /\ x \in Views /\ y \in Views /\ l \in y.held /\ Unlocking(y, l) = w
    BY <1>2, LockFacts, Zenon
  <2>2. Step(v, Lock(l), x) /\ Step(y, Unlock(l), w)
    BY <1>2, <2>1, Zenon DEF Step, Changes, Lock, Unlock
  <2>3. Runs(<<Lock(l)>>, v, x) /\ Runs(<<Unlock(l)>>, y, w) /\ Runs(body, x, y)
    BY <1>1, <1>2, <2>2, RunsOne, Zenon
  <2> HIDE DEF x, y
  <2>4. Runs(<<Lock(l)>> \o body, v, y)
    BY <2>3, Compose, Zenon
  <2> QED BY <2>3, <2>4, Compose, Zenon DEF Locked
<1>3. CASE l \in v.held
  <2>1. PICK x : x \notin Views
    BY NoSetContainsEverything, Zenon
  <2>2. Step(v, Lock(l), x)
    BY <1>3, Zenon DEF Step, Ends, Lock
  <2>3. Runs(<<Lock(l)>>, v, x)
    BY <1>1, <2>2, RunsOne, Zenon
  <2>4. body \o <<Unlock(l)>> \in Code /\ body \o <<Unlock(l)>> # <<>>
    BY <1>1 DEF Code
  <2>5. Runs(body \o <<Unlock(l)>>, x, w)
    BY <2>1, <2>4, NeverReached, Zenon
  <2>6. Runs(<<Lock(l)>> \o (body \o <<Unlock(l)>>), v, w)
    BY <2>3, <2>5, Compose, Zenon
  <2>7. <<Lock(l)>> \o (body \o <<Unlock(l)>>) = (<<Lock(l)>> \o body) \o <<Unlock(l)>>
    BY <1>1 DEF Code
  <2> QED BY <2>6, <2>7, Zenon DEF Locked
<1> QED BY <1>2, <1>3, Zenon

-----------------------------------------------------------------------------
(* The routines.                                                           *)

(* Taking a lock and dropping it at once, by a thread that may take it as  *)
(* it is.                                                                  *)
LEMMA BriefRuns ==
  ASSUME NEW v \in Views, NEW l \in Locks, l \in NeedsSetup => l \in v.rd,
         l \in Masking(v) => v.fl = FALSE /\ l \notin v.held
  PROVE  Runs(Locked(l, <<>>), v, v)
<1>1. <<>> \in Code /\ Runs(<<>>, Locking(v, l), Locking(v, l))
  BY RunsNothing DEF Code
<1> QED BY <1>1, LockedRuns, Zenon

(* The same inside without_interrupts, which needs nothing but a free      *)
(* lock.                                                                   *)
LEMMA MaskedBriefRuns ==
  ASSUME NEW v \in Views, NEW l \in Locks \ v.held, l \in NeedsSetup => l \in v.rd
  PROVE  Runs(without_interrupts(Locked(l, <<>>)), v, v)
<1>1. OffView(v) \in Views /\ OffView(v).fl = FALSE /\ OffView(v).held = v.held /\ OffView(v).rd = v.rd
  BY OffFacts, Zenon DEF Same
<1>2. Runs(Locked(l, <<>>), OffView(v), OffView(v))
  BY <1>1, BriefRuns, Zenon
<1> QED BY <1>2, WithoutInterrupts, Zenon

(* Code that leaves every calm view as it is.                              *)
Neutral(c) == \A v : Calm(v) => Runs(c, v, v)

(* Two routines that leave the view as it was, one after the other.        *)
LEMMA NeutralThen ==
  ASSUME NEW c, NEW d, Neutral(c), Neutral(d) PROVE Neutral(c \o d)
BY Compose, Zenon DEF Neutral

(* No code leaves the view as it was.                                      *)
LEMMA NeutralNothing == Neutral(<<>>)
BY RunsNothing, Zenon DEF Neutral

(* What a calm view says of the locks.                                     *)
LEMMA CalmFacts ==
  ASSUME NEW v, Calm(v)
  PROVE  /\ v \in Views /\ v.held \intersect MaskedLocks = {} /\ Basics \subseteq v.rd
         /\ v.held \subseteq Locks /\ v.fl \in BOOLEAN
         /\ \A l \in Masking(v) : l \notin v.held /\ (l \in MaskedLocks \/ v.fl = FALSE)
<1>1. v \in Views /\ v.held \intersect Masking(v) = {} /\ Basics \subseteq v.rd
      /\ (v.fl = TRUE => Masking(v) = MaskedLocks)
  BY Zenon DEF Calm
<1>2. v.held \subseteq Locks /\ v.fl \in BOOLEAN
  BY <1>1, Zenon DEF Views, ViewTypes
<1>3. MaskedLocks \subseteq Masking(v)
  BY Zenon DEF Masking, MaskedLocks, Locks
<1> QED BY <1>1, <1>2, <1>3, Zenon

(* The heap's, the frame allocator's and the offset's locks are taken and  *)
(* dropped.                                                                *)
LEMMA BriefNeutral ==
  ASSUME NEW l \in {"heap", "frames", "offset"} PROVE Neutral(Locked(l, <<>>))
<1> SUFFICES ASSUME NEW v, Calm(v) PROVE Runs(Locked(l, <<>>), v, v)
  BY Zenon DEF Neutral
<1>1. l \in Locks /\ l \in Basics /\ l \notin MaskedLocks
  BY Zenon DEF Locks, Basics, NeedsSetup, MaskedLocks
<1> QED BY <1>1, CalmFacts, BriefRuns, Zenon

(* The locks of the scheduler, the screen and the serial port are taken    *)
(* masked and dropped.                                                     *)
LEMMA MaskedNeutral ==
  ASSUME NEW l \in {"scheduler", "writer", "serial"}
  PROVE  Neutral(without_interrupts(Locked(l, <<>>)))
<1> SUFFICES ASSUME NEW v, Calm(v) PROVE Runs(without_interrupts(Locked(l, <<>>)), v, v)
  BY Zenon DEF Neutral
<1>1. l \in Locks /\ l \in MaskedLocks /\ (l \in NeedsSetup => l \in Basics)
  BY Zenon DEF Locks, Basics, NeedsSetup, MaskedLocks
<1> QED BY <1>1, CalmFacts, MaskedBriefRuns, Zenon

(* Printing, allocating and reading the offset leave the view as it was.   *)
LEMMA RoutinesNeutral ==
  /\ Neutral(print) /\ Neutral(serial_print) /\ Neutral(kernel_page_table)
  /\ Neutral(heap) /\ Neutral(allocate_frame) /\ Neutral(physical_memory_offset)
<1>1. Neutral(print) /\ Neutral(serial_print) /\ Neutral(kernel_page_table)
  BY MaskedNeutral, Zenon DEF print, serial_print, kernel_page_table
<1>2. Neutral(heap) /\ Neutral(allocate_frame) /\ Neutral(physical_memory_offset)
  BY BriefNeutral, Zenon DEF heap, allocate_frame, physical_memory_offset
<1> QED BY <1>1, <1>2, Zenon

(* What runs is code.                                                      *)
LEMMA CodeOfNeutral ==
  ASSUME NEW c, NEW v, Runs(c, v, v) PROVE c \in Code
BY Zenon DEF Runs

(* The free list grows with the frame allocator's lock held.               *)
LEMMA DeallocateNeutral == Neutral(deallocate_frame)
<1> SUFFICES ASSUME NEW v, Calm(v) PROVE Runs(Locked("frames", heap), v, v)
  BY Zenon DEF Neutral, deallocate_frame
<1>1. /\ v \in Views /\ "frames" \in Locks /\ "frames" \in v.rd /\ "heap" \in Locks /\ "heap" \in v.rd
      /\ \A l \in {"frames", "heap"} : l \in Masking(v) => v.fl = FALSE /\ l \notin v.held
  BY CalmFacts, Zenon DEF Locks, Basics, NeedsSetup, MaskedLocks
<1>2. heap \in Code
  BY RoutinesNeutral, CodeOfNeutral, Zenon DEF Neutral
<1>3. ASSUME "frames" \notin v.held PROVE Runs(heap, Locking(v, "frames"), Locking(v, "frames"))
  <2> DEFINE w == Locking(v, "frames")
  <2>1. /\ w \in Views /\ Same(v, w) /\ w.fl = v.fl /\ w.held = v.held \union {"frames"}
        /\ Masking(w) = Masking(v)
    BY <1>1, <1>3, LockFacts, Zenon
  <2> HIDE DEF w
  <2>2. Runs(Locked("heap", <<>>), w, w)
    BY <1>1, <2>1, BriefRuns, Zenon DEF Same
  <2> QED BY <2>2, Zenon DEF heap, w
<1> QED BY <1>1, <1>2, <1>3, LockedRuns, Zenon

(* The freeing in reap_zombie leaves the view as it was.                   *)
LEMMA FreeNeutral == ASSUME NEW t PROVE Neutral(Free(t))
<1>1. CASE t = None
  <2>1. t \notin Range(ExitThreads)
    BY <1>1, LoopNames, Zenon DEF Loops
  <2> QED BY <1>1, <2>1, NeutralNothing, Zenon DEF Free
<1>2. CASE t # None /\ t \in Range(ExitThreads)
  BY <1>2, RoutinesNeutral, Zenon DEF Free
<1>3. CASE t # None /\ t \notin Range(ExitThreads)
  <2>1. Free(t) = heap \o physical_memory_offset \o deallocate_frame \o heap
    BY <1>3, Zenon DEF Free
  <2>2. Neutral(heap \o physical_memory_offset \o deallocate_frame \o heap)
    BY RoutinesNeutral, DeallocateNeutral, NeutralThen, Zenon
  <2> QED BY <2>1, <2>2, Zenon
<1> QED BY <1>1, <1>2, <1>3, Zenon

-----------------------------------------------------------------------------
(* The scheduler's routines.                                               *)

(* A calm view is calm with interrupts off.                                *)
LEMMA CalmOff ==
  ASSUME NEW v, Calm(v)
  PROVE  Calm(OffView(v)) /\ (Yields(v) => Yields(OffView(v)))
<1> DEFINE w == OffView(v)
<1>1. v \in Views /\ v.held \intersect Masking(v) = {} /\ Basics \subseteq v.rd
  BY Zenon DEF Calm
<1>2. w \in Views /\ Same(v, w) /\ w.fl = FALSE /\ w.held = v.held /\ Masking(w) = Masking(v)
  BY <1>1, OffFacts, Zenon
<1> HIDE DEF w
<1>3. Calm(w)
  BY <1>1, <1>2, Zenon DEF Calm, Same
<1>4. Yields(v) => Yields(w)
  BY <1>2, <1>3, Zenon DEF Yields, Same, Alone
<1> QED BY <1>3, <1>4, Zenon DEF w

(* Interrupts off, and a lock taken.                                       *)
LEMMA Entering ==
  ASSUME NEW v \in Views, NEW l \in Locks \ v.held, l \in NeedsSetup => l \in v.rd
  PROVE  LET x == Locking(OffView(v), l) IN
         /\ OffView(v) \in Views /\ Step(v, Off, OffView(v)) /\ Step(OffView(v), Lock(l), x)
         /\ Off \in Steps /\ Lock(l) \in Steps
         /\ x \in Views /\ Same(v, x) /\ x.fl = FALSE /\ x.held = v.held \union {l}
         /\ x.sv # <<>> /\ x.sv = OffView(v).sv
         /\ Unlocking(x, l) = OffView(v) /\ Restoring(Unlocking(x, l)) = v
<1> DEFINE y == OffView(v)
           x == Locking(y, l)
<1>1. y \in Views /\ Same(v, y) /\ y.fl = FALSE /\ y.held = v.held /\ y.sv # <<>> /\ Restoring(y) = v
  BY OffFacts, Zenon
<1>2. Step(v, Off, y)
  BY <1>1, Zenon DEF Step, Changes, Off
<1> HIDE DEF y
<1>3. /\ x \in Views /\ Same(y, x) /\ x.fl = FALSE /\ x.sv = y.sv /\ x.held = y.held \union {l}
      /\ Unlocking(x, l) = y
  BY <1>1, LockFacts, Zenon
<1>4. Step(y, Lock(l), x)
  BY <1>1, <1>3, Zenon DEF Step, Changes, Lock, Same
<1>5. Off \in Steps /\ Lock(l) \in Steps
  BY Zenon DEF Steps, Ops, Operands, Off, Lock
<1> HIDE DEF x
<1>6. Same(v, x)
  BY <1>1, <1>3, Zenon DEF Same
<1> QED BY <1>1, <1>2, <1>3, <1>4, <1>5, <1>6, Zenon DEF x, y

(* A calm thread does not hold the scheduler's lock, and the scheduler is  *)
(* set up.                                                                 *)
LEMMA SchedulerFree ==
  ASSUME NEW v, Calm(v)
  PROVE  "scheduler" \in Locks \ v.held /\ "scheduler" \in v.rd /\ v \in Views
BY CalmFacts, Zenon DEF Locks, MaskedLocks, Basics, NeedsSetup

(* Disabling interrupts and taking the scheduler's lock.                   *)
LEMMA EnteringScheduler ==
  ASSUME NEW v, Calm(v)
  PROVE  LET y == OffView(v)
             x == Locking(y, "scheduler") IN
         /\ Step(v, Off, y) /\ Step(y, Lock("scheduler"), x) /\ Off \in Steps /\ Lock("scheduler") \in Steps
         /\ x \in Views /\ "scheduler" \in x.held /\ x.sv # <<>> /\ x.fl = FALSE /\ x.out = v.out
         /\ Leaving(x) = v /\ v \in Views /\ Unlocking(x, "scheduler") = y
<1> DEFINE y == OffView(v)
           x == Locking(y, "scheduler")
<1>1. v \in Views /\ "scheduler" \in Locks \ v.held /\ "scheduler" \in v.rd
  BY SchedulerFree, Zenon
<1>2. /\ Step(v, Off, y) /\ Step(y, Lock("scheduler"), x) /\ Off \in Steps /\ Lock("scheduler") \in Steps
      /\ x \in Views /\ Same(v, x) /\ x.fl = FALSE /\ x.held = v.held \union {"scheduler"}
      /\ x.sv # <<>> /\ Unlocking(x, "scheduler") = y /\ Restoring(Unlocking(x, "scheduler")) = v
  BY <1>1, Entering, Zenon
<1> HIDE DEF x, y
<1>3. x.out = v.out /\ Leaving(x) = v /\ "scheduler" \in x.held
  BY <1>2, Zenon DEF Same, Leaving
<1> QED BY <1>1, <1>2, <1>3, Zenon DEF x, y

(* reap_zombie leaves the view as it was.                                  *)
LEMMA ReapNeutral == Neutral(reap_zombie)
<1> SUFFICES ASSUME NEW v, Calm(v) PROVE Runs(reap_zombie, v, v)
  BY Zenon DEF Neutral
<1> DEFINE y == OffView(v)
           x == Locking(y, "scheduler")
           take == <<"take_zombie", None>>
<1>1. /\ Step(v, Off, y) /\ Step(y, Lock("scheduler"), x) /\ Off \in Steps /\ Lock("scheduler") \in Steps
      /\ x \in Views /\ "scheduler" \in x.held /\ x.sv # <<>> /\ Leaving(x) = v /\ v \in Views
  BY EnteringScheduler, Zenon
<1> HIDE DEF x, y
<1>2. Step(x, take, v)
  BY <1>1, Zenon DEF Step, Changes
<1>3. take \in Steps
  BY Zenon DEF Steps, Ops, Operands
<1> HIDE DEF take
<1>4. Runs(<<Off, Lock("scheduler"), take>>, v, v)
  BY <1>1, <1>2, <1>3, RunsThree, Zenon
<1> QED BY <1>4, Zenon DEF reap_zombie, take

(* So does schedule, once the thread is resumed.                           *)
LEMMA ScheduleRuns == ASSUME NEW v, Yields(v) PROVE Runs(schedule, v, v)
<1> DEFINE y == OffView(v)
           x == Locking(y, "scheduler")
           switch == <<"switch", None>>
<1>1. Calm(v)
  BY Zenon DEF Yields
<1>2. /\ Step(v, Off, y) /\ Step(y, Lock("scheduler"), x) /\ Off \in Steps /\ Lock("scheduler") \in Steps
      /\ x \in Views /\ "scheduler" \in x.held /\ x.sv # <<>> /\ x.fl = FALSE /\ Leaving(x) = v /\ v \in Views
      /\ Unlocking(x, "scheduler") = y
  BY <1>1, EnteringScheduler, Zenon
<1>3. Open(y)
  BY <1>1, CalmOff, Zenon DEF Yields, Calm, Open
<1> HIDE DEF x, y
<1>4. Step(x, switch, v)
  BY <1>2, <1>3, Zenon DEF Step, Changes
<1>5. switch \in Steps
  BY Zenon DEF Steps, Ops, Operands
<1> HIDE DEF switch
<1>6. Runs(<<Off, Lock("scheduler"), switch>>, v, v)
  BY <1>2, <1>4, <1>5, RunsThree, Zenon
<1>7. Runs(reap_zombie, v, v)
  BY <1>1, ReapNeutral, Zenon DEF Neutral
<1> QED BY <1>6, <1>7, Compose, Zenon DEF schedule, switch

OutView(v, D) == [v EXCEPT !.out = D]

FlView(v, f) == [v EXCEPT !.fl = f]
RdView(v, R) == [v EXCEPT !.rd = R]
ElfView(v, e) == [v EXCEPT !.elf = e]

(* The view with other threads that may be alive.                          *)
LEMMA OutFacts ==
  ASSUME NEW v \in Views, NEW D \in SUBSET Threads, v.ata = Idle \/ D \subseteq v.out
  PROVE  LET w == OutView(v, D) IN
         /\ w \in Views /\ w.me = v.me /\ w.fl = v.fl /\ w.sv = v.sv /\ w.held = v.held
         /\ w.isv = v.isv /\ w.rd = v.rd /\ w.elf = v.elf /\ w.ata = v.ata /\ w.out = D
         /\ Masking(w) = Masking(v)
<1> DEFINE w == OutView(v, D)
<1>1. v \in ViewTypes /\ v.fl \in BOOLEAN /\ w = [v EXCEPT !.out = D]
  BY Zenon DEF Views, ViewTypes, OutView
<1> HIDE DEF w
<1>2. /\ w \in ViewTypes /\ w.me = v.me /\ w.fl = v.fl /\ w.sv = v.sv /\ w.held = v.held
      /\ w.isv = v.isv /\ w.rd = v.rd /\ w.elf = v.elf /\ w.ata = v.ata /\ w.out = D
  BY <1>1, Zenon DEF ViewTypes
<1>3. Masking(w) = Masking(v)
  BY <1>2, SameMasking, Zenon
<1>4. ASSUME v.fl = TRUE PROVE Open(w)
  <2>1. Open(v)
    BY <1>4, Zenon DEF Views
  <2> QED BY <1>2, <1>3, <2>1, Zenon DEF Open, Alone
<1>5. w \in Views
  BY <1>2, <1>4, Zenon DEF Views
<1> QED BY <1>2, <1>3, <1>5, Zenon DEF w

(* After wait_while_alive the thread waited for is gone.                   *)
LEMMA WaitRuns ==
  ASSUME NEW v, Yields(v), NEW t \in Threads
  PROVE  Runs(wait_while_alive(t), v, OutView(v, v.out \ {t}))
<1> DEFINE y == OffView(v)
           x == Locking(y, "scheduler")
           w == OutView(v, v.out \ {t})
           poll == <<"poll", t>>
<1>1. Calm(v)
  BY Zenon DEF Yields
<1>2. /\ Step(v, Off, y) /\ Step(y, Lock("scheduler"), x) /\ Off \in Steps /\ Lock("scheduler") \in Steps
      /\ x \in Views /\ "scheduler" \in x.held /\ x.sv # <<>> /\ Leaving(x) = v /\ v \in Views
      /\ x.out = v.out
  BY <1>1, EnteringScheduler, Zenon
<1>3. w \in Views
  <2>1. v.out \in SUBSET Threads
    BY <1>2, Zenon DEF Views, ViewTypes
  <2> QED BY <1>2, <2>1, OutFacts, Zenon
<1> HIDE DEF x, y
<1>4. Step(x, poll, w)
  BY <1>2, <1>3, Zenon DEF Step, Changes, OutView
<1>5. poll \in Steps
  BY Zenon DEF Steps, Ops, Operands
<1> HIDE DEF poll, w
<1>6. Runs(<<Off, Lock("scheduler"), poll>>, v, w)
  BY <1>2, <1>4, <1>5, RunsThree, Zenon
<1> QED BY <1>6, Zenon DEF wait_while_alive, poll, w

(* exit_current_thread does not return.                                    *)
LEMMA ExitRuns ==
  ASSUME NEW v, Calm(v), v.isv = {}, v.out = {}, v.held = {}, v.me # "boot", NEW w
  PROVE  Runs(exit_current_thread, v, w)
<1> DEFINE y == [v EXCEPT !.fl = FALSE]
           x == Locking(y, "scheduler")
           cli == <<"cli", None>>
           die == <<"die", None>>
<1>1. v \in ViewTypes /\ "scheduler" \in v.rd
  BY SchedulerFree, Zenon DEF Views
<1>2. /\ y \in ViewTypes /\ y.fl = FALSE /\ y.held = {} /\ y.isv = {} /\ y.out = {} /\ y.me = v.me
      /\ y.rd = v.rd
  BY <1>1, Zenon DEF ViewTypes
<1>3. y \in Views
  BY <1>2, Zenon DEF Views
<1>4. Step(v, cli, y)
  BY <1>3, Zenon DEF Step, Changes
<1> HIDE DEF y
<1>5. "scheduler" \in Locks \ y.held
  BY <1>2, Zenon DEF Locks
<1>6. x \in Views /\ Same(y, x) /\ x.fl = FALSE /\ x.held = {"scheduler"}
  BY <1>2, <1>3, <1>5, LockFacts, Zenon
<1>7. Step(y, Lock("scheduler"), x)
  BY <1>1, <1>2, <1>5, <1>6, Zenon DEF Step, Changes, Lock
<1> HIDE DEF x
<1>8. Step(x, die, w)
  BY <1>2, <1>6, Zenon DEF Step, Ends, Same
<1>9. cli \in Steps /\ die \in Steps /\ Lock("scheduler") \in Steps
  BY Zenon DEF Steps, Ops, Operands, Lock, Locks
<1> HIDE DEF cli, die
<1>10. Runs(<<cli, Lock("scheduler"), die>>, v, w)
  BY <1>4, <1>7, <1>8, <1>9, RunsThree, Zenon
<1>11. Runs(reap_zombie, v, v)
  BY ReapNeutral, Zenon DEF Neutral
<1> QED BY <1>10, <1>11, Compose, Zenon DEF exit_current_thread, cli, die

(* spawn, spawn_isolated: the thread is alive from here on.                *)
LEMMA SpawnRuns ==
  ASSUME NEW v, Calm(v), v.ata = Idle, NEW t \in Children(v.me) \ v.out, t = "shell" => v.elf = "shell"
  PROVE  Runs(spawn_thread(t), v, OutView(v, v.out \union {t}))
<1> DEFINE w == OutView(v, v.out \union {t})
           y == OffView(v)
           z == OffView(w)
           first == heap \o (IF t \in Range(ExitThreads) THEN <<>> ELSE allocate_frame)
           spawn == <<"spawn", t>>
<1>1. v \in Views /\ v \in ViewTypes /\ v.out \in SUBSET Threads /\ t \in Threads
  <2>1. v \in Views
    BY SchedulerFree, Zenon
  <2>2. v \in ViewTypes /\ v.out \in SUBSET Threads
    BY <2>1, Zenon DEF Views, ViewTypes
  <2>3. t \in Threads
    BY Zenon DEF Children, Threads, Demos
  <2> QED BY <2>1, <2>2, <2>3, Zenon
<1>2. w \in Views /\ w.held = v.held
  BY <1>1, OutFacts
<1>3. Calm(y) /\ y \in Views /\ Same(v, y) /\ y.held = v.held /\ y.fl = FALSE
  BY <1>1, CalmOff, OffFacts, Zenon
<1>4. z \in Views /\ z.fl = FALSE /\ z.held = w.held /\ z.out = w.out
  BY <1>2, OffFacts, Zenon DEF Same
<1>5. Runs(first, y, y)
  BY <1>3, RoutinesNeutral, NeutralNothing, Compose, Zenon DEF Neutral
<1>6. "scheduler" \in Locks \ y.held /\ "scheduler" \in y.rd /\ "scheduler" \notin z.held
  BY <1>2, <1>3, <1>4, SchedulerFree, Zenon
<1>7. /\ Locking(y, "scheduler") \in Views /\ Same(y, Locking(y, "scheduler"))
      /\ Locking(z, "scheduler") \in Views
  BY <1>3, <1>4, <1>6, LockFacts, Zenon
<1>8. Locking(z, "scheduler") = [Locking(y, "scheduler") EXCEPT !.out = v.out \union {t}]
  BY <1>1, Zenon DEF Locking, OffView, OutView, ViewTypes
<1>9. Step(Locking(y, "scheduler"), spawn, Locking(z, "scheduler"))
  <2>1. Basics \subseteq v.rd
    BY CalmFacts, Zenon
  <2> HIDE DEF y, z
  <2> QED BY <1>3, <1>7, <1>8, <2>1, Zenon DEF Step, Changes, Same
<1>10. spawn \in Steps /\ <<spawn>> \in Code
  BY <1>1 DEF Steps, Ops, Operands, Code
<1>11. Runs(<<spawn>>, Locking(y, "scheduler"), Locking(z, "scheduler"))
  BY <1>9, <1>10, RunsOne, Zenon
<1>12. Runs(Locked("scheduler", <<spawn>>), y, z)
  <2> HIDE DEF y, z, spawn
  <2> QED BY <1>3, <1>4, <1>6, <1>10, <1>11, LockedRuns, Zenon
<1>13. Runs(first \o Locked("scheduler", <<spawn>>), y, z)
  <2> HIDE DEF first, spawn, y, z
  <2> QED BY <1>5, <1>12, Compose, Zenon
<1>14. Runs(without_interrupts(first \o Locked("scheduler", <<spawn>>)), v, w)
  <2> HIDE DEF first, spawn, w
  <2> QED BY <1>1, <1>2, <1>13, WithoutInterrupts, Zenon
<1> QED BY <1>14, Zenon DEF spawn_thread

(* ata::read_sector, undisturbed.                                          *)
LEMMA ReadRuns ==
  ASSUME NEW v, Calm(v), v.ata = Idle, CanRead(v), NEW s \in Operands
  PROVE  Runs(read_sector(s), v, v)
<1> DEFINE y == [v EXCEPT !.ata = <<"selected", s>>]
           x == [v EXCEPT !.ata = <<"started", s>>]
           select == <<"select", s>>
           command == <<"command", None>>
           transfer == <<"transfer", s>>
<1>1. v \in Views /\ v \in ViewTypes /\ v.fl \in BOOLEAN /\ (v.fl = TRUE => Open(v) /\ Alone(v))
  <2>1. v \in Views
    BY SchedulerFree, Zenon
  <2> QED BY <2>1, Zenon DEF Views, ViewTypes, CanRead
<1>2. ASSUME NEW a \in {"idle", "selected", "started"} \X Operands, NEW u, u = [v EXCEPT !.ata = a]
      PROVE  u \in Views /\ u.ata = a /\ CanRead(u)
  <2>1. /\ u \in ViewTypes /\ u.ata = a /\ u.me = v.me /\ u.fl = v.fl /\ u.held = v.held
        /\ u.isv = v.isv /\ u.rd = v.rd /\ u.out = v.out
    BY <1>1, <1>2, Zenon DEF ViewTypes
  <2>2. Masking(u) = Masking(v)
    BY <2>1, SameMasking, Zenon
  <2>3. v.fl = TRUE => Open(u)
    BY <1>1, <2>1, <2>2, Zenon DEF Open, Alone
  <2> QED BY <2>1, <2>3, Zenon DEF Views, CanRead, Alone
<1>3. <<"selected", s>> \in {"idle", "selected", "started"} \X Operands
      /\ <<"started", s>> \in {"idle", "selected", "started"} \X Operands
  BY Zenon
<1>4. y \in Views /\ y.ata = <<"selected", s>> /\ CanRead(y)
  BY <1>2, <1>3, Zenon
<1>5. x \in Views /\ x.ata = <<"started", s>> /\ CanRead(x)
  BY <1>2, <1>3, Zenon
<1>6. x = [y EXCEPT !.ata = <<"started", s>>] /\ v = [x EXCEPT !.ata = Idle]
  BY <1>1, Zenon DEF ViewTypes
<1>7. Step(v, select, y)
  BY <1>4, Zenon DEF Step, Changes
<1> HIDE DEF x, y
<1>8. Step(y, command, x)
  BY <1>4, <1>5, <1>6 DEF Step, Changes
<1>9. Step(x, transfer, v)
  BY <1>1, <1>5, <1>6, Zenon DEF Step, Changes
<1>10. select \in Steps /\ command \in Steps /\ transfer \in Steps
  BY Zenon DEF Steps, Ops, Operands
<1> HIDE DEF select, command, transfer
<1>11. Runs(<<select, command, transfer>>, v, v)
  BY <1>7, <1>8, <1>9, <1>10, RunsThree, Zenon
<1> QED BY <1>11, Zenon DEF read_sector, select, command, transfer

-----------------------------------------------------------------------------
(* Programs in ring 3.                                                     *)

(* A thread in its own code, with the threads of D started and not waited  *)
(* for, and a thread that has not begun to run.                            *)
At(t, D) ==
  [me |-> t, fl |-> TRUE, sv |-> <<>>, held |-> {}, isv |-> {}, rd |-> Basics, elf |-> None,
   out |-> D, ata |-> Idle]
Entry(t) ==
  [me |-> t, fl |-> FALSE, sv |-> <<>>, held |-> {}, isv |-> {}, rd |-> Basics, elf |-> None,
   out |-> {}, ata |-> Idle]

(* ... and in a system call.                                               *)
Within(t, D) == OffView(At(t, D))
Enabled == <<TRUE>>

(* The components of views are of their types.                             *)
LEMMA Constants ==
  /\ Basics \in SUBSET NeedsSetup /\ None \in Operands /\ <<>> \in Seq(BOOLEAN)
  /\ Idle \in {"idle", "selected", "started"} \X Operands
BY DEF Basics, Operands, Idle

(* The view of a thread in its program.                                    *)
LEMMA AtFacts ==
  ASSUME NEW t \in Threads, NEW D \in SUBSET Threads
  PROVE  LET v == At(t, D) IN
         /\ v \in Views /\ v.me = t /\ v.fl /\ v.sv = <<>> /\ v.held = {} /\ v.isv = {}
         /\ v.rd = Basics /\ v.elf = None /\ v.out = D /\ v.ata = Idle
<1> DEFINE v == At(t, D)
<1>1. /\ v.me = t /\ v.fl = TRUE /\ v.sv = <<>> /\ v.held = {} /\ v.isv = {} /\ v.rd = Basics
      /\ v.elf = None /\ v.out = D /\ v.ata = Idle
  BY Zenon DEF At
<1>2. v \in ViewTypes
  BY Constants, Zenon DEF ViewTypes, At
<1> HIDE DEF v
<1>3. Open(v)
  BY <1>1, Zenon DEF Open
<1>4. v \in Views
  BY <1>2, <1>3, Zenon DEF Views
<1> QED BY <1>1, <1>4, Zenon DEF v

(* The view of a thread that starts, with interrupts off.                  *)
LEMMA EntryFacts ==
  ASSUME NEW t \in Threads
  PROVE  LET v == Entry(t) IN
         /\ v \in Views /\ v.me = t /\ ~v.fl /\ v.sv = <<>> /\ v.held = {} /\ v.isv = {}
         /\ v.rd = Basics /\ v.elf = None /\ v.out = {} /\ v.ata = Idle
<1> DEFINE v == Entry(t)
<1>1. /\ v.me = t /\ v.fl = FALSE /\ v.sv = <<>> /\ v.held = {} /\ v.isv = {} /\ v.rd = Basics
      /\ v.elf = None /\ v.out = {} /\ v.ata = Idle
  BY Zenon DEF Entry
<1>2. v \in ViewTypes
  BY Constants, Zenon DEF ViewTypes, Entry
<1> HIDE DEF v
<1>3. v \in Views
  BY <1>1, <1>2, Zenon DEF Views
<1> QED BY <1>1, <1>3, Zenon DEF v

(* A flag pushed on nothing.                                               *)
LEMMA Pushed == ASSUME NEW a PROVE <<a>> \o <<>> = <<a>>
<1>1. <<a>> \in Seq({a})
  OBVIOUS
<1> QED BY <1>1

(* A flag pushed on another.                                               *)
LEMMA PushedTwo == ASSUME NEW a, NEW b PROVE <<a>> \o <<b>> = <<a, b>>
<1> DEFINE s == <<a>> \o <<b>>
           r == <<a, b>>
<1>1. s \in Seq({a, b}) /\ Len(s) = 2 /\ s[1] = a /\ s[2] = b
  OBVIOUS
<1>2. r \in Seq({a, b}) /\ Len(r) = 2 /\ r[1] = a /\ r[2] = b
  OBVIOUS
<1> HIDE DEF s, r
<1>3. \A i \in 1 .. 2 : s[i] = r[i]
  BY <1>1, <1>2
<1>4. s = r
  BY <1>1, <1>2, <1>3
<1> QED BY <1>4, Zenon DEF s, r

(* The flags saved inside a system call.                                   *)
LEMMA SavedFlags ==
  <<TRUE>> \o <<>> = <<TRUE>> /\ <<FALSE>> \o <<TRUE>> = <<FALSE, TRUE>>
BY Pushed, PushedTwo, Zenon

(* The view inside a system call.                                          *)
LEMMA WithinFacts ==
  ASSUME NEW t \in Threads, NEW D \in SUBSET Threads
  PROVE  LET v == Within(t, D) IN
         /\ Yields(v) /\ Calm(v) /\ v \in Views /\ v.me = t /\ ~v.fl /\ v.held = {} /\ v.isv = {}
         /\ v.sv = Enabled /\ v.rd = Basics /\ v.elf = None /\ v.out = D /\ v.ata = Idle
<1> DEFINE u == At(t, D)
           v == OffView(u)
<1>1. /\ u \in Views /\ u.me = t /\ u.fl = TRUE /\ u.sv = <<>> /\ u.held = {} /\ u.isv = {} /\ u.rd = Basics
      /\ u.elf = None /\ u.out = D /\ u.ata = Idle
  BY AtFacts
<1> HIDE DEF u
<1>2. v \in Views /\ Same(u, v) /\ v.fl = FALSE /\ v.held = {}
  BY <1>1, OffFacts, Zenon
<1>3. v.sv = Enabled
  <2>1. v.sv = <<u.fl>> \o u.sv
    BY <1>1, Zenon DEF OffView, Views, ViewTypes
  <2>2. v.sv = <<TRUE>> \o <<>>
    BY <1>1, <2>1, Zenon
  <2> QED BY <2>2, SavedFlags, Zenon DEF Enabled
<1> HIDE DEF v
<1>4. /\ v.me = t /\ v.isv = {} /\ v.rd = Basics /\ v.elf = None /\ v.out = D /\ v.ata = Idle
  BY <1>1, <1>2, Zenon DEF Same
<1>5. Yields(v) /\ Calm(v)
  BY <1>2, <1>4, Zenon DEF Yields, Calm
<1> QED BY <1>2, <1>3, <1>4, <1>5, Zenon DEF u, v, Within

(* Two views with the same components are the same.                        *)
LEMMA SameFields ==
  ASSUME NEW v \in ViewTypes, NEW w \in ViewTypes, w.me = v.me, w.fl = v.fl, w.sv = v.sv,
         w.held = v.held, w.isv = v.isv, w.rd = v.rd, w.elf = v.elf, w.out = v.out, w.ata = v.ata
  PROVE  w = v
BY DEF ViewTypes

(* The view inside a system call, with other threads that may be alive.    *)
LEMMA WithinOut ==
  ASSUME NEW t \in Threads, NEW D \in SUBSET Threads, NEW E \in SUBSET Threads
  PROVE  OutView(Within(t, D), E) = Within(t, E)
<1> DEFINE v == Within(t, D)
           w == Within(t, E)
           x == OutView(v, E)
<1>1. /\ v \in Views /\ v.me = t /\ ~v.fl /\ v.held = {} /\ v.isv = {} /\ v.sv = Enabled
      /\ v.rd = Basics /\ v.elf = None /\ v.ata = Idle
  BY WithinFacts
<1>2. /\ w \in Views /\ w.me = t /\ ~w.fl /\ w.held = {} /\ w.isv = {} /\ w.sv = Enabled
      /\ w.rd = Basics /\ w.elf = None /\ w.out = E /\ w.ata = Idle
  BY WithinFacts
<1> HIDE DEF v, w
<1>3. /\ x \in Views /\ x.me = v.me /\ x.fl = v.fl /\ x.sv = v.sv /\ x.held = v.held
      /\ x.isv = v.isv /\ x.rd = v.rd /\ x.elf = v.elf /\ x.ata = v.ata /\ x.out = E
  BY <1>1, OutFacts, Zenon
<1> HIDE DEF x
<1>4. x \in ViewTypes /\ w \in ViewTypes /\ v.fl \in BOOLEAN /\ w.fl \in BOOLEAN
  BY <1>1, <1>2, <1>3, Zenon DEF Views, ViewTypes
<1>5. x.fl = w.fl
  BY <1>1, <1>2, <1>3, <1>4, Zenon
<1>6. x = w
  BY <1>1, <1>2, <1>3, <1>4, <1>5, SameFields, Zenon
<1> QED BY <1>6, Zenon DEF x, v, w

(* entry and dispatch around the body of a call.                           *)
LEMMA SyscallRuns ==
  ASSUME NEW t \in Threads, NEW D \in SUBSET Threads, NEW E \in SUBSET Threads, NEW body,
         Runs(body, Within(t, D), Within(t, E))
  PROVE  Runs(syscall(body), At(t, D), At(t, E))
<1>1. At(t, D) \in Views /\ At(t, E) \in Views
  BY AtFacts, Zenon
<1> QED BY <1>1, WithoutInterrupts, Zenon DEF syscall, without_interrupts, Within

(* read_file leaves the view as it was, for a thread that may use the      *)
(* drive.                                                                  *)
LEMMA ReadFileRuns ==
  ASSUME NEW v, Calm(v), v.ata = Idle, CanRead(v), NEW s \in Operands
  PROVE  Runs(read_file(s), v, v)
BY ReadRuns, RoutinesNeutral, Compose, Zenon DEF Neutral, read_file

(* sys_write and sys_read_file leave the view as it was.                   *)
LEMMA WriteRuns ==
  ASSUME NEW t \in Threads, NEW D \in SUBSET Threads
  PROVE  /\ Runs(sys_write, At(t, D), At(t, D))
         /\ Runs(sys_read_file, At(t, D), At(t, D))
<1>1. Calm(Within(t, D))
  BY WithinFacts, Zenon
<1>2. Neutral(physical_memory_offset \o print) /\ Neutral(physical_memory_offset \o kernel_page_table)
  BY RoutinesNeutral, NeutralThen, Zenon
<1>3. /\ Runs(physical_memory_offset \o print, Within(t, D), Within(t, D))
      /\ Runs(physical_memory_offset \o kernel_page_table, Within(t, D), Within(t, D))
  BY <1>1, <1>2, Zenon DEF Neutral
<1> QED BY <1>3, SyscallRuns, Zenon DEF sys_write, sys_read_file

(* sys_open reads the disk, and leaves the view as it was.                 *)
LEMMA OpenRuns ==
  ASSUME NEW t \in DiskUsers \intersect Threads
  PROVE  Runs(sys_open("hello"), At(t, {}), At(t, {}))
<1> DEFINE v == Within(t, {})
<1>1. Calm(v) /\ v.ata = Idle /\ v.me = t /\ v.fl = FALSE /\ v.held = {}
  BY WithinFacts
<1> HIDE DEF v
<1>2. CanRead(v) /\ "hello" \in Operands
  BY <1>1, Zenon DEF CanRead, Operands, Sectors
<1>3. /\ Runs(physical_memory_offset, v, v) /\ Runs(kernel_page_table, v, v)
      /\ Runs(read_file("hello"), v, v)
  BY <1>1, <1>2, ReadFileRuns, RoutinesNeutral, Zenon DEF Neutral
<1>4. Runs(physical_memory_offset \o kernel_page_table \o read_file("hello") \o kernel_page_table, v, v)
  BY <1>3, Compose, Zenon
<1> QED BY <1>4, SyscallRuns, Zenon DEF sys_open, v

(* After sys_spawn the program may be alive.                               *)
LEMMA SpawnCallRuns ==
  ASSUME NEW t \in {"spawn_wait", "shell"}, NEW c \in Children(t)
  PROVE  Runs(sys_spawn(c), At(t, {}), At(t, {c}))
<1> DEFINE v == Within(t, {})
           w == Within(t, {c})
<1>1. t \in Threads /\ c \in Threads /\ c \in Operands /\ t \in DiskUsers /\ c # "shell"
  BY Zenon DEF Threads, Demos, Children, Operands, DiskUsers
<1>2. /\ Calm(v) /\ v.ata = Idle /\ v.me = t /\ v.fl = FALSE /\ v.held = {} /\ v.out = {}
      /\ OutView(v, {c}) = w
  BY <1>1, WithinFacts, WithinOut
<1>3. Calm(w)
  BY <1>1, WithinFacts
<1> HIDE DEF v, w
<1>4. CanRead(v)
  BY <1>1, <1>2, Zenon DEF CanRead
<1>5. /\ Runs(physical_memory_offset, v, v) /\ Runs(kernel_page_table, v, v) /\ Runs(elf_load, v, v)
      /\ Runs(read_file(c), v, v) /\ Runs(heap, w, w)
  BY <1>1, <1>2, <1>3, <1>4, ReadFileRuns, RoutinesNeutral, Zenon DEF Neutral, elf_load
<1>6. Runs(spawn_thread(c), v, w)
  <2>1. v.out \union {c} = {c} /\ c \in Children(v.me) \ v.out
    BY <1>2, Zenon
  <2>2. Runs(spawn_thread(c), v, OutView(v, v.out \union {c}))
    BY <1>1, <1>2, <2>1, SpawnRuns, Zenon
  <2> QED BY <1>2, <2>1, <2>2, Zenon
<1>7. Runs(physical_memory_offset \o kernel_page_table \o read_file(c) \o physical_memory_offset
             \o elf_load, v, v)
  BY <1>5, Compose, Zenon
<1>8. Runs(physical_memory_offset \o kernel_page_table \o read_file(c) \o physical_memory_offset
             \o elf_load \o spawn_thread(c) \o heap, v, w)
  BY <1>5, <1>6, <1>7, Compose, Zenon
<1> QED BY <1>1, <1>8, SyscallRuns, Zenon DEF sys_spawn, v, w

(* A sys_spawn that fails leaves the view as it was.                       *)
LEMMA FailedSpawnRuns ==
  /\ Runs(sys_spawn_missing, At("shell", {}), At("shell", {}))
  /\ Runs(sys_spawn_refused, At("shell", {}), At("shell", {}))
<1> DEFINE v == Within("shell", {})
<1>1. "shell" \in Threads /\ "shell" \in DiskUsers /\ "command" \in Operands
  BY Zenon DEF Threads, DiskUsers, Operands, Sectors
<1>2. Calm(v) /\ v.ata = Idle /\ v.me = "shell" /\ v.fl = FALSE /\ v.held = {}
  BY <1>1, WithinFacts
<1> HIDE DEF v
<1>3. CanRead(v)
  BY <1>1, <1>2, Zenon DEF CanRead
<1>4. Runs(read_sector("command"), v, v) /\ Runs(read_file("command"), v, v)
  BY <1>1, <1>2, <1>3, ReadRuns, ReadFileRuns, Zenon
<1>5. /\ Runs(physical_memory_offset, v, v) /\ Runs(kernel_page_table, v, v) /\ Runs(elf_load, v, v)
      /\ Runs(deallocate_frame, v, v) /\ Runs(heap, v, v)
  BY <1>2, RoutinesNeutral, DeallocateNeutral, Zenon DEF Neutral, elf_load
<1>6. Runs(physical_memory_offset \o kernel_page_table \o read_sector("command"), v, v)
  BY <1>4, <1>5, Compose, Zenon
<1>7. Runs(physical_memory_offset \o kernel_page_table \o read_file("command")
             \o physical_memory_offset \o elf_load, v, v)
  BY <1>4, <1>5, Compose, Zenon
<1>8. Runs(physical_memory_offset \o kernel_page_table \o read_file("command")
             \o physical_memory_offset \o elf_load \o deallocate_frame \o heap, v, v)
  BY <1>5, <1>7, Compose, Zenon
<1> QED BY <1>1, <1>6, <1>8, SyscallRuns, Zenon DEF sys_spawn_missing, sys_spawn_refused, v

(* After sys_wait it is gone.                                              *)
LEMMA WaitCallRuns ==
  ASSUME NEW t \in Threads, NEW c \in Threads
  PROVE  Runs(sys_wait(c), At(t, {c}), At(t, {}))
<1>1. Yields(Within(t, {c})) /\ Within(t, {c}).out = {c} /\ OutView(Within(t, {c}), {}) = Within(t, {})
  BY WithinFacts, WithinOut
<1>2. {c} \ {c} = {}
  BY Zenon
<1>3. Runs(wait_while_alive(c), Within(t, {c}), Within(t, {}))
  BY <1>1, <1>2, WaitRuns, Zenon
<1> QED BY <1>3, SyscallRuns, Zenon DEF sys_wait

(* Disabling interrupts.                                                   *)
LEMMA OffRuns ==
  ASSUME NEW v \in Views PROVE Runs(<<Off>>, v, OffView(v))
<1>1. Step(v, Off, OffView(v)) /\ Off \in Steps
  BY OffFacts, Zenon DEF Step, Changes, Off, Steps, Ops, Operands
<1> QED BY <1>1, RunsOne, Zenon

(* sys_exit, and a kill in a system call, do not return.                   *)
LEMMA ExitCallRuns ==
  ASSUME NEW t \in Threads \ {"boot"}, NEW w
  PROVE  /\ Runs(sys_exit, At(t, {}), w)
         /\ Runs(exit_current_thread, Within(t, {}), w)
         /\ Runs(<<Off>>, At(t, {}), Within(t, {}))
<1>1. Runs(exit_current_thread, Within(t, {}), w)
  <2> DEFINE v == Within(t, {})
  <2>1. Calm(v) /\ v.isv = {} /\ v.out = {} /\ v.held = {} /\ v.me # "boot"
    BY WithinFacts
  <2> HIDE DEF v
  <2> QED BY <2>1, ExitRuns, Zenon DEF v
<1>2. Runs(<<Off>>, At(t, {}), Within(t, {}))
  BY AtFacts, OffRuns, Zenon DEF Within
<1> QED BY <1>1, <1>2, Compose, Zenon DEF sys_exit

(* thread_trampoline enables interrupts for a thread that starts.          *)
LEMMA TrampolineRuns ==
  ASSUME NEW t \in Threads
  PROVE  Runs(thread_trampoline, Entry(t), At(t, {}))
<1> DEFINE v == Entry(t)
           w == At(t, {})
           sti == <<"sti", None>>
<1>1. v \in Views /\ v.held = {} /\ v.fl = FALSE /\ v.rd = Basics /\ w \in Views
  BY AtFacts, EntryFacts
<1>2. w = [v EXCEPT !.fl = TRUE]
  <2>1. /\ v.me = t /\ v.sv = <<>> /\ v.isv = {} /\ v.elf = None /\ v.out = {} /\ v.ata = Idle
        /\ w.me = t /\ w.fl = TRUE /\ w.sv = <<>> /\ w.held = {} /\ w.isv = {} /\ w.rd = Basics
        /\ w.elf = None /\ w.out = {} /\ w.ata = Idle
    BY AtFacts, EntryFacts
  <2> HIDE DEF v, w
  <2> DEFINE x == [v EXCEPT !.fl = TRUE]
  <2>2. /\ x \in ViewTypes /\ x.me = v.me /\ x.fl = TRUE /\ x.sv = v.sv /\ x.held = v.held
        /\ x.isv = v.isv /\ x.rd = v.rd /\ x.elf = v.elf /\ x.out = v.out /\ x.ata = v.ata
    BY <1>1, Zenon DEF Views, ViewTypes
  <2>3. w \in ViewTypes
    BY <1>1, Zenon DEF Views
  <2> HIDE DEF x
  <2>4. w = x
    BY <1>1, <2>1, <2>2, <2>3, SameFields, Zenon
  <2> QED BY <2>4, Zenon DEF x
<1> HIDE DEF v, w
<1>3. Calm(v)
  BY <1>1, Zenon DEF Calm
<1>4. Step(v, sti, w) /\ sti \in Steps
  BY <1>1, <1>2, Zenon DEF Step, Changes, Steps, Ops, Operands
<1>5. Runs(kernel_page_table, v, v) /\ Runs(<<sti>>, v, w)
  BY <1>3, <1>4, RoutinesNeutral, RunsOne, Zenon DEF Neutral
<1> QED BY <1>5, Compose, Zenon DEF thread_trampoline, v, w

(* sys_read_stdin ends in pop_input, which begins it again.                *)
LEMMA ReadStdinRuns ==
  ASSUME NEW w PROVE Runs(sys_read_stdin, At("shell", {}), w)
<1> DEFINE v == Within("shell", {})
           y == OffView(v)
           x == Locking(y, "input")
           pop == <<"pop_input", None>>
<1>1. "shell" \in Threads /\ "input" \in Locks /\ "input" \notin NeedsSetup
  BY Zenon DEF Threads, Locks, NeedsSetup
<1>2. /\ Calm(v) /\ v \in Views /\ v.me = "shell" /\ v.fl = FALSE /\ v.held = {} /\ v.isv = {}
      /\ v.rd = Basics /\ v.out = {} /\ v.ata = Idle
  BY <1>1, WithinFacts
<1>3. v.sv = <<TRUE>> /\ y.sv = <<FALSE, TRUE>>
  <2>0. v.sv = Enabled
    BY <1>1, WithinFacts
  <2>1. v.sv = <<TRUE>>
    BY <2>0, Zenon DEF Enabled
  <2> HIDE DEF v
  <2>2. y.sv = <<v.fl>> \o v.sv
    BY <1>2, Zenon DEF OffView, Views, ViewTypes
  <2>3. y.sv = <<FALSE>> \o <<TRUE>>
    BY <1>2, <2>1, <2>2, Zenon
  <2> QED BY <2>1, <2>3, SavedFlags, Zenon
<1>4. /\ Step(v, Off, y) /\ Step(y, Lock("input"), x) /\ Off \in Steps /\ Lock("input") \in Steps
      /\ x \in Views /\ Same(v, x) /\ x.fl = FALSE /\ x.held = {"input"} /\ x.sv = y.sv
  BY <1>1, <1>2, Entering
<1> HIDE DEF x, y, v
<1>5. Step(x, pop, w) /\ pop \in Steps
  BY <1>2, <1>3, <1>4, Zenon DEF Step, Ends, Same, Steps, Ops, Operands
<1> HIDE DEF pop
<1>6. Runs(<<Off, Lock("input"), pop>>, v, w)
  BY <1>4, <1>5, RunsThree, Zenon
<1>7. Runs(physical_memory_offset, v, v) /\ Runs(kernel_page_table, v, v)
  BY <1>2, RoutinesNeutral, Zenon DEF Neutral
<1>8. Runs(<<Off>>, At("shell", {}), v)
  BY <1>1, AtFacts, OffRuns, Zenon DEF Within, v
<1>9. Runs(<<Off>> \o physical_memory_offset \o kernel_page_table, At("shell", {}), v)
  BY <1>7, <1>8, Compose, Zenon
<1> QED BY <1>6, <1>9, Compose, Zenon DEF sys_read_stdin, pop

(* What the shell does with a line ends where it began.                    *)
LEMMA RunCommandRuns ==
  ASSUME NEW code \in RunCommand
  PROVE  Runs(code \o sys_write, At("shell", {}), At("shell", {}))
<1>1. "shell" \in Threads /\ "command" \in Threads /\ "command" \in Children("shell")
  BY Zenon DEF Threads, Children
<1>2. /\ Runs(sys_spawn("command"), At("shell", {}), At("shell", {"command"}))
      /\ Runs(sys_wait("command"), At("shell", {"command"}), At("shell", {}))
      /\ Runs(sys_write, At("shell", {}), At("shell", {}))
  BY <1>1, SpawnCallRuns, WaitCallRuns, WriteRuns, Zenon
<1>3. CASE code = sys_spawn("command") \o sys_wait("command")
  BY <1>2, <1>3, Compose, Zenon
<1>4. ASSUME NEW failed \in {sys_spawn_missing, sys_spawn_refused}, code = failed \o sys_write
      PROVE  Runs(code, At("shell", {}), At("shell", {}))
  BY <1>2, <1>4, FailedSpawnRuns, Compose, Zenon
<1> QED BY <1>2, <1>3, <1>4, Compose, Zenon DEF RunCommand

(* Every thread's program runs from its start.                             *)
LEMMA ProgramRuns ==
  ASSUME NEW t \in Threads \ {"boot"}, NEW w
  PROVE  Runs(Program(t), Entry(t), w)
<1> DEFINE v == At(t, {})
<1>1. Runs(thread_trampoline, Entry(t), v)
  BY TrampolineRuns, Zenon
<1>2. \A c : Runs(c, v, w) => Runs(thread_trampoline \o c, Entry(t), w)
  BY <1>1, Compose, Zenon
<1>3. /\ Runs(sys_write, v, v) /\ Runs(sys_read_file, v, v) /\ Runs(sys_exit, v, w)
      /\ Runs(exit_current_thread, Within(t, {}), w) /\ Runs(<<Off>>, v, Within(t, {}))
  BY WriteRuns, ExitCallRuns, Zenon
<1>4. CASE t = "open_read"
  <2>1. Runs(sys_open("hello"), v, v)
    BY <1>4, OpenRuns, Zenon DEF DiskUsers
  <2>2. Runs(build_open_read_shellcode, v, w)
    BY <1>3, <2>1, Compose, Zenon DEF build_open_read_shellcode
  <2>3. Program(t) = thread_trampoline \o build_open_read_shellcode
    BY <1>4, Zenon DEF Program
  <2> QED BY <1>2, <2>2, <2>3, Zenon
<1>5. CASE t = "bad_pointer"
  <2>1. Calm(Within(t, {}))
    BY WithinFacts, Zenon
  <2>2. Runs(physical_memory_offset, Within(t, {}), Within(t, {})) /\ Runs(print, Within(t, {}), Within(t, {}))
    BY <2>1, RoutinesNeutral, Zenon DEF Neutral
  <2>3. Runs(<<Off>> \o physical_memory_offset \o print, v, Within(t, {}))
    BY <1>3, <2>2, Compose, Zenon
  <2>4. Runs(build_bad_pointer_shellcode, v, w)
    BY <1>3, <2>3, Compose, Zenon DEF build_bad_pointer_shellcode
  <2>5. Program(t) = thread_trampoline \o build_bad_pointer_shellcode
    BY <1>5, Zenon DEF Program
  <2> QED BY <1>2, <2>4, <2>5, Zenon
<1>6. CASE t = "spawn_wait"
  <2>1. "greet" \in Children(t) /\ "greet" \in Threads
    BY <1>6, Zenon DEF Children, Threads, Demos
  <2>2. Runs(sys_spawn("greet"), v, At(t, {"greet"})) /\ Runs(sys_wait("greet"), At(t, {"greet"}), v)
    BY <1>6, <2>1, SpawnCallRuns, WaitCallRuns, Zenon
  <2>3. Runs(sys_spawn("greet") \o sys_wait("greet"), v, v)
    BY <2>2, Compose, Zenon
  <2>4. Runs(build_spawn_wait_shellcode, v, w)
    BY <1>3, <2>3, Compose, Zenon DEF build_spawn_wait_shellcode
  <2>5. Program(t) = thread_trampoline \o build_spawn_wait_shellcode
    BY <1>6, Zenon DEF Program
  <2> QED BY <1>2, <2>4, <2>5, Zenon
<1>7. CASE t \in {"greet", "command"}
  <2>1. Runs(ring3_trampoline, v, v)
    <3>1. v \in Views /\ v.held = {} /\ v.rd = Basics
      BY AtFacts
    <3>2. "scheduler" \in Locks \ v.held /\ "scheduler" \in Basics
      BY <3>1, Zenon DEF Locks, Basics, NeedsSetup
    <3> HIDE DEF v
    <3> QED BY <3>1, <3>2, MaskedBriefRuns, Zenon DEF ring3_trampoline, kernel_page_table
  <2>2. Runs(ring3_trampoline \o sys_write \o sys_exit, v, w)
    BY <1>3, <2>1, Compose, Zenon
  <2>3. Program(t) = thread_trampoline \o (ring3_trampoline \o sys_write \o sys_exit)
    BY <1>7, Zenon DEF Program
  <2> QED BY <1>2, <2>2, <2>3, Zenon
<1>8. CASE t = "shell"
  <2>1. Runs(<<<<"load", t>>>>, v, v)
    <3>1. v \in Views /\ v.me = "shell"
      BY <1>8, AtFacts, Zenon
    <3>2. Step(v, <<"load", t>>, v) /\ <<"load", t>> \in Steps
      BY <1>8, <3>1, Zenon DEF Step, Changes, Steps, Ops, Operands
    <3> QED BY <3>2, RunsOne, Zenon
  <2>2. Runs(run_elf_demo(t) \o sys_write \o sys_read_stdin, v, w)
    BY <1>3, <1>8, <2>1, ReadStdinRuns, Compose, Zenon DEF run_elf_demo
  <2>3. Program(t) = thread_trampoline \o (run_elf_demo(t) \o sys_write \o sys_read_stdin)
    BY <1>8, Zenon DEF Program
  <2> QED BY <1>2, <2>2, <2>3, Zenon
<1>9. CASE t \in Loops
  <2>1. v \in Views /\ v.fl = TRUE /\ v.held = {} /\ v.isv = {} /\ v.out = {} /\ v.me = t /\ v.rd = Basics
    BY AtFacts
  <2> HIDE DEF v
  <2>2. Calm(v)
    BY <1>9, <2>1, Zenon DEF Calm, Masking
  <2>3. Runs(exit_demo_thread, v, w)
    BY <2>1, <2>2, ExitRuns, Zenon DEF exit_demo_thread
  <2>4. t \notin {"open_read", "bad_pointer", "spawn_wait", "greet", "command", "shell"}
    BY <1>9, LoopNames, Zenon DEF Demos
  <2>5. Program(t) = thread_trampoline \o exit_demo_thread
    BY <2>4, Zenon DEF Program
  <2> QED BY <1>2, <2>3, <2>5, Zenon
<1> QED BY <1>4, <1>5, <1>6, <1>7, <1>8, <1>9, Zenon DEF Threads, Demos, Loops

-----------------------------------------------------------------------------
(* kernel_main.                                                            *)

(* boot between two steps of kernel_main: before interrupts are enabled,   *)
(* and after.                                                              *)
On == TRUE
Record(f, r, e, o) ==
  [me |-> "boot", fl |-> f, sv |-> <<>>, held |-> {}, isv |-> {}, rd |-> r, elf |-> e, out |-> o,
   ata |-> Idle]
Early(R) == Record(~On, R, None, {})
Late(R, e, D) == Record(On, R, e, D)
Up(e, D) == Late(Basics, e, D)

(* The view of the boot thread before interrupts are on.                   *)
LEMMA EarlyFacts ==
  ASSUME NEW R \in SUBSET NeedsSetup
  PROVE  LET v == Early(R) IN
         /\ v \in Views /\ v.me = "boot" /\ ~v.fl /\ v.held = {} /\ v.rd = R
         /\ (Basics \subseteq R => Calm(v))
<1> DEFINE v == Early(R)
<1>1. v.me = "boot" /\ v.fl = FALSE /\ v.held = {} /\ v.rd = R
  BY Zenon DEF Early, Record, On
<1>2. v \in ViewTypes
  <2>1. "boot" \in Threads
    BY Zenon DEF Threads
  <2> QED BY <2>1, Constants, Zenon DEF ViewTypes, Early, Record, On
<1> HIDE DEF v
<1>3. v \in Views
  BY <1>1, <1>2, Zenon DEF Views
<1>4. Basics \subseteq R => Calm(v)
  BY <1>1, <1>3, Zenon DEF Calm
<1> QED BY <1>1, <1>3, <1>4, Zenon DEF v

(* The view of the boot thread once they are.                              *)
LEMMA LateFacts ==
  ASSUME NEW R \in {Basics, NeedsSetup}, NEW e \in Operands, NEW D \in SUBSET Threads
  PROVE  LET v == Late(R, e, D) IN
         /\ v \in Views /\ v.me = "boot" /\ v.fl /\ v.sv = <<>> /\ v.held = {} /\ v.isv = {}
         /\ v.rd = R /\ v.elf = e /\ v.out = D /\ v.ata = Idle
<1> DEFINE v == Late(R, e, D)
<1>0. R \in SUBSET NeedsSetup /\ Basics \subseteq R
  BY Zenon DEF Basics
<1>1. /\ v.me = "boot" /\ v.fl = TRUE /\ v.sv = <<>> /\ v.held = {} /\ v.isv = {} /\ v.rd = R
      /\ v.elf = e /\ v.out = D /\ v.ata = Idle
  BY Zenon DEF Late, Record, On
<1>2. v \in ViewTypes
  <2>1. "boot" \in Threads
    BY Zenon DEF Threads
  <2> QED BY <1>0, <2>1, Constants, Zenon DEF ViewTypes, Late, Record, On
<1> HIDE DEF v
<1>3. Open(v)
  BY <1>0, <1>1, Zenon DEF Open
<1>4. v \in Views
  BY <1>2, <1>3, Zenon DEF Views
<1> QED BY <1>1, <1>4, Zenon DEF v

(* The view of the boot thread between two lines of kernel_main.           *)
LEMMA UpFacts ==
  ASSUME NEW e \in Operands, NEW D \in SUBSET Threads
  PROVE  LET v == Up(e, D) IN
         /\ v \in Views /\ v.me = "boot" /\ v.fl /\ v.sv = <<>> /\ v.held = {} /\ v.isv = {}
         /\ v.rd = Basics /\ v.elf = e /\ v.out = D /\ v.ata = Idle
         /\ Main(v) /\ Calm(v) /\ Yields(v)
<1> DEFINE v == Up(e, D)
<1>1. Basics \in SUBSET NeedsSetup /\ "executor" \notin Basics
  BY Zenon DEF Basics
<1>2. /\ v \in Views /\ v.me = "boot" /\ v.fl /\ v.sv = <<>> /\ v.held = {} /\ v.isv = {}
      /\ v.rd = Basics /\ v.elf = e /\ v.out = D /\ v.ata = Idle
  BY <1>1, LateFacts DEF Up
<1> HIDE DEF v
<1>4. Main(v) /\ Calm(v) /\ Yields(v)
  BY <1>1, <1>2, Zenon DEF Main, Calm, Yields, Masking
<1> QED BY <1>2, <1>4, Zenon DEF v

(* A view of the boot thread with one component changed.                   *)
LEMMA RecordChanged ==
  ASSUME NEW f, NEW r, NEW e, NEW o, NEW x
  PROVE  /\ FlView(Record(f, r, e, o), x) = Record(x, r, e, o)
         /\ RdView(Record(f, r, e, o), x) = Record(f, x, e, o)
         /\ ElfView(Record(f, r, e, o), x) = Record(f, r, x, o)
         /\ OutView(Record(f, r, e, o), x) = Record(f, r, e, x)
<1> DEFINE none == {}
           nothing == <<>>
           boot == "boot"
           idle == Idle
           rec(g, s, d, p) == [me |-> boot, fl |-> g, sv |-> nothing, held |-> none, isv |-> none,
                               rd |-> s, elf |-> d, out |-> p, ata |-> idle]
<1>1. \A g, s, d, p : Record(g, s, d, p) = rec(g, s, d, p)
  BY Zenon DEF Record
<1> HIDE DEF none, nothing, boot, idle
<1>2. /\ [rec(f, r, e, o) EXCEPT !.fl = x] = rec(x, r, e, o)
      /\ [rec(f, r, e, o) EXCEPT !.rd = x] = rec(f, x, e, o)
      /\ [rec(f, r, e, o) EXCEPT !.elf = x] = rec(f, r, x, o)
      /\ [rec(f, r, e, o) EXCEPT !.out = x] = rec(f, r, e, x)
  OBVIOUS
<1> HIDE DEF rec
<1> QED BY <1>1, <1>2, Zenon DEF FlView, RdView, ElfView, OutView

(* The same, once the kernel is up.                                        *)
LEMMA UpChanged ==
  ASSUME NEW e, NEW D, NEW x
  PROVE  /\ OutView(Up(e, D), x) = Up(e, x) /\ ElfView(Up(e, D), x) = Up(x, D)
         /\ RdView(Up(e, D), x) = Late(x, e, D)
BY RecordChanged DEF Up, Late

(* The boot thread's view between two lines is determined by the statics   *)
(* and the threads that may be alive.                                      *)
LEMMA MainIsUp ==
  ASSUME NEW v, Main(v)
  PROVE  v = Up(v.elf, v.out) /\ v.elf \in Operands /\ v.out \in SUBSET Threads
<1> DEFINE w == Up(v.elf, v.out)
<1>1. v \in ViewTypes /\ v.elf \in Operands /\ v.out \in SUBSET Threads
  BY Zenon DEF Main, Views, ViewTypes
<1>2. /\ w \in Views /\ w.me = "boot" /\ w.fl /\ w.sv = <<>> /\ w.held = {} /\ w.isv = {}
      /\ w.rd = Basics /\ w.elf = v.elf /\ w.out = v.out /\ w.ata = Idle
  BY <1>1, UpFacts
<1> HIDE DEF w
<1>3. w \in ViewTypes /\ w.fl \in BOOLEAN
  BY <1>2, Zenon DEF Views, ViewTypes
<1>4. w.fl = v.fl
  BY <1>2, <1>3, Zenon DEF Main
<1>5. v = w
  BY <1>1, <1>2, <1>3, <1>4, SameFields, Zenon DEF Main
<1> QED BY <1>1, <1>5, Zenon DEF w

(* Setting something up.                                                   *)
LEMMA SetupRuns ==
  ASSUME NEW x \in NeedsSetup, NEW R \in SUBSET NeedsSetup
  PROVE  Runs(<<<<"setup", x>>>>, Early(R), Early(R \union {x}))
<1> DEFINE v == Early(R)
           w == Early(R \union {x})
<1>1. v.me = "boot" /\ v.held = {} /\ v.rd = R /\ w \in Views
  BY EarlyFacts, Zenon
<1>2. w = [v EXCEPT !.rd = R \union {x}]
  <2>1. w = RdView(v, R \union {x})
    BY RecordChanged DEF Early
  <2> HIDE DEF v, w
  <2> QED BY <2>1, Zenon DEF RdView
<1> HIDE DEF v, w
<1>3. Step(v, <<"setup", x>>, w) /\ <<"setup", x>> \in Steps
  BY <1>1, <1>2, Zenon DEF Step, Changes, Steps, Ops, Operands
<1> QED BY <1>3, RunsOne, Zenon DEF v, w

(* kernel_main up to the enabling of interrupts.                           *)
LEMMA BringUpRuns == Runs(BringUp, Early({}), Up(None, {}))
<1> DEFINE v0 == Early({})
           v1 == Early({"frames"})
           v2 == Early({"frames", "offset"})
           v3 == Early({"frames", "offset", "heap"})
           v4 == Early({"frames", "offset", "heap", "scancodes"})
           v5 == Early(Basics)
           w == Up(None, {})
<1>1. /\ Basics = {"frames", "offset", "heap", "scancodes", "scheduler"}
      /\ {} \union {"frames"} = {"frames"}
      /\ {"frames"} \union {"offset"} = {"frames", "offset"}
      /\ {"frames", "offset"} \union {"heap"} = {"frames", "offset", "heap"}
      /\ {"frames", "offset", "heap"} \union {"scancodes"} = {"frames", "offset", "heap", "scancodes"}
      /\ {"frames", "offset", "heap", "scancodes"} \union {"scheduler"} = Basics
  BY Zenon DEF Basics, NeedsSetup
<1>2. /\ Runs(init_frame_allocator, v0, v1) /\ Runs(set_physical_memory_offset, v1, v2)
      /\ Runs(<<<<"setup", "heap">>>>, v2, v3) /\ Runs(<<<<"setup", "scancodes">>>>, v3, v4)
      /\ Runs(scheduler_init, v4, v5)
  <2>1. Runs(init_frame_allocator, v0, v1)
    BY <1>1, SetupRuns, Zenon DEF init_frame_allocator, NeedsSetup
  <2>2. Runs(set_physical_memory_offset, v1, v2)
    BY <1>1, SetupRuns, Zenon DEF set_physical_memory_offset, NeedsSetup
  <2>3. Runs(<<<<"setup", "heap">>>>, v2, v3)
    BY <1>1, SetupRuns, Zenon DEF NeedsSetup
  <2>4. Runs(<<<<"setup", "scancodes">>>>, v3, v4)
    BY <1>1, SetupRuns, Zenon DEF NeedsSetup
  <2>5. Runs(scheduler_init, v4, v5)
    BY <1>1, SetupRuns, Zenon DEF scheduler_init, NeedsSetup
  <2> QED BY <2>1, <2>2, <2>3, <2>4, <2>5, Zenon
<1>3. Runs(print, v0, v0) /\ Runs(init, v0, v0)
  <2>1. v0 \in Views /\ v0.fl = FALSE /\ v0.held = {}
    BY EarlyFacts
  <2>2. /\ "writer" \in Locks \ v0.held /\ "pics" \in Locks \ v0.held
        /\ "writer" \notin NeedsSetup /\ "pics" \notin NeedsSetup
    BY <2>1, Zenon DEF Locks, NeedsSetup
  <2> HIDE DEF v0
  <2> QED BY <2>1, <2>2, MaskedBriefRuns, BriefRuns, Zenon DEF print, init
<1>4. Runs(allocate_frame, v2, v2) /\ Runs(heap, v3, v3)
  <2>1. /\ v2 \in Views /\ v2.fl = FALSE /\ v2.held = {} /\ v2.rd = {"frames", "offset"}
        /\ v3 \in Views /\ v3.fl = FALSE /\ v3.held = {} /\ v3.rd = {"frames", "offset", "heap"}
    BY EarlyFacts DEF NeedsSetup
  <2>2. "frames" \in Locks /\ "heap" \in Locks
    BY Zenon DEF Locks
  <2> HIDE DEF v2, v3
  <2> QED BY <2>1, <2>2, BriefRuns, Zenon DEF allocate_frame, heap
<1>5. Runs(enable_interrupts, v5, w)
  <2>1. v5 \in Views /\ w \in Views
    BY EarlyFacts, UpFacts, Zenon DEF Basics, Operands
  <2>2. w = [v5 EXCEPT !.fl = TRUE]
    <3>1. w = FlView(v5, On)
      BY RecordChanged DEF Early, Up, Late
    <3> HIDE DEF v5, w
    <3> QED BY <3>1, Zenon DEF FlView, On
  <2>3. Step(v5, <<"sti", None>>, w) /\ <<"sti", None>> \in Steps
    <3> HIDE DEF v5, w
    <3> QED BY <2>1, <2>2, Zenon DEF Step, Changes, Steps, Ops, Operands
  <2> QED BY <2>3, RunsOne, Zenon DEF enable_interrupts
<1> HIDE DEF v0, v1, v2, v3, v4, v5, w
<1>6. Runs(print \o init \o init_frame_allocator \o set_physical_memory_offset, v0, v2)
  BY <1>2, <1>3, Compose, Zenon
<1>7. Runs(init_heap, v2, v3) /\ Runs(init_queue, v3, v4)
  BY <1>2, <1>4, Compose, Zenon DEF init_heap, init_queue
<1>8. Runs(print \o init \o init_frame_allocator \o set_physical_memory_offset \o init_heap \o init_queue,
           v0, v4)
  BY <1>6, <1>7, Compose, Zenon
<1>9. Runs(BringUp, v0, w)
  BY <1>2, <1>5, <1>8, Compose, Zenon DEF BringUp
<1> QED BY <1>9, Zenon DEF v0, w

(* Writing the statics of a loaded program, while no thread of one is      *)
(* about to read them.                                                     *)
LEMMA StoreRuns ==
  ASSUME NEW e \in Operands, NEW x \in Operands, NEW D \in SUBSET Threads, "shell" \notin D
  PROVE  Runs(<<<<"store", x>>>>, Up(e, D), Up(x, D))
<1> DEFINE v == Up(e, D)
           w == Up(x, D)
<1>1. v.me = "boot" /\ v.out = D /\ w \in Views
  BY UpFacts
<1>2. w = [v EXCEPT !.elf = x]
  <2>1. w = ElfView(v, x)
    BY UpChanged
  <2> HIDE DEF v, w
  <2> QED BY <2>1, Zenon DEF ElfView
<1> HIDE DEF v, w
<1>3. Step(v, <<"store", x>>, w) /\ <<"store", x>> \in Steps
  BY <1>1, <1>2, Zenon DEF Step, Changes, Steps, Ops
<1> QED BY <1>3, RunsOne, Zenon DEF v, w

(* spawn_loaded_elf_demo, for the programs that are loaded and not run.    *)
LEMMA LoadRuns ==
  ASSUME NEW e \in Operands, NEW x \in Operands
  PROVE  /\ Runs(spawn_loaded_elf_demo(x, FALSE), Up(e, {}), Up(x, {}))
         /\ Runs(elf_load \o print \o <<<<"store", x>>>>, Up(e, {}), Up(x, {}))
<1>1. Calm(Up(e, {}))
  BY UpFacts, Zenon
<1>2. /\ Runs(elf_load, Up(e, {}), Up(e, {})) /\ Runs(print, Up(e, {}), Up(e, {}))
      /\ Runs(<<<<"store", x>>>>, Up(e, {}), Up(x, {}))
  BY <1>1, RoutinesNeutral, StoreRuns, Zenon DEF Neutral, elf_load
<1>3. Runs(elf_load \o print \o <<<<"store", x>>>>, Up(e, {}), Up(x, {}))
  BY <1>2, Compose, Zenon
<1>4. Runs(elf_load \o print \o <<<<"store", x>>>> \o <<>>, Up(e, {}), Up(x, {}))
  BY <1>3, RunsNothing, Compose, Zenon
<1> QED BY <1>3, <1>4, Zenon DEF spawn_loaded_elf_demo

(* The part of kernel_main that loads programs without running them.       *)
LEMMA LoadDemosRuns ==
  ASSUME NEW e \in Operands
  PROVE  Runs(LoadDemos, Up(e, {}), Up("echo", {}))
<1> DEFINE v == Up(e, {})
           x == Up("test_elf", {})
           w == Up("echo", {})
<1>1. "test_elf" \in Operands /\ "echo" \in Operands /\ "boot_sector" \in Operands
  BY Zenon DEF Operands, Sectors
<1>2. /\ Calm(v) /\ v.ata = Idle /\ v.me = "boot" /\ v.out = {} /\ v.held = {}
      /\ Calm(x) /\ x.ata = Idle /\ x.me = "boot" /\ x.out = {} /\ x.held = {} /\ Calm(w)
  BY <1>1, UpFacts
<1>3. /\ Runs(spawn_loaded_elf_demo("test_elf", FALSE), v, x)
      /\ Runs(spawn_disk_elf_demo("echo", FALSE), x, w)
  BY <1>1, LoadRuns, Zenon DEF spawn_disk_elf_demo
<1> HIDE DEF v, x, w
<1>4. Runs(read_sector("boot_sector"), v, v) /\ Runs(read_file("echo"), x, x)
  BY <1>1, <1>2, ReadRuns, ReadFileRuns, Zenon DEF CanRead, Alone
<1>5. /\ Runs(heap, v, v) /\ Runs(print, v, v) /\ Runs(allocate_frame, v, v)
      /\ Runs(heap, x, x) /\ Runs(print, x, x) /\ Runs(heap, w, w)
  BY <1>2, RoutinesNeutral, Zenon DEF Neutral
<1>6. Runs(run_bringup_demo, v, v) /\ Runs(map_shellcode_page, v, v)
  BY <1>5, Compose, Zenon DEF run_bringup_demo, map_shellcode_page
<1>7. Runs(spawn_isolated_demo, v, v) /\ Runs(spawn_elf_demo, v, x)
  BY <1>3, <1>5, <1>6, Compose, Zenon DEF spawn_isolated_demo, spawn_elf_demo
<1>8. Runs(run_bringup_demo \o read_sector("boot_sector") \o print \o spawn_isolated_demo \o print, v, v)
  BY <1>4, <1>5, <1>6, <1>7, Compose, Zenon
<1>9. Runs(run_bringup_demo \o read_sector("boot_sector") \o print \o spawn_isolated_demo \o print
             \o spawn_elf_demo \o read_file("echo") \o print, v, x)
  BY <1>4, <1>5, <1>7, <1>8, Compose, Zenon
<1>10. Runs(LoadDemos, v, w)
  BY <1>3, <1>5, <1>9, Compose, Zenon DEF LoadDemos
<1> QED BY <1>10, Zenon DEF v, w

(* boot starts a thread.                                                   *)
LEMMA BootSpawnRuns ==
  ASSUME NEW e \in Operands, NEW D \in SUBSET Threads, NEW t \in Children("boot") \ D,
         t = "shell" => e = "shell"
  PROVE  Runs(spawn_thread(t), Up(e, D), Up(e, D \union {t}))
<1> DEFINE v == Up(e, D)
<1>1. D \union {t} \in SUBSET Threads
  BY Zenon DEF Children
<1>2. /\ Calm(v) /\ v.ata = Idle /\ v.me = "boot" /\ v.out = D /\ v.elf = e
      /\ OutView(v, D \union {t}) = Up(e, D \union {t})
  BY <1>1, UpFacts, UpChanged
<1> HIDE DEF v
<1>3. Runs(spawn_thread(t), v, OutView(v, v.out \union {t}))
  BY <1>2, SpawnRuns, Zenon
<1> QED BY <1>2, <1>3, Zenon DEF v

(* One demo: started, and waited for.                                      *)
LEMMA DemoRuns ==
  ASSUME NEW e \in Operands, NEW t \in {"open_read", "bad_pointer", "spawn_wait"}
  PROVE  /\ Runs(allocate_frame \o map_shellcode_page \o spawn_thread(t) \o heap, Up(e, {}), Up(e, {t}))
         /\ Runs(wait_for_demo(t), Up(e, {t}), Up(e, {}))
<1> DEFINE v == Up(e, {})
           w == Up(e, {t})
<1>1. t \in Children("boot") \ {} /\ t \in Threads /\ t # "shell" /\ {} \union {t} = {t}
  BY Zenon DEF Children, Threads, Demos
<1>2. Calm(v) /\ Calm(w) /\ Yields(w) /\ w.out = {t} /\ OutView(w, {}) = v
  BY <1>1, UpFacts, UpChanged
<1>3. Runs(spawn_thread(t), v, w)
  BY <1>1, BootSpawnRuns, Zenon
<1> HIDE DEF v, w
<1>4. Runs(heap, v, v) /\ Runs(allocate_frame, v, v) /\ Runs(heap, w, w)
  BY <1>2, RoutinesNeutral, Zenon DEF Neutral
<1>5. Runs(map_shellcode_page, v, v)
  BY <1>4, Compose, Zenon DEF map_shellcode_page
<1>6. Runs(allocate_frame \o map_shellcode_page \o spawn_thread(t) \o heap, v, w)
  BY <1>3, <1>4, <1>5, Compose, Zenon
<1>7. {t} \ {t} = {}
  BY Zenon
<1>8. Runs(wait_while_alive(t), w, v)
  BY <1>1, <1>2, <1>7, WaitRuns, Zenon
<1> QED BY <1>6, <1>8, Zenon DEF wait_for_demo, v, w

(* The part that runs the demos and waits for each.                        *)
LEMMA RunDemosRuns ==
  ASSUME NEW e \in Operands
  PROVE  Runs(RunDemos, Up(e, {}), Up(e, {}))
<1> DEFINE v == Up(e, {})
<1>1. Runs(print, v, v)
  BY UpFacts, RoutinesNeutral, Zenon DEF Neutral
<1>2. Runs(spawn_open_read_demo, v, Up(e, {"open_read"})) /\ Runs(wait_for_demo("open_read"), Up(e, {"open_read"}), v)
  BY DemoRuns, Zenon DEF spawn_open_read_demo
<1>3. Runs(spawn_bad_pointer_demo, v, Up(e, {"bad_pointer"})) /\ Runs(wait_for_demo("bad_pointer"), Up(e, {"bad_pointer"}), v)
  BY DemoRuns, Zenon DEF spawn_bad_pointer_demo
<1>4. Runs(spawn_spawn_wait_demo, v, Up(e, {"spawn_wait"})) /\ Runs(wait_for_demo("spawn_wait"), Up(e, {"spawn_wait"}), v)
  BY DemoRuns, Zenon DEF spawn_spawn_wait_demo
<1> HIDE DEF v
<1>5. Runs(print \o spawn_open_read_demo \o wait_for_demo("open_read"), v, v)
  BY <1>1, <1>2, Compose, Zenon
<1>6. Runs(print \o spawn_open_read_demo \o wait_for_demo("open_read")
             \o spawn_bad_pointer_demo \o wait_for_demo("bad_pointer"), v, v)
  BY <1>3, <1>5, Compose, Zenon
<1>7. Runs(RunDemos, v, v)
  BY <1>4, <1>6, Compose, Zenon DEF RunDemos
<1> QED BY <1>7, Zenon DEF v

(* A loop over threads that have not been started.                         *)
LEMMA CallsRuns ==
  ASSUME NEW e \in Operands, NEW D \in SUBSET Threads, NEW args \in Seq(Loops),
         Range(args) \intersect D = {}, \A i, j \in DOMAIN args : args[i] = args[j] => i = j
  PROVE  Runs(Calls(args), Up(e, D), Up(e, D \union Range(args)))
<1> DEFINE n == Len(args)
           c == Calls(args)
           d == [i \in 1 .. n + 1 |-> D \union {args[j] : j \in 1 .. i - 1}]
           a == [i \in 1 .. n + 1 |-> Up(e, d[i])]
<1>1. n \in Nat /\ DOMAIN args = 1 .. n /\ \A i \in 1 .. n : args[i] \in Loops
  OBVIOUS
<1>2. \A x \in Loops : <<"call", x>> \in Steps
  BY LoopNames, Zenon DEF Steps, Ops, Operands
<1>3. c \in Seq(Steps) /\ Len(c) = n /\ \A i \in 1 .. n : c[i] = <<"call", args[i]>>
  BY <1>1, <1>2 DEF Calls
<1>4. \A i \in 1 .. n + 1 : d[i] \in SUBSET Threads /\ a[i] = Up(e, d[i])
  BY <1>1, LoopNames
<1>5. d[1] = D /\ d[n + 1] = D \union Range(args)
  <2>1. 1 \in 1 .. n + 1 /\ n + 1 \in 1 .. n + 1 /\ 1 .. 1 - 1 = {} /\ 1 .. (n + 1) - 1 = DOMAIN args
    BY <1>1
  <2>2. d[1] = D
    BY <2>1, Zenon
  <2>3. d[n + 1] = D \union {args[j] : j \in DOMAIN args}
    BY <2>1, Zenon
  <2> QED BY <2>2, <2>3, Zenon DEF Range
<1>6. ASSUME NEW i \in 1 .. n
      PROVE  args[i] \notin d[i] /\ d[i + 1] = d[i] \union {args[i]} /\ i + 1 \in 1 .. n + 1 /\ i \in 1 .. n + 1
  <2>1. /\ i + 1 \in 1 .. n + 1 /\ i \in 1 .. n + 1 /\ 1 .. (i + 1) - 1 = (1 .. i - 1) \union {i}
        /\ 1 .. i - 1 \subseteq DOMAIN args /\ i \notin 1 .. i - 1 /\ i \in DOMAIN args
    BY <1>1
  <2>2. d[i] = D \union {args[j] : j \in 1 .. i - 1} /\ d[i + 1] = D \union {args[j] : j \in 1 .. (i + 1) - 1}
    BY <2>1, Zenon
  <2> HIDE DEF d
  <2>3. d[i + 1] = d[i] \union {args[i]}
    BY <2>1, <2>2
  <2>4. args[i] \in Range(args)
    BY <2>1, Zenon DEF Range
  <2>5. args[i] \notin d[i]
    BY <2>1, <2>2, <2>4
  <2> QED BY <2>1, <2>3, <2>5, Zenon
<1> HIDE DEF d, c
<1>7. ASSUME NEW i \in 1 .. n PROVE Step(a[i], c[i], a[i + 1])
  <2> DEFINE u == Up(e, d[i])
             w == Up(e, d[i + 1])
  <2>1. a[i] = u /\ a[i + 1] = w /\ d[i] \in SUBSET Threads /\ d[i + 1] \in SUBSET Threads
    BY <1>4, <1>6, Zenon
  <2>2. Main(u) /\ u.out = d[i] /\ w \in Views /\ OutView(u, d[i + 1]) = w
    BY <2>1, UpFacts, UpChanged
  <2> HIDE DEF u, w, a
  <2>3. c[i] = <<"call", args[i]>> /\ args[i] \in Loops \ u.out /\ w = [u EXCEPT !.out = u.out \union {args[i]}]
    BY <1>1, <1>3, <1>6, <2>2, Zenon DEF OutView
  <2> QED BY <2>1, <2>2, <2>3 DEF Step, Changes
<1>8. a[1] = Up(e, D) /\ a[n + 1] = Up(e, D \union Range(args))
  <2>1. 1 \in 1 .. n + 1 /\ n + 1 \in 1 .. n + 1
    BY <1>1
  <2>2. a[1] = Up(e, d[1]) /\ a[n + 1] = Up(e, d[n + 1])
    BY <1>4, <2>1, Zenon
  <2> QED BY <1>5, <2>2, Zenon
<1> HIDE DEF a
<1>9. Runs(c, Up(e, D), Up(e, D \union Range(args)))
  BY <1>3, <1>7, <1>8, Zenon DEF Runs, Code
<1> QED BY <1>9, Zenon DEF c

(* The two loops, which leave their threads to exit by themselves.         *)
LEMMA ExitLoopsRuns ==
  ASSUME NEW e \in Operands
  PROVE  Runs(ExitLoops, Up(e, {}), Up(e, Loops))
<1> DEFINE v == Up(e, {})
           x == Up(e, Range(ExitThreads))
           w == Up(e, Loops)
<1>1. Loops = Range(ExitThreads) \union Range(IsolatedThreads) /\ Loops \in SUBSET Threads
      /\ {} \union Range(ExitThreads) = Range(ExitThreads) /\ Range(ExitThreads) \in SUBSET Threads
  BY LoopNames, Zenon DEF Loops
<1>2. Runs(Calls(ExitThreads), v, x)
  BY <1>1, LoopNames, CallsRuns, Zenon
<1>3. Runs(Calls(IsolatedThreads), x, w)
  BY <1>1, LoopNames, CallsRuns, Zenon
<1>4. Runs(print, x, x) /\ Runs(print, w, w)
  BY <1>1, UpFacts, RoutinesNeutral, Zenon DEF Neutral
<1> HIDE DEF v, x, w
<1>5. Runs(ExitLoops, v, w)
  BY <1>2, <1>3, <1>4, Compose, Zenon DEF ExitLoops
<1> QED BY <1>5, Zenon DEF v, w

(* A turn of one of the loops.                                             *)
LEMMA TurnRuns ==
  ASSUME NEW e \in Operands, NEW D \in SUBSET Threads, NEW t \in Loops \ D
  PROVE  /\ Runs(spawn_thread(t) \o schedule, Up(e, D), Up(e, D \union {t}))
         /\ Runs(allocate_frame \o spawn_thread(t) \o schedule, Up(e, D), Up(e, D \union {t}))
<1> DEFINE v == Up(e, D)
           w == Up(e, D \union {t})
<1>1. t \in Children("boot") \ D /\ D \union {t} \in SUBSET Threads /\ t # "shell"
  BY LoopNames, Zenon DEF Children, Demos
<1>2. Runs(spawn_thread(t), v, w)
  BY <1>1, BootSpawnRuns, Zenon
<1>3. Calm(v) /\ Yields(w)
  BY <1>1, UpFacts, Zenon
<1> HIDE DEF v, w
<1>4. Runs(allocate_frame, v, v) /\ Runs(schedule, w, w)
  BY <1>3, RoutinesNeutral, ScheduleRuns, Zenon DEF Neutral
<1>5. Runs(spawn_thread(t) \o schedule, v, w) /\ Runs(allocate_frame \o spawn_thread(t) \o schedule, v, w)
  BY <1>2, <1>4, Compose, Zenon
<1> QED BY <1>5, Zenon DEF v, w

(* The part that starts the shell and the executor, which does not return. *)
LEMMA StartShellRuns ==
  ASSUME NEW e \in Operands, NEW D \in SUBSET Threads, D \intersect DiskUsers = {}, NEW z
  PROVE  Runs(StartShell, Up(e, D), z)
<1> DEFINE v == Up(e, D)
           x == Up("shell", D)
           w == Up("shell", D \union {"shell"})
           y == Late(NeedsSetup, "shell", D \union {"shell"})
           setup == <<"setup", "executor">>
           run == <<"run_executor", None>>
<1>1. /\ "shell" \in Operands /\ "shell" \notin D /\ D \union {"shell"} \in SUBSET Threads
      /\ "shell" \in Children("boot") \ D
  BY Zenon DEF Operands, Sectors, DiskUsers, Children, Threads
<1>2. /\ Calm(v) /\ v.ata = Idle /\ v.me = "boot" /\ v.out = D /\ v.held = {}
      /\ Calm(w) /\ w.me = "boot" /\ w.held = {} /\ w.rd = Basics
  BY <1>1, UpFacts
<1>3. Runs(<<<<"store", "shell">>>>, v, x) /\ Runs(spawn_thread("shell"), x, w)
  BY <1>1, StoreRuns, BootSpawnRuns, Zenon
<1>4. y \in Views /\ y.rd = NeedsSetup /\ y.held = {}
  BY <1>1, LateFacts
<1>5. y = [w EXCEPT !.rd = w.rd \union {"executor"}]
  <2>1. w.rd \union {"executor"} = NeedsSetup
    BY <1>2, Zenon DEF Basics, NeedsSetup
  <2>2. y = RdView(w, w.rd \union {"executor"})
    BY <2>1, UpChanged, Zenon
  <2> HIDE DEF w, y
  <2> QED BY <2>2, Zenon DEF RdView
<1> HIDE DEF v, x, w, y
<1>6. Step(w, setup, y) /\ Step(y, run, z) /\ setup \in Steps /\ run \in Steps
  <2>1. "executor" \in NeedsSetup
    BY Zenon DEF NeedsSetup
  <2>2. Step(w, setup, y)
    BY <1>2, <1>4, <1>5, <2>1, Zenon DEF Step, Changes
  <2>3. Step(y, run, z)
    BY <1>4, <2>1, Zenon DEF Step, Ends
  <2>4. setup \in Steps /\ run \in Steps
    BY <2>1, Zenon DEF Steps, Ops, Operands
  <2> QED BY <2>2, <2>3, <2>4, Zenon
<1>7. Runs(<<setup, run>>, w, z)
  <2>1. Runs(<<setup>>, w, y) /\ Runs(<<run>>, y, z)
    BY <1>6, RunsOne, Zenon
  <2> HIDE DEF setup, run
  <2>2. <<setup>> \o <<run>> = <<setup, run>>
    BY PushedTwo, Zenon
  <2>3. Runs(<<setup>> \o <<run>>, w, z)
    BY <2>1, Compose, Zenon
  <2> QED BY <2>2, <2>3, Zenon
<1>8. Runs(read_file("shell"), v, v)
  BY <1>1, <1>2, ReadFileRuns, Zenon DEF CanRead, Alone
<1>9. Runs(heap, w, w) /\ Runs(print, w, w) /\ Runs(print, v, v) /\ Runs(elf_load, v, v)
  BY <1>2, RoutinesNeutral, Zenon DEF Neutral, elf_load
<1>10. Runs(elf_load \o print \o <<<<"store", "shell">>>> \o spawn_thread("shell"), v, w)
  BY <1>3, <1>9, Compose, Zenon
<1>11. Runs(spawn_disk_elf_demo("shell", TRUE), v, w)
  BY <1>10, Zenon DEF spawn_disk_elf_demo, spawn_loaded_elf_demo
<1>12. Runs(read_file("shell") \o spawn_disk_elf_demo("shell", TRUE) \o heap \o print \o heap, v, w)
  BY <1>8, <1>9, <1>11, Compose, Zenon
<1>13. Runs(StartShell, v, z)
  BY <1>7, <1>12, Compose, Zenon DEF StartShell
<1> QED BY <1>13, Zenon DEF v

(* What a call stands for does what the call is said to do.                *)
LEMMA BodyRuns ==
  ASSUME NEW v \in Views, NEW p, NEW w, Step(v, <<"call", p>>, w)
  PROVE  Runs(Body(p), v, w)
<1> DEFINE e == v.elf
           D == v.out
<1>1. /\ Main(v)
      /\ \/ p = "load_demos" /\ v.out = {} /\ w = [v EXCEPT !.elf = "echo"]
         \/ p = "run_demos" /\ v.out = {} /\ w = v
         \/ p = "exit_loops" /\ v.out = {} /\ w = [v EXCEPT !.out = Loops]
         \/ p \in Loops \ v.out /\ w = [v EXCEPT !.out = v.out \union {p}]
         \/ p = "start_shell" /\ v.out \intersect DiskUsers = {}
  BY Zenon DEF Step, Changes, Ends
<1>2. /\ v = Up(e, D) /\ e \in Operands /\ D \in SUBSET Threads
      /\ [v EXCEPT !.elf = "echo"] = Up("echo", D)
      /\ [v EXCEPT !.out = Loops] = Up(e, Loops)
      /\ [v EXCEPT !.out = v.out \union {p}] = Up(e, D \union {p})
  <2>1. v = Up(e, D) /\ e \in Operands /\ D \in SUBSET Threads
    BY <1>1, MainIsUp, Zenon
  <2> HIDE DEF e, D
  <2>2. /\ ElfView(v, "echo") = Up("echo", D) /\ OutView(v, Loops) = Up(e, Loops)
        /\ OutView(v, D \union {p}) = Up(e, D \union {p})
    BY <2>1, UpChanged
  <2> QED BY <2>1, <2>2, Zenon DEF ElfView, OutView, D
<1>3. /\ "echo" \in Operands /\ Loops \in SUBSET Threads
      /\ \A t \in Loops : t \notin {"load_demos", "run_demos", "exit_loops", "start_shell"}
  <2>1. Range(Phases) = {"load_demos", "run_demos", "exit_loops", "start_shell"}
    BY DEF Range, Phases
  <2> QED BY <2>1, LoopNames, Zenon DEF Operands, Sectors
<1> HIDE DEF e, D
<1>4. CASE p = "load_demos" /\ v.out = {} /\ w = [v EXCEPT !.elf = "echo"]
  <2>1. v = Up(e, {}) /\ w = Up("echo", {})
    BY <1>2, <1>3, <1>4, Zenon DEF D
  <2>2. Body(p) = LoadDemos
    BY <1>4, <1>3, Zenon DEF Body, Loops
  <2> QED BY <1>2, <2>1, <2>2, LoadDemosRuns, Zenon
<1>5. CASE p = "run_demos" /\ v.out = {} /\ w = v
  <2>1. v = Up(e, {}) /\ w = Up(e, {})
    BY <1>2, <1>5, Zenon DEF D
  <2>2. Body(p) = RunDemos
    BY <1>5, <1>3, Zenon DEF Body, Loops
  <2> QED BY <1>2, <2>1, <2>2, RunDemosRuns, Zenon
<1>6. CASE p = "exit_loops" /\ v.out = {} /\ w = [v EXCEPT !.out = Loops]
  <2>1. v = Up(e, {}) /\ w = Up(e, Loops)
    BY <1>2, <1>3, <1>6, Zenon DEF D
  <2>2. Body(p) = ExitLoops
    BY <1>6, <1>3, Zenon DEF Body, Loops
  <2> QED BY <1>2, <2>1, <2>2, ExitLoopsRuns
<1>7. CASE p \in Loops \ v.out /\ w = [v EXCEPT !.out = v.out \union {p}]
  <2>1. v = Up(e, D) /\ w = Up(e, D \union {p}) /\ p \in Loops \ D
    <3>1. D \union {p} \in SUBSET Threads
      BY <1>2, <1>3, <1>7, Zenon
    <3> QED BY <1>2, <1>7, <3>1, Zenon DEF D
  <2>2. Body(p) \in {spawn_thread(p) \o schedule, allocate_frame \o spawn_thread(p) \o schedule}
    <3>1. p \notin {"load_demos", "run_demos", "exit_loops", "start_shell"}
      BY <1>3, <1>7, Zenon
    <3>2. CASE p \in Range(ExitThreads)
      <4>1. p \notin Range(IsolatedThreads)
        BY <3>2, LoopNames, Zenon
      <4> QED BY <3>1, <3>2, <4>1, Zenon DEF Body
    <3>3. CASE p \in Range(IsolatedThreads)
      <4>1. p \notin Range(ExitThreads)
        BY <3>3, LoopNames, Zenon
      <4> QED BY <3>1, <3>3, <4>1, Zenon DEF Body
    <3> QED BY <1>7, <3>2, <3>3, Zenon DEF Loops
  <2>3. /\ Runs(spawn_thread(p) \o schedule, v, w)
        /\ Runs(allocate_frame \o spawn_thread(p) \o schedule, v, w)
    BY <1>2, <2>1, TurnRuns
  <2> QED BY <2>2, <2>3, Zenon
<1>8. CASE p = "start_shell" /\ v.out \intersect DiskUsers = {}
  <2>1. Body(p) = StartShell
    BY <1>8, <1>3, Zenon DEF Body, Loops
  <2> QED BY <1>2, <1>8, <2>1, StartShellRuns DEF D
<1> QED BY <1>1, <1>4, <1>5, <1>6, <1>7, <1>8, Zenon

(* kernel_main runs from the kernel's entry point.                         *)
LEMMA KernelMainRuns ==
  ASSUME NEW z PROVE Runs(kernel_main, Early({}), z)
<1> DEFINE v1 == Up(None, {})
           v2 == Up("echo", {})
           v3 == Up("echo", Loops)
           c == Calls(Phases)
           a == <<v1, v2, v2, v3, z>>
<1>1. None \in Operands /\ "echo" \in Operands /\ Loops \in SUBSET Threads /\ Loops \intersect DiskUsers = {}
  BY LoopNames, Zenon DEF Operands, Sectors, DiskUsers, Demos
<1>2. /\ Main(v1) /\ v1.out = {} /\ v2 \in Views /\ Main(v2) /\ v2.out = {} /\ v3 \in Views /\ Main(v3)
      /\ v3.out = Loops
  BY <1>1, UpFacts
<1>3. v2 = ElfView(v1, "echo") /\ v3 = OutView(v2, Loops)
  BY UpChanged
<1> HIDE DEF v1, v2, v3
<1>4. /\ Step(v1, <<"call", "load_demos">>, v2) /\ Step(v2, <<"call", "run_demos">>, v2)
      /\ Step(v2, <<"call", "exit_loops">>, v3)
  BY <1>2, <1>3, Zenon DEF Step, Changes, ElfView, OutView
<1>5. Step(v3, <<"call", "start_shell">>, z)
  BY <1>1, <1>2, Zenon DEF Step, Ends
<1>6. /\ Phases \in Seq(Range(Phases)) /\ Len(Phases) = 4
      /\ Phases[1] = "load_demos" /\ Phases[2] = "run_demos" /\ Phases[3] = "exit_loops" /\ Phases[4] = "start_shell"
  BY DEF Phases, Range
<1>7. \A x \in Range(Phases) : <<"call", x>> \in Steps
  BY Zenon DEF Steps, Ops, Operands
<1>8. /\ c \in Seq(Steps) /\ Len(c) = 4
      /\ \A i \in 1 .. 4 : c[i] = <<"call", Phases[i]>>
  <2>1. DOMAIN Phases = 1 .. 4 /\ \A i \in 1 .. 4 : Phases[i] \in Range(Phases)
    BY <1>6
  <2>2. c = [i \in 1 .. 4 |-> <<"call", Phases[i]>>]
    BY <2>1, Zenon DEF Calls
  <2>3. \A i \in 1 .. 4 : <<"call", Phases[i]>> \in Steps
    BY <1>7, <2>1, Zenon
  <2> HIDE DEF c
  <2> QED BY <2>2, <2>3
<1>9. a[1] = v1 /\ a[2] = v2 /\ a[3] = v2 /\ a[4] = v3 /\ a[5] = z
  BY Zenon
<1> HIDE DEF a, c
<1>10. ASSUME NEW i \in 1 .. 4 PROVE Step(a[i], c[i], a[i + 1])
  <2>1. i = 1 \/ i = 2 \/ i = 3 \/ i = 4
    OBVIOUS
  <2>2. /\ c[1] = <<"call", "load_demos">> /\ c[2] = <<"call", "run_demos">>
        /\ c[3] = <<"call", "exit_loops">> /\ c[4] = <<"call", "start_shell">>
    BY <1>6, <1>8
  <2>3. 1 + 1 = 2 /\ 2 + 1 = 3 /\ 3 + 1 = 4 /\ 4 + 1 = 5
    OBVIOUS
  <2>4. /\ Step(a[1], c[1], a[2]) /\ Step(a[2], c[2], a[3]) /\ Step(a[3], c[3], a[4])
        /\ Step(a[4], c[4], a[5])
    BY <1>4, <1>5, <1>9, <2>2, Zenon
  <2> QED BY <2>1, <2>3, <2>4, Zenon
<1>11. a[Len(c) + 1] = z
  BY <1>8, <1>9
<1>12. Runs(c, v1, z)
  BY <1>8, <1>9, <1>10, <1>11, Zenon DEF Runs, Code
<1> QED BY <1>12, BringUpRuns, Compose, Zenon DEF kernel_main, c, v1

-----------------------------------------------------------------------------
(* The handlers, the executor's task and the panic.                        *)

(* The view of the code that an interrupt i finds.                         *)
Entered(v, i) == [OffView(v) EXCEPT !.isv = {i}]

(* The view of a thread that has just been interrupted.                    *)
LEMMA EnteredFacts ==
  ASSUME NEW v \in Views, v.fl = TRUE, NEW i \in Interrupts
  PROVE  LET y == Entered(v, i) IN
         /\ y \in Views /\ Calm(y) /\ y.fl = FALSE /\ y.held = v.held /\ y.isv = {i} /\ y.rd = v.rd
         /\ Basics \subseteq v.rd /\ v.held \intersect MaskedLocks = {}
         /\ Runs(end_of_interrupt(i), y, OffView(v)) /\ Yields(OffView(v))
<1> DEFINE x == OffView(v)
           y == Entered(v, i)
<1>1. Open(v)
  BY Zenon DEF Views
<1>2. x \in Views /\ Same(v, x) /\ x.fl = FALSE /\ x.held = v.held /\ Masking(x) = Masking(v)
  BY OffFacts, Zenon
<1>3. x.isv = {} /\ x.held \intersect Masking(x) = {} /\ Basics \subseteq x.rd /\ Yields(x)
  BY <1>1, <1>2, Zenon DEF Open, Same, Yields, Calm, Alone
<1>4. y = [x EXCEPT !.isv = {i}] /\ x \in ViewTypes
  BY <1>2, Zenon DEF Entered, Views
<1> HIDE DEF x, y
<1>5. /\ y \in ViewTypes /\ y.me = x.me /\ y.fl = FALSE /\ y.held = x.held /\ y.isv = {i}
      /\ y.rd = x.rd /\ x = [y EXCEPT !.isv = y.isv \ {i}]
  <2>1. {i} \ {i} = {}
    BY Zenon
  <2> QED BY <1>2, <1>3, <1>4, <2>1, Zenon DEF ViewTypes
<1>6. y \in Views /\ Masking(y) = Masking(x)
  BY <1>5, SameMasking, Zenon DEF Views
<1>7. Calm(y)
  BY <1>3, <1>5, <1>6, Zenon DEF Calm
<1>8. MaskedLocks \subseteq Masking(v) /\ MaskedLocks \subseteq Locks
  BY Zenon DEF Masking, MaskedLocks, Locks
<1>9. "pics" \in Locks \ y.held /\ "pics" \notin NeedsSetup
  BY <1>2, <1>3, <1>5, <1>8, Zenon DEF MaskedLocks, NeedsSetup
<1>10. Runs(<<<<"eoi", i>>>>, Locking(y, "pics"), Locking(x, "pics"))
  <2>1. /\ Locking(y, "pics") \in Views /\ Locking(x, "pics") \in Views
        /\ Same(y, Locking(y, "pics"))
    BY <1>2, <1>5, <1>6, <1>9, LockFacts, Zenon
  <2>2. Locking(x, "pics") = [Locking(y, "pics") EXCEPT !.isv = Locking(y, "pics").isv \ {i}]
    BY <1>5, Zenon DEF Locking, ViewTypes
  <2>3. Step(Locking(y, "pics"), <<"eoi", i>>, Locking(x, "pics")) /\ <<"eoi", i>> \in Steps
    BY <2>1, <2>2, Zenon DEF Step, Changes, Steps, Ops, Operands
  <2> QED BY <2>3, RunsOne, Zenon
<1>11. <<<<"eoi", i>>>> \in Code
  BY DEF Code, Steps, Ops, Operands
<1>12. Runs(end_of_interrupt(i), y, x)
  BY <1>2, <1>5, <1>6, <1>9, <1>10, <1>11, LockedRuns, Zenon DEF end_of_interrupt
<1> QED BY <1>1, <1>2, <1>3, <1>5, <1>6, <1>7, <1>8, <1>12, Zenon DEF Open, Same, x, y

(* The return from an interrupt.                                           *)
LEMMA RestoreRuns ==
  ASSUME NEW v \in Views PROVE Runs(<<Restore>>, OffView(v), v)
<1>1. Step(OffView(v), Restore, v) /\ Restore \in Steps
  BY OffFacts, Zenon DEF Step, Changes, Restore, Steps, Ops, Operands
<1> QED BY <1>1, RunsOne, Zenon

(* The timer's handler leaves the view as it was.                          *)
LEMMA TimerRuns ==
  ASSUME NEW v \in Views, v.fl = TRUE
  PROVE  Runs(timer_interrupt_handler, Entered(v, "timer"), v)
<1>1. Runs(end_of_interrupt("timer"), Entered(v, "timer"), OffView(v)) /\ Yields(OffView(v))
  BY EnteredFacts, Zenon DEF Interrupts
<1>2. Runs(schedule, OffView(v), OffView(v)) /\ Runs(<<Restore>>, OffView(v), v)
  BY <1>1, ScheduleRuns, RestoreRuns, Zenon
<1> QED BY <1>1, <1>2, Compose, Zenon DEF timer_interrupt_handler

(* So does the keyboard's.                                                 *)
LEMMA KeyboardRuns ==
  ASSUME NEW v \in Views, v.fl = TRUE
  PROVE  Runs(keyboard_interrupt_handler, Entered(v, "keyboard"), v)
<1> DEFINE y == Entered(v, "keyboard")
           add == <<"add_scancode", None>>
<1>1. /\ Runs(end_of_interrupt("keyboard"), y, OffView(v))
      /\ y \in Views /\ Calm(y) /\ y.held = v.held /\ y.rd = v.rd
      /\ Basics \subseteq v.rd /\ v.held \intersect MaskedLocks = {}
  BY EnteredFacts, Zenon DEF Interrupts
<1> HIDE DEF y
<1>2. Runs(<<Restore>>, OffView(v), v) /\ Runs(kernel_page_table, y, y)
  BY <1>1, RestoreRuns, RoutinesNeutral, Zenon DEF Neutral
<1>3. Step(y, add, y) /\ add \in Steps
  <2>1. "scancodes" \in y.rd /\ "writer" \notin y.held
    BY <1>1, Zenon DEF Basics, NeedsSetup, MaskedLocks
  <2> QED BY <1>1, <2>1, Zenon DEF Step, Changes, Steps, Ops, Operands
<1>4. Runs(<<add>>, y, y)
  BY <1>3, RunsOne, Zenon
<1> HIDE DEF add
<1>5. Runs(kernel_page_table \o <<add>> \o end_of_interrupt("keyboard") \o <<Restore>>, y, v)
  BY <1>1, <1>2, <1>4, Compose, Zenon
<1> QED BY <1>5, Zenon DEF keyboard_interrupt_handler, y, add

(* And so does a poll of the keyboard's task.                              *)
LEMMA PollTaskRuns ==
  ASSUME NEW v \in Views, v.held \intersect {"writer", "input"} = {}
  PROVE  Runs(poll_task, v, v)
<1> DEFINE x == OffView(v)
           push == <<"push_input", None>>
<1>1. /\ "writer" \in Locks \ v.held /\ "input" \in Locks \ v.held
      /\ "writer" \notin NeedsSetup /\ "input" \notin NeedsSetup
  BY Zenon DEF Locks, NeedsSetup
<1>2. Runs(print, v, v)
  BY <1>1, MaskedBriefRuns, Zenon DEF print
<1>3. x \in Views /\ x.fl = FALSE /\ x.held = v.held
  BY OffFacts, Zenon
<1> HIDE DEF x
<1>4. Locking(x, "input") \in Views
  BY <1>1, <1>3, LockFacts, Zenon
<1>5. Step(Locking(x, "input"), push, Locking(x, "input")) /\ push \in Steps /\ <<push>> \in Code
  BY <1>4 DEF Step, Changes, Steps, Ops, Operands, Code
<1>6. Runs(<<push>>, Locking(x, "input"), Locking(x, "input"))
  BY <1>5, RunsOne, Zenon
<1>7. Runs(Locked("input", <<push>>), x, x)
  <2> HIDE DEF push
  <2> QED BY <1>1, <1>3, <1>5, <1>6, LockedRuns, Zenon
<1>8. Runs(without_interrupts(Locked("input", <<push>>)), v, v)
  <2> HIDE DEF push
  <2> QED BY <1>7, WithoutInterrupts, Zenon DEF x
<1> QED BY <1>2, <1>8, Compose, Zenon DEF poll_task

(* A panic prints and does not return.                                     *)
LEMMA PanicRuns ==
  ASSUME NEW v \in Views, v.held \intersect {"writer", "serial"} = {}, NEW w
  PROVE  Runs(panic, v, w)
<1>1. /\ "writer" \in Locks \ v.held /\ "serial" \in Locks \ v.held
      /\ "writer" \notin NeedsSetup /\ "serial" \notin NeedsSetup
  BY Zenon DEF Locks, NeedsSetup
<1>2. Runs(print, v, v) /\ Runs(serial_print, v, v)
  BY <1>1, MaskedBriefRuns, Zenon DEF print, serial_print
<1>3. Step(v, <<"halt", None>>, w) /\ <<"halt", None>> \in Steps
  BY Zenon DEF Step, Ends, Steps, Ops, Operands
<1>4. Runs(<<<<"halt", None>>>>, v, w)
  BY <1>3, RunsOne, Zenon
<1> QED BY <1>2, <1>4, Compose, Zenon DEF panic

-----------------------------------------------------------------------------
(* The invariant.                                                          *)

Running == {current} \union Range(queue)

(* What the state says of thread t agrees with the view u.                 *)
Fits(t, u) ==
  /\ u \in Views /\ u.me = t /\ u.sv = saved[t]
  /\ \A l \in Locks : l \in u.held <=> owner[l] = t
  /\ IF t = current THEN u.fl = ifl /\ u.isv = inService ELSE u.fl = FALSE /\ Open(u)
  /\ IF t = "boot" THEN u.rd = ready /\ u.elf = elfEntry ELSE u.rd = Basics /\ u.elf = None
  /\ alive \intersect Children(t) \subseteq u.out
  /\ u.ata[1] = "selected" => taskfile = u.ata[2]
  /\ u.ata[1] = "started" => drive = u.ata[2]

(* No code comes to its end: it would have to be at a view that is none.   *)
Never == CHOOSE w : w \notin Views

Coded(t) == \E u : Fits(t, u) /\ Runs(todo[t], u, Never)

(* A thread that has not been started, or has exited.                      *)
Gone(t) ==
  /\ todo[t] = <<>> /\ saved[t] = <<>>
  /\ \A l \in Locks : owner[l] # t
  /\ alive \intersect Children(t) = {}

Sound ==
  /\ current \in Threads /\ queue \in Seq(Threads) /\ alive \subseteq Threads
  /\ current \notin Range(queue)
  /\ \A i, j \in 1 .. Len(queue) : queue[i] = queue[j] => i = j
  /\ "boot" \in Running /\ Running \subseteq alive
  /\ zombie # None => zombie \in alive \ Running
  /\ todo \in [Threads -> Code] /\ saved \in [Threads -> Seq(BOOLEAN)]
  /\ owner \in [Locks -> Threads \union {None}]
  /\ ifl \in BOOLEAN /\ input \in BOOLEAN /\ keys \in 0 .. MaxKeys
  /\ inService \subseteq Interrupts /\ ready \subseteq NeedsSetup
  /\ alive # {"boot"} => Basics \subseteq ready
  /\ "shell" \in alive => elfEntry = "shell"

Inv ==
  /\ Sound
  /\ \A t \in Running : Coded(t)
  /\ \A t \in Threads \ Running : Gone(t)

(* The step the running thread is at, its view v and the one after it.     *)
Takes(v, u) ==
  /\ Fits(current, v)
  /\ todo[current] # <<>> /\ todo[current] \in Code
  /\ Op \in Ops /\ Arg \in Operands
  /\ Step(v, <<Op, Arg>>, u) /\ Runs(Tail(todo[current]), u, Never)
  /\ (Changes(v, Op, Arg, u) /\ u \in Views) \/ Ends(v, Op, Arg)

(* The view in which code would end is none.                               *)
LEMMA NeverIsNoView == Never \notin Views
BY NoSetContainsEverything, Zenon DEF Never

(* None is the name of no thread.                                          *)
LEMMA NoneIsNoThread == None \notin Threads
BY LoopNames, Zenon DEF Threads, Demos, None, Loops

(* A thread in the rotation always has a step to take.                     *)
LEMMA CodeNeverEnds ==
  ASSUME NEW c, NEW v \in Views, Runs(c, v, Never)
  PROVE  /\ c # <<>> /\ c \in Code /\ Head(c) \in Steps
         /\ \E u : Step(v, Head(c), u) /\ Runs(Tail(c), u, Never)
<1>1. c # <<>>
  <2> SUFFICES ASSUME c = <<>> PROVE FALSE
    BY Zenon
  <2>1. PICK a : a[1] = v /\ a[Len(c) + 1] = Never
    BY Zenon DEF Runs
  <2>2. Len(c) + 1 = 1
    OBVIOUS
  <2>3. v = Never
    BY <2>1, <2>2, Zenon
  <2> QED BY <2>3, NeverIsNoView, Zenon
<1>2. c \in Code
  BY Zenon DEF Runs
<1> QED BY <1>1, <1>2, Advance, Zenon

(* So has the running thread.                                              *)
LEMMA SomethingTaken ==
  ASSUME Inv
  PROVE  \E v, u : Takes(v, u)
<1>1. Coded(current)
  BY Zenon DEF Inv, Running
<1>2. PICK v : Fits(current, v) /\ Runs(todo[current], v, Never)
  BY <1>1, Zenon DEF Coded
<1>3. v \in Views
  BY <1>2, Zenon DEF Fits
<1>4. /\ todo[current] # <<>> /\ todo[current] \in Code /\ Head(todo[current]) \in Steps
      /\ \E u : Step(v, Head(todo[current]), u) /\ Runs(Tail(todo[current]), u, Never)
  BY <1>2, <1>3, CodeNeverEnds, Zenon
<1>5. PICK u : Step(v, Head(todo[current]), u) /\ Runs(Tail(todo[current]), u, Never)
  BY <1>4, Zenon
<1>6. Op \in Ops /\ Arg \in Operands /\ Head(todo[current]) = <<Op, Arg>>
  BY <1>4 DEF Op, Arg, Steps
<1>7. Step(v, <<Op, Arg>>, u)
  BY <1>5, <1>6, Zenon
<1>8. (Changes(v, Op, Arg, u) /\ u \in Views) \/ Ends(v, Op, Arg)
  BY <1>3, <1>7, Zenon DEF Step
<1> QED BY <1>2, <1>4, <1>5, <1>6, <1>7, <1>8, Zenon DEF Takes

(* A thread that does not run, and to which nothing happens, keeps its     *)
(* view.  The disk may be in use by one that reads it with interrupts off. *)
LEMMA OtherKept ==
  ASSUME Inv, NEW t \in Running \ {current}, t # current',
         todo'[t] = todo[t], saved'[t] = saved[t],
         \A l \in Locks : owner'[l] = t <=> owner[l] = t,
         t = "boot" => UNCHANGED <<ready, elfEntry>>,
         alive' \intersect Children(t) \subseteq alive,
         UNCHANGED <<taskfile, drive>> \/ current \in DiskUsers \union {"boot"}
  PROVE  Coded(t)'
<1>1. Coded(t) /\ current \in alive /\ current \in Threads
  BY Zenon DEF Inv, Sound, Running
<1>2. PICK v : Fits(t, v) /\ Runs(todo[t], v, Never)
  BY <1>1, Zenon DEF Coded
<1>3. v \in Views /\ v.me = t /\ v.fl = FALSE /\ Open(v) /\ alive \intersect Children(t) \subseteq v.out
  BY <1>2, Zenon DEF Fits
<1>4. UNCHANGED <<taskfile, drive>> \/ v.ata = Idle
  <2> SUFFICES ASSUME current \in DiskUsers \union {"boot"}, v.ata # Idle PROVE FALSE
    BY Zenon
  <2>1. t = "boot" /\ v.out \intersect DiskUsers = {}
    BY <1>3, Zenon DEF Open, Alone
  <2>2. current \in DiskUsers /\ current \in Children("boot")
    BY <1>1, <2>1, Zenon DEF Children, DiskUsers
  <2> QED BY <1>1, <1>3, <2>1, <2>2, Zenon
<1>5. /\ v.ata[1] = "selected" => taskfile' = v.ata[2]
      /\ v.ata[1] = "started" => drive' = v.ata[2]
  BY <1>2, <1>4 DEF Fits, Idle
<1>6. /\ v.sv = saved'[t] /\ \A l \in Locks : l \in v.held <=> owner'[l] = t
      /\ alive' \intersect Children(t) \subseteq v.out
      /\ IF t = "boot" THEN v.rd = ready' /\ v.elf = elfEntry' ELSE v.rd = Basics /\ v.elf = None
  BY <1>2, <1>3, Zenon DEF Fits
<1>7. Fits(t, v)'
  BY <1>3, <1>5, <1>6, Zenon DEF Fits
<1> QED BY <1>2, <1>7, Zenon DEF Coded

(* A step after which the same thread runs, with u as its view.            *)
LEMMA PlainStep ==
  ASSUME Inv, NEW u, NEW c, Fits(current, u)', Runs(c, u, Never),
         todo' = [todo EXCEPT ![current] = c], saved' = [saved EXCEPT ![current] = u.sv],
         UNCHANGED <<current, queue>>,
         UNCHANGED <<zombie, alive>> \/ (zombie' = None /\ alive' = alive \ {zombie}),
         owner' \in [Locks -> Threads \union {None}],
         \A l \in Locks : owner'[l] = owner[l] \/ {owner[l], owner'[l]} \subseteq {current, None},
         current # "boot" => UNCHANGED <<ready, elfEntry>>,
         ready \subseteq ready', "shell" \in alive => UNCHANGED elfEntry,
         UNCHANGED <<taskfile, drive>> \/ current \in DiskUsers \union {"boot"},
         keys' \in 0 .. MaxKeys, input' \in BOOLEAN
  PROVE  Inv'
<1>1. /\ current \in Threads /\ todo \in [Threads -> Code] /\ saved \in [Threads -> Seq(BOOLEAN)]
      /\ Running' = Running /\ Running \subseteq alive /\ alive' \subseteq alive /\ Running \subseteq Threads
      /\ current \in Running
  BY Zenon DEF Inv, Sound, Running
<1>2. u \in ViewTypes /\ u.me = current /\ u.fl = ifl' /\ u.isv = inService'
      /\ (current = "boot" => u.rd = ready')
  BY Zenon DEF Fits, Views
<1>3. Sound'
  <2>1. c \in Code /\ todo' \in [Threads -> Code]
    BY <1>1, Zenon DEF Runs
  <2>2. saved' \in [Threads -> Seq(BOOLEAN)] /\ ifl' \in BOOLEAN /\ inService' \subseteq Interrupts
    BY <1>1, <1>2, Zenon DEF ViewTypes
  <2>3. ready' \subseteq NeedsSetup
    BY <1>1, <1>2, Zenon DEF ViewTypes, Inv, Sound
  <2>4. Running \subseteq alive' /\ (zombie' # None => zombie' \in alive' \ Running)
    <3>1. zombie # None => zombie \in alive \ Running
      BY Zenon DEF Inv, Sound
    <3>2. CASE UNCHANGED <<zombie, alive>>
      BY <1>1, <3>1, <3>2, Zenon
    <3>3. CASE zombie' = None /\ alive' = alive \ {zombie}
      <4>1. zombie \notin Running
        <5>1. Running \subseteq Threads /\ None \notin Threads
          BY <1>1, NoneIsNoThread, Zenon
        <5> QED BY <3>1, <5>1, Zenon
      <4> QED BY <1>1, <3>3, <4>1, Zenon
    <3> QED BY <3>2, <3>3, Zenon
  <2>5. alive' # {"boot"} => alive # {"boot"}
    <3>1. "boot" \in alive'
      BY <2>4, Zenon DEF Inv, Sound
    <3> QED BY <1>1, <3>1, Zenon
  <2>6. "shell" \in alive' => elfEntry' = "shell"
    BY <1>1, Zenon DEF Inv, Sound
  <2> QED BY <1>1, <2>1, <2>2, <2>3, <2>4, <2>5, <2>6, Zenon DEF Inv, Sound
<1>4. ASSUME NEW t \in Running PROVE Coded(t)'
  <2>1. CASE t = current
    <3>1. todo'[current] = c
      BY <1>1, Zenon
    <3> QED BY <2>1, <3>1, Zenon DEF Coded
  <2>2. CASE t # current
    <3>1. /\ todo'[t] = todo[t] /\ saved'[t] = saved[t] /\ t # None
          /\ \A l \in Locks : owner'[l] = t <=> owner[l] = t
      BY <1>1, <2>2, NoneIsNoThread
    <3> QED BY <1>1, <2>2, <3>1, OtherKept, Zenon
  <2> QED BY <2>1, <2>2, Zenon
<1>5. ASSUME NEW t \in Threads \ Running PROVE Gone(t)'
  <2>1. Gone(t) /\ t # current /\ t # None
    BY <1>1, NoneIsNoThread, Zenon DEF Inv
  <2>2. todo'[t] = todo[t] /\ saved'[t] = saved[t] /\ \A l \in Locks : owner'[l] = t <=> owner[l] = t
    BY <1>1, <2>1, Zenon
  <2> QED BY <1>1, <2>1, <2>2, Zenon DEF Gone
<1> QED BY <1>1, <1>3, <1>4, <1>5, Zenon DEF Inv

(* A step that leaves all but the running thread's view, its code and the  *)
(* queues of keys alone.                                                   *)
LEMMA LocalStep ==
  ASSUME Inv, NEW u, NEW c, Fits(current, u)', Runs(c, u, Never),
         todo' = [todo EXCEPT ![current] = c], saved' = [saved EXCEPT ![current] = u.sv],
         UNCHANGED <<schedVars, owner, ready, devVars>>,
         keys' \in 0 .. MaxKeys, input' \in BOOLEAN
  PROVE  Inv'
<1>1. owner' \in [Locks -> Threads \union {None}]
  BY Zenon DEF Inv, Sound
<1> QED BY <1>1, PlainStep, Zenon DEF schedVars, devVars

(* ... and its view as well.                                               *)
LEMMA SameViewStep ==
  ASSUME Inv, NEW v, NEW c, Fits(current, v), Runs(c, v, Never),
         todo' = [todo EXCEPT ![current] = c],
         UNCHANGED <<saved, schedVars, owner, ifl, inService, ready, devVars>>,
         keys' \in 0 .. MaxKeys, input' \in BOOLEAN
  PROVE  Inv'
<1>1. Fits(current, v)'
  BY Zenon DEF Fits, schedVars, devVars
<1>2. saved' = [saved EXCEPT ![current] = v.sv]
  BY Zenon DEF Fits, Inv, Sound
<1> QED BY <1>1, <1>2, LocalStep, Zenon

-----------------------------------------------------------------------------
(* Every step keeps the invariant.                                         *)

(* What the invariant says of the running thread.                          *)
LEMMA TakesFacts ==
  ASSUME Inv, NEW v, NEW u, Takes(v, u)
  PROVE  /\ Fits(current, v) /\ v \in Views /\ v \in ViewTypes /\ v.me = current /\ current \in Threads
         /\ v.sv = saved[current] /\ v.fl = ifl /\ v.isv = inService
         /\ \A l \in Locks : l \in v.held <=> owner[l] = current
         /\ alive \intersect Children(current) \subseteq v.out
         /\ todo[current] # <<>> /\ todo[current] \in Seq(Steps)
         /\ Step(v, <<Op, Arg>>, u) /\ Runs(Tail(todo[current]), u, Never)
         /\ (v.fl = TRUE => Open(v))
         /\ saved = [saved EXCEPT ![current] = v.sv]
<1>1. /\ Fits(current, v) /\ v \in Views /\ v.me = current /\ current \in Threads
      /\ v.sv = saved[current] /\ v.fl = ifl /\ v.isv = inService
      /\ \A l \in Locks : l \in v.held <=> owner[l] = current
      /\ alive \intersect Children(current) \subseteq v.out
      /\ todo[current] # <<>> /\ todo[current] \in Seq(Steps)
      /\ Step(v, <<Op, Arg>>, u) /\ Runs(Tail(todo[current]), u, Never)
  BY Zenon DEF Takes, Fits, Inv, Sound, Code
<1>2. v \in ViewTypes /\ (v.fl = TRUE => Open(v))
  BY <1>1, Zenon DEF Views
<1>3. saved = [saved EXCEPT ![current] = v.sv]
  BY <1>1, Zenon DEF Inv, Sound
<1> QED BY <1>1, <1>2, <1>3, Zenon

(* Everybody takes the masked locks with interrupts off.                   *)
LEMMA MaskedLocksMask ==
  ASSUME NEW v PROVE MaskedLocks \subseteq Masking(v) /\ Masking(v) \subseteq Locks /\ MaskedLocks \subseteq Locks
BY Zenon DEF Masking, MaskedLocks, Locks

(* Taking a free lock keeps the invariant.                                 *)
LEMMA AcquireKept ==
  ASSUME Inv, NEW v, NEW u, Takes(v, u), Acquire PROVE Inv'
<1> DEFINE c == todo[current]
<1>1. /\ Fits(current, v) /\ v \in Views /\ v.me = current /\ current \in Threads /\ v.fl = ifl
      /\ \A l \in Locks : l \in v.held <=> owner[l] = current
      /\ c # <<>> /\ c \in Seq(Steps) /\ Runs(Tail(c), u, Never)
  BY TakesFacts, Zenon
<1>2. Op = "lock" /\ owner[Arg] = None /\ current # None
  BY <1>1, NoneIsNoThread, Zenon DEF Acquire
<1>3. Arg \in Locks
  BY <1>1, <1>2, Zenon DEF Takes, Changes, Ends, Views, ViewTypes
<1>4. Arg \notin v.held
  BY <1>1, <1>2, <1>3, Zenon
<1>5. u = Locking(v, Arg) /\ u \in Views /\ (Arg \in Masking(v) => v.fl = FALSE)
  BY <1>2, <1>4, Zenon DEF Takes, Changes, Ends
<1>6. /\ Same(v, u) /\ u.fl = v.fl /\ u.sv = v.sv /\ u.held = v.held \union {Arg} /\ Unlocking(u, Arg) = v
  BY <1>1, <1>3, <1>4, <1>5, LockFacts, Zenon
<1>7. keys' \in 0 .. MaxKeys /\ input' \in BOOLEAN
  BY Zenon DEF Acquire, keyVars, Inv, Sound
<1>8. CASE Brief
  <2>1. Tail(c) # <<>> /\ \E x : Step(u, Head(Tail(c)), x) /\ Runs(Tail(Tail(c)), x, Never)
    BY <1>1, <1>5, CodeNeverEnds, Zenon
  <2>2. PICK x : Step(u, Head(Tail(c)), x) /\ Runs(Tail(Tail(c)), x, Never)
    BY <2>1, Zenon
  <2>3. Head(Tail(c)) = c[2]
    BY <1>1, <2>1
  <2>4. Step(u, Unlock(Arg), x)
    BY <1>8, <2>2, <2>3, Zenon DEF Brief
  <2>5. x = v
    BY <1>5, <1>6, <2>4, Zenon DEF Step, Changes, Ends, Unlock
  <2>6. /\ todo' = [todo EXCEPT ![current] = Tail(Tail(c))]
        /\ UNCHANGED <<saved, schedVars, owner, ifl, inService, ready, devVars>>
    BY <1>8, Zenon DEF Acquire
  <2> QED BY <1>1, <1>7, <2>2, <2>5, <2>6, SameViewStep, Zenon
<1>9. CASE ~Brief
  <2>1. /\ todo' = [todo EXCEPT ![current] = Tail(c)] /\ owner' = [owner EXCEPT ![Arg] = current]
        /\ UNCHANGED <<saved, schedVars, ifl, inService, ready, devVars>>
    BY <1>9, Zenon DEF Acquire
  <2>2. \A l \in Locks : owner'[l] = IF l = Arg THEN current ELSE owner[l]
    BY <2>1, Zenon DEF Inv, Sound
  <2>3. Fits(current, u)'
    BY <1>1, <1>5, <1>6, <2>1, <2>2 DEF Fits, Same, schedVars, devVars
  <2>4. owner' \in [Locks -> Threads \union {None}] /\ saved' = [saved EXCEPT ![current] = u.sv]
    <3>1. saved = [saved EXCEPT ![current] = v.sv]
      BY TakesFacts, Zenon
    <3>2. owner' \in [Locks -> Threads \union {None}]
      BY <1>1, <2>1, Zenon DEF Inv, Sound
    <3> QED BY <1>6, <2>1, <3>1, <3>2, Zenon
  <2>5. \A l \in Locks : owner'[l] = owner[l] \/ {owner[l], owner'[l]} \subseteq {current, None}
    BY <1>2, <2>2, Zenon
  <2> QED BY <1>1, <1>7, <2>1, <2>3, <2>4, <2>5, PlainStep, Zenon DEF schedVars, devVars
<1> QED BY <1>8, <1>9, Zenon

(* Dropping a lock keeps the invariant.                                    *)
LEMMA ReleaseKept ==
  ASSUME Inv, NEW v, NEW u, Takes(v, u), Release PROVE Inv'
<1> DEFINE c == todo[current]
<1>1. /\ Fits(current, v) /\ v \in ViewTypes /\ v.me = current /\ current \in Threads
      /\ \A l \in Locks : l \in v.held <=> owner[l] = current
      /\ c \in Seq(Steps) /\ c # <<>> /\ Runs(Tail(c), u, Never)
  BY TakesFacts, Zenon
<1>2. Arg \in v.held /\ u = Unlocking(v, Arg) /\ u \in Views
  BY Zenon DEF Takes, Changes, Ends, Release
<1>3. Arg \in Locks /\ owner[Arg] = current
  BY <1>1, <1>2, Zenon DEF ViewTypes
<1>4. Same(v, u) /\ u.fl = v.fl /\ u.sv = v.sv /\ u.held = v.held \ {Arg}
  BY <1>1, <1>2, Zenon DEF Unlocking, ViewTypes, Same
<1>5. /\ todo' = [todo EXCEPT ![current] = Tail(c)] /\ owner' = [owner EXCEPT ![Arg] = None]
      /\ UNCHANGED <<saved, schedVars, ifl, inService, ready, devVars, keyVars>>
  <2>1. <<>> \o Tail(c) = Tail(c)
    BY <1>1
  <2> QED BY <2>1, Zenon DEF Release, Then
<1>6. \A l \in Locks : owner'[l] = IF l = Arg THEN None ELSE owner[l]
  BY <1>5, Zenon DEF Inv, Sound
<1>7. current # None
  BY <1>1, NoneIsNoThread, Zenon
<1>8. Fits(current, u)'
  BY <1>1, <1>2, <1>4, <1>5, <1>6, <1>7 DEF Fits, Same, schedVars, devVars
<1>9. owner' \in [Locks -> Threads \union {None}] /\ saved' = [saved EXCEPT ![current] = u.sv]
      /\ keys' \in 0 .. MaxKeys /\ input' \in BOOLEAN
  BY <1>1, <1>4, <1>5, TakesFacts, Zenon DEF Inv, Sound, keyVars
<1>10. \A l \in Locks : owner'[l] = owner[l] \/ {owner[l], owner'[l]} \subseteq {current, None}
  BY <1>3, <1>6, Zenon
<1> QED BY <1>1, <1>5, <1>8, <1>9, <1>10, PlainStep, Zenon DEF schedVars, devVars

(* Where code of the step's own comes before the rest.                     *)
LEMMA ThenFacts ==
  ASSUME Inv, NEW v, NEW u, Takes(v, u)
  PROVE  /\ Then(<<>>) => todo' = [todo EXCEPT ![current] = Tail(todo[current])]
         /\ \A x : Then(x) => todo' = [todo EXCEPT ![current] = x \o Tail(todo[current])]
         /\ UNCHANGED keyVars => keys' \in 0 .. MaxKeys /\ input' \in BOOLEAN
<1>1. todo[current] \in Seq(Steps) /\ todo[current] # <<>>
  BY TakesFacts, Zenon
<1>2. <<>> \o Tail(todo[current]) = Tail(todo[current])
  BY <1>1
<1> QED BY <1>2, Zenon DEF Then, keyVars, Inv, Sound

(* Changing the interrupt flag keeps the invariant.                        *)
LEMMA SetFlagKept ==
  ASSUME Inv, NEW v, NEW u, Takes(v, u), SetFlag PROVE Inv'
<1>1. /\ Fits(current, v) /\ v \in Views /\ v \in ViewTypes /\ v.me = current /\ current \in Threads
      /\ v.fl = ifl /\ v.sv = saved[current] /\ Runs(Tail(todo[current]), u, Never)
  BY TakesFacts, Zenon
<1>2. /\ todo' = [todo EXCEPT ![current] = Tail(todo[current])]
      /\ UNCHANGED <<schedVars, owner, inService, ready, devVars>>
      /\ keys' \in 0 .. MaxKeys /\ input' \in BOOLEAN
  BY ThenFacts, Zenon DEF SetFlag
<1>3. Op \in {"off", "restore", "sti", "cli"}
  BY Zenon DEF SetFlag
<1>4. u \in Views /\ Changes(v, Op, Arg, u)
  BY <1>3, Zenon DEF Takes, Ends
<1>5. Same(v, u) /\ u.held = v.held /\ u.fl = ifl' /\ saved' = [saved EXCEPT ![current] = u.sv]
  <2>1. CASE Op = "off"
    <3>1. u = OffView(v)
      BY <1>4, <2>1, Zenon DEF Changes
    <3>2. Same(v, u) /\ u.held = v.held /\ u.fl = FALSE
      BY <1>1, <3>1, OffFacts, Zenon
    <3>3. u.sv = <<ifl>> \o saved[current]
      BY <1>1, <3>1, Zenon DEF OffView, ViewTypes
    <3>4. saved' = [saved EXCEPT ![current] = <<ifl>> \o @] /\ ifl' = FALSE
      BY <2>1, Zenon DEF SetFlag
    <3> QED BY <3>2, <3>3, <3>4, Zenon
  <2>2. CASE Op = "restore"
    <3>1. u = Restoring(v)
      BY <1>4, <2>2, Zenon DEF Changes
    <3>2. Same(v, u) /\ u.held = v.held /\ u.fl = Head(v.sv) /\ u.sv = Tail(v.sv)
      BY <1>1, <3>1, Zenon DEF Restoring, ViewTypes, Same
    <3>3. saved' = [saved EXCEPT ![current] = Tail(@)] /\ ifl' = Head(saved[current])
      BY <2>2, Zenon DEF SetFlag
    <3> QED BY <1>1, <3>2, <3>3, Zenon
  <2>3. CASE Op = "sti"
    <3>1. u = [v EXCEPT !.fl = TRUE]
      BY <1>4, <2>3, Zenon DEF Changes
    <3>2. Same(v, u) /\ u.held = v.held /\ u.fl = TRUE /\ u.sv = v.sv
      BY <1>1, <3>1, Zenon DEF ViewTypes, Same
    <3>3. saved' = saved /\ ifl' = TRUE
      BY <2>3, Zenon DEF SetFlag
    <3> QED BY <3>2, <3>3, TakesFacts, Zenon
  <2>4. CASE Op = "cli"
    <3>1. u = [v EXCEPT !.fl = FALSE]
      BY <1>4, <2>4, Zenon DEF Changes
    <3>2. Same(v, u) /\ u.held = v.held /\ u.fl = FALSE /\ u.sv = v.sv
      BY <1>1, <3>1, Zenon DEF ViewTypes, Same
    <3>3. saved' = saved /\ ifl' = FALSE
      BY <2>4, Zenon DEF SetFlag
    <3> QED BY <3>2, <3>3, TakesFacts, Zenon
  <2> QED BY <1>3, <2>1, <2>2, <2>3, <2>4, Zenon
<1>6. u.sv = saved'[current]
  BY <1>1, <1>5, Zenon DEF Inv, Sound
<1>7. Fits(current, u)'
  BY <1>1, <1>2, <1>4, <1>5, <1>6, Zenon DEF Fits, Same, schedVars, devVars
<1> QED BY <1>1, <1>2, <1>5, <1>7, LocalStep, Zenon

(* Setting something up keeps the invariant.                               *)
LEMMA SetupKept ==
  ASSUME Inv, NEW v, NEW u, Takes(v, u), Setup PROVE Inv'
<1>1. /\ Fits(current, v) /\ v \in ViewTypes /\ v.me = current /\ current \in Threads
      /\ Runs(Tail(todo[current]), u, Never) /\ saved = [saved EXCEPT ![current] = v.sv]
  BY TakesFacts, Zenon
<1>2. /\ todo' = [todo EXCEPT ![current] = Tail(todo[current])] /\ ready' = ready \union {Arg}
      /\ UNCHANGED <<saved, schedVars, owner, ifl, inService, devVars>>
      /\ keys' \in 0 .. MaxKeys /\ input' \in BOOLEAN
  BY ThenFacts, Zenon DEF Setup
<1>3. current = "boot" /\ u = [v EXCEPT !.rd = v.rd \union {Arg}] /\ u \in Views
  BY <1>1, Zenon DEF Setup, Takes, Changes, Ends
<1>4. /\ u.me = v.me /\ u.fl = v.fl /\ u.sv = v.sv /\ u.held = v.held /\ u.isv = v.isv /\ u.elf = v.elf
      /\ u.out = v.out /\ u.ata = v.ata /\ u.rd = v.rd \union {Arg}
  BY <1>1, <1>3, Zenon DEF ViewTypes
<1>5. Fits(current, u)'
  BY <1>1, <1>2, <1>3, <1>4, Zenon DEF Fits, schedVars, devVars
<1>6. owner' \in [Locks -> Threads \union {None}]
  BY <1>2, Zenon DEF Inv, Sound
<1> QED BY <1>1, <1>2, <1>3, <1>4, <1>5, <1>6, PlainStep, Zenon DEF schedVars, devVars

(* Entering a part of kernel_main keeps the invariant.                     *)
LEMMA CallKept ==
  ASSUME Inv, NEW v, NEW u, Takes(v, u), Call PROVE Inv'
<1>1. /\ Fits(current, v) /\ v \in Views /\ Step(v, <<Op, Arg>>, u) /\ Runs(Tail(todo[current]), u, Never)
  BY TakesFacts, Zenon
<1>2. /\ todo' = [todo EXCEPT ![current] = Body(Arg) \o Tail(todo[current])]
      /\ UNCHANGED <<saved, schedVars, owner, ifl, inService, ready, devVars>>
      /\ keys' \in 0 .. MaxKeys /\ input' \in BOOLEAN
  BY ThenFacts, Zenon DEF Call
<1>3. Runs(Body(Arg), v, u)
  BY <1>1, BodyRuns, Zenon DEF Call
<1>4. Runs(Body(Arg) \o Tail(todo[current]), v, Never)
  BY <1>1, <1>3, Compose, Zenon
<1> QED BY <1>1, <1>2, <1>4, SameViewStep, Zenon

(* Dropping the scheduler's lock and restoring the flag.                   *)
LEMMA LeaveRuns ==
  ASSUME NEW v \in Views, "scheduler" \in v.held, v.sv # <<>>, Leaving(v) \in Views
  PROVE  v.fl = FALSE /\ Runs(LeaveScheduler, v, Leaving(v))
<1> DEFINE x == Unlocking(v, "scheduler")
<1>1. v \in ViewTypes /\ v.fl \in BOOLEAN
  BY Zenon DEF Views, ViewTypes
<1>2. v.fl = FALSE
  <2> SUFFICES ASSUME v.fl = TRUE PROVE FALSE
    BY <1>1, Zenon
  <2>1. v.held \intersect Masking(v) = {} /\ "scheduler" \in Masking(v)
    BY MaskedLocksMask, Zenon DEF Views, Open, MaskedLocks
  <2> QED BY <2>1, Zenon
<1>3. x \in ViewTypes /\ x.fl = FALSE /\ x.sv = v.sv
  BY <1>1, <1>2, Zenon DEF Unlocking, ViewTypes
<1>4. x \in Views
  BY <1>3, Zenon DEF Views
<1>5. Step(v, Unlock("scheduler"), x)
  BY <1>4, Zenon DEF Step, Changes, Unlock
<1> HIDE DEF x
<1>6. Step(x, Restore, Leaving(v))
  BY <1>3, Zenon DEF Step, Changes, Restore, Leaving, x
<1>7. Unlock("scheduler") \in Steps /\ Restore \in Steps
  BY Zenon DEF Unlock, Restore, Steps, Ops, Operands, Locks
<1>8. Runs(<<Unlock("scheduler")>>, v, x) /\ Runs(<<Restore>>, x, Leaving(v))
  BY <1>5, <1>6, <1>7, RunsOne, Zenon
<1>9. <<Unlock("scheduler")>> \o <<Restore>> = LeaveScheduler
  BY PushedTwo, Zenon DEF LeaveScheduler
<1>10. Runs(<<Unlock("scheduler")>> \o <<Restore>>, v, Leaving(v))
  BY <1>8, Compose, Zenon
<1> QED BY <1>2, <1>9, <1>10, Zenon

(* reap_zombie's look at the zombie keeps the invariant.                   *)
LEMMA TakeZombieKept ==
  ASSUME Inv, NEW v, NEW u, Takes(v, u), TakeZombie PROVE Inv'
<1> DEFINE c == LeaveScheduler \o Free(zombie) \o Tail(todo[current])
<1>1. /\ Fits(current, v) /\ v \in Views /\ Runs(Tail(todo[current]), u, Never)
      /\ saved = [saved EXCEPT ![current] = v.sv]
  BY TakesFacts, Zenon
<1>2. /\ todo' = [todo EXCEPT ![current] = c]
      /\ zombie' = None /\ alive' = alive \ {zombie}
      /\ UNCHANGED <<saved, current, queue, owner, ifl, inService, ready, devVars>>
      /\ keys' \in 0 .. MaxKeys /\ input' \in BOOLEAN
  BY ThenFacts, Zenon DEF TakeZombie
<1>3. "scheduler" \in v.held /\ v.sv # <<>> /\ Calm(u) /\ u = Leaving(v) /\ u \in Views
  BY Zenon DEF TakeZombie, Takes, Changes, Ends
<1>4. Runs(LeaveScheduler, v, u) /\ Runs(Free(zombie), u, u)
  BY <1>1, <1>3, LeaveRuns, FreeNeutral, Zenon DEF Neutral
<1>5. Runs(c, v, Never)
  BY <1>1, <1>4, Compose, Zenon
<1> HIDE DEF c
<1>6. Fits(current, v)'
  BY <1>1, <1>2, Zenon DEF Fits, devVars
<1>7. owner' \in [Locks -> Threads \union {None}]
  BY <1>2, Zenon DEF Inv, Sound
<1> QED BY <1>1, <1>2, <1>5, <1>6, <1>7, PlainStep, Zenon DEF devVars

(* thread_alive keeps the invariant.                                       *)
LEMMA PollKept ==
  ASSUME Inv, NEW v, NEW u, Takes(v, u), Poll PROVE Inv'
<1> DEFINE r == Tail(todo[current])
           x == Leaving(v)
<1>1. /\ Fits(current, v) /\ v \in Views /\ v \in ViewTypes /\ Runs(r, u, Never)
      /\ v.me = current /\ alive \intersect Children(current) \subseteq v.out
      /\ saved = [saved EXCEPT ![current] = v.sv]
  BY TakesFacts, Zenon
<1>2. /\ UNCHANGED <<saved, schedVars, owner, ifl, inService, ready, devVars>>
      /\ keys' \in 0 .. MaxKeys /\ input' \in BOOLEAN
  BY ThenFacts, Zenon DEF Poll
<1>3. /\ "scheduler" \in v.held /\ v.sv # <<>> /\ Arg \in Threads /\ Yields(x)
      /\ u = [x EXCEPT !.out = v.out \ {Arg}] /\ u \in Views
  BY Zenon DEF Poll, Takes, Changes, Ends
<1>4. x \in Views /\ x.out = v.out /\ u = OutView(x, x.out \ {Arg})
  BY <1>1, <1>3, Zenon DEF Yields, Calm, Leaving, Restoring, Unlocking, ViewTypes, OutView
<1>5. CASE Arg \in alive
  <2>1. todo' = [todo EXCEPT ![current] = LeaveScheduler \o (schedule \o wait_while_alive(Arg)) \o r]
    BY <1>5, ThenFacts, Zenon DEF Poll
  <2>2. Runs(LeaveScheduler, v, x)
    BY <1>1, <1>3, <1>4, LeaveRuns, Zenon
  <2> HIDE DEF x, r
  <2>3. Runs(schedule, x, x) /\ Runs(wait_while_alive(Arg), x, u)
    <3>1. Runs(schedule, x, x)
      BY <1>3, ScheduleRuns, Zenon
    <3>2. Runs(wait_while_alive(Arg), x, OutView(x, x.out \ {Arg}))
      BY <1>3, WaitRuns, Zenon
    <3> QED BY <1>4, <3>1, <3>2, Zenon
  <2>4. Runs(LeaveScheduler \o (schedule \o wait_while_alive(Arg)) \o r, v, Never)
    BY <1>1, <2>2, <2>3, Compose, Zenon
  <2> QED BY <1>1, <1>2, <2>1, <2>4, SameViewStep, Zenon
<1>6. CASE Arg \notin alive
  <2> DEFINE c == LeaveScheduler \o <<>> \o r
  <2>0. PICK w : w = OutView(v, v.out \ {Arg})
    BY Zenon
  <2>1. todo' = [todo EXCEPT ![current] = c]
    BY <1>6, ThenFacts, Zenon DEF Poll
  <2>2. v.fl = FALSE
    BY <1>1, <1>3, <1>4, LeaveRuns, Zenon
  <2>3. /\ w \in ViewTypes /\ w.me = v.me /\ w.fl = v.fl /\ w.sv = v.sv /\ w.held = v.held
        /\ w.isv = v.isv /\ w.rd = v.rd /\ w.elf = v.elf /\ w.ata = v.ata /\ w.out = v.out \ {Arg}
    BY <1>1, <2>0, Zenon DEF OutView, ViewTypes
  <2>4. Leaving(w) = u
    BY <1>1, <1>3, <2>0, Zenon DEF OutView, Leaving, Restoring, Unlocking, ViewTypes
  <2> HIDE DEF x, r
  <2>5. w \in Views
    BY <2>2, <2>3, Zenon DEF Views
  <2>6. Runs(LeaveScheduler, w, u)
    BY <1>3, <2>3, <2>4, <2>5, LeaveRuns, Zenon
  <2>7. Runs(c, w, Never)
    BY <1>1, <2>6, RunsNothing, Compose, Zenon
  <2> HIDE DEF c
  <2>8. Fits(current, w)'
    <3>1. current' = current /\ alive' \intersect Children(current) \subseteq w.out
      BY <1>1, <1>2, <1>6, <2>3, Zenon DEF schedVars
    <3> QED BY <1>1, <1>2, <2>3, <2>5, <3>1, Zenon DEF Fits, schedVars, devVars
  <2>9. saved' = [saved EXCEPT ![current] = w.sv]
    BY <1>1, <1>2, <2>3, Zenon
  <2> QED BY <1>2, <2>1, <2>7, <2>8, <2>9, LocalStep, Zenon
<1> QED BY <1>5, <1>6, Zenon

(* What is in a queue.                                                     *)
LEMMA RangeAppend ==
  ASSUME NEW S, NEW q \in Seq(S), NEW x \in S
  PROVE  Range(Append(q, x)) = Range(q) \union {x}
<1> DEFINE r == Append(q, x)
<1>1. /\ DOMAIN q = 1 .. Len(q) /\ DOMAIN r = 1 .. Len(q) + 1 /\ Len(q) \in Nat
      /\ \A i \in 1 .. Len(q) : r[i] = q[i]
      /\ r[Len(q) + 1] = x
  OBVIOUS
<1> HIDE DEF r
<1>2. \A i \in 1 .. Len(q) + 1 : i \in 1 .. Len(q) \/ i = Len(q) + 1
  BY <1>1
<1>3. Range(r) \subseteq Range(q) \union {x}
  BY <1>1, <1>2, Zenon DEF Range
<1>4. 1 .. Len(q) \subseteq 1 .. Len(q) + 1 /\ Len(q) + 1 \in 1 .. Len(q) + 1
  BY <1>1
<1>5. Range(q) \union {x} \subseteq Range(r)
  BY <1>1, <1>4, Zenon DEF Range
<1> QED BY <1>3, <1>5, Zenon DEF r

(* What is in a queue: its head and the rest.                              *)
LEMMA RangeTail ==
  ASSUME NEW S, NEW q \in Seq(S), q # <<>>
  PROVE  Range(q) = {Head(q)} \union Range(Tail(q))
<1> DEFINE r == Tail(q)
           n == Len(q)
<1>1. /\ DOMAIN q = 1 .. n /\ DOMAIN r = 1 .. n - 1 /\ n \in Nat \ {0} /\ Head(q) = q[1]
      /\ \A i \in 1 .. n - 1 : r[i] = q[i + 1]
  OBVIOUS
<1> HIDE DEF r, n
<1>2. Range(r) \subseteq Range(q) /\ Head(q) \in Range(q)
  <2>1. 1 \in 1 .. n /\ \A i \in 1 .. n - 1 : i + 1 \in 1 .. n
    BY <1>1
  <2> QED BY <1>1, <2>1, Zenon DEF Range
<1>3. ASSUME NEW i \in 1 .. n PROVE q[i] \in {Head(q)} \union Range(r)
  <2>1. CASE i = 1
    BY <1>1, <2>1, Zenon
  <2>2. CASE i # 1
    <3>1. i - 1 \in 1 .. n - 1 /\ (i - 1) + 1 = i
      BY <1>1, <2>2
    <3>2. r[i - 1] = q[i]
      BY <1>1, <3>1, Zenon
    <3> QED BY <1>1, <3>1, <3>2, Zenon DEF Range
  <2> QED BY <2>1, <2>2, Zenon
<1>4. Range(q) \subseteq {Head(q)} \union Range(r)
  BY <1>1, <1>3, Zenon DEF Range
<1> QED BY <1>2, <1>4, Zenon DEF r

(* The parents of a thread.                                                *)
LEMMA ChildFacts ==
  ASSUME NEW t, NEW c \in Children(t)
  PROVE  /\ c \in Threads \ {"boot"} /\ c # t
         /\ \A s : c \in Children(s) => s = t
         /\ c = "shell" => t = "boot"
BY Zenon DEF Children, Threads, Demos

(* Putting a new thread into the rotation keeps the invariant.             *)
LEMMA SpawnKept ==
  ASSUME Inv, NEW v, NEW u, Takes(v, u), Spawn PROVE Inv'
<1>0. PICK n : n = Arg
  BY Zenon
<1> DEFINE w == Entry(n)
<1>1. /\ Fits(current, v) /\ v \in ViewTypes /\ v.me = current /\ current \in Threads
      /\ alive \intersect Children(current) \subseteq v.out
      /\ Runs(Tail(todo[current]), u, Never) /\ saved = [saved EXCEPT ![current] = v.sv]
  BY TakesFacts, Zenon
<1>2. /\ n \in Children(current) \ v.out /\ Basics \subseteq v.rd /\ (n = "shell" => v.elf = "shell")
      /\ u = [v EXCEPT !.out = v.out \union {n}] /\ u \in Views
  BY <1>0, <1>1, Zenon DEF Spawn, Takes, Changes, Ends
<1>3. /\ alive' = alive \union {n} /\ queue' = Append(queue, n)
      /\ todo' = [todo EXCEPT ![current] = Tail(todo[current]), ![n] = Program(n)]
      /\ UNCHANGED <<saved, current, zombie, owner, ifl, inService, ready, devVars, keyVars>>
  BY <1>0, Zenon DEF Spawn
<1>4. /\ n \in Threads \ {"boot"} /\ n # current /\ \A s : n \in Children(s) => s = current
      /\ (n = "shell" => current = "boot")
  BY <1>2, ChildFacts, Zenon
<1>5. n \notin alive /\ n \notin Running /\ Gone(n)
  BY <1>1, <1>2, <1>4, Zenon DEF Inv, Sound
<1>6. Running' = Running \union {n}
  <2>1. Range(queue') = Range(queue) \union {n}
    BY <1>3, <1>4, RangeAppend DEF Inv, Sound
  <2> QED BY <1>3, <2>1, Zenon DEF Running
<1>7. /\ todo'[current] = Tail(todo[current]) /\ todo'[n] = Program(n)
      /\ \A t \in Threads \ {current, n} : todo'[t] = todo[t]
  BY <1>1, <1>3, <1>4, Zenon DEF Inv, Sound
<1>8. Fits(current, u)'
  <2>1. /\ u.me = v.me /\ u.fl = v.fl /\ u.sv = v.sv /\ u.held = v.held /\ u.isv = v.isv /\ u.rd = v.rd
        /\ u.elf = v.elf /\ u.ata = v.ata /\ u.out = v.out \union {n}
    BY <1>1, <1>2, Zenon DEF ViewTypes
  <2> QED BY <1>1, <1>2, <1>3, <2>1, Zenon DEF Fits, devVars
<1>9. Runs(Program(n), w, Never)
  BY <1>4, ProgramRuns, Zenon
<1>10. Fits(n, w)'
  <2>1. /\ w \in Views /\ w.me = n /\ w.fl = FALSE /\ w.sv = <<>> /\ w.held = {} /\ w.isv = {}
        /\ w.rd = Basics /\ w.elf = None /\ w.out = {} /\ w.ata = Idle
    BY <1>4, EntryFacts
  <2> HIDE DEF w
  <2>2. Open(w) /\ w.ata[1] = "idle"
    BY <2>1 DEF Open, Idle
  <2>3. alive' \intersect Children(n) = {} /\ saved'[n] = <<>> /\ \A l \in Locks : owner'[l] # n
    BY <1>3, <1>4, <1>5, Zenon DEF Gone
  <2>4. n # current' /\ n # "boot"
    BY <1>3, <1>4, Zenon
  <2> QED BY <2>1, <2>2, <2>3, <2>4, Zenon DEF Fits
<1>11. Sound'
  <2>1. todo' \in [Threads -> Code]
    <3>1. Tail(todo[current]) \in Code /\ Program(n) \in Code
      BY <1>1, <1>9, Zenon DEF Runs
    <3> QED BY <1>3, <3>1, Zenon DEF Inv, Sound
  <2>2. queue' \in Seq(Threads) /\ current' \notin Range(queue')
        /\ \A i, j \in 1 .. Len(queue') : queue'[i] = queue'[j] => i = j
    <3>1. queue \in Seq(Threads) /\ n \notin Range(queue) /\ current \notin Range(queue)
          /\ \A i, j \in 1 .. Len(queue) : queue[i] = queue[j] => i = j
      BY <1>5, Zenon DEF Running, Inv, Sound
    <3>2. /\ queue' \in Seq(Threads) /\ Len(queue') = Len(queue) + 1 /\ Len(queue) \in Nat
          /\ \A i \in 1 .. Len(queue) : queue'[i] = queue[i] /\ queue[i] # n
          /\ queue'[Len(queue) + 1] = n
      BY <1>3, <1>4, <3>1 DEF Range
    <3>3. \A i, j \in 1 .. Len(queue') : queue'[i] = queue'[j] => i = j
      BY <3>1, <3>2
    <3>4. current' \notin Range(queue')
      BY <1>3, <1>4, <3>1, <3>2 DEF Range
    <3> QED BY <3>2, <3>3, <3>4, Zenon
  <2>3. Basics \subseteq ready
    BY <1>1, <1>2 DEF Inv, Sound, Fits, Running
  <2>4. "shell" \in alive' => elfEntry' = "shell"
    BY <1>1, <1>2, <1>3, <1>4, Zenon DEF Inv, Sound, Fits, devVars
  <2>5. zombie' # None => zombie' \in alive' \ Running'
    BY <1>3, <1>5, <1>6, Zenon DEF Inv, Sound
  <2> QED BY <1>3, <1>4, <1>6, <2>1, <2>2, <2>3, <2>4, <2>5, Zenon DEF Inv, Sound, devVars, keyVars
<1>12. ASSUME NEW t \in Running' PROVE Coded(t)'
  <2>1. CASE t = current
    <3>1. Fits(t, u)' /\ Runs(todo'[t], u, Never)
      BY <1>1, <1>3, <1>7, <1>8, <2>1, Zenon
    <3> QED BY <3>1, Zenon DEF Coded
  <2>2. CASE t = n
    <3>1. Fits(t, w)' /\ Runs(todo'[t], w, Never)
      BY <1>7, <1>9, <1>10, <2>2, Zenon
    <3> QED BY <3>1, Zenon DEF Coded
  <2>3. CASE t \notin {current, n}
    <3>1. t \in Running \ {current} /\ t \in Threads
      BY <1>6, <2>3, Zenon DEF Inv, Sound
    <3>2. alive' \intersect Children(t) \subseteq alive
      BY <1>3, <1>4, <2>3, Zenon
    <3> QED BY <1>3, <1>7, <2>3, <3>1, <3>2, OtherKept, Zenon DEF devVars
  <2> QED BY <2>1, <2>2, <2>3, Zenon
<1>13. ASSUME NEW t \in Threads \ Running' PROVE Gone(t)'
  <2>1. t \in Threads \ Running /\ t # n /\ t # current
    BY <1>6, Zenon DEF Running
  <2>2. Gone(t) /\ n \notin Children(t)
    BY <1>4, <2>1, Zenon DEF Inv
  <2> QED BY <1>3, <1>7, <2>1, <2>2, Zenon DEF Gone
<1> QED BY <1>11, <1>12, <1>13, Zenon DEF Inv

(* schedule's switch keeps the invariant.                                  *)
LEMMA SwitchKept ==
  ASSUME Inv, NEW v, NEW u, Takes(v, u), Switch PROVE Inv'
<1> DEFINE x == Unlocking(v, "scheduler")
           c == <<Restore>> \o Tail(todo[current])
<1>1. /\ Fits(current, v) /\ v \in Views /\ v \in ViewTypes /\ v.me = current /\ current \in Threads
      /\ v.fl = ifl /\ v.isv = inService /\ \A l \in Locks : l \in v.held <=> owner[l] = current
      /\ Runs(Tail(todo[current]), u, Never) /\ saved = [saved EXCEPT ![current] = v.sv]
  BY TakesFacts, Zenon
<1>2. /\ "scheduler" \in v.held /\ v.sv # <<>> /\ v.fl = FALSE /\ Open(x) /\ u = Leaving(v) /\ u \in Views
  BY Zenon DEF Switch, Takes, Changes, Ends
<1>3. /\ todo' = [todo EXCEPT ![current] = c] /\ owner' = [owner EXCEPT !["scheduler"] = None]
      /\ UNCHANGED <<saved, zombie, alive, ifl, inService, ready, devVars>>
      /\ keys' \in 0 .. MaxKeys /\ input' \in BOOLEAN
      /\ IF queue = <<>> THEN UNCHANGED <<queue, current>>
         ELSE queue' = Append(Tail(queue), current) /\ current' = Head(queue)
  BY ThenFacts, Zenon DEF Switch
<1>4. Same(v, x) /\ x.fl = FALSE /\ x.sv = v.sv /\ x.held = v.held \ {"scheduler"} /\ x \in ViewTypes
  BY <1>1, <1>2, Zenon DEF Unlocking, ViewTypes, Same
<1>5. x \in Views /\ Step(x, Restore, u)
  BY <1>2, <1>4, Zenon DEF Views, Step, Changes, Restore, Leaving
<1> HIDE DEF x
<1>6. Runs(c, x, Never)
  <2>1. Runs(<<Restore>>, x, u)
    BY <1>5, RunsOne, Zenon DEF Restore, Steps, Ops, Operands
  <2> QED BY <1>1, <2>1, Compose, Zenon
<1> HIDE DEF c
<1>7. "scheduler" \in Locks /\ current # None
  BY <1>1, NoneIsNoThread, Zenon DEF Locks
<1>8. /\ owner' \in [Locks -> Threads \union {None}]
      /\ \A l \in Locks : owner'[l] = IF l = "scheduler" THEN None ELSE owner[l]
  BY <1>3, <1>7, Zenon DEF Inv, Sound
<1>9. owner["scheduler"] = current
  BY <1>1, <1>2, <1>7, Zenon
<1>10. inService = {} /\ ifl = FALSE
  BY <1>1, <1>2, <1>4, Zenon DEF Open, Same
<1>11. CASE queue = <<>>
  <2>1. current' = current /\ queue' = queue
    BY <1>3, <1>11, Zenon
  <2>2. Fits(current, x)'
    <3>1. /\ x.me = current' /\ x.sv = saved'[current'] /\ x.fl = ifl' /\ x.isv = inService'
      BY <1>1, <1>2, <1>3, <1>4, <2>1, Zenon DEF Fits, Same
    <3>2. \A l \in Locks : l \in x.held <=> owner'[l] = current'
      BY <1>1, <1>4, <1>7, <1>8, <2>1, Zenon
    <3>3. /\ IF current' = "boot" THEN x.rd = ready' /\ x.elf = elfEntry' ELSE x.rd = Basics /\ x.elf = None
          /\ alive' \intersect Children(current') \subseteq x.out
          /\ x.ata[1] = "selected" => taskfile' = x.ata[2]
          /\ x.ata[1] = "started" => drive' = x.ata[2]
      BY <1>1, <1>3, <1>4, <2>1, Zenon DEF Fits, Same, devVars
    <3> QED BY <1>5, <3>1, <3>2, <3>3, Zenon DEF Fits
  <2>3. \A l \in Locks : owner'[l] = owner[l] \/ {owner[l], owner'[l]} \subseteq {current, None}
    BY <1>8, <1>9, Zenon
  <2>4. saved' = [saved EXCEPT ![current] = x.sv]
    BY <1>1, <1>3, <1>4, Zenon
  <2> QED BY <1>3, <1>6, <1>8, <2>1, <2>2, <2>3, <2>4, PlainStep, Zenon DEF devVars
<1>12. CASE queue # <<>>
  <2> DEFINE h == Head(queue)
  <2>1. queue' = Append(Tail(queue), current) /\ current' = h
    BY <1>3, <1>12, Zenon
  <2>2. queue \in Seq(Threads) /\ current \notin Range(queue) /\ Len(queue) \in Nat \ {0}
        /\ \A i, j \in 1 .. Len(queue) : queue[i] = queue[j] => i = j
    BY <1>12 DEF Inv, Sound
  <2>3. /\ h = queue[1] /\ queue' \in Seq(Threads) /\ Len(queue') = Len(queue) /\ h \in Threads
        /\ \A i \in 1 .. Len(queue) - 1 : queue'[i] = queue[i + 1]
        /\ queue'[Len(queue)] = current
    BY <1>1, <2>1, <2>2
  <2> HIDE DEF h
  <2>4. h \in Running /\ h # current
    BY <2>2, <2>3 DEF Running, Range
  <2>5. Running' = Running
    <3>1. Range(queue) = {h} \union Range(Tail(queue)) /\ Tail(queue) \in Seq(Threads)
      BY <1>12, <2>2, RangeTail DEF h
    <3>2. Range(queue') = Range(Tail(queue)) \union {current}
      <4>1. PICK q : q = Tail(queue)
        BY Zenon
      <4>2. Range(Append(q, current)) = Range(q) \union {current}
        <5>1. q \in Seq(Threads) /\ current \in Threads
          BY <1>1, <3>1, <4>1, Zenon
        <5> QED BY <5>1, RangeAppend
      <4> QED BY <2>1, <4>1, <4>2, Zenon
    <3> QED BY <2>1, <3>1, <3>2, Zenon DEF Running
  <2>6. /\ \A i, j \in 1 .. Len(queue') : queue'[i] = queue'[j] => i = j
        /\ current' \notin Range(queue')
    <3>1. \A i \in 1 .. Len(queue) - 1 : queue[i + 1] # current /\ queue[i + 1] # h /\ i + 1 \in 1 .. Len(queue)
      <4> TAKE i \in 1 .. Len(queue) - 1
      <4>1. i + 1 \in 1 .. Len(queue) /\ i + 1 # 1 /\ 1 \in 1 .. Len(queue)
        BY <2>2
      <4> QED BY <2>2, <2>3, <4>1 DEF Range
    <3>2. ASSUME NEW i \in 1 .. Len(queue'), NEW j \in 1 .. Len(queue'), queue'[i] = queue'[j] PROVE i = j
      <4>1. CASE i = Len(queue) /\ j # Len(queue)
        <5>1. j \in 1 .. Len(queue) - 1
          BY <2>2, <2>3, <4>1
        <5> QED BY <2>3, <3>1, <3>2, <4>1, <5>1, Zenon
      <4>2. CASE i # Len(queue) /\ j = Len(queue)
        <5>1. i \in 1 .. Len(queue) - 1
          BY <2>2, <2>3, <4>2
        <5> QED BY <2>3, <3>1, <3>2, <4>2, <5>1, Zenon
      <4>3. CASE i # Len(queue) /\ j # Len(queue)
        <5>1. i \in 1 .. Len(queue) - 1 /\ j \in 1 .. Len(queue) - 1
          BY <2>2, <2>3, <4>3
        <5>2. i + 1 = j + 1
          BY <2>2, <2>3, <3>1, <3>2, <5>1
        <5> QED BY <5>1, <5>2
      <4> QED BY <4>1, <4>2, <4>3, Zenon
    <3>3. current' \notin Range(queue')
      <4>0. DOMAIN queue' = 1 .. Len(queue')
        BY <2>3
      <4> SUFFICES ASSUME NEW i \in 1 .. Len(queue') PROVE queue'[i] # h
        BY <2>1, <4>0, Zenon DEF Range
      <4>1. i = Len(queue) \/ i \in 1 .. Len(queue) - 1
        BY <2>2, <2>3
      <4> QED BY <2>3, <2>4, <3>1, <4>1, Zenon
    <3> QED BY <3>2, <3>3, Zenon
  <2>7. Sound'
    <3>1. todo' \in [Threads -> Code]
      BY <1>3, <1>6, Zenon DEF Inv, Sound, Runs
    <3> QED BY <1>3, <1>8, <2>1, <2>3, <2>5, <2>6, <3>1, Zenon DEF Inv, Sound, devVars
  <2>8. /\ todo'[current] = c /\ \A t \in Threads \ {current} : todo'[t] = todo[t]
        /\ \A t \in Threads \ {current} : \A l \in Locks : owner'[l] = t <=> owner[l] = t
    BY <1>1, <1>3, <1>8, <1>9, NoneIsNoThread, Zenon DEF Inv, Sound
  <2>9. ASSUME NEW t \in Running PROVE Coded(t)'
    <3>1. CASE t = current
      <4>2. x.me = t /\ x.sv = saved'[t] /\ Open(x) /\ t # current'
        <5>1. Open(x)
          BY <1>2, Zenon DEF x
        <5> QED BY <1>1, <1>3, <1>4, <2>1, <2>4, <3>1, <5>1, Zenon DEF Same, Fits
      <4>3. \A l \in Locks : l \in x.held <=> owner'[l] = t
        BY <1>1, <1>4, <1>7, <1>8, <3>1, Zenon
      <4>4. /\ IF t = "boot" THEN x.rd = ready' /\ x.elf = elfEntry' ELSE x.rd = Basics /\ x.elf = None
            /\ alive' \intersect Children(t) \subseteq x.out
            /\ x.ata[1] = "selected" => taskfile' = x.ata[2]
            /\ x.ata[1] = "started" => drive' = x.ata[2]
        BY <1>1, <1>3, <1>4, <3>1, Zenon DEF Same, Fits, devVars
      <4>5. Fits(t, x)'
        BY <1>4, <1>5, <4>2, <4>3, <4>4, Zenon DEF Fits
      <4> QED BY <1>6, <2>8, <3>1, <4>5, Zenon DEF Coded
    <3>2. CASE t = h
      <4>1. PICK w : Fits(t, w) /\ Runs(todo[t], w, Never)
        BY Zenon DEF Inv, Coded
      <4>2. w \in Views /\ w.fl = FALSE /\ w.isv = {}
        BY <2>4, <3>2, <4>1, Zenon DEF Fits, Open
      <4>3. Fits(t, w)'
        <5>1. /\ t = current' /\ w.me = t /\ w.sv = saved'[t] /\ w.fl = ifl' /\ w.isv = inService'
          BY <1>3, <1>10, <2>1, <3>2, <4>1, <4>2, Zenon DEF Fits
        <5>2. \A l \in Locks : l \in w.held <=> owner'[l] = t
          BY <2>3, <2>4, <2>8, <3>2, <4>1, Zenon DEF Fits
        <5>3. /\ IF t = "boot" THEN w.rd = ready' /\ w.elf = elfEntry' ELSE w.rd = Basics /\ w.elf = None
              /\ alive' \intersect Children(t) \subseteq w.out
              /\ w.ata[1] = "selected" => taskfile' = w.ata[2]
              /\ w.ata[1] = "started" => drive' = w.ata[2]
          BY <1>3, <4>1, Zenon DEF Fits, devVars
        <5> QED BY <4>2, <5>1, <5>2, <5>3, Zenon DEF Fits
      <4> QED BY <2>3, <2>4, <2>8, <3>2, <4>1, <4>3, Zenon DEF Coded
    <3>3. CASE t \notin {current, h}
      <4>1. t \in Threads
        BY Zenon DEF Inv, Sound
      <4> QED BY <1>3, <2>1, <2>8, <3>3, <4>1, OtherKept, Zenon DEF devVars
    <3> QED BY <3>1, <3>2, <3>3, Zenon
  <2>10. ASSUME NEW t \in Threads \ Running PROVE Gone(t)'
    <3>1. Gone(t) /\ t # current
      BY Zenon DEF Inv, Running
    <3> QED BY <1>3, <2>8, <3>1, Zenon DEF Gone
  <2> QED BY <2>5, <2>7, <2>9, <2>10, Zenon DEF Inv
<1> QED BY <1>11, <1>12, Zenon

(* The switch of exit_current_thread keeps the invariant.                  *)
LEMMA DieKept ==
  ASSUME Inv, NEW v, NEW u, Takes(v, u), Die PROVE Inv'
<1> DEFINE h == Head(queue)
<1>1. /\ Fits(current, v) /\ v.me = current /\ current \in Threads
      /\ v.fl = ifl /\ v.isv = inService /\ \A l \in Locks : l \in v.held <=> owner[l] = current
      /\ alive \intersect Children(current) \subseteq v.out
  BY TakesFacts, Zenon
<1>2. current # "boot" /\ v.held = {"scheduler"} /\ ifl = FALSE /\ inService = {} /\ v.out = {}
  BY <1>1, Zenon DEF Die, Takes, Changes, Ends
<1>3. /\ owner' = [owner EXCEPT !["scheduler"] = None] /\ zombie' = current
      /\ queue' = Tail(queue) /\ current' = h
      /\ todo' = [todo EXCEPT ![current] = <<>>] /\ saved' = [saved EXCEPT ![current] = <<>>]
      /\ UNCHANGED <<alive, ifl, inService, ready, devVars, keyVars>>
  BY Zenon DEF Die
<1>4. queue \in Seq(Threads) /\ current \notin Range(queue) /\ "boot" \in Range(queue)
      /\ \A i, j \in 1 .. Len(queue) : queue[i] = queue[j] => i = j
  BY <1>2, Zenon DEF Inv, Sound, Running
<1>5. Len(queue) \in Nat \ {0} /\ queue # <<>>
  BY <1>4 DEF Range
<1>6. /\ h = queue[1] /\ h \in Threads /\ queue' \in Seq(Threads) /\ Len(queue') = Len(queue) - 1
      /\ \A i \in 1 .. Len(queue) - 1 : queue'[i] = queue[i + 1]
  BY <1>3, <1>4, <1>5
<1> HIDE DEF h
<1>7. h \in Range(queue) /\ h # current /\ Range(queue) \subseteq Threads
  BY <1>4, <1>5, <1>6 DEF Range
<1>8. Running' = Range(queue)
  <2>1. Range(queue) = {h} \union Range(Tail(queue))
    BY <1>4, <1>5, RangeTail, Zenon DEF h
  <2> QED BY <1>3, <2>1, Zenon DEF Running
<1>9. /\ \A i, j \in 1 .. Len(queue') : queue'[i] = queue'[j] => i = j
      /\ current' \notin Range(queue')
  <2>1. \A i \in 1 .. Len(queue') : i \in 1 .. Len(queue) - 1 /\ i + 1 \in 1 .. Len(queue) /\ i + 1 # 1
    BY <1>5, <1>6
  <2>2. ASSUME NEW i \in 1 .. Len(queue'), NEW j \in 1 .. Len(queue'), queue'[i] = queue'[j] PROVE i = j
    <3>1. i + 1 = j + 1
      BY <1>4, <1>6, <2>1, <2>2, Zenon
    <3> QED BY <3>1
  <2>3. 1 \in 1 .. Len(queue)
    BY <1>5
  <2>4. \A i \in 1 .. Len(queue') : queue'[i] # h
    BY <1>4, <1>6, <2>1, <2>3, Zenon
  <2> QED BY <1>3, <1>6, <2>2, <2>4 DEF Range
<1>10. "scheduler" \in Locks /\ current # None /\ None \notin Threads
  BY <1>1, NoneIsNoThread, Zenon DEF Locks
<1>11. /\ owner' \in [Locks -> Threads \union {None}]
       /\ \A l \in Locks : owner'[l] = IF l = "scheduler" THEN None ELSE owner[l]
  BY <1>3, <1>10, Zenon DEF Inv, Sound
<1>12. /\ \A t \in Threads \ {current} : todo'[t] = todo[t] /\ saved'[t] = saved[t]
       /\ \A t \in Threads \ {current} : \A l \in Locks : owner'[l] = t <=> owner[l] = t
       /\ todo'[current] = <<>> /\ saved'[current] = <<>>
  <2>1. owner["scheduler"] = current
    BY <1>1, <1>2, <1>10, Zenon
  <2> QED BY <1>1, <1>3, <1>10, <1>11, <2>1, Zenon DEF Inv, Sound
<1>13. Sound'
  <2>1. <<>> \in Code /\ <<>> \in Seq(BOOLEAN)
    BY DEF Code
  <2>2. todo' \in [Threads -> Code] /\ saved' \in [Threads -> Seq(BOOLEAN)]
    BY <1>3, <2>1, Zenon DEF Inv, Sound
  <2>3. "boot" \in Running' /\ Running' \subseteq alive' /\ (zombie' # None => zombie' \in alive' \ Running')
    BY <1>3, <1>4, <1>8, Zenon DEF Inv, Sound, Running
  <2> QED BY <1>3, <1>6, <1>9, <1>11, <2>2, <2>3, Zenon DEF Inv, Sound, devVars, keyVars
<1>14. ASSUME NEW t \in Running' PROVE Coded(t)'
  <2>1. t \in Running \ {current} /\ t \in Threads
    BY <1>4, <1>7, <1>8, Zenon DEF Running
  <2>2. CASE t = h
    <3>1. PICK w : Fits(t, w) /\ Runs(todo[t], w, Never)
      BY <2>1, Zenon DEF Inv, Coded
    <3>2. w \in Views /\ w.fl = FALSE /\ w.isv = {}
      BY <2>1, <3>1, Zenon DEF Fits, Open
    <3>3. Fits(t, w)'
      <4>1. /\ t = current' /\ w.me = t /\ w.sv = saved'[t] /\ w.fl = ifl' /\ w.isv = inService'
        BY <1>2, <1>3, <1>12, <2>1, <2>2, <3>1, <3>2, Zenon DEF Fits
      <4>2. \A l \in Locks : l \in w.held <=> owner'[l] = t
        BY <1>12, <2>1, <3>1 DEF Fits
      <4>3. /\ IF t = "boot" THEN w.rd = ready' /\ w.elf = elfEntry' ELSE w.rd = Basics /\ w.elf = None
            /\ alive' \intersect Children(t) \subseteq w.out
            /\ w.ata[1] = "selected" => taskfile' = w.ata[2]
            /\ w.ata[1] = "started" => drive' = w.ata[2]
        BY <1>3, <3>1, Zenon DEF Fits, devVars
      <4> QED BY <3>2, <4>1, <4>2, <4>3, Zenon DEF Fits
    <3> QED BY <1>12, <2>1, <3>1, <3>3, Zenon DEF Coded
  <2>3. CASE t # h
    BY <1>3, <1>12, <2>1, <2>3, OtherKept, Zenon DEF devVars
  <2> QED BY <2>2, <2>3, Zenon
<1>15. ASSUME NEW t \in Threads \ Running' PROVE Gone(t)'
  <2>1. CASE t = current
    <3>1. \A l \in Locks : owner'[l] # t
      BY <1>1, <1>2, <1>10, <1>11, <2>1, Zenon
    <3> QED BY <1>1, <1>2, <1>3, <1>12, <2>1, <3>1, Zenon DEF Gone
  <2>2. CASE t # current
    <3>1. Gone(t)
      BY <1>8, <2>2, Zenon DEF Inv, Running
    <3> QED BY <1>3, <1>12, <2>2, <3>1, Zenon DEF Gone
  <2> QED BY <2>1, <2>2, Zenon
<1> QED BY <1>13, <1>14, <1>15, Zenon DEF Inv

(* The end of an interrupt keeps the invariant.                            *)
LEMMA EndOfInterruptKept ==
  ASSUME Inv, NEW v, NEW u, Takes(v, u), EndOfInterrupt PROVE Inv'
<1>1. /\ Fits(current, v) /\ v \in ViewTypes /\ Runs(Tail(todo[current]), u, Never)
      /\ saved = [saved EXCEPT ![current] = v.sv]
  BY TakesFacts, Zenon
<1>2. /\ todo' = [todo EXCEPT ![current] = Tail(todo[current])] /\ inService' = inService \ {Arg}
      /\ UNCHANGED <<saved, schedVars, owner, ifl, ready, devVars>>
      /\ keys' \in 0 .. MaxKeys /\ input' \in BOOLEAN
  BY ThenFacts, Zenon DEF EndOfInterrupt
<1>3. u = [v EXCEPT !.isv = v.isv \ {Arg}] /\ u \in Views
  BY Zenon DEF EndOfInterrupt, Takes, Changes, Ends
<1>4. /\ u.me = v.me /\ u.fl = v.fl /\ u.sv = v.sv /\ u.held = v.held /\ u.isv = v.isv \ {Arg}
      /\ u.elf = v.elf /\ u.out = v.out /\ u.ata = v.ata /\ u.rd = v.rd
  BY <1>1, <1>3, Zenon DEF ViewTypes
<1>5. Fits(current, u)'
  BY <1>1, <1>2, <1>3, <1>4, Zenon DEF Fits, schedVars, devVars
<1> QED BY <1>1, <1>2, <1>4, <1>5, LocalStep, Zenon

(* An access to the drive's ports keeps the invariant.                     *)
LEMMA AtaPortKept ==
  ASSUME Inv, NEW v, NEW u, Takes(v, u), AtaPort PROVE Inv'
<1>1. /\ Fits(current, v) /\ v \in ViewTypes /\ v.me = current /\ Runs(Tail(todo[current]), u, Never)
      /\ saved = [saved EXCEPT ![current] = v.sv]
  BY TakesFacts, Zenon
<1>2. /\ todo' = [todo EXCEPT ![current] = Tail(todo[current])]
      /\ UNCHANGED <<saved, schedVars, owner, ifl, inService, ready, elfEntry>>
      /\ keys' \in 0 .. MaxKeys /\ input' \in BOOLEAN
  BY ThenFacts, Zenon DEF AtaPort
<1>3. Op \in {"select", "command", "transfer"}
  BY Zenon DEF AtaPort
<1>4. u \in Views /\ CanRead(v) /\ Changes(v, Op, Arg, u)
  BY <1>3, Zenon DEF Takes, Changes, Ends
<1>5. current \in DiskUsers \union {"boot"}
  BY <1>1, <1>4, Zenon DEF CanRead, Alone
<1>6. /\ u.me = v.me /\ u.fl = v.fl /\ u.sv = v.sv /\ u.held = v.held /\ u.isv = v.isv
      /\ u.elf = v.elf /\ u.out = v.out /\ u.rd = v.rd
      /\ u.ata[1] = "selected" => taskfile' = u.ata[2]
      /\ u.ata[1] = "started" => drive' = u.ata[2]
  <2>1. CASE Op = "select"
    <3>1. u = [v EXCEPT !.ata = <<"selected", Arg>>] /\ taskfile' = Arg
      BY <1>4, <2>1, Zenon DEF Changes, AtaPort
    <3> QED BY <1>1, <3>1, Zenon DEF ViewTypes
  <2>2. CASE Op = "command"
    <3>1. u = [v EXCEPT !.ata = <<"started", v.ata[2]>>] /\ drive' = taskfile /\ taskfile = v.ata[2]
      BY <1>1, <1>4, <2>2, Zenon DEF Changes, AtaPort, Fits
    <3> QED BY <1>1, <3>1, Zenon DEF ViewTypes
  <2>3. CASE Op = "transfer"
    <3>1. u = [v EXCEPT !.ata = Idle]
      BY <1>4, <2>3, Zenon DEF Changes
    <3> QED BY <1>1, <3>1, Zenon DEF ViewTypes, Idle
  <2> QED BY <1>3, <2>1, <2>2, <2>3, Zenon
<1>7. Fits(current, u)'
  BY <1>1, <1>2, <1>4, <1>6, Zenon DEF Fits, schedVars
<1>8. owner' \in [Locks -> Threads \union {None}]
  BY <1>2, Zenon DEF Inv, Sound
<1> QED BY <1>1, <1>2, <1>5, <1>6, <1>7, <1>8, PlainStep, Zenon DEF schedVars

(* A drive that fails keeps the invariant.                                 *)
LEMMA AtaFailsKept ==
  ASSUME Inv, NEW v, NEW u, Takes(v, u), AtaFails PROVE Inv'
<1>1. Fits(current, v) /\ v \in Views
  BY TakesFacts, Zenon
<1>2. CanRead(v)
  BY Zenon DEF AtaFails, Takes, Changes, Ends
<1>3. Runs(panic, v, Never)
  BY <1>1, <1>2, PanicRuns, Zenon DEF CanRead
<1>4. /\ todo' = [todo EXCEPT ![current] = panic]
      /\ UNCHANGED <<saved, schedVars, owner, ifl, inService, ready, devVars>>
      /\ keys' \in 0 .. MaxKeys /\ input' \in BOOLEAN
  BY ThenFacts, Zenon DEF AtaFails
<1> QED BY <1>1, <1>3, <1>4, SameViewStep, Zenon

(* hlt_loop keeps the invariant.                                           *)
LEMMA HaltKept ==
  ASSUME Inv, NEW v, NEW u, Takes(v, u), Halt PROVE Inv'
<1> DEFINE x == [v EXCEPT !.fl = FALSE]
           c == todo[current]
<1>1. /\ Fits(current, v) /\ v \in ViewTypes /\ c \in Seq(Steps) /\ c # <<>> /\ Runs(Tail(c), u, Never)
      /\ saved = [saved EXCEPT ![current] = v.sv] /\ current \in Threads
  BY TakesFacts, Zenon
<1>2. /\ todo' = todo /\ ifl' = FALSE
      /\ UNCHANGED <<saved, schedVars, owner, inService, ready, devVars>>
      /\ keys' \in 0 .. MaxKeys /\ input' \in BOOLEAN
  BY ThenFacts, Zenon DEF Halt
<1>3. /\ x \in ViewTypes /\ x.me = v.me /\ x.fl = FALSE /\ x.sv = v.sv /\ x.held = v.held /\ x.isv = v.isv
      /\ x.elf = v.elf /\ x.out = v.out /\ x.ata = v.ata /\ x.rd = v.rd
  BY <1>1, Zenon DEF ViewTypes
<1> HIDE DEF x
<1>4. x \in Views
  BY <1>3, Zenon DEF Views
<1>5. Fits(current, x)'
  BY <1>1, <1>2, <1>3, <1>4, Zenon DEF Fits, schedVars, devVars
<1>6. Head(c) \in Steps /\ c = <<Head(c)>> \o Tail(c) /\ Head(c)[1] = "halt"
  BY <1>1 DEF Halt, Op
<1>7. Step(x, Head(c), u)
  BY <1>6, Zenon DEF Step, Ends
<1>8. Runs(<<Head(c)>>, x, u)
  BY <1>6, <1>7, RunsOne, Zenon
<1>9. Runs(c, x, Never)
  <2>1. Runs(<<Head(c)>> \o Tail(c), x, Never)
    BY <1>1, <1>8, Compose, Zenon
  <2> QED BY <1>6, <2>1, Zenon
<1>10. todo' = [todo EXCEPT ![current] = c] /\ saved' = [saved EXCEPT ![current] = x.sv]
  BY <1>1, <1>2, <1>3, Zenon DEF Inv, Sound
<1> QED BY <1>2, <1>5, <1>9, <1>10, LocalStep, Zenon

(* Writing and reading the statics of a loaded program keep the invariant. *)
LEMMA ElfStaticsKept ==
  ASSUME Inv, NEW v, NEW u, Takes(v, u), ElfStatics PROVE Inv'
<1>1. /\ Fits(current, v) /\ v \in ViewTypes /\ v.me = current /\ Runs(Tail(todo[current]), u, Never)
      /\ saved = [saved EXCEPT ![current] = v.sv] /\ alive \intersect Children(current) \subseteq v.out
  BY TakesFacts, Zenon
<1>2. /\ todo' = [todo EXCEPT ![current] = Tail(todo[current])]
      /\ UNCHANGED <<saved, schedVars, owner, ifl, inService, ready, taskfile, drive>>
      /\ keys' \in 0 .. MaxKeys /\ input' \in BOOLEAN
  BY ThenFacts, Zenon DEF ElfStatics
<1>3. CASE Op = "load"
  <2>1. u = v /\ elfEntry' = elfEntry
    BY <1>3, Zenon DEF ElfStatics, Takes, Changes, Ends
  <2> QED BY <1>1, <1>2, <2>1, SameViewStep, Zenon DEF devVars
<1>4. CASE Op = "store"
  <2>1. current = "boot" /\ "shell" \notin v.out /\ u = [v EXCEPT !.elf = Arg] /\ u \in Views /\ elfEntry' = Arg
    BY <1>1, <1>4, Zenon DEF ElfStatics, Takes, Changes, Ends
  <2>2. /\ u.me = v.me /\ u.fl = v.fl /\ u.sv = v.sv /\ u.held = v.held /\ u.isv = v.isv
        /\ u.elf = Arg /\ u.out = v.out /\ u.ata = v.ata /\ u.rd = v.rd
    BY <1>1, <2>1, Zenon, SMT DEF ViewTypes, Takes
  <2>3. "shell" \notin alive
    BY <1>1, <2>1, Zenon DEF Children, Threads
  <2>4. Fits(current, u)'
    BY <1>1, <1>2, <2>1, <2>2, Zenon DEF Fits, schedVars
  <2>5. owner' \in [Locks -> Threads \union {None}]
    BY <1>2, Zenon DEF Inv, Sound
  <2> QED BY <1>1, <1>2, <2>1, <2>2, <2>3, <2>4, <2>5, PlainStep, Zenon DEF schedVars
<1> QED BY <1>3, <1>4, Zenon DEF ElfStatics

(* add_scancode keeps the invariant.                                       *)
LEMMA AddScancodeKept ==
  ASSUME Inv, NEW v, NEW u, Takes(v, u), AddScancode PROVE Inv'
<1> DEFINE x == IF keys < MaxKeys THEN <<>> ELSE print
<1>1. Fits(current, v) /\ v \in Views /\ Runs(Tail(todo[current]), u, Never)
  BY TakesFacts, Zenon
<1>2. /\ todo' = [todo EXCEPT ![current] = x \o Tail(todo[current])]
      /\ UNCHANGED <<saved, schedVars, owner, ifl, inService, ready, devVars>>
  BY ThenFacts, Zenon DEF AddScancode
<1>3. keys' \in 0 .. MaxKeys /\ input' \in BOOLEAN
  BY BootAssumption DEF AddScancode, Inv, Sound
<1>4. u = v /\ "writer" \notin v.held
  BY Zenon DEF AddScancode, Takes, Changes, Ends
<1>5. Runs(print, v, v) /\ Runs(<<>>, v, v)
  <2>1. "writer" \in Locks \ v.held /\ "writer" \notin NeedsSetup
    BY <1>4, Zenon DEF Locks, NeedsSetup
  <2> QED BY <1>1, <2>1, MaskedBriefRuns, RunsNothing, Zenon DEF print
<1>6. Runs(x, v, v)
  BY <1>5, Zenon
<1> HIDE DEF x
<1>7. Runs(x \o Tail(todo[current]), v, Never)
  BY <1>1, <1>4, <1>6, Compose, Zenon
<1> QED BY <1>1, <1>2, <1>3, <1>7, SameViewStep, Zenon

(* A round of the executor keeps the invariant.                            *)
LEMMA RunExecutorKept ==
  ASSUME Inv, NEW v, NEW u, Takes(v, u), RunExecutor PROVE Inv'
<1> DEFINE c == todo[current]
<1>1. /\ Fits(current, v) /\ v \in Views /\ Step(v, <<Op, Arg>>, u) /\ Runs(Tail(c), u, Never)
      /\ c \in Seq(Steps) /\ c # <<>>
  BY TakesFacts, Zenon
<1>2. /\ todo' = [todo EXCEPT ![current] = poll_task \o c]
      /\ UNCHANGED <<saved, schedVars, owner, ifl, inService, ready, devVars>>
  BY Zenon DEF RunExecutor
<1>3. keys' \in 0 .. MaxKeys /\ input' \in BOOLEAN
  BY BootAssumption DEF RunExecutor, Inv, Sound
<1>4. v.held \intersect {"writer", "input"} = {}
  BY Zenon DEF RunExecutor, Takes, Changes, Ends
<1>5. Runs(poll_task, v, v)
  BY <1>1, <1>4, PollTaskRuns, Zenon
<1>6. Runs(c, v, Never)
  <2>1. Head(c) \in Steps /\ c = <<Head(c)>> \o Tail(c) /\ Head(c) = <<Op, Arg>>
    BY <1>1 DEF Steps, Op, Arg
  <2>2. Runs(<<Head(c)>>, v, u)
    BY <1>1, <2>1, RunsOne, Zenon
  <2>3. Runs(<<Head(c)>> \o Tail(c), v, Never)
    BY <1>1, <2>2, Compose, Zenon
  <2> QED BY <2>1, <2>3, Zenon
<1>7. Runs(poll_task \o c, v, Never)
  BY <1>5, <1>6, Compose, Zenon
<1> QED BY <1>1, <1>2, <1>3, <1>7, SameViewStep, Zenon

(* push_input_byte keeps the invariant.                                    *)
LEMMA PushInputKept ==
  ASSUME Inv, NEW v, NEW u, Takes(v, u), PushInput PROVE Inv'
<1>1. Fits(current, v) /\ Runs(Tail(todo[current]), u, Never)
  BY TakesFacts, Zenon
<1>2. /\ todo' = [todo EXCEPT ![current] = Tail(todo[current])]
      /\ UNCHANGED <<saved, schedVars, owner, ifl, inService, ready, devVars>>
  BY ThenFacts, Zenon DEF PushInput
<1>3. keys' \in 0 .. MaxKeys /\ input' \in BOOLEAN
  BY Zenon DEF PushInput, Inv, Sound
<1>4. u = v
  BY Zenon DEF PushInput, Takes, Changes, Ends
<1> QED BY <1>1, <1>2, <1>3, <1>4, SameViewStep, Zenon

(* The shell's look at the input queue keeps the invariant.                *)
LEMMA PopInputKept ==
  ASSUME Inv, NEW v, NEW u, Takes(v, u), PopInput PROVE Inv'
<1> DEFINE r == Tail(todo[current])
           s == At("shell", {})
           k == Within("shell", {})
           y == OffView(k)
           leave == <<Unlock("input"), Restore, Restore>>
           Replies == IF input THEN {code \o sys_write : code \in RunCommand} ELSE {<<>>}
<1>1. Fits(current, v) /\ v \in Views /\ v \in ViewTypes /\ v.me = current /\ Runs(r, u, Never)
  BY TakesFacts, Zenon
<1>2. PICK x \in Replies :
        /\ todo' = [todo EXCEPT ![current] = (leave \o x \o sys_read_stdin) \o r]
        /\ UNCHANGED <<saved, schedVars, owner, ifl, inService, ready, devVars>>
  BY ThenFacts, Zenon DEF PopInput
<1>3. keys' \in 0 .. MaxKeys /\ input' \in BOOLEAN
  BY Zenon DEF PopInput, Inv, Sound
<1>4. /\ v.me = "shell" /\ v.held = {"input"} /\ v.fl = FALSE /\ v.sv = <<FALSE, TRUE>> /\ v.isv = {}
      /\ v.rd = Basics /\ v.out = {} /\ v.ata = Idle
  BY Zenon DEF PopInput, Takes, Changes, Ends
<1>5. v.elf = None
  BY <1>1, <1>4, Zenon DEF Fits
<1>6. "shell" \in Threads /\ "input" \in Locks /\ "input" \notin NeedsSetup
  BY Zenon DEF Threads, Locks, NeedsSetup
<1>7. s \in Views /\ k \in Views /\ k.held = {}
  BY <1>6, AtFacts, WithinFacts, Zenon
<1>8. v = Locking(y, "input")
  <2> DEFINE z == Locking(y, "input")
  <2>1. /\ ~k.fl /\ k.me = "shell" /\ k.isv = {} /\ k.sv = Enabled /\ k.rd = Basics /\ k.elf = None
        /\ k.out = {} /\ k.ata = Idle
    BY <1>6, WithinFacts
  <2> HIDE DEF k
  <2>2. y.sv = <<FALSE, TRUE>>
    <3>1. y.sv = <<k.fl>> \o k.sv /\ k.fl \in BOOLEAN
      BY <1>7, Zenon DEF OffView, Views, ViewTypes
    <3>2. k.fl = FALSE /\ k.sv = <<TRUE>>
      BY <2>1, <3>1, Zenon DEF Enabled
    <3>3. y.sv = <<FALSE>> \o <<TRUE>>
      BY <3>1, <3>2, Zenon
    <3> QED BY <3>3, SavedFlags, Zenon
  <2>3. z \in Views /\ Same(k, z) /\ z.fl = FALSE /\ z.held = k.held \union {"input"} /\ z.sv = y.sv
    BY <1>6, <1>7, Entering, Zenon
  <2> HIDE DEF y, z
  <2>4. z \in ViewTypes
    BY <2>3, Zenon DEF Views
  <2>5. z.sv = v.sv
    BY <1>4, <2>2, <2>3, Zenon
  <2>6. z.fl = v.fl /\ z.held = v.held
    BY <1>4, <1>7, <2>3, Zenon
  <2>7. z.me = v.me /\ z.isv = v.isv /\ z.rd = v.rd /\ z.elf = v.elf /\ z.out = v.out /\ z.ata = v.ata
    BY <1>4, <1>5, <2>1, <2>3, Zenon DEF Same
  <2>8. v \in ViewTypes
    BY <1>1, Zenon
  <2>9. z = v
    BY <2>4, <2>5, <2>6, <2>7, <2>8, SameFields, Zenon
  <2> QED BY <2>9, Zenon DEF z
<1>9. /\ y \in Views /\ Unlocking(v, "input") = y /\ y.sv # <<>> /\ Restoring(y) = k /\ k.sv # <<>>
      /\ Restoring(k) = s
  BY <1>6, <1>7, <1>8, Entering, OffFacts, Zenon DEF Within
<1> HIDE DEF s, k, y, r
<1>10. Runs(leave, v, s)
  <2>1. Step(v, Unlock("input"), y)
    BY <1>4, <1>9, Zenon DEF Step, Changes, Unlock
  <2>2. Step(y, Restore, k) /\ Step(k, Restore, s)
    BY <1>7, <1>9, Zenon DEF Step, Changes, Restore
  <2>3. Unlock("input") \in Steps /\ Restore \in Steps
    BY <1>6, Zenon DEF Unlock, Restore, Steps, Ops, Operands
  <2> QED BY <2>1, <2>2, <2>3, RunsThree, Zenon
<1>11. Runs(x, s, s)
  <2>1. CASE x = <<>>
    BY <1>7, <2>1, RunsNothing, Zenon
  <2>2. ASSUME NEW code \in RunCommand, x = code \o sys_write PROVE Runs(x, s, s)
    BY <2>2, RunCommandRuns, Zenon DEF s
  <2> QED BY <2>1, <2>2, Zenon
<1>12. Runs(sys_read_stdin, s, u)
  BY ReadStdinRuns, Zenon DEF s
<1> HIDE DEF leave
<1>13. Runs((leave \o x \o sys_read_stdin) \o r, v, Never)
  BY <1>1, <1>10, <1>11, <1>12, Compose, Zenon
<1> QED BY <1>1, <1>2, <1>3, <1>13, SameViewStep, Zenon

(* The delivery of an interrupt keeps the invariant.                       *)
LEMMA InterruptKept ==
  ASSUME Inv, NEW v, NEW u, Takes(v, u), NEW i \in Interrupts, NEW handler, Interrupt(i, handler),
         \A w \in Views : w.fl = TRUE => Runs(handler, Entered(w, i), w)
  PROVE  Inv'
<1> DEFINE y == Entered(v, i)
           c == todo[current]
<1>1. /\ Fits(current, v) /\ v \in Views /\ v \in ViewTypes /\ current \in Threads
      /\ v.sv = saved[current] /\ v.fl = ifl /\ v.isv = inService
      /\ c # <<>> /\ c \in Seq(Steps) /\ Step(v, <<Op, Arg>>, u) /\ Runs(Tail(c), u, Never)
      /\ (v.fl = TRUE => Open(v))
  BY TakesFacts, Zenon
<1>2. /\ todo' = [todo EXCEPT ![current] = handler \o c]
      /\ saved' = [saved EXCEPT ![current] = <<TRUE>> \o saved[current]]
      /\ inService' = inService \union {i} /\ ifl' = FALSE
      /\ UNCHANGED <<schedVars, owner, ready, devVars>>
      /\ keys' \in 0 .. MaxKeys /\ input' \in BOOLEAN
  BY ThenFacts, Zenon DEF Interrupt
<1>3. v.fl = TRUE
  <2>1. ifl
    BY Zenon DEF Interrupt
  <2>2. ifl = TRUE
    BY <2>1, Zenon DEF Inv, Sound
  <2> QED BY <1>1, <2>2, Zenon
<1>4. inService' = {i}
  BY <1>1, <1>2, <1>3, Zenon DEF Open
<1>5. y \in Views /\ y.fl = FALSE /\ y.held = v.held /\ y.isv = {i} /\ y.rd = v.rd
  BY <1>1, <1>3, EnteredFacts, Zenon
<1>6. y.me = v.me /\ y.sv = <<TRUE>> \o saved[current] /\ y.elf = v.elf /\ y.out = v.out /\ y.ata = v.ata
  BY <1>1, <1>3, Zenon DEF Entered, OffView, ViewTypes
<1>7. Runs(handler, y, v)
  BY <1>1, <1>3, Zenon
<1> HIDE DEF y
<1>8. saved' = [saved EXCEPT ![current] = y.sv] /\ saved'[current] = y.sv
  BY <1>1, <1>2, <1>6, Zenon DEF Inv, Sound
<1>9. Fits(current, y)'
  BY <1>1, <1>2, <1>4, <1>5, <1>6, <1>8, Zenon DEF Fits, schedVars, devVars
<1>10. Runs(c, v, Never)
  <2>1. Head(c) \in Steps /\ c = <<Head(c)>> \o Tail(c) /\ Head(c) = <<Op, Arg>>
    BY <1>1 DEF Steps, Op, Arg
  <2>2. Runs(<<Head(c)>>, v, u)
    BY <1>1, <2>1, RunsOne, Zenon
  <2>3. Runs(<<Head(c)>> \o Tail(c), v, Never)
    BY <1>1, <2>2, Compose, Zenon
  <2> QED BY <2>1, <2>3, Zenon
<1>11. Runs(handler \o c, y, Never)
  BY <1>7, <1>10, Compose, Zenon
<1> QED BY <1>2, <1>8, <1>9, <1>11, LocalStep, Zenon

(* The invariant holds at the kernel's entry point.                        *)
LEMMA InvAtFirst == ASSUME Init PROVE Inv
<1> DEFINE v == Early({})
<1>1. /\ v \in Views /\ v.me = "boot" /\ v.fl = FALSE /\ v.held = {} /\ v.rd = {}
  BY EarlyFacts
<1>2. v.sv = <<>> /\ v.isv = {} /\ v.elf = None /\ v.out = {} /\ v.ata = Idle
  BY Zenon DEF Early, Record, On
<1>3. Runs(kernel_main, v, Never)
  BY KernelMainRuns, Zenon
<1> HIDE DEF v
<1>4. "boot" \in Threads /\ None \notin Threads /\ Running = {"boot"}
  BY NoneIsNoThread DEF Init, Running, Range, Threads
<1>5. /\ todo["boot"] = kernel_main /\ saved["boot"] = <<>> /\ \A l \in Locks : owner[l] = None
      /\ \A t \in Threads \ {"boot"} : todo[t] = <<>> /\ saved[t] = <<>>
  BY <1>4, Zenon DEF Init
<1>6. Sound
  <2>1. kernel_main \in Code /\ <<>> \in Code /\ <<>> \in Seq(BOOLEAN) /\ <<>> \in Seq(Threads)
    BY <1>3 DEF Runs, Code
  <2>2. todo \in [Threads -> Code] /\ saved \in [Threads -> Seq(BOOLEAN)]
    BY <2>1, Zenon DEF Init
  <2>3. keys \in 0 .. MaxKeys
    BY BootAssumption DEF Init
  <2>4. "shell" # "boot" /\ Range(queue) = {}
    BY DEF Init, Range
  <2>5. /\ current = "boot" /\ queue = <<>> /\ alive = {"boot"} /\ zombie = None
        /\ ready = {} /\ inService = {} /\ owner = [l \in Locks |-> None]
    BY Zenon DEF Init
  <2>6. ifl \in BOOLEAN /\ input \in BOOLEAN
    BY Zenon DEF Init
  <2>7. \A i, j \in 1 .. Len(queue) : queue[i] = queue[j] => i = j
    BY <2>5
  <2>8. "shell" \notin alive /\ owner \in [Locks -> Threads \union {None}]
    BY <2>5, Zenon
  <2> QED BY <1>4, <2>1, <2>2, <2>3, <2>4, <2>5, <2>6, <2>7, <2>8, Zenon DEF Sound
<1>7. Fits("boot", v)
  <2>1. /\ current = "boot" /\ alive = {"boot"} /\ ready = {} /\ inService = {} /\ elfEntry = None
        /\ "boot" \notin Children("boot") /\ v.ata[1] = "idle" /\ None # "boot"
    BY <1>2, <1>4 DEF Init, Children, Idle
  <2>2. v.fl = ifl
    BY <1>1, Zenon DEF Init
  <2> QED BY <1>1, <1>2, <1>5, <2>1, <2>2, Zenon DEF Fits
<1>8. Coded("boot")
  BY <1>3, <1>5, <1>7, Zenon DEF Coded
<1>9. ASSUME NEW t \in Threads \ {"boot"} PROVE Gone(t)
  <2>1. "boot" \notin Children(t)
    BY Zenon DEF Children
  <2> QED BY <1>4, <1>5, <2>1, Zenon DEF Gone, Init
<1> QED BY <1>4, <1>6, <1>8, <1>9, Zenon DEF Inv

(* Every step keeps the invariant.                                         *)
LEMMA InvKept == ASSUME Inv, [Next]_vars PROVE Inv'
<1>1. PICK v, u : Takes(v, u)
  BY SomethingTaken, Zenon
<1>2. CASE UNCHANGED vars
  <2>1. UNCHANGED <<todo, saved, current, queue, zombie, alive, owner, ifl, inService, ready>>
        /\ UNCHANGED <<taskfile, drive, elfEntry, keys, input>>
    BY <1>2, Zenon DEF vars, schedVars, devVars, keyVars
  <2>2. Running' = Running /\ Sound'
    BY <2>1, Zenon DEF Inv, Sound, Running
  <2>3. ASSUME NEW t \in Running PROVE Coded(t)'
    <3>1. PICK w : Fits(t, w) /\ Runs(todo[t], w, Never)
      BY Zenon DEF Inv, Coded
    <3>2. Fits(t, w)'
      BY <2>1, <3>1, Zenon DEF Fits
    <3> QED BY <2>1, <3>1, <3>2, Zenon DEF Coded
  <2>4. ASSUME NEW t \in Threads \ Running PROVE Gone(t)'
    BY <2>1, Zenon DEF Inv, Gone
  <2> QED BY <2>2, <2>3, <2>4, Zenon DEF Inv
<1>3. CASE Acquire
  BY <1>1, <1>3, AcquireKept, Zenon
<1>4. CASE Spin
  BY <1>2, <1>4, Zenon DEF Spin
<1>5. CASE Release
  BY <1>1, <1>5, ReleaseKept, Zenon
<1>6. CASE SetFlag
  BY <1>1, <1>6, SetFlagKept, Zenon
<1>7. CASE Setup
  BY <1>1, <1>7, SetupKept, Zenon
<1>8. CASE Call
  BY <1>1, <1>8, CallKept, Zenon
<1>9. CASE TakeZombie
  BY <1>1, <1>9, TakeZombieKept, Zenon
<1>10. CASE Poll
  BY <1>1, <1>10, PollKept, Zenon
<1>11. CASE Spawn
  BY <1>1, <1>11, SpawnKept, Zenon
<1>12. CASE Switch
  BY <1>1, <1>12, SwitchKept, Zenon
<1>13. CASE Die
  BY <1>1, <1>13, DieKept, Zenon
<1>14. CASE EndOfInterrupt
  BY <1>1, <1>14, EndOfInterruptKept, Zenon
<1>15. CASE AtaPort
  BY <1>1, <1>15, AtaPortKept, Zenon
<1>16. CASE AtaFails
  BY <1>1, <1>16, AtaFailsKept, Zenon
<1>17. CASE Halt
  BY <1>1, <1>17, HaltKept, Zenon
<1>18. CASE ElfStatics
  BY <1>1, <1>18, ElfStaticsKept, Zenon
<1>19. CASE AddScancode
  BY <1>1, <1>19, AddScancodeKept, Zenon
<1>20. CASE RunExecutor
  BY <1>1, <1>20, RunExecutorKept, Zenon
<1>21. CASE PushInput
  BY <1>1, <1>21, PushInputKept, Zenon
<1>22. CASE PopInput
  BY <1>1, <1>22, PopInputKept, Zenon
<1>23. CASE Timer
  <2>1. "timer" \in Interrupts
    BY Zenon DEF Interrupts
  <2> QED BY <1>1, <1>23, <2>1, InterruptKept, TimerRuns, Zenon DEF Timer
<1>24. CASE Keyboard
  <2>1. "keyboard" \in Interrupts
    BY Zenon DEF Interrupts
  <2> QED BY <1>1, <1>24, <2>1, InterruptKept, KeyboardRuns, Zenon DEF Keyboard
<1> QED BY <1>2, <1>3, <1>4, <1>5, <1>6, <1>7, <1>8, <1>9, <1>10, <1>11, <1>12, <1>13, <1>14, <1>15,
           <1>16, <1>17, <1>18, <1>19, <1>20, <1>21, <1>22, <1>23, <1>24, Zenon DEF Next, CpuStep

(* The invariant holds in every state.                                     *)
LEMMA AlwaysSound == Spec => []Inv
<1>1. Init => Inv
  BY InvAtFirst, Zenon
<1>2. Inv /\ [Next]_vars => Inv'
  BY InvKept, Zenon
<1> QED BY <1>1, <1>2, PTL DEF Spec

-----------------------------------------------------------------------------
(* What it shows.                                                          *)

(* Whoever holds a lock runs, and has it by its view.                      *)
LEMMA HolderFacts ==
  ASSUME Inv, NEW l \in Locks, owner[l] # None
  PROVE  /\ owner[l] \in Running /\ owner[l] \in alive
         /\ \E v : Fits(owner[l], v) /\ l \in v.held
<1>1. owner[l] \in Threads
  BY Zenon DEF Inv, Sound
<1>2. owner[l] \in Running
  BY <1>1, Zenon DEF Inv, Gone
<1>3. \E v : Fits(owner[l], v)
  BY <1>2, Zenon DEF Inv, Coded
<1> QED BY <1>2, <1>3, Zenon DEF Inv, Sound, Fits

(* The type invariant of kernel_main and its threads: in particular that   *)
(* whatever runs, is queued, awaits reaping or holds a lock is in the      *)
(* thread table.                                                           *)
THEOREM TypeCorrect == Spec => []TypeOK
<1>1. Inv => TypeOK
  <2> SUFFICES ASSUME Inv PROVE TypeOK
    BY Zenon
  <2>1. ASSUME NEW t \in Threads, todo[t] # <<>> PROVE Head(todo[t])[2] \in Operands
    <3>1. todo[t] \in Seq(Ops \X Operands)
      BY Zenon DEF Inv, Sound, Code, Steps
    <3>2. Head(todo[t]) \in Ops \X Operands
      BY <2>1, <3>1
    <3> QED BY <3>2, Zenon
  <2>2. \A t \in Threads : saved[t] \in Seq(BOOLEAN)
    BY Zenon DEF Inv, Sound
  <2>3. {current} \union Range(queue) \union ({zombie} \ {None}) \subseteq alive
    BY Zenon DEF Inv, Sound, Running
  <2>4. \A l \in Locks : owner[l] \in alive \union {None}
    BY HolderFacts, Zenon
  <2> QED BY <2>1, <2>2, <2>3, <2>4, Zenon DEF Inv, Sound, TypeOK
<1> QED BY <1>1, AlwaysSound, PTL

(* A lock that its users take with interrupts off is held by the running   *)
(* thread only, with interrupts off, and found free by whoever takes it:   *)
(* println in a handler cannot hang the kernel.                            *)
THEOREM MaskedLocksAreFree == Spec => []MaskedLocksUncontended
<1>1. Inv => MaskedLocksUncontended
  <2> SUFFICES ASSUME Inv, NEW l \in MaskedLocks, owner[l] # None
               PROVE  /\ owner[l] = current /\ ~ifl
                      /\ ~(todo[current] # <<>> /\ Head(todo[current]) = Lock(l))
    BY Zenon DEF MaskedLocksUncontended
  <2>1. l \in Locks
    BY MaskedLocksMask, Zenon
  <2>2. PICK v : Fits(owner[l], v) /\ l \in v.held
    BY <2>1, HolderFacts, Zenon
  <2>3. v \in Views /\ v.fl \in BOOLEAN /\ ~Open(v)
    BY <2>2, MaskedLocksMask, Zenon DEF Fits, Open, Views, ViewTypes
  <2>4. owner[l] = current /\ v.fl = ifl
    BY <2>2, <2>3, Zenon DEF Fits
  <2>5. ~ifl
    <3>1. v.fl = FALSE
      BY <2>3, Zenon DEF Views
    <3> QED BY <2>4, <3>1, Zenon
  <2>6. ASSUME todo[current] # <<>>, Head(todo[current]) = Lock(l) PROVE FALSE
    <3>1. PICK w, u : Takes(w, u)
      BY SomethingTaken, Zenon
    <3>2. Op = "lock" /\ Arg = l
      BY <2>6 DEF Op, Arg, Lock
    <3>3. l \in w.held /\ l \in Masking(w)
      BY <2>1, <2>4, <3>1, TakesFacts, MaskedLocksMask, Zenon
    <3> QED BY <3>1, <3>2, <3>3, Zenon DEF Takes, Changes, Ends
  <2> QED BY <2>4, <2>5, <2>6, Zenon
<1> QED BY <1>1, AlwaysSound, PTL

(* Once kernel_main has set up the executor and the threads of its loops   *)
(* are gone, no lock is waited for with interrupts off, however many       *)
(* threads the loops have started.                                         *)
THEOREM NeverHangsOnceUp == Spec => []NoHangOnceUp
<1>1. Inv => NoHangOnceUp
  <2> SUFFICES ASSUME Inv, "executor" \in ready, Hung,
                      alive \intersect Range(ExitThreads \o IsolatedThreads) = {}
               PROVE  FALSE
    BY Zenon DEF NoHangOnceUp
  <2>1. PICK w, u : Takes(w, u)
    BY SomethingTaken, Zenon
  <2>2. /\ Fits(current, w) /\ w \in ViewTypes /\ w.me = current
        /\ \A l \in Locks : l \in w.held <=> owner[l] = current
    BY <2>1, TakesFacts, Zenon
  <2>3. Op = "lock" /\ owner[Arg] # None
    BY Zenon DEF Hung
  <2>4. Arg \in Locks
    BY <2>1, <2>2, <2>3, Zenon DEF Takes, Changes, Ends, ViewTypes
  <2>5. ASSUME NEW t \in alive, NEW v, Fits(t, v) PROVE Masking(v) = Locks
    <3>1. v.me = t /\ (t = "boot" => v.rd = ready) /\ t \notin Loops
      BY <2>5, LoopNames, Zenon DEF Fits
    <3> QED BY <3>1, Zenon DEF Masking
  <2>6. PICK v : Fits(owner[Arg], v) /\ Arg \in v.held /\ owner[Arg] \in alive
    BY <2>3, <2>4, HolderFacts, Zenon
  <2>7. ~Open(v)
    BY <2>4, <2>5, <2>6, Zenon DEF Open
  <2>8. owner[Arg] = current
    BY <2>6, <2>7, Zenon DEF Fits
  <2>9. Arg \in w.held /\ Masking(w) = Locks
    BY <2>2, <2>4, <2>5, <2>6, <2>8, Zenon
  <2> QED BY <2>1, <2>3, <2>4, <2>9, Zenon DEF Takes, Changes, Ends
<1> QED BY <1>1, AlwaysSound, PTL

(* The drive answers each reader with the sector it asked for, and a       *)
(* thread that starts a loaded program finds that program in the statics.  *)
THEOREM HandoversAreIntact == Spec => []HandedOverIntact
<1>1. Inv => HandedOverIntact
  <2> SUFFICES ASSUME Inv, NEW t \in alive, todo[t] # <<>>
               PROVE  /\ Head(todo[t])[1] = "transfer" => drive = Head(todo[t])[2]
                      /\ Head(todo[t])[1] = "load" => elfEntry = t
    BY Zenon DEF HandedOverIntact
  <2>1. t \in Running
    BY Zenon DEF Inv, Sound, Gone
  <2>2. PICK v : Fits(t, v) /\ Runs(todo[t], v, Never)
    BY <2>1, Zenon DEF Inv, Coded
  <2>3. v \in Views /\ v.me = t /\ (v.ata[1] = "started" => drive = v.ata[2])
    BY <2>2, Zenon DEF Fits
  <2>4. PICK u : Step(v, Head(todo[t]), u)
    BY <2>2, <2>3, CodeNeverEnds, Zenon
  <2>5. ASSUME Head(todo[t])[1] = "transfer" PROVE drive = Head(todo[t])[2]
    <3>1. v.ata = <<"started", Head(todo[t])[2]>>
      BY <2>3, <2>4, <2>5, Zenon DEF Step, Changes, Ends
    <3> QED BY <2>3, <3>1
  <2>6. ASSUME Head(todo[t])[1] = "load" PROVE elfEntry = t
    <3>1. t = "shell"
      BY <2>3, <2>4, <2>6, Zenon DEF Step, Changes, Ends
    <3> QED BY <3>1, Zenon DEF Inv, Sound
  <2> QED BY <2>5, <2>6, Zenon
<1> QED BY <1>1, AlwaysSound, PTL

(* Nothing is used before it is set up, by a handler or by a thread, and   *)
(* no thread runs with interrupts on and the timer's unacknowledged.       *)
THEOREM InterruptsFindAllReady == Spec => []InterruptsReady
<1>1. Inv => InterruptsReady
  <2> SUFFICES ASSUME Inv PROVE InterruptsReady
    BY Zenon
  <2>1. PICK v, u : Takes(v, u)
    BY SomethingTaken, Zenon
  <2>2. /\ Fits(current, v) /\ v.fl = ifl /\ v.isv = inService /\ (v.fl = TRUE => Open(v))
    BY <2>1, TakesFacts, Zenon
  <2>3. v.rd \subseteq ready
    <3>1. CASE current = "boot"
      BY <2>2, <3>1, Zenon DEF Fits
    <3>2. CASE current # "boot"
      <4>1. v.rd = Basics /\ current \in alive
        BY <2>2, <3>2, Zenon DEF Fits, Inv, Sound, Running
      <4> QED BY <3>2, <4>1, Zenon DEF Inv, Sound
    <3> QED BY <3>1, <3>2, Zenon
  <2>4. Op = "lock" /\ Arg \in NeedsSetup => Arg \in ready
    BY <2>1, <2>3, Zenon DEF Takes, Changes, Ends
  <2>5. Op = "add_scancode" => "scancodes" \in ready
    BY <2>1, <2>3, Zenon DEF Takes, Changes, Ends
  <2>6. Op = "run_executor" => "executor" \in ready
    BY <2>1, <2>3, Zenon DEF Takes, Changes, Ends
  <2>7. ASSUME ifl PROVE "timer" \notin inService
    <3>1. ifl = TRUE
      BY <2>7, Zenon DEF Inv, Sound
    <3> QED BY <2>2, <3>1, Zenon DEF Open
  <2> QED BY <2>4, <2>5, <2>6, <2>7, Zenon DEF InterruptsReady
<1> QED BY <1>1, AlwaysSound, PTL

=============================================================================
