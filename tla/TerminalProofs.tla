--------------------------- MODULE TerminalProofs ---------------------------
(***************************************************************************)
(* First the ring buffer by itself: it is a bounded first-in first-out     *)
(* queue, for every capacity and every set of values.  Then the terminal,  *)
(* whose task and shell share one: the types, the shell's history, what    *)
(* becomes of escape sequences, and what the screen shows.                 *)
(***************************************************************************)
EXTENDS Terminal, WellFoundedInduction, TLAPS

(* What handle_backspace leaves of a line.                                 *)
Front(l) == SubSeq(l, 1, Len(l) - 1)

(* The modulo of push and pop only ever subtracts the capacity once.       *)
LEMMA Wrap ==
  ASSUME NEW a \in 0 .. Capacity - 1, NEW b \in 0 .. Capacity
  PROVE  (a + b) % Capacity = IF a + b < Capacity THEN a + b ELSE a + b - Capacity
<1> DEFINE q == (a + b) \div Capacity
           r == (a + b) % Capacity
<1>1. Capacity \in Nat /\ Capacity > 0
  BY RingAssumption
<1>2. q \in Int /\ r \in 0 .. Capacity - 1 /\ a + b = Capacity * q + r
  BY <1>1
<1> HIDE DEF q, r
<1>3. q = 0 \/ q = 1
  <2>1. ~(q >= 2)
    BY <1>1, <1>2
  <2>2. ~(q <= -1)
    BY <1>1, <1>2
  <2> QED BY <1>2, <2>1, <2>2
<1>4. CASE q = 0
  BY <1>1, <1>2, <1>4 DEF r
<1>5. CASE q = 1
  BY <1>1, <1>2, <1>5 DEF r
<1> QED BY <1>3, <1>4, <1>5, Zenon

(* The index of every place of the ring is in the array.                   *)
LEMMA PlaceInArray ==
  ASSUME TypeOK, NEW i \in 0 .. Capacity
  PROVE  /\ Place(i) \in 0 .. Capacity - 1
         /\ Place(i) = IF head + i < Capacity THEN head + i ELSE head + i - Capacity
<1>1. Capacity \in Nat /\ head \in 0 .. Capacity - 1
  BY RingAssumption, Zenon DEF TypeOK
<1>2. Place(i) = IF head + i < Capacity THEN head + i ELSE head + i - Capacity
  BY <1>1, Wrap, Zenon DEF Place
<1> QED BY <1>1, <1>2

(* Two places less than a whole turn apart are different.                  *)
LEMMA PlacesDiffer ==
  ASSUME TypeOK, NEW i \in 0 .. Capacity - 1, NEW j \in 0 .. Capacity - 1, i # j
  PROVE  Place(i) # Place(j)
<1>1. Capacity \in Nat /\ head \in 0 .. Capacity - 1
  BY RingAssumption, Zenon DEF TypeOK
<1>2. i \in 0 .. Capacity /\ j \in 0 .. Capacity
  BY <1>1
<1> QED BY <1>1, <1>2, PlaceInArray

(* An empty ring has its indices in the array.                             *)
LEMMA InitType == Init => TypeOK
BY RingAssumption DEF Init, TypeOK

(* Push and pop keep the indices in the array.                             *)
LEMMA NextType == TypeOK /\ [Next]_vars => TypeOK'
<1> SUFFICES ASSUME TypeOK, [Next]_vars PROVE TypeOK'
  BY Zenon
<1>0. Capacity \in Nat /\ Capacity > 0
  BY RingAssumption
<1>1. ASSUME NEW v \in Values, Push(v) PROVE TypeOK'
  <2>1. slots' \in [0 .. Capacity - 1 -> Values]
    BY <1>1, Zenon DEF Push, TypeOK
  <2>2. len' \in 0 .. Capacity
    BY <1>0, <1>1 DEF Push, TypeOK
  <2> QED BY <1>1, <2>1, <2>2, Zenon DEF Push, TypeOK
<1>2. CASE Pop
  <2>1. Place(1) \in 0 .. Capacity - 1
    BY <1>0, PlaceInArray
  <2> QED BY <1>0, <1>2, <2>1 DEF Pop, TypeOK
<1>3. CASE PopNothing
  BY <1>3, Zenon DEF PopNothing, TypeOK
<1>4. CASE UNCHANGED vars
  BY <1>4, Zenon DEF vars, TypeOK
<1> QED BY <1>1, <1>2, <1>3, <1>4, Zenon DEF Next, PushFull

(* head and len never leave the array: no push or pop of ReadyQueue or     *)
(* InputQueue indexes out of bounds.                                       *)
THEOREM IndicesInArray == Spec => []TypeOK
BY InitType, NextType, PTL DEF Spec

-----------------------------------------------------------------------------
(* What the ring holds is a sequence of values: the len places from head   *)
(* on.                                                                     *)
LEMMA ContentsSeq ==
  ASSUME TypeOK
  PROVE  /\ Contents \in Seq(Values)
         /\ Len(Contents) = len
         /\ DOMAIN Contents = 1 .. len
         /\ \A i \in 1 .. len : Contents[i] = slots[Place(i - 1)]
<1>1. Capacity \in Nat /\ len \in Nat /\ len <= Capacity
  BY RingAssumption DEF TypeOK
<1>2. \A i \in 1 .. len : slots[Place(i - 1)] \in Values
  <2> SUFFICES ASSUME NEW i \in 1 .. len PROVE slots[Place(i - 1)] \in Values
    BY Zenon
  <2>1. i - 1 \in 0 .. Capacity
    BY <1>1
  <2>2. Place(i - 1) \in 0 .. Capacity - 1
    BY <2>1, PlaceInArray, Zenon
  <2> QED BY <2>2, Zenon DEF TypeOK
<1> QED BY <1>1, <1>2 DEF Contents

(* An accepted push appends.                                               *)
LEMMA PushAppends ==
  ASSUME TypeOK, TypeOK', NEW v \in Values, Push(v)
  PROVE  Contents' = Append(Contents, v)
<1>1. /\ Capacity \in Nat /\ len \in Nat /\ len < Capacity
      /\ len' = len + 1 /\ head' = head
      /\ slots' = [slots EXCEPT ![Place(len)] = v]
  BY RingAssumption DEF TypeOK, Push
<1>2. \A i : Place(i)' = Place(i)
  BY <1>1, Zenon DEF Place
<1>3. Place(len) \in 0 .. Capacity - 1
  BY <1>1, PlaceInArray
<1>4. Contents' = [i \in 1 .. len + 1 |-> slots'[Place(i - 1)]]
  BY <1>1, <1>2 DEF Contents
<1>5. ASSUME NEW i \in 1 .. len PROVE Contents'[i] = Contents[i]
  <2>1. i - 1 \in 0 .. Capacity - 1 /\ len \in 0 .. Capacity - 1 /\ i - 1 # len
    BY <1>1
  <2>2. Place(i - 1) # Place(len)
    BY <2>1, PlacesDiffer, Zenon
  <2>3. Place(i - 1) \in 0 .. Capacity - 1
    BY <1>1, <2>1, PlaceInArray
  <2>4. slots'[Place(i - 1)] = slots[Place(i - 1)]
    BY <1>1, <2>2, <2>3, Zenon DEF TypeOK
  <2> QED BY <1>1, <1>4, <2>4, ContentsSeq
<1>6. Contents'[len + 1] = v
  <2>1. len + 1 \in 1 .. len + 1 /\ (len + 1) - 1 = len
    BY <1>1
  <2>2. Contents'[len + 1] = slots'[Place(len)]
    BY <1>4, <2>1, Zenon
  <2> QED BY <1>1, <1>3, <2>2, Zenon DEF TypeOK
<1>7. /\ Contents \in Seq(Values) /\ Len(Contents) = len
      /\ Contents' \in Seq(Values) /\ Len(Contents') = len + 1
  <2>1. Contents \in Seq(Values) /\ Len(Contents) = len
        /\ \A i \in 1 .. len : Contents[i] \in Values
    BY ContentsSeq
  <2>2. \A i \in 1 .. len + 1 : slots'[Place(i - 1)] \in Values
    <3> SUFFICES ASSUME NEW i \in 1 .. len + 1 PROVE Contents'[i] \in Values
      BY <1>4, Zenon
    <3>1. i \in 1 .. len \/ i = len + 1
      BY <1>1
    <3> QED BY <1>5, <1>6, <2>1, <3>1, Zenon
  <2>3. Contents' \in Seq(Values) /\ Len(Contents') = len + 1
    BY <1>1, <1>4, <2>2
  <2> QED BY <2>1, <2>3, Zenon
<1> QED BY <1>1, <1>5, <1>6, <1>7

(* A pop of a non-empty buffer takes the oldest value and leaves the rest.   *)
LEMMA PopTakesHead ==
  ASSUME TypeOK, TypeOK', Pop
  PROVE  /\ Contents # <<>>
         /\ popped' = Head(Contents)
         /\ Contents' = Tail(Contents)
<1>1. /\ Capacity \in Nat /\ len \in 1 .. Capacity
      /\ head \in 0 .. Capacity - 1
      /\ len' = len - 1 /\ head' = Place(1) /\ slots' = slots
      /\ popped' = slots[head]
  BY RingAssumption DEF TypeOK, Pop
<1>2. /\ Contents \in Seq(Values) /\ Len(Contents) = len
      /\ \A i \in 1 .. len : Contents[i] = slots[Place(i - 1)]
  BY ContentsSeq, Zenon
<1>3. Place(0) = head
  BY <1>1, PlaceInArray
<1>4. Contents # <<>> /\ popped' = Head(Contents)
  BY <1>1, <1>2, <1>3
<1>5. ASSUME NEW i \in 1 .. len - 1 PROVE Place(i - 1)' = Place(i)
  <2>1. Place(1) = IF head + 1 < Capacity THEN head + 1 ELSE head + 1 - Capacity
    BY <1>1, PlaceInArray
  <2>2. i \in 0 .. Capacity /\ i - 1 \in 0 .. Capacity
    BY <1>1
  <2>3. Place(i) = IF head + i < Capacity THEN head + i ELSE head + i - Capacity
    BY <2>2, PlaceInArray, Zenon
  <2>4. head' \in 0 .. Capacity - 1
    BY Zenon DEF TypeOK
  <2>5. Place(i - 1)' = IF head' + (i - 1) < Capacity
                          THEN head' + (i - 1) ELSE head' + (i - 1) - Capacity
    BY <2>2, <2>4, Wrap, Zenon DEF Place
  <2> QED BY <1>1, <2>1, <2>3, <2>5
<1>6. Contents' = [i \in 1 .. len - 1 |-> slots[Place(i)]]
  <2>1. Contents' = [i \in 1 .. len - 1 |-> slots[Place(i - 1)']]
    BY <1>1, Zenon DEF Contents, Place
  <2> QED BY <1>5, <2>1, Zenon
<1>7. /\ Tail(Contents) \in Seq(Values) /\ Len(Tail(Contents)) = len - 1
      /\ \A i \in 1 .. len - 1 : Tail(Contents)[i] = Contents[i + 1]
  BY <1>1, <1>2
<1>8. ASSUME NEW i \in 1 .. len - 1 PROVE Tail(Contents)[i] = slots[Place(i)]
  <2>1. i + 1 \in 1 .. len /\ (i + 1) - 1 = i
    BY <1>1
  <2>2. Contents[i + 1] = slots[Place(i)]
    BY <1>2, <2>1, Zenon
  <2> QED BY <1>7, <2>2, Zenon
<1>9. Contents' \in Seq(Values) /\ Len(Contents') = len - 1
  <2>1. \A i \in 1 .. len - 1 : slots[Place(i)] \in Values
    <3> SUFFICES ASSUME NEW i \in 1 .. len - 1 PROVE Tail(Contents)[i] \in Values
      BY <1>8, Zenon
    <3> QED BY <1>1, <1>7
  <2> QED BY <1>1, <1>6, <2>1
<1>10. \A i \in 1 .. len - 1 : Contents'[i] = Tail(Contents)[i]
  BY <1>6, <1>8, Zenon
<1> QED BY <1>1, <1>4, <1>7, <1>9, <1>10

(* ReadyQueue and InputQueue implement the bounded first-in first-out      *)
(* queue: threads are scheduled in the order in which they became ready,   *)
(* bytes are read in the order in which they were typed.                   *)
THEOREM RingBufferIsFifo == Spec => IsFifo
<1>1. Init => Queue!FifoInit
  BY DEF Init, Queue!FifoInit, Contents
<1>2. ASSUME TypeOK, TypeOK', [Next]_vars PROVE [Queue!FifoNext]_(Queue!fifoVars)
  <2>1. ASSUME NEW v \in Values, Push(v) PROVE Queue!Enqueue(v)
    <3>1. Len(Contents) < Capacity
      BY <1>2, <2>1, ContentsSeq, Zenon DEF Push
    <3> QED BY <1>2, <2>1, <3>1, PushAppends, Zenon DEF Queue!Enqueue, Push
  <2>2. CASE Pop
    BY <1>2, <2>2, PopTakesHead, Zenon DEF Queue!Dequeue, Queue!FifoNext
  <2>3. CASE PopNothing
    <3>1. Contents = <<>> /\ Contents' = Contents
      BY <2>3 DEF PopNothing, Contents, Place
    <3> QED BY <2>3, <3>1, Zenon DEF PopNothing, Queue!DequeueNothing, Queue!FifoNext
  <2>4. CASE UNCHANGED vars
    BY <2>4, Zenon DEF vars, Queue!fifoVars, Contents, Place
  <2> QED BY <1>2, <2>1, <2>2, <2>3, <2>4, Zenon DEF Next, PushFull, Queue!FifoNext
<1> QED
  BY <1>1, <1>2, IndicesInArray, PTL DEF Spec, IsFifo, Queue!FifoSpec

-----------------------------------------------------------------------------
(* The writer.  What is written, and what the bottom row may hold.         *)
Marks == Values \union {Blank, ">", "square", "spawn failed"}
Screens == [cells : [0 .. BUFFER_WIDTH - 1 -> Marks], col : 0 .. BUFFER_WIDTH]

(* What may be in the line: the shell acts on the other bytes.             *)
Plain == Values \ Control

(* What the assumptions on the sizes say.                                  *)
LEMMA Sizes ==
  /\ LINE_BUF_SIZE \in Nat /\ LINE_BUF_SIZE > 0
  /\ HISTORY_CAPACITY \in Nat /\ HISTORY_CAPACITY > 0
  /\ BUFFER_WIDTH \in Nat /\ BUFFER_WIDTH >= 2 + LINE_BUF_SIZE
  /\ Capacity \in Nat /\ Capacity > 0
BY TerminalAssumption, RingAssumption

(* Every byte has a mark on the screen, and so have the prompt and the     *)
(* blank.                                                                  *)
LEMMA MarksFacts == Values \subseteq Marks /\ {Blank, ">", "square", "spawn failed"} \subseteq Marks
BY Zenon DEF Marks

(* Induction, with a set in the place of a predicate.                      *)
LEMMA InductionOnNat ==
  ASSUME NEW T, 0 \in T, \A n \in Nat : n \in T => n + 1 \in T
  PROVE  \A n \in Nat : n \in T
<1> SUFFICES ASSUME NEW m \in Nat, m \notin T PROVE FALSE
  BY Zenon
<1> DEFINE Less == {p \in Nat \X Nat : p[1] < p[2]}
           Out == {n \in Nat : n \notin T}
<1>1. PICK s \in Out : \A r \in Out : <<r, s>> \notin Less
  <2>1. IsWellFoundedOn(Less, Nat)
    BY NatLessThanWellFounded, Zenon DEF OpToRel
  <2>2. Out \subseteq Nat /\ Out # {}
    BY Zenon
  <2> HIDE DEF Less, Out
  <2> QED BY <2>1, <2>2, WFMin, Zenon
<1>2. \A a, b \in Nat : a < b => <<a, b>> \in Less
  BY Zenon
<1> HIDE DEF Less
<1>3. s \in Nat /\ s # 0
  BY Zenon
<1>4. s - 1 \in Nat /\ s - 1 < s /\ (s - 1) + 1 = s
  BY <1>3
<1>5. s - 1 \notin T
  BY <1>4, Zenon
<1> QED BY <1>1, <1>2, <1>3, <1>4, <1>5, Zenon

(* new_line leaves a row of blanks and the column at its beginning.        *)
LEMMA ClearedType == Cleared \in Screens /\ Cleared.col = 0
                     /\ \A c \in 0 .. BUFFER_WIDTH - 1 : Cleared.cells[c] = Blank
BY Sizes DEF Cleared, Screens, Marks

(* A byte that is none of the two the writer acts on.                      *)
LEMMA CharWritten ==
  ASSUME NEW s \in Screens, NEW b \in Marks, b \notin {"newline", "backspace"}
  PROVE  LET t == write_byte(s, b) IN
         /\ t \in Screens
         /\ s.col < BUFFER_WIDTH =>
              /\ t.col = s.col + 1 /\ t.cells[s.col] = b
              /\ \A c \in 0 .. BUFFER_WIDTH - 1 : c # s.col => t.cells[c] = s.cells[c]
<1> DEFINE t == IF s.col >= BUFFER_WIDTH THEN Cleared ELSE s
<1>1. write_byte(s, b) = [cells |-> [t.cells EXCEPT ![t.col] = b], col |-> t.col + 1]
  BY Zenon DEF write_byte
<1>2. t \in Screens /\ t.col < BUFFER_WIDTH /\ (s.col < BUFFER_WIDTH => t = s)
  BY Sizes, ClearedType DEF Screens
<1> HIDE DEF t
<1>3. /\ t.cells \in [0 .. BUFFER_WIDTH - 1 -> Marks] /\ t.col \in 0 .. BUFFER_WIDTH - 1
      /\ t.col + 1 \in 0 .. BUFFER_WIDTH
  BY <1>2, Sizes DEF Screens
<1>4. PICK d : d = [t.cells EXCEPT ![t.col] = b]
  BY Zenon
<1>5. /\ d \in [0 .. BUFFER_WIDTH - 1 -> Marks] /\ d[t.col] = b
      /\ \A c \in 0 .. BUFFER_WIDTH - 1 : c # t.col => d[c] = t.cells[c]
  BY <1>3, <1>4, Zenon
<1>6. write_byte(s, b) = [cells |-> d, col |-> t.col + 1]
  BY <1>1, <1>4, Zenon
<1>7. write_byte(s, b) \in Screens
  BY <1>3, <1>5, <1>6 DEF Screens
<1> QED BY <1>2, <1>5, <1>6, <1>7

(* write_byte of a backspace blanks the cell to the left and nothing else. *)
LEMMA BackspaceWritten ==
  ASSUME NEW s \in Screens
  PROVE  LET t == write_byte(s, "backspace") IN
         /\ t \in Screens
         /\ s.col > 0 =>
              /\ t.col = s.col - 1 /\ t.cells[s.col - 1] = Blank
              /\ \A c \in 0 .. BUFFER_WIDTH - 1 : c # s.col - 1 => t.cells[c] = s.cells[c]
<1>1. CASE s.col = 0
  BY <1>1 DEF write_byte, Screens
<1>2. CASE s.col > 0
  <2>1. write_byte(s, "backspace") = [cells |-> [s.cells EXCEPT ![s.col - 1] = Blank], col |-> s.col - 1]
    BY <1>2 DEF write_byte
  <2>2. /\ s.cells \in [0 .. BUFFER_WIDTH - 1 -> Marks] /\ s.col - 1 \in 0 .. BUFFER_WIDTH - 1
        /\ s.col - 1 \in 0 .. BUFFER_WIDTH /\ Blank \in Marks
    <3>1. s.cells \in [0 .. BUFFER_WIDTH - 1 -> Marks] /\ s.col \in 0 .. BUFFER_WIDTH /\ Blank \in Marks
      BY MarksFacts, Zenon DEF Screens
    <3> QED BY <1>2, <3>1, Sizes
  <2>3. PICK i, m : i = s.col - 1 /\ m = Blank
    BY Zenon
  <2>4. write_byte(s, "backspace") = [cells |-> [s.cells EXCEPT ![i] = m], col |-> i]
    BY <2>1, <2>3, Zenon
  <2>5. /\ s.cells \in [0 .. BUFFER_WIDTH - 1 -> Marks] /\ i \in 0 .. BUFFER_WIDTH - 1
        /\ i \in 0 .. BUFFER_WIDTH /\ m \in Marks
    BY <2>2, <2>3, Zenon
  <2>6. LET t == write_byte(s, "backspace") IN
        /\ t \in Screens /\ t.col = i /\ t.cells[i] = m
        /\ \A c \in 0 .. BUFFER_WIDTH - 1 : c # i => t.cells[c] = s.cells[c]
    <3>1. PICK d : d = [s.cells EXCEPT ![i] = m]
      BY Zenon
    <3>2. /\ d \in [0 .. BUFFER_WIDTH - 1 -> Marks] /\ d[i] = m
          /\ \A c \in 0 .. BUFFER_WIDTH - 1 : c # i => d[c] = s.cells[c]
      BY <2>5, <3>1, Zenon
    <3>3. write_byte(s, "backspace") = [cells |-> d, col |-> i]
      BY <2>4, <3>1, Zenon
    <3>4. [cells |-> d, col |-> i] \in Screens
      BY <2>5, <3>2, Zenon DEF Screens
    <3>5. [cells |-> d, col |-> i].cells = d /\ [cells |-> d, col |-> i].col = i
      BY Zenon
    <3> QED BY <3>2, <3>3, <3>4, <3>5, Zenon
  <2> QED BY <2>3, <2>6, Zenon
<1> QED BY <1>1, <1>2 DEF Screens

(* write_byte of a newline clears the row, whatever it held.               *)
LEMMA NewlineWritten ==
  ASSUME NEW s
  PROVE  write_byte(s, "newline") = Cleared
BY Zenon DEF write_byte

(* write_byte stays inside the row.                                        *)
LEMMA ByteWritten ==
  ASSUME NEW s \in Screens, NEW b \in Marks
  PROVE  write_byte(s, b) \in Screens
BY CharWritten, BackspaceWritten, NewlineWritten, ClearedType, Zenon

(* What write_string shows for a byte is a mark of the screen.             *)
LEMMA GlyphType ==
  ASSUME NEW b \in Marks
  PROVE  Glyph(b) \in Marks
BY Zenon DEF Glyph, Marks

-----------------------------------------------------------------------------
(* What the recursion of write_string computes: the screen after the first *)
(* 0, 1, ... n bytes of the text.                                          *)
Writes(f, s, text, n) ==
  f = [i \in 0 .. n |-> IF i = 0 THEN s ELSE write_byte(f[i - 1], Glyph(text[i]))]

(* A text can be written byte by byte, however long it is.                 *)
LEMMA WritingExists ==
  ASSUME NEW s, NEW text, NEW n \in Nat
  PROVE  \E f : Writes(f, s, text, n)
<1> DEFINE T == {m \in Nat : \E f : Writes(f, s, text, m)}
<1>1. 0 \in T
  <2> DEFINE f == [i \in 0 .. 0 |-> s]
  <2>1. f = [i \in 0 .. 0 |-> IF i = 0 THEN s ELSE write_byte(f[i - 1], Glyph(text[i]))]
    OBVIOUS
  <2> HIDE DEF f
  <2> QED BY <2>1, Zenon DEF Writes
<1>2. ASSUME NEW m \in Nat, m \in T PROVE m + 1 \in T
  <2>1. PICK f : Writes(f, s, text, m)
    BY <1>2, Zenon
  <2>2. /\ DOMAIN f = 0 .. m
        /\ \A i \in 0 .. m : f[i] = IF i = 0 THEN s ELSE write_byte(f[i - 1], Glyph(text[i]))
    BY <2>1, Zenon DEF Writes
  <2> DEFINE g == [i \in 0 .. m + 1 |-> IF i = m + 1 THEN write_byte(f[m], Glyph(text[m + 1])) ELSE f[i]]
             h == [i \in 0 .. m + 1 |-> IF i = 0 THEN s ELSE write_byte(g[i - 1], Glyph(text[i]))]
  <2>3. \A i \in 0 .. m : g[i] = f[i]
    OBVIOUS
  <2>4. ASSUME NEW i \in 0 .. m + 1 PROVE g[i] = h[i]
    <3>1. CASE i = 0
      BY <2>2, <2>3, <3>1
    <3>2. CASE i \in 1 .. m
      <4>1. i - 1 \in 0 .. m /\ i \in 0 .. m /\ i # 0
        BY <3>2
      <4>2. g[i] = write_byte(f[i - 1], Glyph(text[i])) /\ g[i - 1] = f[i - 1]
        BY <2>2, <2>3, <4>1, Zenon
      <4> QED BY <4>1, <4>2, Zenon
    <3>3. CASE i = m + 1
      <4>1. i # 0 /\ i - 1 = m /\ m \in 0 .. m
        BY <3>3
      <4>2. g[i - 1] = f[m]
        BY <2>3, <4>1, Zenon
      <4> QED BY <3>3, <4>1, <4>2, Zenon
    <3> QED BY <3>1, <3>2, <3>3
  <2>5. DOMAIN g = 0 .. m + 1 /\ DOMAIN h = 0 .. m + 1 /\ g = [i \in DOMAIN g |-> g[i]] /\ h = [i \in DOMAIN h |-> h[i]]
    OBVIOUS
  <2> HIDE DEF g
  <2>6. g = h
    BY <2>4, <2>5, Zenon
  <2> QED BY <2>6 DEF Writes
<1> HIDE DEF T
<1>3. n \in T
  BY <1>1, <1>2, InductionOnNat, Zenon
<1> QED BY <1>3, Zenon DEF T

(* write_string is write_byte for every byte in turn.                      *)
LEMMA WriteString ==
  ASSUME NEW s \in Screens, NEW text \in Seq(Marks)
  PROVE  \E f \in [0 .. Len(text) -> Screens] :
           /\ f[0] = s /\ write_string(s, text) = f[Len(text)]
           /\ \A i \in 1 .. Len(text) : f[i] = write_byte(f[i - 1], Glyph(text[i]))
<1> DEFINE n == Len(text)
           F == CHOOSE f : f = [i \in 0 .. n |-> IF i = 0 THEN s ELSE write_byte(f[i - 1], Glyph(text[i]))]
<1>1. n \in Nat
  OBVIOUS
<1>2. Writes(F, s, text, n)
  <2>1. \E f : Writes(f, s, text, n)
    BY <1>1, WritingExists, Zenon
  <2> QED BY <2>1, Zenon DEF Writes
<1>3. write_string(s, text) = F[n]
  BY Zenon DEF write_string
<1> HIDE DEF F
<1>4. DOMAIN F = 0 .. n /\ F[0] = s /\ \A i \in 1 .. n : F[i] = write_byte(F[i - 1], Glyph(text[i]))
  <2>1. \A i \in 1 .. n : i \in 0 .. n /\ i # 0
    BY <1>1
  <2>2. 0 \in 0 .. n
    BY <1>1
  <2> QED BY <1>2, <2>1, <2>2, Zenon DEF Writes
<1>5. \A i \in 0 .. n : F[i] \in Screens
  <2> DEFINE T == {i \in Nat : i <= n => F[i] \in Screens}
  <2>1. 0 \in T
    BY <1>4, Zenon
  <2>2. ASSUME NEW i \in Nat, i \in T PROVE i + 1 \in T
    <3> SUFFICES ASSUME i + 1 <= n PROVE F[i + 1] \in Screens
      OBVIOUS
    <3>1. i + 1 \in 1 .. n /\ (i + 1) - 1 = i /\ F[i] \in Screens
      BY <1>1, <2>2
    <3>2. F[i + 1] = write_byte(F[i], Glyph(text[i + 1]))
      BY <1>4, <3>1, Zenon
    <3>3. Glyph(text[i + 1]) \in Marks
      BY <3>1, GlyphType
    <3> QED BY <3>1, <3>2, <3>3, ByteWritten, Zenon
  <2> HIDE DEF T
  <2>3. \A i \in Nat : i \in T
    BY <2>1, <2>2, InductionOnNat, Zenon
  <2> QED BY <1>1, <2>3 DEF T
<1>6. F = [i \in 0 .. n |-> F[i]]
  BY <1>2, Zenon DEF Writes
<1>7. F \in [0 .. n -> Screens]
  BY <1>5, <1>6, Zenon
<1> QED BY <1>3, <1>4, <1>7, Zenon

(* write_string stays inside the row.                                      *)
LEMMA WriteType ==
  ASSUME NEW s \in Screens, NEW text \in Seq(Marks)
  PROVE  write_string(s, text) \in Screens
<1>1. Len(text) \in 0 .. Len(text)
  OBVIOUS
<1> QED BY <1>1, WriteString

(* write_string of one byte is write_byte.                                 *)
LEMMA WriteOne ==
  ASSUME NEW s \in Screens, NEW b \in Marks
  PROVE  write_string(s, <<b>>) = write_byte(s, Glyph(b))
<1>1. <<b>> \in Seq(Marks) /\ Len(<<b>>) = 1 /\ <<b>>[1] = b
  OBVIOUS
<1>2. PICK t : t = <<b>>
  BY Zenon
<1>3. PICK f \in [0 .. Len(t) -> Screens] :
           /\ f[0] = s /\ write_string(s, t) = f[Len(t)]
           /\ \A i \in 1 .. Len(t) : f[i] = write_byte(f[i - 1], Glyph(t[i]))
  <2>1. t \in Seq(Marks)
    BY <1>1, <1>2, Zenon
  <2> QED BY <2>1, WriteString, Zenon
<1>4. Len(t) = 1 /\ t[1] = b
  BY <1>1, <1>2, Zenon
<1>5. f[1] = write_byte(f[0], Glyph(t[1]))
  BY <1>3, <1>4
<1> QED BY <1>2, <1>3, <1>4, <1>5, Zenon

-----------------------------------------------------------------------------
(* The screen shows the prompt and the first n characters of l.            *)
Cell(l, n, c) ==
  IF c = 0 THEN ">" ELSE IF 1 < c /\ c < 2 + n THEN l[c - 1] ELSE Blank

Shows(s, l, n) ==
  /\ s.col = 2 + n
  /\ \A c \in 0 .. BUFFER_WIDTH - 1 : s.cells[c] = Cell(l, n, c)

Lines == {l \in Seq(Plain) : Len(l) <= LINE_BUF_SIZE}

(* A byte that is no control character is shown as it is.                  *)
LEMMA PlainFacts ==
  ASSUME NEW b \in Plain
  PROVE  Glyph(b) = b /\ b \in Marks /\ b \in Values /\ b \notin {"newline", "backspace"}
BY MarksFacts, Zenon DEF Plain, Glyph, Control

(* A row that shows the prompt alone does so for every line.               *)
LEMMA ShowsNothing ==
  ASSUME NEW s, NEW l, NEW m, Shows(s, l, 0)
  PROVE  Shows(s, m, 0)
BY DEF Shows, Cell

(* Writing the next character of a line shows one more of them.            *)
LEMMA ShowsNext ==
  ASSUME NEW s \in Screens, NEW l \in Seq(Plain), NEW n \in Nat, n < Len(l), 2 + n < BUFFER_WIDTH,
         Shows(s, l, n)
  PROVE  Shows(write_byte(s, Glyph(l[n + 1])), l, n + 1)
<1> DEFINE b == l[n + 1]
           t == write_byte(s, b)
<1>1. b \in Plain
  OBVIOUS
<1>2. Glyph(b) = b /\ b \in Marks /\ b \notin {"newline", "backspace"}
  BY <1>1, PlainFacts, Zenon
<1>3. s.col = 2 + n
  BY Zenon DEF Shows
<1> HIDE DEF b
<1>4. /\ t.col = 2 + n + 1 /\ t.cells[2 + n] = b
      /\ \A c \in 0 .. BUFFER_WIDTH - 1 : c # 2 + n => t.cells[c] = s.cells[c]
  BY <1>2, <1>3, CharWritten
<1> HIDE DEF t
<1>5. ASSUME NEW c \in 0 .. BUFFER_WIDTH - 1 PROVE t.cells[c] = Cell(l, n + 1, c)
  <2>1. CASE c = 2 + n
    BY <1>4, <2>1 DEF Cell, b
  <2>2. CASE c # 2 + n
    BY <1>4, <2>2 DEF Cell, Shows
  <2> QED BY <2>1, <2>2, Zenon
<1>6. t.col = 2 + (n + 1)
  BY <1>4
<1> QED BY <1>2, <1>5, <1>6, Zenon DEF Shows, t, b

(* A backspace shows one character less.                                   *)
LEMMA ShowsPrevious ==
  ASSUME NEW s \in Screens, NEW l, NEW n \in Nat, n # 0, Shows(s, l, n)
  PROVE  Shows(write_byte(s, Glyph("backspace")), l, n - 1)
<1> DEFINE t == write_byte(s, "backspace")
<1>1. s.col = 2 + n /\ s.col - 1 = 1 + n /\ s.col > 0 /\ Glyph("backspace") = "backspace"
  BY DEF Shows, Glyph
<1>2. /\ t.col = 1 + n /\ t.cells[1 + n] = Blank
      /\ \A c \in 0 .. BUFFER_WIDTH - 1 : c # 1 + n => t.cells[c] = s.cells[c]
  BY <1>1, BackspaceWritten, Zenon
<1> HIDE DEF t
<1>3. ASSUME NEW c \in 0 .. BUFFER_WIDTH - 1 PROVE t.cells[c] = Cell(l, n - 1, c)
  <2>1. CASE c = 1 + n
    BY <1>2, <2>1 DEF Cell
  <2>2. CASE c # 1 + n
    BY <1>2, <2>2 DEF Cell, Shows
  <2> QED BY <2>1, <2>2, Zenon
<1>4. t.col = 2 + (n - 1)
  BY <1>2
<1> QED BY <1>1, <1>3, <1>4, Zenon DEF Shows, t

(* After a new line and the prompt the row shows nothing else.             *)
LEMMA ShowsPrompt ==
  ASSUME NEW s \in Screens, NEW l
  PROVE  Shows(write_string(s, <<"newline", ">", Blank>>), l, 0)
<1>1. PICK t : t = <<"newline", ">", Blank>>
  BY Zenon
<1>2. /\ t \in Seq(Marks) /\ Len(t) = 3 /\ t[1] = "newline" /\ t[2] = ">" /\ t[3] = Blank
  <2>1. "newline" \in Marks /\ ">" \in Marks /\ Blank \in Marks
    BY MarksFacts, TerminalAssumption, Zenon DEF Control
  <2> QED BY <1>1, <2>1
<1>3. PICK f \in [0 .. Len(t) -> Screens] :
           /\ f[0] = s /\ write_string(s, t) = f[Len(t)]
           /\ \A i \in 1 .. Len(t) : f[i] = write_byte(f[i - 1], Glyph(t[i]))
  BY <1>2, WriteString, Zenon
<1>4. Glyph("newline") = "newline" /\ Glyph(">") = ">" /\ Glyph(Blank) = Blank
  BY Zenon DEF Glyph, Blank
<1>5. f[1] = Cleared
  <2>1. f[1] = write_byte(f[0], "newline")
    BY <1>2, <1>3, <1>4
  <2> QED BY <2>1, NewlineWritten, Zenon
<1>6. /\ f[2] = write_byte(f[1], ">") /\ f[3] = write_byte(f[2], Blank)
      /\ f[1] \in Screens /\ f[2] \in Screens /\ f[3] \in Screens
  BY <1>2, <1>3, <1>4
<1>7. ">" \in Marks /\ ">" \notin {"newline", "backspace"} /\ Blank \in Marks /\ Blank \notin {"newline", "backspace"}
  BY MarksFacts, Zenon DEF Blank
<1>8. /\ f[1].col = 0 /\ f[1].col < BUFFER_WIDTH /\ \A c \in 0 .. BUFFER_WIDTH - 1 : f[1].cells[c] = Blank
  BY <1>5, Sizes, ClearedType
<1>9. /\ f[2].col = 1 /\ f[2].col < BUFFER_WIDTH /\ f[2].cells[0] = ">"
      /\ \A c \in 0 .. BUFFER_WIDTH - 1 : c # 0 => f[2].cells[c] = Blank
  <2>1. /\ f[2].col = f[1].col + 1 /\ f[2].cells[f[1].col] = ">"
        /\ \A c \in 0 .. BUFFER_WIDTH - 1 : c # f[1].col => f[2].cells[c] = f[1].cells[c]
    BY <1>6, <1>7, <1>8, CharWritten
  <2>2. 1 < BUFFER_WIDTH
    BY Sizes
  <2> QED BY <1>8, <2>1, <2>2
<1>10. /\ f[3].col = 2 /\ f[3].cells[1] = Blank
       /\ \A c \in 0 .. BUFFER_WIDTH - 1 : c # 1 => f[3].cells[c] = f[2].cells[c]
  BY <1>6, <1>7, <1>9, CharWritten
<1>11. \A c \in 0 .. BUFFER_WIDTH - 1 : f[3].cells[c] = Cell(l, 0, c)
  BY <1>9, <1>10 DEF Cell
<1> QED BY <1>1, <1>2, <1>3, <1>10, <1>11 DEF Shows

(* Erasing takes away as many characters as are shown.                     *)
LEMMA ShowsErased ==
  ASSUME NEW s \in Screens, NEW l, NEW n \in Nat, Shows(s, l, n)
  PROVE  Shows(write_string(s, Backspaces(n)), l, 0)
<1>1. PICK t : t = Backspaces(n)
  BY Zenon
<1>2. t \in Seq(Marks) /\ Len(t) = n /\ \A i \in 1 .. n : t[i] = "backspace"
  <2>1. "backspace" \in Marks
    BY MarksFacts, TerminalAssumption, Zenon DEF Control
  <2> QED BY <1>1, <2>1 DEF Backspaces
<1>3. PICK f \in [0 .. Len(t) -> Screens] :
           /\ f[0] = s /\ write_string(s, t) = f[Len(t)]
           /\ \A i \in 1 .. Len(t) : f[i] = write_byte(f[i - 1], Glyph(t[i]))
  BY <1>2, WriteString, Zenon
<1> DEFINE T == {i \in Nat : i <= n => Shows(f[i], l, n - i)}
<1>4. 0 \in T
  BY <1>3
<1>5. ASSUME NEW i \in Nat, i \in T PROVE i + 1 \in T
  <2> SUFFICES ASSUME i + 1 <= n PROVE Shows(f[i + 1], l, n - (i + 1))
    OBVIOUS
  <2>1. /\ i + 1 \in 1 .. n /\ (i + 1) - 1 = i /\ i \in 0 .. n /\ Shows(f[i], l, n - i)
        /\ n - i \in Nat /\ n - i # 0 /\ n - (i + 1) = (n - i) - 1
    BY <1>5
  <2>2. f[i] \in Screens /\ f[i + 1] = write_byte(f[i], Glyph("backspace"))
    BY <1>2, <1>3, <2>1, Zenon
  <2> QED BY <2>1, <2>2, ShowsPrevious, Zenon
<1> HIDE DEF T
<1>6. n \in T
  BY <1>4, <1>5, InductionOnNat, Zenon
<1>7. Shows(f[n], l, 0)
  BY <1>6 DEF T
<1> QED BY <1>1, <1>2, <1>3, <1>7, Zenon

(* Redrawing adds the characters of the line.                              *)
LEMMA ShowsRedrawn ==
  ASSUME NEW s \in Screens, NEW l \in Lines, Shows(s, l, 0)
  PROVE  Shows(write_string(s, l), l, Len(l))
<1> DEFINE n == Len(l)
<1>1. l \in Seq(Plain) /\ n \in Nat /\ n <= LINE_BUF_SIZE
  BY DEF Lines
<1>2. l \in Seq(Marks)
  <2>1. Plain \subseteq Marks
    BY PlainFacts, Zenon
  <2> QED BY <1>1, <2>1
<1>3. PICK f \in [0 .. n -> Screens] :
           /\ f[0] = s /\ write_string(s, l) = f[n]
           /\ \A i \in 1 .. n : f[i] = write_byte(f[i - 1], Glyph(l[i]))
  BY <1>2, WriteString, Zenon
<1> DEFINE T == {i \in Nat : i <= n => Shows(f[i], l, i)}
<1>4. 0 \in T
  BY <1>3, Zenon
<1>5. ASSUME NEW i \in Nat, i \in T PROVE i + 1 \in T
  <2> SUFFICES ASSUME i + 1 <= n PROVE Shows(f[i + 1], l, i + 1)
    OBVIOUS
  <2>1. i + 1 \in 1 .. n /\ (i + 1) - 1 = i /\ i \in 0 .. n /\ Shows(f[i], l, i) /\ i < n
    BY <1>1, <1>5
  <2>2. f[i] \in Screens /\ f[i + 1] = write_byte(f[i], Glyph(l[i + 1]))
    BY <1>3, <2>1, Zenon
  <2>3. 2 + i < BUFFER_WIDTH
    BY <1>1, <2>1, Sizes
  <2> QED BY <1>1, <2>1, <2>2, <2>3, ShowsNext, Zenon
<1> HIDE DEF T
<1>6. n \in T
  BY <1>1, <1>4, <1>5, InductionOnNat, Zenon
<1> QED BY <1>1, <1>3, <1>6 DEF T

-----------------------------------------------------------------------------
(* The types of everything, the line and the history entries included.     *)
PCs == {"read", "escape", "csi", "drain", "prompt", "spawn", "erase", "redraw"}

TypeInv ==
  /\ TypeOK
  /\ emit \in Seq(Values)
  /\ screen \in Screens
  /\ pc \in PCs
  /\ line \in Lines
  /\ erase \in 0 .. LINE_BUF_SIZE
  /\ r13 \in 0 .. history_count
  /\ history_lines \in [0 .. HISTORY_CAPACITY - 1 -> Lines]
  /\ history_next \in 0 .. HISTORY_CAPACITY - 1
  /\ history_count \in 0 .. HISTORY_CAPACITY
  /\ submitted \in Seq(Lines)

KeyBytes(k) == IF k \in UnicodeKeys THEN <<k>> ELSE ansi_escape_sequence[k]

Arrows == {"A", "B", "C"}
Short(e) == Len(e) = 3 /\ e[1] = "escape" /\ e[2] = "[" /\ e[3] \in Arrows
Long(e) == Len(e) = 4 /\ e[1] = "escape" /\ e[2] = "[" /\ e[3] = "5" /\ e[4] = "~"

(* A key is one byte, or an escape sequence of three or four.              *)
LEMMA KeyBytesFacts ==
  ASSUME NEW k \in Keys
  PROVE  /\ KeyBytes(k) \in Seq(Values)
         /\ \/ k \in UnicodeKeys /\ k \in Values /\ Len(KeyBytes(k)) = 1 /\ KeyBytes(k)[1] = k
            \/ k \notin UnicodeKeys /\ (Short(KeyBytes(k)) \/ Long(KeyBytes(k)))
<1> DEFINE e == KeyBytes(k)
<1>1. CASE k \in UnicodeKeys
  <2>1. k \in Values
    BY <1>1, TerminalAssumption, Zenon DEF UnicodeKeys
  <2> QED BY <1>1, <2>1 DEF KeyBytes
<1>2. CASE k \notin UnicodeKeys
  <2>1. e = ansi_escape_sequence[k] /\ k \in DOMAIN ansi_escape_sequence
    BY <1>2, Zenon DEF KeyBytes, Keys
  <2>2. k \in {"up", "down", "right", "page_up"}
    BY <2>1, Zenon DEF ansi_escape_sequence
  <2>3. /\ "escape" \in Values /\ "[" \in Values /\ "A" \in Values /\ "B" \in Values
        /\ "C" \in Values /\ "5" \in Values /\ "~" \in Values
    BY TerminalAssumption, Zenon DEF Control
  <2>4. CASE k = "up"
    <3>1. e = <<"escape", "[", "A">>
      BY <2>1, <2>4, Zenon DEF ansi_escape_sequence
    <3> HIDE DEF e
    <3>2. e \in Seq(Values) /\ Short(e)
      BY <2>3, <3>1 DEF Short, Arrows
    <3> QED BY <1>2, <3>2, Zenon DEF e
  <2>5. CASE k = "down"
    <3>1. e = <<"escape", "[", "B">>
      BY <2>1, <2>5, Zenon DEF ansi_escape_sequence
    <3> HIDE DEF e
    <3>2. e \in Seq(Values) /\ Short(e)
      BY <2>3, <3>1 DEF Short, Arrows
    <3> QED BY <1>2, <3>2, Zenon DEF e
  <2>6. CASE k = "right"
    <3>1. e = <<"escape", "[", "C">>
      BY <2>1, <2>6, Zenon DEF ansi_escape_sequence
    <3> HIDE DEF e
    <3>2. e \in Seq(Values) /\ Short(e)
      BY <2>3, <3>1 DEF Short, Arrows
    <3> QED BY <1>2, <3>2, Zenon DEF e
  <2>7. CASE k = "page_up"
    <3>1. e = <<"escape", "[", "5", "~">>
      BY <2>1, <2>7, Zenon DEF ansi_escape_sequence
    <3> HIDE DEF e
    <3>2. e \in Seq(Values) /\ Long(e)
      BY <2>3, <3>1 DEF Long
    <3> QED BY <1>2, <3>2, Zenon DEF e
  <2> QED BY <2>2, <2>4, <2>5, <2>6, <2>7, Zenon
<1> QED BY <1>1, <1>2, Zenon

(* The history's modulo wraps once at most, in either direction.           *)
LEMMA Back ==
  ASSUME NEW a \in 0 .. HISTORY_CAPACITY - 1, NEW k \in 0 .. HISTORY_CAPACITY
  PROVE  (a - k) % HISTORY_CAPACITY = IF k <= a THEN a - k ELSE a - k + HISTORY_CAPACITY
<1> DEFINE N == HISTORY_CAPACITY
           q == (a - k) \div N
           r == (a - k) % N
<1>1. N \in Nat /\ N > 0
  BY Sizes, Zenon
<1>2. q \in Int /\ r \in 0 .. N - 1 /\ a - k = N * q + r
  BY <1>1
<1> HIDE DEF q, r
<1>3. q = 0 \/ q = -1
  <2>1. ~(q >= 1)
    BY <1>1, <1>2
  <2>2. ~(q <= -2)
    BY <1>1, <1>2
  <2> QED BY <1>2, <2>1, <2>2
<1>4. CASE q = 0
  BY <1>1, <1>2, <1>4 DEF r
<1>5. CASE q = -1
  BY <1>1, <1>2, <1>5 DEF r
<1> QED BY <1>3, <1>4, <1>5, Zenon

(* history_next wraps at the end of the ring.                              *)
LEMMA Forth ==
  ASSUME NEW a \in 0 .. HISTORY_CAPACITY - 1
  PROVE  (a + 1) % HISTORY_CAPACITY = IF a + 1 < HISTORY_CAPACITY THEN a + 1 ELSE 0
<1> DEFINE N == HISTORY_CAPACITY
           q == (a + 1) \div N
           r == (a + 1) % N
<1>1. N \in Nat /\ N > 0
  BY Sizes, Zenon
<1>2. q \in Int /\ r \in 0 .. N - 1 /\ a + 1 = N * q + r
  BY <1>1
<1> HIDE DEF q, r
<1>3. q = 0 \/ q = 1
  <2>1. ~(q >= 2)
    BY <1>1, <1>2
  <2>2. ~(q <= -1)
    BY <1>1, <1>2
  <2> QED BY <1>2, <2>1, <2>2
<1>4. CASE q = 0
  BY <1>1, <1>2, <1>4 DEF r
<1>5. CASE q = 1
  BY <1>1, <1>2, <1>5 DEF r
<1> QED BY <1>3, <1>4, <1>5, Zenon

(* The slot of the entry k back from the newest.                           *)
Slot(k) == (history_next - k) % HISTORY_CAPACITY

(* A slot counted back from history_next is in the ring.                   *)
LEMMA SlotInHistory ==
  ASSUME TypeInv, NEW k \in 0 .. HISTORY_CAPACITY
  PROVE  Slot(k) \in 0 .. HISTORY_CAPACITY - 1 /\ history_lines[Slot(k)] \in Lines
<1>1. history_next \in 0 .. HISTORY_CAPACITY - 1 /\ history_lines \in [0 .. HISTORY_CAPACITY - 1 -> Lines]
  BY Zenon DEF TypeInv
<1>2. Slot(k) = IF k <= history_next THEN history_next - k ELSE history_next - k + HISTORY_CAPACITY
  BY <1>1, Back, Zenon DEF Slot
<1>3. Slot(k) \in 0 .. HISTORY_CAPACITY - 1
  BY <1>1, <1>2, Sizes
<1> QED BY <1>1, <1>3, Zenon

(* What the shell does with a byte, in four kinds: it only goes on; it     *)
(* enters the line; it edits the line; it recalls another one.             *)
Stays ==
  /\ UNCHANGED <<line, erase, r13, historyVars>>
  /\ \/ pc = "read" /\ popped' = "escape" /\ pc' = "escape"
     \/ pc = "read" /\ popped' = "newline" /\ pc' = "prompt"
     \/ pc = "escape" /\ pc' = IF popped' = "[" THEN "csi" ELSE "read"
     \/ pc = "csi" /\ popped' \in Arrows /\ pc' = "read"
     \/ pc = "csi" /\ popped' \notin Arrows /\ pc' = IF popped' = "~" THEN "read" ELSE "drain"
     \/ pc = "drain" /\ pc' = IF popped' = "~" THEN "read" ELSE "drain"

Submits ==
  /\ pc = "read" /\ popped' = "newline" /\ pc' = "spawn"
  /\ history_push
  /\ UNCHANGED <<line, erase, r13>>

Edits ==
  /\ pc = "read" /\ pc' = "read"
  /\ \/ popped' = "backspace" /\ line' = IF line = <<>> THEN line ELSE Front(line)
     \/ popped' \in Plain /\ line' = IF Len(line) >= LINE_BUF_SIZE THEN line ELSE Append(line, popped')
  /\ UNCHANGED <<erase, r13, historyVars>>

Recalls ==
  /\ pc = "csi" /\ popped' \in Arrows /\ pc' = "erase"
  /\ erase' = Len(line)
  /\ \/ r13' = 0 /\ line' = <<>>
     \/ r13' \in {r13 - 1, r13 + 1} /\ r13' \in 1 .. history_count /\ line' = history_lines[Slot(r13')]
  /\ UNCHANGED historyVars

Handles == Stays \/ Submits \/ Edits \/ Recalls

(* A pop that finds something returns a byte.                              *)
LEMMA PopGivesValue ==
  ASSUME TypeOK, Pop
  PROVE  popped' \in Values
BY RingAssumption, Zenon DEF TypeOK, Pop

(* read_byte finds nothing, or takes a byte and handles it in one of four  *)
(* ways.                                                                   *)
LEMMA ReadCases ==
  ASSUME TypeInv, read_byte
  PROVE  /\ UNCHANGED <<pressed, emit, screen, garbled, inStep>>
         /\ \/ PopNothing /\ UNCHANGED shellVars
            \/ Pop /\ Handles
<1>1. UNCHANGED <<pressed, emit, screen, garbled, inStep>>
  BY Zenon DEF read_byte
<1>2. CASE PopNothing /\ UNCHANGED shellVars
  BY <1>1, <1>2, Zenon
<1>3. CASE Pop /\ pc = "read" /\ read_char(popped')
  <2>1. CASE popped' = "escape" /\ Goto("escape") /\ UNCHANGED historyVars
    BY <1>1, <1>3, <2>1, Zenon DEF Goto, Stays, Handles
  <2>2. CASE popped' = "backspace" /\ handle_backspace /\ UNCHANGED historyVars
    BY <1>1, <1>3, <2>2, Zenon DEF handle_backspace, Front, Edits, Handles
  <2>3. CASE popped' = "newline" /\ handle_newline
    BY <1>1, <1>3, <2>3, Zenon DEF handle_newline, Goto, Stays, Submits, Handles
  <2>4. CASE popped' \notin Control /\ insert(popped') /\ UNCHANGED historyVars
    <3>1. popped' \in Plain
      BY <1>3, <2>4, PopGivesValue, Zenon DEF Plain, TypeInv
    <3> QED BY <1>1, <1>3, <2>4, <3>1, Zenon DEF insert, Edits, Handles
  <2> QED BY <1>3, <2>1, <2>2, <2>3, <2>4, Zenon DEF read_char
<1>4. CASE Pop /\ handle_escape(popped') /\ UNCHANGED historyVars
  <2>0. r13 \in 0 .. history_count /\ history_count \in Nat
    BY Sizes DEF TypeInv
  <2>1. CASE pc = "escape" /\ Goto(IF popped' = "[" THEN "csi" ELSE "read")
    BY <1>1, <1>4, <2>1, Zenon DEF Goto, Stays, Handles
  <2>2. CASE pc = "csi" /\ popped' = "A" /\ history_older
    <3>1. CASE r13 < history_count /\ r13' = r13 + 1 /\ history_load_into_line(r13 + 1)
      <4>1. r13' \in 1 .. history_count /\ r13' \in {r13 - 1, r13 + 1}
        BY <2>0, <3>1
      <4>2. line' = history_lines[Slot(r13')] /\ erase' = Len(line) /\ pc' = "erase"
        BY <3>1, Zenon DEF history_load_into_line, Slot
      <4> QED BY <1>1, <1>4, <2>2, <4>1, <4>2, Zenon DEF Recalls, Handles, Arrows
    <3>2. CASE Goto("read")
      BY <1>1, <1>4, <2>2, <3>2, Zenon DEF Goto, Stays, Handles, Arrows
    <3> QED BY <2>2, <3>1, <3>2, Zenon DEF history_older
  <2>3. CASE pc = "csi" /\ popped' = "B" /\ history_newer
    <3>1. CASE Goto("read")
      BY <1>1, <1>4, <2>3, <3>1, Zenon DEF Goto, Stays, Handles, Arrows
    <3>2. CASE r13' = 0 /\ line' = <<>> /\ erase' = Len(line) /\ pc' = "erase"
      BY <1>1, <1>4, <2>3, <3>2, Zenon DEF Recalls, Handles, Arrows
    <3>3. CASE r13 > 1 /\ r13' = r13 - 1 /\ history_load_into_line(r13 - 1)
      <4>1. r13' \in 1 .. history_count /\ r13' \in {r13 - 1, r13 + 1}
        BY <2>0, <3>3
      <4>2. line' = history_lines[Slot(r13')] /\ erase' = Len(line) /\ pc' = "erase"
        BY <3>3, Zenon DEF history_load_into_line, Slot
      <4> QED BY <1>1, <1>4, <2>3, <4>1, <4>2, Zenon DEF Recalls, Handles, Arrows
    <3> QED BY <2>3, <3>1, <3>2, <3>3, Zenon DEF history_newer
  <2>4. CASE pc = "csi" /\ popped' = "C" /\ Goto("read")
    BY <1>1, <1>4, <2>4, Zenon DEF Goto, Stays, Handles, Arrows
  <2>5. CASE pc = "csi" /\ popped' \notin {"A", "B", "C"} /\ drain_csi(popped')
    BY <1>1, <1>4, <2>5, Zenon DEF drain_csi, Goto, Stays, Handles, Arrows
  <2>6. CASE pc = "drain" /\ drain_csi(popped')
    BY <1>1, <1>4, <2>6, Zenon DEF drain_csi, Goto, Stays, Handles
  <2> QED BY <1>4, <2>1, <2>2, <2>3, <2>4, <2>5, <2>6, Zenon DEF handle_escape
<1> QED BY <1>2, <1>3, <1>4, Zenon DEF read_byte

(* Every step of the terminal is one of the ring buffer, or leaves it.     *)
LEMMA RingStep ==
  ASSUME TypeInv, [TermNext]_termVars
  PROVE  [Next]_vars
<1>1. CASE push_input_byte
  <2>1. emit \in Seq(Values) /\ emit # <<>>
    BY <1>1, Zenon DEF push_input_byte, TypeInv
  <2>2. Head(emit) \in Values
    BY <2>1
  <2> QED BY <1>1, <2>2, Zenon DEF push_input_byte, Next
<1>2. CASE read_byte
  BY <1>2, ReadCases, Zenon DEF Next
<1>3. ASSUME NEW k \in Keys, Decode(k) PROVE UNCHANGED vars
  BY <1>3, Zenon DEF Decode
<1>4. CASE prompt \/ spawn \/ Erase \/ Redraw
  BY <1>4, Zenon DEF prompt, spawn, Erase, Redraw
<1>5. CASE UNCHANGED termVars
  BY <1>5, Zenon DEF termVars
<1> QED BY <1>1, <1>2, <1>3, <1>4, <1>5, Zenon DEF TermNext

-----------------------------------------------------------------------------
(* A pair is a sequence of two.                                            *)
LEMMA Pair ==
  ASSUME NEW S, NEW a \in S, NEW b \in S
  PROVE  <<a, b>> \in Seq(S)
<1>1. Append(<<a>>, b) \in Seq(S)
  OBVIOUS
<1>2. <<a, b>> = Append(<<a>>, b)
  OBVIOUS
<1> QED BY <1>1, <1>2, Zenon

(* The line without its last character.                                    *)
LEMMA FrontFacts ==
  ASSUME NEW S, NEW l \in Seq(S), l # <<>>
  PROVE  /\ Front(l) \in Seq(S) /\ Len(l) \in Nat /\ Len(l) # 0 /\ Len(Front(l)) = Len(l) - 1
         /\ \A i \in 1 .. Len(l) - 1 : Front(l)[i] = l[i]
<1> DEFINE n == Len(l) - 1
<1>1. /\ Len(l) \in Nat /\ Len(l) # 0 /\ n \in Nat /\ n <= Len(l) /\ \A i \in 1 .. n : l[i] \in S
  OBVIOUS
<1>2. Front(l) = [i \in 1 .. n |-> l[i]]
  <2>1. Front(l) = SubSeq(l, 1, n)
    BY Zenon DEF Front
  <2>2. SubSeq(l, 1, n) = [i \in 1 .. (1 + n) - 1 |-> l[(i + 1) - 1]]
    BY <1>1 DEF SubSeq
  <2>3. (1 + n) - 1 = n /\ \A i \in 1 .. n : (i + 1) - 1 = i
    BY <1>1
  <2> QED BY <2>1, <2>2, <2>3, Zenon
<1> HIDE DEF n
<1>3. Front(l) \in Seq(S) /\ Len(Front(l)) = n /\ \A i \in 1 .. n : Front(l)[i] = l[i]
  BY <1>1, <1>2
<1> QED BY <1>1, <1>3, Zenon DEF n

(* What the editor makes of a line still fits the buffer.                  *)
LEMMA LineFacts ==
  /\ <<>> \in Lines
  /\ \A l \in Lines : Len(l) \in 0 .. LINE_BUF_SIZE /\ l \in Seq(Marks)
  /\ \A l \in Lines : l # <<>> => Front(l) \in Lines
  /\ \A l \in Lines, b \in Plain : Len(l) < LINE_BUF_SIZE => Append(l, b) \in Lines
<1>1. <<>> \in Lines
  BY Sizes DEF Lines
<1>2. ASSUME NEW l \in Lines
      PROVE  Len(l) \in 0 .. LINE_BUF_SIZE /\ l \in Seq(Marks)
  <2>1. Plain \subseteq Marks
    BY PlainFacts, Zenon
  <2> QED BY <2>1, Sizes DEF Lines
<1>3. ASSUME NEW l \in Lines, l # <<>> PROVE Front(l) \in Lines
  <2>1. l \in Seq(Plain) /\ Len(l) \in Nat /\ Len(l) # 0 /\ Len(l) <= LINE_BUF_SIZE
    BY <1>3 DEF Lines
  <2>3. Front(l) \in Seq(Plain) /\ Len(Front(l)) = Len(l) - 1
    BY <1>3, <2>1, FrontFacts, Zenon
  <2> QED BY <2>1, <2>3, Sizes DEF Lines
<1>4. ASSUME NEW l \in Lines, NEW b \in Plain, Len(l) < LINE_BUF_SIZE PROVE Append(l, b) \in Lines
  BY <1>4, Sizes DEF Lines
<1> QED BY <1>1, <1>2, <1>3, <1>4, Zenon

(* The part of TypeInv that the shell's steps change.                      *)
ShellType ==
  /\ pc \in PCs
  /\ line \in Lines
  /\ erase \in 0 .. LINE_BUF_SIZE
  /\ r13 \in 0 .. history_count
  /\ history_lines \in [0 .. HISTORY_CAPACITY - 1 -> Lines]
  /\ history_next \in 0 .. HISTORY_CAPACITY - 1
  /\ history_count \in 0 .. HISTORY_CAPACITY
  /\ submitted \in Seq(Lines)

(* What the shell does with a byte keeps the types of its variables.       *)
LEMMA HandlesType ==
  ASSUME TypeInv, Pop, Handles
  PROVE  ShellType'
<1>0. ShellType
  BY Zenon DEF TypeInv, ShellType
<1>1. CASE Stays
  <2>1. pc' \in PCs
    BY <1>1, Zenon DEF Stays, PCs
  <2> QED BY <1>0, <1>1, <2>1, Zenon DEF Stays, ShellType, historyVars
<1>2. CASE Submits
  <2>1. history_next' \in 0 .. HISTORY_CAPACITY - 1
    <3>1. history_next' = (history_next + 1) % HISTORY_CAPACITY /\ history_next \in 0 .. HISTORY_CAPACITY - 1
      BY <1>0, <1>2, Zenon DEF Submits, history_push, ShellType
    <3> QED BY <3>1, Forth, Sizes
  <2>2. history_count' \in 0 .. HISTORY_CAPACITY /\ r13' \in 0 .. history_count'
    BY <1>0, <1>2, Sizes DEF Submits, history_push, ShellType
  <2>3. history_lines' \in [0 .. HISTORY_CAPACITY - 1 -> Lines] /\ submitted' \in Seq(Lines)
    BY <1>0, <1>2 DEF Submits, history_push, ShellType
  <2>4. pc' \in PCs /\ line' \in Lines /\ erase' \in 0 .. LINE_BUF_SIZE
    BY <1>0, <1>2, Zenon DEF Submits, ShellType, PCs
  <2> QED BY <2>1, <2>2, <2>3, <2>4, Zenon DEF ShellType
<1>3. CASE Edits
  <2>1. line' \in Lines
    <3>1. line \in Lines /\ Len(line) \in 0 .. LINE_BUF_SIZE
      BY <1>0, LineFacts, Zenon DEF ShellType
    <3>2. CASE popped' = "backspace" /\ line' = IF line = <<>> THEN line ELSE Front(line)
      BY <3>1, <3>2, LineFacts, Zenon
    <3>3. CASE popped' \in Plain /\ line' = IF Len(line) >= LINE_BUF_SIZE THEN line ELSE Append(line, popped')
      <4>1. CASE Len(line) >= LINE_BUF_SIZE
        BY <3>1, <3>3, <4>1, Zenon
      <4>2. CASE Len(line) < LINE_BUF_SIZE
        BY <3>1, <3>3, <4>2, LineFacts, Sizes, Zenon
      <4> QED BY <3>1, <4>1, <4>2, Sizes
    <3> QED BY <1>3, <3>2, <3>3, Zenon DEF Edits
  <2>2. pc' \in PCs
    BY <1>3, Zenon DEF Edits, PCs
  <2> QED BY <1>0, <1>3, <2>1, <2>2, Zenon DEF Edits, ShellType, historyVars
<1>4. CASE Recalls
  <2>1. line' \in Lines /\ r13' \in 0 .. history_count
    <3>1. CASE r13' = 0 /\ line' = <<>>
      BY <1>0, <3>1, LineFacts DEF ShellType
    <3>2. CASE r13' \in 1 .. history_count /\ line' = history_lines[Slot(r13')]
      <4>1. r13' \in 0 .. HISTORY_CAPACITY /\ r13' \in 0 .. history_count
        BY <1>0, <3>2, Sizes DEF ShellType
      <4> QED BY <3>2, <4>1, SlotInHistory, Zenon
    <3> QED BY <1>4, <3>1, <3>2, Zenon DEF Recalls
  <2>2. pc' \in PCs /\ erase' \in 0 .. LINE_BUF_SIZE
    BY <1>0, <1>4, LineFacts, Zenon DEF Recalls, PCs, ShellType
  <2> QED BY <1>0, <1>4, <2>1, <2>2, Zenon DEF Recalls, ShellType, historyVars
<1> QED BY <1>1, <1>2, <1>3, <1>4, Zenon DEF Handles

(* The types hold when the shell starts.                                   *)
LEMMA TypeAtFirst == TermInit => TypeInv
<1> SUFFICES ASSUME TermInit PROVE TypeInv
  BY Zenon
<1>1. TypeOK
  BY InitType, Zenon DEF TermInit
<1>2. screen \in Screens
  BY ClearedType, Zenon DEF TermInit
<1>3. line \in Lines /\ history_lines \in [0 .. HISTORY_CAPACITY - 1 -> Lines]
  BY LineFacts, Zenon DEF TermInit
<1>4. pc \in PCs /\ emit \in Seq(Values) /\ submitted \in Seq(Lines)
  BY DEF TermInit, PCs
<1>5. /\ erase \in 0 .. LINE_BUF_SIZE /\ r13 \in 0 .. history_count
      /\ history_next \in 0 .. HISTORY_CAPACITY - 1 /\ history_count \in 0 .. HISTORY_CAPACITY
  BY Sizes DEF TermInit
<1> QED BY <1>1, <1>2, <1>3, <1>4, <1>5, Zenon DEF TypeInv

(* Every step of the task and of the shell keeps the types.                *)
LEMMA TypeKept == TypeInv /\ [TermNext]_termVars => TypeInv'
<1> SUFFICES ASSUME TypeInv, [TermNext]_termVars PROVE TypeInv'
  BY Zenon
<1>1. TypeOK'
  BY RingStep, NextType, Zenon DEF TypeInv
<1>2. ASSUME emit' \in Seq(Values), screen' \in Screens, ShellType' PROVE TypeInv'
  BY <1>1, <1>2, Zenon DEF TypeInv, ShellType
<1>3. ShellType /\ emit \in Seq(Values) /\ screen \in Screens
  BY Zenon DEF TypeInv, ShellType
<1>4. ASSUME UNCHANGED shellVars PROVE ShellType'
  BY <1>3, <1>4, Zenon DEF ShellType, shellVars
<1>5. ASSUME NEW k \in Keys, Decode(k) PROVE TypeInv'
  <2>1. emit' = KeyBytes(k) /\ UNCHANGED shellVars
    BY <1>5, Zenon DEF Decode, KeyBytes
  <2>2. screen' \in Screens
    <3>1. CASE k \in UnicodeKeys
      <4>1. k \in Marks /\ screen' = write_string(screen, <<k>>)
        BY <1>5, <3>1, KeyBytesFacts, MarksFacts, Zenon DEF Decode
      <4>2. <<k>> \in Seq(Marks)
        BY <4>1
      <4> QED BY <1>3, <4>1, <4>2, WriteType, Zenon
    <3>2. CASE k \notin UnicodeKeys
      BY <1>3, <1>5, <3>2, Zenon DEF Decode
    <3> QED BY <3>1, <3>2, Zenon
  <2> QED BY <1>2, <1>4, <2>1, <2>2, KeyBytesFacts, Zenon
<1>6. CASE push_input_byte
  <2>1. emit' \in Seq(Values) /\ screen' = screen /\ UNCHANGED shellVars
    BY <1>3, <1>6 DEF push_input_byte
  <2> QED BY <1>2, <1>3, <1>4, <2>1, Zenon
<1>7. CASE prompt
  <2>1. screen' \in Screens
    <3>1. "newline" \in Marks /\ ">" \in Marks /\ Blank \in Marks
      BY MarksFacts, TerminalAssumption, Zenon DEF Control
    <3>2. <<"newline", ">", Blank>> \in Seq(Marks)
      BY <3>1
    <3> QED BY <1>3, <1>7, <3>2, WriteType, Zenon DEF prompt, sys_write
  <2>2. ShellType'
    <3>1. pc' \in PCs /\ line' \in Lines /\ r13' \in 0 .. history_count'
      BY <1>3, <1>7, LineFacts, Sizes DEF prompt, PCs, ShellType, historyVars
    <3> QED BY <1>3, <1>7, <3>1, Zenon DEF prompt, ShellType, historyVars
  <2> QED BY <1>2, <1>3, <1>7, <2>1, <2>2, Zenon DEF prompt
<1>8. CASE spawn
  <2>1. PICK text : /\ text = <<>> \/ text = <<"spawn failed", "newline">>
                    /\ screen' = write_string(screen, text)
    BY <1>8, Zenon DEF spawn, sys_write
  <2>2. text \in Seq(Marks)
    <3>1. "newline" \in Marks /\ "spawn failed" \in Marks
      BY MarksFacts, TerminalAssumption, Zenon DEF Control
    <3>2. CASE text = <<>>
      BY <3>2
    <3>3. CASE text = <<"spawn failed", "newline">>
      BY <3>1, <3>3, Pair, Zenon
    <3> QED BY <2>1, <3>2, <3>3, Zenon
  <2>3. screen' \in Screens
    BY <1>3, <2>1, <2>2, WriteType, Zenon
  <2>4. ShellType'
    BY <1>3, <1>8, Zenon DEF spawn, Goto, ShellType, historyVars, PCs
  <2> QED BY <1>2, <1>3, <1>8, <2>3, <2>4, Zenon DEF spawn
<1>9. CASE read_byte
  <2>1. emit' = emit /\ screen' = screen
    BY <1>9, ReadCases, Zenon
  <2>2. ShellType'
    BY <1>4, <1>9, ReadCases, HandlesType, Zenon
  <2> QED BY <1>2, <1>3, <2>1, <2>2, Zenon
<1>10. CASE Erase
  <2>1. screen' \in Screens
    <3>0. "backspace" \in Marks
      BY MarksFacts, TerminalAssumption, Zenon DEF Control
    <3>1. erase \in Nat /\ "backspace" \in Marks
      BY <1>3, <3>0, Sizes DEF ShellType
    <3>2. Backspaces(erase) \in Seq(Marks)
      BY <3>1 DEF Backspaces
    <3> QED BY <1>3, <1>10, <3>2, WriteType, Zenon DEF Erase, sys_write
  <2>2. ShellType'
    BY <1>3, <1>10, Zenon DEF Erase, Goto, ShellType, historyVars, PCs
  <2> QED BY <1>2, <1>3, <1>10, <2>1, <2>2, Zenon DEF Erase
<1>11. CASE Redraw
  <2>1. screen' \in Screens
    <3>1. line \in Seq(Marks)
      BY <1>3, LineFacts, Zenon DEF ShellType
    <3> QED BY <1>3, <1>11, <3>1, WriteType, Zenon DEF Redraw, sys_write
  <2>2. ShellType'
    BY <1>3, <1>11, Zenon DEF Redraw, Goto, ShellType, historyVars, PCs
  <2> QED BY <1>2, <1>3, <1>11, <2>1, <2>2, Zenon DEF Redraw
<1>12. CASE UNCHANGED termVars
  BY <1>2, <1>3, <1>4, <1>12, Zenon DEF termVars
<1> QED BY <1>5, <1>6, <1>7, <1>8, <1>9, <1>10, <1>11, <1>12, Zenon DEF TermNext

(* The types hold in every state.                                          *)
LEMMA AlwaysTyped == TermSpec => []TypeInv
BY TypeAtFirst, TypeKept, PTL DEF TermSpec

(* For every size of INPUT_QUEUE, the line buffer, the history and the     *)
(* screen: nothing the task, the shell and the writer do takes an index    *)
(* out of its array or the line over its buffer.                           *)
THEOREM TypeCorrect == TermSpec => []TermTypeOK
<1>1. TypeInv => TermTypeOK
  <2> SUFFICES ASSUME TypeInv PROVE TermTypeOK
    BY Zenon
  <2>1. Len(line) <= LINE_BUF_SIZE
    BY Zenon DEF TypeInv, Lines
  <2>2. screen.col \in 0 .. BUFFER_WIDTH /\ DOMAIN screen.cells = 0 .. BUFFER_WIDTH - 1
    BY Zenon DEF TypeInv, Screens
  <2> QED BY <2>1, <2>2, Zenon DEF TypeInv, TermTypeOK
<1> QED BY <1>1, AlwaysTyped, PTL

(* INPUT_QUEUE as the terminal uses it is a bounded first-in first-out     *)
(* queue: the shell reads the bytes in the order the task queued them.     *)
THEOREM InputIsFifo == TermSpec => IsFifo
<1>1. TermInit => Init
  BY Zenon DEF TermInit
<1>2. TermSpec => Spec
  BY <1>1, AlwaysTyped, RingStep, PTL DEF TermSpec, Spec
<1> QED BY <1>2, RingBufferIsFifo, Zenon

-----------------------------------------------------------------------------
(* The history holds the last lines entered, the k-th last in the slot k   *)
(* back from history_next.                                                 *)
HistoryInv ==
  /\ history_count = IF Len(submitted) < HISTORY_CAPACITY THEN Len(submitted) ELSE HISTORY_CAPACITY
  /\ \A k \in 1 .. history_count : history_lines[Slot(k)] = submitted[Len(submitted) + 1 - k]

(* A step leaves the history and the browsing alone, enters a line, or     *)
(* recalls one.                                                            *)
LEMMA ShellStep ==
  ASSUME TypeInv, [TermNext]_termVars
  PROVE  \/ UNCHANGED historyVars /\ (r13' = r13 \/ r13' = 0)
         \/ Submits
         \/ Recalls
<1>1. CASE read_byte
  <2>1. CASE UNCHANGED shellVars
    BY <2>1, Zenon DEF shellVars, historyVars
  <2>2. CASE Stays \/ Edits
    BY <2>2, Zenon DEF Stays, Edits
  <2> QED BY <1>1, <2>1, <2>2, ReadCases, Zenon DEF Handles
<1>2. ASSUME NEW k \in Keys, Decode(k) PROVE UNCHANGED historyVars /\ r13' = r13
  BY <1>2, Zenon DEF Decode, shellVars, historyVars
<1>3. CASE push_input_byte
  BY <1>3, Zenon DEF push_input_byte, shellVars, historyVars
<1>4. CASE prompt \/ spawn \/ Erase \/ Redraw
  BY <1>4, Zenon DEF prompt, spawn, Erase, Redraw, Goto
<1>5. CASE UNCHANGED termVars
  BY <1>5, Zenon DEF termVars, shellVars, historyVars
<1> QED BY <1>1, <1>2, <1>3, <1>4, <1>5, Zenon DEF TermNext

(* Every step keeps the ring in agreement with the lines entered.          *)
LEMMA HistoryKept ==
  ASSUME TypeInv, TypeInv', HistoryInv, [TermNext]_termVars
  PROVE  HistoryInv'
<1>1. CASE UNCHANGED historyVars
  BY <1>1, Zenon DEF historyVars, HistoryInv, Slot
<1>2. CASE Recalls
  BY <1>1, <1>2, Zenon DEF Recalls
<1>3. CASE Submits
  <2> DEFINE N == HISTORY_CAPACITY
             n == Len(submitted)
             m == history_next
  <2>1. /\ history_lines' = [history_lines EXCEPT ![m] = line]
        /\ m' = (m + 1) % N
        /\ history_count' = IF history_count >= N THEN history_count ELSE history_count + 1
        /\ submitted' = Append(submitted, line)
    BY <1>3, Zenon DEF Submits, history_push
  <2>2. /\ history_lines \in [0 .. N - 1 -> Lines] /\ m \in 0 .. N - 1 /\ m' \in 0 .. N - 1
        /\ submitted \in Seq(Lines) /\ line \in Lines /\ n \in Nat /\ N \in Nat /\ N > 0
    BY Sizes DEF TypeInv
  <2>3. history_count = IF n < N THEN n ELSE N
    BY Zenon DEF HistoryInv
  <2>4. n' = n + 1 /\ submitted'[n + 1] = line /\ \A i \in 1 .. n : submitted'[i] = submitted[i]
    BY <2>1, <2>2
  <2>5. m' = IF m + 1 < N THEN m + 1 ELSE 0
    BY <2>1, <2>2, Forth, Zenon
  <2> HIDE DEF n, m
  <2>6. history_count' = IF n' < N THEN n' ELSE N
    BY <2>1, <2>2, <2>3, <2>4
  <2>7. ASSUME NEW k \in 1 .. history_count'
        PROVE  history_lines'[Slot(k)'] = submitted'[n' + 1 - k]
    <3>1. k \in 1 .. N /\ k - 1 \in 0 .. N /\ k \in 0 .. N /\ k - 1 \in 0 .. history_count
      BY <2>1, <2>2, <2>3, <2>6
    <3>2. Slot(k)' = IF k <= m' THEN m' - k ELSE m' - k + N
      BY <2>2, <3>1, Back, Zenon DEF Slot, m
    <3>3. Slot(k - 1) = IF k - 1 <= m THEN m - (k - 1) ELSE m - (k - 1) + N
      BY <2>2, <3>1, Back, Zenon DEF Slot, m
    <3>4. Slot(k)' = Slot(k - 1) /\ Slot(k - 1) \in 0 .. N - 1
      BY <2>2, <2>5, <3>1, <3>2, <3>3
    <3>5. CASE k = 1
      <4>1. Slot(k)' = m /\ n' + 1 - k = n + 1
        BY <2>2, <2>4, <3>3, <3>4, <3>5
      <4> QED BY <2>1, <2>2, <2>4, <4>1, Zenon
    <3>6. CASE k # 1
      <4>1. /\ k - 1 \in 1 .. history_count /\ Slot(k - 1) # m
            /\ n' + 1 - k = n + 1 - (k - 1) /\ n + 1 - (k - 1) \in 1 .. n
        BY <2>2, <2>3, <2>4, <3>1, <3>3, <3>6
      <4>2. history_lines'[Slot(k - 1)] = history_lines[Slot(k - 1)]
        BY <2>1, <2>2, <3>4, <4>1, Zenon
      <4>3. history_lines[Slot(k - 1)] = submitted[n + 1 - (k - 1)]
        BY <4>1, Zenon DEF HistoryInv, n
      <4> QED BY <2>4, <3>4, <4>1, <4>2, <4>3, Zenon
    <3> QED BY <3>5, <3>6, Zenon
  <2> QED BY <2>6, <2>7, Zenon DEF HistoryInv, n
<1> QED BY <1>1, <1>2, <1>3, ShellStep, Zenon

(* At first no line has been entered.                                      *)
LEMMA HistoryAtFirst == TermInit => HistoryInv
BY Sizes DEF TermInit, HistoryInv

(* The ring agrees with the lines entered in every state.                  *)
LEMMA AlwaysHistory == TermSpec => []HistoryInv
<1>1. HistoryInv /\ TypeInv /\ TypeInv' /\ [TermNext]_termVars => HistoryInv'
  BY HistoryKept, Zenon
<1> QED BY <1>1, HistoryAtFirst, AlwaysTyped, PTL DEF TermSpec

(* The smaller of two numbers.                                             *)
LEMMA MinOfTwo ==
  ASSUME NEW a \in Nat, NEW b \in Nat
  PROVE  Min({a, b}) = IF a < b THEN a ELSE b
<1> DEFINE x == IF a < b THEN a ELSE b
<1>1. x \in {a, b} /\ \A y \in {a, b} : x <= y
  OBVIOUS
<1>2. \A z \in {a, b} : (\A y \in {a, b} : z <= y) => z = x
  OBVIOUS
<1> HIDE DEF x
<1>3. Min({a, b}) \in {a, b} /\ \A y \in {a, b} : Min({a, b}) <= y
  BY <1>1, Zenon DEF Min
<1>4. Min({a, b}) = x
  BY <1>2, <1>3, Zenon
<1> QED BY <1>4, Zenon DEF x

(* Up and Down go through the last lines entered one at a time and in      *)
(* order, and reach every line the history has room for, whatever its      *)
(* capacity and however often history_push has wrapped.                    *)
THEOREM HistoryRecallsInOrder == TermSpec => RecallsInOrder
<1>1. TypeInv /\ HistoryInv /\ [TermNext]_termVars =>
        [r13' # r13 /\ r13' > 0 =>
           /\ r13' \in {r13 - 1, r13 + 1}
           /\ line' = submitted[Len(submitted) + 1 - r13']]_termVars
  <2> SUFFICES ASSUME TypeInv, HistoryInv, [TermNext]_termVars, r13' # r13, r13' > 0
               PROVE  /\ r13' \in {r13 - 1, r13 + 1}
                      /\ line' = submitted[Len(submitted) + 1 - r13']
    BY Zenon
  <2>1. Recalls
    BY ShellStep DEF Submits
  <2> QED BY <2>1 DEF Recalls, HistoryInv
<1>2. TypeInv /\ HistoryInv => history_count = Min({Len(submitted), HISTORY_CAPACITY})
  <2> SUFFICES ASSUME TypeInv, HistoryInv PROVE history_count = Min({Len(submitted), HISTORY_CAPACITY})
    BY Zenon
  <2>1. Len(submitted) \in Nat
    BY DEF TypeInv
  <2> QED BY <2>1, Sizes, MinOfTwo, Zenon DEF HistoryInv
<1> QED BY <1>1, <1>2, AlwaysTyped, AlwaysHistory, PTL DEF TermSpec, RecallsInOrder

-----------------------------------------------------------------------------
(* The bytes between the task and the shell: queued, or still to be.       *)
Pending == Contents \o emit

(* The bytes under way: those queued, then those of the key still to be    *)
(* queued.                                                                 *)
LEMMA PendingFacts ==
  ASSUME TypeInv
  PROVE  /\ Pending \in Seq(Values) /\ Len(Pending) = len + Len(emit)
         /\ len \in Nat /\ Len(emit) \in Nat
<1>1. /\ Contents \in Seq(Values) /\ Len(Contents) = len /\ emit \in Seq(Values)
  BY ContentsSeq, Zenon DEF TypeInv
<1>2. len \in Nat
  BY Sizes DEF TypeInv, TypeOK
<1> HIDE DEF Contents
<1> QED BY <1>1, <1>2 DEF Pending

(* Queueing the next byte only moves it.                                   *)
LEMMA Moved ==
  ASSUME NEW S, NEW a \in Seq(S), NEW b \in Seq(S), b # <<>>
  PROVE  Append(a, Head(b)) \o Tail(b) = a \o b
<1> DEFINE s == Append(a, Head(b)) \o Tail(b)
           t == a \o b
           n == Len(a) + Len(b)
<1>1. Len(a) \in Nat /\ Len(b) \in Nat /\ Len(b) # 0
  OBVIOUS
<1>2. s \in Seq(S) /\ t \in Seq(S) /\ Len(s) = n /\ Len(t) = n
  OBVIOUS
<1>3. ASSUME NEW i \in 1 .. n PROVE s[i] = t[i]
  <2>1. CASE i <= Len(a)
    BY <1>1, <2>1
  <2>2. CASE i = Len(a) + 1
    BY <1>1, <2>2
  <2>3. CASE i > Len(a) + 1
    BY <1>1, <2>3
  <2> QED BY <1>1, <2>1, <2>2, <2>3
<1> HIDE DEF s, t
<1>4. s = t
  BY <1>1, <1>2, <1>3
<1> QED BY <1>4, Zenon DEF s, t

(* push_input_byte moves a byte from the key to the queue, and the bytes   *)
(* under way stay the same.                                                *)
LEMMA PendingPush ==
  ASSUME TypeInv, TypeInv', emit # <<>>, Push(Head(emit)), emit' = Tail(emit)
  PROVE  Pending' = Pending
<1>1. emit \in Seq(Values) /\ TypeOK /\ TypeOK'
  BY Zenon DEF TypeInv
<1>2. Head(emit) \in Values
  BY <1>1
<1>3. Contents' = Append(Contents, Head(emit))
  BY <1>1, <1>2, PushAppends, Zenon
<1>4. Contents \in Seq(Values)
  BY <1>1, ContentsSeq, Zenon
<1> HIDE DEF Contents
<1>5. Append(Contents, Head(emit)) \o Tail(emit) = Contents \o emit
  BY <1>1, <1>4, Moved, Zenon
<1> QED BY <1>3, <1>5, Zenon DEF Pending

(* The first of two sequences gives the head of both.                      *)
LEMMA TailOfConcat ==
  ASSUME NEW S, NEW a \in Seq(S), NEW b \in Seq(S), a # <<>>
  PROVE  /\ Len(a \o b) \in Nat /\ Len(a \o b) # 0 /\ (a \o b)[1] = Head(a)
         /\ Tail(a \o b) = Tail(a) \o b
<1> DEFINE s == Tail(a) \o b
           t == Tail(a \o b)
           n == Len(a) + Len(b) - 1
<1>1. Len(a) \in Nat /\ Len(b) \in Nat /\ Len(a) # 0
  OBVIOUS
<1>2. Len(a \o b) \in Nat /\ Len(a \o b) # 0 /\ (a \o b)[1] = Head(a)
  BY <1>1
<1>3. s \in Seq(S) /\ t \in Seq(S) /\ Len(s) = n /\ Len(t) = n
  BY <1>1
<1>4. ASSUME NEW i \in 1 .. n PROVE s[i] = t[i]
  <2>1. CASE i <= Len(a) - 1
    BY <1>1, <2>1
  <2>2. CASE i > Len(a) - 1
    BY <1>1, <2>2
  <2> QED BY <1>1, <2>1, <2>2
<1> HIDE DEF s, t
<1>5. s = t
  BY <1>1, <1>3, <1>4
<1> QED BY <1>2, <1>5, Zenon DEF s, t

(* A read takes the first of them.                                         *)
LEMMA PendingPop ==
  ASSUME TypeInv, TypeInv', Pop, emit' = emit
  PROVE  /\ Len(Pending) \in Nat /\ Len(Pending) # 0 /\ popped' = Pending[1]
         /\ Pending' = Tail(Pending)
<1>1. TypeOK /\ TypeOK' /\ emit \in Seq(Values)
  BY Zenon DEF TypeInv
<1>2. Contents # <<>> /\ popped' = Head(Contents) /\ Contents' = Tail(Contents)
  BY <1>1, PopTakesHead, Zenon
<1>3. Contents \in Seq(Values)
  BY <1>1, ContentsSeq, Zenon
<1> HIDE DEF Contents
<1>4. /\ Len(Contents \o emit) \in Nat /\ Len(Contents \o emit) # 0
      /\ (Contents \o emit)[1] = Head(Contents) /\ Tail(Contents \o emit) = Tail(Contents) \o emit
  BY <1>1, <1>2, <1>3, TailOfConcat, Zenon
<1> QED BY <1>2, <1>4, Zenon DEF Pending

(* A key adds its bytes.                                                   *)
LEMMA PendingDecode ==
  ASSUME TypeInv, NEW k \in Keys, Decode(k)
  PROVE  /\ Pending' = Pending \o KeyBytes(k)
         /\ len = 0 => Pending = <<>> /\ Pending' = KeyBytes(k)
<1>1. emit = <<>> /\ emit' = KeyBytes(k) /\ Contents' = Contents
  BY Zenon DEF Decode, KeyBytes, vars, Contents, Place
<1>2. Contents \in Seq(Values) /\ Len(Contents) = len
  BY ContentsSeq, Zenon DEF TypeInv
<1>3. KeyBytes(k) \in Seq(Values)
  BY KeyBytesFacts, Zenon
<1> HIDE DEF Contents
<1>4. Pending = Contents
  BY <1>1, <1>2 DEF Pending
<1>5. Pending' = Contents \o KeyBytes(k)
  BY <1>1, Zenon DEF Pending
<1>6. ASSUME len = 0 PROVE Contents = <<>> /\ <<>> \o KeyBytes(k) = KeyBytes(k)
  BY <1>2, <1>3, <1>6
<1> QED BY <1>4, <1>5, <1>6, Zenon

(* The bytes under way do not change while the queue and the key do not.   *)
LEMMA PendingSame ==
  ASSUME UNCHANGED <<slots, head, len, emit>>
  PROVE  Pending' = Pending
BY Zenon DEF Pending, Contents, Place

-----------------------------------------------------------------------------
(* How the shell should go through the bytes: Goes(a, b, c) when b takes   *)
(* it from a to c.  A sequence of bytes parses from a if it takes the      *)
(* shell from a to where it waits for a key.                               *)
Modes == {"read", "escape", "csi", "drain"}

Goes(a, b, c) ==
  \/ a = "read" /\ b \in Chars \union {"backspace", "newline"} /\ c = "read"
  \/ a = "read" /\ b = "escape" /\ c = "escape"
  \/ a = "escape" /\ b = "[" /\ c = "csi"
  \/ a = "csi" /\ b \in Arrows /\ c = "read"
  \/ a = "csi" /\ b = "5" /\ c = "drain"
  \/ a = "drain" /\ b = "~" /\ c = "read"

ParsedBy(f, a, bytes) ==
  /\ f \in [0 .. Len(bytes) -> Modes]
  /\ f[0] = a /\ f[Len(bytes)] = "read"
  /\ \A i \in 1 .. Len(bytes) : Goes(f[i - 1], bytes[i], f[i])

Parses(a, bytes) == \E f : ParsedBy(f, a, bytes)

(* The parser goes on with the rest after a byte.                          *)
LEMMA ParsesTail ==
  ASSUME NEW a, NEW bytes \in Seq(Values), bytes # <<>>, Parses(a, bytes)
  PROVE  \E c \in Modes : Goes(a, bytes[1], c) /\ Parses(c, Tail(bytes))
<1>1. PICK f : ParsedBy(f, a, bytes)
  BY Zenon DEF Parses
<1> DEFINE n == Len(bytes)
           rest == Tail(bytes)
           g == [i \in 0 .. n - 1 |-> f[i + 1]]
<1>2. /\ n \in Nat /\ n # 0 /\ Len(rest) = n - 1 /\ \A i \in 1 .. n - 1 : rest[i] = bytes[i + 1]
  OBVIOUS
<1>3. /\ f \in [0 .. n -> Modes] /\ f[0] = a /\ f[n] = "read"
      /\ \A i \in 1 .. n : Goes(f[i - 1], bytes[i], f[i])
  BY <1>1, Zenon DEF ParsedBy
<1> HIDE DEF n, rest
<1>4. g \in [0 .. n - 1 -> Modes] /\ \A i \in 0 .. n - 1 : g[i] = f[i + 1]
  BY <1>2, <1>3
<1> HIDE DEF g
<1>5. g[0] = f[1] /\ g[n - 1] = "read" /\ f[1] \in Modes
  BY <1>2, <1>3, <1>4
<1>6. ASSUME NEW i \in 1 .. n - 1 PROVE Goes(g[i - 1], rest[i], g[i])
  <2>1. i - 1 \in 0 .. n - 1 /\ i \in 0 .. n - 1 /\ i + 1 \in 1 .. n /\ (i - 1) + 1 = i /\ (i + 1) - 1 = i
    BY <1>2
  <2>2. g[i - 1] = f[i] /\ g[i] = f[i + 1] /\ rest[i] = bytes[i + 1]
    BY <1>2, <1>4, <2>1, Zenon
  <2>3. Goes(f[(i + 1) - 1], bytes[i + 1], f[i + 1])
    BY <1>3, <2>1, Zenon
  <2> QED BY <2>1, <2>2, <2>3, Zenon
<1>7. Parses(f[1], rest)
  <2>1. ParsedBy(g, f[1], rest)
    BY <1>2, <1>4, <1>5, <1>6, Zenon DEF ParsedBy
  <2> QED BY <2>1, Zenon DEF Parses
<1>8. Goes(a, bytes[1], f[1])
  <2>1. 1 \in 1 .. n /\ 1 - 1 = 0
    BY <1>2
  <2>2. Goes(f[1 - 1], bytes[1], f[1])
    BY <1>3, <2>1, Zenon
  <2> QED BY <1>3, <2>1, <2>2, Zenon
<1> QED BY <1>5, <1>7, <1>8, Zenon DEF rest

(* The bytes of a further key may follow once the parser is back at the    *)
(* start.                                                                  *)
LEMMA ParsesConcat ==
  ASSUME NEW a, NEW p \in Seq(Values), NEW q \in Seq(Values), Parses(a, p), Parses("read", q)
  PROVE  Parses(a, p \o q)
<1>1. PICK f : ParsedBy(f, a, p)
  BY Zenon DEF Parses
<1>2. PICK g : ParsedBy(g, "read", q)
  BY Zenon DEF Parses
<1> DEFINE m == Len(p)
           n == Len(q)
           r == p \o q
           h == [i \in 0 .. m + n |-> IF i <= m THEN f[i] ELSE g[i - m]]
<1>3. /\ m \in Nat /\ n \in Nat /\ Len(r) = m + n
      /\ \A i \in 1 .. m : r[i] = p[i]
      /\ \A i \in 1 .. m + n : i > m => r[i] = q[i - m]
  OBVIOUS
<1>4. /\ f \in [0 .. m -> Modes] /\ f[0] = a /\ f[m] = "read"
      /\ \A i \in 1 .. m : Goes(f[i - 1], p[i], f[i])
  BY <1>1, Zenon DEF ParsedBy
<1>5. /\ g \in [0 .. n -> Modes] /\ g[0] = "read" /\ g[n] = "read"
      /\ \A i \in 1 .. n : Goes(g[i - 1], q[i], g[i])
  BY <1>2, Zenon DEF ParsedBy
<1> HIDE DEF m, n, r
<1>6. h \in [0 .. m + n -> Modes] /\ (\A i \in 0 .. m : h[i] = f[i])
      /\ \A i \in 0 .. m + n : i >= m => h[i] = g[i - m]
  <2>1. ASSUME NEW i \in 0 .. m + n PROVE h[i] \in Modes
    <3>1. CASE i <= m
      BY <1>3, <1>4, <3>1
    <3>2. CASE i > m
      BY <1>3, <1>5, <3>2
    <3> QED BY <1>3, <3>1, <3>2
  <2>2. ASSUME NEW i \in 0 .. m + n, i >= m PROVE h[i] = g[i - m]
    <3>1. CASE i = m
      BY <1>3, <1>4, <1>5, <3>1
    <3>2. CASE i > m
      BY <1>3, <3>2
    <3> QED BY <1>3, <2>2, <3>1, <3>2
  <2>3. h = [i \in 0 .. m + n |-> h[i]] /\ \A i \in 0 .. m : h[i] = f[i]
    BY <1>3
  <2> HIDE DEF h
  <2>4. h \in [0 .. m + n -> Modes]
    BY <2>1, <2>3, Zenon
  <2> QED BY <2>2, <2>3, <2>4, Zenon
<1> HIDE DEF h
<1>7. h[0] = a /\ h[m + n] = "read"
  <2>1. 0 \in 0 .. m /\ m + n \in 0 .. m + n /\ m + n >= m /\ (m + n) - m = n
    BY <1>3
  <2> QED BY <1>4, <1>5, <1>6, <2>1, Zenon
<1>8. ASSUME NEW i \in 1 .. m + n PROVE Goes(h[i - 1], r[i], h[i])
  <2>1. CASE i <= m
    <3>1. i \in 1 .. m /\ i \in 0 .. m /\ i - 1 \in 0 .. m
      BY <1>3, <2>1
    <3> QED BY <1>3, <1>4, <1>6, <3>1, Zenon
  <2>2. CASE i > m
    <3>1. /\ i \in 0 .. m + n /\ i - 1 \in 0 .. m + n /\ i >= m /\ i - 1 >= m
          /\ i - m \in 1 .. n /\ (i - m) - 1 = (i - 1) - m
      BY <1>3, <2>2
    <3>2. h[i] = g[i - m] /\ h[i - 1] = g[(i - m) - 1] /\ r[i] = q[i - m]
      BY <1>3, <1>6, <2>2, <3>1, Zenon
    <3> QED BY <1>5, <3>1, <3>2, Zenon
  <2> QED BY <1>3, <2>1, <2>2
<1>9. ParsedBy(h, a, r)
  BY <1>3, <1>6, <1>7, <1>8, Zenon DEF ParsedBy
<1> QED BY <1>9, Zenon DEF Parses, r

(* No bytes leave the parser at the start.                                 *)
LEMMA ParsesNothing == Parses("read", <<>>)
<1> DEFINE f == [i \in 0 .. 0 |-> "read"]
<1>1. f \in [0 .. 0 -> Modes] /\ f[0] = "read" /\ Len(<<>>) = 0
  BY DEF Modes
<1> HIDE DEF f
<1>2. ParsedBy(f, "read", <<>>)
  BY <1>1 DEF ParsedBy
<1> QED BY <1>2, Zenon DEF Parses

(* The bytes of every key but Escape do.                                   *)
LEMMA KeyParses ==
  ASSUME NEW k \in Keys, k # "escape"
  PROVE  Parses("read", KeyBytes(k))
<1>1. PICK e : e = KeyBytes(k)
  BY Zenon
<1>2. CASE k \in UnicodeKeys /\ Len(e) = 1 /\ e[1] = k
  <2>1. k \in Chars \union {"backspace", "newline"}
    BY <1>2, Zenon DEF UnicodeKeys, Control
  <2>2. PICK f : f = [i \in 0 .. 1 |-> "read"]
    BY Zenon
  <2>3. f \in [0 .. 1 -> Modes] /\ f[0] = "read" /\ f[1] = "read"
    BY <2>2 DEF Modes
  <2>4. \A i \in 1 .. 1 : i = 1 /\ i - 1 = 0
    OBVIOUS
  <2>5. ParsedBy(f, "read", e)
    BY <1>2, <2>1, <2>3, <2>4, Zenon DEF ParsedBy, Goes
  <2> QED BY <1>1, <2>5, Zenon DEF Parses
<1>3. CASE Short(e)
  <2>1. PICK f : f = [i \in 0 .. 3 |-> IF i = 1 THEN "escape" ELSE IF i = 2 THEN "csi" ELSE "read"]
    BY Zenon
  <2>2. f \in [0 .. 3 -> Modes] /\ f[0] = "read" /\ f[1] = "escape" /\ f[2] = "csi" /\ f[3] = "read"
    BY <2>1 DEF Modes
  <2>3. Goes(f[0], e[1], f[1]) /\ Goes(f[1], e[2], f[2]) /\ Goes(f[2], e[3], f[3]) /\ Len(e) = 3
    BY <1>3, <2>2, Zenon DEF Goes, Short
  <2>4. \A i \in 1 .. 3 : (i = 1 /\ i - 1 = 0) \/ (i = 2 /\ i - 1 = 1) \/ (i = 3 /\ i - 1 = 2)
    OBVIOUS
  <2>5. \A i \in 1 .. 3 : Goes(f[i - 1], e[i], f[i])
    BY <2>3, <2>4, Zenon
  <2>6. ParsedBy(f, "read", e)
    BY <2>2, <2>3, <2>5, Zenon DEF ParsedBy
  <2> QED BY <1>1, <2>6, Zenon DEF Parses
<1>4. CASE Long(e)
  <2>1. PICK f : f = [i \in 0 .. 4 |-> IF i = 1 THEN "escape" ELSE IF i = 2 THEN "csi"
                                       ELSE IF i = 3 THEN "drain" ELSE "read"]
    BY Zenon
  <2>2. /\ f \in [0 .. 4 -> Modes] /\ f[0] = "read" /\ f[1] = "escape" /\ f[2] = "csi"
        /\ f[3] = "drain" /\ f[4] = "read"
    BY <2>1 DEF Modes
  <2>3. /\ Goes(f[0], e[1], f[1]) /\ Goes(f[1], e[2], f[2]) /\ Goes(f[2], e[3], f[3])
        /\ Goes(f[3], e[4], f[4]) /\ Len(e) = 4
    BY <1>4, <2>2, Zenon DEF Goes, Long
  <2>4. \A i \in 1 .. 4 : \/ i = 1 /\ i - 1 = 0
                          \/ i = 2 /\ i - 1 = 1
                          \/ i = 3 /\ i - 1 = 2
                          \/ i = 4 /\ i - 1 = 3
    OBVIOUS
  <2>5. \A i \in 1 .. 4 : Goes(f[i - 1], e[i], f[i])
    BY <2>3, <2>4, Zenon
  <2>6. ParsedBy(f, "read", e)
    BY <2>2, <2>3, <2>5, Zenon DEF ParsedBy
  <2> QED BY <1>1, <2>6, Zenon DEF Parses
<1> QED BY <1>1, <1>2, <1>3, <1>4, KeyBytesFacts, Zenon

(* Where in a key's bytes the shell is.                                    *)
Mode == IF pc \in {"escape", "csi", "drain"} THEN pc ELSE "read"

(* While no byte has been dropped and Escape has not been pressed alone,   *)
(* what is still to be read parses from where the shell is, and the line   *)
(* and the history hold only characters.                                   *)
CleanLines == line \in Seq(Chars) /\ \A s \in 0 .. HISTORY_CAPACITY - 1 : history_lines[s] \in Seq(Chars)
ParseInv == ~garbled => CleanLines /\ Parses(Mode, Pending)

(* A character is no control character.                                    *)
LEMMA CharFacts ==
  \A b \in Chars : b \in Plain /\ b \in Values /\ b # "escape" /\ b # "newline" /\ b # "backspace"
BY TerminalAssumption, Zenon DEF Plain, Control

(* A byte that the parser expects leaves the line clean and the parser     *)
(* where it should be.                                                     *)
LEMMA HandlesCleanly ==
  ASSUME TypeInv, Pop, Handles, CleanLines, NEW c \in Modes, Goes(Mode, popped', c)
  PROVE  CleanLines' /\ Mode' = c
<1>0. line \in Seq(Chars) /\ \A s \in 0 .. HISTORY_CAPACITY - 1 : history_lines[s] \in Seq(Chars)
  BY Zenon DEF CleanLines
<1>1. CASE Stays
  <2>1. Mode' = c
    BY <1>1, CharFacts, Zenon DEF Stays, Mode, Goes, Arrows
  <2> QED BY <1>0, <1>1, <2>1, Zenon DEF Stays, CleanLines, historyVars
<1>2. CASE Submits
  <2>1. Mode' = c
    BY <1>2, CharFacts, Zenon DEF Submits, Mode, Goes
  <2>2. /\ history_lines' = [history_lines EXCEPT ![history_next] = line] /\ line' = line
        /\ history_lines \in [0 .. HISTORY_CAPACITY - 1 -> Lines]
    BY <1>2, Zenon DEF Submits, history_push, TypeInv
  <2>3. \A s \in 0 .. HISTORY_CAPACITY - 1 : history_lines'[s] \in Seq(Chars)
    BY <1>0, <2>2, Zenon
  <2> QED BY <1>0, <2>1, <2>2, <2>3, Zenon DEF CleanLines
<1>3. CASE Edits
  <2>1. Mode = "read" /\ Mode' = "read" /\ c = "read"
    <3>1. popped' # "escape"
      BY <1>3, CharFacts, Zenon DEF Edits, Plain, Control
    <3> QED BY <1>3, <3>1, Zenon DEF Edits, Mode, Goes
  <2>2. line' \in Seq(Chars)
    <3>1. CASE popped' = "backspace" /\ line' = IF line = <<>> THEN line ELSE Front(line)
      BY <1>0, <3>1, FrontFacts, Zenon
    <3>2. CASE popped' \in Plain /\ line' = IF Len(line) >= LINE_BUF_SIZE THEN line ELSE Append(line, popped')
      <4>1. popped' \in Chars
        BY <2>1, <3>2, Zenon DEF Goes, Plain, Control
      <4> QED BY <1>0, <3>2, <4>1
    <3> QED BY <1>3, <3>1, <3>2, Zenon DEF Edits
  <2> QED BY <1>0, <1>3, <2>1, <2>2, Zenon DEF Edits, CleanLines, historyVars
<1>4. CASE Recalls
  <2>1. Mode' = c
    BY <1>4, Zenon DEF Recalls, Mode, Goes, Arrows
  <2>2. line' \in Seq(Chars)
    <3>1. CASE line' = <<>>
      BY <3>1
    <3>2. CASE r13' \in 1 .. history_count /\ line' = history_lines[Slot(r13')]
      <4>1. r13' \in 0 .. HISTORY_CAPACITY
        BY <3>2, Sizes DEF TypeInv
      <4>2. Slot(r13') \in 0 .. HISTORY_CAPACITY - 1
        BY <4>1, SlotInHistory, Zenon
      <4> QED BY <1>0, <3>2, <4>2, Zenon
    <3> QED BY <1>4, <3>1, <3>2, Zenon DEF Recalls
  <2> QED BY <1>0, <1>4, <2>1, <2>2, Zenon DEF Recalls, CleanLines, historyVars
<1> QED BY <1>1, <1>2, <1>3, <1>4, Zenon DEF Handles

(* Every step keeps the bytes under way such that the parser gets through  *)
(* them.                                                                   *)
LEMMA ParseKept ==
  ASSUME TypeInv, TypeInv', ParseInv, [TermNext]_termVars
  PROVE  ParseInv'
<1> SUFFICES ASSUME ~garbled' PROVE CleanLines' /\ Parses(Mode, Pending)'
  BY Zenon DEF ParseInv
<1>1. ASSUME garbled' = garbled PROVE CleanLines /\ Parses(Mode, Pending)
  BY <1>1, Zenon DEF ParseInv
<1>2. ASSUME UNCHANGED <<line, history_lines>> PROVE CleanLines' = CleanLines
  BY <1>2, Zenon DEF CleanLines
<1>3. ASSUME NEW k \in Keys, Decode(k) PROVE CleanLines' /\ Parses(Mode, Pending)'
  <2>1. ~garbled /\ k # "escape" /\ UNCHANGED <<line, history_lines, pc>>
    BY <1>3, Zenon DEF Decode, shellVars
  <2>2. CleanLines /\ Parses(Mode, Pending)
    BY <2>1, Zenon DEF ParseInv
  <2>3. Pending' = Pending \o KeyBytes(k) /\ Mode' = Mode
    BY <1>3, <2>1, PendingDecode, Zenon DEF Mode
  <2>4. Pending \in Seq(Values) /\ KeyBytes(k) \in Seq(Values)
    BY PendingFacts, KeyBytesFacts, Zenon
  <2>5. Parses(Mode, Pending \o KeyBytes(k))
    BY <2>1, <2>2, <2>4, KeyParses, ParsesConcat, Zenon
  <2> QED BY <1>2, <2>1, <2>2, <2>3, <2>5, Zenon
<1>4. CASE push_input_byte
  <2>1. emit # <<>> /\ Push(Head(emit)) /\ garbled' = garbled /\ emit' = Tail(emit)
    BY <1>4, Zenon DEF push_input_byte
  <2>2. UNCHANGED <<line, history_lines, pc>>
    BY <1>4, Zenon DEF push_input_byte, shellVars
  <2>3. Pending' = Pending /\ Mode' = Mode
    BY <2>1, <2>2, PendingPush, Zenon DEF Mode
  <2> QED BY <1>1, <1>2, <2>1, <2>2, <2>3, Zenon
<1>5. CASE read_byte
  <2>1. garbled' = garbled /\ emit' = emit
    BY <1>5, ReadCases, Zenon
  <2>2. CASE PopNothing /\ UNCHANGED shellVars
    <3>1. Pending' = Pending /\ Mode' = Mode /\ UNCHANGED <<line, history_lines>>
      BY <2>1, <2>2, PendingSame, Zenon DEF PopNothing, Mode, shellVars
    <3> QED BY <1>1, <1>2, <2>1, <3>1, Zenon
  <2>3. CASE Pop /\ Handles
    <3>1. /\ Len(Pending) # 0 /\ popped' = Pending[1] /\ Pending' = Tail(Pending)
      BY <2>1, <2>3, PendingPop, Zenon
    <3>2. Pending \in Seq(Values) /\ Pending # <<>>
      BY <3>1, PendingFacts
    <3>3. PICK c \in Modes : Goes(Mode, Pending[1], c) /\ Parses(c, Tail(Pending))
      BY <1>1, <2>1, <3>2, ParsesTail, Zenon
    <3>4. CleanLines' /\ Mode' = c
      BY <1>1, <2>1, <2>3, <3>1, <3>3, HandlesCleanly, Zenon
    <3> QED BY <3>1, <3>3, <3>4, Zenon
  <2> QED BY <1>5, <2>2, <2>3, ReadCases, Zenon
<1>6. CASE prompt
  <2>1. /\ garbled' = garbled /\ line' = <<>> /\ history_lines' = history_lines /\ pc = "prompt" /\ pc' = "read"
        /\ UNCHANGED <<slots, head, len, emit>>
    BY <1>6, Zenon DEF prompt, historyVars, vars
  <2>2. Pending' = Pending /\ Mode' = Mode
    BY <2>1, PendingSame, Zenon DEF Mode
  <2>3. CleanLines'
    BY <1>1, <2>1 DEF CleanLines
  <2> QED BY <1>1, <2>1, <2>2, <2>3, Zenon
<1>7. CASE spawn \/ Erase \/ Redraw
  <2>1. /\ garbled' = garbled /\ UNCHANGED <<line, history_lines>> /\ UNCHANGED <<slots, head, len, emit>>
        /\ pc \in {"spawn", "erase", "redraw"} /\ pc' \in {"prompt", "redraw", "read"}
    BY <1>7, Zenon DEF spawn, Erase, Redraw, historyVars, vars, Goto
  <2>2. Pending' = Pending /\ Mode' = Mode
    BY <2>1, PendingSame, Zenon DEF Mode
  <2> QED BY <1>1, <1>2, <2>1, <2>2, Zenon
<1>8. CASE UNCHANGED termVars
  <2>1. /\ garbled' = garbled /\ UNCHANGED <<line, history_lines, pc>> /\ UNCHANGED <<slots, head, len, emit>>
    BY <1>8, Zenon DEF termVars, shellVars, vars
  <2>2. Pending' = Pending /\ Mode' = Mode
    BY <2>1, PendingSame, Zenon DEF Mode
  <2> QED BY <1>1, <1>2, <2>1, <2>2, Zenon
<1> QED BY <1>3, <1>4, <1>5, <1>6, <1>7, <1>8, Zenon DEF TermNext

(* At first no byte is under way.                                          *)
LEMMA ParseAtFirst == TermInit => ParseInv
<1> SUFFICES ASSUME TermInit PROVE CleanLines /\ Parses(Mode, Pending)
  BY Zenon DEF ParseInv
<1>1. line = <<>> /\ history_lines = [s \in 0 .. HISTORY_CAPACITY - 1 |-> <<>>] /\ pc = "prompt" /\ len = 0
      /\ emit = <<>>
  BY Zenon DEF TermInit, Init
<1>2. CleanLines
  BY <1>1 DEF CleanLines
<1>3. Mode = "read"
  BY <1>1, Zenon DEF Mode
<1>4. Pending = <<>>
  <2>1. Contents = <<>>
    BY <1>1 DEF Contents
  <2> HIDE DEF Contents
  <2> QED BY <1>1, <2>1 DEF Pending
<1> QED BY <1>2, <1>3, <1>4, ParsesNothing, Zenon

(* No byte of an arrow or page key's escape sequence ends up in the line,  *)
(* nor in the history, however handle_escape's reads are interleaved with  *)
(* the pushes, as long as no byte is dropped and Escape not pressed alone. *)
THEOREM SequencesDoNotLeak == TermSpec => []NoStrayBytes
<1>1. ParseInv /\ TypeInv /\ TypeInv' /\ [TermNext]_termVars => ParseInv'
  BY ParseKept, Zenon
<1>2. ParseInv => NoStrayBytes
  <2> SUFFICES ASSUME ParseInv, ~garbled PROVE Range(line) \subseteq Chars
    BY Zenon DEF NoStrayBytes
  <2>1. line \in Seq(Chars)
    BY Zenon DEF ParseInv, CleanLines
  <2> QED BY <2>1 DEF Range
<1> QED BY <1>1, <1>2, ParseAtFirst, AlwaysTyped, PTL DEF TermSpec

-----------------------------------------------------------------------------
(* What the screen shows while the keys come one at a time: with nothing   *)
(* pending the line; with a character pending the line and it, since the   *)
(* task has echoed it already; with a backspace pending one character      *)
(* less; and during a redraw the line to be erased, then the bare prompt.  *)
LineShown == Shows(screen, line, Len(line))

Sequence(m, p) ==
  \/ m = "read" /\ (Short(p) \/ Long(p))
  \/ m = "escape" /\ Len(p) = 2 /\ p[1] = "[" /\ p[2] \in Arrows
  \/ m = "escape" /\ Len(p) = 3 /\ p[1] = "[" /\ p[2] = "5" /\ p[3] = "~"
  \/ m = "csi" /\ Len(p) = 1 /\ p[1] \in Arrows
  \/ m = "csi" /\ Len(p) = 2 /\ p[1] = "5" /\ p[2] = "~"
  \/ m = "drain" /\ Len(p) = 1 /\ p[1] = "~"

Quiet == pc = "read" /\ Len(Pending) = 0 /\ LineShown
CharComes ==
  /\ pc = "read" /\ Len(Pending) = 1 /\ Pending[1] \in Chars
  /\ Len(line) < LINE_BUF_SIZE /\ Shows(screen, Append(line, Pending[1]), Len(line) + 1)
BackspaceComes ==
  /\ pc = "read" /\ Len(Pending) = 1 /\ Pending[1] = "backspace"
  /\ line # <<>> /\ Shows(screen, line, Len(line) - 1)
NewlineComes == pc = "read" /\ Len(Pending) = 1 /\ Pending[1] = "newline"
SequenceComes == Sequence(pc, Pending) /\ LineShown
Erasing == pc = "erase" /\ Len(Pending) = 0 /\ \E l : Shows(screen, l, erase)
Redrawing == pc = "redraw" /\ Len(Pending) = 0 /\ Shows(screen, line, 0)

Phase ==
  \/ pc \in {"prompt", "spawn"}
  \/ Quiet \/ CharComes \/ BackspaceComes \/ NewlineComes \/ SequenceComes
  \/ Erasing \/ Redrawing

StepInv == inStep => Phase

(* What the row shows depends on the beginning of the line only.           *)
LEMMA ShowsPrefix ==
  ASSUME NEW s, NEW l, NEW m, NEW n \in Nat, Shows(s, l, n), \A i \in 1 .. n : m[i] = l[i]
  PROVE  Shows(s, m, n)
<1>1. ASSUME NEW c \in 0 .. BUFFER_WIDTH - 1 PROVE Cell(m, n, c) = Cell(l, n, c)
  <2>1. CASE 1 < c /\ c < 2 + n
    <3>1. c - 1 \in 1 .. n
      BY <2>1, Sizes
    <3> QED BY <3>1, Zenon DEF Cell
  <2>2. CASE ~(1 < c /\ c < 2 + n)
    BY <2>2, Zenon DEF Cell
  <2> QED BY <2>1, <2>2, Zenon
<1> QED BY <1>1, Zenon DEF Shows

(* Between two keys nothing happens unless the shell, the row or the bytes *)
(* under way change.                                                       *)
LEMMA PhaseSame ==
  ASSUME Phase, UNCHANGED <<pc, line, erase, screen>>, Pending' = Pending
  PROVE  Phase'
BY Zenon DEF Phase, Quiet, CharComes, BackspaceComes, NewlineComes, SequenceComes, Erasing, Redrawing, LineShown

(* A key comes to an idle shell that shows its line.                       *)
LEMMA PhaseDecode ==
  ASSUME TypeInv, NEW k \in Keys, Decode(k), inStep', StepInv
  PROVE  Phase'
<1>1. inStep /\ pc = "read" /\ len = 0 /\ emit = <<>> /\ ~Ignored(k)
  BY Zenon DEF Decode, Idle
<1>2. Len(Pending) = 0 /\ Pending' = KeyBytes(k)
  BY <1>1, PendingDecode
<1>3. LineShown
  <2>1. Phase
    BY <1>1, Zenon DEF StepInv
  <2> QED BY <1>1, <1>2, <2>1 DEF Phase, Quiet, CharComes, BackspaceComes, NewlineComes, SequenceComes,
             Erasing, Redrawing, Sequence, Short, Long
<1>4. UNCHANGED <<pc, line, erase>> /\ line \in Lines /\ screen \in Screens
  BY Zenon DEF Decode, shellVars, TypeInv
<1>5. line \in Seq(Plain) /\ Len(line) \in 0 .. LINE_BUF_SIZE /\ Len(line) \in Nat
  BY <1>4, LineFacts, Sizes DEF Lines
<1>6. CASE k \notin UnicodeKeys
  <2>1. (Short(KeyBytes(k)) \/ Long(KeyBytes(k))) /\ screen' = screen
    BY <1>6, KeyBytesFacts, Zenon DEF Decode
  <2>2. SequenceComes'
    BY <1>1, <1>2, <1>3, <1>4, <2>1, Zenon DEF SequenceComes, LineShown, Sequence
  <2> QED BY <2>2, Zenon DEF Phase
<1>7. CASE k \in UnicodeKeys
  <2>1. Len(Pending') = 1 /\ Pending'[1] = k /\ k \in Marks
    BY <1>2, <1>7, KeyBytesFacts, MarksFacts, Zenon
  <2>2. screen' = write_byte(screen, Glyph(k))
    BY <1>4, <1>7, <2>1, WriteOne, Zenon DEF Decode
  <2>3. k # "escape"
    BY <1>1, Zenon DEF Ignored
  <2>4. CASE k = "newline"
    BY <1>1, <1>4, <2>1, <2>4, Zenon DEF NewlineComes, Phase
  <2>5. CASE k = "backspace"
    <3>1. line # <<>> /\ Len(line) # 0
      BY <1>1, <1>5, <2>5 DEF Ignored
    <3>2. Shows(screen', line, Len(line) - 1)
      BY <1>3, <1>4, <1>5, <2>2, <2>5, <3>1, ShowsPrevious, Zenon DEF LineShown
    <3> QED BY <1>1, <1>4, <2>1, <2>5, <3>1, <3>2, Zenon DEF BackspaceComes, Phase
  <2>6. CASE k \in Chars
    <3>1. PICK l : l = Append(line, k)
      BY Zenon
    <3>2. k \in Plain /\ Len(line) < LINE_BUF_SIZE
      BY <1>1, <1>5, <2>6, CharFacts, Sizes DEF Ignored
    <3>3. /\ l \in Seq(Plain) /\ Len(line) < Len(l) /\ l[Len(line) + 1] = k
          /\ \A i \in 1 .. Len(line) : l[i] = line[i]
      BY <1>5, <3>1, <3>2
    <3>4. Shows(screen, l, Len(line))
      BY <1>3, <1>5, <3>3, ShowsPrefix, Zenon DEF LineShown
    <3>5. 2 + Len(line) < BUFFER_WIDTH
      BY <1>5, <3>2, Sizes
    <3>6. Shows(screen', l, Len(line) + 1)
      <4>1. Shows(write_byte(screen, Glyph(l[Len(line) + 1])), l, Len(line) + 1)
        BY <1>4, <1>5, <3>3, <3>4, <3>5, ShowsNext, Zenon
      <4> QED BY <2>2, <3>3, <4>1, Zenon
    <3> QED BY <1>1, <1>4, <2>1, <2>6, <3>1, <3>2, <3>6, Zenon DEF CharComes, Phase
  <2> QED BY <1>7, <2>3, <2>4, <2>5, <2>6, Zenon DEF UnicodeKeys, Control
<1> QED BY <1>6, <1>7, Zenon

(* The bytes of one key fit the queue, so none is dropped.                 *)
LEMMA PhaseFits ==
  ASSUME TypeInv, Phase, pc \notin {"prompt", "spawn"}, emit # <<>>, Capacity >= 4
  PROVE  len < Capacity
<1>1. Len(Pending) = len + Len(emit) /\ len \in Nat /\ Len(emit) \in Nat
  BY PendingFacts, Zenon
<1>2. Len(emit) # 0
  BY DEF TypeInv
<1>3. Len(Pending) \in 0 .. 4
  BY DEF Phase, Quiet, CharComes, BackspaceComes, NewlineComes, SequenceComes, Erasing, Redrawing,
         Sequence, Short, Long
<1> QED BY <1>1, <1>2, <1>3, Sizes

(* The shell reads a byte of the one key that is on its way.               *)
LEMMA PhaseRead ==
  ASSUME TypeInv, TypeInv', Phase, Pop, Handles, screen' = screen, emit' = emit
  PROVE  Phase'
<1>1. /\ Len(Pending) \in Nat /\ Len(Pending) # 0 /\ popped' = Pending[1] /\ Pending' = Tail(Pending)
  BY PendingPop, Zenon
<1>2. Pending \in Seq(Values)
  BY PendingFacts, Zenon
<1> DEFINE n == Len(Pending)
<1>3. Len(Pending') = n - 1 /\ \A i \in 1 .. n - 1 : Pending'[i] = Pending[i + 1]
  BY <1>1, <1>2
<1>4. line \in Lines /\ line \in Seq(Plain) /\ Len(line) \in Nat
  BY DEF TypeInv, Lines
<1> HIDE DEF Pending
<1>5. CASE CharComes
  <2>1. popped' \in Chars /\ pc = "read" /\ n = 1
    BY <1>1, <1>5, Zenon DEF CharComes
  <2>2. popped' \notin Control
    BY <2>1, CharFacts, Zenon DEF Control
  <2>3. Edits
    BY <2>1, <2>2, Zenon DEF Handles, Stays, Submits, Recalls, Control
  <2>4. line' = Append(line, popped') /\ pc' = "read"
    BY <1>4, <1>5, <2>2, <2>3, Sizes DEF Edits, CharComes, Control
  <2>5. Len(line') = Len(line) + 1
    BY <1>4, <2>4
  <2>6. Shows(screen', line', Len(line'))
    BY <1>1, <1>5, <2>4, <2>5, Zenon DEF CharComes
  <2> QED BY <1>3, <2>1, <2>4, <2>6 DEF Quiet, LineShown, Phase
<1>6. CASE BackspaceComes
  <2>1. popped' = "backspace" /\ pc = "read" /\ n = 1 /\ line # <<>>
    BY <1>1, <1>6, Zenon DEF BackspaceComes
  <2>2. Edits
    BY <2>1, Zenon DEF Handles, Stays, Submits, Recalls
  <2>3. line' = Front(line) /\ pc' = "read"
    BY <2>1, <2>2, Zenon DEF Edits, Plain, Control
  <2>4. Len(line') = Len(line) - 1 /\ Len(line) - 1 \in Nat /\ \A i \in 1 .. Len(line) - 1 : line'[i] = line[i]
    BY <1>4, <2>1, <2>3, FrontFacts
  <2>5. Shows(screen', line', Len(line'))
    BY <1>6, <2>4, ShowsPrefix, Zenon DEF BackspaceComes
  <2> QED BY <1>3, <2>1, <2>3, <2>5 DEF Quiet, LineShown, Phase
<1>7. CASE NewlineComes
  <2>1. popped' = "newline" /\ pc = "read"
    BY <1>1, <1>7, Zenon DEF NewlineComes
  <2>2. pc' \in {"prompt", "spawn"}
    BY <2>1, Zenon DEF Handles, Stays, Submits, Edits, Recalls, Plain, Control
  <2> QED BY <2>2, Zenon DEF Phase
<1>8. CASE SequenceComes
  <2>1. CASE Recalls
    <3>1. pc = "csi" /\ Pending[1] \in Arrows /\ pc' = "erase" /\ erase' = Len(line)
      BY <1>1, <2>1, Zenon DEF Recalls
    <3>2. n = 1
      BY <1>8, <3>1, Zenon DEF SequenceComes, Sequence, Arrows
    <3>3. Shows(screen', line, erase')
      BY <1>8, <3>1, Zenon DEF SequenceComes, LineShown
    <3>4. Len(Pending') = 0
      BY <1>3, <3>2
    <3> QED BY <3>1, <3>3, <3>4, Zenon DEF Erasing, Phase
  <2>2. CASE ~Recalls
    <3>1. Stays
      BY <1>1, <1>8, <2>2, Zenon DEF Handles, Submits, Edits, SequenceComes, Sequence, Short, Long, Plain, Control
    <3>2. LineShown'
      BY <1>8, <3>1, Zenon DEF Stays, SequenceComes, LineShown
    <3>3. \/ Sequence(pc', Pending')
          \/ pc' = "read" /\ Len(Pending') = 0
      <4>1. CASE pc = "read" /\ Short(Pending)
        <5>1. Len(Pending') = 2 /\ Pending'[1] = Pending[2] /\ Pending'[2] = Pending[3]
          BY <1>3, <4>1 DEF Short
        <5>2. pc' = "escape"
          BY <1>1, <3>1, <4>1, Zenon DEF Stays, Short
        <5> QED BY <4>1, <5>1, <5>2, Zenon DEF Short, Sequence
      <4>2. CASE pc = "read" /\ Long(Pending)
        <5>1. Len(Pending') = 3 /\ Pending'[1] = Pending[2] /\ Pending'[2] = Pending[3] /\ Pending'[3] = Pending[4]
          BY <1>3, <4>2 DEF Long
        <5>2. pc' = "escape"
          BY <1>1, <3>1, <4>2, Zenon DEF Stays, Long
        <5> QED BY <4>2, <5>1, <5>2, Zenon DEF Long, Sequence
      <4>3. CASE pc = "escape" /\ n = 2 /\ Pending[1] = "[" /\ Pending[2] \in Arrows
        BY <1>1, <1>3, <3>1, <4>3 DEF Stays, Sequence
      <4>4. CASE pc = "escape" /\ n = 3 /\ Pending[1] = "[" /\ Pending[2] = "5" /\ Pending[3] = "~"
        BY <1>1, <1>3, <3>1, <4>4 DEF Stays, Sequence
      <4>5. CASE pc = "csi" /\ n = 1 /\ Pending[1] \in Arrows
        BY <1>1, <1>3, <3>1, <4>5 DEF Stays
      <4>6. CASE pc = "csi" /\ n = 2 /\ Pending[1] = "5" /\ Pending[2] = "~"
        BY <1>1, <1>3, <3>1, <4>6 DEF Stays, Sequence, Arrows
      <4>7. CASE pc = "drain" /\ n = 1 /\ Pending[1] = "~"
        BY <1>1, <1>3, <3>1, <4>7 DEF Stays
      <4> QED BY <1>8, <4>1, <4>2, <4>3, <4>4, <4>5, <4>6, <4>7, Zenon DEF SequenceComes, Sequence
    <3> QED BY <3>2, <3>3, Zenon DEF SequenceComes, Quiet, Phase
  <2> QED BY <2>1, <2>2, Zenon
<1>9. ~Quiet /\ ~Erasing /\ ~Redrawing
  BY <1>1, Zenon DEF Quiet, Erasing, Redrawing
<1>10. pc \notin {"prompt", "spawn"}
  BY Zenon DEF Handles, Stays, Submits, Edits, Recalls
<1> QED BY <1>5, <1>6, <1>7, <1>8, <1>9, <1>10, Zenon DEF Phase

(* Every step of the task and of the shell goes from one of the phases to  *)
(* another.                                                                *)
LEMMA StepKept ==
  ASSUME TypeInv, TypeInv', StepInv, [TermNext]_termVars, Capacity >= 4
  PROVE  StepInv'
<1> SUFFICES ASSUME inStep' PROVE Phase'
  BY Zenon DEF StepInv
<1>1. ASSUME inStep' = inStep PROVE Phase
  BY <1>1, Zenon DEF StepInv
<1>2. ASSUME NEW k \in Keys, Decode(k) PROVE Phase'
  BY <1>2, PhaseDecode, Zenon
<1>3. CASE push_input_byte
  <2>1. /\ emit # <<>> /\ emit' = Tail(emit) /\ inStep' = inStep /\ UNCHANGED <<pc, line, erase, screen>>
        /\ Push(Head(emit)) \/ len = Capacity
    BY <1>3, Zenon DEF push_input_byte, shellVars, PushFull
  <2>2. CASE pc \in {"prompt", "spawn"}
    BY <2>1, <2>2, Zenon DEF Phase
  <2>3. CASE pc \notin {"prompt", "spawn"}
    <3>1. len < Capacity /\ len \in Nat
      BY <1>1, <2>1, <2>3, PhaseFits, PendingFacts, Zenon
    <3>2. Push(Head(emit))
      BY <2>1, <3>1, Sizes
    <3>3. Pending' = Pending
      BY <2>1, <3>2, PendingPush, Zenon
    <3> QED BY <1>1, <2>1, <3>3, PhaseSame, Zenon
  <2> QED BY <2>2, <2>3, Zenon
<1>4. CASE read_byte
  <2>1. inStep' = inStep /\ emit' = emit /\ screen' = screen
    BY <1>4, ReadCases, Zenon
  <2>2. CASE PopNothing /\ UNCHANGED shellVars
    <3>1. Pending' = Pending
      BY <2>1, <2>2, PendingSame, Zenon DEF PopNothing
    <3> QED BY <1>1, <2>1, <2>2, <3>1, PhaseSame, Zenon DEF shellVars
  <2>3. CASE Pop /\ Handles
    BY <1>1, <2>1, <2>3, PhaseRead, Zenon
  <2> QED BY <1>4, <2>2, <2>3, ReadCases, Zenon
<1>5. CASE prompt
  <2>1. /\ screen' = write_string(screen, <<"newline", ">", Blank>>) /\ pc' = "read" /\ line' = <<>>
        /\ len' = 0 /\ emit' = <<>> /\ UNCHANGED <<slots, head, len, emit>>
    BY <1>5, Zenon DEF prompt, sys_write, vars
  <2>2. Len(Pending') = 0
    <3>1. Len(Pending') = len' + Len(emit')
      BY PendingFacts, PendingSame, <2>1, Zenon
    <3> QED BY <2>1, <3>1
  <2>3. screen \in Screens
    BY Zenon DEF TypeInv
  <2>4. Shows(screen', <<>>, 0)
    BY <2>1, <2>3, ShowsPrompt, Zenon
  <2> QED BY <2>1, <2>2, <2>4, Zenon DEF Quiet, LineShown, Phase
<1>6. CASE spawn
  BY <1>6, Zenon DEF spawn, Goto, Phase
<1>7. CASE Erase
  <2>1. /\ screen' = write_string(screen, Backspaces(erase)) /\ pc = "erase" /\ pc' = "redraw"
        /\ line' = line /\ inStep' = inStep /\ UNCHANGED <<slots, head, len, emit>>
    BY <1>7, Zenon DEF Erase, Goto, sys_write, vars
  <2>2. Erasing
    BY <1>1, <2>1, Zenon DEF Phase, Quiet, CharComes, BackspaceComes, NewlineComes, SequenceComes, Redrawing, Sequence
  <2>3. PICK l : Shows(screen, l, erase)
    BY <2>2, Zenon DEF Erasing
  <2>4. screen \in Screens /\ erase \in Nat
    BY Sizes DEF TypeInv
  <2>5. Shows(screen', l, 0)
    BY <2>1, <2>3, <2>4, ShowsErased, Zenon
  <2>6. Shows(screen', line', 0)
    BY <2>5, ShowsNothing, Zenon
  <2>7. Pending' = Pending
    BY <2>1, PendingSame, Zenon
  <2> QED BY <2>1, <2>2, <2>6, <2>7, Zenon DEF Erasing, Redrawing, Phase
<1>8. CASE Redraw
  <2>1. /\ screen' = write_string(screen, line) /\ pc = "redraw" /\ pc' = "read"
        /\ line' = line /\ inStep' = inStep /\ UNCHANGED <<slots, head, len, emit>>
    BY <1>8, Zenon DEF Redraw, Goto, sys_write, vars
  <2>2. Redrawing
    BY <1>1, <2>1, Zenon DEF Phase, Quiet, CharComes, BackspaceComes, NewlineComes, SequenceComes, Erasing, Sequence
  <2>3. screen \in Screens /\ line \in Lines
    BY Zenon DEF TypeInv
  <2>4. Shows(screen', line', Len(line'))
    BY <2>1, <2>2, <2>3, ShowsRedrawn, Zenon DEF Redrawing
  <2>5. Pending' = Pending
    BY <2>1, PendingSame, Zenon
  <2> QED BY <2>1, <2>2, <2>4, <2>5, Zenon DEF Redrawing, Quiet, LineShown, Phase
<1>9. CASE UNCHANGED termVars
  <2>1. inStep' = inStep /\ UNCHANGED <<pc, line, erase, screen>> /\ UNCHANGED <<slots, head, len, emit>>
    BY <1>9, Zenon DEF termVars, shellVars, vars
  <2> QED BY <1>1, <2>1, PendingSame, PhaseSame, Zenon
<1> QED BY <1>2, <1>3, <1>4, <1>5, <1>6, <1>7, <1>8, <1>9, Zenon DEF TermNext

\* Where the bytes of two sequences are once they are written one after the
\* other, as the prompt and the line are.
LEMMA Joined ==
  ASSUME NEW S, NEW a \in Seq(S), NEW b \in Seq(S)
  PROVE  /\ Len(a \o b) = Len(a) + Len(b)
         /\ \A i \in 1 .. Len(a) : (a \o b)[i] = a[i]
         /\ \A i \in 1 .. Len(b) : (a \o b)[Len(a) + i] = b[i]
<1>1. Len(a \o b) = Len(a) + Len(b)
  OBVIOUS
<1>2. ASSUME NEW i \in 1 .. Len(a) PROVE (a \o b)[i] = a[i]
  OBVIOUS
<1>3. ASSUME NEW i \in 1 .. Len(b) PROVE (a \o b)[Len(a) + i] = b[i]
  OBVIOUS
<1> QED BY <1>1, <1>2, <1>3, Zenon

(* Whoever waits for the shell before each key, and presses none that it   *)
(* ignores, always sees the prompt and the line Enter will run: though the *)
(* task echoes keys and the shell only redraws, the writer's row and       *)
(* line_buf never drift apart.  INPUT_QUEUE must hold the four bytes of    *)
(* the longest key; it holds 128.                                          *)
THEOREM ScreenIsTheLine ==
  ASSUME Capacity >= 4
  PROVE  TermSpec => []ScreenShowsLine
<1>1. TermInit => StepInv
  BY Zenon DEF TermInit, StepInv
<1>2. StepInv /\ TypeInv /\ TypeInv' /\ [TermNext]_termVars => StepInv'
  BY StepKept, Zenon
<1>3. TypeInv /\ StepInv => ScreenShowsLine
  <2> SUFFICES ASSUME TypeInv, StepInv, inStep, Idle
               PROVE  /\ screen.col = Len(Shown)
                      /\ \A c \in DOMAIN screen.cells :
                           screen.cells[c] = IF c < Len(Shown) THEN Shown[c + 1] ELSE Blank
    BY Zenon DEF ScreenShowsLine
  <2>1. pc = "read" /\ len = 0 /\ emit = <<>> /\ Phase
    BY Zenon DEF Idle, StepInv
  <2>2. Len(Pending) = 0
    <3>1. Len(emit) = 0
      BY <2>1, Zenon
    <3> QED BY <2>1, <3>1, PendingFacts
  <2>3. Shows(screen, line, Len(line))
    BY <2>1, <2>2 DEF Phase, Quiet, CharComes, BackspaceComes, NewlineComes, SequenceComes, Erasing,
                      Redrawing, Sequence, Short, Long, LineShown
  <2>4. line \in Seq(Plain) /\ Len(line) \in Nat /\ DOMAIN screen.cells = 0 .. BUFFER_WIDTH - 1
    BY DEF TypeInv, Lines, Screens
  <2>5. PICK p : p = <<">", Blank>>
    BY Zenon
  <2>6. /\ p \in Seq(Marks) /\ line \in Seq(Marks) /\ Len(p) = 2 /\ p[1] = ">" /\ p[2] = Blank
    <3>1. ">" \in Marks /\ Blank \in Marks
      BY MarksFacts, Zenon
    <3>2. p \in Seq(Marks)
      BY <2>5, <3>1, Pair, Zenon
    <3>3. line \in Seq(Marks)
      BY LineFacts, Zenon DEF TypeInv
    <3> QED BY <2>5, <3>2, <3>3, Zenon
  <2>7. Shown = p \o line
    BY <2>5, Zenon DEF Shown
  <2>8. /\ Len(Shown) = 2 + Len(line) /\ Shown[1] = ">" /\ Shown[2] = Blank
        /\ \A i \in 1 .. Len(line) : Shown[2 + i] = line[i]
    <3>1. PICK l \in Seq(Marks) : l = line
      BY <2>6, Zenon
    <3>2. /\ Len(p \o l) = Len(p) + Len(l)
          /\ \A i \in 1 .. Len(p) : (p \o l)[i] = p[i]
          /\ \A i \in 1 .. Len(l) : (p \o l)[Len(p) + i] = l[i]
      <4>1. p \in Seq(Marks) /\ l \in Seq(Marks)
        BY <2>6, <3>1, Zenon
      <4> QED BY <4>1, Joined, SMT
    <3>3. Len(p) = 2 /\ 1 \in 1 .. Len(p) /\ 2 \in 1 .. Len(p)
      BY <2>6
    <3> QED BY <2>4, <2>6, <2>7, <3>1, <3>2, <3>3, Zenon
  <2>9. ASSUME NEW c \in 0 .. BUFFER_WIDTH - 1
        PROVE  screen.cells[c] = IF c < Len(Shown) THEN Shown[c + 1] ELSE Blank
    <3>1. screen.cells[c] = Cell(line, Len(line), c)
      BY <2>3, Zenon DEF Shows
    <3>2. CASE c = 0 \/ c = 1
      <4>1. c < Len(Shown)
        BY <2>4, <2>8, <3>2
      <4>2. Shown[c + 1] = Cell(line, Len(line), c)
        BY <2>8, <3>2 DEF Cell
      <4> QED BY <3>1, <4>1, <4>2, Zenon
    <3>3. CASE 1 < c /\ c < 2 + Len(line)
      <4>1. c - 1 \in 1 .. Len(line) /\ 2 + (c - 1) = c + 1
        BY <2>4, <3>3, Sizes
      <4>2. Shown[c + 1] = line[c - 1]
        BY <2>8, <4>1, Zenon
      <4> QED BY <2>8, <3>1, <3>3, <4>2 DEF Cell
    <3>4. CASE c >= 2 + Len(line)
      BY <2>4, <2>8, <3>1, <3>4 DEF Cell
    <3> QED BY <2>4, <3>2, <3>3, <3>4, Sizes
  <2>10. screen.col = Len(Shown)
    BY <2>3, <2>8, Zenon DEF Shows
  <2> QED BY <2>4, <2>9, <2>10, Zenon
<1> QED BY <1>1, <1>2, <1>3, AlwaysTyped, PTL DEF TermSpec
=============================================================================
