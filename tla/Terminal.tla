------------------------------ MODULE Terminal ------------------------------
(***************************************************************************)
(* The terminal: what becomes of a key from the executor's task, which     *)
(* echoes it and puts its bytes into INPUT_QUEUE, to the shell, which      *)
(* reads them one at a time, edits its line, keeps a history of lines and  *)
(* redraws the screen when one is recalled.  The task and the shell are    *)
(* two threads: either may be preempted between any two of its steps, and  *)
(* they share INPUT_QUEUE, the ring buffer this module extends, and the    *)
(* screen.                                                                 *)
(*                                                                         *)
(* Of the screen only the bottom row is kept, the one row the writer ever  *)
(* changes other than by scrolling.  The keys the shell treats alike are   *)
(* one key here: right stands for left too, page_up for every key whose    *)
(* sequence ends in a tilde.  Chars are printable: Tab and Delete, drawn   *)
(* as a square but kept in the line as they are, are left out, and so are  *)
(* programs that read the keyboard while the shell waits for them.         *)
(***************************************************************************)
EXTENDS RingBuffer, Functions, FiniteSetsExt

CONSTANTS
  Chars,             \* the characters that are typed
  LINE_BUF_SIZE,
  HISTORY_CAPACITY,
  BUFFER_WIDTH,
  MaxKeys,           \* bound of the model: keys pressed in a behaviour
  MaxRushed          \* bound of the model: see Decode

Control == {"backspace", "newline", "escape"}

ASSUME TerminalAssumption ==
  /\ Chars \subseteq Values \ Control
  /\ Control \union {"[", "A", "B", "C", "5", "~"} \subseteq Values
  /\ LINE_BUF_SIZE \in Nat \ {0}
  /\ HISTORY_CAPACITY \in Nat \ {0}
  /\ BUFFER_WIDTH \in Nat /\ BUFFER_WIDTH >= 2 + LINE_BUF_SIZE
  /\ MaxKeys \in Nat /\ MaxRushed \in Nat

VARIABLES
  pressed,          \* keys pressed so far
  emit,             \* bytes of the last key that are still to be queued
  screen,           \* the bottom row, and column_position
  pc,               \* where the shell is
  line,             \* line_buf[0 .. r12)
  erase,            \* how many characters a redraw erases first
  r13,              \* history browse offset, 0 on the live line
  history_lines,
  history_next,
  history_count,
  submitted,        \* (history) every line entered so far
  garbled,          \* (history) a byte was dropped, or Escape pressed alone
  inStep            \* (history) see Decode

shellVars == <<pc, line, erase, r13, history_lines, history_next, history_count, submitted>>
termVars == <<vars, pressed, emit, screen, shellVars, garbled, inStep>>

-----------------------------------------------------------------------------
(* The screen.                                                             *)

Blank == " "
Cleared == [cells |-> [c \in 0 .. BUFFER_WIDTH - 1 |-> Blank], col |-> 0]

write_byte(s, b) ==
  CASE b = "newline" -> Cleared
    [] b = "backspace" /\ s.col = 0 -> s
    [] b = "backspace" /\ s.col > 0 ->
         [cells |-> [s.cells EXCEPT ![s.col - 1] = Blank], col |-> s.col - 1]
    [] OTHER ->
         LET t == IF s.col >= BUFFER_WIDTH THEN Cleared ELSE s
         IN  [cells |-> [t.cells EXCEPT ![t.col] = b], col |-> t.col + 1]

(* What has no glyph is drawn as a square.                                 *)
Glyph(c) == IF c = "escape" THEN "square" ELSE c

write_string(s, text) ==
  LET written[n \in 0 .. Len(text)] ==
        IF n = 0 THEN s ELSE write_byte(written[n - 1], Glyph(text[n]))
  IN  written[Len(text)]

Backspaces(n) == [i \in 1 .. n |-> "backspace"]

-----------------------------------------------------------------------------
(* print_keypresses.                                                       *)

UnicodeKeys == Chars \union Control

ansi_escape_sequence ==
  [up |-> <<"escape", "[", "A">>, down |-> <<"escape", "[", "B">>,
   right |-> <<"escape", "[", "C">>, page_up |-> <<"escape", "[", "5", "~">>]

Keys == UnicodeKeys \union DOMAIN ansi_escape_sequence

(* The shell waits for a key and has taken every byte of the last one.     *)
Idle == pc = "read" /\ len = 0 /\ emit = <<>>

(* The shell ignores this key, or part of it, though it has been echoed.   *)
Ignored(k) ==
  \/ k \in Chars /\ Len(line) = LINE_BUF_SIZE
  \/ k = "backspace" /\ line = <<>>
  \/ k = "escape"

(* A key is decoded, and echoed if it is a character.  inStep says that    *)
(* since the prompt was shown every key came when the shell was idle, and  *)
(* none was one that it ignores.  The first MaxRushed keys may come at any *)
(* time; a later one only to an idle shell that has missed nothing, which  *)
(* leaves room for the lines it takes to go around the history.            *)
Decode(k) ==
  /\ pressed < MaxRushed \/ (pressed < MaxKeys /\ Idle /\ ~garbled)
  /\ emit = <<>>
  /\ pressed' = pressed + 1
  /\ emit' = IF k \in UnicodeKeys THEN <<k>> ELSE ansi_escape_sequence[k]
  /\ screen' = IF k \in UnicodeKeys THEN write_string(screen, <<k>>) ELSE screen
  /\ inStep' = (inStep /\ Idle /\ ~Ignored(k))
  /\ garbled' = (garbled \/ k = "escape")
  /\ UNCHANGED <<vars, shellVars>>

(* push_input_byte, for the next byte of the key.                          *)
push_input_byte ==
  /\ emit # <<>>
  /\ \/ Push(Head(emit)) /\ UNCHANGED garbled
     \/ PushFull /\ garbled' = TRUE
  /\ emit' = Tail(emit)
  /\ UNCHANGED <<pressed, screen, shellVars, inStep>>

-----------------------------------------------------------------------------
(* The shell.                                                              *)

Goto(label) == pc' = label /\ UNCHANGED <<line, erase, r13>>
historyVars == <<history_lines, history_next, history_count, submitted>>

(* sys_write, as a step of its own: the task may echo before and after.    *)
sys_write(text) == screen' = write_string(screen, text)

prompt ==
  /\ pc = "prompt"
  /\ sys_write(<<"newline", ">", Blank>>)
  /\ pc' = "read"
  /\ line' = <<>>
  /\ r13' = 0
  /\ inStep' = (len = 0 /\ emit = <<>>)
  /\ UNCHANGED <<vars, pressed, emit, erase, historyVars, garbled>>

StopsWhenFull ==
  /\ history_lines' = [history_lines EXCEPT ![history_next] = line]
  /\ history_next' = IF history_count >= HISTORY_CAPACITY THEN history_next
                     ELSE (history_next + 1) % HISTORY_CAPACITY
  /\ history_count' = IF history_count >= HISTORY_CAPACITY THEN history_count
                      ELSE history_count + 1
  /\ submitted' = Append(submitted, line)

(* The line goes into the slot after the newest.                           *)
history_push ==
  /\ history_lines' = [history_lines EXCEPT ![history_next] = line]
  /\ history_next' = (history_next + 1) % HISTORY_CAPACITY
  /\ history_count' = IF history_count >= HISTORY_CAPACITY THEN history_count
                      ELSE history_count + 1
  /\ submitted' = Append(submitted, line)

handle_newline ==
  IF line = <<>> THEN Goto("prompt") /\ UNCHANGED historyVars
  ELSE Goto("spawn") /\ history_push

(* SYS_SPAWN fails, or the program runs, prints something or nothing, and  *)
(* SYS_WAIT returns.                                                       *)
spawn ==
  /\ pc = "spawn"
  /\ \E text \in {<<>>, <<"spawn failed", "newline">>} : sys_write(text)
  /\ Goto("prompt")
  /\ UNCHANGED <<vars, pressed, emit, historyVars, garbled, inStep>>

ErasesNewLength(k) ==
  LET entry == history_lines[(history_next - k) % HISTORY_CAPACITY]
  IN  line' = entry /\ erase' = Len(entry) /\ pc' = "erase"

(* The entry k back from the newest becomes the line, which is redrawn.    *)
history_load_into_line(k) ==
  LET entry == history_lines[(history_next - k) % HISTORY_CAPACITY]
  IN  line' = entry /\ erase' = Len(line) /\ pc' = "erase"

history_older ==
  \/ /\ r13 < history_count
     /\ r13' = r13 + 1
     /\ history_load_into_line(r13 + 1)
  \/ r13 >= history_count /\ Goto("read")

history_newer ==
  \/ r13 = 0 /\ Goto("read")
  \/ r13 = 1 /\ r13' = 0 /\ line' = <<>> /\ erase' = Len(line) /\ pc' = "erase"
  \/ r13 > 1 /\ r13' = r13 - 1 /\ history_load_into_line(r13 - 1)

OverrunsLine(b) == pc' = "read" /\ line' = Append(line, b) /\ UNCHANGED <<erase, r13>>

insert(b) ==
  /\ pc' = "read"
  /\ line' = IF Len(line) >= LINE_BUF_SIZE THEN line ELSE Append(line, b)
  /\ UNCHANGED <<erase, r13>>

handle_backspace ==
  /\ pc' = "read"
  /\ line' = IF line = <<>> THEN line ELSE SubSeq(line, 1, Len(line) - 1)
  /\ UNCHANGED <<erase, r13>>

read_char(b) ==
  \/ b = "escape" /\ Goto("escape") /\ UNCHANGED historyVars
  \/ b = "backspace" /\ handle_backspace /\ UNCHANGED historyVars
  \/ b = "newline" /\ handle_newline
  \/ b \notin Control /\ insert(b) /\ UNCHANGED historyVars

StopsAtDigit(b) == Goto("read")

drain_csi(b) == Goto(IF b = "~" THEN "read" ELSE "drain")

(* handle_escape: its second byte, and what may follow that.               *)
handle_escape(b) ==
  \/ pc = "escape" /\ Goto(IF b = "[" THEN "csi" ELSE "read")
  \/ pc = "csi" /\ b = "A" /\ history_older
  \/ pc = "csi" /\ b = "B" /\ history_newer
  \/ pc = "csi" /\ b = "C" /\ Goto("read")
  \/ pc = "csi" /\ b \notin {"A", "B", "C"} /\ drain_csi(b)
  \/ pc = "drain" /\ drain_csi(b)

(* read_byte returns and its caller deals with the byte.                   *)
read_byte ==
  /\ pc \in {"read", "escape", "csi", "drain"}
  /\ \/ Pop /\ pc = "read" /\ read_char(popped')
     \/ Pop /\ handle_escape(popped') /\ UNCHANGED historyVars
     \/ PopNothing /\ UNCHANGED shellVars
  /\ UNCHANGED <<pressed, emit, screen, garbled, inStep>>

(* The two writes of a redraw, each left out when it has nothing to write. *)
Erase ==
  /\ pc = "erase"
  /\ sys_write(Backspaces(erase))
  /\ Goto("redraw")
  /\ UNCHANGED <<vars, pressed, emit, historyVars, garbled, inStep>>

Redraw ==
  /\ pc = "redraw"
  /\ sys_write(line)
  /\ Goto("read")
  /\ UNCHANGED <<vars, pressed, emit, historyVars, garbled, inStep>>

-----------------------------------------------------------------------------
TermInit ==
  /\ Init
  /\ pressed = 0
  /\ emit = <<>>
  /\ screen = Cleared
  /\ pc = "prompt"
  /\ line = <<>>
  /\ erase = 0
  /\ r13 = 0
  /\ history_lines = [s \in 0 .. HISTORY_CAPACITY - 1 |-> <<>>]
  /\ history_next = 0
  /\ history_count = 0
  /\ submitted = <<>>
  /\ garbled = FALSE
  /\ inStep = FALSE

TermNext ==
  \/ \E k \in Keys : Decode(k)
  \/ push_input_byte
  \/ prompt \/ spawn \/ read_byte \/ Erase \/ Redraw

TermSpec == TermInit /\ [][TermNext]_termVars

-----------------------------------------------------------------------------
(* The queue's indices are in its array, the line fits its buffer, the     *)
(* browse offset never runs past the lines stored, and the writer's column *)
(* never past the row.                                                     *)
TermTypeOK ==
  /\ TypeOK
  /\ Len(line) <= LINE_BUF_SIZE
  /\ erase \in 0 .. LINE_BUF_SIZE
  /\ r13 \in 0 .. history_count
  /\ history_next \in 0 .. HISTORY_CAPACITY - 1
  /\ history_count \in 0 .. HISTORY_CAPACITY
  /\ screen.col \in 0 .. BUFFER_WIDTH
  /\ DOMAIN screen.cells = 0 .. BUFFER_WIDTH - 1

(* No byte of an escape sequence ever gets into the line, however the      *)
(* reading of it is interleaved with its writing ("so it doesn't leak into *)
(* the line buffer as stray characters"), as long as INPUT_QUEUE dropped   *)
(* no byte and Escape was not pressed by itself.                           *)
NoStrayBytes == ~garbled => Range(line) \subseteq Chars

(* Up and Down go one line at a time through the last lines entered, k     *)
(* back from the newest being the k-th last, however often the ring has    *)
(* wrapped and whatever was typed over the line in between; and all that   *)
(* the ring has room for can be reached.                                   *)
RecallsInOrder ==
  /\ [][r13' # r13 /\ r13' > 0 =>
          /\ r13' \in {r13 - 1, r13 + 1}
          /\ line' = submitted[Len(submitted) + 1 - r13']]_termVars
  /\ [](history_count = Min({Len(submitted), HISTORY_CAPACITY}))

(* Somebody who waits for the shell before each key, and presses none that *)
(* it ignores, sees the prompt and the line that Enter will run, nothing   *)
(* else and all of it, though the task draws it and the shell only redraws *)
(* it.                                                                     *)
Shown == <<">", Blank>> \o line
ScreenShowsLine ==
  inStep /\ Idle =>
    /\ screen.col = Len(Shown)
    /\ \A c \in DOMAIN screen.cells :
         screen.cells[c] = IF c < Len(Shown) THEN Shown[c + 1] ELSE Blank
=============================================================================
