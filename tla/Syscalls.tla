------------------------------ MODULE Syscalls ------------------------------
(***************************************************************************)
(* The system calls as a user program sees them: checking of pointers,     *)
(* stdin, and the per-thread table of open files.                          *)
(*                                                                         *)
(* `int 0x80` enters through an interrupt gate, so a call runs with        *)
(* interrupts off from its first instruction to its last and is one step.  *)
(* (SYS_WAIT is the exception: it gives up its turn, and is modelled in    *)
(* module Scheduler.)                                                      *)
(***************************************************************************)
EXTENDS Integers, Sequences, SequencesExt, FiniteSets, FiniteSetsExt

CONSTANTS
  Threads,         \* slots of the thread table
  Shell,           \* the thread running at the start
  Files,           \* the disk: name -> contents
  Names,           \* what programs ask to open, on the disk or not
  NoFile,
  MAX_OPEN_FILES,
  READ_MAX,        \* the cap of 256 bytes on one read
  WRITE_MAX,       \* the cap of 1024 bytes on one write
  PATH_MAX,        \* the longest path, and argument, of 255 bytes
  INPUT_QUEUE_CAPACITY,
  PageSize,
  CanonicalEnd,    \* 2^47, where the lower half of the addresses ends
  WordSize,        \* 2^64
  Access,          \* what user code may do with each page: page -> set of "r", "w"
  Buffers,         \* what programs pass as buffers: set of [ptr, len]
  MaxTyped         \* bound of the model: bytes typed

FIRST_FILE_FD == 2

OpenSlots == 0 .. MAX_OPEN_FILES - 1
Fds == 0 .. FIRST_FILE_FD + MAX_OPEN_FILES

ASSUME SyscallsAssumption ==
  /\ Shell \in Threads
  /\ DOMAIN Files \subseteq Names
  /\ \A name \in DOMAIN Files : Files[name] \in Seq(0 .. 255)
  /\ NoFile \notin [name : DOMAIN Files, offset : Nat]
  /\ MaxTyped \in Nat
  /\ {MAX_OPEN_FILES, READ_MAX, WRITE_MAX, PATH_MAX, INPUT_QUEUE_CAPACITY, PageSize}
       \subseteq Nat \ {0}
  /\ CanonicalEnd \in Nat
  /\ WordSize \in Nat
  /\ 2 * CanonicalEnd < WordSize
  \* Only the lower half has pages for user code: elf.rs loads nothing elsewhere.
  /\ \A page \in DOMAIN Access : page \in Nat /\ (page + 1) * PageSize <= CanonicalEnd
  /\ \A b \in Buffers : b.ptr \in 0 .. WordSize - 1 /\ b.len \in Nat

VARIABLES
  status,      \* of each thread: "free", "alive" or "dead" (not reaped yet)
  open_files,  \* of each thread: slot -> NoFile or [name, offset]
  input,       \* INPUT_QUEUE
  typed,       \* number of bytes typed so far; they are numbered from 1
  accepted,    \* those of them that INPUT_QUEUE had room for
  delivered,   \* the stdin bytes copied to programs, ever
  got,         \* what each open file has delivered since it was opened
  faulted      \* a copy has touched memory it may not: the kernel panics

vars == <<status, open_files, input, typed, accepted, delivered, got, faulted>>

Closed == [slot \in OpenSlots |-> NoFile]
Nothing == [slot \in OpenSlots |-> <<>>]

Init ==
  /\ status = [t \in Threads |-> IF t = Shell THEN "alive" ELSE "free"]
  /\ open_files = [t \in Threads |-> Closed]
  /\ input = <<>>
  /\ typed = 0
  /\ accepted = <<>>
  /\ delivered = <<>>
  /\ got = [t \in Threads |-> Nothing]
  /\ faulted = FALSE

-----------------------------------------------------------------------------
(* Pointer checks.                                                         *)

(* page_accessible *)
page_accessible(page, right) == page \in DOMAIN Access /\ right \in Access[page]

(* The CPU takes an address whose upper bits continue bit 47; VirtAddr     *)
(* also takes one with nothing above bit 47, and extends its sign.         *)
Canonical(a) == a < CanonicalEnd \/ a >= WordSize - CanonicalEnd
try_new(a) ==
  IF a \in CanonicalEnd .. 2 * CanonicalEnd - 1 THEN a + WordSize - 2 * CanonicalEnd ELSE a

ChecksFirstPageOnly(ptr, len, right) ==
  ptr # 0 /\ (len = 0 \/ page_accessible(try_new(ptr) \div PageSize, right))

(* user_range_ok and user_range_mapped: every page the range touches.      *)
(* Counting on from page to page crosses from one half to the other.       *)
user_range_ok(ptr, len, right) ==
  LET addr == try_new(ptr)
      last == addr + len - 1
  IN  /\ ptr # 0
      /\ Canonical(addr)
      /\ \/ len = 0
         \/ /\ last < WordSize
            /\ \A page \in addr \div PageSize .. last \div PageSize :
                 page_accessible(try_new(page * PageSize) \div PageSize, right)

(* copy_from_user and copy_to_user, after the check: the hardware looks at *)
(* every byte, at the address as it was passed, and its exception is a     *)
(* panic.                                                                  *)
Faults(ptr, len, right) ==
  \E a \in ptr .. ptr + len - 1 :
    ~(Canonical(a) /\ page_accessible(a \div PageSize, right))

Copy(ptr, len, right) == faulted' = (faulted \/ Faults(ptr, len, right))

(* kill_current_thread, and SYS_EXIT.  The files stay with the thread      *)
(* until it is reaped.                                                     *)
Dies(t) ==
  /\ status' = [status EXCEPT ![t] = "dead"]
  /\ UNCHANGED <<open_files, input, typed, accepted, delivered, got, faulted>>

(* A call that fails returns u64::MAX and changes nothing.                 *)
Fails == UNCHANGED vars

Returns == UNCHANGED <<status, typed, accepted>>

-----------------------------------------------------------------------------
(* The calls.                                                              *)

(* sys_write: only stdout, and only bytes the caller may read.  What is on *)
(* the screen is not modelled.                                             *)
SysWrite(t, fd, buf) ==
  LET len == Min({buf.len, WRITE_MAX})
  IN  /\ status[t] = "alive"
      /\ \/ fd # 1 /\ Fails
         \/ fd = 1 /\ ~user_range_ok(buf.ptr, len, "r") /\ Dies(t)
         \/ /\ fd = 1
            /\ user_range_ok(buf.ptr, len, "r")
            /\ Copy(buf.ptr, len, "r")
            /\ Returns
            /\ UNCHANGED <<open_files, input, delivered, got>>

LosesOnBadPointer(t, ptr, len) ==
  LET n == Min({len, Len(input)})
  IN  /\ input' = SubSeq(input, n + 1, Len(input))
      /\ UNCHANGED <<open_files, got, typed, accepted, faulted>>
      /\ IF user_range_ok(ptr, len, "w")
         THEN delivered' = delivered \o SubSeq(input, 1, n) /\ UNCHANGED status
         ELSE status' = [status EXCEPT ![t] = "dead"] /\ UNCHANGED delivered

(* sys_read_stdin: the pointer is checked, then bytes are popped until the *)
(* buffer is full or the queue is empty.                                   *)
sys_read_stdin(t, ptr, len) ==
  LET n == Min({len, Len(input)})
  IN  \/ ~user_range_ok(ptr, len, "w") /\ Dies(t)
      \/ /\ user_range_ok(ptr, len, "w")
         /\ input' = SubSeq(input, n + 1, Len(input))
         /\ delivered' = delivered \o SubSeq(input, 1, n)
         /\ Copy(ptr, n, "w")
         /\ Returns
         /\ UNCHANGED <<open_files, got>>

(* read_open_file, for an open file, and the copy to ptr: what remains, up *)
(* to len bytes.                                                           *)
read_open_file(t, slot, ptr, len) ==
  LET file == open_files[t][slot]
      data == SubSeq(Files[file.name], file.offset + 1, Len(Files[file.name]))
      n    == Min({len, Len(data)})
  IN  /\ open_files' = [open_files EXCEPT ![t][slot] =
                          [name |-> file.name, offset |-> file.offset + n]]
      /\ got' = [got EXCEPT ![t][slot] = @ \o SubSeq(data, 1, n)]
      /\ Copy(ptr, n, "w")
      /\ Returns
      /\ UNCHANGED <<input, delivered>>

IsOpen(t, fd) == fd - FIRST_FILE_FD \in OpenSlots /\ open_files[t][fd - FIRST_FILE_FD] # NoFile

(* sys_read_file: the pointer is checked before the descriptor.            *)
sys_read_file(t, fd, ptr, len) ==
  \/ ~user_range_ok(ptr, len, "w") /\ Dies(t)
  \/ user_range_ok(ptr, len, "w") /\ ~IsOpen(t, fd) /\ Fails
  \/ /\ user_range_ok(ptr, len, "w")
     /\ IsOpen(t, fd)
     /\ read_open_file(t, fd - FIRST_FILE_FD, ptr, len)

(* sys_read *)
SysRead(t, fd, buf) ==
  LET len == Min({buf.len, READ_MAX})
  IN  /\ status[t] = "alive"
      /\ \/ len = 0 /\ UNCHANGED vars
         \/ len > 0 /\ fd = 0 /\ sys_read_stdin(t, buf.ptr, len)
         \/ len > 0 /\ fd >= FIRST_FILE_FD /\ sys_read_file(t, fd, buf.ptr, len)
         \/ len > 0 /\ fd = 1 /\ Fails

LastSlotToo(t) == {slot \in OpenSlots : open_files[t][slot] = NoFile} \union {MAX_OPEN_FILES - 1}

FreeFileSlots(t) == {slot \in OpenSlots : open_files[t][slot] = NoFile}

PathLengthOk(path) == path.len \in 1 .. PATH_MAX

PathReadable(path) == user_range_ok(path.ptr, path.len, "r")

(* sys_open and open_file, for a path that reads as name: the first free   *)
(* slot, if the file exists and there is one.                              *)
SysOpen(t, path, name) ==
  /\ status[t] = "alive"
  /\ \/ ~PathLengthOk(path) /\ Fails
     \/ PathLengthOk(path) /\ ~PathReadable(path) /\ Dies(t)
     \/ /\ PathLengthOk(path) /\ PathReadable(path)
        /\ name \notin DOMAIN Files \/ FreeFileSlots(t) = {}
        /\ Fails
     \/ /\ PathLengthOk(path) /\ PathReadable(path)
        /\ name \in DOMAIN Files
        /\ FreeFileSlots(t) # {}
        /\ LET slot == Min(FreeFileSlots(t))
           IN  /\ open_files' = [open_files EXCEPT ![t][slot] = [name |-> name, offset |-> 0]]
               /\ got' = [got EXCEPT ![t][slot] = <<>>]
        /\ Copy(path.ptr, path.len, "r")
        /\ Returns
        /\ UNCHANGED <<input, delivered>>

(* sys_close and close_file *)
SysClose(t, fd) ==
  /\ status[t] = "alive"
  /\ \/ ~IsOpen(t, fd) /\ Fails
     \/ /\ IsOpen(t, fd)
        /\ open_files' = [open_files EXCEPT ![t][fd - FIRST_FILE_FD] = NoFile]
        /\ got' = [got EXCEPT ![t][fd - FIRST_FILE_FD] = <<>>]
        /\ Returns
        /\ UNCHANGED <<input, delivered, faulted>>

(* sys_spawn, for a path that reads as name: the new thread has no file    *)
(* open.  A path that is not UTF-8, or names no program, fails.  The loader *)
(* and the address space are module Frames', a full thread table is module *)
(* Scheduler's.                                                            *)
SysSpawn(t, path, args, name) ==
  LET lengthsOk == PathLengthOk(path) /\ args.len <= PATH_MAX
      readable  == PathReadable(path) /\ (args.len > 0 => user_range_ok(args.ptr, args.len, "r"))
  IN  /\ status[t] = "alive"
      /\ \/ ~lengthsOk /\ Fails
         \/ lengthsOk /\ ~readable /\ Dies(t)
         \/ lengthsOk /\ PathReadable(path) /\ Fails
         \/ /\ lengthsOk /\ readable
            /\ name \in DOMAIN Files
            /\ \E u \in Threads :
                 /\ status[u] = "free"
                 /\ status' = [status EXCEPT ![u] = "alive"]
                 /\ open_files' = [open_files EXCEPT ![u] = Closed]
            /\ faulted' = (faulted \/ Faults(path.ptr, path.len, "r")
                                   \/ Faults(args.ptr, args.len, "r"))
            /\ UNCHANGED <<input, typed, accepted, delivered, got>>

SysExit(t) == status[t] = "alive" /\ Dies(t)

KeepsFiles(t) ==
  /\ status[t] = "dead"
  /\ status' = [status EXCEPT ![t] = "free"]
  /\ UNCHANGED <<open_files, input, typed, accepted, delivered, got, faulted>>

(* reap_zombie drops the thread and with it its open files.                *)
Reap(t) ==
  /\ status[t] = "dead"
  /\ status' = [status EXCEPT ![t] = "free"]
  /\ open_files' = [open_files EXCEPT ![t] = Closed]
  /\ got' = [got EXCEPT ![t] = Nothing]
  /\ UNCHANGED <<input, typed, accepted, delivered, faulted>>

(* push_input_byte, by the boot thread: a full queue drops the byte.       *)
Type ==
  /\ typed < MaxTyped
  /\ typed' = typed + 1
  /\ IF Len(input) = INPUT_QUEUE_CAPACITY THEN UNCHANGED <<input, accepted>>
     ELSE /\ input' = Append(input, typed + 1)
          /\ accepted' = Append(accepted, typed + 1)
  /\ UNCHANGED <<status, open_files, delivered, got, faulted>>

Next ==
  \/ Type
  \/ \E t \in Threads :
       \/ \E fd \in Fds, buf \in Buffers : SysWrite(t, fd, buf) \/ SysRead(t, fd, buf)
       \/ \E path \in Buffers, name \in Names : SysOpen(t, path, name)
       \/ \E path, args \in Buffers, name \in Names : SysSpawn(t, path, args, name)
       \/ \E fd \in Fds : SysClose(t, fd)
       \/ SysExit(t)
       \/ Reap(t)

Spec == Init /\ [][Next]_vars

-----------------------------------------------------------------------------
(* The type invariant; an offset never passes the end of its file, so      *)
(* slicing the buffer at it cannot panic, and a thread starts with no open *)
(* file: what a former thread of its slot left behind is gone by then.     *)
TypeOK ==
  /\ status \in [Threads -> {"free", "alive", "dead"}]
  /\ \A t \in Threads : \A slot \in OpenSlots :
       open_files[t][slot] # NoFile =>
         /\ open_files[t][slot].name \in DOMAIN Files
         /\ open_files[t][slot].offset \in 0 .. Len(Files[open_files[t][slot].name])
  /\ \A t \in Threads : status[t] = "free" => open_files[t] = Closed
  /\ typed \in 0 .. MaxTyped

(* Each byte the queue took is delivered to one program, once and in      *)
(* order, or is still queued, however often the queue was full in between: *)
(* a read with a bad pointer, or by a program that is killed for it, takes *)
(* nothing out of the queue.                                               *)
InputDeliveredOnce == delivered \o input = accepted

(* Reads lose and repeat nothing: neither the keyboard's (above) nor a     *)
(* file's, which successive reads of a descriptor deliver from its start   *)
(* without gap or repetition, however opens, closes, failed calls, exits   *)
(* and the reuse of slots and threads interleave.                          *)
ReadsInOrder ==
  /\ InputDeliveredOnce
  /\ \A t \in Threads : \A slot \in OpenSlots :
       IF open_files[t][slot] = NoFile THEN got[t][slot] = <<>>
       ELSE /\ IsPrefix(got[t][slot], Files[open_files[t][slot].name])
            /\ Len(got[t][slot]) = open_files[t][slot].offset

(* An open descriptor is never made to mean another file, nor rewound: it  *)
(* has to be closed, or its thread reaped, first.                          *)
OpenFilesKept ==
  [][\A t \in Threads : \A slot \in OpenSlots :
       LET old == open_files[t][slot]
           new == open_files'[t][slot]
       IN  old # NoFile /\ new # NoFile => new.name = old.name /\ new.offset >= old.offset]_vars

(* No call makes the kernel fault on a program's buffer: checking the      *)
(* pages of the range asked for is enough for the bytes that are copied,   *)
(* also across page boundaries and when fewer are copied.                  *)
NoKernelFault == ~faulted
=============================================================================
