-------------------------------- MODULE Elf ---------------------------------
(***************************************************************************)
(* elf::load as an algorithm: from the program headers of a file to the    *)
(* pages that are mapped, in order, what is copied into each, and whether  *)
(* the load succeeds.  Frames takes the pages one at a time.               *)
(*                                                                         *)
(* A file is what the loader reads of it: whether the fixed header passes  *)
(* its checks, whether the entry point is an address, the file's size and  *)
(* its program headers.  A header that is not inside the file is read as   *)
(* None, as is a sum that does not fit a word.                             *)
(***************************************************************************)
EXTENDS Integers, Sequences

CONSTANTS
  PAGE_SIZE,
  CanonicalEnd,  \* the end of the lower half: 2^47
  WordSize       \* 2^64

ASSUME ElfAssumption ==
  /\ {PAGE_SIZE, CanonicalEnd, WordSize} \subseteq Nat \ {0}
  /\ CanonicalEnd % PAGE_SIZE = 0
  /\ 2 * CanonicalEnd < WordSize

ElfHeaders == [type : STRING, inFile : BOOLEAN, vaddr : Nat, memsz : Nat, offset : Nat, filesz : Nat]
ElfFiles == [headerOk : BOOLEAN, entryOk : BOOLEAN, size : Nat, headers : Seq(ElfHeaders)]

(* checked_add's None.                                                     *)
Overflow == -1

checked_add(a, b) ==
  IF a = Overflow \/ a + b >= WordSize THEN Overflow ELSE a + b

align_up(a) ==
  LET b == checked_add(a, PAGE_SIZE - 1)
  IN  IF b = Overflow THEN Overflow ELSE b - (b % PAGE_SIZE)

(* VirtAddr::try_new: an address whose upper bits continue bit 47 is       *)
(* canonical, one with nothing above bit 47 has its sign extended, and any *)
(* other is an error.                                                      *)
try_new(a) ==
  IF a = Overflow \/ a \in 2 * CanonicalEnd .. WordSize - CanonicalEnd - 1 THEN Overflow
  ELSE IF a \in CanonicalEnd .. 2 * CanonicalEnd - 1 THEN a + WordSize - 2 * CanonicalEnd
  ELSE a

Refused == [pages |-> <<>>, ok |-> FALSE]
Mapped(pages) == [pages |-> pages, ok |-> TRUE]

(* Page i of a segment, the first being 0: what is copied into it starts   *)
(* at byte from of the file; the rest of the page is zero.                 *)
PageOf(vaddr, from, filesz, i) ==
  LET rest == filesz - i * PAGE_SIZE
  IN  [page |-> vaddr \div PAGE_SIZE + i,
       from |-> from + i * PAGE_SIZE,
       len  |-> IF rest <= 0 THEN 0 ELSE IF rest < PAGE_SIZE THEN rest ELSE PAGE_SIZE]

(* A segment that starts below the canonical boundary and ends above it    *)
(* either has no last page, or one in the upper half: then the loop over   *)
(* its pages is far longer than there are frames.                          *)
map_segment(vaddr, memsz, from, filesz) ==
  LET end == checked_add(vaddr, memsz)
      last_byte == IF end = Overflow THEN Overflow ELSE try_new(end - 1)
      start_page == vaddr \div PAGE_SIZE
      end_page == last_byte \div PAGE_SIZE
  IN  IF memsz = 0 THEN Mapped(<<>>)
      ELSE IF vaddr % PAGE_SIZE # 0 \/ vaddr >= CanonicalEnd \/ last_byte = Overflow
      THEN Refused
      ELSE Mapped([i \in 1 .. end_page - start_page + 1 |->
                     PageOf(vaddr, from, filesz, i - 1)])

StackAboveLast(file, done, seg) ==
  IF ~done.ok \/ (seg.inFile /\ seg.type # "PT_LOAD") THEN done
  ELSE IF ~seg.inFile \/ seg.offset + seg.filesz > file.size
    THEN [done EXCEPT !.ok = FALSE]
  ELSE LET segment == map_segment(seg.vaddr, seg.memsz, seg.offset, seg.filesz)
           end == checked_add(seg.vaddr, seg.memsz)
       IN  [pages |-> done.pages \o segment.pages, ok |-> segment.ok /\ end # Overflow,
            highest_mapped |-> end]

(* One round of the loop over the program headers.                         *)
LoadSegment(file, done, seg) ==
  IF ~done.ok \/ (seg.inFile /\ seg.type # "PT_LOAD") THEN done
  ELSE IF ~seg.inFile \/ seg.offset + seg.filesz > file.size
    THEN [done EXCEPT !.ok = FALSE]
  ELSE LET segment == map_segment(seg.vaddr, seg.memsz, seg.offset, seg.filesz)
           end == checked_add(seg.vaddr, seg.memsz)
       IN  [pages |-> done.pages \o segment.pages, ok |-> segment.ok /\ end # Overflow,
            highest_mapped |-> IF end > done.highest_mapped THEN end
                               ELSE done.highest_mapped]

(* The loop: what is done after the first 0, 1, ... program headers.       *)
LoadSegments(file) ==
  LET after[n \in 0 .. Len(file.headers)] ==
        IF n = 0 THEN [pages |-> <<>>, ok |-> TRUE, highest_mapped |-> 0]
        ELSE LoadSegment(file, after[n - 1], file.headers[n])
  IN  after[Len(file.headers)]

(* The segments, then the stack, a page above the highest of them, then    *)
(* the page of the arguments.  The first failure ends it; what has been    *)
(* mapped by then is pages.                                                *)
load_segments_and_stack(file) ==
  LET segments == LoadSegments(file)
      stack_bottom == checked_add(align_up(segments.highest_mapped), PAGE_SIZE)
      stack == map_segment(stack_bottom, PAGE_SIZE, 0, 0)
      args_bottom == checked_add(stack_bottom, PAGE_SIZE)
      args == map_segment(args_bottom, PAGE_SIZE, 0, 0)
      Until(pages, ok) == [file |-> file, pages |-> pages, ok |-> ok]
  IN  IF ~segments.ok \/ stack_bottom = Overflow \/ ~stack.ok
      THEN Until(segments.pages, FALSE)
      ELSE IF args_bottom = Overflow \/ ~file.entryOk
      THEN Until(segments.pages \o stack.pages, FALSE)
      ELSE Until(segments.pages \o stack.pages \o args.pages, args.ok)
=============================================================================
