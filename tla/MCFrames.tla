------------------------------ MODULE MCFrames ------------------------------
(***************************************************************************)
(* Instances of Frames: a memory map with reserved and empty regions       *)
(* between the usable ones, and a few pages to load at.                    *)
(***************************************************************************)
EXTENDS Frames, TLC

Region(a, b, u) == [start |-> a, end |-> b, usable |-> u]

(* Twelve usable frames in three regions: the heap takes four, a program   *)
(* up to eight, so that two of them seldom fit together.                   *)
MCRegions == <<Region(0, 2, FALSE), Region(2, 3, TRUE), Region(3, 7, TRUE),
               Region(7, 7, TRUE), Region(7, 8, FALSE), Region(8, 15, TRUE)>>

(* Three levels of eight entries.  Top-level entry 1 is the physical       *)
(* memory window's, which is mapped with huge pages, and 2 the heap's.     *)
MCBootTables == [p \in {<<0>>, <<0, 0>>, <<1>>} |-> IF Len(p) = 2 THEN 7 ELSE p[1]]
MCBootPages == {<<0, 0, 0>>, <<1, 0>>}
MCHeapPages == <<<<2, 0, 0>>, <<2, 0, 1>>>>

(* Pages of two bytes.  From Base on the pages lie under the heap's        *)
(* top-level entry too, so that the tables of a program's pages and of its *)
(* stack are partly the same.                                              *)
Base == 2 * (2 * 64 + 1 * 8)
Segment(vaddr, memsz, filesz) ==
  [type |-> "PT_LOAD", inFile |-> TRUE, vaddr |-> vaddr, memsz |-> memsz,
   offset |-> 1, filesz |-> filesz]
File(headers) == [headerOk |-> TRUE, entryOk |-> TRUE, size |-> 5, headers |-> headers]

MCFiles ==
  <<File(<<Segment(Base, 3, 2)>>),                            \* ends within a page
    File(<<Segment(Base + 2, 1, 1), Segment(Base, 1, 0)>>),   \* in descending order
    File(<<Segment(Base, 1, 1), Segment(Base + 3, 1, 0)>>),   \* not aligned
    File(<<Segment(Base, 1, 1), Segment(Base, 1, 1)>>),       \* a page twice
    File(<<Segment(Base, 2047, 1)>>),                         \* wraps around
    File(<<Segment(Base, 1, 5)>>),                            \* more than the file has
    File(<<Segment(2047, 0, 0)>>),                            \* no address for the stack
    File(<<Segment(510, 2, 2)>>),                             \* no room for it
    File(<<Segment(510, 4, 2)>>),                             \* ends in the upper half
    File(<<Segment(510, 600, 2)>>),                           \* ends in neither half
    File(<<Segment(2 * 128, 1, 1)>>),                         \* on a page of the heap
    File(<<Segment(0, 1, 1)>>),                               \* on one of the bootloader's
    File(<<Segment(2 * 64, 1, 1)>>),                          \* in a huge page of its
    File(<<[Segment(Base, 1, 1) EXCEPT !.type = "PT_NOTE"]>>),\* stack on a low page
    File(<<[Segment(Base, 1, 1) EXCEPT !.inFile = FALSE]>>),
    [File(<<Segment(Base, 0, 1)>>) EXCEPT !.entryOk = FALSE],
    [File(<<>>) EXCEPT !.headerOk = FALSE]>>

(* A file whose entry point is no address, and that has a page low in      *)
(* memory.                                                                 *)
MCRefusedFiles == <<[File(<<Segment(2 * 8, 1, 1)>>) EXCEPT !.entryOk = FALSE]>>

(* A demo's page, and the kernel threads that have none.                   *)
MCRawPages == {<<<<3, 0, 0>>>>, <<>>}

(* The spaces are interchangeable: nothing orders them.                    *)
MCSymmetry == Permutations(Spaces)
=============================================================================
