----------------------------- MODULE MCSyscalls -----------------------------
(* A file, an empty one and a missing one; pages of two bytes, of which 1  *)
(* and 7 are writable, 2 is read-only and the others not mapped.  The      *)
(* lower half ends with page 7, and the upper half begins at address 48.   *)
EXTENDS Syscalls

MCFiles == [f \in {"a", "b"} |-> IF f = "a" THEN <<1, 2>> ELSE <<>>]
MCNames == {"a", "b", "missing"}
MCAccess == [page \in {1, 2, 7} |-> IF page = 2 THEN {"r"} ELSE {"r", "w"}]

(* Null and empty, writable, running into the read-only page, too long for *)
(* a path, across the end of the lower half, in the range that VirtAddr    *)
(* extends, and past the end of the address space.                         *)
MCBuffers == {[ptr |-> 0, len |-> 0], [ptr |-> 2, len |-> 1], [ptr |-> 3, len |-> 2],
              [ptr |-> 2, len |-> 3], [ptr |-> 15, len |-> 2], [ptr |-> 18, len |-> 1],
              [ptr |-> 63, len |-> 2]}
=============================================================================
