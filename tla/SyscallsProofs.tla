--------------------------- MODULE SyscallsProofs ---------------------------
(***************************************************************************)
(* The system calls lose and repeat nothing of what programs read, and     *)
(* never fault on a program's buffer, for every number of threads and      *)
(* descriptors, every disk and every layout of pages: see module Syscalls. *)
(***************************************************************************)
EXTENDS Syscalls, SequenceTheorems, WellFoundedInduction, TLAPS

Contents == 0 .. 255
Handles == [name : DOMAIN Files, offset : Nat]

(* What the assumptions on sizes, files and buffers say.                   *)
LEMMA Constants ==
  /\ PageSize \in Nat \ {0} /\ READ_MAX \in Nat \ {0} /\ WRITE_MAX \in Nat \ {0}
  /\ PATH_MAX \in Nat /\ MAX_OPEN_FILES \in Nat \ {0} /\ MaxTyped \in Nat
  /\ NoFile \notin Handles
  /\ \A name \in DOMAIN Files : Files[name] \in Seq(Contents)
  /\ CanonicalEnd \in Nat /\ WordSize \in Nat /\ 2 * CanonicalEnd < WordSize
  /\ \A page \in DOMAIN Access : page \in Nat /\ (page + 1) * PageSize <= CanonicalEnd
  /\ \A b \in Buffers : b.ptr \in Nat /\ b.len \in Nat
<1>1. /\ WordSize \in Nat
      /\ \A b \in Buffers : b.ptr \in 0 .. WordSize - 1 /\ b.len \in Nat
  BY SyscallsAssumption, Zenon
<1>2. \A b \in Buffers : b.ptr \in Nat /\ b.len \in Nat
  BY <1>1
<1> QED BY <1>2, SyscallsAssumption, Zenon DEF Handles, Contents

(* Min of two lengths.                                                     *)
LEMMA MinOfTwo ==
  ASSUME NEW a \in Nat, NEW b \in Nat
  PROVE  Min({a, b}) \in Nat /\ Min({a, b}) <= a /\ Min({a, b}) <= b
<1>1. \E x \in {a, b} : \A y \in {a, b} : x <= y
  <2>1. CASE a <= b
    BY <2>1
  <2>2. CASE b <= a
    BY <2>2
  <2> QED BY <2>1, <2>2
<1>2. Min({a, b}) \in {a, b} /\ \A y \in {a, b} : Min({a, b}) <= y
  BY <1>1, Zenon DEF Min
<1> QED BY <1>2, Zenon

-----------------------------------------------------------------------------
(* Pointer checks.                                                         *)

(* Pages are in the order of the addresses in them.                        *)
LEMMA DivMonotone ==
  ASSUME NEW d \in Nat \ {0}, NEW a \in Nat, NEW b \in Nat, a <= b
  PROVE  a \div d \in Nat /\ b \div d \in Nat /\ a \div d <= b \div d
<1>1. /\ a \div d \in Int /\ a % d \in 0 .. d - 1 /\ a = d * (a \div d) + (a % d)
      /\ b \div d \in Int /\ b % d \in 0 .. d - 1 /\ b = d * (b \div d) + (b % d)
  OBVIOUS
<1> DEFINE q == a \div d
           r == b \div d
<1>2. q \in Int /\ r \in Int /\ d * q <= a /\ a < d * q + d /\ d * r <= b /\ b < d * r + d
  BY <1>1
<1> HIDE DEF q, r
<1>3. q <= r
  <2> SUFFICES ASSUME q >= r + 1 PROVE FALSE
    BY <1>2
  <2>1. d * q >= d * (r + 1)
    BY <1>2
  <2>2. d * (r + 1) = d * r + d
    BY <1>2
  <2> QED BY <1>2, <2>1, <2>2
<1>4. q >= 0
  <2> SUFFICES ASSUME q <= 0 - 1 PROVE FALSE
    BY <1>2
  <2>1. d * q <= d * (0 - 1)
    BY <1>2
  <2> QED BY <1>2, <2>1
<1> QED BY <1>2, <1>3, <1>4 DEF q, r

(* A page holds the addresses from its start to the next page's.           *)
LEMMA InItsPage ==
  ASSUME NEW a \in Nat
  PROVE  /\ a \div PageSize \in Nat
         /\ (a \div PageSize) * PageSize <= a
         /\ a < (a \div PageSize + 1) * PageSize
<1>1. PageSize \in Nat \ {0}
  BY Constants, Zenon
<1>2. a \div PageSize \in Nat
  BY <1>1, DivMonotone
<1>3. a % PageSize \in 0 .. PageSize - 1 /\ a = PageSize * (a \div PageSize) + (a % PageSize)
  BY <1>1
<1> DEFINE q == a \div PageSize
<1> HIDE DEF q
<1>4. q \in Nat /\ PageSize * q <= a /\ a < PageSize * q + PageSize
  BY <1>1, <1>2, <1>3 DEF q
<1>5. q * PageSize = PageSize * q /\ (q + 1) * PageSize = PageSize * q + PageSize
  BY <1>1, <1>4
<1> QED BY <1>1, <1>4, <1>5 DEF q

(* An accessible page lies in the lower half.                              *)
LEMMA AccessibleIsLow ==
  ASSUME NEW x \in Nat, NEW right, page_accessible(x \div PageSize, right)
  PROVE  x < CanonicalEnd
<1>1. x \div PageSize \in Nat /\ (x \div PageSize + 1) * PageSize <= CanonicalEnd
  BY Constants, Zenon DEF page_accessible
<1>2. (x \div PageSize + 1) * PageSize \in Nat /\ CanonicalEnd \in Nat
  BY <1>1, Constants
<1> QED BY <1>1, <1>2, InItsPage

(* The extension of a sign leads to the upper half only.                   *)
LEMMA ExtendedIsHigh ==
  ASSUME NEW a \in Nat
  PROVE  try_new(a) \in Nat /\ (try_new(a) < CanonicalEnd => try_new(a) = a)
BY Constants DEF try_new

(* The start of a page is in that page.                                    *)
LEMMA StartOfPage ==
  ASSUME NEW p \in Nat
  PROVE  p * PageSize \in Nat /\ (p * PageSize) \div PageSize = p
<1>1. PageSize \in Nat \ {0}
  BY Constants, Zenon
<1>2. p * PageSize \in Nat
  BY <1>1
<1> DEFINE q == (p * PageSize) \div PageSize
<1>3. q \in Nat /\ q * PageSize <= p * PageSize /\ p * PageSize < (q + 1) * PageSize
  BY <1>2, InItsPage, Zenon
<1> HIDE DEF q
<1>4. q <= p
  <2> SUFFICES ASSUME q >= p + 1 PROVE FALSE
    BY <1>3
  <2>1. q * PageSize >= (p + 1) * PageSize
    BY <1>1, <1>3
  <2>2. (p + 1) * PageSize = p * PageSize + PageSize
    BY <1>1
  <2> QED BY <1>1, <1>2, <1>3, <2>1, <2>2
<1>5. p <= q
  <2> SUFFICES ASSUME p >= q + 1 PROVE FALSE
    BY <1>3
  <2>1. p * PageSize >= (q + 1) * PageSize
    BY <1>1, <1>3
  <2> QED BY <1>1, <1>2, <1>3, <2>1
<1>6. q = p
  BY <1>3, <1>4, <1>5
<1> QED BY <1>2, <1>6 DEF q

(* What user_range_ok finds accessible is the page itself, in the lower    *)
(* half, and not the extension of another.                                 *)
LEMMA CheckedPage ==
  ASSUME NEW a \in Nat, NEW right,
         page_accessible(try_new((a \div PageSize) * PageSize) \div PageSize, right)
  PROVE  page_accessible(a \div PageSize, right) /\ a < CanonicalEnd
<1> DEFINE p == a \div PageSize
           x == try_new(p * PageSize)
<1>1. p \in Nat /\ p * PageSize \in Nat /\ (p * PageSize) \div PageSize = p
  BY InItsPage, StartOfPage, Zenon
<1>2. x \in Nat /\ (x < CanonicalEnd => x = p * PageSize)
  BY <1>1, ExtendedIsHigh, Zenon
<1> HIDE DEF x
<1>3. x < CanonicalEnd
  BY <1>2, AccessibleIsLow, Zenon DEF x
<1>4. page_accessible(p, right)
  BY <1>1, <1>2, <1>3, Zenon DEF x
<1> QED BY <1>4, AccessibleIsLow, Zenon

(* Checking the pages of the range asked for covers every byte copied, at  *)
(* the address it was asked for.                                           *)
LEMMA CheckCovers ==
  ASSUME NEW ptr \in Nat, NEW len \in Nat, NEW n \in Nat, n <= len, NEW right,
         user_range_ok(ptr, len, right)
  PROVE  ~Faults(ptr, n, right)
<1> SUFFICES ASSUME NEW a \in ptr .. ptr + n - 1
             PROVE  Canonical(a) /\ page_accessible(a \div PageSize, right)
  BY Zenon DEF Faults
<1>1. a \in Nat /\ ptr <= a /\ a <= ptr + len - 1 /\ ptr + len - 1 \in Nat /\ len # 0 /\ len >= 1
  OBVIOUS
<1>2. PageSize \in Nat \ {0}
  BY Constants, Zenon
<1> DEFINE addr == try_new(ptr)
           last == addr + len - 1
<1>3. \A page \in addr \div PageSize .. last \div PageSize :
        page_accessible(try_new(page * PageSize) \div PageSize, right)
  BY <1>1, Zenon DEF user_range_ok
<1>4. addr \in Nat /\ (addr < CanonicalEnd => addr = ptr)
  BY ExtendedIsHigh, Zenon
<1> HIDE DEF addr
<1>5. last \in Nat /\ addr <= last
  BY <1>1, <1>4
<1>6. ASSUME NEW b \in Nat, addr <= b, b <= last
      PROVE  page_accessible(b \div PageSize, right) /\ b < CanonicalEnd
  <2> HIDE DEF last
  <2>1. /\ addr \div PageSize \in Nat /\ b \div PageSize \in Nat /\ last \div PageSize \in Nat
        /\ addr \div PageSize <= b \div PageSize
        /\ b \div PageSize <= last \div PageSize
    BY <1>2, <1>4, <1>5, <1>6, DivMonotone, Zenon
  <2>2. b \div PageSize \in addr \div PageSize .. last \div PageSize
    BY <2>1
  <2> QED BY <1>3, <1>6, <2>2, CheckedPage, Zenon
<1>7. addr = ptr
  <2>1. addr <= addr
    BY <1>4
  <2> QED BY <1>4, <1>5, <1>6, <2>1, Zenon
<1>8. addr <= a /\ a <= last
  BY <1>1, <1>7
<1> QED BY <1>1, <1>6, <1>8, Zenon DEF Canonical

(* A copy of no bytes touches no page.                                     *)
LEMMA NothingFaults ==
  ASSUME NEW ptr \in Nat, NEW right
  PROVE  ~Faults(ptr, 0, right)
BY DEF Faults

-----------------------------------------------------------------------------
(* The keyboard's bytes.                                                   *)

(* What is typed, as opaque values.                                        *)
Codes == Nat

(* Concatenation is associative, and stays within the bytes.               *)
LEMMA Associative ==
  \A a, b, c \in Seq(Codes) : (a \o b) \o c = a \o (b \o c) /\ a \o b \in Seq(Codes)
BY ConcatAssociative, ConcatProperties

InputInv ==
  /\ input \in Seq(Codes) /\ delivered \in Seq(Codes) /\ accepted \in Seq(Codes)
  /\ typed \in 0 .. MaxTyped
  /\ InputDeliveredOnce

(* A read hands over what it takes out of the queue, in order.             *)
LEMMA StdinKeeps ==
  ASSUME InputInv, NEW n \in 0 .. Len(input), typed' = typed, accepted' = accepted,
         input' = SubSeq(input, n + 1, Len(input)),
         delivered' = delivered \o SubSeq(input, 1, n)
  PROVE  InputInv'
<1>1. input \in Seq(Codes) /\ delivered \in Seq(Codes) /\ Len(input) \in Nat /\ n \in Nat /\ n <= Len(input)
  BY DEF InputInv
<1>2. SubSeq(input, 1, n) \in Seq(Codes) /\ SubSeq(input, n + 1, Len(input)) \in Seq(Codes)
  BY <1>1, SubSeqProperties
<1>3. SubSeq(input, 1, n) \o SubSeq(input, n + 1, Len(input)) = input
  <2>1. 1 \in 1 .. Len(input) + 1 /\ n \in 1 - 1 .. Len(input) /\ Len(input) \in n .. Len(input)
    BY <1>1
  <2>2. SubSeq(input, 1, n) \o SubSeq(input, n + 1, Len(input)) = SubSeq(input, 1, Len(input))
    BY <1>1, <2>1, ConcatAdjacentSubSeq, Zenon
  <2> QED BY <1>1, <2>2, SubSeqFull, Zenon
<1>4. delivered' \o input' = delivered \o input /\ delivered' \in Seq(Codes)
  <2>1. (delivered \o SubSeq(input, 1, n)) \o SubSeq(input, n + 1, Len(input))
          = delivered \o (SubSeq(input, 1, n) \o SubSeq(input, n + 1, Len(input)))
    BY <1>1, <1>2, Associative, Zenon
  <2>2. delivered \o SubSeq(input, 1, n) \in Seq(Codes)
    BY <1>1, <1>2, Associative, Zenon
  <2> QED BY <1>3, <2>1, <2>2, Zenon
<1> QED BY <1>2, <1>4, Zenon DEF InputInv, InputDeliveredOnce

(* push_input_byte appends the next byte, or drops it.                     *)
LEMMA TypeKeeps ==
  ASSUME InputInv, Type
  PROVE  InputInv'
<1>1. /\ input \in Seq(Codes) /\ delivered \in Seq(Codes) /\ accepted \in Seq(Codes)
      /\ typed' = typed + 1 /\ delivered' = delivered
      /\ delivered \o input = accepted
  BY Zenon DEF InputInv, Type, InputDeliveredOnce
<1>2. typed \in Nat /\ typed + 1 \in 0 .. MaxTyped
  BY Constants DEF InputInv, Type
<1>3. typed + 1 \in Codes
  BY <1>2 DEF Codes
<1>4. CASE UNCHANGED <<input, accepted>>
  BY <1>1, <1>2, <1>4, Zenon DEF InputInv, InputDeliveredOnce
<1>5. CASE input' = Append(input, typed + 1) /\ accepted' = Append(accepted, typed + 1)
  <2>1. /\ input' = input \o <<typed + 1>> /\ input' \in Seq(Codes) /\ <<typed + 1>> \in Seq(Codes)
        /\ accepted' = accepted \o <<typed + 1>> /\ accepted' \in Seq(Codes)
    BY <1>1, <1>3, <1>5, AppendIsConcat, AppendProperties
  <2>2. delivered \o (input \o <<typed + 1>>) = (delivered \o input) \o <<typed + 1>>
    <3>1. delivered \in Seq(Codes) /\ input \in Seq(Codes) /\ <<typed + 1>> \in Seq(Codes)
      BY <1>1, <2>1, Zenon
    <3> QED BY <3>1, Associative, Zenon
  <2>3. delivered \o input' = accepted'
    BY <1>1, <2>1, <2>2, Zenon
  <2> QED BY <1>1, <1>2, <2>1, <2>3, Zenon DEF InputInv, InputDeliveredOnce
<1> QED BY <1>4, <1>5, Zenon DEF Type

(* Every call keeps the input delivered and queued all that was accepted.  *)
LEMMA NextInputInv == InputInv /\ [Next]_vars => InputInv'
<1> SUFFICES ASSUME InputInv, [Next]_vars PROVE InputInv'
  BY Zenon
<1>0. ASSUME UNCHANGED <<input, delivered, typed, accepted>> PROVE InputInv'
  BY <1>0, Zenon DEF InputInv, InputDeliveredOnce
<1>1. ASSUME NEW t, Fails \/ Dies(t) PROVE InputInv'
  BY <1>0, <1>1, Zenon DEF Fails, Dies, vars
<1>2. ASSUME NEW t \in Threads, NEW fd \in Fds, NEW buf \in Buffers, SysWrite(t, fd, buf)
      PROVE  InputInv'
  BY <1>0, <1>1, <1>2, Zenon DEF SysWrite, Returns
<1>3. ASSUME NEW t \in Threads, NEW fd \in Fds, NEW buf \in Buffers, SysRead(t, fd, buf)
      PROVE  InputInv'
  <2> DEFINE len == Min({buf.len, READ_MAX})
  <2>1. len \in Nat
    BY Constants, MinOfTwo, Zenon
  <2>2. Len(input) \in Nat
    BY DEF InputInv
  <2>3. Min({len, Len(input)}) \in 0 .. Len(input)
    <3>1. Min({len, Len(input)}) \in Nat /\ Min({len, Len(input)}) <= Len(input)
      BY <2>1, <2>2, MinOfTwo, Zenon
    <3> QED BY <2>2, <3>1
  <2> HIDE DEF len
  <2>4. ASSUME sys_read_stdin(t, buf.ptr, len) PROVE InputInv'
    BY <1>1, <2>3, <2>4, StdinKeeps, Zenon DEF sys_read_stdin, Returns
  <2>5. ASSUME sys_read_file(t, fd, buf.ptr, len) PROVE InputInv'
    BY <1>0, <1>1, <2>5, Zenon DEF sys_read_file, read_open_file, Returns
  <2> QED BY <1>1, <1>3, <2>4, <2>5, Zenon DEF SysRead, Fails, len
<1>4. ASSUME NEW t \in Threads, NEW path \in Buffers, NEW name \in Names, SysOpen(t, path, name)
      PROVE  InputInv'
  BY <1>0, <1>1, <1>4, Zenon DEF SysOpen, Returns
<1>5. ASSUME NEW t \in Threads, NEW path \in Buffers, NEW args \in Buffers, NEW name \in Names,
             SysSpawn(t, path, args, name)
      PROVE  InputInv'
  BY <1>0, <1>1, <1>5, Zenon DEF SysSpawn
<1>6. ASSUME NEW t \in Threads, NEW fd \in Fds, SysClose(t, fd) PROVE InputInv'
  BY <1>0, <1>1, <1>6, Zenon DEF SysClose, Returns
<1>7. ASSUME NEW t \in Threads, SysExit(t) \/ Reap(t) PROVE InputInv'
  BY <1>0, <1>1, <1>7, Zenon DEF SysExit, Reap
<1>8. CASE Type
  BY <1>8, TypeKeeps, Zenon
<1>9. CASE UNCHANGED vars
  BY <1>0, <1>9, Zenon DEF vars
<1> QED BY <1>2, <1>3, <1>4, <1>5, <1>6, <1>7, <1>8, <1>9, Zenon DEF Next

-----------------------------------------------------------------------------
(* Open files.                                                             *)

(* What a descriptor has delivered is the file up to its offset.           *)
SlotOK(f, g) ==
  IF f = NoFile THEN g = <<>>
  ELSE /\ f \in Handles
       /\ f.offset <= Len(Files[f.name])
       /\ g = SubSeq(Files[f.name], 1, f.offset)

FileInv ==
  /\ status \in [Threads -> {"free", "alive", "dead"}]
  /\ open_files \in [Threads -> [OpenSlots -> Handles \cup {NoFile}]]
  /\ got \in [Threads -> [OpenSlots -> Seq(Contents)]]
  /\ \A t \in Threads : \A slot \in OpenSlots : SlotOK(open_files[t][slot], got[t][slot])
  /\ \A t \in Threads : status[t] = "free" => open_files[t] = Closed

(* One slot of one live thread changes.                                    *)
LEMMA SlotChanges ==
  ASSUME FileInv, NEW t \in Threads, status[t] = "alive", status' = status, NEW slot \in OpenSlots,
         NEW f \in Handles \cup {NoFile}, NEW g \in Seq(Contents), SlotOK(f, g),
         open_files' = [open_files EXCEPT ![t][slot] = f],
         got' = [got EXCEPT ![t][slot] = g]
  PROVE  FileInv'
<1>1. /\ open_files \in [Threads -> [OpenSlots -> Handles \cup {NoFile}]]
      /\ got \in [Threads -> [OpenSlots -> Seq(Contents)]]
  BY Zenon DEF FileInv
<1>2. /\ open_files' \in [Threads -> [OpenSlots -> Handles \cup {NoFile}]]
      /\ got' \in [Threads -> [OpenSlots -> Seq(Contents)]]
  BY <1>1, Zenon
<1>3. \A u \in Threads : \A s \in OpenSlots :
        /\ open_files'[u][s] = IF u = t /\ s = slot THEN f ELSE open_files[u][s]
        /\ got'[u][s] = IF u = t /\ s = slot THEN g ELSE got[u][s]
  BY <1>1, Zenon
<1>4. \A u \in Threads : \A s \in OpenSlots : SlotOK(open_files'[u][s], got'[u][s])
  BY <1>3 DEF FileInv
<1>5. \A u \in Threads : u # t => open_files'[u] = open_files[u]
  BY <1>1, Zenon
<1> QED BY <1>2, <1>4, <1>5, Zenon DEF FileInv, SlotOK

(* Reading on from an offset continues the prefix.                         *)
LEMMA ReadsOn ==
  ASSUME NEW F \in Seq(Contents), NEW o \in Nat, o <= Len(F), NEW n \in Nat,
         n <= Len(SubSeq(F, o + 1, Len(F)))
  PROVE  /\ o + n \in Nat /\ o + n <= Len(F)
         /\ SubSeq(F, 1, o) \o SubSeq(SubSeq(F, o + 1, Len(F)), 1, n) = SubSeq(F, 1, o + n)
         /\ SubSeq(F, 1, o + n) \in Seq(Contents)
<1> DEFINE data == SubSeq(F, o + 1, Len(F))
<1>1. Len(F) \in Nat /\ \A i \in 1 .. Len(F) : F[i] \in Contents
  OBVIOUS
<1>2. /\ data \in Seq(Contents) /\ Len(data) = Len(F) - o
      /\ \A i \in 1 .. Len(F) - o : data[i] = F[o + i]
  <2>1. \A i \in o + 1 .. Len(F) : F[i] \in Contents
    BY <1>1
  <2>2. /\ data \in Seq(Contents)
        /\ Len(data) = IF o + 1 <= Len(F) THEN Len(F) - (o + 1) + 1 ELSE 0
        /\ \A i \in 1 .. Len(F) - (o + 1) + 1 : data[i] = F[o + 1 + i - 1]
    BY <1>1, <2>1, SubSeqProperties
  <2>3. Len(F) - (o + 1) + 1 = Len(F) - o
    BY <1>1
  <2>4. \A i \in 1 .. Len(F) - o : o + 1 + i - 1 = o + i
    BY <1>1
  <2>5. Len(data) = Len(F) - o
    BY <1>1, <2>2
  <2> QED BY <2>2, <2>3, <2>4, <2>5, Zenon
<1>3. n <= Len(F) - o /\ o + n <= Len(F) /\ o + n \in Nat
  BY <1>1, <1>2
<1> HIDE DEF data
<1> DEFINE a == SubSeq(data, 1, n)
           b == SubSeq(F, o + 1, o + n)
<1>4. a \in Seq(Contents) /\ Len(a) = n /\ \A i \in 1 .. n : a[i] = data[i]
  <2>1. \A i \in 1 .. n : data[i] \in Contents
    BY <1>1, <1>2, <1>3
  <2>2. /\ a \in Seq(Contents) /\ Len(a) = IF 1 <= n THEN n - 1 + 1 ELSE 0
        /\ \A i \in 1 .. n - 1 + 1 : a[i] = data[1 + i - 1]
    BY <2>1, SubSeqProperties
  <2>3. n - 1 + 1 = n /\ \A i \in 1 .. n : 1 + i - 1 = i
    OBVIOUS
  <2>4. Len(a) = n
    BY <2>2
  <2> QED BY <2>2, <2>3, <2>4, Zenon
<1>5. b \in Seq(Contents) /\ Len(b) = n /\ \A i \in 1 .. n : b[i] = F[o + i]
  <2>1. \A i \in o + 1 .. o + n : F[i] \in Contents
    BY <1>1, <1>3
  <2>2. /\ b \in Seq(Contents) /\ Len(b) = IF o + 1 <= o + n THEN (o + n) - (o + 1) + 1 ELSE 0
        /\ \A i \in 1 .. (o + n) - (o + 1) + 1 : b[i] = F[o + 1 + i - 1]
    BY <2>1, SubSeqProperties
  <2>3. (o + n) - (o + 1) + 1 = n /\ \A i \in 1 .. n : o + 1 + i - 1 = o + i
    OBVIOUS
  <2>4. Len(b) = n
    BY <2>2
  <2> QED BY <2>2, <2>3, <2>4, Zenon
<1>6. a = b
  <2>1. \A i \in 1 .. n : i \in 1 .. Len(F) - o
    BY <1>1, <1>3
  <2>2. \A i \in 1 .. n : a[i] = b[i]
    BY <1>2, <1>4, <1>5, <2>1, Zenon
  <2> HIDE DEF a, b
  <2> QED BY <1>4, <1>5, <2>2, SeqEqual, Zenon
<1>7. SubSeq(F, 1, o) \o b = SubSeq(F, 1, o + n)
  <2>1. 1 \in 1 .. Len(F) + 1 /\ o \in 1 - 1 .. Len(F) /\ o + n \in o .. Len(F)
    BY <1>1, <1>3
  <2> QED BY <2>1, ConcatAdjacentSubSeq, Zenon
<1>8. SubSeq(F, 1, o + n) \in Seq(Contents)
  <2>1. \A i \in 1 .. o + n : F[i] \in Contents
    BY <1>1, <1>3
  <2> QED BY <1>3, <2>1, SubSeqProperties
<1> QED BY <1>3, <1>6, <1>7, <1>8, Zenon DEF data

(* read_open_file hands out what follows in the file and moves the offset  *)
(* by as much.                                                             *)
LEMMA FileReadKeeps ==
  ASSUME FileInv, NEW t \in Threads, status[t] = "alive", NEW slot \in OpenSlots,
         open_files[t][slot] # NoFile, NEW ptr, NEW len \in Nat, read_open_file(t, slot, ptr, len)
  PROVE  FileInv'
<1> DEFINE file == open_files[t][slot]
           F == Files[file.name]
           data == SubSeq(F, file.offset + 1, Len(F))
           n == Min({len, Len(data)})
           new == [name |-> file.name, offset |-> file.offset + n]
<1>1. /\ file \in Handles /\ file # NoFile /\ SlotOK(file, got[t][slot])
      /\ got \in [Threads -> [OpenSlots -> Seq(Contents)]]
  BY Zenon DEF FileInv
<1>2. file.name \in DOMAIN Files /\ file.offset \in Nat
  BY <1>1, Zenon DEF Handles
<1>3. F \in Seq(Contents) /\ file.offset <= Len(F) /\ got[t][slot] = SubSeq(F, 1, file.offset)
  BY <1>1, <1>2, Constants, Zenon DEF SlotOK
<1>4. /\ open_files' = [open_files EXCEPT ![t][slot] = new]
      /\ got' = [got EXCEPT ![t][slot] = got[t][slot] \o SubSeq(data, 1, n)]
      /\ status' = status
  BY Zenon DEF read_open_file, Returns
<1> HIDE DEF file
<1>5. n \in Nat /\ n <= Len(data)
  <2>1. data \in Seq(Contents)
    BY <1>2, <1>3
  <2>2. Len(data) \in Nat
    BY <2>1
  <2> HIDE DEF data
  <2> QED BY <2>2, MinOfTwo, Zenon
<1> HIDE DEF n
<1>6. /\ file.offset + n \in Nat /\ file.offset + n <= Len(F)
      /\ SubSeq(F, 1, file.offset) \o SubSeq(data, 1, n) = SubSeq(F, 1, file.offset + n)
      /\ SubSeq(F, 1, file.offset + n) \in Seq(Contents)
  BY <1>2, <1>3, <1>5, ReadsOn, Zenon
<1>7. new \in Handles /\ new.name = file.name /\ new.offset = file.offset + n
  BY <1>2, <1>6, Zenon DEF Handles
<1>8. new # NoFile
  BY <1>7, Constants, Zenon
<1> HIDE DEF new
<1>9. SlotOK(new, SubSeq(F, 1, file.offset + n))
  BY <1>6, <1>7, <1>8, Zenon DEF SlotOK
<1> QED BY <1>3, <1>4, <1>6, <1>7, <1>9, SlotChanges, Zenon

(* sys_open: the slot it takes is free.                                    *)
LEMMA FirstFreeSlot ==
  ASSUME NEW t, FreeFileSlots(t) # {}
  PROVE  Min(FreeFileSlots(t)) \in OpenSlots /\ open_files[t][Min(FreeFileSlots(t))] = NoFile
<1> DEFINE Less == {p \in Nat \X Nat : p[1] < p[2]}
           Free == FreeFileSlots(t)
<1>1. Free \subseteq Nat
  BY Constants DEF FreeFileSlots, OpenSlots
<1>2. PICK s \in Free : \A r \in Free : <<r, s>> \notin Less
  <2>1. IsWellFoundedOn(Less, Nat)
    BY NatLessThanWellFounded, Zenon DEF OpToRel
  <2> HIDE DEF Less
  <2> QED BY <1>1, <2>1, WFMin, Zenon
<1>3. \A a, b \in Nat : a < b => <<a, b>> \in Less
  BY Zenon
<1> HIDE DEF Less
<1>4. ASSUME NEW r \in Free PROVE s <= r
  <2>1. r \in Nat /\ s \in Nat
    BY <1>1, Zenon
  <2>2. ~(r < s)
    BY <1>2, <1>3, <2>1, Zenon
  <2> QED BY <2>1, <2>2
<1>5. Min(Free) \in Free
  BY <1>4, Zenon DEF Min
<1> QED BY <1>5, Zenon DEF FreeFileSlots

(* Writing one descriptor slot, with its offset and what it delivered in   *)
(* agreement, disturbs no other.                                           *)
LEMMA SlotWritten ==
  ASSUME FileInv, NEW t \in Threads, status[t] = "alive", status' = status
  PROVE  \A slot \in OpenSlots, f \in Handles \cup {NoFile}, g \in Seq(Contents) :
           /\ SlotOK(f, g)
           /\ open_files' = [open_files EXCEPT ![t][slot] = f]
           /\ got' = [got EXCEPT ![t][slot] = g]
           => FileInv'
BY SlotChanges, Zenon

(* open_file starts a free slot at the beginning of its file.              *)
LEMMA OpenKeeps ==
  ASSUME FileInv, NEW t \in Threads, status[t] = "alive", status' = status,
         NEW name \in DOMAIN Files, FreeFileSlots(t) # {},
         open_files' = [open_files EXCEPT ![t][Min(FreeFileSlots(t))] = [name |-> name, offset |-> 0]],
         got' = [got EXCEPT ![t][Min(FreeFileSlots(t))] = <<>>]
  PROVE  FileInv'
<1> DEFINE slot == Min(FreeFileSlots(t))
           new == [name |-> name, offset |-> 0]
<1>1. slot \in OpenSlots
  BY FirstFreeSlot, Zenon
<1>2. new \in Handles /\ new.name = name /\ new.offset = 0
  BY Zenon DEF Handles
<1>3. new # NoFile
  BY <1>2, Constants, Zenon
<1>4. Files[name] \in Seq(Contents) /\ <<>> \in Seq(Contents)
  BY Constants
<1>5. SubSeq(Files[name], 1, 0) = <<>> /\ 0 <= Len(Files[name])
  BY <1>4, SubSeqEmpty
<1> HIDE DEF new, slot
<1>6. SlotOK(new, <<>>)
  BY <1>2, <1>3, <1>5, Zenon DEF SlotOK
<1>7. open_files' = [open_files EXCEPT ![t][slot] = new] /\ got' = [got EXCEPT ![t][slot] = <<>>]
  BY Zenon DEF slot, new
<1>8. new \in Handles \cup {NoFile} /\ <<>> \in Seq(Contents)
  BY <1>2, <1>4, Zenon
<1> QED BY <1>1, <1>6, <1>7, <1>8, SlotWritten, Zenon

(* Files of a thread that is created or reaped.                            *)
LEMMA ClosedOK ==
  /\ Closed \in [OpenSlots -> Handles \cup {NoFile}]
  /\ Nothing \in [OpenSlots -> Seq(Contents)]
  /\ \A slot \in OpenSlots : Closed[slot] = NoFile /\ Nothing[slot] = <<>>
  /\ \A slot \in OpenSlots : SlotOK(Closed[slot], Nothing[slot])
<1>1. <<>> \in Seq(Contents)
  OBVIOUS
<1> QED BY <1>1, Zenon DEF Closed, Nothing, SlotOK

(* A new thread starts with no file open.                                  *)
LEMMA SpawnKeepsFiles ==
  ASSUME FileInv, NEW u \in Threads, status[u] = "free", got' = got,
         status' = [status EXCEPT ![u] = "alive"],
         open_files' = [open_files EXCEPT ![u] = Closed]
  PROVE  FileInv'
<1>1. open_files' = open_files
  BY Zenon DEF FileInv
<1> QED BY <1>1, Zenon DEF FileInv

(* Reaping a thread disturbs no file of another.                           *)
LEMMA ReapKeepsFiles ==
  ASSUME FileInv, NEW t \in Threads, Reap(t)
  PROVE  FileInv'
<1>1. /\ open_files' = [open_files EXCEPT ![t] = Closed] /\ got' = [got EXCEPT ![t] = Nothing]
      /\ status' = [status EXCEPT ![t] = "free"]
  BY Zenon DEF Reap
<1>2. /\ open_files \in [Threads -> [OpenSlots -> Handles \cup {NoFile}]]
      /\ got \in [Threads -> [OpenSlots -> Seq(Contents)]]
      /\ status \in [Threads -> {"free", "alive", "dead"}]
  BY Zenon DEF FileInv
<1>3. /\ open_files' \in [Threads -> [OpenSlots -> Handles \cup {NoFile}]]
      /\ got' \in [Threads -> [OpenSlots -> Seq(Contents)]]
      /\ status' \in [Threads -> {"free", "alive", "dead"}]
  BY <1>1, <1>2, ClosedOK, Zenon
<1>4. \A u \in Threads : IF u = t THEN open_files'[u] = Closed /\ got'[u] = Nothing
                         ELSE /\ open_files'[u] = open_files[u] /\ got'[u] = got[u]
                              /\ status'[u] = status[u]
  BY <1>1, <1>2, Zenon
<1>5. \A u \in Threads : \A slot \in OpenSlots : SlotOK(open_files'[u][slot], got'[u][slot])
  BY <1>4, ClosedOK, Zenon DEF FileInv
<1>6. \A u \in Threads : status'[u] = "free" => open_files'[u] = Closed
  BY <1>4, Zenon DEF FileInv
<1> QED BY <1>3, <1>5, <1>6, Zenon DEF FileInv, SlotOK

(* Every call keeps the offsets in agreement with what was delivered.      *)
LEMMA NextFileInv == FileInv /\ InputInv /\ [Next]_vars => FileInv'
<1> SUFFICES ASSUME FileInv, InputInv, [Next]_vars PROVE FileInv'
  BY Zenon
<1>0. ASSUME UNCHANGED <<status, open_files, got>> PROVE FileInv'
  BY <1>0, Zenon DEF FileInv, SlotOK
<1>1. ASSUME NEW t \in Threads, Fails \/ Dies(t) PROVE FileInv'
  <2>1. CASE Fails
    BY <1>0, <2>1, Zenon DEF Fails, vars
  <2>2. CASE Dies(t)
    BY <2>2, Zenon DEF Dies, FileInv, SlotOK
  <2> QED BY <1>1, <2>1, <2>2, Zenon
<1>2. ASSUME NEW t \in Threads, NEW fd \in Fds, NEW buf \in Buffers, SysWrite(t, fd, buf)
      PROVE  FileInv'
  BY <1>0, <1>1, <1>2, Zenon DEF SysWrite, Returns
<1>3. ASSUME NEW t \in Threads, NEW fd \in Fds, NEW buf \in Buffers, SysRead(t, fd, buf)
      PROVE  FileInv'
  <2> DEFINE len == Min({buf.len, READ_MAX})
  <2>1. len \in Nat
    BY Constants, MinOfTwo, Zenon
  <2> HIDE DEF len
  <2>2. status[t] = "alive"
    BY <1>3, Zenon DEF SysRead
  <2>3. ASSUME sys_read_stdin(t, buf.ptr, len) PROVE FileInv'
    BY <1>0, <1>1, <2>3, Zenon DEF sys_read_stdin, Returns
  <2>4. ASSUME sys_read_file(t, fd, buf.ptr, len) PROVE FileInv'
    BY <1>1, <2>1, <2>2, <2>4, FileReadKeeps, Zenon DEF sys_read_file, IsOpen
  <2> QED BY <1>1, <1>3, <2>3, <2>4, Zenon DEF SysRead, Fails, len
<1>4. ASSUME NEW t \in Threads, NEW path \in Buffers, NEW name \in Names, SysOpen(t, path, name)
      PROVE  FileInv'
  BY <1>1, <1>4, OpenKeeps, Zenon DEF SysOpen, Returns
<1>5. ASSUME NEW t \in Threads, NEW path \in Buffers, NEW args \in Buffers, NEW name \in Names,
             SysSpawn(t, path, args, name)
      PROVE  FileInv'
  BY <1>1, <1>5, SpawnKeepsFiles, Zenon DEF SysSpawn
<1>6. ASSUME NEW t \in Threads, NEW fd \in Fds, SysClose(t, fd) PROVE FileInv'
  <2>1. CASE Fails
    BY <1>1, <2>1, Zenon
  <2>2. CASE /\ IsOpen(t, fd)
             /\ open_files' = [open_files EXCEPT ![t][fd - FIRST_FILE_FD] = NoFile]
             /\ got' = [got EXCEPT ![t][fd - FIRST_FILE_FD] = <<>>]
             /\ Returns
    <3>1. <<>> \in Seq(Contents) /\ SlotOK(NoFile, <<>>)
      BY DEF SlotOK
    <3>2. fd - FIRST_FILE_FD \in OpenSlots /\ status' = status /\ status[t] = "alive"
      BY <1>6, <2>2, Zenon DEF IsOpen, Returns, SysClose
    <3> QED BY <2>2, <3>1, <3>2, SlotChanges, Zenon
  <2> QED BY <1>6, <2>1, <2>2, Zenon DEF SysClose
<1>7. ASSUME NEW t \in Threads, SysExit(t) \/ Reap(t) PROVE FileInv'
  BY <1>1, <1>7, ReapKeepsFiles, Zenon DEF SysExit
<1>8. CASE Type \/ UNCHANGED vars
  BY <1>0, <1>8, Zenon DEF Type, vars
<1> QED BY <1>2, <1>3, <1>4, <1>5, <1>6, <1>7, <1>8, Zenon DEF Next

(* At first nothing is typed, delivered or open.                           *)
LEMMA InitDataInv == Init => InputInv /\ FileInv
<1> SUFFICES ASSUME Init PROVE InputInv /\ FileInv
  BY Zenon
<1>1. <<>> \o <<>> = <<>> /\ <<>> \in Seq(Codes)
  OBVIOUS
<1>2. InputInv
  BY <1>1, Constants DEF Init, InputInv, InputDeliveredOnce
<1>3. FileInv
  BY ClosedOK, Zenon DEF Init, FileInv
<1> QED BY <1>2, <1>3, Zenon

(* Input and files are in order in every state.                            *)
LEMMA SpecDataInv == Spec => [](InputInv /\ FileInv)
BY InitDataInv, NextInputInv, NextFileInv, PTL DEF Spec

(* An offset never passes the end of its file, and a thread starts with no *)
(* file open, whatever the thread before it in its slot had left open.     *)
THEOREM TypeCorrect == Spec => []TypeOK
<1>1. ASSUME InputInv, FileInv PROVE TypeOK
  <2>1. ASSUME NEW t \in Threads, NEW slot \in OpenSlots, open_files[t][slot] # NoFile
        PROVE  /\ open_files[t][slot].name \in DOMAIN Files
               /\ open_files[t][slot].offset \in 0 .. Len(Files[open_files[t][slot].name])
    <3>1. /\ open_files[t][slot] \in Handles
          /\ open_files[t][slot].offset <= Len(Files[open_files[t][slot].name])
      BY <1>1, <2>1, Zenon DEF FileInv, SlotOK
    <3>2. Files[open_files[t][slot].name] \in Seq(Contents)
      BY <3>1, Constants, Zenon DEF Handles
    <3>3. Len(Files[open_files[t][slot].name]) \in Nat
      BY <3>2
    <3> QED BY <3>1, <3>3 DEF Handles
  <2> QED BY <1>1, <2>1, Zenon DEF TypeOK, FileInv, InputInv
<1> QED BY <1>1, SpecDataInv, PTL

(* Every byte the input queue took is delivered once and in order or still *)
(* queued, the bytes dropped while it was full being no part of it, and    *)
(* what a descriptor has delivered is the beginning of its file, whatever  *)
(* calls fail, programs are killed and slots are used again in between.    *)
THEOREM ReadsAreInOrder == Spec => []ReadsInOrder
<1>1. ASSUME InputInv, FileInv PROVE ReadsInOrder
  <2>1. ASSUME NEW t \in Threads, NEW slot \in OpenSlots, open_files[t][slot] # NoFile
        PROVE  /\ IsPrefix(got[t][slot], Files[open_files[t][slot].name])
               /\ Len(got[t][slot]) = open_files[t][slot].offset
    <3> DEFINE file == open_files[t][slot]
               F == Files[file.name]
    <3>1. /\ file \in Handles /\ file.offset <= Len(F)
          /\ got[t][slot] = SubSeq(F, 1, file.offset)
      BY <1>1, <2>1, Zenon DEF FileInv, SlotOK
    <3>2. F \in Seq(Contents) /\ file.offset \in Nat
      BY <3>1, Constants, Zenon DEF Handles
    <3> HIDE DEF file
    <3>3. /\ SubSeq(F, 1, file.offset) \in Seq(Contents)
          /\ Len(SubSeq(F, 1, file.offset)) = file.offset
      BY <3>1, <3>2
    <3>4. SubSeq(got[t][slot], 1, Len(got[t][slot])) = got[t][slot]
      BY <3>1, <3>3, SubSeqFull, Zenon
    <3> QED BY <3>1, <3>3, <3>4, Zenon DEF IsPrefix, file
  <2>2. ASSUME NEW t \in Threads, NEW slot \in OpenSlots, open_files[t][slot] = NoFile
        PROVE  got[t][slot] = <<>>
    BY <1>1, <2>2, Zenon DEF FileInv, SlotOK
  <2> QED BY <1>1, <2>1, <2>2, Zenon DEF ReadsInOrder, InputInv
<1> QED BY <1>1, SpecDataInv, PTL

(* No call of any program makes the kernel fault: user_range_ok looks at   *)
(* every page of the range asked for, and no more than that is copied.     *)
THEOREM CallsNeverFault == Spec => []NoKernelFault
<1>1. Init => NoKernelFault
  BY Zenon DEF Init, NoKernelFault
<1>2. ASSUME NoKernelFault, InputInv, FileInv, [Next]_vars PROVE NoKernelFault'
  <2> SUFFICES ~faulted'
    BY Zenon DEF NoKernelFault
  <2>a. ~faulted
    BY <1>2, Zenon DEF NoKernelFault
  <2>0. ASSUME NEW t, Fails \/ Dies(t) PROVE ~faulted'
    BY <2>a, <2>0, Zenon DEF Fails, Dies, vars
  <2>1. ASSUME NEW ptr \in Nat, NEW len \in Nat, NEW n \in Nat, n <= len, NEW right,
               user_range_ok(ptr, len, right), Copy(ptr, n, right)
        PROVE  ~faulted'
    BY <2>a, <2>1, CheckCovers, Zenon DEF Copy
  <2>2. ASSUME NEW t \in Threads, NEW fd \in Fds, NEW buf \in Buffers, SysWrite(t, fd, buf)
        PROVE  ~faulted'
    <3> DEFINE len == Min({buf.len, WRITE_MAX})
    <3>1. buf.ptr \in Nat /\ len \in Nat /\ len <= len
      BY Constants, MinOfTwo
    <3> QED BY <2>0, <2>1, <2>2, <3>1, Zenon DEF SysWrite
  <2>3. ASSUME NEW t \in Threads, NEW fd \in Fds, NEW buf \in Buffers, SysRead(t, fd, buf)
        PROVE  ~faulted'
    <3> DEFINE len == Min({buf.len, READ_MAX})
    <3>1. buf.ptr \in Nat /\ len \in Nat
      BY Constants, MinOfTwo, Zenon
    <3>2. ASSUME NEW k \in Nat, user_range_ok(buf.ptr, len, "w"),
                 Copy(buf.ptr, Min({len, k}), "w")
          PROVE  ~faulted'
      <4>1. Min({len, k}) \in Nat /\ Min({len, k}) <= len
        BY <3>1, MinOfTwo, Zenon
      <4> QED BY <2>1, <3>1, <3>2, <4>1, Zenon
    <3> HIDE DEF len
    <3>3. ASSUME sys_read_stdin(t, buf.ptr, len) PROVE ~faulted'
      <4>1. Len(input) \in Nat
        BY <1>2 DEF InputInv
      <4> QED BY <2>0, <3>2, <3>3, <4>1, Zenon DEF sys_read_stdin
    <3>4. ASSUME sys_read_file(t, fd, buf.ptr, len) PROVE ~faulted'
      <4>1. ASSUME IsOpen(t, fd), read_open_file(t, fd - FIRST_FILE_FD, buf.ptr, len),
                   user_range_ok(buf.ptr, len, "w")
            PROVE  ~faulted'
        <5> DEFINE file == open_files[t][fd - FIRST_FILE_FD]
                   data == SubSeq(Files[file.name], file.offset + 1, Len(Files[file.name]))
        <5>1. file \in Handles
          BY <1>2, <4>1, Zenon DEF IsOpen, FileInv
        <5>2. file.offset \in Nat /\ Files[file.name] \in Seq(Contents)
          BY <5>1, Constants, Zenon DEF Handles
        <5>3. data \in Seq(Contents)
          BY <5>2
        <5>4. Copy(buf.ptr, Min({len, Len(data)}), "w")
          BY <4>1, Zenon DEF read_open_file
        <5> HIDE DEF data
        <5>5. Len(data) \in Nat
          BY <5>3
        <5> QED BY <3>2, <4>1, <5>4, <5>5, Zenon
      <4> QED BY <2>0, <3>4, <4>1, Zenon DEF sys_read_file
    <3> QED BY <2>0, <2>3, <3>3, <3>4, Zenon DEF SysRead, Fails, len
  <2>4. ASSUME NEW t \in Threads, NEW path \in Buffers, NEW name \in Names, SysOpen(t, path, name)
        PROVE  ~faulted'
    <3>1. path.ptr \in Nat /\ path.len \in Nat /\ path.len <= path.len
      BY Constants
    <3> QED BY <2>0, <2>1, <2>4, <3>1, Zenon DEF SysOpen, PathReadable
  <2>5. ASSUME NEW t \in Threads, NEW path \in Buffers, NEW args \in Buffers, NEW name \in Names,
               SysSpawn(t, path, args, name)
        PROVE  ~faulted'
    <3>1. path.ptr \in Nat /\ path.len \in Nat /\ args.ptr \in Nat /\ args.len \in Nat
      BY Constants, Zenon
    <3>2. CASE Fails \/ Dies(t)
      BY <2>0, <3>2, Zenon
    <3>3. CASE /\ PathReadable(path) /\ (args.len > 0 => user_range_ok(args.ptr, args.len, "r"))
               /\ faulted' = (faulted \/ Faults(path.ptr, path.len, "r")
                                      \/ Faults(args.ptr, args.len, "r"))
      <4>1. ~Faults(path.ptr, path.len, "r")
        BY <3>1, <3>3, CheckCovers DEF PathReadable
      <4>2. ~Faults(args.ptr, args.len, "r")
        <5>1. CASE args.len = 0
          BY <3>1, <5>1, NothingFaults, Zenon
        <5>2. CASE args.len > 0
          BY <3>1, <3>3, <5>2, CheckCovers
        <5> QED BY <3>1, <5>1, <5>2
      <4> QED BY <2>a, <3>3, <4>1, <4>2, Zenon
    <3> QED BY <2>5, <3>2, <3>3, Zenon DEF SysSpawn
  <2>6. ASSUME NEW t \in Threads, NEW fd \in Fds, SysClose(t, fd) PROVE ~faulted'
    BY <2>a, <2>0, <2>6, Zenon DEF SysClose
  <2>7. ASSUME NEW t \in Threads, SysExit(t) \/ Reap(t) PROVE ~faulted'
    BY <2>a, <2>0, <2>7, Zenon DEF SysExit, Reap
  <2>8. CASE Type \/ UNCHANGED vars
    BY <2>a, <2>8, Zenon DEF Type, vars
  <2> QED BY <1>2, <2>2, <2>3, <2>4, <2>5, <2>6, <2>7, <2>8, Zenon DEF Next
<1> QED BY <1>1, <1>2, InitDataInv, NextInputInv, NextFileInv, PTL DEF Spec

(* What a step may do to a slot of the table of open files.                *)
SlotStep(old, new) == old # NoFile /\ new # NoFile => new.name = old.name /\ new.offset >= old.offset

(* One slot is written: with no file, or over no file, or further on.      *)
LEMMA OneSlotStep ==
  ASSUME FileInv, NEW t \in Threads, NEW slot \in OpenSlots, NEW f,
         SlotStep(open_files[t][slot], f),
         open_files' = [open_files EXCEPT ![t][slot] = f]
  PROVE  \A u \in Threads : \A s \in OpenSlots : SlotStep(open_files[u][s], open_files'[u][s])
<1>1. open_files \in [Threads -> [OpenSlots -> Handles \cup {NoFile}]]
  BY Zenon DEF FileInv
<1>2. \A u \in Threads : \A s \in OpenSlots :
        open_files'[u][s] = IF u = t /\ s = slot THEN f ELSE open_files[u][s]
  BY <1>1, Zenon
<1>3. \A u \in Threads : \A s \in OpenSlots :
        open_files[u][s] # NoFile => open_files[u][s] \in Handles
  BY <1>1, Zenon
<1>4. \A h \in Handles : h.offset >= h.offset
  BY DEF Handles
<1> QED BY <1>2, <1>3, <1>4 DEF SlotStep

(* An open descriptor goes on meaning the file it was opened for, and is   *)
(* never rewound, until sys_close or the reaper empties its slot.          *)
THEOREM DescriptorsKept == Spec => OpenFilesKept
<1> DEFINE Kept == \A t \in Threads : \A slot \in OpenSlots :
                     SlotStep(open_files[t][slot], open_files'[t][slot])
<1>1. ASSUME FileInv, InputInv, [Next]_vars PROVE Kept
  <2>0. ASSUME open_files' = open_files PROVE Kept
    <3>1. open_files \in [Threads -> [OpenSlots -> Handles \cup {NoFile}]]
      BY <1>1, Zenon DEF FileInv
    <3>2. \A h \in Handles : h.offset >= h.offset
      BY DEF Handles
    <3> QED BY <2>0, <3>1, <3>2, Zenon DEF SlotStep
  <2>1. ASSUME NEW t \in Threads, Fails \/ Dies(t) PROVE Kept
    BY <2>0, <2>1, Zenon DEF Fails, Dies, vars
  <2>2. ASSUME NEW t \in Threads, NEW fd \in Fds, NEW buf \in Buffers, SysRead(t, fd, buf)
        PROVE  Kept
    <3> DEFINE len == Min({buf.len, READ_MAX})
    <3>1. len \in Nat
      BY Constants, MinOfTwo, Zenon
    <3> HIDE DEF len
    <3>2. ASSUME sys_read_stdin(t, buf.ptr, len) PROVE Kept
      BY <2>0, <2>1, <3>2, Zenon DEF sys_read_stdin, Returns
    <3>3. ASSUME IsOpen(t, fd), read_open_file(t, fd - FIRST_FILE_FD, buf.ptr, len) PROVE Kept
      <4> DEFINE s == fd - FIRST_FILE_FD
                 file == open_files[t][s]
                 data == SubSeq(Files[file.name], file.offset + 1, Len(Files[file.name]))
                 n == Min({len, Len(data)})
                 new == [name |-> file.name, offset |-> file.offset + n]
      <4>1. s \in OpenSlots /\ file \in Handles
        BY <1>1, <3>3, Zenon DEF IsOpen, FileInv
      <4>2. file.offset \in Nat /\ Files[file.name] \in Seq(Contents)
        BY <4>1, Constants, Zenon DEF Handles
      <4>3. data \in Seq(Contents)
        BY <4>2
      <4>4. open_files' = [open_files EXCEPT ![t][s] = new]
        BY <3>3, Zenon DEF read_open_file
      <4> HIDE DEF data
      <4>5. Len(data) \in Nat
        BY <4>3
      <4>6. n \in Nat
        BY <3>1, <4>5, MinOfTwo, Zenon
      <4> HIDE DEF n
      <4>7. SlotStep(file, new)
        BY <4>2, <4>6 DEF SlotStep
      <4> HIDE DEF new
      <4> QED BY <1>1, <4>1, <4>4, <4>7, OneSlotStep, Zenon
    <3> QED BY <2>1, <2>2, <3>2, <3>3, Zenon DEF SysRead, sys_read_file, Fails, len
  <2>3. ASSUME NEW t \in Threads, NEW path \in Buffers, NEW name \in Names, SysOpen(t, path, name)
        PROVE  Kept
    <3>1. ASSUME FreeFileSlots(t) # {},
                 open_files' = [open_files EXCEPT ![t][Min(FreeFileSlots(t))] = [name |-> name, offset |-> 0]]
          PROVE  Kept
      <4> DEFINE new == [name |-> name, offset |-> 0]
      <4>1. Min(FreeFileSlots(t)) \in OpenSlots /\ SlotStep(open_files[t][Min(FreeFileSlots(t))], new)
        BY <3>1, FirstFreeSlot, Zenon DEF SlotStep
      <4> HIDE DEF new
      <4>2. open_files' = [open_files EXCEPT ![t][Min(FreeFileSlots(t))] = new]
        BY <3>1, Zenon DEF new
      <4> QED BY <1>1, <4>1, <4>2, OneSlotStep, Zenon
    <3> QED BY <2>1, <2>3, <3>1, Zenon DEF SysOpen
  <2>4. ASSUME NEW t \in Threads, NEW path \in Buffers, NEW args \in Buffers, NEW name \in Names,
               SysSpawn(t, path, args, name)
        PROVE  Kept
    <3>1. ASSUME NEW u \in Threads, status[u] = "free", open_files' = [open_files EXCEPT ![u] = Closed]
          PROVE  Kept
      BY <1>1, <2>0, <3>1, Zenon DEF FileInv
    <3> QED BY <2>1, <2>4, <3>1, Zenon DEF SysSpawn
  <2>5. ASSUME NEW t \in Threads, NEW fd \in Fds, SysClose(t, fd) PROVE Kept
    <3>1. ASSUME IsOpen(t, fd), open_files' = [open_files EXCEPT ![t][fd - FIRST_FILE_FD] = NoFile]
          PROVE  Kept
      <4>1. fd - FIRST_FILE_FD \in OpenSlots /\ SlotStep(open_files[t][fd - FIRST_FILE_FD], NoFile)
        BY <3>1, Zenon DEF IsOpen, SlotStep
      <4> QED BY <1>1, <3>1, <4>1, OneSlotStep, Zenon
    <3> QED BY <2>1, <2>5, <3>1, Zenon DEF SysClose
  <2>6. ASSUME NEW t \in Threads, Reap(t) PROVE Kept
    <3>1. open_files \in [Threads -> [OpenSlots -> Handles \cup {NoFile}]]
      BY <1>1, Zenon DEF FileInv
    <3>2. open_files' = [open_files EXCEPT ![t] = Closed]
      BY <2>6, Zenon DEF Reap
    <3>3. \A u \in Threads : \A s \in OpenSlots :
            open_files'[u][s] = IF u = t THEN NoFile ELSE open_files[u][s]
      BY <3>1, <3>2, ClosedOK, Zenon
    <3>4. \A h \in Handles : h.offset >= h.offset
      BY DEF Handles
    <3> QED BY <3>1, <3>3, <3>4 DEF SlotStep
  <2>7. CASE Type \/ UNCHANGED vars
    BY <2>0, <2>7, Zenon DEF Type, vars
  <2>8. ASSUME NEW t \in Threads, NEW fd \in Fds, NEW buf \in Buffers, SysWrite(t, fd, buf)
        PROVE  Kept
    BY <2>0, <2>1, <2>8, Zenon DEF SysWrite, Returns
  <2> QED BY <1>1, <2>1, <2>2, <2>3, <2>4, <2>5, <2>6, <2>7, <2>8, Zenon DEF Next, SysExit
<1>2. Kept => \A t \in Threads : \A slot \in OpenSlots :
                LET old == open_files[t][slot]
                    new == open_files'[t][slot]
                IN  old # NoFile /\ new # NoFile => new.name = old.name /\ new.offset >= old.offset
  BY Zenon DEF SlotStep
<1> HIDE DEF Kept
<1> QED BY <1>1, <1>2, SpecDataInv, PTL DEF Spec, OpenFilesKept
=============================================================================
