---------------------------- MODULE FramesProofs ----------------------------
(***************************************************************************)
(* The shape of the states of module Frames, for every memory map, depth   *)
(* of the page tables, heap and choice of files: the tables above every    *)
(* entry are there, what a space has left to do is not done yet, the       *)
(* stacks are the kernel's pages, and no two threads share one.  The       *)
(* lemmas here show that the steps of the kernel and of a space that is    *)
(* there keep the shape; module FramesOwnershipProofs adds the making of a *)
(* space and the first state, and shows that each frame has one holder.    *)
(***************************************************************************)
EXTENDS Frames, WellFoundedInduction, TLAPS

-----------------------------------------------------------------------------
(* The inductive invariant.                                                *)

All == Spaces \union {Kernel}
Paths == PagePaths \union TablePaths
Frame == UsableFrames \union Range(BootTables)
Jobs == [page : PagePaths, frame : UsableFrames]
SpacePhases == {"none", "loading", "sharing", "running", "freeing"}
Raw == UNION {Range(ps) : ps \in RawPages}
Records == [file : DOMAIN Files \union {NoFile}, pages : Seq(PagePaths), ok : BOOLEAN]

AllocOK ==
  /\ region_index \in 1 .. Len(Regions) + 1
  /\ next_frame_addr \in Nat
  /\ region_index <= Len(Regions) =>
       /\ Usable(region_index)
       /\ next_frame_addr \in Regions[region_index].start .. Regions[region_index].end - 1
  /\ free_list \in Seq(UsableFrames)

TreeOK ==
  /\ tree = [s \in All |-> tree[s]]
  /\ \A s \in All : /\ DOMAIN tree[s] \subseteq Paths
                    /\ \A p \in DOMAIN tree[s] : tree[s][p] \in Frame

StateOK ==
  /\ l4 \in [Spaces -> UsableFrames \union {NoFrame}]
  /\ phase \in [All -> SpacePhases \union {"booting", "up"}]
  /\ plan \in [Spaces -> Records]
  /\ job \in [All -> Jobs \union {NoJob}]
  /\ stack \in [Spaces -> SUBSET Range(HeapPages)]
  /\ heap \subseteq Range(HeapPages)
  /\ panic \in {"no", "exhausted", "already mapped"}

(* The kernel's own tables.                                                *)
KernelOK ==
  /\ phase[Kernel] \in {"booting", "up"}
  /\ DOMAIN BootTables \subseteq DOMAIN tree[Kernel]
  /\ \A p \in DOMAIN tree[Kernel] :
       IF p \in DOMAIN BootTables THEN tree[Kernel][p] = BootTables[p]
       ELSE /\ tree[Kernel][p] \in UsableFrames
            /\ p[1] \in SharedIndices \/ \E h \in Range(HeapPages) : IsPrefix(p, h)
  /\ phase[Kernel] = "booting" =>
       /\ \A s \in Spaces : phase[s] = "none"
       /\ job[Kernel] # NoJob =>
            job[Kernel].page \in Range(HeapPages) /\ job[Kernel].page \notin DOMAIN tree[Kernel]
  /\ phase[Kernel] = "up" => job[Kernel] = NoJob /\ Range(HeapPages) \subseteq DOMAIN tree[Kernel]

(* The pages that are still to be mapped.                                  *)
Pending(s) ==
  Range(plan[s].pages) \union (IF job[s] = NoJob THEN {} ELSE {job[s].page})

Asked(s) == IF plan[s].file = NoFile THEN Raw ELSE Range(Pages(plan[s].file))

SpaceOK(s) ==
  /\ phase[s] \in SpacePhases
  /\ phase[s] = "none" =>
       DOMAIN tree[s] = {} /\ l4[s] = NoFrame
  /\ phase[s] # "none" =>
       l4[s] # NoFrame /\ {<<i>> : i \in SharedIndices} \subseteq DOMAIN tree[s]
  /\ phase[s] \notin {"loading", "sharing"} => job[s] = NoJob
  /\ phase[s] \in {"none", "loading"} => stack[s] = {}
  /\ \A p \in DOMAIN tree[s] : p[1] \in SharedIndices => Len(p) = 1
  /\ \A p \in Owned(s) :
       /\ tree[s][p] \in UsableFrames
       /\ \A n \in 1 .. Len(p) - 1 : SubSeq(p, 1, n) \in DOMAIN tree[s]

(* The pages of a space, while it is built: those it has are those asked   *)
(* for, and for a page asked for twice a file is to blame.                 *)
BuildOK(s) ==
  /\ phase[s] = "loading" =>
       /\ Pending(s) \subseteq Asked(s)
       /\ \A p \in DOMAIN tree[s] : Len(p) = Levels => p \in Asked(s)
       /\ plan[s].file = NoFile => Pending(s) \intersect DOMAIN tree[s] = {}
  /\ phase[s] = "sharing" =>
       /\ Pending(s) \subseteq stack[s]
       /\ \A p \in DOMAIN tree[s] : Len(p) = Levels =>
            p \in Asked(s) \/ p \in stack[s] \ Pending(s)
       /\ job[s] # NoJob => job[s].frame = tree[Kernel][job[s].page]
  /\ phase[s] = "sharing" \/ (phase[s] = "loading" /\ plan[s].file = NoFile) =>
       /\ IsInjective(plan[s].pages)
       /\ job[s] # NoJob => job[s].page \notin Range(plan[s].pages)

(* The pages of its kernel stack.                                          *)
StackOK(s) ==
  /\ phase[s] \in {"sharing", "running"} => stack[s] \subseteq heap
  /\ phase[s] = "sharing" =>
       \A p \in stack[s] \ Pending(s) : p \in DOMAIN tree[s] /\ tree[s][p] = tree[Kernel][p]
  /\ phase[s] = "running" => stack[s] \subseteq DOMAIN tree[s]
  /\ phase[s] \in {"running", "freeing"} =>
       \A p \in stack[s] : p \in DOMAIN tree[s] => tree[s][p] = tree[Kernel][p]

StacksApart ==
  \A s, t \in Spaces :
    s # t /\ phase[s] \in {"sharing", "running"} /\ phase[t] \in {"sharing", "running"}
      => stack[s] \intersect stack[t] = {}

Shape ==
  /\ AllocOK /\ TreeOK /\ StateOK /\ KernelOK /\ StacksApart
  /\ \A s \in Spaces : SpaceOK(s) /\ BuildOK(s) /\ StackOK(s)

-----------------------------------------------------------------------------
(* The constants.                                                          *)

(* What the assumptions on the page tables say.                            *)
LEMMA Sizes == Levels \in Nat /\ Levels >= 2 /\ Entries \in Nat \ {0}
BY FramesAssumption

(* The kernel is no space, and neither is the free list.                   *)
LEMMA Names == Kernel \notin Spaces /\ "free" \notin Spaces
BY FramesAssumption, Zenon

(* The values that stand for no frame and no job are none.                 *)
LEMMA NoValues == NoFrame \notin UsableFrames /\ NoJob \notin Jobs
BY FramesAssumption, Zenon DEF Jobs

(* The bootloader's tables include those of the shared entries, and are    *)
(* outside the memory the allocator hands out.                             *)
LEMMA BootFacts ==
  /\ DOMAIN BootTables \subseteq TablePaths
  /\ {<<i>> : i \in SharedIndices} \subseteq DOMAIN BootTables
  /\ \A p, q \in DOMAIN BootTables : BootTables[p] = BootTables[q] => p = q
  /\ Range(BootTables) \cap UsableFrames = {}
BY FramesAssumption, Zenon DEF IsInjective

(* The heap's pages are distinct, below no shared entry, in no page of the *)
(* bootloader's, and enough for a stack.                                   *)
LEMMA HeapFacts ==
  /\ HeapPages \in Seq(PagePaths)
  /\ \A i, j \in DOMAIN HeapPages : HeapPages[i] = HeapPages[j] => i = j
  /\ \A p \in Range(HeapPages) : p[1] \notin SharedIndices /\ ~InBootPage(p)
  /\ StackPages \in 1 .. Len(HeapPages)
BY FramesAssumption, Zenon DEF IsInjective

(* The demos ask for distinct pages, outside the heap and below no shared  *)
(* entry.                                                                  *)
LEMMA LoadFacts ==
  /\ Files \in Seq(ElfFiles)
  /\ \A ps \in RawPages :
       /\ ps \in Seq(PagePaths) /\ IsInjective(ps)
       /\ \A p \in Range(ps) : p[1] \notin SharedIndices /\ p \notin Range(HeapPages)
BY FramesAssumption, Zenon

(* The memory map: regions in order, and the frames of the usable ones.    *)
LEMMA RegionFacts ==
  /\ Len(Regions) \in Nat /\ DOMAIN Regions = 1 .. Len(Regions)
  /\ \A r \in 1 .. Len(Regions) : Regions[r].start \in Nat /\ Regions[r].end \in Nat
  /\ \A q, r \in 1 .. Len(Regions) : q < r => Regions[q].end <= Regions[r].start
  /\ \A f \in UsableFrames : f \in Nat
  /\ \A f : f \in UsableFrames <=> \E r \in 1 .. Len(Regions) :
       Usable(r) /\ f \in Regions[r].start .. Regions[r].end - 1
<1> DEFINE R == [start : Nat, end : Nat, usable : BOOLEAN]
<1>1. Regions \in Seq(R) /\ \A q, r \in DOMAIN Regions : q < r => Regions[q].end <= Regions[r].start
  BY FramesAssumption, Zenon
<1> HIDE DEF R
<1>2. Len(Regions) \in Nat /\ DOMAIN Regions = 1 .. Len(Regions) /\ \A r \in 1 .. Len(Regions) : Regions[r] \in R
  BY <1>1
<1>3. \A r \in 1 .. Len(Regions) : Regions[r].start \in Nat /\ Regions[r].end \in Nat
  BY <1>2, Zenon DEF R
<1>4. \A f : f \in UsableFrames <=> \E r \in 1 .. Len(Regions) :
        Usable(r) /\ f \in Regions[r].start .. Regions[r].end - 1
  BY <1>2, Zenon DEF UsableFrames
<1>5. \A f \in UsableFrames : f \in Nat
  BY <1>3, <1>4
<1> QED BY <1>1, <1>2, <1>3, <1>4, <1>5, Zenon

-----------------------------------------------------------------------------
(* The allocator.                                                          *)

(* The first n elements of a sequence.                                     *)
LEMMA Beginning ==
  ASSUME NEW S, NEW s \in Seq(S), NEW n \in 0 .. Len(s)
  PROVE  /\ SubSeq(s, 1, n) \in Seq(S) /\ Len(SubSeq(s, 1, n)) = n
         /\ \A i \in 1 .. n : SubSeq(s, 1, n)[i] = s[i]
<1>1. n \in Int /\ 1 \in Int /\ \A i \in 1 .. n : s[i] \in S
  OBVIOUS
<1>2. /\ SubSeq(s, 1, n) \in Seq(S)
      /\ Len(SubSeq(s, 1, n)) = IF 1 <= n THEN n - 1 + 1 ELSE 0
      /\ \A i \in 1 .. n - 1 + 1 : SubSeq(s, 1, n)[i] = s[1 + i - 1]
  BY <1>1
<1>3. n - 1 + 1 = n /\ \A i \in 1 .. n : 1 + i - 1 = i
  BY <1>1
<1>4. Len(SubSeq(s, 1, n)) = n
  BY <1>1, <1>2
<1>5. ASSUME NEW i \in 1 .. n PROVE SubSeq(s, 1, n)[i] = s[i]
  BY <1>2, <1>3, Zenon
<1> QED BY <1>2, <1>4, <1>5, Zenon

(* A set of naturals has a least element.                                  *)
LEMMA MinExists ==
  ASSUME NEW S \in SUBSET Nat, S # {}
  PROVE  Min(S) \in S /\ \A x \in S : Min(S) <= x
<1> DEFINE Less == {p \in Nat \X Nat : p[1] < p[2]}
<1>1. PICK s \in S : \A r \in S : <<r, s>> \notin Less
  <2>1. IsWellFoundedOn(Less, Nat)
    BY NatLessThanWellFounded, Zenon DEF OpToRel
  <2> HIDE DEF Less
  <2> QED BY <2>1, WFMin, Zenon
<1>2. \A a, b \in Nat : a < b => <<a, b>> \in Less
  BY Zenon
<1> HIDE DEF Less
<1>3. ASSUME NEW r \in S PROVE s <= r
  <2>1. r \in Nat /\ s \in Nat
    BY Zenon
  <2>2. ~(r < s)
    BY <1>1, <1>2, <2>1, Zenon
  <2> QED BY <2>1, <2>2
<1> QED BY <1>3, Zenon DEF Min

(* skip_to_next_usable_region finds the first usable region from i on, or  *)
(* comes to the end.                                                       *)
LEMMA NextUsableIs ==
  ASSUME NEW i \in Nat
  PROVE  LET r == NextUsable(i)
         IN  /\ r \in 1 .. Len(Regions) + 1
             /\ r <= Len(Regions) => r >= i /\ Usable(r)
             /\ \A q \in 1 .. Len(Regions) : q >= i /\ Usable(q) => r <= q
<1> DEFINE S == {r \in DOMAIN Regions : r >= i /\ Usable(r)} \union {Len(Regions) + 1}
<1>1. S \in SUBSET Nat /\ S # {} /\ NextUsable(i) = Min(S)
  BY RegionFacts DEF NextUsable
<1>2. Min(S) \in S /\ \A x \in S : Min(S) <= x
  <2> HIDE DEF S
  <2> QED BY <1>1, MinExists, Zenon
<1> DEFINE m == Min(S)
<1>3. m = Len(Regions) + 1 \/ (m \in 1 .. Len(Regions) /\ m >= i /\ Usable(m))
  BY <1>2, RegionFacts, Zenon
<1>4. \A q \in 1 .. Len(Regions) : q >= i /\ Usable(q) => m <= q
  BY <1>2, RegionFacts, Zenon
<1> HIDE DEF m
<1>5. /\ m \in 1 .. Len(Regions) + 1
      /\ m <= Len(Regions) => m >= i /\ Usable(m)
  BY <1>3, RegionFacts
<1> QED BY <1>1, <1>4, <1>5, Zenon DEF m

(* The frames from a region on are those of it and of the regions after.   *)
LEMMA Ahead ==
  ASSUME NEW r \in 1 .. Len(Regions), Usable(r), NEW f \in UsableFrames
  PROVE  f >= Regions[r].end <=> \E q \in 1 .. Len(Regions) :
           q > r /\ Usable(q) /\ f \in Regions[q].start .. Regions[q].end - 1
<1>1. PICK q \in 1 .. Len(Regions) : Usable(q) /\ f \in Regions[q].start .. Regions[q].end - 1
  BY RegionFacts, Zenon
<1>2. q \in Nat /\ r \in Nat /\ f \in Nat
  BY RegionFacts
<1>3. Regions[r].start < Regions[r].end
  BY Zenon DEF Usable
<1>4. CASE q = r
  <2>1. ASSUME NEW p \in 1 .. Len(Regions), p > r, f \in Regions[p].start .. Regions[p].end - 1 PROVE FALSE
    BY <1>1, <1>2, <1>4, <2>1, RegionFacts
  <2>2. ~(f >= Regions[r].end)
    BY <1>1, <1>2, <1>4, RegionFacts
  <2> QED BY <2>1, <2>2, Zenon
<1>5. CASE q < r
  <2>1. f < Regions[r].start
    BY <1>1, <1>2, <1>5, RegionFacts
  <2>2. ASSUME NEW p \in 1 .. Len(Regions), p > r, f \in Regions[p].start .. Regions[p].end - 1 PROVE FALSE
    <3>1. Regions[r].end <= Regions[p].start /\ Regions[p].start <= f
      BY <1>2, <2>2, RegionFacts
    <3> QED BY <1>2, <1>3, <2>1, <3>1, RegionFacts
  <2>3. ~(f >= Regions[r].end)
    BY <1>2, <1>3, <2>1, RegionFacts
  <2> QED BY <2>2, <2>3, Zenon
<1>6. CASE q > r
  <2>1. f >= Regions[r].end
    BY <1>1, <1>2, <1>6, RegionFacts
  <2> QED BY <1>1, <1>6, <2>1, Zenon
<1> QED BY <1>2, <1>4, <1>5, <1>6

(* The cursor moves to a region: its frames and those after it are ahead.  *)
LEMMA MovesTo ==
  ASSUME NEW i \in 1 .. Len(Regions) + 1, NEW f \in UsableFrames,
         NEW q \in 1 .. Len(Regions), Usable(q), q >= i, f \in Regions[q].start .. Regions[q].end - 1
  PROVE  NextUsable(i) <= Len(Regions) /\ f >= Regions[NextUsable(i)].start
<1> DEFINE r == NextUsable(i)
<1>1. i \in Nat
  BY RegionFacts
<1>2. r \in 1 .. Len(Regions) + 1 /\ r <= q /\ (r <= Len(Regions) => Usable(r))
  BY <1>1, NextUsableIs, Zenon
<1> HIDE DEF r
<1>3. r \in 1 .. Len(Regions) /\ Regions[r].start < Regions[r].end
  BY <1>2, RegionFacts DEF Usable
<1>4. f >= Regions[r].start
  <2>1. CASE r = q
    BY <2>1, <1>3, RegionFacts
  <2>2. CASE r < q
    BY <2>2, <1>3, RegionFacts
  <2> QED BY <1>2, <1>3, <2>1, <2>2
<1> QED BY <1>3, <1>4, RegionFacts DEF r

(* allocate_frame takes its frame from the end of the free list or from    *)
(* the front of what is ahead of the cursor.                               *)
LEMMA Takes ==
  ASSUME AllocOK, CanAllocate, allocate_frame
  PROVE  /\ AllocOK'
         /\ TopFrame \in UsableFrames
         /\ \/ /\ Len(free_list) \in Nat \ {0} /\ TopFrame = free_list[Len(free_list)]
               /\ Len(free_list') = Len(free_list) - 1
               /\ \A i \in 1 .. Len(free_list) - 1 : free_list'[i] = free_list[i]
               /\ FreshFrames' = FreshFrames
            \/ /\ TopFrame \in FreshFrames /\ free_list' = free_list
               /\ FreshFrames' = FreshFrames \ {TopFrame}
<1>1. free_list \in Seq(UsableFrames)
  BY Zenon DEF AllocOK
<1>2. CASE free_list # <<>>
  <2>1. Len(free_list) \in Nat \ {0} /\ TopFrame = free_list[Len(free_list)] /\ TopFrame \in UsableFrames
    BY <1>1, <1>2 DEF TopFrame, Last
  <2>2. /\ free_list' = SubSeq(free_list, 1, Len(free_list) - 1)
        /\ UNCHANGED <<region_index, next_frame_addr>>
    BY <1>2, Zenon DEF allocate_frame, Front
  <2>3. /\ free_list' \in Seq(UsableFrames) /\ Len(free_list') = Len(free_list) - 1
        /\ \A i \in 1 .. Len(free_list) - 1 : free_list'[i] = free_list[i]
    <3>1. Len(free_list) - 1 \in 0 .. Len(free_list)
      BY <2>1
    <3> QED BY <1>1, <2>2, <3>1, Beginning, Zenon
  <2>4. AllocOK' /\ FreshFrames' = FreshFrames
    BY <2>2, <2>3, Zenon DEF AllocOK, FreshFrames
  <2> QED BY <2>1, <2>3, <2>4, Zenon
<1>3. CASE free_list = <<>>
  <2> DEFINE r == region_index
             a == next_frame_addr
             n == NextUsable(region_index + 1)
  <2>1. /\ TopFrame = a /\ free_list' = free_list
        /\ r \in 1 .. Len(Regions) /\ Usable(r) /\ a \in Regions[r].start .. Regions[r].end - 1
        /\ a \in Nat /\ Regions[r].end \in Nat /\ Regions[r].start \in Nat
    BY <1>3, RegionFacts DEF CanAllocate, TopFrame, allocate_frame, AllocOK
  <2>2. a \in UsableFrames
    BY <2>1, RegionFacts, Zenon
  <2>3. TopFrame \in FreshFrames
    BY <2>1, <2>2, RegionFacts DEF FreshFrames
  <2>4. CASE a + 1 < Regions[r].end
    <3>1. next_frame_addr' = a + 1 /\ region_index' = r
      BY <1>3, <2>1, <2>4 DEF allocate_frame
    <3>2. AllocOK'
      BY <1>1, <2>1, <2>4, <3>1 DEF AllocOK
    <3>3. FreshFrames' = FreshFrames \ {a}
      BY <2>1, <3>1, RegionFacts DEF FreshFrames
    <3> QED BY <2>1, <2>2, <2>3, <3>2, <3>3, Zenon
  <2>5. CASE a + 1 >= Regions[r].end
    <3>1. region_index' = n /\ next_frame_addr' = StartOf(n, a + 1) /\ a + 1 = Regions[r].end
      BY <1>3, <2>1, <2>5 DEF allocate_frame
    <3>2. r + 1 \in Nat /\ r + 1 \in 1 .. Len(Regions) + 1 /\ r \in Nat
      BY <2>1, RegionFacts
    <3>3. /\ n \in 1 .. Len(Regions) + 1
          /\ n <= Len(Regions) => n >= r + 1 /\ Usable(n)
      BY <3>2, NextUsableIs, Zenon
    <3> HIDE DEF n
    <3>4. n <= Len(Regions) => n \in 1 .. Len(Regions) /\ Regions[n].start < Regions[n].end
      BY <3>3, RegionFacts DEF Usable
    <3>5. AllocOK'
      <4>1. CASE n <= Len(Regions)
        <5>1. next_frame_addr' = Regions[n].start /\ Regions[n].start \in Nat /\ Regions[n].end \in Nat
          BY <3>1, <3>4, <4>1, RegionFacts, Zenon DEF StartOf
        <5>2. next_frame_addr' \in Regions[n].start .. Regions[n].end - 1
          BY <3>4, <4>1, <5>1
        <5> QED BY <1>1, <2>1, <3>1, <3>3, <5>1, <5>2, Zenon DEF AllocOK
      <4>2. CASE ~(n <= Len(Regions))
        <5>1. next_frame_addr' = a + 1
          BY <3>1, <4>2, RegionFacts DEF StartOf
        <5> QED BY <1>1, <2>1, <3>1, <3>3, <4>2, <5>1, Zenon DEF AllocOK
      <4> QED BY <4>1, <4>2, Zenon
    <3>6. ASSUME NEW f \in UsableFrames PROVE f \in FreshFrames' <=> f \in FreshFrames \ {a}
      <4>1. f \in Nat
        BY RegionFacts, Zenon
      <4>2. f \in FreshFrames \ {a} <=> f >= Regions[r].end
        BY <2>1, <3>1, <4>1, RegionFacts DEF FreshFrames
      <4>3. f \in FreshFrames' <=> n <= Len(Regions) /\ f >= Regions[n].start
        BY <3>1, <3>3, <3>4, RegionFacts, Zenon DEF FreshFrames, StartOf
      <4>4. ASSUME f >= Regions[r].end PROVE n <= Len(Regions) /\ f >= Regions[n].start
        <5>1. PICK q \in 1 .. Len(Regions) :
                q > r /\ Usable(q) /\ f \in Regions[q].start .. Regions[q].end - 1
          BY <2>1, <4>4, Ahead, Zenon
        <5>2. q >= r + 1
          BY <3>2, <5>1, RegionFacts
        <5> QED BY <3>2, <5>1, <5>2, MovesTo, Zenon DEF n
      <4>5. ASSUME n <= Len(Regions), f >= Regions[n].start PROVE f >= Regions[r].end
        <5>1. Regions[r].end <= Regions[n].start /\ Regions[n].start \in Nat
          BY <2>1, <3>2, <3>3, <3>4, <4>5, RegionFacts
        <5> QED BY <2>1, <4>1, <4>5, <5>1
      <4> QED BY <4>2, <4>3, <4>4, <4>5, Zenon
    <3>7. FreshFrames' = FreshFrames \ {a}
      <4>1. FreshFrames' \subseteq UsableFrames /\ FreshFrames \subseteq UsableFrames
        BY Zenon DEF FreshFrames
      <4> QED BY <3>6, <4>1, Zenon
    <3> QED BY <2>1, <2>2, <2>3, <3>5, <3>7, Zenon
  <2> QED BY <2>1, <2>4, <2>5
<1> QED BY <1>2, <1>3, Zenon

(* deallocate_frame puts the frame at the end of the free list and leaves  *)
(* the cursor alone.                                                       *)
LEMMA GivesBack ==
  ASSUME AllocOK, NEW f \in UsableFrames, deallocate_frame(f)
  PROVE  /\ AllocOK' /\ FreshFrames' = FreshFrames /\ Len(free_list) \in Nat
         /\ Len(free_list') = Len(free_list) + 1 /\ free_list'[Len(free_list) + 1] = f
         /\ \A i \in 1 .. Len(free_list) : free_list'[i] = free_list[i]
<1>1. free_list' = Append(free_list, f) /\ UNCHANGED <<region_index, next_frame_addr>>
  BY Zenon DEF deallocate_frame
<1>2. free_list \in Seq(UsableFrames)
  BY Zenon DEF AllocOK
<1>3. /\ free_list' \in Seq(UsableFrames) /\ Len(free_list) \in Nat
      /\ Len(free_list') = Len(free_list) + 1 /\ free_list'[Len(free_list) + 1] = f
      /\ \A i \in 1 .. Len(free_list) : free_list'[i] = free_list[i]
  BY <1>1, <1>2
<1>4. AllocOK' /\ FreshFrames' = FreshFrames
  BY <1>1, <1>3, Zenon DEF AllocOK, FreshFrames
<1> QED BY <1>3, <1>4, Zenon

-----------------------------------------------------------------------------
(* Paths.                                                                  *)

(* A path has one index for each level down to what it names.              *)
LEMMA PathFacts ==
  ASSUME NEW p \in Paths
  PROVE  /\ p \in Seq(Indices) /\ Len(p) \in 1 .. Levels /\ Len(p) \in Nat
         /\ DOMAIN p = 1 .. Len(p) /\ \A i \in 1 .. Len(p) : p[i] \in Nat
         /\ Len(p) = Levels <=> p \in PagePaths
<1>1. p \in Seq(Indices) /\ Len(p) \in 1 .. Levels /\ (Len(p) = Levels <=> p \in PagePaths)
  BY Sizes DEF Paths, PagePaths, TablePaths
<1>2. DOMAIN p = 1 .. Len(p) /\ Len(p) \in Nat /\ \A i \in 1 .. Len(p) : p[i] \in Indices
  BY <1>1
<1>3. \A i \in Indices : i \in Nat
  BY Sizes DEF Indices
<1> QED BY <1>1, <1>2, <1>3, Zenon

(* Two paths with the same indices are the same.                           *)
LEMMA PathEqual ==
  ASSUME NEW p \in Paths, NEW q \in Paths, Len(p) = Len(q), \A i \in 1 .. Len(p) : p[i] = q[i]
  PROVE  p = q
<1>1. p \in Seq(Indices) /\ q \in Seq(Indices)
  BY PathFacts, Zenon
<1> QED BY <1>1

(* The path of the n-th table on the way to an entry.                      *)
LEMMA PathOfTable ==
  ASSUME NEW p \in Paths, NEW n \in 1 .. Len(p)
  PROVE  /\ SubSeq(p, 1, n) \in Paths /\ Len(SubSeq(p, 1, n)) = n
         /\ n < Levels => SubSeq(p, 1, n) \in TablePaths
         /\ \A i \in 1 .. n : SubSeq(p, 1, n)[i] = p[i]
<1>1. p \in Seq(Indices) /\ Len(p) \in 1 .. Levels /\ Len(p) \in Nat
  BY PathFacts, Zenon
<1>2. n \in 0 .. Len(p) /\ n \in 1 .. Levels
  BY <1>1, Sizes
<1>3. /\ SubSeq(p, 1, n) \in Seq(Indices) /\ Len(SubSeq(p, 1, n)) = n
      /\ \A i \in 1 .. n : SubSeq(p, 1, n)[i] = p[i]
  BY <1>1, <1>2, Beginning, Zenon
<1>4. n < Levels => n \in 1 .. Levels - 1
  BY <1>2, Sizes
<1>5. SubSeq(p, 1, n) \in Paths /\ (n < Levels => SubSeq(p, 1, n) \in TablePaths)
  BY <1>2, <1>3, <1>4, Sizes DEF Paths, PagePaths, TablePaths
<1> QED BY <1>3, <1>5, Zenon

(* The tables above a table are tables above what is below it.             *)
LEMMA PathOfTableOfTable ==
  ASSUME NEW p \in Paths, NEW n \in 1 .. Len(p), NEW m \in 1 .. n
  PROVE  SubSeq(SubSeq(p, 1, n), 1, m) = SubSeq(p, 1, m)
<1> DEFINE q == SubSeq(p, 1, n)
           a == SubSeq(q, 1, m)
           b == SubSeq(p, 1, m)
<1>0. Len(p) \in Nat /\ m \in 1 .. Len(p)
  BY PathFacts
<1>1. q \in Paths /\ Len(q) = n /\ \A i \in 1 .. n : q[i] = p[i]
  BY PathOfTable, Zenon
<1> HIDE DEF q
<1>2. a \in Paths /\ Len(a) = m /\ \A i \in 1 .. m : a[i] = q[i]
  BY <1>1, PathOfTable, Zenon
<1>3. b \in Paths /\ Len(b) = m /\ \A i \in 1 .. m : b[i] = p[i]
  BY <1>0, PathOfTable, Zenon
<1> HIDE DEF a, b
<1>4. \A i \in 1 .. m : a[i] = b[i]
  BY <1>1, <1>2, <1>3
<1>5. a = b
  BY <1>2, <1>3, <1>4, PathEqual, Zenon
<1> QED BY <1>5, Zenon DEF a, b, q

(* A path leads through another if it begins with its indices.             *)
LEMMA PrefixIs ==
  ASSUME NEW p \in Paths, NEW q \in Paths
  PROVE  IsPrefix(p, q) <=> Len(p) <= Len(q) /\ \A i \in 1 .. Len(p) : p[i] = q[i]
<1>1. p \in Seq(Indices) /\ Len(p) \in Nat \ {0} /\ Len(q) \in Nat
  BY PathFacts
<1>2. SubSeq(p, 1, Len(p)) = p
  BY <1>1
<1>3. CASE Len(p) <= Len(q)
  <2> DEFINE r == SubSeq(q, 1, Len(p))
  <2>1. Len(p) \in 1 .. Len(q)
    BY <1>1, <1>3
  <2>2. r \in Paths /\ Len(r) = Len(p) /\ \A i \in 1 .. Len(p) : r[i] = q[i]
    BY <2>1, PathOfTable, Zenon
  <2>3. IsPrefix(p, q) <=> p = r
    BY <1>2, <1>3, Zenon DEF IsPrefix
  <2> HIDE DEF r
  <2>4. ASSUME \A i \in 1 .. Len(p) : p[i] = q[i] PROVE p = r
    BY <2>2, <2>4, PathEqual, Zenon
  <2>5. ASSUME p = r PROVE \A i \in 1 .. Len(p) : p[i] = q[i]
    BY <2>2, <2>5, Zenon
  <2> QED BY <1>3, <2>3, <2>4, <2>5, Zenon
<1>4. CASE ~(Len(p) <= Len(q))
  BY <1>4, Zenon DEF IsPrefix
<1> QED BY <1>3, <1>4, Zenon

-----------------------------------------------------------------------------
(* What keeps the shape of the state.                                      *)

(* The kernel's tables lose and change nothing.                            *)
KernelKeeps ==
  \A p \in DOMAIN tree[Kernel] : p \in DOMAIN tree'[Kernel] /\ tree'[Kernel][p] = tree[Kernel][p]

(* Nothing of space t changes.                                             *)
Same(t) ==
  /\ tree'[t] = tree[t] /\ phase'[t] = phase[t] /\ plan'[t] = plan[t]
  /\ job'[t] = job[t] /\ stack'[t] = stack[t] /\ l4'[t] = l4[t]

(* A heap page is neither the bootloader's nor asked for by a demo.        *)
LEMMA HeapPage ==
  ASSUME NEW p \in Range(HeapPages)
  PROVE  /\ p \in PagePaths /\ p \in Paths /\ Len(p) = Levels /\ p[1] \notin SharedIndices
         /\ p \notin DOMAIN BootTables /\ p \notin Raw
<1>1. p \in PagePaths /\ p[1] \notin SharedIndices
  BY HeapFacts DEF Range
<1>2. Len(p) = Levels
  BY <1>1, Zenon DEF PagePaths
<1>3. p \notin TablePaths
  BY <1>2, Sizes DEF TablePaths
<1>4. p \notin Raw
  BY LoadFacts, Zenon DEF Raw
<1> QED BY <1>1, <1>2, <1>3, <1>4, BootFacts, Zenon DEF Paths

(* While there is a space the kernel is up and the whole heap is mapped.   *)
LEMMA StackPage ==
  ASSUME Shape, NEW s \in Spaces, phase[s] # "none", NEW p \in Range(HeapPages)
  PROVE  phase[Kernel] = "up" /\ p \in DOMAIN tree[Kernel] /\ tree[Kernel][p] \in UsableFrames
<1>1. phase[Kernel] = "up" /\ p \in DOMAIN tree[Kernel]
  BY Zenon DEF Shape, KernelOK
<1>2. p \notin DOMAIN BootTables
  BY HeapPage, Zenon
<1> QED BY <1>1, <1>2, Zenon DEF Shape, KernelOK

(* A space that a step does not touch keeps its shape if the kernel's      *)
(* tables keep theirs.                                                     *)
LEMMA SpaceSame ==
  ASSUME Shape, KernelKeeps, NEW t \in Spaces, Same(t),
         phase[t] \in {"sharing", "running"} => stack[t] \subseteq heap'
  PROVE  SpaceOK(t)' /\ BuildOK(t)' /\ StackOK(t)'
<1>1. SpaceOK(t) /\ BuildOK(t) /\ StackOK(t)
  BY Zenon DEF Shape
<1>2. Owned(t)' = Owned(t) /\ Pending(t)' = Pending(t) /\ Asked(t)' = Asked(t)
  BY Zenon DEF Same, Owned, Pending, Asked
<1>3. SpaceOK(t)'
  BY <1>1, <1>2, Zenon DEF SpaceOK, Same
<1>4. phase[t] # "none" => \A p \in stack[t] : tree'[Kernel][p] = tree[Kernel][p]
  <2> SUFFICES ASSUME phase[t] # "none", NEW p \in stack[t] PROVE tree'[Kernel][p] = tree[Kernel][p]
    BY Zenon
  <2>1. p \in Range(HeapPages)
    BY Zenon DEF Shape, StateOK
  <2> QED BY <2>1, StackPage, Zenon DEF KernelKeeps
<1>5. BuildOK(t)'
  <2>1. phase[t] = "sharing" /\ job[t] # NoJob => job[t].page \in stack[t]
    BY <1>1, Zenon DEF BuildOK, Pending
  <2> QED BY <1>1, <1>2, <1>4, <2>1, Zenon DEF BuildOK, Same
<1>6. StackOK(t)'
  BY <1>1, <1>2, <1>4, Zenon DEF StackOK, Same
<1> QED BY <1>3, <1>5, <1>6, Zenon

(* Only the allocator and the panic change.                                *)
LEMMA NothingElse ==
  ASSUME Shape, AllocOK', panic' \in {"no", "exhausted", "already mapped"},
         UNCHANGED <<l4, tree, phase, plan, job, stack, heap>>
  PROVE  Shape'
<1>1. TreeOK' /\ KernelOK' /\ StacksApart'
  BY Zenon DEF Shape, TreeOK, KernelOK, StacksApart
<1>2. StateOK'
  BY Zenon DEF Shape, StateOK
<1>3. ASSUME NEW t \in Spaces PROVE SpaceOK(t)' /\ BuildOK(t)' /\ StackOK(t)'
  <2>1. Same(t) /\ KernelKeeps
    BY Zenon DEF Same, KernelKeeps
  <2>2. phase[t] \in {"sharing", "running"} => stack[t] \subseteq heap'
    BY Zenon DEF Shape, StackOK
  <2> QED BY <2>1, <2>2, SpaceSame, Zenon
<1> QED BY <1>1, <1>2, <1>3, Zenon DEF Shape

(* A panic changes nothing that the shape is about.                        *)
LEMMA Panicking ==
  ASSUME Shape, panic' \in {"no", "exhausted", "already mapped"}, UNCHANGED <<allocVars, spaceVars>>
  PROVE  Shape'
<1>1. UNCHANGED <<l4, tree, phase, plan, job, stack, heap>> /\ UNCHANGED allocVars
  BY Zenon DEF spaceVars
<1>2. AllocOK'
  BY <1>1, Zenon DEF Shape, AllocOK, allocVars
<1> QED BY <1>1, <1>2, NothingElse, Zenon

(* A new entry.                                                            *)
LEMMA NewEntry ==
  ASSUME TreeOK, NEW s \in All, NEW p \in Paths, NEW f \in UsableFrames,
         ~Present(s, p), tree' = WithEntry(s, p, f)
  PROVE  LET h == Home(s, p)
         IN  /\ h \in All /\ TreeOK' /\ p \notin DOMAIN tree[h]
             /\ DOMAIN tree'[h] = DOMAIN tree[h] \union {p}
             /\ tree'[h][p] = f
             /\ \A q \in DOMAIN tree[h] : tree'[h][q] = tree[h][q]
             /\ \A t \in All \ {h} : tree'[t] = tree[t]
             /\ KernelKeeps
<1> DEFINE h == Home(s, p)
           old == tree[h]
           new == [q \in DOMAIN old \union {p} |-> IF q = p THEN f ELSE old[q]]
<1>1. h \in All /\ Kernel \in All /\ p \notin DOMAIN old
  BY Zenon DEF Home, All, Present, InTree
<1>2. tree' = [tree EXCEPT ![h] = new] /\ tree = [t \in All |-> tree[t]]
  BY Zenon DEF WithEntry, TreeOK
<1>3. tree' = [t \in All |-> tree'[t]] /\ tree'[h] = new /\ \A t \in All \ {h} : tree'[t] = tree[t]
  <2> HIDE DEF h, new
  <2> QED BY <1>1, <1>2, Zenon
<1>4. /\ DOMAIN new = DOMAIN old \union {p} /\ new[p] = f
      /\ \A q \in DOMAIN old : new[q] = old[q]
  <2> HIDE DEF old, h
  <2> QED BY <1>1, Zenon
<1>5. /\ \A t \in All : DOMAIN tree[t] \subseteq Paths
      /\ \A t \in All : \A q \in DOMAIN tree[t] : tree[t][q] \in Frame
  BY Zenon DEF TreeOK
<1>6. /\ DOMAIN old \subseteq Paths
      /\ \A q \in DOMAIN old : old[q] \in Frame
  BY <1>1, <1>5, Zenon
<1> HIDE DEF new
<1>7. DOMAIN new \subseteq Paths /\ \A q \in DOMAIN new : new[q] \in Frame
  <2> HIDE DEF old
  <2>1. f \in Frame
    BY Zenon DEF Frame
  <2> QED BY <1>4, <1>6, <2>1, Zenon
<1> HIDE DEF h
<1>8. TreeOK'
  <2>1. ASSUME NEW t \in All
        PROVE  /\ DOMAIN tree'[t] \subseteq Paths
               /\ \A q \in DOMAIN tree'[t] : tree'[t][q] \in Frame
    <3>1. CASE t = h
      BY <1>3, <1>7, <3>1, Zenon
    <3>2. CASE t # h
      BY <1>3, <1>5, <3>2, Zenon
    <3> QED BY <3>1, <3>2, Zenon
  <2> QED BY <1>3, <2>1, Zenon DEF TreeOK
<1>9. KernelKeeps
  <2>1. CASE h = Kernel
    BY <1>3, <1>4, <2>1, Zenon DEF KernelKeeps
  <2>2. CASE h # Kernel
    BY <1>1, <1>3, <2>2, Zenon DEF KernelKeeps
  <2> QED BY <2>1, <2>2, Zenon
<1> QED BY <1>1, <1>3, <1>4, <1>8, <1>9, Zenon DEF h

(* What the first of the pages to be mapped leaves.                        *)
LEMMA TakeHead ==
  ASSUME NEW S, NEW q \in Seq(S), q # <<>>
  PROVE  /\ Head(q) \in S /\ Tail(q) \in Seq(S)
         /\ Range(q) = {Head(q)} \union Range(Tail(q))
         /\ IsInjective(q) => IsInjective(Tail(q)) /\ Head(q) \notin Range(Tail(q))
<1>1. /\ Len(q) \in Nat \ {0} /\ DOMAIN q = 1 .. Len(q)
      /\ Head(q) = q[1] /\ Tail(q) \in Seq(S) /\ Len(Tail(q)) = Len(q) - 1
      /\ \A i \in 1 .. Len(q) - 1 : Tail(q)[i] = q[i + 1]
  OBVIOUS
<1> DEFINE r == Tail(q)
<1>2. DOMAIN r = 1 .. Len(q) - 1
  BY <1>1
<1>3. Head(q) \in S
  BY <1>1
<1> HIDE DEF r
<1>4. Range(q) = {Head(q)} \union Range(r)
  <2>1. ASSUME NEW x \in Range(q) PROVE x \in {Head(q)} \union Range(r)
    <3>1. PICK i \in 1 .. Len(q) : x = q[i]
      BY <1>1, Zenon DEF Range
    <3>2. CASE i = 1
      BY <1>1, <3>1, <3>2, Zenon
    <3>3. CASE i # 1
      <4>1. i - 1 \in 1 .. Len(q) - 1 /\ (i - 1) + 1 = i
        BY <1>1, <3>3
      <4>2. r[i - 1] = x
        BY <1>1, <3>1, <4>1, Zenon DEF r
      <4> QED BY <1>2, <4>1, <4>2, Zenon DEF Range
    <3> QED BY <3>2, <3>3, Zenon
  <2>2. ASSUME NEW x \in {Head(q)} \union Range(r) PROVE x \in Range(q)
    <3>1. CASE x = Head(q)
      <4>1. 1 \in DOMAIN q
        BY <1>1
      <4> QED BY <1>1, <3>1, <4>1, Zenon DEF Range
    <3>2. CASE x \in Range(r)
      <4>1. PICK i \in 1 .. Len(q) - 1 : x = r[i]
        BY <1>2, <3>2, Zenon DEF Range
      <4>2. x = q[i + 1] /\ i + 1 \in DOMAIN q
        BY <1>1, <4>1 DEF r
      <4> QED BY <4>2, Zenon DEF Range
    <3> QED BY <3>1, <3>2, Zenon
  <2> QED BY <2>1, <2>2, Zenon
<1>5. ASSUME IsInjective(q) PROVE IsInjective(r) /\ Head(q) \notin Range(r)
  <2>1. \A i, j \in 1 .. Len(q) : q[i] = q[j] => i = j
    BY <1>1, <1>5, Zenon DEF IsInjective
  <2>2. ASSUME NEW i \in 1 .. Len(q) - 1, NEW j \in 1 .. Len(q) - 1, r[i] = r[j] PROVE i = j
    <3>1. q[i + 1] = q[j + 1] /\ i + 1 \in 1 .. Len(q) /\ j + 1 \in 1 .. Len(q)
      BY <1>1, <2>2 DEF r
    <3>2. i + 1 = j + 1
      BY <2>1, <3>1, Zenon
    <3> QED BY <1>1, <3>2
  <2>3. ASSUME NEW i \in 1 .. Len(q) - 1, r[i] = Head(q) PROVE FALSE
    <3>1. q[i + 1] = q[1] /\ i + 1 \in 1 .. Len(q) /\ 1 \in 1 .. Len(q)
      BY <1>1, <2>3 DEF r
    <3>2. i + 1 = 1
      BY <2>1, <3>1, Zenon
    <3> QED BY <1>1, <3>2
  <2> QED BY <1>2, <2>2, <2>3, Zenon DEF IsInjective, Range
<1> QED BY <1>1, <1>3, <1>4, <1>5, Zenon DEF r

-----------------------------------------------------------------------------
(* Every step keeps the shape.                                             *)

(* Changing the pages of one space's plan.                                 *)
LEMMA PlanStep ==
  ASSUME StateOK, NEW s \in Spaces, NEW ps \in Seq(PagePaths),
         plan' = [plan EXCEPT ![s].pages = ps]
  PROVE  /\ plan' \in [Spaces -> Records]
         /\ plan'[s].pages = ps /\ plan'[s].file = plan[s].file
         /\ \A t \in Spaces \ {s} : plan'[t] = plan[t]
<1>1. plan \in [Spaces -> Records]
  BY Zenon DEF StateOK
<1> DEFINE r == [plan[s] EXCEPT !.pages = ps]
<1>2. plan[s] \in Records
  BY <1>1, Zenon
<1>3. r \in Records /\ r.pages = ps /\ r.file = plan[s].file
  BY <1>2, Zenon DEF Records
<1>4. plan' = [plan EXCEPT ![s] = r]
  BY Zenon
<1> HIDE DEF r
<1> QED BY <1>1, <1>3, <1>4, Zenon

(* The pages still to be mapped, with or without one being mapped.         *)
LEMMA PendingStep ==
  ASSUME StateOK, NEW s \in Spaces
  PROVE  /\ plan[s] \in Records /\ plan[s].pages \in Seq(PagePaths)
         /\ job[s] = NoJob => Pending(s) = Range(plan[s].pages)
         /\ job[s] # NoJob => /\ Pending(s) = Range(plan[s].pages) \union {job[s].page}
                              /\ job[s].page \in PagePaths /\ job[s].frame \in UsableFrames
<1>1. plan[s] \in Records /\ job[s] \in Jobs \union {NoJob}
  BY Zenon DEF StateOK, All
<1>2. plan[s].pages \in Seq(PagePaths)
  BY <1>1, Zenon DEF Records
<1>3. job[s] # NoJob => job[s].page \in PagePaths /\ job[s].frame \in UsableFrames
  BY <1>1, Zenon DEF Jobs
<1> QED BY <1>1, <1>2, <1>3, Zenon DEF Pending

(* map_segment's allocation of a page's frame keeps the shape.             *)
LEMMA FreshPageShape ==
  ASSUME Shape, NEW s \in Spaces, phase[s] = "loading", plan[s].pages # <<>>,
         MapFreshPage(s, Head(plan[s].pages))
  PROVE  Shape'
<1>1. CASE Exhausted
  BY <1>1, Panicking, Zenon DEF Exhausted
<1>2. CASE ~Exhausted
  <2> DEFINE ps == plan[s].pages
             new == [page |-> Head(ps), frame |-> TopFrame]
  <2>0. StateOK /\ AllocOK /\ TreeOK /\ KernelOK /\ StacksApart /\ Kernel # s
    BY Names, Zenon DEF Shape
  <2>1. /\ CanAllocate /\ allocate_frame /\ job[s] = NoJob
        /\ job' = [job EXCEPT ![s] = new]
        /\ plan' = [plan EXCEPT ![s].pages = Tail(ps)]
        /\ UNCHANGED <<l4, tree, phase, loading, stack, heap, loads, panic>>
    BY <1>2, <2>0, Zenon DEF MapFreshPage
  <2>2. AllocOK' /\ TopFrame \in UsableFrames
    BY <2>0, <2>1, Takes, Zenon
  <2>3. ps \in Seq(PagePaths) /\ Pending(s) = Range(ps)
    BY <2>0, <2>1, PendingStep, Zenon
  <2> HIDE DEF ps
  <2>4. /\ Head(ps) \in PagePaths /\ Tail(ps) \in Seq(PagePaths)
        /\ Range(ps) = {Head(ps)} \union Range(Tail(ps))
        /\ IsInjective(ps) => IsInjective(Tail(ps)) /\ Head(ps) \notin Range(Tail(ps))
    BY <2>3, TakeHead, Zenon DEF ps
  <2>5. new \in Jobs
    BY <2>2, <2>4, Zenon DEF Jobs
  <2>6. /\ plan' \in [Spaces -> Records] /\ plan'[s].pages = Tail(ps) /\ plan'[s].file = plan[s].file
        /\ \A t \in Spaces \ {s} : plan'[t] = plan[t]
    BY <2>0, <2>1, <2>4, PlanStep, Zenon
  <2>7. /\ job' \in [All -> Jobs \union {NoJob}] /\ job'[s] = new
        /\ \A t \in All \ {s} : job'[t] = job[t]
    <3> HIDE DEF new
    <3> QED BY <2>0, <2>1, <2>5, Zenon DEF StateOK, All
  <2>8. new # NoJob /\ new.page = Head(ps)
    BY <2>5, NoValues, Zenon
  <2> HIDE DEF new
  <2>9. TreeOK' /\ StacksApart'
    BY <2>0, <2>1, Zenon DEF TreeOK, StacksApart
  <2>10. StateOK'
    BY <2>0, <2>1, <2>6, <2>7, Zenon DEF StateOK
  <2>11. KernelOK'
    <3>1. job'[Kernel] = job[Kernel]
      BY <2>0, <2>7, Zenon DEF All
    <3> QED BY <2>0, <2>1, <3>1, Zenon DEF KernelOK
  <2>12. ASSUME NEW t \in Spaces \ {s} PROVE SpaceOK(t)' /\ BuildOK(t)' /\ StackOK(t)'
    <3>1. Same(t) /\ KernelKeeps
      BY <2>1, <2>6, <2>7, Zenon DEF Same, KernelKeeps, All
    <3>2. phase[t] \in {"sharing", "running"} => stack[t] \subseteq heap'
      BY <2>1, Zenon DEF Shape, StackOK
    <3> QED BY <3>1, <3>2, SpaceSame, Zenon
  <2>13. SpaceOK(s)' /\ BuildOK(s)' /\ StackOK(s)'
    <3>1. SpaceOK(s) /\ BuildOK(s) /\ StackOK(s)
      BY Zenon DEF Shape
    <3>2. Pending(s)' = Pending(s)
      BY <2>3, <2>4, <2>6, <2>7, <2>8, Zenon DEF Pending
    <3>3. Asked(s)' = Asked(s) /\ Owned(s)' = Owned(s)
      BY <2>1, <2>6 DEF Asked, Owned
    <3>4. SpaceOK(s)'
      BY <2>1, <3>1, <3>3, Zenon DEF SpaceOK
    <3>5. BuildOK(s)'
      BY <2>1, <2>4, <2>6, <2>7, <2>8, <3>1, <3>2, <3>3 DEF BuildOK, ps
    <3>6. StackOK(s)'
      BY <2>1, <3>1, <3>2, Zenon DEF StackOK
    <3> QED BY <3>4, <3>5, <3>6, Zenon
  <2> QED BY <2>2, <2>9, <2>10, <2>11, <2>12, <2>13, Zenon DEF Shape
<1> QED BY <1>1, <1>2, Zenon

(* The next page init_heap maps is one of the heap's, and is not mapped    *)
(* yet.                                                                    *)
LEMMA NextHeapPage ==
  ASSUME UnmappedHeap # {}
  PROVE  LET h == HeapPages[Min(UnmappedHeap)]
         IN  h \in Range(HeapPages) /\ h \in PagePaths /\ h \notin DOMAIN tree[Kernel]
<1> DEFINE h == HeapPages[Min(UnmappedHeap)]
<1>1. UnmappedHeap \in SUBSET Nat
  BY HeapFacts DEF UnmappedHeap
<1>2. Min(UnmappedHeap) \in UnmappedHeap
  BY <1>1, MinExists, Zenon
<1>3. h \in Range(HeapPages) /\ ~Present(Kernel, h)
  BY <1>2, Zenon DEF UnmappedHeap, Range
<1> HIDE DEF h
<1>4. Home(Kernel, h) = Kernel
  BY Zenon DEF Home
<1> QED BY <1>3, <1>4, HeapPage, Zenon DEF Present, InTree, h

(* init_heap's allocation of a page's frame keeps the shape.               *)
LEMMA InitHeapPageShape == ASSUME Shape, InitHeapPage PROVE Shape'
<1> DEFINE h == HeapPages[Min(UnmappedHeap)]
           new == [page |-> h, frame |-> TopFrame]
<1>1. phase[Kernel] = "booting" /\ UnmappedHeap # {} /\ MapFreshPage(Kernel, h)
  BY Zenon DEF InitHeapPage
<1>2. CASE Exhausted
  BY <1>2, Panicking, Zenon DEF Exhausted
<1>3. CASE ~Exhausted
  <2>0. StateOK /\ AllocOK /\ TreeOK /\ KernelOK /\ StacksApart
    BY Zenon DEF Shape
  <2>1. /\ CanAllocate /\ allocate_frame /\ job[Kernel] = NoJob
        /\ job' = [job EXCEPT ![Kernel] = new] /\ plan' = plan
        /\ UNCHANGED <<l4, tree, phase, loading, stack, heap, loads, panic>>
    BY <1>1, <1>3, Zenon DEF MapFreshPage
  <2>2. AllocOK' /\ TopFrame \in UsableFrames
    BY <2>0, <2>1, Takes, Zenon
  <2>3. h \in Range(HeapPages) /\ h \in PagePaths /\ h \notin DOMAIN tree[Kernel]
    BY <1>1, NextHeapPage, Zenon
  <2> HIDE DEF h
  <2>4. new \in Jobs /\ new # NoJob /\ new.page = h
    BY <2>2, <2>3, NoValues DEF Jobs
  <2> HIDE DEF new
  <2>5. /\ job' \in [All -> Jobs \union {NoJob}] /\ job'[Kernel] = new
        /\ \A t \in All \ {Kernel} : job'[t] = job[t]
    BY <2>0, <2>1, <2>4, Zenon DEF StateOK, All
  <2>6. TreeOK' /\ StacksApart'
    BY <2>0, <2>1, Zenon DEF TreeOK, StacksApart
  <2>7. StateOK'
    BY <2>0, <2>1, <2>5, Zenon DEF StateOK
  <2>8. KernelOK'
    BY <1>1, <2>0, <2>1, <2>3, <2>4, <2>5, Zenon DEF KernelOK
  <2>9. ASSUME NEW t \in Spaces PROVE SpaceOK(t)' /\ BuildOK(t)' /\ StackOK(t)'
    <3>1. Same(t) /\ KernelKeeps
      BY <2>1, <2>5, Names, Zenon DEF Same, KernelKeeps, All
    <3>2. phase[t] \in {"sharing", "running"} => stack[t] \subseteq heap'
      BY <2>1, Zenon DEF Shape, StackOK
    <3> QED BY <3>1, <3>2, SpaceSame, Zenon
  <2> QED BY <2>2, <2>6, <2>7, <2>8, <2>9, Zenon DEF Shape
<1> QED BY <1>2, <1>3, Zenon

(* The end of init_heap keeps the shape.                                   *)
LEMMA InitHeapDoneShape == ASSUME Shape, InitHeapDone PROVE Shape'
<1>0. StateOK /\ AllocOK /\ TreeOK /\ KernelOK /\ StacksApart
  BY Zenon DEF Shape
<1>1. /\ job[Kernel] = NoJob /\ UnmappedHeap = {} /\ phase' = [phase EXCEPT ![Kernel] = "up"]
      /\ UNCHANGED <<allocVars, l4, tree, plan, loading, job, stack, heap, loads, panic>>
  BY Zenon DEF InitHeapDone
<1>2. phase'[Kernel] = "up" /\ \A t \in Spaces : phase'[t] = phase[t]
  BY <1>0, <1>1, Names, Zenon DEF StateOK, All
<1>3. AllocOK' /\ TreeOK'
  BY <1>0, <1>1, Zenon DEF AllocOK, TreeOK, allocVars
<1>4. StateOK'
  BY <1>0, <1>1, Zenon DEF StateOK, All
<1>5. StacksApart'
  BY <1>0, <1>1, <1>2, Zenon DEF StacksApart
<1>6. Range(HeapPages) \subseteq DOMAIN tree[Kernel]
  BY <1>1, HeapFacts, Zenon DEF UnmappedHeap, Present, InTree, Home, Range
<1>7. KernelOK'
  BY <1>0, <1>1, <1>2, <1>6, Zenon DEF KernelOK
<1>8. ASSUME NEW t \in Spaces PROVE SpaceOK(t)' /\ BuildOK(t)' /\ StackOK(t)'
  <2>1. Same(t) /\ KernelKeeps
    BY <1>1, <1>2, Zenon DEF Same, KernelKeeps
  <2>2. phase[t] \in {"sharing", "running"} => stack[t] \subseteq heap'
    BY <1>1, Zenon DEF Shape, StackOK
  <2> QED BY <2>1, <2>2, SpaceSame, Zenon
<1> QED BY <1>3, <1>4, <1>5, <1>7, <1>8, Zenon DEF Shape

(* The next entry map_to writes for a job: in the space's own tables or    *)
(* in the kernel's, where it lies below a shared entry or is the heap's.   *)
InOwnTables(s, p) ==
  /\ s \in Spaces /\ Home(s, p) = s /\ p[1] \notin SharedIndices
  /\ \A m \in 1 .. Len(p) - 1 : SubSeq(p, 1, m) \in DOMAIN tree[s]
InKernelTables(s, p) ==
  /\ Home(s, p) = Kernel
  /\ p[1] \in SharedIndices \/ \E h \in Range(HeapPages) : IsPrefix(p, h)

(* Who is mapping a page: init_heap, or a space that is being built.       *)
LEMMA Working ==
  ASSUME Shape, NEW s \in All, job[s] # NoJob
  PROVE  /\ job[s].page \in PagePaths /\ job[s].frame \in UsableFrames
         /\ s = Kernel => /\ phase[Kernel] = "booting" /\ job[s].page \in Range(HeapPages)
                          /\ job[s].page \notin DOMAIN tree[Kernel]
         /\ s \in Spaces => phase[s] \in {"loading", "sharing"} /\ phase[Kernel] = "up"
<1>1. job[s] \in Jobs
  BY Zenon DEF Shape, StateOK
<1>2. job[s].page \in PagePaths /\ job[s].frame \in UsableFrames
  BY <1>1, Zenon DEF Jobs
<1>3. s = Kernel => /\ phase[Kernel] = "booting" /\ job[s].page \in Range(HeapPages)
                    /\ job[s].page \notin DOMAIN tree[Kernel]
  BY Zenon DEF Shape, KernelOK
<1>4. s \in Spaces => phase[s] \in {"loading", "sharing"}
  BY Zenon DEF Shape, SpaceOK
<1>5. s \in Spaces => phase[Kernel] = "up"
  BY <1>4, Zenon DEF Shape, KernelOK
<1> QED BY <1>2, <1>3, <1>4, <1>5, Zenon

(* The next entry that map_to writes is in a table that is there, of the   *)
(* space itself or of the kernel.                                          *)
LEMMA NextEntry ==
  ASSUME Shape, NEW s \in All, job[s] # NoJob, NEW n \in 1 .. Levels,
         ~Present(s, SubSeq(job[s].page, 1, n)),
         \A m \in 1 .. n - 1 : Present(s, SubSeq(job[s].page, 1, m))
  PROVE  LET p == SubSeq(job[s].page, 1, n)
         IN  p \in Paths /\ Len(p) = n /\ (InOwnTables(s, p) \/ InKernelTables(s, p))
<1> DEFINE j == job[s].page
           p == SubSeq(j, 1, n)
<1>1. /\ j \in PagePaths /\ j \in Paths /\ Len(j) = Levels /\ n \in Nat /\ n >= 1 /\ Levels \in Nat
      /\ j \in Seq(Indices)
  BY Working, Sizes DEF PagePaths, Paths
<1>2. ~Present(s, p) /\ \A m \in 1 .. n - 1 : Present(s, SubSeq(j, 1, m))
  BY Zenon
<1>3. s = Kernel => j \in Range(HeapPages)
  BY Working, Zenon
<1> HIDE DEF j
<1>4. /\ p \in Paths /\ Len(p) = n /\ \A i \in 1 .. n : p[i] = j[i]
      /\ \A m \in 1 .. n - 1 : SubSeq(p, 1, m) = SubSeq(j, 1, m)
      /\ \A m \in 1 .. n - 1 : SubSeq(j, 1, m) \in Paths /\ SubSeq(j, 1, m)[1] = j[1]
  <2>1. n \in 1 .. Len(j)
    BY <1>1, Zenon
  <2>2. p \in Paths /\ Len(p) = n /\ \A i \in 1 .. n : p[i] = j[i]
    BY <1>1, <2>1, PathOfTable, Zenon
  <2>3. ASSUME NEW m \in 1 .. n - 1
        PROVE  SubSeq(p, 1, m) = SubSeq(j, 1, m) /\ SubSeq(j, 1, m) \in Paths /\ SubSeq(j, 1, m)[1] = j[1]
    <3>1. m \in 1 .. n /\ m \in 1 .. Len(j) /\ 1 \in 1 .. m
      BY <1>1
    <3> QED BY <1>1, <2>1, <3>1, PathOfTable, PathOfTableOfTable, Zenon
  <2> QED BY <2>2, <2>3, Zenon
<1>5. p[1] = j[1]
  <2>1. 1 \in 1 .. n
    BY <1>1
  <2> QED BY <1>4, <2>1, Zenon
<1> HIDE DEF p
<1>6. CASE s = Kernel
  <2>1. IsPrefix(p, j)
    BY <1>1, <1>4, PrefixIs
  <2>2. Home(s, p) = Kernel
    BY <1>6, Zenon DEF Home
  <2> QED BY <1>3, <1>4, <1>6, <2>1, <2>2, Zenon DEF InKernelTables, p, j
<1>7. CASE s \in Spaces /\ p[1] \in SharedIndices
  <2>1. phase[s] # "none"
    BY <1>7, Working, Zenon
  <2>2. <<p[1]>> \in DOMAIN tree[s]
    BY <1>7, <2>1, Zenon DEF Shape, SpaceOK
  <2>3. Len(p) # 1
    <3> SUFFICES ASSUME Len(p) = 1 PROVE FALSE
      BY Zenon
    <3>1. p \in Seq(Indices)
      BY <1>4, PathFacts, Zenon
    <3>2. p = <<p[1]>>
      BY <3>1
    <3>3. Home(s, p) = s
      BY DEF Home
    <3> QED BY <1>2, <2>2, <3>2, <3>3, Zenon DEF Present, InTree, p
  <2>4. Home(s, p) = Kernel
    BY <1>1, <1>4, <1>7, <2>3 DEF Home
  <2> QED BY <1>4, <1>7, <2>4, Zenon DEF InKernelTables, p, j
<1>8. CASE s \in Spaces /\ p[1] \notin SharedIndices
  <2>1. Home(s, p) = s
    BY <1>8, Zenon DEF Home
  <2>2. ASSUME NEW m \in 1 .. n - 1 PROVE SubSeq(p, 1, m) \in DOMAIN tree[s]
    <3>1. Present(s, SubSeq(j, 1, m)) /\ SubSeq(j, 1, m)[1] = p[1] /\ SubSeq(p, 1, m) = SubSeq(j, 1, m)
      BY <1>2, <1>4, <1>5, Zenon
    <3>2. Home(s, SubSeq(j, 1, m)) = s
      BY <1>8, <3>1, Zenon DEF Home
    <3> QED BY <1>8, <3>1, <3>2, Names, Zenon DEF Present, InTree
  <2> QED BY <1>4, <1>8, <2>1, <2>2, Zenon DEF InOwnTables, p, j
<1> QED BY <1>6, <1>7, <1>8, Zenon DEF All

(* The kernel's tables stay in shape if they gain entries for the heap or  *)
(* below the shared ones.                                                  *)
LEMMA KernelGains ==
  ASSUME Shape, KernelKeeps, UNCHANGED phase, job'[Kernel] \in {job[Kernel], NoJob},
         \A p \in DOMAIN tree'[Kernel] \ DOMAIN tree[Kernel] :
           /\ tree'[Kernel][p] \in UsableFrames
           /\ p[1] \in SharedIndices \/ \E h \in Range(HeapPages) : IsPrefix(p, h)
           /\ job'[Kernel] # NoJob => p # job'[Kernel].page
  PROVE  KernelOK'
<1>1. KernelOK
  BY Zenon DEF Shape
<1>2. DOMAIN BootTables \subseteq DOMAIN tree'[Kernel]
  BY <1>1, Zenon DEF KernelOK, KernelKeeps
<1>3. ASSUME NEW p \in DOMAIN tree'[Kernel]
      PROVE  IF p \in DOMAIN BootTables THEN tree'[Kernel][p] = BootTables[p]
             ELSE /\ tree'[Kernel][p] \in UsableFrames
                  /\ p[1] \in SharedIndices \/ \E h \in Range(HeapPages) : IsPrefix(p, h)
  <2>1. CASE p \in DOMAIN tree[Kernel]
    BY <1>1, <2>1, Zenon DEF KernelOK, KernelKeeps
  <2>2. CASE p \notin DOMAIN tree[Kernel]
    BY <1>1, <2>2, Zenon DEF KernelOK
  <2> QED BY <2>1, <2>2, Zenon
<1>4. phase[Kernel] = "booting" /\ job'[Kernel] # NoJob =>
        job'[Kernel].page \in Range(HeapPages) /\ job'[Kernel].page \notin DOMAIN tree'[Kernel]
  BY <1>1, Zenon DEF KernelOK
<1>5. phase[Kernel] = "up" => job'[Kernel] = NoJob /\ Range(HeapPages) \subseteq DOMAIN tree'[Kernel]
  BY <1>1, Zenon DEF KernelOK, KernelKeeps
<1> QED BY <1>1, <1>2, <1>3, <1>4, <1>5, Zenon DEF KernelOK

(* A space stays in shape if it gains an entry in a table that is there.   *)
LEMMA SpaceGains ==
  ASSUME Shape, NEW s \in Spaces, NEW p \in Paths, p \notin DOMAIN tree[s], InOwnTables(s, p),
         phase[s] \in {"loading", "sharing"},
         DOMAIN tree'[s] = DOMAIN tree[s] \union {p}, tree'[s][p] \in UsableFrames,
         \A q \in DOMAIN tree[s] : tree'[s][q] = tree[s][q],
         l4'[s] = l4[s], phase'[s] = phase[s], stack'[s] = stack[s]
  PROVE  SpaceOK(s)'
<1>1. SpaceOK(s)
  BY Zenon DEF Shape
<1>2. ASSUME NEW q \in Owned(s)'
      PROVE  tree'[s][q] \in UsableFrames /\ \A n \in 1 .. Len(q) - 1 : SubSeq(q, 1, n) \in DOMAIN tree'[s]
  <2>1. CASE q = p
    BY <2>1, Zenon DEF InOwnTables
  <2>2. CASE q # p
    <3>1. q \in Owned(s)
      BY <2>2, Zenon DEF Owned
    <3>2. q \in DOMAIN tree[s]
      BY <3>1, Zenon DEF Owned
    <3> QED BY <1>1, <3>1, <3>2, Zenon DEF SpaceOK
  <2> QED BY <2>1, <2>2, Zenon
<1>3. \A q \in DOMAIN tree'[s] : q[1] \in SharedIndices => Len(q) = 1
  BY <1>1, Zenon DEF SpaceOK, InOwnTables
<1> QED BY <1>1, <1>2, <1>3, Zenon DEF SpaceOK

\* A path that stops at a table is no page's path: a page's path has an index for
\* every level of the tables that map_to walks.
LEMMA ShorterPath ==
  ASSUME NEW p, NEW q \in PagePaths, Len(p) < Levels
  PROVE  p # q
<1>1. Len(q) = Levels /\ Levels \in Nat
  BY Sizes, Zenon DEF PagePaths
<1> QED BY <1>1

(* map_to writes an entry: the job is still there after a table, and done  *)
(* with after the page.                                                    *)
LEMMA EntryShape ==
  ASSUME Shape, NEW s \in All, job[s] # NoJob, NEW p \in Paths, NEW f \in UsableFrames,
         ~Present(s, p), InOwnTables(s, p) \/ InKernelTables(s, p),
         tree' = WithEntry(s, p, f), AllocOK',
         UNCHANGED <<l4, phase, plan, stack, heap, panic>>,
         \/ job' = job /\ Len(p) < Levels
         \/ job' = [job EXCEPT ![s] = NoJob] /\ p = job[s].page /\ f = job[s].frame
  PROVE  Shape'
<1> DEFINE h == Home(s, p)
<1>0. StateOK /\ TreeOK /\ KernelOK /\ StacksApart
  BY Zenon DEF Shape
<1>1. /\ h \in All /\ TreeOK' /\ p \notin DOMAIN tree[h]
      /\ DOMAIN tree'[h] = DOMAIN tree[h] \union {p} /\ tree'[h][p] = f
      /\ \A q \in DOMAIN tree[h] : tree'[h][q] = tree[h][q]
      /\ \A t \in All \ {h} : tree'[t] = tree[t]
      /\ KernelKeeps
  BY <1>0, NewEntry, Zenon
<1>2. h \in {s, Kernel}
  BY Zenon DEF Home
<1>3. /\ job[s].page \in PagePaths /\ job[s].frame \in UsableFrames
      /\ s = Kernel => /\ phase[Kernel] = "booting" /\ job[s].page \in Range(HeapPages)
                       /\ job[s].page \notin DOMAIN tree[Kernel]
      /\ s \in Spaces => phase[s] \in {"loading", "sharing"} /\ phase[Kernel] = "up"
  BY Working, Zenon
<1>4. \A q \in PagePaths : Len(q) = Levels
  BY Zenon DEF PagePaths
<1>5. /\ job' \in [All -> Jobs \union {NoJob}]
      /\ \A t \in All \ {s} : job'[t] = job[t]
      /\ \/ job'[s] = job[s] /\ Len(p) < Levels
         \/ job'[s] = NoJob /\ p = job[s].page /\ f = job[s].frame
  BY <1>0, Zenon DEF StateOK
<1>6. StateOK'
  BY <1>0, <1>5, Zenon DEF StateOK
<1>7. StacksApart'
  BY <1>0, Zenon DEF StacksApart
<1> HIDE DEF h
<1>8. KernelOK'
  <2>1. job'[Kernel] \in {job[Kernel], NoJob}
    BY <1>5, Zenon DEF All
  <2>2. ASSUME NEW q \in DOMAIN tree'[Kernel] \ DOMAIN tree[Kernel]
        PROVE  /\ tree'[Kernel][q] \in UsableFrames
               /\ q[1] \in SharedIndices \/ \E g \in Range(HeapPages) : IsPrefix(q, g)
               /\ job'[Kernel] # NoJob => q # job'[Kernel].page
    <3>1. h = Kernel /\ q = p
      BY <1>1, Zenon DEF All
    <3>2. InKernelTables(s, p)
      BY <3>1, Names, Zenon DEF InOwnTables, h
    <3>3. job'[Kernel] # NoJob => p # job'[Kernel].page
      <4>1. CASE s = Kernel
        <5>2. CASE job'[s] = job[s] /\ Len(p) < Levels
          BY <1>3, <4>1, <5>2, ShorterPath, Zenon
        <5>3. CASE job'[s] = NoJob
          BY <4>1, <5>3, Zenon
        <5> QED BY <1>5, <5>2, <5>3, Zenon
      <4>2. CASE s # Kernel
        <5>1. job[Kernel] = NoJob
          BY <1>0, <1>3, <4>2, Zenon DEF KernelOK, All
        <5> QED BY <2>1, <5>1, Zenon
      <4> QED BY <4>1, <4>2, Zenon
    <3> QED BY <1>1, <3>1, <3>2, <3>3, Zenon DEF InKernelTables
  <2> QED BY <1>1, <2>1, <2>2, KernelGains, Zenon
<1>9. ASSUME NEW t \in Spaces, t # s PROVE SpaceOK(t)' /\ BuildOK(t)' /\ StackOK(t)'
  <2>1. tree'[t] = tree[t] /\ job'[t] = job[t]
    BY <1>1, <1>2, <1>5, <1>9, Names, Zenon DEF All
  <2>2. Same(t)
    BY <2>1, Zenon DEF Same
  <2>3. phase[t] \in {"sharing", "running"} => stack[t] \subseteq heap'
    BY Zenon DEF Shape, StackOK
  <2> QED BY <1>1, <2>2, <2>3, SpaceSame, Zenon
<1>10. ASSUME s \in Spaces PROVE SpaceOK(s)' /\ BuildOK(s)' /\ StackOK(s)'
  <2>0. SpaceOK(s) /\ BuildOK(s) /\ StackOK(s) /\ s # Kernel /\ stack[s] \subseteq Range(HeapPages)
    BY <1>0, <1>10, Names, Zenon DEF Shape, StateOK
  <2>1. /\ Pending(s) = Range(plan[s].pages) \union {job[s].page}
        /\ Pending(s) \subseteq PagePaths /\ Range(plan[s].pages) \subseteq PagePaths
    <3>1. plan[s].pages \in Seq(PagePaths) /\ Pending(s) = Range(plan[s].pages) \union {job[s].page}
      BY <1>0, <1>10, PendingStep, Zenon
    <3>2. Range(plan[s].pages) \subseteq PagePaths
      BY <3>1 DEF Range
    <3> QED BY <1>3, <3>1, <3>2, Zenon
  <2>2. Asked(s)' = Asked(s)
    BY Zenon DEF Asked
  <2>3. \A q \in stack[s] : q \in PagePaths /\ q[1] \notin SharedIndices /\ tree'[Kernel][q] = tree[Kernel][q]
    <3> SUFFICES ASSUME NEW q \in stack[s]
                 PROVE  q \in PagePaths /\ q[1] \notin SharedIndices /\ tree'[Kernel][q] = tree[Kernel][q]
      BY Zenon
    <3>1. q \in Range(HeapPages) /\ phase[s] # "none"
      BY <1>3, <1>10, <2>0, Zenon
    <3> QED BY <1>1, <1>10, <3>1, HeapPage, StackPage, Zenon DEF KernelKeeps
  <2>4. CASE h = s
    <3>1. InOwnTables(s, p)
      BY <2>0, <2>4, Zenon DEF InKernelTables, h
    <3>2. SpaceOK(s)'
      BY <1>1, <1>3, <1>10, <2>4, <3>1, SpaceGains, Zenon
    <3>3. CASE job'[s] = job[s] /\ Len(p) < Levels
      <4>1. Pending(s)' = Pending(s)
        BY <3>3, Zenon DEF Pending
      <4>2. p \notin PagePaths
        BY <1>4, <3>3, Sizes
      <4>3. \A q \in PagePaths : q \in DOMAIN tree'[s] <=> q \in DOMAIN tree[s]
        BY <1>1, <2>4, <4>2, Zenon
      <4>4. \A q \in DOMAIN tree'[s] : Len(q) = Levels => q \in DOMAIN tree[s]
        BY <1>1, <2>4, <3>3, Sizes
      <4>5. BuildOK(s)'
        <5>1. phase[s] = "sharing" => tree'[Kernel][job[s].page] = tree[Kernel][job[s].page]
          BY <2>0, <2>1, <2>3, Zenon DEF BuildOK
        <5>2. phase[s] = "loading" =>
                /\ Pending(s)' \subseteq Asked(s)'
                /\ \A q \in DOMAIN tree'[s] : Len(q) = Levels => q \in Asked(s)'
                /\ plan[s].file = NoFile => Pending(s)' \intersect DOMAIN tree'[s] = {}
          <6> SUFFICES ASSUME phase[s] = "loading"
                       PROVE  /\ Pending(s)' \subseteq Asked(s)'
                              /\ \A q \in DOMAIN tree'[s] : Len(q) = Levels => q \in Asked(s)'
                              /\ plan[s].file = NoFile => Pending(s)' \intersect DOMAIN tree'[s] = {}
            BY Zenon
          <6>1. /\ Pending(s) \subseteq Asked(s)
                /\ \A q \in DOMAIN tree[s] : Len(q) = Levels => q \in Asked(s)
                /\ plan[s].file = NoFile => Pending(s) \intersect DOMAIN tree[s] = {}
            BY <2>0, Zenon DEF BuildOK
          <6>2. plan[s].file = NoFile => Pending(s) \intersect DOMAIN tree'[s] = {}
            BY <2>1, <4>3, <6>1, Zenon
          <6> QED BY <2>2, <4>1, <4>4, <6>1, <6>2, Zenon
        <5>3. phase[s] = "sharing" =>
                /\ Pending(s)' \subseteq stack[s]
                /\ \A q \in DOMAIN tree'[s] : Len(q) = Levels =>
                     q \in Asked(s)' \/ q \in stack[s] \ Pending(s)'
                /\ job'[s] # NoJob => job'[s].frame = tree'[Kernel][job'[s].page]
          BY <2>0, <2>2, <3>3, <4>1, <4>4, <5>1, Zenon DEF BuildOK
        <5> QED BY <2>0, <3>3, <5>2, <5>3, Zenon DEF BuildOK
      <4>6. StackOK(s)'
        BY <1>1, <1>3, <2>0, <2>3, <2>4, <4>1, <4>3 DEF StackOK
      <4> QED BY <3>2, <4>5, <4>6, Zenon
    <3>4. CASE job'[s] = NoJob /\ p = job[s].page /\ f = job[s].frame
      <4>1. Pending(s)' = Range(plan[s].pages)
        BY <3>4, Zenon DEF Pending
      <4>2. BuildOK(s)'
        <5>1. phase[s] = "loading" =>
                /\ Pending(s)' \subseteq Asked(s)'
                /\ \A q \in DOMAIN tree'[s] : Len(q) = Levels => q \in Asked(s)'
                /\ plan[s].file = NoFile => Pending(s)' \intersect DOMAIN tree'[s] = {}
          <6> SUFFICES ASSUME phase[s] = "loading"
                       PROVE  /\ Pending(s)' \subseteq Asked(s)'
                              /\ \A q \in DOMAIN tree'[s] : Len(q) = Levels => q \in Asked(s)'
                              /\ plan[s].file = NoFile => Pending(s)' \intersect DOMAIN tree'[s] = {}
            BY Zenon
          <6>1. p \in Asked(s) /\ Range(plan[s].pages) \subseteq Asked(s)
            BY <2>0, <2>1, <3>4, Zenon DEF BuildOK
          <6>2. \A q \in DOMAIN tree'[s] : Len(q) = Levels => q \in Asked(s)'
            BY <1>1, <2>0, <2>2, <2>4, <6>1, Zenon DEF BuildOK
          <6>3. ASSUME plan[s].file = NoFile, NEW q \in Range(plan[s].pages) PROVE q \notin DOMAIN tree'[s]
            <7>1. q # p /\ q \notin DOMAIN tree[s]
              BY <2>0, <2>1, <3>4, <6>3, Zenon DEF BuildOK
            <7> QED BY <1>1, <2>4, <7>1, Zenon
          <6> QED BY <2>2, <4>1, <6>1, <6>2, <6>3, Zenon
        <5>2. phase[s] = "sharing" =>
                /\ Pending(s)' \subseteq stack[s]
                /\ \A q \in DOMAIN tree'[s] : Len(q) = Levels =>
                     q \in Asked(s)' \/ q \in stack[s] \ Pending(s)'
          <6> SUFFICES ASSUME phase[s] = "sharing"
                       PROVE  /\ Pending(s)' \subseteq stack[s]
                              /\ \A q \in DOMAIN tree'[s] : Len(q) = Levels =>
                                   q \in Asked(s)' \/ q \in stack[s] \ Pending(s)'
            BY Zenon
          <6>1. /\ Pending(s) \subseteq stack[s]
                /\ \A q \in DOMAIN tree[s] : Len(q) = Levels => q \in Asked(s) \/ q \in stack[s] \ Pending(s)
                /\ p \notin Range(plan[s].pages)
            BY <2>0, <2>1, <3>4, Zenon DEF BuildOK
          <6>2. Pending(s) = Pending(s)' \union {p}
            BY <2>1, <3>4, <4>1, Zenon
          <6>3. p \in stack[s] \ Pending(s)'
            BY <4>1, <6>1, <6>2, Zenon
          <6>4. \A q \in DOMAIN tree'[s] : q \in DOMAIN tree[s] \/ q = p
            BY <1>1, <2>4, Zenon
          <6> QED BY <2>2, <6>1, <6>2, <6>3, <6>4, Zenon
        <5> QED BY <2>0, <3>4, <5>1, <5>2, Zenon DEF BuildOK
      <4>3. StackOK(s)'
        <5>1. ASSUME phase[s] = "sharing", NEW q \in stack[s] \ Pending(s)'
              PROVE  q \in DOMAIN tree'[s] /\ tree'[s][q] = tree'[Kernel][q]
          <6>1. CASE q = p
            BY <1>1, <2>0, <2>3, <2>4, <3>4, <5>1, <6>1, Zenon DEF BuildOK
          <6>2. CASE q # p
            BY <1>1, <2>0, <2>1, <2>3, <2>4, <3>4, <4>1, <5>1, <6>2 DEF StackOK
          <6> QED BY <6>1, <6>2, Zenon
        <5> QED BY <1>3, <1>10, <2>0, <5>1, Zenon DEF StackOK
      <4> QED BY <3>2, <4>2, <4>3, Zenon
    <3> QED BY <1>5, <3>3, <3>4, Zenon
  <2>5. CASE h # s
    <3>1. h = Kernel /\ tree'[s] = tree[s] /\ p[1] \in SharedIndices
      BY <1>1, <1>2, <2>5, Zenon DEF h, Home
    <3>2. CASE job'[s] = job[s]
      <4>1. Same(s)
        BY <3>1, <3>2, Zenon DEF Same
      <4>2. phase[s] \in {"sharing", "running"} => stack[s] \subseteq heap'
        BY <2>0, Zenon DEF StackOK
      <4> QED BY <1>1, <1>10, <4>1, <4>2, SpaceSame, Zenon
    <3>3. CASE job'[s] = NoJob /\ p = job[s].page
      <4>1. phase[s] = "loading"
        BY <1>3, <1>10, <2>0, <2>1, <2>3, <3>1, <3>3, Zenon DEF BuildOK
      <4>2. Pending(s)' = Range(plan[s].pages) /\ Owned(s)' = Owned(s)
        BY <3>1, <3>3, Zenon DEF Pending, Owned
      <4>3. SpaceOK(s)'
        BY <2>0, <3>1, <3>3, <4>2, Zenon DEF SpaceOK
      <4>4. BuildOK(s)'
        <5>1. /\ Pending(s)' \subseteq Asked(s)'
              /\ \A q \in DOMAIN tree'[s] : Len(q) = Levels => q \in Asked(s)'
              /\ plan[s].file = NoFile => Pending(s)' \intersect DOMAIN tree'[s] = {}
          <6>1. Pending(s)' \subseteq Pending(s)
            BY <2>1, <4>2, Zenon
          <6> QED BY <2>0, <2>2, <3>1, <4>1, <6>1, Zenon DEF BuildOK
        <5>2. phase'[s] = "loading"
          BY <4>1, Zenon
        <5> QED BY <2>0, <3>3, <5>1, <5>2, Zenon DEF BuildOK
      <4>5. StackOK(s)'
        BY <4>1, Zenon DEF StackOK
      <4> QED BY <4>3, <4>4, <4>5, Zenon
    <3> QED BY <1>5, <3>2, <3>3, Zenon
  <2> QED BY <2>4, <2>5, Zenon
<1> QED BY <1>1, <1>6, <1>7, <1>8, <1>9, <1>10, Zenon DEF Shape

(* What map_to writes: a table, and then the page.                         *)
LEMMA MapTableWrites ==
  ASSUME Shape, NEW s \in All, MapTable(s), ~Exhausted
  PROVE  \E p \in Paths :
           /\ Len(p) < Levels /\ ~Present(s, p) /\ (InOwnTables(s, p) \/ InKernelTables(s, p))
           /\ tree' = WithEntry(s, p, TopFrame) /\ CanAllocate /\ allocate_frame
           /\ job[s] # NoJob /\ AllocOK' /\ TopFrame \in UsableFrames
           /\ UNCHANGED <<l4, phase, plan, job, stack, heap, panic>>
<1> DEFINE j == job[s].page
           M == MissingTables(s, j)
           n == Min(M)
           p == SubSeq(j, 1, n)
<1>1. /\ job[s] # NoJob /\ M # {} /\ CanAllocate /\ allocate_frame
      /\ tree' = WithEntry(s, p, TopFrame)
      /\ UNCHANGED <<l4, phase, plan, loading, job, stack, heap, loads, panic>>
  BY Zenon DEF MapTable
<1>2. AllocOK' /\ TopFrame \in UsableFrames
  BY <1>1, Takes, Zenon DEF Shape
<1>3. M \in SUBSET Nat
  BY DEF MissingTables
<1>4. n \in M /\ \A x \in M : n <= x
  <2> HIDE DEF M
  <2> QED BY <1>1, <1>3, MinExists, Zenon
<1> HIDE DEF n
<1>5. n \in 1 .. Levels - 1 /\ ~Present(s, p)
  BY <1>4, Zenon DEF MissingTables
<1>6. n \in 1 .. Levels /\ n < Levels
  BY <1>5, Sizes
<1>7. ASSUME NEW m \in 1 .. n - 1 PROVE Present(s, SubSeq(j, 1, m))
  <2>1. m \in 1 .. Levels - 1 /\ ~(n <= m)
    BY <1>5, Sizes
  <2> QED BY <1>4, <2>1, Zenon DEF MissingTables
<1>8. p \in Paths /\ Len(p) = n /\ (InOwnTables(s, p) \/ InKernelTables(s, p))
  BY <1>1, <1>5, <1>6, <1>7, NextEntry, Zenon
<1> HIDE DEF p
<1> QED BY <1>1, <1>2, <1>5, <1>6, <1>8, Zenon

(* What map_to's last step writes.                                         *)
LEMMA MapLeafWrites ==
  ASSUME Shape, NEW s \in All, MapLeaf(s), ~Present(s, job[s].page)
  PROVE  LET p == job[s].page
             f == job[s].frame
         IN  /\ p \in Paths /\ Len(p) = Levels /\ (InOwnTables(s, p) \/ InKernelTables(s, p))
             /\ f \in UsableFrames /\ tree' = WithEntry(s, p, f) /\ AllocOK'
             /\ job[s] # NoJob /\ job' = [job EXCEPT ![s] = NoJob]
             /\ UNCHANGED <<allocVars, l4, phase, plan, stack, heap, panic>>
<1> DEFINE p == job[s].page
           f == job[s].frame
<1>1. /\ job[s] # NoJob /\ MissingTables(s, p) = {}
      /\ tree' = WithEntry(s, p, f) /\ job' = [job EXCEPT ![s] = NoJob]
      /\ UNCHANGED <<allocVars, l4, phase, plan, loading, stack, heap, loads, panic>>
  BY Zenon DEF MapLeaf
<1>2. p \in PagePaths /\ f \in UsableFrames
  BY <1>1, Working, Zenon
<1>3. p \in Seq(Indices) /\ Len(p) = Levels /\ Levels \in 1 .. Levels
  BY <1>2, Sizes DEF PagePaths
<1>4. SubSeq(p, 1, Levels) = p
  <2> HIDE DEF p
  <2> QED BY <1>3
<1>5. \A m \in 1 .. Levels - 1 : Present(s, SubSeq(p, 1, m))
  BY <1>1, Zenon DEF MissingTables
<1>6. p \in Paths /\ (InOwnTables(s, p) \/ InKernelTables(s, p))
  BY <1>1, <1>3, <1>4, <1>5, NextEntry, Zenon
<1>7. AllocOK'
  BY <1>1, Zenon DEF Shape, AllocOK, allocVars
<1> QED BY <1>1, <1>2, <1>3, <1>6, <1>7, Zenon

(* map_to's making of a table keeps the shape.                             *)
LEMMA MapTableShape == ASSUME Shape, NEW s \in All, MapTable(s) PROVE Shape'
<1>1. CASE Exhausted
  BY <1>1, Panicking, Zenon DEF Exhausted
<1>2. CASE ~Exhausted
  <2>1. PICK p \in Paths :
          /\ Len(p) < Levels /\ ~Present(s, p) /\ (InOwnTables(s, p) \/ InKernelTables(s, p))
          /\ tree' = WithEntry(s, p, TopFrame) /\ job[s] # NoJob /\ AllocOK'
          /\ TopFrame \in UsableFrames /\ UNCHANGED <<l4, phase, plan, job, stack, heap, panic>>
    BY <1>2, MapTableWrites, Zenon
  <2> QED BY <2>1, EntryShape, Zenon
<1> QED BY <1>1, <1>2, Zenon

(* map_to's last step keeps the shape.                                     *)
LEMMA MapLeafShape == ASSUME Shape, NEW s \in All, MapLeaf(s) PROVE Shape'
<1>1. CASE Present(s, job[s].page)
  BY <1>1, Panicking, Zenon DEF MapLeaf
<1>2. CASE ~Present(s, job[s].page)
  BY <1>2, MapLeafWrites, EntryShape, Zenon
<1> QED BY <1>1, <1>2, Zenon

(* A step of a space that leaves the kernel's tables alone.                *)
LEMMA OneSpace ==
  ASSUME Shape, NEW s \in Spaces, phase[Kernel] = "up",
         AllocOK', TreeOK', StateOK', StacksApart',
         tree'[Kernel] = tree[Kernel], job'[Kernel] = job[Kernel], phase'[Kernel] = phase[Kernel],
         \A t \in Spaces \ {s} :
           Same(t) /\ (phase[t] \in {"sharing", "running"} => stack[t] \subseteq heap'),
         SpaceOK(s)', BuildOK(s)', StackOK(s)'
  PROVE  Shape'
<1>1. KernelOK'
  BY Zenon DEF Shape, KernelOK
<1>2. KernelKeeps
  BY Zenon DEF KernelKeeps
<1>3. ASSUME NEW t \in Spaces, t # s PROVE SpaceOK(t)' /\ BuildOK(t)' /\ StackOK(t)'
  BY <1>2, <1>3, SpaceSame, Zenon
<1> QED BY <1>1, <1>3, Zenon DEF Shape

(* A load that fails, and goes on to free what it has, keeps the shape.    *)
LEMMA LoadFailsShape == ASSUME Shape, NEW s \in Spaces, LoadFails(s) PROVE Shape'
<1>0. /\ StateOK /\ AllocOK /\ TreeOK /\ KernelOK /\ StacksApart /\ Kernel # s
      /\ SpaceOK(s) /\ s \in All /\ Kernel \in All
  BY Names, Zenon DEF Shape, All
<1>1. /\ phase[s] = "loading" /\ job[s] = NoJob /\ phase' = [phase EXCEPT ![s] = "freeing"]
      /\ UNCHANGED <<allocVars, l4, tree, plan, loading, job, stack, heap, loads, panic>>
  BY Zenon DEF LoadFails
<1>2. phase[Kernel] = "up" /\ stack[s] = {}
  BY <1>0, <1>1, Zenon DEF KernelOK, SpaceOK
<1>3. /\ phase' \in [All -> SpacePhases \union {"booting", "up"}] /\ phase'[s] = "freeing"
      /\ \A t \in All \ {s} : phase'[t] = phase[t]
  BY <1>0, <1>1, Zenon DEF StateOK, SpacePhases
<1>4. AllocOK' /\ TreeOK' /\ StateOK'
  BY <1>0, <1>1, <1>3, Zenon DEF AllocOK, TreeOK, StateOK, allocVars
<1>5. \A t \in Spaces : t # s => phase'[t] = phase[t]
  BY <1>3, Zenon DEF All
<1>6. StacksApart'
  BY <1>0, <1>1, <1>3, <1>5, Zenon DEF StacksApart
<1>7. \A t \in Spaces \ {s} :
        Same(t) /\ (phase[t] \in {"sharing", "running"} => stack[t] \subseteq heap')
  BY <1>1, <1>5, Zenon DEF Same, Shape, StackOK
<1>8. SpaceOK(s)'
  <2>1. Owned(s)' = Owned(s) /\ phase'[s] \in SpacePhases
    BY <1>1, <1>3, Zenon DEF Owned, SpacePhases
  <2> QED BY <1>0, <1>1, <1>3, <2>1, Zenon DEF SpaceOK
<1>9. BuildOK(s)' /\ StackOK(s)'
  BY <1>1, <1>2, <1>3, Zenon DEF BuildOK, StackOK
<1>10. tree'[Kernel] = tree[Kernel] /\ job'[Kernel] = job[Kernel] /\ phase'[Kernel] = phase[Kernel]
  BY <1>0, <1>1, <1>3, Zenon
<1> QED BY <1>2, <1>4, <1>6, <1>7, <1>8, <1>9, <1>10, OneSpace, Zenon

(* The stack the heap gives.                                               *)
LEMMA StackAtIs ==
  ASSUME NEW b \in 1 .. Len(HeapPages) - StackPages + 1
  PROVE  /\ StackAt(b) \in Seq(PagePaths) /\ Range(StackAt(b)) \subseteq Range(HeapPages)
         /\ IsInjective(StackAt(b))
<1> DEFINE n == b + StackPages - 1
           q == StackAt(b)
<1>1. /\ HeapPages \in Seq(PagePaths) /\ Len(HeapPages) \in Nat /\ StackPages \in Nat /\ StackPages >= 1
      /\ DOMAIN HeapPages = 1 .. Len(HeapPages)
      /\ \A i, j \in 1 .. Len(HeapPages) : HeapPages[i] = HeapPages[j] => i = j
  BY HeapFacts
<1>2. b \in Int /\ n \in Int /\ b >= 1 /\ n <= Len(HeapPages)
  BY <1>1
<1>3. \A i \in b .. n : i \in 1 .. Len(HeapPages)
  BY <1>1, <1>2
<1>4. \A i \in b .. n : HeapPages[i] \in PagePaths
  BY <1>1, <1>3
<1>5. q = SubSeq(HeapPages, b, n)
  BY Zenon DEF StackAt
<1> HIDE DEF n
<1>6. /\ SubSeq(HeapPages, b, n) \in Seq(PagePaths)
      /\ Len(SubSeq(HeapPages, b, n)) = IF b <= n THEN n - b + 1 ELSE 0
      /\ \A i \in 1 .. n - b + 1 : SubSeq(HeapPages, b, n)[i] = HeapPages[b + i - 1]
  BY <1>2, <1>4
<1>7. q \in Seq(PagePaths) /\ DOMAIN q = 1 .. Len(q)
  BY <1>5, <1>6
<1> HIDE DEF q
<1>8. ASSUME NEW i \in DOMAIN q PROVE q[i] = HeapPages[b + i - 1] /\ b + i - 1 \in 1 .. Len(HeapPages) /\ i \in Int
  <2>1. i \in 1 .. n - b + 1 /\ i \in Int
    BY <1>2, <1>5, <1>6, <1>7
  <2>2. b + i - 1 \in b .. n
    BY <1>2, <2>1
  <2> QED BY <1>3, <1>5, <1>6, <2>1, <2>2, Zenon
<1>9. Range(q) \subseteq Range(HeapPages)
  BY <1>1, <1>8 DEF Range
<1>10. IsInjective(q)
  <2> SUFFICES ASSUME NEW i \in DOMAIN q, NEW j \in DOMAIN q, q[i] = q[j] PROVE i = j
    BY Zenon DEF IsInjective
  <2>1. b + i - 1 = b + j - 1 /\ i \in Int /\ j \in Int
    BY <1>1, <1>8, Zenon
  <2> QED BY <1>2, <2>1
<1> QED BY <1>7, <1>9, <1>10, Zenon DEF q

(* The allocation of a kernel stack keeps the shape.                       *)
LEMMA AllocateStackShape ==
  ASSUME Shape, NEW s \in Spaces, NEW b \in 1 .. Len(HeapPages) - StackPages + 1, AllocateStack(s, b)
  PROVE  Shape'
<1> DEFINE ps == StackAt(b)
<1>0. /\ StateOK /\ AllocOK /\ TreeOK /\ KernelOK /\ StacksApart /\ Kernel # s
      /\ SpaceOK(s) /\ BuildOK(s) /\ s \in All /\ Kernel \in All
  BY Names, Zenon DEF Shape, All
<1>1. /\ phase[s] = "loading" /\ job[s] = NoJob /\ Range(ps) \intersect heap = {}
      /\ heap' = heap \union Range(ps) /\ stack' = [stack EXCEPT ![s] = Range(ps)]
      /\ plan' = [plan EXCEPT ![s].pages = ps] /\ phase' = [phase EXCEPT ![s] = "sharing"]
      /\ UNCHANGED <<allocVars, l4, tree, loading, job, loads, panic>>
  BY Zenon DEF AllocateStack, FreeStack
<1>2. ps \in Seq(PagePaths) /\ Range(ps) \subseteq Range(HeapPages) /\ IsInjective(ps)
  BY StackAtIs, Zenon
<1> HIDE DEF ps
<1>3. /\ plan' \in [Spaces -> Records] /\ plan'[s].pages = ps /\ plan'[s].file = plan[s].file
      /\ \A t \in Spaces \ {s} : plan'[t] = plan[t]
  BY <1>0, <1>1, <1>2, PlanStep, Zenon
<1>4. /\ phase' \in [All -> SpacePhases \union {"booting", "up"}] /\ phase'[s] = "sharing"
      /\ \A t \in All \ {s} : phase'[t] = phase[t]
  BY <1>0, <1>1, Zenon DEF StateOK, SpacePhases
<1>5. /\ stack' \in [Spaces -> SUBSET Range(HeapPages)] /\ stack'[s] = Range(ps)
      /\ \A t \in Spaces \ {s} : stack'[t] = stack[t]
  BY <1>0, <1>1, <1>2, Zenon DEF StateOK
<1>6. AllocOK' /\ TreeOK'
  BY <1>0, <1>1, Zenon DEF AllocOK, TreeOK, allocVars
<1>7. StateOK'
  BY <1>0, <1>1, <1>2, <1>3, <1>4, <1>5, Zenon DEF StateOK
<1>8. \A t \in Spaces : t # s => phase'[t] = phase[t]
  BY <1>4, Zenon DEF All
<1>9. \A t \in Spaces : phase[t] \in {"sharing", "running"} => stack[t] \subseteq heap
  BY Zenon DEF Shape, StackOK
<1>10. StacksApart'
  <2> SUFFICES ASSUME NEW t \in Spaces, NEW u \in Spaces, t # u,
                      phase'[t] \in {"sharing", "running"}, phase'[u] \in {"sharing", "running"}
               PROVE  stack'[t] \intersect stack'[u] = {}
    BY Zenon DEF StacksApart
  <2>1. CASE t # s /\ u # s
    BY <1>0, <1>5, <1>8, <2>1, Zenon DEF StacksApart
  <2>2. CASE t = s
    BY <1>1, <1>5, <1>8, <1>9, <2>2, Zenon
  <2>3. CASE u = s
    BY <1>1, <1>5, <1>8, <1>9, <2>3, Zenon
  <2> QED BY <2>1, <2>2, <2>3, Zenon
<1>11. \A t \in Spaces \ {s} :
         Same(t) /\ (phase[t] \in {"sharing", "running"} => stack[t] \subseteq heap')
  BY <1>1, <1>3, <1>5, <1>8, <1>9, Zenon DEF Same
<1>12. SpaceOK(s)'
  <2>1. Owned(s)' = Owned(s) /\ phase'[s] \in SpacePhases
    BY <1>1, <1>4, Zenon DEF Owned, SpacePhases
  <2> QED BY <1>0, <1>1, <1>4, <2>1, Zenon DEF SpaceOK
<1>13. Pending(s)' = Range(ps) /\ Asked(s)' = Asked(s)
  BY <1>1, <1>3 DEF Pending, Asked
<1>14. BuildOK(s)'
  BY <1>0, <1>1, <1>2, <1>3, <1>4, <1>5, <1>13 DEF BuildOK
<1>15. StackOK(s)'
  BY <1>1, <1>4, <1>5, <1>13, Zenon DEF StackOK
<1>16. /\ tree'[Kernel] = tree[Kernel] /\ job'[Kernel] = job[Kernel] /\ phase'[Kernel] = phase[Kernel]
       /\ phase[Kernel] = "up"
  BY <1>0, <1>1, <1>4, Zenon DEF KernelOK
<1> QED BY <1>6, <1>7, <1>10, <1>11, <1>12, <1>14, <1>15, <1>16, OneSpace, Zenon

(* Sharing a page of the stack, on the kernel's frame for it, keeps the    *)
(* shape.                                                                  *)
LEMMA ShareStackPageShape == ASSUME Shape, NEW s \in Spaces, ShareStackPage(s) PROVE Shape'
<1> DEFINE ps == plan[s].pages
           new == [page |-> Head(ps), frame |-> tree[Kernel][Head(ps)]]
<1>0. /\ StateOK /\ AllocOK /\ TreeOK /\ KernelOK /\ StacksApart /\ Kernel # s
      /\ SpaceOK(s) /\ BuildOK(s) /\ StackOK(s) /\ s \in All /\ Kernel \in All
  BY Names, Zenon DEF Shape, All
<1>1. /\ ps # <<>> /\ phase[s] = "sharing" /\ job[s] = NoJob /\ job' = [job EXCEPT ![s] = new]
      /\ plan' = [plan EXCEPT ![s].pages = Tail(ps)]
      /\ UNCHANGED <<allocVars, l4, tree, phase, loading, stack, heap, loads, panic>>
  BY Zenon DEF ShareStackPage, Share
<1>2. ps \in Seq(PagePaths) /\ Pending(s) = Range(ps)
  BY <1>0, <1>1, PendingStep, Zenon
<1> HIDE DEF ps
<1>3. /\ Head(ps) \in PagePaths /\ Tail(ps) \in Seq(PagePaths)
      /\ Range(ps) = {Head(ps)} \union Range(Tail(ps))
      /\ IsInjective(ps) => IsInjective(Tail(ps)) /\ Head(ps) \notin Range(Tail(ps))
  BY <1>1, <1>2, TakeHead, Zenon
<1>4. Head(ps) \in stack[s] /\ Head(ps) \in Range(HeapPages)
  BY <1>0, <1>1, <1>2, <1>3, Zenon DEF BuildOK, StateOK
<1>5. tree[Kernel][Head(ps)] \in UsableFrames
  BY <1>1, <1>4, StackPage, Zenon
<1>6. new \in Jobs /\ new # NoJob /\ new.page = Head(ps) /\ new.frame = tree[Kernel][Head(ps)]
  BY <1>3, <1>5, NoValues DEF Jobs
<1> HIDE DEF new
<1>7. /\ plan' \in [Spaces -> Records] /\ plan'[s].pages = Tail(ps) /\ plan'[s].file = plan[s].file
      /\ \A t \in Spaces \ {s} : plan'[t] = plan[t]
  BY <1>0, <1>1, <1>3, PlanStep, Zenon
<1>8. /\ job' \in [All -> Jobs \union {NoJob}] /\ job'[s] = new
      /\ \A t \in All \ {s} : job'[t] = job[t]
  BY <1>0, <1>1, <1>6, Zenon DEF StateOK
<1>9. AllocOK' /\ TreeOK' /\ StacksApart'
  BY <1>0, <1>1, Zenon DEF AllocOK, TreeOK, StacksApart, allocVars
<1>10. StateOK'
  BY <1>0, <1>1, <1>7, <1>8, Zenon DEF StateOK
<1>11. \A t \in Spaces \ {s} :
         Same(t) /\ (phase[t] \in {"sharing", "running"} => stack[t] \subseteq heap')
  BY <1>1, <1>7, <1>8, Zenon DEF Same, All, Shape, StackOK
<1>12. Pending(s)' = Pending(s) /\ Asked(s)' = Asked(s) /\ Owned(s)' = Owned(s)
  BY <1>1, <1>2, <1>3, <1>6, <1>7, <1>8 DEF Pending, Asked, Owned
<1>13. SpaceOK(s)'
  BY <1>0, <1>1, <1>12, Zenon DEF SpaceOK
<1>14. BuildOK(s)'
  <2>1. IsInjective(Tail(ps)) /\ Head(ps) \notin Range(Tail(ps))
    BY <1>0, <1>1, <1>3, Zenon DEF BuildOK, ps
  <2> QED BY <1>0, <1>1, <1>6, <1>7, <1>8, <1>12, <2>1 DEF BuildOK
<1>15. StackOK(s)'
  BY <1>0, <1>1, <1>12, Zenon DEF StackOK
<1>16. /\ tree'[Kernel] = tree[Kernel] /\ job'[Kernel] = job[Kernel] /\ phase'[Kernel] = phase[Kernel]
       /\ phase[Kernel] = "up"
  BY <1>0, <1>1, <1>8, Zenon DEF KernelOK
<1> QED BY <1>9, <1>10, <1>11, <1>13, <1>14, <1>15, <1>16, OneSpace, Zenon

(* The end of spawn_isolated_inner keeps the shape.                        *)
LEMMA SpawnedShape == ASSUME Shape, NEW s \in Spaces, Spawned(s) PROVE Shape'
<1>0. /\ StateOK /\ AllocOK /\ TreeOK /\ KernelOK /\ StacksApart /\ Kernel # s
      /\ SpaceOK(s) /\ StackOK(s) /\ s \in All /\ Kernel \in All
  BY Names, Zenon DEF Shape, All
<1>1. /\ phase[s] = "sharing" /\ job[s] = NoJob /\ plan[s].pages = <<>>
      /\ phase' = [phase EXCEPT ![s] = "running"]
      /\ UNCHANGED <<allocVars, l4, tree, plan, job, stack, heap, panic>>
  BY Zenon DEF Spawned
<1>2. /\ phase' \in [All -> SpacePhases \union {"booting", "up"}] /\ phase'[s] = "running"
      /\ \A t \in All \ {s} : phase'[t] = phase[t]
  BY <1>0, <1>1, Zenon DEF StateOK, SpacePhases
<1>3. AllocOK' /\ TreeOK' /\ StateOK'
  BY <1>0, <1>1, <1>2, Zenon DEF AllocOK, TreeOK, StateOK, allocVars
<1>4. \A t \in Spaces : t # s => phase'[t] = phase[t]
  BY <1>2, Zenon DEF All
<1>5. StacksApart'
  BY <1>0, <1>1, <1>2, <1>4, Zenon DEF StacksApart
<1>6. \A t \in Spaces \ {s} :
        Same(t) /\ (phase[t] \in {"sharing", "running"} => stack[t] \subseteq heap')
  BY <1>1, <1>4, Zenon DEF Same, Shape, StackOK
<1>7. SpaceOK(s)'
  <2>1. Owned(s)' = Owned(s) /\ phase'[s] \in SpacePhases
    BY <1>1, <1>2, Zenon DEF Owned, SpacePhases
  <2> QED BY <1>0, <1>1, <1>2, <2>1, Zenon DEF SpaceOK
<1>8. BuildOK(s)'
  BY <1>2, Zenon DEF BuildOK
<1>9. StackOK(s)'
  <2>1. Pending(s) = {}
    BY <1>1 DEF Pending, Range
  <2> QED BY <1>0, <1>1, <1>2, <2>1, Zenon DEF StackOK
<1>10. /\ tree'[Kernel] = tree[Kernel] /\ job'[Kernel] = job[Kernel] /\ phase'[Kernel] = phase[Kernel]
       /\ phase[Kernel] = "up"
  BY <1>0, <1>1, <1>2, Zenon DEF KernelOK
<1> QED BY <1>3, <1>5, <1>6, <1>7, <1>8, <1>9, <1>10, OneSpace, Zenon

(* reap_zombie's deallocation of the stack keeps the shape.                *)
LEMMA ReapStackShape == ASSUME Shape, NEW s \in Spaces, ReapStack(s) PROVE Shape'
<1>0. /\ StateOK /\ AllocOK /\ TreeOK /\ KernelOK /\ StacksApart /\ Kernel # s
      /\ SpaceOK(s) /\ StackOK(s) /\ s \in All /\ Kernel \in All
  BY Names, Zenon DEF Shape, All
<1>1. /\ phase[s] = "running" /\ phase' = [phase EXCEPT ![s] = "freeing"] /\ heap' = heap \ stack[s]
      /\ UNCHANGED <<allocVars, l4, tree, plan, job, stack, panic>>
  BY Zenon DEF ReapStack
<1>2. /\ phase' \in [All -> SpacePhases \union {"booting", "up"}] /\ phase'[s] = "freeing"
      /\ \A t \in All \ {s} : phase'[t] = phase[t]
  BY <1>0, <1>1, Zenon DEF StateOK, SpacePhases
<1>3. AllocOK' /\ TreeOK' /\ StateOK'
  BY <1>0, <1>1, <1>2, Zenon DEF AllocOK, TreeOK, StateOK, allocVars
<1>4. \A t \in Spaces : t # s => phase'[t] = phase[t]
  BY <1>2, Zenon DEF All
<1>5. StacksApart'
  BY <1>0, <1>1, <1>2, <1>4, Zenon DEF StacksApart
<1>6. ASSUME NEW t \in Spaces \ {s}
      PROVE  Same(t) /\ (phase[t] \in {"sharing", "running"} => stack[t] \subseteq heap')
  <2>1. phase[t] \in {"sharing", "running"} => stack[t] \subseteq heap
    BY Zenon DEF Shape, StackOK
  <2>2. phase[t] \in {"sharing", "running"} => stack[t] \intersect stack[s] = {}
    BY <1>0, <1>1, Zenon DEF StacksApart
  <2> QED BY <1>1, <1>4, <2>1, <2>2, Zenon DEF Same
<1>7. SpaceOK(s)'
  <2>1. Owned(s)' = Owned(s) /\ phase'[s] \in SpacePhases
    BY <1>1, <1>2, Zenon DEF Owned, SpacePhases
  <2> QED BY <1>0, <1>1, <1>2, <2>1, Zenon DEF SpaceOK
<1>8. BuildOK(s)'
  BY <1>2, Zenon DEF BuildOK
<1>9. StackOK(s)'
  BY <1>0, <1>1, <1>2, Zenon DEF StackOK
<1>10. /\ tree'[Kernel] = tree[Kernel] /\ job'[Kernel] = job[Kernel] /\ phase'[Kernel] = phase[Kernel]
       /\ phase[Kernel] = "up"
  BY <1>0, <1>1, <1>2, Zenon DEF KernelOK
<1> QED BY <1>3, <1>5, <1>6, <1>7, <1>8, <1>9, <1>10, OneSpace, Zenon

-----------------------------------------------------------------------------
(* The walk that frees a space.                                            *)

(* The order of the walk of free_table: what p leads to comes before p.    *)
Earlier(p, q) == IsPrefix(q, p) \/ Before(p, q)

(* The order of the walk: by the first index in which two paths differ.    *)
LEMMA BeforeIs ==
  ASSUME NEW p \in Paths, NEW q \in Paths
  PROVE  Before(p, q) <=>
           \E n \in 1 .. Levels : /\ n <= Len(p) /\ n <= Len(q) /\ p[n] < q[n]
                                  /\ \A k \in 1 .. n - 1 : p[k] = q[k]
<1>1. DOMAIN p = 1 .. Len(p) /\ DOMAIN q = 1 .. Len(q) /\ Len(p) \in Nat /\ Len(q) \in Nat /\ Levels \in Nat
  BY PathFacts, Sizes, Zenon
<1>2. \A n \in 1 .. Levels : {n} \subseteq DOMAIN p \intersect DOMAIN q <=> n <= Len(p) /\ n <= Len(q)
  BY <1>1
<1> QED BY <1>2, Zenon DEF Before

(* Induction, with a set in the place of a predicate.                      *)
LEMMA InductionOnNat ==
  ASSUME NEW T, 0 \in T, \A n \in Nat : n \in T => n + 1 \in T
  PROVE  \A n \in Nat : n \in T
<1> SUFFICES ASSUME NEW m \in Nat, m \notin T PROVE FALSE
  BY Zenon
<1> DEFINE Out == {n \in Nat : n \notin T}
           k == Min(Out)
<1>1. Out \in SUBSET Nat /\ Out # {}
  BY Zenon
<1>2. k \in Out /\ \A x \in Out : k <= x
  <2> HIDE DEF Out
  <2> QED BY <1>1, MinExists, Zenon
<1> HIDE DEF k
<1>3. k \in Nat /\ k \notin T /\ k # 0
  BY <1>2, Zenon
<1>4. k - 1 \in Nat /\ (k - 1) + 1 = k /\ ~(k <= k - 1)
  BY <1>3
<1>5. k - 1 \notin T
  BY <1>3, <1>4, Zenon
<1> QED BY <1>2, <1>4, <1>5, Zenon

(* The order as one of numbers: a path is read as Levels indices, an index *)
(* that is missing after every one that is there.                          *)
Pad(p, i) == IF i <= Len(p) THEN p[i] ELSE Entries
SamePad(n, p, q) == \A i \in 1 .. n : Pad(p, i) = Pad(q, i)
Leads(n, p, q) ==
  SamePad(n, p, q) \/ \E k \in 1 .. n : Pad(p, k) < Pad(q, k) /\ SamePad(k - 1, p, q)

(* A path made as long as a page's, with an index after all others for     *)
(* what it lacks.                                                          *)
LEMMA PadFacts ==
  ASSUME NEW p \in Paths
  PROVE  \A i \in 1 .. Levels :
           /\ Pad(p, i) \in Nat /\ Pad(p, i) <= Entries
           /\ i <= Len(p) => Pad(p, i) = p[i] /\ Pad(p, i) < Entries
           /\ i > Len(p) => Pad(p, i) = Entries
<1>1. Len(p) \in Nat /\ \A i \in 1 .. Len(p) : p[i] \in Indices
  BY PathFacts
<1>2. Levels \in Nat /\ Entries \in Nat /\ \A x \in Indices : x \in Nat /\ x < Entries
  BY Sizes DEF Indices
<1> SUFFICES ASSUME NEW i \in 1 .. Levels
             PROVE  /\ Pad(p, i) \in Nat /\ Pad(p, i) <= Entries
                    /\ i <= Len(p) => Pad(p, i) = p[i] /\ Pad(p, i) < Entries
                    /\ i > Len(p) => Pad(p, i) = Entries
  BY Zenon
<1>3. CASE i <= Len(p)
  <2>1. i \in 1 .. Len(p)
    BY <1>1, <1>2, <1>3
  <2> QED BY <1>1, <1>2, <1>3, <2>1 DEF Pad
<1>4. CASE i > Len(p)
  BY <1>1, <1>2, <1>4 DEF Pad
<1> QED BY <1>1, <1>2, <1>3, <1>4

(* The padded paths are ordered as the walk comes to them: what is below a *)
(* table before the table.                                                 *)
LEMMA LeadsIsEarlier ==
  ASSUME NEW p \in Paths, NEW q \in Paths, p # q, Leads(Levels, p, q)
  PROVE  Earlier(p, q)
<1>1. /\ Len(p) \in Nat /\ Len(q) \in Nat /\ Levels \in Nat
      /\ Len(p) \in 1 .. Levels /\ Len(q) \in 1 .. Levels
  BY PathFacts, Sizes, Zenon
<1>2. \A i \in 1 .. Levels :
        /\ Pad(p, i) \in Nat /\ Pad(p, i) <= Entries
        /\ i <= Len(p) => Pad(p, i) = p[i] /\ Pad(p, i) < Entries
        /\ i > Len(p) => Pad(p, i) = Entries
  BY PadFacts, Zenon
<1>3. \A i \in 1 .. Levels :
        /\ Pad(q, i) \in Nat /\ Pad(q, i) <= Entries
        /\ i <= Len(q) => Pad(q, i) = q[i] /\ Pad(q, i) < Entries
        /\ i > Len(q) => Pad(q, i) = Entries
  BY PadFacts, Zenon
<1>4. Entries \in Nat
  BY Sizes, Zenon
<1>5. CASE SamePad(Levels, p, q)
  <2>1. \A i \in 1 .. Levels : i <= Len(p) <=> i <= Len(q)
    BY <1>1, <1>2, <1>3, <1>4, <1>5 DEF SamePad
  <2>2. Len(p) = Len(q)
    BY <1>1, <2>1
  <2>3. \A i \in 1 .. Len(p) : p[i] = q[i]
    BY <1>1, <1>2, <1>3, <1>5, <2>2 DEF SamePad
  <2> QED BY <2>2, <2>3, PathEqual, Zenon
<1>6. CASE \E k \in 1 .. Levels : Pad(p, k) < Pad(q, k) /\ SamePad(k - 1, p, q)
  <2>1. PICK k \in 1 .. Levels : Pad(p, k) < Pad(q, k) /\ SamePad(k - 1, p, q)
    BY <1>6, Zenon
  <2>2. k \in Nat /\ k >= 1 /\ k <= Len(p)
    <3>1. Pad(p, k) # Entries
      BY <1>2, <1>3, <1>4, <2>1
    <3> QED BY <1>1, <1>2, <3>1
  <2>3. \A i \in 1 .. k - 1 : i <= Len(q) => p[i] = q[i]
    BY <1>1, <1>2, <1>3, <2>1, <2>2 DEF SamePad
  <2>4. CASE k <= Len(q)
    <3>1. p[k] < q[k] /\ \A i \in 1 .. k - 1 : p[i] = q[i]
      BY <1>1, <1>2, <1>3, <2>1, <2>2, <2>3, <2>4
    <3> QED BY <2>1, <2>2, <2>4, <3>1, BeforeIs, Zenon DEF Earlier
  <2>5. CASE k > Len(q)
    <3>1. Len(q) <= Len(p) /\ \A i \in 1 .. Len(q) : q[i] = p[i]
      BY <1>1, <2>2, <2>3, <2>5
    <3> QED BY <3>1, PrefixIs, Zenon DEF Earlier
  <2> QED BY <1>1, <2>2, <2>4, <2>5
<1> QED BY <1>5, <1>6, Zenon DEF Leads

(* Of any entries one comes first in the walk.                             *)
LEMMA FirstExists ==
  ASSUME NEW W \in SUBSET Paths, W # {}
  PROVE  \E p \in W : \A q \in W \ {p} : Earlier(p, q)
<1> DEFINE T == {n \in Nat : n <= Levels => \E p \in W : \A q \in W : Leads(n, p, q)}
<1>0. Levels \in Nat
  BY Sizes, Zenon
<1>1. 0 \in T
  <2>1. \A p, q : Leads(0, p, q)
    BY DEF Leads, SamePad
  <2> QED BY <2>1, Zenon
<1>2. ASSUME NEW n \in Nat, n \in T PROVE n + 1 \in T
  <2> SUFFICES ASSUME n + 1 <= Levels
               PROVE  \E r \in W : \A q \in W : Leads(n + 1, r, q)
    OBVIOUS
  <2>1. n + 1 \in 1 .. Levels /\ n <= Levels /\ n + 1 \in Nat
    BY <1>0
  <2>2. PICK p \in W : \A q \in W : Leads(n, p, q)
    BY <1>2, <2>1, Zenon
  <2> DEFINE V == {q \in W : SamePad(n, p, q)}
             N == {Pad(q, n + 1) : q \in V}
             m == Min(N)
  <2>3. \A q \in W : Pad(q, n + 1) \in Nat
    BY <2>1, PadFacts, Zenon
  <2>4. p \in V /\ N # {} /\ N \in SUBSET Nat
    BY <2>2, <2>3, Zenon DEF SamePad
  <2>5. m \in N /\ \A x \in N : m <= x
    <3> HIDE DEF N
    <3> QED BY <2>4, MinExists, Zenon
  <2> HIDE DEF m
  <2>6. PICK r \in V : Pad(r, n + 1) = m
    BY <2>5, Zenon
  <2>7. r \in W /\ \A i \in 1 .. n : Pad(r, i) = Pad(p, i)
    BY <2>6, Zenon DEF SamePad
  <2>8. ASSUME NEW q \in W PROVE Leads(n + 1, r, q)
    <3>1. CASE q \in V
      <4>1. \A i \in 1 .. n : Pad(r, i) = Pad(q, i)
        BY <2>7, <3>1, Zenon DEF SamePad
      <4>2. Pad(r, n + 1) <= Pad(q, n + 1) /\ Pad(r, n + 1) \in Nat /\ Pad(q, n + 1) \in Nat
        BY <2>3, <2>5, <2>6, <2>7, <3>1, Zenon
      <4>3. CASE Pad(r, n + 1) = Pad(q, n + 1)
        BY <4>1, <4>3 DEF Leads, SamePad
      <4>4. CASE Pad(r, n + 1) < Pad(q, n + 1)
        <5>1. SamePad((n + 1) - 1, r, q) /\ n + 1 \in 1 .. n + 1
          BY <2>1, <4>1 DEF SamePad
        <5> QED BY <4>4, <5>1, Zenon DEF Leads
      <4> QED BY <4>2, <4>3, <4>4
    <3>2. CASE q \notin V
      <4>1. PICK k \in 1 .. n : Pad(p, k) < Pad(q, k) /\ SamePad(k - 1, p, q)
        BY <2>2, <3>2, Zenon DEF Leads
      <4>2. k \in 1 .. n + 1 /\ Pad(r, k) < Pad(q, k)
        BY <2>7, <4>1
      <4>3. SamePad(k - 1, r, q)
        BY <2>7, <4>1 DEF SamePad
      <4> QED BY <4>2, <4>3, Zenon DEF Leads
    <3> QED BY <3>1, <3>2, Zenon
  <2> QED BY <2>7, <2>8, Zenon
<1> HIDE DEF T
<1>3. Levels \in T
  BY <1>0, <1>1, <1>2, InductionOnNat, Zenon
<1>4. PICK p \in W : \A q \in W : Leads(Levels, p, q)
  BY <1>0, <1>3 DEF T
<1> QED BY <1>4, LeadsIsEarlier, Zenon

(* What the walk frees next leads to nothing that is left.                 *)
LEMMA WalkTakes ==
  ASSUME NEW s \in Spaces, TreeOK, Walked(s) # {}
  PROVE  /\ NextToFree(s) \in Walked(s)
         /\ \A q \in Walked(s) \ {NextToFree(s)} : Earlier(NextToFree(s), q)
<1>1. Walked(s) \in SUBSET Paths
  BY Zenon DEF Walked, TreeOK, All
<1>2. \E p \in Walked(s) : \A q \in Walked(s) \ {p} : Earlier(p, q)
  BY <1>1, FirstExists, Zenon
<1>3. NextToFree(s) = CHOOSE p \in Walked(s) : \A q \in Walked(s) \ {p} : Earlier(p, q)
  BY Zenon DEF NextToFree, Earlier
<1> QED BY <1>2, <1>3, Zenon

(* An entry does not come before one that it leads to.                     *)
LEMMA NotEarlier ==
  ASSUME NEW q \in Paths, NEW n \in 1 .. Len(q) - 1
  PROVE  ~Earlier(SubSeq(q, 1, n), q)
<1> DEFINE p == SubSeq(q, 1, n)
<1>1. Len(q) \in Nat /\ Len(q) \in 1 .. Levels /\ \A i \in 1 .. Len(q) : q[i] \in Nat
  BY PathFacts, Zenon
<1>2. n \in 1 .. Len(q) /\ n < Len(q) /\ n \in Nat
  BY <1>1
<1>3. p \in Paths /\ Len(p) = n /\ \A i \in 1 .. n : p[i] = q[i]
  BY <1>2, PathOfTable, Zenon
<1> HIDE DEF p
<1>4. ~IsPrefix(q, p)
  BY <1>1, <1>2, <1>3, PrefixIs
<1>5. ~Before(p, q)
  <2> SUFFICES ASSUME NEW k \in 1 .. Levels, k <= Len(p), p[k] < q[k] PROVE FALSE
    BY <1>3, BeforeIs, Zenon
  <2>1. p[k] = q[k] /\ q[k] \in Nat
    BY <1>1, <1>2, <1>3, Sizes
  <2> QED BY <2>1
<1> QED BY <1>4, <1>5, Zenon DEF Earlier, p

(* free_table's step to the next entry keeps the shape.                    *)
LEMMA FreeEntryShape == ASSUME Shape, NEW s \in Spaces, FreeEntry(s) PROVE Shape'
<1> DEFINE p == NextToFree(s)
           old == tree[s]
           new == [x \in DOMAIN old \ {p} |-> old[x]]
<1>0. /\ StateOK /\ AllocOK /\ TreeOK /\ KernelOK /\ StacksApart /\ Kernel # s
      /\ SpaceOK(s) /\ StackOK(s) /\ s \in All /\ Kernel \in All
  BY Names, Zenon DEF Shape, All
<1>1. /\ phase[s] = "freeing" /\ Walked(s) # {}
      /\ IF Frees(s, p) THEN deallocate_frame(tree[s][p]) ELSE UNCHANGED allocVars
      /\ tree' = [tree EXCEPT ![s] = new]
      /\ UNCHANGED <<l4, phase, plan, loading, job, stack, heap, loads, panic>>
  BY Zenon DEF FreeEntry, Restrict
<1>2. p \in Walked(s) /\ \A q \in Walked(s) \ {p} : Earlier(p, q)
  BY <1>0, <1>1, WalkTakes, Zenon
<1> HIDE DEF p
<1>3. p \in Owned(s) /\ p \in DOMAIN old /\ tree[s][p] \in UsableFrames
  BY <1>0, <1>2, Zenon DEF Walked, Owned, SpaceOK
<1>4. AllocOK'
  <2>1. CASE Frees(s, p)
    BY <1>0, <1>1, <1>3, <2>1, GivesBack, Zenon
  <2>2. CASE ~Frees(s, p)
    BY <1>0, <1>1, <2>2, Zenon DEF AllocOK, allocVars
  <2> QED BY <2>1, <2>2, Zenon
<1>5. DOMAIN new = DOMAIN old \ {p} /\ \A q \in DOMAIN old \ {p} : new[q] = tree[s][q]
  BY Zenon
<1> HIDE DEF new
<1>6. tree' = [t \in All |-> tree'[t]] /\ tree'[s] = new /\ \A t \in All \ {s} : tree'[t] = tree[t]
  BY <1>0, <1>1, Zenon DEF TreeOK
<1>7. TreeOK'
  <2>1. ASSUME NEW t \in All
        PROVE  /\ DOMAIN tree'[t] \subseteq Paths
               /\ \A q \in DOMAIN tree'[t] : tree'[t][q] \in Frame
    <3>1. CASE t = s
      <4>1. DOMAIN old \subseteq Paths /\ \A q \in DOMAIN old : tree[s][q] \in Frame
        BY <1>0, Zenon DEF TreeOK
      <4>2. DOMAIN new \subseteq DOMAIN old
        BY <1>5, Zenon
      <4> HIDE DEF old
      <4> QED BY <1>5, <1>6, <3>1, <4>1, <4>2, Zenon
    <3>2. CASE t # s
      BY <1>0, <1>6, <3>2, Zenon DEF TreeOK
    <3> QED BY <3>1, <3>2, Zenon
  <2> QED BY <1>6, <2>1, Zenon DEF TreeOK
<1>8. StateOK' /\ StacksApart'
  BY <1>0, <1>1, Zenon DEF StateOK, StacksApart
<1>9. \A t \in Spaces \ {s} :
        Same(t) /\ (phase[t] \in {"sharing", "running"} => stack[t] \subseteq heap')
  BY <1>1, <1>6, Zenon DEF Same, All, Shape, StackOK
<1>10. SpaceOK(s)'
  <2>1. Owned(s)' = Owned(s) \ {p}
    BY <1>5, <1>6, Zenon DEF Owned
  <2>2. ASSUME NEW q \in Owned(s)'
        PROVE  /\ tree'[s][q] \in UsableFrames
               /\ \A n \in 1 .. Len(q) - 1 : SubSeq(q, 1, n) \in DOMAIN tree'[s]
    <3>1. q \in Owned(s) /\ q # p /\ q \in DOMAIN old
      BY <2>1, Zenon DEF Owned
    <3>2. q \in Walked(s) /\ q \in Paths
      BY <1>0, <3>1, Zenon DEF Walked, Owned, TreeOK
    <3>3. Earlier(p, q)
      BY <1>2, <3>1, <3>2, Zenon
    <3>4. ASSUME NEW n \in 1 .. Len(q) - 1 PROVE SubSeq(q, 1, n) \in DOMAIN tree'[s]
      <4>1. ~Earlier(SubSeq(q, 1, n), q)
        BY <3>2, NotEarlier, Zenon
      <4>2. SubSeq(q, 1, n) # p
        BY <3>3, <4>1, Zenon
      <4>3. SubSeq(q, 1, n) \in DOMAIN old
        BY <1>0, <3>1, Zenon DEF SpaceOK
      <4> QED BY <1>5, <1>6, <4>2, <4>3, Zenon
    <3>5. tree'[s][q] \in UsableFrames
      BY <1>0, <1>5, <1>6, <3>1, Zenon DEF SpaceOK
    <3> QED BY <3>4, <3>5, Zenon
  <2>3. {<<i>> : i \in SharedIndices} \subseteq DOMAIN tree'[s]
    <3>1. ASSUME NEW i \in SharedIndices PROVE <<i>> \in DOMAIN tree'[s]
      <4>1. <<i>> # p
        BY <1>3 DEF Owned
      <4>2. <<i>> \in DOMAIN old
        BY <1>0, <1>1, Zenon DEF SpaceOK
      <4> QED BY <1>5, <1>6, <4>1, <4>2, Zenon
    <3> QED BY <3>1, Zenon
  <2>4. \A q \in DOMAIN tree'[s] : q[1] \in SharedIndices => Len(q) = 1
    BY <1>0, <1>5, <1>6, Zenon DEF SpaceOK
  <2> QED BY <1>0, <1>1, <2>2, <2>3, <2>4, Zenon DEF SpaceOK
<1>11. BuildOK(s)'
  BY <1>1, Zenon DEF BuildOK
<1>12. tree'[Kernel] = tree[Kernel]
  BY <1>0, <1>6, Zenon
<1>13. StackOK(s)'
  BY <1>0, <1>1, <1>5, <1>6, <1>12, Zenon DEF StackOK
<1>14. job'[Kernel] = job[Kernel] /\ phase'[Kernel] = phase[Kernel] /\ phase[Kernel] = "up"
  BY <1>0, <1>1, Zenon DEF KernelOK
<1> QED BY <1>4, <1>7, <1>8, <1>9, <1>10, <1>11, <1>12, <1>13, <1>14, OneSpace, Zenon

(* The end of free_address_space keeps the shape.                          *)
LEMMA FreeL4Shape == ASSUME Shape, NEW s \in Spaces, FreeL4(s) PROVE Shape'
<1>0. /\ StateOK /\ AllocOK /\ TreeOK /\ KernelOK /\ StacksApart /\ Kernel # s
      /\ SpaceOK(s) /\ s \in All /\ Kernel \in All
  BY Names, Zenon DEF Shape, All
<1>1. /\ phase[s] = "freeing" /\ deallocate_frame(l4[s])
      /\ l4' = [l4 EXCEPT ![s] = NoFrame] /\ tree' = [tree EXCEPT ![s] = <<>>]
      /\ stack' = [stack EXCEPT ![s] = {}] /\ plan' = [plan EXCEPT ![s] = NoPlan]
      /\ phase' = [phase EXCEPT ![s] = "none"]
      /\ UNCHANGED <<job, heap, panic>>
  BY Zenon DEF FreeL4
<1>2. l4[s] \in UsableFrames /\ job[s] = NoJob /\ phase[Kernel] = "up"
  BY <1>0, <1>1, Zenon DEF StateOK, SpaceOK, KernelOK
<1>3. AllocOK'
  BY <1>0, <1>1, <1>2, GivesBack, Zenon
<1>4. /\ l4' \in [Spaces -> UsableFrames \union {NoFrame}] /\ l4'[s] = NoFrame
      /\ \A t \in Spaces \ {s} : l4'[t] = l4[t]
  BY <1>0, <1>1, Zenon DEF StateOK
<1>5. /\ phase' \in [All -> SpacePhases \union {"booting", "up"}] /\ phase'[s] = "none"
      /\ \A t \in All \ {s} : phase'[t] = phase[t]
  BY <1>0, <1>1, Zenon DEF StateOK, SpacePhases
<1>6. /\ stack' \in [Spaces -> SUBSET Range(HeapPages)] /\ stack'[s] = {}
      /\ \A t \in Spaces \ {s} : stack'[t] = stack[t]
  BY <1>0, <1>1, Zenon DEF StateOK
<1>7. plan' \in [Spaces -> Records] /\ \A t \in Spaces \ {s} : plan'[t] = plan[t]
  <2>1. <<>> \in Seq(PagePaths)
    OBVIOUS
  <2>2. NoPlan \in Records
    BY <2>1, Zenon DEF NoPlan, Records
  <2> QED BY <1>0, <1>1, <2>2, Zenon DEF StateOK
<1>8. tree' = [t \in All |-> tree'[t]] /\ tree'[s] = <<>> /\ \A t \in All \ {s} : tree'[t] = tree[t]
  BY <1>0, <1>1, Zenon DEF TreeOK
<1>9. DOMAIN tree'[s] = {}
  BY <1>8
<1>10. TreeOK'
  <2>1. ASSUME NEW t \in All
        PROVE  /\ DOMAIN tree'[t] \subseteq Paths
               /\ \A q \in DOMAIN tree'[t] : tree'[t][q] \in Frame
    <3>1. CASE t = s
      BY <1>9, <3>1, Zenon
    <3>2. CASE t # s
      BY <1>0, <1>8, <3>2, Zenon DEF TreeOK
    <3> QED BY <3>1, <3>2, Zenon
  <2> QED BY <1>8, <2>1, Zenon DEF TreeOK
<1>11. StateOK'
  BY <1>0, <1>1, <1>4, <1>5, <1>6, <1>7, Zenon DEF StateOK
<1>12. \A t \in Spaces : t # s => phase'[t] = phase[t]
  BY <1>5, Zenon DEF All
<1>13. StacksApart'
  BY <1>0, <1>5, <1>6, <1>12, Zenon DEF StacksApart
<1>14. \A t \in Spaces \ {s} :
         Same(t) /\ (phase[t] \in {"sharing", "running"} => stack[t] \subseteq heap')
  BY <1>1, <1>4, <1>6, <1>7, <1>8, <1>12, Zenon DEF Same, All, Shape, StackOK
<1>15. SpaceOK(s)'
  <2>1. phase'[s] \in SpacePhases /\ Owned(s)' = {}
    BY <1>5, <1>9, Zenon DEF SpacePhases, Owned
  <2> QED BY <1>1, <1>2, <1>4, <1>5, <1>6, <1>9, <2>1, Zenon DEF SpaceOK
<1>16. BuildOK(s)' /\ StackOK(s)'
  BY <1>5, Zenon DEF BuildOK, StackOK
<1>17. tree'[Kernel] = tree[Kernel] /\ job'[Kernel] = job[Kernel] /\ phase'[Kernel] = phase[Kernel]
  BY <1>0, <1>1, <1>5, <1>8, Zenon
<1> QED BY <1>2, <1>3, <1>10, <1>11, <1>13, <1>14, <1>15, <1>16, <1>17, OneSpace, Zenon

=============================================================================
