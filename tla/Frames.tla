------------------------------- MODULE Frames -------------------------------
(***************************************************************************)
(* Physical frames and the life of an address space.                       *)
(*                                                                         *)
(* BootInfoFrameAllocator hands out frames, from its free list or from a   *)
(* cursor over the usable regions.  Frames become the heap at boot, and    *)
(* then the page tables and pages of isolated address spaces: built by     *)
(* new_address_space and then elf::load (the algorithm of module Elf) or   *)
(* map_shellcode_page, given a kernel stack by spawn_isolated, and taken   *)
(* down by free_address_space, either because the load failed or because   *)
(* the thread has been reaped.                                             *)
(*                                                                         *)
(* A page, and an entry of a page table, is named by the indices that lead *)
(* to it from the top-level table, so tree[s] maps paths of length 1 to    *)
(* Levels to frames.  Every allocate_frame and deallocate_frame is a step  *)
(* of its own, since each takes and releases FRAME_ALLOCATOR's lock, and   *)
(* steps for different spaces interleave as MayStep says.                  *)
(***************************************************************************)
EXTENDS Elf, FiniteSetsExt

CONSTANTS
  Kernel,        \* the kernel's own address space
  Spaces,        \* the isolated ones
  NoFrame, NoJob,
  Regions,       \* the memory map: sequence of [start, end, usable]
  Levels,        \* of the page tables: 4
  Entries,       \* of a page table: 512
  OffsetIndex,   \* top-level index of the physical memory window
  BootTables,    \* the tables the bootloader built: path -> frame
  BootPages,     \* the pages it mapped, 4 KiB or huge: their paths
  HeapPages,     \* the pages of the heap, in order
  StackPages,    \* pages of a kernel stack
  Files,         \* the files that are loaded: a sequence
  RawPages,      \* the pages of programs that are not: sequences
  MaxLoads       \* bound of the model: address spaces made

(* The end of a Vec, the Vec once it is popped, and paths that lead        *)
(* through one another, as SequencesExt has them; they stand here because  *)
(* the proofs take far longer with all of that module in their context.    *)
Last(s) == s[Len(s)]

Front(s) == SubSeq(s, 1, Len(s) - 1)

IsPrefix(p, q) == Len(p) <= Len(q) /\ SubSeq(p, 1, Len(p)) = SubSeq(q, 1, Len(p))

(* The pages of the bootloader that p is, or lies in.                      *)
InBootPage(p) == \E n \in 2 .. Len(p) : SubSeq(p, 1, n) \in BootPages

SharedIndices == {0, OffsetIndex}

Usable(r) == Regions[r].usable /\ Regions[r].start < Regions[r].end

UsableFrames == UNION {Regions[r].start .. Regions[r].end - 1 :
                         r \in {q \in DOMAIN Regions : Usable(q)}}

(* The pages below an entry k levels above the pages.                      *)
Span[k \in 0 .. Levels] == IF k = 0 THEN 1 ELSE Entries * Span[k - 1]

(* Paths of pages, and of the tables above them.                           *)
Indices == 0 .. Entries - 1
PagePaths == {p \in Seq(Indices) : Len(p) = Levels}
TablePaths == {p \in Seq(Indices) : Len(p) \in 1 .. Levels - 1}

ASSUME FramesAssumption ==
  /\ Kernel \notin Spaces
  /\ "free" \notin Spaces
  /\ NoFrame \notin UsableFrames
  /\ NoJob \notin [page : PagePaths, frame : UsableFrames]
  /\ Regions \in Seq([start : Nat, end : Nat, usable : BOOLEAN])
  /\ \A q, r \in DOMAIN Regions : q < r => Regions[q].end <= Regions[r].start
  /\ Levels \in Nat \ {0, 1}
  /\ Entries \in Nat \ {0}
  /\ OffsetIndex \in Indices
  /\ DOMAIN BootTables \subseteq TablePaths
  /\ {<<i>> : i \in SharedIndices} \subseteq DOMAIN BootTables
  /\ \A p \in DOMAIN BootTables : ~InBootPage(p)
  /\ IsInjective(BootTables)
  /\ Range(BootTables) \cap UsableFrames = {}
  /\ CanonicalEnd <= PAGE_SIZE * Span[Levels]
  /\ HeapPages \in Seq(PagePaths)
  /\ IsInjective(HeapPages)
  /\ \A p \in Range(HeapPages) : p[1] \notin SharedIndices /\ ~InBootPage(p)
  /\ StackPages \in 1 .. Len(HeapPages)
  /\ Files \in Seq(ElfFiles)
  /\ \A ps \in RawPages :
       /\ ps \in Seq(PagePaths)
       /\ IsInjective(ps)
       /\ \A p \in Range(ps) : p[1] \notin SharedIndices /\ p \notin Range(HeapPages)
  /\ MaxLoads \in Nat

VARIABLES
  region_index, next_frame_addr, free_list,  \* BootInfoFrameAllocator
  l4,      \* the frame of each space's top-level table
  tree,    \* the entries of each space's tables: path -> frame
  phase,   \* what is being done with each space
  plan,    \* its program, the pages still to be mapped, and how it ends
  loading, \* the spaces being built, the latest last
  job,     \* the page being mapped and the frame it is to be given
  stack,   \* the heap pages of each space's kernel stack
  heap,    \* heap pages that are allocated
  loads,   \* number of address spaces made so far
  panic    \* why the kernel has stopped, or "no"

allocVars == <<region_index, next_frame_addr, free_list>>
spaceVars == <<l4, tree, phase, plan, loading, job, stack, heap, loads>>
vars == <<allocVars, spaceVars, panic>>

(* Who may take a step.  Of two spaces being built the later is built in a *)
(* system call, with interrupts off throughout, and spawn_isolated_inner   *)
(* runs without interrupts in any case.  Otherwise the timer may interrupt *)
(* anywhere: a space under construction by the boot thread, and one being  *)
(* freed by a thread that exits with interrupts on.                        *)
MayStep(s) ==
  /\ panic = "no"
  /\ \A t \in Spaces \ {s} : phase[t] # "sharing"
  /\ IF s \in Range(loading) THEN Last(loading) = s ELSE Len(loading) < 2

-----------------------------------------------------------------------------
(* The allocator.                                                          *)

StopsAtFirstGap(i) ==
  IF i \in DOMAIN Regions /\ Usable(i) THEN i ELSE Len(Regions) + 1

(* skip_to_next_usable_region: the first usable region from i on.          *)
NextUsable(i) ==
  Min({r \in DOMAIN Regions : r >= i /\ Usable(r)} \union {Len(Regions) + 1})

(* The first frame of region r.  Past the last region the address means    *)
(* nothing and is left as it was.                                          *)
StartOf(r, old) == IF r \in DOMAIN Regions THEN Regions[r].start ELSE old

CanAllocate == free_list # <<>> \/ region_index <= Len(Regions)

(* The frame the next allocate_frame returns.                              *)
TopFrame == IF free_list # <<>> THEN Last(free_list) ELSE next_frame_addr

RunsPastRegion ==
  IF free_list # <<>>
  THEN free_list' = Front(free_list) /\ UNCHANGED <<region_index, next_frame_addr>>
  ELSE /\ UNCHANGED free_list
       /\ IF next_frame_addr + 1 > Regions[region_index].end
          THEN /\ region_index' = NextUsable(region_index + 1)
               /\ next_frame_addr' = StartOf(region_index', next_frame_addr + 1)
          ELSE /\ next_frame_addr' = next_frame_addr + 1
               /\ UNCHANGED region_index

(* allocate_frame, when it returns a frame.                                *)
allocate_frame ==
  IF free_list # <<>>
  THEN free_list' = Front(free_list) /\ UNCHANGED <<region_index, next_frame_addr>>
  ELSE /\ UNCHANGED free_list
       /\ IF next_frame_addr + 1 >= Regions[region_index].end
          THEN /\ region_index' = NextUsable(region_index + 1)
               /\ next_frame_addr' = StartOf(region_index', next_frame_addr + 1)
          ELSE /\ next_frame_addr' = next_frame_addr + 1
               /\ UNCHANGED region_index

deallocate_frame(f) ==
  /\ free_list' = Append(free_list, f)
  /\ UNCHANGED <<region_index, next_frame_addr>>

(* Every caller's expect: no frame left is a panic.                        *)
Exhausted ==
  /\ ~CanAllocate
  /\ panic' = "exhausted"
  /\ UNCHANGED <<allocVars, spaceVars>>

-----------------------------------------------------------------------------
(* Mapping a page, for init_heap, map_segment and spawn_isolated alike.    *)

SharesHeapTables(s, p) ==
  IF Len(p) > 1 /\ p[1] \in SharedIndices \union {h[1] : h \in Range(HeapPages)}
  THEN Kernel ELSE s

(* The tables that hold entry p of s: below a shared top-level entry,      *)
(* which is a clone, they are the kernel's.                                *)
Home(s, p) == IF Len(p) > 1 /\ p[1] \in SharedIndices THEN Kernel ELSE s

(* Is entry p of s in use?  Then it is one of the entries in tree, or the  *)
(* bootloader has mapped a page there, perhaps a huge one around p: both   *)
(* are errors for map_to, PageAlreadyMapped and ParentEntryHugePage.       *)
InTree(s, p) == p \in DOMAIN tree[Home(s, p)]
Present(s, p) == InTree(s, p) \/ (Home(s, p) = Kernel /\ InBootPage(p))

WithEntry(s, p, f) ==
  [tree EXCEPT ![Home(s, p)] = [q \in DOMAIN @ \union {p} |-> IF q = p THEN f ELSE @[q]]]

(* The lengths of the paths to the tables page still lacks.                *)
MissingTables(s, page) ==
  {n \in 1 .. Levels - 1 : ~Present(s, SubSeq(page, 1, n))}

(* map_to allocates the missing tables from the top.                       *)
MapTable(s) ==
  /\ MayStep(s)
  /\ job[s] # NoJob
  /\ MissingTables(s, job[s].page) # {}
  /\ \/ /\ CanAllocate
        /\ allocate_frame
        /\ LET n == Min(MissingTables(s, job[s].page))
           IN  tree' = WithEntry(s, SubSeq(job[s].page, 1, n), TopFrame)
        /\ UNCHANGED <<l4, phase, plan, loading, job, stack, heap, loads, panic>>
     \/ Exhausted

(* map_to writes the leaf entry; a page that is mapped already is an       *)
(* error, on which every caller panics.                                    *)
MapLeaf(s) ==
  /\ MayStep(s)
  /\ job[s] # NoJob
  /\ MissingTables(s, job[s].page) = {}
  /\ \/ /\ ~Present(s, job[s].page)
        /\ tree' = WithEntry(s, job[s].page, job[s].frame)
        /\ job' = [job EXCEPT ![s] = NoJob]
        /\ UNCHANGED <<allocVars, l4, phase, plan, loading, stack, heap, loads, panic>>
     \/ /\ Present(s, job[s].page)
        /\ panic' = "already mapped"
        /\ UNCHANGED <<allocVars, spaceVars>>

(* Allocate a frame for page of s and start mapping it.                    *)
MapFreshPage(s, page) ==
  /\ job[s] = NoJob
  /\ \/ /\ CanAllocate
        /\ allocate_frame
        /\ job' = [job EXCEPT ![s] = [page |-> page, frame |-> TopFrame]]
        /\ plan' = IF s = Kernel THEN plan ELSE [plan EXCEPT ![s].pages = Tail(@)]
        /\ UNCHANGED <<l4, tree, phase, loading, stack, heap, loads, panic>>
     \/ Exhausted

-----------------------------------------------------------------------------
(* What a space is to hold.                                                *)

(* The indices that lead to page number n.                                 *)
PathOf(n) == [i \in 1 .. Levels |-> (n \div Span[Levels - i]) % Entries]

(* What becomes of each file, and the paths of the pages that file f asks  *)
(* for.                                                                    *)
Load == [f \in DOMAIN Files |-> load_segments_and_stack(Files[f])]
Pages(f) == [i \in DOMAIN Load[f].pages |-> PathOf(Load[f].pages[i].page)]

NoFile == 0
NoPlan == [file |-> NoFile, pages |-> <<>>, ok |-> FALSE]

(* load checks a file's fixed header before anything else, and on another  *)
(* file it returns before anything changes.  The demos that are machine    *)
(* code map one page (map_shellcode_page), the isolated kernel threads     *)
(* none; neither fails.                                                    *)
Plans ==
  {[file |-> f, pages |-> Pages(f), ok |-> Load[f].ok] :
     f \in {g \in DOMAIN Files : Files[g].headerOk}}
  \union {[file |-> NoFile, pages |-> ps, ok |-> TRUE] : ps \in RawPages}

-----------------------------------------------------------------------------
(* Boot: the kernel runs on the bootloader's tables, and init_heap maps    *)
(* the heap's pages one after the other.                                   *)
Init ==
  /\ region_index = NextUsable(1)
  /\ next_frame_addr = StartOf(region_index, 0)
  /\ free_list = <<>>
  /\ l4 = [s \in Spaces |-> NoFrame]
  /\ tree = [s \in Spaces \union {Kernel} |-> IF s = Kernel THEN BootTables ELSE <<>>]
  /\ phase = [s \in Spaces \union {Kernel} |-> IF s = Kernel THEN "booting" ELSE "none"]
  /\ plan = [s \in Spaces |-> NoPlan]
  /\ loading = <<>>
  /\ job = [s \in Spaces \union {Kernel} |-> NoJob]
  /\ stack = [s \in Spaces |-> {}]
  /\ heap = {}
  /\ loads = 0
  /\ panic = "no"

UnmappedHeap == {i \in DOMAIN HeapPages : ~Present(Kernel, HeapPages[i])}

InitHeapPage ==
  /\ panic = "no"
  /\ phase[Kernel] = "booting"
  /\ UnmappedHeap # {}
  /\ MapFreshPage(Kernel, HeapPages[Min(UnmappedHeap)])

InitHeapDone ==
  /\ panic = "no"
  /\ phase[Kernel] = "booting"
  /\ job[Kernel] = NoJob
  /\ UnmappedHeap = {}
  /\ phase' = [phase EXCEPT ![Kernel] = "up"]
  /\ UNCHANGED <<allocVars, l4, tree, plan, loading, job, stack, heap, loads, panic>>

(* new_address_space: a top-level table with clones of the shared entries. *)
NewAddressSpace(s) ==
  /\ MayStep(s)
  /\ phase[Kernel] = "up"
  /\ phase[s] = "none"
  /\ loads < MaxLoads
  /\ \/ /\ CanAllocate
        /\ allocate_frame
        /\ l4' = [l4 EXCEPT ![s] = TopFrame]
        /\ tree' = [tree EXCEPT ![s] = [p \in {<<i>> : i \in SharedIndices} |-> tree[Kernel][p]]]
        /\ phase' = [phase EXCEPT ![s] = "loading"]
        /\ \E pl \in Plans : plan' = [plan EXCEPT ![s] = pl]
        /\ loading' = Append(loading, s)
        /\ loads' = loads + 1
        /\ UNCHANGED <<job, stack, heap, panic>>
     \/ Exhausted

(* map_segment: the next page of a program.                                *)
MapSegmentPage(s) ==
  /\ MayStep(s)
  /\ phase[s] = "loading"
  /\ plan[s].pages # <<>>
  /\ MapFreshPage(s, Head(plan[s].pages))

(* load_segments_and_stack returns None: load frees the space.  Nothing in *)
(* it is borrowed.                                                         *)
LoadFails(s) ==
  /\ MayStep(s)
  /\ phase[s] = "loading"
  /\ job[s] = NoJob
  /\ plan[s].pages = <<>>
  /\ ~plan[s].ok
  /\ phase' = [phase EXCEPT ![s] = "freeing"]
  /\ UNCHANGED <<allocVars, l4, tree, plan, loading, job, stack, heap, loads, panic>>

(* The heap is first fit: it gives the first StackPages pages in a row     *)
(* that are free.                                                          *)
StackAt(b) == SubSeq(HeapPages, b, b + StackPages - 1)
FreeStack(b) == Range(StackAt(b)) \intersect heap = {}

(* spawn_isolated_inner: the heap gives a stack, from page b on...         *)
AllocateStack(s, b) ==
  LET pages == StackAt(b)
  IN  /\ MayStep(s)
      /\ phase[s] = "loading"
      /\ job[s] = NoJob
      /\ plan[s].pages = <<>>
      /\ plan[s].ok
      /\ FreeStack(b)
      /\ \A a \in 1 .. b - 1 : ~FreeStack(a)
      /\ heap' = heap \union Range(pages)
      /\ stack' = [stack EXCEPT ![s] = Range(pages)]
      /\ plan' = [plan EXCEPT ![s].pages = pages]
      /\ phase' = [phase EXCEPT ![s] = "sharing"]
      /\ UNCHANGED <<allocVars, l4, tree, loading, job, loads, panic>>

Share(s, page, frame) ==
  /\ MayStep(s)
  /\ phase[s] = "sharing"
  /\ job[s] = NoJob
  /\ job' = [job EXCEPT ![s] = [page |-> page, frame |-> frame]]
  /\ UNCHANGED <<allocVars, l4, tree, phase, loading, stack, heap, loads, panic>>

TranslatesHeapStart(s) ==
  /\ plan[s].pages # <<>>
  /\ Share(s, Head(plan[s].pages), tree[Kernel][HeapPages[1]])
  /\ plan' = [plan EXCEPT ![s].pages = Tail(@)]

(* ... its pages are mapped into the space, onto the frames the kernel's   *)
(* table has for them...                                                   *)
ShareStackPage(s) ==
  /\ plan[s].pages # <<>>
  /\ Share(s, Head(plan[s].pages), tree[Kernel][Head(plan[s].pages)])
  /\ plan' = [plan EXCEPT ![s].pages = Tail(@)]

(* ... and the thread enters the thread table.                             *)
Spawned(s) ==
  /\ MayStep(s)
  /\ phase[s] = "sharing"
  /\ job[s] = NoJob
  /\ plan[s].pages = <<>>
  /\ phase' = [phase EXCEPT ![s] = "running"]
  /\ loading' = Front(loading)
  /\ UNCHANGED <<allocVars, l4, tree, plan, job, stack, heap, loads, panic>>

(* reap_zombie gives the stack of an exited thread back to the heap, then  *)
(* calls free_address_space with the stack's range.                        *)
ReapStack(s) ==
  /\ MayStep(s)
  /\ phase[s] = "running"
  /\ phase' = [phase EXCEPT ![s] = "freeing"]
  /\ heap' = heap \ stack[s]
  /\ UNCHANGED <<allocVars, l4, tree, plan, loading, job, stack, loads, panic>>

-----------------------------------------------------------------------------
(* free_address_space and free_table.                                      *)

(* The entries the walk goes through: all but the two shared ones.         *)
Walked(s) == {p \in DOMAIN tree[s] : p[1] \notin SharedIndices}

Before(p, q) ==
  \E n \in 1 .. Levels :
    /\ {n} \subseteq DOMAIN p \intersect DOMAIN q
    /\ p[n] < q[n]
    /\ \A k \in 1 .. n - 1 : p[k] = q[k]

ParentsFirst(s) ==
  CHOOSE p \in Walked(s) : \A q \in Walked(s) \ {p} : IsPrefix(p, q) \/ Before(p, q)

(* The entry whose frame the walk comes to next: tables are read in order  *)
(* of their entries, and follow what they lead to.                         *)
NextToFree(s) ==
  CHOOSE p \in Walked(s) : \A q \in Walked(s) \ {p} : IsPrefix(q, p) \/ Before(p, q)

FreesEveryLeaf(s, p) == TRUE

(* Does the walk free the frame of p?  Not the leaves in the range of the  *)
(* stack, which belong to the heap.                                        *)
Frees(s, p) == Len(p) < Levels \/ p \notin stack[s]

FreeEntry(s) ==
  /\ MayStep(s)
  /\ phase[s] = "freeing"
  /\ Walked(s) # {}
  /\ LET p == NextToFree(s)
     IN  /\ IF Frees(s, p) THEN deallocate_frame(tree[s][p]) ELSE UNCHANGED allocVars
         /\ tree' = [tree EXCEPT ![s] = Restrict(@, DOMAIN @ \ {p})]
  /\ UNCHANGED <<l4, phase, plan, loading, job, stack, heap, loads, panic>>

(* At the end, the top-level table itself.                                 *)
FreeL4(s) ==
  /\ MayStep(s)
  /\ phase[s] = "freeing"
  /\ Walked(s) = {}
  /\ deallocate_frame(l4[s])
  /\ l4' = [l4 EXCEPT ![s] = NoFrame]
  /\ tree' = [tree EXCEPT ![s] = <<>>]
  /\ stack' = [stack EXCEPT ![s] = {}]
  /\ plan' = [plan EXCEPT ![s] = NoPlan]
  /\ phase' = [phase EXCEPT ![s] = "none"]
  /\ loading' = SelectSeq(loading, LAMBDA t : t # s)
  /\ UNCHANGED <<job, heap, loads, panic>>

-----------------------------------------------------------------------------
(* The panic handler halts for good; and the instance is done when it has  *)
(* made and freed all the spaces it may.                                   *)
Halted == panic # "no" /\ UNCHANGED vars
Done == loads = MaxLoads /\ (\A s \in Spaces : phase[s] = "none") /\ UNCHANGED vars

Next ==
  \/ InitHeapPage
  \/ InitHeapDone
  \/ \E s \in Spaces \union {Kernel} : MapTable(s) \/ MapLeaf(s)
  \/ \E s \in Spaces :
       \/ NewAddressSpace(s)
       \/ MapSegmentPage(s)
       \/ LoadFails(s)
       \/ \E b \in 1 .. Len(HeapPages) - StackPages + 1 : AllocateStack(s, b)
       \/ ShareStackPage(s)
       \/ Spawned(s)
       \/ ReapStack(s)
       \/ FreeEntry(s)
       \/ FreeL4(s)
  \/ Halted
  \/ Done

Spec == Init /\ [][Next]_vars

-----------------------------------------------------------------------------
(* Properties.                                                             *)

(* The entries of a space that are its own and no clones.                  *)
Owned(s) == {p \in DOMAIN tree[s] : p[1] \notin SharedIndices}

(* Every frame anybody holds, with the place that holds it: the free list, *)
(* top-level tables, page-table entries other than clones and borrowed     *)
(* stack pages, and the frame of a page about to be mapped.                *)
Borrowed(s, p, f) == s \in Spaces /\ p \in stack[s] /\ f = tree[Kernel][p]
Holders ==
  {<<"free", i, free_list[i]>> : i \in DOMAIN free_list}
  \union {<<"l4", s, l4[s]>> : s \in {t \in Spaces : l4[t] # NoFrame}}
  \union {<<"kernel", p, tree[Kernel][p]>> : p \in DOMAIN tree[Kernel]}
  \union (UNION {{<<s, p, tree[s][p]>> : p \in {q \in Owned(s) : ~Borrowed(s, q, tree[s][q])}} : s \in Spaces})
  \union {<<"job", s, job[s].frame>> :
            s \in {t \in Spaces \union {Kernel} :
                     job[t] # NoJob /\ ~Borrowed(t, job[t].page, job[t].frame)}}

HeldFrames == {h[3] : h \in Holders}

(* The usable frames the cursor has yet to reach.                          *)
FreshFrames ==
  {f \in UsableFrames : region_index <= Len(Regions) /\ f >= next_frame_addr}

(* The type invariant: in particular the cursor stands on a usable frame   *)
(* of its region, and only usable frames and the bootloader's are held.    *)
TypeOK ==
  /\ region_index \in 1 .. Len(Regions) + 1
  /\ region_index <= Len(Regions) =>
       /\ Usable(region_index)
       /\ next_frame_addr \in Regions[region_index].start .. Regions[region_index].end - 1
  /\ free_list \in Seq(UsableFrames)
  /\ l4 \in [Spaces -> UsableFrames \union {NoFrame}]
  /\ \A s \in Spaces \union {Kernel} :
       /\ \A p \in DOMAIN tree[s] : Len(p) \in 1 .. Levels
       /\ phase[s] \in {"none", "booting", "up", "loading", "sharing", "running", "freeing"}
       /\ job[s] # NoJob => Len(job[s].page) = Levels /\ job[s].frame \in UsableFrames
  /\ \A s \in Spaces : stack[s] \subseteq Range(HeapPages)
  /\ heap \subseteq Range(HeapPages)
  /\ panic \in {"no", "exhausted", "already mapped"}
  /\ HeldFrames \subseteq UsableFrames \union Range(BootTables)

(* No frame has two holders and none is handed out twice: not by the       *)
(* cursor and the free list, not by free_address_space freeing what the    *)
(* kernel or the heap still owns (the shared entries, the stack's pages),  *)
(* nor by freeing anything twice.  And every usable frame is ahead of the  *)
(* cursor or has a holder, so freeing a space gives back all its own       *)
(* tables and pages.  It does not give back what a program had mapped      *)
(* below a shared entry: of that the kernel's tables become the holder,    *)
(* for good (KernelTablesKept, LoadNeverPanics).                           *)
OneHolder ==
  /\ \A g, h \in Holders : g[3] = h[3] => g = h
  /\ HeldFrames \intersect FreshFrames = {}
  /\ UsableFrames \subseteq HeldFrames \union FreshFrames

(* The walk of free_table never reads a table whose frame is back in the   *)
(* allocator: what is left to free hangs from tables that are still there. *)
WalkReadsLiveTables ==
  \A s \in Spaces : \A p \in Owned(s) : \A n \in 1 .. Len(p) - 1 :
    SubSeq(p, 1, n) \in DOMAIN tree[s]

(* A thread that runs in a space has its kernel stack mapped there on the  *)
(* frames the kernel has for it, and shares it with no other thread.       *)
StacksMapped ==
  \A s \in Spaces : phase[s] = "running" =>
    /\ \A p \in stack[s] : p \in DOMAIN tree[s] /\ tree[s][p] = tree[Kernel][p]
    /\ stack[s] \subseteq heap
    /\ \A t \in Spaces \ {s} : phase[t] \in {"sharing", "running"} => stack[s] \intersect stack[t] = {}

(* The two panics that making a space can end in, and no other (the        *)
(* expects of map_segment and spawn_isolated_inner).  The kernel runs out  *)
(* of frames only when every usable frame is really in use, whatever the   *)
(* order of the regions in the memory map.  A page that is mapped already  *)
(* stops it only if a file asked for that page, never because of what the  *)
(* kernel itself maps: it is a page the file has twice, one of the heap's, *)
(* one of the bootloader's, or one below a shared entry that an earlier    *)
(* program left mapped.  load's comment says that no file makes it panic:  *)
(* see LoadNeverPanics.                                                    *)
PanicCauses ==
  /\ panic = "exhausted" => UsableFrames \subseteq {h[3] : h \in {g \in Holders : g[1] # "free"}}
  /\ panic = "already mapped" =>
       \E s \in Spaces :
         /\ job[s] # NoJob
         /\ Present(s, job[s].page)
         /\ plan[s].file # NoFile
         /\ job[s].page \in Range(Pages(plan[s].file))

(* Whatever is loaded, run, failed and freed, the kernel's own tables keep *)
(* the boot's entries and the heap's, and gain only what files ask for     *)
(* below a shared top-level entry: that is never freed, since              *)
(* free_address_space skips the entry.                                     *)
KernelTablesKept ==
  phase[Kernel] = "up" =>
    /\ DOMAIN BootTables \union Range(HeapPages) \subseteq DOMAIN tree[Kernel]
    /\ \A p \in DOMAIN tree[Kernel] \ DOMAIN BootTables :
         p[1] \in SharedIndices \/ \E h \in Range(HeapPages) : IsPrefix(p, h)

(* What the comment on load says: it "returns None - never panics" on a    *)
(* file it cannot handle, and on failure what was mapped by then is "freed *)
(* back rather than leaked".  So no file makes map_to fail.                *)
LoadNeverPanics == panic # "already mapped"

(* The spaces in which a file has been loaded.                             *)
Loaded == {s \in Spaces : phase[s] \in {"sharing", "running"} /\ plan[s].file # NoFile}
Segments(f) == {seg \in Range(Files[f].headers) : seg.type = "PT_LOAD"}

(* The stack lies above all segments, whatever their order, with a page    *)
(* between that is not mapped (the comment on STACK_SIZE).                 *)
StackAboveSegments(s) ==
  LET pages == Load[plan[s].file].pages
      bottom == pages[Len(pages) - 1].page
  IN  /\ \A seg \in Segments(plan[s].file) :
           seg.vaddr + seg.memsz <= PAGE_SIZE * (bottom - 1)
      /\ PathOf(bottom)[1] \notin SharedIndices =>
           PathOf(bottom - 1) \notin DOMAIN tree[s] \ stack[s]

(* A loaded program finds every byte of its segments in memory: the file's *)
(* bytes first, and zeros from filesz on, also where a segment begins or   *)
(* ends within a page or takes several.  Its stack is clear of them.       *)
ImageIsTheFiles ==
  \A s \in Loaded :
    /\ StackAboveSegments(s)
    /\ \A seg \in Segments(plan[s].file) : \A k \in 0 .. seg.memsz - 1 :
         \E c \in Range(Load[plan[s].file].pages) :
           /\ c.page = (seg.vaddr + k) \div PAGE_SIZE
           /\ InTree(s, PathOf(c.page))
           /\ k < seg.filesz <=> k % PAGE_SIZE < c.len
           /\ k < seg.filesz => c.from + (k % PAGE_SIZE) = seg.offset + k
=============================================================================
