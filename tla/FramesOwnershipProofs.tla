------------------------ MODULE FramesOwnershipProofs -----------------------
(***************************************************************************)
(* No frame has two holders and none is lost: the allocator's free list    *)
(* and cursor, the top-level tables, the entries of the page tables and    *)
(* the pages being mapped hold every usable frame exactly once.  Before    *)
(* that, what is left of the proof that Shape is an invariant: the pages   *)
(* that a file or a demo asks for, and the making of a space.              *)
(***************************************************************************)
EXTENDS FramesProofs

-----------------------------------------------------------------------------
(* What is asked for: every page a file or a demo asks for has a path.     *)

(* Quotient and remainder are natural numbers.                             *)
LEMMA Division ==
  ASSUME NEW n \in Nat, NEW d \in Nat \ {0}
  PROVE  n \div d \in Nat /\ (n % d) \in 0 .. d - 1 /\ n - (n % d) \in Nat
<1> DEFINE q == n \div d
           r == n % d
<1>1. q \in Int /\ r \in 0 .. d - 1 /\ n = d * q + r
  OBVIOUS
<1> HIDE DEF q, r
<1>2. q >= 0
  <2> SUFFICES ASSUME q <= 0 - 1 PROVE FALSE
    BY <1>1
  <2>1. d * q <= d * (0 - 1)
    BY <1>1
  <2> QED BY <1>1, <2>1
<1>3. d * q >= 0
  BY <1>1, <1>2
<1> QED BY <1>1, <1>2, <1>3 DEF q, r

(* The number of pages below an entry is positive.                         *)
LEMMA SpanIs ==
  ASSUME NEW k \in 0 .. Levels
  PROVE  Span[k] \in Nat \ {0}
<1> DEFINE Goes(f, n) == f = [j \in 0 .. n |-> IF j = 0 THEN 1 ELSE Entries * f[j - 1]]
           T == {n \in Nat : \E f : Goes(f, n)}
<1>1. 0 \in T
  <2>1. Goes([j \in 0 .. 0 |-> 1], 0)
    OBVIOUS
  <2> QED BY <2>1, Zenon
<1>2. ASSUME NEW n \in Nat, n \in T PROVE n + 1 \in T
  <2>1. PICK f : Goes(f, n)
    BY <1>2, Zenon
  <2> DEFINE g == [j \in 0 .. n + 1 |-> IF j <= n THEN f[j] ELSE Entries * f[j - 1]]
             h == [j \in 0 .. n + 1 |-> IF j = 0 THEN 1 ELSE Entries * g[j - 1]]
  <2>2. ASSUME NEW j \in 0 .. n + 1 PROVE g[j] = h[j]
    <3>1. j \in Nat /\ (j <= n => j \in 0 .. n) /\ (j # 0 => j - 1 \in 0 .. n + 1 /\ j - 1 <= n)
      OBVIOUS
    <3>2. j <= n => f[j] = IF j = 0 THEN 1 ELSE Entries * f[j - 1]
      BY <2>1, <3>1, Zenon
    <3>3. j # 0 => g[j - 1] = f[j - 1]
      BY <3>1, Zenon
    <3>4. g[j] = (IF j <= n THEN f[j] ELSE Entries * f[j - 1]) /\ (j > n => j # 0)
      BY <3>1
    <3>5. h[j] = IF j = 0 THEN 1 ELSE Entries * g[j - 1]
      BY Zenon
    <3> HIDE DEF g, h
    <3> QED BY <3>1, <3>2, <3>3, <3>4, <3>5
  <2>3. g = h
    <3> HIDE DEF g
    <3>1. g = [j \in 0 .. n + 1 |-> g[j]]
      BY Zenon DEF g
    <3> QED BY <2>2, <3>1, Zenon
  <2>4. Goes(g, n + 1)
    BY <2>3, Zenon
  <2>5. \E r : Goes(r, n + 1)
    <3> HIDE DEF Goes
    <3> QED BY <2>4, Zenon
  <2> QED BY <2>5
<1>3. \E f : Goes(f, Levels)
  <2> HIDE DEF T
  <2>1. Levels \in T
    BY <1>1, <1>2, Sizes, InductionOnNat, Zenon
  <2> QED BY <2>1, Zenon DEF T
<1>4. Goes(Span, Levels)
  <2> DEFINE F == CHOOSE f : Goes(f, Levels)
  <2>1. Span = F
    BY Zenon DEF Span
  <2> QED BY <1>3, <2>1, Zenon
<1> HIDE DEF Goes
<1>5. \A j \in 0 .. Levels : Span[j] = IF j = 0 THEN 1 ELSE Entries * Span[j - 1]
  BY <1>4, Zenon DEF Goes
<1> DEFINE U == {n \in Nat : n \in 0 .. Levels => Span[n] \in Nat \ {0}}
<1>6. 0 \in U
  BY <1>5, Sizes
<1>7. ASSUME NEW n \in Nat, n \in U PROVE n + 1 \in U
  <2> SUFFICES ASSUME n + 1 \in 0 .. Levels PROVE Span[n + 1] \in Nat \ {0}
    OBVIOUS
  <2>1. n \in 0 .. Levels /\ (n + 1) - 1 = n /\ n + 1 # 0
    BY Sizes
  <2>2. Span[n + 1] = Entries * Span[n] /\ Span[n] \in Nat \ {0}
    BY <1>5, <1>7, <2>1, Zenon
  <2> QED BY <2>2, Sizes
<1> HIDE DEF U
<1>8. k \in U /\ k \in Nat
  BY <1>6, <1>7, Sizes, InductionOnNat
<1> QED BY <1>8, Zenon DEF U

(* Every page number has a path, as p4_index to p1_index give it.          *)
LEMMA PathOfType == ASSUME NEW n \in Nat PROVE PathOf(n) \in PagePaths
<1>1. ASSUME NEW i \in 1 .. Levels PROVE ((n \div Span[Levels - i]) % Entries) \in Indices
  <2> DEFINE d == Span[Levels - i]
             q == n \div d
  <2>1. Levels - i \in 0 .. Levels
    BY Sizes
  <2>2. d \in Nat \ {0}
    BY <2>1, SpanIs, Zenon
  <2> HIDE DEF d
  <2>3. q \in Nat
    BY <2>2, Division, Zenon
  <2> HIDE DEF q
  <2>4. (q % Entries) \in 0 .. Entries - 1
    BY <2>3, Sizes, Division, Zenon
  <2> QED BY <2>4, Zenon DEF Indices, q, d
<1>2. PathOf(n) \in [1 .. Levels -> Indices]
  BY <1>1, Zenon DEF PathOf
<1>3. PathOf(n) \in Seq(Indices) /\ Len(PathOf(n)) = Levels
  BY <1>2, Sizes
<1> QED BY <1>3, Zenon DEF PagePaths

(* What map_segment is given and what it maps.                             *)
LoadedPages == [page : Nat, from : Int, len : Int]
IsDone(d) == d.pages \in Seq(LoadedPages) /\ d.ok \in BOOLEAN
Address == Nat \union {Overflow}

(* checked_add gives an address, or its overflow.                          *)
LEMMA Adding ==
  ASSUME NEW a \in Address, NEW b \in Nat
  PROVE  checked_add(a, b) \in Address
BY ElfAssumption DEF checked_add, Address, Overflow

(* So does try_new.                                                        *)
LEMMA Canonical == ASSUME NEW a \in Address PROVE try_new(a) \in Address
<1>1. CanonicalEnd \in Nat /\ WordSize \in Nat /\ 2 * CanonicalEnd < WordSize
  BY ElfAssumption
<1>2. a + WordSize - 2 * CanonicalEnd \in Nat \/ a = Overflow
  BY <1>1 DEF Address
<1> QED BY <1>2, Zenon DEF try_new, Address

(* map_segment asks for pages with a number.                               *)
LEMMA MapSegmentType ==
  ASSUME NEW v \in Nat, NEW m \in Nat, NEW from \in Nat, NEW size \in Nat
  PROVE  IsDone(map_segment(v, m, from, size))
<1> DEFINE end == checked_add(v, m)
           lb == IF end = Overflow THEN Overflow ELSE try_new(end - 1)
           first == v \div PAGE_SIZE
           last == lb \div PAGE_SIZE
           n == last - first + 1
           ps == [i \in 1 .. n |-> PageOf(v, from, size, i - 1)]
<1>1. IsDone(Refused) /\ IsDone(Mapped(<<>>))
  BY DEF IsDone, Refused, Mapped
<1>2. CASE m = 0 \/ lb = Overflow
  BY <1>1, <1>2, Zenon DEF map_segment
<1>3. CASE m # 0 /\ lb # Overflow
  <2>1. PAGE_SIZE \in Nat \ {0}
    BY ElfAssumption
  <2>2. end \in Address
    BY Adding, Zenon DEF Address
  <2>3. end = Overflow \/ end = v + m
    BY Zenon DEF checked_add
  <2>4. lb \in Nat
    <3> HIDE DEF end
    <3>1. CASE end = Overflow
      BY <1>3, <3>1, Zenon
    <3>2. CASE end # Overflow
      <4>1. end - 1 \in Nat
        BY <1>3, <2>3, <3>2
      <4>2. try_new(end - 1) \in Address
        BY <4>1, Canonical, Zenon DEF Address
      <4> QED BY <1>3, <3>2, <4>2, Zenon DEF Address
    <3> QED BY <3>1, <3>2, Zenon
  <2> HIDE DEF lb
  <2>5. first \in Nat /\ last \in Nat
    BY <2>1, <2>4, Division, Zenon
  <2> HIDE DEF first, last
  <2>6. n \in Int
    BY <2>5
  <2>7. ASSUME NEW i \in 1 .. n PROVE PageOf(v, from, size, i - 1) \in LoadedPages
    <3>1. i - 1 \in Nat
      BY <2>6
    <3>2. first + (i - 1) \in Nat /\ (i - 1) * PAGE_SIZE \in Int
      BY <2>1, <2>5, <3>1
    <3> QED BY <2>1, <3>2 DEF PageOf, LoadedPages, first
  <2>8. ps \in Seq(LoadedPages)
    <3>1. CASE n \in Nat
      BY <2>7, <3>1
    <3>2. CASE n \notin Nat
      <4>1. 1 .. n = {}
        BY <2>6, <3>2
      <4>2. ps = <<>>
        <5> HIDE DEF n
        <5> QED BY <4>1
      <4>3. <<>> \in Seq(LoadedPages)
        OBVIOUS
      <4> HIDE DEF ps
      <4> QED BY <4>2, <4>3, Zenon
    <3> QED BY <3>1, <3>2, Zenon
  <2>9. map_segment(v, m, from, size) \in {Refused, Mapped(ps)}
    BY <1>3, Zenon DEF map_segment, first, last, lb
  <2> HIDE DEF ps
  <2>10. IsDone(Mapped(ps))
    BY <2>8, Zenon DEF IsDone, Mapped
  <2> QED BY <1>1, <2>9, <2>10, Zenon
<1> QED BY <1>2, <1>3, Zenon

(* The loop over the program headers keeps its types.                      *)
IsLoaded(d) == d \in [pages : Seq(LoadedPages), ok : BOOLEAN, highest_mapped : Nat]

(* The loop over the headers asks for pages with a number, header by       *)
(* header.                                                                 *)
LEMMA LoadSegmentType ==
  ASSUME NEW file \in ElfFiles, NEW d, IsLoaded(d), NEW seg \in ElfHeaders
  PROVE  IsLoaded(LoadSegment(file, d, seg))
<1> DEFINE segment == map_segment(seg.vaddr, seg.memsz, seg.offset, seg.filesz)
           end == checked_add(seg.vaddr, seg.memsz)
           high == IF end > d.highest_mapped THEN end ELSE d.highest_mapped
<1>1. seg.vaddr \in Nat /\ seg.memsz \in Nat /\ seg.offset \in Nat /\ seg.filesz \in Nat
  BY Zenon DEF ElfHeaders
<1>2. d.pages \in Seq(LoadedPages) /\ d.ok \in BOOLEAN /\ d.highest_mapped \in Nat
  BY Zenon DEF IsLoaded
<1>3. segment.pages \in Seq(LoadedPages) /\ segment.ok \in BOOLEAN
  BY <1>1, MapSegmentType, Zenon DEF IsDone
<1>4. end \in Address
  BY <1>1, Adding, Zenon DEF Address
<1> HIDE DEF segment, end
<1>5. high \in Nat
  BY <1>2, <1>4 DEF Address, Overflow
<1>6. d.pages \o segment.pages \in Seq(LoadedPages)
  BY <1>2, <1>3
<1>7. LoadSegment(file, d, seg) \in
        {d, [d EXCEPT !.ok = FALSE],
         [pages |-> d.pages \o segment.pages, ok |-> segment.ok /\ end # Overflow, highest_mapped |-> high]}
  BY Zenon DEF LoadSegment, segment, end
<1> HIDE DEF high
<1>8. IsLoaded([d EXCEPT !.ok = FALSE])
  BY Zenon DEF IsLoaded
<1>9. (segment.ok /\ end # Overflow) \in BOOLEAN
  BY Zenon
<1>10. IsLoaded([pages |-> d.pages \o segment.pages, ok |-> segment.ok /\ end # Overflow, highest_mapped |-> high])
  BY <1>5, <1>6, <1>9, Zenon DEF IsLoaded
<1> QED BY <1>7, <1>8, <1>10, Zenon

(* r is the run of the loop over the first n headers.                      *)
RunsOver(r, file, n) ==
  r = [k \in 0 .. n |->
         IF k = 0 THEN [pages |-> <<>>, ok |-> TRUE, highest_mapped |-> 0]
         ELSE LoadSegment(file, r[k - 1], file.headers[k])]

(* The loop can go over any number of headers.                             *)
LEMMA RunExists ==
  ASSUME NEW file, NEW n \in Nat
  PROVE  \E r : RunsOver(r, file, n)
<1> DEFINE start == [pages |-> <<>>, ok |-> TRUE, highest_mapped |-> 0]
           T == {m \in Nat : \E r : RunsOver(r, file, m)}
<1>1. 0 \in T
  <2>1. RunsOver([k \in 0 .. 0 |-> start], file, 0)
    <3>1. \A k \in 0 .. 0 : k = 0
      OBVIOUS
    <3> HIDE DEF start
    <3> QED BY <3>1, Zenon DEF RunsOver, start
  <2> QED BY <2>1, Zenon
<1>2. ASSUME NEW m \in Nat, m \in T PROVE m + 1 \in T
  <2>1. PICK r : RunsOver(r, file, m)
    BY <1>2, Zenon
  <2> DEFINE Round(f, k) == IF k = 0 THEN start ELSE LoadSegment(file, f[k - 1], file.headers[k])
             g == [k \in 0 .. m + 1 |-> IF k <= m THEN r[k] ELSE Round(r, k)]
             h == [k \in 0 .. m + 1 |-> Round(g, k)]
  <2>2. r = [k \in 0 .. m |-> Round(r, k)]
    BY <2>1, Zenon DEF RunsOver
  <2> HIDE DEF start
  <2>3. ASSUME NEW k \in 0 .. m + 1 PROVE g[k] = h[k]
    <3>1. k \in Nat /\ (k <= m => k \in 0 .. m) /\ (k # 0 => k - 1 \in 0 .. m + 1 /\ k - 1 <= m)
      OBVIOUS
    <3>2. k \in 0 .. m => r[k] = Round(r, k)
      <4> HIDE DEF Round
      <4> QED BY <2>2, Zenon
    <3>3. k # 0 => g[k - 1] = r[k - 1]
      <4> HIDE DEF Round
      <4> QED BY <3>1, Zenon
    <3>4. g[k] = (IF k <= m THEN r[k] ELSE Round(r, k)) /\ h[k] = Round(g, k)
      <4> HIDE DEF Round
      <4> QED BY Zenon
    <3> HIDE DEF g, h
    <3>5. Round(g, k) = Round(r, k)
      BY <3>3, Zenon
    <3> HIDE DEF Round
    <3> QED BY <3>1, <3>2, <3>4, <3>5, Zenon
  <2>4. g = h
    <3> HIDE DEF Round
    <3>1. g = [k \in 0 .. m + 1 |-> g[k]] /\ h = [k \in 0 .. m + 1 |-> h[k]]
      BY Zenon
    <3> HIDE DEF g, h
    <3> QED BY <2>3, <3>1, Zenon
  <2>5. g = [k \in 0 .. m + 1 |-> Round(g, k)]
    BY <2>4, Zenon
  <2> HIDE DEF g, h
  <2>6. RunsOver(g, file, m + 1)
    BY <2>5, Zenon DEF RunsOver, start
  <2> QED BY <2>6
<1> HIDE DEF T
<1>3. n \in T
  BY <1>1, <1>2, InductionOnNat, Zenon
<1> QED BY <1>3, Zenon DEF T

(* After its last header the loop has asked for pages with a number.       *)
LEMMA LoadSegmentsType ==
  ASSUME NEW file \in ElfFiles
  PROVE  IsLoaded(LoadSegments(file))
<1> DEFINE n == Len(file.headers)
           after == CHOOSE r : RunsOver(r, file, n)
<1>1. n \in Nat /\ file.headers \in Seq(ElfHeaders)
  BY DEF ElfFiles
<1>2. LoadSegments(file) = after[n]
  BY Zenon DEF LoadSegments, RunsOver
<1>3. RunsOver(after, file, n)
  <2> HIDE DEF n
  <2> QED BY <1>1, RunExists, Zenon
<1> HIDE DEF after
<1>4. \A k \in 0 .. n : after[k] = IF k = 0 THEN [pages |-> <<>>, ok |-> TRUE, highest_mapped |-> 0]
                                   ELSE LoadSegment(file, after[k - 1], file.headers[k])
  <2> HIDE DEF n
  <2> QED BY <1>3, Zenon DEF RunsOver
<1> DEFINE T == {k \in Nat : k \in 0 .. n => IsLoaded(after[k])}
<1>5. 0 \in T
  <2>1. after[0] = [pages |-> <<>>, ok |-> TRUE, highest_mapped |-> 0]
    BY <1>1, <1>4
  <2>2. <<>> \in Seq(LoadedPages)
    OBVIOUS
  <2>3. IsLoaded(after[0])
    BY <2>1, <2>2 DEF IsLoaded
  <2> QED BY <2>3, Zenon
<1>6. ASSUME NEW k \in Nat, k \in T PROVE k + 1 \in T
  <2> SUFFICES ASSUME k + 1 \in 0 .. n PROVE IsLoaded(after[k + 1])
    OBVIOUS
  <2>1. k \in 0 .. n /\ k + 1 \in 1 .. n /\ k + 1 # 0 /\ (k + 1) - 1 = k
    BY <1>1
  <2>2. after[k + 1] = LoadSegment(file, after[k], file.headers[k + 1])
    <3> HIDE DEF n
    <3> QED BY <1>4, <2>1, Zenon
  <2>3. file.headers[k + 1] \in ElfHeaders
    BY <1>1, <2>1
  <2>4. IsLoaded(after[k])
    BY <1>6, <2>1, Zenon
  <2> QED BY <2>2, <2>3, <2>4, LoadSegmentType, Zenon
<1>7. n \in T
  <2> HIDE DEF T, n
  <2> QED BY <1>1, <1>5, <1>6, InductionOnNat, Zenon
<1>8. n \in 0 .. n
  BY <1>1
<1> QED BY <1>2, <1>7, <1>8, Zenon

(* So has the loader once the stack is placed.                             *)
LEMMA LoadType ==
  ASSUME NEW file \in ElfFiles
  PROVE  IsDone(load_segments_and_stack(file))
<1> DEFINE segments == LoadSegments(file)
           up == align_up(segments.highest_mapped)
           stack_bottom == checked_add(up, PAGE_SIZE)
           Stack == map_segment(stack_bottom, PAGE_SIZE, 0, 0)
           args_bottom == checked_add(stack_bottom, PAGE_SIZE)
           args == map_segment(args_bottom, PAGE_SIZE, 0, 0)
           Until(pages, ok) == [file |-> file, pages |-> pages, ok |-> ok]
<1>1. segments.pages \in Seq(LoadedPages) /\ segments.ok \in BOOLEAN /\ segments.highest_mapped \in Nat
  BY LoadSegmentsType, Zenon DEF IsLoaded
<1>2. PAGE_SIZE \in Nat \ {0} /\ PAGE_SIZE - 1 \in Nat /\ PAGE_SIZE \in Nat
  BY ElfAssumption
<1>3. load_segments_and_stack(file) =
        IF ~segments.ok \/ stack_bottom = Overflow \/ ~Stack.ok
        THEN Until(segments.pages, FALSE)
        ELSE IF args_bottom = Overflow \/ ~file.entryOk
        THEN Until(segments.pages \o Stack.pages, FALSE)
        ELSE Until(segments.pages \o Stack.pages \o args.pages, args.ok)
  BY Zenon DEF load_segments_and_stack
<1> HIDE DEF segments
<1>4. up \in Address
  <2> DEFINE b == checked_add(segments.highest_mapped, PAGE_SIZE - 1)
  <2>1. b \in Address
    BY <1>1, <1>2, Adding, Zenon DEF Address
  <2>2. up = IF b = Overflow THEN Overflow ELSE b - (b % PAGE_SIZE)
    BY Zenon DEF align_up
  <2> HIDE DEF b
  <2>3. b # Overflow => b \in Nat /\ b - (b % PAGE_SIZE) \in Nat
    BY <1>2, <2>1, Division, Zenon DEF Address
  <2> QED BY <2>2, <2>3, Zenon DEF Address
<1> HIDE DEF up
<1>5. stack_bottom \in Address
  BY <1>2, <1>4, Adding, Zenon
<1> HIDE DEF stack_bottom
<1>6. args_bottom \in Address
  BY <1>2, <1>5, Adding, Zenon
<1> HIDE DEF args_bottom
<1>7. stack_bottom # Overflow => Stack.pages \in Seq(LoadedPages)
  BY <1>2, <1>5, MapSegmentType, Zenon DEF IsDone, Address
<1>8. args_bottom # Overflow => args.pages \in Seq(LoadedPages) /\ args.ok \in BOOLEAN
  BY <1>2, <1>6, MapSegmentType, Zenon DEF IsDone, Address
<1> HIDE DEF Stack, args
<1>9. ASSUME NEW ps \in Seq(LoadedPages), NEW ok \in BOOLEAN PROVE IsDone(Until(ps, ok))
  BY Zenon DEF IsDone
<1> HIDE DEF Until
<1>10. CASE ~segments.ok \/ stack_bottom = Overflow \/ ~Stack.ok
  BY <1>1, <1>3, <1>9, <1>10, Zenon
<1>11. CASE ~(~segments.ok \/ stack_bottom = Overflow \/ ~Stack.ok)
  <2>1. segments.pages \o Stack.pages \in Seq(LoadedPages)
    BY <1>1, <1>7, <1>11
  <2>2. CASE args_bottom = Overflow \/ ~file.entryOk
    BY <1>3, <1>9, <1>11, <2>1, <2>2, Zenon
  <2>3. CASE ~(args_bottom = Overflow \/ ~file.entryOk)
    <3>1. (segments.pages \o Stack.pages) \o args.pages \in Seq(LoadedPages)
      BY <1>8, <2>1, <2>3
    <3> QED BY <1>3, <1>8, <1>9, <1>11, <2>3, <3>1, Zenon
  <2> QED BY <2>2, <2>3, Zenon
<1> QED BY <1>10, <1>11, Zenon

(* Every page a file asks for has a path.                                  *)
LEMMA PagesType ==
  ASSUME NEW f \in DOMAIN Files
  PROVE  Pages(f) \in Seq(PagePaths) /\ Load[f].ok \in BOOLEAN
<1> DEFINE ps == Load[f].pages
<1>1. Files[f] \in ElfFiles
  BY LoadFacts
<1>2. Load[f] = load_segments_and_stack(Files[f])
  BY Zenon DEF Load
<1>3. ps \in Seq(LoadedPages) /\ Load[f].ok \in BOOLEAN
  BY <1>1, <1>2, LoadType, Zenon DEF IsDone
<1>4. Pages(f) = [i \in DOMAIN ps |-> PathOf(ps[i].page)]
  BY Zenon DEF Pages
<1> HIDE DEF ps
<1>5. DOMAIN ps = 1 .. Len(ps) /\ Len(ps) \in Nat /\ \A i \in 1 .. Len(ps) : ps[i] \in LoadedPages
  BY <1>3
<1>6. \A i \in 1 .. Len(ps) : PathOf(ps[i].page) \in PagePaths
  BY <1>5, PathOfType, Zenon DEF LoadedPages
<1> QED BY <1>3, <1>4, <1>5, <1>6

(* What a plan is when its space is made.                                  *)
LEMMA PlansType ==
  ASSUME NEW pl \in Plans
  PROVE  /\ pl \in Records
         /\ Range(pl.pages) \subseteq (IF pl.file = NoFile THEN Raw ELSE Range(Pages(pl.file)))
         /\ pl.file = NoFile => IsInjective(pl.pages)
<1>1. CASE \E f \in DOMAIN Files : pl = [file |-> f, pages |-> Pages(f), ok |-> Load[f].ok]
  <2>1. PICK f \in DOMAIN Files : pl = [file |-> f, pages |-> Pages(f), ok |-> Load[f].ok]
    BY <1>1, Zenon
  <2>2. f # NoFile
    BY LoadFacts DEF NoFile
  <2> QED BY <2>1, <2>2, PagesType, Zenon DEF Records
<1>2. CASE \E ps \in RawPages : pl = [file |-> NoFile, pages |-> ps, ok |-> TRUE]
  <2>1. PICK ps \in RawPages : pl = [file |-> NoFile, pages |-> ps, ok |-> TRUE]
    BY <1>2, Zenon
  <2>2. Range(ps) \subseteq Raw /\ ps \in Seq(PagePaths) /\ IsInjective(ps)
    BY LoadFacts, Zenon DEF Raw
  <2> QED BY <2>1, <2>2, Zenon DEF Records
<1> QED BY <1>1, <1>2, Zenon DEF Plans

(* new_address_space keeps the shape.                                      *)
LEMMA NewAddressSpaceShape == ASSUME Shape, NEW s \in Spaces, NewAddressSpace(s) PROVE Shape'
<1>1. CASE Exhausted
  BY <1>1, Panicking, Zenon DEF Exhausted
<1>2. CASE ~Exhausted
  <2> DEFINE D == {<<i>> : i \in SharedIndices}
             new == [p \in D |-> tree[Kernel][p]]
  <2>0. /\ StateOK /\ AllocOK /\ TreeOK /\ KernelOK /\ StacksApart /\ Kernel # s
        /\ SpaceOK(s) /\ s \in All /\ Kernel \in All
    BY Names, Zenon DEF Shape, All
  <2>1. /\ phase[Kernel] = "up" /\ phase[s] = "none" /\ CanAllocate /\ allocate_frame
        /\ l4' = [l4 EXCEPT ![s] = TopFrame] /\ tree' = [tree EXCEPT ![s] = new]
        /\ phase' = [phase EXCEPT ![s] = "loading"]
        /\ \E pl \in Plans : plan' = [plan EXCEPT ![s] = pl]
        /\ UNCHANGED <<job, stack, heap, panic>>
    BY <1>2, Zenon DEF NewAddressSpace
  <2>2. AllocOK' /\ TopFrame \in UsableFrames
    BY <2>0, <2>1, Takes, Zenon
  <2>3. PICK pl \in Plans : plan' = [plan EXCEPT ![s] = pl]
    BY <2>1, Zenon
  <2>4. /\ pl \in Records
        /\ Range(pl.pages) \subseteq (IF pl.file = NoFile THEN Raw ELSE Range(Pages(pl.file)))
        /\ pl.file = NoFile => IsInjective(pl.pages)
    BY PlansType, Zenon
  <2>5. /\ D \subseteq DOMAIN BootTables /\ D \subseteq TablePaths /\ D \subseteq Paths
        /\ D \subseteq DOMAIN tree[Kernel]
    BY <2>0, BootFacts, Zenon DEF Paths, KernelOK
  <2>7. \A p \in D : Len(p) = 1 /\ p[1] \in SharedIndices
    OBVIOUS
  <2> HIDE DEF D
  <2>8. DOMAIN new = D /\ \A p \in D : new[p] \in Frame
    BY <2>0, <2>5, Zenon DEF TreeOK
  <2> HIDE DEF new
  <2>9. /\ l4' \in [Spaces -> UsableFrames \union {NoFrame}] /\ l4'[s] = TopFrame /\ TopFrame # NoFrame
        /\ \A t \in Spaces \ {s} : l4'[t] = l4[t]
    BY <2>0, <2>1, <2>2, NoValues, Zenon DEF StateOK
  <2>10. /\ phase' \in [All -> SpacePhases \union {"booting", "up"}] /\ phase'[s] = "loading"
         /\ \A t \in All \ {s} : phase'[t] = phase[t]
    BY <2>0, <2>1, Zenon DEF StateOK, SpacePhases
  <2>11. /\ plan' \in [Spaces -> Records] /\ plan'[s] = pl
         /\ \A t \in Spaces \ {s} : plan'[t] = plan[t]
    BY <2>0, <2>3, <2>4, Zenon DEF StateOK
  <2>12. tree' = [t \in All |-> tree'[t]] /\ tree'[s] = new /\ \A t \in All \ {s} : tree'[t] = tree[t]
    BY <2>0, <2>1, Zenon DEF TreeOK
  <2>13. TreeOK'
    <3>1. ASSUME NEW t \in All
          PROVE  /\ DOMAIN tree'[t] \subseteq Paths
                 /\ \A q \in DOMAIN tree'[t] : tree'[t][q] \in Frame
      <4>1. CASE t = s
        BY <2>5, <2>8, <2>12, <4>1, Zenon
      <4>2. CASE t # s
        BY <2>0, <2>12, <4>2, Zenon DEF TreeOK
      <4> QED BY <4>1, <4>2, Zenon
    <3> QED BY <2>12, <3>1, Zenon DEF TreeOK
  <2>14. StateOK'
    BY <2>0, <2>1, <2>9, <2>10, <2>11, Zenon DEF StateOK
  <2>15. StacksApart'
    <3>1. \A t \in Spaces : t # s => phase'[t] = phase[t]
      BY <2>10, Zenon DEF All
    <3> QED BY <2>0, <2>1, <2>10, <3>1, Zenon DEF StacksApart
  <2>16. \A t \in Spaces \ {s} :
           Same(t) /\ (phase[t] \in {"sharing", "running"} => stack[t] \subseteq heap')
    BY <2>1, <2>9, <2>10, <2>11, <2>12, Zenon DEF Same, All, Shape, StackOK
  <2>17. job[s] = NoJob /\ stack[s] = {}
    BY <2>0, <2>1, Zenon DEF SpaceOK
  <2>18. SpaceOK(s)'
    <3>1. Owned(s)' = {}
      BY <2>7, <2>8, <2>12, Zenon DEF Owned
    <3>2. phase'[s] \in SpacePhases
      BY <2>10, Zenon DEF SpacePhases
    <3> QED BY <2>1, <2>7, <2>8, <2>9, <2>10, <2>12, <2>17, <3>1, <3>2, Zenon DEF SpaceOK, D
  <2>19. BuildOK(s)'
    <3>1. Pending(s)' = Range(pl.pages) /\ Asked(s)' = IF pl.file = NoFile THEN Raw ELSE Range(Pages(pl.file))
      BY <2>1, <2>11, <2>17, Zenon DEF Pending, Asked
    <3>2. pl.pages \in Seq(PagePaths)
      BY <2>4, Zenon DEF Records
    <3>3. \A q \in Range(pl.pages) : Len(q) = Levels
      BY <3>2 DEF Range, PagePaths
    <3>4. \A q \in DOMAIN tree'[s] : Len(q) # Levels
      <4>1. Levels # 1
        BY Sizes
      <4> QED BY <2>7, <2>8, <2>12, <4>1, Zenon
    <3>5. Pending(s)' \intersect DOMAIN tree'[s] = {}
      BY <3>1, <3>3, <3>4, Zenon
    <3>6. Pending(s)' \subseteq Asked(s)'
      BY <2>4, <3>1, Zenon
    <3> QED BY <2>1, <2>4, <2>10, <2>11, <2>17, <3>4, <3>5, <3>6, Zenon DEF BuildOK
  <2>20. StackOK(s)'
    BY <2>10, Zenon DEF StackOK
  <2>21. tree'[Kernel] = tree[Kernel] /\ job'[Kernel] = job[Kernel] /\ phase'[Kernel] = phase[Kernel]
    BY <2>0, <2>1, <2>10, <2>12, Zenon
  <2> QED BY <2>1, <2>2, <2>13, <2>14, <2>15, <2>16, <2>18, <2>19, <2>20, <2>21, OneSpace, Zenon
<1> QED BY <1>1, <1>2, Zenon

(* The shape holds when the allocator is initialised.                      *)
LEMMA ShapeAtFirst == Init => Shape
<1> SUFFICES ASSUME Init PROVE Shape
  BY Zenon
<1>1. /\ region_index = NextUsable(1) /\ next_frame_addr = StartOf(region_index, 0) /\ free_list = <<>>
      /\ l4 = [s \in Spaces |-> NoFrame] /\ plan = [s \in Spaces |-> NoPlan]
      /\ tree = [s \in All |-> IF s = Kernel THEN BootTables ELSE <<>>]
      /\ phase = [s \in All |-> IF s = Kernel THEN "booting" ELSE "none"]
      /\ job = [s \in All |-> NoJob] /\ stack = [s \in Spaces |-> {}] /\ heap = {} /\ panic = "no"
  BY Zenon DEF Init, All
<1>2. Kernel \in All /\ \A s \in Spaces : s # Kernel /\ s \in All
  BY Names, Zenon DEF All
<1>3. AllocOK
  <2> DEFINE r == NextUsable(1)
  <2>1. r \in 1 .. Len(Regions) + 1 /\ (r <= Len(Regions) => Usable(r))
    BY NextUsableIs, Zenon
  <2> HIDE DEF r
  <2>2. r <= Len(Regions) => r \in 1 .. Len(Regions) /\ Regions[r].start < Regions[r].end
    BY <2>1, RegionFacts DEF Usable
  <2>3. next_frame_addr = IF r \in DOMAIN Regions THEN Regions[r].start ELSE 0
    BY <1>1, Zenon DEF StartOf, r
  <2>4. r <= Len(Regions) => next_frame_addr \in Regions[r].start .. Regions[r].end - 1
    BY <2>2, <2>3, RegionFacts
  <2>5. next_frame_addr \in Nat
    BY <2>3, RegionFacts, Zenon
  <2>6. free_list \in Seq(UsableFrames)
    BY <1>1
  <2>7. region_index = r
    BY <1>1, Zenon DEF r
  <2> QED BY <2>1, <2>4, <2>5, <2>6, <2>7, Zenon DEF AllocOK
<1>4. tree[Kernel] = BootTables /\ \A s \in Spaces : tree[s] = <<>> /\ DOMAIN tree[s] = {}
  BY <1>1, <1>2
<1>5. TreeOK
  <2>1. ASSUME NEW t \in All
        PROVE  /\ DOMAIN tree[t] \subseteq Paths
               /\ \A q \in DOMAIN tree[t] : tree[t][q] \in Frame
    <3>1. CASE t = Kernel
      BY <1>4, <3>1, BootFacts, Zenon DEF Paths, Frame, Range
    <3>2. CASE t # Kernel
      BY <1>4, <3>2, Zenon DEF All
    <3> QED BY <3>1, <3>2, Zenon
  <2> QED BY <1>1, <2>1, Zenon DEF TreeOK
<1>6. StateOK
  <2>1. <<>> \in Seq(PagePaths)
    OBVIOUS
  <2>2. NoPlan \in Records
    BY <2>1, Zenon DEF NoPlan, Records
  <2> QED BY <1>1, <2>2, Zenon DEF StateOK, SpacePhases
<1>7. phase[Kernel] = "booting" /\ job[Kernel] = NoJob /\ \A s \in Spaces : phase[s] = "none" /\ job[s] = NoJob
  BY <1>1, <1>2, Zenon
<1>8. KernelOK
  BY <1>4, <1>7, Zenon DEF KernelOK
<1>9. StacksApart
  BY <1>7, Zenon DEF StacksApart
<1>10. ASSUME NEW s \in Spaces PROVE SpaceOK(s) /\ BuildOK(s) /\ StackOK(s)
  <2>1. Owned(s) = {} /\ phase[s] \in SpacePhases /\ l4[s] = NoFrame /\ stack[s] = {}
    BY <1>1, <1>4, <1>7, Zenon DEF Owned, SpacePhases
  <2>2. SpaceOK(s)
    BY <1>4, <1>7, <2>1, Zenon DEF SpaceOK
  <2>3. BuildOK(s) /\ StackOK(s)
    BY <1>7, Zenon DEF BuildOK, StackOK
  <2> QED BY <2>2, <2>3, Zenon
<1> QED BY <1>3, <1>5, <1>6, <1>8, <1>9, <1>10, Zenon DEF Shape

(* Every step keeps the shape.                                             *)
LEMMA ShapeKept == Shape /\ [Next]_vars => Shape'
<1> SUFFICES ASSUME Shape, [Next]_vars PROVE Shape'
  BY Zenon
<1>1. CASE UNCHANGED vars
  <2>1. UNCHANGED <<allocVars, spaceVars, panic>> /\ panic \in {"no", "exhausted", "already mapped"}
    BY <1>1, Zenon DEF vars, Shape, StateOK
  <2> QED BY <2>1, Panicking, Zenon
<1>2. CASE InitHeapPage
  BY <1>2, InitHeapPageShape, Zenon
<1>3. CASE InitHeapDone
  BY <1>3, InitHeapDoneShape, Zenon
<1>4. ASSUME NEW s \in All, MapTable(s) \/ MapLeaf(s) PROVE Shape'
  BY <1>4, MapTableShape, MapLeafShape, Zenon
<1>5. ASSUME NEW s \in Spaces, NewAddressSpace(s) PROVE Shape'
  BY <1>5, NewAddressSpaceShape, Zenon
<1>6. ASSUME NEW s \in Spaces, MapSegmentPage(s) PROVE Shape'
  BY <1>6, FreshPageShape, Zenon DEF MapSegmentPage
<1>7. ASSUME NEW s \in Spaces, LoadFails(s) PROVE Shape'
  BY <1>7, LoadFailsShape, Zenon
<1>8. ASSUME NEW s \in Spaces, NEW b \in 1 .. Len(HeapPages) - StackPages + 1, AllocateStack(s, b)
      PROVE  Shape'
  BY <1>8, AllocateStackShape, Zenon
<1>9. ASSUME NEW s \in Spaces, ShareStackPage(s) PROVE Shape'
  BY <1>9, ShareStackPageShape, Zenon
<1>10. ASSUME NEW s \in Spaces, Spawned(s) PROVE Shape'
  BY <1>10, SpawnedShape, Zenon
<1>11. ASSUME NEW s \in Spaces, ReapStack(s) PROVE Shape'
  BY <1>11, ReapStackShape, Zenon
<1>12. ASSUME NEW s \in Spaces, FreeEntry(s) PROVE Shape'
  BY <1>12, FreeEntryShape, Zenon
<1>13. ASSUME NEW s \in Spaces, FreeL4(s) PROVE Shape'
  BY <1>13, FreeL4Shape, Zenon
<1>14. CASE Halted \/ Done
  BY <1>1, <1>14, Zenon DEF Halted, Done
<1> QED BY <1>1, <1>2, <1>3, <1>4, <1>5, <1>6, <1>7, <1>8, <1>9, <1>10, <1>11, <1>12, <1>13, <1>14, Zenon
        DEF Next, All

(* The shape holds in every state.                                         *)
LEMMA AlwaysInShape == Spec => []Shape
BY ShapeAtFirst, ShapeKept, PTL DEF Spec

-----------------------------------------------------------------------------
(* The inductive invariant, together with Shape.                           *)

Nowhere == "nowhere"
InFree(a, b, f) == a \in 1 .. Len(free_list) /\ b = Nowhere /\ f = free_list[a]
InL4(a, b, f) == a \in Spaces /\ b = Nowhere /\ l4[a] # NoFrame /\ f = l4[a]
InEntry(a, b, f) ==
  /\ a \in All /\ b \in DOMAIN tree[a] /\ f = tree[a][b]
  /\ a = Kernel \/ (b[1] \notin SharedIndices /\ ~Borrowed(a, b, f))
InJob(a, b, f) ==
  /\ a \in All /\ b = Nowhere /\ job[a] # NoJob /\ f = job[a].frame
  /\ ~Borrowed(a, job[a].page, f)

(* The place of kind k named by a and b holds frame f.                     *)
Holder(k, a, b, f) ==
  \/ k = "free" /\ InFree(a, b, f)
  \/ k = "l4" /\ InL4(a, b, f)
  \/ k = "entry" /\ InEntry(a, b, f)
  \/ k = "job" /\ InJob(a, b, f)

Held(f) == \E k, a, b : Holder(k, a, b, f)

Exclusive ==
  /\ \A k1, a1, b1, k2, a2, b2, f :
       Holder(k1, a1, b1, f) /\ Holder(k2, a2, b2, f) => k1 = k2 /\ a1 = a2 /\ b1 = b2
  /\ \A f : Held(f) => f \notin FreshFrames
  /\ \A f \in UsableFrames : Held(f) \/ f \in FreshFrames

Inv == Shape /\ Exclusive

-----------------------------------------------------------------------------
(* How frames change hands.                                                *)

(* Frame f0, which nobody else holds, comes to the place (K, A, B).        *)
LEMMA ComesTo ==
  ASSUME Exclusive, NEW K, NEW A, NEW B, NEW f0,
         \A k, a, b, f : Holder(k, a, b, f)' <=>
           (Holder(k, a, b, f) /\ f # f0) \/ (k = K /\ a = A /\ b = B /\ f = f0),
         FreshFrames' = FreshFrames \ {f0}
  PROVE  Exclusive'
<1>1. ASSUME NEW k1, NEW a1, NEW b1, NEW k2, NEW a2, NEW b2, NEW f,
             Holder(k1, a1, b1, f)', Holder(k2, a2, b2, f)'
      PROVE  k1 = k2 /\ a1 = a2 /\ b1 = b2
  BY <1>1, Zenon DEF Exclusive
<1>2. \A f : Held(f)' <=> Held(f) \/ f = f0
  BY Zenon DEF Held
<1>3. \A f : Held(f)' => f \notin FreshFrames'
  BY <1>2, Zenon DEF Exclusive
<1>4. \A f \in UsableFrames : Held(f)' \/ f \in FreshFrames'
  BY <1>2, Zenon DEF Exclusive
<1> QED BY <1>1, <1>3, <1>4, Zenon DEF Exclusive

(* If no place changes its frame and the cursor stays, each frame keeps    *)
(* its holder.                                                             *)
LEMMA Stay ==
  ASSUME Exclusive, \A k, a, b, f : Holder(k, a, b, f)' <=> Holder(k, a, b, f),
         FreshFrames' = FreshFrames
  PROVE  Exclusive'
<1>1. \A f : Held(f)' <=> Held(f)
  BY Zenon DEF Held
<1> QED BY <1>1, Zenon DEF Exclusive

(* From one place to another.                                              *)
Moved(K0, A0, B0, K, A, B, f0) ==
  \A k, a, b, f : Holder(k, a, b, f)' <=>
    \/ Holder(k, a, b, f) /\ ~(k = K0 /\ a = A0 /\ b = B0)
    \/ k = K /\ a = A /\ b = B /\ f = f0

(* If one frame moves from one place to another, it has one holder again.  *)
LEMMA Moves ==
  ASSUME Exclusive, NEW K0, NEW A0, NEW B0, NEW K, NEW A, NEW B, NEW f0,
         Holder(K0, A0, B0, f0), Moved(K0, A0, B0, K, A, B, f0), FreshFrames' = FreshFrames
  PROVE  Exclusive'
<1>1. Held(f0)
  BY Zenon DEF Held
<1>2. FreshFrames' = FreshFrames \ {f0}
  BY <1>1, Zenon DEF Exclusive
<1>3. ASSUME NEW k, NEW a, NEW b, NEW f, Holder(k, a, b, f)
      PROVE  f = f0 <=> k = K0 /\ a = A0 /\ b = B0
  <2>1. f = f0 => k = K0 /\ a = A0 /\ b = B0
    BY <1>3 DEF Exclusive
  <2>2. ASSUME k = K0, a = A0, b = B0 PROVE f = f0
    BY <1>3, <2>2 DEF Holder, InFree, InL4, InEntry, InJob
  <2> QED BY <2>1, <2>2, Zenon
<1>4. \A k, a, b, f : Holder(k, a, b, f)' <=>
        (Holder(k, a, b, f) /\ f # f0) \/ (k = K /\ a = A /\ b = B /\ f = f0)
  BY <1>3, Zenon DEF Moved
<1> QED BY <1>2, <1>4, ComesTo, Zenon

(* allocate_frame: to a place other than the free list.                    *)
Gained(K, A, B, f0) ==
  \A k, a, b, f : k # "free" =>
    (Holder(k, a, b, f)' <=> Holder(k, a, b, f) \/ (k = K /\ a = A /\ b = B /\ f = f0))

(* If the frame that allocate_frame returns goes to one place, it has one  *)
(* holder.                                                                 *)
LEMMA Allocated ==
  ASSUME Shape, Exclusive, CanAllocate, allocate_frame, NEW K, NEW A, NEW B, K # "free",
         Gained(K, A, B, TopFrame)
  PROVE  Exclusive'
<1> DEFINE n == Len(free_list)
<1>1. /\ \/ /\ Len(free_list) \in Nat \ {0} /\ TopFrame = free_list[Len(free_list)]
            /\ Len(free_list') = Len(free_list) - 1
            /\ \A i \in 1 .. Len(free_list) - 1 : free_list'[i] = free_list[i]
            /\ FreshFrames' = FreshFrames
         \/ /\ TopFrame \in FreshFrames /\ free_list' = free_list
            /\ FreshFrames' = FreshFrames \ {TopFrame}
  BY Takes, Zenon DEF Shape
<1>2. CASE /\ Len(free_list) \in Nat \ {0} /\ TopFrame = free_list[Len(free_list)]
           /\ Len(free_list') = Len(free_list) - 1
           /\ \A i \in 1 .. Len(free_list) - 1 : free_list'[i] = free_list[i]
           /\ FreshFrames' = FreshFrames
  <2>1. Holder("free", n, Nowhere, TopFrame)
    BY <1>2 DEF Holder, InFree
  <2>2. ASSUME NEW a, NEW b, NEW f PROVE InFree(a, b, f)' <=> InFree(a, b, f) /\ a # n
    <3>1. a \in 1 .. Len(free_list') <=> a \in 1 .. n /\ a # n
      BY <1>2
    <3>2. a \in 1 .. n /\ a # n => free_list'[a] = free_list[a]
      BY <1>2
    <3> QED BY <3>1, <3>2, Zenon DEF InFree
  <2> HIDE DEF n
  <2>3. ASSUME NEW k, NEW a, NEW b, NEW f
        PROVE  Holder(k, a, b, f)' <=>
                 \/ Holder(k, a, b, f) /\ ~(k = "free" /\ a = n /\ b = Nowhere)
                 \/ k = K /\ a = A /\ b = B /\ f = TopFrame
    <3>1. CASE k = "free"
      <4>1. Holder(k, a, b, f)' <=> InFree(a, b, f)'
        BY <3>1, Zenon DEF Holder
      <4>2. Holder(k, a, b, f) <=> InFree(a, b, f)
        BY <3>1, Zenon DEF Holder
      <4>3. InFree(a, b, f) => b = Nowhere
        BY Zenon DEF InFree
      <4> QED BY <2>2, <3>1, <4>1, <4>2, <4>3, Zenon
    <3>2. CASE k # "free"
      BY <3>2, Zenon DEF Gained
    <3> QED BY <3>1, <3>2, Zenon
  <2>4. Moved("free", n, Nowhere, K, A, B, TopFrame)
    BY <2>3, Zenon DEF Moved
  <2> QED BY <1>2, <2>1, <2>4, Moves, Zenon
<1>3. CASE /\ TopFrame \in FreshFrames /\ free_list' = free_list
           /\ FreshFrames' = FreshFrames \ {TopFrame}
  <2>1. ASSUME NEW k, NEW a, NEW b, NEW f
        PROVE  Holder(k, a, b, f)' <=>
                 (Holder(k, a, b, f) /\ f # TopFrame) \/ (k = K /\ a = A /\ b = B /\ f = TopFrame)
    <3>1. Holder(k, a, b, f) => f # TopFrame
      BY <1>3, Zenon DEF Exclusive, Held
    <3>2. CASE k = "free"
      <4>1. Holder(k, a, b, f)' <=> Holder(k, a, b, f)
        BY <1>3, <3>2, Zenon DEF Holder, InFree
      <4> QED BY <3>1, <3>2, <4>1, Zenon
    <3>3. CASE k # "free"
      BY <3>1, <3>3, Zenon DEF Gained
    <3> QED BY <3>2, <3>3, Zenon
  <2> QED BY <1>3, <2>1, ComesTo, Zenon
<1> QED BY <1>1, <1>2, <1>3, Zenon

(* deallocate_frame: from a place to the end of the free list.             *)
Lost(K0, A0, B0) ==
  \A k, a, b, f : k # "free" =>
    (Holder(k, a, b, f)' <=> Holder(k, a, b, f) /\ ~(k = K0 /\ a = A0 /\ b = B0))

(* If the frame that deallocate_frame is given leaves its place, the free  *)
(* list is its one holder.                                                 *)
LEMMA Freed ==
  ASSUME Shape, Exclusive, NEW f0 \in UsableFrames, deallocate_frame(f0),
         NEW K0, NEW A0, NEW B0, K0 # "free", Holder(K0, A0, B0, f0),
         Lost(K0, A0, B0)
  PROVE  Exclusive'
<1> DEFINE n == Len(free_list) + 1
<1>1. /\ FreshFrames' = FreshFrames /\ Len(free_list) \in Nat
      /\ Len(free_list') = n /\ free_list'[n] = f0
      /\ \A i \in 1 .. Len(free_list) : free_list'[i] = free_list[i]
  BY GivesBack, Zenon DEF Shape
<1>2. ASSUME NEW a, NEW b, NEW f
      PROVE  InFree(a, b, f)' <=> InFree(a, b, f) \/ (a = n /\ b = Nowhere /\ f = f0)
  <2>1. a \in 1 .. Len(free_list') <=> a \in 1 .. Len(free_list) \/ a = n
    BY <1>1
  <2>2. n \notin 1 .. Len(free_list)
    BY <1>1
  <2> HIDE DEF n
  <2> QED BY <1>1, <2>1, <2>2, Zenon DEF InFree
<1> HIDE DEF n
<1>3. ASSUME NEW k, NEW a, NEW b, NEW f
      PROVE  Holder(k, a, b, f)' <=>
               \/ Holder(k, a, b, f) /\ ~(k = K0 /\ a = A0 /\ b = B0)
               \/ k = "free" /\ a = n /\ b = Nowhere /\ f = f0
  <2>1. CASE k = "free"
    <3>1. Holder(k, a, b, f)' <=> InFree(a, b, f)'
      BY <2>1, Zenon DEF Holder
    <3>2. Holder(k, a, b, f) <=> InFree(a, b, f)
      BY <2>1, Zenon DEF Holder
    <3> QED BY <1>2, <2>1, <3>1, <3>2, Zenon
  <2>2. CASE k # "free"
    BY <2>2, Zenon DEF Lost
  <2> QED BY <2>1, <2>2, Zenon
<1>4. Moved(K0, A0, B0, "free", n, Nowhere, f0)
  BY <1>3, Zenon DEF Moved
<1> QED BY <1>1, <1>4, Moves, Zenon

-----------------------------------------------------------------------------
(* What a step leaves in its place.                                        *)

(* Which entries are shared stack pages depends on the stack and the       *)
(* kernel's tables only.                                                   *)
LEMMA BorrowedKept ==
  ASSUME Shape, KernelKeeps, NEW a, a \in Spaces => stack'[a] = stack[a], NEW b, NEW f
  PROVE  Borrowed(a, b, f)' <=> Borrowed(a, b, f)
<1>1. ASSUME a \in Spaces, b \in stack[a] PROVE tree'[Kernel][b] = tree[Kernel][b]
  <2>1. phase[a] # "none" /\ b \in Range(HeapPages)
    BY <1>1, Zenon DEF Shape, SpaceOK, StateOK
  <2> QED BY <1>1, <2>1, StackPage, Zenon DEF KernelKeeps
<1> QED BY <1>1, Zenon DEF Borrowed

(* A table, and a page below a shared entry, is no shared stack page.      *)
LEMMA NotOfStack ==
  ASSUME Shape, NEW s \in All, NEW p \in Paths, Len(p) < Levels \/ p[1] \in SharedIndices, NEW f
  PROVE  ~Borrowed(s, p, f)
<1> SUFFICES ASSUME Borrowed(s, p, f) PROVE FALSE
  BY Zenon
<1>1. p \in Range(HeapPages)
  BY Zenon DEF Borrowed, Shape, StateOK
<1>2. Len(p) = Levels /\ p[1] \notin SharedIndices /\ ~(Levels < Levels)
  BY <1>1, HeapPage, Sizes
<1> QED BY <1>2, Zenon

L4Kept == \A a, b, f : InL4(a, b, f)' <=> InL4(a, b, f)
EntriesKept == \A a, b, f : InEntry(a, b, f)' <=> InEntry(a, b, f)
JobsKept == \A a, b, f : InJob(a, b, f)' <=> InJob(a, b, f)

(* The top-level tables as holders, when they stay.                        *)
LEMMA KeepsL4 == ASSUME l4' = l4 PROVE L4Kept
BY Zenon DEF L4Kept, InL4

(* The entries as holders, when the tables and the stacks stay.            *)
LEMMA KeepsEntries ==
  ASSUME Shape, KernelKeeps, UNCHANGED <<tree, stack>>
  PROVE  EntriesKept
<1>1. ASSUME NEW a, NEW b, NEW f PROVE Borrowed(a, b, f)' <=> Borrowed(a, b, f)
  BY BorrowedKept, Zenon
<1> QED BY <1>1, Zenon DEF EntriesKept, InEntry

(* The pages being mapped as holders, when they and the stacks stay.       *)
LEMMA KeepsJobs ==
  ASSUME Shape, KernelKeeps, UNCHANGED <<job, stack>>
  PROVE  JobsKept
<1>1. ASSUME NEW a, NEW b, NEW f PROVE Borrowed(a, b, f)' <=> Borrowed(a, b, f)
  BY BorrowedKept, Zenon
<1> QED BY <1>1, Zenon DEF JobsKept, InJob

(* Nothing changes hands.                                                  *)
LEMMA NothingMoves ==
  ASSUME Exclusive, UNCHANGED allocVars, L4Kept, EntriesKept, JobsKept
  PROVE  Exclusive'
<1>1. \A k, a, b, f : Holder(k, a, b, f)' <=> Holder(k, a, b, f)
  BY DEF Holder, InFree, L4Kept, EntriesKept, JobsKept, allocVars
<1>2. FreshFrames' = FreshFrames
  BY Zenon DEF FreshFrames, allocVars
<1> QED BY <1>1, <1>2, Stay, Zenon

(* A step that leaves the allocator, the tables and the pages being mapped *)
(* alone moves no frame.                                                   *)
LEMMA NothingChanges ==
  ASSUME Shape, Exclusive, UNCHANGED allocVars, UNCHANGED <<l4, tree, job, stack>>
  PROVE  Exclusive'
<1>1. KernelKeeps
  BY Zenon DEF KernelKeeps
<1> QED BY <1>1, KeepsL4, KeepsEntries, KeepsJobs, NothingMoves, Zenon

-----------------------------------------------------------------------------
(* Every step leaves every frame one holder.                               *)

(* The entry that map_to writes is one more holder, unless it is a shared  *)
(* stack page, and no other changes.                                       *)
LEMMA EntryWritten ==
  ASSUME Shape, NEW s \in All, NEW p \in Paths, NEW f \in UsableFrames, ~Present(s, p),
         InOwnTables(s, p) \/ InKernelTables(s, p), tree' = WithEntry(s, p, f), stack' = stack
  PROVE  /\ KernelKeeps /\ Home(s, p) \in All
         /\ \A a, b, g : InEntry(a, b, g)' <=>
              InEntry(a, b, g) \/ (a = Home(s, p) /\ b = p /\ g = f /\ ~Borrowed(s, p, f))
<1> DEFINE h == Home(s, p)
<1>1. /\ h \in All /\ p \notin DOMAIN tree[h]
      /\ DOMAIN tree'[h] = DOMAIN tree[h] \union {p}
      /\ tree'[h][p] = f
      /\ \A q \in DOMAIN tree[h] : tree'[h][q] = tree[h][q]
      /\ \A t \in All \ {h} : tree'[t] = tree[t]
      /\ KernelKeeps
  BY NewEntry, Zenon DEF Shape
<1>2. /\ h # Kernel => h = s /\ p[1] \notin SharedIndices
      /\ h = Kernel => ~Borrowed(s, p, f)
  <2>1. h # Kernel => h = s /\ p[1] \notin SharedIndices
    BY Zenon DEF InOwnTables, InKernelTables, Home
  <2>2. ASSUME h = Kernel PROVE ~Borrowed(s, p, f)
    <3>1. CASE s = Kernel
      BY <3>1, Names, Zenon DEF Borrowed
    <3>2. CASE s # Kernel
      <4>1. p[1] \in SharedIndices
        BY <2>2, <3>2, Zenon DEF Home
      <4> QED BY <4>1, NotOfStack, Zenon
    <3> QED BY <3>1, <3>2, Zenon
  <2> QED BY <2>1, <2>2, Zenon
<1> HIDE DEF h
<1>3. ASSUME NEW a, NEW b, NEW g PROVE Borrowed(a, b, g)' <=> Borrowed(a, b, g)
  BY <1>1, BorrowedKept, Zenon
<1>4. ASSUME NEW a, NEW b, NEW g
      PROVE  InEntry(a, b, g)' <=> InEntry(a, b, g) \/ (a = h /\ b = p /\ g = f /\ ~Borrowed(s, p, f))
  <2>1. CASE a # h
    BY <1>1, <1>3, <2>1, Zenon DEF InEntry
  <2>2. CASE a = h /\ b # p
    BY <1>1, <1>3, <2>2, Zenon DEF InEntry
  <2>3. CASE a = h /\ b = p
    <3>1. ~InEntry(a, b, g)
      BY <1>1, <2>3, Zenon DEF InEntry
    <3>2. InEntry(a, b, g)' <=> g = f /\ (h = Kernel \/ (p[1] \notin SharedIndices /\ ~Borrowed(h, p, g)))
      BY <1>1, <1>3, <2>3, Zenon DEF InEntry
    <3> QED BY <1>2, <2>3, <3>1, <3>2, Zenon
  <2> QED BY <2>1, <2>2, <2>3, Zenon
<1> QED BY <1>1, <1>4, Zenon DEF h

(* A new table's frame comes from the allocator and goes into its entry.   *)
LEMMA MapTableKeeps == ASSUME Shape, Exclusive, NEW s \in All, MapTable(s) PROVE Exclusive'
<1>1. CASE Exhausted
  BY <1>1, NothingChanges, Zenon DEF Exhausted, spaceVars
<1>2. CASE ~Exhausted
  <2>1. PICK p \in Paths :
          /\ Len(p) < Levels /\ ~Present(s, p) /\ (InOwnTables(s, p) \/ InKernelTables(s, p))
          /\ tree' = WithEntry(s, p, TopFrame) /\ CanAllocate /\ allocate_frame
          /\ TopFrame \in UsableFrames /\ UNCHANGED <<l4, job, stack>>
    BY <1>2, MapTableWrites, Zenon
  <2>2. /\ KernelKeeps
        /\ \A a, b, g : InEntry(a, b, g)' <=>
             InEntry(a, b, g) \/ (a = Home(s, p) /\ b = p /\ g = TopFrame /\ ~Borrowed(s, p, TopFrame))
    BY <2>1, EntryWritten, Zenon
  <2>3. ~Borrowed(s, p, TopFrame)
    BY <2>1, NotOfStack, Zenon
  <2>4. L4Kept /\ JobsKept
    BY <2>1, <2>2, KeepsL4, KeepsJobs, Zenon
  <2>5. Gained("entry", Home(s, p), p, TopFrame)
    BY <2>2, <2>3, <2>4 DEF Gained, Holder, L4Kept, JobsKept
  <2> QED BY <2>1, <2>5, Allocated, Zenon
<1> QED BY <1>1, <1>2, Zenon

(* The last step of map_to moves the page's frame from the job to its      *)
(* entry.                                                                  *)
LEMMA MapLeafKeeps == ASSUME Shape, Exclusive, NEW s \in All, MapLeaf(s) PROVE Exclusive'
<1> DEFINE p == job[s].page
           f == job[s].frame
<1>1. CASE Present(s, p)
  BY <1>1, NothingChanges, Zenon DEF MapLeaf, spaceVars
<1>2. CASE ~Present(s, p)
  <2>1. /\ p \in Paths /\ (InOwnTables(s, p) \/ InKernelTables(s, p))
        /\ f \in UsableFrames /\ tree' = WithEntry(s, p, f)
        /\ job[s] # NoJob /\ job' = [job EXCEPT ![s] = NoJob]
        /\ UNCHANGED allocVars /\ UNCHANGED <<l4, stack>>
    BY <1>2, MapLeafWrites, Zenon
  <2>2. job'[s] = NoJob /\ \A a \in All \ {s} : job'[a] = job[a]
    BY <2>1, Zenon DEF Shape, StateOK
  <2>3. InJob(s, Nowhere, f) <=> ~Borrowed(s, p, f)
    BY <2>1, Zenon DEF InJob
  <2> HIDE DEF p, f
  <2>4. /\ KernelKeeps
        /\ \A a, b, g : InEntry(a, b, g)' <=>
             InEntry(a, b, g) \/ (a = Home(s, p) /\ b = p /\ g = f /\ ~Borrowed(s, p, f))
    BY <1>2, <2>1, EntryWritten, Zenon
  <2>5. ASSUME NEW a, NEW b, NEW g PROVE InJob(a, b, g)' <=> InJob(a, b, g) /\ a # s
    <3>1. ASSUME NEW c PROVE Borrowed(a, c, g)' <=> Borrowed(a, c, g)
      BY <2>1, <2>4, BorrowedKept, Zenon
    <3> QED BY <2>2, <3>1, Zenon DEF InJob
  <2>6. L4Kept
    BY <2>1, KeepsL4, Zenon
  <2>7. CASE Borrowed(s, p, f)
    <3>1. EntriesKept
      BY <2>4, <2>7, Zenon DEF EntriesKept
    <3>2. \A b, g : ~InJob(s, b, g)
      BY <2>3, <2>7, Zenon DEF InJob, f
    <3>3. JobsKept
      BY <2>5, <3>2, Zenon DEF JobsKept
    <3> QED BY <2>1, <2>6, <3>1, <3>3, NothingMoves, Zenon
  <2>8. CASE ~Borrowed(s, p, f)
    <3>1. Holder("job", s, Nowhere, f)
      BY <2>3, <2>8, Zenon DEF Holder
    <3>2. \A a, b, g : InFree(a, b, g)' <=> InFree(a, b, g)
      BY <2>1, Zenon DEF InFree, allocVars
    <3>3. \A a, b, g : InJob(a, b, g) => b = Nowhere
      BY Zenon DEF InJob
    <3>4. Moved("job", s, Nowhere, "entry", Home(s, p), p, f)
      BY <2>4, <2>5, <2>6, <2>8, <3>2, <3>3 DEF Moved, Holder, L4Kept
    <3>5. FreshFrames' = FreshFrames
      BY <2>1, Zenon DEF FreshFrames, allocVars
    <3> QED BY <3>1, <3>4, <3>5, Moves, Zenon
  <2> QED BY <2>7, <2>8, Zenon
<1> QED BY <1>1, <1>2, Zenon

(* The entries of one space as holders, when they stay.                    *)
LEMMA KeepsEntriesOf ==
  ASSUME Shape, KernelKeeps, NEW a, a \in Spaces => stack'[a] = stack[a], tree'[a] = tree[a]
  PROVE  \A b, f : InEntry(a, b, f)' <=> InEntry(a, b, f)
<1>1. ASSUME NEW b, NEW f PROVE Borrowed(a, b, f)' <=> Borrowed(a, b, f)
  BY BorrowedKept, Zenon
<1> QED BY <1>1, Zenon DEF InEntry

(* The page that one space is mapping as a holder, when it stays.          *)
LEMMA KeepsJobOf ==
  ASSUME Shape, KernelKeeps, NEW a, a \in Spaces => stack'[a] = stack[a], job'[a] = job[a]
  PROVE  \A b, f : InJob(a, b, f)' <=> InJob(a, b, f)
<1>1. ASSUME NEW b, NEW f PROVE Borrowed(a, b, f)' <=> Borrowed(a, b, f)
  BY BorrowedKept, Zenon
<1> QED BY <1>1, Zenon DEF InJob

(* A page's frame comes from the allocator and goes to the job.            *)
LEMMA FreshPageKeeps ==
  ASSUME Shape, Exclusive, NEW s \in All, s \in Spaces => phase[s] = "loading",
         NEW page \in PagePaths, MapFreshPage(s, page)
  PROVE  Exclusive'
<1>1. CASE Exhausted
  BY <1>1, NothingChanges, Zenon DEF Exhausted, spaceVars
<1>2. CASE ~Exhausted
  <2> DEFINE new == [page |-> page, frame |-> TopFrame]
  <2>1. /\ CanAllocate /\ allocate_frame /\ job[s] = NoJob /\ job' = [job EXCEPT ![s] = new]
        /\ UNCHANGED <<l4, tree, stack>>
    BY <1>2, Zenon DEF MapFreshPage
  <2>2. TopFrame \in UsableFrames
    BY <2>1, Takes, Zenon DEF Shape
  <2>3. new # NoJob /\ new.frame = TopFrame
    BY <2>2, NoValues DEF Jobs
  <2> HIDE DEF new
  <2>4. job'[s] = new /\ \A a \in All \ {s} : job'[a] = job[a]
    BY <2>1, Zenon DEF Shape, StateOK
  <2>5. KernelKeeps
    BY <2>1, Zenon DEF KernelKeeps
  <2>6. L4Kept /\ EntriesKept
    BY <2>1, <2>5, KeepsL4, KeepsEntries, Zenon
  <2>7. ASSUME NEW b, NEW f PROVE ~Borrowed(s, b, f)'
    <3>1. s \in Spaces => stack[s] = {}
      BY Zenon DEF Shape, SpaceOK
    <3> QED BY <2>1, <3>1, Zenon DEF Borrowed
  <2>8. ASSUME NEW a, NEW b, NEW f
        PROVE  InJob(a, b, f)' <=> InJob(a, b, f) \/ (a = s /\ b = Nowhere /\ f = TopFrame)
    <3>1. CASE a = s
      BY <2>1, <2>3, <2>4, <2>7, <3>1, Zenon DEF InJob
    <3>2. CASE a # s /\ a \in All
      BY <2>1, <2>4, <2>5, <3>2, KeepsJobOf, Zenon
    <3>3. CASE a \notin All
      BY <3>3, Zenon DEF InJob
    <3> QED BY <3>1, <3>2, <3>3, Zenon
  <2>9. Gained("job", s, Nowhere, TopFrame)
    BY <2>6, <2>8 DEF Gained, Holder, L4Kept, EntriesKept
  <2> QED BY <2>1, <2>9, Allocated, Zenon
<1> QED BY <1>1, <1>2, Zenon

(* A new top-level table's frame comes from the allocator.                 *)
LEMMA NewAddressSpaceKeeps ==
  ASSUME Shape, Exclusive, NEW s \in Spaces, NewAddressSpace(s) PROVE Exclusive'
<1>1. CASE Exhausted
  BY <1>1, NothingChanges, Zenon DEF Exhausted, spaceVars
<1>2. CASE ~Exhausted
  <2> DEFINE D == {<<i>> : i \in SharedIndices}
             new == [p \in D |-> tree[Kernel][p]]
  <2>1. /\ phase[s] = "none" /\ CanAllocate /\ allocate_frame
        /\ l4' = [l4 EXCEPT ![s] = TopFrame] /\ tree' = [tree EXCEPT ![s] = new]
        /\ UNCHANGED <<job, stack>>
    BY <1>2, Zenon DEF NewAddressSpace
  <2>2. TopFrame \in UsableFrames /\ TopFrame # NoFrame
    BY <2>1, Takes, NoValues, Zenon DEF Shape
  <2>3. DOMAIN new = D /\ \A p \in D : p[1] \in SharedIndices
    OBVIOUS
  <2> HIDE DEF new
  <2>4. /\ tree'[s] = new /\ \A a \in All \ {s} : tree'[a] = tree[a]
        /\ l4'[s] = TopFrame /\ \A a \in Spaces \ {s} : l4'[a] = l4[a]
        /\ l4[s] = NoFrame /\ DOMAIN tree[s] = {} /\ s # Kernel
    <3>1. tree = [t \in All |-> tree[t]] /\ s \in All /\ l4 \in [Spaces -> UsableFrames \union {NoFrame}]
      BY Zenon DEF Shape, TreeOK, StateOK, All
    <3>2. l4[s] = NoFrame /\ DOMAIN tree[s] = {} /\ s # Kernel
      BY <2>1, Names, Zenon DEF Shape, SpaceOK
    <3> QED BY <2>1, <3>1, <3>2, Zenon
  <2>5. KernelKeeps
    BY <2>4, Zenon DEF KernelKeeps, All
  <2>6. JobsKept
    BY <2>1, <2>5, KeepsJobs, Zenon
  <2>7. EntriesKept
    <3>1. ASSUME NEW a, NEW b, NEW f PROVE InEntry(a, b, f)' <=> InEntry(a, b, f)
      <4>1. CASE a = s
        <5>1. ~InEntry(a, b, f)
          BY <2>4, <4>1, Zenon DEF InEntry
        <5>2. b \in DOMAIN tree'[s] => b[1] \in SharedIndices
          BY <2>3, <2>4, Zenon
        <5> QED BY <2>4, <4>1, <5>1, <5>2, Zenon DEF InEntry
      <4>2. CASE a # s /\ a \in All
        BY <2>1, <2>4, <2>5, <4>2, KeepsEntriesOf, Zenon
      <4>3. CASE a \notin All
        BY <4>3, Zenon DEF InEntry
      <4> QED BY <4>1, <4>2, <4>3, Zenon
    <3> QED BY <3>1, Zenon DEF EntriesKept
  <2>8. \A a, b, f : InL4(a, b, f)' <=> InL4(a, b, f) \/ (a = s /\ b = Nowhere /\ f = TopFrame)
    BY <2>2, <2>4, Zenon DEF InL4
  <2>9. Gained("l4", s, Nowhere, TopFrame)
    BY <2>6, <2>7, <2>8 DEF Gained, Holder, EntriesKept, JobsKept
  <2> QED BY <2>1, <2>9, Allocated, Zenon
<1> QED BY <1>1, <1>2, Zenon

(* A stack is borrowed from the kernel: the space had no claim to its      *)
(* frames before.                                                          *)
LEMMA AllocateStackKeeps ==
  ASSUME Shape, Exclusive, NEW s \in Spaces, NEW b0 \in 1 .. Len(HeapPages) - StackPages + 1,
         AllocateStack(s, b0)
  PROVE  Exclusive'
<1> DEFINE R == Range(StackAt(b0))
<1>1. /\ phase[s] = "loading" /\ job[s] = NoJob /\ stack' = [stack EXCEPT ![s] = R]
      /\ UNCHANGED allocVars /\ UNCHANGED <<l4, tree, job>>
  BY Zenon DEF AllocateStack
<1>2. R \subseteq Range(HeapPages)
  BY StackAtIs, Zenon
<1> HIDE DEF R
<1>3. stack'[s] = R /\ \A a \in Spaces \ {s} : stack'[a] = stack[a]
  BY <1>1, Zenon DEF Shape, StateOK
<1>4. KernelKeeps /\ L4Kept /\ stack[s] = {} /\ s # Kernel
  BY <1>1, KeepsL4, Names, Zenon DEF KernelKeeps, Shape, SpaceOK
<1>5. ASSUME NEW a, NEW b, NEW f PROVE InEntry(a, b, f)' <=> InEntry(a, b, f)
  <2>1. CASE a = s
    <3>1. InEntry(a, b, f) <=> b \in DOMAIN tree[s] /\ f = tree[s][b] /\ b[1] \notin SharedIndices
      BY <1>4, <2>1, Zenon DEF InEntry, Borrowed, All
    <3>2. InEntry(a, b, f)' <=> InEntry(a, b, f) /\ ~(b \in R /\ f = tree[Kernel][b])
      BY <1>1, <1>3, <1>4, <2>1, <3>1, Zenon DEF InEntry, Borrowed, All
    <3>3. ASSUME InEntry(a, b, f), b \in R, f = tree[Kernel][b] PROVE FALSE
      <4>1. b \in DOMAIN tree[Kernel]
        BY <1>1, <1>2, <3>3, StackPage, Zenon
      <4>2. InEntry(Kernel, b, f)
        BY <3>3, <4>1, Zenon DEF InEntry, All
      <4>3. Holder("entry", s, b, f) /\ Holder("entry", Kernel, b, f)
        BY <2>1, <3>3, <4>2, Zenon DEF Holder
      <4> QED BY <1>4, <4>3, Zenon DEF Exclusive
    <3> QED BY <3>2, <3>3, Zenon
  <2>2. CASE a # s
    BY <1>1, <1>3, <1>4, <2>2, KeepsEntriesOf, Zenon
  <2> QED BY <2>1, <2>2, Zenon
<1>6. ASSUME NEW a, NEW b, NEW f PROVE InJob(a, b, f)' <=> InJob(a, b, f)
  <2>1. CASE a = s
    BY <1>1, <2>1, Zenon DEF InJob
  <2>2. CASE a # s
    BY <1>1, <1>3, <1>4, <2>2, KeepsJobOf, Zenon
  <2> QED BY <2>1, <2>2, Zenon
<1>7. EntriesKept /\ JobsKept
  BY <1>5, <1>6, Zenon DEF EntriesKept, JobsKept
<1> QED BY <1>1, <1>4, <1>7, NothingMoves, Zenon

(* Sharing a page of the stack moves no frame: it is the kernel's.         *)
LEMMA ShareStackPageKeeps ==
  ASSUME Shape, Exclusive, NEW s \in Spaces, ShareStackPage(s) PROVE Exclusive'
<1> DEFINE ps == plan[s].pages
           new == [page |-> Head(ps), frame |-> tree[Kernel][Head(ps)]]
<1>1. /\ ps # <<>> /\ phase[s] = "sharing" /\ job[s] = NoJob /\ job' = [job EXCEPT ![s] = new]
      /\ UNCHANGED allocVars /\ UNCHANGED <<l4, tree, stack>>
  BY Zenon DEF ShareStackPage, Share
<1>2. ps \in Seq(PagePaths) /\ Pending(s) = Range(ps)
  BY <1>1, PendingStep, Zenon DEF Shape
<1> HIDE DEF ps
<1>3. Head(ps) \in Range(ps)
  BY <1>1, <1>2, TakeHead
<1>4. Head(ps) \in stack[s]
  BY <1>1, <1>2, <1>3, Zenon DEF Shape, BuildOK
<1>5. new.page = Head(ps) /\ new.frame = tree[Kernel][Head(ps)]
  BY Zenon
<1> HIDE DEF new
<1>6. job'[s] = new /\ \A a \in All \ {s} : job'[a] = job[a]
  BY <1>1, Zenon DEF Shape, StateOK, All
<1>7. KernelKeeps
  BY <1>1, Zenon DEF KernelKeeps
<1>8. L4Kept /\ EntriesKept
  BY <1>1, <1>7, KeepsL4, KeepsEntries, Zenon
<1>9. ASSUME NEW a, NEW b, NEW f PROVE InJob(a, b, f)' <=> InJob(a, b, f)
  <2>1. CASE a = s
    <3>1. ~InJob(a, b, f)
      BY <1>1, <2>1, Zenon DEF InJob
    <3>2. job'[s].page \in stack'[s] /\ job'[s].frame = tree'[Kernel][job'[s].page]
      BY <1>1, <1>4, <1>5, <1>6, Zenon
    <3> QED BY <1>6, <2>1, <3>1, <3>2, Zenon DEF InJob, Borrowed
  <2>2. CASE a # s /\ a \in All
    BY <1>1, <1>6, <1>7, <2>2, KeepsJobOf, Zenon
  <2>3. CASE a \notin All
    BY <2>3, Zenon DEF InJob
  <2> QED BY <2>1, <2>2, <2>3, Zenon
<1>10. JobsKept
  BY <1>9, Zenon DEF JobsKept
<1> QED BY <1>1, <1>8, <1>10, NothingMoves, Zenon

(* The walk frees what the space holds, and passes over what it borrowed.  *)
LEMMA FreeEntryKeeps ==
  ASSUME Shape, Exclusive, NEW s \in Spaces, FreeEntry(s) PROVE Exclusive'
<1> DEFINE p == NextToFree(s)
           f0 == tree[s][p]
           new == [x \in DOMAIN tree[s] \ {p} |-> tree[s][x]]
<1>1. /\ phase[s] = "freeing" /\ Walked(s) # {}
      /\ IF Frees(s, p) THEN deallocate_frame(f0) ELSE UNCHANGED allocVars
      /\ tree' = [tree EXCEPT ![s] = new]
      /\ UNCHANGED <<l4, job, stack>>
  BY Zenon DEF FreeEntry, Restrict
<1>2. p \in Walked(s)
  BY <1>1, WalkTakes, Zenon DEF Shape
<1> HIDE DEF p
<1>3. /\ p \in Owned(s) /\ p \in DOMAIN tree[s] /\ p[1] \notin SharedIndices
      /\ f0 \in UsableFrames /\ s # Kernel /\ s \in All /\ Kernel \in All
  BY <1>2, Names, Zenon DEF Walked, Owned, Shape, SpaceOK, All
<1>4. p \in Paths /\ (Len(p) < Levels \/ Len(p) = Levels)
  BY <1>3, PathFacts, Sizes DEF Shape, TreeOK
<1>5. DOMAIN new = DOMAIN tree[s] \ {p} /\ \A q \in DOMAIN tree[s] \ {p} : new[q] = tree[s][q]
  BY Zenon
<1> HIDE DEF new
<1>6. tree'[s] = new /\ \A t \in All \ {s} : tree'[t] = tree[t]
  BY <1>1, <1>3, Zenon DEF Shape, TreeOK
<1>7. KernelKeeps
  BY <1>3, <1>6, Zenon DEF KernelKeeps
<1>8. L4Kept /\ JobsKept
  BY <1>1, <1>7, KeepsL4, KeepsJobs, Zenon
<1>9. ASSUME NEW a, NEW b, NEW f PROVE InEntry(a, b, f)' <=> InEntry(a, b, f) /\ ~(a = s /\ b = p)
  <2>1. CASE a = s
    <3>1. Borrowed(s, b, f)' <=> Borrowed(s, b, f)
      BY <1>1, <1>7, BorrowedKept, Zenon
    <3> QED BY <1>3, <1>5, <1>6, <2>1, <3>1, Zenon DEF InEntry
  <2>2. CASE a # s /\ a \in All
    BY <1>1, <1>6, <1>7, <2>2, KeepsEntriesOf, Zenon
  <2>3. CASE a \notin All
    BY <2>3, Zenon DEF InEntry
  <2> QED BY <2>1, <2>2, <2>3, Zenon
<1>10. CASE Frees(s, p)
  <2>1. ~Borrowed(s, p, f0)
    <3>1. CASE Len(p) < Levels
      BY <1>3, <1>4, <3>1, NotOfStack, Zenon
    <3>2. CASE p \notin stack[s]
      BY <3>2, Zenon DEF Borrowed
    <3> QED BY <1>10, <3>1, <3>2, Zenon DEF Frees
  <2>2. Holder("entry", s, p, f0)
    BY <1>3, <2>1, Zenon DEF Holder, InEntry
  <2>3. Lost("entry", s, p)
    BY <1>8, <1>9 DEF Lost, Holder, L4Kept, JobsKept
  <2> HIDE DEF f0
  <2> QED BY <1>1, <1>3, <1>10, <2>2, <2>3, Freed, Zenon
<1>11. CASE ~Frees(s, p)
  <2>1. Borrowed(s, p, f0)
    BY <1>1, <1>3, <1>11, Zenon DEF Frees, Borrowed, Shape, StackOK
  <2>2. \A f : ~InEntry(s, p, f)
    BY <1>3, <2>1, Zenon DEF InEntry
  <2>3. EntriesKept
    BY <1>9, <2>2, Zenon DEF EntriesKept
  <2> QED BY <1>1, <1>8, <1>11, <2>3, NothingMoves, Zenon
<1> QED BY <1>10, <1>11, Zenon

(* free_address_space gives the top-level table back at the end.           *)
LEMMA FreeL4Keeps ==
  ASSUME Shape, Exclusive, NEW s \in Spaces, FreeL4(s) PROVE Exclusive'
<1> DEFINE f0 == l4[s]
<1>1. /\ phase[s] = "freeing" /\ Walked(s) = {} /\ deallocate_frame(f0)
      /\ l4' = [l4 EXCEPT ![s] = NoFrame] /\ tree' = [tree EXCEPT ![s] = <<>>]
      /\ stack' = [stack EXCEPT ![s] = {}] /\ UNCHANGED job
  BY Zenon DEF FreeL4
<1>2. /\ f0 \in UsableFrames /\ f0 # NoFrame /\ job[s] = NoJob
      /\ s # Kernel /\ s \in All /\ Kernel \in All
  <2>1. SpaceOK(s) /\ StateOK
    BY Zenon DEF Shape
  <2>2. l4[s] # NoFrame /\ job[s] = NoJob /\ l4[s] \in UsableFrames \union {NoFrame}
    BY <1>1, <2>1, Zenon DEF SpaceOK, StateOK
  <2> QED BY <2>2, Names, NoValues, Zenon DEF All
<1>3. /\ l4'[s] = NoFrame /\ \A a \in Spaces \ {s} : l4'[a] = l4[a]
      /\ stack'[s] = {} /\ \A a \in Spaces \ {s} : stack'[a] = stack[a]
  BY <1>1, Zenon DEF Shape, StateOK
<1>4. tree'[s] = <<>> /\ \A a \in All \ {s} : tree'[a] = tree[a]
  BY <1>1, <1>2, Zenon DEF Shape, TreeOK
<1>5. KernelKeeps
  BY <1>2, <1>4, Zenon DEF KernelKeeps
<1>6. ASSUME NEW a, NEW b, NEW f PROVE InEntry(a, b, f)' <=> InEntry(a, b, f)
  <2>1. CASE a = s
    <3>1. ~InEntry(a, b, f)
      BY <1>1, <1>2, <2>1, Zenon DEF InEntry, Walked
    <3>2. DOMAIN tree'[s] = {}
      BY <1>4
    <3> QED BY <2>1, <3>1, <3>2, Zenon DEF InEntry
  <2>2. CASE a # s /\ a \in All
    BY <1>3, <1>4, <1>5, <2>2, KeepsEntriesOf, Zenon
  <2>3. CASE a \notin All
    BY <2>3, Zenon DEF InEntry
  <2> QED BY <2>1, <2>2, <2>3, Zenon
<1>7. ASSUME NEW a, NEW b, NEW f PROVE InJob(a, b, f)' <=> InJob(a, b, f)
  <2>1. CASE a = s
    BY <1>1, <1>2, <2>1, Zenon DEF InJob
  <2>2. CASE a # s
    BY <1>1, <1>3, <1>5, <2>2, KeepsJobOf, Zenon
  <2> QED BY <2>1, <2>2, Zenon
<1>8. \A a, b, f : InL4(a, b, f)' <=> InL4(a, b, f) /\ ~(a = s /\ b = Nowhere)
  BY <1>3, Zenon DEF InL4
<1>9. Lost("l4", s, Nowhere)
  BY <1>6, <1>7, <1>8 DEF Lost, Holder
<1>10. Holder("l4", s, Nowhere, f0)
  BY <1>2, Zenon DEF Holder, InL4
<1> HIDE DEF f0
<1> QED BY <1>1, <1>2, <1>9, <1>10, Freed, Zenon

(* At first the allocator has every usable frame.                          *)
LEMMA ExclusiveAtFirst == Init => Exclusive
<1> SUFFICES ASSUME Init PROVE Exclusive
  BY Zenon
<1>1. /\ region_index = NextUsable(1) /\ next_frame_addr = StartOf(region_index, 0) /\ free_list = <<>>
      /\ l4 = [s \in Spaces |-> NoFrame] /\ job = [s \in All |-> NoJob]
      /\ tree = [s \in All |-> IF s = Kernel THEN BootTables ELSE <<>>]
  BY Zenon DEF Init, All
<1>2. tree[Kernel] = BootTables /\ \A s \in All \ {Kernel} : DOMAIN tree[s] = {}
  BY <1>1 DEF All
<1>3. \A a, b, f : ~InFree(a, b, f) /\ ~InL4(a, b, f) /\ ~InJob(a, b, f)
  BY <1>1 DEF InFree, InL4, InJob
<1>4. \A a, b, f : InEntry(a, b, f) <=> a = Kernel /\ b \in DOMAIN BootTables /\ f = BootTables[b]
  BY <1>2, Zenon DEF InEntry, All
<1>5. \A k, a, b, f : Holder(k, a, b, f) <=>
        k = "entry" /\ a = Kernel /\ b \in DOMAIN BootTables /\ f = BootTables[b]
  BY <1>3, <1>4, Zenon DEF Holder
<1>6. \A f : Held(f) => f \in Range(BootTables)
  BY <1>5, Zenon DEF Held, Range
<1>7. ASSUME NEW f \in UsableFrames PROVE f \in FreshFrames
  <2>1. PICK q \in 1 .. Len(Regions) : Usable(q) /\ f \in Regions[q].start .. Regions[q].end - 1
    BY RegionFacts, Zenon
  <2>2. 1 \in 1 .. Len(Regions) + 1 /\ q >= 1
    BY RegionFacts
  <2>3. region_index <= Len(Regions) /\ f >= Regions[region_index].start
    BY <1>1, <2>1, <2>2, MovesTo, Zenon
  <2>4. region_index \in DOMAIN Regions
    <3>1. region_index \in 1 .. Len(Regions) + 1
      BY <1>1, NextUsableIs, Zenon
    <3> QED BY <2>3, <3>1, RegionFacts
  <2> QED BY <1>1, <2>3, <2>4, Zenon DEF FreshFrames, StartOf
<1>8. ASSUME NEW k1, NEW a1, NEW b1, NEW k2, NEW a2, NEW b2, NEW f,
             Holder(k1, a1, b1, f), Holder(k2, a2, b2, f)
      PROVE  k1 = k2 /\ a1 = a2 /\ b1 = b2
  BY <1>5, <1>8, BootFacts, Zenon
<1>9. \A f : Held(f) => f \notin FreshFrames
  BY <1>6, BootFacts, Zenon DEF FreshFrames
<1> QED BY <1>7, <1>8, <1>9, Zenon DEF Exclusive

(* Every step leaves each frame with one holder.                           *)
LEMMA ExclusiveKept == Shape /\ Exclusive /\ [Next]_vars => Exclusive'
<1> SUFFICES ASSUME Shape, Exclusive, [Next]_vars PROVE Exclusive'
  BY Zenon
<1>1. CASE UNCHANGED vars
  BY <1>1, NothingChanges, Zenon DEF vars, spaceVars
<1>2. CASE InitHeapPage
  <2>1. MapFreshPage(Kernel, HeapPages[Min(UnmappedHeap)]) /\ HeapPages[Min(UnmappedHeap)] \in PagePaths
    BY <1>2, NextHeapPage, Zenon DEF InitHeapPage
  <2>2. Kernel \in All /\ Kernel \notin Spaces
    BY Names, Zenon DEF All
  <2> QED BY <2>1, <2>2, FreshPageKeeps, Zenon
<1>3. CASE InitHeapDone
  BY <1>3, NothingChanges, Zenon DEF InitHeapDone
<1>4. ASSUME NEW s \in All, MapTable(s) \/ MapLeaf(s) PROVE Exclusive'
  BY <1>4, MapTableKeeps, MapLeafKeeps, Zenon
<1>5. ASSUME NEW s \in Spaces, NewAddressSpace(s) PROVE Exclusive'
  BY <1>5, NewAddressSpaceKeeps, Zenon
<1>6. ASSUME NEW s \in Spaces, MapSegmentPage(s) PROVE Exclusive'
  <2>1. /\ phase[s] = "loading" /\ plan[s].pages # <<>> /\ MapFreshPage(s, Head(plan[s].pages))
        /\ s \in All /\ plan[s].pages \in Seq(PagePaths)
    BY <1>6, PendingStep, Zenon DEF MapSegmentPage, All, Shape
  <2>2. Head(plan[s].pages) \in PagePaths
    BY <2>1
  <2> QED BY <2>1, <2>2, FreshPageKeeps, Zenon
<1>7. ASSUME NEW s \in Spaces, LoadFails(s) PROVE Exclusive'
  BY <1>7, NothingChanges, Zenon DEF LoadFails
<1>8. ASSUME NEW s \in Spaces, NEW b \in 1 .. Len(HeapPages) - StackPages + 1, AllocateStack(s, b)
      PROVE  Exclusive'
  BY <1>8, AllocateStackKeeps, Zenon
<1>9. ASSUME NEW s \in Spaces, ShareStackPage(s) PROVE Exclusive'
  BY <1>9, ShareStackPageKeeps, Zenon
<1>10. ASSUME NEW s \in Spaces, Spawned(s) PROVE Exclusive'
  BY <1>10, NothingChanges, Zenon DEF Spawned
<1>11. ASSUME NEW s \in Spaces, ReapStack(s) PROVE Exclusive'
  BY <1>11, NothingChanges, Zenon DEF ReapStack
<1>12. ASSUME NEW s \in Spaces, FreeEntry(s) PROVE Exclusive'
  BY <1>12, FreeEntryKeeps, Zenon
<1>13. ASSUME NEW s \in Spaces, FreeL4(s) PROVE Exclusive'
  BY <1>13, FreeL4Keeps, Zenon
<1>14. CASE Halted \/ Done
  BY <1>1, <1>14, Zenon DEF Halted, Done
<1> QED BY <1>1, <1>2, <1>3, <1>4, <1>5, <1>6, <1>7, <1>8, <1>9, <1>10, <1>11, <1>12, <1>13, <1>14, Zenon
        DEF Next, All

-----------------------------------------------------------------------------
(* The kernel stops only with a reason.                                    *)

Due ==
  /\ panic = "exhausted" => ~CanAllocate
  /\ panic = "already mapped" =>
       \E s \in Spaces :
         /\ job[s] # NoJob
         /\ Present(s, job[s].page)
         /\ plan[s].file # NoFile
         /\ job[s].page \in Range(Pages(plan[s].file))

(* A page that is mapped already has been asked for by a file.             *)
LEMMA FileAsked ==
  ASSUME Shape, NEW s \in All, job[s] # NoJob, Present(s, job[s].page)
  PROVE  s \in Spaces /\ plan[s].file # NoFile /\ job[s].page \in Range(Pages(plan[s].file))
<1> DEFINE p == job[s].page
<1>1. /\ p \in PagePaths /\ Len(p) = Levels
      /\ s = Kernel => p \notin DOMAIN tree[Kernel]
      /\ s \in Spaces => phase[s] \in {"loading", "sharing"}
  BY Working, Zenon DEF PagePaths
<1>2. Home(Kernel, p) = Kernel
  BY Zenon DEF Home
<1>3. s \in Spaces
  <2>1. s = Kernel => p \in Range(HeapPages)
    BY Working, Zenon
  <2> QED BY <1>1, <1>2, <2>1, HeapFacts, Zenon DEF Present, InTree, All
<1>4. BuildOK(s) /\ p \in Pending(s)
  BY <1>3, Zenon DEF Shape, Pending
<1> HIDE DEF p
<1>5. p[1] \notin SharedIndices => p \in DOMAIN tree[s]
  BY <1>3, Names, Zenon DEF Present, InTree, Home, p
<1>6. CASE phase[s] = "loading"
  <2>1. ASSUME plan[s].file = NoFile PROVE FALSE
    <3>1. p \in Raw /\ p \notin DOMAIN tree[s]
      BY <1>4, <1>6, <2>1, Zenon DEF BuildOK, Asked
    <3>2. p[1] \notin SharedIndices
      BY <3>1, LoadFacts, Zenon DEF Raw
    <3> QED BY <1>5, <3>1, <3>2, Zenon
  <2> QED BY <1>3, <1>4, <1>6, <2>1, Zenon DEF BuildOK, Asked, p
<1>7. CASE phase[s] = "sharing"
  <2>1. p \in stack[s] /\ p \in Range(HeapPages)
    BY <1>3, <1>4, <1>7, Zenon DEF BuildOK, Shape, StateOK
  <2>2. p[1] \notin SharedIndices /\ p \notin Raw
    BY <2>1, HeapPage, Zenon
  <2>3. p \in Asked(s)
    BY <1>1, <1>4, <1>5, <1>7, <2>2, Zenon DEF BuildOK
  <2> QED BY <1>3, <2>2, <2>3, Zenon DEF Asked, p
<1> QED BY <1>1, <1>3, <1>6, <1>7, Zenon

(* Every step that panics has its reason, and no later one takes it away.  *)
LEMMA DueKept == Shape /\ Due /\ [Next]_vars => Due'
<1> SUFFICES ASSUME Shape, Due, [Next]_vars PROVE Due'
  BY Zenon
<1>1. CASE UNCHANGED vars
  BY <1>1, Zenon DEF vars, allocVars, spaceVars, Due, CanAllocate, Present, InTree, Home
<1>2. CASE Exhausted
  BY <1>2, Zenon DEF Exhausted, allocVars, Due, CanAllocate
<1>3. CASE panic' = "no"
  BY <1>3, Zenon DEF Due
<1>4. ASSUME NEW s \in All, MapLeaf(s), Present(s, job[s].page) PROVE Due'
  <2>1. s \in Spaces /\ plan[s].file # NoFile /\ job[s].page \in Range(Pages(plan[s].file))
    BY <1>4, FileAsked, Zenon DEF MapLeaf
  <2>2. panic' = "already mapped" /\ UNCHANGED spaceVars /\ job[s] # NoJob
    BY <1>4, Zenon DEF MapLeaf
  <2>3. job' = job /\ plan' = plan /\ tree' = tree
    BY <2>2, Zenon DEF spaceVars
  <2>4. Present(s, job[s].page)' /\ panic' # "exhausted"
    BY <1>4, <2>2, <2>3, Zenon DEF Present, InTree, Home
  <2> QED BY <2>1, <2>2, <2>3, <2>4, Zenon DEF Due
<1>5. CASE InitHeapPage \/ InitHeapDone
  BY <1>2, <1>3, <1>5, Zenon DEF InitHeapPage, InitHeapDone, MapFreshPage
<1>6. ASSUME NEW s \in All, MapTable(s) \/ MapLeaf(s) PROVE Due'
  BY <1>2, <1>3, <1>4, <1>6, Zenon DEF MapTable, MapLeaf, MayStep
<1>7. ASSUME NEW s \in Spaces, NewAddressSpace(s) \/ MapSegmentPage(s) PROVE Due'
  BY <1>2, <1>3, <1>7, Zenon DEF NewAddressSpace, MapSegmentPage, MapFreshPage, MayStep
<1>8. ASSUME NEW s \in Spaces,
             \/ LoadFails(s) \/ ShareStackPage(s) \/ Spawned(s) \/ ReapStack(s)
             \/ FreeEntry(s) \/ FreeL4(s)
             \/ \E b \in 1 .. Len(HeapPages) - StackPages + 1 : AllocateStack(s, b)
      PROVE  Due'
  BY <1>3, <1>8, Zenon DEF LoadFails, ShareStackPage, Share, Spawned, ReapStack, FreeEntry, FreeL4,
       AllocateStack, MayStep
<1>9. CASE Halted \/ Done
  BY <1>1, <1>9, Zenon DEF Halted, Done
<1> QED BY <1>1, <1>5, <1>6, <1>7, <1>8, <1>9, Zenon DEF Next, All

-----------------------------------------------------------------------------
(* The holders, as the properties count them.                              *)

Place(k, a, b, f) ==
  IF k = "entry" THEN IF a = Kernel THEN <<"kernel", b, f>> ELSE <<a, b, f>>
  ELSE <<k, a, f>>

PlacesIn(s) == {<<s, p, tree[s][p]>> : p \in {q \in Owned(s) : ~Borrowed(s, q, tree[s][q])}}
JobPlaces ==
  {<<"job", s, job[s].frame>> :
     s \in {t \in All : job[t] # NoJob /\ ~Borrowed(t, job[t].page, job[t].frame)}}

(* The holders that OneHolder speaks of, by kind.                          *)
LEMMA HoldersAre ==
  ASSUME NEW h
  PROVE  h \in Holders <=>
           \/ h \in {<<"free", i, free_list[i]>> : i \in DOMAIN free_list}
           \/ h \in {<<"l4", s, l4[s]>> : s \in {t \in Spaces : l4[t] # NoFrame}}
           \/ h \in {<<"kernel", p, tree[Kernel][p]>> : p \in DOMAIN tree[Kernel]}
           \/ \E s \in Spaces : h \in PlacesIn(s)
           \/ h \in JobPlaces
<1> DEFINE F == {<<"free", i, free_list[i]>> : i \in DOMAIN free_list}
           T == {<<"l4", s, l4[s]>> : s \in {t \in Spaces : l4[t] # NoFrame}}
           K == {<<"kernel", p, tree[Kernel][p]>> : p \in DOMAIN tree[Kernel]}
           U == UNION {PlacesIn(s) : s \in Spaces}
<1>1. Holders = F \union T \union K \union U \union JobPlaces
  BY Zenon DEF Holders, PlacesIn, JobPlaces, All
<1>2. h \in U <=> \E s \in Spaces : h \in PlacesIn(s)
  BY Zenon
<1> SUFFICES h \in Holders <=> h \in F \/ h \in T \/ h \in K \/ h \in U \/ h \in JobPlaces
  BY <1>2, Zenon
<1> HIDE DEF F, T, K, U
<1> QED BY <1>1, Zenon

(* Every place that holds a frame is one of those holders.                 *)
LEMMA PlaceOf ==
  ASSUME Shape, NEW k, NEW a, NEW b, NEW f, Holder(k, a, b, f)
  PROVE  /\ Place(k, a, b, f) \in Holders /\ Place(k, a, b, f)[3] = f
         /\ k # "free" => Place(k, a, b, f)[1] # "free"
<1>1. CASE k = "free" /\ InFree(a, b, f)
  <2>1. a \in DOMAIN free_list
    BY <1>1 DEF InFree, Shape, AllocOK
  <2> QED BY <1>1, <2>1, Zenon DEF InFree, Place, Holders
<1>2. CASE k = "l4" /\ InL4(a, b, f)
  BY <1>2, Zenon DEF InL4, Place, Holders
<1>3. CASE k = "entry" /\ InEntry(a, b, f)
  <2>1. CASE a = Kernel
    BY <1>3, <2>1, Zenon DEF InEntry, Place, Holders
  <2>2. CASE a # Kernel
    <3>1. a \in Spaces /\ b \in Owned(a) /\ ~Borrowed(a, b, tree[a][b]) /\ f = tree[a][b]
      BY <1>3, <2>2, Zenon DEF InEntry, Owned, All
    <3>2. Place(k, a, b, f) = <<a, b, f>> /\ a # "free"
      BY <1>3, <2>2, <3>1, Names, Zenon DEF Place
    <3>3. <<a, b, f>> \in PlacesIn(a)
      BY <3>1, Zenon DEF PlacesIn
    <3>4. <<a, b, f>> \in Holders
      BY <3>1, <3>3, HoldersAre, Zenon
    <3>5. <<a, b, f>>[3] = f /\ <<a, b, f>>[1] = a
      BY Zenon
    <3> QED BY <3>2, <3>4, <3>5, Zenon
  <2> QED BY <2>1, <2>2, Zenon
<1>4. CASE k = "job" /\ InJob(a, b, f)
  <2>1. <<"job", a, f>> \in JobPlaces
    BY <1>4, Zenon DEF InJob, JobPlaces
  <2> QED BY <1>4, <2>1, HoldersAre, Zenon DEF Place
<1> QED BY <1>1, <1>2, <1>3, <1>4, Zenon DEF Holder

(* Every one of those holders is a place that holds its frame.             *)
LEMMA HolderAt ==
  ASSUME Shape, NEW h \in Holders
  PROVE  \E k, a, b : Holder(k, a, b, h[3]) /\ h = Place(k, a, b, h[3])
<1>1. CASE h \in {<<"free", i, free_list[i]>> : i \in DOMAIN free_list}
  <2>1. PICK i \in DOMAIN free_list : h = <<"free", i, free_list[i]>>
    BY <1>1, Zenon
  <2>2. i \in 1 .. Len(free_list)
    BY DEF Shape, AllocOK
  <2>3. h[3] = free_list[i] /\ Place("free", i, Nowhere, h[3]) = h
    BY <2>1, Zenon DEF Place
  <2>4. Holder("free", i, Nowhere, h[3])
    BY <2>2, <2>3, Zenon DEF Holder, InFree
  <2> QED BY <2>3, <2>4, Zenon
<1>2. CASE h \in {<<"l4", s, l4[s]>> : s \in {t \in Spaces : l4[t] # NoFrame}}
  <2>1. PICK s \in Spaces : l4[s] # NoFrame /\ h = <<"l4", s, l4[s]>>
    BY <1>2, Zenon
  <2>2. h[3] = l4[s] /\ Place("l4", s, Nowhere, h[3]) = h
    BY <2>1, Zenon DEF Place
  <2>3. Holder("l4", s, Nowhere, h[3])
    BY <2>1, <2>2, Zenon DEF Holder, InL4
  <2> QED BY <2>2, <2>3, Zenon
<1>3. CASE h \in {<<"kernel", p, tree[Kernel][p]>> : p \in DOMAIN tree[Kernel]}
  <2>1. PICK p \in DOMAIN tree[Kernel] : h = <<"kernel", p, tree[Kernel][p]>>
    BY <1>3, Zenon
  <2>2. h[3] = tree[Kernel][p] /\ Place("entry", Kernel, p, h[3]) = h
    BY <2>1, Zenon DEF Place
  <2>3. Holder("entry", Kernel, p, h[3])
    BY <2>2, Zenon DEF Holder, InEntry, All
  <2> QED BY <2>2, <2>3, Zenon
<1>4. CASE \E s \in Spaces : h \in PlacesIn(s)
  <2>1. PICK s \in Spaces : h \in PlacesIn(s)
    BY <1>4, Zenon
  <2>2. PICK p \in Owned(s) : ~Borrowed(s, p, tree[s][p]) /\ h = <<s, p, tree[s][p]>>
    BY <2>1, Zenon DEF PlacesIn
  <2>3. h[3] = tree[s][p] /\ Place("entry", s, p, h[3]) = h
    BY <2>2, Names, Zenon DEF Place
  <2>4. Holder("entry", s, p, h[3])
    BY <2>2, <2>3, Zenon DEF Holder, InEntry, Owned, All
  <2> QED BY <2>3, <2>4, Zenon
<1>5. CASE h \in JobPlaces
  <2>1. PICK s \in All : /\ job[s] # NoJob /\ ~Borrowed(s, job[s].page, job[s].frame)
                         /\ h = <<"job", s, job[s].frame>>
    BY <1>5, Zenon DEF JobPlaces
  <2>2. h[3] = job[s].frame /\ Place("job", s, Nowhere, h[3]) = h
    BY <2>1, Zenon DEF Place
  <2>3. Holder("job", s, Nowhere, h[3])
    BY <2>1, <2>2, Zenon DEF Holder, InJob
  <2> QED BY <2>2, <2>3, Zenon
<1> QED BY <1>1, <1>2, <1>3, <1>4, <1>5, HoldersAre, Zenon

(* A frame is held in the one sense exactly if it is in the other.         *)
LEMMA HeldIs == ASSUME Shape, NEW f PROVE f \in HeldFrames <=> Held(f)
<1>1. ASSUME f \in HeldFrames PROVE Held(f)
  BY <1>1, HolderAt DEF HeldFrames, Held
<1>2. ASSUME Held(f) PROVE f \in HeldFrames
  <2>1. PICK k, a, b : Holder(k, a, b, f)
    BY <1>2, Zenon DEF Held
  <2> QED BY <2>1, PlaceOf DEF HeldFrames
<1> QED BY <1>1, <1>2, Zenon

(* Only the usable frames and the bootloader's are held.                   *)
LEMMA HeldAreFrames == ASSUME Shape PROVE HeldFrames \subseteq Frame
<1> SUFFICES ASSUME NEW k, NEW a, NEW b, NEW f, Holder(k, a, b, f) PROVE f \in Frame
  BY HeldIs, Zenon DEF Held
<1>1. CASE InFree(a, b, f)
  BY <1>1 DEF InFree, Shape, AllocOK, Frame
<1>2. CASE InL4(a, b, f)
  BY <1>2, Zenon DEF InL4, Shape, StateOK, Frame
<1>3. CASE InEntry(a, b, f)
  BY <1>3, Zenon DEF InEntry, Shape, TreeOK
<1>4. CASE InJob(a, b, f)
  BY <1>4, Working, Zenon DEF InJob, Frame
<1> QED BY <1>1, <1>2, <1>3, <1>4, Zenon DEF Holder

(* OneHolder is what the invariant says of the places.                     *)
LEMMA OneHolderEach == ASSUME Shape, Exclusive PROVE OneHolder
<1>1. HeldFrames \intersect FreshFrames = {} /\ UsableFrames \subseteq HeldFrames \union FreshFrames
  BY HeldIs, Zenon DEF Exclusive
<1>2. ASSUME NEW h1 \in Holders, NEW h2 \in Holders, h1[3] = h2[3] PROVE h1 = h2
  <2>1. PICK k1, a1, b1 : Holder(k1, a1, b1, h1[3]) /\ h1 = Place(k1, a1, b1, h1[3])
    BY HolderAt, Zenon
  <2>2. PICK k2, a2, b2 : Holder(k2, a2, b2, h2[3]) /\ h2 = Place(k2, a2, b2, h2[3])
    BY HolderAt, Zenon
  <2>3. k1 = k2 /\ a1 = a2 /\ b1 = b2
    BY <1>2, <2>1, <2>2, Zenon DEF Exclusive
  <2> QED BY <1>2, <2>1, <2>2, <2>3, Zenon
<1> QED BY <1>1, <1>2, Zenon DEF OneHolder

-----------------------------------------------------------------------------
(* The theorems.                                                           *)

(* The invariant holds in every state.                                     *)
LEMMA AlwaysInv == Spec => []Inv
<1>1. Init => Inv
  BY ShapeAtFirst, ExclusiveAtFirst, Zenon DEF Inv
<1>2. Inv /\ [Next]_vars => Inv'
  BY ShapeKept, ExclusiveKept, Zenon DEF Inv
<1> QED BY <1>1, <1>2, PTL DEF Spec

(* The state keeps its types through boot, loads, exits and panics; in     *)
(* particular BootInfoFrameAllocator's cursor always stands on a usable    *)
(* frame, and page tables hold usable frames and the bootloader's only.    *)
THEOREM TypeCorrect == Spec => []TypeOK
<1>1. ASSUME Shape PROVE TypeOK
  <2>1. ASSUME NEW s \in All
        PROVE  /\ \A p \in DOMAIN tree[s] : Len(p) \in 1 .. Levels
               /\ phase[s] \in {"none", "booting", "up", "loading", "sharing", "running", "freeing"}
               /\ job[s] # NoJob => Len(job[s].page) = Levels /\ job[s].frame \in UsableFrames
    <3>1. \A p \in DOMAIN tree[s] : Len(p) \in 1 .. Levels
      BY <1>1, PathFacts, Zenon DEF Shape, TreeOK
    <3>2. phase[s] \in SpacePhases \union {"booting", "up"}
      BY <1>1, Zenon DEF Shape, StateOK
    <3>3. job[s] # NoJob => Len(job[s].page) = Levels /\ job[s].frame \in UsableFrames
      BY <1>1, Working, Zenon DEF PagePaths
    <3> QED BY <3>1, <3>2, <3>3, Zenon DEF SpacePhases
  <2>2. HeldFrames \subseteq UsableFrames \union Range(BootTables)
    BY <1>1, HeldAreFrames, Zenon DEF Frame
  <2> QED BY <1>1, <2>1, <2>2, Zenon DEF TypeOK, Shape, AllocOK, StateOK, All
<1> QED BY <1>1, AlwaysInShape, PTL

(* Every frame has one holder: allocate_frame hands none out twice,        *)
(* free_address_space frees nothing twice and nothing that the kernel or   *)
(* the heap still owns, and no frame is lost.                              *)
THEOREM FramesHaveOneHolder == Spec => []OneHolder
<1>1. Inv => OneHolder
  BY OneHolderEach, Zenon DEF Inv
<1> QED BY <1>1, AlwaysInv, PTL

(* The walk of free_table comes to an entry only through tables that have  *)
(* not been given back to the allocator.                                   *)
THEOREM WalkIsSafe == Spec => []WalkReadsLiveTables
<1>1. Shape => WalkReadsLiveTables
  BY Zenon DEF Shape, SpaceOK, WalkReadsLiveTables
<1> QED BY <1>1, AlwaysInShape, PTL

(* A thread that spawn_isolated has started finds its kernel stack in its  *)
(* own table, on the kernel's frames, and no other thread has a page of it.*)
THEOREM StacksAreMapped == Spec => []StacksMapped
<1>1. ASSUME Shape PROVE StacksMapped
  <2> SUFFICES ASSUME NEW s \in Spaces, phase[s] = "running"
               PROVE  /\ \A p \in stack[s] : p \in DOMAIN tree[s] /\ tree[s][p] = tree[Kernel][p]
                      /\ stack[s] \subseteq heap
                      /\ \A t \in Spaces \ {s} :
                           phase[t] \in {"sharing", "running"} => stack[s] \intersect stack[t] = {}
    BY Zenon DEF StacksMapped
  <2>1. StackOK(s) /\ StacksApart
    BY <1>1, Zenon DEF Shape
  <2> QED BY <2>1, Zenon DEF StackOK, StacksApart
<1> QED BY <1>1, AlwaysInShape, PTL

(* The kernel's own tables keep the bootloader's entries and init_heap's,  *)
(* and gain only entries below those new_address_space shares.             *)
THEOREM KernelTablesAreKept == Spec => []KernelTablesKept
<1>1. Shape => KernelTablesKept
  BY Zenon DEF Shape, KernelOK, KernelTablesKept
<1> QED BY <1>1, AlwaysInShape, PTL

(* The expects of the callers of allocate_frame fail only when no usable   *)
(* frame is free, and those of the callers of map_to only for a page that  *)
(* a file asked for: never for a page of the kernel's own choosing, and    *)
(* for any file, one that crosses the canonical boundary or asks for a     *)
(* page of the bootloader's included.                                      *)
THEOREM PanicsHaveTheseCauses == Spec => []PanicCauses
<1>1. Init => Due
  BY Zenon DEF Init, Due
<1>2. Spec => []Due
  BY <1>1, DueKept, AlwaysInShape, PTL DEF Spec
<1>3. ASSUME Inv, Due PROVE PanicCauses
  <2>1. ASSUME panic = "exhausted", NEW f \in UsableFrames
        PROVE  f \in {h[3] : h \in {g \in Holders : g[1] # "free"}}
    <3>1. free_list = <<>> /\ ~(region_index <= Len(Regions))
      BY <1>3, <2>1, Zenon DEF Due, CanAllocate
    <3>2. f \notin FreshFrames
      BY <3>1, Zenon DEF FreshFrames
    <3>3. PICK k, a, b : Holder(k, a, b, f)
      BY <1>3, <3>2, Zenon DEF Inv, Exclusive, Held
    <3>4. k # "free"
      BY <3>1, <3>3 DEF Holder, InFree
    <3> DEFINE h == Place(k, a, b, f)
    <3>5. h \in Holders /\ h[3] = f /\ h[1] # "free"
      BY <1>3, <3>3, <3>4, PlaceOf DEF Inv
    <3> HIDE DEF h
    <3> QED BY <3>5, Zenon
  <2> QED BY <1>3, <2>1, Zenon DEF Due, PanicCauses
<1> QED BY <1>2, <1>3, AlwaysInv, PTL
====
