----------------------------- MODULE Fat16Proofs ----------------------------
(***************************************************************************)
(* read_file returns the file, reads only where its links lead, and stops  *)
(* the kernel only for the reasons that PanicsOnlyOnBadVolume lists, for   *)
(* every size of sectors, clusters, FATs and directories, for every        *)
(* content of the directory and of the FAT, and for every drive: see       *)
(* module Fat16.                                                           *)
(***************************************************************************)
EXTENDS Fat16, FiniteSetTheorems, TLAPS

-----------------------------------------------------------------------------
(* The inductive invariant.                                                *)

Places == Int \X Int

DiskOK ==
  /\ sectors_per_cluster \in SectorsPerCluster
  /\ fat \in [OnDisk -> Words]
  /\ directory \in Directories
  /\ first_cluster \in Words
  /\ file_size \in FileSizes

Opening == pc = "open" => slot = 1 /\ data = <<>> /\ sector = 0

(* find_in_root_dir has passed no end mark and not the file, and has read  *)
(* a sector of the directory.                                              *)
Searching ==
  pc = "search" => /\ slot \in 1 .. SlotsOnDisk + 1
                   /\ data = <<>> /\ sector = 0
                   /\ \A j \in 1 .. slot - 1 : directory[j] \notin {"end", "name"}
                   /\ slot > 1 => lba \in first_root_dir_sector
                                          .. first_root_dir_sector + root_dir_sector_count - 1

Found ==
  \E i \in DOMAIN directory : directory[i] = "name" /\ \A j \in 1 .. i : directory[j] # "end"

Finds == /\ pc = "none" => ~Found
         /\ pc \in {"walk", "next", "some", "overflow", "allocation"} => Found

(* k clusters have been read as a whole, and the loop is in the next.      *)
Walking ==
  pc = "walk" => \E k \in 0 .. Longest :
    /\ Linked(k + 1)
    /\ k + 1 <= Longest
    /\ cluster = chain[k + 1]
    /\ Len(data) = k * ClusterBytes + sector * SECTOR_SIZE
    /\ Len(data) < file_size

(* k + 1 clusters have been read, and the file goes on.                    *)
Advancing ==
  pc = "next" => \E k \in 0 .. Longest :
    /\ Linked(k + 1)
    /\ k + 1 <= Longest
    /\ cluster = chain[k + 1]
    /\ cluster \in OnDisk
    /\ Len(data) = (k + 1) * ClusterBytes
    /\ Len(data) < file_size
    /\ sector = 0

(* The file is complete, or its chain ended after k clusters.              *)
Done ==
  pc = "some" => \E k \in 0 .. Longest :
    /\ Linked(k)
    /\ Len(data) <= k * ClusterBytes
    /\ \/ Len(data) = file_size
       \/ Len(data) = k * ClusterBytes /\ k + 1 <= Longest /\ ~Linked(k + 1)

InDataArea ==
  \A n \in 1 .. Len(data) :
    /\ data[n][1] >= first_data_sector
    /\ chain[(n - 1) \div ClusterBytes + 1] \in Clusters =>
         data[n][1] <= first_data_sector + NumClusters * sectors_per_cluster - 1

InFat ==
  pc = "walk" /\ data # <<>> /\ sector = 0 =>
    \/ chain[Len(data) \div ClusterBytes] \notin Clusters
    \/ lba \in ReservedSectors .. ReservedSectors + FatSectors - 1

BytesInOrder == \A n \in 0 .. Len(data) - 1 : data[n + 1] = ByteAt(n)

SmallSector == lba \in Nat /\ lba < LBA28

Inv ==
  /\ DiskOK
  /\ TypeOK
  /\ data \in Seq(Places)
  /\ SmallSector
  /\ Opening /\ Searching /\ Finds
  /\ Walking /\ Advancing /\ Done /\ PanicsOnlyOnBadVolume
  /\ InDataArea /\ InFat /\ BytesInOrder

-----------------------------------------------------------------------------
(* Arithmetic.                                                             *)

(* What the assumptions on the volume say.                                 *)
LEMMA Constants ==
  /\ SECTOR_SIZE \in Nat \ {0} /\ DIR_ENTRY_SIZE \in Nat \ {0} /\ DIR_ENTRY_SIZE <= SECTOR_SIZE
  /\ ReservedSectors \in U16 /\ FatSectors \in U16 /\ RootEntries \in U16 /\ NumFats \in U8
  /\ NumClusters \in Nat /\ DiskSectors \in Nat /\ HeapFree \in Nat
  /\ NumClusters + 1 < BAD_CLUSTER
  /\ (NumClusters + 2) * 2 <= FatSectors * SECTOR_SIZE
  /\ \A s \in SectorsPerCluster : s \in U8 \ {0}
  /\ \A w \in Words : w \in U16
  /\ \A s \in FileSizes : s \in Nat
  /\ \A d \in Directories : d \in [1 .. SlotsOnDisk -> DirSlots]
BY Fat16Assumption, Zenon

(* The 8-bit and 16-bit fields are natural numbers.                        *)
LEMMA Widths ==
  /\ \A n \in U8 : n \in Nat /\ n <= 255
  /\ \A n \in U16 : n \in Nat /\ n <= 65535
BY SMT DEF U8, U16

(* The words that end a chain are those from 0xFFF7 on.                    *)
LEMMA Marks ==
  ASSUME NEW w \in U16
  PROVE  (w >= FIRST_END \/ w = BAD_CLUSTER) <=> ~(w < BAD_CLUSTER)
<1>1. w \in Int
  BY Widths, SMT
<1>2. w >= FIRST_END => ~(w < BAD_CLUSTER)
  BY <1>1, SMT DEF FIRST_END, BAD_CLUSTER
<1>3. w = BAD_CLUSTER => ~(w < BAD_CLUSTER)
  BY <1>1, SMT DEF BAD_CLUSTER
<1>4. ~(w < BAD_CLUSTER) => w >= FIRST_END \/ w = BAD_CLUSTER
  BY <1>1, SMT DEF FIRST_END, BAD_CLUSTER
<1> QED BY <1>2, <1>3, <1>4, Zenon

(* The fields of the parameter block are natural numbers.                  *)
LEMMA Fields ==
  /\ ReservedSectors \in Nat /\ FatSectors \in Nat /\ RootEntries \in Nat /\ NumFats \in Nat
  /\ \A s \in SectorsPerCluster : s \in Nat \ {0}
  /\ \A w \in Words : w \in Nat
<1>1. U8 \subseteq Nat /\ U16 \subseteq Nat
  BY SMT DEF U8, U16
<1> QED BY <1>1, Constants, Zenon

(* The min of read_file's take.                                            *)
LEMMA MinOfTwo ==
  ASSUME NEW a \in Nat, NEW b \in Nat
  PROVE  Min({a, b}) = IF a <= b THEN a ELSE b
<1> DEFINE m == IF a <= b THEN a ELSE b
<1>1. m \in {a, b} /\ \A y \in {a, b} : m <= y
  OBVIOUS
<1>2. Min({a, b}) \in {a, b} /\ \A y \in {a, b} : Min({a, b}) <= y
  BY <1>1, Zenon DEF Min
<1> QED BY <1>1, <1>2

(* Multiplying by a natural number keeps the order.                        *)
LEMMA Times ==
  ASSUME NEW a \in Int, NEW b \in Int, NEW c \in Nat, a <= b
  PROVE  a * c <= b * c /\ a * c \in Int /\ b * c \in Int
OBVIOUS

(* Quotient and remainder.                                                 *)
LEMMA Division ==
  ASSUME NEW n \in Nat, NEW d \in Nat \ {0}
  PROVE  /\ n \div d \in Nat /\ (n % d) \in 0 .. d - 1
         /\ n = (n \div d) * d + (n % d)
<1>1. n \div d \in Int /\ (n % d) \in 0 .. d - 1 /\ n = d * (n \div d) + (n % d)
  OBVIOUS
<1> DEFINE q == n \div d
           r == n % d
<1>2. q \in Int /\ r \in 0 .. d - 1 /\ n = d * q + r
  BY <1>1, Zenon
<1> HIDE DEF q, r
<1>3. n = q * d + r
  BY <1>2
<1>4. q >= 0
  <2> SUFFICES ASSUME q <= 0 - 1 PROVE FALSE
    BY <1>2
  <2>1. q * d <= (0 - 1) * d
    BY <1>2, Times
  <2> QED BY <1>2, <1>3, <2>1
<1> QED BY <1>2, <1>3, <1>4 DEF q, r

(* A quotient and a remainder are determined by their number.              *)
LEMMA DivisionIs ==
  ASSUME NEW d \in Nat \ {0}, NEW q \in Nat, NEW r \in 0 .. d - 1
  PROVE  (q * d + r) \div d = q /\ ((q * d + r) % d) = r
<1> DEFINE n == q * d + r
           p == n \div d
           s == n % d
<1>1. n \in Nat
  OBVIOUS
<1>2. p \in Nat /\ s \in 0 .. d - 1 /\ n = p * d + s
  <2> HIDE DEF n
  <2> QED BY <1>1, Division, Zenon
<1> HIDE DEF p, s
<1>3. q * d + r = p * d + s
  BY <1>2, Zenon
<1>4. ~(p + 1 <= q)
  <2> SUFFICES ASSUME p + 1 <= q PROVE FALSE
    BY Zenon
  <2>1. (p + 1) * d <= q * d
    BY <1>2, Times
  <2>2. (p + 1) * d = p * d + d
    BY <1>2
  <2> QED BY <1>2, <1>3, <2>1, <2>2
<1>5. ~(q + 1 <= p)
  <2> SUFFICES ASSUME q + 1 <= p PROVE FALSE
    BY Zenon
  <2>1. (q + 1) * d <= p * d
    BY <1>2, Times
  <2>2. (q + 1) * d = q * d + d
    BY <1>2
  <2> QED BY <1>2, <1>3, <2>1, <2>2
<1>6. p = q
  BY <1>2, <1>4, <1>5
<1>7. s = r
  BY <1>2, <1>3, <1>6
<1> QED BY <1>6, <1>7, Zenon DEF p, s

(* n \div d is at least q when n is at least q * d.                        *)
LEMMA QuotientAtLeast ==
  ASSUME NEW d \in Nat \ {0}, NEW n \in Nat, NEW q \in Nat, q * d <= n
  PROVE  q <= n \div d
<1> DEFINE p == n \div d
           s == n % d
<1>1. p \in Nat /\ s \in 0 .. d - 1 /\ n = p * d + s
  BY Division, Zenon
<1> HIDE DEF p, s
<1> SUFFICES ASSUME p + 1 <= q PROVE FALSE
  BY <1>1 DEF p
<1>2. (p + 1) * d <= q * d
  BY <1>1, Times
<1>3. (p + 1) * d = p * d + d
  BY <1>1
<1> QED BY <1>1, <1>2, <1>3

(* A byte below q sectors is in one of the first q.                        *)
LEMMA QuotientBelow ==
  ASSUME NEW d \in Nat \ {0}, NEW n \in Nat, NEW q \in Nat, n < q * d
  PROVE  n \div d < q
<1> DEFINE p == n \div d
           s == n % d
<1>1. p \in Nat /\ s \in 0 .. d - 1 /\ n = p * d + s
  BY Division, Zenon
<1> HIDE DEF p, s
<1> SUFFICES ASSUME q <= p PROVE FALSE
  BY <1>1 DEF p
<1>2. q * d <= p * d
  BY <1>1, Times
<1> QED BY <1>1, <1>2

(* The sectors that n bytes start in.                                      *)
LEMMA Ceiling ==
  ASSUME NEW n \in Nat, NEW d \in Nat \ {0}
  PROVE  Cardinality({i \in 0 .. n - 1 : (i % d) = 0}) = (n + d - 1) \div d
<1> DEFINE m == (n + d - 1) \div d
           S == {i \in 0 .. n - 1 : (i % d) = 0}
           f == [k \in 1 .. m |-> (k - 1) * d]
<1>1. n + d - 1 \in Nat
  OBVIOUS
<1>2. m \in Nat /\ m * d <= n + d - 1 /\ n + d - 1 < m * d + d
  <2> DEFINE N == n + d - 1
             q == N \div d
             r == N % d
  <2>1. q \in Nat /\ r \in 0 .. d - 1 /\ N = q * d + r
    <3> HIDE DEF N
    <3> QED BY <1>1, Division, Zenon DEF N
  <2> HIDE DEF q, r
  <2>2. q * d <= N /\ N < q * d + d
    BY <2>1
  <2> QED BY <2>1, <2>2, Zenon DEF q
<1> HIDE DEF m
<1>3. ASSUME NEW k \in 1 .. m PROVE f[k] \in S
  <2>1. k - 1 \in Nat /\ f[k] = (k - 1) * d /\ k <= m
    BY <1>2
  <2>2. (k - 1) * d <= (m - 1) * d
    BY <1>2, <2>1, Times
  <2>3. (m - 1) * d = m * d - d
    BY <1>2
  <2>4. (k - 1) * d \in Nat /\ (k - 1) * d <= n - 1
    BY <1>2, <2>1, <2>2, <2>3
  <2>5. ((k - 1) * d + 0) % d = 0
    BY <2>1, DivisionIs
  <2>6. (k - 1) * d + 0 = (k - 1) * d
    BY <2>4
  <2> QED BY <2>1, <2>4, <2>5, <2>6
<1>4. ASSUME NEW i \in S PROVE \E k \in 1 .. m : f[k] = i
  <2> DEFINE q == i \div d
             r == i % d
  <2>1. i \in Nat /\ i <= n - 1 /\ r = 0
    OBVIOUS
  <2>2. q \in Nat /\ i = q * d + r
    BY <2>1, Division, Zenon
  <2> HIDE DEF q, r
  <2>3. i = q * d
    BY <2>1, <2>2
  <2>4. q + 1 <= m
    <3> SUFFICES ASSUME m <= q PROVE FALSE
      BY <1>2, <2>2
    <3>1. m * d <= q * d
      BY <1>2, <2>2, Times
    <3> QED BY <1>2, <2>1, <2>3, <3>1
  <2>5. q + 1 \in 1 .. m /\ f[q + 1] = q * d
    BY <1>2, <2>2, <2>4
  <2> QED BY <2>3, <2>5, Zenon
<1>5. ASSUME NEW j \in 1 .. m, NEW k \in 1 .. m, f[j] = f[k] PROVE j = k
  <2>1. (j - 1) * d = (k - 1) * d /\ j - 1 \in Nat /\ k - 1 \in Nat
    BY <1>2, <1>5
  <2>2. ((j - 1) * d + 0) \div d = j - 1 /\ ((k - 1) * d + 0) \div d = k - 1
    BY <2>1, DivisionIs
  <2> QED BY <2>1, <2>2
<1>6. f \in Bijection(1 .. m, S)
  <2> HIDE DEF S
  <2>1. f \in [1 .. m -> S]
    BY <1>3, Zenon
  <2> HIDE DEF f
  <2> QED BY <1>4, <1>5, <2>1, Zenon DEF Bijection, Injection, Surjection, IsInjective
<1>7. IsFiniteSet(1 .. m) /\ Cardinality(1 .. m) = m
  BY <1>2, FS_Interval
<1>8. Cardinality(S) = Cardinality(1 .. m)
  <2> HIDE DEF S, f
  <2>1. ExistsBijection(1 .. m, S)
    BY <1>6, Zenon DEF ExistsBijection
  <2> QED BY <1>7, <2>1, FS_Bijection, Zenon
<1> QED BY <1>7, <1>8, Zenon DEF m

-----------------------------------------------------------------------------
(* The chain of clusters.  It is defined by recursion, so that it exists   *)
(* and is the only one has to be shown by induction on its length.         *)

(* Induction, with a set in the place of a predicate.                      *)
LEMMA InductionOnNat ==
  ASSUME NEW T, 0 \in T, \A n \in Nat : n \in T => n + 1 \in T
  PROVE  \A n \in Nat : n \in T
<1> SUFFICES ASSUME NEW m \in Nat, m \notin T PROVE FALSE
  BY Zenon
<1> DEFINE Less == {p \in Nat \X Nat : p[1] < p[2]}
           Out == {n \in Nat : n \notin T}
<1>1. PICK s \in Out : \A r \in Out : <<r, s>> \notin Less
  <2>1. IsWellFoundedOn(Less, Nat)
    BY NatLessThanWellFounded, Zenon DEF OpToRel
  <2>2. Out \subseteq Nat /\ Out # {}
    BY Zenon
  <2> HIDE DEF Less, Out
  <2> QED BY <2>1, <2>2, WFMin, Zenon
<1>2. \A a, b \in Nat : a < b => <<a, b>> \in Less
  BY Zenon
<1> HIDE DEF Less
<1>3. s \in Nat /\ s # 0
  BY Zenon
<1>4. s - 1 \in Nat /\ s - 1 < s /\ (s - 1) + 1 = s
  BY <1>3
<1>5. s - 1 \notin T
  BY <1>4, Zenon
<1> QED BY <1>1, <1>2, <1>4, <1>5, Zenon

(* c is the chain of n clusters from first in the FAT f, whose words are   *)
(* looked up for the clusters in D.                                        *)
Link(c, first, f, D, k) ==
  IF k = 1 THEN first ELSE IF c[k - 1] \in D THEN f[c[k - 1]] ELSE FIRST_END
IsChain(c, first, f, D, n) == c = [k \in 1 .. n |-> Link(c, first, f, D, k)]

(* A chain can be followed for any number of links.                        *)
LEMMA ChainExists ==
  ASSUME NEW first, NEW f, NEW D, NEW n \in Nat
  PROVE  \E c : IsChain(c, first, f, D, n)
<1> DEFINE T == {m \in Nat : \E c : IsChain(c, first, f, D, m)}
<1>1. 0 \in T
  <2>1. IsChain([k \in 1 .. 0 |-> k], first, f, D, 0)
    BY DEF IsChain
  <2> QED BY <2>1, Zenon
<1>2. ASSUME NEW m \in Nat, m \in T PROVE m + 1 \in T
  <2>1. PICK c : IsChain(c, first, f, D, m)
    BY <1>2, Zenon
  <2> DEFINE g == [k \in 1 .. m + 1 |-> IF k <= m THEN c[k] ELSE Link(c, first, f, D, k)]
             h == [k \in 1 .. m + 1 |-> Link(g, first, f, D, k)]
  <2>2. ASSUME NEW k \in 1 .. m + 1 PROVE g[k] = h[k]
    <3>1. k \in Nat /\ (k <= m => k \in 1 .. m) /\ (k # 1 => k - 1 \in 1 .. m + 1 /\ k - 1 <= m)
      OBVIOUS
    <3>2. k <= m => c[k] = Link(c, first, f, D, k)
      BY <2>1, <3>1, Zenon DEF IsChain
    <3>3. k # 1 => g[k - 1] = c[k - 1]
      BY <3>1, Zenon
    <3>4. g[k] = IF k <= m THEN c[k] ELSE Link(c, first, f, D, k)
      BY Zenon
    <3>5. h[k] = Link(g, first, f, D, k)
      BY Zenon
    <3> HIDE DEF g, h
    <3>6. Link(g, first, f, D, k) = Link(c, first, f, D, k)
      BY <3>3, Zenon DEF Link
    <3> QED BY <3>2, <3>4, <3>5, <3>6, Zenon
  <2>3. g = h
    <3> HIDE DEF g
    <3>1. g = [k \in 1 .. m + 1 |-> g[k]]
      BY Zenon DEF g
    <3> QED BY <2>2, <3>1, Zenon
  <2>4. IsChain(g, first, f, D, m + 1)
    BY <2>3, Zenon DEF IsChain
  <2> QED BY <2>4
<1> HIDE DEF T
<1>3. n \in T
  BY <1>1, <1>2, InductionOnNat, Zenon
<1> QED BY <1>3, Zenon DEF T

(* The links of a chain are determined by its first cluster and the FAT.   *)
LEMMA ChainUnique ==
  ASSUME NEW first, NEW f, NEW D, NEW n \in Nat, NEW c, NEW d,
         IsChain(c, first, f, D, n), IsChain(d, first, f, D, n)
  PROVE  c = d
<1> DEFINE T == {m \in Nat : m \in 1 .. n => c[m] = d[m]}
<1>1. 0 \in T
  OBVIOUS
<1>2. ASSUME NEW m \in Nat, m \in T PROVE m + 1 \in T
  <2> SUFFICES ASSUME m + 1 \in 1 .. n PROVE c[m + 1] = d[m + 1]
    OBVIOUS
  <2>1. c[m + 1] = Link(c, first, f, D, m + 1) /\ d[m + 1] = Link(d, first, f, D, m + 1)
    BY Zenon DEF IsChain
  <2>2. m + 1 # 1 => m \in 1 .. n /\ (m + 1) - 1 = m
    OBVIOUS
  <2>3. m + 1 # 1 => c[(m + 1) - 1] = d[(m + 1) - 1]
    BY <1>2, <2>2, Zenon
  <2> QED BY <2>1, <2>3 DEF Link
<1> HIDE DEF T
<1>3. \A m \in Nat : m \in T
  BY <1>1, <1>2, InductionOnNat, Zenon
<1>4. \A m \in 1 .. n : c[m] = d[m]
  BY <1>3 DEF T
<1>5. c = [k \in 1 .. n |-> c[k]] /\ d = [k \in 1 .. n |-> d[k]]
  BY Zenon DEF IsChain
<1> QED BY <1>4, <1>5, Zenon

(* The longest file.                                                       *)
LEMMA Longest_Type ==
  Longest \in Nat \ {0} /\ \A s \in FileSizes : s \in Nat /\ (s \div SECTOR_SIZE) + 1 <= Longest
<1>1. Max(FileSizes) \in FileSizes /\ \A s \in FileSizes : s <= Max(FileSizes)
  BY Fat16Assumption, Zenon DEF Max
<1> DEFINE m == Max(FileSizes)
<1>2. m \in Nat
  BY <1>1, Constants, Zenon
<1> HIDE DEF m
<1>3. SECTOR_SIZE \in Nat \ {0} /\ m \div SECTOR_SIZE \in Nat
  BY <1>2, Constants, Division, Zenon
<1>4. ASSUME NEW s \in FileSizes PROVE s \in Nat /\ s \div SECTOR_SIZE <= m \div SECTOR_SIZE
  <2> DEFINE q == s \div SECTOR_SIZE
             r == s % SECTOR_SIZE
  <2>1. s \in Nat /\ s <= m
    BY <1>1, Constants, Zenon DEF m
  <2>2. q \in Nat /\ r \in 0 .. SECTOR_SIZE - 1 /\ s = q * SECTOR_SIZE + r
    BY <1>3, <2>1, Division, Zenon
  <2> HIDE DEF q, r
  <2>3. q * SECTOR_SIZE <= m
    BY <1>2, <1>3, <2>1, <2>2
  <2>4. q <= m \div SECTOR_SIZE
    BY <1>2, <1>3, <2>2, <2>3, QuotientAtLeast, Zenon
  <2> QED BY <2>1, <2>4, Zenon DEF q
<1>5. Longest = (m \div SECTOR_SIZE) + 1
  BY Zenon DEF Longest, m
<1>6. \A s \in FileSizes : s \in Nat /\ s \div SECTOR_SIZE \in Nat
  BY <1>3, <1>4, Division, Zenon
<1> QED BY <1>3, <1>4, <1>5, <1>6

(* The chain that the properties speak of is followed in the FAT.          *)
LEMMA ChainIs == IsChain(chain, first_cluster, fat, OnDisk, Longest)
<1>1. \E c : IsChain(c, first_cluster, fat, OnDisk, Longest)
  BY ChainExists, Longest_Type, Zenon
<1> DEFINE F == CHOOSE c : IsChain(c, first_cluster, fat, OnDisk, Longest)
<1>2. chain = F
  BY Zenon DEF chain, IsChain, Link
<1> QED BY <1>1, <1>2, Zenon

(* The chain is the volume's, and no step of read_file changes it.         *)
LEMMA ChainKept == ASSUME UNCHANGED <<sectors_per_cluster, fat, first_cluster>> PROVE chain' = chain
<1>1. IsChain(chain, first_cluster, fat, OnDisk, Longest)
  BY ChainIs, Zenon
<1>2. IsChain(chain', first_cluster, fat, OnDisk, Longest)
  <2>1. IsChain(chain, first_cluster, fat, OnDisk, Longest)'
    BY ChainIs, PTL
  <2>2. OnDisk' = OnDisk
    BY Zenon DEF OnDisk, cluster_to_lba
  <2> QED BY <2>1, <2>2, Zenon DEF IsChain, Link
<1> QED BY <1>1, <1>2, ChainUnique, Longest_Type, Zenon

(* Each cluster of the chain is the FAT's entry for the one before it.     *)
LEMMA ChainLinks ==
  /\ chain[1] = first_cluster
  /\ \A k \in 1 .. Longest - 1 :
       chain[k + 1] = IF chain[k] \in OnDisk THEN fat[chain[k]] ELSE FIRST_END
<1>1. Longest \in Nat \ {0}
  BY Longest_Type, Zenon
<1>2. \A k \in 1 .. Longest : chain[k] = Link(chain, first_cluster, fat, OnDisk, k)
  BY ChainIs, Zenon DEF IsChain
<1>3. chain[1] = first_cluster
  <2>1. 1 \in 1 .. Longest
    BY <1>1
  <2> QED BY <1>2, <2>1, Zenon DEF Link
<1>4. ASSUME NEW k \in 1 .. Longest - 1
      PROVE  chain[k + 1] = IF chain[k] \in OnDisk THEN fat[chain[k]] ELSE FIRST_END
  <2>1. k + 1 \in 1 .. Longest /\ k + 1 # 1 /\ (k + 1) - 1 = k
    BY <1>1
  <2> QED BY <1>2, <2>1, Zenon DEF Link
<1> QED BY <1>3, <1>4, Zenon

-----------------------------------------------------------------------------
(* Places on the disk.                                                     *)

(* The last sectors that a root directory and the data can start at.       *)
MaxRoot == 65535 + 255 * 65535
MaxData == MaxRoot + 65535

(* The directory takes no more sectors than it has entries, and its slots  *)
(* are those of whole sectors.                                             *)
LEMMA Layout ==
  /\ root_dir_sector_count \in Nat
  /\ SlotsPerSector \in Nat \ {0}
  /\ SlotsOnDisk = root_dir_sector_count * SlotsPerSector /\ SlotsOnDisk \in Nat
  /\ first_root_dir_sector \in Nat
  /\ first_data_sector \in Nat /\ first_data_sector <= MaxData
  /\ first_data_sector = first_root_dir_sector + root_dir_sector_count
<1> DEFINE bytes == RootEntries * DIR_ENTRY_SIZE
           total == bytes + SECTOR_SIZE - 1
           count == total \div SECTOR_SIZE
           fats == NumFats * FatSectors
<1>1. /\ SECTOR_SIZE \in Nat \ {0} /\ DIR_ENTRY_SIZE \in Nat \ {0} /\ DIR_ENTRY_SIZE <= SECTOR_SIZE
      /\ ReservedSectors \in Nat /\ FatSectors \in Nat /\ RootEntries \in Nat /\ NumFats \in Nat
  BY Constants, Fields, Zenon
<1>2. bytes \in Nat /\ bytes <= RootEntries * SECTOR_SIZE
  <2>1. DIR_ENTRY_SIZE * RootEntries <= SECTOR_SIZE * RootEntries
    BY <1>1, Times, SMT
  <2> QED BY <1>1, <2>1, SMT
<1>3. (RootEntries + 1) * SECTOR_SIZE = RootEntries * SECTOR_SIZE + SECTOR_SIZE
  BY <1>1, SMT
<1> HIDE DEF bytes
<1>4. total \in Nat /\ total < (RootEntries + 1) * SECTOR_SIZE
  BY <1>1, <1>2, <1>3, SMT
<1> HIDE DEF total
<1>5. count \in Nat /\ count < RootEntries + 1
  <2>1. RootEntries + 1 \in Nat
    BY <1>1, SMT
  <2> QED BY <1>1, <1>4, <2>1, Division, QuotientBelow, Zenon
<1> HIDE DEF count
<1>6. root_dir_sector_count = count
  BY Zenon DEF root_dir_sector_count, count, total, bytes
<1>7. SlotsPerSector \in Nat \ {0}
  <2> DEFINE d == SECTOR_SIZE \div DIR_ENTRY_SIZE
  <2>1. 1 * DIR_ENTRY_SIZE <= SECTOR_SIZE /\ 1 \in Nat
    BY <1>1, SMT
  <2>2. d \in Nat /\ 1 <= d
    BY <1>1, <2>1, Division, QuotientAtLeast, Zenon
  <2> HIDE DEF d
  <2>3. d \in Nat \ {0}
    BY <2>2, SMT
  <2> QED BY <2>3, Zenon DEF SlotsPerSector, d
<1>8. SlotsOnDisk = count * SlotsPerSector
  BY Zenon DEF SlotsOnDisk, count, total, bytes
<1>9. count * SlotsPerSector \in Nat
  BY <1>5, <1>7, SMT
<1>10. fats \in Nat /\ fats <= 255 * 65535
  <2>1. NumFats <= 255 /\ FatSectors <= 65535
    BY Constants, Widths, SMT
  <2>2. NumFats * FatSectors <= 255 * FatSectors
    BY <1>1, <2>1, Times, SMT
  <2> QED BY <1>1, <2>1, <2>2, SMT
<1>11. first_root_dir_sector = ReservedSectors + fats
  BY Zenon DEF first_root_dir_sector, first_fat_sector
<1> HIDE DEF fats
<1>12. first_data_sector = first_root_dir_sector + count
  BY <1>6, Zenon DEF first_data_sector
<1>13. /\ first_root_dir_sector \in Nat /\ first_data_sector \in Nat
       /\ first_data_sector <= MaxData
  <2>1. ReservedSectors <= 65535 /\ RootEntries <= 65535
    BY Constants, Widths, SMT
  <2> QED BY <1>1, <1>5, <1>10, <1>11, <1>12, <2>1, SMT DEF MaxData, MaxRoot
<1> QED BY <1>5, <1>6, <1>7, <1>8, <1>9, <1>12, <1>13, Zenon

(* The numbers in the parameter block that read_file divides and           *)
(* multiplies by are positive.                                             *)
LEMMA DiskNumbers ==
  ASSUME DiskOK
  PROVE  /\ sectors_per_cluster \in Nat \ {0} /\ file_size \in Nat
         /\ ClusterBytes \in Nat \ {0} /\ SECTOR_SIZE <= ClusterBytes
         /\ SECTOR_SIZE \in Nat \ {0} /\ first_data_sector \in Nat
<1>1. sectors_per_cluster \in Nat \ {0} /\ file_size \in Nat /\ SECTOR_SIZE \in Nat \ {0}
  BY Constants, Fields, Zenon DEF DiskOK
<1>2. 1 * SECTOR_SIZE <= sectors_per_cluster * SECTOR_SIZE
  BY <1>1, Times
<1>3. ClusterBytes \in Nat \ {0} /\ SECTOR_SIZE <= ClusterBytes
  BY <1>1, <1>2 DEF ClusterBytes
<1> QED BY <1>1, <1>3, Layout, Zenon

(* The byte after k clusters, s sectors and r bytes of a file.             *)
ByteNumber(k, s, r, spc, size) == k * (spc * size) + s * size + r

(* Dividing the number of a byte gives its cluster, sector and offset.     *)
LocatedAt(n, k, s, r, spc, size) ==
  n \div (spc * size) = k /\ (n % (spc * size)) \div size = s /\ (n % size) = r

(* From the number of a byte in the file one gets back its cluster, its    *)
(* sector and its place there.                                             *)
LEMMA Position ==
  ASSUME NEW spc \in Nat \ {0}, NEW size \in Nat \ {0},
         NEW k \in Nat, NEW s \in 0 .. spc - 1, NEW r \in 0 .. size - 1
  PROVE  LocatedAt(ByteNumber(k, s, r, spc, size), k, s, r, spc, size)
<1> SUFFICES ASSUME NEW n \in Nat, n = k * (spc * size) + s * size + r
             PROVE  /\ n \div (spc * size) = k
                    /\ (n % (spc * size)) \div size = s /\ (n % size) = r
  <2>1. ByteNumber(k, s, r, spc, size) \in Nat
    BY DEF ByteNumber
  <2> QED BY <2>1, Zenon DEF ByteNumber, LocatedAt
<1> DEFINE CB == spc * size
           m == s * size + r
<1>1. CB \in Nat \ {0}
  OBVIOUS
<1>2. m \in Nat /\ m <= CB - 1
  <2>1. (s + 1) * size <= spc * size
    BY Times
  <2>2. (s + 1) * size = s * size + size /\ s * size \in Nat
    OBVIOUS
  <2> QED BY <2>1, <2>2
<1>3. m \div size = s
  BY DivisionIs
<1>4. (n % size) = r
  <2>1. n = (k * spc + s) * size + r
    OBVIOUS
  <2>2. k * spc + s \in Nat
    OBVIOUS
  <2> DEFINE q == k * spc + s
  <2> HIDE DEF q
  <2>3. ((q * size + r) % size) = r
    BY <2>2, DivisionIs, Zenon DEF q
  <2> QED BY <2>1, <2>3, Zenon DEF q
<1>5. n \div CB = k /\ (n % CB) = m
  <2>1. n = k * CB + m
    OBVIOUS
  <2> HIDE DEF CB, m
  <2>2. m \in 0 .. CB - 1
    BY <1>1, <1>2
  <2> QED BY <1>1, <2>1, <2>2, DivisionIs, Zenon
<1> QED BY <1>3, <1>4, <1>5, Zenon

(* A file that goes on after k clusters has a k + 1st link.                *)
LEMMA Reaches ==
  ASSUME DiskOK, NEW k \in Nat, k * ClusterBytes < file_size
  PROVE  k + 1 <= Longest
<1>1. /\ ClusterBytes \in Nat \ {0} /\ SECTOR_SIZE \in Nat \ {0} /\ file_size \in Nat
      /\ SECTOR_SIZE <= ClusterBytes
  BY DiskNumbers, Zenon
<1> DEFINE CB == ClusterBytes
<1> HIDE DEF CB
<1>2. SECTOR_SIZE * k <= CB * k
  BY <1>1, Times DEF CB
<1>3. k * SECTOR_SIZE <= file_size
  BY <1>1, <1>2 DEF CB
<1>4. k <= file_size \div SECTOR_SIZE /\ file_size \div SECTOR_SIZE \in Nat
  BY <1>1, <1>3, QuotientAtLeast, Division, Zenon
<1>5. (file_size \div SECTOR_SIZE) + 1 <= Longest /\ Longest \in Nat
  BY Longest_Type, Zenon DEF DiskOK
<1> QED BY <1>4, <1>5

(* What does not change as long as the volume does not.                    *)
LEMMA Frame ==
  ASSUME UNCHANGED disk
  PROVE  /\ UNCHANGED <<sectors_per_cluster, fat, directory, first_cluster, file_size>>
         /\ chain' = chain /\ ClusterBytes' = ClusterBytes /\ OnDisk' = OnDisk
         /\ DiskOK => DiskOK'
         /\ Found' = Found
         /\ \A n : ByteAt(n)' = ByteAt(n)
         /\ \A k : Linked(k)' = Linked(k)
         /\ \A k : Needs(k)' = Needs(k)
<1>1. UNCHANGED <<sectors_per_cluster, fat, directory, first_cluster, file_size>>
  BY Zenon DEF disk
<1>2. chain' = chain
  BY <1>1, ChainKept, Zenon
<1>3. ClusterBytes' = ClusterBytes /\ OnDisk' = OnDisk
  BY <1>1, Zenon DEF ClusterBytes, OnDisk, cluster_to_lba
<1>4. DiskOK => DiskOK'
  BY <1>1, <1>3, Zenon DEF DiskOK
<1>5. Found' = Found
  BY <1>1, Zenon DEF Found
<1>6. \A n : ByteAt(n)' = ByteAt(n)
  BY <1>1, <1>2, <1>3, Zenon DEF ByteAt
<1>7. \A k : Linked(k)' = Linked(k)
  BY <1>2, Zenon DEF Linked
<1>8. \A k : Needs(k)' = Needs(k)
  BY <1>1, <1>3, <1>7, Zenon DEF Needs
<1> QED BY <1>1, <1>2, <1>3, <1>4, <1>5, <1>6, <1>7, <1>8, Zenon

(* What the properties say in a state that the step leaves as it was, but  *)
(* for where the program is.                                               *)
LEMMA DataKept ==
  ASSUME Inv, UNCHANGED disk, data' = data
  PROVE  /\ DiskOK' /\ data' \in Seq(Places) /\ InDataArea' /\ BytesInOrder'
<1>1. /\ UNCHANGED <<sectors_per_cluster, file_size>> /\ DiskOK' /\ chain' = chain
      /\ ClusterBytes' = ClusterBytes /\ \A n : ByteAt(n)' = ByteAt(n)
  BY Frame, Zenon DEF Inv
<1> QED BY <1>1, Zenon DEF Inv, InDataArea, BytesInOrder

(* Sector numbers fit in 28 bits.                                          *)
LEMMA AskedSmall == ASSUME Inv, Asks PROVE AskedFor \in Nat /\ AskedFor < LBA28
<1> DEFINE spc == sectors_per_cluster
<1>1. /\ first_root_dir_sector \in Nat /\ root_dir_sector_count \in Nat
      /\ first_data_sector = first_root_dir_sector + root_dir_sector_count
      /\ first_data_sector <= MaxData /\ first_data_sector \in Nat
      /\ SlotsPerSector \in Nat \ {0} /\ SECTOR_SIZE \in Nat \ {0} /\ ReservedSectors \in Nat
  BY Layout, Constants, Fields, Zenon
<1>2. /\ spc \in Nat \ {0} /\ sector \in 0 .. spc - 1 /\ cluster \in Nat /\ slot \in Nat \ {0}
  <2>1. slot \in Nat \ {0}
    BY Layout DEF Inv, TypeOK
  <2>2. cluster \in Nat
    BY Fields DEF Inv, TypeOK
  <2> QED BY <2>1, <2>2, DiskNumbers, Zenon DEF Inv, TypeOK
<1>3. spc <= 255 /\ cluster <= 65535 /\ ReservedSectors <= 65535
  <2>1. spc \in U8 /\ ReservedSectors \in U16
    BY Constants, Zenon DEF Inv, DiskOK
  <2>2. cluster = 0 \/ cluster \in U16
    BY Constants, Zenon DEF Inv, TypeOK
  <2> QED BY <2>1, <2>2, Widths, SMT
<1>4. CASE pc = "open"
  <2>1. AskedFor = 0
    BY <1>4, Zenon DEF AskedFor
  <2> QED BY <2>1, SMT DEF LBA28
<1>5. CASE pc = "search"
  <2> DEFINE q == (slot - 1) \div SlotsPerSector
  <2>1. slot <= root_dir_sector_count * SlotsPerSector
    BY <1>5, Zenon DEF Asks
  <2>2. slot - 1 \in Nat /\ slot - 1 < root_dir_sector_count * SlotsPerSector
    BY <1>1, <1>2, <2>1, SMT
  <2>3. q \in Nat /\ q < root_dir_sector_count
    BY <1>1, <2>2, Division, QuotientBelow, Zenon
  <2>4. AskedFor = first_root_dir_sector + q
    BY <1>5, Zenon DEF AskedFor
  <2> HIDE DEF q
  <2> QED BY <1>1, <2>3, <2>4, SMT DEF LBA28, MaxData, MaxRoot
<1>6. CASE pc = "walk"
  <2> DEFINE p == (cluster - 2) * spc
  <2>1. cluster >= 2
    BY <1>6, Zenon DEF Asks
  <2>2. (cluster - 2) * spc <= 65533 * spc /\ 0 * spc <= (cluster - 2) * spc
    BY <1>2, <1>3, <2>1, Times, SMT
  <2>3. p \in Int /\ 0 <= p /\ p <= 65533 * 255
    BY <1>2, <1>3, <2>1, <2>2, SMT
  <2>4. AskedFor = first_data_sector + p + sector
    BY <1>6, Zenon DEF AskedFor, cluster_to_lba
  <2> HIDE DEF p
  <2> QED BY <1>1, <1>2, <1>3, <2>3, <2>4, SMT DEF LBA28, MaxData, MaxRoot
<1>7. CASE pc = "next"
  <2> DEFINE c2 == cluster * 2
             q == c2 \div SECTOR_SIZE
             m == 131071
  <2>1. m \in Nat /\ c2 \in Nat /\ c2 < m * SECTOR_SIZE
    <3>1. 1 * m <= SECTOR_SIZE * m
      BY <1>1, Times, SMT
    <3> QED BY <1>1, <1>2, <1>3, <3>1, SMT
  <2> HIDE DEF c2, m
  <2>2. q \in Nat /\ q < m
    BY <1>1, <2>1, Division, QuotientBelow, Zenon
  <2>3. AskedFor = ReservedSectors + q
    BY <1>7, Zenon DEF AskedFor, first_fat_sector, c2
  <2> HIDE DEF q
  <2> QED BY <1>1, <1>3, <2>2, <2>3, SMT DEF LBA28, m
<1> QED BY <1>4, <1>5, <1>6, <1>7, Zenon DEF Asks

(* A cluster that is being read, or whose successor is looked up, is one   *)
(* of the chain that the file needs.                                       *)
LEMMA NeedsCluster ==
  ASSUME Inv, pc \in {"walk", "next"}
  PROVE  \E k \in 1 .. Longest : cluster = chain[k] /\ Needs(k)
<1> DEFINE CB == ClusterBytes
<1>1. /\ CB \in Nat \ {0} /\ Longest \in Nat \ {0} /\ SECTOR_SIZE \in Nat \ {0}
      /\ file_size \in Nat
  BY DiskNumbers, Longest_Type, Zenon DEF Inv
<1>2. PICK k \in 0 .. Longest :
        /\ Linked(k + 1) /\ k + 1 <= Longest /\ cluster = chain[k + 1]
        /\ \/ Len(data) = k * CB + sector * SECTOR_SIZE
           \/ Len(data) = (k + 1) * CB
        /\ Len(data) < file_size
  BY Zenon DEF Inv, Walking, Advancing
<1>3. sector \in Nat /\ k \in Nat /\ Len(data) \in Nat
  <2>1. sector \in Nat
    BY DiskNumbers DEF Inv, TypeOK
  <2> QED BY <1>1, <2>1 DEF Inv
<1> HIDE DEF CB
<1>4. k * CB \in Nat /\ sector * SECTOR_SIZE \in Nat /\ (k + 1) * CB = k * CB + CB
  BY <1>1, <1>3
<1>5. k * CB < file_size
  <2> DEFINE a == k * CB
             b == sector * SECTOR_SIZE
  <2>1. a \in Nat /\ b \in Nat /\ (Len(data) = a + b \/ Len(data) = a + CB)
    BY <1>2, <1>4, Zenon
  <2> HIDE DEF a, b
  <2>2. a < file_size
    BY <1>1, <1>2, <1>3, <2>1
  <2> QED BY <2>2, Zenon DEF a
<1>6. k + 1 \in 1 .. Longest /\ (k + 1) - 1 = k
  BY <1>1, <1>2, <1>3
<1>7. Needs(k + 1)
  BY <1>2, <1>5, <1>6, Zenon DEF Needs, CB
<1> QED BY <1>2, <1>6, <1>7, Zenon

(* The word for a cluster of the volume is in the first FAT.               *)
LEMMA LookedUpInFat ==
  ASSUME NEW c \in Clusters
  PROVE  first_fat_sector + (c * 2) \div SECTOR_SIZE
           \in ReservedSectors .. ReservedSectors + FatSectors - 1
<1> DEFINE c2 == c * 2
           q == c2 \div SECTOR_SIZE
<1>1. /\ SECTOR_SIZE \in Nat \ {0} /\ FatSectors \in Nat /\ ReservedSectors \in Nat
  BY Constants, Fields, Zenon
<1>2. c2 \in Nat /\ c2 < FatSectors * SECTOR_SIZE
  BY <1>1, Constants, SMT DEF Clusters
<1> HIDE DEF c2
<1>3. q \in Nat /\ q < FatSectors
  BY <1>1, <1>2, QuotientBelow, Division, Zenon
<1> HIDE DEF q
<1>4. ReservedSectors + q \in ReservedSectors .. ReservedSectors + FatSectors - 1
  BY <1>1, <1>3
<1> QED BY <1>4, Zenon DEF q, c2, first_fat_sector

-----------------------------------------------------------------------------
(* One lemma for each step of the reader.                                  *)

(* The name, and the reading of the boot sector.                           *)
LEMMA OpenKeeps == ASSUME Inv, Open PROVE Inv'
<1>1. /\ UNCHANGED disk /\ UNCHANGED <<slot, cluster, sector, data>>
      /\ pc = "open" /\ pc' \in {"refused", "search"}
      /\ lba' = lba \/ lba' = AskedFor
  BY Zenon DEF Open, read_sector
<1>2. slot = 1 /\ data = <<>> /\ sector = 0
  BY <1>1, Zenon DEF Inv, Opening
<1>3. /\ UNCHANGED <<sectors_per_cluster, file_size>>
      /\ DiskOK' /\ data' \in Seq(Places) /\ InDataArea' /\ BytesInOrder'
  BY <1>1, Frame, DataKept, Zenon
<1>4. TypeOK'
  BY <1>1, <1>3, Zenon DEF Inv, TypeOK, Outcomes
<1>5. SmallSector'
  <2>1. Asks
    BY <1>1, Zenon DEF Asks
  <2> QED BY <1>1, <2>1, AskedSmall, Zenon DEF Inv, SmallSector
<1>6. Searching'
  <2>1. slot' \in 1 .. SlotsOnDisk + 1 /\ ~(slot' > 1) /\ 1 .. slot' - 1 = {}
    BY <1>1, <1>2, Layout
  <2> QED BY <1>1, <1>2, <2>1, Zenon DEF Searching
<1>7. Opening' /\ Finds' /\ Walking' /\ Advancing' /\ Done' /\ PanicsOnlyOnBadVolume' /\ InFat'
  BY <1>1, Zenon DEF Opening, Finds, Walking, Advancing, Done, PanicsOnlyOnBadVolume, InFat
<1> QED BY <1>3, <1>4, <1>5, <1>6, <1>7, Zenon DEF Inv

(* find_in_root_dir keeps the invariant.                                   *)
LEMMA SearchKeeps == ASSUME Inv, FindInRootDir PROVE Inv'
<1> DEFINE N == root_dir_sector_count * SlotsPerSector
           first == first_root_dir_sector
           count == root_dir_sector_count
<1>1. /\ UNCHANGED disk /\ sector' = sector /\ data' = data
      /\ pc = "search" /\ slot' = slot + 1 /\ cluster' = first_cluster
      /\ IF Asks THEN lba' = AskedFor ELSE lba' = lba
  BY Zenon DEF FindInRootDir, read_sector
<1>2. /\ slot \in 1 .. N + 1 /\ data = <<>> /\ sector = 0 /\ SlotsOnDisk = N
      /\ \A j \in 1 .. slot - 1 : directory[j] \notin {"end", "name"}
      /\ slot > 1 => lba \in first .. first + count - 1
  BY <1>1, Layout, Zenon DEF Inv, Searching
<1>3. /\ N \in Nat /\ sectors_per_cluster \in Nat \ {0} /\ file_size \in Nat
      /\ SlotsPerSector \in Nat \ {0} /\ count \in Nat /\ first \in Nat
  BY Layout, DiskNumbers, Zenon DEF Inv
<1>4. directory \in [1 .. N -> DirSlots]
  BY <1>2, Constants, Zenon DEF Inv, DiskOK
<1>5. \/ pc' = "none" /\ slot = N + 1
      \/ pc' = "none" /\ slot \in 1 .. N /\ directory[slot] = "end"
      \/ pc' = "some" /\ slot \in 1 .. N /\ directory[slot] = "name" /\ file_size = 0
      \/ pc' = "walk" /\ slot \in 1 .. N /\ directory[slot] = "name" /\ file_size # 0
      \/ /\ pc' = "allocation" /\ slot \in 1 .. N /\ directory[slot] = "name"
         /\ file_size > HeapFree
      \/ /\ pc' = "search" /\ slot \in 1 .. N /\ directory[slot] = "skip"
  <2>1. /\ slot > N => pc' = "none"
        /\ ~(slot > N) /\ directory[slot] = "end" => pc' = "none"
        /\ ~(slot > N) /\ directory[slot] = "name" => pc' = Allocates
        /\ ~(slot > N) /\ directory[slot] = "skip" => pc' = "search"
    BY DEF FindInRootDir
  <2>2. \/ pc' # Allocates
        \/ pc' = "some" /\ file_size = 0
        \/ pc' = "walk" /\ file_size # 0
        \/ pc' = "allocation" /\ file_size > HeapFree
    BY Zenon DEF Allocates
  <2> HIDE DEF N
  <2>3. slot > N => slot = N + 1
    BY <1>2, <1>3
  <2>4. ~(slot > N) => slot \in 1 .. N
    BY <1>2, <1>3
  <2>5. ~(slot > N) => directory[slot] \in {"end", "skip", "name"}
    BY <1>4, <2>4, Zenon DEF DirSlots
  <2> QED BY <2>1, <2>2, <2>3, <2>4, <2>5, Zenon
<1>6. /\ UNCHANGED <<sectors_per_cluster, directory, first_cluster, file_size>>
      /\ DiskOK' /\ chain' = chain /\ ClusterBytes' = ClusterBytes
      /\ Found' = Found /\ \A k : Linked(k)' = Linked(k)
  BY <1>1, Frame, Zenon DEF Inv
<1>7. TypeOK'
  <2>1. /\ slot' \in 1 .. SlotsOnDisk + 2 /\ Len(data') <= file_size'
        /\ sector' \in 0 .. sectors_per_cluster' - 1
    <3> HIDE DEF N
    <3> QED BY <1>1, <1>2, <1>3, <1>6
  <2>2. cluster' \in Words
    BY <1>1, Zenon DEF Inv, DiskOK
  <2>3. pc' \in {"open", "search", "walk", "next"} \union Outcomes
    BY <1>5, Zenon DEF Outcomes, Panics
  <2> QED BY <2>1, <2>2, <2>3, Zenon DEF TypeOK
<1>8. Searching'
  <2> SUFFICES ASSUME pc' = "search"
               PROVE  /\ slot' \in 1 .. SlotsOnDisk + 1
                      /\ \A j \in 1 .. slot' - 1 : directory[j] \notin {"end", "name"}
                      /\ lba' \in first .. first + count - 1
    BY <1>1, <1>2, <1>6, Zenon DEF Searching
  <2>1. slot \in 1 .. N /\ directory[slot] = "skip"
    BY <1>5, Zenon
  <2>2. slot' \in 1 .. SlotsOnDisk + 1
    <3> HIDE DEF N
    <3> QED BY <1>1, <1>2, <1>3, <2>1
  <2>3. ASSUME NEW j \in 1 .. slot' - 1 PROVE directory[j] \notin {"end", "name"}
    <3>1. j = slot \/ j \in 1 .. slot - 1
      <4> HIDE DEF N
      <4> QED BY <1>1, <1>3, <2>1
    <3> QED BY <1>2, <2>1, <3>1
  <2>4. CASE Asks
    <3> DEFINE q == (slot - 1) \div SlotsPerSector
    <3>1. slot - 1 \in Nat /\ slot - 1 < N
      <4> HIDE DEF N
      <4> QED BY <1>3, <2>1
    <3>2. q \in Nat /\ q < count
      BY <1>3, <3>1, Division, QuotientBelow, Zenon
    <3>3. lba' = first + q
      BY <1>1, <2>4, Zenon DEF AskedFor
    <3> HIDE DEF q, first, count
    <3>4. lba' \in first .. first + count - 1
      BY <1>3, <3>2, <3>3
    <3> QED BY <2>2, <2>3, <3>4, Zenon
  <2>5. CASE ~Asks
    <3>1. slot > 1
      <4> SUFFICES ASSUME slot = 1 PROVE FALSE
        <5> HIDE DEF N
        <5> QED BY <1>3, <2>1
      <4>1. ((0 * SlotsPerSector + 0) % SlotsPerSector) = 0
        BY <1>3, DivisionIs
      <4>2. 0 * SlotsPerSector + 0 = slot - 1 /\ slot <= N
        BY <1>3, <2>1
      <4> QED BY <1>1, <2>5, <4>1, <4>2, Zenon DEF Asks
    <3> QED BY <1>1, <1>2, <2>2, <2>3, <2>5, <3>1, Zenon
  <2> QED BY <2>4, <2>5, Zenon
<1>9. Finds'
  <2> HIDE DEF N
  <2>1. ASSUME slot \in 1 .. N, directory[slot] = "name" PROVE Found
    BY <1>2, <1>4, <2>1 DEF Found
  <2>2. ASSUME \/ slot = N + 1
               \/ slot \in 1 .. N /\ directory[slot] = "end",
               Found
        PROVE  FALSE
    <3>1. PICK i \in 1 .. N : directory[i] = "name" /\ \A j \in 1 .. i : directory[j] # "end"
      BY <1>4, <2>2, Zenon DEF Found
    <3>2. CASE i < slot
      BY <1>2, <1>3, <3>1, <3>2
    <3>3. CASE i >= slot
      BY <1>2, <1>3, <2>2, <3>1, <3>3
    <3> QED BY <1>2, <1>3, <3>2, <3>3
  <2> QED BY <1>5, <1>6, <2>1, <2>2, Zenon DEF Finds
<1>10. Longest \in Nat \ {0} /\ chain[1] = first_cluster /\ Linked(0) /\ Linked(1)
  <2>1. 2 .. 0 = {} /\ 2 .. 1 = {}
    OBVIOUS
  <2> QED BY <2>1, Longest_Type, ChainLinks, Zenon DEF Linked
<1>11. ClusterBytes \in Nat /\ SECTOR_SIZE \in Nat /\ Len(data) = 0
  BY <1>2, DiskNumbers DEF Inv
<1>12. Walking'
  <2> SUFFICES ASSUME pc' = "walk"
               PROVE  \E k \in 0 .. Longest :
                        /\ Linked(k + 1) /\ k + 1 <= Longest /\ first_cluster = chain[k + 1]
                        /\ Len(data) = k * ClusterBytes + sector * SECTOR_SIZE
                        /\ Len(data) < file_size
    BY <1>1, <1>6, Zenon DEF Walking
  <2>1. file_size # 0
    BY <1>5, Zenon
  <2>2. 0 \in 0 .. Longest /\ 0 + 1 <= Longest /\ 0 + 1 = 1
    BY <1>10
  <2>3. Len(data) = 0 * ClusterBytes + sector * SECTOR_SIZE /\ Len(data) < file_size
    BY <1>2, <1>3, <1>11, <2>1
  <2> QED BY <1>10, <2>2, <2>3, Zenon
<1>13. Done'
  <2> SUFFICES ASSUME pc' = "some"
               PROVE  \E k \in 0 .. Longest :
                        Linked(k) /\ Len(data) <= k * ClusterBytes /\ Len(data) = file_size
    BY <1>1, <1>6, Zenon DEF Done
  <2>1. file_size = 0
    BY <1>5, Zenon
  <2>2. 0 \in 0 .. Longest /\ Len(data) <= 0 * ClusterBytes
    BY <1>10, <1>11
  <2> QED BY <1>10, <1>11, <2>1, <2>2, Zenon
<1>14. Opening' /\ Advancing' /\ PanicsOnlyOnBadVolume'
  BY <1>5, <1>6, Zenon DEF Opening, Advancing, PanicsOnlyOnBadVolume
<1>15. InFat' /\ InDataArea' /\ BytesInOrder' /\ data' \in Seq(Places)
  BY <1>1, <1>2, DataKept, Zenon DEF InFat
<1>16. SmallSector'
  BY <1>1, AskedSmall, Zenon DEF Inv, SmallSector
<1> QED BY <1>6, <1>7, <1>8, <1>9, <1>12, <1>13, <1>14, <1>15, <1>16, Zenon DEF Inv

(* The panic of cluster_to_lba keeps the invariant.                        *)
LEMMA ReservedKeeps == ASSUME Inv, ReservedCluster PROVE Inv'
<1>1. /\ UNCHANGED disk /\ UNCHANGED <<slot, cluster, sector, data, lba>>
      /\ pc = "walk" /\ pc' = "overflow" /\ cluster < 2
  BY Zenon DEF ReservedCluster
<1>2. /\ UNCHANGED <<sectors_per_cluster, file_size>>
      /\ chain' = chain /\ Found' = Found /\ \A k : Needs(k)' = Needs(k)
  BY <1>1, Frame, Zenon DEF Inv
<1>3. PanicsOnlyOnBadVolume'
  <2>1. PICK k \in 1 .. Longest : cluster = chain[k] /\ Needs(k)
    BY <1>1, NeedsCluster, Zenon
  <2>2. cluster \in {0, 1}
    BY <1>1, Fields DEF Inv, TypeOK
  <2> QED BY <1>1, <1>2, <2>1, <2>2, Zenon DEF PanicsOnlyOnBadVolume
<1>4. TypeOK' /\ SmallSector' /\ Finds'
  BY <1>1, <1>2, Zenon DEF Inv, TypeOK, SmallSector, Finds, Outcomes, Panics
<1>5. Opening' /\ Searching' /\ Walking' /\ Advancing' /\ Done' /\ InFat'
  BY <1>1, Zenon DEF Opening, Searching, Walking, Advancing, Done, InFat
<1> QED BY <1>1, <1>3, <1>4, <1>5, DataKept, Zenon DEF Inv

(* A panic of the driver keeps the invariant: a sector that the drive does *)
(* not have is asked for on a volume that is larger than its drive, or by  *)
(* a link that is no cluster of the volume.                                *)
LEMMA AtaKeeps == ASSUME Inv, AtaPanics PROVE Inv'
<1> DEFINE spc == sectors_per_cluster
<1>1. /\ UNCHANGED disk /\ UNCHANGED <<slot, cluster, sector, data, lba>>
      /\ Asks /\ pc' \in {"drive", "beyond"} /\ (pc' = "beyond" => ~(AskedFor < DiskSectors))
  BY Zenon DEF AtaPanics
<1>2. /\ UNCHANGED <<sectors_per_cluster, file_size>>
      /\ chain' = chain /\ Found' = Found /\ \A k : Needs(k)' = Needs(k)
  BY <1>1, Frame, Zenon DEF Inv
<1>3. ASSUME ~(AskedFor < DiskSectors)
      PROVE  \/ DiskSectors = 0 \/ DiskSectors < ReservedSectors + FatSectors
             \/ DiskSectors < first_data_sector + NumClusters * spc
             \/ \E k \in 1 .. Longest : Needs(k) /\ chain[k] \notin Clusters
  <2>1. /\ DiskSectors \in Nat /\ AskedFor \in Nat /\ ReservedSectors \in Nat /\ FatSectors \in Nat
        /\ NumClusters \in Nat /\ spc \in Nat \ {0} /\ first_data_sector \in Nat
        /\ sector \in 0 .. spc - 1 /\ SECTOR_SIZE \in Nat \ {0}
    <3>1. ReservedSectors \in Nat /\ FatSectors \in Nat
      BY Fields, Zenon
    <3>2. spc \in Nat \ {0} /\ first_data_sector \in Nat /\ sector \in 0 .. spc - 1
      BY DiskNumbers, Zenon DEF Inv, TypeOK
    <3> QED BY <1>1, <3>1, <3>2, AskedSmall, Constants, Zenon
  <2>2. NumClusters * spc \in Nat
    BY <2>1
  <2>3. CASE pc = "open"
    <3>1. AskedFor = 0
      BY <2>3, Zenon DEF AskedFor
    <3> QED BY <1>3, <2>1, <3>1
  <2>4. CASE pc = "search"
    <3> DEFINE q == (slot - 1) \div SlotsPerSector
               first == first_root_dir_sector
               count == root_dir_sector_count
    <3>1. slot <= count * SlotsPerSector /\ slot \in Nat \ {0}
      BY <1>1, <2>4, Layout DEF Asks, Inv, TypeOK
    <3>2. /\ count \in Nat /\ first \in Nat /\ SlotsPerSector \in Nat \ {0}
          /\ first_data_sector = first + count
      BY Layout, Zenon
    <3>3. slot - 1 \in Nat /\ slot - 1 < count * SlotsPerSector
      BY <3>1, <3>2
    <3>4. q \in Nat /\ q < count
      BY <3>2, <3>3, Division, QuotientBelow, Zenon
    <3>5. AskedFor = first + q
      BY <2>4, Zenon DEF AskedFor
    <3> HIDE DEF q, first, count
    <3>6. DiskSectors < first_data_sector + NumClusters * spc
      BY <1>3, <2>1, <2>2, <3>2, <3>4, <3>5
    <3> QED BY <3>6, Zenon
  <2>5. CASE pc = "walk"
    <3>1. PICK k \in 1 .. Longest : cluster = chain[k] /\ Needs(k)
      BY <2>5, NeedsCluster, Zenon
    <3>2. CASE cluster \notin Clusters
      BY <3>1, <3>2, Zenon
    <3>3. CASE cluster \in Clusters
      <4>1. cluster - 2 \in 0 .. NumClusters - 1 /\ cluster \in Int
        BY <2>1, <3>3 DEF Clusters
      <4>2. (cluster - 2) * spc <= (NumClusters - 1) * spc
        BY <2>1, <4>1, Times
      <4>3. (NumClusters - 1) * spc = NumClusters * spc - spc
        BY <2>1
      <4>4. AskedFor = first_data_sector + (cluster - 2) * spc + sector
        BY <2>5, Zenon DEF AskedFor, cluster_to_lba
      <4>5. (cluster - 2) * spc \in Int
        BY <2>1, <4>1
      <4>6. DiskSectors < first_data_sector + NumClusters * spc
        BY <1>3, <2>1, <2>2, <4>2, <4>3, <4>4, <4>5
      <4> QED BY <4>6, Zenon
    <3> QED BY <3>2, <3>3, Zenon
  <2>6. CASE pc = "next"
    <3>1. PICK k \in 1 .. Longest : cluster = chain[k] /\ Needs(k)
      BY <2>6, NeedsCluster, Zenon
    <3>2. CASE cluster \notin Clusters
      BY <3>1, <3>2, Zenon
    <3>3. CASE cluster \in Clusters
      <4>1. AskedFor \in ReservedSectors .. ReservedSectors + FatSectors - 1
        BY <2>6, <3>3, LookedUpInFat, Zenon DEF AskedFor
      <4>2. DiskSectors < ReservedSectors + FatSectors
        BY <1>3, <2>1, <4>1
      <4> QED BY <4>2, Zenon
    <3> QED BY <3>2, <3>3, Zenon
  <2> QED BY <1>1, <2>3, <2>4, <2>5, <2>6, Zenon DEF Asks
<1>4. PanicsOnlyOnBadVolume'
  <2>1. pc' # "overflow" /\ pc' # "allocation"
    BY <1>1, Zenon
  <2> QED BY <1>1, <1>2, <1>3, <2>1, Zenon DEF PanicsOnlyOnBadVolume
<1>5. TypeOK' /\ SmallSector'
  BY <1>1, <1>2, Zenon DEF Inv, TypeOK, SmallSector, Outcomes, Panics
<1>6. Opening' /\ Searching' /\ Finds' /\ Walking' /\ Advancing' /\ Done' /\ InFat'
  BY <1>1, Zenon DEF Opening, Searching, Finds, Walking, Advancing, Done, InFat
<1> QED BY <1>1, <1>4, <1>5, <1>6, DataKept, Zenon DEF Inv

(* next_cluster keeps the invariant.                                       *)
LEMMA NextClusterKeeps == ASSUME Inv, NextCluster PROVE Inv'
<1>1. /\ UNCHANGED disk /\ UNCHANGED <<slot, sector, data>> /\ pc = "next"
      /\ lba' = AskedFor
      /\ \/ pc' = "some" /\ cluster' = cluster /\ EndMark(fat[cluster])
         \/ pc' = "walk" /\ cluster' = fat[cluster] /\ ~EndMark(fat[cluster])
  BY Zenon DEF NextCluster, read_sector
<1>2. /\ UNCHANGED <<sectors_per_cluster, directory, first_cluster, file_size>>
      /\ chain' = chain /\ ClusterBytes' = ClusterBytes /\ Found' = Found
      /\ \A k : Linked(k)' = Linked(k)
  BY <1>1, Frame, Zenon DEF Inv
<1>3. PICK k \in 0 .. Longest :
        /\ Linked(k + 1) /\ k + 1 <= Longest /\ cluster = chain[k + 1] /\ cluster \in OnDisk
        /\ Len(data) = (k + 1) * ClusterBytes /\ Len(data) < file_size /\ sector = 0
  BY <1>1, Zenon DEF Inv, Advancing
<1>4. /\ ClusterBytes \in Nat \ {0} /\ Longest \in Nat \ {0} /\ SECTOR_SIZE \in Nat \ {0}
      /\ file_size \in Nat /\ sectors_per_cluster \in Nat \ {0} /\ k \in Nat
  BY DiskNumbers, Longest_Type DEF Inv
<1>5. k + 2 <= Longest
  <2>1. k + 1 \in Nat /\ (k + 1) * ClusterBytes < file_size
    BY <1>3, <1>4
  <2>2. (k + 1) + 1 <= Longest
    BY <2>1, Reaches, Zenon DEF Inv
  <2> QED BY <1>4, <2>2
<1>6. chain[k + 2] = fat[cluster] /\ (k + 1) + 1 = k + 2
  <2>1. k + 1 \in 1 .. Longest - 1 /\ (k + 1) + 1 = k + 2
    BY <1>4, <1>5
  <2> QED BY <1>3, <2>1, ChainLinks, Zenon
<1>7. fat[cluster] \in Words /\ fat[cluster] \in U16
  BY <1>3, Constants, Zenon DEF Inv, DiskOK
<1>8. EndMark(fat[cluster]) <=> ~Linked(k + 2)
  <2> DEFINE w == fat[cluster]
  <2>1. w \in U16
    BY <1>7, Zenon
  <2> HIDE DEF w
  <2>2. (w >= FIRST_END \/ w = BAD_CLUSTER) <=> ~(w < BAD_CLUSTER)
    BY <2>1, Marks, Zenon
  <2>3. Linked(k + 2) <=> Linked(k + 1) /\ chain[k + 2] < BAD_CLUSTER
    <3>1. \A j : j \in 2 .. k + 2 <=> j \in 2 .. k + 1 \/ j = k + 2
      BY <1>4
    <3> QED BY <3>1, Zenon DEF Linked
  <2> QED BY <1>3, <1>6, <2>2, <2>3, Zenon DEF EndMark, w
<1>9. TypeOK' /\ SmallSector'
  <2>1. Asks
    BY <1>1, Zenon DEF Asks
  <2> QED BY <1>1, <1>2, <1>7, <2>1, AskedSmall, Zenon DEF Inv, TypeOK, SmallSector, Outcomes
<1>10. Opening' /\ Searching' /\ Finds' /\ Advancing' /\ PanicsOnlyOnBadVolume'
  BY <1>1, <1>2, Zenon DEF Inv, Opening, Searching, Finds, Advancing, PanicsOnlyOnBadVolume
<1>11. k + 1 \in 0 .. Longest /\ (k + 1) + 1 <= Longest
  BY <1>4, <1>5
<1>12. Walking'
  <2> SUFFICES ASSUME pc' = "walk"
               PROVE  \E j \in 0 .. Longest :
                        /\ Linked(j + 1) /\ j + 1 <= Longest /\ fat[cluster] = chain[j + 1]
                        /\ Len(data) = j * ClusterBytes + sector * SECTOR_SIZE
                        /\ Len(data) < file_size
    BY <1>1, <1>2, Zenon DEF Walking
  <2>1. Len(data) = (k + 1) * ClusterBytes + sector * SECTOR_SIZE
    BY <1>3, <1>4
  <2>2. Linked((k + 1) + 1)
    BY <1>1, <1>6, <1>8, Zenon
  <2> QED BY <1>3, <1>6, <1>11, <2>1, <2>2, Zenon
<1>13. Done'
  <2> SUFFICES ASSUME pc' = "some"
               PROVE  \E j \in 0 .. Longest :
                        /\ Linked(j) /\ Len(data) <= j * ClusterBytes
                        /\ Len(data) = j * ClusterBytes /\ j + 1 <= Longest
                        /\ ~Linked(j + 1)
    BY <1>1, <1>2, Zenon DEF Done
  <2>1. ~Linked((k + 1) + 1)
    BY <1>1, <1>6, <1>8, Zenon
  <2>2. (k + 1) * ClusterBytes <= (k + 1) * ClusterBytes
    BY <1>4
  <2> QED BY <1>3, <1>11, <2>1, <2>2, Zenon
<1>14. InFat'
  <2> DEFINE CB == ClusterBytes
             L == Len(data)
  <2>1. L = (k + 1) * CB + 0 /\ k + 1 \in Nat /\ CB \in Nat \ {0} /\ 0 \in 0 .. CB - 1
    BY <1>3, <1>4
  <2> HIDE DEF CB, L
  <2>2. L \div CB = k + 1
    BY <2>1, DivisionIs, Zenon
  <2>3. chain[Len(data) \div ClusterBytes] = cluster
    BY <1>3, <2>2, Zenon DEF CB, L
  <2>4. cluster \in Clusters => lba' \in ReservedSectors .. ReservedSectors + FatSectors - 1
    BY <1>1, LookedUpInFat, Zenon DEF AskedFor
  <2> QED BY <1>1, <1>2, <2>3, <2>4, Zenon DEF InFat
<1> QED BY <1>1, <1>9, <1>10, <1>12, <1>13, <1>14, DataKept, Zenon DEF Inv

(* The sector is that of the cluster, and is the one the next bytes are    *)
(* in.                                                                     *)
LEMMA ReadKeeps == ASSUME Inv, ReadDataSector PROVE Inv'
<1> DEFINE take == Take(file_size - Len(data))
           more == [i \in 1 .. take |-> <<lba', i - 1>>]
           spc == sectors_per_cluster
<1>1. /\ UNCHANGED disk /\ UNCHANGED <<slot, cluster>> /\ pc = "walk" /\ cluster >= 2
      /\ lba' = AskedFor /\ AskedFor < DiskSectors
      /\ data' = data \o more
      /\ \/ Len(data') >= file_size /\ pc' = "some" /\ sector' = sector
         \/ /\ ~(Len(data') >= file_size)
            /\ sector' = ((sector + 1) % sectors_per_cluster)
            /\ pc' = IF sector' = 0 THEN "next" ELSE "walk"
  BY Zenon DEF ReadDataSector, read_sector
<1>2. /\ UNCHANGED <<sectors_per_cluster, directory, first_cluster, file_size>>
      /\ DiskOK' /\ chain' = chain /\ ClusterBytes' = ClusterBytes /\ Found' = Found
      /\ OnDisk' = OnDisk
      /\ (\A n : ByteAt(n)' = ByteAt(n)) /\ \A k : Linked(k)' = Linked(k)
  BY <1>1, Frame, Zenon DEF Inv
<1>3. PICK k \in 0 .. Longest :
        /\ Linked(k + 1) /\ k + 1 <= Longest /\ cluster = chain[k + 1]
        /\ Len(data) = k * ClusterBytes + sector * SECTOR_SIZE /\ Len(data) < file_size
  BY <1>1, Zenon DEF Inv, Walking
<1>4. /\ ClusterBytes \in Nat \ {0} /\ Longest \in Nat \ {0} /\ SECTOR_SIZE \in Nat \ {0}
      /\ file_size \in Nat /\ spc \in Nat \ {0} /\ k \in Nat /\ sector \in 0 .. spc - 1
      /\ first_data_sector \in Nat /\ ClusterBytes = spc * SECTOR_SIZE
  BY DiskNumbers, Longest_Type DEF Inv, TypeOK, ClusterBytes
<1>5. cluster \in Words /\ cluster - 2 \in Nat
  <2>1. cluster \in {0} \union Words /\ cluster \in Int
    BY Fields DEF Inv, TypeOK
  <2> QED BY <1>1, <2>1
<1>6. data \in Seq(Places) /\ Len(data) \in Nat
  BY DEF Inv
<1>7. /\ take \in 1 .. SECTOR_SIZE /\ take <= file_size - Len(data)
      /\ (take = file_size - Len(data) \/ take = SECTOR_SIZE)
  <2>1. file_size - Len(data) \in Nat \ {0}
    BY <1>3, <1>4, <1>6
  <2>2. take = IF file_size - Len(data) <= SECTOR_SIZE THEN file_size - Len(data) ELSE SECTOR_SIZE
    BY <1>4, <2>1, MinOfTwo, Zenon DEF Take
  <2> QED BY <1>4, <2>1, <2>2
<1> HIDE DEF take
<1>8. lba' = first_data_sector + (cluster - 2) * spc + sector /\ lba' \in Int
  <2>1. lba' = first_data_sector + (cluster - 2) * spc + sector
    BY <1>1, Zenon DEF AskedFor, cluster_to_lba
  <2> QED BY <1>4, <1>5, <2>1
<1>9. more \in Seq(Places) /\ Len(more) = take /\ \A i \in 1 .. take : more[i] = <<lba', i - 1>>
  <2>1. \A i \in 1 .. take : <<lba', i - 1>> \in Places
    BY <1>7, <1>8 DEF Places
  <2>2. take \in Nat
    BY <1>7
  <2> QED BY <2>1, <2>2
<1> HIDE DEF more
<1>10. /\ data' \in Seq(Places) /\ Len(data') = Len(data) + take
       /\ \A i \in 1 .. Len(data) + take :
            data'[i] = IF i <= Len(data) THEN data[i] ELSE more[i - Len(data)]
  BY <1>1, <1>6, <1>9
<1>11. Len(data') \in Nat /\ Len(data') <= file_size
  BY <1>4, <1>6, <1>7, <1>10
<1>12. ASSUME NEW n \in Len(data) .. Len(data) + take - 1
       PROVE  /\ data'[n + 1] = <<lba', n - Len(data)>>
              /\ n \in Nat /\ n \div ClusterBytes = k
              /\ (n % ClusterBytes) \div SECTOR_SIZE = sector
              /\ (n % SECTOR_SIZE) = n - Len(data)
  <2> DEFINE r == n - Len(data)
  <2>1. n + 1 \in 1 .. Len(data) + take /\ n \in Nat /\ ~(n + 1 <= Len(data))
    BY <1>6, <1>7
  <2>2. r \in 0 .. SECTOR_SIZE - 1 /\ r + 1 \in 1 .. take /\ (n + 1) - Len(data) = r + 1
    BY <1>6, <1>7, <1>4
  <2>3. data'[n + 1] = <<lba', r>>
    <3>1. data'[n + 1] = more[r + 1] /\ (r + 1) - 1 = r
      BY <1>6, <1>10, <2>1, <2>2
    <3> QED BY <1>9, <2>2, <3>1, Zenon
  <2>4. n = k * (spc * SECTOR_SIZE) + sector * SECTOR_SIZE + r
    <3>1. n = Len(data) + r
      BY <1>6, <2>1
    <3> HIDE DEF r
    <3> QED BY <1>3, <1>4, <2>2, <3>1, Zenon
  <2> HIDE DEF r
  <2>5. spc \in Nat \ {0} /\ sector \in 0 .. spc - 1 /\ SECTOR_SIZE \in Nat \ {0} /\ k \in Nat
    BY <1>4, Zenon
  <2>6. ClusterBytes = spc * SECTOR_SIZE
    BY <1>4, Zenon
  <2> HIDE DEF spc
  <2>7. LocatedAt(ByteNumber(k, sector, r, spc, SECTOR_SIZE), k, sector, r, spc, SECTOR_SIZE)
    BY <2>2, <2>5, Position, Zenon
  <2>8. n = ByteNumber(k, sector, r, spc, SECTOR_SIZE)
    BY <2>4, Zenon DEF ByteNumber
  <2>9. LocatedAt(n, k, sector, r, spc, SECTOR_SIZE)
    BY <2>7, <2>8, Zenon
  <2> QED BY <2>1, <2>3, <2>6, <2>9, Zenon DEF LocatedAt, r
<1>13. InDataArea'
  <2>1. 0 * spc <= (cluster - 2) * spc /\ 0 * spc = 0 /\ (cluster - 2) * spc \in Int
    BY <1>4, <1>5, Times
  <2>2. lba' >= first_data_sector
    BY <1>4, <1>8, <2>1
  <2>3. ASSUME cluster \in Clusters PROVE lba' <= first_data_sector + NumClusters * spc - 1
    <3>1. cluster - 2 <= NumClusters - 1 /\ NumClusters \in Nat /\ cluster - 2 \in Int
      BY <1>5, <2>3, Constants DEF Clusters
    <3>2. (cluster - 2) * spc <= (NumClusters - 1) * spc
      BY <1>4, <3>1, Times
    <3>3. (NumClusters - 1) * spc = NumClusters * spc - spc /\ NumClusters * spc \in Nat
      BY <1>4, <3>1
    <3> QED BY <1>4, <1>8, <2>1, <3>2, <3>3
  <2>4. ASSUME NEW n \in 1 .. Len(data')
        PROVE  /\ data'[n][1] >= first_data_sector
               /\ chain[(n - 1) \div ClusterBytes + 1] \in Clusters =>
                    data'[n][1] <= first_data_sector + NumClusters * spc - 1
    <3>1. n \in 1 .. Len(data) + take
      BY <1>10, Zenon
    <3>2. CASE n <= Len(data)
      <4>1. n \in 1 .. Len(data) /\ data'[n] = data[n]
        BY <1>6, <1>7, <1>10, <3>1, <3>2
      <4> QED BY <4>1, Zenon DEF Inv, InDataArea
    <3>3. CASE n > Len(data)
      <4>1. n - 1 \in Len(data) .. Len(data) + take - 1 /\ (n - 1) + 1 = n
        BY <1>6, <1>7, <3>1, <3>3
      <4>2. data'[(n - 1) + 1] = <<lba', (n - 1) - Len(data)>> /\ (n - 1) \div ClusterBytes = k
        BY <1>12, <4>1, Zenon
      <4>3. data'[n][1] = lba' /\ chain[(n - 1) \div ClusterBytes + 1] = cluster
        BY <1>3, <4>1, <4>2
      <4> QED BY <2>2, <2>3, <4>3, Zenon
    <3> QED BY <1>6, <1>7, <3>1, <3>2, <3>3
  <2> QED BY <1>2, <2>4, Zenon DEF InDataArea
<1>14. BytesInOrder'
  <2>1. ASSUME NEW n \in 0 .. Len(data') - 1 PROVE data'[n + 1] = ByteAt(n)
    <3>1. n + 1 \in 1 .. Len(data) + take /\ n \in Nat
      BY <1>6, <1>7, <1>10
    <3>2. CASE n < Len(data)
      BY <1>6, <1>10, <3>1, <3>2 DEF Inv, BytesInOrder
    <3>3. CASE n >= Len(data)
      <4>1. n \in Len(data) .. Len(data) + take - 1
        BY <1>6, <1>7, <3>1, <3>3
      <4>2. ByteAt(n) = <<first_data_sector + (chain[k + 1] - 2) * spc + sector, n - Len(data)>>
        BY <1>12, <4>1, Zenon DEF ByteAt
      <4>3. data'[n + 1] = <<lba', n - Len(data)>>
        BY <1>12, <4>1, Zenon
      <4> QED BY <1>3, <1>8, <4>2, <4>3, Zenon
    <3> QED BY <1>6, <3>1, <3>2, <3>3
  <2> QED BY <1>2, <2>1, Zenon DEF BytesInOrder
<1>15. SmallSector'
  <2>1. Asks
    BY <1>1, Zenon DEF Asks
  <2> QED BY <1>1, <2>1, AskedSmall, Zenon DEF SmallSector
<1>16. k + 1 \in 0 .. Longest
  BY <1>3, <1>4
<1>17. (k + 1) * ClusterBytes = k * ClusterBytes + ClusterBytes
  BY <1>4
<1>18. (sector + 1) * SECTOR_SIZE = sector * SECTOR_SIZE + SECTOR_SIZE
  BY <1>4
<1>19. (sector + 1) * SECTOR_SIZE <= ClusterBytes
  BY <1>4, Times
<1>20. k * ClusterBytes \in Nat /\ sector * SECTOR_SIZE \in Nat
  BY <1>4
<1>21. Len(data') <= (k + 1) * ClusterBytes
  <2> DEFINE a == k * ClusterBytes
             b == sector * SECTOR_SIZE
             L == Len(data)
  <2>1. a \in Nat /\ b \in Nat /\ L = a + b /\ take <= SECTOR_SIZE /\ take \in Nat
    BY <1>3, <1>4, <1>7, <1>20
  <2>2. b + SECTOR_SIZE <= ClusterBytes /\ (k + 1) * ClusterBytes = a + ClusterBytes
    BY <1>17, <1>18, <1>19, Zenon
  <2>3. Len(data') = L + take
    BY <1>10, Zenon
  <2> HIDE DEF a, b, L
  <2>4. L + take <= a + ClusterBytes
    BY <1>4, <2>1, <2>2
  <2> QED BY <2>2, <2>3, <2>4, Zenon
<1>22. CASE Len(data') >= file_size
  <2>1. pc' = "some" /\ sector' = sector
    BY <1>1, <1>22, Zenon
  <2>2. Len(data') = file_size
    BY <1>4, <1>11, <1>22
  <2>3. Done'
    <3> SUFFICES \E j \in 0 .. Longest :
                   Linked(j) /\ Len(data') <= j * ClusterBytes /\ Len(data') = file_size
      BY <1>2, Zenon DEF Done
    <3> QED BY <1>3, <1>21, <1>16, <2>2, Zenon
  <2>4. TypeOK'
    BY <1>1, <1>2, <1>11, <2>1, Zenon DEF Inv, TypeOK, Outcomes
  <2>5. Opening' /\ Walking' /\ Advancing' /\ PanicsOnlyOnBadVolume' /\ InFat' /\ Searching'
    BY <2>1, Zenon DEF Opening, Walking, Advancing, PanicsOnlyOnBadVolume, InFat, Searching
  <2>6. Finds'
    BY <1>1, <1>2, <2>1, Zenon DEF Inv, Finds
  <2> QED BY <1>2, <1>10, <1>13, <1>14, <1>15, <2>3, <2>4, <2>5, <2>6, Zenon DEF Inv
<1>23. CASE ~(Len(data') >= file_size)
  <2>1. /\ sector' = ((sector + 1) % spc) /\ pc' = IF sector' = 0 THEN "next" ELSE "walk"
        /\ Len(data') < file_size
    BY <1>1, <1>4, <1>11, <1>23
  <2>2. take = SECTOR_SIZE
    BY <1>4, <1>6, <1>7, <1>10, <2>1
  <2>3. Len(data') = k * ClusterBytes + (sector + 1) * SECTOR_SIZE
    BY <1>3, <1>4, <1>10, <1>18, <1>20, <2>2
  <2>4. \/ sector + 1 = spc /\ sector' = 0
        \/ sector + 1 < spc /\ sector' = sector + 1
    <3>1. CASE sector + 1 = spc
      <4>1. ((1 * spc + 0) % spc) = 0
        BY <1>4, DivisionIs
      <4> QED BY <1>4, <2>1, <3>1, <4>1
    <3>2. CASE sector + 1 < spc
      <4>1. sector + 1 \in 0 .. spc - 1
        BY <1>4, <3>2
      <4>2. ((0 * spc + (sector + 1)) % spc) = sector + 1
        BY <1>4, <4>1, DivisionIs, Zenon
      <4>3. 0 * spc + (sector + 1) = sector + 1
        BY <1>4
      <4> QED BY <2>1, <3>2, <4>2, <4>3, Zenon
    <3> QED BY <1>4, <3>1, <3>2
  <2>5. Walking'
    <3> SUFFICES ASSUME pc' = "walk"
                 PROVE  \E j \in 0 .. Longest :
                          /\ Linked(j + 1) /\ j + 1 <= Longest /\ cluster = chain[j + 1]
                          /\ Len(data') = j * ClusterBytes + sector' * SECTOR_SIZE
                          /\ Len(data') < file_size
      BY <1>1, <1>2, Zenon DEF Walking
    <3>1. sector' = sector + 1
      BY <2>1, <2>4, Zenon
    <3> QED BY <1>3, <2>1, <2>3, <3>1, Zenon
  <2>6. Advancing'
    <3> SUFFICES ASSUME pc' = "next"
                 PROVE  \E j \in 0 .. Longest :
                          /\ Linked(j + 1) /\ j + 1 <= Longest
                          /\ cluster = chain[j + 1] /\ cluster \in OnDisk
                          /\ Len(data') = (j + 1) * ClusterBytes
                          /\ Len(data') < file_size /\ sector' = 0
      BY <1>1, <1>2, Zenon DEF Advancing
    <3>1. sector' = 0 /\ sector + 1 = spc
      BY <1>4, <2>1, <2>4
    <3>2. Len(data') = (k + 1) * ClusterBytes
      BY <1>4, <1>17, <2>3, <3>1, Zenon
    <3>3. cluster \in OnDisk
      <4>1. cluster_to_lba(cluster) = first_data_sector + (cluster - 2) * spc
        BY Zenon DEF cluster_to_lba
      <4>2. (cluster - 2) * spc \in Int /\ DiskSectors \in Nat /\ cluster >= 2
        BY <1>1, <1>4, <1>5, Constants
      <4>3. cluster_to_lba(cluster) + sectors_per_cluster <= DiskSectors
        BY <1>1, <1>4, <1>8, <3>1, <4>1, <4>2
      <4> QED BY <1>5, <4>2, <4>3, Zenon DEF OnDisk
    <3> QED BY <1>3, <2>1, <3>1, <3>2, <3>3, Zenon
  <2>7. TypeOK'
    <3>1. sector' \in 0 .. spc - 1
      BY <1>4, <2>4
    <3> QED BY <1>1, <1>2, <1>11, <2>1, <3>1, Zenon DEF Inv, TypeOK
  <2>8. Opening' /\ Done' /\ PanicsOnlyOnBadVolume' /\ InFat' /\ Searching'
    BY <2>1, Zenon DEF Opening, Done, PanicsOnlyOnBadVolume, InFat, Searching
  <2>9. Finds'
    BY <1>1, <1>2, <2>1, Zenon DEF Inv, Finds
  <2> QED BY <1>2, <1>10, <1>13, <1>14, <1>15, <2>5, <2>6, <2>7, <2>8, <2>9, Zenon DEF Inv
<1> QED BY <1>22, <1>23, Zenon

(* The invariant holds when read_file is called.                           *)
LEMMA InitInv == Init => Inv
<1> SUFFICES ASSUME Init PROVE Inv
  BY Zenon
<1>1. DiskOK
  BY Zenon DEF Init, DiskOK
<1>2. SlotsOnDisk \in Nat /\ sectors_per_cluster \in Nat \ {0} /\ file_size \in Nat
  BY <1>1, Layout, DiskNumbers, Zenon
<1>3. data = <<>> /\ pc = "open" /\ slot = 1 /\ cluster = 0 /\ sector = 0 /\ lba = 0
  BY Zenon DEF Init
<1>4. TypeOK /\ data \in Seq(Places) /\ SmallSector
  <2>1. 0 < LBA28
    BY SMT DEF LBA28
  <2> QED BY <1>2, <1>3, <2>1, SMT DEF TypeOK, SmallSector
<1>5. Opening /\ Searching /\ Finds
  BY <1>3, Zenon DEF Opening, Searching, Finds
<1>6. Walking /\ Advancing /\ Done /\ PanicsOnlyOnBadVolume /\ InFat
  BY <1>3, Zenon DEF Walking, Advancing, Done, PanicsOnlyOnBadVolume, InFat
<1>7. InDataArea /\ BytesInOrder
  BY <1>3 DEF InDataArea, BytesInOrder
<1> QED BY <1>1, <1>4, <1>5, <1>6, <1>7, Zenon DEF Inv

(* Every step of read_file keeps the invariant.                            *)
LEMMA NextInv == Inv /\ [Next]_vars => Inv'
<1> SUFFICES ASSUME Inv, [Next]_vars PROVE Inv'
  BY Zenon
<1>1. CASE ReadStep
  BY <1>1, OpenKeeps, SearchKeeps, ReservedKeeps, ReadKeeps, NextClusterKeeps, AtaKeeps, Zenon
     DEF ReadStep
<1>2. CASE UNCHANGED vars
  <2>1. UNCHANGED disk /\ UNCHANGED <<pc, slot, cluster, sector, data, lba>>
    BY <1>2, Zenon DEF vars
  <2>2. /\ UNCHANGED <<sectors_per_cluster, directory, first_cluster, file_size>>
        /\ chain' = chain /\ ClusterBytes' = ClusterBytes /\ OnDisk' = OnDisk /\ Found' = Found
        /\ (\A k : Linked(k)' = Linked(k)) /\ \A k : Needs(k)' = Needs(k)
    BY <2>1, Frame, Zenon DEF Inv
  <2>3. TypeOK' /\ SmallSector' /\ Opening' /\ Searching' /\ Finds' /\ InFat'
    BY <2>1, <2>2, Zenon DEF Inv, TypeOK, SmallSector, Opening, Searching, Finds, InFat
  <2>4. Walking' /\ Advancing' /\ Done' /\ PanicsOnlyOnBadVolume'
    BY <2>1, <2>2, Zenon DEF Inv, Walking, Advancing, Done, PanicsOnlyOnBadVolume
  <2> QED BY <2>1, <2>3, <2>4, DataKept, Zenon DEF Inv
<1> QED BY <1>1, <1>2, Zenon DEF Next, Outcome

(* The invariant holds in every state.                                     *)
LEMMA SpecInv == Spec => []Inv
BY InitInv, NextInv, PTL DEF Spec

-----------------------------------------------------------------------------
(* Failures of the drive apart, the kernel stops in read_file only on a    *)
(* chain that leads, before the file is complete, to cluster 0 or 1 or out *)
(* of the volume, on a volume that is larger than its drive, or for a size *)
(* that the heap has no block for.                                         *)
THEOREM PanicsAreDue == Spec => []PanicsOnlyOnBadVolume
<1>1. Inv => PanicsOnlyOnBadVolume
  BY Zenon DEF Inv
<1> QED BY <1>1, SpecInv, PTL

(* The search reads the directory only.  File data never comes from below  *)
(* the data area, whose first sector is found by rounding the directory    *)
(* up, and from beyond it only by a link that is no cluster of the volume, *)
(* whose clusters are looked up in the first FAT.  Every sector number     *)
(* fits in 28 bits, whatever the parameter block and the FAT hold.         *)
THEOREM StaysInItsArea == Spec => []ReadsItsOwnArea
<1> DEFINE bytes == RootEntries * DIR_ENTRY_SIZE
           starts == {i \in 0 .. bytes - 1 : (i % SECTOR_SIZE) = 0}
           first == ReservedSectors + NumFats * FatSectors
<1>1. RootDirSectors = first_root_dir_sector .. first_root_dir_sector + root_dir_sector_count - 1
  <2>1. bytes \in Nat /\ SECTOR_SIZE \in Nat \ {0}
    BY Constants, Fields
  <2>2. root_dir_sector_count = (bytes + SECTOR_SIZE - 1) \div SECTOR_SIZE
    BY Zenon DEF root_dir_sector_count
  <2>3. RootDirSectors = first .. first + Cardinality(starts) - 1
    BY Zenon DEF RootDirSectors
  <2> HIDE DEF bytes
  <2>4. Cardinality(starts) = root_dir_sector_count
    BY <2>1, <2>2, Ceiling, Zenon
  <2>5. first = first_root_dir_sector
    BY Zenon DEF first_root_dir_sector, first_fat_sector
  <2> QED BY <2>3, <2>4, <2>5, Zenon
<1>2. Cardinality(RootDirSectors) = root_dir_sector_count
  <2> DEFINE a == first_root_dir_sector
             b == first_root_dir_sector + root_dir_sector_count - 1
  <2>1. a \in Int /\ b \in Int /\ root_dir_sector_count \in Nat /\ b - a + 1 = root_dir_sector_count
    BY Layout
  <2> HIDE DEF a, b
  <2>2. Cardinality(a .. b) = IF a > b THEN 0 ELSE b - a + 1
    BY <2>1, FS_Interval, Zenon
  <2>3. Cardinality(a .. b) = root_dir_sector_count
    BY <2>1, <2>2
  <2> QED BY <1>1, <2>3, Zenon DEF a, b
<1>3. ReservedSectors + NumFats * FatSectors + Cardinality(RootDirSectors) = first_data_sector
  BY <1>2, Zenon DEF first_data_sector, first_root_dir_sector, first_fat_sector
<1>4. ASSUME Inv PROVE ReadsItsOwnArea
  <2>1. DOMAIN data = 1 .. Len(data)
    BY <1>4 DEF Inv
  <2>2. lba < LBA28 /\ (Asks => AskedFor < LBA28)
    BY <1>4, AskedSmall, Zenon DEF Inv, SmallSector
  <2>3. pc = "search" /\ slot > 1 => lba \in RootDirSectors
    BY <1>1, <1>4, Zenon DEF Inv, Searching
  <2> QED BY <1>3, <1>4, <2>1, <2>2, <2>3, Zenon DEF Inv, InDataArea, InFat, ReadsItsOwnArea
<1> QED BY <1>4, SpecInv, PTL

(* read_file finds the file exactly when a slot of the directory's whole   *)
(* sectors has it before the end mark, and returns the bytes of its chain, *)
(* wherever that leads, in order and all of them up to the size of the     *)
(* file or the end of the chain.                                           *)
THEOREM FileReturned == Spec => []ReturnsFile
<1>1. ASSUME Inv PROVE ReturnsFile
  <2>1. ASSUME pc = "some" PROVE Len(data) = Cardinality(Readable)
    <3>1. PICK k \in 0 .. Longest :
            /\ Linked(k) /\ Len(data) <= k * ClusterBytes
            /\ \/ Len(data) = file_size
               \/ Len(data) = k * ClusterBytes /\ k + 1 <= Longest /\ ~Linked(k + 1)
      BY <1>1, <2>1, Zenon DEF Inv, Done
    <3>2. /\ ClusterBytes \in Nat \ {0} /\ file_size \in Nat /\ Longest \in Nat /\ k \in Nat
          /\ Len(data) \in Nat /\ Len(data) <= file_size
      BY <1>1, DiskNumbers, Longest_Type DEF Inv, TypeOK
    <3>3. ASSUME NEW n \in 0 .. Len(data) - 1 PROVE n \in Readable
      <4>1. n \in Nat /\ n < k * ClusterBytes /\ n \in 0 .. file_size - 1
        BY <3>1, <3>2
      <4>2. n \div ClusterBytes < k /\ n \div ClusterBytes \in Nat
        BY <3>2, <4>1, QuotientBelow, Division, Zenon
      <4>3. \A j \in 2 .. n \div ClusterBytes + 1 : j \in 2 .. k
        BY <3>2, <4>2
      <4> QED BY <3>1, <4>1, <4>3, Zenon DEF Linked, Readable
    <3>4. ASSUME NEW n \in Readable PROVE n \in 0 .. Len(data) - 1
      <4>1. n \in Nat /\ n <= file_size - 1
        BY <3>2 DEF Readable
      <4> SUFFICES ASSUME n >= Len(data) PROVE FALSE
        BY <3>2, <4>1
      <4>2. Len(data) = k * ClusterBytes /\ k + 1 <= Longest /\ ~Linked(k + 1)
        BY <3>1, <3>2, <4>1
      <4>3. k <= n \div ClusterBytes /\ n \div ClusterBytes \in Nat
        BY <3>2, <4>1, <4>2, QuotientAtLeast, Division, Zenon
      <4>4. \A j \in 2 .. k + 1 : j \in 2 .. n \div ClusterBytes + 1
        BY <3>2, <4>3
      <4> QED BY <4>2, <4>4, Zenon DEF Readable, Linked
    <3>5. Readable = 0 .. Len(data) - 1
      BY <3>3, <3>4, Zenon
    <3>6. Cardinality(0 .. Len(data) - 1) = Len(data)
      <4> DEFINE L == Len(data)
      <4>1. L \in Nat
        BY <3>2, Zenon
      <4> HIDE DEF L
      <4>2. Cardinality(0 .. L - 1) = IF 0 > L - 1 THEN 0 ELSE L - 1 - 0 + 1
        BY <4>1, FS_Interval
      <4>3. Cardinality(0 .. L - 1) = L
        BY <4>1, <4>2
      <4> QED BY <4>3, Zenon DEF L
    <3> QED BY <3>5, <3>6, Zenon
  <2> QED BY <1>1, <2>1, Zenon DEF Inv, Finds, Found, BytesInOrder, ReturnsFile
<1> QED BY <1>1, SpecInv, PTL
=============================================================================
