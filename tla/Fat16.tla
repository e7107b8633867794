-------------------------------- MODULE Fat16 -------------------------------
(***************************************************************************)
(* fs::read_file: find a file in the root directory of a FAT16 volume and  *)
(* follow its chain of clusters.  Sectors are read one step at a time, and *)
(* a byte of the disk is named by its sector and its place in it, so that  *)
(* what the reader returns tells where it came from.                       *)
(*                                                                         *)
(* The volume need not be well formed.  A chain may end early, form a      *)
(* cycle, lead to the reserved cluster numbers 0 and 1, or lead out of the *)
(* data area and off the disk: the reader follows every word that is not   *)
(* an end mark.  The file's size may be more than the heap can hold.  And  *)
(* the drive may fail at any sector.                                       *)
(***************************************************************************)
EXTENDS Integers, Sequences, FiniteSets, FiniteSetsExt

CONSTANTS
  SECTOR_SIZE,            \* 512
  DIR_ENTRY_SIZE,         \* 32
  ReservedSectors, NumFats, FatSectors, RootEntries,  \* the BPB's layout
  SectorsPerCluster,      \* the values tried
  NumClusters,            \* data clusters of the volume
  Words,                  \* the 16-bit words tried in the FAT and as a first cluster
  Directories,            \* the root directories tried
  FileSizes,              \* the sizes tried
  DiskSectors,            \* sectors of the drive
  HeapFree                \* the largest block that the heap has

U8 == 0 .. 255
U16 == 0 .. 65535
BAD_CLUSTER == 65527    \* 0xFFF7
FIRST_END == 65528      \* 0xFFF8
LBA28 == 2^28

Clusters == 2 .. NumClusters + 1

(* What a directory slot may hold: the end mark, the file that is looked   *)
(* for, or something to be skipped (a free slot, a long name, a volume id, *)
(* a subdirectory, another file).  The directory takes whole sectors, so   *)
(* its last one may have slots beyond the RootEntries of the BPB.          *)
DirSlots == {"end", "skip", "name"}
SlotsPerSector == SECTOR_SIZE \div DIR_ENTRY_SIZE
SlotsOnDisk ==
  ((RootEntries * DIR_ENTRY_SIZE + SECTOR_SIZE - 1) \div SECTOR_SIZE) * SlotsPerSector

(* The fields have the widths of the BPB's; a FAT has room for the entries *)
(* of the clusters it is for.                                              *)
ASSUME Fat16Assumption ==
  /\ {SECTOR_SIZE, DIR_ENTRY_SIZE} \subseteq Nat \ {0}
  /\ DIR_ENTRY_SIZE <= SECTOR_SIZE
  /\ {ReservedSectors, FatSectors, RootEntries} \subseteq U16
  /\ NumFats \in U8
  /\ SectorsPerCluster \subseteq U8 \ {0}
  /\ Words \subseteq U16
  /\ Directories \subseteq [1 .. SlotsOnDisk -> DirSlots]
  /\ FileSizes \subseteq Nat
  /\ \E m \in FileSizes : \A s \in FileSizes : s <= m   \* a u32
  /\ {NumClusters, DiskSectors, HeapFree} \subseteq Nat
  /\ NumClusters + 1 < BAD_CLUSTER
  /\ (NumClusters + 2) * 2 <= FatSectors * SECTOR_SIZE

VARIABLES
  sectors_per_cluster, fat, directory, first_cluster, file_size,  \* the volume
  pc,       \* "open", "search", "walk", "next", or the outcome
  slot,     \* directory slot looked at next
  cluster, sector,  \* cluster being read, and sector within it
  data,     \* the bytes read so far
  lba       \* the last sector read

disk == <<sectors_per_cluster, fat, directory, first_cluster, file_size>>
vars == <<disk, pc, slot, cluster, sector, data, lba>>

(* read_file returns None (the name is no 8.3 name or the drive has no     *)
(* FAT16 volume; or there is no such file) or Some, or it panics: in the   *)
(* subtraction of cluster_to_lba, in the allocation of the buffer, at a    *)
(* sector that the drive does not have, at one that it fails to read.      *)
Panics == {"overflow", "allocation", "beyond", "drive"}
Outcomes == {"refused", "none", "some"} \union Panics

-----------------------------------------------------------------------------
(* The layout of the volume.                                               *)

first_fat_sector == ReservedSectors

RoundsDown == (RootEntries * DIR_ENTRY_SIZE) \div SECTOR_SIZE

root_dir_sector_count == (RootEntries * DIR_ENTRY_SIZE + SECTOR_SIZE - 1) \div SECTOR_SIZE

first_root_dir_sector == first_fat_sector + NumFats * FatSectors

first_data_sector == first_root_dir_sector + root_dir_sector_count

OffByOneCluster(c) == first_data_sector + (c - 1) * sectors_per_cluster

cluster_to_lba(c) == first_data_sector + (c - 2) * sectors_per_cluster

(* The clusters that are on the disk as a whole: only their words are ever *)
(* looked up, in the FAT or, for a cluster beyond it, in what follows it.  *)
OnDisk == {c \in Words : c >= 2 /\ cluster_to_lba(c) + sectors_per_cluster <= DiskSectors}

Init ==
  /\ sectors_per_cluster \in SectorsPerCluster
  /\ fat \in [OnDisk -> Words]
  /\ directory \in Directories
  /\ first_cluster \in Words
  /\ file_size \in FileSizes
  /\ pc = "open"
  /\ slot = 1
  /\ cluster = 0
  /\ sector = 0
  /\ data = <<>>
  /\ lba = 0

-----------------------------------------------------------------------------
(* The sector that the next step asks the drive for, if it does: the boot  *)
(* sector, one of the directory, one of a cluster, or one of the FAT.      *)
Asks ==
  \/ pc \in {"open", "next"}
  \/ /\ pc = "search"
     /\ slot <= root_dir_sector_count * SlotsPerSector
     /\ (slot - 1) % SlotsPerSector = 0
  \/ pc = "walk" /\ cluster >= 2

AskedFor ==
  CASE pc = "open"   -> 0
    [] pc = "search" -> first_root_dir_sector + (slot - 1) \div SlotsPerSector
    [] pc = "walk"   -> cluster_to_lba(cluster) + sector
    [] pc = "next"   -> first_fat_sector + (cluster * 2) \div SECTOR_SIZE

(* ata::read_sector returns: the drive has the sector.                     *)
read_sector == AskedFor < DiskSectors /\ lba' = AskedFor

(* ata::read_sector panics.  A drive that is asked for a sector that it    *)
(* does not have reports an error; any other one it may fail to read.      *)
AtaPanics ==
  /\ Asks
  /\ pc' = IF AskedFor < DiskSectors THEN "drive" ELSE "beyond"
  /\ UNCHANGED <<disk, slot, cluster, sector, data, lba>>

(* The name is put in 8.3 form, and the boot sector read and parsed.       *)
Open ==
  /\ pc = "open"
  /\ \/ pc' = "refused" /\ UNCHANGED lba    \* to_fat_83
     \/ pc' \in {"refused", "search"} /\ read_sector
  /\ UNCHANGED <<disk, slot, cluster, sector, data>>

(* The file is found: Vec::with_capacity, and an empty file has no chain.  *)
Allocates ==
  IF file_size > HeapFree THEN "allocation" ELSE IF file_size = 0 THEN "some" ELSE "walk"

(* find_in_root_dir, one slot at a time.                                   *)
FindInRootDir ==
  /\ pc = "search"
  /\ IF Asks THEN read_sector ELSE UNCHANGED lba
  /\ slot' = slot + 1
  /\ cluster' = first_cluster
  /\ pc' = IF slot > root_dir_sector_count * SlotsPerSector THEN "none"
           ELSE CASE directory[slot] = "end"  -> "none"
                  [] directory[slot] = "name" -> Allocates
                  [] directory[slot] = "skip" -> "search"
  /\ UNCHANGED <<disk, sector, data>>

(* cluster as u32 - 2: below 2 it overflows, which the build checks for.   *)
ReservedCluster ==
  /\ pc = "walk"
  /\ cluster < 2
  /\ pc' = "overflow"
  /\ UNCHANGED <<disk, slot, cluster, sector, data, lba>>

WholeSectorsOnly(remaining) == IF remaining < SECTOR_SIZE THEN 0 ELSE SECTOR_SIZE

Take(remaining) == Min({remaining, SECTOR_SIZE})

(* The inner loop of read_file: one sector of the cluster.                 *)
ReadDataSector ==
  /\ pc = "walk"
  /\ cluster >= 2
  /\ read_sector
  /\ LET take == Take(file_size - Len(data))
     IN  data' = data \o [i \in 1 .. take |-> <<lba', i - 1>>]
  /\ IF Len(data') >= file_size
     THEN pc' = "some" /\ UNCHANGED sector
     ELSE /\ sector' = (sector + 1) % sectors_per_cluster
          /\ pc' = IF sector' = 0 THEN "next" ELSE "walk"
  /\ UNCHANGED <<disk, slot, cluster>>

FollowsBadCluster(word) == word >= FIRST_END

(* The words that end a chain; every other one is followed.                *)
EndMark(word) == word >= FIRST_END \/ word = BAD_CLUSTER

(* next_cluster: a chain that ends, or meets a bad cluster, makes the read *)
(* come back short.                                                        *)
NextCluster ==
  /\ pc = "next"
  /\ read_sector
  /\ IF EndMark(fat[cluster])
     THEN pc' = "some" /\ UNCHANGED cluster
     ELSE pc' = "walk" /\ cluster' = fat[cluster]
  /\ UNCHANGED <<disk, slot, sector, data>>

Outcome == pc \in Outcomes /\ UNCHANGED vars

ReadStep ==
  \/ Open \/ FindInRootDir \/ ReservedCluster \/ ReadDataSector \/ NextCluster
  \/ AtaPanics

Next == ReadStep \/ Outcome

Spec == Init /\ [][Next]_vars

(* The reader is one thread of the kernel, and runs.                       *)
FairSpec == Spec /\ WF_vars(ReadStep)

-----------------------------------------------------------------------------
(* The clusters of the file in order, by definition of the FAT: chain[k]   *)
(* is the k-th, as long as those before it lead somewhere.                 *)
Longest == (Max(FileSizes) \div SECTOR_SIZE) + 1
chain[k \in 1 .. Longest] ==
  IF k = 1 THEN first_cluster
  ELSE IF chain[k - 1] \in OnDisk THEN fat[chain[k - 1]] ELSE FIRST_END

(* The chain has a k-th cluster: no link up to it is an end mark, the      *)
(* words 0xFFF7 to 0xFFFF.                                                 *)
Linked(k) == \A j \in 2 .. k : chain[j] < BAD_CLUSTER

ClusterBytes == sectors_per_cluster * SECTOR_SIZE

(* The file is long enough to need the k-th cluster, and the chain has it. *)
Needs(k) == (k - 1) * ClusterBytes < file_size /\ Linked(k)

(* Where byte n of the file is on the disk, counting from 0.               *)
ByteAt(n) ==
  <<first_data_sector + (chain[n \div ClusterBytes + 1] - 2) * sectors_per_cluster
      + (n % ClusterBytes) \div SECTOR_SIZE, n % SECTOR_SIZE>>

(* The bytes the chain holds, as far as the file needs them.               *)
Readable == {n \in 0 .. file_size - 1 : Linked(n \div ClusterBytes + 1)}

(* The sectors of the root directory.                                      *)
RootDirSectors ==
  LET first == ReservedSectors + NumFats * FatSectors
      starts == {i \in 0 .. RootEntries * DIR_ENTRY_SIZE - 1 : i % SECTOR_SIZE = 0}
  IN  first .. first + Cardinality(starts) - 1

(* The type invariant; the subtraction of the data already read from       *)
(* file_size never goes below zero.                                        *)
TypeOK ==
  /\ pc \in {"open", "search", "walk", "next"} \union Outcomes
  /\ slot \in 1 .. SlotsOnDisk + 2
  /\ cluster \in {0} \union Words
  /\ sector \in 0 .. sectors_per_cluster - 1
  /\ Len(data) <= file_size

(* What read_file returns is the file, byte for byte: all of it, or the    *)
(* part its chain holds if that ends early, wherever the chain leads.  In  *)
(* particular the last sector is cut at file_size, and clusters and        *)
(* sectors are read in order.  It is found exactly when a slot before the  *)
(* end mark has its name, in the whole sectors of the directory.           *)
ReturnsFile ==
  LET found == \E i \in DOMAIN directory :
                 directory[i] = "name" /\ \A j \in 1 .. i : directory[j] # "end"
  IN  /\ pc = "none" => ~found
      /\ pc \in {"walk", "next", "some", "overflow", "allocation"} => found
      /\ pc = "some" =>
           /\ \A n \in 0 .. Len(data) - 1 : data[n + 1] = ByteAt(n)
           /\ Len(data) = Cardinality(Readable)

(* The search stays in the root directory.  File data never comes from     *)
(* below the data area, that is, from the FATs or the directory, and from  *)
(* beyond it only by a link that is no cluster of the volume.  The word    *)
(* for a cluster of the volume is looked up in the first FAT.  And no      *)
(* sector number needs more than 28 bits, whatever the BPB and the FAT     *)
(* hold: the assertion of ata::read_sector holds.                          *)
ReadsItsOwnArea ==
  LET start == ReservedSectors + NumFats * FatSectors + Cardinality(RootDirSectors)
      last == first_data_sector + NumClusters * sectors_per_cluster - 1
  IN  /\ TypeOK
      /\ lba < LBA28 /\ (Asks => AskedFor < LBA28)
      /\ pc = "search" /\ slot > 1 => lba \in RootDirSectors
      /\ \A n \in DOMAIN data :
           /\ data[n][1] >= start
           /\ chain[(n - 1) \div ClusterBytes + 1] \in Clusters => data[n][1] <= last
      /\ pc = "walk" /\ data # <<>> /\ sector = 0 =>
           \/ chain[Len(data) \div ClusterBytes] \notin Clusters
           \/ lba \in ReservedSectors .. ReservedSectors + FatSectors - 1

(* What it takes to stop the kernel in read_file, failures of the drive    *)
(* apart: a chain that leads to cluster 0 or 1 before the file is          *)
(* complete, a size that the heap has no block for, a FAT or a data area   *)
(* beyond the drive, or a chain that leads to no cluster of the volume.    *)
PanicsOnlyOnBadVolume ==
  /\ pc = "overflow" => \E k \in 1 .. Longest : Needs(k) /\ chain[k] \in {0, 1}
  /\ pc = "allocation" => file_size > HeapFree
  /\ pc = "beyond" =>
       \/ DiskSectors = 0 \/ DiskSectors < ReservedSectors + FatSectors
       \/ DiskSectors < first_data_sector + NumClusters * sectors_per_cluster
       \/ \E k \in 1 .. Longest : Needs(k) /\ chain[k] \notin Clusters

(* read_file comes to an end on every volume whose clusters have at least  *)
(* one sector, cyclic chains included.                                     *)
Terminates == <>(pc \in Outcomes)
=============================================================================
