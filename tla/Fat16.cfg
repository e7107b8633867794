SPECIFICATION FairSpec
CONSTANTS
  SECTOR_SIZE = 2
  DIR_ENTRY_SIZE = 1
  ReservedSectors = 1
  NumFats = 2
  FatSectors = 4
  RootEntries = 3
  SectorsPerCluster = {1, 2}
  NumClusters = 2
  Words <- MCWords
  Directories <- MCDirectories
  FileSizes = {0, 3, 8, 9}
  DiskSectors = 16
  HeapFree = 8
INVARIANTS
  ReturnsFile
  ReadsItsOwnArea
  PanicsOnlyOnBadVolume
PROPERTY
  Terminates
