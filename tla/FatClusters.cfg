CONSTANTS
  BytesPerSector = 3
  SectorsPerCluster = 2
  ReservedSectors = 1
  FatCount = 2
  DirEntryCount = 4
  SectorsPerFat = 4
  BOOT = 2
  DIRENT = 2
  Clusters = 4
  MEDIA = 4080
  Volumes <- MCVolumes
  Names <- MCNames
SPECIFICATION FairSpec
INVARIANT InBuffer
CHECK_DEADLOCK FALSE
