CONSTANTS
  SectorSize = 4
  MiniSize = 2
  FatEntries = 3
  DirEntries = 2
  Cutoff = 6
  MaxFat = 4
  MaxNodes = 3
  MaxSize = 11
SPECIFICATION FairSpec
INVARIANTS TypeOK NoSectorShared FatMinimal FailsOnlyBeyondDifat FatCoversFile ReadBack
PROPERTY Finishes
CHECK_DEADLOCK FALSE
