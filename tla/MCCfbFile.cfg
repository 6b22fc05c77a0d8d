CONSTANTS
  Names = {}
  Upcase <- MCUpcase
  MaxName = 2
  Listings <- MCListings
  SectorSize = 4
  MiniSize = 2
  FatEntries = 3
  DirEntries = 2
  Cutoff = 6
  MaxFat = 4
  MaxNodes = 3
  MaxSize = 11
SPECIFICATION FairSpec
INVARIANTS TypeOK NothingTwice ReadsWhatWasWritten TruncationShortens DamageIsLocal OpenComputes
PROPERTY OpenReturns
CHECK_DEADLOCK FALSE
