CONSTANTS
  Names <- MCNames
  Upcase <- MCUpcase
  MaxName = 2
  MaxDepth = 2
  MaxSegments = 5
SPECIFICATION Spec
INVARIANTS TypeOK RejectsExactlyConflicts WalkFindsAll SearchFindsAll Balanced
