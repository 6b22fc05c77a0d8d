CONSTANTS
  Base = 16
  XorByte <- BitXor
  Inputs <- MCInputs
SPECIFICATION FairSpec
INVARIANTS WalkFindsRecords ParsesAsDeclared SpliceStable ProtectionRead
PROPERTY ReadReturns
CHECK_DEADLOCK FALSE
