SPECIFICATION FairSpec
CONSTANTS
  None = None
  MaxEntries = 1
  MaxOps = 3
  MaxEdits = 1
  MaxCrashes = 2
  MaxFaults = 2
PROPERTIES NothingLost ToldTruth RecoveryConverges
