SPECIFICATION MCSpec
CONSTANTS
  OctetBits = 2
  MaxPseudo = 5
  MaxDep = 3
  DefaultNet = 3
  Texts <- MCTexts
  Own <- MCOwn
  ListLimit = 9
  ClassMasks = {3}
  MaxBatches = 2
  MaxFaults = 2
  Runs <- MCRuns
INVARIANTS
  TypeOK
  VifsRead
  ReadsAsWritten
  KernelMatches
  ExitLeavesNothing
  BystandersKept
  HooksFollow
CHECK_DEADLOCK FALSE
