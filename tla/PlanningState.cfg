SPECIFICATION Spec
CONSTANTS
  p1 = p1
  p2 = p2
  p3 = p3
  n1 = n1
  b1 = b1
  None = None
  Procs <- MCProcs
  Menu <- MCMenu
  Starts <- MCStarts
  StartDisks <- MCDisks
  Notes = {n1}
  Blockers = {b1}
  MaxPhase = 2
  MaxPlans = 2
  KeepRecent = 1
  MaxTries = 2
  MaxKills = 1
  AutoPrune = TRUE
INVARIANTS
  TypeOK
  
  NoOrphanLock
  
  NeverStuck
PROPERTIES
  
  RegisterSpec
  NoStepIsLost
CHECK_DEADLOCK FALSE
