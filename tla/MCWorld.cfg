CONSTANTS
  None = None
  Jobs = {"player"}
  MaxJobs = 2
  MaxWrites = 2
  MaxErrors = 2
  MaxLosses = 1
SPECIFICATION AllSpec
CHECK_DEADLOCK FALSE
INVARIANTS
  SpawnSound
  DatabaseSound
PROPERTIES
  RaidsSound
  RaidsEnd
  Refills
  WalksOn
  ComesAndGoes
  JobsEnd
