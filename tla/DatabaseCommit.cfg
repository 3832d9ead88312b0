SPECIFICATION Spec
CONSTANTS
  Jobs = {"player"}
  MaxJobs = 2
  MaxWrites = 2
  MaxErrors = 0
  MaxLosses = 1
CHECK_DEADLOCK FALSE
PROPERTY CommitSaves
