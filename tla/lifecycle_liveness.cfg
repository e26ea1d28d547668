SPECIFICATION LiveSpec
CONSTANTS
  Refreshes = {r1, r2}
  Deletes = {d1}
  BootDelete = boot
  NoCall = NoCall
  MaxCrashes = 1
  DeleteMayFail = FALSE
PROPERTIES
  RefreshReturns
  DeleteReturns
  InterruptedDeletionResumes
