SPECIFICATION Spec
CONSTANTS
  Refreshes = {r1, r2}
  Deletes = {d1}
  BootDelete = boot
  NoCall = NoCall
  MaxCrashes = 0
  DeleteMayFail = FALSE
INVARIANTS
  NoOrphanMirror
