SPECIFICATION Spec
CONSTANTS
  Refreshes = {r1, r2, r3}
  Deletes = {d1}
  BootDelete = boot
  NoCall = NoCall
  MaxCrashes = 1
  DeleteMayFail = TRUE
SYMMETRY CallersSymmetry
INVARIANTS
  TypeOK
  SingleFlight
  RecoveryExclusive
  SuccessHasMail
  ScratchBounded
  MarkShieldsRemoval
PROPERTIES
  GoneStaysGone
  MarkedDeletionIsClean
  CallIsShared
