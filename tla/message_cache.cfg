SPECIFICATION Spec
CONSTANTS
  Readers = {r1, r2}
  Commits = {c1, c2}
  None = None
  MaxMails = 1
  MaxChanges = 2
  MaxMishaps = 1
SYMMETRY Interchangeable
INVARIANTS
  TypeOK
  TornHeals
  RemovedStaysEmpty
PROPERTIES
  AloneIsRight
