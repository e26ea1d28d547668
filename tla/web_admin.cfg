SPECIFICATION LiveSpec
CONSTANTS
  Handlers = {h1, h2}
  Addresses = {a1}
  Sessions = {s1, s2}
  Repos = {r1}
  None = None
  Unborn = Unborn
  Gone = Gone
  MaxAttempts = 2
  MaxPasswords = 2
  MaxFlashes = 2
SYMMETRY Interchangeable
INVARIANTS
  TypeOK
  LimiterBound
  FlashOnce
  PasswordStored
PROPERTIES
  FlashKept
  LockoutEnds
