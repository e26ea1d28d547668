SPECIFICATION Spec
CONSTANTS
  Readers = {r1}
  Commits = {c1, c2}
  None = None
  MaxMails = 2
  MaxChanges = 1
  MaxMishaps = 0
INVARIANT EachEmailIsItsCommit
