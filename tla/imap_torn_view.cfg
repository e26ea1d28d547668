SPECIFICATION Spec
CONSTANTS
  Sessions = {s1}
  Commits = {c1, c2}
  None = None
  MaxMails = 2
  MaxClock = 2
  MaxChanges = 2
INVARIANT HistoryChangeNoticed
