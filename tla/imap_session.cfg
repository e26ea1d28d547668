SPECIFICATION MailSpec
CONSTANTS
  Sessions = {s1}
  c1 = c1
  c2 = c2
  Commits = {c1, c2}
  None = None
  MaxMails = 2
  MaxClock = 2
  MaxChanges = 2
  Day <- MCDay
  Size <- MCSize
  Header <- MCHeader
  Body <- MCBody
  Raw <- MCRaw
  Plain <- MCPlain
  NumSets <- MCNumSets
  Criteria <- MCCriteria
  Depth <- MCDepth
INVARIANTS
  TypeOK
  ViewIsReal
  CountAnnounced
  SearchMeans
  FetchMeans
  FoundIsFetched
PROPERTIES
  SelectionOnlyGrows
  CommandsAnswered
