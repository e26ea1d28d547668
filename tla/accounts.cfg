SPECIFICATION LiveSpec
CONSTANTS
  Ids = {1, 2}
  Names = {"A", "a!"}
  Addresses <- MCAddresses
  Legacy = {"legacy"}
  Files <- MCFiles
  Envs <- MCEnvs
  InitialRows <- MCRows
  Adders = {h1, h2}
  Clients = {c1}
  Natural <- MCNatural
  Suffixed <- MCSuffixed
  None = None
  MaxRotations = 1
SYMMETRY Interchangeable
INVARIANTS
  TypeOK
  AddressStaysFree
  OnlyHolders
  NoLegacyServed
PROPERTIES
  AddressServedOrExit
