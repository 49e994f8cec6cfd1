CONSTANTS
  Cleaners = {cleaner1, cleaner2}
  Closers = {closer1, closer2}
  MaxNow = 3
  MaxFaults = 1
SPECIFICATION Spec
SYMMETRY Symmetry
CHECK_DEADLOCK FALSE
INVARIANTS
  TypeOK
  CleanIsSafe
  WriteIsSecure
  InitIsHonest
  LiveRunIsHonest
  InvocationIsSound
  ReadsAreCommitted
  NamespaceIsReclaimed
  RoutingIsConfigured
PROPERTIES
  RetainedIsKept
  DocumentsAgree
  ReportsAreFaithful
  RunImplementsContract
