SPECIFICATION Spec
CONSTANTS
  Hosts = {h1, h2}
  PCBS = {p1, p2}
  RequestLen = 2
  NULL = NULL
INVARIANTS
  TypeOK
  OneConnection
  OneContinuation
  OkMeansAcked
  AddressIsForHost
  DanglingIsInert
PROPERTIES
  Ends
  ImplementsUpload
CHECK_DEADLOCK FALSE
