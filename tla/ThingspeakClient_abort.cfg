SPECIFICATION Spec
CONSTANTS
  Hosts = {h1, h2}
  PCBS = {p1, p2}
  RequestLen = 2
  NULL = NULL
PROPERTY AlwaysEnds
CHECK_DEADLOCK FALSE
