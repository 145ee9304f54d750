SPECIFICATION Spec
CONSTANTS
  Msgs = {a, b}
  QueueLen = 3
  MaxDropped = 1
INVARIANT WholeLines
