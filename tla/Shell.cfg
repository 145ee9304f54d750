SPECIFICATION Spec
CONSTANTS
  MaxJobs = 2
  FREE = FREE
  Typed <- MCTyped
  BootText <- MCBootText
  ScriptMax = 2
  TextMax = 1
  InputMax = 1
  NONE = NONE
INVARIANTS
  LinesAreWhole
  LoopHasScript
  OneScriptPerName
PROPERTIES
  BootCompletes
  ScriptsEnd
  CtrlCStopsLoop
