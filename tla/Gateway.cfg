SPECIFICATION GatewaySpec
CONSTANTS
  TaskCount = 3
  Period <- Periods
  MaxCost = 1
  Nap = 1
  MaxJobs = 1
  FREE = FREE
  MaxTokens = 8
  MaxStages = 2
  MaxArgs = 2
  Short <- MCShort
  NOWHERE = NOWHERE
  ButtonCount = 1
  Debounce = 1
  Bounce <- MCBounce
  NONE = NONE
  ButtonPath <- MCButtonPath
  ConfigPaths <- MCConfigPaths
  ConfigTexts <- MCConfigTexts
  Beginning <- MCBeginning
  Lines <- MCLines
  Idle = Idle
INVARIANTS
  BoundedLateness
PROPERTIES
  OnePressOneEvent
  EveryTaskRuns
  DebounceSettles
  PressesAreReported
  ModeIsAsked
