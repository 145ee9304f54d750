SPECIFICATION Spec
CONSTANTS
  SlotSize = 4
  ChunkSize = 2
  Retries = 2
  LastChar = 2
  NONE = NONE
  EditMax = 2
  FarmLen = 5
  Underscore = 2
  Edited = {"wifi_ssid", "wifi_pass"}
  Echoed <- MCEchoed
INVARIANTS
  ShownIsCurrent
  SavedStays
PROPERTIES
  SavedIsShown
  NoDeadEnd
  CursorRemembers
CHECK_DEADLOCK FALSE
