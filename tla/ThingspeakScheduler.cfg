SPECIFICATION Spec
CONSTANTS
  ProbeCount = 3
  UploadInterval = 6
  LoraOffset = 3
  MaxUpload = 2
  NULL = NULL
INVARIANTS
  OwnUploadIsOver
PROPERTIES
  NoOvertaking
  RoomIsUploaded
  EveryProbeIsUploaded
