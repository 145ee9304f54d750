SPECIFICATION Spec
CONSTANTS
  ProbeCount = 1
  UploadInterval = 12
  LoraOffset = 6
  MaxUpload = 1
  NULL = NULL
PROPERTY OffsetKept
