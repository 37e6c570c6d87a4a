CONSTANTS
  MaxStarts = 3
SPECIFICATION Spec
INVARIANTS
  MagTypeOK
  OnlyGoodInUse
PROPERTIES
  UploadsLatest
  SavesUploaded
