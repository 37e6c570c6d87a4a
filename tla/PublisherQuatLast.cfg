CONSTANTS
  Configurations <- McSerial
  MaxStamp = 2
SPECIFICATION Spec
INVARIANTS
  OdometryGenerated
