CONSTANTS
  Configurations <- McConfigurations
  MaxStamp = 2
SPECIFICATION Spec
INVARIANTS
  PublisherTypeOK
  OdometryIsOneInstant
  OdometryUnlessQuatLast
  OriginIsPosition
  TransformsFormForest
PROPERTY
  OnlySpareLogsRepeat
