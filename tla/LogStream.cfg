\* The buffer holds one symbol more than the largest frame, as the code's does one
\* byte more.
CONSTANTS
  Sources <- McSources
  MaxSize = 3
  Capacity = 8
  Stamps = {0, 3, 9}
SPECIFICATION Spec
INVARIANTS
  StreamTypeOK
  NothingDropped
  ReplayKeepsPace
PROPERTIES
  StreamDrains
