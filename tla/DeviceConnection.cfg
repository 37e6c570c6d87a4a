CONSTANTS
  r115200 = r115200
  r460800 = r460800
  r921600 = r921600
  r9600 = r9600
  NotARate = NotARate
  Rates = {r115200, r460800, r921600, r9600}
  Configured = r115200
  Fallbacks <- McFallbacks
SPECIFICATION FairSpec
INVARIANTS
  ConnectionTypeOK
  HeardMeansTalks
  ConfiguredMeansTalks
PROPERTIES
  ConnectsInTheEnd
