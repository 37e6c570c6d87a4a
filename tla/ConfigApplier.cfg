\* The applier over any command service that keeps its promise.
CONSTANTS
  alignment = alignment
  profile = profile
  outA = outA
  outB = outB
  wanted = wanted
  other = other
  NoKey = NoKey
  NoValue = NoValue
  Keys <- McKeys
  Order <- McOrder
  Want <- McWant
  Values = {wanted, other}
  Refused = {profile, outB}
  Outputs = {outA, outB}
SPECIFICATION FairSpec
INVARIANTS
  ApplierTypeOK
  DoneMeansApplied
  NoNeedlessSave
PROPERTIES
  OnlyWantedWritten
  SavesAllButLost
  RunEnds
