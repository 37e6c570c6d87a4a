\* Every answer arrives within the time out of its trial, or is lost.
CONSTANTS
  outA = outA
  outB = outB
  profile = profile
  on = on
  off = off
  idOutput = idOutput
  idProfile = idProfile
  NoKey = NoKey
  NoValue = NoValue
  SaveId = SaveId
  Keys <- McKeys
  Ids <- McIds
  IdOf <- McIdOf
  Values = {on, off}
  Refused = {profile}
  NumTrials = 3
  Links = {FALSE}
  Capacity = 2
SPECIFICATION FairSpec
INVARIANTS
  ChannelTypeOK
  SuccessMeansExecuted
  ReadIsOwnValue
  RefusalIsGenuine
  QuietWhenIdle
PROPERTIES
  CommandReturns
  ImplementsService
