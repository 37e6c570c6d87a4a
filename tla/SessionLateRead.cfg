\* Answers may arrive after the time out of their trial.
CONSTANTS
  profile = profile
  outA = outA
  outB = outB
  idProfile = idProfile
  idOutput = idOutput
  wanted = wanted
  other = other
  NoKey = NoKey
  NoValue = NoValue
  SaveId = SaveId
  Keys <- McKeys
  Ids <- McIds
  IdOf <- McIdOf
  Order <- McOrder
  Want <- McWant
  Values = {wanted, other}
  Refused = {}
  Outputs = {outA, outB}
  NumTrials = 2
  Links = {TRUE}
  Capacity = 2
SPECIFICATION SessionSpec
INVARIANTS
  ReadMeansCurrent
CHECK_DEADLOCK FALSE
