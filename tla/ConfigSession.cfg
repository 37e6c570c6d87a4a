\* Both kinds of link: answers that come within their trial or not at all, and
\* answers that may outlive it.
CONSTANTS
  profile = profile
  outA = outA
  outB = outB
  idProfile = idProfile
  idOutput = idOutput
  wanted = wanted
  other = other
  NoKey = NoKey
  NoValue = NoValue
  SaveId = SaveId
  Keys <- McKeys
  Ids <- McIds
  IdOf <- McIdOf
  Order <- McOrder
  Want <- McWant
  Values = {wanted, other}
  Refused = {profile}
  Outputs = {outA, outB}
  NumTrials = 3
  Links = {TRUE, FALSE}
  Capacity = 3
SPECIFICATION SessionSpec
INVARIANTS
  WriteMeansExecuted
PROPERTIES
  PromptImplementsApplier
\* The run ends.
CHECK_DEADLOCK FALSE
