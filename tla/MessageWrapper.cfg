\* A counter of five ticks rolls over several times.  Attitudes and courses are in
\* quarter turns, dates in years with and without a leap day, the last one of an
\* unsigned 32-bit count among them.
CONSTANTS
  Modulus = 5
  Date = 20
  MaxTime = 13
  MaxGap = 3
  Lag = 1
  MaxBoots = 1
  Rolls <- McRolls
  Pitches <- McPitches
  Yaws <- McYaws
  Components <- McComponents
  Areas <- McAreas
  Reach = 2
  Years = {1970, 1999, 2000, 2001, 2024, 2038, 2100, 2106}
  DaysOfMonth = {1, 28, 29, 30, 31}
  Times = {0, 43200, 86399, 86400}
  LeapSeconds = {17, 18, 19}
  Ages = {0, 60}
SPECIFICATION McSpec
INVARIANTS
  HeaderIsAccurate
  DirectionsAgree
  TwistIsBodyVelocity
  OriginInZone
  OdometryFollowsGround
  UtcTimesAgree
PROPERTIES
  DatesRecover
