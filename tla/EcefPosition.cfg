\* The ratio of the squared radii is that of WGS84 to four decimals.
CONSTANTS
  A = 150
  B = 149
  Parts = 4
SPECIFICATION Spec
INVARIANT OnEllipsoid
