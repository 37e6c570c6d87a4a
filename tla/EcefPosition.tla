----------------------------- MODULE EcefPosition -----------------------------
(***************************************************************************)
(* The position message in the Earth's own frame: MessageWrapper turns the *)
(* latitude, longitude and altitude of the navigation message into ECEF    *)
(* coordinates, here at altitude zero on the meridian of the longitude.    *)
(* Lengths are squared, which makes them fractions without a root.         *)
(***************************************************************************)
EXTENDS Integers

CONSTANTS
  A, B,    \* the squares of the equatorial and the polar radius, B <= A
  Parts    \* the squared sine of the latitude is a number of these parts of 1

VARIABLES
  latitude,   \* the parts of its squared sine
  point       \* of the message: the squared distances from the axis and from the
              \* plane of the equator, over a denominator

vars == <<latitude, point>>

\* The squared prime_vertical_radius is A^3 * Parts over this.  The code squares
\* its variable eccentricity, 1 - B/A, which is the eccentricity's square already.
VerticalDenominator(n) == A * A * Parts - (A - B) * (A - B) * n

convertLLAtoECEF(n) ==
  [axis    |-> A * A * A * (Parts - n),
   equator |-> A * B * B * n,
   over    |-> VerticalDenominator(n)]

\* createRosPointStampedMessage, of a navigation message.
createRosPointStampedMessage(n) ==
  /\ latitude' = n
  /\ point' = convertLLAtoECEF(n)

Init ==
  /\ latitude = 0
  /\ point = convertLLAtoECEF(0)

Next == \E n \in 0..Parts : createRosPointStampedMessage(n)

Spec == Init /\ [][Next]_vars

-----------------------------------------------------------------------------

\* "Conversion from Geodetic coordinates to ECEF is based on World Geodetic System
\* 1984 (WGS84)": a point of altitude zero lies on the ellipsoid (sbg_ros_helpers.cpp,
\* convertLLAtoECEF).
OnEllipsoid == point.axis \div A + point.equator \div B = point.over
=============================================================================
