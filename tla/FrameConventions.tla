-------------------------- MODULE FrameConventions --------------------------
(***************************************************************************)
(* The conversion of the device's frames by MessageWrapper.  The device    *)
(* gives its attitude and velocity in a North-East-Down frame, with a      *)
(* Forward-Right-Down body; with use_enu_ the messages are in East-North-  *)
(* Up and Forward-Left-Up.                                                 *)
(*                                                                         *)
(* Angles are whole degrees.  Every entry of a rotation matrix is affine   *)
(* in the cosine and the sine of each angle, so that formulas which agree  *)
(* at the quarter turns agree everywhere.  A quaternion <<w, x, y, z>> is  *)
(* kept up to a positive factor, which makes its entries integers.         *)
(***************************************************************************)
EXTENDS Integers

CONSTANTS
  Rolls, Pitches, Yaws,   \* the attitudes the device takes, in quarter turns
  Components              \* the components of its velocity and rotation rate

ASSUME MotionAssumption ==
  /\ Rolls \cup Yaws \subseteq {-180, -90, 0, 90, 180}
  /\ Pitches \subseteq {-90, 0, 90}
  /\ Components \subseteq Int

VARIABLES
  use_enu_,   \* the parameter output.use_enu
  motion      \* the device's attitude, its velocity (NED) and rate (body)

motionVars == <<use_enu_, motion>>

-----------------------------------------------------------------------------
(***************************************************************************)
(* Vectors, matrices, angles and quaternions.                              *)
(***************************************************************************)

Cos(a) == IF a % 180 # 0 THEN 0 ELSE IF a % 360 = 0 THEN 1 ELSE -1
Sin(a) == Cos(a - 90)

Dot(u, v)     == u[1] * v[1] + u[2] * v[2] + u[3] * v[3]
Apply(m, v)   == <<Dot(m[1], v), Dot(m[2], v), Dot(m[3], v)>>
transpose(m)  == << <<m[1][1], m[2][1], m[3][1]>>,
                    <<m[1][2], m[2][2], m[3][2]>>,
                    <<m[1][3], m[2][3], m[3][3]>> >>
Product(m, n) == LET t == transpose(n) IN <<Apply(t, m[1]), Apply(t, m[2]), Apply(t, m[3])>>

\* The cosine and the sine of half the angle, up to a common factor.
Half(a) == CASE a % 360 = 0   -> <<1, 0>>
             [] a % 360 = 90  -> <<1, 1>>
             [] a % 360 = 180 -> <<0, 1>>
             [] a % 360 = 270 -> <<1, -1>>

QuatTimes(p, q) ==
  << p[1]*q[1] - p[2]*q[2] - p[3]*q[3] - p[4]*q[4],
     p[1]*q[2] + p[2]*q[1] + p[3]*q[4] - p[4]*q[3],
     p[1]*q[3] - p[2]*q[4] + p[3]*q[1] + p[4]*q[2],
     p[1]*q[4] + p[2]*q[3] - p[3]*q[2] + p[4]*q[1] >>

\* The quaternion of a roll, a pitch and a yaw (tf2::Quaternion::setRPY, and the
\* device's own).
setRPY(e) ==
  QuatTimes(<<Half(e[3])[1], 0, 0, Half(e[3])[2]>>,
            QuatTimes(<<Half(e[2])[1], 0, Half(e[2])[2], 0>>,
                      <<Half(e[1])[1], Half(e[1])[2], 0, 0>>))

\* fmodf, whose result has the sign of its first argument.
fmod(a, m) == IF a >= 0 THEN a % m ELSE -((-a) % m)

wrapAnglePi(a) ==
  IF a > 180 THEN 360 - fmod(a, 360)
  ELSE IF a < -180 THEN 360 + fmod(a, 360) ELSE a

wrapAngle360(a) ==
  LET wrapped == IF a < -360 \/ a > 360 THEN fmod(a, 360) ELSE a
  IN IF wrapped < 0 THEN 360 + wrapped ELSE wrapped

\* Mutant: the sine of the pitch has the wrong sign in one entry.
makeDcmMinus(e) ==
  LET cr == Cos(e[1])  cp == Cos(e[2])  cy == Cos(e[3])
      sr == Sin(e[1])  sp == Sin(e[2])  sy == Sin(e[3])
  IN << <<cp*cy, sr*sp*cy - cr*sy, cr*sp*cy - sy*sr>>,
        <<cp*sy, sr*sp*sy + cr*cy, cr*sp*sy - sr*cy>>,
        <<-sp,   sr*cp,            cr*cp>> >>

\* SbgMatrix3::makeDcm of Euler angles.
makeDcm(e) ==
  LET cr == Cos(e[1])  cp == Cos(e[2])  cy == Cos(e[3])
      sr == Sin(e[1])  sp == Sin(e[2])  sy == Sin(e[3])
  IN << <<cp*cy, sr*sp*cy - cr*sy, cr*sp*cy + sy*sr>>,
        <<cp*sy, sr*sp*sy + cr*cy, cr*sp*sy - sr*cy>>,
        <<-sp,   sr*cp,            cr*cp>> >>

\* SbgMatrix3::makeDcm of a quaternion, here divided by its squared norm.
makeDcmOfQuat(q) ==
  LET w == q[1]  x == q[2]  y == q[3]  z == q[4]
      n == w*w + x*x + y*y + z*z
      m == << <<2*w*w + 2*x*x - n, 2*x*y - 2*w*z,     2*w*y + 2*x*z>>,
              <<2*x*y + 2*w*z,     2*w*w + 2*y*y - n, 2*y*z - 2*w*x>>,
              <<2*x*z - 2*w*y,     2*y*z + 2*w*x,     2*w*w + 2*z*z - n>> >>
      Over(v) == <<v[1] \div n, v[2] \div n, v[3] \div n>>
  IN <<Over(m[1]), Over(m[2]), Over(m[3])>>

-----------------------------------------------------------------------------
(***************************************************************************)
(* The device (external): what its logs say of its motion.                 *)
(***************************************************************************)

\* The rotation from the body to the navigation frame: a yaw, a pitch about the
\* axis it leads to, and a roll.
Rotation(e) ==
  Product(<< <<Cos(e[3]), -Sin(e[3]), 0>>, <<Sin(e[3]), Cos(e[3]), 0>>, <<0, 0, 1>> >>,
        Product(<< <<Cos(e[2]), 0, Sin(e[2])>>, <<0, 1, 0>>, <<-Sin(e[2]), 0, Cos(e[2])>> >>,
              << <<1, 0, 0>>, <<0, Cos(e[1]), -Sin(e[1])>>, <<0, Sin(e[1]), Cos(e[1])>> >>))

\* The direction <<north, east>> of a course, in eighths of a turn.
Direction(course) ==
  CASE course % 360 = 0   -> <<1, 0>>
    [] course % 360 = 45  -> <<1, 1>>
    [] course % 360 = 90  -> <<0, 1>>
    [] course % 360 = 135 -> <<-1, 1>>
    [] course % 360 = 180 -> <<-1, 0>>
    [] course % 360 = 225 -> <<-1, -1>>
    [] course % 360 = 270 -> <<0, -1>>
    [] course % 360 = 315 -> <<1, -1>>

Sign(x) == IF x > 0 THEN 1 ELSE IF x < 0 THEN -1 ELSE 0
Courses == {45 * k : k \in 0..7}
Moves(v) == v[1] # 0 \/ v[2] # 0
CourseOf(v) == CHOOSE c \in Courses : Direction(c) = <<Sign(v[1]), Sign(v[2])>>

EulerLog   == motion.euler
QuatLog    == setRPY(motion.euler)
NavLog     == motion.velocity
BodyLog    == Apply(transpose(Rotation(motion.euler)), motion.velocity)
GyroLog    == motion.rate
HeadingLog == motion.euler[3] % 360

-----------------------------------------------------------------------------
(***************************************************************************)
(* The messages.                                                           *)
(***************************************************************************)

\* Of the navigation frame: velocities of the filter and of the receivers.
toEnu(v) == <<v[2], v[1], -v[3]>>

\* Of the body: IMU and magnetometers.
toFlu(v) == <<v[1], -v[2], -v[3]>>

createSbgEkfEulerMessage(e) ==
  IF use_enu_ THEN <<e[1], -e[2], -wrapAnglePi(-90 + e[3])>> ELSE e

\* Mutant: the quaternion is turned to North-West-Up only.
createSbgEkfQuatMessageNwu(q) == IF use_enu_ THEN <<q[1], q[2], -q[3], -q[4]>> ELSE q

\* q_enu_to_nwu is a quarter turn about the vertical.
createSbgEkfQuatMessage(q) ==
  IF use_enu_ THEN QuatTimes(<<1, 0, 0, 1>>, <<q[1], q[2], -q[3], -q[4]>>) ELSE q

createSbgEkfNavMessage(v)  == IF use_enu_ THEN toEnu(v) ELSE v
createSbgImuDataMessage(r) == IF use_enu_ THEN toFlu(r) ELSE r

createSbgGpsVelMessage(v) ==
  [velocity |-> IF use_enu_ THEN toEnu(v) ELSE v,
   course   |-> IF use_enu_ THEN wrapAngle360(90 - CourseOf(v)) ELSE CourseOf(v)]

createSbgGpsHdtMessage(heading) == IF use_enu_ THEN wrapAngle360(90 - heading) ELSE heading

EulerMsg == createSbgEkfEulerMessage(EulerLog)
QuatMsg  == createSbgEkfQuatMessage(QuatLog)
NavMsg   == createSbgEkfNavMessage(NavLog)
ImuMsg   == createSbgImuDataMessage(GyroLog)

\* The velocity in the body and the rotation rate, from a rotation matrix.
createRosTwistStampedMessage(dcm) ==
  [linear |-> Apply(transpose(dcm), NavMsg), angular |-> ImuMsg]

\* createRosOdoMessage: the orientation is the quaternion message or made from the
\* Euler one; the twist is the velocity of the navigation message as it is.
createRosOdoMessage(orientation) ==
  [orientation |-> orientation, linear |-> NavMsg, angular |-> ImuMsg]

-----------------------------------------------------------------------------

Vectors == Components \X Components \X Components

MotionInit ==
  /\ use_enu_ \in BOOLEAN
  /\ motion = [euler |-> <<0, 0, 0>>, velocity |-> <<0, 0, 0>>, rate |-> <<0, 0, 0>>]

\* The device turns, or its velocity changes, between two instants; each instant
\* has one log of each kind.
Turn ==
  /\ motion' \in {[motion EXCEPT !.euler[1] = a] : a \in Rolls}
                   \cup {[motion EXCEPT !.euler[2] = a] : a \in Pitches}
                   \cup {[motion EXCEPT !.euler[3] = a] : a \in Yaws}
  /\ UNCHANGED use_enu_

Accelerate ==
  /\ \E v \in Vectors :
       motion' = [motion EXCEPT !.velocity = v, !.rate = <<v[2], v[3], v[1]>>]
  /\ UNCHANGED use_enu_

MotionSpec == MotionInit /\ [][Turn \/ Accelerate]_motionVars

-----------------------------------------------------------------------------
(***************************************************************************)
(* Properties.                                                             *)
(***************************************************************************)

\* The device's attitude, body velocity and rate in the frames the messages are
\* in, by the definition of those frames: the navigation axes East, North, Up and
\* the body axes Forward, Left, Up, each in the device's own.
NavAxes  == IF use_enu_ THEN << <<0, 1, 0>>, <<1, 0, 0>>, <<0, 0, -1>> >>
                        ELSE << <<1, 0, 0>>, <<0, 1, 0>>, <<0, 0, 1>> >>
BodyAxes == IF use_enu_ THEN << <<1, 0, 0>>, <<0, -1, 0>>, <<0, 0, -1>> >>
                        ELSE << <<1, 0, 0>>, <<0, 1, 0>>, <<0, 0, 1>> >>
TrueRotation == Product(NavAxes, Product(Rotation(motion.euler), transpose(BodyAxes)))

\* The angle <<cosine, sine>> in the messages' horizontal plane of a direction
\* <<north, east>>: counted from the first axis to the second.
InPlane(d) == IF use_enu_ THEN <<d[2], d[1]>> ELSE d

\* Every message that says how the device is turned, or which way it moves, says
\* the same, and what the device measured: the Euler angles, the quaternion, the
\* orientation of the odometry by either way, the course and the true heading
\* (createSbgEkfEulerMessage, createSbgEkfQuatMessage, createRosOdoMessage).
DirectionsAgree ==
  /\ LET rotation == TrueRotation
     IN /\ makeDcm(EulerMsg) = rotation
        /\ \A attitude \in {QuatMsg, setRPY(EulerMsg)} :
             makeDcmOfQuat(createRosOdoMessage(attitude).orientation) = rotation
  /\ EulerMsg \in (-180..180) \X (-90..90) \X (-180..180)
  /\ LET heading == createSbgGpsHdtMessage(HeadingLog)
         gps     == createSbgGpsVelMessage(NavLog)
     IN /\ heading \in 0..360 /\ (heading - EulerMsg[3]) % 360 = 0
        /\ Moves(NavLog) =>
             /\ gps.course \in 0..360
             /\ gps.velocity = NavMsg
             /\ Direction(gps.course) = <<Sign(gps.velocity[1]), Sign(gps.velocity[2])>>

\* The velocity message gives the device's own body velocity and rate, Forward-
\* Left-Up in ENU, whether it is made with the quaternion or with the Euler angles
\* (createRosTwistStampedMessage, SbgMatrix3::makeDcm).
TwistIsBodyVelocity ==
  \A dcm \in {makeDcm(EulerMsg), makeDcmOfQuat(QuatMsg)} :
    createRosTwistStampedMessage(dcm)
      = [linear |-> Apply(BodyAxes, BodyLog), angular |-> Apply(BodyAxes, GyroLog)]
=============================================================================
