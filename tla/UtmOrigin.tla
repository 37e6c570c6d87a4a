------------------------------ MODULE UtmOrigin ------------------------------
(***************************************************************************)
(* The position of the odometry: MessageWrapper projects the latitude and  *)
(* longitude of each navigation message with the Utm zone chosen at the    *)
(* first, and gives the difference to the first projection.                *)
(*                                                                         *)
(* Positions are whole degrees.  Within a zone the easting grows with the  *)
(* longitude from the zone's meridian, and the northing with the latitude: *)
(* the projection is abstracted to those two angles, which keeps the zone, *)
(* the wrap of the longitude and the offset of the southern hemisphere.    *)
(***************************************************************************)
EXTENDS Integers

CONSTANTS
  Areas,   \* where the device is driven: sets of <<latitude, longitude>>
  Reach    \* bound: how far from its start, in degrees

\* The longitude of an area may go past 180, so that a drive over that meridian is
\* one interval; the device's own is in -180..179.
ASSUME AreasAssumption ==
  /\ \A area \in Areas : area \subseteq (-90..90) \X (-180..539)
  /\ Reach \in Nat

VARIABLES
  utm_,          \* the zone: whether it is chosen, its number, letter and meridian
  first_valid_,  \* the first easting and northing
  position,      \* of the pose sent last
  start,         \* where the zone was chosen (history)
  ground         \* where the device is, in an area

driveVars == <<utm_, first_valid_, position, start, ground>>

-----------------------------------------------------------------------------

\* The longitude "between -180.00 .. 179.9", with C's truncation.
long_temp(longitude) ==
  LET turns == IF longitude + 180 < 0 THEN -((-(longitude + 180)) \div 360)
                                      ELSE (longitude + 180) \div 360
  IN longitude - 360 * turns

computeZoneNumber(latitude, longitude) ==
  LET lon == long_temp(longitude)
  IN CASE latitude \in 56..63 /\ lon \in 3..11  -> 32
       [] latitude \in 72..83 /\ lon \in 0..8   -> 31
       [] latitude \in 72..83 /\ lon \in 9..20  -> 33
       [] latitude \in 72..83 /\ lon \in 21..32 -> 35
       [] latitude \in 72..83 /\ lon \in 33..41 -> 37
       [] OTHER -> (lon + 180) \div 6 + 1

\* Bands of eight degrees from the south, the last one of twelve; Z is an error.
Letters == <<"C", "D", "E", "F", "G", "H", "J", "K", "L", "M",
             "N", "P", "Q", "R", "S", "T", "U", "V", "W", "X">>

computeLetterDesignator(latitude) ==
  IF latitude \notin -80..84 THEN "Z"
  ELSE IF latitude >= 80 THEN "X" ELSE Letters[(latitude + 80) \div 8 + 1]

\* Mutant: the meridian is the zone's western border.
computeMeridianWest(zone) == IF zone = 0 THEN 0 ELSE (zone - 1) * 6 - 180

computeMeridian(zone) == IF zone = 0 THEN 0 ELSE (zone - 1) * 6 - 177

utmInit(latitude, longitude) ==
  LET zone == computeZoneNumber(latitude, longitude)
  IN [is_init |-> TRUE, zone_number |-> zone,
      letter |-> computeLetterDesignator(latitude), meridian |-> computeMeridian(zone)]

\* 10000 km are ninety degrees of latitude.
computeEastingNorthing(utm, latitude, longitude) ==
  << long_temp(longitude) - utm.meridian,
     IF latitude < 0 THEN latitude + 90 ELSE latitude >>

Minus(u, v) == <<u[1] - v[1], u[2] - v[2]>>

-----------------------------------------------------------------------------

\* The device's longitude at a place of an area.
LongitudeOf(place) == ((place[2] + 180) % 360) - 180

\* Mutant: the zone is chosen again at each message.
createRosOdoPositionRezoned(latitude, longitude) ==
  LET here == computeEastingNorthing(utmInit(latitude, longitude), latitude, longitude)
  IN /\ utm_' = utmInit(latitude, longitude)
     /\ first_valid_' = IF utm_.is_init THEN first_valid_ ELSE here
     /\ position' = Minus(here, first_valid_')

\* createRosOdoMessage, its position.
createRosOdoPosition(latitude, longitude) ==
  LET utm  == IF utm_.is_init THEN utm_ ELSE utmInit(latitude, longitude)
      here == computeEastingNorthing(utm, latitude, longitude)
  IN /\ utm_' = utm
     /\ first_valid_' = IF utm_.is_init THEN first_valid_ ELSE here
     /\ position' = Minus(here, first_valid_')

DriveInit ==
  /\ utm_ = [is_init |-> FALSE, zone_number |-> 0, letter |-> "", meridian |-> 0]
  /\ first_valid_ = <<0, 0>>
  /\ position = <<0, 0>>
  /\ start = <<0, 0>>
  /\ ground = <<0, 0>>

\* A navigation message leads to the odometry, somewhere in reach of the start.
Odometry(area, place) ==
  /\ utm_.is_init =>
       /\ start \in area
       /\ \A i \in 1..2 : place[i] - start[i] \in (-Reach)..Reach
  /\ createRosOdoPosition(place[1], LongitudeOf(place))
  /\ start' = IF utm_.is_init THEN start ELSE place
  /\ ground' = place

DriveNext == \E area \in Areas : \E place \in area : Odometry(area, place)

DriveSpec == DriveInit /\ [][DriveNext]_driveVars

-----------------------------------------------------------------------------
(***************************************************************************)
(* Properties.                                                             *)
(***************************************************************************)

\* The central meridians in use at a latitude, and the one of a place: the nearest
\* (the eastern of two), but for the south-west of Norway.
MeridiansAt(latitude) ==
  {6 * z - 183 : z \in 1..60 \ (IF latitude \in 72..83 THEN {32, 34, 36} ELSE {})}

Distance(a, b) == IF a < b THEN b - a ELSE a - b

MeridianOf(latitude, longitude) ==
  IF latitude \in 56..63 /\ longitude \in 3..11 THEN 9
  ELSE CHOOSE m \in MeridiansAt(latitude) :
         \A k \in MeridiansAt(latitude) \ {m} :
           \/ Distance(longitude, m) < Distance(longitude, k)
           \/ Distance(longitude, m) = Distance(longitude, k) /\ k < m

\* Two places on the same side of the equator and of the 180th meridian.
SameSide(p, q) ==
  /\ (p[1] < 0) = (q[1] < 0)
  /\ (p[2] + 180) \div 360 = (q[2] + 180) \div 360

\* The odometry starts in the zone of the UTM grid, with its exceptions (Utm::init,
\* Utm::computeZoneNumber, Utm::computeMeridian).
OriginInZone ==
  utm_.is_init => utm_.meridian = MeridianOf(start[1], LongitudeOf(start))

\* The position of the odometry is the device's displacement since the first
\* message, into other zones too.  Over the equator and the 180th meridian the
\* code's position jumps (Utm::computeEastingNorthing, createRosOdoMessage).
OdometryFollowsGround ==
  (utm_.is_init /\ SameSide(start, ground)) =>
    position = <<ground[2] - start[2], ground[1] - start[1]>>
=============================================================================
