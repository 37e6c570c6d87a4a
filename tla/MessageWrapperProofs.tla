------------------------ MODULE MessageWrapperProofs ------------------------
(***************************************************************************)
(* Proofs about the parts of MessageWrapper: the dates of its messages,    *)
(* for a counter of any size that does not go round between two UTC logs;  *)
(* the times it makes of UTC logs and positions, for any dates from 1970   *)
(* to 2106 and any age of a position; the position of the odometry, for    *)
(* any areas and however far from its start the device is driven; and the  *)
(* directions of its messages, for any quarter turns of the device and     *)
(* integer velocities and rates.                                           *)
(***************************************************************************)
EXTENDS TimeReference, UtmOrigin, UtcDates, FrameConventions,
        WellFoundedInduction, TLAPS

-----------------------------------------------------------------------------
(***************************************************************************)
(* Integers.                                                               *)
(***************************************************************************)

\* An integer by its quotient and remainder.
LEMMA DivMod ==
  ASSUME NEW a \in Int, NEW m \in Nat \ {0}
  PROVE  a \div m \in Int /\ a % m \in Nat /\ a % m < m /\ a = m * (a \div m) + (a % m)
<1>1. a \in Int /\ m \in Int /\ m > 0
  OBVIOUS
<1>2. a \div m \in Int
  BY <1>1
<1>3. a % m \in Nat /\ a % m < m
  BY <1>1
<1>4. a = m * (a \div m) + (a % m)
  BY <1>1
<1> QED
  BY <1>2, <1>3, <1>4

\* There is only one such quotient and remainder.
LEMMA RemainderIs ==
  ASSUME NEW a \in Int, NEW m \in Nat \ {0}, NEW k \in Int, NEW b \in Nat, b < m, a = m * k + b
  PROVE  a % m = b /\ a \div m = k
<1> DEFINE q == a \div m  r == a % m
<1>1. q \in Int /\ r \in Nat /\ r < m /\ a = m * q + r
  OBVIOUS
<1> HIDE DEF q, r
<1>2. m * (k - q) = r - b
  BY <1>1
<1>3. k - q <= 0
  <2>1. SUFFICES ASSUME k - q >= 1 PROVE FALSE
    BY <1>1
  <2>2. m * (k - q) >= m
    BY <2>1, <1>1
  <2> QED
    BY <2>2, <1>1, <1>2
<1>4. k - q >= 0
  <2>1. SUFFICES ASSUME k - q <= -1 PROVE FALSE
    BY <1>1
  <2>2. m * (k - q) <= -m
    BY <2>1, <1>1
  <2> QED
    BY <2>2, <1>1, <1>2
<1>5. k = q
  BY <1>1, <1>3, <1>4
<1>6. r = b
  BY <1>1, <1>5
<1> QED
  BY <1>5, <1>6 DEF q, r

\* A set of natural numbers has a least one.
LEMMA LeastNumber ==
  ASSUME NEW S \in SUBSET Nat, S # {}
  PROVE  \E n \in S : \A k \in S : n <= k
<1> DEFINE R == {pair \in Nat \X Nat : pair[1] < pair[2]}
<1>1. OpToRel(<, Nat) = R
  BY DEF OpToRel
<1>2. IsWellFoundedOn(R, Nat)
  BY <1>1, NatLessThanWellFounded, Zenon
<1>3. PICK n \in S : \A k \in S : <<k, n>> \notin R
  <2> HIDE DEF R
  <2> QED
    BY <1>2, WFMin
<1>4. ASSUME NEW k \in S
      PROVE  n <= k
  <2>1. SUFFICES ASSUME k < n
                 PROVE  FALSE
    OBVIOUS
  <2>2. <<k, n>> \in Nat \X Nat /\ <<k, n>>[1] < <<k, n>>[2]
    BY <2>1
  <2> QED
    BY <1>3, <2>2, Zenon
<1> QED
  BY <1>4

-----------------------------------------------------------------------------
(***************************************************************************)
(* The time reference.                                                     *)
(***************************************************************************)

\* Two times less than one period of the counter apart: their difference is that of
\* their stamps, with one period more if the stamps go back.
LEMMA StampDifference ==
  ASSUME NEW a \in Nat, NEW b \in Nat, NEW m \in Nat \ {0}, b <= a, a - b < m
  PROVE  a - b = IF (a % m) >= (b % m) THEN (a % m) - (b % m) ELSE (a % m) + m - (b % m)
<1> DEFINE qa == a \div m  qb == b \div m  ra == a % m  rb == b % m
<1>1. /\ qa \in Int /\ ra \in 0..(m - 1) /\ a = m * qa + ra
      /\ qb \in Int /\ rb \in 0..(m - 1) /\ b = m * qb + rb
  BY DivMod
<1> HIDE DEF qa, qb, ra, rb
<1> DEFINE k == qa - qb
<1>2. k \in Int /\ m * k = m * qa - m * qb
  BY <1>1
<1>3. m * k = (a - b) - (ra - rb)
  BY <1>1, <1>2
<1> HIDE DEF k
<1>4. m * k < 2 * m /\ m * k > -m
  BY <1>1, <1>3
<1>5. k = 0 \/ k = 1
  <2>1. k >= 2 => m * k >= 2 * m
    BY <1>2
  <2>2. k <= -1 => m * k <= -m
    BY <1>2
  <2> QED
    BY <1>2, <1>4, <2>1, <2>2
<1>6. a - b = ra - rb \/ a - b = ra - rb + m
  BY <1>1, <1>3, <1>5
<1>7. a - b = IF ra >= rb THEN ra - rb ELSE ra + m - rb
  BY <1>1, <1>6
<1> QED
  BY <1>7 DEF ra, rb

\* The types, and what the wrapper knows of the last UTC log: while the device has
\* not been restarted since, its stamp; and its date, once a valid one came and the
\* device was never restarted.
TimeInv ==
  /\ now \in Nat /\ boot \in Nat /\ boots \in Nat /\ utcAt \in Nat
  /\ boot <= now /\ utcAt <= now
  /\ boots = 0 => boot = 0 /\ (first_valid_utc_ => synced)
  /\ first_valid_utc_ => now - utcAt <= MaxGap
  /\ (utcAt > boot \/ (first_valid_utc_ /\ boots = 0))
       => last_sbg_utc_.time_stamp = StampOf(utcAt)
  /\ (first_valid_utc_ /\ boots = 0) => last_sbg_utc_.date = Date + utcAt

\* A header made with the device's time, of a log stamped since the last UTC log.
LEMMA HeaderDate ==
  ASSUME MaxGap < Modulus, TimeInv,
         NEW t \in Nat, boot <= t, t <= now, utcAt <= t,
         utcAt > boot \/ boots = 0,
         createRosHeader(StampOf(t)).clock = "INS",
         last_sbg_utc_.date = Date + utcAt
  PROVE  createRosHeader(StampOf(t)).date = Date + t
<1>1. first_valid_utc_ /\ time_reference_ = "INS_UNIX"
  BY DEF createRosHeader
<1>2. last_sbg_utc_.time_stamp = (utcAt - boot) % Modulus /\ boot <= utcAt
  BY <1>1 DEF TimeInv, StampOf
<1>3. t - utcAt < Modulus
  BY <1>1, TimeAssumption DEF TimeAssumption, TimeInv
<1> DEFINE a == t - boot  b == utcAt - boot
<1>4. a \in Nat /\ b \in Nat /\ b <= a /\ a - b < Modulus /\ a - b = t - utcAt
  BY <1>2, <1>3, TimeAssumption DEF TimeAssumption, TimeInv
<1>5. timestamp_diff(StampOf(t)) = t - utcAt
  <2>1. timestamp_diff(StampOf(t))
          = IF (a % Modulus) >= (b % Modulus) THEN (a % Modulus) - (b % Modulus)
                                              ELSE (a % Modulus) + Modulus - (b % Modulus)
    BY <1>2 DEF timestamp_diff, StampOf
  <2> HIDE DEF a, b
  <2> QED
    BY <1>4, <2>1, StampDifference, TimeAssumption DEF TimeAssumption
<1>6. createRosHeader(StampOf(t)).date = (Date + utcAt) + (t - utcAt)
  BY <1>1, <1>5 DEF createRosHeader
<1> QED
  BY <1>6, TimeAssumption DEF TimeAssumption, TimeInv

LEMMA TimeStep ==
  ASSUME TimeInv, [Next]_vars
  PROVE  TimeInv'
<1> USE TimeAssumption DEF TimeAssumption, TimeInv, wrapperVars
<1>1. ASSUME NEW t \in 0..MaxTime, Log(t)
      PROVE  TimeInv'
  BY <1>1 DEF Log, StampOf
<1>2. CASE UtcLog
  <2>1. utcAt' = now /\ UNCHANGED <<now, boot, boots, synced>>
    BY <1>2 DEF UtcLog
  <2>2. last_sbg_utc_'.time_stamp = StampOf(now) /\ last_sbg_utc_'.date = UtcOf(now)
    BY <1>2 DEF UtcLog
  <2>3. first_valid_utc_' <=> first_valid_utc_ \/ synced
    BY <1>2 DEF UtcLog
  <2>4. (first_valid_utc_' /\ boots = 0) => synced
    BY <2>3
  <2>5. StampOf(utcAt)' = StampOf(now)
    BY <2>1 DEF StampOf
  <2>6. synced => UtcOf(now) = Date + now
    BY DEF UtcOf
  <2> QED
    BY <2>1, <2>2, <2>4, <2>5, <2>6
<1>3. CASE Tick
  BY <1>3 DEF Tick, StampOf
<1>4. CASE Synchronise
  BY <1>4 DEF Synchronise, StampOf
<1>5. CASE Reboot
  BY <1>5 DEF Reboot, StampOf
<1>6. CASE UNCHANGED vars
  BY <1>6 DEF vars, StampOf
<1> QED
  BY <1>1, <1>2, <1>3, <1>4, <1>5, <1>6 DEF Next

LEMMA TimeAlways == Spec => []TimeInv
<1>1. Init => TimeInv
  BY TimeAssumption DEF TimeAssumption, Init, TimeInv
<1>2. TimeInv /\ [Next]_vars => TimeInv'
  BY TimeStep
<1> QED
  BY <1>1, <1>2, PTL DEF Spec

\* A message dated with the device's time has the date its log was stamped at,
\* however often the counter rolled over, while the device is not restarted and
\* the log was not overtaken by a UTC log (createRosHeader, convertInsTimeToUnix).
THEOREM AccurateHeader ==
  ASSUME MaxGap < Modulus
  PROVE  Spec => []HeaderIsAccurate
<1>1. Init => HeaderIsAccurate
  BY DEF Init, HeaderIsAccurate
<1>2. ASSUME TimeInv, HeaderIsAccurate, [Next]_vars
      PROVE  HeaderIsAccurate'
  <2> SUFFICES ASSUME header'.clock = "INS", taken' >= utcAt', boots' = 0
               PROVE  header'.date = Date + taken'
    BY DEF HeaderIsAccurate
  <2> USE DEF wrapperVars
  <2>1. ASSUME NEW t \in 0..MaxTime, Log(t)
        PROVE  header'.date = Date + taken'
    <3>1. header' = createRosHeader(StampOf(t)) /\ taken' = t /\ t <= now /\ boot <= t
      BY <2>1 DEF Log
    <3>2. utcAt <= t /\ boots = 0 /\ t \in Nat
      BY <2>1, <3>1 DEF Log
    <3>3. last_sbg_utc_.date = Date + utcAt
      BY <3>1, <3>2, <1>2 DEF createRosHeader, TimeInv
    <3> QED
      BY <1>2, <3>1, <3>2, <3>3, HeaderDate
  <2>2. CASE UtcLog
    <3>1. header' = createRosHeader(StampOf(now)) /\ taken' = now
      BY <2>2 DEF UtcLog
    <3>2. boots = 0
      BY <2>2 DEF UtcLog
    <3>3. last_sbg_utc_.date = Date + utcAt
      BY <3>1, <3>2, <1>2 DEF createRosHeader, TimeInv
    <3>4. now \in Nat /\ boot <= now /\ utcAt <= now
      BY <1>2 DEF TimeInv
    <3> QED
      BY <1>2, <3>1, <3>2, <3>3, <3>4, HeaderDate
  <2>3. CASE Tick \/ Synchronise \/ UNCHANGED vars
    BY <1>2, <2>3 DEF Tick, Synchronise, vars, HeaderIsAccurate
  <2>4. CASE Reboot
    BY <1>2, <2>4 DEF Reboot, TimeInv
  <2> QED
    BY <1>2, <2>1, <2>2, <2>3, <2>4 DEF Next
<1> QED
  BY <1>1, <1>2, TimeAlways, PTL DEF Spec

\* After a restart of the device too, each message made from the first UTC log on
\* that has a true date has one itself (createSbgUtcTimeMessage, createRosHeader).
THEOREM DatesAreRecovered ==
  ASSUME MaxGap < Modulus
  PROVE  Spec => DatesRecover
<1> DEFINE Recovers == (header' # header /\ header'.clock = "INS"
                          /\ utcAt > boot /\ taken' >= utcAt /\ last_sbg_utc_.date = Date + utcAt)
                         => header'.date = Date + taken'
<1>1. ASSUME TimeInv, [Next]_vars
      PROVE  [Recovers]_vars
  <2> SUFFICES ASSUME header' # header, header'.clock = "INS", utcAt > boot,
                      taken' >= utcAt, last_sbg_utc_.date = Date + utcAt
               PROVE  header'.date = Date + taken'
    OBVIOUS
  <2> USE DEF wrapperVars
  <2>1. ASSUME NEW t \in 0..MaxTime, Log(t)
        PROVE  header'.date = Date + taken'
    <3>1. header' = createRosHeader(StampOf(t)) /\ taken' = t /\ t <= now /\ boot <= t
      BY <2>1 DEF Log
    <3> QED
      BY <1>1, <3>1, HeaderDate
  <2>2. CASE UtcLog
    <3>1. header' = createRosHeader(StampOf(now)) /\ taken' = now
      BY <2>2 DEF UtcLog
    <3>2. now \in Nat /\ boot <= now /\ utcAt <= now
      BY <1>1 DEF TimeInv
    <3> QED
      BY <1>1, <3>1, <3>2, HeaderDate
  <2>3. CASE Tick \/ Synchronise \/ Reboot \/ UNCHANGED vars
    BY <2>3 DEF Tick, Synchronise, Reboot, vars
  <2> QED
    BY <1>1, <2>1, <2>2, <2>3 DEF Next
<1> QED
  BY <1>1, TimeAlways, PTL DEF Spec, DatesRecover

-----------------------------------------------------------------------------
(***************************************************************************)
(* The origin and the position of the odometry.                            *)
(***************************************************************************)

Place == (-90..90) \X (-180..539)

LEMMA PlacesOfAreas ==
  ASSUME NEW area \in Areas, NEW place \in area
  PROVE  place \in Place
  BY AreasAssumption DEF AreasAssumption, Place

\* The device's longitude is in the range that the code reduces longitudes to.
LEMMA LongitudeReduced ==
  ASSUME NEW place \in Place
  PROVE  /\ LongitudeOf(place) \in -180..179
         /\ LongitudeOf(place) = place[2] - 360 * ((place[2] + 180) \div 360)
         /\ long_temp(LongitudeOf(place)) = LongitudeOf(place)
<1>1. place[2] \in -180..539
  BY DEF Place
<1>2. LongitudeOf(place) \in -180..179
  BY <1>1 DEF LongitudeOf
<1>3. LongitudeOf(place) = place[2] - 360 * ((place[2] + 180) \div 360)
  BY <1>1 DEF LongitudeOf
<1>4. (LongitudeOf(place) + 180) \div 360 = 0
  BY <1>2
<1>5. long_temp(LongitudeOf(place)) = LongitudeOf(place)
  BY <1>2, <1>4 DEF long_temp
<1> QED
  BY <1>2, <1>3, <1>5

\* Where the projection with the zone in use puts a place.
Projected(utm, place) == computeEastingNorthing(utm, place[1], LongitudeOf(place))

\* The first position and the last one are projected with the same zone, the one
\* chosen at the start.
DriveInv ==
  utm_.is_init =>
    /\ start \in Place /\ ground \in Place
    /\ utm_ = utmInit(start[1], LongitudeOf(start))
    /\ first_valid_ = Projected(utm_, start)
    /\ position = Minus(Projected(utm_, ground), first_valid_)

LEMMA DriveStep ==
  ASSUME DriveInv, [DriveNext]_driveVars
  PROVE  DriveInv'
<1>1. ASSUME NEW area \in Areas, NEW place \in area, Odometry(area, place)
      PROVE  DriveInv'
  <2>1. place \in Place /\ ground' = place
    BY <1>1, PlacesOfAreas DEF Odometry
  <2>2. CASE utm_.is_init
    <3>1. UNCHANGED <<utm_, first_valid_, start>>
      BY <1>1, <2>2 DEF Odometry, createRosOdoPosition
    <3>2. position' = Minus(Projected(utm_, place), first_valid_')
      BY <1>1, <2>2 DEF Odometry, createRosOdoPosition, Projected
    <3> QED
      BY <2>1, <2>2, <3>1, <3>2 DEF DriveInv
  <2>3. CASE ~utm_.is_init
    <3>1. start' = place /\ utm_' = utmInit(place[1], LongitudeOf(place))
      BY <1>1, <2>3 DEF Odometry, createRosOdoPosition
    <3>2. first_valid_' = Projected(utm_', place)
      BY <1>1, <2>3, <3>1 DEF Odometry, createRosOdoPosition, Projected
    <3>3. position' = Minus(Projected(utm_', place), first_valid_')
      BY <1>1, <2>3, <3>1 DEF Odometry, createRosOdoPosition, Projected
    <3> QED
      BY <2>1, <3>1, <3>2, <3>3 DEF DriveInv
  <2> QED
    BY <2>2, <2>3
<1>2. CASE UNCHANGED driveVars
  BY <1>2 DEF driveVars, DriveInv
<1> QED
  BY <1>1, <1>2 DEF DriveNext

LEMMA DriveAlways == DriveSpec => []DriveInv
<1>1. DriveInit => DriveInv
  <2> SUFFICES ASSUME DriveInit PROVE DriveInv
    OBVIOUS
  <2>1. utm_.is_init = FALSE
    BY DEF DriveInit
  <2> QED
    BY <2>1 DEF DriveInv
<1>2. DriveInv /\ [DriveNext]_driveVars => DriveInv'
  BY DriveStep
<1> QED
  BY <1>1, <1>2, PTL DEF DriveSpec

\* The meridian of a zone is a number of degrees.
LEMMA MeridianIsInt ==
  ASSUME NEW place \in Place
  PROVE  utmInit(place[1], LongitudeOf(place)).meridian \in Int
<1>1. computeZoneNumber(place[1], LongitudeOf(place)) \in Int
  BY LongitudeReduced DEF computeZoneNumber
<1> QED
  BY <1>1 DEF utmInit, computeMeridian

\* The position of the odometry is the displacement of the device since the first
\* message, whatever the zones it was driven through; on one side of the equator
\* and of the 180th meridian (Utm::computeEastingNorthing, createRosOdoMessage).
THEOREM OdometryIsDisplacement == DriveSpec => []OdometryFollowsGround
<1>1. ASSUME DriveInv
      PROVE  OdometryFollowsGround
  <2> SUFFICES ASSUME utm_.is_init, SameSide(start, ground)
               PROVE  position = <<ground[2] - start[2], ground[1] - start[1]>>
    BY DEF OdometryFollowsGround
  <2> DEFINE m == utm_.meridian
             North(p) == IF p[1] < 0 THEN p[1] + 90 ELSE p[1]
  <2>1. start \in Place /\ ground \in Place /\ m \in Int
    BY <1>1, MeridianIsInt DEF DriveInv
  <2>2. \A p \in Place : Projected(utm_, p) = <<LongitudeOf(p) - m, North(p)>>
    BY LongitudeReduced DEF Projected, computeEastingNorthing
  <2>3. position = << (LongitudeOf(ground) - m) - (LongitudeOf(start) - m),
                      North(ground) - North(start) >>
    BY <1>1, <2>1, <2>2 DEF DriveInv, Minus
  <2>4. LongitudeOf(ground) - LongitudeOf(start) = ground[2] - start[2]
    <3>1. (start[2] + 180) \div 360 = (ground[2] + 180) \div 360
      BY DEF SameSide
    <3>2. start[2] \in Int /\ ground[2] \in Int
      BY <2>1 DEF Place
    <3> QED
      BY <2>1, <3>1, <3>2, LongitudeReduced
  <2>5. North(ground) - North(start) = ground[1] - start[1]
    <3>1. start[1] \in Int /\ ground[1] \in Int
      BY <2>1 DEF Place
    <3> QED
      BY <3>1 DEF SameSide
  <2>6. LongitudeOf(ground) \in Int /\ LongitudeOf(start) \in Int
    BY <2>1, LongitudeReduced
  <2> HIDE DEF m, North
  <2> QED
    BY <2>1, <2>3, <2>4, <2>5, <2>6
<1> QED
  BY <1>1, DriveAlways, PTL

-----------------------------------------------------------------------------
(***************************************************************************)
(* The zones.                                                              *)
(***************************************************************************)

\* Meridian m is nearer to the longitude than k, or as near and east of it.
Nearer(longitude, m, k) ==
  \/ Distance(longitude, m) < Distance(longitude, k)
  \/ Distance(longitude, m) = Distance(longitude, k) /\ k < m

\* A zone reaches three degrees to either side of its meridian; between the zones
\* of Svalbard, which are twelve degrees apart, six.
LEMMA ZoneReaches ==
  ASSUME NEW latitude \in -90..90, NEW longitude \in -180..179,
         long_temp(longitude) = longitude,
         ~(latitude \in 56..63 /\ longitude \in 3..11),
         NEW zone, zone = computeZoneNumber(latitude, longitude)
  PROVE  /\ zone \in 1..60
         /\ latitude \in 72..83 => zone \notin {32, 34, 36}
         /\ \A k \in MeridiansAt(latitude) \ {6 * zone - 183} :
              Nearer(longitude, 6 * zone - 183, k)
<1>1. CASE latitude \in 72..83 /\ longitude \in 0..41
  <2>1. zone = IF longitude < 9 THEN 31 ELSE IF longitude < 21 THEN 33
               ELSE IF longitude < 33 THEN 35 ELSE 37
    BY <1>1 DEF computeZoneNumber
  <2>2. zone \in {31, 33, 35, 37}
    BY <1>1, <2>1
  <2>3. ASSUME NEW z \in (1..60) \ {32, 34, 36}, z # zone
        PROVE  Nearer(longitude, 6 * zone - 183, 6 * z - 183)
    BY <1>1, <2>1, <2>3 DEF Nearer, Distance
  <2>4. ASSUME NEW k \in MeridiansAt(latitude) \ {6 * zone - 183}
        PROVE  Nearer(longitude, 6 * zone - 183, k)
    <3>1. PICK z \in (1..60) \ {32, 34, 36} : k = 6 * z - 183
      BY <1>1 DEF MeridiansAt
    <3> QED
      BY <2>3, <3>1
  <2>5. zone \in (1..60) \ {32, 34, 36}
    BY <2>2
  <2> QED
    BY <2>4, <2>5
<1>2. CASE ~(latitude \in 72..83 /\ longitude \in 0..41)
  <2>1. zone = (longitude + 180) \div 6 + 1
    BY <1>2 DEF computeZoneNumber
  <2>2. zone \in 1..60 /\ 6 * (zone - 1) <= longitude + 180 /\ longitude + 180 < 6 * zone
    <3> DEFINE x == longitude + 180
    <3>1. x \in 0..359 /\ zone = x \div 6 + 1
      BY <2>1
    <3> HIDE DEF x
    <3>2. x \div 6 \in 0..59 /\ 6 * (x \div 6) <= x /\ x < 6 * (x \div 6) + 6
      BY <3>1
    <3>3. x \in 0..359 /\ zone \in Int
      BY <3>1, <3>2
    <3>4. zone \in 1..60 /\ 6 * (zone - 1) <= x /\ x < 6 * zone
      BY <3>1, <3>2, <3>3
    <3> QED
      BY <3>4 DEF x
  <2>3. latitude \in 72..83 => zone \notin {32, 34, 36}
    BY <1>2, <2>2
  <2>4. ASSUME NEW z \in 1..60, z # zone
        PROVE  Nearer(longitude, 6 * zone - 183, 6 * z - 183)
    BY <2>2, <2>4 DEF Nearer, Distance
  <2> QED
    BY <2>2, <2>3, <2>4 DEF MeridiansAt
<1> QED
  BY <1>1, <1>2

\* The meridian of the zone chosen for a place is the grid's own.
LEMMA MeridianOfZone ==
  ASSUME NEW latitude \in -90..90, NEW longitude \in -180..179,
         long_temp(longitude) = longitude
  PROVE  computeMeridian(computeZoneNumber(latitude, longitude)) = MeridianOf(latitude, longitude)
<1>1. CASE latitude \in 56..63 /\ longitude \in 3..11
  BY <1>1 DEF computeZoneNumber, computeMeridian, MeridianOf
<1>2. CASE ~(latitude \in 56..63 /\ longitude \in 3..11)
  <2> DEFINE zone == computeZoneNumber(latitude, longitude)
             m == 6 * zone - 183
             Nearest(n) == \A k \in MeridiansAt(latitude) \ {n} :
                             \/ Distance(longitude, n) < Distance(longitude, k)
                             \/ Distance(longitude, n) = Distance(longitude, k) /\ k < n
  <2>1. /\ zone \in 1..60
        /\ latitude \in 72..83 => zone \notin {32, 34, 36}
        /\ \A k \in MeridiansAt(latitude) \ {m} : Nearer(longitude, m, k)
    BY <1>2, ZoneReaches
  <2>2. computeMeridian(zone) = m
    <3> HIDE DEF zone
    <3> QED
      BY <2>1 DEF computeMeridian
  <2>3. m \in MeridiansAt(latitude) /\ Nearest(m)
    <3> HIDE DEF zone
    <3> QED
      BY <2>1 DEF MeridiansAt, Nearer
  <2>4. MeridianOf(latitude, longitude) = CHOOSE n \in MeridiansAt(latitude) : Nearest(n)
    BY <1>2 DEF MeridianOf
  <2>5. ASSUME NEW n \in MeridiansAt(latitude), Nearest(n)
        PROVE  n = m
    <3> HIDE DEF zone
    <3>1. MeridiansAt(latitude) \subseteq Int
      BY DEF MeridiansAt
    <3>2. m \in Int /\ n \in Int
      BY <2>3, <3>1
    <3>3. n # m => Nearer(longitude, n, m) /\ Nearer(longitude, m, n)
      BY <2>3, <2>5 DEF Nearer
    <3> HIDE DEF m
    <3> QED
      BY <3>2, <3>3 DEF Nearer, Distance
  <2> HIDE DEF m, zone, Nearest
  <2>6. (CHOOSE n \in MeridiansAt(latitude) : Nearest(n)) = m
    BY <2>3, <2>5
  <2> QED
    BY <2>2, <2>4, <2>6 DEF zone
<1> QED
  BY <1>1, <1>2

\* The odometry starts in the zone of the grid: the one whose meridian is nearest,
\* with the exceptions of Norway and Svalbard (Utm::init, Utm::computeZoneNumber,
\* Utm::computeMeridian).
THEOREM OriginIsInZone == DriveSpec => []OriginInZone
<1>1. ASSUME DriveInv
      PROVE  OriginInZone
  <2> SUFFICES ASSUME utm_.is_init
               PROVE  utm_.meridian = MeridianOf(start[1], LongitudeOf(start))
    BY DEF OriginInZone
  <2>1. start \in Place /\ start[1] \in -90..90
    BY <1>1 DEF DriveInv, Place
  <2>2. utm_.meridian = computeMeridian(computeZoneNumber(start[1], LongitudeOf(start)))
    BY <1>1 DEF DriveInv, utmInit
  <2> QED
    BY <2>1, <2>2, LongitudeReduced, MeridianOfZone
<1> QED
  BY <1>1, DriveAlways, PTL

-----------------------------------------------------------------------------
(***************************************************************************)
(* The dates and times of UTC logs and of positions.                       *)
(***************************************************************************)

CodeYears == 1970..2106

\* The leap years before a year, and the days, without a sum.
LeapsBefore(year) == (year - 1) \div 4 - (year - 1) \div 100 + (year - 1) \div 400

DaysBefore(year) == 365 * (year - 1970) + LeapsBefore(year) - 477

LeapDay(year) == IF isLeapYear(year) THEN 1 ELSE 0

\* From one multiple of m to the next, the quotient is the same.
LEMMA QuotientSteps ==
  ASSUME NEW a \in Int, NEW m \in Nat \ {0}
  PROVE  /\ a \div m \in Int /\ (a - 1) \div m \in Int
         /\ a \div m = (a - 1) \div m + (IF a % m = 0 THEN 1 ELSE 0)
<1> DEFINE q == a \div m  r == a % m  p == (a - 1) \div m
<1>1. q \in Int /\ r \in Nat /\ r < m /\ a = m * q + r /\ p \in Int
  BY DivMod, a - 1 \in Int
<1>2. CASE r = 0
  <2>1. a - 1 = m * (q - 1) + (m - 1)
    <3> HIDE DEF q, r
    <3> QED
      BY <1>1, <1>2
  <2>2. (a - 1) \div m = q - 1
    <3> HIDE DEF q, r
    <3> QED
      BY <1>1, <2>1, RemainderIs, a - 1 \in Int, m - 1 \in Nat, m - 1 < m, q - 1 \in Int
  <2> QED
    BY <1>1, <1>2, <2>2
<1>3. CASE r # 0
  <2>1. a - 1 = m * q + (r - 1)
    <3> HIDE DEF q, r
    <3> QED
      BY <1>1, <1>3
  <2>2. (a - 1) \div m = q
    <3>1. r - 1 \in Nat /\ r - 1 < m
      <4> HIDE DEF q, r
      <4> QED
        BY <1>1, <1>3
    <3> HIDE DEF q, r
    <3> QED
      BY <1>1, <2>1, <3>1, RemainderIs, a - 1 \in Int
  <2> QED
    BY <1>1, <1>3, <2>2
<1> QED
  BY <1>2, <1>3

LEMMA LeapsStep ==
  ASSUME NEW year \in CodeYears
  PROVE  /\ LeapsBefore(year) \in Int
         /\ LeapsBefore(year + 1) = LeapsBefore(year) + LeapDay(year)
         /\ LeapsBefore(year + 1) = year \div 4 - year \div 100 + year \div 400
<1>1. year \in Int /\ 4 \in Nat \ {0} /\ 100 \in Nat \ {0} /\ 400 \in Nat \ {0} /\ (year + 1) - 1 = year
  BY DEF CodeYears
<1>2. /\ year \div 4 \in Int /\ (year - 1) \div 4 \in Int
      /\ year \div 4 = (year - 1) \div 4 + (IF year % 4 = 0 THEN 1 ELSE 0)
  BY <1>1, QuotientSteps
<1>3. /\ year \div 100 \in Int /\ (year - 1) \div 100 \in Int
      /\ year \div 100 = (year - 1) \div 100 + (IF year % 100 = 0 THEN 1 ELSE 0)
  BY <1>1, QuotientSteps
<1>4. /\ year \div 400 \in Int /\ (year - 1) \div 400 \in Int
      /\ year \div 400 = (year - 1) \div 400 + (IF year % 400 = 0 THEN 1 ELSE 0)
  BY <1>1, QuotientSteps
<1> DEFINE q4 == year \div 4  q100 == year \div 100  q400 == year \div 400
           r4 == year % 4  r100 == year % 100  r400 == year % 400
<1>5. /\ q4 \in Int /\ r4 \in 0..3 /\ year = 4 * q4 + r4
      /\ q100 \in Int /\ r100 \in 0..99 /\ year = 100 * q100 + r100
      /\ q400 \in Int /\ r400 \in 0..399 /\ year = 400 * q400 + r400
  BY <1>1, DivMod
<1>6. (r100 = 0 => r4 = 0) /\ (r400 = 0 => r100 = 0)
  <2> HIDE DEF q4, q100, q400, r4, r100, r400
  <2> QED
    BY <1>1, <1>5
<1>7. LeapsBefore(year + 1) = year \div 4 - year \div 100 + year \div 400
  BY <1>1 DEF LeapsBefore
<1>8. LeapsBefore(year) \in Int
  BY <1>2, <1>3, <1>4 DEF LeapsBefore
<1> DEFINE p4 == (year - 1) \div 4  p100 == (year - 1) \div 100  p400 == (year - 1) \div 400
<1>9. LeapsBefore(year) = p4 - p100 + p400
  BY DEF LeapsBefore
<1>10. LeapDay(year) = IF (r4 = 0 /\ r100 # 0) \/ r400 = 0 THEN 1 ELSE 0
  BY DEF LeapDay, isLeapYear
<1>11. q4 - q100 + q400 = LeapsBefore(year) + LeapDay(year)
  <2> HIDE DEF q4, q100, q400, r4, r100, r400, p4, p100, p400
  <2>1. /\ p4 \in Int /\ p100 \in Int /\ p400 \in Int
        /\ q4 = p4 + (IF r4 = 0 THEN 1 ELSE 0)
        /\ q100 = p100 + (IF r100 = 0 THEN 1 ELSE 0)
        /\ q400 = p400 + (IF r400 = 0 THEN 1 ELSE 0)
    BY <1>2, <1>3, <1>4 DEF q4, q100, q400, r4, r100, r400, p4, p100, p400
  <2> QED
    BY <1>6, <1>9, <1>10, <2>1
<1> QED
  BY <1>7, <1>8, <1>11

\* The sum over the years.
LEMMA DaysOfYearsIs ==
  \A year \in CodeYears : DaysOfYears[year] = DaysBefore(year)
<1> DEFINE Sum(f, year) == IF year = 1970 THEN 0 ELSE f[year - 1] + getNumberOfDaysInYear(year - 1)
           closed == [year \in CodeYears |-> DaysBefore(year)]
<1>1. DaysBefore(1970) = 0
  BY DEF DaysBefore, LeapsBefore
<1>2. ASSUME NEW year \in CodeYears, year # 1970
      PROVE  /\ year - 1 \in CodeYears
             /\ DaysBefore(year) = DaysBefore(year - 1) + getNumberOfDaysInYear(year - 1)
  <2>1. year - 1 \in CodeYears /\ (year - 1) + 1 = year
    BY <1>2 DEF CodeYears
  <2>2. LeapsBefore(year - 1) \in Int /\ LeapsBefore(year) = LeapsBefore(year - 1) + LeapDay(year - 1)
    BY <2>1, LeapsStep
  <2>3. getNumberOfDaysInYear(year - 1) = 365 + LeapDay(year - 1) /\ LeapDay(year - 1) \in Int
    BY DEF getNumberOfDaysInYear, LeapDay
  <2> QED
    BY <2>1, <2>2, <2>3 DEF DaysBefore, CodeYears
<1>3. closed = [year \in CodeYears |-> Sum(closed, year)]
  <2>1. ASSUME NEW year \in CodeYears
        PROVE  DaysBefore(year) = Sum(closed, year)
    BY <1>1, <1>2
  <2> QED
    BY <2>1
<1>4. DaysOfYears = [year \in CodeYears |-> Sum(DaysOfYears, year)]
  <2>1. DaysOfYears = CHOOSE f : f = [year \in CodeYears |-> Sum(f, year)]
    BY DEF DaysOfYears, CodeYears
  <2>2. \E f : f = [year \in CodeYears |-> Sum(f, year)]
    BY <1>3
  <2> HIDE DEF Sum
  <2> QED
    BY <2>1, <2>2
<1> DEFINE Wrong == {year \in CodeYears : DaysOfYears[year] # DaysBefore(year)}
<1>5. ASSUME Wrong # {}
      PROVE  FALSE
  <2>1. Wrong \in SUBSET Nat
    BY DEF CodeYears
  <2>2. PICK year \in Wrong : \A other \in Wrong : year <= other
    <3> HIDE DEF Wrong
    <3> QED
      BY <1>5, <2>1, LeastNumber
  <2>3. year \in CodeYears /\ DaysOfYears[year] = Sum(DaysOfYears, year)
    <3>1. year \in CodeYears
      OBVIOUS
    <3> HIDE DEF Sum, Wrong
    <3> QED
      BY <1>4, <3>1
  <2>4. year # 1970
    BY <1>1, <2>3
  <2>5. year - 1 \in CodeYears /\ ~(year <= year - 1)
    BY <2>3, <2>4 DEF CodeYears
  <2>6. DaysOfYears[year - 1] = DaysBefore(year - 1)
    BY <2>2, <2>5
  <2> QED
    BY <1>2, <2>3, <2>4, <2>6
<1> QED
  BY <1>5

\* The days of a year before a month, without a sum.
MonthBegins(year, month) ==
  IF month <= 2 THEN 31 * (month - 1)
  ELSE 59 + LeapDay(year) + (153 * (month - 3) + 2) \div 5

LEMMA DaysOfMonthsIs ==
  ASSUME NEW year \in CodeYears, NEW month \in 1..12
  PROVE  DaysOfMonths(year, month) = MonthBegins(year, month)
<1> DEFINE Sum(f, k) == IF k = 1 THEN 0 ELSE f[k - 1] + getNumberOfDaysInMonth(year, k - 1)
           closed == [k \in 1..12 |-> MonthBegins(year, k)]
           sum == CHOOSE f : f = [k \in 1..12 |-> Sum(f, k)]
<1>1. DaysOfMonths(year, month) = sum[month]
  BY DEF DaysOfMonths
<1>2. LeapDay(year) \in Int /\ getNumberOfDaysInMonth(year, 2) = 28 + LeapDay(year)
  BY DEF LeapDay, getNumberOfDaysInMonth
<1>3. /\ getNumberOfDaysInMonth(year, 1) = 31 /\ getNumberOfDaysInMonth(year, 3) = 31
      /\ getNumberOfDaysInMonth(year, 4) = 30 /\ getNumberOfDaysInMonth(year, 5) = 31
      /\ getNumberOfDaysInMonth(year, 6) = 30 /\ getNumberOfDaysInMonth(year, 7) = 31
      /\ getNumberOfDaysInMonth(year, 8) = 31 /\ getNumberOfDaysInMonth(year, 9) = 30
      /\ getNumberOfDaysInMonth(year, 10) = 31 /\ getNumberOfDaysInMonth(year, 11) = 30
  BY DEF getNumberOfDaysInMonth
<1> DEFINE d == LeapDay(year)
<1>4. /\ MonthBegins(year, 1) = 0 /\ MonthBegins(year, 2) = 31 /\ MonthBegins(year, 3) = 59 + d
      /\ MonthBegins(year, 4) = 90 + d /\ MonthBegins(year, 5) = 120 + d
      /\ MonthBegins(year, 6) = 151 + d /\ MonthBegins(year, 7) = 181 + d
      /\ MonthBegins(year, 8) = 212 + d /\ MonthBegins(year, 9) = 243 + d
      /\ MonthBegins(year, 10) = 273 + d /\ MonthBegins(year, 11) = 304 + d
      /\ MonthBegins(year, 12) = 334 + d
  BY <1>2 DEF MonthBegins
<1> DEFINE B(k) == MonthBegins(year, k)  L(k) == getNumberOfDaysInMonth(year, k)
<1>5. \A k \in 1..12 : B(k) = IF k = 1 THEN 0 ELSE B(k - 1) + L(k - 1)
  <2>1. /\ B(1) = 0 /\ B(2) = B(1) + L(1) /\ B(3) = B(2) + L(2) /\ B(4) = B(3) + L(3)
        /\ B(5) = B(4) + L(4) /\ B(6) = B(5) + L(5) /\ B(7) = B(6) + L(6) /\ B(8) = B(7) + L(7)
        /\ B(9) = B(8) + L(8) /\ B(10) = B(9) + L(9) /\ B(11) = B(10) + L(10) /\ B(12) = B(11) + L(11)
    BY <1>2, <1>3, <1>4
  <2> QED
    BY <2>1
<1>6. closed = [k \in 1..12 |-> Sum(closed, k)]
  <2>1. ASSUME NEW k \in 1..12
        PROVE  MonthBegins(year, k) = Sum(closed, k)
    BY <1>5
  <2> QED
    BY <2>1
<1>7. sum = [k \in 1..12 |-> Sum(sum, k)]
  <2> HIDE DEF Sum
  <2> QED
    BY <1>6
<1>8. \A k \in 1..12 : sum[k] = IF k = 1 THEN 0 ELSE sum[k - 1] + L(k - 1)
  <2> HIDE DEF sum
  <2> QED
    BY <1>7
<1>9. \A k \in 1..12 : sum[k] = B(k)
  <2> HIDE DEF sum, B, L
  <2>1. sum[1] = B(1)
    BY <1>5, <1>8
  <2>2. sum[2] = B(2)
    BY <1>5, <1>8, <2>1
  <2>3. sum[3] = B(3)
    BY <1>5, <1>8, <2>2
  <2>4. sum[4] = B(4)
    BY <1>5, <1>8, <2>3
  <2>5. sum[5] = B(5)
    BY <1>5, <1>8, <2>4
  <2>6. sum[6] = B(6)
    BY <1>5, <1>8, <2>5
  <2>7. sum[7] = B(7)
    BY <1>5, <1>8, <2>6
  <2>8. sum[8] = B(8)
    BY <1>5, <1>8, <2>7
  <2>9. sum[9] = B(9)
    BY <1>5, <1>8, <2>8
  <2>10. sum[10] = B(10)
    BY <1>5, <1>8, <2>9
  <2>11. sum[11] = B(11)
    BY <1>5, <1>8, <2>10
  <2>12. sum[12] = B(12)
    BY <1>5, <1>8, <2>11
  <2> QED
    BY <2>1, <2>2, <2>3, <2>4, <2>5, <2>6, <2>7, <2>8, <2>9, <2>10, <2>11, <2>12
<1> HIDE DEF sum
<1> QED
  BY <1>1, <1>9

\* The code's day of a date is the device's.
LEMMA CodeDay ==
  ASSUME NEW year \in CodeYears, NEW month \in 1..12, NEW day \in Int
  PROVE  DaysOfYears[year] + DaysOfMonths(year, month) + day - 1 = DayNumber(year, month, day)
<1>1. /\ LeapsBefore(year) \in Int /\ LeapDay(year) \in Int
      /\ LeapsBefore(year + 1) = LeapsBefore(year) + LeapDay(year)
      /\ LeapsBefore(year + 1) = year \div 4 - year \div 100 + year \div 400
  BY LeapsStep DEF LeapDay
<1>2. DaysOfYears[year] = 365 * (year - 1970) + LeapsBefore(year) - 477
  BY DaysOfYearsIs DEF DaysBefore
<1>3. DaysOfMonths(year, month) = MonthBegins(year, month)
  BY DaysOfMonthsIs
<1>4. CASE month <= 2
  <2>1. DayNumber(year, month, day)
          = 365 * (year - 1) + LeapsBefore(year) + (153 * ((month + 9) % 12) + 2) \div 5 + day - 719469
    <3>1. DayNumber(year, month, day)
            = 365 * (year - 1) + (year - 1) \div 4 - (year - 1) \div 100 + (year - 1) \div 400
                + (153 * ((month + 9) % 12) + 2) \div 5 + day - 719469
      BY <1>4 DEF DayNumber
    <3> DEFINE q4 == (year - 1) \div 4  q100 == (year - 1) \div 100  q400 == (year - 1) \div 400
               k == (153 * ((month + 9) % 12) + 2) \div 5
    <3>2. LeapsBefore(year) = q4 - q100 + q400
      BY DEF LeapsBefore
    <3>3. q4 \in Int /\ q100 \in Int /\ q400 \in Int /\ year \in Int
      BY DEF CodeYears
    <3>4. k \in Int
      BY <1>4
    <3> HIDE DEF q4, q100, q400, k
    <3> QED
      BY <3>1, <3>2, <3>3, <3>4 DEF q4, q100, q400, k
  <2>2. CASE month = 1
    <3>1. (153 * ((month + 9) % 12) + 2) \div 5 = 306
      BY <2>2
    <3>2. MonthBegins(year, month) = 0
      BY <2>2 DEF MonthBegins
    <3> QED
      BY <1>1, <1>2, <1>3, <2>1, <3>1, <3>2 DEF CodeYears
  <2>3. CASE month = 2
    <3>1. (153 * ((month + 9) % 12) + 2) \div 5 = 337
      BY <2>3
    <3>2. MonthBegins(year, month) = 31
      BY <2>3 DEF MonthBegins
    <3> QED
      BY <1>1, <1>2, <1>3, <2>1, <3>1, <3>2 DEF CodeYears
  <2> QED
    BY <1>4, <2>2, <2>3
<1>5. CASE month > 2
  <2>1. (month + 9) % 12 = month - 3
    BY <1>5, RemainderIs, month + 9 \in Int, 12 \in Nat \ {0}, month - 3 \in Nat, month - 3 < 12, month + 9 = 12 * 1 + (month - 3)
  <2> DEFINE k == (153 * (month - 3) + 2) \div 5
  <2>2. k \in Int
    OBVIOUS
  <2>3. MonthBegins(year, month) = 59 + LeapDay(year) + k
    BY <1>5 DEF MonthBegins
  <2>4. DayNumber(year, month, day)
          = 365 * year + year \div 4 - year \div 100 + year \div 400 + k + day - 719469
    BY <1>5, <2>1 DEF DayNumber
  <2> DEFINE q4 == year \div 4  q100 == year \div 100  q400 == year \div 400
  <2>5. q4 \in Int /\ q100 \in Int /\ q400 \in Int /\ year \in Int
    BY DEF CodeYears
  <2> HIDE DEF q4, q100, q400, k
  <2>6. DayNumber(year, month, day) = 365 * year + LeapsBefore(year + 1) + k + day - 719469
    BY <1>1, <2>2, <2>4, <2>5 DEF q4, q100, q400
  <2> QED
    BY <1>1, <1>2, <1>3, <2>2, <2>3, <2>5, <2>6
<1> QED
  BY <1>4, <1>5

-----------------------------------------------------------------------------
\* The clock of a time of day, and the time of a clock.
LEMMA ClockTimes ==
  ASSUME NEW s \in Nat, s < 86400
  PROVE  /\ ClockTime(s)[1] \in 0..23 /\ ClockTime(s)[2] \in 0..59 /\ ClockTime(s)[3] \in 0..59
         /\ (ClockTime(s)[1] * 60 + ClockTime(s)[2]) * 60 + ClockTime(s)[3] = s
<1> DEFINE h == s \div 3600  m == s \div 60  mm == m % 60  mh == m \div 60  x == s % 60  y == s % 3600
<1>1. h \in Int /\ y \in Nat /\ y < 3600 /\ s = 3600 * h + y
  BY DivMod, s \in Int, 3600 \in Nat \ {0}, SMT
<1>2. m \in Int /\ x \in 0..59 /\ s = 60 * m + x
  BY DivMod, s \in Int, 60 \in Nat \ {0}, SMT
<1>3. mm \in 0..59 /\ mh \in Int /\ m = 60 * mh + mm
  <2> HIDE DEF m
  <2> QED
    BY <1>2, DivMod, 60 \in Nat \ {0}, SMT
<1>4. ClockTime(s) = <<h, mm, x>>
  BY SMT DEF ClockTime
<1> HIDE DEF h, m, mm, mh, x, y
<1>5. h = mh /\ h \in 0..23
  BY <1>1, <1>2, <1>3, SMT
<1> QED
  BY <1>2, <1>3, <1>4, <1>5, SMT

\* The code turns the log of a date and a time of day into the true time.
UnixOfLogIsExact(year, month, day, time) ==
  /\ DayNumber(year, month, day) \in Int
  /\ convertUtcTimeToUnix(UtcLogOf(year, month, day, time))
       = <<DayNumber(year, month, day) + time \div 86400, time % 86400>>

LEMMA UnixOfLog ==
  ASSUME NEW year \in CodeYears, NEW month \in 1..12, NEW day \in 1..31, NEW time \in Nat, time <= 86400
  PROVE  UnixOfLogIsExact(year, month, day, time)
<1> DEFINE log == UtcLogOf(year, month, day, time)
           d == DayNumber(year, month, day)
           seconds == (log.hour * 60 + log.min) * 60 + log.sec
<1>1. /\ log.year = year /\ log.month = month /\ log.day = day
  BY SMT DEF UtcLogOf
<1>2. seconds = time
  <2>1. CASE time = 86400
    BY <2>1, SMT DEF UtcLogOf
  <2>2. CASE time # 86400
    <3>1. log.hour = ClockTime(time)[1] /\ log.min = ClockTime(time)[2] /\ log.sec = ClockTime(time)[3]
      BY <2>2, SMT DEF UtcLogOf
    <3>2. time < 86400
      BY <2>2, SMT
    <3> HIDE DEF log
    <3> QED
      BY <3>1, <3>2, ClockTimes, SMT
  <2> QED
    BY <2>1, <2>2, SMT
<1>3. DaysOfYears[year] + DaysOfMonths(year, month) + day - 1 = d
  BY CodeDay, SMT
<1>4. d \in Int
  <2>1. DaysOfYears[year] \in Int
    BY DaysOfYearsIs, LeapsStep, SMT DEF DaysBefore, CodeYears
  <2>2. DaysOfMonths(year, month) \in Int
    BY DaysOfMonthsIs, SMT DEF MonthBegins, LeapDay
  <2> HIDE DEF d
  <2> QED
    BY <1>3, <2>1, <2>2, SMT
<1>5. convertUtcTimeToUnix(log)
        = <<(DaysOfYears[log.year] + DaysOfMonths(log.year, log.month) + log.day - 1) + seconds \div 86400,
            seconds % 86400>>
  BY SMT DEF convertUtcTimeToUnix
<1> HIDE DEF log, d, seconds
<1> QED
  BY <1>1, <1>2, <1>3, <1>4, <1>5, SMT DEF log, d, UnixOfLogIsExact

\* A time of week and its time of day.
WeekSeconds(utc) == (((utc[1] + 4) % 7) * 86400 + utc[2] + leap) % 604800

LEMMA WeekSecondsAre ==
  ASSUME leap \in 0..59, NEW utc \in Int \X Nat
  PROVE  /\ WeekSeconds(utc) \in Nat /\ WeekSeconds(utc) < 604800
         /\ \E w \in Int : WeekSeconds(utc) = 86400 * w + utc[2] + leap
         /\ TimeOfWeek(utc) = WeekSeconds(utc) * 1000
<1>1. utc[1] \in Int /\ utc[2] \in Nat
  BY SMT
<1> DEFINE d == (utc[1] + 4) % 7  t == d * 86400 + utc[2] + leap  q == t \div 604800  r == t % 604800
<1>2. d \in 0..6
  BY <1>1, DivMod, utc[1] + 4 \in Int, 7 \in Nat \ {0}, SMT
<1>3. t \in Int
  <2> HIDE DEF d
  <2> QED
    BY <1>1, <1>2, SMT
<1>4. q \in Int /\ r \in Nat /\ r < 604800 /\ t = 604800 * q + r
  <2> HIDE DEF t
  <2> QED
    BY <1>3, DivMod, 604800 \in Nat \ {0}, SMT
<1>5. WeekSeconds(utc) = r /\ TimeOfWeek(utc) = r * 1000
  BY SMT DEF WeekSeconds, TimeOfWeek
<1>6. r = 86400 * (d - 7 * q) + utc[2] + leap
  <2>1. t = d * 86400 + utc[2] + leap
    BY SMT
  <2> HIDE DEF t, d, q, r
  <2> QED
    BY <1>1, <1>2, <1>4, <2>1, SMT
<1>7. d - 7 * q \in Int
  <2> HIDE DEF d, q
  <2> QED
    BY <1>2, <1>4, SMT
<1> HIDE DEF d, q, r, t
<1> QED
  BY <1>4, <1>5, <1>6, <1>7, SMT

\* The seconds of two clocks that differ by less than a minute.
LEMMA SecondsDiffer ==
  ASSUME NEW s \in Nat, NEW t \in Nat, NEW w \in Int, NEW l \in 0..59, t = 60 * w + s + l
  PROVE  (IF (t % 60) - (s % 60) < 0 THEN 60 + ((t % 60) - (s % 60)) ELSE (t % 60) - (s % 60)) = l
<1> DEFINE a == s \div 60  b == s % 60  c == t \div 60  e == t % 60
<1>1. a \in Int /\ b \in Nat /\ b < 60 /\ s = 60 * a + b
  BY DivMod, s \in Int, 60 \in Nat \ {0}, SMT
<1>2. c \in Int /\ e \in Nat /\ e < 60 /\ t = 60 * c + e
  BY DivMod, t \in Int, 60 \in Nat \ {0}, SMT
<1> HIDE DEF a, b, c, e
<1>3. c - w - a \in Int /\ 60 * (c - w - a) = b + l - e
  BY <1>1, <1>2, SMT
<1>4. e = IF b + l < 60 THEN b + l ELSE b + l - 60
  BY <1>1, <1>2, <1>3, SMT
<1>5. (IF e - b < 0 THEN 60 + (e - b) ELSE e - b) = l
  BY <1>1, <1>4, SMT
<1> QED
  BY <1>5, SMT DEF b, e

\* The clock at a number of milliseconds is that of the second of its day.
LEMMA ClockOfMillis ==
  ASSUME NEW u \in Int, NEW w \in Int, NEW s \in Nat, s < 86400, u = 1000 * (86400 * w + s)
  PROVE  <<(u \div 3600000) % 24, (u \div 60000) % 60, (u \div 1000) % 60>> = ClockTime(s)
<1> DEFINE h == s \div 3600  y == s % 3600  m == s \div 60  x == s % 60  mm == m % 60  mh == m \div 60
<1>1. h \in Int /\ y \in Nat /\ y < 3600 /\ s = 3600 * h + y
  BY DivMod, s \in Int, 3600 \in Nat \ {0}, SMT
<1>2. m \in Int /\ x \in Nat /\ x < 60 /\ s = 60 * m + x
  BY DivMod, s \in Int, 60 \in Nat \ {0}, SMT
<1>3. mm \in Nat /\ mm < 60 /\ mh \in Int /\ m = 60 * mh + mm
  <2> HIDE DEF m
  <2> QED
    BY <1>2, DivMod, 60 \in Nat \ {0}, SMT
<1>4. ClockTime(s) = <<h, mm, x>>
  BY SMT DEF ClockTime
<1> HIDE DEF h, y, m, x, mm, mh
<1>5. h \in Nat /\ h < 24
  BY <1>1, SMT
<1>6. (u \div 3600000) % 24 = h
  <2>1. u \div 3600000 = 24 * w + h
    <3>1. u = 3600000 * (24 * w + h) + 1000 * y /\ 24 * w + h \in Int /\ 1000 * y \in Nat /\ 1000 * y < 3600000
      BY <1>1, SMT
    <3> QED
      BY <3>1, RemainderIs, 3600000 \in Nat \ {0}, SMT
  <2>2. (24 * w + h) % 24 = h
    BY <1>1, <1>5, RemainderIs, 24 * w + h \in Int, 24 \in Nat \ {0}, SMT
  <2> QED
    BY <2>1, <2>2, SMT
<1>7. (u \div 60000) % 60 = mm
  <2>1. u \div 60000 = 60 * (24 * w + mh) + mm
    <3>1. /\ u = 60000 * (60 * (24 * w + mh) + mm) + 1000 * x
          /\ 60 * (24 * w + mh) + mm \in Int /\ 1000 * x \in Nat /\ 1000 * x < 60000
      BY <1>2, <1>3, SMT
    <3> QED
      BY <3>1, RemainderIs, 60000 \in Nat \ {0}, SMT
  <2>2. (60 * (24 * w + mh) + mm) % 60 = mm
    BY <1>3, RemainderIs, 60 * (24 * w + mh) + mm \in Int, 24 * w + mh \in Int, 60 \in Nat \ {0}, SMT
  <2> QED
    BY <2>1, <2>2, SMT
<1>8. (u \div 1000) % 60 = x
  <2>1. u \div 1000 = 60 * (1440 * w + m) + x
    <3>1. u = 1000 * (60 * (1440 * w + m) + x) + 0 /\ 60 * (1440 * w + m) + x \in Int
      BY <1>2, SMT
    <3> QED
      BY <3>1, RemainderIs, 1000 \in Nat \ {0}, 0 \in Nat, SMT
  <2>2. (60 * (1440 * w + m) + x) % 60 = x
    BY <1>2, RemainderIs, 60 * (1440 * w + m) + x \in Int, 1440 * w + m \in Int, 60 \in Nat \ {0}, SMT
  <2> QED
    BY <2>1, <2>2, SMT
<1> QED
  BY <1>4, <1>6, <1>7, <1>8, SMT

\* The offset read from a UTC log is the leap seconds.
OffsetRead(tow, sec) ==
  LET offset == ((tow \div 1000) % 60) - sec
  IN IF offset < 0 THEN 60 + offset ELSE offset

LEMMA OffsetIsLeap ==
  ASSUME leap \in 0..59, NEW utc \in Int \X Nat
  PROVE  OffsetRead(TimeOfWeek(utc), utc[2] % 60) = leap
<1> DEFINE W == WeekSeconds(utc)  s == utc[2]
<1>1. s \in Nat
  BY SMT
<1>2. W \in Nat /\ TimeOfWeek(utc) = W * 1000
  BY WeekSecondsAre, SMT
<1>3. PICK w \in Int : W = 86400 * w + s + leap
  BY WeekSecondsAre, SMT
<1>4. (W * 1000) \div 1000 = W
  <2> HIDE DEF W
  <2> QED
    BY <1>2, RemainderIs, W * 1000 \in Int, 1000 \in Nat \ {0}, 0 \in Nat, W * 1000 = 1000 * W + 0, SMT
<1>5. (IF (W % 60) - (s % 60) < 0 THEN 60 + ((W % 60) - (s % 60)) ELSE (W % 60) - (s % 60)) = leap
  <2>1. 1440 * w \in Int /\ W = 60 * (1440 * w) + s + leap
    <3> HIDE DEF W, s
    <3> QED
      BY <1>1, <1>3, SMT
  <2> HIDE DEF W, s
  <2> QED
    BY <1>1, <1>2, <2>1, SecondsDiffer, SMT
<1> HIDE DEF W
<1> QED
  BY <1>2, <1>4, <1>5, SMT DEF OffsetRead

\* With the true offset the sentence has the time of day.
LEMMA SentenceHasTime ==
  ASSUME leap \in 0..59, NEW utc \in Int \X Nat, utc[2] < 86400,
         getUtcOffset(first_valid_utc, last_utc.gps_tow, last_utc.sec) = leap
  PROVE  createNmeaGGAMessageForNtrip(TimeOfWeek(utc)) = ClockTime(utc[2])
<1> DEFINE W == WeekSeconds(utc)  s == utc[2]
<1>1. s \in Nat /\ s < 86400
  BY SMT
<1>2. W \in Nat /\ TimeOfWeek(utc) = W * 1000
  BY WeekSecondsAre, SMT
<1>3. PICK w \in Int : W = 86400 * w + s + leap
  BY WeekSecondsAre, SMT
<1> DEFINE u == W * 1000 + 24 * 3600 * 1000 - leap * 1000
<1>4. u \in Int /\ w + 1 \in Int /\ u = 1000 * (86400 * (w + 1) + s)
  <2> HIDE DEF W, s
  <2> QED
    BY <1>1, <1>2, <1>3, SMT
<1>5. createNmeaGGAMessageForNtrip(TimeOfWeek(utc))
        = <<(u \div 3600000) % 24, (u \div 60000) % 60, (u \div 1000) % 60>>
  BY <1>2, SMT DEF createNmeaGGAMessageForNtrip
<1> HIDE DEF u, s
<1> QED
  BY <1>1, <1>4, <1>5, ClockOfMillis, SMT DEF s

-----------------------------------------------------------------------------
\* What the wrapper has of the last UTC log is what the device meant.
CalendarInv ==
  /\ leap \in 0..59 /\ first_valid_utc \in BOOLEAN
  /\ instant \in [utc : Int \X Nat, position : Int \X Nat]
  /\ instant.position[2] < 86400
  /\ last_utc.year = 0 => ~first_valid_utc
  /\ last_utc.year # 0 =>
       /\ unix = <<instant.utc[1] + instant.utc[2] \div 86400, instant.utc[2] % 86400>>
       /\ last_utc.gps_tow = TimeOfWeek(instant.utc)
       /\ instant.utc[2] < 86400 => last_utc.sec = instant.utc[2] % 60
  /\ gga # <<>> => gga = createNmeaGGAMessageForNtrip(TimeOfWeek(instant.position))

LEMMA CalendarConstants ==
  /\ Years \subseteq CodeYears /\ DaysOfMonth \subseteq 1..31
  /\ \A time \in Times : time \in Nat /\ time <= 86400
  /\ LeapSeconds \subseteq 0..59 /\ Ages \subseteq Nat
  BY CalendarAssumption, SMT DEF CodeYears

LEMMA UnixOfInputs ==
  ASSUME NEW year \in Years, NEW month \in 1..12, NEW day \in DaysOfMonth, NEW time \in Times
  PROVE  /\ DayNumber(year, month, day) \in Int
         /\ convertUtcTimeToUnix(UtcLogOf(year, month, day, time))
              = <<DayNumber(year, month, day) + time \div 86400, time % 86400>>
<1>1. year \in CodeYears /\ day \in 1..31 /\ time \in Nat /\ time <= 86400
  BY CalendarConstants, SMT
<1>2. UnixOfLogIsExact(year, month, day, time)
  BY <1>1, UnixOfLog, SMT
<1> QED
  BY <1>2, SMT DEF UnixOfLogIsExact

LEMMA CalendarBegins == CalendarInit => CalendarInv
<1> SUFFICES ASSUME CalendarInit
             PROVE  CalendarInv
  BY SMT
<1>1. leap \in 0..59
  BY CalendarConstants, SMT DEF CalendarInit
<1>2. last_utc.year = 0 /\ first_valid_utc \in BOOLEAN /\ ~first_valid_utc /\ gga = <<>>
  BY DEF CalendarInit
<1>3. instant \in [utc : Int \X Nat, position : Int \X Nat] /\ instant.position[2] = 0
  BY SMT DEF CalendarInit
<1> QED
  BY <1>1, <1>2, <1>3, SMT DEF CalendarInv

LEMMA UtcLogStep ==
  ASSUME CalendarInv, NEW year \in Years, NEW month \in 1..12, NEW day \in DaysOfMonth,
         NEW time \in Times, NEW valid \in BOOLEAN,
         UtcDate(year, month, day, time, valid)
  PROVE  CalendarInv'
<1> DEFINE d == DayNumber(year, month, day)
<1>1. /\ year \in CodeYears /\ day \in 1..31 /\ time \in Nat /\ time <= 86400
  BY CalendarConstants, SMT
<1>2. d \in Int /\ convertUtcTimeToUnix(UtcLogOf(year, month, day, time)) = <<d + time \div 86400, time % 86400>>
  BY UnixOfInputs, SMT
<1>3. /\ last_utc' = UtcLogOf(year, month, day, time)
      /\ unix' = convertUtcTimeToUnix(last_utc')
      /\ first_valid_utc' = (first_valid_utc \/ valid)
      /\ instant' = [instant EXCEPT !.utc = <<d, time>>]
      /\ gga' = <<>>
      /\ leap' = leap
  BY Zenon DEF UtcDate
<1> HIDE DEF d
<1>4. instant'.utc = <<d, time>> /\ instant'.position = instant.position
      /\ instant' \in [utc : Int \X Nat, position : Int \X Nat]
  BY <1>1, <1>2, <1>3, SMT DEF CalendarInv
<1>5. last_utc'.year = year /\ year # 0
  <2>1. UtcLogOf(year, month, day, time).year = year
    BY SMT DEF UtcLogOf
  <2>2. year # 0
    BY <1>1, SMT DEF CodeYears
  <2> QED
    BY <1>3, <2>1, <2>2, SMT
<1>6. last_utc'.gps_tow = TimeOfWeek(<<d, time>>)'
  BY <1>3, SMT DEF UtcLogOf, TimeOfWeek, d
<1>7. time < 86400 => last_utc'.sec = time % 60
  BY <1>3, SMT DEF UtcLogOf, ClockTime
<1>8. unix' = <<instant'.utc[1] + instant'.utc[2] \div 86400, instant'.utc[2] % 86400>>
  BY <1>2, <1>3, <1>4, SMT
<1>9. last_utc'.gps_tow = TimeOfWeek(instant.utc)'
  BY <1>4, <1>6, SMT DEF TimeOfWeek
<1>10. instant'.utc[2] < 86400 => last_utc'.sec = instant'.utc[2] % 60
  BY <1>4, <1>7, SMT
<1> QED
  BY <1>3, <1>4, <1>5, <1>8, <1>9, <1>10, SMT DEF CalendarInv

LEMMA PositionStep ==
  ASSUME CalendarInv, NEW age \in Ages, PositionTime(age)
  PROVE  CalendarInv'
<1> DEFINE time == instant.utc[2] + age
           utc == <<instant.utc[1] + time \div 86400, time % 86400>>
<1>1. /\ instant' = [instant EXCEPT !.position = utc]
      /\ gga' = createNmeaGGAMessageForNtrip(TimeOfWeek(utc))
      /\ first_valid_utc' = first_valid_utc /\ last_utc' = last_utc
      /\ unix' = unix /\ leap' = leap
  BY SMT DEF PositionTime
<1>2. time \in Int /\ instant.utc[1] \in Int
  BY CalendarConstants, SMT DEF CalendarInv
<1>3. time \div 86400 \in Int /\ time % 86400 \in Nat /\ time % 86400 < 86400
  <2> HIDE DEF time
  <2> QED
    BY <1>2, DivMod, 86400 \in Nat \ {0}, SMT
<1>4. utc \in Int \X Nat /\ utc[2] < 86400
  <2> HIDE DEF time
  <2> QED
    BY <1>2, <1>3, SMT
<1> HIDE DEF time, utc
<1>5. instant'.position = utc /\ instant'.utc = instant.utc
      /\ instant' \in [utc : Int \X Nat, position : Int \X Nat]
  BY <1>1, <1>4, SMT DEF CalendarInv
<1>6. gga' = createNmeaGGAMessageForNtrip(TimeOfWeek(instant.position))'
  BY <1>1, <1>5, SMT DEF createNmeaGGAMessageForNtrip, TimeOfWeek
<1>7. last_utc.year # 0 => last_utc'.gps_tow = TimeOfWeek(instant.utc)'
  BY <1>1, <1>5, SMT DEF CalendarInv, TimeOfWeek
<1> QED
  BY <1>1, <1>4, <1>5, <1>6, <1>7, SMT DEF CalendarInv

LEMMA CalendarAlways == CalendarSpec => []CalendarInv
<1>1. CalendarInv /\ [CalendarNext]_dateVars => CalendarInv'
  <2> SUFFICES ASSUME CalendarInv, [CalendarNext]_dateVars
               PROVE  CalendarInv'
    BY SMT
  <2>1. ASSUME NEW year \in Years, NEW month \in 1..12, NEW day \in DaysOfMonth,
               NEW time \in Times, NEW valid \in BOOLEAN,
               UtcDate(year, month, day, time, valid)
        PROVE  CalendarInv'
    BY <2>1, UtcLogStep, SMT
  <2>2. ASSUME NEW age \in Ages, PositionTime(age)
        PROVE  CalendarInv'
    BY <2>2, PositionStep, SMT
  <2>3. CASE UNCHANGED dateVars
    BY <2>3, SMT DEF dateVars, CalendarInv, createNmeaGGAMessageForNtrip, TimeOfWeek
  <2> QED
    BY <2>1, <2>2, <2>3, Zenon DEF CalendarNext
<1> QED
  BY CalendarBegins, <1>1, PTL DEF CalendarSpec

\* Of any UTC log from 1970 to 2106, a leap second's included, the code makes the
\* seconds since 1970 that the date is (convertUtcTimeToUnix, its sums over years and
\* months). While the last UTC log is not of a leap second itself, the GGA sentence it
\* makes of a position has the UTC time of the position: over any number of days, with
\* any leap seconds once a valid UTC log came, and with 18 before.
THEOREM UtcTimesRight == CalendarSpec => []UtcTimesAgree
<1>1. CalendarInv => UtcTimesAgree
  <2> SUFFICES ASSUME CalendarInv
               PROVE  UtcTimesAgree
    BY SMT
  <2>1. last_utc.year # 0 =>
          unix = <<instant.utc[1] + instant.utc[2] \div 86400, instant.utc[2] % 86400>>
    BY SMT DEF CalendarInv
  <2>2. ASSUME gga # <<>>, first_valid_utc \/ leap = 18, instant.utc[2] < 86400
        PROVE  gga = ClockTime(instant.position[2])
    <3>1. leap \in 0..59 /\ instant.utc \in Int \X Nat /\ instant.position \in Int \X Nat /\ instant.position[2] < 86400
      BY SMT DEF CalendarInv
    <3>3. getUtcOffset(first_valid_utc, last_utc.gps_tow, last_utc.sec) = leap
      <4>1. CASE first_valid_utc
        <5>1. /\ last_utc.gps_tow = TimeOfWeek(instant.utc)
              /\ last_utc.sec = instant.utc[2] % 60
          BY <2>2, <4>1, SMT DEF CalendarInv
        <5>2. OffsetRead(last_utc.gps_tow, last_utc.sec) = leap
          BY <3>1, <5>1, OffsetIsLeap, SMT
        <5> QED
          BY <4>1, <5>2, SMT DEF getUtcOffset, OffsetRead
      <4>2. CASE ~first_valid_utc
        BY <2>2, <4>2, SMT DEF getUtcOffset
      <4> QED
        BY <4>1, <4>2, SMT
    <3>4. createNmeaGGAMessageForNtrip(TimeOfWeek(instant.position)) = ClockTime(instant.position[2])
      BY <3>1, <3>3, SentenceHasTime, SMT
    <3> QED
      BY <2>2, <3>4, SMT DEF CalendarInv
  <2> QED
    BY <2>1, <2>2, SMT DEF UtcTimesAgree
<1> QED
  BY <1>1, CalendarAlways, PTL

-----------------------------------------------------------------------------
(***************************************************************************)
(* The directions.                                                         *)
(***************************************************************************)

Vector == Int \X Int \X Int
Matrix == Vector \X Vector \X Vector
Quaternion == Int \X Int \X Int \X Int

\* Vectors and matrices by their entries.
LEMMA VectorEntries ==
  ASSUME NEW v \in Vector
  PROVE  v = <<v[1], v[2], v[3]>> /\ v[1] \in Int /\ v[2] \in Int /\ v[3] \in Int
  BY DEF Vector

LEMMA MatrixEntries ==
  ASSUME NEW m \in Matrix
  PROVE  /\ m = <<m[1], m[2], m[3]>>
         /\ m[1] \in Vector /\ m[2] \in Vector /\ m[3] \in Vector
  BY DEF Matrix

LEMMA ApplyIsVector ==
  ASSUME NEW m \in Matrix, NEW v \in Vector
  PROVE  Apply(m, v) \in Vector
<1>1. \A i \in 1..3 : m[i] \in Vector
  BY MatrixEntries
<1>2. \A u \in Vector : Dot(u, v) \in Int
  BY DEF Vector, Dot
<1> QED
  BY <1>1, <1>2 DEF Apply, Vector

LEMMA TransposeIsMatrix ==
  ASSUME NEW m \in Matrix
  PROVE  transpose(m) \in Matrix
<1>1. \A i \in 1..3, j \in 1..3 : m[i][j] \in Int
  BY MatrixEntries, VectorEntries
<1> QED
  BY <1>1 DEF transpose, Matrix, Vector

LEMMA ProductIsMatrix ==
  ASSUME NEW m \in Matrix, NEW n \in Matrix
  PROVE  Product(m, n) \in Matrix
<1>1. transpose(n) \in Matrix
  BY TransposeIsMatrix
<1>2. Apply(transpose(n), m[1]) \in Vector /\ Apply(transpose(n), m[2]) \in Vector
        /\ Apply(transpose(n), m[3]) \in Vector
  BY <1>1, MatrixEntries, ApplyIsVector
<1> QED
  BY <1>2 DEF Product, Matrix

\* The entries of a product.
LEMMA ProductEntries ==
  ASSUME NEW m \in Matrix, NEW n \in Matrix, NEW i \in 1..3, NEW j \in 1..3
  PROVE  Product(m, n)[i][j] = m[i][1] * n[1][j] + m[i][2] * n[2][j] + m[i][3] * n[3][j]
<1>1. \A k \in 1..3, l \in 1..3 : m[k][l] \in Int /\ n[k][l] \in Int
  BY MatrixEntries, VectorEntries
<1> DEFINE t == transpose(n)
<1>2. \A k \in 1..3, l \in 1..3 : t[k][l] = n[l][k]
  BY DEF transpose
<1>3. Product(m, n)[i] = Apply(t, m[i])
  BY DEF Product
<1>4. Apply(t, m[i])[j] = Dot(t[j], m[i])
  BY DEF Apply
<1>5. Dot(t[j], m[i]) = n[1][j] * m[i][1] + n[2][j] * m[i][2] + n[3][j] * m[i][3]
  BY <1>2 DEF Dot
<1> QED
  BY <1>1, <1>3, <1>4, <1>5

\* Two matrices with the same entries are the same.
LEMMA MatricesEqual ==
  ASSUME NEW m \in Matrix, NEW n \in Matrix,
         \A i \in 1..3, j \in 1..3 : m[i][j] = n[i][j]
  PROVE  m = n
<1>1. \A i \in 1..3 : m[i] = n[i]
  BY MatrixEntries, VectorEntries
<1> QED
  BY <1>1, MatrixEntries

\* A quaternion stands for a rotation matrix: its matrix is that one times its
\* squared norm.
Norm(q) == q[1]*q[1] + q[2]*q[2] + q[3]*q[3] + q[4]*q[4]

Numerators(q) ==
  << <<2*q[1]*q[1] + 2*q[2]*q[2] - Norm(q), 2*q[2]*q[3] - 2*q[1]*q[4], 2*q[1]*q[3] + 2*q[2]*q[4]>>,
     <<2*q[2]*q[3] + 2*q[1]*q[4], 2*q[1]*q[1] + 2*q[3]*q[3] - Norm(q), 2*q[3]*q[4] - 2*q[1]*q[2]>>,
     <<2*q[2]*q[4] - 2*q[1]*q[3], 2*q[3]*q[4] + 2*q[1]*q[2], 2*q[1]*q[1] + 2*q[4]*q[4] - Norm(q)>> >>

StandsFor(q, m) ==
  /\ q \in Quaternion
  /\ Norm(q) > 0
  /\ \A i \in 1..3, j \in 1..3 : Numerators(q)[i][j] = Norm(q) * m[i][j]

LEMMA DcmOfQuat ==
  ASSUME NEW q, NEW m \in Matrix, StandsFor(q, m)
  PROVE  makeDcmOfQuat(q) = m
<1> DEFINE n == Norm(q)
<1>1. \A i \in 1..3, j \in 1..3 : m[i][j] \in Int
  BY MatrixEntries, VectorEntries
<1>2. /\ q[1] \in Int /\ q[2] \in Int /\ q[3] \in Int /\ q[4] \in Int
  BY DEF StandsFor, Quaternion
<1>3. n \in Nat \ {0}
  <2>1. n \in Int
    BY <1>2 DEF Norm
  <2> QED
    BY <2>1 DEF StandsFor
<1>4. \A i \in 1..3, j \in 1..3 : Numerators(q)[i][j] \div n = m[i][j]
  <2>1. SUFFICES ASSUME NEW i \in 1..3, NEW j \in 1..3
                 PROVE  Numerators(q)[i][j] \div n = m[i][j]
    OBVIOUS
  <2>2. Numerators(q)[i][j] = n * m[i][j]
    BY DEF StandsFor
  <2> HIDE DEF n
  <2> QED
    BY <2>2, <1>1, <1>3, RemainderIs
<1> DEFINE Over(v) == <<v[1] \div n, v[2] \div n, v[3] \div n>>
<1>5. \A i \in 1..3 : Over(Numerators(q)[i]) = m[i]
  <2> HIDE DEF n
  <2> QED
    BY <1>4, MatrixEntries, VectorEntries
<1>6. makeDcmOfQuat(q) = <<Over(Numerators(q)[1]), Over(Numerators(q)[2]), Over(Numerators(q)[3])>>
  BY Zenon DEF makeDcmOfQuat, Numerators, Norm
<1> QED
  BY <1>5, <1>6, MatrixEntries

LEMMA QuatTimesNorm ==
  ASSUME NEW p \in Quaternion, NEW q \in Quaternion
  PROVE  QuatTimes(p, q) \in Quaternion /\ Norm(QuatTimes(p, q)) = Norm(p) * Norm(q)
  BY DEF Quaternion, QuatTimes, Norm

\* Its numerators, without the norm.
Entries(w, x, y, z) ==
  << <<w*w + x*x - y*y - z*z, 2*x*y - 2*w*z, 2*w*y + 2*x*z>>,
     <<2*x*y + 2*w*z, w*w + y*y - x*x - z*z, 2*y*z - 2*w*x>>,
     <<2*x*z - 2*w*y, 2*y*z + 2*w*x, w*w + z*z - x*x - y*y>> >>

LEMMA NumeratorsAreEntries ==
  ASSUME NEW w \in Int, NEW x \in Int, NEW y \in Int, NEW z \in Int
  PROVE  Numerators(<<w, x, y, z>>) = Entries(w, x, y, z)
  BY DEF Numerators, Norm, Entries

\* The product of quaternions is the product of their matrices.
LEMMA QuatTimesNumerators ==
  ASSUME NEW p \in Quaternion, NEW q \in Quaternion, NEW i \in 1..3, NEW j \in 1..3
  PROVE  Numerators(QuatTimes(p, q))[i][j]
           =   Numerators(p)[i][1] * Numerators(q)[1][j]
             + Numerators(p)[i][2] * Numerators(q)[2][j]
             + Numerators(p)[i][3] * Numerators(q)[3][j]
<1>1. PICK a \in Int, b \in Int, c \in Int, d \in Int : p = <<a, b, c, d>>
  BY DEF Quaternion
<1>2. PICK e \in Int, f \in Int, g \in Int, h \in Int : q = <<e, f, g, h>>
  BY DEF Quaternion
<1> DEFINE w == a*e - b*f - c*g - d*h
           x == a*f + b*e + c*h - d*g
           y == a*g - b*h + c*e + d*f
           z == a*h + b*g - c*f + d*e
           P == Entries(a, b, c, d)
           Q == Entries(e, f, g, h)
           R == Entries(w, x, y, z)
<1>3. w \in Int /\ x \in Int /\ y \in Int /\ z \in Int
  OBVIOUS
<1>4. QuatTimes(p, q) = <<w, x, y, z>>
  BY <1>1, <1>2 DEF QuatTimes
<1>5. Numerators(p) = P /\ Numerators(q) = Q
  BY <1>1, <1>2, NumeratorsAreEntries
<1>6. Numerators(QuatTimes(p, q)) = R
  <2> HIDE DEF w, x, y, z
  <2> QED
    BY <1>3, <1>4, NumeratorsAreEntries
<1>7. R[1][1] = P[1][1] * Q[1][1] + P[1][2] * Q[2][1] + P[1][3] * Q[3][1]
  BY DEF Entries
<1>8. R[1][2] = P[1][1] * Q[1][2] + P[1][2] * Q[2][2] + P[1][3] * Q[3][2]
  BY DEF Entries
<1>9. R[1][3] = P[1][1] * Q[1][3] + P[1][2] * Q[2][3] + P[1][3] * Q[3][3]
  BY DEF Entries
<1>10. R[2][1] = P[2][1] * Q[1][1] + P[2][2] * Q[2][1] + P[2][3] * Q[3][1]
  BY DEF Entries
<1>11. R[2][2] = P[2][1] * Q[1][2] + P[2][2] * Q[2][2] + P[2][3] * Q[3][2]
  BY DEF Entries
<1>12. R[2][3] = P[2][1] * Q[1][3] + P[2][2] * Q[2][3] + P[2][3] * Q[3][3]
  BY DEF Entries
<1>13. R[3][1] = P[3][1] * Q[1][1] + P[3][2] * Q[2][1] + P[3][3] * Q[3][1]
  BY DEF Entries
<1>14. R[3][2] = P[3][1] * Q[1][2] + P[3][2] * Q[2][2] + P[3][3] * Q[3][2]
  BY DEF Entries
<1>15. R[3][3] = P[3][1] * Q[1][3] + P[3][2] * Q[2][3] + P[3][3] * Q[3][3]
  BY DEF Entries
<1> HIDE DEF P, Q, R
<1> QED
  BY <1>5, <1>6, <1>7, <1>8, <1>9, <1>10, <1>11, <1>12, <1>13, <1>14, <1>15

LEMMA ProductStandsFor ==
  ASSUME NEW p, NEW q, NEW m \in Matrix, NEW n \in Matrix, StandsFor(p, m), StandsFor(q, n)
  PROVE  StandsFor(QuatTimes(p, q), Product(m, n))
<1>1. p \in Quaternion /\ q \in Quaternion
  BY DEF StandsFor
<1>2. Norm(p) \in Int /\ Norm(q) \in Int
  BY <1>1 DEF Quaternion, Norm
<1>3. Norm(p) > 0 /\ Norm(q) > 0
  BY DEF StandsFor
<1>4. /\ QuatTimes(p, q) \in Quaternion
      /\ Norm(QuatTimes(p, q)) = Norm(p) * Norm(q)
  BY <1>1, QuatTimesNorm
<1>5. Norm(QuatTimes(p, q)) > 0
  BY <1>2, <1>3, <1>4
<1>6. ASSUME NEW i \in 1..3, NEW j \in 1..3
      PROVE  Numerators(QuatTimes(p, q))[i][j] = Norm(QuatTimes(p, q)) * Product(m, n)[i][j]
  <2>1. \A k \in 1..3, l \in 1..3 : m[k][l] \in Int /\ n[k][l] \in Int
    BY MatrixEntries, VectorEntries
  <2>2. \A k \in 1..3, l \in 1..3 :
          Numerators(p)[k][l] = Norm(p) * m[k][l] /\ Numerators(q)[k][l] = Norm(q) * n[k][l]
    BY DEF StandsFor
  <2> DEFINE a == Norm(p)  b == Norm(q)
  <2>3. Numerators(QuatTimes(p, q))[i][j]
          = (a * m[i][1]) * (b * n[1][j]) + (a * m[i][2]) * (b * n[2][j]) + (a * m[i][3]) * (b * n[3][j])
    BY <1>1, <2>2, QuatTimesNumerators
  <2>4. \A x1 \in Int, x2 \in Int, x3 \in Int, y1 \in Int, y2 \in Int, y3 \in Int :
          (a * x1) * (b * y1) + (a * x2) * (b * y2) + (a * x3) * (b * y3)
            = (a * b) * (x1 * y1 + x2 * y2 + x3 * y3)
    <3> HIDE DEF a, b
    <3> QED
      BY <1>2 DEF a, b
  <2>5. Numerators(QuatTimes(p, q))[i][j] = (a * b) * (m[i][1] * n[1][j] + m[i][2] * n[2][j] + m[i][3] * n[3][j])
    <3> DEFINE x1 == m[i][1]  x2 == m[i][2]  x3 == m[i][3]
               y1 == n[1][j]  y2 == n[2][j]  y3 == n[3][j]
    <3>1. x1 \in Int /\ x2 \in Int /\ x3 \in Int /\ y1 \in Int /\ y2 \in Int /\ y3 \in Int
      BY <2>1
    <3> HIDE DEF a, b, x1, x2, x3, y1, y2, y3
    <3>2. (a * x1) * (b * y1) + (a * x2) * (b * y2) + (a * x3) * (b * y3)
            = (a * b) * (x1 * y1 + x2 * y2 + x3 * y3)
      BY <3>1, <2>4
    <3> QED
      BY <3>2, <2>3 DEF x1, x2, x3, y1, y2, y3
  <2> QED
    BY <2>5, <1>4, ProductEntries
<1> QED
  BY <1>4, <1>5, <1>6 DEF StandsFor

-----------------------------------------------------------------------------

Quarters == {-180, -90, 0, 90, 180}

\* The tables of the quarter turns.
LEMMA QuarterTable ==
  ASSUME NEW a \in Quarters
  PROVE  \/ a = 0 /\ Cos(a) = 1 /\ Sin(a) = 0 /\ Half(a) = <<1, 0>>
         \/ a = 90 /\ Cos(a) = 0 /\ Sin(a) = 1 /\ Half(a) = <<1, 1>>
         \/ a = -90 /\ Cos(a) = 0 /\ Sin(a) = -1 /\ Half(a) = <<1, -1>>
         \/ a \in {-180, 180} /\ Cos(a) = -1 /\ Sin(a) = 0 /\ Half(a) = <<0, 1>>
<1>1. CASE a = 0
  BY <1>1 DEF Cos, Sin, Half
<1>2. CASE a = 90
  BY <1>2 DEF Cos, Sin, Half
<1>3. CASE a = -90
  <2> DEFINE q == a \div 180  r == a % 180  t == a \div 360  u == a % 360
  <2>1. a \in Int
    BY <1>3
  <2>2. /\ q \in Int /\ r \in 0..179 /\ a = 180 * q + r
        /\ t \in Int /\ u \in 0..359 /\ a = 360 * t + u
    BY <2>1
  <2>8. r = 90 /\ u = 270
    <3> HIDE DEF q, r, t, u
    <3> QED
      BY <1>3, <2>2
  <2>3. Cos(a) = 0 /\ Half(a) = <<1, -1>>
    BY <2>8 DEF Cos, Half
  <2>4. Cos(-180) = -1
    BY DEF Cos
  <2>5. Sin(a) = -1
    BY <1>3, <2>4 DEF Sin
  <2> QED
    BY <1>3, <2>3, <2>5
<1>4. CASE a \in {-180, 180}
  BY <1>4 DEF Cos, Sin, Half
<1> QED
  BY <1>1, <1>2, <1>3, <1>4 DEF Quarters

RollMatrix(a)  == << <<1, 0, 0>>, <<0, Cos(a), -Sin(a)>>, <<0, Sin(a), Cos(a)>> >>
PitchMatrix(a) == << <<Cos(a), 0, Sin(a)>>, <<0, 1, 0>>, <<-Sin(a), 0, Cos(a)>> >>
YawMatrix(a)   == << <<Cos(a), -Sin(a), 0>>, <<Sin(a), Cos(a), 0>>, <<0, 0, 1>> >>

\* The quaternion of a turn about one axis.
LEMMA AxisTurns ==
  ASSUME NEW a \in Quarters
  PROVE  /\ RollMatrix(a) \in Matrix /\ StandsFor(<<Half(a)[1], Half(a)[2], 0, 0>>, RollMatrix(a))
         /\ PitchMatrix(a) \in Matrix /\ StandsFor(<<Half(a)[1], 0, Half(a)[2], 0>>, PitchMatrix(a))
         /\ YawMatrix(a) \in Matrix /\ StandsFor(<<Half(a)[1], 0, 0, Half(a)[2]>>, YawMatrix(a))
<1>1. Cos(a) \in Int /\ Sin(a) \in Int
  BY QuarterTable
<1>2. RollMatrix(a) \in Matrix /\ PitchMatrix(a) \in Matrix /\ YawMatrix(a) \in Matrix
  BY <1>1 DEF RollMatrix, PitchMatrix, YawMatrix, Matrix, Vector
<1>3. StandsFor(<<Half(a)[1], Half(a)[2], 0, 0>>, RollMatrix(a))
  <2>1. PICK h \in Int, k \in Int, c \in Int, s \in Int :
          /\ Half(a) = <<h, k>> /\ Cos(a) = c /\ Sin(a) = s
          /\ h*h + k*k > 0
          /\ h*h - k*k = (h*h + k*k) * c /\ 2*h*k = (h*h + k*k) * s
    BY QuarterTable
  <2>2. Norm(<<h, k, 0, 0>>) = h*h + k*k /\ <<h, k, 0, 0>> \in Quaternion
    BY DEF Quaternion, Norm
  <2>3. Numerators(<<h, k, 0, 0>>) = << <<h*h + k*k, 0, 0>>, <<0, h*h - k*k, -(2*h*k)>>, <<0, 2*h*k, h*h - k*k>> >>
    BY <2>2 DEF Numerators
  <2> QED
    BY <2>1, <2>2, <2>3 DEF StandsFor, RollMatrix
<1>4. StandsFor(<<Half(a)[1], 0, Half(a)[2], 0>>, PitchMatrix(a))
  BY QuarterTable DEF StandsFor, Quaternion, Norm, Numerators, PitchMatrix
<1>5. StandsFor(<<Half(a)[1], 0, 0, Half(a)[2]>>, YawMatrix(a))
  BY QuarterTable DEF StandsFor, Quaternion, Norm, Numerators, YawMatrix
<1> QED
  BY <1>2, <1>3, <1>4, <1>5

Attitude == Quarters \X Quarters \X Quarters

\* The quaternion of an attitude stands for its rotation ...
LEMMA QuatOfAttitude ==
  ASSUME NEW e \in Attitude
  PROVE  Rotation(e) \in Matrix /\ StandsFor(setRPY(e), Rotation(e))
<1>1. e[1] \in Quarters /\ e[2] \in Quarters /\ e[3] \in Quarters
  BY DEF Attitude
<1> DEFINE S == Product(PitchMatrix(e[2]), RollMatrix(e[1]))
           s == QuatTimes(<<Half(e[2])[1], 0, Half(e[2])[2], 0>>, <<Half(e[1])[1], Half(e[1])[2], 0, 0>>)
<1>2. S \in Matrix
  BY <1>1, AxisTurns, ProductIsMatrix
<1>3. StandsFor(s, S)
  BY <1>1, AxisTurns, ProductStandsFor
<1>4. Product(YawMatrix(e[3]), S) \in Matrix
  <2> HIDE DEF S
  <2> QED
    BY <1>1, <1>2, AxisTurns, ProductIsMatrix
<1>5. StandsFor(QuatTimes(<<Half(e[3])[1], 0, 0, Half(e[3])[2]>>, s), Product(YawMatrix(e[3]), S))
  <2> HIDE DEF S, s
  <2> QED
    BY <1>1, <1>2, <1>3, AxisTurns, ProductStandsFor
<1>6. Rotation(e) = Product(YawMatrix(e[3]), S)
  BY Zenon DEF Rotation, YawMatrix, PitchMatrix, RollMatrix
<1>7. setRPY(e) = QuatTimes(<<Half(e[3])[1], 0, 0, Half(e[3])[2]>>, s)
  BY Zenon DEF setRPY
<1> HIDE DEF S, s
<1> QED
  BY <1>4, <1>5, <1>6, <1>7

\* ... which is the matrix the code makes of its angles.
LEMMA DcmOfAttitude ==
  ASSUME NEW e \in Attitude
  PROVE  makeDcm(e) = Rotation(e)
<1>1. e[1] \in Quarters /\ e[2] \in Quarters /\ e[3] \in Quarters
  BY DEF Attitude
<1>2. \A a \in Quarters : Cos(a) \in Int /\ Sin(a) \in Int
  BY QuarterTable
<1> DEFINE Y == YawMatrix(e[3])  P == PitchMatrix(e[2])  R == RollMatrix(e[1])
           S == Product(P, R)  T == Product(Y, S)
<1>3. Y \in Matrix /\ P \in Matrix /\ R \in Matrix
  BY <1>1, AxisTurns
<1>4. S \in Matrix
  BY <1>3, ProductIsMatrix
<1>5. \A i \in 1..3, j \in 1..3 : S[i][j] = P[i][1] * R[1][j] + P[i][2] * R[2][j] + P[i][3] * R[3][j]
  <2> HIDE DEF P, R
  <2> QED
    BY <1>3, ProductEntries
<1>6. \A i \in 1..3, j \in 1..3 : T[i][j] = Y[i][1] * S[1][j] + Y[i][2] * S[2][j] + Y[i][3] * S[3][j]
  <2> HIDE DEF S, Y
  <2> QED
    BY <1>3, <1>4, ProductEntries
<1>7. T = Rotation(e)
  BY Zenon DEF Rotation, YawMatrix, PitchMatrix, RollMatrix
<1> DEFINE cr == Cos(e[1])  cp == Cos(e[2])  cy == Cos(e[3])
           sr == Sin(e[1])  sp == Sin(e[2])  sy == Sin(e[3])
           D == << <<cp*cy, sr*sp*cy - cr*sy, cr*sp*cy + sy*sr>>,
                   <<cp*sy, sr*sp*sy + cr*cy, cr*sp*sy - sr*cy>>,
                   <<-sp,   sr*cp,            cr*cp>> >>
<1>8. makeDcm(e) = D
  BY Zenon DEF makeDcm
<1>9. /\ cr \in Int /\ cp \in Int /\ cy \in Int
      /\ sr \in Int /\ sp \in Int /\ sy \in Int
  BY <1>1, <1>2
<1>10. /\ Y = << <<cy, -sy, 0>>, <<sy, cy, 0>>, <<0, 0, 1>> >>
       /\ P = << <<cp, 0, sp>>, <<0, 1, 0>>, <<-sp, 0, cp>> >>
       /\ R = << <<1, 0, 0>>, <<0, cr, -sr>>, <<0, sr, cr>> >>
  BY DEF YawMatrix, PitchMatrix, RollMatrix
<1> HIDE DEF cr, cp, cy, sr, sp, sy, Y, P, R, S, T
<1>11. /\ S[1][1] = cp /\ S[1][2] = sp * sr /\ S[1][3] = sp * cr
       /\ S[2][1] = 0 /\ S[2][2] = cr /\ S[2][3] = -sr
       /\ S[3][1] = -sp /\ S[3][2] = cp * sr /\ S[3][3] = cp * cr
  <2>1. \A j \in 1..3 : S[1][j] = cp * R[1][j] + 0 * R[2][j] + sp * R[3][j]
    BY <1>5, <1>10
  <2>2. \A j \in 1..3 : S[2][j] = 0 * R[1][j] + 1 * R[2][j] + 0 * R[3][j]
    BY <1>5, <1>10
  <2>3. \A j \in 1..3 : S[3][j] = (-sp) * R[1][j] + 0 * R[2][j] + cp * R[3][j]
    BY <1>5, <1>10
  <2>4. S[1][1] = cp /\ S[1][2] = sp * sr /\ S[1][3] = sp * cr
    BY <2>1, <1>9, <1>10
  <2>5. S[2][1] = 0 /\ S[2][2] = cr /\ S[2][3] = -sr
    BY <2>2, <1>9, <1>10
  <2>6. S[3][1] = -sp /\ S[3][2] = cp * sr /\ S[3][3] = cp * cr
    BY <2>3, <1>9, <1>10
  <2> QED
    BY <2>4, <2>5, <2>6
<1>12. \A i \in 1..3, j \in 1..3 : T[i][j] = D[i][j]
  <2>1. T[1][1] = D[1][1]
    <3>1. T[1][1] = Y[1][1] * S[1][1] + Y[1][2] * S[2][1] + Y[1][3] * S[3][1]
      BY <1>6
    <3>2. T[1][1] = cy * cp + (-sy) * 0 + 0 * (-sp)
      BY <3>1, <1>10, <1>11
    <3> QED
      BY <3>2, <1>9
  <2>2. T[1][2] = D[1][2]
    BY <1>6, <1>9, <1>10, <1>11
  <2>3. T[1][3] = D[1][3]
    BY <1>6, <1>9, <1>10, <1>11
  <2>4. T[2][1] = D[2][1]
    BY <1>6, <1>9, <1>10, <1>11
  <2>5. T[2][2] = D[2][2]
    BY <1>6, <1>9, <1>10, <1>11
  <2>6. T[2][3] = D[2][3]
    BY <1>6, <1>9, <1>10, <1>11
  <2>7. T[3][1] = D[3][1]
    BY <1>6, <1>9, <1>10, <1>11
  <2>8. T[3][2] = D[3][2]
    BY <1>6, <1>9, <1>10, <1>11
  <2>9. T[3][3] = D[3][3]
    BY <1>6, <1>9, <1>10, <1>11
  <2> QED
    BY <2>1, <2>2, <2>3, <2>4, <2>5, <2>6, <2>7, <2>8, <2>9
<1>13. T \in Matrix /\ D \in Matrix
  <2>1. T \in Matrix
    BY <1>3, <1>4, ProductIsMatrix DEF T
  <2> QED
    BY <2>1, <1>9 DEF Matrix, Vector
<1>14. T = D
  <2> HIDE DEF D
  <2> QED
    BY <1>12, <1>13, MatricesEqual
<1> QED
  BY <1>7, <1>8, <1>14

-----------------------------------------------------------------------------

MotionInv ==
  /\ use_enu_ \in BOOLEAN
  /\ motion \in [euler : Quarters \X {-90, 0, 90} \X Quarters, velocity : Vector, rate : Vector]

LEMMA MotionAlways == MotionSpec => []MotionInv
<1>1. MotionInit => MotionInv
  BY DEF MotionInit, MotionInv, Quarters, Vector
<1>2. MotionInv /\ [Turn \/ Accelerate]_motionVars => MotionInv'
  <2>1. SUFFICES ASSUME MotionInv, [Turn \/ Accelerate]_motionVars
                 PROVE  MotionInv'
    OBVIOUS
  <2>2. CASE Turn
    <3>1. Rolls \subseteq Quarters /\ Yaws \subseteq Quarters /\ Pitches \subseteq {-90, 0, 90}
      BY MotionAssumption DEF Quarters
    <3>2. ASSUME NEW a \in Rolls, motion' = [motion EXCEPT !.euler[1] = a]
          PROVE  MotionInv'
      BY <2>1, <2>2, <3>1, <3>2 DEF MotionInv, Turn
    <3>3. ASSUME NEW a \in Pitches, motion' = [motion EXCEPT !.euler[2] = a]
          PROVE  MotionInv'
      BY <2>1, <2>2, <3>1, <3>3 DEF MotionInv, Turn
    <3>4. ASSUME NEW a \in Yaws, motion' = [motion EXCEPT !.euler[3] = a]
          PROVE  MotionInv'
      BY <2>1, <2>2, <3>1, <3>4 DEF MotionInv, Turn
    <3> QED
      BY <2>2, <3>2, <3>3, <3>4 DEF Turn
  <2>3. CASE Accelerate
    <3>1. PICK v \in Vectors : motion' = [motion EXCEPT !.velocity = v, !.rate = <<v[2], v[3], v[1]>>]
      BY <2>3 DEF Accelerate
    <3>2. v \in Vector /\ <<v[2], v[3], v[1]>> \in Vector
      BY <3>1, MotionAssumption DEF Vectors, Vector
    <3> QED
      BY <2>1, <2>3, <3>1, <3>2 DEF MotionInv, Accelerate
  <2>4. CASE UNCHANGED motionVars
    BY <2>1, <2>4 DEF MotionInv, motionVars
  <2> QED
    BY <2>1, <2>2, <2>3, <2>4
<1> QED
  BY <1>1, <1>2, PTL DEF MotionSpec

\* The axes of the frames, as matrices.
LEMMA AxesAreMatrices ==
  ASSUME MotionInv
  PROVE  NavAxes \in Matrix /\ BodyAxes \in Matrix /\ transpose(BodyAxes) \in Matrix
  BY DEF NavAxes, BodyAxes, transpose, Matrix, Vector

\* What the two frames do to a rotation.
InFrames(m) == Product(NavAxes, Product(m, transpose(BodyAxes)))

LEMMA InFramesEntries ==
  ASSUME MotionInv, NEW m \in Matrix
  PROVE  /\ InFrames(m) \in Matrix
         /\ ~use_enu_ => InFrames(m) = m
         /\ use_enu_ => InFrames(m) = << <<m[2][1], -m[2][2], -m[2][3]>>,
                                         <<m[1][1], -m[1][2], -m[1][3]>>,
                                         <<-m[3][1], m[3][2], m[3][3]>> >>
<1> DEFINE B == transpose(BodyAxes)  P == Product(m, B)  I == Product(NavAxes, P)
<1>1. \A i \in 1..3, j \in 1..3 : m[i][j] \in Int
  BY MatrixEntries, VectorEntries
<1>2. P \in Matrix
  BY AxesAreMatrices, ProductIsMatrix
<1>3. I \in Matrix
  <2> HIDE DEF P
  <2> QED
    BY <1>2, AxesAreMatrices, ProductIsMatrix
<1>4. \A i \in 1..3, j \in 1..3 : P[i][j] = m[i][1] * B[1][j] + m[i][2] * B[2][j] + m[i][3] * B[3][j]
  <2> HIDE DEF B
  <2> QED
    BY AxesAreMatrices, ProductEntries DEF B
<1>5. \A i \in 1..3, j \in 1..3 :
        I[i][j] = NavAxes[i][1] * P[1][j] + NavAxes[i][2] * P[2][j] + NavAxes[i][3] * P[3][j]
  <2> HIDE DEF P
  <2> QED
    BY <1>2, AxesAreMatrices, ProductEntries
<1>6. CASE ~use_enu_
  <2>1. /\ B = << <<1, 0, 0>>, <<0, 1, 0>>, <<0, 0, 1>> >>
        /\ NavAxes = << <<1, 0, 0>>, <<0, 1, 0>>, <<0, 0, 1>> >>
    BY <1>6 DEF BodyAxes, NavAxes, transpose
  <2>2. \A i \in 1..3, j \in 1..3 : P[i][j] = m[i][j]
    <3> HIDE DEF P, B
    <3> QED
      BY <1>1, <1>4, <2>1
  <2>3. \A i \in 1..3, j \in 1..3 : I[i][j] = m[i][j]
    <3> HIDE DEF P, B, I
    <3> QED
      BY <1>1, <1>5, <2>1, <2>2
  <2>4. I = m
    <3> HIDE DEF I
    <3> QED
      BY <1>3, <2>3, MatricesEqual
  <2> QED
    BY <1>3, <1>6, <2>4 DEF InFrames
<1>7. CASE use_enu_
  <2> DEFINE E == << <<m[2][1], -m[2][2], -m[2][3]>>,
                     <<m[1][1], -m[1][2], -m[1][3]>>,
                     <<-m[3][1], m[3][2], m[3][3]>> >>
  <2>1. /\ B = << <<1, 0, 0>>, <<0, -1, 0>>, <<0, 0, -1>> >>
        /\ NavAxes = << <<0, 1, 0>>, <<1, 0, 0>>, <<0, 0, -1>> >>
    BY <1>7 DEF BodyAxes, NavAxes, transpose
  <2>2. \A i \in 1..3 : P[i][1] = m[i][1] /\ P[i][2] = -m[i][2] /\ P[i][3] = -m[i][3]
    <3> HIDE DEF P, B
    <3> QED
      BY <1>1, <1>4, <2>1
  <2>3. \A j \in 1..3 : I[1][j] = P[2][j] /\ I[2][j] = P[1][j] /\ I[3][j] = -P[3][j]
    <3>1. \A i \in 1..3, j \in 1..3 : P[i][j] \in Int
      <4> HIDE DEF P
      <4> QED
        BY <1>2, MatrixEntries, VectorEntries
    <3> HIDE DEF P, B, I
    <3> QED
      BY <1>5, <2>1, <3>1
  <2>4. E \in Matrix
    BY <1>1 DEF Matrix, Vector
  <2>5. \A i \in 1..3, j \in 1..3 : I[i][j] = E[i][j]
    <3> HIDE DEF P, B, I
    <3> QED
      BY <1>1, <2>2, <2>3
  <2>6. I = E
    <3> HIDE DEF I, E
    <3> QED
      BY <1>3, <2>4, <2>5, MatricesEqual
  <2> QED
    BY <1>3, <1>7, <2>6 DEF InFrames
<1> QED
  BY <1>6, <1>7

LEMMA AttitudeOfMotion ==
  ASSUME MotionInv
  PROVE  motion.euler \in Attitude /\ Rotation(motion.euler) \in Matrix
<1>1. motion.euler \in Attitude
  BY DEF MotionInv, Attitude, Quarters
<1> QED
  BY <1>1, QuatOfAttitude

\* The angles of the message are an attitude, in the messages' frames.
LEMMA EulerMessage ==
  ASSUME MotionInv
  PROVE  /\ EulerMsg \in Quarters \X {-90, 0, 90} \X Quarters
         /\ makeDcm(EulerMsg) = TrueRotation
<1> DEFINE e == motion.euler
<1>1. e \in Attitude /\ e \in Quarters \X {-90, 0, 90} \X Quarters /\ Rotation(e) \in Matrix
  BY AttitudeOfMotion DEF MotionInv
<1>2. TrueRotation = InFrames(Rotation(e))
  BY Zenon DEF TrueRotation, InFrames
<1>3. makeDcm(e) = Rotation(e)
  BY <1>1, DcmOfAttitude
<1>4. CASE ~use_enu_
  <2>1. EulerMsg = e
    BY <1>4 DEF EulerMsg, createSbgEkfEulerMessage, EulerLog
  <2> QED
    BY <1>1, <1>2, <1>3, <1>4, <2>1, InFramesEntries
<1>5. CASE use_enu_
  <2> DEFINE y == -wrapAnglePi(-90 + e[3])
  <2>1. EulerMsg = <<e[1], -e[2], y>>
    BY <1>5 DEF EulerMsg, createSbgEkfEulerMessage, EulerLog
  <2>2. e[1] \in Quarters /\ e[2] \in {-90, 0, 90} /\ e[3] \in Quarters
    BY <1>1
  <2>3. y \in Quarters /\ Cos(y) = Sin(e[3]) /\ Sin(y) = Cos(e[3])
    <3>1. \/ e[3] = 0 /\ y = 90
          \/ e[3] = 90 /\ y = 0
          \/ e[3] = -90 /\ y = 180
          \/ e[3] \in {-180, 180} /\ y = -90
      BY <2>2 DEF Quarters, wrapAnglePi, fmod
    <3>2. y \in Quarters
      BY <3>1 DEF Quarters
    <3> HIDE DEF y
    <3> QED
      BY <2>2, <3>1, <3>2, QuarterTable
  <2>4. -e[2] \in {-90, 0, 90} /\ Cos(-e[2]) = Cos(e[2]) /\ Sin(-e[2]) = -Sin(e[2])
    <3>1. -e[2] \in {-90, 0, 90} /\ {-90, 0, 90} \subseteq Quarters
      BY <2>2 DEF Quarters
    <3> QED
      BY <2>2, <3>1, QuarterTable
  <2> DEFINE cr == Cos(e[1])  cp == Cos(e[2])  cy == Cos(e[3])
             sr == Sin(e[1])  sp == Sin(e[2])  sy == Sin(e[3])
  <2>5. /\ cr \in Int /\ cp \in Int /\ cy \in Int
        /\ sr \in Int /\ sp \in Int /\ sy \in Int
    BY <1>1, QuarterTable DEF Attitude
  <2> DEFINE R == << <<cp*cy, sr*sp*cy - cr*sy, cr*sp*cy + sy*sr>>,
                     <<cp*sy, sr*sp*sy + cr*cy, cr*sp*sy - sr*cy>>,
                     <<-sp,   sr*cp,            cr*cp>> >>
             E == << <<cp*sy, sr*(-sp)*sy - cr*cy, cr*(-sp)*sy + cy*sr>>,
                     <<cp*cy, sr*(-sp)*cy + cr*sy, cr*(-sp)*cy - sr*sy>>,
                     <<-(-sp), sr*cp,              cr*cp>> >>
  <2>6. makeDcm(e) = R
    BY Zenon DEF makeDcm
  <2>7. makeDcm(EulerMsg) = E
    <3>1. EulerMsg[1] = e[1] /\ EulerMsg[2] = -e[2] /\ EulerMsg[3] = y
      BY <2>1
    <3> HIDE DEF y, e
    <3> QED
      BY <2>3, <2>4, <3>1 DEF makeDcm
  <2>8. E = << <<R[2][1], -R[2][2], -R[2][3]>>,
               <<R[1][1], -R[1][2], -R[1][3]>>,
               <<-R[3][1], R[3][2], R[3][3]>> >>
    <3> HIDE DEF cr, cp, cy, sr, sp, sy
    <3>1. /\ E[1][1] = R[2][1] /\ E[1][2] = -R[2][2] /\ E[1][3] = -R[2][3]
      BY <2>5
    <3>2. /\ E[2][1] = R[1][1] /\ E[2][2] = -R[1][2] /\ E[2][3] = -R[1][3]
      BY <2>5
    <3>3. /\ E[3][1] = -R[3][1] /\ E[3][2] = R[3][2] /\ E[3][3] = R[3][3]
      BY <2>5
    <3> QED
      BY <3>1, <3>2, <3>3
  <2> HIDE DEF R, E
  <2>9. E = InFrames(R)
    BY <1>1, <1>3, <1>5, <2>6, <2>8, InFramesEntries
  <2>10. EulerMsg \in Quarters \X {-90, 0, 90} \X Quarters
    <3> HIDE DEF y
    <3> QED
      BY <2>1, <2>2, <2>3, <2>4
  <2> QED
    BY <1>2, <1>3, <2>6, <2>7, <2>9, <2>10
<1> QED
  BY <1>4, <1>5 DEF MotionInv

\* The quaternion message stands for the same rotation.
LEMMA QuatMessage ==
  ASSUME MotionInv
  PROVE  TrueRotation \in Matrix /\ StandsFor(QuatMsg, TrueRotation)
<1> DEFINE q == setRPY(motion.euler)  R == Rotation(motion.euler)
<1>1. R \in Matrix /\ StandsFor(q, R)
  BY AttitudeOfMotion, QuatOfAttitude
<1>2. TrueRotation = InFrames(R)
  BY Zenon DEF TrueRotation, InFrames
<1>3. CASE ~use_enu_
  <2>1. QuatMsg = q
    BY <1>3 DEF QuatMsg, QuatLog, createSbgEkfQuatMessage
  <2> HIDE DEF q, R
  <2> QED
    BY <1>1, <1>2, <1>3, <2>1, InFramesEntries
<1>4. CASE use_enu_
  <2> DEFINE f == <<q[1], q[2], -q[3], -q[4]>>
             F == << <<R[1][1], -R[1][2], -R[1][3]>>,
                     <<-R[2][1], R[2][2], R[2][3]>>,
                     <<-R[3][1], R[3][2], R[3][3]>> >>
             Z == << <<0, -1, 0>>, <<1, 0, 0>>, <<0, 0, 1>> >>
  <2>1. QuatMsg = QuatTimes(<<1, 0, 0, 1>>, f)
    BY <1>4 DEF QuatMsg, QuatLog, createSbgEkfQuatMessage
  <2> HIDE DEF q, R
  <2>2. \A i \in 1..3, j \in 1..3 : R[i][j] \in Int
    BY <1>1, MatrixEntries, VectorEntries
  <2>3. F \in Matrix /\ Z \in Matrix
    BY <2>2 DEF Matrix, Vector
  <2>4. StandsFor(<<1, 0, 0, 1>>, Z)
    BY DEF StandsFor, Quaternion, Norm, Numerators
  <2>5. StandsFor(f, F)
    <3>1. PICK w \in Int, x \in Int, y \in Int, z \in Int : q = <<w, x, y, z>>
      BY <1>1 DEF StandsFor, Quaternion
    <3>2. f = <<w, x, -y, -z>> /\ f \in Quaternion
      BY <3>1 DEF Quaternion
    <3>3. Norm(f) = Norm(q) /\ Norm(q) \in Int
      BY <3>1, <3>2 DEF Norm
    <3> DEFINE A == Entries(w, x, y, z)  n == Norm(q)
    <3>4. Numerators(q) = A
      BY <3>1, NumeratorsAreEntries
    <3>5. Numerators(f) = Entries(w, x, -y, -z)
      BY <3>2, NumeratorsAreEntries, -y \in Int, -z \in Int
    <3>6. Entries(w, x, -y, -z) = << <<A[1][1], -A[1][2], -A[1][3]>>,
                                     <<-A[2][1], A[2][2], A[2][3]>>,
                                     <<-A[3][1], A[3][2], A[3][3]>> >>
      BY DEF Entries
    <3>7. \A i \in 1..3, j \in 1..3 : A[i][j] = n * R[i][j]
      BY <1>1, <3>4 DEF StandsFor
    <3>8. n \in Int /\ n > 0
      BY <1>1, <3>3 DEF StandsFor
    <3> HIDE DEF A, n
    <3>9. \A k \in Int : n * (-k) = -(n * k)
      BY <3>8
    <3>10. \A i \in 1..3, j \in 1..3 : Numerators(f)[i][j] = n * F[i][j]
      BY <2>2, <3>5, <3>6, <3>7, <3>9
    <3> QED
      BY <3>2, <3>3, <3>8, <3>10 DEF StandsFor, n
  <2> HIDE DEF f, F, Z
  <2>6. Product(Z, F) \in Matrix /\ StandsFor(QuatMsg, Product(Z, F))
    BY <2>1, <2>3, <2>4, <2>5, ProductIsMatrix, ProductStandsFor
  <2> DEFINE P == Product(Z, F)
             E == << <<R[2][1], -R[2][2], -R[2][3]>>,
                     <<R[1][1], -R[1][2], -R[1][3]>>,
                     <<-R[3][1], R[3][2], R[3][3]>> >>
  <2>7. \A i \in 1..3, j \in 1..3 : P[i][j] = Z[i][1] * F[1][j] + Z[i][2] * F[2][j] + Z[i][3] * F[3][j]
    BY <2>3, ProductEntries
  <2>8. \A i \in 1..3, j \in 1..3 : F[i][j] \in Int
    BY <2>3, MatrixEntries, VectorEntries
  <2>9. \A j \in 1..3 : P[1][j] = -F[2][j] /\ P[2][j] = F[1][j] /\ P[3][j] = F[3][j]
    <3> HIDE DEF P
    <3> QED
      BY <2>7, <2>8 DEF Z
  <2>10. \A i \in 1..3, j \in 1..3 : P[i][j] = E[i][j]
    <3> HIDE DEF P
    <3> QED
      BY <2>2, <2>9 DEF F
  <2>11. P \in Matrix /\ E \in Matrix
    <3>1. E \in Matrix
      BY <2>2 DEF Matrix, Vector
    <3> QED
      BY <2>6, <3>1
  <2>12. P = E
    <3> HIDE DEF P, E
    <3> QED
      BY <2>10, <2>11, MatricesEqual
  <2> QED
    BY <1>1, <1>2, <1>4, <2>6, <2>12, InFramesEntries
<1> QED
  BY <1>3, <1>4

\* The same vector seen in both frames.
LEMMA BodyVelocity ==
  ASSUME MotionInv, NEW m \in Matrix, NEW v \in Vector
  PROVE  Apply(transpose(InFrames(m)), createSbgEkfNavMessage(v)) = Apply(BodyAxes, Apply(transpose(m), v))
<1> DEFINE I == InFrames(m)  n == createSbgEkfNavMessage(v)  b == Apply(transpose(m), v)
<1>1. \A i \in 1..3, j \in 1..3 : m[i][j] \in Int
  BY MatrixEntries, VectorEntries
<1>2. v[1] \in Int /\ v[2] \in Int /\ v[3] \in Int
  BY VectorEntries
<1>3. b \in Vector
  BY TransposeIsMatrix, ApplyIsVector
<1>4. \A i \in 1..3 : b[i] = m[1][i] * v[1] + m[2][i] * v[2] + m[3][i] * v[3]
  BY DEF Apply, transpose, Dot
<1>5. \A i \in 1..3 : Apply(transpose(I), n)[i] = I[1][i] * n[1] + I[2][i] * n[2] + I[3][i] * n[3]
  <2> HIDE DEF I, n
  <2> QED
    BY DEF Apply, transpose, Dot
<1>6. n \in Vector /\ I \in Matrix
  BY <1>2, InFramesEntries DEF createSbgEkfNavMessage, toEnu, Vector
<1>7. Apply(transpose(I), n) \in Vector /\ Apply(BodyAxes, b) \in Vector
  <2> HIDE DEF I, n, b
  <2> QED
    BY <1>3, <1>6, TransposeIsMatrix, ApplyIsVector, AxesAreMatrices
<1>8. \A i \in 1..3 : b[i] \in Int
  <2> HIDE DEF b
  <2> QED
    BY <1>3, VectorEntries
<1>9. CASE ~use_enu_
  <2>1. I = m /\ n = v
    BY <1>9, InFramesEntries DEF createSbgEkfNavMessage
  <2>2. BodyAxes = << <<1, 0, 0>>, <<0, 1, 0>>, <<0, 0, 1>> >>
    BY <1>9 DEF BodyAxes
  <2>3. Apply(BodyAxes, b) = b
    <3> HIDE DEF b
    <3> QED
      BY <1>3, <1>8, <2>2, VectorEntries DEF Apply, Dot
  <2> QED
    BY <2>1, <2>3
<1>10. CASE use_enu_
  <2>1. n[1] = v[2] /\ n[2] = v[1] /\ n[3] = -v[3]
    BY <1>10 DEF createSbgEkfNavMessage, toEnu
  <2>2. I = << <<m[2][1], -m[2][2], -m[2][3]>>,
               <<m[1][1], -m[1][2], -m[1][3]>>,
               <<-m[3][1], m[3][2], m[3][3]>> >>
    BY <1>10, InFramesEntries
  <2>3. BodyAxes = << <<1, 0, 0>>, <<0, -1, 0>>, <<0, 0, -1>> >>
    BY <1>10 DEF BodyAxes
  <2>4. Apply(BodyAxes, b)[1] = b[1] /\ Apply(BodyAxes, b)[2] = -b[2] /\ Apply(BodyAxes, b)[3] = -b[3]
    <3> HIDE DEF b
    <3> QED
      BY <1>8, <2>3 DEF Apply, Dot
  <2>5. Apply(transpose(I), n)[1] = b[1]
    <3> HIDE DEF I, n, b
    <3> QED
      BY <1>1, <1>2, <1>4, <1>5, <2>1, <2>2
  <2>6. Apply(transpose(I), n)[2] = -b[2]
    <3> HIDE DEF I, n, b
    <3>1. Apply(transpose(I), n)[2] = (-m[2][2]) * v[2] + (-m[1][2]) * v[1] + m[3][2] * (-v[3])
      BY <1>5, <2>1, <2>2
    <3> QED
      BY <1>1, <1>2, <1>4, <3>1
  <2>7. Apply(transpose(I), n)[3] = -b[3]
    <3> HIDE DEF I, n, b
    <3>1. Apply(transpose(I), n)[3] = (-m[2][3]) * v[2] + (-m[1][3]) * v[1] + m[3][3] * (-v[3])
      BY <1>5, <2>1, <2>2
    <3>2. b[3] = m[1][3] * v[1] + m[2][3] * v[2] + m[3][3] * v[3]
      BY <1>4
    <3> DEFINE x == m[2][3]  y == m[1][3]  z == m[3][3]
               u == v[2]  w == v[1]  t == v[3]
    <3>3. x \in Int /\ y \in Int /\ z \in Int /\ u \in Int /\ w \in Int /\ t \in Int
      BY <1>1, <1>2
    <3> HIDE DEF x, y, z, u, w, t
    <3>4. (-x) * u + (-y) * w + z * (-t) = -(y * w + x * u + z * t)
      BY <3>3
    <3> QED
      BY <3>1, <3>2, <3>4 DEF x, y, z, u, w, t
  <2> HIDE DEF I, n, b
  <2> QED
    BY <1>7, <2>4, <2>5, <2>6, <2>7, VectorEntries DEF I, n, b
<1> QED
  BY <1>9, <1>10

\* Whatever quarter turns the device has made, and at any integer velocity and rate,
\* the matrix the code makes of the EKF attitude, from the angles of one message or
\* the quaternion of the other, is the rotation of the ROS frames; and the twist it
\* makes with it (createRosTwistStampedMessage) is the velocity and the rate in the
\* axes of the body, with either parameter use_enu.
THEOREM TwistIsRight == MotionSpec => []TwistIsBodyVelocity
<1>1. MotionInv => TwistIsBodyVelocity
  <2> SUFFICES ASSUME MotionInv
               PROVE  TwistIsBodyVelocity
    OBVIOUS
  <2>2. motion.velocity \in Vector /\ motion.rate \in Vector
    BY DEF MotionInv
  <2>3. Rotation(motion.euler) \in Matrix
    BY AttitudeOfMotion
  <2>4. TrueRotation = InFrames(Rotation(motion.euler))
    BY Zenon DEF TrueRotation, InFrames
  <2>5. ASSUME NEW dcm \in {makeDcm(EulerMsg), makeDcmOfQuat(QuatMsg)}
        PROVE  dcm = TrueRotation
    BY EulerMessage, QuatMessage, DcmOfQuat
  <2>6. Apply(transpose(TrueRotation), NavMsg) = Apply(BodyAxes, BodyLog)
    BY <2>2, <2>3, <2>4, BodyVelocity DEF NavMsg, NavLog, BodyLog
  <2>7. ImuMsg = Apply(BodyAxes, GyroLog)
    BY <2>2, VectorEntries
       DEF MotionInv, ImuMsg, GyroLog, createSbgImuDataMessage, toFlu, BodyAxes, Apply, Dot
  <2> QED
    BY <2>5, <2>6, <2>7 DEF TwistIsBodyVelocity, createRosTwistStampedMessage
<1> QED
  BY <1>1, MotionAlways, PTL

\* A course is the direction of its velocity.
LEMMA CourseIsDirection ==
  ASSUME NEW v \in Vector, Moves(v)
  PROVE  CourseOf(v) \in Courses /\ Direction(CourseOf(v)) = <<Sign(v[1]), Sign(v[2])>>
<1>1. v[1] \in Int /\ v[2] \in Int
  BY VectorEntries
<1>2. <<Sign(v[1]), Sign(v[2])>> \in { <<1, 0>>, <<1, 1>>, <<0, 1>>, <<-1, 1>>, <<-1, 0>>, <<-1, -1>>, <<0, -1>>, <<1, -1>> }
  BY <1>1 DEF Moves, Sign
<1>3. {0, 45, 90, 135, 180, 225, 270, 315} \subseteq Courses
  BY DEF Courses
<1>4. /\ Direction(0) = <<1, 0>> /\ Direction(45) = <<1, 1>> /\ Direction(90) = <<0, 1>>
      /\ Direction(135) = <<-1, 1>> /\ Direction(180) = <<-1, 0>> /\ Direction(225) = <<-1, -1>>
      /\ Direction(270) = <<0, -1>> /\ Direction(315) = <<1, -1>>
  BY DEF Direction
<1>5. \E c \in Courses : Direction(c) = <<Sign(v[1]), Sign(v[2])>>
  BY <1>2, <1>3, <1>4
<1> QED
  BY <1>5 DEF CourseOf

LEMMA CourseInEnu ==
  ASSUME NEW c \in Courses
  PROVE  /\ c \in 0..360
         /\ wrapAngle360(90 - c) \in 0..360
         /\ Direction(wrapAngle360(90 - c)) = <<Direction(c)[2], Direction(c)[1]>>
<1>1. c \in {0, 45, 90, 135, 180, 225, 270, 315}
  BY DEF Courses
<1>2. wrapAngle360(90 - c) = IF c > 90 THEN 450 - c ELSE 90 - c
  BY <1>1 DEF wrapAngle360
<1> QED
  BY <1>1, <1>2 DEF Direction

\* Whatever quarter turns the device has made, and in any direction it moves: the EKF
\* attitude in angles, that in a quaternion and the odometry's quaternion (setRPY) are
\* one rotation; the heading of the GNSS antennas is the yaw of the EKF message; and
\* the course of the GNSS velocity is the direction of the EKF velocity.
THEOREM AllDirectionsAgree == MotionSpec => []DirectionsAgree
<1>1. MotionInv => DirectionsAgree
  <2> SUFFICES ASSUME MotionInv
               PROVE  DirectionsAgree
    OBVIOUS
  <2>2. makeDcm(EulerMsg) = TrueRotation /\ EulerMsg \in Quarters \X {-90, 0, 90} \X Quarters
    BY EulerMessage
  <2>3. EulerMsg \in Attitude
    BY <2>2 DEF Attitude, Quarters
  <2>4. makeDcmOfQuat(QuatMsg) = TrueRotation
    BY QuatMessage, DcmOfQuat
  <2>5. makeDcmOfQuat(setRPY(EulerMsg)) = TrueRotation
    BY <2>2, <2>3, QuatOfAttitude, DcmOfAttitude, DcmOfQuat
  <2>6. EulerMsg \in (-180..180) \X (-90..90) \X (-180..180)
    BY <2>2 DEF Quarters
  <2>7. LET heading == createSbgGpsHdtMessage(HeadingLog)
        IN heading \in 0..360 /\ (heading - EulerMsg[3]) % 360 = 0
    <3>1. motion.euler[3] \in Quarters
      BY DEF MotionInv
    <3> DEFINE a == motion.euler[3]  h == createSbgGpsHdtMessage(HeadingLog)
    <3>2. a % 360 = IF a < 0 THEN a + 360 ELSE a
      <4> DEFINE q == a \div 360  u == a % 360
      <4>1. q \in Int /\ u \in 0..359 /\ a = 360 * q + u
        BY <3>1 DEF Quarters
      <4> HIDE DEF q, u
      <4>2. u = IF a < 0 THEN a + 360 ELSE a
        BY <3>1, <4>1 DEF Quarters
      <4> QED
        BY <4>2 DEF u
    <3>3. h \in 0..360 /\ h - EulerMsg[3] \in {0, 360}
      <4>1. CASE ~use_enu_
        BY <3>1, <3>2, <4>1 DEF Quarters, EulerMsg, createSbgEkfEulerMessage, EulerLog, HeadingLog, createSbgGpsHdtMessage
      <4>2. CASE use_enu_
        <5>1. EulerMsg[3] = -wrapAnglePi(-90 + a)
          BY <4>2 DEF EulerMsg, createSbgEkfEulerMessage, EulerLog
        <5>2. h = wrapAngle360(90 - (a % 360))
          BY <4>2 DEF HeadingLog, createSbgGpsHdtMessage
        <5>3. \/ a = 0 /\ a % 360 = 0
              \/ a = 90 /\ a % 360 = 90
              \/ a = -90 /\ a % 360 = 270
              \/ a \in {180, -180} /\ a % 360 = 180
          BY <3>1, <3>2 DEF Quarters
        <5>4. \/ a = 0 /\ h = 90
              \/ a = 90 /\ h = 0
              \/ a = -90 /\ h = 180
              \/ a \in {180, -180} /\ h = 270
          <6> HIDE DEF h, a
          <6> QED
            BY <5>2, <5>3 DEF wrapAngle360
        <5>5. \/ a = 0 /\ wrapAnglePi(-90 + a) = -90
              \/ a = 90 /\ wrapAnglePi(-90 + a) = 0
              \/ a = -90 /\ wrapAnglePi(-90 + a) = -180
              \/ a \in {180, -180} /\ wrapAnglePi(-90 + a) = 90
          BY <3>1 DEF Quarters, wrapAnglePi, fmod
        <5> HIDE DEF h, a
        <5> QED
          BY <5>1, <5>4, <5>5
      <4> QED
        BY <4>1, <4>2 DEF MotionInv
    <3> HIDE DEF h
    <3>4. 0 % 360 = 0 /\ 360 % 360 = 0
      OBVIOUS
    <3> QED
      BY <3>3, <3>4 DEF h
  <2>8. ASSUME Moves(NavLog)
        PROVE  LET gps == createSbgGpsVelMessage(NavLog)
               IN /\ gps.course \in 0..360
                  /\ gps.velocity = NavMsg
                  /\ Direction(gps.course) = <<Sign(gps.velocity[1]), Sign(gps.velocity[2])>>
    <3>1. NavLog \in Vector
      BY DEF MotionInv, NavLog
    <3>2. CourseOf(NavLog) \in Courses /\ Direction(CourseOf(NavLog)) = <<Sign(NavLog[1]), Sign(NavLog[2])>>
      BY <2>8, <3>1, CourseIsDirection
    <3> QED
      BY <3>2, CourseInEnu DEF createSbgGpsVelMessage, NavMsg, createSbgEkfNavMessage, toEnu
  <2> QED
    BY <2>2, <2>4, <2>5, <2>6, <2>7, <2>8 DEF DirectionsAgree, createRosOdoMessage
<1> QED
  BY <1>1, MotionAlways, PTL
=============================================================================
