------------------------------- MODULE UtcDates -------------------------------
(***************************************************************************)
(* Calendar dates in MessageWrapper: the UTC log's date and time turned    *)
(* into the time since 1970, and the UTC time of the GGA sentence made     *)
(* from a position's GPS time of week and the leap seconds seen in the     *)
(* last UTC log.  Times since 1970 are <<days, seconds of the day>>.       *)
(***************************************************************************)
EXTENDS Integers

CONSTANTS
  Years, DaysOfMonth, Times,   \* the dates and the seconds of the day of UTC logs
  LeapSeconds,                 \* GPS time less UTC
  Ages                         \* seconds from the UTC log to a position

ASSUME CalendarAssumption ==
  /\ Years \subseteq 1970..2106 /\ DaysOfMonth \subseteq 1..31
  /\ Times \subseteq {t \in Nat : t <= 86400} /\ LeapSeconds \subseteq 0..59
  /\ Ages \subseteq Nat

VARIABLES
  first_valid_utc,  \* the wrapper's first_valid_utc_
  last_utc,         \* its last_sbg_utc_: date, time and GPS time of week
  unix,             \* its time since 1970
  gga,              \* the time of the GGA sentence made last: <<h, m, s>>
  leap, instant     \* the true leap seconds, and the true times of the two logs

dateVars == <<first_valid_utc, last_utc, unix, gga, leap, instant>>

-----------------------------------------------------------------------------
(***************************************************************************)
(* The code's calendar.                                                    *)
(***************************************************************************)

\* Mutant: the centuries are all leap years.
isLeapYearJulian(year) == year % 4 = 0

isLeapYear(year) == (year % 4 = 0 /\ year % 100 # 0) \/ year % 400 = 0

getNumberOfDaysInYear(year) == IF isLeapYear(year) THEN 366 ELSE 365

getNumberOfDaysInMonth(year, month) ==
  IF month \in {4, 6, 9, 11} THEN 30
  ELSE IF month # 2 THEN 31
  ELSE IF isLeapYear(year) THEN 29 ELSE 28

\* The days of the years from 1970 to before this one, and of its months.
DaysOfYears[year \in 1970..2106] ==
  IF year = 1970 THEN 0 ELSE DaysOfYears[year - 1] + getNumberOfDaysInYear(year - 1)

DaysOfMonths(year, month) ==
  LET sum[k \in 1..12] == IF k = 1 THEN 0 ELSE sum[k - 1] + getNumberOfDaysInMonth(year, k - 1)
  IN sum[month]

\* A leap second, at second 60, is the first of the next day.
convertUtcTimeToUnix(log) ==
  LET days == DaysOfYears[log.year] + DaysOfMonths(log.year, log.month) + log.day - 1
      seconds == (log.hour * 60 + log.min) * 60 + log.sec
  IN <<days + seconds \div 86400, seconds % 86400>>

getUtcOffset(valid, tow, sec) ==
  IF ~valid THEN 18
  ELSE LET offset == ((tow \div 1000) % 60) - sec
       IN IF offset < 0 THEN 60 + offset ELSE offset

\* The time of day of createNmeaGGAMessageForNtrip, made with a day more than the
\* time of week so that the offset never takes it below zero.
createNmeaGGAMessageForNtrip(tow) ==
  LET utc == tow + 24 * 3600 * 1000
               - getUtcOffset(first_valid_utc, last_utc.gps_tow, last_utc.sec) * 1000
  IN << (utc \div 3600000) % 24, (utc \div 60000) % 60, (utc \div 1000) % 60 >>

-----------------------------------------------------------------------------
(***************************************************************************)
(* The device (external).  Days are counted with the months from March on, *)
(* which puts the day that comes and goes at the end of the year.          *)
(***************************************************************************)

DayNumber(year, month, day) ==
  LET y == IF month <= 2 THEN year - 1 ELSE year
      k == (month + 9) % 12
  IN 365 * y + y \div 4 - y \div 100 + y \div 400 + (153 * k + 2) \div 5 + day - 719469

IsDate(year, month, day) ==
  DayNumber(year, month, day)
    < IF month = 12 THEN DayNumber(year + 1, 1, 1) ELSE DayNumber(year, month + 1, 1)

\* The GPS time of week, in milliseconds, of a UTC time <<day, second>>: weeks begin
\* on Sunday, and 1970 on a Thursday.
TimeOfWeek(utc) ==
  ((((utc[1] + 4) % 7) * 86400 + utc[2] + leap) % 604800) * 1000

ClockTime(seconds) == <<seconds \div 3600, (seconds \div 60) % 60, seconds % 60>>

UtcLogOf(year, month, day, time) ==
  LET clock == IF time = 86400 THEN <<23, 59, 60>> ELSE ClockTime(time)
  IN [year |-> year, month |-> month, day |-> day,
      hour |-> clock[1], min |-> clock[2], sec |-> clock[3],
      gps_tow |-> TimeOfWeek(<<DayNumber(year, month, day), time>>)]

-----------------------------------------------------------------------------

CalendarInit ==
  /\ first_valid_utc = FALSE
  /\ last_utc = [year |-> 0, month |-> 0, day |-> 0, hour |-> 0, min |-> 0, sec |-> 0, gps_tow |-> 0]
  /\ unix = <<0, 0>>
  /\ gga = <<>>
  /\ leap \in LeapSeconds
  /\ instant = [utc |-> <<0, 0>>, position |-> <<0, 0>>]

\* A UTC log, of a clock that is valid or not.
UtcDate(year, month, day, time, valid) ==
  /\ IsDate(year, month, day)
  /\ last_utc' = UtcLogOf(year, month, day, time)
  /\ unix' = convertUtcTimeToUnix(last_utc')
  /\ first_valid_utc' = (first_valid_utc \/ valid)
  /\ instant' = [instant EXCEPT !.utc = <<DayNumber(year, month, day), time>>]
  /\ gga' = <<>>
  /\ UNCHANGED leap

\* A position some time after the last UTC log, if there was one.
PositionTime(age) ==
  /\ LET time == instant.utc[2] + age
         utc  == <<instant.utc[1] + time \div 86400, time % 86400>>
     IN /\ instant' = [instant EXCEPT !.position = utc]
        /\ gga' = createNmeaGGAMessageForNtrip(TimeOfWeek(utc))
  /\ UNCHANGED <<first_valid_utc, last_utc, unix, leap>>

\* Bound: one UTC log, after which come the positions.
CalendarNext ==
  \/ /\ last_utc.year = 0
     /\ \E year \in Years, month \in 1..12, day \in DaysOfMonth, time \in Times, valid \in BOOLEAN :
          UtcDate(year, month, day, time, valid)
  \/ \E age \in Ages : PositionTime(age)

CalendarSpec == CalendarInit /\ [][CalendarNext]_dateVars

-----------------------------------------------------------------------------
(***************************************************************************)
(* Properties.                                                             *)
(***************************************************************************)

\* The time since 1970 is the true one, through leap years, centuries and leap
\* seconds, and the sentence for NTRIP has the UTC time of its position, over the
\* end of a day or a week, when a valid UTC log told the leap seconds or they are
\* the driver's own 18 (convertUtcTimeToUnix, getUtcOffset,
\* createNmeaGGAMessageForNtrip).
UtcTimesAgree ==
  /\ last_utc.year # 0 =>
       unix = <<instant.utc[1] + instant.utc[2] \div 86400, instant.utc[2] % 86400>>
  /\ (gga # <<>> /\ (first_valid_utc \/ leap = 18) /\ instant.utc[2] < 86400)
       => gga = ClockTime(instant.position[2])
=============================================================================
