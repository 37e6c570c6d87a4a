---------------------------- MODULE TimeReference ----------------------------
(***************************************************************************)
(* How MessageWrapper dates the messages: the device stamps each log with  *)
(* a 32-bit microsecond counter, sends its UTC time now and then, and      *)
(* createRosHeader turns a stamp into a date with the last UTC log.        *)
(* Time is in ticks; the counter has Modulus values.                       *)
(***************************************************************************)
EXTENDS Integers

CONSTANTS
  Modulus,   \* 2^32 in the code
  Date,      \* the date at the beginning
  MaxTime,   \* bound: ticks
  MaxGap,    \* ticks between two UTC logs, at most
  Lag,       \* a log arrives at most so long after it was stamped
  MaxBoots   \* bound: restarts of the device

ASSUME TimeAssumption ==
  /\ Modulus \in Nat \ {0}
  /\ {Date, MaxTime, MaxGap, Lag, MaxBoots} \subseteq Nat
  /\ Date > MaxTime

VARIABLES
  time_reference_,   \* the parameter of that name
  first_valid_utc_,
  last_sbg_utc_,     \* the stamp and the date of the last UTC log
  header,            \* of the message made last: its clock and its date
  taken,             \* the time the log of that message was stamped (history)
  utcAt,             \* the time the last UTC log was stamped (history)
  now, boot, boots,  \* the time, and the device's last start and restarts
  synced             \* the device's clock is stable, synchronised and valid

wrapperVars == <<time_reference_, first_valid_utc_, last_sbg_utc_, header>>
vars == <<wrapperVars, taken, utcAt, now, boot, boots, synced>>

\* The device's counter starts with it.  Before it is synchronised its UTC date
\* starts with it too.
StampOf(t) == (t - boot) % Modulus
UtcOf(t)   == IF synced THEN Date + t ELSE t - boot

\* Mutants: no rollover of the counter; a rollover off by one.
timestamp_diffNoRollover(stamp) == stamp - last_sbg_utc_.time_stamp

timestamp_diffOffByOne(stamp) ==
  IF stamp >= last_sbg_utc_.time_stamp
    THEN stamp - last_sbg_utc_.time_stamp
    ELSE stamp + (Modulus - 1) - last_sbg_utc_.time_stamp

\* convertInsTimeToUnix: a stamp below that of the last UTC log is taken to
\* follow a rollover of the counter.
timestamp_diff(stamp) ==
  IF stamp >= last_sbg_utc_.time_stamp
    THEN stamp - last_sbg_utc_.time_stamp
    ELSE stamp + Modulus - last_sbg_utc_.time_stamp

createRosHeader(stamp) ==
  IF first_valid_utc_ /\ time_reference_ = "INS_UNIX"
    THEN [clock |-> "INS", date |-> last_sbg_utc_.date + timestamp_diff(stamp)]
    ELSE [clock |-> "ROS", date |-> Date + now]

-----------------------------------------------------------------------------

\* A log stamped at time t arrives, and a message is made of it.
Log(t) ==
  /\ t <= now
  /\ boot <= t /\ now - t <= Lag
  /\ header' = createRosHeader(StampOf(t))
  /\ taken' = t
  /\ UNCHANGED <<time_reference_, first_valid_utc_, last_sbg_utc_, utcAt, now, boot, boots, synced>>

\* createSbgUtcTimeMessage: the header is made with the UTC log before this one.
UtcLog ==
  /\ header' = createRosHeader(StampOf(now))
  /\ taken' = now
  /\ utcAt' = now
  /\ first_valid_utc_' = (first_valid_utc_ \/ synced)
  /\ last_sbg_utc_' = [time_stamp |-> StampOf(now), date |-> UtcOf(now)]
  /\ UNCHANGED <<time_reference_, now, boot, boots, synced>>

Tick ==
  /\ now < MaxTime
  /\ first_valid_utc_ => now + 1 - utcAt <= MaxGap
  /\ now' = now + 1
  /\ UNCHANGED <<wrapperVars, taken, utcAt, boot, boots, synced>>

Synchronise ==
  /\ ~synced
  /\ synced' = TRUE
  /\ UNCHANGED <<wrapperVars, taken, utcAt, now, boot, boots>>

\* The device is restarted, and the driver keeps running.
Reboot ==
  /\ boots < MaxBoots
  /\ boots' = boots + 1
  /\ boot' = now
  /\ synced' = FALSE
  /\ UNCHANGED <<wrapperVars, taken, utcAt, now>>

\* The driver starts when the device has been running for a while.
Init ==
  /\ time_reference_ \in {"ROS", "INS_UNIX"}
  /\ first_valid_utc_ = FALSE
  /\ last_sbg_utc_ = [time_stamp |-> 0, date |-> 0]
  /\ now \in 0..(Modulus - 1)
  /\ now <= MaxTime
  /\ header = [clock |-> "ROS", date |-> Date + now]
  /\ taken = now
  /\ utcAt = 0
  /\ boot = 0
  /\ boots = 0
  /\ synced \in BOOLEAN

Next ==
  \/ \E t \in 0..MaxTime : Log(t)
  \/ UtcLog
  \/ Tick
  \/ Synchronise
  \/ Reboot

Spec == Init /\ [][Next]_vars

-----------------------------------------------------------------------------
(***************************************************************************)
(* Properties.                                                             *)
(***************************************************************************)

\* "The header.stamp member contains an absolute and accurate time referenced to
\* UNIX epoch": a message dated with the device's time has the date its log was
\* stamped at, whatever rollovers of the counter there were, unless the device
\* was restarted or a UTC log overtook this one.
HeaderIsAccurate ==
  (header.clock = "INS" /\ taken >= utcAt /\ boots = 0) => header.date = Date + taken

\* After a restart of the device the dates are right again from the first valid
\* UTC log on, however the counter then stands to the one before.
DatesRecover ==
  [][(header' # header /\ header'.clock = "INS"
        /\ utcAt > boot /\ taken' >= utcAt /\ last_sbg_utc_.date = Date + utcAt)
      => header'.date = Date + taken']_vars
=============================================================================
