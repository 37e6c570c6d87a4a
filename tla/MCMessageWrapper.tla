--------------------------- MODULE MCMessageWrapper ---------------------------
(***************************************************************************)
(* MessageWrapper for TLC: the dates of the messages, their frames, the    *)
(* position of the odometry and the calendar.  These parts share no state  *)
(* of the code but the navigation messages, whose velocity and position    *)
(* are used apart: each is explored with the others at rest.               *)
(***************************************************************************)
EXTENDS TimeReference, FrameConventions, UtmOrigin, UtcDates

VARIABLE part   \* the part that is explored

McRolls      == {-90, 0, 90, 180}
McPitches    == {-90, 0, 90}
McYaws       == {-180, -90, 0, 90, 180}
McComponents == {-1, 0, 1}

\* Norway, Svalbard with the end of the grid, and where the equator meets the 180th
\* meridian.
McAreas == {(55..64) \X (-1..13),
            {71, 72, 73, 83, 84} \X (-1..44),
            (-2..1) \X (178..181)}

WrapperVars == <<part, vars, motionVars, driveVars, dateVars>>

McInit ==
  /\ part \in {"time", "frames", "position", "calendar"}
  /\ Init /\ MotionInit /\ DriveInit /\ CalendarInit
  /\ part # "time" => time_reference_ = "ROS" /\ now = 0 /\ ~synced
  /\ part # "frames" => ~use_enu_
  /\ part # "calendar" => leap = 18

Time ==
  /\ part = "time"
  /\ Next
  /\ UNCHANGED <<part, motionVars, driveVars, dateVars>>

Frames ==
  /\ part = "frames"
  /\ Turn \/ Accelerate
  /\ UNCHANGED <<part, vars, driveVars, dateVars>>

Position ==
  /\ part = "position"
  /\ DriveNext
  /\ UNCHANGED <<part, vars, motionVars, dateVars>>

Calendar ==
  /\ part = "calendar"
  /\ CalendarNext
  /\ UNCHANGED <<part, vars, motionVars, driveVars>>

McNext == Time \/ Frames \/ Position \/ Calendar

McSpec == McInit /\ [][McNext]_WrapperVars
=============================================================================
