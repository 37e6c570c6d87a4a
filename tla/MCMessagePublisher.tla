-------------------------- MODULE MCMessagePublisher --------------------------
(***************************************************************************)
(* MessagePublisher for TLC: over a serial link every choice of the        *)
(* outputs the odometry is made from, and configurations with everything   *)
(* else; over UDP one IMU log and one attitude log, or both.               *)
(***************************************************************************)
EXTENDS MessagePublisher

Standard(out) ==
  [out |-> out, odom |-> TRUE, publishTf |-> TRUE, enu |-> TRUE, standard |-> TRUE,
   nmea |-> FALSE, udp |-> FALSE]

Others == Simple \ {"GPS2_POS"}

McSerial == {Standard(out) : out \in SUBSET Fused}

McConfigurations ==
  McSerial
    \cup {[Standard(Others) EXCEPT !.nmea = TRUE],
          [Standard(Fused \cup Others) EXCEPT !.enu = FALSE]}
    \cup {[Standard(out) EXCEPT !.udp = TRUE] :
            out \in {{"IMU_DATA", "EKF_EULER", "EKF_NAV"},
                     {"IMU_DATA", "IMU_SHORT", "EKF_QUAT", "EKF_NAV"},
                     {"IMU_DATA", "EKF_EULER", "EKF_QUAT", "EKF_NAV"}}}
=============================================================================
