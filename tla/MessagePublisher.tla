--------------------------- MODULE MessagePublisher ---------------------------
(***************************************************************************)
(* MessagePublisher::publish: each log received is converted, kept if it   *)
(* is one of those the standard ROS messages are put together from, and    *)
(* published on its own topic; then the standard messages it completes are *)
(* published.  With the odometry go the UTM origin and the transforms that *)
(* MessageWrapper::createRosOdoMessage sets up.                            *)
(*                                                                         *)
(* A log is its kind and its time stamp.  Stamp 0 stands for the default   *)
(* message held before any log of the kind was received.                   *)
(***************************************************************************)
EXTENDS Naturals, FiniteSets

CONSTANTS
  Configurations,  \* the configurations of the driver
  MaxStamp         \* bound: instants the device takes samples at

Fused  == {"IMU_DATA", "IMU_SHORT", "EKF_EULER", "EKF_QUAT", "EKF_NAV"}

\* "STATUS" stands for all the logs that have no other topic than their own.
Simple == {"UTC_TIME", "MAG", "AIR_DATA", "GPS1_POS", "GPS2_POS", "STATUS"}

\* The outputs enabled (the ConfigStore has none for the second receiver, whose
\* logs the device may send all the same), the parameters odometry.enable,
\* odometry.publishTf, output.use_enu, output.ros_standard and nmea.publish, and
\* the link: over UDP a log may arrive after one of a later instant.
Configuration ==
  [out : SUBSET ((Fused \cup Simple) \ {"GPS2_POS"}), odom : BOOLEAN, publishTf : BOOLEAN,
   enu : BOOLEAN, standard : BOOLEAN, nmea : BOOLEAN, udp : BOOLEAN]

ASSUME PublisherAssumption ==
  /\ Configurations \subseteq Configuration
  /\ MaxStamp \in Nat \ {0}

VARIABLES
  conf,       \* the configuration the publishers were created from
  message,    \* the stamp of the message kept for each fused log
  inPosition, \* the navigation message kept is in NAV_POSITION mode
  published,  \* what the last call of publish published
  origin,     \* the stamp of the position the UTM origin was set from, or 0
  tf,         \* the transforms sent, as <<parent, child>>
  seen,       \* the fused logs kept so far, as <<log, stamp>> (history)
  positions,  \* the stamps whose navigation log was in NAV_POSITION mode (history)
  last,       \* the log received last, of those an odometry is made from (history)
  odometries  \* the odometry messages published for each stamp (history)

vars == <<conf, message, inPosition, published, origin, tf, seen, positions, last, odometries>>

Stamps == 1..MaxStamp

\* The topic of each log, named after it; the two receivers share one publisher.
TopicOf(l) == IF l = "GPS2_POS" THEN "GPS1_POS" ELSE l
HasPublisher(l) == TopicOf(l) \in conf.out

-----------------------------------------------------------------------------
(***************************************************************************)
(* The publishers of the standard topics.                                  *)
(***************************************************************************)

HasAttitude == conf.out \cap {"EKF_EULER", "EKF_QUAT"} # {}

\* defineRosStandardPublishers
HasStandard(topic) ==
  /\ conf.standard
  /\ conf.enu
  /\ \/ topic = "imu/data"        /\ {"IMU_DATA", "EKF_QUAT"} \subseteq conf.out
     \/ topic = "imu/temp"        /\ "IMU_DATA" \in conf.out
     \/ topic = "imu/mag"         /\ "MAG" \in conf.out
     \/ topic = "imu/velocity"    /\ {"IMU_DATA", "EKF_NAV"} \subseteq conf.out /\ HasAttitude
     \/ topic = "imu/pres"        /\ "AIR_DATA" \in conf.out
     \/ topic = "imu/pos_ecef"    /\ "EKF_NAV" \in conf.out
     \/ topic = "imu/utc_ref"     /\ "UTC_TIME" \in conf.out
     \/ topic = "imu/nav_sat_fix" /\ HasPublisher("GPS1_POS")
     \/ /\ topic = "imu/odometry" /\ conf.odom
        /\ {"IMU_DATA", "EKF_NAV"} \subseteq conf.out /\ HasAttitude

\* The IMU and attitude logs that the standard messages are made from.
Imu      == IF "IMU_SHORT" \in conf.out THEN "IMU_SHORT" ELSE "IMU_DATA"
Attitude == IF "EKF_QUAT" \in conf.out THEN "EKF_QUAT" ELSE "EKF_EULER"

Message(topic, logs, m) == [topic |-> topic, from |-> {<<l, m[l]>> : l \in logs}]

\* What the process... functions publish when the messages kept are m.
TempMessages(m) ==
  {msg \in {Message("imu/temp", {Imu}, m)} : HasStandard("imu/temp")}

ImuMessages(m) ==
  {msg \in {Message("imu/data", {Imu, "EKF_QUAT"}, m)} :
     HasStandard("imu/data") /\ m["EKF_QUAT"] \in {0, m[Imu]}}

VelMessages(m) ==
  {msg \in {Message("imu/velocity", {Imu, Attitude, "EKF_NAV"}, m)} : HasStandard("imu/velocity")}

\* Mutants: no instant is compared with that of the attitude; nor those of the
\* IMU log and of the position; the solution mode is not looked at.
OdoMessagesAnyAttitude(m, position) ==
  {msg \in {Message("imu/odometry", {Imu, Attitude, "EKF_NAV", "EKF_EULER"}, m)} :
     HasStandard("imu/odometry") /\ position /\ m[Imu] = m["EKF_NAV"]}

OdoMessagesAnyImu(m, position) ==
  {msg \in {Message("imu/odometry", {Imu, Attitude, "EKF_NAV", "EKF_EULER"}, m)} :
     HasStandard("imu/odometry") /\ position /\ m[Imu] = m[Attitude]}

OdoMessagesAnyMode(m, position) ==
  {msg \in {Message("imu/odometry", {Imu, Attitude, "EKF_NAV", "EKF_EULER"}, m)} :
     /\ HasStandard("imu/odometry")
     /\ m[Imu] = m["EKF_NAV"]
     /\ m[Imu] = m[Attitude]}

\* The attitude accuracy always comes from the Euler angles kept.
OdoMessages(m, position) ==
  {msg \in {Message("imu/odometry", {Imu, Attitude, "EKF_NAV", "EKF_EULER"}, m)} :
     /\ HasStandard("imu/odometry")
     /\ position
     /\ m[Imu] = m["EKF_NAV"]
     /\ m[Imu] = m[Attitude]}

\* Mutants: the origin hangs from the sensor's frame; one overload's frames are
\* swapped in the other's messages.
OriginTfFromImu == <<"imu", IF Imu = "IMU_SHORT" THEN "odom" ELSE "base">>
PoseTfSwapped   == <<"base", "odom">>

\* The transforms sent with an odometry message, by the overload for each IMU
\* log: one at the first message, for the origin, and one for each message.
OriginTf == <<"init", IF Imu = "IMU_SHORT" THEN "odom" ELSE "base">>
PoseTf   == IF Imu = "IMU_SHORT" THEN <<"odom", "base">> ELSE <<"base", "odom">>

-----------------------------------------------------------------------------
(***************************************************************************)
(* The logs.                                                               *)
(***************************************************************************)

Raw(l, s) == {msg \in {[topic |-> TopicOf(l), from |-> {<<l, s>>}]} : HasPublisher(l)}

\* The call publishes msgs.
PublishAll(msgs, m) ==
  LET odo == {msg \in msgs : msg.topic = "imu/odometry"}
  IN /\ published' = msgs
     /\ origin' = IF odo # {} /\ origin = 0 THEN m["EKF_NAV"] ELSE origin
     /\ tf' = IF odo # {} /\ conf.publishTf
                THEN tf \cup {PoseTf} \cup (IF origin = 0 THEN {OriginTf} ELSE {})
                ELSE tf
     /\ odometries' = IF odo # {} THEN [odometries EXCEPT ![m[Imu]] = @ + 1] ELSE odometries

Receive(l, s) ==
  /\ <<l, s>> \notin seen
  /\ conf.udp \/ \A x \in seen : x[2] <= s
  /\ seen' = seen \cup {<<l, s>>}
  /\ last' = IF l \in {Imu, Attitude, "EKF_NAV"} THEN l ELSE last
  /\ UNCHANGED conf

\* A log that is neither published nor kept.
Ignore(l) ==
  /\ l \in Fused \ {"EKF_NAV"}
  /\ ~HasPublisher(l)
  /\ published' = {}
  /\ UNCHANGED <<conf, message, inPosition, origin, tf, seen, positions, last, odometries>>

\* The message is kept and published, before the standard ones.
Keep(l, s) ==
  /\ Receive(l, s)
  /\ message' = [message EXCEPT ![l] = s]

PublishImu(l, s) ==
  /\ l \in {"IMU_DATA", "IMU_SHORT"}
  /\ HasPublisher(l)
  /\ Keep(l, s)
  /\ LET m == message'
     IN PublishAll(Raw(l, s) \cup TempMessages(m) \cup ImuMessages(m) \cup VelMessages(m)
                     \cup OdoMessages(m, inPosition), m)
  /\ UNCHANGED <<inPosition, positions>>

\* Mutant: no odometry when the Euler angles come.
PublishEulerAlone(s) ==
  /\ HasPublisher("EKF_EULER")
  /\ Keep("EKF_EULER", s)
  /\ LET m == message' IN PublishAll(Raw("EKF_EULER", s) \cup VelMessages(m), m)
  /\ UNCHANGED <<inPosition, positions>>

PublishEuler(s) ==
  /\ HasPublisher("EKF_EULER")
  /\ Keep("EKF_EULER", s)
  /\ LET m == message'
     IN PublishAll(Raw("EKF_EULER", s) \cup VelMessages(m) \cup OdoMessages(m, inPosition), m)
  /\ UNCHANGED <<inPosition, positions>>

PublishQuat(s) ==
  /\ HasPublisher("EKF_QUAT")
  /\ Keep("EKF_QUAT", s)
  /\ LET m == message'
     IN PublishAll(Raw("EKF_QUAT", s) \cup ImuMessages(m) \cup VelMessages(m), m)
  /\ UNCHANGED <<inPosition, positions>>

\* publishEkfNavigationData, then processRosOdoMessage; the message is kept even
\* without a publisher.
PublishNav(s, position) ==
  /\ Keep("EKF_NAV", s)
  /\ inPosition' = position
  /\ positions' = IF position THEN positions \cup {s} ELSE positions
  /\ LET m    == message'
         ecef == {msg \in {Message("imu/pos_ecef", {"EKF_NAV"}, m)} : HasStandard("imu/pos_ecef")}
     IN PublishAll(Raw("EKF_NAV", s) \cup ecef \cup VelMessages(m) \cup OdoMessages(m, position), m)

\* The standard topic a simple log is also published on, and the NMEA topic, to
\* which only the first receiver's positions go; either may be held back by the
\* content of the log (an invalid UTC, the 1 Hz limit of the NMEA sentences).
Also(l) ==
  {t \in {"imu/utc_ref", "imu/mag", "imu/pres", "imu/nav_sat_fix"} :
     /\ HasStandard(t)
     /\ \/ t = "imu/utc_ref"     /\ l = "UTC_TIME"
        \/ t = "imu/mag"         /\ l = "MAG"
        \/ t = "imu/pres"        /\ l = "AIR_DATA"
        \/ t = "imu/nav_sat_fix" /\ l \in {"GPS1_POS", "GPS2_POS"}}
  \cup {t \in {"nmea"} : conf.nmea /\ l = "GPS1_POS"}

MayHoldBack == {"imu/utc_ref", "nmea"}

PublishSimple(l) ==
  /\ \E held \in SUBSET (Also(l) \cap MayHoldBack) :
       published' = Raw(l, 0) \cup {[topic |-> t, from |-> {<<l, 0>>}] : t \in Also(l) \ held}
  /\ UNCHANGED <<conf, message, inPosition, origin, tf, seen, positions, last, odometries>>

Init ==
  /\ conf \in Configurations
  /\ message = [l \in Fused |-> 0]
  /\ inPosition = FALSE
  /\ published = {}
  /\ origin = 0
  /\ tf = {}
  /\ seen = {}
  /\ positions = {}
  /\ last = "EKF_NAV"
  /\ odometries = [s \in Stamps |-> 0]

Next ==
  \/ \E l \in Fused : Ignore(l)
  \/ \E l \in Fused, s \in Stamps : PublishImu(l, s)
  \/ \E s \in Stamps : PublishEuler(s)
  \/ \E s \in Stamps : PublishQuat(s)
  \/ \E s \in Stamps, position \in BOOLEAN : PublishNav(s, position)
  \/ \E l \in Simple : PublishSimple(l)

Spec == Init /\ [][Next]_vars

-----------------------------------------------------------------------------
(***************************************************************************)
(* Properties.                                                             *)
(***************************************************************************)

PublisherTypeOK ==
  /\ conf \in Configurations
  /\ message \in [Fused -> 0..MaxStamp]
  /\ inPosition \in BOOLEAN
  /\ \A msg \in published : msg.from \subseteq (Fused \cup Simple) \X (0..MaxStamp)
  /\ origin \in 0..MaxStamp
  /\ tf \subseteq {"init", "odom", "base"} \X {"init", "odom", "base"}
  /\ seen \subseteq Fused \X Stamps
  /\ positions \subseteq Stamps
  /\ last \in Fused
  /\ odometries \in [Stamps -> Nat]

\* An odometry message is put together from logs the device sent for one and the
\* same instant, with the filter in full navigation mode at that instant: never
\* from a default message, nor from the position of another instant
\* (processRosOdoMessage).
OdometryIsOneInstant ==
  \A msg \in published : msg.topic = "imu/odometry" =>
    \E s \in positions :
      /\ {<<Imu, s>>, <<Attitude, s>>, <<"EKF_NAV", s>>} \subseteq msg.from
      /\ {<<Imu, s>>, <<Attitude, s>>, <<"EKF_NAV", s>>} \subseteq seen

\* The logs used that call processRosOdoMessage and that no odometry is made from:
\* the second IMU log, and the Euler angles next to a quaternion.
Spare == (conf.out \cap Fused) \ {Imu, Attitude, "EKF_NAV"}

\* None of the logs an odometry is made from makes it be published again, in
\* whatever order they come: an instant has one odometry message, except that
\* each spare log, of that instant or of another, publishes it once more as long as
\* the messages kept are still those of the instant (processRosOdoMessage).
OnlySpareLogsRepeat ==
  [][\A s \in Stamps : (odometries[s] > 0 /\ odometries'[s] # odometries[s])
       => \E x \in seen' \ seen : x[1] \in Spare]_vars

\* The logs of instant s the odometry is made from have all come.
Complete(s) ==
  s \in positions /\ {<<Imu, s>>, <<Attitude, s>>, <<"EKF_NAV", s>>} \subseteq seen

\* An instant whose logs have come in order has its odometry as soon as the last
\* of them has, unless that is the quaternion.
OdometryUnlessQuatLast ==
  \A s \in Stamps :
    ( /\ HasStandard("imu/odometry")
      /\ ~conf.udp
      /\ Complete(s)
      /\ last # "EKF_QUAT"
      /\ \A x \in seen : x[2] <= s )
    => odometries[s] > 0

\* The origin of the odometry is a position the device gave in full navigation
\* mode, of an instant that has an odometry message.
OriginIsPosition == origin # 0 => (origin \in positions /\ odometries[origin] > 0)

\* The transforms sent form a forest: no frame has two parents, nor is it its
\* own ancestor (createRosOdoMessage, fillTransform).
TransformsFormForest ==
  /\ \A e, f \in tf : e[2] = f[2] => e[1] = f[1]
  /\ \A e \in tf : <<e[2], e[1]>> \notin tf /\ e[2] # "init"

\* "Odometry message can be generated from quaternion or euler angles": an
\* instant whose logs have all come has an odometry message.
OdometryGenerated ==
  \A s \in Stamps :
    (HasStandard("imu/odometry") /\ ~conf.udp /\ Complete(s) /\ \A x \in seen : x[2] <= s)
      => odometries[s] > 0
=============================================================================
