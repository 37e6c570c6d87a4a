----------------------- MODULE MessagePublisherProofs -----------------------
(***************************************************************************)
(* Proofs about MessagePublisher, for every set of configurations and any  *)
(* number of instants.                                                     *)
(***************************************************************************)
EXTENDS MessagePublisher, TLAPS

\* The logs an odometry is made from.
Parts == {Imu, Attitude, "EKF_NAV"}

LEMMA PartsAreFused == Parts \subseteq Fused
  BY DEF Parts, Imu, Attitude, Fused

\* What an odometry message says of the messages kept.
LEMMA OdometryMessage ==
  ASSUME NEW m, NEW position, NEW msg \in OdoMessages(m, position)
  PROVE  /\ position
         /\ m[Imu] = m["EKF_NAV"] /\ m[Imu] = m[Attitude]
         /\ HasStandard("imu/odometry")
         /\ msg = Message("imu/odometry", Parts \cup {"EKF_EULER"}, m)
         /\ msg.topic = "imu/odometry"
         /\ {<<Imu, m[Imu]>>, <<Attitude, m[Imu]>>, <<"EKF_NAV", m[Imu]>>} \subseteq msg.from
<1>1. /\ position
      /\ m[Imu] = m["EKF_NAV"] /\ m[Imu] = m[Attitude]
      /\ HasStandard("imu/odometry")
      /\ msg = Message("imu/odometry", {Imu, Attitude, "EKF_NAV", "EKF_EULER"}, m)
  BY DEF OdoMessages
<1>2. {Imu, Attitude, "EKF_NAV", "EKF_EULER"} = Parts \cup {"EKF_EULER"}
  BY DEF Parts
<1>3. /\ msg.topic = "imu/odometry"
      /\ msg.from = {<<l, m[l]>> : l \in {Imu, Attitude, "EKF_NAV", "EKF_EULER"}}
  BY <1>1 DEF Message
<1> QED
  BY <1>1, <1>2, <1>3

LEMMA OdometryIsMade ==
  ASSUME NEW m, NEW position, position, HasStandard("imu/odometry"),
         m[Imu] = m["EKF_NAV"], m[Imu] = m[Attitude]
  PROVE  OdoMessages(m, position) # {}
  BY DEF OdoMessages

-----------------------------------------------------------------------------
(***************************************************************************)
(* The invariant.                                                          *)
(***************************************************************************)

\* The types of the messages.
Typed(msgs) == \A msg \in msgs : msg.from \subseteq (Fused \cup Simple) \X (0..MaxStamp)

\* A message kept was received; the navigation message kept is in NAV_POSITION
\* mode just when the device gave that mode at its instant.
KeptInv ==
  /\ \A l \in Fused : message[l] # 0 => <<l, message[l]>> \in seen
  /\ inPosition <=> message["EKF_NAV"] \in positions
  /\ \A s \in positions : <<"EKF_NAV", s>> \in seen

\* Over an ordered link the messages kept are the newest.
OrderInv ==
  ~conf.udp =>
    \A l \in Fused, s \in Stamps :
      (<<l, s>> \in seen /\ \A x \in seen : x[2] <= s) => message[l] = s

\* An instant with an odometry had all its logs.
OdometryInv ==
  \A s \in Stamps : odometries[s] > 0 => \A l \in Parts : <<l, s>> \in seen

PublisherInv ==
  /\ PublisherTypeOK
  /\ KeptInv
  /\ OrderInv
  /\ OdometryInv
  /\ tf \subseteq {PoseTf, OriginTf}
  /\ OdometryIsOneInstant
  /\ OdometryUnlessQuatLast
  /\ OriginIsPosition

\* One call of publish for a log that is kept: msgs besides an odometry, which is
\* tried unless the log is the quaternion.
Call(l, s, position, others, odos) ==
  /\ Keep(l, s)
  /\ HasPublisher(l) \/ l = "EKF_NAV"
  /\ inPosition' = position
  /\ l # "EKF_NAV" => position = inPosition /\ positions' = positions
  /\ l = "EKF_NAV" => positions' = IF position THEN positions \cup {s} ELSE positions
  /\ Typed(others) /\ \A msg \in others : msg.topic # "imu/odometry"
  /\ odos = IF l = "EKF_QUAT" THEN {} ELSE OdoMessages(message', position)
  /\ PublishAll(others \cup odos, message')

\* What PublishAll does, by whether there is an odometry.
LEMMA CallEffect ==
  ASSUME NEW l, NEW s, NEW position, NEW others, NEW odos, Call(l, s, position, others, odos)
  PROVE  /\ published' = others \cup odos
         /\ odos = {} => UNCHANGED <<origin, tf, odometries>>
         /\ odos # {} =>
              /\ origin' = IF origin = 0 THEN message'["EKF_NAV"] ELSE origin
              /\ tf' \subseteq tf \cup {PoseTf, OriginTf}
              /\ odometries' = [odometries EXCEPT ![message'[Imu]] = @ + 1]
<1> DEFINE odo == {msg \in others \cup odos : msg.topic = "imu/odometry"}
<1>1. \A msg \in odos : msg.topic = "imu/odometry"
  BY OdometryMessage DEF Call
<1>2. odo = odos
  BY <1>1 DEF Call
<1> QED
  BY <1>2 DEF Call, PublishAll

\* The logs and the messages kept after a call.
LEMMA CallKeeps ==
  ASSUME PublisherInv, NEW l \in Fused, NEW s \in Stamps, NEW position \in BOOLEAN,
         NEW others, NEW odos, Call(l, s, position, others, odos)
  PROVE  /\ conf' = conf /\ <<l, s>> \notin seen /\ seen' = seen \cup {<<l, s>>}
         /\ message' = [message EXCEPT ![l] = s]
         /\ message' \in [Fused -> 0..MaxStamp]
         /\ s \in 1..MaxStamp
         /\ seen' \subseteq Fused \X Stamps
         /\ positions' \subseteq Stamps /\ positions \subseteq positions'
         /\ KeptInv'
         /\ OrderInv'
<1> USE DEF PublisherInv, PublisherTypeOK
<1>1. /\ conf' = conf /\ <<l, s>> \notin seen /\ seen' = seen \cup {<<l, s>>}
      /\ message' = [message EXCEPT ![l] = s]
      /\ conf.udp \/ \A x \in seen : x[2] <= s
  BY DEF Call, Keep, Receive
<1>2. message' \in [Fused -> 0..MaxStamp] /\ s \in 1..MaxStamp /\ MaxStamp \in Nat
  BY <1>1, PublisherAssumption DEF Stamps, PublisherAssumption
<1>3. seen' \subseteq Fused \X Stamps
  BY <1>1
<1>4. positions' \subseteq Stamps /\ positions \subseteq positions'
  BY DEF Call
<1>5. KeptInv'
  <2>1. \A k \in Fused : message'[k] # 0 => <<k, message'[k]>> \in seen'
    BY <1>1, <1>2 DEF KeptInv
  <2>2. inPosition' <=> message'["EKF_NAV"] \in positions'
    <3>1. CASE l = "EKF_NAV"
      <4>1. s \notin positions
        BY <1>1, <3>1 DEF KeptInv
      <4>2. message'["EKF_NAV"] = s
        BY <1>1, <3>1
      <4> QED
        BY <3>1, <4>1, <4>2 DEF Call
    <3>2. CASE l # "EKF_NAV"
      <4>1. message'["EKF_NAV"] = message["EKF_NAV"]
        BY <1>1, <3>2 DEF Fused
      <4> QED
        BY <3>2, <4>1 DEF Call, KeptInv
    <3> QED
      BY <3>1, <3>2
  <2>3. \A t \in positions' : <<"EKF_NAV", t>> \in seen'
    BY <1>1 DEF Call, KeptInv
  <2> QED
    BY <2>1, <2>2, <2>3 DEF KeptInv
<1>6. OrderInv'
  <2> SUFFICES ASSUME ~conf.udp, NEW k \in Fused, NEW t \in Stamps,
                      <<k, t>> \in seen', \A x \in seen' : x[2] <= t
               PROVE  message'[k] = t
    BY <1>1 DEF OrderInv, Stamps
  <2>1. s <= t /\ t \in 1..MaxStamp
    BY <1>1 DEF Stamps
  <2>2. CASE <<k, t>> = <<l, s>>
    BY <1>1, <2>2
  <2>3. CASE <<k, t>> # <<l, s>>
    <3>1. <<k, t>> \in seen /\ \A x \in seen : x[2] <= t
      BY <1>1, <2>3
    <3>2. message[k] = t
      BY <3>1 DEF OrderInv
    <3>3. t <= s
      BY <1>1, <3>1
    <3>4. t = s
      BY <1>2, <2>1, <3>3
    <3> QED
      BY <1>1, <2>3, <3>2, <3>4
  <2> QED
    BY <2>2, <2>3
<1> QED
  BY <1>1, <1>2, <1>3, <1>4, <1>5, <1>6

\* The operators of the configuration do not change with the rest.
LEMMA SameConfiguration ==
  ASSUME conf' = conf
  PROVE  /\ Imu' = Imu /\ Attitude' = Attitude /\ Parts' = Parts
         /\ PoseTf' = PoseTf /\ OriginTf' = OriginTf
         /\ HasStandard("imu/odometry")' = HasStandard("imu/odometry")
  BY DEF Imu, Attitude, Parts, PoseTf, OriginTf, HasStandard, HasAttitude, HasPublisher

\* A new odometry is of an instant whose logs have all come.
LEMMA CallOdometry ==
  ASSUME PublisherInv, NEW l \in Fused, NEW s \in Stamps, NEW position \in BOOLEAN,
         NEW others, NEW odos, Call(l, s, position, others, odos), odos # {}
  PROVE  /\ message'[Imu] \in positions' /\ message'[Imu] \in Stamps
         /\ message'["EKF_NAV"] = message'[Imu]
         /\ \A k \in Parts : message'[k] = message'[Imu] /\ <<k, message'[Imu]>> \in seen'
<1>1. PICK msg \in odos : TRUE
  OBVIOUS
<1>2. msg \in OdoMessages(message', position)
  BY <1>1 DEF Call
<1>3. position /\ message'[Imu] = message'["EKF_NAV"] /\ message'[Imu] = message'[Attitude]
  BY <1>2, OdometryMessage
<1>4. message'[Imu] \in positions' /\ message'[Imu] \in Stamps
  BY <1>3, CallKeeps DEF Call, KeptInv
<1>5. \A k \in Parts : message'[k] = message'[Imu]
  BY <1>3 DEF Parts
<1>6. \A k \in Parts : <<k, message'[Imu]>> \in seen'
  <2>1. message'[Imu] # 0
    BY <1>4 DEF Stamps
  <2>2. KeptInv'
    BY CallKeeps
  <2> QED
    BY <1>5, <2>1, <2>2, PartsAreFused DEF KeptInv
<1> QED
  BY <1>3, <1>4, <1>5, <1>6

\* One call keeps the invariant.
LEMMA CallStep ==
  ASSUME PublisherInv, NEW l \in Fused, NEW s \in Stamps, NEW position \in BOOLEAN,
         NEW others, NEW odos, Call(l, s, position, others, odos)
  PROVE  PublisherInv'
<1> DEFINE instant == message'[Imu]
<1>1. /\ conf' = conf /\ <<l, s>> \notin seen /\ seen' = seen \cup {<<l, s>>}
      /\ message' = [message EXCEPT ![l] = s]
      /\ message' \in [Fused -> 0..MaxStamp]
      /\ s \in 1..MaxStamp
      /\ seen' \subseteq Fused \X Stamps
      /\ positions' \subseteq Stamps /\ positions \subseteq positions'
      /\ KeptInv' /\ OrderInv'
  BY CallKeeps
<1>2. /\ Imu' = Imu /\ Attitude' = Attitude /\ Parts' = Parts
      /\ PoseTf' = PoseTf /\ OriginTf' = OriginTf
      /\ HasStandard("imu/odometry")' = HasStandard("imu/odometry")
  BY <1>1, SameConfiguration
<1>3. /\ published' = others \cup odos
      /\ odos = {} => UNCHANGED <<origin, tf, odometries>>
      /\ odos # {} =>
           /\ origin' = IF origin = 0 THEN message'["EKF_NAV"] ELSE origin
           /\ tf' \subseteq tf \cup {PoseTf, OriginTf}
           /\ odometries' = [odometries EXCEPT ![instant] = @ + 1]
  BY CallEffect
<1>4. odos # {} =>
        /\ instant \in positions' /\ instant \in Stamps
        /\ message'["EKF_NAV"] = instant
        /\ \A k \in Parts : message'[k] = instant /\ <<k, instant>> \in seen'
  BY CallOdometry
<1>5. Parts \subseteq Fused
  BY PartsAreFused
<1>6. odometries' \in [Stamps -> Nat] /\ \A t \in Stamps : odometries'[t] >= odometries[t]
  BY <1>3, <1>4 DEF PublisherInv, PublisherTypeOK
<1> HIDE DEF instant
<1>7. PublisherTypeOK'
  <2>1. Typed(odos)
    <3> SUFFICES ASSUME NEW msg \in odos
                 PROVE  msg.from \subseteq (Fused \cup Simple) \X (0..MaxStamp)
      BY DEF Typed
    <3>1. msg = Message("imu/odometry", Parts \cup {"EKF_EULER"}, message')
      BY OdometryMessage DEF Call
    <3>2. Parts \cup {"EKF_EULER"} \subseteq Fused
      BY <1>5 DEF Fused
    <3> QED
      BY <1>1, <3>1, <3>2 DEF Message
  <2>2. \A msg \in published' : msg.from \subseteq (Fused \cup Simple) \X (0..MaxStamp)
    BY <1>3, <2>1 DEF Typed, Call
  <2>3. origin' \in 0..MaxStamp
    BY <1>3, <1>4 DEF PublisherInv, PublisherTypeOK, Stamps
  <2>4. tf' \subseteq {"init", "odom", "base"} \X {"init", "odom", "base"}
    BY <1>3 DEF PublisherInv, PublisherTypeOK, PoseTf, OriginTf
  <2>5. last' \in Fused
    BY <1>5 DEF Call, Keep, Receive, Parts, PublisherInv, PublisherTypeOK
  <2>6. inPosition' \in BOOLEAN
    BY DEF Call
  <2>7. conf' \in Configurations
    BY <1>1 DEF PublisherInv, PublisherTypeOK
  <2> QED
    BY <1>1, <1>6, <2>2, <2>3, <2>4, <2>5, <2>6, <2>7 DEF PublisherTypeOK
<1>8. OdometryInv'
  <2> SUFFICES ASSUME NEW t \in Stamps, odometries'[t] > 0, NEW k \in Parts
               PROVE  <<k, t>> \in seen'
    BY <1>2 DEF OdometryInv, Stamps
  <2>1. CASE odos # {} /\ t = instant
    BY <1>4, <2>1
  <2>2. CASE odos = {} \/ t # instant
    <3>1. odometries'[t] = odometries[t]
      BY <1>3, <1>4, <2>2 DEF PublisherInv, PublisherTypeOK
    <3> QED
      BY <1>1, <3>1 DEF PublisherInv, OdometryInv
  <2> QED
    BY <2>1, <2>2
<1>9. tf' \subseteq {PoseTf, OriginTf}'
  BY <1>2, <1>3 DEF PublisherInv
<1>10. OdometryIsOneInstant'
  <2> SUFFICES ASSUME NEW msg \in published', msg.topic = "imu/odometry"
               PROVE  \E t \in positions' :
                        /\ {<<Imu, t>>, <<Attitude, t>>, <<"EKF_NAV", t>>} \subseteq msg.from
                        /\ {<<Imu, t>>, <<Attitude, t>>, <<"EKF_NAV", t>>} \subseteq seen'
    BY <1>2 DEF OdometryIsOneInstant
  <2>1. msg \in odos
    BY <1>3 DEF Call
  <2>2. {<<Imu, instant>>, <<Attitude, instant>>, <<"EKF_NAV", instant>>} \subseteq msg.from
    BY <2>1, OdometryMessage DEF Call, instant
  <2>3. {<<Imu, instant>>, <<Attitude, instant>>, <<"EKF_NAV", instant>>} \subseteq seen'
    BY <1>4, <2>1 DEF Parts
  <2> QED
    BY <1>4, <2>1, <2>2, <2>3
<1>11. OdometryUnlessQuatLast'
  <2> SUFFICES ASSUME NEW t \in Stamps,
                      HasStandard("imu/odometry"), ~conf.udp, Complete(t)',
                      last' # "EKF_QUAT", \A x \in seen' : x[2] <= t
               PROVE  odometries'[t] > 0
    BY <1>1, <1>2 DEF OdometryUnlessQuatLast, Stamps
  <2>1. t \in positions' /\ \A k \in Parts : <<k, t>> \in seen'
    BY <1>2 DEF Complete, Parts
  <2>2. s = t
    <3>1. s <= t /\ t \in 1..MaxStamp
      BY <1>1 DEF Stamps
    <3>2. PICK k \in Parts : <<k, t>> \in seen' /\ (k # l \/ t = s)
      BY <2>1 DEF Parts, Imu
    <3>3. t = s \/ <<k, t>> \in seen
      BY <1>1, <3>2
    <3>4. \A x \in seen : x[2] <= s
      BY DEF Call, Keep, Receive
    <3>5. t = s \/ t <= s
      BY <3>3, <3>4
    <3> QED
      BY <1>1, <3>1, <3>5
  <2>3. CASE l \in Parts
    <3>1. last' = l
      BY <2>3 DEF Call, Keep, Receive, Parts
    <3>2. \A k \in Parts : message'[k] = t
      BY <1>1, <1>5, <2>1 DEF OrderInv
    <3>3. position
      <4>1. message'["EKF_NAV"] = t
        BY <3>2 DEF Parts
      <4>2. inPosition'
        BY <1>1, <2>1, <4>1 DEF KeptInv
      <4> QED
        BY <4>2 DEF Call
    <3>4. message'[Imu] = message'["EKF_NAV"] /\ message'[Imu] = message'[Attitude]
      BY <3>2 DEF Parts
    <3>5. odos # {} /\ instant = t
      <4>1. odos = OdoMessages(message', position)
        BY <3>1 DEF Call
      <4> QED
        BY <3>2, <3>3, <3>4, <4>1, OdometryIsMade DEF Parts, instant
    <3>6. odometries'[t] = odometries[t] + 1 /\ odometries[t] \in Nat
      BY <1>3, <3>5 DEF PublisherInv, PublisherTypeOK
    <3> QED
      BY <3>6
  <2>4. CASE l \notin Parts
    <3>1. last' = last /\ positions' = positions
      BY <2>4 DEF Call, Keep, Receive, Parts
    <3>2. Complete(t)
      BY <1>1, <2>1, <2>4, <3>1 DEF Complete, Parts
    <3>3. odometries[t] > 0
      BY <1>1, <3>1, <3>2 DEF PublisherInv, OdometryUnlessQuatLast
    <3> QED
      BY <1>6, <3>3 DEF PublisherInv, PublisherTypeOK
  <2> QED
    BY <2>3, <2>4
<1>12. OriginIsPosition'
  <2> SUFFICES ASSUME origin' # 0
               PROVE  origin' \in positions' /\ odometries'[origin'] > 0
    BY DEF OriginIsPosition
  <2>1. CASE odos # {} /\ origin = 0
    <3>1. origin' = instant /\ instant \in Stamps
      BY <1>3, <1>4, <2>1
    <3>2. odometries'[instant] = odometries[instant] + 1 /\ odometries[instant] \in Nat
      BY <1>3, <2>1, <3>1 DEF PublisherInv, PublisherTypeOK
    <3> QED
      BY <1>4, <2>1, <3>1, <3>2
  <2>2. CASE odos = {} \/ origin # 0
    <3>1. origin' = origin
      BY <1>3, <2>2
    <3>2. origin \in positions /\ odometries[origin] > 0 /\ origin \in Stamps
      BY <3>1 DEF PublisherInv, OriginIsPosition, PublisherTypeOK
    <3>3. odometries'[origin] >= odometries[origin] /\ odometries[origin] \in Nat
          /\ odometries'[origin] \in Nat
      BY <1>6, <3>2 DEF PublisherInv, PublisherTypeOK
    <3> QED
      BY <1>1, <3>1, <3>2, <3>3
  <2> QED
    BY <2>1, <2>2
<1> QED
  BY <1>1, <1>7, <1>8, <1>9, <1>10, <1>11, <1>12 DEF PublisherInv

\* A call that makes a second odometry of an instant is for a spare log: a log the
\* odometry is made from would be of that instant, and had come already.
LEMMA CallRepeats ==
  ASSUME PublisherInv, NEW l \in Fused, NEW s \in Stamps, NEW position \in BOOLEAN,
         NEW others, NEW odos, Call(l, s, position, others, odos),
         NEW t \in Stamps, odometries[t] > 0, odometries'[t] # odometries[t]
  PROVE  \E x \in seen' \ seen : x[1] \in Spare
<1>1. <<l, s>> \notin seen /\ seen' = seen \cup {<<l, s>>} /\ message' = [message EXCEPT ![l] = s]
  BY CallKeeps
<1>2. odos # {}
  BY CallEffect
<1>3. \A k \in Parts : message'[k] = message'[Imu]
  BY <1>2, CallOdometry
<1>4. t = message'[Imu]
  BY <1>2, CallEffect, CallOdometry DEF PublisherInv, PublisherTypeOK
<1>5. l \notin Parts
  <2> SUFFICES ASSUME l \in Parts PROVE FALSE
    OBVIOUS
  <2>1. message'[l] = s
    BY <1>1 DEF PublisherInv, PublisherTypeOK
  <2>2. s = t
    BY <1>3, <1>4, <2>1
  <2> QED
    BY <1>1, <2>2 DEF PublisherInv, OdometryInv
<1>6. l \in conf.out
  BY <1>5 DEF Call, HasPublisher, TopicOf, Fused, Parts
<1> QED
  BY <1>1, <1>5, <1>6 DEF Spare, Parts

-----------------------------------------------------------------------------
(***************************************************************************)
(* Every log that is kept leads to such a call.                            *)
(***************************************************************************)

\* The messages besides the odometry have other topics, and the types.
LEMMA OtherMessages ==
  ASSUME NEW m \in [Fused -> 0..MaxStamp], NEW l \in Fused, NEW s \in 0..MaxStamp,
         NEW msg, msg \in Raw(l, s) \cup TempMessages(m) \cup ImuMessages(m) \cup VelMessages(m)
                            \cup {x \in {Message("imu/pos_ecef", {"EKF_NAV"}, m)} :
                                    HasStandard("imu/pos_ecef")}
  PROVE  /\ msg.topic # "imu/odometry"
         /\ msg.from \subseteq (Fused \cup Simple) \X (0..MaxStamp)
<1>1. CASE msg \in Raw(l, s)
  BY <1>1 DEF Raw, TopicOf, Fused
<1>2. ASSUME NEW topic \in {"imu/temp", "imu/data", "imu/velocity", "imu/pos_ecef"},
             NEW logs \in SUBSET Fused, msg = Message(topic, logs, m)
      PROVE  /\ msg.topic # "imu/odometry"
             /\ msg.from \subseteq (Fused \cup Simple) \X (0..MaxStamp)
  BY <1>2 DEF Message
<1>3. {Imu} \subseteq Fused /\ {Imu, "EKF_QUAT"} \subseteq Fused /\ {"EKF_NAV"} \subseteq Fused
      /\ {Imu, Attitude, "EKF_NAV"} \subseteq Fused
  BY DEF Imu, Attitude, Fused
<1>4. CASE msg \notin Raw(l, s)
  <2>1. \/ msg = Message("imu/temp", {Imu}, m)
        \/ msg = Message("imu/data", {Imu, "EKF_QUAT"}, m)
        \/ msg = Message("imu/velocity", {Imu, Attitude, "EKF_NAV"}, m)
        \/ msg = Message("imu/pos_ecef", {"EKF_NAV"}, m)
    BY <1>4 DEF TempMessages, ImuMessages, VelMessages
  <2> QED
    BY <1>2, <1>3, <2>1
<1> QED
  BY <1>1, <1>4

ACall ==
  \E l \in Fused, s \in Stamps, position \in BOOLEAN :
    \E others, odos : Call(l, s, position, others, odos)

\* A log that is not kept: nothing changes but what is published.
NoCall ==
  /\ UNCHANGED <<conf, message, inPosition, origin, tf, seen, positions, last, odometries>>
  /\ Typed(published') /\ \A msg \in published' : msg.topic # "imu/odometry"

LEMMA NextIsCall ==
  ASSUME PublisherInv, Next
  PROVE  ACall \/ NoCall
<1> DEFINE Ecef(m) == {x \in {Message("imu/pos_ecef", {"EKF_NAV"}, m)} :
                         HasStandard("imu/pos_ecef")}
           All(l, s, m) == Raw(l, s) \cup TempMessages(m) \cup ImuMessages(m) \cup VelMessages(m)
                             \cup Ecef(m)
<1>1. ASSUME NEW l \in Fused, NEW s \in Stamps, Keep(l, s)
      PROVE  \A others : others \subseteq All(l, s, message')
               => Typed(others) /\ \A msg \in others : msg.topic # "imu/odometry"
  <2>1. message' \in [Fused -> 0..MaxStamp] /\ s \in 0..MaxStamp
    BY <1>1, PublisherAssumption DEF Keep, PublisherInv, PublisherTypeOK, PublisherAssumption, Stamps
  <2>2. \A msg \in All(l, s, message') :
          /\ msg.topic # "imu/odometry"
          /\ msg.from \subseteq (Fused \cup Simple) \X (0..MaxStamp)
    BY <2>1, OtherMessages
  <2> HIDE DEF All
  <2> QED
    BY <2>2 DEF Typed
<1>2. inPosition \in BOOLEAN
  BY DEF PublisherInv, PublisherTypeOK
<1>3. ASSUME NEW l \in Fused, NEW s \in Stamps, PublishImu(l, s)
      PROVE  ACall
  <2> DEFINE others == Raw(l, s) \cup TempMessages(message') \cup ImuMessages(message')
                         \cup VelMessages(message')
             odos == OdoMessages(message', inPosition)
  <2>1. /\ Keep(l, s) /\ HasPublisher(l) /\ l \in {"IMU_DATA", "IMU_SHORT"}
        /\ PublishAll(others \cup odos, message')
        /\ inPosition' = inPosition /\ positions' = positions
    BY <1>3 DEF PublishImu
  <2>2. Typed(others) /\ \A msg \in others : msg.topic # "imu/odometry"
    BY <1>1, <2>1
  <2> HIDE DEF others
  <2>3. Call(l, s, inPosition, others, odos)
    BY <2>1, <2>2 DEF Call
  <2> QED
    BY <1>2, <2>1, <2>3 DEF ACall
<1>4. ASSUME NEW s \in Stamps, PublishEuler(s)
      PROVE  ACall
  <2> DEFINE others == Raw("EKF_EULER", s) \cup VelMessages(message')
             odos == OdoMessages(message', inPosition)
  <2>1. /\ Keep("EKF_EULER", s) /\ HasPublisher("EKF_EULER") /\ "EKF_EULER" \in Fused
        /\ PublishAll(others \cup odos, message')
        /\ inPosition' = inPosition /\ positions' = positions
    BY <1>4 DEF PublishEuler, Fused
  <2>2. Typed(others) /\ \A msg \in others : msg.topic # "imu/odometry"
    BY <1>1, <2>1
  <2> HIDE DEF others
  <2>3. Call("EKF_EULER", s, inPosition, others, odos)
    BY <2>1, <2>2 DEF Call
  <2> QED
    BY <1>2, <2>1, <2>3 DEF ACall
<1>5. ASSUME NEW s \in Stamps, PublishQuat(s)
      PROVE  ACall
  <2> DEFINE others == Raw("EKF_QUAT", s) \cup ImuMessages(message') \cup VelMessages(message')
  <2>1. /\ Keep("EKF_QUAT", s) /\ HasPublisher("EKF_QUAT") /\ "EKF_QUAT" \in Fused
        /\ PublishAll(others, message')
        /\ inPosition' = inPosition /\ positions' = positions
    BY <1>5 DEF PublishQuat, Fused
  <2>2. Typed(others) /\ \A msg \in others : msg.topic # "imu/odometry"
    BY <1>1, <2>1
  <2> HIDE DEF others
  <2>3. others \cup {} = others
    OBVIOUS
  <2>4. Call("EKF_QUAT", s, inPosition, others, {})
    BY <2>1, <2>2, <2>3 DEF Call
  <2> QED
    BY <1>2, <2>1, <2>4 DEF ACall
<1>6. ASSUME NEW s \in Stamps, NEW position \in BOOLEAN, PublishNav(s, position)
      PROVE  ACall
  <2> DEFINE others == Raw("EKF_NAV", s) \cup Ecef(message') \cup VelMessages(message')
             odos == OdoMessages(message', position)
  <2>1. /\ Keep("EKF_NAV", s) /\ "EKF_NAV" \in Fused
        /\ PublishAll(others \cup odos, message')
        /\ inPosition' = position
        /\ positions' = IF position THEN positions \cup {s} ELSE positions
    BY <1>6 DEF PublishNav, Fused
  <2>2. Typed(others) /\ \A msg \in others : msg.topic # "imu/odometry"
    BY <1>1, <2>1
  <2> HIDE DEF others
  <2>3. Call("EKF_NAV", s, position, others, odos)
    BY <2>1, <2>2 DEF Call
  <2> QED
    BY <2>1, <2>3 DEF ACall
<1>7. ASSUME NEW l \in Fused, Ignore(l)
      PROVE  NoCall
  BY <1>7 DEF Ignore, NoCall, Typed
<1>8. ASSUME NEW l \in Simple, PublishSimple(l)
      PROVE  NoCall
  <2>1. PICK held \in SUBSET (Also(l) \cap MayHoldBack) :
          published' = Raw(l, 0) \cup {[topic |-> t, from |-> {<<l, 0>>}] : t \in Also(l) \ held}
    BY <1>8 DEF PublishSimple
  <2>2. \A msg \in published' : msg.topic # "imu/odometry" /\ msg.from = {<<l, 0>>}
    <3>1. \A msg \in Raw(l, 0) : msg.topic # "imu/odometry" /\ msg.from = {<<l, 0>>}
      BY DEF Raw, TopicOf, Simple
    <3>2. "imu/odometry" \notin Also(l)
      BY DEF Also
    <3> QED
      BY <2>1, <3>1, <3>2
  <2>3. 0 \in 0..MaxStamp
    BY PublisherAssumption DEF PublisherAssumption
  <2> QED
    BY <1>8, <2>2, <2>3 DEF PublishSimple, NoCall, Typed
<1> QED
  BY <1>3, <1>4, <1>5, <1>6, <1>7, <1>8 DEF Next

LEMMA PublisherStep ==
  ASSUME PublisherInv, [Next]_vars
  PROVE  PublisherInv'
<1>1. CASE ACall
  BY <1>1, CallStep DEF ACall
<1>2. CASE NoCall
  <2>1. /\ Imu' = Imu /\ Attitude' = Attitude /\ Parts' = Parts
        /\ PoseTf' = PoseTf /\ OriginTf' = OriginTf
        /\ HasStandard("imu/odometry")' = HasStandard("imu/odometry")
    BY <1>2, SameConfiguration DEF NoCall
  <2>2. PublisherTypeOK'
    BY <1>2 DEF NoCall, PublisherInv, PublisherTypeOK, Typed, Stamps
  <2>3. KeptInv' /\ OrderInv' /\ OdometryInv' /\ tf' \subseteq {PoseTf, OriginTf}'
    BY <1>2, <2>1 DEF NoCall, PublisherInv, KeptInv, OrderInv, OdometryInv, Stamps
  <2>4. OdometryIsOneInstant'
    BY <1>2 DEF NoCall, OdometryIsOneInstant
  <2>5. OriginIsPosition'
    BY <1>2 DEF NoCall, PublisherInv, OriginIsPosition, Stamps
  <2>6. OdometryUnlessQuatLast'
    BY <1>2, <2>1 DEF NoCall, PublisherInv, OdometryUnlessQuatLast, Complete, Stamps
  <2> QED
    BY <2>2, <2>3, <2>4, <2>5, <2>6 DEF PublisherInv
<1>3. CASE UNCHANGED vars
  <2>1. Imu' = Imu /\ Attitude' = Attitude /\ Parts' = Parts
        /\ PoseTf' = PoseTf /\ OriginTf' = OriginTf
        /\ HasStandard("imu/odometry")' = HasStandard("imu/odometry")
    BY <1>3, SameConfiguration DEF vars
  <2>2. PublisherTypeOK' /\ KeptInv' /\ OrderInv' /\ OdometryInv' /\ tf' \subseteq {PoseTf, OriginTf}'
    BY <1>3, <2>1 DEF vars, PublisherInv, PublisherTypeOK, KeptInv, OrderInv, OdometryInv, Stamps
  <2>3. OdometryIsOneInstant' /\ OriginIsPosition'
    BY <1>3, <2>1 DEF vars, PublisherInv, OdometryIsOneInstant, OriginIsPosition, Stamps
  <2>4. OdometryUnlessQuatLast'
    BY <1>3, <2>1 DEF vars, PublisherInv, OdometryUnlessQuatLast, Complete, Stamps
  <2> QED
    BY <2>2, <2>3, <2>4 DEF PublisherInv
<1> QED
  BY <1>1, <1>2, <1>3, NextIsCall

LEMMA PublisherStart == Init => PublisherInv
<1> SUFFICES ASSUME Init
             PROVE  PublisherInv
  OBVIOUS
<1> USE DEF Init
<1>1. MaxStamp \in Nat \ {0} /\ 0 \in 0..MaxStamp
  BY PublisherAssumption DEF PublisherAssumption
<1>2. PublisherTypeOK
  BY <1>1 DEF PublisherTypeOK, Fused
<1>3. KeptInv /\ OrderInv /\ OdometryInv
  BY DEF KeptInv, OrderInv, OdometryInv, Fused
<1>4. OdometryIsOneInstant /\ OriginIsPosition
  BY DEF OdometryIsOneInstant, OriginIsPosition
<1>5. OdometryUnlessQuatLast
  BY DEF OdometryUnlessQuatLast, Complete
<1> QED
  BY <1>2, <1>3, <1>4, <1>5 DEF PublisherInv

LEMMA PublisherAlways == Spec => []PublisherInv
<1>1. PublisherInv /\ [Next]_vars => PublisherInv'
  BY PublisherStep
<1> QED
  BY <1>1, PublisherStart, PTL DEF Spec

-----------------------------------------------------------------------------

\* The publisher keeps its types: each message is made from logs and stamps.
THEOREM TypeCorrect == Spec => []PublisherTypeOK
<1>1. PublisherInv => PublisherTypeOK
  BY DEF PublisherInv
<1> QED
  BY <1>1, PublisherAlways, PTL

\* An odometry message is put together from logs of one instant, at which the
\* filter was in full navigation mode (processRosOdoMessage).
THEOREM OneInstant == Spec => []OdometryIsOneInstant
<1>1. PublisherInv => OdometryIsOneInstant
  BY DEF PublisherInv
<1> QED
  BY <1>1, PublisherAlways, PTL

\* An instant has a second odometry message only through a spare log, over UDP too
\* (processRosOdoMessage from each of the handlers).
THEOREM RepeatsAreSpare == Spec => OnlySpareLogsRepeat
<1>1. ASSUME PublisherInv, [Next]_vars, NEW t \in Stamps,
             odometries[t] > 0, odometries'[t] # odometries[t]
      PROVE  \E x \in seen' \ seen : x[1] \in Spare
  <2>1. ~(UNCHANGED odometries)
    BY <1>1
  <2>2. Next
    BY <1>1, <2>1 DEF vars
  <2>3. ACall
    BY <1>1, <2>1, <2>2, NextIsCall DEF NoCall
  <2> QED
    BY <1>1, <2>3, CallRepeats DEF ACall
<1>2. PublisherInv /\ [Next]_vars
        => [\A s \in Stamps : (odometries[s] > 0 /\ odometries'[s] # odometries[s])
              => \E x \in seen' \ seen : x[1] \in Spare]_vars
  BY <1>1
<1> QED
  BY <1>2, PublisherAlways, PTL DEF Spec, OnlySpareLogsRepeat

\* Over an ordered link an instant whose logs are complete has its odometry, when
\* the quaternion was not the last of them (publish, processRosOdoMessage).
THEOREM UnlessQuatLast == Spec => []OdometryUnlessQuatLast
<1>1. PublisherInv => OdometryUnlessQuatLast
  BY DEF PublisherInv
<1> QED
  BY <1>1, PublisherAlways, PTL

\* The UTM origin is a position given in full navigation mode (createRosOdoMessage).
THEOREM OriginValid == Spec => []OriginIsPosition
<1>1. PublisherInv => OriginIsPosition
  BY DEF PublisherInv
<1> QED
  BY <1>1, PublisherAlways, PTL

\* The transforms form a forest, in every configuration (createRosOdoMessage,
\* fillTransform).
THEOREM TransformsAreForest == Spec => []TransformsFormForest
<1>1. PublisherInv => TransformsFormForest
  <2> SUFFICES ASSUME tf \subseteq {PoseTf, OriginTf}
               PROVE  TransformsFormForest
    BY DEF PublisherInv
  <2>1. CASE Imu = "IMU_SHORT"
    <3>1. tf \subseteq {<<"odom", "base">>, <<"init", "odom">>}
      BY <2>1 DEF PoseTf, OriginTf
    <3> QED
      BY <3>1 DEF TransformsFormForest
  <2>2. CASE Imu # "IMU_SHORT"
    <3>1. tf \subseteq {<<"base", "odom">>, <<"init", "base">>}
      BY <2>2 DEF PoseTf, OriginTf
    <3> QED
      BY <3>1 DEF TransformsFormForest
  <2> QED
    BY <2>1, <2>2
<1> QED
  BY <1>1, PublisherAlways, PTL
=============================================================================
