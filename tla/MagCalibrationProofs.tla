------------------------ MODULE MagCalibrationProofs ------------------------
(***************************************************************************)
(* Proofs about MagCalibration, for every number of acquisitions.          *)
(***************************************************************************)
EXTENDS MagCalibration, TLAPS

\* The results of an acquisition, and memory never written, are of the type of
\* the results the node keeps; and what Respond makes, of that of a response.
LEMMA ResultsType ==
  ASSUME NEW n \in Acquisitions \cup {Garbage}, NEW q \in BOOLEAN
  PROVE  [from |-> n, good |-> q] \in Results
  BY MagAssumption DEF MagAssumption, Results, Origin, Factory, Garbage, Acquisitions

LEMMA ResponseType ==
  ASSUME NEW s \in Services, NEW b \in BOOLEAN
  PROVE  [srv |-> s, success |-> b] \in [srv : Services \cup {"none"}, success : BOOLEAN]
  OBVIOUS

\* The calibration node and the device only ever hold values of their types
\* (SbgDevice, the processMagCalibration and saveMagCalibration services).
THEOREM TypeCorrect == Spec => []MagTypeOK
<1> USE MagAssumption DEF MagAssumption, Acquisitions
<1>1. Init => MagTypeOK
  <2> SUFFICES ASSUME Init PROVE MagTypeOK
    OBVIOUS
  <2>1. mag_calib_results_ \in Results
    BY DEF Init, Results, Origin, Factory, Garbage
  <2>2. active \in Origin /\ saved \in Origin
    BY DEF Init, Origin, Factory, Garbage
  <2>3. response \in [srv : Services \cup {"none"}, success : BOOLEAN]
    BY DEF Init, Services
  <2>4. /\ mag_calibration_ongoing_ \in BOOLEAN
        /\ mag_calibration_done_ \in BOOLEAN
        /\ endFailed \in BOOLEAN
        /\ isGood \in [Acquisitions -> BOOLEAN]
    BY DEF Init
  <2>5. starts \in 0..MaxStarts /\ acquisition \in 0..MaxStarts /\ latest \in 0..MaxStarts
    BY DEF Init
  <2>6. pc \in {"ready", "saving"}
    BY DEF Init
  <2> QED
    BY <2>1, <2>2, <2>3, <2>4, <2>5, <2>6 DEF MagTypeOK
<1>2. MagTypeOK /\ [Next]_vars => MagTypeOK'
  <2> SUFFICES ASSUME MagTypeOK, [Next]_vars
               PROVE  MagTypeOK'
    OBVIOUS
  <2> USE DEF MagTypeOK, Services, Respond, deviceVars, nodeVars
  <2>1. CASE StartCalibration
    BY <2>1 DEF StartCalibration
  <2>2. CASE EndCalibration
    <3>1. mag_calib_results_' \in Results
      BY <2>2, ResultsType DEF EndCalibration
    <3>2. latest' \in 0..MaxStarts /\ endFailed' \in BOOLEAN
      BY <2>2 DEF EndCalibration
    <3>3. response' \in [srv : Services \cup {"none"}, success : BOOLEAN]
      <4>1. \/ response' = [srv |-> "end", success |-> TRUE]
            \/ response' = [srv |-> "end", success |-> FALSE]
        BY <2>2 DEF EndCalibration
      <4>2. [srv |-> "end", success |-> TRUE] \in [srv : Services \cup {"none"}, success : BOOLEAN]
        BY ResponseType
      <4>3. [srv |-> "end", success |-> FALSE] \in [srv : Services \cup {"none"}, success : BOOLEAN]
        BY ResponseType
      <4> QED
        BY ONLY <4>1, <4>2, <4>3
    <3>4. mag_calibration_ongoing_' \in BOOLEAN /\ mag_calibration_done_' \in BOOLEAN
      BY <2>2 DEF EndCalibration
    <3>5. UNCHANGED <<pc, deviceVars>>
      BY <2>2 DEF EndCalibration
    <3> QED
      BY <3>1, <3>2, <3>3, <3>4, <3>5
  <2>3. CASE RefuseSave
    BY <2>3 DEF RefuseSave
  <2>4. CASE Upload
    <3>1. active' \in Origin
      BY <2>4 DEF Upload, Results
    <3>2. pc' \in {"ready", "saving"}
      BY <2>4 DEF Upload
    <3>3. response' \in [srv : Services \cup {"none"}, success : BOOLEAN]
      <4>1. response' = response \/ response' = [srv |-> "save", success |-> FALSE]
        BY <2>4 DEF Upload
      <4>2. response \in [srv : Services \cup {"none"}, success : BOOLEAN]
        OBVIOUS
      <4>3. [srv |-> "save", success |-> FALSE] \in [srv : Services \cup {"none"}, success : BOOLEAN]
        BY ResponseType
      <4> QED
        BY ONLY <4>1, <4>2, <4>3
    <3> QED
      BY <2>4, <3>1, <3>2, <3>3 DEF Upload
  <2>5. CASE Save
    BY <2>5 DEF Save
  <2>6. CASE NodeRestart
    <3>1. mag_calib_results_' \in Results
      <4>1. PICK q \in BOOLEAN : mag_calib_results_' = [from |-> Garbage, good |-> q]
        BY <2>6 DEF NodeRestart, NewNode
      <4> QED
        BY <4>1, ResultsType
    <3>2. response' \in [srv : Services \cup {"none"}, success : BOOLEAN]
      BY <2>6 DEF NodeRestart
    <3>3. /\ mag_calibration_ongoing_' \in BOOLEAN
          /\ mag_calibration_done_' \in BOOLEAN
          /\ endFailed' \in BOOLEAN
      BY <2>6 DEF NodeRestart, NewNode
    <3>4. latest' \in 0..MaxStarts /\ pc' \in {"ready", "saving"}
      BY <2>6 DEF NodeRestart, NewNode
    <3>5. UNCHANGED deviceVars
      BY <2>6 DEF NodeRestart
    <3> QED
      BY <3>1, <3>2, <3>3, <3>4, <3>5
  <2>7. CASE PowerCycle
    BY <2>7 DEF PowerCycle
  <2>8. CASE UNCHANGED vars
    BY <2>8 DEF vars
  <2> QED
    BY <2>1, <2>2, <2>3, <2>4, <2>5, <2>6, <2>7, <2>8 DEF Next
<1> QED
  BY <1>1, <1>2, PTL DEF Spec

-----------------------------------------------------------------------------

\* What the node holds of an acquisition is the quality the device gave it.
ResultsTrue ==
  mag_calib_results_.from \in Acquisitions =>
    mag_calib_results_.good = isGood[mag_calib_results_.from]

GoodInv == ResultsTrue /\ OnlyGoodInUse

\* A calibration the device judged invalid is never in use nor in the flash
\* (uploadMagCalibrationToDevice refuses it, and later results replace earlier
\* ones as a whole).
THEOREM GoodInUse == Spec => []OnlyGoodInUse
<1> USE MagAssumption DEF MagAssumption
<1>1. Init => GoodInv
  BY DEF Init, GoodInv, ResultsTrue, OnlyGoodInUse, Acquisitions, Factory, Garbage
<1>2. MagTypeOK /\ GoodInv /\ [Next]_vars => GoodInv'
  <2> SUFFICES ASSUME MagTypeOK, GoodInv, [Next]_vars
               PROVE  GoodInv'
    OBVIOUS
  <2> USE DEF GoodInv, ResultsTrue, OnlyGoodInUse, deviceVars, nodeVars
  <2>1. CASE StartCalibration
    BY <2>1 DEF StartCalibration
  <2>2. CASE EndCalibration
    <3>1. CASE UNCHANGED mag_calib_results_
      BY <2>2, <3>1 DEF EndCalibration
    <3>2. CASE mag_calib_results_' = [from |-> acquisition, good |-> isGood[acquisition]]
      BY <2>2, <3>2 DEF EndCalibration
    <3> QED
      BY <2>2, <3>1, <3>2 DEF EndCalibration
  <2>3. CASE RefuseSave
    BY <2>3 DEF RefuseSave
  <2>4. CASE Upload
    BY <2>4 DEF Upload
  <2>5. CASE Save
    BY <2>5 DEF Save
  <2>6. CASE NodeRestart
    BY <2>6 DEF NodeRestart, NewNode, Garbage, Acquisitions
  <2>7. CASE PowerCycle
    BY <2>7 DEF PowerCycle
  <2>8. CASE UNCHANGED vars
    BY <2>8 DEF vars
  <2> QED
    BY <2>1, <2>2, <2>3, <2>4, <2>5, <2>6, <2>7, <2>8 DEF Next
<1> QED
  BY <1>1, <1>2, TypeCorrect, PTL DEF Spec, GoodInv

-----------------------------------------------------------------------------

\* While the save service is between the upload and the save, the device uses
\* what the node has sent, unless a power cycle has undone it.
SentInv == pc = "saving" => active \in {mag_calib_results_.from, saved}

\* The save writes what the node holds and has just sent, or changes nothing
\* (saveMagCalibration, uploadMagCalibrationToDevice).
THEOREM SavesOnlyUploaded == Spec => SavesUploaded
<1> USE DEF SentInv, deviceVars, nodeVars
<1>1. Init => SentInv
  BY DEF Init
<1>2. SentInv /\ [Next]_vars => SentInv' /\ (saved' # saved => saved' = mag_calib_results_.from)
  <2> SUFFICES ASSUME SentInv, [Next]_vars
               PROVE  SentInv' /\ (saved' # saved => saved' = mag_calib_results_.from)
    OBVIOUS
  <2>1. CASE StartCalibration
    BY <2>1 DEF StartCalibration
  <2>2. CASE EndCalibration
    BY <2>2 DEF EndCalibration
  <2>3. CASE RefuseSave
    BY <2>3 DEF RefuseSave
  <2>4. CASE Upload
    BY <2>4 DEF Upload
  <2>5. CASE Save
    BY <2>5 DEF Save
  <2>6. CASE NodeRestart
    BY <2>6 DEF NodeRestart, NewNode
  <2>7. CASE PowerCycle
    BY <2>7 DEF PowerCycle
  <2>8. CASE UNCHANGED vars
    BY <2>8 DEF vars
  <2> QED
    BY <2>1, <2>2, <2>3, <2>4, <2>5, <2>6, <2>7, <2>8 DEF Next
<1>3. SentInv /\ [Next]_vars => [saved' # saved => saved' = mag_calib_results_.from]_vars
  BY <1>2
<1> QED
  BY <1>1, <1>2, <1>3, PTL DEF Spec, SavesUploaded

\* After a calibration was ended without an error, the node holds its results.
LatestInv == (mag_calibration_done_ /\ ~endFailed) => mag_calib_results_.from = latest

\* What the save service puts in use is the newest calibration the device
\* computed, unless the last attempt to end one failed (processMagCalibration).
THEOREM UploadsOnlyLatest == Spec => UploadsLatest
<1> USE DEF LatestInv, deviceVars, nodeVars
<1>1. Init => LatestInv
  BY DEF Init
<1>2. LatestInv /\ [Next]_vars =>
        LatestInv' /\ ((active' # active /\ ~endFailed) => active' \in {latest, saved})
  <2> SUFFICES ASSUME LatestInv, [Next]_vars
               PROVE  LatestInv' /\ ((active' # active /\ ~endFailed) => active' \in {latest, saved})
    OBVIOUS
  <2>1. CASE StartCalibration
    BY <2>1 DEF StartCalibration
  <2>2. CASE EndCalibration
    <3>1. UNCHANGED active
      BY <2>2 DEF EndCalibration
    <3>2. CASE endFailed' = TRUE
      BY <3>1, <3>2
    <3>3. CASE /\ mag_calib_results_' = [from |-> acquisition, good |-> isGood[acquisition]]
               /\ latest' = acquisition
      BY <3>1, <3>3
    <3> QED
      BY <2>2, <3>2, <3>3 DEF EndCalibration
  <2>3. CASE RefuseSave
    BY <2>3 DEF RefuseSave
  <2>4. CASE Upload
    BY <2>4 DEF Upload
  <2>5. CASE Save
    BY <2>5 DEF Save
  <2>6. CASE NodeRestart
    BY <2>6 DEF NodeRestart, NewNode
  <2>7. CASE PowerCycle
    BY <2>7 DEF PowerCycle
  <2>8. CASE UNCHANGED vars
    BY <2>8 DEF vars
  <2> QED
    BY <2>1, <2>2, <2>3, <2>4, <2>5, <2>6, <2>7, <2>8 DEF Next
<1>3. LatestInv /\ [Next]_vars =>
        [(active' # active /\ ~endFailed) => active' \in {latest, saved}]_vars
  BY <1>2
<1> QED
  BY <1>1, <1>2, <1>3, PTL DEF Spec, UploadsLatest
=============================================================================
