---------------------------- MODULE MagCalibration ----------------------------
(***************************************************************************)
(* The sbg_device_mag node: the services sbg/mag_calibration, which starts *)
(* and ends an on-board calibration in turn, and sbg/mag_calibration_save, *)
(* which uploads the results and saves the settings.  Every command they   *)
(* send may fail, whether the device has carried it out or not.            *)
(*                                                                         *)
(* The device is external: it records points for the acquisition started   *)
(* last and computes a result of good or of invalid quality from them.     *)
(***************************************************************************)
EXTENDS Naturals

CONSTANT MaxStarts   \* bound: acquisitions the device starts

ASSUME MagAssumption == MaxStarts \in Nat \ {0}

VARIABLES
  mag_calibration_ongoing_,
  mag_calibration_done_,
  mag_calib_results_,  \* the acquisition the results come from, and their quality
  pc,                  \* "ready" or, within the save service, "saving"
  response,            \* of the service call that ended last
  starts,              \* acquisitions started by the device so far
  acquisition,         \* the one the device holds points of, 0 for none
  isGood,              \* the quality of each acquisition
  active,              \* the calibration in use on the device
  saved,               \* the calibration in its flash
  latest,              \* the acquisition whose results it received last, or 0 (history)
  endFailed            \* the last attempt to end an acquisition failed (history)

nodeVars   == <<mag_calibration_ongoing_, mag_calibration_done_, mag_calib_results_, pc>>
deviceVars == <<starts, acquisition, isGood, active, saved>>
vars == <<nodeVars, response, deviceVars, latest, endFailed>>

Acquisitions == 1..MaxStarts

\* Where a calibration comes from: an acquisition, the factory, or memory that
\* was never written.
Factory == 0
Garbage == MaxStarts + 1
Origin  == 0..Garbage

Results == [from : Origin \ {Factory}, good : BOOLEAN]

Services == {"start", "end", "save"}

MagTypeOK ==
  /\ mag_calibration_ongoing_ \in BOOLEAN
  /\ mag_calibration_done_ \in BOOLEAN
  /\ mag_calib_results_ \in Results
  /\ pc \in {"ready", "saving"}
  /\ response \in [srv : Services \cup {"none"}, success : BOOLEAN]
  /\ starts \in 0..MaxStarts
  /\ acquisition \in 0..MaxStarts
  /\ isGood \in [Acquisitions -> BOOLEAN]
  /\ active \in Origin
  /\ saved \in Origin
  /\ latest \in 0..MaxStarts
  /\ endFailed \in BOOLEAN

Respond(srv, success) == response' = [srv |-> srv, success |-> success]

-----------------------------------------------------------------------------
(***************************************************************************)
(* The node.                                                               *)
(***************************************************************************)

\* Mutant: the results start as the factory's.
NewNodeFactory ==
  /\ mag_calibration_ongoing_' = FALSE
  /\ mag_calibration_done_' = FALSE
  /\ mag_calib_results_' = [from |-> Factory, good |-> TRUE]
  /\ pc' = "ready"
  /\ latest' = 0
  /\ endFailed' = FALSE

\* The members of a new SbgDevice; mag_calib_results_ is not initialised.
NewNode ==
  /\ mag_calibration_ongoing_' = FALSE
  /\ mag_calibration_done_' = FALSE
  /\ \E q \in BOOLEAN : mag_calib_results_' = [from |-> Garbage, good |-> q]
  /\ pc' = "ready"
  /\ latest' = 0
  /\ endFailed' = FALSE

\* processMagCalibration, first call: startMagCalibration.  The driver takes the
\* calibration to be ongoing whether or not it started.
StartCalibration ==
  /\ pc = "ready"
  /\ ~mag_calibration_ongoing_
  /\ \E executed \in BOOLEAN, ok \in BOOLEAN :
       /\ ok => executed
       /\ executed => starts < MaxStarts
       /\ starts' = IF executed THEN starts + 1 ELSE starts
       /\ acquisition' = IF executed THEN starts + 1 ELSE acquisition
       /\ Respond("start", ok)
  /\ mag_calibration_ongoing_' = TRUE
  /\ UNCHANGED <<mag_calibration_done_, mag_calib_results_, pc, isGood, active, saved,
                 latest, endFailed>>

\* Mutant: results are kept, not replaced, once there are any.
EndCalibrationKeeps ==
  /\ pc = "ready"
  /\ mag_calibration_ongoing_
  /\ acquisition # 0
  /\ mag_calib_results_' = IF latest = 0
                             THEN [from |-> acquisition, good |-> isGood[acquisition]]
                             ELSE mag_calib_results_
  /\ latest' = acquisition
  /\ endFailed' = FALSE
  /\ Respond("end", TRUE)
  /\ mag_calibration_ongoing_' = FALSE
  /\ mag_calibration_done_' = TRUE
  /\ UNCHANGED <<pc, deviceVars>>

\* processMagCalibration, second call: endMagCalibration.  The driver takes the
\* calibration to be done whether or not it received results.
EndCalibration ==
  /\ pc = "ready"
  /\ mag_calibration_ongoing_
  /\ \/ /\ acquisition # 0
        /\ mag_calib_results_' = [from |-> acquisition, good |-> isGood[acquisition]]
        /\ latest' = acquisition
        /\ endFailed' = FALSE
        /\ Respond("end", TRUE)
     \/ /\ endFailed' = TRUE
        /\ Respond("end", FALSE)
        /\ UNCHANGED <<mag_calib_results_, latest>>
  /\ mag_calibration_ongoing_' = FALSE
  /\ mag_calibration_done_' = TRUE
  /\ UNCHANGED <<pc, deviceVars>>

\* saveMagCalibration while an acquisition is ongoing, before any, or with
\* results of invalid quality.
RefuseSave ==
  /\ pc = "ready"
  /\ \/ mag_calibration_ongoing_
     \/ ~mag_calibration_done_
     \/ ~mag_calib_results_.good
  /\ Respond("save", FALSE)
  /\ UNCHANGED <<nodeVars, deviceVars, latest, endFailed>>

\* Mutants: the quality is not looked at; the settings are saved although the
\* results could not be sent.
UploadAnyQuality ==
  /\ pc = "ready"
  /\ ~mag_calibration_ongoing_
  /\ mag_calibration_done_
  /\ active' = mag_calib_results_.from
  /\ pc' = "saving"
  /\ UNCHANGED <<mag_calibration_ongoing_, mag_calibration_done_, mag_calib_results_, response,
                 starts, acquisition, isGood, saved, latest, endFailed>>

UploadThenSaves ==
  /\ pc = "ready"
  /\ ~mag_calibration_ongoing_
  /\ mag_calibration_done_
  /\ mag_calib_results_.good
  /\ \E executed \in BOOLEAN :
       active' = IF executed THEN mag_calib_results_.from ELSE active
  /\ pc' = "saving"
  /\ UNCHANGED <<mag_calibration_ongoing_, mag_calibration_done_, mag_calib_results_, response,
                 starts, acquisition, isGood, saved, latest, endFailed>>

\* saveMagCalibration: uploadMagCalibrationToDevice sends the results.
Upload ==
  /\ pc = "ready"
  /\ ~mag_calibration_ongoing_
  /\ mag_calibration_done_
  /\ mag_calib_results_.good
  /\ \E executed \in BOOLEAN, ok \in BOOLEAN :
       /\ ok => executed
       /\ active' = IF executed THEN mag_calib_results_.from ELSE active
       /\ \/ ok /\ pc' = "saving" /\ UNCHANGED response
          \/ ~ok /\ Respond("save", FALSE) /\ UNCHANGED pc
  /\ UNCHANGED <<mag_calibration_ongoing_, mag_calibration_done_, mag_calib_results_,
                 starts, acquisition, isGood, saved, latest, endFailed>>

\* ... and then saves the settings, which reboots the device.  How that ended is
\* only logged: the call succeeds.
Save ==
  /\ pc = "saving"
  /\ \/ saved' = active /\ acquisition' = 0
     \/ UNCHANGED <<saved, acquisition>>
  /\ pc' = "ready"
  /\ Respond("save", TRUE)
  /\ UNCHANGED <<mag_calibration_ongoing_, mag_calibration_done_, mag_calib_results_,
                 starts, isGood, active, latest, endFailed>>

\* The node is stopped and started again.
NodeRestart ==
  /\ NewNode
  /\ response' = [srv |-> "none", success |-> FALSE]
  /\ UNCHANGED deviceVars

\* The device loses power.
PowerCycle ==
  /\ active' = saved
  /\ acquisition' = 0
  /\ UNCHANGED <<nodeVars, response, starts, isGood, saved, latest, endFailed>>

Init ==
  /\ mag_calibration_ongoing_ = FALSE
  /\ mag_calibration_done_ = FALSE
  /\ mag_calib_results_ \in [from : {Garbage}, good : BOOLEAN]
  /\ pc = "ready"
  /\ response = [srv |-> "none", success |-> FALSE]
  /\ starts = 0
  /\ acquisition = 0
  /\ isGood \in [Acquisitions -> BOOLEAN]
  /\ active = Factory
  /\ saved = Factory
  /\ latest = 0
  /\ endFailed = FALSE

Next ==
  \/ StartCalibration
  \/ EndCalibration
  \/ RefuseSave
  \/ Upload
  \/ Save
  \/ NodeRestart
  \/ PowerCycle

Spec == Init /\ [][Next]_vars

-----------------------------------------------------------------------------
(***************************************************************************)
(* Properties.                                                             *)
(***************************************************************************)

\* A calibration the device judged invalid is never put in use nor saved: the
\* results of a later, invalid acquisition replace those of a good one, and are
\* then refused by uploadMagCalibrationToDevice.
OnlyGoodInUse == \A c \in {active, saved} \cap Acquisitions : isGood[c]

\* As long as the attempts to end an acquisition succeed, what the save service
\* sends is the newest results: the calibration in use changes to the latest one
\* received, or back to the saved one with a power cycle.
UploadsLatest ==
  [][(active' # active /\ ~endFailed) => active' \in {latest, saved}]_vars

\* The flash only ever changes to the calibration the node holds and has just
\* sent, whatever failed before and even if the device lost power in between.
SavesUploaded ==
  [][saved' # saved => saved' = mag_calib_results_.from]_vars

\* "No magnetometer calibration has been done": nothing is uploaded by a node
\* that has not received the results of any calibration.
NoUploadWithoutResults == active # Garbage
=============================================================================
