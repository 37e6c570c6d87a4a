---------------------------- MODULE ConfigApplier ----------------------------
(***************************************************************************)
(* ConfigApplier::applyConfiguration: section by section, then output by   *)
(* output, read the device's setting, write the wanted one when it         *)
(* differs, and at the end save the settings if anything was written.      *)
(* The driver may be stopped and started again at any moment, and the      *)
(* device may lose power.                                                  *)
(***************************************************************************)
EXTENDS CommandService, Sequences

CONSTANTS
  Order,      \* the settings in the order applyConfiguration visits them
  Outputs,    \* those of them that configureOutput handles
  Want        \* the values loaded in the ConfigStore

ASSUME ApplierAssumption ==
  /\ Order \in Seq(Keys)
  /\ Keys = {Order[i] : i \in 1..Len(Order)}
  /\ Outputs \subseteq Keys
  /\ Want \in [Keys -> Values]

VARIABLES
  phase,            \* what the applier is about to do, or how it ended
  step,             \* the position in Order
  reboot_needed_,   \* a setting was written
  lostAt,           \* the position at which the device last lost power in this
                    \* run, 0 if it did not (history)
  wasClean          \* the device held and had saved Want at the start (history)

applierVars == <<phase, step, reboot_needed_, lostAt, wasClean>>
allVars     == <<serviceVars, applierVars>>

Supported == Keys \ Refused

Holds(settings) == \A k \in Supported : settings[k] = Want[k]

ApplierTypeOK ==
  /\ status \in {"idle", "busy"}
  /\ DeviceTypeOK
  /\ phase \in {"get", "got", "set", "applied", "save", "saved", "done", "threw"}
  /\ step \in 1..(Len(Order) + 1)
  /\ reboot_needed_ \in BOOLEAN
  /\ lostAt \in 0..(Len(Order) + 1)
  /\ wasClean \in BOOLEAN

Running == phase \notin {"done", "threw"}

-----------------------------------------------------------------------------
(***************************************************************************)
(* The applier.                                                            *)
(***************************************************************************)

\* Mutant: the position goes past the end.
GoToPastEnd(i, written) ==
  /\ step' = IF i <= Len(Order) THEN i ELSE i + 1
  /\ reboot_needed_' = written
  /\ phase' = IF i <= Len(Order) THEN "get" ELSE IF written THEN "save" ELSE "done"

\* Where the run goes on after setting i - 1: the next setting, the save, or
\* the end.
GoTo(i, written) ==
  /\ step' = i
  /\ reboot_needed_' = written
  /\ phase' = IF i <= Len(Order) THEN "get" ELSE IF written THEN "save" ELSE "done"

StartRun ==
  /\ GoTo(1, FALSE)
  /\ lostAt' = 0
  /\ wasClean' = (Holds(ram) /\ Holds(flash))

\* Mutant: what was written so far is saved before the exception leaves.
ThrowSaves ==
  /\ phase' = "save"
  /\ UNCHANGED <<step, reboot_needed_>>

Throw ==
  /\ phase' = "threw"
  /\ UNCHANGED <<step, reboot_needed_>>

\* Mutant: the value read is written instead of the wanted one.
CallsWithRead(c) ==
  /\ \/ phase = "get"  /\ c = GetCmd(Order[step]) /\ phase' = "got"
     \/ phase = "set"  /\ c = SetCmd(Order[step], reply.val) /\ phase' = "applied"
     \/ phase = "save" /\ c = SaveCmd /\ phase' = "saved"
  /\ UNCHANGED <<step, reboot_needed_, lostAt, wasClean>>

\* The command function the applier calls next.
Calls(c) ==
  /\ \/ phase = "get"  /\ c = GetCmd(Order[step]) /\ phase' = "got"
     \/ phase = "set"  /\ c = SetCmd(Order[step], Want[Order[step]]) /\ phase' = "applied"
     \/ phase = "save" /\ c = SaveCmd /\ phase' = "saved"
  /\ UNCHANGED <<step, reboot_needed_, lostAt, wasClean>>

\* Mutant: the setting is written without a comparison.
CompareNot(v) ==
  /\ v \in Values
  /\ phase' = "set"
  /\ UNCHANGED <<step, reboot_needed_>>

\* The comparison of the setting read with the wanted one.
Compare(v) ==
  \/ /\ v # Want[Order[step]]
     /\ phase' = "set"
     /\ UNCHANGED <<step, reboot_needed_>>
  \/ /\ v = Want[Order[step]]
     /\ GoTo(step + 1, reboot_needed_)

\* A getter has returned.  A section the device does not have is reported and
\* compared all the same: its local variable was never assigned, so that the
\* comparison reads whatever it holds.  configureOutput skips the output.
GetReturned ==
  /\ phase = "got"
  /\ \/ /\ reply.code = "NO_ERROR"
        /\ Compare(reply.val)
     \/ /\ reply.code = "INVALID_PARAMETER"
        /\ \/ /\ Order[step] \in Outputs
              /\ GoTo(step + 1, reboot_needed_)
           \/ /\ Order[step] \notin Outputs
              /\ \E garbage \in Values : Compare(garbage)
     \/ /\ reply.code \notin {"NO_ERROR", "INVALID_PARAMETER"}
        /\ Throw
  /\ UNCHANGED <<lostAt, wasClean>>

\* Mutants: a failed write is only logged; a written setting is read again.
SetReturnedLogs ==
  /\ phase = "applied"
  /\ GoTo(step + 1, reply.code = "NO_ERROR" \/ reboot_needed_)
  /\ UNCHANGED <<lostAt, wasClean>>

SetReturnedVerifies ==
  /\ phase = "applied"
  /\ GoTo(step, TRUE)
  /\ UNCHANGED <<lostAt, wasClean>>

\* A setter has returned.  Only a section may be refused.
SetReturned ==
  /\ phase = "applied"
  /\ \/ /\ reply.code = "NO_ERROR"
        /\ GoTo(step + 1, TRUE)
     \/ /\ reply.code = "INVALID_PARAMETER" /\ Order[step] \notin Outputs
        /\ GoTo(step + 1, reboot_needed_)
     \/ /\ \/ reply.code \notin {"NO_ERROR", "INVALID_PARAMETER"}
           \/ reply.code = "INVALID_PARAMETER" /\ Order[step] \in Outputs
        /\ Throw
  /\ UNCHANGED <<lostAt, wasClean>>

\* saveConfiguration only logs how the save ended.
SaveReturned ==
  /\ phase = "saved"
  /\ phase' = "done"
  /\ UNCHANGED <<step, reboot_needed_, lostAt, wasClean>>

Decide == GetReturned \/ SetReturned \/ SaveReturned

-----------------------------------------------------------------------------

\* The driver is started again, after it stopped or because it was killed: its
\* interface is opened afresh and applyConfiguration starts from the beginning.
Restart ==
  /\ StartRun
  /\ status' = "idle"
  /\ UNCHANGED <<call, reply, done, heard, deviceVars>>

DeviceReset ==
  /\ PowerCycle
  /\ lostAt' = step
  /\ UNCHANGED <<phase, step, reboot_needed_, wasClean>>

Init ==
  /\ ServiceInit
  /\ phase = IF Order = <<>> THEN "done" ELSE "get"
  /\ step = 1
  /\ reboot_needed_ = FALSE
  /\ lostAt = 0
  /\ wasClean = (Holds(ram) /\ Holds(flash))

Call     == \E c \in Command : Issue(c) /\ Calls(c)
Continue == status = "idle" /\ Decide /\ UNCHANGED serviceVars
Answer   == \E r \in Reply : Return(r) /\ UNCHANGED applierVars

Next ==
  \/ Call
  \/ Continue
  \/ Execute /\ UNCHANGED applierVars
  \/ Answer
  \/ Restart
  \/ DeviceReset

Spec == Init /\ [][Next]_allVars

\* The driver's thread runs on, and each command function returns.
Progress == Call \/ Continue \/ Answer
FairSpec == Spec /\ WF_allVars(Progress)

-----------------------------------------------------------------------------
(***************************************************************************)
(* Properties.                                                             *)
(***************************************************************************)

\* The settings whose write, or whose reading, a loss of power during this run
\* may have undone: those the run had reached by then.
MayBeLost == {k \in Keys : \E i \in 1..Len(Order) : i <= lostAt /\ k = Order[i]}

\* applyConfiguration, when it does not throw, leaves the device with every
\* wanted setting it has, whatever was retried, refused or found equal; when the
\* device lost power meanwhile, with those the run reached later.
DoneMeansApplied ==
  phase = "done" => \A k \in Supported \ MayBeLost : ram[k] = Want[k]

\* The driver writes nothing but wanted values: a setting changes to the wanted
\* value, or back to the saved one with a power cycle.
OnlyWantedWritten ==
  [][\A k \in Keys : ram'[k] # ram[k] => (ram'[k] = Want[k] \/ ram' = flash)]_allVars

\* A save leaves no setting behind but those a loss of power took back: it makes
\* permanent the wanted value of every setting, or, of one that the run had
\* reached when the device last lost power, at least keeps the value saved before.
\* So an exception between two settings, or a stopped driver, never gets half a
\* configuration into the flash; a loss of power in the middle of a run does, as
\* the run goes on and saves (applyConfiguration, saveConfiguration).
SavesAllButLost ==
  [][flash' # flash =>
       \A k \in Supported :
         flash'[k] = Want[k] \/ (k \in MayBeLost /\ flash'[k] = flash[k])]_allVars

\* Applying a configuration the device already has and has saved writes and
\* saves nothing, so that the device is not rebooted at each start of the driver,
\* even when it loses power meanwhile.
NoNeedlessSave == wasClean => (~reboot_needed_ /\ phase # "saved")

\* A run of applyConfiguration ends, by returning or by throwing, once the driver
\* is no longer restarted, however often the device loses power.
RunEnds == <>[][~Restart]_allVars => (Running ~> ~Running)
=============================================================================
