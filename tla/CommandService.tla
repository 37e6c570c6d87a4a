---------------------------- MODULE CommandService ----------------------------
(***************************************************************************)
(* What the command layer of sbgECom promises to its callers (the driver's *)
(* ConfigApplier and SbgDevice): one command at a time, whose effect on    *)
(* the device, if any, takes place between the call and its return, and    *)
(* whose verdict is one the device gave to this very command.              *)
(***************************************************************************)
EXTENDS DeviceCommands

VARIABLE status  \* "idle", or "busy" while a command function is running

serviceVars == <<status, call, reply, done, heard, ram, flash>>

\* The device loses power and restarts with its saved settings.
PowerCycle ==
  /\ ram' = flash
  /\ UNCHANGED <<status, call, reply, done, heard, flash>>

-----------------------------------------------------------------------------
(***************************************************************************)
(* One command.                                                            *)
(***************************************************************************)

Issue(c) ==
  /\ status = "idle"
  /\ status' = "busy"
  /\ call' = c
  /\ done' = FALSE
  /\ heard' = {}
  /\ UNCHANGED <<reply, deviceVars>>

\* The device carries out the command, possibly again for a retry.
Execute ==
  /\ status = "busy"
  /\ ~IsRefused(call)
  /\ done' = TRUE
  /\ heard' = IF call.op = "get" THEN heard \cup {ram[call.key]} ELSE heard
  /\ ram' = RamAfter(call)
  /\ flash' = FlashAfter(call)
  /\ UNCHANGED <<status, call, reply>>

\* Success is only reported for a command carried out, with a value read from
\* the device; INVALID_PARAMETER only for a setting the device does not have;
\* any other error says nothing of whether the command took place.
Return(r) ==
  /\ status = "busy"
  /\ r.code = "NO_ERROR" =>
       /\ done
       /\ call.op = "get" => r.val \in heard
  /\ r.code = "INVALID_PARAMETER" => IsRefused(call)
  /\ r.code # "NO_ERROR" => r.val = NoValue
  /\ status' = "idle"
  /\ reply' = r
  /\ UNCHANGED <<call, done, heard, deviceVars>>

ServiceInit == status = "idle" /\ DeviceInit

ServiceNext ==
  \/ \E c \in Command : Issue(c)
  \/ Execute
  \/ \E r \in Reply : Return(r)
  \/ PowerCycle

ServiceSpec == ServiceInit /\ [][ServiceNext]_serviceVars
=============================================================================
