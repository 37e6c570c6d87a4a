---------------------------- MODULE DeviceCommands ----------------------------
(***************************************************************************)
(* The commands the driver sends to the INS through sbgECom, what they do  *)
(* to the device's settings, and what a command function returns.          *)
(*                                                                         *)
(* The device is external: it keeps each setting in a working copy (ram)   *)
(* and in non-volatile memory (flash), and does not have every setting.    *)
(***************************************************************************)
EXTENDS Naturals

CONSTANTS
  Keys,      \* the settings a command reads or writes (sections and outputs)
  Values,    \* the values of a setting
  Refused,   \* the settings this device does not have
  NoKey,     \* the key field of a command about no setting
  NoValue    \* the value field of a command or an answer that carries none

ASSUME DeviceAssumption ==
  /\ Refused \subseteq Keys
  /\ NoKey \notin Keys
  /\ NoValue \notin Values

VARIABLES
  call,      \* the command being run, or the last one
  reply,     \* what the last command function returned
  done,      \* the device has carried out the current command (history)
  heard,     \* the values the device gave for the current command (history)
  ram,       \* the device's working settings
  flash      \* the device's saved settings

deviceVars == <<ram, flash>>

GetCmd(k)    == [op |-> "get",  key |-> k,     val |-> NoValue]
SetCmd(k, v) == [op |-> "set",  key |-> k,     val |-> v]
SaveCmd      == [op |-> "save", key |-> NoKey, val |-> NoValue]

Command == {GetCmd(k) : k \in Keys}
             \cup {SetCmd(kv[1], kv[2]) : kv \in Keys \X Values}
             \cup {SaveCmd}

\* The SbgErrorCode values the command functions return.
Code == {"NO_ERROR", "ERROR", "TIME_OUT", "INVALID_FRAME",
         "INVALID_PARAMETER", "WRITE_ERROR"}

Reply == [code : Code, val : Values \cup {NoValue}]

IsRefused(c) == c.key \in Refused

DeviceTypeOK ==
  /\ call \in Command
  /\ reply \in Reply
  /\ done \in BOOLEAN
  /\ heard \subseteq Values
  /\ ram \in [Keys -> Values]
  /\ flash \in [Keys -> Values]

-----------------------------------------------------------------------------
(***************************************************************************)
(* The device.                                                             *)
(***************************************************************************)

\* What carrying out a command does to the working settings ...
RamAfter(c) == IF c.op = "set" THEN [ram EXCEPT ![c.key] = c.val] ELSE ram

\* ... and to the saved ones: SBG_ECOM_SAVE_SETTINGS writes them, then reboots
\* the device, which comes back with what it saved.
FlashAfter(c) == IF c.op = "save" THEN ram ELSE flash

\* No command has been run yet; the device may hold settings it has not saved.
DeviceInit ==
  /\ call = SaveCmd
  /\ reply = [code |-> "ERROR", val |-> NoValue]
  /\ done = FALSE
  /\ heard = {}
  /\ ram \in [Keys -> Values]
  /\ flash \in [Keys -> Values]
=============================================================================
