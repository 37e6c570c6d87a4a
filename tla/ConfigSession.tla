---------------------------- MODULE ConfigSession ----------------------------
(***************************************************************************)
(* One run of the applier over the link itself: ConfigApplier's decisions  *)
(* driven by the answers CommandChannel delivers, where ConfigApplier has  *)
(* them from any service that keeps CommandService's promise.              *)
(***************************************************************************)
EXTENDS CommandChannel

CONSTANTS Order, Outputs, Want

\* The outputs share one message; each section has one of its own.
ASSUME SessionAssumption ==
  /\ Order \in Seq(Keys)
  /\ Outputs \subseteq Keys
  /\ Want \in [Keys -> Values]
  /\ \A k \in Keys, section \in Keys \ Outputs : IdOf[k] = IdOf[section] => k = section

VARIABLES phase, step, reboot_needed_, lostAt, wasClean

LinkStatus == IF pc = "idle" THEN "idle" ELSE "busy"

Applier == INSTANCE ConfigApplier WITH status <- LinkStatus

applierVars == <<phase, step, reboot_needed_, lostAt, wasClean>>
sessionVars == <<vars, applierVars>>

SessionInit == Init /\ Applier!Init

Call     == \E c \in Command : Begin(c) /\ Applier!Calls(c)
Continue == pc = "idle" /\ Applier!Decide /\ UNCHANGED vars
LinkStep == Library \/ DropRequest \/ DropAnswer \/ Handle

SessionNext ==
  \/ Call
  \/ Continue
  \/ LinkStep /\ UNCHANGED applierVars
  \/ PowerLost /\ lostAt' = step /\ UNCHANGED <<phase, step, reboot_needed_, wasClean>>

SessionSpec == SessionInit /\ [][SessionNext]_sessionVars

-----------------------------------------------------------------------------

\* "\return SBG_NO_ERROR if the command has been executed successfully", of the
\* writes and the save the applier makes (sbgEComWaitForAck).
WriteMeansExecuted ==
  (pc = "idle" /\ reply.code = "NO_ERROR" /\ call.op # "get") => done

\* A run of the applier over a link whose answers come in time is a run over the
\* command service: its every step is a step of ConfigApplier or of nobody
\* (applyConfiguration, sbgEComCmdOutputGetConf, sbgEComWaitForAck).
PromptImplementsApplier ==
  (late \/ Applier!Init) /\ [][late \/ Applier!Next]_(Applier!allVars)

\* sbgEComCmdOutputGetConf returns the configuration of the output it is asked
\* about: a value the device gave for it, or at least the one the device has, as long
\* as it does not lose power.
ReadMeansCurrent ==
  (pc = "idle" /\ reply.code = "NO_ERROR" /\ call.op = "get" /\ lostAt = 0)
    => reply.val \in heard \cup {ram[call.key]}
=============================================================================
