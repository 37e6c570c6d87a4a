---------------------------- MODULE CommandChannel ----------------------------
(***************************************************************************)
(* How the sbgECom library runs one command over a serial or UDP link:     *)
(* numTrials times it sends the request frame and waits up to a time out   *)
(* for the answer, which sbgEComReceiveCmd2 and sbgEComWaitForAck pick out *)
(* of the frames received by message id alone.  A frame that is damaged on *)
(* the way is dropped by its reader's CRC check.                           *)
(***************************************************************************)
EXTENDS DeviceCommands, Sequences

CONSTANTS
  Ids,        \* the message ids of the settings' commands
  IdOf,       \* the message id a setting is read and written with
  SaveId,     \* the message id of SBG_ECOM_CMD_SETTINGS_ACTION
  NumTrials,  \* pHandle->numTrials
  Links,      \* the kinds of link: may an answer outlive the time out of its trial?
  Capacity    \* frames the link holds in one direction

ASSUME ChannelAssumption ==
  /\ IdOf \in [Keys -> Ids]
  /\ SaveId \notin Ids
  /\ NumTrials \in Nat \ {0}
  /\ Links \subseteq BOOLEAN
  /\ Capacity \in Nat \ {0}

VARIABLES
  pc,      \* "idle", "send" (a trial starts) or "wait" (for its answer)
  trial,   \* trials made before this one
  tx,      \* request frames between the host and the device
  rx,      \* answer frames between the device and the host
  late     \* this link is of the kind where an answer may outlive its trial

linkVars == <<tx, rx>>
vars == <<pc, trial, tx, rx, late, call, reply, done, heard, ram, flash>>

IdOfCmd(c) == IF c.op = "save" THEN SaveId ELSE IdOf[c.key]

\* A request on the link; "own" (history) tells whether it was sent for the
\* command now being run or for an earlier one.
Request == [cmd : Command, own : BOOLEAN]

\* An answer: an ACK names a message id and an error code, a data frame carries
\* the value under its own message id.  Logs are no answers: they are handed to
\* the driver as they come (sbgEComReceiveAnyCmd2).
Answer == [kind : {"ack"}, id : Ids \cup {SaveId}, code : {"NO_ERROR", "INVALID_PARAMETER"},
           val : {NoValue}, own : BOOLEAN]
            \cup [kind : {"data"}, id : Ids, code : {"NO_ERROR"}, val : Values, own : BOOLEAN]

Ack(c, code, own) ==
  [kind |-> "ack", id |-> IdOfCmd(c), code |-> code, val |-> NoValue, own |-> own]

Data(c, v, own) ==
  [kind |-> "data", id |-> IdOfCmd(c), code |-> "NO_ERROR", val |-> v, own |-> own]

Disown(q) == [i \in 1..Len(q) |-> [q[i] EXCEPT !.own = FALSE]]

ChannelTypeOK ==
  /\ pc \in {"idle", "send", "wait"}
  /\ trial \in 0..(NumTrials - 1)
  /\ tx \in Seq(Request)
  /\ rx \in Seq(Answer)
  /\ late \in Links
  /\ DeviceTypeOK

-----------------------------------------------------------------------------
(***************************************************************************)
(* The library.                                                            *)
(***************************************************************************)

\* A command function is called.
Begin(c) ==
  /\ pc = "idle"
  /\ pc' = "send"
  /\ trial' = 0
  /\ call' = c
  /\ done' = FALSE
  /\ heard' = {}
  /\ tx' = Disown(tx)
  /\ rx' = Disown(rx)
  /\ UNCHANGED <<late, reply, deviceVars>>

End(code, v) ==
  /\ pc' = "idle"
  /\ reply' = [code |-> code, val |-> v]
  /\ UNCHANGED trial

\* Mutant: one trial more than numTrials.
NextTrialOneMore(code) ==
  \/ /\ trial < NumTrials
     /\ pc' = "send"
     /\ trial' = trial + 1
     /\ UNCHANGED reply
  \/ /\ trial >= NumTrials
     /\ End(code, NoValue)

\* Mutant: the trials are not counted.
NextTrialUncounted(code) ==
  /\ pc' = "send"
  /\ UNCHANGED <<trial, reply>>

\* A trial that did not succeed is followed by the next one, if any is left.
NextTrial(code) ==
  \/ /\ trial + 1 < NumTrials
     /\ pc' = "send"
     /\ trial' = trial + 1
     /\ UNCHANGED reply
  \/ /\ trial + 1 >= NumTrials
     /\ End(code, NoValue)

SendRequest ==
  /\ pc = "send"
  /\ Len(tx) < Capacity
  /\ tx' = Append(tx, [cmd |-> call, own |-> TRUE])
  /\ pc' = "wait"
  /\ UNCHANGED <<trial, rx, late, call, reply, done, heard, deviceVars>>

\* Mutant: the interface's error is not reported.
SendFailsSilently ==
  /\ pc = "send"
  /\ End("NO_ERROR", NoValue)
  /\ UNCHANGED <<linkVars, late, call, done, heard, deviceVars>>

\* The interface refuses the frame: no other trial is made.
SendFails ==
  /\ pc = "send"
  /\ End("WRITE_ERROR", NoValue)
  /\ UNCHANGED <<linkVars, late, call, done, heard, deviceVars>>

\* sbgEComReceiveCmd2 skips this answer: a getter waits for its own message id,
\* or for an ACK naming it; a setter (sbgEComWaitForAck) for any ACK.
Skipped(a) ==
  IF call.op = "get" THEN a.id # IdOfCmd(call) ELSE a.kind # "ack"

\* Mutants: the error code of an ACK is not read; nor is the message it names.
CodeOfNotRead(a) ==
  IF call.op = "get" \/ a.id = IdOfCmd(call) THEN "NO_ERROR" ELSE "INVALID_FRAME"

CodeOfAnyAck(a) ==
  IF call.op = "get"
    THEN IF a.kind = "ack" /\ a.code = "NO_ERROR" THEN "ERROR" ELSE a.code
    ELSE a.code

\* The error code a trial gets from an answer that is not skipped.
CodeOf(a) ==
  IF call.op = "get"
    THEN IF a.kind = "ack" /\ a.code = "NO_ERROR" THEN "ERROR" ELSE a.code
    ELSE IF a.id = IdOfCmd(call) THEN a.code ELSE "INVALID_FRAME"

\* Mutant: the answer stays in the reception buffer.
ReceiveAnswerKept ==
  /\ pc = "wait"
  /\ rx # <<>>
  /\ LET a == Head(rx)
     IN \/ Skipped(a) /\ rx' = Tail(rx) /\ UNCHANGED <<pc, trial, reply>>
        \/ ~Skipped(a) /\ CodeOf(a) = "NO_ERROR" /\ End("NO_ERROR", a.val) /\ UNCHANGED rx
        \/ ~Skipped(a) /\ CodeOf(a) # "NO_ERROR" /\ NextTrial(CodeOf(a)) /\ UNCHANGED rx
  /\ UNCHANGED <<tx, late, call, done, heard, deviceVars>>

\* One frame is read from the link: it is skipped, it ends the call, or it ends
\* the trial.
ReceiveAnswer ==
  /\ pc = "wait"
  /\ rx # <<>>
  /\ rx' = Tail(rx)
  /\ LET a == Head(rx)
     IN \/ Skipped(a) /\ UNCHANGED <<pc, trial, reply>>
        \/ ~Skipped(a) /\ CodeOf(a) = "NO_ERROR" /\ End("NO_ERROR", a.val)
        \/ ~Skipped(a) /\ CodeOf(a) # "NO_ERROR" /\ NextTrial(CodeOf(a))
  /\ UNCHANGED <<tx, late, call, done, heard, deviceVars>>

\* Mutant: no answer is taken for a refusal.
TimeOutAsRefusal ==
  /\ pc = "wait"
  /\ late \/ (tx = <<>> /\ rx = <<>>)
  /\ NextTrial("INVALID_PARAMETER")
  /\ UNCHANGED <<linkVars, late, call, done, heard, deviceVars>>

TimeOut ==
  /\ pc = "wait"
  /\ late \/ (tx = <<>> /\ rx = <<>>)
  /\ NextTrial("TIME_OUT")
  /\ UNCHANGED <<linkVars, late, call, done, heard, deviceVars>>

-----------------------------------------------------------------------------
(***************************************************************************)
(* The link and the device.                                                *)
(***************************************************************************)

DropRequest ==
  /\ tx # <<>>
  /\ tx' = Tail(tx)
  /\ UNCHANGED <<pc, trial, rx, late, call, reply, done, heard, deviceVars>>

DropAnswer ==
  /\ rx # <<>>
  /\ rx' = Tail(rx)
  /\ UNCHANGED <<pc, trial, tx, late, call, reply, done, heard, deviceVars>>

\* The device handles the next request and answers it.
Handle ==
  /\ tx # <<>>
  /\ Len(rx) < Capacity
  /\ tx' = Tail(tx)
  /\ LET c   == Head(tx).cmd
         own == Head(tx).own
     IN \/ /\ IsRefused(c)
           /\ rx' = Append(rx, Ack(c, "INVALID_PARAMETER", own))
           /\ UNCHANGED <<done, heard, deviceVars>>
        \/ /\ ~IsRefused(c)
           /\ rx' = Append(rx, IF c.op = "get" THEN Data(c, ram[c.key], own)
                                               ELSE Ack(c, "NO_ERROR", own))
           /\ done' = (done \/ own)
           /\ heard' = IF own /\ c.op = "get" THEN heard \cup {ram[c.key]} ELSE heard
           /\ ram' = RamAfter(c)
           /\ flash' = FlashAfter(c)
  /\ UNCHANGED <<pc, trial, late, call, reply>>

\* Power is lost: whatever the device had not read yet is lost with it.
PowerLost ==
  /\ ram' = flash
  /\ tx' = <<>>
  /\ UNCHANGED <<pc, trial, rx, late, call, reply, done, heard, flash>>

Init ==
  /\ pc = "idle"
  /\ trial = 0
  /\ tx = <<>>
  /\ rx = <<>>
  /\ late \in Links
  /\ DeviceInit

Library == SendRequest \/ SendFails \/ ReceiveAnswer \/ TimeOut

Next ==
  \/ \E c \in Command : Begin(c)
  \/ Library
  \/ DropRequest
  \/ DropAnswer
  \/ Handle
  \/ PowerLost

Spec == Init /\ [][Next]_vars

\* The library's thread keeps running, its clock advances, and the device reads
\* what reaches it; no fairness on what the link does.
FairSpec == Spec /\ WF_vars(Library) /\ WF_vars(Handle)

-----------------------------------------------------------------------------
(***************************************************************************)
(* Properties.                                                             *)
(***************************************************************************)

\* "\return SBG_NO_ERROR if the command has been executed successfully": when a
\* command function reports success, the device has carried out that very
\* command, however many trials, losses and answers to earlier trials there
\* were (sbgEComCmdOutputSetConf, sbgEComCmdSettingsAction).
SuccessMeansExecuted ==
  (pc = "idle" /\ reply.code = "NO_ERROR") => done

\* A getter that succeeds returns a value the device gave for that setting in
\* answer to that call, not an answer to another setting or to an older call
\* (sbgEComCmdOutputGetConf).
ReadIsOwnValue ==
  (pc = "idle" /\ reply.code = "NO_ERROR" /\ call.op = "get") => reply.val \in heard

\* INVALID_PARAMETER, which the driver takes to mean "not available for the
\* connected device", is only returned for a setting the device does not have.
RefusalIsGenuine ==
  (pc = "idle" /\ reply.code = "INVALID_PARAMETER") => IsRefused(call)

\* Nothing of a command is left on the link once its function has returned, so
\* that the next command cannot meet an answer to it (sbgEComReceiveCmd2).
QuietWhenIdle == pc = "idle" => tx = <<>> /\ rx = <<>>

\* Every command function returns (sbgEComReceiveCmd2 bounds each trial).
CommandReturns == pc # "idle" ~> pc = "idle"

\* The channel keeps the promise stated by CommandService.
Service == INSTANCE CommandService WITH status <- IF pc = "idle" THEN "idle" ELSE "busy"
ImplementsService == Service!ServiceSpec
=============================================================================
