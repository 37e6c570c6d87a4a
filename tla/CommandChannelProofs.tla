------------------------ MODULE CommandChannelProofs ------------------------
(***************************************************************************)
(* Proofs about CommandChannel, for every device, number of trials and     *)
(* capacity of the link.                                                   *)
(***************************************************************************)
EXTENDS CommandChannel, SequenceTheorems, TLAPS

\* Disowning the frames of a link changes neither their number nor their types.
LEMMA DisownRequests ==
  ASSUME NEW q \in Seq(Request)
  PROVE  Disown(q) \in Seq(Request)
<1>1. \A i \in 1..Len(q) : [q[i] EXCEPT !.own = FALSE] \in Request
  <2>1. TAKE i \in 1..Len(q)
  <2>2. q[i] \in Request
    BY ElementOfSeq
  <2> QED
    BY <2>2 DEF Request
<1> QED
  BY <1>1 DEF Disown

LEMMA DisownAnswers ==
  ASSUME NEW q \in Seq(Answer)
  PROVE  Disown(q) \in Seq(Answer)
<1>1. \A i \in 1..Len(q) : [q[i] EXCEPT !.own = FALSE] \in Answer
  <2>1. TAKE i \in 1..Len(q)
  <2>2. q[i] \in Answer
    BY ElementOfSeq
  <2> QED
    BY <2>2 DEF Answer
<1> QED
  BY <1>1 DEF Disown

LEMMA DisownEmpty == Disown(<<>>) = <<>>
  BY DEF Disown

\* The fields of a command.
LEMMA CommandFields ==
  ASSUME NEW c \in Command
  PROVE  /\ c.op \in {"get", "set", "save"}
         /\ c.op \in {"get", "set"} <=> c.key \in Keys
         /\ c.op = "set" => c.val \in Values
         /\ c.op = "save" <=> c.key = NoKey
  BY DeviceAssumption DEF DeviceAssumption, Command, GetCmd, SetCmd, SaveCmd

\* What a device makes of a request it does not refuse.
LEMMA DeviceAnswer ==
  ASSUME DeviceTypeOK, NEW c \in Command, ~IsRefused(c), NEW own \in BOOLEAN
  PROVE  /\ RamAfter(c) \in [Keys -> Values]
         /\ FlashAfter(c) \in [Keys -> Values]
         /\ c.op = "get" => ram[c.key] \in Values /\ Data(c, ram[c.key], own) \in Answer
         /\ Ack(c, "NO_ERROR", own) \in Answer
<1>1. c.op = "get" => ram[c.key] \in Values
  BY CommandFields DEF DeviceTypeOK
<1>2. IdOfCmd(c) \in Ids \cup {SaveId} /\ (c.op = "get" => IdOfCmd(c) \in Ids)
  BY CommandFields, ChannelAssumption DEF ChannelAssumption, IdOfCmd
<1>3. c.op = "get" => Data(c, ram[c.key], own) \in Answer
  BY <1>1, <1>2 DEF Data, Answer
<1>4. Ack(c, "NO_ERROR", own) \in Answer
  BY <1>2 DEF Ack, Answer
<1>5. RamAfter(c) \in [Keys -> Values] /\ FlashAfter(c) \in [Keys -> Values]
  BY CommandFields DEF DeviceTypeOK, RamAfter, FlashAfter
<1> QED
  BY <1>1, <1>3, <1>4, <1>5

\* A trial's end, or the start of the next one, is within the types.
LEMMA NextTrialType ==
  ASSUME ChannelTypeOK, NEW code \in Code, NextTrial(code)
  PROVE  pc' \in {"idle", "send", "wait"} /\ trial' \in 0..(NumTrials - 1) /\ reply' \in Reply
  BY ChannelAssumption DEF ChannelAssumption, NextTrial, End, ChannelTypeOK, DeviceTypeOK, Reply

LEMMA AnswerCode ==
  ASSUME NEW a \in Answer
  PROVE  CodeOf(a) \in Code
  BY DEF Answer, CodeOf, Code

\* One step keeps the types.
LEMMA TypeStep ==
  ASSUME ChannelTypeOK, [Next]_vars
  PROVE  ChannelTypeOK'
<1> USE DEF ChannelTypeOK, DeviceTypeOK, linkVars, deviceVars
<1>1. ASSUME NEW c \in Command, Begin(c)
      PROVE  ChannelTypeOK'
  <2>1. tx' \in Seq(Request) /\ rx' \in Seq(Answer)
    BY <1>1, DisownRequests, DisownAnswers DEF Begin
  <2>2. pc' \in {"idle", "send", "wait"} /\ trial' \in 0..(NumTrials - 1)
    BY <1>1, ChannelAssumption DEF ChannelAssumption, Begin
  <2>3. call' \in Command /\ done' \in BOOLEAN /\ heard' \subseteq Values
    BY <1>1 DEF Begin
  <2>4. UNCHANGED <<reply, late, ram, flash>>
    BY <1>1 DEF Begin
  <2> QED
    BY <2>1, <2>2, <2>3, <2>4
<1>2. CASE SendRequest
  <2>1. [cmd |-> call, own |-> TRUE] \in Request
    BY DEF Request
  <2> QED
    BY <1>2, <2>1 DEF SendRequest
<1>3. CASE SendFails
  <2>1. [code |-> "WRITE_ERROR", val |-> NoValue] \in Reply
    BY DEF Reply, Code
  <2> QED
    BY <1>3, <2>1 DEF SendFails, End
<1>4. CASE ReceiveAnswer /\ Skipped(Head(rx))
  BY <1>4 DEF ReceiveAnswer
<1>5. CASE ReceiveAnswer /\ ~Skipped(Head(rx))
  <2>1. Head(rx) \in Answer /\ rx' \in Seq(Answer)
    BY <1>5 DEF ReceiveAnswer
  <2>2. CASE End("NO_ERROR", Head(rx).val)
    <3>1. [code |-> "NO_ERROR", val |-> Head(rx).val] \in Reply
      BY <2>1 DEF Reply, Code, Answer
    <3> QED
      BY <1>5, <2>1, <2>2, <3>1 DEF ReceiveAnswer, End
  <2>3. CASE NextTrial(CodeOf(Head(rx)))
    BY <1>5, <2>1, <2>3, AnswerCode, NextTrialType DEF ReceiveAnswer
  <2> QED
    BY <1>5, <2>2, <2>3 DEF ReceiveAnswer
<1>6. CASE TimeOut
  <2>1. "TIME_OUT" \in Code
    BY DEF Code
  <2> QED
    BY <1>6, <2>1, NextTrialType DEF TimeOut
<1>7. CASE DropRequest
  BY <1>7 DEF DropRequest
<1>8. CASE DropAnswer
  BY <1>8 DEF DropAnswer
<1>9. CASE Handle
  <2> DEFINE c == Head(tx).cmd
             own == Head(tx).own
  <2>1. c \in Command /\ own \in BOOLEAN /\ tx' \in Seq(Request)
    <3>1. tx # <<>> /\ tx' = Tail(tx)
      BY <1>9 DEF Handle
    <3>2. Head(tx) \in Request
      BY <3>1
    <3> QED
      BY <3>1, <3>2 DEF Request
  <2>2. CASE IsRefused(c)
    <3>1. Ack(c, "INVALID_PARAMETER", own) \in Answer
      BY <2>1, CommandFields, ChannelAssumption DEF ChannelAssumption, Ack, Answer, IdOfCmd
    <3>2. rx' = Append(rx, Ack(c, "INVALID_PARAMETER", own)) /\ UNCHANGED <<done, heard, ram, flash>>
      BY <1>9, <2>2 DEF Handle
    <3> QED
      BY <1>9, <2>1, <3>1, <3>2 DEF Handle
  <2>3. CASE ~IsRefused(c)
    <3>1. /\ rx' = Append(rx, IF c.op = "get" THEN Data(c, ram[c.key], own)
                                              ELSE Ack(c, "NO_ERROR", own))
          /\ done' = (done \/ own)
          /\ heard' = IF own /\ c.op = "get" THEN heard \cup {ram[c.key]} ELSE heard
          /\ ram' = RamAfter(c)
          /\ flash' = FlashAfter(c)
      BY <1>9, <2>3 DEF Handle
    <3> HIDE DEF c, own
    <3>2. ram' \in [Keys -> Values] /\ flash' \in [Keys -> Values]
      BY <2>1, <2>3, <3>1, DeviceAnswer
    <3>3. rx' \in Seq(Answer)
      BY <2>1, <2>3, <3>1, DeviceAnswer
    <3>4. heard' \subseteq Values
      BY <2>1, <2>3, <3>1, DeviceAnswer
    <3>5. done' \in BOOLEAN
      BY <2>1, <3>1
    <3> QED
      BY <1>9, <2>1, <3>2, <3>3, <3>4, <3>5 DEF Handle
  <2> QED
    BY <2>2, <2>3
<1>10. CASE PowerLost
  BY <1>10 DEF PowerLost
<1>11. CASE UNCHANGED vars
  BY <1>11 DEF vars
<1> QED
  BY <1>1, <1>2, <1>3, <1>4, <1>5, <1>6, <1>7, <1>8, <1>9, <1>10, <1>11 DEF Next, Library

\* The library, the link and the device only ever hold values of their types,
\* whether or not answers may be late.
THEOREM TypeCorrect == Spec => []ChannelTypeOK
<1>1. Init => ChannelTypeOK
  <2> SUFFICES ASSUME Init PROVE ChannelTypeOK
    OBVIOUS
  <2>1. call \in Command
    BY DEF Init, DeviceInit, Command
  <2>2. reply \in Reply
    BY DEF Init, DeviceInit, Reply, Code
  <2>3. pc \in {"idle", "send", "wait"} /\ trial \in 0..(NumTrials - 1)
    BY ChannelAssumption DEF ChannelAssumption, Init
  <2>4. tx \in Seq(Request) /\ rx \in Seq(Answer) /\ late \in Links
    BY DEF Init
  <2>5. done \in BOOLEAN /\ heard \subseteq Values
    BY DEF Init, DeviceInit
  <2>6. ram \in [Keys -> Values] /\ flash \in [Keys -> Values]
    BY DEF Init, DeviceInit
  <2> QED
    BY <2>1, <2>2, <2>3, <2>4, <2>5, <2>6 DEF ChannelTypeOK, DeviceTypeOK
<1>2. ChannelTypeOK /\ [Next]_vars => ChannelTypeOK'
  BY TypeStep
<1> QED
  BY <1>1, <1>2, PTL DEF Spec

-----------------------------------------------------------------------------
(***************************************************************************)
(* The channel when each answer comes within the time out of its trial or  *)
(* never.  A trial then only starts on an empty link, so that what is on   *)
(* the link is the request of the trial being run, or the answer to it.    *)
(***************************************************************************)

\* The device gave answer a to the command being run.
OwnAnswer(a) ==
  \/ IsRefused(call) /\ a = Ack(call, "INVALID_PARAMETER", TRUE)
  \/ call.op # "get" /\ done /\ a = Ack(call, "NO_ERROR", TRUE)
  \/ call.op = "get" /\ done /\ \E v \in heard : a = Data(call, v, TRUE)

OneInFlight ==
  \/ tx = <<>> /\ rx = <<>>
  \/ pc = "wait" /\ tx = <<[cmd |-> call, own |-> TRUE]>> /\ rx = <<>>
  \/ pc = "wait" /\ tx = <<>> /\ \E a \in Answer : OwnAnswer(a) /\ rx = <<a>>

PromptInv ==
  /\ OneInFlight
  /\ SuccessMeansExecuted
  /\ ReadIsOwnValue
  /\ RefusalIsGenuine

\* What a trial makes of the answer to it.
LEMMA OwnAnswerTaken ==
  ASSUME ChannelTypeOK, NEW a \in Answer, OwnAnswer(a)
  PROVE  /\ ~Skipped(a)
         /\ CodeOf(a) = "NO_ERROR" => done /\ (call.op = "get" => a.val \in heard)
         /\ CodeOf(a) = "INVALID_PARAMETER" => IsRefused(call)
         /\ CodeOf(a) \in {"NO_ERROR", "INVALID_PARAMETER"}
  BY DEF OwnAnswer, Ack, Data, Skipped, CodeOf, IdOfCmd

\* The step of the device on the one request there is.
LEMMA DeviceStep ==
  ASSUME ChannelTypeOK, OneInFlight, Handle
  PROVE  /\ pc = "wait" /\ tx' = <<>> /\ UNCHANGED <<pc, trial, call, reply>>
         /\ \/ /\ IsRefused(call)
               /\ rx' = <<Ack(call, "INVALID_PARAMETER", TRUE)>>
               /\ UNCHANGED <<done, heard, ram, flash>>
            \/ /\ ~IsRefused(call)
               /\ rx' = <<IF call.op = "get" THEN Data(call, ram[call.key], TRUE)
                                             ELSE Ack(call, "NO_ERROR", TRUE)>>
               /\ done' = TRUE
               /\ heard' = IF call.op = "get" THEN heard \cup {ram[call.key]} ELSE heard
               /\ ram' = RamAfter(call)
               /\ flash' = FlashAfter(call)
<1>1. pc = "wait" /\ tx = <<[cmd |-> call, own |-> TRUE]>> /\ rx = <<>>
  BY DEF OneInFlight, Handle
<1>2. Head(tx).cmd = call /\ Head(tx).own = TRUE /\ Tail(tx) = <<>>
  BY <1>1
<1>3. \A a : Append(rx, a) = <<a>>
  BY <1>1
<1>4. tx' = <<>> /\ UNCHANGED <<pc, trial, call, reply>>
  BY <1>2 DEF Handle
<1>5. CASE IsRefused(call)
  BY <1>1, <1>2, <1>3, <1>4, <1>5 DEF Handle, deviceVars
<1>6. CASE ~IsRefused(call)
  <2>1. /\ rx' = Append(rx, IF call.op = "get" THEN Data(call, ram[call.key], TRUE)
                                               ELSE Ack(call, "NO_ERROR", TRUE))
        /\ done' = TRUE
        /\ heard' = IF call.op = "get" THEN heard \cup {ram[call.key]} ELSE heard
        /\ ram' = RamAfter(call)
        /\ flash' = FlashAfter(call)
    BY <1>2, <1>6 DEF Handle
  <2> QED
    BY <1>1, <1>3, <1>4, <1>6, <2>1
<1> QED
  BY <1>5, <1>6

\* One step keeps the invariant.
LEMMA PromptStep ==
  ASSUME ~late, ChannelTypeOK, PromptInv, [Next]_vars
  PROVE  PromptInv'
<1> USE DEF PromptInv, SuccessMeansExecuted, ReadIsOwnValue, RefusalIsGenuine, linkVars, deviceVars
<1>1. ASSUME NEW c \in Command, Begin(c)
      PROVE  PromptInv'
  <2>1. tx' = <<>> /\ rx' = <<>> /\ pc' = "send"
    BY <1>1, DisownEmpty DEF Begin, OneInFlight
  <2> QED
    BY <2>1 DEF OneInFlight
<1>2. CASE SendRequest
  <2>1. tx = <<>> /\ rx = <<>>
    BY <1>2 DEF SendRequest, OneInFlight
  <2>2. tx' = <<[cmd |-> call, own |-> TRUE]>> /\ rx' = <<>> /\ pc' = "wait" /\ call' = call
    BY <1>2, <2>1 DEF SendRequest
  <2> QED
    BY <2>2 DEF OneInFlight
<1>3. CASE SendFails
  BY <1>3 DEF SendFails, OneInFlight, End
<1>4. CASE ReceiveAnswer /\ Skipped(Head(rx))
  <2>1. PICK a \in Answer : OwnAnswer(a) /\ rx = <<a>>
    BY <1>4 DEF ReceiveAnswer, OneInFlight
  <2> QED
    BY <1>4, <2>1, OwnAnswerTaken DEF ReceiveAnswer
<1>5. CASE ReceiveAnswer /\ ~Skipped(Head(rx))
  <2>1. PICK a \in Answer : OwnAnswer(a) /\ rx = <<a>> /\ tx = <<>>
    BY <1>5 DEF ReceiveAnswer, OneInFlight
  <2>2. Head(rx) = a /\ rx' = <<>> /\ tx' = <<>>
    BY <1>5, <2>1 DEF ReceiveAnswer
  <2>3. OneInFlight'
    BY <2>2 DEF OneInFlight
  <2> QED
    BY <1>5, <2>1, <2>2, <2>3, OwnAnswerTaken DEF ReceiveAnswer, End, NextTrial
<1>6. CASE TimeOut
  <2>1. tx = <<>> /\ rx = <<>>
    BY <1>6 DEF TimeOut
  <2> QED
    BY <1>6, <2>1 DEF TimeOut, OneInFlight, NextTrial, End
<1>7. CASE DropRequest
  <2>1. tx = <<[cmd |-> call, own |-> TRUE]>> /\ rx = <<>> /\ pc = "wait"
    BY <1>7 DEF DropRequest, OneInFlight
  <2>2. tx' = <<>> /\ rx' = <<>> /\ pc' = "wait"
    BY <1>7, <2>1 DEF DropRequest
  <2> QED
    BY <2>2 DEF OneInFlight
<1>8. CASE DropAnswer
  <2>1. PICK a \in Answer : tx = <<>> /\ rx = <<a>> /\ pc = "wait"
    BY <1>8 DEF DropAnswer, OneInFlight
  <2>2. tx' = <<>> /\ rx' = <<>> /\ pc' = "wait"
    BY <1>8, <2>1 DEF DropAnswer
  <2> QED
    BY <2>2 DEF OneInFlight
<1>9. CASE Handle
  <2>1. pc' = "wait" /\ tx' = <<>> /\ call' = call
    BY <1>9, DeviceStep
  <2>2. \E a : OwnAnswer(a)' /\ rx' = <<a>>
    <3>1. CASE IsRefused(call)
      BY <1>9, <2>1, <3>1, DeviceStep DEF OwnAnswer, Ack, IdOfCmd, IsRefused
    <3>2. CASE ~IsRefused(call) /\ call.op = "get"
      BY <1>9, <2>1, <3>2, DeviceStep DEF OwnAnswer, Data, IdOfCmd
    <3>3. CASE ~IsRefused(call) /\ call.op # "get"
      BY <1>9, <2>1, <3>3, DeviceStep DEF OwnAnswer, Ack, IdOfCmd
    <3> QED
      BY <3>1, <3>2, <3>3
  <2>3. PICK a : OwnAnswer(a)' /\ rx' = <<a>>
    BY <2>2
  <2>4. a \in Answer
    BY <1>9, <2>3, TypeStep DEF ChannelTypeOK
  <2> QED
    BY <2>1, <2>3, <2>4 DEF OneInFlight
<1>10. CASE PowerLost
  BY <1>10 DEF PowerLost, OneInFlight, OwnAnswer
<1>11. CASE UNCHANGED vars
  BY <1>11 DEF vars, OneInFlight, OwnAnswer
<1> QED
  BY <1>1, <1>2, <1>3, <1>4, <1>5, <1>6, <1>7, <1>8, <1>9, <1>10, <1>11 DEF Next, Library

LEMMA PromptInit == Init => PromptInv
  BY DEF Init, DeviceInit, PromptInv, OneInFlight, SuccessMeansExecuted, ReadIsOwnValue, RefusalIsGenuine

LEMMA LinkFixed == [Next]_vars => late' = late
<1>1. (\E c \in Command : Begin(c)) => late' = late
  BY DEF Begin
<1>2. Library => late' = late
  BY DEF Library, SendRequest, SendFails, ReceiveAnswer, TimeOut
<1>3. DropRequest \/ DropAnswer \/ Handle \/ PowerLost => late' = late
  BY DEF DropRequest, DropAnswer, Handle, PowerLost
<1> QED
  BY <1>1, <1>2, <1>3 DEF Next, vars

\* The invariant holds throughout, of each link where answers come in time.
LEMMA PromptAlways == Spec => [](late \/ PromptInv)
<1>1. ChannelTypeOK /\ (late \/ PromptInv) /\ [Next]_vars => (late \/ PromptInv)'
  BY PromptStep, LinkFixed
<1> QED
  BY <1>1, PromptInit, TypeCorrect, PTL DEF Spec

\* A command function that reports success has had the device carry out that very
\* command, whatever was lost and tried again (sbgEComReceiveCmd2, sbgEComWaitForAck).
THEOREM PromptSafe ==
  ASSUME Links = {FALSE}
  PROVE  Spec => []SuccessMeansExecuted
<1>1. ChannelTypeOK /\ (late \/ PromptInv) => SuccessMeansExecuted
  BY DEF PromptInv, ChannelTypeOK
<1> QED
  BY <1>1, TypeCorrect, PromptAlways, PTL

\* A getter that succeeds returns a value the device gave for that setting in
\* answer to that call (sbgEComCmdOutputGetConf).
THEOREM PromptReadsOwn ==
  ASSUME Links = {FALSE}
  PROVE  Spec => []ReadIsOwnValue
<1>1. ChannelTypeOK /\ (late \/ PromptInv) => ReadIsOwnValue
  BY DEF PromptInv, ChannelTypeOK
<1> QED
  BY <1>1, TypeCorrect, PromptAlways, PTL

\* INVALID_PARAMETER is the device's own refusal of that command
\* (sbgEComWaitForAck).
THEOREM PromptRefusals ==
  ASSUME Links = {FALSE}
  PROVE  Spec => []RefusalIsGenuine
<1>1. ChannelTypeOK /\ (late \/ PromptInv) => RefusalIsGenuine
  BY DEF PromptInv, ChannelTypeOK
<1> QED
  BY <1>1, TypeCorrect, PromptAlways, PTL

\* Once a command function has returned nothing of it is left on the link, which
\* is why the next one cannot take its answer (sbgEComReceiveCmd2).
THEOREM PromptQuiet ==
  ASSUME Links = {FALSE}
  PROVE  Spec => []QuietWhenIdle
<1>1. ChannelTypeOK /\ (late \/ PromptInv) => QuietWhenIdle
  BY DEF PromptInv, OneInFlight, QuietWhenIdle, ChannelTypeOK
<1> QED
  BY <1>1, TypeCorrect, PromptAlways, PTL

-----------------------------------------------------------------------------
(***************************************************************************)
(* The channel implements CommandService.                                  *)
(***************************************************************************)

\* The two modules speak of the same commands and replies.
LEMMA SameTerms ==
  /\ Service!Command = Command
  /\ Service!Reply = Reply
  /\ \A c : Service!IsRefused(c) <=> IsRefused(c)
  BY DEF Service!Command, Command, Service!GetCmd, GetCmd, Service!SetCmd, SetCmd,
         Service!SaveCmd, SaveCmd, Service!Reply, Reply, Service!Code, Code,
         Service!IsRefused, IsRefused

\* What the link may do, as the command service has it: the device carries the
\* command out, the command function returns, or nothing that its caller sees.
Acts ==
  \/ Service!Execute
  \/ \E r \in Reply : Service!Return(r)
  \/ UNCHANGED Service!serviceVars

\* A trial that ends the command, or starts the next one, is a return or a stutter.
LEMMA TrialStep ==
  ASSUME ChannelTypeOK, NEW code \in Code, NextTrial(code), pc # "idle", code # "NO_ERROR",
         code = "INVALID_PARAMETER" => IsRefused(call),
         UNCHANGED <<call, done, heard, ram, flash>>
  PROVE  Acts
<1>1. CASE pc' = "send" /\ UNCHANGED reply
  BY <1>1 DEF Acts, Service!serviceVars
<1>2. CASE pc' = "idle" /\ reply' = [code |-> code, val |-> NoValue]
  <2>1. reply' \in Reply /\ reply'.code = code /\ reply'.val = NoValue
    BY <1>2 DEF Reply
  <2>2. Service!Return(reply')
    BY <1>2, <2>1, SameTerms DEF Service!Return, Service!deviceVars
  <2> QED
    BY <2>1, <2>2 DEF Acts
<1> QED
  BY <1>1, <1>2 DEF NextTrial, End

LEMMA LinkActs ==
  ASSUME ~late, ChannelTypeOK, PromptInv, Library \/ DropRequest \/ DropAnswer \/ Handle
  PROVE  Acts
<1> USE DEF PromptInv, linkVars, deviceVars
<1>2. CASE SendRequest
  BY <1>2 DEF SendRequest, Service!serviceVars, Acts
<1>3. CASE SendFails
  <2>1. reply' = [code |-> "WRITE_ERROR", val |-> NoValue] /\ reply' \in Reply
    BY <1>3 DEF SendFails, End, Reply, Code
  <2>2. Service!Return(reply')
    BY <1>3, <2>1 DEF SendFails, End, Service!Return, Service!deviceVars
  <2> QED
    BY <2>1, <2>2 DEF Acts
<1>4. CASE ReceiveAnswer /\ Skipped(Head(rx))
  BY <1>4 DEF ReceiveAnswer, Service!serviceVars, Acts
<1>5. CASE ReceiveAnswer /\ ~Skipped(Head(rx))
  <2>1. PICK a \in Answer : OwnAnswer(a) /\ rx = <<a>>
    BY <1>5 DEF ReceiveAnswer, OneInFlight
  <2>2. Head(rx) = a
    BY <2>1
  <2>3. pc = "wait" /\ UNCHANGED <<call, done, heard, ram, flash>>
    BY <1>5 DEF ReceiveAnswer
  <2>4. CASE CodeOf(a) = "NO_ERROR"
    <3>1. pc' = "idle" /\ reply' = [code |-> "NO_ERROR", val |-> a.val]
      BY <1>5, <2>2, <2>4 DEF ReceiveAnswer, End
    <3>2. reply' \in Reply
      BY <3>1 DEF Reply, Code, Answer
    <3>3. done /\ (call.op = "get" => a.val \in heard)
      BY <2>1, <2>4, OwnAnswerTaken
    <3>4. Service!Return(reply')
      BY <2>3, <3>1, <3>3 DEF Service!Return, Service!deviceVars
    <3> QED
      BY <3>2, <3>4 DEF Acts
  <2>5. CASE CodeOf(a) # "NO_ERROR"
    <3>1. NextTrial(CodeOf(a))
      BY <1>5, <2>2, <2>5 DEF ReceiveAnswer
    <3>2. CodeOf(a) = "INVALID_PARAMETER" => IsRefused(call)
      BY <2>1, OwnAnswerTaken
    <3> QED
      BY <2>3, <2>5, <3>1, <3>2, AnswerCode, TrialStep
  <2> QED
    BY <2>4, <2>5
<1>6. CASE TimeOut
  <2>1. NextTrial("TIME_OUT") /\ pc = "wait" /\ UNCHANGED <<call, done, heard, ram, flash>>
    BY <1>6 DEF TimeOut
  <2>2. "TIME_OUT" \in Code
    BY DEF Code
  <2> QED
    BY <2>1, <2>2, TrialStep
<1>7. CASE DropRequest
  BY <1>7 DEF DropRequest, Service!serviceVars, Acts
<1>8. CASE DropAnswer
  BY <1>8 DEF DropAnswer, Service!serviceVars, Acts
<1>9. CASE Handle
  <2>1. CASE IsRefused(call)
    BY <1>9, <2>1, DeviceStep DEF Service!serviceVars, Acts
  <2>2. CASE ~IsRefused(call)
    <3>1. Service!Execute
      BY <1>9, <2>2, DeviceStep DEF Service!Execute, Service!IsRefused, Service!RamAfter,
           Service!FlashAfter, RamAfter, FlashAfter, IsRefused
    <3> QED
      BY <3>1 DEF Acts
  <2> QED
    BY <2>1, <2>2
<1> QED
  BY <1>2, <1>3, <1>4, <1>5, <1>6, <1>7, <1>8, <1>9 DEF Library

LEMMA ServiceStep ==
  ASSUME ~late, ChannelTypeOK, PromptInv, [Next]_vars
  PROVE  [Service!ServiceNext]_Service!serviceVars
<1>1. ASSUME NEW c \in Command, Begin(c)
      PROVE  [Service!ServiceNext]_Service!serviceVars
  <2>1. Service!Issue(c)
    BY <1>1 DEF Begin, Service!Issue, Service!deviceVars, deviceVars
  <2> QED
    BY <1>1, <2>1, SameTerms DEF Service!ServiceNext
<1>2. CASE Library \/ DropRequest \/ DropAnswer \/ Handle
  BY <1>2, LinkActs, SameTerms DEF Acts, Service!ServiceNext
<1>3. CASE PowerLost
  <2>1. Service!PowerCycle
    BY <1>3 DEF PowerLost, Service!PowerCycle
  <2> QED
    BY <2>1 DEF Service!ServiceNext
<1>4. CASE UNCHANGED vars
  BY <1>4 DEF vars, Service!serviceVars
<1> QED
  BY <1>1, <1>2, <1>3, <1>4 DEF Next

\* Each command of the channel is one of CommandService: carried out, if at all,
\* between its call and its return, with a verdict the device gave to it.
THEOREM ChannelImplementsService ==
  ASSUME Links = {FALSE}
  PROVE  Spec => ImplementsService
<1>1. Init => Service!ServiceInit
  BY DEF Init, DeviceInit, Service!ServiceInit, Service!DeviceInit, Service!SaveCmd, SaveCmd
<1>2. ChannelTypeOK /\ (late \/ PromptInv) /\ [Next]_vars
        => [Service!ServiceNext]_Service!serviceVars
  BY ServiceStep DEF ChannelTypeOK
<1> QED
  BY <1>1, <1>2, PromptAlways, TypeCorrect, PTL DEF Spec, ImplementsService, Service!ServiceSpec
=============================================================================
