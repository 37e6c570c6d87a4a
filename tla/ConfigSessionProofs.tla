------------------------- MODULE ConfigSessionProofs -------------------------
(***************************************************************************)
(* Proofs about ConfigSession, for every configuration, device, number of  *)
(* trials and capacity of the link, whether or not answers may be late.    *)
(***************************************************************************)
EXTENDS ConfigSession, CommandChannelProofs

\* The link as one queue: the answers on their way, and behind them those the
\* device will give to the requests on theirs.  A mark is what the invariant
\* needs of each: its message id, whether it tells of a write carried out, and
\* whether it belongs to the command being run.
AnswerMark(a) ==
  [id |-> a.id, write |-> a.kind = "ack" /\ a.code = "NO_ERROR", own |-> a.own]

RequestMark(r) ==
  [id |-> IdOfCmd(r.cmd), write |-> r.cmd.op # "get" /\ ~IsRefused(r.cmd), own |-> r.own]

Positions == 1..(Len(rx) + Len(tx))

Line == [p \in Positions |-> IF p <= Len(rx) THEN AnswerMark(rx[p])
                                             ELSE RequestMark(tx[p - Len(rx)])]

Mark == [id : Ids \cup {SaveId}, write : BOOLEAN, own : BOOLEAN]

\* What belongs to the command being run is behind everything older, and was
\* asked for by that command.
OwnLast == \A p, q \in Positions : p < q /\ Line[p].own => Line[q].own

OwnMatches ==
  \A p \in Positions : Line[p].own =>
    Line[p].id = IdOfCmd(call) /\ (Line[p].write <=> (call.op # "get" /\ ~IsRefused(call)))

OwnExecuted ==
  /\ \A i \in 1..Len(rx) : AnswerMark(rx[i]).own /\ AnswerMark(rx[i]).write => done
  /\ \A i \in 1..Len(tx) : tx[i].own => tx[i].cmd = call

\* Of one message id, older acknowledged writes come before any older answer of
\* another kind ...
WritesFirst ==
  \A p, q \in Positions :
    p < q /\ ~Line[q].own /\ Line[q].write /\ ~Line[p].write => Line[p].id # Line[q].id

\* ... so that the answer a read ends with has none of them behind it, ...
ReadClears ==
  (pc = "idle" /\ call.op = "get" /\ reply.code \in {"NO_ERROR", "INVALID_PARAMETER"})
    => \A p \in Positions : Line[p].write => Line[p].id # IdOfCmd(call)

\* ... the write that follows the read meets none, ...
NoOlderWrite ==
  call.op # "get" =>
    \A p \in Positions : (Line[p].write /\ Line[p].id = IdOfCmd(call)) => Line[p].own

\* ... and what a successful write leaves on the link is all its own.
WriteClears ==
  (pc = "idle" /\ call.op # "get" /\ reply.code = "NO_ERROR")
    => ~IsRefused(call) /\ \A p \in Positions : Line[p].own

\* Refusals are of settings the device does not have.
RefusalsKnown ==
  /\ \A i \in 1..Len(rx) : rx[i].code = "INVALID_PARAMETER" => \E k \in Refused : rx[i].id = IdOf[k]
  /\ (pc = "idle" /\ reply.code = "INVALID_PARAMETER") => \E k \in Refused : IdOfCmd(call) = IdOf[k]

\* The settings are saved once, at the end.
SaveOnce == phase \notin {"saved", "done"} => \A p \in Positions : Line[p].id # SaveId

\* How the last command ended when the applier is about to run another one.
Ended ==
  \/ call.op = "get" /\ reply.code \in {"NO_ERROR", "INVALID_PARAMETER"}
  \/ call.op = "set" /\ reply.code = "NO_ERROR"
  \/ call.op = "set" /\ IsRefused(call)
  \/ rx = <<>> /\ tx = <<>>

\* The command of each phase.
Phases ==
  /\ phase \in {"get", "got", "set", "applied", "save", "saved", "done", "threw"}
  /\ phase \in {"get", "got", "set", "applied"} => step \in 1..Len(Order)
  /\ phase \in {"get", "save"} => pc = "idle" /\ Ended
  /\ pc # "idle" => phase \in {"got", "applied", "saved"}
  /\ phase = "got" => call = GetCmd(Order[step])
  /\ phase = "set" => /\ pc = "idle"
                      /\ call = GetCmd(Order[step])
                      /\ reply.code \in {"NO_ERROR", "INVALID_PARAMETER"}
  /\ phase = "applied" => call = SetCmd(Order[step], Want[Order[step]])
  /\ phase = "saved" => call = SaveCmd

LineInv == OwnLast /\ OwnMatches /\ WritesFirst /\ NoOlderWrite

CallInv == OwnExecuted /\ ReadClears /\ WriteClears /\ RefusalsKnown /\ WriteMeansExecuted

SessionInv == LineInv /\ CallInv /\ SaveOnce /\ Phases

-----------------------------------------------------------------------------
(***************************************************************************)
(* The queue.                                                              *)
(***************************************************************************)

LEMMA LengthsAreNaturals ==
  ASSUME ChannelTypeOK
  PROVE  Len(rx) \in Nat /\ Len(tx) \in Nat
  BY DEF ChannelTypeOK

LEMMA LineOfAnswers ==
  ASSUME ChannelTypeOK, NEW i \in 1..Len(rx)
  PROVE  i \in Positions /\ Line[i] = AnswerMark(rx[i]) /\ rx[i] \in Answer
<1>1. i \in Positions /\ i <= Len(rx)
  BY LengthsAreNaturals DEF Positions
<1>2. rx[i] \in Answer
  BY ElementOfSeq DEF ChannelTypeOK
<1> QED
  BY <1>1, <1>2 DEF Line

LEMMA LineOfRequests ==
  ASSUME ChannelTypeOK, NEW i \in 1..Len(tx)
  PROVE  /\ Len(rx) + i \in Positions
         /\ Line[Len(rx) + i] = RequestMark(tx[i])
         /\ tx[i] \in Request
<1>1. Len(rx) + i \in Positions /\ ~(Len(rx) + i <= Len(rx)) /\ (Len(rx) + i) - Len(rx) = i
  BY LengthsAreNaturals DEF Positions
<1>2. tx[i] \in Request
  BY ElementOfSeq DEF ChannelTypeOK
<1> QED
  BY <1>1, <1>2 DEF Line

LEMMA LineCases ==
  ASSUME ChannelTypeOK, NEW p \in Positions
  PROVE  \/ p \in 1..Len(rx)
         \/ p - Len(rx) \in 1..Len(tx) /\ p = Len(rx) + (p - Len(rx))
  BY LengthsAreNaturals DEF Positions

LEMMA LineTypes ==
  ASSUME ChannelTypeOK, NEW p \in Positions
  PROVE  Line[p] \in Mark
<1>1. ASSUME NEW i \in 1..Len(rx), p = i
      PROVE  Line[p] \in Mark
  <2>1. rx[i] \in Answer /\ Line[p] = AnswerMark(rx[i])
    BY <1>1, LineOfAnswers
  <2> QED
    BY <2>1 DEF Answer, AnswerMark, Mark
<1>2. ASSUME NEW i \in 1..Len(tx), p = Len(rx) + i
      PROVE  Line[p] \in Mark
  <2>1. tx[i] \in Request /\ Line[p] = RequestMark(tx[i])
    BY <1>2, LineOfRequests
  <2>2. tx[i].cmd \in Command /\ tx[i].own \in BOOLEAN
    BY <2>1 DEF Request
  <2>3. IdOfCmd(tx[i].cmd) \in Ids \cup {SaveId}
    BY <2>2, CommandFields, ChannelAssumption DEF ChannelAssumption, IdOfCmd
  <2> QED
    BY <2>1, <2>2, <2>3 DEF RequestMark, Mark
<1> QED
  BY <1>1, <1>2, LineCases

\* The next queue is what is left of this one, in the same order.
LineShrinks ==
  /\ \A p \in Positions' : \E i \in Positions : Line'[p] = Line[i]
  /\ \A p, q \in Positions' : p < q =>
       \E i, j \in Positions : i < j /\ Line'[p] = Line[i] /\ Line'[q] = Line[j]

LEMMA Shrinks ==
  ASSUME NEW m,
         \A p \in Positions' : m[p] \in Positions /\ Line'[p] = Line[m[p]],
         \A p, q \in Positions' : p < q => m[p] < m[q]
  PROVE  LineShrinks
  BY DEF LineShrinks

LEMMA ShrinksBySame ==
  ASSUME UNCHANGED <<rx, tx>>
  PROVE  LineShrinks
<1>1. Positions' = Positions /\ Line' = Line
  BY DEF Positions, Line
<1> QED
  BY <1>1 DEF LineShrinks

\* Taking the first answer off moves the others forward.
LEMMA LineOfTail ==
  ASSUME ChannelTypeOK, rx # <<>>, rx' = Tail(rx), tx' = tx
  PROVE  /\ 1 \in Positions /\ Line[1] = AnswerMark(Head(rx))
         /\ \A p \in Positions' : p \in Nat /\ p + 1 \in Positions /\ 1 < p + 1 /\ Line'[p] = Line[p + 1]
<1>1. Len(rx') = Len(rx) - 1 /\ \A i \in 1..Len(rx') : rx'[i] = rx[i + 1]
  BY DEF ChannelTypeOK
<1>2. \A p \in Positions' : p \in Nat /\ p + 1 \in Positions /\ 1 < p + 1
  BY <1>1, LengthsAreNaturals DEF Positions
<1>3. ASSUME NEW p \in Positions'
      PROVE  Line'[p] = Line[p + 1]
  <2>1. CASE p <= Len(rx')
    BY <1>1, <1>2, <2>1, LengthsAreNaturals DEF Line, Positions
  <2>2. CASE ~(p <= Len(rx'))
    BY <1>1, <1>2, <2>2, LengthsAreNaturals DEF Line, Positions
  <2> QED
    BY <2>1, <2>2
<1>4. 1 \in 1..Len(rx) /\ Head(rx) = rx[1]
  BY LengthsAreNaturals DEF ChannelTypeOK
<1> QED
  BY <1>2, <1>3, <1>4, LineOfAnswers

LEMMA ShrinksByAnswer ==
  ASSUME ChannelTypeOK, rx # <<>>, rx' = Tail(rx), tx' = tx
  PROVE  LineShrinks
<1> DEFINE m == [p \in Positions' |-> p + 1]
<1>1. \A p \in Positions' : m[p] = p + 1
  OBVIOUS
<1> HIDE DEF m
<1> QED
  BY <1>1, LineOfTail, Shrinks

LEMMA ShrinksByRequest ==
  ASSUME ChannelTypeOK, tx # <<>>, tx' = Tail(tx), rx' = rx
  PROVE  LineShrinks
<1> DEFINE m == [p \in Positions' |-> IF p <= Len(rx) THEN p ELSE p + 1]
<1>1. Len(tx') = Len(tx) - 1 /\ \A i \in 1..Len(tx') : tx'[i] = tx[i + 1]
  BY DEF ChannelTypeOK
<1>2. \A p \in Positions' : /\ p \in Nat
                            /\ m[p] = IF p <= Len(rx) THEN p ELSE p + 1
                            /\ m[p] \in Positions
  BY <1>1, LengthsAreNaturals DEF Positions
<1>3. ASSUME NEW p \in Positions'
      PROVE  Line'[p] = Line[m[p]]
  <2>1. CASE p <= Len(rx)
    BY <1>1, <1>2, <2>1, LengthsAreNaturals DEF Line, Positions
  <2>2. CASE ~(p <= Len(rx))
    <3>1. (p + 1) - Len(rx) = (p - Len(rx)) + 1 /\ p - Len(rx) \in 1..Len(tx')
      BY <1>1, <2>2, LengthsAreNaturals DEF Positions
    <3>2. Line'[p] = RequestMark(tx'[p - Len(rx)])
      BY <2>2 DEF Line
    <3>3. p + 1 \in Positions /\ ~(p + 1 <= Len(rx))
      BY <1>2, <2>2, LengthsAreNaturals
    <3>4. Line[p + 1] = RequestMark(tx[(p - Len(rx)) + 1])
      BY <3>1, <3>3 DEF Line
    <3> QED
      BY <1>1, <1>2, <2>2, <3>1, <3>2, <3>4
  <2> QED
    BY <2>1, <2>2
<1>4. \A p, q \in Positions' : p < q => m[p] < m[q]
  BY <1>2, LengthsAreNaturals
<1> HIDE DEF m
<1> QED
  BY <1>2, <1>3, <1>4, Shrinks

LEMMA ShrinksByPowerLoss ==
  ASSUME ChannelTypeOK, tx' = <<>>, rx' = rx
  PROVE  LineShrinks
<1> DEFINE m == [p \in Positions' |-> p]
<1>1. Positions' = 1..Len(rx) /\ \A p \in 1..Len(rx) : m[p] = p
  BY LengthsAreNaturals DEF Positions
<1>2. \A p \in 1..Len(rx) : p \in Positions /\ Line[p] = AnswerMark(rx[p])
  BY LineOfAnswers
<1>3. \A p \in 1..Len(rx) : Line'[p] = AnswerMark(rx[p])
  BY <1>1 DEF Line
<1> HIDE DEF m
<1> QED
  BY <1>1, <1>2, <1>3, Shrinks

\* The device's answer has the mark of the request it answers.
LEMMA ShrinksByHandle ==
  ASSUME ChannelTypeOK, Handle
  PROVE  LineShrinks
<1> DEFINE m == [p \in Positions' |-> p]
           r == Head(tx)
<1>1. tx # <<>> /\ r = tx[1] /\ r \in Request /\ tx' = Tail(tx)
  BY DEF Handle, ChannelTypeOK
<1>2. \E a : rx' = Append(rx, a) /\ AnswerMark(a) = RequestMark(r)
  <2>1. CASE IsRefused(r.cmd)
    <3>1. rx' = Append(rx, Ack(r.cmd, "INVALID_PARAMETER", r.own))
      BY <2>1 DEF Handle
    <3>2. AnswerMark(Ack(r.cmd, "INVALID_PARAMETER", r.own)) = RequestMark(r)
      BY <2>1 DEF AnswerMark, RequestMark, Ack
    <3> QED
      BY <3>1, <3>2
  <2>2. CASE ~IsRefused(r.cmd) /\ r.cmd.op = "get"
    <3>1. rx' = Append(rx, Data(r.cmd, ram[r.cmd.key], r.own))
      BY <2>2 DEF Handle
    <3>2. AnswerMark(Data(r.cmd, ram[r.cmd.key], r.own)) = RequestMark(r)
      BY <2>2 DEF AnswerMark, RequestMark, Data
    <3> QED
      BY <3>1, <3>2
  <2>3. CASE ~IsRefused(r.cmd) /\ r.cmd.op # "get"
    <3>1. rx' = Append(rx, Ack(r.cmd, "NO_ERROR", r.own))
      BY <2>3 DEF Handle
    <3>2. AnswerMark(Ack(r.cmd, "NO_ERROR", r.own)) = RequestMark(r)
      BY <2>3 DEF AnswerMark, RequestMark, Ack
    <3> QED
      BY <3>1, <3>2
  <2> QED
    BY <2>1, <2>2, <2>3
<1>3. PICK a : rx' = Append(rx, a) /\ AnswerMark(a) = RequestMark(r)
  BY <1>2
<1>4. /\ Len(rx') = Len(rx) + 1 /\ Len(tx') = Len(tx) - 1
      /\ \A i \in 1..Len(rx) : rx'[i] = rx[i]
      /\ rx'[Len(rx) + 1] = a
      /\ \A i \in 1..Len(tx') : tx'[i] = tx[i + 1]
  BY <1>1, <1>3, LengthsAreNaturals DEF ChannelTypeOK
<1>5. Positions' = Positions /\ \A p \in Positions : p \in Nat /\ m[p] = p
  BY <1>4, LengthsAreNaturals DEF Positions
<1> HIDE DEF m, r
<1>6. ASSUME NEW p \in Positions
      PROVE  Line'[p] = Line[p]
  <2>1. CASE p <= Len(rx)
    <3>1. p <= Len(rx') /\ rx'[p] = rx[p]
      BY <1>4, <1>5, <2>1, LengthsAreNaturals DEF Positions
    <3> QED
      BY <1>5, <2>1, <3>1 DEF Line
  <2>2. CASE p = Len(rx) + 1
    <3>1. p <= Len(rx') /\ rx'[p] = a /\ ~(p <= Len(rx)) /\ p - Len(rx) = 1
      BY <1>4, <2>2, LengthsAreNaturals
    <3> QED
      BY <1>1, <1>3, <1>5, <3>1 DEF Line
  <2>3. CASE p > Len(rx) + 1
    <3>1. ~(p <= Len(rx')) /\ ~(p <= Len(rx)) /\ p - Len(rx) = (p - Len(rx')) + 1
      BY <1>4, <1>5, <2>3, LengthsAreNaturals
    <3>2. p - Len(rx') \in 1..Len(tx')
      BY <1>4, <1>5, <2>3, LengthsAreNaturals DEF Positions
    <3>3. Line'[p] = RequestMark(tx'[p - Len(rx')])
      BY <1>5, <3>1 DEF Line
    <3>4. Line[p] = RequestMark(tx[(p - Len(rx')) + 1])
      BY <1>5, <3>1 DEF Line
    <3> QED
      BY <1>4, <3>2, <3>3, <3>4
  <2> QED
    BY <1>5, <2>1, <2>2, <2>3, LengthsAreNaturals
<1> QED
  BY <1>5, <1>6, Shrinks

\* A request sent is the last of the queue.
LEMMA LineOfSend ==
  ASSUME ChannelTypeOK, SendRequest
  PROVE  LET n == Len(rx) + Len(tx)
         IN /\ n \in Nat
            /\ Positions = 1..n /\ Positions' = 1..(n + 1)
            /\ \A p \in 1..n : Line'[p] = Line[p]
            /\ Line'[n + 1] = RequestMark([cmd |-> call, own |-> TRUE])
<1> DEFINE r == [cmd |-> call, own |-> TRUE]
<1> HIDE DEF r
<1>1. tx' = Append(tx, r) /\ rx' = rx
  BY DEF SendRequest, r
<1>2. /\ Len(tx') = Len(tx) + 1
      /\ \A i \in 1..Len(tx) : tx'[i] = tx[i]
      /\ tx'[Len(tx) + 1] = r
  BY <1>1, LengthsAreNaturals DEF ChannelTypeOK
<1>3. Positions' = 1..((Len(rx) + Len(tx)) + 1)
  BY <1>1, <1>2, LengthsAreNaturals DEF Positions
<1>4. ASSUME NEW p \in Positions
      PROVE  Line'[p] = Line[p]
  <2>1. p \in Positions'
    BY <1>3, LengthsAreNaturals DEF Positions
  <2>2. CASE p <= Len(rx)
    BY <1>1, <2>1, <2>2 DEF Line
  <2>3. CASE ~(p <= Len(rx))
    <3>1. p - Len(rx) \in 1..Len(tx)
      BY <2>3, LengthsAreNaturals DEF Positions
    <3> QED
      BY <1>1, <1>2, <2>1, <2>3, <3>1 DEF Line
  <2> QED
    BY <2>2, <2>3
<1>5. Line'[(Len(rx) + Len(tx)) + 1] = RequestMark(r)
  <2>1. /\ (Len(rx) + Len(tx)) + 1 \in Positions'
        /\ ~((Len(rx) + Len(tx)) + 1 <= Len(rx))
        /\ ((Len(rx) + Len(tx)) + 1) - Len(rx) = Len(tx) + 1
    BY <1>3, LengthsAreNaturals
  <2> QED
    BY <1>1, <1>2, <2>1 DEF Line
<1> QED
  BY <1>3, <1>4, <1>5, LengthsAreNaturals DEF Positions, r

\* With a new command everything on the link is older.
LEMMA LineOfBegin ==
  ASSUME ChannelTypeOK, NEW c \in Command, Begin(c)
  PROVE  /\ Positions' = Positions
         /\ \A p \in Positions : /\ Line'[p].id = Line[p].id
                                 /\ Line'[p].write = Line[p].write
                                 /\ Line'[p].own = FALSE
         /\ \A i \in 1..Len(rx') : /\ i \in 1..Len(rx)
                                   /\ rx'[i].id = rx[i].id
                                   /\ rx'[i].code = rx[i].code
                                   /\ rx'[i].own = FALSE
         /\ \A i \in 1..Len(tx') : tx'[i].own = FALSE
<1>1. tx' = Disown(tx) /\ rx' = Disown(rx)
  BY DEF Begin
<1>2. /\ Len(tx') = Len(tx) /\ Len(rx') = Len(rx)
      /\ \A i \in 1..Len(tx) : tx'[i] = [tx[i] EXCEPT !.own = FALSE]
      /\ \A i \in 1..Len(rx) : rx'[i] = [rx[i] EXCEPT !.own = FALSE]
  BY <1>1, LengthsAreNaturals DEF Disown
<1>3. Positions' = Positions
  BY <1>2 DEF Positions
<1>4. ASSUME NEW i \in 1..Len(rx)
      PROVE  /\ AnswerMark(rx'[i]).id = AnswerMark(rx[i]).id
             /\ AnswerMark(rx'[i]).write = AnswerMark(rx[i]).write
             /\ AnswerMark(rx'[i]).own = FALSE
             /\ rx'[i].code = rx[i].code
             /\ rx'[i].id = rx[i].id
             /\ rx'[i].own = FALSE
  <2>1. rx[i] \in Answer /\ rx'[i] = [rx[i] EXCEPT !.own = FALSE]
    BY <1>2, LineOfAnswers
  <2>2. /\ rx'[i].kind = rx[i].kind /\ rx'[i].id = rx[i].id
        /\ rx'[i].code = rx[i].code /\ rx'[i].own = FALSE
    BY <2>1 DEF Answer
  <2> QED
    BY <2>2 DEF AnswerMark
<1>5. ASSUME NEW i \in 1..Len(tx)
      PROVE  /\ RequestMark(tx'[i]).id = RequestMark(tx[i]).id
             /\ RequestMark(tx'[i]).write = RequestMark(tx[i]).write
             /\ RequestMark(tx'[i]).own = FALSE
             /\ tx'[i].own = FALSE
  BY <1>2, LineOfRequests DEF RequestMark, Request, IdOfCmd, IsRefused
<1>6. ASSUME NEW p \in Positions
      PROVE  Line'[p].id = Line[p].id /\ Line'[p].write = Line[p].write /\ Line'[p].own = FALSE
  <2>1. CASE p <= Len(rx)
    <3>1. p \in 1..Len(rx)
      BY <2>1, LengthsAreNaturals DEF Positions
    <3>2. Line'[p] = AnswerMark(rx'[p]) /\ Line[p] = AnswerMark(rx[p])
      BY <1>2, <1>3, <2>1 DEF Line
    <3> QED
      BY <1>4, <3>1, <3>2
  <2>2. CASE ~(p <= Len(rx))
    <3>1. p - Len(rx) \in 1..Len(tx)
      BY <2>2, LengthsAreNaturals DEF Positions
    <3>2. Line'[p] = RequestMark(tx'[p - Len(rx)]) /\ Line[p] = RequestMark(tx[p - Len(rx)])
      BY <1>2, <1>3, <2>2 DEF Line
    <3> QED
      BY <1>5, <3>1, <3>2
  <2> QED
    BY <2>1, <2>2
<1> QED
  BY <1>2, <1>3, <1>4, <1>5, <1>6

-----------------------------------------------------------------------------
(***************************************************************************)
(* The invariant.                                                          *)
(***************************************************************************)

\* The parts about the queue are kept by whatever only takes frames off it.
LEMMA ShorterLine ==
  ASSUME LineInv, LineShrinks, call' = call
  PROVE  LineInv'
<1> USE DEF LineInv, LineShrinks
<1>1. OwnLast'
  BY DEF OwnLast
<1>2. OwnMatches'
  BY DEF OwnMatches, IdOfCmd, IsRefused
<1>3. WritesFirst'
  <2> SUFFICES ASSUME NEW p \in Positions', NEW q \in Positions', p < q,
                      ~Line'[q].own, Line'[q].write, ~Line'[p].write
               PROVE  Line'[p].id # Line'[q].id
    BY DEF WritesFirst
  <2>1. PICK i, j \in Positions : i < j /\ Line'[p] = Line[i] /\ Line'[q] = Line[j]
    OBVIOUS
  <2> QED
    BY <2>1 DEF WritesFirst
<1>4. NoOlderWrite'
  BY DEF NoOlderWrite, IdOfCmd
<1> QED
  BY <1>1, <1>2, <1>3, <1>4

LEMMA ShorterClears ==
  ASSUME ReadClears, WriteClears, LineShrinks, UNCHANGED <<pc, call, reply>>
  PROVE  ReadClears' /\ WriteClears'
  BY DEF ReadClears, WriteClears, LineShrinks, IdOfCmd, IsRefused

LEMMA ShorterSaves ==
  ASSUME SaveOnce, LineShrinks, phase' = phase
  PROVE  SaveOnce'
  BY DEF SaveOnce, LineShrinks

\* The answers after a step that takes the first one off, or none.
LEMMA FewerAnswers ==
  ASSUME ChannelTypeOK, rx' = Tail(rx), rx # <<>>
  PROVE  \A i \in 1..Len(rx') : i + 1 \in 1..Len(rx) /\ rx'[i] = rx[i + 1]
<1>1. Len(rx') = Len(rx) - 1 /\ \A i \in 1..Len(rx') : rx'[i] = rx[i + 1]
  BY DEF ChannelTypeOK
<1> QED
  BY <1>1, LengthsAreNaturals

LEMMA FewerRequests ==
  ASSUME ChannelTypeOK, tx' = Tail(tx), tx # <<>>
  PROVE  \A i \in 1..Len(tx') : i + 1 \in 1..Len(tx) /\ tx'[i] = tx[i + 1]
<1>1. Len(tx') = Len(tx) - 1 /\ \A i \in 1..Len(tx') : tx'[i] = tx[i + 1]
  BY DEF ChannelTypeOK
<1> QED
  BY <1>1, LengthsAreNaturals

\* What is on the link after the step was there before, or is the answer to a
\* request that was.
FramesKept ==
  /\ LineShrinks
  /\ \A i \in 1..Len(rx') :
       \/ \E j \in 1..Len(rx) : rx'[i] = rx[j]
       \/ /\ AnswerMark(rx'[i]).own /\ AnswerMark(rx'[i]).write => done'
          /\ rx'[i].code = "INVALID_PARAMETER" => \E k \in Refused : rx'[i].id = IdOf[k]
  /\ \A i \in 1..Len(tx') : \E j \in 1..Len(tx) : tx'[i] = tx[j]
  /\ (rx = <<>> /\ tx = <<>>) => (rx' = <<>> /\ tx' = <<>>)
  /\ done => done'

LEMMA FramesStep ==
  ASSUME ChannelTypeOK, SessionInv, FramesKept, UNCHANGED <<call, phase>>
  PROVE  /\ LineInv' /\ SaveOnce' /\ OwnExecuted'
         /\ \A i \in 1..Len(rx') : rx'[i].code = "INVALID_PARAMETER" =>
              \E k \in Refused : rx'[i].id = IdOf[k]
<1> USE DEF SessionInv
<1>1. LineInv'
  BY ShorterLine DEF FramesKept
<1>2. SaveOnce'
  BY ShorterSaves DEF FramesKept
<1>3. ASSUME NEW i \in 1..Len(rx'), AnswerMark(rx'[i]).own, AnswerMark(rx'[i]).write
      PROVE  done'
  BY <1>3 DEF CallInv, OwnExecuted, FramesKept
<1>4. ASSUME NEW i \in 1..Len(tx'), tx'[i].own
      PROVE  tx'[i].cmd = call'
  BY <1>4 DEF CallInv, OwnExecuted, FramesKept
<1>5. ASSUME NEW i \in 1..Len(rx'), rx'[i].code = "INVALID_PARAMETER"
      PROVE  \E k \in Refused : rx'[i].id = IdOf[k]
  BY <1>5 DEF CallInv, RefusalsKnown, FramesKept
<1>6. \A i \in 1..Len(rx') : AnswerMark(rx'[i]).own /\ AnswerMark(rx'[i]).write => done'
  BY <1>3
<1>7. OwnExecuted'
  BY <1>4, <1>6 DEF OwnExecuted, AnswerMark
<1> QED
  BY <1>1, <1>2, <1>5, <1>7

\* A step of the link that the command function does not see.
LEMMA QuietStep ==
  ASSUME ChannelTypeOK, SessionInv, FramesKept, UNCHANGED <<pc, call, reply, phase, step>>
  PROVE  SessionInv'
<1>1. LineInv' /\ SaveOnce' /\ OwnExecuted'
  BY FramesStep
<1>2. ReadClears' /\ WriteClears'
  BY ShorterClears DEF SessionInv, CallInv, FramesKept
<1>3. RefusalsKnown'
  BY FramesStep DEF SessionInv, CallInv, RefusalsKnown, IdOfCmd
<1>4. WriteMeansExecuted'
  BY DEF SessionInv, CallInv, WriteMeansExecuted, FramesKept
<1>5. Phases'
  BY DEF SessionInv, Phases, Ended, IsRefused, GetCmd, SetCmd, SaveCmd, FramesKept
<1> QED
  BY <1>1, <1>2, <1>3, <1>4, <1>5 DEF SessionInv, CallInv

\* A step of the command function, which may end the call, while the applier waits.
LEMMA BusyStep ==
  ASSUME ChannelTypeOK, SessionInv, FramesKept, pc # "idle", UNCHANGED <<call, phase, step>>,
         ReadClears', WriteClears', WriteMeansExecuted',
         (pc' = "idle" /\ reply'.code = "INVALID_PARAMETER") =>
           \E k \in Refused : IdOfCmd(call) = IdOf[k]
  PROVE  SessionInv'
<1>1. LineInv' /\ SaveOnce' /\ OwnExecuted'
  BY FramesStep
<1>2. RefusalsKnown'
  BY FramesStep DEF RefusalsKnown, IdOfCmd
<1>3. Phases'
  BY DEF SessionInv, Phases, GetCmd, SetCmd, SaveCmd
<1> QED
  BY <1>1, <1>2, <1>3 DEF SessionInv, CallInv

\* An end of the trial or of the call without an answer.
LEMMA FailedStep ==
  ASSUME ChannelTypeOK, SessionInv, FramesKept, pc # "idle", UNCHANGED <<call, phase, step>>,
         pc' = "idle" => reply'.code \notin {"NO_ERROR", "INVALID_PARAMETER"}
  PROVE  SessionInv'
<1>1. ReadClears' /\ WriteClears' /\ WriteMeansExecuted'
  BY DEF ReadClears, WriteClears, WriteMeansExecuted
<1> QED
  BY <1>1, BusyStep

-----------------------------------------------------------------------------
(***************************************************************************)
(* The steps.                                                              *)
(***************************************************************************)

LEMMA KeptBySame ==
  ASSUME UNCHANGED <<rx, tx, done>>
  PROVE  FramesKept
  BY ShrinksBySame DEF FramesKept

LEMMA KeptByAnswer ==
  ASSUME ChannelTypeOK, rx # <<>>, rx' = Tail(rx), UNCHANGED <<tx, done>>
  PROVE  FramesKept
  BY ShrinksByAnswer, FewerAnswers DEF FramesKept

LEMMA KeptByRequest ==
  ASSUME ChannelTypeOK, tx # <<>>, tx' = Tail(tx), UNCHANGED <<rx, done>>
  PROVE  FramesKept
  BY ShrinksByRequest, FewerRequests DEF FramesKept

LEMMA KeptByPowerLoss ==
  ASSUME ChannelTypeOK, PowerLost
  PROVE  FramesKept
<1>1. tx' = <<>> /\ UNCHANGED <<rx, done>>
  BY DEF PowerLost
<1>2. \A i \in 1..Len(tx') : FALSE
  BY <1>1
<1> QED
  BY <1>1, <1>2, ShrinksByPowerLoss DEF FramesKept

LEMMA KeptByHandle ==
  ASSUME ChannelTypeOK, Handle
  PROVE  FramesKept
<1> DEFINE r == Head(tx)
<1>1. tx # <<>> /\ r \in Request /\ tx' = Tail(tx)
  BY DEF Handle, ChannelTypeOK
<1>2. done => done'
  BY DEF Handle
<1>3. \E a : /\ rx' = Append(rx, a)
             /\ AnswerMark(a).own /\ AnswerMark(a).write => done'
             /\ a.code = "INVALID_PARAMETER" => \E k \in Refused : a.id = IdOf[k]
  <2>1. CASE IsRefused(r.cmd)
    <3>1. rx' = Append(rx, Ack(r.cmd, "INVALID_PARAMETER", r.own))
      BY <2>1 DEF Handle
    <3>2. r.cmd.key \in Refused /\ IdOfCmd(r.cmd) = IdOf[r.cmd.key]
      BY <1>1, <2>1, CommandFields, DeviceAssumption DEF DeviceAssumption, IsRefused, IdOfCmd, Request
    <3>3. /\ ~AnswerMark(Ack(r.cmd, "INVALID_PARAMETER", r.own)).write
          /\ Ack(r.cmd, "INVALID_PARAMETER", r.own).id = IdOf[r.cmd.key]
      BY <3>2 DEF AnswerMark, Ack
    <3> QED
      BY <3>1, <3>2, <3>3
  <2>2. CASE ~IsRefused(r.cmd) /\ r.cmd.op = "get"
    <3>1. rx' = Append(rx, Data(r.cmd, ram[r.cmd.key], r.own))
      BY <2>2 DEF Handle
    <3>2. /\ ~AnswerMark(Data(r.cmd, ram[r.cmd.key], r.own)).write
          /\ Data(r.cmd, ram[r.cmd.key], r.own).code = "NO_ERROR"
      BY DEF AnswerMark, Data
    <3> QED
      BY <3>1, <3>2
  <2>3. CASE ~IsRefused(r.cmd) /\ r.cmd.op # "get"
    <3>1. rx' = Append(rx, Ack(r.cmd, "NO_ERROR", r.own)) /\ done' = (done \/ r.own)
      BY <2>3 DEF Handle
    <3> QED
      BY <3>1 DEF AnswerMark, Ack
  <2> QED
    BY <2>1, <2>2, <2>3
<1>4. PICK a : /\ rx' = Append(rx, a)
               /\ AnswerMark(a).own /\ AnswerMark(a).write => done'
               /\ a.code = "INVALID_PARAMETER" => \E k \in Refused : a.id = IdOf[k]
  BY <1>3
<1>5. \A i \in 1..Len(rx') : rx'[i] = a \/ (i \in 1..Len(rx) /\ rx'[i] = rx[i])
  BY <1>4, LengthsAreNaturals DEF ChannelTypeOK
<1> QED
  BY <1>1, <1>2, <1>4, <1>5, ShrinksByHandle, FewerRequests DEF FramesKept

\* The answer a command function takes.
LEMMA ReceiveStep ==
  ASSUME ChannelTypeOK, SessionInv, ReceiveAnswer, UNCHANGED <<phase, step>>
  PROVE  SessionInv'
<1> DEFINE a == Head(rx)
<1>1. /\ pc = "wait" /\ rx # <<>> /\ rx' = Tail(rx) /\ UNCHANGED <<tx, call, done>>
  BY DEF ReceiveAnswer
<1>2. a \in Answer /\ a = rx[1] /\ 1 \in 1..Len(rx)
  BY <1>1, LengthsAreNaturals DEF ChannelTypeOK
<1>3. FramesKept
  BY <1>1, KeptByAnswer
<1>4. CASE Skipped(a)
  <2>1. UNCHANGED <<pc, reply>>
    BY <1>4 DEF ReceiveAnswer
  <2> QED
    BY <1>1, <1>3, <2>1, QuietStep
<1>5. CASE ~Skipped(a)
  <2>1. \/ CodeOf(a) = "NO_ERROR" /\ End("NO_ERROR", a.val)
        \/ CodeOf(a) # "NO_ERROR" /\ NextTrial(CodeOf(a))
    BY <1>5 DEF ReceiveAnswer
  <2>2. pc' = "idle" => reply'.code = CodeOf(a)
    BY <2>1 DEF End, NextTrial
  <2>3. CASE CodeOf(a) \notin {"NO_ERROR", "INVALID_PARAMETER"}
    BY <1>1, <1>3, <2>2, <2>3, FailedStep
  <2>4. CASE call.op = "get" /\ CodeOf(a) \in {"NO_ERROR", "INVALID_PARAMETER"}
    <3>1. ~AnswerMark(a).write /\ AnswerMark(a).id = IdOfCmd(call) /\ CodeOf(a) = a.code
      BY <1>2, <1>5, <2>4 DEF AnswerMark, Answer, CodeOf, Skipped
    <3>2. ReadClears'
      <4> SUFFICES ASSUME NEW p \in Positions', Line'[p].write
                   PROVE  Line'[p].id # IdOfCmd(call)'
        BY DEF ReadClears
      <4>1. /\ 1 \in Positions /\ Line[1] = AnswerMark(a)
            /\ p + 1 \in Positions /\ 1 < p + 1 /\ Line'[p] = Line[p + 1]
        BY <1>1, LineOfTail
      <4>2. ~Line[p + 1].own
        BY <2>4, <4>1 DEF SessionInv, LineInv, OwnMatches
      <4>3. Line[1].id # Line[p + 1].id
        BY <3>1, <4>1, <4>2 DEF SessionInv, LineInv, WritesFirst
      <4> QED
        BY <1>1, <3>1, <4>1, <4>3 DEF IdOfCmd
    <3>3. WriteClears' /\ WriteMeansExecuted'
      BY <1>1, <2>4 DEF WriteClears, WriteMeansExecuted
    <3>4. a.code = "INVALID_PARAMETER" => \E k \in Refused : a.id = IdOf[k]
      BY <1>2 DEF SessionInv, CallInv, RefusalsKnown
    <3> QED
      BY <1>1, <1>3, <2>2, <3>1, <3>2, <3>3, <3>4, BusyStep DEF AnswerMark
  <2>5. CASE call.op # "get" /\ CodeOf(a) = "INVALID_PARAMETER"
    <3>1. a.id = IdOfCmd(call) /\ a.code = "INVALID_PARAMETER"
      BY <2>5 DEF CodeOf
    <3>2. \E k \in Refused : a.id = IdOf[k]
      BY <1>2, <3>1 DEF SessionInv, CallInv, RefusalsKnown
    <3>3. ReadClears' /\ WriteClears' /\ WriteMeansExecuted'
      BY <1>1, <2>2, <2>5 DEF ReadClears, WriteClears, WriteMeansExecuted
    <3> QED
      BY <1>1, <1>3, <3>1, <3>2, <3>3, BusyStep
  <2>6. CASE call.op # "get" /\ CodeOf(a) = "NO_ERROR"
    <3>1. AnswerMark(a).write /\ AnswerMark(a).id = IdOfCmd(call)
      BY <1>5, <2>6 DEF AnswerMark, CodeOf, Skipped
    <3>2. 1 \in Positions /\ Line[1] = AnswerMark(a)
      BY <1>1, LineOfTail
    <3>3. AnswerMark(a).own
      BY <2>6, <3>1, <3>2 DEF SessionInv, LineInv, NoOlderWrite
    <3>4. done
      BY <1>2, <3>1, <3>3 DEF SessionInv, CallInv, OwnExecuted
    <3>5. ~IsRefused(call)
      BY <3>1, <3>2, <3>3 DEF SessionInv, LineInv, OwnMatches
    <3>6. WriteClears'
      <4>1. ASSUME NEW p \in Positions'
            PROVE  Line'[p].own
        <5>1. p + 1 \in Positions /\ 1 < p + 1 /\ Line'[p] = Line[p + 1]
          BY <1>1, LineOfTail
        <5> QED
          BY <3>2, <3>3, <5>1 DEF SessionInv, LineInv, OwnLast
      <4> QED
        BY <1>1, <3>5, <4>1 DEF WriteClears, IsRefused
    <3>7. ReadClears' /\ WriteMeansExecuted'
      BY <1>1, <2>6, <3>4 DEF ReadClears, WriteMeansExecuted
    <3> QED
      BY <1>1, <1>3, <2>2, <2>6, <3>6, <3>7, BusyStep
  <2> QED
    BY <2>3, <2>4, <2>5, <2>6
<1> QED
  BY <1>4, <1>5

LEMMA SendStep ==
  ASSUME ChannelTypeOK, SessionInv, SendRequest, UNCHANGED <<phase, step>>
  PROVE  SessionInv'
<1> DEFINE n == Len(rx) + Len(tx)
           r == [cmd |-> call, own |-> TRUE]
<1> USE DEF SessionInv
<1>1. pc = "send" /\ pc' = "wait" /\ tx' = Append(tx, r) /\ UNCHANGED <<rx, call, done>>
  BY DEF SendRequest
<1>2. /\ n \in Nat /\ Positions = 1..n /\ Positions' = 1..(n + 1)
      /\ \A p \in 1..n : Line'[p] = Line[p]
      /\ Line'[n + 1] = RequestMark(r)
  BY LineOfSend
<1>3. /\ RequestMark(r).own /\ RequestMark(r).id = IdOfCmd(call)
      /\ RequestMark(r).write <=> (call.op # "get" /\ ~IsRefused(call))
  BY DEF RequestMark
<1> HIDE DEF n, r
<1>4. \A p \in Positions' : p = n + 1 \/ (p \in Positions /\ p < n + 1)
  BY <1>2
<1>5. OwnLast'
  <2> SUFFICES ASSUME NEW p \in Positions', NEW q \in Positions', p < q, Line'[p].own
               PROVE  Line'[q].own
    BY DEF OwnLast
  <2>1. CASE q = n + 1
    BY <1>2, <1>3, <2>1
  <2>2. CASE q \in Positions
    BY <1>2, <1>4, <2>2 DEF LineInv, OwnLast
  <2> QED
    BY <1>4, <2>1, <2>2
<1>6. OwnMatches'
  <2> SUFFICES ASSUME NEW p \in Positions', Line'[p].own
               PROVE  /\ Line'[p].id = IdOfCmd(call)
                      /\ Line'[p].write <=> (call.op # "get" /\ ~IsRefused(call))
    BY <1>1 DEF OwnMatches, IdOfCmd, IsRefused
  <2> QED
    BY <1>2, <1>3, <1>4 DEF LineInv, OwnMatches
<1>7. WritesFirst'
  <2> SUFFICES ASSUME NEW p \in Positions', NEW q \in Positions', p < q,
                      ~Line'[q].own, Line'[q].write, ~Line'[p].write
               PROVE  Line'[p].id # Line'[q].id
    BY DEF WritesFirst
  <2>1. q \in Positions /\ p \in Positions
    BY <1>2, <1>3, <1>4
  <2> QED
    BY <1>2, <2>1 DEF LineInv, WritesFirst
<1>8. NoOlderWrite'
  <2> SUFFICES ASSUME call.op # "get", NEW p \in Positions', Line'[p].write, Line'[p].id = IdOfCmd(call)
               PROVE  Line'[p].own
    BY <1>1 DEF NoOlderWrite, IdOfCmd
  <2> QED
    BY <1>2, <1>3, <1>4 DEF LineInv, NoOlderWrite
<1>9. SaveOnce'
  <2> SUFFICES ASSUME phase \notin {"saved", "done"}, NEW p \in Positions'
               PROVE  Line'[p].id # SaveId
    BY DEF SaveOnce
  <2>1. call.op # "save"
    BY <1>1 DEF Phases, GetCmd, SetCmd
  <2>2. IdOfCmd(call) # SaveId
    BY <2>1, CommandFields, ChannelAssumption DEF ChannelAssumption, IdOfCmd, ChannelTypeOK, DeviceTypeOK
  <2> QED
    BY <1>2, <1>3, <1>4, <2>2 DEF SaveOnce
<1>10. OwnExecuted'
  <2>1. \A i \in 1..Len(tx') : tx'[i] = r \/ (i \in 1..Len(tx) /\ tx'[i] = tx[i])
    BY <1>1, LengthsAreNaturals DEF ChannelTypeOK
  <2>2. r.cmd = call
    BY DEF r
  <2>3. \A i \in 1..Len(tx') : tx'[i].own => tx'[i].cmd = call
    BY <2>1, <2>2 DEF CallInv, OwnExecuted
  <2> QED
    BY <1>1, <2>3 DEF CallInv, OwnExecuted, AnswerMark
<1>11. RefusalsKnown'
  BY <1>1 DEF CallInv, RefusalsKnown
<1>12. ReadClears' /\ WriteClears' /\ WriteMeansExecuted'
  BY <1>1 DEF ReadClears, WriteClears, WriteMeansExecuted
<1>13. Phases'
  BY <1>1 DEF Phases, GetCmd, SetCmd, SaveCmd
<1> QED
  BY <1>5, <1>6, <1>7, <1>8, <1>9, <1>10, <1>11, <1>12, <1>13 DEF LineInv, CallInv

\* The two modules speak of the same commands.
LEMMA SameCommands ==
  /\ Applier!SaveCmd = SaveCmd
  /\ \A k : Applier!GetCmd(k) = GetCmd(k)
  /\ \A k, v : Applier!SetCmd(k, v) = SetCmd(k, v)
  BY DEF Applier!SaveCmd, SaveCmd, Applier!GetCmd, GetCmd, Applier!SetCmd, SetCmd

\* Between two commands the writes of each message id come first, those of the
\* command that has just ended included.
LEMMA EndedOrder ==
  ASSUME ChannelTypeOK, SessionInv, pc = "idle", Ended,
         NEW p \in Positions, NEW q \in Positions, p < q, Line[q].write, ~Line[p].write
  PROVE  Line[p].id # Line[q].id
<1> USE DEF SessionInv, LineInv
<1>1. CASE ~Line[q].own
  BY <1>1 DEF WritesFirst
<1>2. CASE Line[q].own
  <2>1. call.op # "get" /\ ~IsRefused(call)
    BY <1>2 DEF OwnMatches
  <2>2. CASE reply.code = "NO_ERROR"
    <3>1. Line[p].own
      BY <2>1, <2>2 DEF CallInv, WriteClears
    <3> QED
      BY <2>1, <3>1 DEF OwnMatches
  <2>3. CASE rx = <<>> /\ tx = <<>>
    BY <2>3 DEF Positions
  <2> QED
    BY <2>1, <2>2, <2>3 DEF Ended
<1> QED
  BY <1>1, <1>2

\* The applier calls the next command.
LEMMA CallStep ==
  ASSUME ChannelTypeOK, SessionInv, Call
  PROVE  SessionInv'
<1> USE DEF SessionInv
<1>1. PICK c \in Command : Begin(c) /\ Applier!Calls(c)
  BY DEF Call
<1>2. pc = "idle" /\ pc' = "send" /\ call' = c /\ done' = FALSE
  BY <1>1 DEF Begin
<1>3. /\ \/ phase = "get" /\ c = GetCmd(Order[step]) /\ phase' = "got"
         \/ phase = "set" /\ c = SetCmd(Order[step], Want[Order[step]]) /\ phase' = "applied"
         \/ phase = "save" /\ c = SaveCmd /\ phase' = "saved"
      /\ step' = step
  BY <1>1, SameCommands DEF Applier!Calls
<1>4. Ended
  BY <1>3 DEF Phases, Ended, GetCmd
<1>5. /\ Positions' = Positions
      /\ \A p \in Positions : /\ Line'[p].id = Line[p].id
                              /\ Line'[p].write = Line[p].write
                              /\ Line'[p].own = FALSE
      /\ \A i \in 1..Len(rx') : /\ i \in 1..Len(rx)
                                /\ rx'[i].id = rx[i].id
                                /\ rx'[i].code = rx[i].code
                                /\ rx'[i].own = FALSE
      /\ \A i \in 1..Len(tx') : tx'[i].own = FALSE
  BY <1>1, LineOfBegin
<1>6. OwnLast' /\ OwnMatches'
  BY <1>5 DEF OwnLast, OwnMatches
<1>7. OwnExecuted'
  BY <1>5 DEF OwnExecuted, AnswerMark
<1>8. WritesFirst'
  <2> SUFFICES ASSUME NEW p \in Positions', NEW q \in Positions', p < q,
                      Line'[q].write, ~Line'[p].write
               PROVE  Line'[p].id # Line'[q].id
    BY DEF WritesFirst
  <2> QED
    BY <1>2, <1>4, <1>5, EndedOrder
<1>9. NoOlderWrite'
  <2> SUFFICES ASSUME c.op # "get", NEW p \in Positions, Line[p].write
               PROVE  Line[p].id # IdOfCmd(c)
    BY <1>2, <1>5 DEF NoOlderWrite, IdOfCmd
  <2>1. CASE phase = "set"
    <3>1. call = GetCmd(Order[step]) /\ reply.code \in {"NO_ERROR", "INVALID_PARAMETER"}
      BY <2>1 DEF Phases
    <3>2. IdOfCmd(c) = IdOfCmd(call) /\ call.op = "get"
      BY <1>3, <2>1, <3>1 DEF IdOfCmd, GetCmd, SetCmd
    <3> QED
      BY <1>2, <3>1, <3>2 DEF CallInv, ReadClears
  <2>2. CASE phase = "save"
    <3>1. IdOfCmd(c) = SaveId
      BY <1>3, <2>2 DEF IdOfCmd, SaveCmd
    <3> QED
      BY <2>2, <3>1 DEF SaveOnce
  <2> QED
    BY <1>3, <2>1, <2>2 DEF GetCmd
<1>10. SaveOnce'
  BY <1>3, <1>5 DEF SaveOnce
<1>11. RefusalsKnown'
  BY <1>2, <1>5 DEF CallInv, RefusalsKnown
<1>12. ReadClears' /\ WriteClears' /\ WriteMeansExecuted'
  BY <1>2 DEF ReadClears, WriteClears, WriteMeansExecuted
<1>13. Phases'
  BY <1>2, <1>3 DEF Phases, GetCmd, SetCmd, SaveCmd
<1> QED
  BY <1>6, <1>7, <1>8, <1>9, <1>10, <1>11, <1>12, <1>13 DEF LineInv, CallInv

\* Only a section's write may be refused, and only for want of that section:
\* no other setting shares its message id.
LEMMA SectionRefused ==
  ASSUME ChannelTypeOK, SessionInv, pc = "idle", phase = "applied",
         reply.code = "INVALID_PARAMETER", Order[step] \notin Outputs
  PROVE  IsRefused(call)
<1>1. call = SetCmd(Order[step], Want[Order[step]]) /\ step \in 1..Len(Order)
  BY DEF SessionInv, Phases
<1>2. Order[step] \in Keys
  BY <1>1, SessionAssumption, ElementOfSeq DEF SessionAssumption
<1>3. PICK k \in Refused : IdOfCmd(call) = IdOf[k]
  BY DEF SessionInv, CallInv, RefusalsKnown
<1>4. IdOfCmd(call) = IdOf[Order[step]] /\ call.key = Order[step]
  BY <1>1 DEF IdOfCmd, SetCmd
<1>5. k \in Keys
  BY DeviceAssumption DEF DeviceAssumption
<1>6. k = Order[step]
  BY <1>2, <1>3, <1>4, <1>5, SessionAssumption DEF SessionAssumption
<1> QED
  BY <1>4, <1>6 DEF IsRefused

\* Where the applier goes on after a setting.
LEMMA GoesOn ==
  ASSUME NEW written, Applier!GoTo(step + 1, written), step \in 1..Len(Order)
  PROVE  /\ phase' \in {"get", "save", "done"}
         /\ phase' = "get" => step' \in 1..Len(Order)
<1>1. Len(Order) \in Nat
  BY SessionAssumption DEF SessionAssumption
<1> QED
  BY <1>1 DEF Applier!GoTo

\* The applier goes on from what the last command returned.
LEMMA ContinueStep ==
  ASSUME ChannelTypeOK, SessionInv, Continue
  PROVE  SessionInv'
<1> USE DEF SessionInv
<1>1. pc = "idle" /\ Applier!Decide
  BY DEF Continue
<1>2. UNCHANGED <<pc, tx, rx, call, reply, done>>
  BY DEF Continue, vars
<1>3. Positions' = Positions /\ Line' = Line
  BY <1>2 DEF Positions, Line
<1>4. LineInv'
  BY <1>2, <1>3 DEF LineInv, OwnLast, OwnMatches, WritesFirst, NoOlderWrite, IdOfCmd, IsRefused
<1>5. CallInv'
  BY <1>2, <1>3 DEF CallInv, OwnExecuted, ReadClears, WriteClears, RefusalsKnown,
                    WriteMeansExecuted, IdOfCmd, IsRefused
<1>6. CASE Applier!GetReturned
  <2>1. phase = "got" /\ call = GetCmd(Order[step]) /\ step \in 1..Len(Order)
    BY <1>6 DEF Applier!GetReturned, Phases
  <2>2. \/ /\ reply.code \in {"NO_ERROR", "INVALID_PARAMETER"}
           /\ \/ phase' = "set" /\ step' = step
              \/ Applier!GoTo(step + 1, reboot_needed_)
        \/ phase' = "threw"
    BY <1>6 DEF Applier!GetReturned, Applier!Compare, Applier!Throw
  <2>3. \/ /\ reply.code \in {"NO_ERROR", "INVALID_PARAMETER"}
           /\ \/ phase' = "set" /\ step' = step
              \/ /\ phase' \in {"get", "save", "done"}
                 /\ phase' = "get" => step' \in 1..Len(Order)
        \/ phase' = "threw"
    BY <2>1, <2>2, GoesOn
  <2>4. call.op = "get"
    BY <2>1 DEF GetCmd
  <2>5. SaveOnce'
    BY <1>3, <2>1 DEF SaveOnce
  <2>6. Phases'
    BY <1>1, <1>2, <2>1, <2>3, <2>4 DEF Phases, Ended, GetCmd
  <2> QED
    BY <1>4, <1>5, <2>5, <2>6
<1>7. CASE Applier!SetReturned
  <2>1. /\ phase = "applied" /\ step \in 1..Len(Order)
        /\ call = SetCmd(Order[step], Want[Order[step]])
    BY <1>7 DEF Applier!SetReturned, Phases
  <2>2. \/ reply.code = "NO_ERROR" /\ Applier!GoTo(step + 1, TRUE)
        \/ /\ reply.code = "INVALID_PARAMETER" /\ Order[step] \notin Outputs
           /\ Applier!GoTo(step + 1, reboot_needed_)
        \/ phase' = "threw"
    BY <1>7 DEF Applier!SetReturned, Applier!Throw
  <2>3. \/ /\ reply.code = "NO_ERROR" \/ IsRefused(call)
           /\ phase' \in {"get", "save", "done"}
           /\ phase' = "get" => step' \in 1..Len(Order)
        \/ phase' = "threw"
    BY <1>1, <2>1, <2>2, GoesOn, SectionRefused
  <2>4. call.op = "set"
    BY <2>1 DEF SetCmd
  <2>5. SaveOnce'
    BY <1>3, <2>1 DEF SaveOnce
  <2>6. Phases'
    BY <1>1, <1>2, <2>1, <2>3, <2>4 DEF Phases, Ended, IsRefused
  <2> QED
    BY <1>4, <1>5, <2>5, <2>6
<1>8. CASE Applier!SaveReturned
  <2>1. phase = "saved" /\ phase' = "done"
    BY <1>8 DEF Applier!SaveReturned
  <2> QED
    BY <1>1, <1>2, <1>4, <1>5, <2>1 DEF SaveOnce, Phases
<1> QED
  BY <1>1, <1>6, <1>7, <1>8 DEF Applier!Decide

LEMMA SessionStep ==
  ASSUME ChannelTypeOK, SessionInv, [SessionNext]_sessionVars
  PROVE  SessionInv'
<1>1. CASE Call
  BY <1>1, CallStep
<1>2. CASE Continue
  BY <1>2, ContinueStep
<1>3. CASE SendRequest /\ UNCHANGED applierVars
  BY <1>3, SendStep DEF applierVars
<1>4. CASE SendFails /\ UNCHANGED applierVars
  BY <1>4, KeptBySame, FailedStep DEF SendFails, End, linkVars, applierVars
<1>5. CASE ReceiveAnswer /\ UNCHANGED applierVars
  BY <1>5, ReceiveStep DEF applierVars
<1>6. CASE TimeOut /\ UNCHANGED applierVars
  BY <1>6, KeptBySame, FailedStep DEF TimeOut, NextTrial, End, linkVars, applierVars
<1>7. CASE DropRequest /\ UNCHANGED applierVars
  BY <1>7, KeptByRequest, QuietStep DEF DropRequest, applierVars
<1>8. CASE DropAnswer /\ UNCHANGED applierVars
  BY <1>8, KeptByAnswer, QuietStep DEF DropAnswer, applierVars
<1>9. CASE Handle /\ UNCHANGED applierVars
  BY <1>9, KeptByHandle, QuietStep DEF Handle, applierVars
<1>10. CASE PowerLost /\ UNCHANGED <<phase, step>>
  BY <1>10, KeptByPowerLoss, QuietStep DEF PowerLost
<1>11. CASE UNCHANGED sessionVars
  BY <1>11, KeptBySame, QuietStep DEF sessionVars, vars, applierVars
<1> QED
  BY <1>1, <1>2, <1>3, <1>4, <1>5, <1>6, <1>7, <1>8, <1>9, <1>10, <1>11
  DEF SessionNext, LinkStep, Library

LEMMA SessionStarts == SessionInit => SessionInv
<1> SUFFICES ASSUME SessionInit PROVE SessionInv
  OBVIOUS
<1>1. /\ pc = "idle" /\ tx = <<>> /\ rx = <<>> /\ call = SaveCmd /\ done = FALSE
      /\ reply.code = "ERROR"
      /\ phase = (IF Order = <<>> THEN "done" ELSE "get") /\ step = 1
  BY DEF SessionInit, Init, DeviceInit, Applier!Init
<1>2. Positions = {}
  BY <1>1 DEF Positions
<1>3. LineInv
  BY <1>2 DEF LineInv, OwnLast, OwnMatches, WritesFirst, NoOlderWrite
<1>4. CallInv /\ SaveOnce
  BY <1>1, <1>2 DEF CallInv, OwnExecuted, ReadClears, WriteClears, RefusalsKnown,
                    WriteMeansExecuted, SaveOnce
<1>5. Order # <<>> => 1 \in 1..Len(Order)
  BY SessionAssumption DEF SessionAssumption
<1>6. Phases
  BY <1>1, <1>5 DEF Phases, Ended
<1> QED
  BY <1>3, <1>4, <1>6 DEF SessionInv

\* A run of the session is a run of the channel.
LEMMA SessionIsChannel ==
  ASSUME [SessionNext]_sessionVars
  PROVE  [Next]_vars
<1>1. Call => \E c \in Command : Begin(c)
  BY DEF Call
<1>2. Continue => UNCHANGED vars
  BY DEF Continue
<1> QED
  BY <1>1, <1>2 DEF SessionNext, LinkStep, Next, sessionVars

LEMMA SessionSpecIsSpec == SessionSpec => Spec
<1>1. SessionInit => Init
  BY DEF SessionInit
<1> QED
  BY <1>1, SessionIsChannel, PTL DEF SessionSpec, Spec

\* A write or a save that reports success has been carried out by the device,
\* even over a link whose answers may outlive the trial they belong to: each write
\* of the applier follows a read of the same message id, whose answer has every
\* older acknowledgement before it (configureOutput, sbgEComWaitForAck).
THEOREM SessionWrites == SessionSpec => []WriteMeansExecuted
<1>1. SessionInv => WriteMeansExecuted
  BY DEF SessionInv, CallInv
<1>2. ChannelTypeOK /\ SessionInv /\ [SessionNext]_sessionVars => SessionInv'
  BY SessionStep
<1> QED
  BY <1>1, <1>2, SessionStarts, SessionSpecIsSpec, TypeCorrect, PTL DEF SessionSpec

-----------------------------------------------------------------------------
(***************************************************************************)
(* Over a link whose answers come in time the session is a run of          *)
(* ConfigApplier over its command service.                                 *)
(***************************************************************************)

LEMMA SameServiceTerms ==
  /\ Applier!Command = Command
  /\ Applier!Reply = Reply
  /\ \A c : Applier!IsRefused(c) <=> IsRefused(c)
  /\ \A c : Applier!RamAfter(c) = RamAfter(c) /\ Applier!FlashAfter(c) = FlashAfter(c)
  BY SameCommands DEF Applier!Command, Command, Applier!Reply, Reply, Applier!Code, Code,
     Applier!IsRefused, IsRefused, Applier!RamAfter, RamAfter, Applier!FlashAfter, FlashAfter

\* The steps of the link, as the applier's service takes them.
LEMMA ActsForApplier ==
  ASSUME Acts
  PROVE  Applier!Execute \/ (\E r \in Reply : Applier!Return(r)) \/ UNCHANGED Applier!serviceVars
<1>1. CASE Service!Execute
  <2>1. Applier!Execute
    BY <1>1, SameServiceTerms
    DEF Service!Execute, Applier!Execute, Service!IsRefused, IsRefused, LinkStatus,
        Service!RamAfter, RamAfter, Service!FlashAfter, FlashAfter
  <2> QED
    BY <2>1
<1>2. ASSUME NEW r \in Reply, Service!Return(r)
      PROVE  Applier!Return(r)
  BY <1>2, SameServiceTerms
  DEF Service!Return, Applier!Return, Service!IsRefused, IsRefused, LinkStatus,
      Service!deviceVars, Applier!deviceVars
<1>3. CASE UNCHANGED Service!serviceVars
  BY <1>3 DEF Service!serviceVars, Applier!serviceVars, LinkStatus
<1> QED
  BY <1>1, <1>2, <1>3 DEF Acts

LEMMA ApplierStep ==
  ASSUME ChannelTypeOK, late \/ PromptInv, [SessionNext]_sessionVars
  PROVE  [late \/ Applier!Next]_(Applier!allVars)
<1>1. CASE late
  BY <1>1
<1>2. CASE ~late /\ Call
  <2>1. PICK c \in Command : Begin(c) /\ Applier!Calls(c)
    BY <1>2 DEF Call
  <2>2. Applier!Issue(c)
    BY <2>1 DEF Begin, Applier!Issue, LinkStatus, deviceVars, Applier!deviceVars
  <2> QED
    BY <2>1, <2>2, SameServiceTerms DEF Applier!Next, Applier!Call
<1>3. CASE ~late /\ Continue
  <2>1. UNCHANGED Applier!serviceVars /\ LinkStatus = "idle" /\ Applier!Decide
    BY <1>3 DEF Continue, vars, Applier!serviceVars, LinkStatus
  <2> QED
    BY <2>1 DEF Applier!Next, Applier!Continue
<1>4. CASE ~late /\ LinkStep /\ UNCHANGED applierVars
  <2>1. Acts
    BY <1>4, LinkActs DEF LinkStep
  <2>2. UNCHANGED Applier!applierVars
    BY <1>4 DEF applierVars, Applier!applierVars
  <2>3. CASE Applier!Execute
    BY <2>2, <2>3 DEF Applier!Next
  <2>4. CASE \E r \in Reply : Applier!Return(r)
    BY <2>2, <2>4, SameServiceTerms DEF Applier!Next, Applier!Answer
  <2>5. CASE UNCHANGED Applier!serviceVars
    BY <2>2, <2>5 DEF Applier!allVars
  <2> QED
    BY <2>1, <2>3, <2>4, <2>5, ActsForApplier
<1>5. CASE PowerLost /\ lostAt' = step /\ UNCHANGED <<phase, step, reboot_needed_, wasClean>>
  <2>1. Applier!DeviceReset
    BY <1>5 DEF PowerLost, Applier!DeviceReset, Applier!PowerCycle, LinkStatus
  <2> QED
    BY <2>1 DEF Applier!Next
<1>6. CASE UNCHANGED sessionVars
  BY <1>6 DEF sessionVars, vars, applierVars, Applier!allVars, Applier!serviceVars,
              Applier!applierVars, LinkStatus
<1> QED
  BY <1>1, <1>2, <1>3, <1>4, <1>5, <1>6 DEF SessionNext

\* Frame by frame, with its trials, losses and refusals, a run of the applier does
\* what ConfigApplier does over CommandService: what is proved of the one holds of
\* the other (applyConfiguration, sbgEComCmdOutputGetConf, sbgEComWaitForAck).
THEOREM SessionImplementsApplier == SessionSpec => PromptImplementsApplier
<1>1. SessionInit => Applier!Init
  BY DEF SessionInit
<1>2. ChannelTypeOK /\ (late \/ PromptInv) /\ [SessionNext]_sessionVars
        => [late \/ Applier!Next]_(Applier!allVars)
  BY ApplierStep
<1> QED
  BY <1>1, <1>2, SessionSpecIsSpec, TypeCorrect, PromptAlways, PTL
  DEF SessionSpec, PromptImplementsApplier
=============================================================================
