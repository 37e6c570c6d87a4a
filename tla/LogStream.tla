------------------------------ MODULE LogStream ------------------------------
(***************************************************************************)
(* From the interface to the published logs: the driver's main loop calls  *)
(* SbgDevice::periodicHandle, which reads bytes, looks for frames in the   *)
(* reception buffer of sbgECom and gives each log to the publisher.  Log   *)
(* files are read in the same way, with a sleep before each log.           *)
(*                                                                         *)
(* A frame is a few symbols instead of bytes: the two SYNC bytes, the size *)
(* of the payload, the payload, and the end, which stands for CRC and ETX. *)
(* The CRC is ideal: a frame is accepted if it is, symbol for symbol, one  *)
(* the device sent.                                                        *)
(***************************************************************************)
EXTENDS Integers, Sequences, SequencesExt, FiniteSetsExt

CONSTANTS
  Sources,   \* what is read: [link, perDatagram, frames]
  MaxSize,   \* SBG_ECOM_MAX_PAYLOAD_SIZE
  Capacity,  \* SBG_ECOM_MAX_BUFFER_SIZE
  Stamps     \* of an uninitialised variable, bound to a few values

Overhead == 4   \* symbols of a frame besides its payload

\* The largest frame fits in the buffer.
ASSUME BufferAssumption ==
  /\ MaxSize \in Nat /\ Capacity \in Nat
  /\ Capacity >= MaxSize + Overhead

VARIABLES
  source,      \* what is read
  wire,        \* what the interface will deliver: symbols, or datagrams of them
  arrived,     \* how many of them have arrived
  taken,       \* how many of them the driver has read
  rxBuffer, discardSize,         \* of the protocol
  phase,       \* of the driver: configures, handles logs, or spins and sleeps
  received,    \* the frames found (history)
  ignored,     \* how many of them before the callback was set (history)
  published,   \* the logs given to the publisher
  log_replay_last_timestamp_, slept   \* the replay of files

linkVars   == <<source, wire, arrived>>
readerVars == <<taken, rxBuffer, discardSize, received>>
replayVars == <<published, log_replay_last_timestamp_, slept>>
vars == <<linkVars, readerVars, phase, ignored, replayVars>>

-----------------------------------------------------------------------------
(***************************************************************************)
(* Frames.  The value of a symbol is a size or a special one.              *)
(***************************************************************************)

Sync1 == -1
Sync2 == -2
End   == -3

\* As a size, the special values are beyond the largest payload.
SizeIn(symbol) == IF symbol.val < 0 THEN MaxSize + 1 ELSE symbol.val

\* The symbols of the source's i-th frame; "of" and "at" tell them apart.
Symbols(frames, i) ==
  LET values == <<Sync1, Sync2, Len(frames[i].payload)>> \o frames[i].payload \o <<End>>
  IN [j \in DOMAIN values |-> [of |-> i, at |-> j, val |-> values[j]]]

Stray(value) == [of |-> 0, at |-> 0, val |-> value]

-----------------------------------------------------------------------------
(***************************************************************************)
(* The reader.                                                             *)
(***************************************************************************)

AfterDiscard == SubSeq(rxBuffer, discardSize + 1, Len(rxBuffer))

\* Mutant: a datagram is read whole.
ReadWhole(room) ==
  LET count == Min({room, arrived - taken})
  IN IF source.link # "udp"
       THEN [symbols |-> SubSeq(wire, taken + 1, taken + count), taken |-> taken + count]
     ELSE IF count = 0 THEN [symbols |-> <<>>, taken |-> taken]
     ELSE [symbols |-> wire[taken + 1], taken |-> taken + 1]

\* sbgEComProtocolRead: what the interface gives when so many symbols fit.  A
\* datagram that does not fit is cut, and the rest of it is lost.
Read(room) ==
  LET count == Min({room, arrived - taken})
  IN IF source.link # "udp"
       THEN [symbols |-> SubSeq(wire, taken + 1, taken + count), taken |-> taken + count]
     ELSE IF count = 0 THEN [symbols |-> <<>>, taken |-> taken]
     ELSE [symbols |-> SubSeq(wire[taken + 1], 1, Min({room, Len(wire[taken + 1])})),
           taken |-> taken + 1]

\* sbgEComProtocolParseFrame, of the frame that may begin at i.  The extended
\* header of a page is not looked at: that of a whole page is in order.
ParseFrame(buf, i) ==
  LET last == i + SizeIn(buf[i + 2]) + Overhead - 1
  IN IF i + 2 > Len(buf) THEN "not ready"
     ELSE IF SizeIn(buf[i + 2]) > MaxSize THEN "invalid"
     ELSE IF last > Len(buf) THEN "not ready"
     ELSE IF buf[i].of # 0 /\ SubSeq(buf, i, last) = Symbols(source.frames, buf[i].of)
       THEN "frame" ELSE "invalid"

\* The pairs of SYNC bytes; no two of them overlap.
SyncBytes(buf) ==
  {i \in 1..(Len(buf) - 1) : buf[i].val = Sync1 /\ buf[i + 1].val = Sync2}

NotReady(buf, discard) == [buffer |-> buf, discard |-> discard, frame |-> 0]

\* A frame that begins at i, or the symbols before it given up while it is awaited.
FrameAt(buf, i) ==
  IF ParseFrame(buf, i) = "not ready" THEN NotReady(buf, i - 1)
  ELSE [buffer |-> buf, discard |-> i - 1 + Len(Symbols(source.frames, buf[i].of)),
        frame |-> buf[i].of]

\* Mutant: a lone first SYNC byte at the end is not kept.
FindFrameForgetsSync(buf) ==
  LET valid == {i \in SyncBytes(buf) : ParseFrame(buf, i) # "invalid"}
  IN IF valid = {} THEN NotReady(<<>>, 0) ELSE FrameAt(buf, Min(valid))

\* sbgEComProtocolFindFrame: the first frame that is not invalid, else what may be
\* the beginning of one.
FindFrame(buf) ==
  LET valid == {i \in SyncBytes(buf) : ParseFrame(buf, i) # "invalid"}
  IN IF valid # {} THEN FrameAt(buf, Min(valid))
     ELSE IF buf # <<>> /\ Last(buf).val = Sync1 THEN NotReady(buf, Len(buf) - 1)
     ELSE NotReady(<<>>, 0)

-----------------------------------------------------------------------------
(***************************************************************************)
(* The logs.                                                               *)
(***************************************************************************)

IsLog(i) == source.frames[i].kind \in {"log", "raw", "unknown"}

\* MessagePublisher::getTimestamp gives 0 for raw logs, and for some logs a
\* variable that nobody assigned.
getTimestamp(frame) ==
  CASE frame.kind = "log"     -> {frame.stamp}
    [] frame.kind = "raw"     -> {0}
    [] frame.kind = "unknown" -> Stamps

\* Mutant: the stamp of a log without one is kept.
onLogReceivedResets(i) ==
  /\ published' = Append(published, i)
  /\ IF source.link # "file" THEN UNCHANGED <<log_replay_last_timestamp_, slept>>
     ELSE \E timestamp \in getTimestamp(source.frames[i]) :
            /\ slept' = IF timestamp > log_replay_last_timestamp_ /\ log_replay_last_timestamp_ # 0
                          THEN slept + timestamp - log_replay_last_timestamp_ ELSE slept
            /\ log_replay_last_timestamp_' = timestamp

onLogReceived(i) ==
  /\ published' = Append(published, i)
  /\ IF source.link # "file" THEN UNCHANGED <<log_replay_last_timestamp_, slept>>
     ELSE \E timestamp \in getTimestamp(source.frames[i]) :
            IF timestamp > log_replay_last_timestamp_
              THEN /\ slept' = IF log_replay_last_timestamp_ # 0
                                 THEN slept + timestamp - log_replay_last_timestamp_ ELSE slept
                   /\ log_replay_last_timestamp_' = timestamp
              ELSE UNCHANGED <<log_replay_last_timestamp_, slept>>

\* What is in the buffer once what was used is discarded and what fits is read.
Refilled ==
  {[buffer |-> AfterDiscard \o read.symbols, taken |-> read.taken] :
     read \in {Read(Capacity - Len(AfterDiscard))}}

\* Mutant: the buffer is looked at only when something new was read.
Receive2OnlyNew ==
  {[taken |-> filled.taken,
    found |-> IF filled.taken = taken THEN NotReady(filled.buffer, 0)
                                      ELSE FindFrame(filled.buffer)] : filled \in Refilled}

\* sbgEComProtocolReceive2, its one result: one frame is looked for.
Receive2 ==
  {[taken |-> filled.taken, found |-> FindFrame(filled.buffer)] : filled \in Refilled}

Reads(result) ==
  /\ taken' = result.taken
  /\ rxBuffer' = result.found.buffer
  /\ discardSize' = result.found.discard
  /\ received' = IF result.found.frame = 0 THEN received
                                           ELSE Append(received, result.found.frame)

-----------------------------------------------------------------------------

\* While the driver configures the device, the commands read the link: the logs
\* are taken out of it and have no callback yet.
ReceiveAnyCmd ==
  /\ phase = "configure"
  /\ \E result \in Receive2 : Reads(result)
  /\ ignored' = Len(received')
  /\ UNCHANGED <<linkVars, phase, replayVars>>

\* initDeviceForReceivingData sets the callback, and the main loop begins.
SetReceiveLogCallback ==
  /\ phase = "configure"
  /\ phase' = "handle"
  /\ UNCHANGED <<linkVars, readerVars, ignored, replayVars>>

\* sbgEComHandle calls this until no frame is ready.  A page of a large payload
\* that does not complete it counts as no frame.
HandleOneLog ==
  /\ phase = "handle"
  /\ \E result \in Receive2 :
       LET frame == result.found.frame
       IN /\ Reads(result)
          /\ phase' = IF frame = 0 \/ source.frames[frame].kind = "page" THEN "spin" ELSE "handle"
          /\ IF frame # 0 /\ IsLog(frame) THEN onLogReceived(frame) ELSE UNCHANGED replayVars
  /\ UNCHANGED <<linkVars, ignored>>

\* executor.spin_some and loop_rate.sleep.
Spin ==
  /\ phase = "spin"
  /\ phase' = "handle"
  /\ UNCHANGED <<linkVars, readerVars, ignored, replayVars>>

\* Another symbol, or datagram, arrives.
Arrive ==
  /\ arrived < Len(wire)
  /\ arrived' = arrived + 1
  /\ UNCHANGED <<source, wire, readerVars, phase, ignored, replayVars>>

-----------------------------------------------------------------------------

SymbolsOf(frames) == FlattenSeq([i \in DOMAIN frames |-> Symbols(frames, i)])

\* Bound: one symbol is lost, or is received as another value; or one datagram is
\* lost.  A whole number of frames is in each datagram.
Damaged(symbols) ==
  {RemoveAt(symbols, k) : k \in DOMAIN symbols}
    \cup {[symbols EXCEPT ![k] = Stray(value)] :
            k \in DOMAIN symbols, value \in {Sync1, MaxSize}}

Datagrams(src) ==
  LET count == Len(src.frames) \div src.perDatagram
      In(d) == [k \in 1..src.perDatagram |-> Symbols(src.frames, (d - 1) * src.perDatagram + k)]
  IN [d \in 1..count |-> FlattenSeq(In(d))]

Wires(src) ==
  IF src.link = "udp"
    THEN LET all == Datagrams(src) IN {all} \cup {RemoveAt(all, d) : d \in DOMAIN all}
    ELSE LET all == SymbolsOf(src.frames) IN {all} \cup Damaged(all)

Symbol(src) == [of : {0} \cup DOMAIN src.frames, at : Nat, val : Int]

Frames == [kind : {"log", "raw", "unknown", "answer", "page"}, payload : Seq(Int), stamp : Nat]

\* No payload is larger than the protocol allows.
ASSUME SourcesAssumption ==
  /\ Stamps \subseteq Nat
  /\ \A src \in Sources :
       /\ src.link \in {"serial", "udp", "file"}
       /\ src.link = "udp" => src.perDatagram \in Nat \ {0}
       /\ src.frames \in Seq(Frames)
       /\ \A i \in DOMAIN src.frames : Len(src.frames[i].payload) <= MaxSize

\* A file is there from the beginning, and nothing is configured.
Init ==
  /\ source \in Sources
  /\ wire \in Wires(source)
  /\ arrived = IF source.link = "file" THEN Len(wire) ELSE 0
  /\ phase = IF source.link = "file" THEN "handle" ELSE "configure"
  /\ taken = 0
  /\ rxBuffer = <<>>
  /\ discardSize = 0
  /\ received = <<>>
  /\ ignored = 0
  /\ published = <<>>
  /\ log_replay_last_timestamp_ = 0
  /\ slept = 0

Next ==
  \/ ReceiveAnyCmd
  \/ SetReceiveLogCallback
  \/ HandleOneLog
  \/ Spin
  \/ Arrive

\* The driver's thread runs, its configuration ends, and what was sent arrives.
Fairness ==
  /\ WF_vars(SetReceiveLogCallback \/ HandleOneLog \/ Spin)
  /\ WF_vars(Arrive)

Spec == Init /\ [][Next]_vars /\ Fairness

-----------------------------------------------------------------------------
(***************************************************************************)
(* Properties.                                                             *)
(***************************************************************************)

\* The buffer never holds more than its size, nor gives up more than it holds
\* (assertions of sbgEComProtocolDiscardUnusedBytes and sbgEComProtocolFindFrame),
\* nor keeps so much that nothing more can be read.
StreamTypeOK ==
  /\ taken \in 0..arrived /\ arrived \in 0..Len(wire)
  /\ Len(rxBuffer) <= Capacity
  /\ discardSize \in 0..Len(rxBuffer)
  /\ Len(rxBuffer) - discardSize < Capacity
  /\ phase \in {"configure", "handle", "spin"}
  /\ ToSet(received) \subseteq DOMAIN source.frames /\ ignored \in 0..Len(received)
  /\ ToSet(published) \subseteq DOMAIN source.frames
  /\ log_replay_last_timestamp_ \in Nat /\ slept \in Nat

\* The symbols the interface delivers from the k-th on, and those not used yet.
DeliveredFrom(k) ==
  IF source.link = "udp" THEN UNION {ToSet(wire[d]) : d \in k..Len(wire)}
                         ELSE {wire[j] : j \in k..Len(wire)}
Ahead == ToSet(AfterDiscard) \cup DeliveredFrom(taken + 1)

IntactIn(symbols, i) == ToSet(Symbols(source.frames, i)) \subseteq symbols

\* A datagram that is read while others of several frames wait may be cut.
KeepsDatagrams == source.link = "udp" => source.perDatagram = 1

\* A damaged frame costs no other frame: each frame that arrives intact is found
\* once, in order, or can still be found; and each log found after the callback is
\* set is published once, in order.
NothingDropped ==
  /\ KeepsDatagrams =>
       \A i \in DOMAIN source.frames :
         IntactIn(DeliveredFrom(1), i) => i \in ToSet(received) \/ IntactIn(Ahead, i)
  /\ \A k \in DOMAIN received : IntactIn(DeliveredFrom(1), received[k])
  /\ \A j, k \in DOMAIN received : j < k => received[j] < received[k]
  /\ \A j, k \in DOMAIN published : j < k => published[j] < published[k]
  /\ ToSet(published) = {received[k] : k \in {k \in (ignored + 1)..Len(received) : IsLog(received[k])}}

\* A file is replayed at the pace it was recorded at: at each log the driver has
\* slept for the time from the first stamp to the last, whatever logs without a
\* stamp (it is 0) or lost ones there were.  Not so when the stamps go back, as at a
\* rollover of the counter, or are not initialised.
ReplayKeepsPace ==
  LET StampAt(k) == source.frames[published[k]].stamp
      stamped == {k \in DOMAIN published :
                    source.frames[published[k]].kind = "log" /\ StampAt(k) # 0}
      steady == /\ \A k \in DOMAIN published : source.frames[published[k]].kind # "unknown"
                /\ \A j, k \in stamped : j < k => StampAt(j) <= StampAt(k)
  IN (source.link = "file" /\ stamped # {} /\ steady)
       => slept = StampAt(Max(stamped)) - StampAt(Min(stamped))

\* Whatever was damaged, the reader gets through all that was sent, but for less
\* than one frame that may still be completed; undamaged, it finds every frame.
StreamDrains ==
  <>[](/\ taken = Len(wire)
       /\ Len(AfterDiscard) < MaxSize + Overhead
       /\ (KeepsDatagrams /\ \A i \in DOMAIN source.frames : IntactIn(DeliveredFrom(1), i))
            => Len(received) = Len(source.frames))
=============================================================================
