----------------------------- MODULE MCLogStream -----------------------------
(***************************************************************************)
(* LogStream for TLC: payloads that look like frames or end in a SYNC      *)
(* byte, answers and pages among the logs, datagrams of one frame and of   *)
(* two, and files with raw logs, unassigned stamps and a rollover.         *)
(***************************************************************************)
EXTENDS LogStream

Frame(kind, payload, stamp) == [kind |-> kind, payload |-> payload, stamp |-> stamp]

Log(stamp) == Frame("log", <<>>, stamp)

LikeAFrame == <<Sync1, Sync2, 2>>

McSources ==
  { [link |-> "serial", perDatagram |-> 0,
     frames |-> <<Frame("log", LikeAFrame, 1), Frame("answer", <<>>, 0), Log(2)>>],
    [link |-> "serial", perDatagram |-> 0,
     frames |-> <<Frame("page", <<Sync1>>, 0), Log(1), Frame("log", <<0, Sync1>>, 1)>>],
    [link |-> "udp", perDatagram |-> 1,
     frames |-> <<Log(1), Frame("page", LikeAFrame, 0), Log(1), Log(2)>>],
    [link |-> "udp", perDatagram |-> 2,
     frames |-> <<Log(1), Frame("log", <<0>>, 1), Log(1), Log(2), Log(3), Log(3)>>],
    [link |-> "file", perDatagram |-> 0,
     frames |-> <<Frame("raw", <<>>, 0), Log(0), Log(2), Frame("raw", <<0>>, 0), Log(4), Log(4), Log(7)>>],
    [link |-> "file", perDatagram |-> 0,
     frames |-> <<Log(2), Frame("unknown", <<>>, 0), Log(5), Log(1), Log(3)>>] }
=============================================================================
