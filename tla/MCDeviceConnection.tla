-------------------------- MODULE MCDeviceConnection --------------------------
(***************************************************************************)
(* DeviceConnection for TLC: the configured rate, two fallback rates after *)
(* a number that is no rate, and a rate that is not looked for.            *)
(***************************************************************************)
EXTENDS DeviceConnection

CONSTANTS r115200, r460800, r921600, r9600

McFallbacks == <<NotARate, r460800, r921600>>
=============================================================================
