--------------------------- MODULE MCConfigApplier ---------------------------
(***************************************************************************)
(* ConfigApplier for TLC: a section every device has, one this device does *)
(* not have, and two outputs, one of them not available either.            *)
(***************************************************************************)
EXTENDS ConfigApplier

CONSTANTS alignment, profile, outA, outB, wanted, other

McKeys  == {alignment, profile, outA, outB}
McOrder == <<alignment, profile, outA, outB>>
McWant  == [k \in McKeys |-> wanted]
=============================================================================
