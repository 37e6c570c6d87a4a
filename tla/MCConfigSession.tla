--------------------------- MODULE MCConfigSession ---------------------------
(***************************************************************************)
(* ConfigSession for TLC: a section the device may not have, then two      *)
(* outputs, which share one message id.                                    *)
(***************************************************************************)
EXTENDS ConfigSession, TLC

CONSTANTS profile, outA, outB, idProfile, idOutput, wanted, other

McKeys  == {profile, outA, outB}
McOrder == <<profile, outA, outB>>
McWant  == [k \in McKeys |-> wanted]
McIds   == {idProfile, idOutput}
McIdOf  == (profile :> idProfile) @@ (outA :> idOutput) @@ (outB :> idOutput)
=============================================================================
