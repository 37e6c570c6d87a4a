--------------------------- MODULE MCCommandChannel ---------------------------
(***************************************************************************)
(* Instances of CommandChannel for TLC: two outputs of the device, which   *)
(* share the id SBG_ECOM_CMD_OUTPUT_CONF, and one setting with an id of    *)
(* its own that the device does not have.                                  *)
(***************************************************************************)
EXTENDS CommandChannel, TLC

CONSTANTS outA, outB, profile, on, off, idOutput, idProfile

McKeys == {outA, outB, profile}
McIdOf == (outA :> idOutput) @@ (outB :> idOutput) @@ (profile :> idProfile)
McIds  == {idOutput, idProfile}
=============================================================================
