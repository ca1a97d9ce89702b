----------------------------- MODULE MCPadStore -----------------------------
(***************************************************************************)
(* PadStore for TLC.  Three bytes let a pad be issued in every split into  *)
(* reservations, two materials let a store meet the journal of another.    *)
(* Nothing else is bounded: the offsets only grow, so the states are       *)
(* finite, with any number of restarts.                                    *)
(***************************************************************************)
EXTENDS PadStore
=============================================================================
