----------------------------- MODULE MCExchange -----------------------------
(***************************************************************************)
(* Exchange for TLC.  Four bytes at the sender are sent in every split;    *)
(* the receiver's store has two, so that a box is too long, too short or   *)
(* exact, and two exact ones are sent one after the other.                 *)
(***************************************************************************)
EXTENDS Exchange

MCMaterial == {s \in (0 .. 3) \X (1 .. 4) : s[1] + s[2] <= 4}

MCEnvelope == [kind : Kind, content : MCMaterial]
=============================================================================
