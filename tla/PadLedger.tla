----------------------------- MODULE PadLedger -----------------------------
(***************************************************************************)
(* What a one-time pad store promises its caller, with every file, buffer  *)
(* and crash abstracted away: a byte of pad material is first burned       *)
(* (recorded as consumed, for good), and only a burned byte may be issued, *)
(* once.  A burned byte need never be issued: a crash wastes it.           *)
(*                                                                         *)
(* This is the contract of src/src/pad_store.rs:6-8 ("a crash after that  *)
(* point burns the bytes rather than risking reuse") and of                *)
(* src/src/export.rs:5-9 ("maybe sent, definitely burned").                *)
(***************************************************************************)
EXTENDS Naturals

CONSTANT Bytes        \* the pad bytes: pairs <<material, position>>

VARIABLES burned,     \* the bytes recorded as consumed
          issued      \* how often each byte was handed to a caller

lvars == <<burned, issued>>

LInit ==
  /\ burned = {}
  /\ issued = [b \in Bytes |-> 0]

\* Record more bytes as consumed; nothing ever leaves the record.
Burn ==
  /\ burned \subseteq burned'
  /\ burned' \subseteq Bytes
  /\ UNCHANGED issued

\* Hand out burned bytes that no caller has seen.
Issue ==
  /\ issued' \in [Bytes -> {0, 1}]
  /\ \A b \in Bytes : issued'[b] # issued[b] =>
        b \in burned /\ issued[b] = 0 /\ issued'[b] = 1
  /\ UNCHANGED burned

LNext == Burn \/ Issue

LSpec == LInit /\ [][LNext]_lvars
=============================================================================
