------------------------------ MODULE Exchange ------------------------------
(***************************************************************************)
(* Two parties: export_pad_payload of export.rs takes bytes of a sender's  *)
(* pad, seals, signs and chunks them; ingest_assembled_payload of Ingest   *)
(* makes them the pad of the receiver's store.  In between the chunks may  *)
(* be lost, kept, and delivered again.  Both parties may fail at any call, *)
(* die at any step, and begin again.                                       *)
(*                                                                         *)
(* The receiver's store is PadStore, step by step, on an undamaged disk.   *)
(* Of the sender's store only the offset in its journal is kept: what a    *)
(* reserve that returned means for the next one is BurnBeforeUse and       *)
(* OffsetNeverRetreats of PadStore.  A pad, and what is sealed in a box,   *)
(* is named by the span of the sender's pad it comes from, <<first byte,   *)
(* number of bytes>>.                                                      *)
(***************************************************************************)
EXTENDS Ingest

CONSTANT SenderSize   \* bytes in the sender's pad

SenderPosition == 0 .. SenderSize - 1
Span == {s \in SenderPosition \X (1 .. SenderSize) : s[1] + s[2] <= SenderSize}
BytesOf(s) == s[1] .. s[1] + s[2] - 1

ASSUME SenderAssumption == SenderSize \in Nat \ {0}
ASSUME SpanAssumption == Material = Span
ASSUME OutcomeAssumption == Envelope = [kind : Kind, content : Material]

VARIABLES
  keys,      \* the key pairs in locked memory: "sign" at the sender, "box"
  offset,    \* consumed_offset in the sender's journal
  spc,       \* where export_pad_payload stands
  span,      \* the bytes it has reserved
  wire,      \* spans in transmissions that left the sender
  sent,      \* history: [SenderPosition -> how often a byte was sent]
  lost       \* history: bytes whose export failed or died

sender == <<offset, spc, span, wire, sent, lost>>
xvars == <<ivars, keys, sender>>

XInit ==
  /\ IInit
  /\ keys = {} /\ offset = 0 /\ spc = "idle" /\ span = None
  /\ wire = {} /\ sent = [x \in SenderPosition |-> 0]
  /\ lost = {}

(***************************************************************************)
(* The sender                                                              *)
(***************************************************************************)
\* Both buffers are locked and filled; if any of the three calls fails none
\* is left.
GenerateSignKeypair ==
  /\ spc = "idle" /\ "sign" \notin keys
  /\ keys' = keys \cup {"sign"}
  /\ UNCHANGED <<ivars, sender>>

\* reserve_into: the journal advances before plaintext_buf is filled.  When
\* that buffer cannot be locked or reserve_into fails, nothing is burned.
ExportReserve(n) ==
  /\ spc = "idle" /\ "sign" \in keys
  /\ offset + n <= SenderSize
  /\ offset' = offset + n /\ span' = <<offset, n>>
  /\ spc' = "reserved"
  /\ UNCHANGED <<ivars, keys, wire, sent, lost>>

SealPad ==
  /\ spc = "reserved"
  /\ spc' = "sealed"
  /\ UNCHANGED <<ivars, keys, offset, span, wire, sent, lost>>

SignAndWrap ==
  /\ spc = "sealed" /\ spc' = "signed"
  /\ UNCHANGED <<ivars, keys, offset, span, wire, sent, lost>>

\* Mutant: when an export fails the store takes the bytes back.
Abandon_GivesBack ==
  /\ spc' = "idle" /\ span' = None
  /\ lost' = lost \cup BytesOf(span) /\ offset' = span[1]
  /\ UNCHANGED <<ivars, wire, sent>>

\* The bytes in hand stay burned.
Abandon ==
  /\ spc' = "idle" /\ span' = None
  /\ lost' = lost \cup BytesOf(span)
  /\ UNCHANGED <<ivars, offset, wire, sent>>

\* A key of the wrong length, or libsodium fails: Seal or Sign is returned.
ExportFails == spc \in {"reserved", "sealed"} /\ Abandon /\ UNCHANGED keys

\* The chunks leave.
EncodeChunks ==
  /\ spc = "signed" /\ spc' = "idle" /\ span' = None
  /\ wire' = wire \cup {span}
  /\ sent' = [x \in SenderPosition |->
                IF x \in BytesOf(span) THEN sent[x] + 1 ELSE sent[x]]
  /\ UNCHANGED <<ivars, keys, offset, lost>>

\* The sender dies, and with it the keys; it reads its journal when it is back.
SenderCrash ==
  /\ spc # "idle" /\ Abandon /\ keys' = keys \ {"sign"}

(***************************************************************************)
(* The receiver                                                            *)
(***************************************************************************)
GenerateBoxKeypair ==
  /\ "box" \notin keys
  /\ keys' = keys \cup {"box"}
  /\ UNCHANGED <<ivars, sender>>

\* How the length of the plaintext compares to the store.
Size(s) == IF s[2] = PadSize THEN "exact"
           ELSE IF s[2] > PadSize THEN "long" ELSE "short"

\* What may be assembled of a transmission: some chunks are missing or not
\* the sender's, or it was signed or sealed with other keys than ours.
Assembled(s) ==
  [kind : {"incomplete", "unsigned", "unopened", Size(s)}, content : {s}]

ReceiverIngests ==
  /\ "box" \in keys
  /\ \E s \in wire : \E e \in Assembled(s) : Ingest(e)
  /\ UNCHANGED <<keys, sender>>

Call ==
  \/ NewDeferred
  \/ \E n \in 1 .. PadSize : Reserve(n)
  \/ ReserveRejected
  \/ Clear \/ Drop
  \/ Continue

Calls(A) ==
  /\ A
  /\ answer' = IF FinalizeFailed THEN "Finalize" ELSE "none"
  /\ UNCHANGED <<keys, sender>>

ReceiverCalls == Calls(Call)

\* The receiver's process dies, or its machine, and with it the keys.
ReceiverDies ==
  /\ Crash \/ PowerLoss
  /\ answer' = "none" /\ keys' = keys \ {"box"}
  /\ UNCHANGED sender

(***************************************************************************)
(* The specification                                                       *)
(***************************************************************************)
SenderStep ==
  \/ GenerateSignKeypair
  \/ \E n \in 1 .. SenderSize : ExportReserve(n)
  \/ SealPad \/ SignAndWrap \/ ExportFails \/ EncodeChunks \/ SenderCrash

ReceiverStep ==
  GenerateBoxKeypair \/ ReceiverIngests \/ ReceiverCalls \/ ReceiverDies

XNext == SenderStep \/ ReceiverStep

\* A span that fits the store, and the journal if there is one.
Fits(s) ==
  s \in wire /\ s[2] = PadSize /\ (journal \in Record => journal.macKey = s)

\* The receiver ingests it, all of it and with the right keys, into a store
\* that is not filled.
Take ==
  /\ "box" \in keys /\ ~filled
  /\ \E s \in Span : Fits(s) /\ Ingest([kind |-> "exact", content |-> s])
  /\ UNCHANGED <<keys, sender>>

\* What a receiver does who tries until the store is filled, when no call
\* fails and nothing is cut off.
Retry ==
  \/ GenerateBoxKeypair \/ Calls(NewDeferred) \/ Take
  \/ Calls(LoadAbsent \/ LoadAccepted \/ CreateTmp \/ WriteTmp \/ SyncTmp
             \/ RenameTmp \/ CommitFill \/ CommitReserve)
  \/ ~Accepts(journal, key) /\ Calls(LoadRefused)

XSpec == XInit /\ [][XNext]_xvars /\ WF_xvars(Retry)

(***************************************************************************)
(* Properties                                                              *)
(***************************************************************************)
InHand == IF span = None THEN {} ELSE BytesOf(span)
Sent == {x \in SenderPosition : sent[x] > 0}

\* The types of both parties.
XTypeOK ==
  /\ IngestTypeOK
  /\ keys \subseteq {"sign", "box"}
  /\ offset \in 0 .. SenderSize
  /\ spc \in {"idle", "reserved", "sealed", "signed"}
  /\ span \in Span \cup {None}
  /\ wire \subseteq Span
  /\ sent \in [SenderPosition -> Nat]
  /\ lost \subseteq SenderPosition
  /\ spc = "idle" <=> span = None
  /\ spc # "idle" => "sign" \in keys

\* "Maybe sent, definitely burned" (export.rs:7-10): a byte below the sender's
\* offset went one way only - sent in one transmission, lost with an error or
\* a crash, or still in hand - and none above it was.
EachByteOneWay ==
  /\ \A x \in SenderPosition : sent[x] <= 1
  /\ Sent \cup lost \cup InHand = 0 .. offset - 1
  /\ Sent \cap (lost \cup InHand) = {} /\ lost \cap InHand = {}

\* Whatever the receiver's store issues are bytes the sender sent, of exports
\* that did not fail, and each byte of the sender's pad is issued once
\* at most, however often its transmission is delivered and ingested, before
\* and after crashes of either side.
IssuedWasSent ==
  \A b \in Bytes : issued[b] > 0 =>
    /\ b[1] \in wire /\ b[1][2] = PadSize
    /\ b[1][1] + b[2] \in Sent \ lost
    /\ issued[b] = 1
    /\ \A c \in Bytes : issued[c] > 0 /\ c # b => c[1][1] + c[2] # b[1][1] + b[2]

\* Nothing that fails, is cut off by a crash or a power loss, or is answered
\* with an error wedges the receiver: once failures stop, a receiver that has
\* a transmission that fits and tries again ends with a usable store, also of
\* a pad issued to its last byte (ingest.rs, finalize_fill, load_journal).
RetrySucceeds ==
  (\E s \in Span : <>[]Fits(s)) /\ <>[][Retry \/ SenderStep]_xvars => <>[]filled
=============================================================================
