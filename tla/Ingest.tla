------------------------------- MODULE Ingest -------------------------------
(***************************************************************************)
(* ingest_assembled_payload of src/src/ingest.rs on top of PadStore: the   *)
(* receiver of a pad decrypts it straight into the buffer of a deferred    *)
(* store and finalizes it.  The store, its journal, the crashes and the    *)
(* damage are those of PadStore; the deferred store is filled by Ingest    *)
(* alone, and may be dropped and ingested into again under the journal     *)
(* left by an earlier life.                                                *)
(*                                                                         *)
(* What the reassembler holds when ingest is called is an envelope: how    *)
(* far it gets through reassembly, signature and decryption, and what the  *)
(* buffer holds once the sealed box is opened into it.                     *)
(***************************************************************************)
EXTENDS PadStore

CONSTANT Envelope   \* what may have been assembled: [kind, content]

Kind == {"incomplete",   \* chunks are missing
         "unsigned",     \* complete, but not as the sender signed it
         "unopened",     \* sealed for someone else
         "long",         \* a pad longer than the store
         "short",        \* a pad shorter than the store
         "exact"}

ASSUME EnvelopeAssumption == Envelope \subseteq [kind : Kind, content : Material]

VARIABLE answer   \* the error ingest returned last, or how far it got

ivars == <<vars, answer>>

IInit == Init /\ answer = "none"

\* Before the sealed box is opened an error returns at once.
IngestUnverified(e) ==
  /\ \/ e.kind = "incomplete" /\ answer' = "Reassembly"
     \/ e.kind = "unsigned" /\ answer' = "Signature"
  /\ UNCHANGED vars

\* Opening fails before anything is written to the buffer; store.clear().
IngestUnopened(e) ==
  /\ e.kind \in {"unopened", "long"}
  /\ answer' = "Decrypt"
  /\ Clear

\* Mutant: the size check is left out.
IngestShort_Accepted(e) ==
  /\ e.kind = "short" /\ ~filled
  /\ answer' = "opened"
  /\ buf' = e.content /\ key' = e.content
  /\ op' = "finalize" /\ pc' = "load"
  /\ UNCHANGED <<live, locked, filled, consumed, need, ret, disk, issued>>

\* Mutant: store.clear() is left out.
IngestShort_Uncleared(e) ==
  /\ e.kind = "short"
  /\ answer' = "SizeMismatch"
  /\ buf' = e.content
  /\ UNCHANGED <<live, locked, filled, consumed, key, call, ret, disk, issued>>

\* The box was opened into the front of the buffer; store.clear().
IngestShort(e) ==
  /\ e.kind = "short"
  /\ answer' = "SizeMismatch"
  /\ buf' = IF locked THEN Zero ELSE e.content
  /\ locked' = FALSE /\ filled' = FALSE
  /\ Return("ok")
  /\ UNCHANGED <<live, consumed, key, disk, issued>>

\* The pad is in the buffer and finalize_fill begins.
IngestExact(e) ==
  /\ e.kind = "exact" /\ ~filled
  /\ answer' = "opened"
  /\ buf' = e.content /\ key' = e.content
  /\ op' = "finalize" /\ pc' = "load"
  /\ UNCHANGED <<live, locked, filled, consumed, need, ret, disk, issued>>

\* The same on a store already filled: the pad it had is overwritten, and
\* finalize_fill refuses without clearing.
IngestOverFilled(e) ==
  /\ e.kind = "exact" /\ filled
  /\ answer' = "Finalize"
  /\ buf' = e.content
  /\ Return("AlreadyFinalized")
  /\ UNCHANGED <<live, locked, filled, consumed, key, disk, issued>>

Ingest(e) ==
  /\ live /\ pc = "idle"
  /\ \/ IngestUnverified(e) \/ IngestUnopened(e) \/ IngestShort(e)
     \/ IngestExact(e) \/ IngestOverFilled(e)

\* finalize_fill returned its error to ingest.
FinalizeFailed == op = "finalize" /\ pc' = "idle" /\ live' /\ ~filled'

(***************************************************************************)
(* Properties                                                              *)
(***************************************************************************)
\* The types of the store and of the answer.
IngestTypeOK ==
  /\ TypeOK
  /\ answer \in {"none", "opened", "Reassembly", "Signature", "Decrypt",
                 "SizeMismatch", "Finalize"}
  /\ answer = "opened" => op = "finalize"

Failed == answer' \in {"Reassembly", "Signature", "Decrypt", "SizeMismatch",
                       "Finalize"}
Cleared == ~filled' /\ buf' = Zero

\* After every error ingest returns, a store that was deferred and not used
\* before holds no material and is not usable, as ingest.rs:33-34 says ("On
\* any failure, store has been cleared").  Of a store used before that is not
\* so: an error before the box is opened leaves it as it was.
FreshFailureClears == [][Failed /\ locked /\ ~filled => Cleared]_ivars
=============================================================================
