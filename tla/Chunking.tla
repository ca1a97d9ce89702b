------------------------------ MODULE Chunking ------------------------------
(***************************************************************************)
(* src/src/chunking.rs: a signed ciphertext is cut into chunks, and a      *)
(* ChunkReassembler puts them together again.  Between the two lies a      *)
(* medium that loses, repeats, reorders and corrupts chunks: files in a    *)
(* directory (FileAdapter), a pipe (StreamAdapter), or frames on a screen  *)
(* (OpticalAdapter).  Those modules extend this one and give the           *)
(* specifications.                                                         *)
(*                                                                         *)
(* A payload is a short sequence of model values.  The unkeyed hash at the *)
(* end of a chunk is taken to reveal every accidental change, so a changed *)
(* chunk is any chunk whose hash does not match.                           *)
(***************************************************************************)
EXTENDS Naturals, Sequences, FiniteSets, SequencesExt

CONSTANTS
  Payload,         \* the signed ciphertexts that are sent: sequences
  ChunkSize,       \* chunk_payload_size
  MaxTotal,        \* max_total_chunks
  Session,         \* session ids
  FreshSessions,   \* is every transmission given a session id of its own?
  None             \* an unset Option

\* What a slot of the reassembler may hold: at most ChunkSize bytes.
Piece == UNION {[1 .. k -> UNION {Range(p) : p \in Payload}] : k \in 0 .. ChunkSize}

ASSUME PayloadAssumption == \A p \in Payload : p \in Seq(Range(p))
ASSUME ChunkSizeAssumption == ChunkSize \in Nat \ {0}
ASSUME MaxTotalAssumption == MaxTotal \in Nat \ {0}
ASSUME FreshAssumption == FreshSessions \in BOOLEAN
ASSUME NoneAssumption == None \notin Session \cup Nat \cup Piece

VARIABLES
  sent,      \* the transmissions so far: pairs <<session id, payload>>
  session,   \* ChunkReassembler.session_id
  total,     \* ChunkReassembler.total_chunks
  received,  \* ChunkReassembler.received
  next,      \* ChunkReassembler.next_expected_seq
  last       \* what the last ingest returned

reassembler == <<session, total, received, next>>
vars == <<sent, session, total, received, next, last>>

(***************************************************************************)
(* encode_chunks                                                           *)
(***************************************************************************)
\* The payload length divided by the chunk size, rounded up, at least 1.
TotalChunks(len) ==
  IF len = 0 THEN 1 ELSE (len + ChunkSize - 1) \div ChunkSize

\* The bytes of chunk seq: the last chunk may be short, the only chunk empty.
Slice(payload, seq) ==
  LET end == (seq + 1) * ChunkSize
  IN  SubSeq(payload, seq * ChunkSize + 1,
             IF end < Len(payload) THEN end ELSE Len(payload))

EncodeChunks(payload, id) ==
  LET n == TotalChunks(Len(payload))
  IN  [i \in 1 .. n |-> [session |-> id, seq |-> i - 1, total |-> n,
                         data |-> Slice(payload, i - 1)]]

Chunk == UNION {Range(EncodeChunks(p, id)) : p \in Payload, id \in Session}

(***************************************************************************)
(* The reassembler                                                         *)
(***************************************************************************)
Init ==
  /\ sent = {}
  /\ session = None /\ total = None /\ received = << >> /\ next = 0
  /\ last = "none"

\* A sender encodes a payload and hands the chunks to the medium.
Transmit(p, id) ==
  /\ FreshSessions => \A t \in sent : t[1] # id
  /\ sent' = sent \cup {<<id, p>>}
  /\ UNCHANGED <<reassembler, last>>

Reject(error) == last' = error /\ UNCHANGED <<sent, reassembler>>

\* Too short, a length that does not fit, a hash that does not match.
IngestChanged == sent # {} /\ Reject("Corrupt")

OutOfBound(c) == c.total = 0 \/ c.total > MaxTotal

IngestOutOfBound(c) == OutOfBound(c) /\ Reject("Corrupt")

\* Mutant: the session id is not compared.
Foreign_TotalOnly(c) == session # None /\ c.total # total

\* A chunk of another transmission than the one the reassembler follows.
Foreign(c) == session # None /\ (c.session # session \/ c.total # total)

IngestForeign(c) ==
  ~OutOfBound(c) /\ Foreign(c) /\ Reject("SequenceViolation")

\* The first chunk that gets this far decides which transmission is followed,
\* even if it is then refused for its sequence number.
Follow(c) ==
  /\ session' = c.session
  /\ total' = c.total

Slots(c) == IF session = None THEN [i \in 1 .. c.total |-> None] ELSE received

IngestOutOfOrder(c) ==
  /\ ~OutOfBound(c) /\ ~Foreign(c)
  /\ c.seq # next
  /\ Follow(c) /\ received' = Slots(c)
  /\ last' = "SequenceViolation"
  /\ UNCHANGED <<sent, next>>

IngestNext(c) ==
  /\ ~OutOfBound(c) /\ ~Foreign(c)
  /\ c.seq = next
  /\ Follow(c)
  /\ received' = [Slots(c) EXCEPT ![c.seq + 1] = c.data]
  /\ next' = next + 1
  /\ last' = IF next' = total' THEN "complete" ELSE "more"
  /\ UNCHANGED sent

Ingest(c) ==
  \/ IngestOutOfBound(c) \/ IngestForeign(c)
  \/ IngestOutOfOrder(c) \/ IngestNext(c)

\* The receiver gives up and starts over with a new reassembler.
Restart ==
  /\ session # None
  /\ session' = None /\ total' = None /\ received' = << >> /\ next' = 0
  /\ last' = "none"
  /\ UNCHANGED sent

\* assemble() succeeds, and what it returns.
Complete == total # None /\ next = total
Assembled == FlattenSeq(received)

(***************************************************************************)
(* Properties                                                              *)
(***************************************************************************)
\* The types of the variables; and the slots filled so far are those below
\* next, so that assemble() unwraps no empty slot and ingest() writes inside
\* the vector, whatever order the chunks come in.
TypeOK ==
  /\ sent \subseteq Session \X Payload
  /\ session \in Session \cup {None}
  /\ total \in 1 .. MaxTotal \cup {None}
  /\ received \in Seq(Piece \cup {None})
  /\ next \in 0 .. Len(received)
  /\ last \in {"none", "more", "complete", "Corrupt", "SequenceViolation"}
  /\ session = None <=> total = None
  /\ total # None => Len(received) = total
  /\ \A i \in DOMAIN received : received[i] # None <=> i <= next

\* Transmissions the reassembler cannot tell from the one it follows.
Followed ==
  {t \in sent : t[1] = session /\ TotalChunks(Len(t[2])) = total}

\* What assemble() returns is a payload that was sent under the session id
\* the reassembler follows, whatever was lost, repeated, reordered, cut off
\* or changed on the way - unless a caller of encode_chunks gave one session
\* id to two transmissions with as many chunks, which no check tells apart.
AssembledWasSent ==
  Complete /\ Cardinality(Followed) <= 1 => <<session, Assembled>> \in sent
=============================================================================
