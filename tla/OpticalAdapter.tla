--------------------------- MODULE OpticalAdapter ---------------------------
(***************************************************************************)
(* The optical adapter of src/src/optical_adapter.rs between the encoder   *)
(* and the reassembler of Chunking.  A sender shows the chunks of a        *)
(* transmission as frames in a loop; a camera captures frames in any       *)
(* order, again and again, and of several loops when several are shown.    *)
(* Once every frame is there the receiver hands the chunks to a new        *)
(* ChunkReassembler.                                                       *)
(*                                                                         *)
(* encode_frame takes the tag, the number, the count and the payload from  *)
(* its caller and checks only the size.  A caller that numbers its frames  *)
(* from 1, as tests/send_message.rs does, shows frames whose number is not *)
(* that of the chunk inside; a count may be wrong, 0 too; and a payload    *)
(* may be no chunk, as the message of that test is none.                   *)
(***************************************************************************)
EXTENDS Chunking

CONSTANTS
  Tag,            \* session tags
  FrameCapacity,  \* bytes of chunk payload that fit into one frame
  MaxLoops,       \* bound: the loops that are ever shown
  MaxCount        \* bound: the counts that callers of encode_frame give

ASSUME TagAssumption == None \notin Tag
ASSUME CapacityAssumption ==
  FrameCapacity \in Nat /\ MaxLoops \in Nat /\ MaxCount \in Nat

VARIABLES
  shows,    \* the loops shown so far: tag, number of the first frame, count, chunks
  ftag,     \* OpticalFrameReassembler.session_tag
  ftotal,   \* OpticalFrameReassembler.total_frames
  frames,   \* OpticalFrameReassembler.received: a function on numbers
  outcome,  \* what the last ingest_frame returned
  feed      \* chunks assemble returned that are not yet ingested

optical == <<ftag, ftotal, frames>>
ovars == <<vars, shows, optical, outcome, feed>>

Nothing == [n \in {} |-> None]

OInit ==
  /\ Init
  /\ shows = {}
  /\ ftag = None /\ ftotal = None /\ frames = Nothing
  /\ outcome = "none" /\ feed = << >>

(***************************************************************************)
(* OpticalFrameEncoder                                                     *)
(***************************************************************************)
Fits(chunks) == \A c \in Range(chunks) : Len(c.data) <= FrameCapacity

\* The loop of frames that a sender makes of the chunks of a payload.
Loop(p, id, tag, first, count) ==
  [tag |-> tag, first |-> first, count |-> count, chunks |-> EncodeChunks(p, id)]

\* A sender encodes a payload, makes a frame of every chunk and shows them.
Show(p, id, tag, first, count) ==
  /\ Fits(EncodeChunks(p, id)) /\ Cardinality(shows) < MaxLoops
  /\ Transmit(p, id)
  /\ shows' = shows \cup {Loop(p, id, tag, first, count)}
  /\ UNCHANGED <<optical, outcome, feed>>

FramesOf(s) ==
  {[tag |-> s.tag, seq |-> s.first + i - 1, total |-> s.count, chunk |-> s.chunks[i]] :
     i \in DOMAIN s.chunks}

\* Frames of payloads that are no chunks.
Strays == [tag : Tag, seq : 0 .. 1, total : 0 .. MaxCount, chunk : {None}]

Visible == Strays \cup UNION {FramesOf(s) : s \in shows}

(***************************************************************************)
(* OpticalFrameReassembler                                                 *)
(***************************************************************************)
Refuse(error) ==
  /\ outcome' = error
  /\ UNCHANGED <<vars, shows, optical, feed>>

\* Not a frame at all: too short for the header of a frame, or another magic.
CaptureOther ==
  /\ shows # {}
  /\ \E error \in {"Malformed", "BadMagic"} : Refuse(error)

\* Mutant: the tags are not compared.
OtherLoop_TotalOnly(f) == ftag # None /\ f.total # ftotal

OtherLoop(f) == ftag # None /\ (f.tag # ftag \/ f.total # ftotal)

CaptureOtherLoop(f) ==
  /\ OtherLoop(f)
  /\ Refuse(IF f.tag # ftag THEN "SessionMismatch" ELSE "TotalMismatch")

\* Tag and count are taken from the first frame, even one then refused.
Latch(f) == ftag' = f.tag /\ ftotal' = f.total

\* Mutant: the number of the chunk inside is not compared.
Misnumbered_RangeOnly(f) == f.seq >= f.total \/ f.chunk = None

\* Mutant: the last number is out of range.
Misnumbered_OffByOne(f) ==
  f.seq + 1 >= f.total \/ (f.chunk # None => f.chunk.seq # f.seq)

Misnumbered(f) == f.seq >= f.total \/ (f.chunk # None => f.chunk.seq # f.seq)

\* A payload that is no chunk is too short for a chunk header, or the bytes at
\* the place of the number are another number.
Misnumbering(f) ==
  IF f.seq >= f.total THEN {"IndexOutOfRange"}
  ELSE {"SeqCrossValidationFailed"} \cup {e \in {"Malformed"} : f.chunk = None}

CaptureMisnumbered(f) ==
  /\ ~OtherLoop(f) /\ Misnumbered(f)
  /\ Latch(f)
  /\ outcome' \in Misnumbering(f)
  /\ UNCHANGED <<vars, shows, frames, feed>>

CaptureDifferent(f) ==
  /\ ~OtherLoop(f) /\ ~Misnumbered(f)
  /\ f.seq \in DOMAIN frames /\ frames[f.seq] # f.chunk
  /\ Refuse("Malformed")

Full(fs) == Cardinality(DOMAIN fs) = ftotal'
Progress(fs) == outcome' = IF Full(fs) THEN "complete" ELSE "more"

CaptureAgain(f) ==
  /\ ~OtherLoop(f) /\ ~Misnumbered(f)
  /\ f.seq \in DOMAIN frames /\ frames[f.seq] = f.chunk
  /\ Latch(f) /\ Progress(frames)
  /\ UNCHANGED <<vars, shows, frames, feed>>

CaptureNew(f) ==
  /\ ~OtherLoop(f) /\ ~Misnumbered(f)
  /\ f.seq \notin DOMAIN frames
  /\ Latch(f)
  /\ frames' = [n \in DOMAIN frames \cup {f.seq} |->
                  IF n = f.seq THEN f.chunk ELSE frames[n]]
  /\ Progress(frames')
  /\ UNCHANGED <<vars, shows, feed>>

Capture(f) ==
  \/ CaptureOtherLoop(f) \/ CaptureMisnumbered(f)
  \/ CaptureDifferent(f) \/ CaptureAgain(f) \/ CaptureNew(f)

\* assemble() succeeds, and what it returns: every number below the count,
\* nothing at all if that is 0.
Collected == ftotal # None /\ Cardinality(DOMAIN frames) = ftotal
Chunks == [i \in 1 .. ftotal |-> frames[i - 1]]

(***************************************************************************)
(* The receiver                                                            *)
(***************************************************************************)
\* With all frames there, their chunks go to a new ChunkReassembler.
HandOver ==
  /\ Collected /\ feed = << >>
  /\ feed' = Chunks
  /\ session' = None /\ total' = None /\ received' = << >> /\ next' = 0
  /\ last' = "none"
  /\ UNCHANGED <<sent, shows, optical, outcome>>

Feed ==
  /\ feed # << >>
  /\ Ingest(Head(feed))
  /\ feed' = IF last' \in {"more", "complete"} THEN Tail(feed) ELSE << >>
  /\ UNCHANGED <<shows, optical, outcome>>

\* The receiver gives up and begins with a new OpticalFrameReassembler.
StartOver ==
  /\ ftag # None /\ feed = << >>
  /\ ftag' = None /\ ftotal' = None /\ frames' = Nothing /\ outcome' = "none"
  /\ UNCHANGED <<vars, shows, feed>>

(***************************************************************************)
(* The specification                                                       *)
(***************************************************************************)
ONext ==
  \/ \E p \in Payload, id \in Session, tag \in Tag, first \in 0 .. 1,
        count \in 0 .. MaxCount : Show(p, id, tag, first, count)
  \/ \E f \in Visible : Capture(f)
  \/ CaptureOther
  \/ HandOver \/ Feed \/ StartOver

OSpec == OInit /\ [][ONext]_ovars

\* A loop that keeps playing shows every frame again, and the camera catches
\* it at some time.
OFairSpec == OSpec /\ WF_ovars(\E f \in Visible : CaptureNew(f))

(***************************************************************************)
(* Properties                                                              *)
(***************************************************************************)
ShownChunk == UNION {Range(s.chunks) : s \in shows}

\* The types of the variables that this module adds; assemble() unwraps no
\* missing frame, since no number lies outside 0 .. total - 1.
OTypeOK ==
  /\ TypeOK
  /\ ftag \in Tag \cup {None} /\ (ftag = None <=> ftotal = None)
  /\ ftotal # None => DOMAIN frames \subseteq 0 .. ftotal - 1
  /\ ftotal = None => DOMAIN frames = {}
  /\ \A n \in DOMAIN frames : frames[n] \in ShownChunk /\ frames[n].seq = n
  /\ Range(feed) \subseteq ShownChunk
  /\ outcome \in {"none", "more", "complete", "Malformed", "BadMagic",
                  "SessionMismatch", "TotalMismatch", "IndexOutOfRange",
                  "SeqCrossValidationFailed"}

\* As long as no two loops on screen share a tag, their frames are never
\* merged (optical_adapter.rs:17): what assemble() returns is as much of one
\* loop as its frames count, the whole of it if they count right.  Only where
\* the count followed is 0 does it return no chunk, and then ingest_frame has
\* not reported that every frame is there.
OneLoop ==
  Collected /\ (\A s, t \in shows : s.tag = t.tag => s = t) =>
    IF ftotal = 0 THEN outcome # "complete"
    ELSE \E s \in shows :
           s.tag = ftag /\ s.count = ftotal /\ IsPrefix(Chunks, s.chunks)

\* The loop with the tag and the count followed, if it is numbered from 0 and
\* its frames count right.
Latched ==
  \E s \in shows : /\ s.tag = ftag /\ s.count = ftotal
                   /\ s.first = 0 /\ s.count = Len(s.chunks)

\* Once a loop is followed that is numbered as it should be, repetition,
\* disorder and other loops on the screen only delay its completion.
LoopCompletes == Latched ~> (Collected \/ ftag = None)
=============================================================================
