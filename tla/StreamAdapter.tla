---------------------------- MODULE StreamAdapter ----------------------------
(***************************************************************************)
(* The stream adapter of src/src/stream_adapter.rs between the encoder and *)
(* the reassembler of Chunking.  Chunks follow one another on a pipe with  *)
(* no delimiter; the reader takes a header, finds the length in it, and    *)
(* takes the rest.  Reads return as few bytes as they like, the writer may *)
(* stop in the middle of a chunk, die, or go on with another transmission, *)
(* and the reader may be asked for the next chunk after an error.          *)
(*                                                                         *)
(* A byte on the wire is <<chunk, position>>.  One call of read or write   *)
(* moves one byte: more at once are several such steps in a row.  A header *)
(* cut out of the middle of the stream declares any length whatever.       *)
(***************************************************************************)
EXTENDS Chunking

CONSTANTS
  HeaderLen,    \* bytes of a chunk header
  MaxPayload,   \* MAX_REASONABLE_CHUNK_PAYLOAD
  Faulty        \* may writes be abandoned and reads fail?

ASSUME HeaderAssumption == HeaderLen \in Nat \ {0}
ASSUME MaxPayloadAssumption == MaxPayload \in Nat
ASSUME FaultyAssumption == Faulty \in BOOLEAN

VARIABLES
  open,     \* the writing end is open
  out,      \* the chunks still to be written
  at,       \* bytes of the first of them that write_all has written
  wire,     \* bytes written and not yet read
  rpc,      \* idle, or the part of a chunk being read: header, rest
  got,      \* bytes of that chunk read so far
  want,     \* bytes of it that end the part being read
  item,     \* what the last next() returned
  whole,    \* history: no error was reported on this stream to either side
  written,  \* history: all bytes written to this stream, until an error
  yielded   \* history: all bytes of the chunks returned, until an error

pipe == <<open, out, at, wire>>
reader == <<rpc, got, want, item>>
history == <<whole, written, yielded>>
svars == <<vars, pipe, reader, history>>

HashLen == 1
Size(c) == HeaderLen + Len(c.data) + HashLen

SInit ==
  /\ Init
  /\ open = TRUE /\ out = << >> /\ at = 0 /\ wire = << >>
  /\ rpc = "idle" /\ got = << >> /\ want = 0 /\ item = "none"
  /\ whole = TRUE /\ written = << >> /\ yielded = << >>

\* An error is reported to one side: from here on there is no promise.
Disrupted == whole' = FALSE /\ written' = << >> /\ yielded' = << >>

(***************************************************************************)
(* The writer                                                              *)
(***************************************************************************)
\* The chunks of a payload are handed to write_chunk_to_stream one by one.
StartStream(p, id) ==
  /\ open /\ out = << >>
  /\ Transmit(p, id)
  /\ out' = EncodeChunks(p, id)
  /\ UNCHANGED <<open, at, wire, reader, history>>

WriteByte ==
  /\ open /\ out # << >>
  /\ LET byte == <<Head(out), at + 1>> IN
       /\ wire' = Append(wire, byte)
       /\ written' = IF whole THEN Append(written, byte) ELSE written
  /\ IF at + 1 = Size(Head(out)) THEN out' = Tail(out) /\ at' = 0
     ELSE out' = out /\ at' = at + 1
  /\ UNCHANGED <<vars, open, reader, whole, yielded>>

\* write_all fails, and the caller gives the transmission up.
Abandon ==
  /\ Faulty /\ open /\ out # << >>
  /\ out' = << >> /\ at' = 0 /\ Disrupted
  /\ UNCHANGED <<vars, open, wire, reader>>

\* The writer closes the pipe, or dies and has it closed, in mid-chunk too.
Close ==
  /\ open
  /\ open' = FALSE /\ out' = << >> /\ at' = 0
  /\ UNCHANGED <<vars, wire, reader, history>>

(***************************************************************************)
(* The reader                                                              *)
(***************************************************************************)
\* next() is called, which the iterator allows after an error as well.
Ask ==
  /\ rpc = "idle"
  /\ rpc' = "header" /\ want' = HeaderLen
  /\ UNCHANGED <<vars, pipe, got, item, history>>

ReadByte ==
  /\ rpc # "idle" /\ Len(got) < want /\ wire # << >>
  /\ got' = Append(got, Head(wire)) /\ wire' = Tail(wire)
  /\ UNCHANGED <<vars, open, out, at, rpc, want, item, history>>

Answer(i) == item' = i /\ rpc' = "idle" /\ got' = << >> /\ want' = 0

\* What was read of the chunk so far is gone with the error.
Fail(error) ==
  /\ Answer(error) /\ Disrupted
  /\ UNCHANGED <<vars, pipe>>

Ended == rpc # "idle" /\ Len(got) < want /\ wire = << >> /\ ~open

\* Mutant: the end of the stream within a header is a clean end.
CleanEnd_AnyHeader == Ended /\ rpc = "header"

CleanEnd == Ended /\ got = << >>

\* Mutant: a read of no bytes is tried again for ever.
ReadNone_Retried ==
  /\ CleanEnd
  /\ Answer(item)
  /\ UNCHANGED <<vars, pipe, history>>

\* next() returns None.
ReadNone ==
  /\ CleanEnd
  /\ Answer("None")
  /\ UNCHANGED <<vars, pipe, history>>

ReadEof == Ended /\ ~CleanEnd /\ Fail("UnexpectedEof")

\* Any error of read, ErrorKind::Interrupted among them.
ReadError == Faulty /\ rpc # "idle" /\ Len(got) < want /\ Fail("Io")

Aligned == \A i \in DOMAIN got : got[i] = <<got[1][1], i>>

\* Mutant: the hash is left out of what is still to be read.
Rest_NoHash(length) == HeaderLen + length

Rest(length) == HeaderLen + length + HashLen

\* Mutant: the declared length is not checked.
ReadLength_Unbounded(length) ==
  /\ rpc = "header" /\ Len(got) = want
  /\ Aligned => length = Len(got[1][1].data)
  /\ rpc' = "rest" /\ want' = Rest(length)
  /\ UNCHANGED <<vars, pipe, got, item, history>>

\* The length in the header is within the bound: the rest is read.
ReadLength(length) ==
  /\ rpc = "header" /\ Len(got) = want
  /\ Aligned => length = Len(got[1][1].data)
  /\ \/ /\ length <= MaxPayload
        /\ rpc' = "rest" /\ want' = Rest(length)
        /\ UNCHANGED <<vars, pipe, got, item, history>>
     \/ length > MaxPayload /\ Fail("MalformedLength")

\* The chunk is returned, and the caller ingests it.
Yield ==
  /\ rpc = "rest" /\ Len(got) = want
  /\ Answer("chunk")
  /\ yielded' = IF whole THEN yielded \o got ELSE yielded
  /\ IF Aligned /\ want = Size(got[1][1]) THEN Ingest(got[1][1]) ELSE IngestChanged
  /\ UNCHANGED <<pipe, whole, written>>

\* After the end both sides open another pipe.
Reconnect ==
  /\ ~open /\ rpc = "idle" /\ item = "None"
  /\ open' = TRUE /\ item' = "none"
  /\ whole' = TRUE /\ written' = << >> /\ yielded' = << >>
  /\ UNCHANGED <<vars, out, at, wire, rpc, got, want>>

\* The caller takes a new reassembler.
SRestart == Restart /\ rpc = "idle" /\ UNCHANGED <<pipe, reader, history>>

(***************************************************************************)
(* The specification                                                       *)
(***************************************************************************)
Read ==
  \/ Ask \/ ReadByte \/ ReadNone \/ ReadEof
  \/ \E length \in 0 .. MaxPayload + 1 : ReadLength(length)
  \/ Yield

SNext ==
  \/ \E p \in Payload, id \in Session : StartStream(p, id)
  \/ WriteByte \/ Abandon \/ Close
  \/ Read \/ ReadError
  \/ Reconnect \/ SRestart

SSpec == SInit /\ [][SNext]_svars

\* The receiver asks for chunk after chunk, and reads return.
SFairSpec == SSpec /\ WF_svars(Read)

(***************************************************************************)
(* Properties                                                              *)
(***************************************************************************)
\* The types of the variables that this module adds; no more is allocated
\* than the bound on a chunk allows.
STypeOK ==
  /\ TypeOK
  /\ open \in BOOLEAN /\ whole \in BOOLEAN
  /\ rpc \in {"idle", "header", "rest"}
  /\ Len(got) <= want /\ want <= HeaderLen + MaxPayload + HashLen
  /\ item \in {"none", "chunk", "None", "Io", "UnexpectedEof", "MalformedLength"}

\* As long as no side saw an error, the chunks returned are those written, in
\* order and each in one piece, however short the reads.
InStep ==
  whole =>
    /\ IsPrefix(yielded, written)
    /\ rpc = "idle" /\ item = "chunk" =>
         yielded = written \/ yielded = << >> \/ written[Len(yielded) + 1][2] = 1

\* The end of the stream in mid-chunk is never taken for the end of the
\* chunks (stream_adapter.rs:10): None means that all that was written came.
EndIsComplete ==
  [][item' = "None" /\ rpc # "idle" /\ whole => yielded = written]_svars

\* A closed stream is read to its end, or an error is reported.
CloseIsSeen == ~open ~> (item = "None" \/ ~whole)
=============================================================================
