----------------------------- MODULE FileAdapter -----------------------------
(***************************************************************************)
(* The file adapter of src/src/file_adapter.rs between the encoder and the *)
(* reassembler of Chunking.  A writer puts each chunk into a file of its   *)
(* own by way of a temporary file; a reader lists the directory, reads     *)
(* what it finds, and hands it to a new reassembler, chunk by chunk.       *)
(* Both may run at once, the writer may die or fail half-way, another      *)
(* transmission may be written into the same directory later, and whoever  *)
(* carries the directory about may lose, copy and truncate files.          *)
(*                                                                         *)
(* A file is named by the sequence number in its name.  Temporary files    *)
(* are skipped by the reader, so the one being written is all there is.    *)
(* What is read is what reached the medium: an unsynced file may be torn.  *)
(***************************************************************************)
EXTENDS Chunking

CONSTANTS
  Copies,         \* names ending in .bin that only a person gives to a file
  MaxWrites,      \* bound: the transmissions that are ever written
  Absent, Torn    \* no file; a file shorter than a chunk header

ASSUME CopiesAssumption == Copies \cap Nat = {}
ASSUME WritesAssumption == MaxWrites \in Nat
ASSUME MarkAssumption == Absent # Torn /\ {Absent, Torn} \cap Chunk = {}

VARIABLES
  todo,     \* the chunks write_chunks_to_dir has still to write
  wpc,      \* where that call stands
  tmp,      \* the temporary file in hand
  synced,   \* sync_all of it returned
  dir,      \* the files whose names end in .bin
  rpc,      \* list: reading the directory; feed: ingesting what was read
  must,     \* files there when the listing began
  seen,     \* files listed and read so far
  entries,  \* what was read of them: a set of <<name, chunk>>
  read,     \* how the last read_chunks_from_dir ended
  feed      \* chunks it returned that are not yet ingested

writer == <<todo, wpc, tmp, synced>>
reader == <<rpc, must, seen, entries, read, feed>>
fvars == <<vars, writer, dir, reader>>

\* write_chunks_to_dir does not know the bound of the reassembler.
Seqs == UNION {0 .. TotalChunks(Len(p)) - 1 : p \in Payload}
Name == Seqs \cup Copies

FInit ==
  /\ Init
  /\ todo = << >> /\ wpc = "idle"
  /\ tmp = Absent /\ synced = FALSE
  /\ dir = [n \in Name |-> Absent]
  /\ rpc = "idle" /\ must = {} /\ seen = {} /\ entries = {}
  /\ read = "none" /\ feed = << >>

(***************************************************************************)
(* write_chunks_to_dir                                                     *)
(***************************************************************************)
StartWrite(p, id) ==
  /\ wpc = "idle"
  /\ Transmit(p, id) /\ Cardinality(sent') <= MaxWrites
  /\ todo' = EncodeChunks(p, id) /\ wpc' = "create"
  /\ UNCHANGED <<tmp, synced, dir, reader>>

CreateTmp ==
  /\ wpc = "create" /\ todo # << >>
  /\ tmp' = Torn /\ synced' = FALSE /\ wpc' = "write"
  /\ UNCHANGED <<vars, todo, dir, reader>>

WriteTmp ==
  /\ wpc = "write"
  /\ tmp' = Head(todo) /\ wpc' = "sync"
  /\ UNCHANGED <<vars, todo, synced, dir, reader>>

\* Mutant: sync_all is left out.
SyncTmp_Skipped ==
  /\ wpc = "sync"
  /\ wpc' = "rename"
  /\ UNCHANGED <<vars, todo, tmp, synced, dir, reader>>

SyncTmp ==
  /\ wpc = "sync"
  /\ synced' = TRUE /\ wpc' = "rename"
  /\ UNCHANGED <<vars, todo, tmp, dir, reader>>

\* Mutant: the file is named after the chunks left to write.
RenameTmp_ByPosition ==
  /\ wpc = "rename"
  /\ dir' = [dir EXCEPT ![Len(todo) - 1] = IF synced THEN tmp ELSE Torn]
  /\ tmp' = Absent /\ synced' = FALSE
  /\ todo' = Tail(todo) /\ wpc' = "create"
  /\ UNCHANGED <<vars, reader>>

\* The file gets the name of the number in the chunk's own header.
RenameTmp ==
  /\ wpc = "rename"
  /\ dir' = [dir EXCEPT ![Head(todo).seq] = IF synced THEN tmp ELSE Torn]
  /\ tmp' = Absent /\ synced' = FALSE
  /\ todo' = Tail(todo) /\ wpc' = "create"
  /\ UNCHANGED <<vars, reader>>

EndWrite ==
  /\ wpc = "create" /\ todo = << >>
  /\ wpc' = "idle"
  /\ UNCHANGED <<vars, todo, tmp, synced, dir, reader>>

\* A system call fails, or the process dies: what was renamed stays, and a
\* temporary file left behind is never looked at again.
WriteFails ==
  /\ wpc # "idle" /\ todo # << >>
  /\ wpc' = "idle" /\ todo' = << >> /\ tmp' = Absent /\ synced' = FALSE
  /\ UNCHANGED <<vars, dir, reader>>

(***************************************************************************)
(* read_chunks_from_dir                                                    *)
(***************************************************************************)
\* A caller reads the directory with a new reassembler at hand.
StartRead ==
  /\ rpc = "idle"
  /\ rpc' = "list" /\ read' = "none"
  /\ must' = {n \in Name : dir[n] # Absent} /\ seen' = {} /\ entries' = {}
  /\ session' = None /\ total' = None /\ received' = << >> /\ next' = 0
  /\ last' = "none"
  /\ UNCHANGED <<sent, writer, dir, feed>>

EndRead(r) ==
  /\ rpc' = "idle" /\ read' = r /\ must' = {} /\ seen' = {} /\ entries' = {}
  /\ UNCHANGED <<vars, writer, dir, feed>>

\* read_dir yields a name, in no particular order, and the file is read.
ReadEntry(n) ==
  /\ rpc = "list" /\ n \notin seen
  /\ dir[n] \notin {Absent, Torn}
  /\ seen' = seen \cup {n}
  /\ entries' = entries \cup {<<n, dir[n]>>}
  /\ UNCHANGED <<vars, writer, dir, rpc, must, read, feed>>

\* parse_seq refuses a file shorter than a header.
ReadMalformed(n) ==
  /\ rpc = "list" /\ n \notin seen /\ dir[n] = Torn
  /\ EndRead("MalformedChunk")

\* The medium fails.
ReadFails ==
  /\ rpc = "list"
  /\ EndRead("Io")

\* read_dir has yielded every file that was there all the time.
Listed == must \subseteq seen

Count == Cardinality(entries)
\* Mutant: an entry is compared with itself as well.
Duplicate_Itself == \E e, f \in entries : e[2].seq = f[2].seq

Duplicate == \E e, f \in entries : e # f /\ e[2].seq = f[2].seq

\* Mutant: the check for gaps is left out.
Contiguous_Unchecked == ~Duplicate

\* Once sorted, and without duplicates, the numbers are 0, 1, 2, ...
Contiguous == {e[2].seq : e \in entries} = 0 .. Count - 1

ReadNothing == Listed /\ entries = {} /\ EndRead("NoChunksFound")
ReadDuplicate == Listed /\ Duplicate /\ EndRead("DuplicateChunk")
ReadGap ==
  /\ Listed /\ entries # {} /\ ~Duplicate /\ ~Contiguous
  /\ EndRead("MissingChunk")

\* The chunks of S, no two with one number, in the order of their numbers.
InOrder(S) ==
  CHOOSE f \in [1 .. Cardinality(S) -> S] :
    \A i, j \in 1 .. Cardinality(S) : i < j => f[i].seq < f[j].seq

\* The order is that of the headers.
ReadReturns ==
  /\ Listed /\ entries # {} /\ ~Duplicate /\ Contiguous
  /\ rpc' = "feed" /\ read' = "ok"
  /\ feed' = InOrder({e[2] : e \in entries})
  /\ must' = {} /\ seen' = {} /\ entries' = {}
  /\ UNCHANGED <<vars, writer, dir>>

\* The caller ingests what was returned up to the first error.
Feed ==
  /\ rpc = "feed" /\ feed # << >>
  /\ Ingest(Head(feed))
  /\ feed' = IF last' \in {"more", "complete"} THEN Tail(feed) ELSE << >>
  /\ UNCHANGED <<writer, dir, rpc, must, seen, entries, read>>

EndFeed ==
  /\ rpc = "feed" /\ feed = << >>
  /\ rpc' = "idle"
  /\ UNCHANGED <<vars, writer, dir, must, seen, entries, read, feed>>

(***************************************************************************)
(* Whoever carries the directory                                           *)
(***************************************************************************)
Becomes(n, content) ==
  /\ dir[n] # content
  /\ dir' = [dir EXCEPT ![n] = content]
  /\ UNCHANGED <<vars, writer, reader>>

Lose(n) == Becomes(n, Absent)
Truncate(n) == dir[n] # Absent /\ Becomes(n, Torn)
CopyFile(n, m) == m \in Copies /\ dir[n] # Absent /\ Becomes(m, dir[n])

\* The medium is carried when neither side is using it.
Carry ==
  /\ wpc = "idle" /\ rpc = "idle"
  /\ \E n \in Name : Lose(n) \/ Truncate(n) \/ \E m \in Name : CopyFile(n, m)

(***************************************************************************)
(* The specification                                                       *)
(***************************************************************************)
Write == CreateTmp \/ WriteTmp \/ SyncTmp \/ RenameTmp \/ EndWrite

Read ==
  \/ StartRead
  \/ \E n \in Name : ReadEntry(n) \/ ReadMalformed(n)
  \/ rpc = "list" /\ (ReadNothing \/ ReadDuplicate \/ ReadGap \/ ReadReturns)
  \/ Feed \/ EndFeed

FNext ==
  \/ \E p \in Payload, id \in Session : StartWrite(p, id)
  \/ Write \/ WriteFails
  \/ Read \/ ReadFails
  \/ Carry

FSpec == FInit /\ [][FNext]_fvars

\* A write and a read go on once begun, and the caller reads the directory
\* again and again.
FFairSpec == FSpec /\ WF_fvars(Write) /\ WF_fvars(Read)

(***************************************************************************)
(* Properties                                                              *)
(***************************************************************************)
\* The types of the variables that this module adds; and a file the writer
\* named is named after the chunk in it.
FTypeOK ==
  /\ TypeOK
  /\ Range(todo) \subseteq Chunk /\ Range(feed) \subseteq Chunk
  /\ wpc \in {"idle", "create", "write", "sync", "rename"}
  /\ tmp \in Chunk \cup {Absent, Torn} /\ synced \in BOOLEAN
  /\ dir \in [Name -> Chunk \cup {Absent, Torn}]
  /\ \A n \in Seqs : dir[n] \in Chunk => dir[n].seq = n
  /\ rpc \in {"idle", "list", "feed"}
  /\ must \subseteq Name /\ seen \subseteq Name
  /\ entries \subseteq seen \X Chunk
  /\ read \in {"none", "ok", "Io", "MalformedChunk", "NoChunksFound",
               "DuplicateChunk", "MissingChunk"}

\* No interruption of the writer leaves a partial chunk under a name the
\* reader reads (write_chunks_to_dir: temporary file, sync, rename).
WriterNeverTears ==
  [][(\E n \in Name : dir[n] # Torn /\ dir'[n] = Torn) => Carry]_fvars

\* A read that succeeds has no hole, no repetition and the right order: if
\* its chunks are all of one transmission they are a beginning of it, however
\* the reader ran against the writer (read_chunks_from_dir).
ReadIsPrefix ==
  [][rpc = "list" /\ rpc' = "feed" =>
       \A t \in sent :
         LET chunks == EncodeChunks(t[2], t[1])
         IN  Range(feed') \subseteq Range(chunks) => IsPrefix(feed', chunks)]_fvars

\* The directory holds one transmission, all of it and nothing else.
Whole ==
  \E t \in sent :
    LET chunks == EncodeChunks(t[2], t[1])
    IN  \A n \in Name :
          dir[n] = IF n \in 0 .. Len(chunks) - 1 THEN chunks[n + 1] ELSE Absent

\* A transmission that is whole and left alone is delivered to a reader that
\* reads until it has a payload, whatever failed or was mixed up before;
\* unless the medium fails it.
WholeIsDelivered == Whole ~> (Complete \/ ~Whole \/ read = "Io")
=============================================================================
