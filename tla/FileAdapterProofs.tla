-------------------------- MODULE FileAdapterProofs --------------------------
(***************************************************************************)
(* Theorems of FileAdapter for any payloads, sizes and names: no step of   *)
(* the writer, and no end it may come to, leaves a torn file where the     *)
(* reader looks; a read that succeeds is a beginning of a transmission;    *)
(* and what is assembled was sent.                                         *)
(***************************************************************************)
EXTENDS FileAdapter, ChunkingProofs

(***************************************************************************)
(* The invariants of the three places where chunks are kept.               *)
(***************************************************************************)
\* What is renamed was written and synced, and is the chunk it is named for.
WriterInv ==
  /\ todo \in Seq(SentChunk)
  /\ wpc \in {"idle", "create", "write", "sync", "rename"} /\ synced \in BOOLEAN
  /\ wpc \in {"write", "sync", "rename"} => todo # << >>
  /\ wpc \in {"sync", "rename"} => tmp = Head(todo)
  /\ wpc = "rename" => synced
  /\ tmp \in SentChunk \cup {Absent, Torn}

\* However it is carried about, the directory holds chunks that were sent.
DirInv ==
  /\ dir \in [Name -> SentChunk \cup {Absent, Torn}]
  /\ \A n \in Seqs : dir[n] \in SentChunk => dir[n].seq = n

\* And so does what the reader found there.
ReaderInv ==
  /\ rpc \in {"idle", "list", "feed"}
  /\ must \subseteq Name /\ seen \subseteq Name
  /\ entries \subseteq seen \X SentChunk /\ IsFiniteSet(entries)
  /\ read \in {"none", "ok", "Io", "MalformedChunk", "NoChunksFound",
               "DuplicateChunk", "MissingChunk"}
  /\ feed \in Seq(SentChunk)

FInv == RInv /\ WriterInv /\ DirInv /\ ReaderInv

LEMMA FInvInit == FInit => FInv
<1> SUFFICES ASSUME FInit PROVE FInv
  OBVIOUS
<1>1. RInv
  BY RInit DEF FInit
<1>2. << >> \in Seq(SentChunk)
  BY EmptySeq
<1>3. IsFiniteSet({})
  BY FS_EmptySet
<1>4. DirInv
  BY MarkAssumption DEF FInit, DirInv, SentChunk, Name
<1> QED
  BY <1>1, <1>2, <1>3, <1>4 DEF FInit, FInv, WriterInv, ReaderInv

(***************************************************************************)
(* More may be sent meanwhile: a place that is left alone stays as it is.  *)
(***************************************************************************)
LEMMA WriterStays ==
  ASSUME WriterInv, UNCHANGED writer, SentChunk \subseteq SentChunk'
  PROVE  WriterInv'
<1>1. Seq(SentChunk) \subseteq Seq(SentChunk')
  BY SeqMonotonic
<1> QED
  BY <1>1 DEF WriterInv, writer

LEMMA DirStays ==
  ASSUME DirInv, UNCHANGED dir, SentChunk \subseteq SentChunk'
  PROVE  DirInv'
<1>1. \A n \in Name : dir[n] \in SentChunk' => dir[n] \in SentChunk
  BY MarkAssumption DEF DirInv, SentChunk
<1> QED
  BY <1>1 DEF DirInv, Name

LEMMA ReaderStays ==
  ASSUME ReaderInv, UNCHANGED reader, SentChunk \subseteq SentChunk'
  PROVE  ReaderInv'
<1>1. Seq(SentChunk) \subseteq Seq(SentChunk')
  BY SeqMonotonic
<1> QED
  BY <1>1 DEF ReaderInv, reader

\* Steps that touch neither the transmissions nor the reassembler.
LEMMA SentSame ==
  ASSUME UNCHANGED vars
  PROVE  SentChunk' = SentChunk
BY DEF vars, SentChunk, IsSent

LEMMA SeqsAreNumbers == Seqs \subseteq Nat
<1> SUFFICES ASSUME NEW p \in Payload, NEW n \in 0 .. TotalChunks(Len(p)) - 1
             PROVE  n \in Nat
  BY DEF Seqs
<1> QED
  BY ChunkCount

(***************************************************************************)
(* The writer, and whoever carries the directory.                          *)
(***************************************************************************)
LEMMA StartWriteKeepsFInv ==
  ASSUME FInv, NEW p \in Payload, NEW id \in Session, StartWrite(p, id)
  PROVE  FInv'
<1>1. /\ Transmit(p, id) /\ todo' = EncodeChunks(p, id) /\ wpc' = "create"
      /\ wpc = "idle" /\ UNCHANGED <<tmp, synced, dir>> /\ UNCHANGED reader
  BY DEF StartWrite
<1>2. /\ RInv' /\ SentChunk \subseteq SentChunk'
      /\ EncodeChunks(p, id) \in Seq(SentChunk')
  BY <1>1, TransmitKeepsRInv DEF FInv
<1>3. DirInv' /\ ReaderInv'
  BY <1>1, <1>2, DirStays, ReaderStays DEF FInv
<1>4. WriterInv'
  BY <1>1, <1>2 DEF FInv, WriterInv
<1> QED
  BY <1>2, <1>3, <1>4 DEF FInv

LEMMA WriteKeepsFInv ==
  ASSUME FInv, Write \/ WriteFails
  PROVE  FInv'
<1>1. UNCHANGED vars /\ UNCHANGED reader
  BY DEF Write, CreateTmp, WriteTmp, SyncTmp, RenameTmp, EndWrite, WriteFails
<1>2. SentChunk' = SentChunk
  BY <1>1, SentSame
<1>3. RInv' /\ ReaderInv'
  BY <1>1, <1>2, StillKeepsRInv, ReaderStays DEF FInv
<1>4. todo # << >> => Head(todo) \in SentChunk /\ Tail(todo) \in Seq(SentChunk)
  BY HeadTailProperties DEF FInv, WriterInv
<1>5. << >> \in Seq(SentChunk)
  BY EmptySeq
<1> USE DEF FInv
<1>6. CASE CreateTmp
  BY <1>2, <1>3, <1>6, DirStays DEF CreateTmp, WriterInv
<1>7. CASE WriteTmp
  BY <1>2, <1>3, <1>4, <1>7, DirStays DEF WriteTmp, WriterInv
<1>8. CASE SyncTmp
  BY <1>2, <1>3, <1>8, DirStays DEF SyncTmp, WriterInv
<1>9. CASE RenameTmp
  <2>1. WriterInv'
    BY <1>2, <1>4, <1>9 DEF RenameTmp, WriterInv
  <2>2. /\ Head(todo) \in SentChunk
        /\ dir' = [dir EXCEPT ![Head(todo).seq] = Head(todo)]
    BY <1>4, <1>9 DEF RenameTmp, WriterInv
  <2>3. DirInv'
    BY <1>2, <2>2 DEF DirInv, Name
  <2> QED
    BY <1>3, <2>1, <2>3
<1>10. CASE EndWrite
  BY <1>2, <1>3, <1>10, DirStays DEF EndWrite, WriterInv
<1>11. CASE WriteFails
  BY <1>2, <1>3, <1>5, <1>11, DirStays DEF WriteFails, WriterInv
<1> QED
  BY <1>6, <1>7, <1>8, <1>9, <1>10, <1>11 DEF Write

LEMMA CarryKeepsFInv ==
  ASSUME FInv, Carry
  PROVE  FInv'
<1>1. PICK n \in Name : Lose(n) \/ Truncate(n) \/ \E m \in Name : CopyFile(n, m)
  BY DEF Carry
<1>2. UNCHANGED vars /\ UNCHANGED writer /\ UNCHANGED reader
  BY <1>1 DEF Lose, Truncate, CopyFile, Becomes
<1>3. SentChunk' = SentChunk
  BY <1>2, SentSame
<1>4. RInv' /\ WriterInv' /\ ReaderInv'
  BY <1>2, <1>3, StillKeepsRInv, WriterStays, ReaderStays DEF FInv
<1>5. DirInv'
  <2>1. CASE Lose(n) \/ Truncate(n)
    BY <1>3, <2>1, MarkAssumption DEF Lose, Truncate, Becomes, FInv, DirInv, SentChunk, Name
  <2>2. ASSUME NEW m \in Name, CopyFile(n, m) PROVE DirInv'
    <3>1. m \notin Seqs
      BY <2>2, SeqsAreNumbers, CopiesAssumption DEF CopyFile
    <3> QED
      BY <1>1, <1>3, <2>2, <3>1 DEF CopyFile, Becomes, FInv, DirInv, Name
  <2> QED
    BY <1>1, <2>1, <2>2
<1> QED
  BY <1>4, <1>5 DEF FInv

(***************************************************************************)
(* The reader.                                                             *)
(***************************************************************************)
LEMMA Increasing ==
  ASSUME NEW n \in Nat, NEW g \in [1 .. n -> 0 .. n - 1],
         \A i, j \in 1 .. n : i < j => g[i] < g[j]
  PROVE  \A i \in 1 .. n : g[i] = i - 1
<1> DEFINE Above == {i \in Nat : i \in 1 .. n => g[i] >= i - 1}
           Below == {k \in Nat : k \in 0 .. n - 1 => g[n - k] <= n - 1 - k}
<1>1. 0 \in Above
  OBVIOUS
<1>2. ASSUME NEW i \in Nat, i \in Above PROVE i + 1 \in Above
  <2> SUFFICES ASSUME i + 1 \in 1 .. n PROVE g[i + 1] >= (i + 1) - 1
    OBVIOUS
  <2>1. g[i + 1] \in 0 .. n - 1
    OBVIOUS
  <2>2. CASE i = 0
    BY <2>1, <2>2
  <2>3. CASE i # 0
    <3>1. i \in 1 .. n /\ g[i] >= i - 1 /\ g[i] \in 0 .. n - 1
      BY <1>2, <2>3
    <3>2. g[i] < g[i + 1]
      BY <3>1
    <3> QED
      BY <2>1, <3>1, <3>2
  <2> QED
    BY <2>2, <2>3
<1>3. 0 \in Below
  OBVIOUS
<1>4. ASSUME NEW k \in Nat, k \in Below PROVE k + 1 \in Below
  <2> SUFFICES ASSUME k + 1 \in 0 .. n - 1
               PROVE  g[n - (k + 1)] <= n - 1 - (k + 1)
    OBVIOUS
  <2> DEFINE i == n - (k + 1)
             j == n - k
  <2>1. i \in 1 .. n /\ j \in 1 .. n /\ i < j /\ k \in 0 .. n - 1
    OBVIOUS
  <2>2. g[j] <= n - 1 - k
    BY <1>4, <2>1
  <2>3. g[i] < g[j] /\ g[i] \in 0 .. n - 1 /\ g[j] \in 0 .. n - 1
    BY <2>1
  <2> QED
    BY <2>2, <2>3
<1> HIDE DEF Above, Below
<1>5. Nat \subseteq Above /\ Nat \subseteq Below
  BY <1>1, <1>2, <1>3, <1>4, Induct
<1> TAKE i \in 1 .. n
<1>6. i \in Above /\ n - i \in Below
  BY <1>5
<1>7. g[i] >= i - 1
  BY <1>6 DEF Above
<1>8. g[n - (n - i)] <= n - 1 - (n - i)
  BY <1>6 DEF Below
<1>9. n - (n - i) = i /\ n - 1 - (n - i) = i - 1 /\ g[i] \in 0 .. n - 1
  OBVIOUS
<1> QED
  BY <1>7, <1>8, <1>9

\* Sorting leaves the chunk numbered i - 1 at place i, if the numbers are
\* 0, 1, 2, ... without a repetition.
LEMMA InOrderIs ==
  ASSUME NEW es, IsFiniteSet(es), NEW S, S = {e[2] : e \in es},
         \A e, f \in es : e # f => e[2].seq # f[2].seq,
         {e[2].seq : e \in es} = 0 .. Cardinality(es) - 1
  PROVE  /\ InOrder(S) \in Seq(S)
         /\ Len(InOrder(S)) = Cardinality(es)
         /\ \A i \in 1 .. Cardinality(es) : InOrder(S)[i].seq = i - 1
<1> DEFINE n == Cardinality(es)
           w == [i \in 1 .. n |-> CHOOSE c \in S : c.seq = i - 1]
           f == InOrder(S)
           g == [i \in 1 .. n |-> f[i].seq]
<1>1. n \in Nat
  BY FS_CardinalityType
<1>2. Cardinality(S) = n
  <2> DEFINE h == [e \in es |-> e[2]]
  <2>1. h \in Bijection(es, S)
    <3>1. h \in [es -> S]
      OBVIOUS
    <3>2. \A e, d \in es : h[e] = h[d] => e = d
      OBVIOUS
    <3>3. \A c \in S : \E e \in es : h[e] = c
      OBVIOUS
    <3> HIDE DEF h
    <3> QED
      BY <3>1, <3>2, <3>3 DEF Bijection, Injection, Surjection, IsInjective
  <2> QED
    BY <2>1, FS_Bijection DEF ExistsBijection
<1>3. \A c \in S : c.seq \in 0 .. n - 1
  OBVIOUS
<1>4. \A k \in 0 .. n - 1 : \E c \in S : c.seq = k
  OBVIOUS
<1> HIDE DEF n
<1>5. \A i \in 1 .. n : w[i] \in S /\ w[i].seq = i - 1
  <2> TAKE i \in 1 .. n
  <2>1. i - 1 \in 0 .. n - 1
    BY <1>1
  <2>2. \E c \in S : c.seq = i - 1
    BY <1>4, <2>1
  <2> QED
    BY <2>2
<1>6. w \in [1 .. n -> S]
  BY <1>5
<1>7. \A i, j \in 1 .. n : i < j => w[i].seq < w[j].seq
  BY <1>1, <1>5
<1> HIDE DEF w
<1>8. f \in [1 .. n -> S] /\ \A i, j \in 1 .. n : i < j => f[i].seq < f[j].seq
  BY <1>2, <1>6, <1>7 DEF InOrder
<1> HIDE DEF f
<1>9. g \in [1 .. n -> 0 .. n - 1]
  BY <1>3, <1>8
<1>10. \A i, j \in 1 .. n : i < j => g[i] < g[j]
  BY <1>8
<1>11. \A i \in 1 .. n : g[i] = i - 1
  <2> HIDE DEF g
  <2> QED
    BY <1>1, <1>9, <1>10, Increasing
<1>12. f \in Seq(S) /\ Len(f) = n
  BY <1>1, <1>8, SeqDef, LenProperties
<1> QED
  BY <1>11, <1>12 DEF f, n

\* What a read that succeeds returns.
LEMMA Returned ==
  ASSUME FInv, ReadReturns
  PROVE  /\ feed' \in Seq(SentChunk)
         /\ \A i \in 1 .. Len(feed') : feed'[i].seq = i - 1
<1> DEFINE S == {e[2] : e \in entries}
<1>1. S \subseteq SentChunk /\ IsFiniteSet(entries)
  BY DEF FInv, ReaderInv
<1>2. \A e, f \in entries : e # f => e[2].seq # f[2].seq
  BY DEF ReadReturns, Duplicate
<1>3. {e[2].seq : e \in entries} = 0 .. Cardinality(entries) - 1
  BY DEF ReadReturns, Contiguous, Count
<1>4. feed' = InOrder(S)
  BY DEF ReadReturns
<1> HIDE DEF S
<1>5. /\ InOrder(S) \in Seq(S)
      /\ Len(InOrder(S)) = Cardinality(entries)
      /\ \A i \in 1 .. Cardinality(entries) : InOrder(S)[i].seq = i - 1
  BY <1>1, <1>2, <1>3, InOrderIs DEF S
<1>6. Seq(S) \subseteq Seq(SentChunk)
  BY <1>1, SeqMonotonic
<1> QED
  BY <1>4, <1>5, <1>6

LEMMA FeedKeepsFInv == FInv /\ Feed => FInv'
<1> SUFFICES ASSUME FInv, Feed PROVE FInv'
  OBVIOUS
<1>1. /\ feed # << >> /\ Ingest(Head(feed))
      /\ feed' = IF last' \in {"more", "complete"} THEN Tail(feed) ELSE << >>
      /\ UNCHANGED writer /\ UNCHANGED dir
      /\ UNCHANGED <<rpc, must, seen, entries, read>>
  BY DEF Feed
<1>2. Head(feed) \in SentChunk /\ Tail(feed) \in Seq(SentChunk)
  BY <1>1, HeadTailProperties DEF FInv, ReaderInv
<1>3. RInv'
  BY <1>1, <1>2, IngestKeepsRInv DEF FInv
<1>4. SentChunk' = SentChunk
  <2>1. UNCHANGED sent
    BY <1>1 DEF Ingest, IngestOutOfBound, IngestForeign, Reject, IngestOutOfOrder,
       IngestNext
  <2> QED
    BY <2>1 DEF SentChunk, IsSent
<1>5. feed' \in Seq(SentChunk')
  BY <1>1, <1>2, <1>4, EmptySeq
<1> QED
  BY <1>1, <1>3, <1>4, <1>5, WriterStays, DirStays DEF FInv, ReaderInv

LEMMA ReadKeepsFInv == FInv /\ (Read \/ ReadFails) => FInv'
<1> SUFFICES ASSUME FInv, Read \/ ReadFails PROVE FInv'
  OBVIOUS
<1>1. IsFiniteSet({})
  BY FS_EmptySet
<1>2. CASE Feed
  BY <1>2, FeedKeepsFInv
<1>3. CASE StartRead
  <2>1. Renewed /\ UNCHANGED writer /\ UNCHANGED dir
    BY <1>3 DEF StartRead, Renewed
  <2>2. RInv' /\ SentChunk' = SentChunk
    BY <2>1, RenewKeepsRInv DEF FInv, Renewed, SentChunk, IsSent
  <2>3. ReaderInv'
    BY <1>1, <1>3, <2>2 DEF StartRead, FInv, ReaderInv
  <2> QED
    BY <2>1, <2>2, <2>3, WriterStays, DirStays DEF FInv
<1>4. ASSUME UNCHANGED <<vars, writer, dir>>, ReaderInv' PROVE FInv'
  <2>1. SentChunk' = SentChunk
    BY <1>4, SentSame
  <2> QED
    BY <1>4, <2>1, StillKeepsRInv, WriterStays, DirStays DEF FInv
<1>5. ASSUME NEW n \in Name, ReadEntry(n) PROVE FInv'
  <2>1. dir[n] \in SentChunk /\ UNCHANGED <<vars, writer, dir>>
    BY <1>5 DEF ReadEntry, FInv, DirInv
  <2>2. SentChunk' = SentChunk
    BY <2>1, SentSame
  <2>3. IsFiniteSet(entries')
    BY <1>5, FS_AddElement DEF ReadEntry, FInv, ReaderInv
  <2>4. ReaderInv'
    BY <1>5, <2>1, <2>2, <2>3 DEF ReadEntry, FInv, ReaderInv
  <2> QED
    BY <1>4, <2>1, <2>4
<1>6. ASSUME NEW r \in {"Io", "MalformedChunk", "NoChunksFound", "DuplicateChunk",
                        "MissingChunk"},
             EndRead(r)
      PROVE  FInv'
  <2>1. UNCHANGED <<vars, writer, dir>>
    BY <1>6 DEF EndRead
  <2>2. ReaderInv'
    BY <1>1, <1>6, <2>1, SentSame DEF EndRead, FInv, ReaderInv
  <2> QED
    BY <1>4, <2>1, <2>2
<1>7. CASE ReadReturns
  <2>1. feed' \in Seq(SentChunk) /\ UNCHANGED <<vars, writer, dir>>
    BY <1>7, Returned DEF ReadReturns
  <2>2. ReaderInv'
    BY <1>1, <1>7, <2>1, SentSame DEF ReadReturns, FInv, ReaderInv
  <2> QED
    BY <1>4, <2>1, <2>2
<1>8. CASE EndFeed
  BY <1>4, <1>8, SentSame DEF EndFeed, FInv, ReaderInv
<1> QED
  BY <1>2, <1>3, <1>5, <1>6, <1>7, <1>8
  DEF Read, ReadFails, ReadMalformed, ReadNothing, ReadDuplicate, ReadGap

LEMMA FInvStep == FInv /\ [FNext]_fvars => FInv'
<1>1. FInv /\ UNCHANGED fvars => FInv'
  <2> SUFFICES ASSUME FInv, UNCHANGED fvars PROVE FInv'
    OBVIOUS
  <2>1. UNCHANGED vars /\ UNCHANGED writer /\ UNCHANGED dir /\ UNCHANGED reader
    BY DEF fvars
  <2> QED
    BY <2>1, SentSame, StillKeepsRInv, WriterStays, DirStays, ReaderStays DEF FInv
<1> QED
  BY <1>1, StartWriteKeepsFInv, WriteKeepsFInv, CarryKeepsFInv, ReadKeepsFInv DEF FNext

LEMMA FInvAlways == FSpec => []FInv
BY FInvInit, FInvStep, PTL DEF FSpec

(***************************************************************************)
(* The theorems.                                                           *)
(***************************************************************************)
\* Every variable keeps its type, whoever writes, reads or carries the
\* directory; and a file the writer named is named after the chunk in it.
THEOREM FilesWellTyped == FSpec => []FTypeOK
<1>1. FInv => FTypeOK
  <2> SUFFICES ASSUME FInv PROVE FTypeOK
    OBVIOUS
  <2>1. SentChunk \subseteq Chunk
    BY DEF SentChunk
  <2>2. Range(todo) \subseteq Chunk /\ Range(feed) \subseteq Chunk
    BY <2>1, LenProperties DEF FInv, WriterInv, ReaderInv, Range
  <2>3. tmp \in Chunk \cup {Absent, Torn}
    BY <2>1 DEF FInv, WriterInv
  <2>4. /\ dir \in [Name -> Chunk \cup {Absent, Torn}]
        /\ \A n \in Seqs : dir[n] \in Chunk => dir[n].seq = n
    BY <2>1, MarkAssumption DEF FInv, DirInv, Name
  <2>5. entries \subseteq seen \X Chunk
    BY <2>1 DEF FInv, ReaderInv
  <2> QED
    BY <2>2, <2>3, <2>4, <2>5 DEF FTypeOK, FInv, RInv, WriterInv, ReaderInv
<1> QED
  BY <1>1, FInvAlways, PTL

\* What comes out of the reassembler was sent, whatever became of the files.
THEOREM FilesDeliverWhatWasSent == FSpec => []AssembledWasSent
BY FInvAlways, AssembledIsSent, PTL DEF FInv

\* A file under a name the reader reads is torn only by whoever carries the
\* directory, wherever a write stops (write_chunks_to_dir).
THEOREM NoTornFileIsNamed == FSpec => WriterNeverTears
<1>1. FInv /\ [FNext]_fvars =>
        [(\E n \in Name : dir[n] # Torn /\ dir'[n] = Torn) => Carry]_fvars
  <2> SUFFICES ASSUME FInv, FNext, ~Carry,
                      NEW n \in Name, dir[n] # Torn, dir'[n] = Torn
               PROVE  FALSE
    OBVIOUS
  <2>1. CASE RenameTmp
    <3>1. tmp \in Chunk /\ synced
      BY <2>1, HeadTailProperties DEF FInv, WriterInv, RenameTmp, SentChunk
    <3>2. tmp # Torn
      BY <3>1, MarkAssumption
    <3> QED
      BY <2>1, <3>1, <3>2 DEF FInv, DirInv, RenameTmp
  <2>2. CASE UNCHANGED dir
    BY <2>2
  <2> QED
    BY <2>1, <2>2
    DEF FNext, StartWrite, Write, CreateTmp, WriteTmp, SyncTmp, EndWrite,
        WriteFails, Read, StartRead, ReadEntry, ReadMalformed, ReadNothing,
        ReadDuplicate, ReadGap, ReadReturns, ReadFails, EndRead, Feed, EndFeed
<1> QED
  BY <1>1, FInvAlways, PTL DEF FSpec, WriterNeverTears

\* A read that succeeds is a beginning of each transmission all of its chunks
\* belong to, of any length, however the reader ran against the writer
\* (read_chunks_from_dir).
THEOREM ReadsArePrefixes == FSpec => ReadIsPrefix
<1> DEFINE Good ==
      rpc = "list" /\ rpc' = "feed" =>
        \A t \in sent :
          LET chunks == EncodeChunks(t[2], t[1])
          IN  Range(feed') \subseteq Range(chunks) => IsPrefix(feed', chunks)
<1>1. FInv /\ [FNext]_fvars => [Good]_fvars
  <2> SUFFICES ASSUME FInv, FNext, rpc = "list", rpc' = "feed", NEW t \in sent,
                      Range(feed') \subseteq Range(EncodeChunks(t[2], t[1]))
               PROVE  IsPrefix(feed', EncodeChunks(t[2], t[1]))
    OBVIOUS
  <2> DEFINE cs == EncodeChunks(t[2], t[1])
             n == TotalChunks(Len(t[2]))
  <2>1. ReadReturns
    BY DEF FNext, StartWrite, Write, CreateTmp, WriteTmp, SyncTmp, RenameTmp, EndWrite,
       WriteFails, Read, StartRead, ReadEntry, ReadMalformed, ReadNothing,
       ReadDuplicate, ReadGap, ReadFails, EndRead, Feed, EndFeed, Carry, Lose, Truncate,
       CopyFile, Becomes, reader
  <2>2. feed' \in Seq(SentChunk) /\ \A i \in 1 .. Len(feed') : feed'[i].seq = i - 1
    BY <2>1, Returned
  <2>3. t[2] \in Payload /\ t[1] \in Session
    BY DEF FInv, RInv, TypeOK
  <2>4. n \in Nat \ {0} /\ cs \in Seq(Chunk) /\ Len(cs) = n
    BY <2>3, ChunkCount, EncodedChunks
  <2>5. Len(feed') \in Nat /\ DOMAIN feed' = 1 .. Len(feed')
    BY <2>2, LenProperties
  <2>6. ASSUME NEW i \in 1 .. Len(feed')
        PROVE  i \in 1 .. n /\ feed'[i] = cs[i]
    <3>1. feed'[i] \in Range(cs)
      BY <2>5 DEF Range
    <3>2. PICK j \in 1 .. n : feed'[i] = cs[j] /\ feed'[i].seq = j - 1
      BY <2>3, <3>1, ChunkIs
    <3>3. j = i
      BY <2>2, <2>4, <2>5, <3>2
    <3> QED
      BY <3>2, <3>3
  <2> HIDE DEF cs, n
  <2>7. Len(feed') <= n
    BY <2>4, <2>5, <2>6
  <2>8. SubSeq(feed', 1, Len(feed')) = SubSeq(cs, 1, Len(feed'))
    BY <2>2, <2>4, <2>5, <2>6
  <2> QED
    BY <2>4, <2>7, <2>8 DEF IsPrefix, cs
<1> QED
  BY <1>1, FInvAlways, PTL DEF FSpec, ReadIsPrefix
===============================================================================
