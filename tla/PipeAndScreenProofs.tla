------------------------ MODULE PipeAndScreenProofs -------------------------
(***************************************************************************)
(* Theorems of the two adapters that hand chunks on as they come:          *)
(* OpticalAdapter, for any payloads, sizes, tags and number of loops, and  *)
(* StreamAdapter, for any payloads, sizes and bounds.  Frames of different *)
(* loops are never merged; as long as no error was reported the reader of  *)
(* a pipe is in step with its writer, and the end of the stream is taken   *)
(* for the end of the chunks only where it is; and whatever the camera or  *)
(* the pipe does, what is assembled was sent.                              *)
(*                                                                         *)
(* The two specifications share what they extend, Chunking, and nothing    *)
(* else: the first part of this module is about the screen, the second     *)
(* about the pipe.                                                         *)
(***************************************************************************)
EXTENDS OpticalAdapter, StreamAdapter, ChunkingProofs

(***************************************************************************)
(* The screen                                                              *)
(***************************************************************************)
\* What is shown is numbered from 0 inside, whatever the frames say.
IsLoop(s) ==
  /\ s.tag \in Tag /\ s.count \in Nat
  /\ Len(s.chunks) \in Nat
  /\ s.chunks = [i \in 1 .. Len(s.chunks) |-> s.chunks[i]]
  /\ \A i \in 1 .. Len(s.chunks) : s.chunks[i].seq = i - 1

\* A frame that was taken is that of some loop with the tag and the count
\* followed, and stands at the place of the chunk inside.
Taken(n) ==
  \E s \in shows :
    /\ s.tag = ftag /\ s.count = ftotal
    /\ n + 1 \in 1 .. Len(s.chunks) /\ frames[n] = s.chunks[n + 1]

\* A count of 0 is followed only after its frame was refused.
FramesInv ==
  /\ ftag = None => ftotal = None /\ DOMAIN frames = {}
  /\ ftag # None => /\ ftotal \in Nat
                    /\ ftotal = 0 => outcome # "complete"
                    /\ DOMAIN frames \subseteq 0 .. ftotal - 1
                    /\ \A n \in DOMAIN frames : Taken(n)

LInv == (\A s \in shows : IsLoop(s)) /\ FramesInv

\* encode_chunks numbers the chunks of a payload 0, 1, 2, ...
LEMMA EncodedIsLoop ==
  ASSUME NEW p \in Payload, NEW id \in Session, NEW tag \in Tag, NEW first,
         NEW count \in Nat
  PROVE  IsLoop(Loop(p, id, tag, first, count))
<1> DEFINE n == TotalChunks(Len(p))
           cs == EncodeChunks(p, id)
<1>1. n \in Nat \ {0}
  BY ChunkCount
<1>2. /\ cs = [i \in 1 .. n |-> cs[i]]
      /\ \A i \in 1 .. n : cs[i].seq = i - 1
  BY DEF EncodeChunks
<1>3. Len(cs) = n
  BY EncodedChunks
<1>4. LET s == Loop(p, id, tag, first, count)
      IN  s.tag = tag /\ s.count = count /\ s.chunks = cs
  BY DEF Loop
<1> HIDE DEF cs, n
<1> QED
  BY <1>1, <1>2, <1>3, <1>4 DEF IsLoop

LEMMA LInit == OInit => LInv
BY DEF OInit, Nothing, LInv, FramesInv

LEMMA ShowKeepsLInv ==
  ASSUME LInv, NEW p \in Payload, NEW id \in Session, NEW tag \in Tag, NEW first \in 0 .. 1,
         NEW count \in 0 .. MaxCount, Show(p, id, tag, first, count)
  PROVE  LInv'
<1>1. /\ shows' = shows \cup {Loop(p, id, tag, first, count)}
      /\ UNCHANGED <<optical, outcome>>
  BY DEF Show
<1>2. count \in Nat
  BY CapacityAssumption
<1>3. \A s \in shows' : IsLoop(s)
  BY <1>1, <1>2, EncodedIsLoop DEF LInv
<1>4. FramesInv'
  BY <1>1 DEF LInv, FramesInv, Taken, optical
<1> QED
  BY <1>3, <1>4 DEF LInv, IsLoop

\* A frame that is not misnumbered is the chunk of its place in some loop with
\* its tag and its count.
LEMMA FrameInPlace ==
  ASSUME LInv, NEW f \in Visible
  PROVE  /\ f.tag \in Tag /\ f.total \in Nat
         /\ ~Misnumbered(f) =>
              /\ f.seq \in 0 .. f.total - 1
              /\ \E s \in shows :
                   /\ s.tag = f.tag /\ s.count = f.total
                   /\ f.seq + 1 \in 1 .. Len(s.chunks)
                   /\ f.chunk = s.chunks[f.seq + 1]
<1>1. CASE f \in Strays
  <2>1. f.tag \in Tag /\ f.total \in 0 .. MaxCount /\ f.chunk = None
    BY <1>1 DEF Strays
  <2> QED
    BY <2>1, CapacityAssumption DEF Misnumbered
<1>2. ASSUME NEW s \in shows, f \in FramesOf(s)
      PROVE  /\ f.tag = s.tag /\ f.total = s.count
             /\ f.tag \in Tag /\ f.total \in Nat
             /\ ~Misnumbered(f) => /\ f.seq \in 0 .. f.total - 1
                                   /\ f.seq + 1 \in 1 .. Len(s.chunks)
                                   /\ f.chunk = s.chunks[f.seq + 1]
  <2>1. PICK i \in DOMAIN s.chunks :
          f = [tag |-> s.tag, seq |-> s.first + i - 1, total |-> s.count,
               chunk |-> s.chunks[i]]
    BY <1>2 DEF FramesOf
  <2>2. /\ i \in 1 .. Len(s.chunks) /\ s.chunks[i].seq = i - 1
        /\ s.tag \in Tag /\ s.count \in Nat /\ Len(s.chunks) \in Nat
    BY <2>1 DEF LInv, IsLoop
  <2>3. /\ f.tag = s.tag /\ f.total = s.count /\ f.chunk = s.chunks[i]
    BY <2>1
  <2>4. ASSUME ~Misnumbered(f) PROVE f.seq = i - 1 /\ ~(i - 1 >= s.count)
    BY <2>2, <2>3, <2>4 DEF Misnumbered
  <2>5. ASSUME ~Misnumbered(f)
        PROVE  f.seq \in 0 .. s.count - 1 /\ f.seq + 1 = i
    BY <2>2, <2>4, <2>5
  <2> QED
    BY <2>2, <2>3, <2>5
<1> QED
  BY <1>1, <1>2 DEF Visible

LEMMA CaptureKeepsLInv ==
  ASSUME LInv, NEW f \in Visible, Capture(f)
  PROVE  LInv'
<1>1. /\ f.tag \in Tag /\ f.total \in Nat /\ f.tag # None
      /\ ~Misnumbered(f) => f.seq \in 0 .. f.total - 1
  BY FrameInPlace, TagAssumption
<1>2. shows' = shows
  BY DEF Capture, CaptureOtherLoop, Refuse, CaptureMisnumbered, CaptureDifferent,
     CaptureAgain, CaptureNew
<1>3. ASSUME ~OtherLoop(f), Latch(f), UNCHANGED frames,
             f.total = 0 => outcome' # "complete"
      PROVE  FramesInv'
  BY <1>1, <1>2, <1>3 DEF OtherLoop, Latch, LInv, FramesInv, Taken
<1>4. CASE CaptureNew(f)
  <2>1. PICK s \in shows : /\ s.tag = f.tag /\ s.count = f.total
                           /\ f.seq + 1 \in 1 .. Len(s.chunks)
                           /\ f.chunk = s.chunks[f.seq + 1]
    BY <1>4, FrameInPlace DEF CaptureNew
  <2>2. /\ ftag' = f.tag /\ ftotal' = f.total
        /\ f.seq \in 0 .. ftotal' - 1 /\ ftotal' # 0
    BY <1>1, <1>4 DEF CaptureNew, Latch
  <2>3. ftag # None => ftag' = ftag /\ ftotal' = ftotal
    BY <1>4, <2>2 DEF CaptureNew, OtherLoop
  <2>4. /\ DOMAIN frames' = DOMAIN frames \cup {f.seq}
        /\ \A n \in DOMAIN frames' :
             frames'[n] = IF n = f.seq THEN f.chunk ELSE frames[n]
    BY <1>4 DEF CaptureNew
  <2>5. DOMAIN frames' \subseteq 0 .. ftotal' - 1
    BY <2>2, <2>3, <2>4 DEF LInv, FramesInv
  <2>6. Taken(f.seq)'
    BY <1>2, <2>1, <2>2, <2>4 DEF Taken
  <2>7. \A n \in DOMAIN frames : n # f.seq => Taken(n)'
    BY <1>2, <2>3, <2>4 DEF LInv, FramesInv, Taken
  <2>8. FramesInv'
    BY <1>1, <2>2, <2>4, <2>5, <2>6, <2>7 DEF FramesInv
  <2> QED
    BY <1>2, <2>8 DEF LInv, IsLoop
<1>5. CASE CaptureOtherLoop(f) \/ CaptureDifferent(f)
  <2>1. UNCHANGED optical /\ outcome' # "complete"
    BY <1>5 DEF CaptureOtherLoop, CaptureDifferent, Refuse
  <2> QED
    BY <1>2, <2>1 DEF optical, LInv, IsLoop, FramesInv, Taken
<1>6. CASE CaptureMisnumbered(f)
  <2>1. outcome' # "complete"
    BY <1>6 DEF CaptureMisnumbered, Misnumbering
  <2> QED
    BY <1>2, <1>3, <1>6, <2>1 DEF CaptureMisnumbered, LInv, IsLoop
<1>7. CASE CaptureAgain(f)
  BY <1>1, <1>2, <1>3, <1>7 DEF CaptureAgain, LInv, IsLoop
<1> QED
  BY <1>4, <1>5, <1>6, <1>7 DEF Capture

LEMMA LStep == LInv /\ [ONext]_ovars => LInv'
<1> SUFFICES ASSUME LInv, [ONext]_ovars PROVE LInv'
  OBVIOUS
<1>1. ASSUME UNCHANGED <<shows, optical>>, outcome' # "complete" \/ UNCHANGED outcome
      PROVE  LInv'
  BY <1>1 DEF LInv, IsLoop, FramesInv, Taken, optical
<1>2. CASE StartOver
  BY <1>2 DEF StartOver, Nothing, LInv, IsLoop, FramesInv
<1>3. CASE CaptureOther \/ HandOver \/ Feed \/ UNCHANGED ovars
  BY <1>1, <1>3 DEF CaptureOther, Refuse, HandOver, Feed, ovars, optical
<1> QED
  BY <1>2, <1>3, ShowKeepsLInv, CaptureKeepsLInv DEF ONext

LEMMA LAlways == OSpec => []LInv
BY LInit, LStep, PTL DEF OSpec

\* With as many frames as the count no number is missing: assemble() unwraps
\* no frame that is not there.
LEMMA NoneMissing ==
  ASSUME LInv, Collected
  PROVE  ftag # None /\ ftotal \in Nat /\ DOMAIN frames = 0 .. ftotal - 1
<1>1. /\ ftag # None /\ ftotal \in Nat
      /\ DOMAIN frames \subseteq 0 .. ftotal - 1 /\ Cardinality(DOMAIN frames) = ftotal
  BY DEF Collected, LInv, FramesInv
<1>2. IsFiniteSet(0 .. ftotal - 1) /\ Cardinality(0 .. ftotal - 1) = ftotal
  BY <1>1, FS_Interval
<1> QED
  BY <1>1, <1>2, FS_Subset

(***************************************************************************)
(* What is shown was sent, and what is fed was shown.                      *)
(***************************************************************************)
Outcome ==
  {"none", "more", "complete", "Malformed", "BadMagic", "SessionMismatch",
   "TotalMismatch", "IndexOutOfRange", "SeqCrossValidationFailed"}

OInv ==
  /\ LInv /\ RInv
  /\ ShownChunk \subseteq SentChunk
  /\ feed \in Seq(ShownChunk)
  /\ ftag \in Tag \cup {None} /\ outcome \in Outcome

LEMMA OInvInit == OInit => OInv
<1> SUFFICES ASSUME OInit PROVE OInv
  OBVIOUS
<1>1. LInv /\ RInv /\ << >> \in Seq(ShownChunk)
  BY LInit, RInit, EmptySeq DEF OInit
<1> QED
  BY <1>1 DEF OInit, OInv, ShownChunk, Outcome

LEMMA ShowKeepsOInv ==
  ASSUME OInv, NEW p \in Payload, NEW id \in Session, NEW tag \in Tag, NEW first \in 0 .. 1,
         NEW count \in 0 .. MaxCount, Show(p, id, tag, first, count)
  PROVE  OInv'
<1> DEFINE cs == EncodeChunks(p, id)
           lp == Loop(p, id, tag, first, count)
<1>1. /\ Transmit(p, id) /\ shows' = shows \cup {lp}
      /\ UNCHANGED <<optical, outcome, feed>>
  BY DEF Show
<1>2. RInv' /\ SentChunk \subseteq SentChunk' /\ cs \in Seq(SentChunk')
  BY <1>1, TransmitKeepsRInv DEF OInv
<1>3. LInv'
  BY ShowKeepsLInv DEF OInv
<1>7. lp.chunks = cs
  BY DEF Loop
<1> HIDE DEF cs, lp
<1>4. ShownChunk \subseteq ShownChunk' /\ ShownChunk' = ShownChunk \cup Range(cs)
  <2>1. \A c : c \in ShownChunk' <=> c \in ShownChunk \/ c \in Range(cs)
    BY <1>1, <1>7 DEF ShownChunk
  <2> QED
    BY <2>1
<1>5. Range(cs) \subseteq SentChunk'
  BY <1>2, LenProperties DEF Range
<1>6. feed' \in Seq(ShownChunk')
  BY <1>1, <1>4, SeqMonotonic DEF OInv
<1> QED
  BY <1>1, <1>2, <1>3, <1>4, <1>5, <1>6 DEF OInv, optical

LEMMA OInvStep == OInv /\ [ONext]_ovars => OInv'
<1> SUFFICES ASSUME OInv, [ONext]_ovars PROVE OInv'
  OBVIOUS
<1>1. LInv'
  BY LStep DEF OInv
<1>2. ASSUME UNCHANGED <<vars, shows>>
      PROVE  RInv' /\ SentChunk' = SentChunk /\ ShownChunk' = ShownChunk
  BY <1>2, StillKeepsRInv DEF OInv, vars, SentChunk, IsSent, ShownChunk
<1>3. ASSUME NEW f \in Visible, Capture(f) PROVE OInv'
  <2>1. f.tag \in Tag
    BY FrameInPlace DEF OInv
  <2>2. \A e \in Misnumbering(f) : e \in Outcome
    BY DEF Misnumbering, Outcome
  <2>3. /\ UNCHANGED <<vars, shows>> /\ UNCHANGED feed
        /\ ftag' \in Tag \cup {None} /\ outcome' \in Outcome
    BY <1>3, <2>1, <2>2 DEF Capture, CaptureOtherLoop, Refuse, CaptureMisnumbered, Latch,
       CaptureDifferent, CaptureAgain, CaptureNew, Progress, OInv, Outcome, optical
  <2> QED
    BY <1>1, <1>2, <2>3 DEF OInv
<1>4. CASE CaptureOther
  BY <1>1, <1>2, <1>4 DEF CaptureOther, Refuse, OInv, Outcome, optical
<1>5. CASE HandOver
  <2>1. Renewed /\ feed' = Chunks /\ UNCHANGED <<shows, optical, outcome>> /\ Collected
    BY <1>5 DEF HandOver, Renewed
  <2>2. RInv' /\ SentChunk' = SentChunk /\ ShownChunk' = ShownChunk
    BY <2>1, RenewKeepsRInv DEF OInv, Renewed, SentChunk, IsSent, ShownChunk
  <2>3. ftotal \in Nat /\ \A i \in 1 .. ftotal : frames[i - 1] \in ShownChunk
    <3>1. ftotal \in Nat /\ \A n \in 0 .. ftotal - 1 : Taken(n)
      BY <2>1, NoneMissing DEF OInv, LInv, FramesInv
    <3>2. ASSUME NEW i \in 1 .. ftotal PROVE frames[i - 1] \in ShownChunk
      <4>1. i - 1 \in 0 .. ftotal - 1 /\ (i - 1) + 1 = i
        BY <3>1
      <4>2. PICK s \in shows : i \in 1 .. Len(s.chunks) /\ frames[i - 1] = s.chunks[i]
        BY <3>1, <4>1 DEF Taken
      <4>3. DOMAIN s.chunks = 1 .. Len(s.chunks)
        BY <4>2 DEF OInv, LInv, IsLoop
      <4> QED
        BY <4>2, <4>3 DEF ShownChunk, Range
    <3> QED
      BY <3>1, <3>2
  <2>4. Chunks \in Seq(ShownChunk)
    <3>1. Chunks \in [1 .. ftotal -> ShownChunk]
      BY <2>3 DEF Chunks
    <3> QED
      BY <2>3, <3>1, SeqDef
  <2> QED
    BY <1>1, <2>1, <2>2, <2>4 DEF OInv, optical
<1>6. CASE Feed
  <2>1. /\ feed # << >> /\ Ingest(Head(feed))
        /\ feed' \in {Tail(feed), << >>}
        /\ UNCHANGED <<shows, optical, outcome>>
    BY <1>6 DEF Feed
  <2>2. Head(feed) \in ShownChunk /\ Tail(feed) \in Seq(ShownChunk)
    BY <2>1, HeadTailProperties DEF OInv
  <2>3. RInv'
    BY <2>1, <2>2, IngestKeepsRInv DEF OInv
  <2>4. SentChunk' = SentChunk /\ ShownChunk' = ShownChunk
    <3>1. UNCHANGED sent
      BY <2>1 DEF Ingest, IngestOutOfBound, IngestForeign, Reject, IngestOutOfOrder,
         IngestNext
    <3> QED
      BY <2>1, <3>1 DEF SentChunk, IsSent, ShownChunk
  <2>5. feed' \in Seq(ShownChunk)
    BY <2>1, <2>2, EmptySeq
  <2> QED
    BY <1>1, <2>1, <2>3, <2>4, <2>5 DEF OInv, optical
<1>7. CASE StartOver
  BY <1>1, <1>2, <1>7 DEF StartOver, OInv, Outcome
<1>8. CASE UNCHANGED ovars
  BY <1>1, <1>2, <1>8 DEF ovars, OInv, optical
<1> QED
  BY <1>3, <1>4, <1>5, <1>6, <1>7, <1>8, ShowKeepsOInv DEF ONext

LEMMA OInvAlways == OSpec => []OInv
BY OInvInit, OInvStep, PTL DEF OSpec

\* What two sequences have in common up to n is the same beginning of both.
LEMMA SameBeginning ==
  ASSUME NEW c, NEW d, NEW n \in Nat, \A i \in 1 .. n : c[i] = d[i]
  PROVE  SubSeq(c, 1, n) = SubSeq(d, 1, n)
<1> DEFINE S == {d[i] : i \in 1 .. n}
<1>1. \A i \in 1 .. n : c[i] \in S /\ d[i] \in S
  OBVIOUS
<1> HIDE DEF S
<1>2. /\ SubSeq(c, 1, n) \in Seq(S) /\ Len(SubSeq(c, 1, n)) = IF 1 <= n THEN n - 1 + 1 ELSE 0
      /\ \A i \in 1 .. n - 1 + 1 : SubSeq(c, 1, n)[i] = c[1 + i - 1]
  BY <1>1, SubSeqProperties
<1>3. /\ SubSeq(d, 1, n) \in Seq(S) /\ Len(SubSeq(d, 1, n)) = IF 1 <= n THEN n - 1 + 1 ELSE 0
      /\ \A i \in 1 .. n - 1 + 1 : SubSeq(d, 1, n)[i] = d[1 + i - 1]
  BY <1>1, SubSeqProperties
<1>4. /\ Len(SubSeq(c, 1, n)) = Len(SubSeq(d, 1, n)) /\ Len(SubSeq(c, 1, n)) = n
      /\ \A i \in 1 .. n : SubSeq(c, 1, n)[i] = SubSeq(d, 1, n)[i]
  BY <1>2, <1>3
<1> QED
  BY <1>2, <1>3, <1>4, SeqEqual

(***************************************************************************)
(* The theorems about the screen                                           *)
(***************************************************************************)
\* Every variable keeps its type; no frame stands outside the count, and each
\* stands at the number of the chunk inside.
THEOREM FramesWellTyped == OSpec => []OTypeOK
<1>1. OInv => OTypeOK
  <2> SUFFICES ASSUME OInv PROVE OTypeOK
    OBVIOUS
  <2>1. ftag = None <=> ftotal = None
    BY NoneAssumption DEF OInv, LInv, FramesInv
  <2>2. ASSUME NEW n \in DOMAIN frames
        PROVE  frames[n] \in ShownChunk /\ frames[n].seq = n
    <3>1. PICK s \in shows :
            n + 1 \in 1 .. Len(s.chunks) /\ frames[n] = s.chunks[n + 1]
      BY <2>1 DEF OInv, LInv, FramesInv, Taken
    <3>2. n \in 0 .. ftotal - 1 /\ ftotal \in Nat
      BY <2>1, <2>2 DEF OInv, LInv, FramesInv
    <3>3. s.chunks[n + 1].seq = (n + 1) - 1 /\ s.chunks[n + 1] \in Range(s.chunks)
      BY <3>1 DEF OInv, LInv, IsLoop, Range
    <3> QED
      BY <3>1, <3>2, <3>3 DEF ShownChunk
  <2>3. Range(feed) \subseteq ShownChunk
    BY LenProperties DEF OInv, Range
  <2> QED
    BY <2>1, <2>2, <2>3 DEF OTypeOK, OInv, RInv, LInv, FramesInv, Outcome
<1> QED
  BY <1>1, OInvAlways, PTL

\* What comes out of the reassembler was sent, whatever the camera caught.
THEOREM FramesDeliverWhatWasSent == OSpec => []AssembledWasSent
BY OInvAlways, AssembledIsSent, PTL DEF OInv

\* As long as no two loops on screen share a tag, what assemble() returns is as
\* much of one loop as its frames count (optical_adapter.rs:17), for any number
\* and length of loops, any counts and whatever frames the camera misses,
\* repeats or takes misnumbered; it is no chunk at all only where the count is
\* 0, and then ingest_frame has not reported that every frame is there.
THEOREM LoopsNeverMerge == OSpec => []OneLoop
<1>1. ASSUME LInv, Collected, ftotal = 0 PROVE outcome # "complete"
  BY <1>1, NoneMissing DEF LInv, FramesInv
<1>2. ASSUME LInv, Collected, ftotal # 0, \A s, t \in shows : s.tag = t.tag => s = t
      PROVE  \E s \in shows : s.tag = ftag /\ s.count = ftotal /\ IsPrefix(Chunks, s.chunks)
  <2>1. ftag # None /\ ftotal \in Nat \ {0} /\ DOMAIN frames = 0 .. ftotal - 1
    BY <1>2, NoneMissing
  <2>2. \A n \in 0 .. ftotal - 1 : Taken(n)
    BY <1>2, <2>1 DEF LInv, FramesInv
  <2>3. PICK s \in shows : s.tag = ftag /\ s.count = ftotal
    <3>1. 0 \in 0 .. ftotal - 1
      BY <2>1
    <3> QED
      BY <2>2, <3>1 DEF Taken
  <2>4. \A n \in 0 .. ftotal - 1 :
          n + 1 \in 1 .. Len(s.chunks) /\ frames[n] = s.chunks[n + 1]
    BY <1>2, <2>2, <2>3 DEF Taken
  <2>5. \A i \in 1 .. ftotal : i \in 1 .. Len(s.chunks) /\ frames[i - 1] = s.chunks[i]
    <3> TAKE i \in 1 .. ftotal
    <3>1. i - 1 \in 0 .. ftotal - 1 /\ (i - 1) + 1 = i
      BY <2>1
    <3> QED
      BY <2>4, <3>1
  <2>6. Len(s.chunks) \in Nat /\ ftotal <= Len(s.chunks)
    <3>1. ftotal \in 1 .. ftotal
      BY <2>1
    <3> QED
      BY <1>2, <2>1, <2>5, <3>1 DEF LInv, IsLoop
  <2>7. Len(Chunks) = ftotal /\ \A i \in 1 .. ftotal : Chunks[i] = s.chunks[i]
    BY <2>1, <2>5 DEF Chunks
  <2>8. SubSeq(Chunks, 1, ftotal) = SubSeq(s.chunks, 1, ftotal)
    BY <2>1, <2>7, SameBeginning
  <2> QED
    BY <2>3, <2>6, <2>7, <2>8 DEF IsPrefix
<1>3. LInv => OneLoop
  BY <1>1, <1>2 DEF OneLoop
<1> QED
  BY <1>3, LAlways, PTL

(***************************************************************************)
(* The pipe                                                                *)
(***************************************************************************)
Byte == Chunk \X (Nat \ {0})

\* The sides of the pipe; and once None was returned nothing is left.
PipeInv ==
  /\ open \in BOOLEAN /\ whole \in BOOLEAN
  /\ out \in Seq(Chunk) /\ at \in Nat
  /\ out = << >> => at = 0
  /\ out # << >> => at < Size(Head(out))
  /\ ~open => out = << >>
  /\ wire \in Seq(Byte) /\ got \in Seq(Byte)
  /\ written \in Seq(Byte) /\ yielded \in Seq(Byte)
  /\ rpc \in {"idle", "header", "rest"} /\ want \in Nat
  /\ Len(got) <= want
  /\ rpc = "idle" => got = << >>
  /\ rpc = "header" => want = HeaderLen
  /\ item = "None" => ~open /\ wire = << >> /\ got = << >>

\* Nothing is lost between the two ends.
Conserved == whole => written = (yielded \o got) \o wire

\* A chunk may begin after the first k bytes.
Boundary(k) == k = 0 \/ written[k][2] = Size(written[k][1])

\* What was written is chunk after chunk, each byte after byte.
Framed ==
  \A i \in 1 .. Len(written) :
    IF Boundary(i - 1) THEN written[i][2] = 1
    ELSE written[i] = <<written[i - 1][1], written[i - 1][2] + 1>>

\* The writer goes on where it stopped.
WriterAt ==
  open => IF at = 0 THEN Boundary(Len(written))
          ELSE /\ Len(written) > 0
               /\ written[Len(written)] = <<Head(out), at>>

\* The reader is within one chunk, and reads no further than its end.
ReaderAt ==
  /\ Boundary(Len(yielded))
  /\ Aligned
  /\ rpc = "rest" => Len(got) > 0 /\ want = Size(got[1][1])

StepInv == whole => Framed /\ WriterAt /\ ReaderAt

\* A chunk is longer than its header.
LEMMA SizeIsMore ==
  ASSUME NEW c \in Chunk
  PROVE  Size(c) \in Nat /\ HeaderLen < Size(c)
BY ChunkTyped, HeaderAssumption DEF Size, HashLen

(***************************************************************************)
(* The sides of the pipe                                                   *)
(***************************************************************************)
LEMMA Associative ==
  ASSUME NEW y \in Seq(Byte), NEW w \in Seq(Byte), NEW b \in Seq(Byte)
  PROVE  (y \o w) \o b = y \o (w \o b)
BY ConcatAssociative

\* A byte that goes from one part of a sequence to the part before it.
LEMMA Shift ==
  ASSUME NEW y \in Seq(Byte), NEW g \in Seq(Byte), NEW w \in Seq(Byte), w # << >>
  PROVE  (y \o Append(g, Head(w))) \o Tail(w) = (y \o g) \o w
<1> DEFINE h == <<Head(w)>>
           r == Tail(w)
<1>1. Head(w) \in Byte /\ r \in Seq(Byte)
  BY HeadTailProperties
<1>2. h \in Seq(Byte)
  BY <1>1
<1>3. Append(g, Head(w)) = g \o h
  BY <1>1, AppendIsConcat
<1>4. w = h \o r
  BY <1>1, <1>2, ConcatProperties, SeqEqual, HeadTailProperties
<1> HIDE DEF h, r
<1>5. h \o r \in Seq(Byte) /\ g \o h \in Seq(Byte)
  BY <1>1, <1>2, ConcatProperties
<1>6. (y \o (g \o h)) \o r = y \o ((g \o h) \o r)
  <2>1. \A v \in Seq(Byte), z \in Seq(Byte) : (y \o v) \o z = y \o (v \o z)
    BY Associative
  <2> QED
    BY <1>1, <1>5, <2>1
<1>7. (g \o h) \o r = g \o (h \o r)
  <2>1. \A v \in Seq(Byte), z \in Seq(Byte) : (g \o v) \o z = g \o (v \o z)
    BY Associative
  <2> QED
    BY <1>1, <1>2, <2>1
<1>8. y \o (g \o (h \o r)) = (y \o g) \o (h \o r)
  BY <1>5, Associative
<1> QED
  BY <1>3, <1>4, <1>6, <1>7, <1>8 DEF r

LEMMA PipeInit == SInit => PipeInv /\ Conserved
<1>1. << >> \in Seq(Byte) /\ << >> \in Seq(Chunk) /\ Len(<< >>) = 0
  BY EmptySeq
<1>2. (<< >> \o << >>) \o << >> = << >>
  BY <1>1, ConcatEmptySeq
<1> QED
  BY <1>1, <1>2 DEF SInit, PipeInv, Conserved

\* The byte that is written next.
LEMMA WriteByteStep ==
  ASSUME PipeInv, Conserved, WriteByte
  PROVE  PipeInv' /\ Conserved'
<1> DEFINE byte == <<Head(out), at + 1>>
<1> USE DEF PipeInv
<1>1. Head(out) \in Chunk /\ Tail(out) \in Seq(Chunk)
  BY HeadTailProperties DEF WriteByte
<1>2. byte \in Byte
  BY <1>1 DEF Byte
<1>3. wire' = Append(wire, byte) /\ wire' \in Seq(Byte)
  BY <1>2, AppendProperties DEF WriteByte
<1>4. written' \in Seq(Byte)
  BY <1>2, AppendProperties DEF WriteByte
<1>5. at' \in Nat /\ out' \in Seq(Chunk)
  <2>1. \/ out' = Tail(out) /\ at' = 0
        \/ out' = out /\ at' = at + 1
    BY DEF WriteByte
  <2>2. at \in Nat /\ out \in Seq(Chunk)
    OBVIOUS
  <2>3. at' \in Nat
    BY <2>1, <2>2
  <2>4. out' \in {out, Tail(out)}
    BY <2>1
  <2>5. out' \in Seq(Chunk)
    BY <1>1, <2>2, <2>4, Zenon
  <2> QED
    BY <2>3, <2>5
<1>6. /\ out' = << >> => at' = 0
      /\ out' # << >> => at' < Size(Head(out'))
  <2>1. CASE at + 1 = Size(Head(out))
    <3>1. out' # << >> => Head(out') \in Chunk
      BY <1>5, HeadTailProperties
    <3>2. at' = 0
      BY <2>1 DEF WriteByte
    <3>3. out' # << >> => 0 < Size(Head(out'))
      BY <3>1, SizeIsMore, HeaderAssumption
    <3> QED
      BY <3>2, <3>3
  <2>2. CASE at + 1 # Size(Head(out))
    BY <1>1, <2>2, SizeIsMore DEF WriteByte
  <2> QED
    BY <2>1, <2>2
<1>7. PipeInv'
  BY <1>3, <1>4, <1>5, <1>6 DEF WriteByte, reader
<1>8. Conserved'
  <2> SUFFICES ASSUME whole PROVE written' = (yielded \o got) \o wire'
    BY DEF WriteByte, reader, Conserved
  <2>1. written' = Append(written, byte)
    BY DEF WriteByte
  <2>2. yielded \o got \in Seq(Byte)
    BY ConcatProperties
  <2>3. <<byte>> \in Seq(Byte)
    BY <1>2
  <2>4. Append(wire, byte) = wire \o <<byte>> /\ Append(written, byte) = written \o <<byte>>
    BY <1>2, AppendIsConcat
  <2> HIDE DEF byte
  <2>5. \A v \in Seq(Byte), w \in Seq(Byte) :
          ((yielded \o got) \o v) \o w = (yielded \o got) \o (v \o w)
    BY <2>2, Associative
  <2>6. ((yielded \o got) \o wire) \o <<byte>> = (yielded \o got) \o (wire \o <<byte>>)
    BY <2>3, <2>5
  <2> QED
    BY <1>3, <2>1, <2>4, <2>6 DEF Conserved
<1> QED
  BY <1>7, <1>8

LEMMA ReadByteStep ==
  ASSUME PipeInv, Conserved, ReadByte
  PROVE  PipeInv' /\ Conserved'
<1> USE DEF PipeInv
<1>1. Head(wire) \in Byte /\ Tail(wire) \in Seq(Byte)
  BY HeadTailProperties DEF ReadByte
<1>2. /\ got' = Append(got, Head(wire))
      /\ got' \in Seq(Byte) /\ Len(got') = Len(got) + 1
  BY <1>1, AppendProperties DEF ReadByte
<1>3. Len(got) \in Nat
  BY LenProperties
<1>4. PipeInv'
  BY <1>1, <1>2, <1>3 DEF ReadByte, history
<1>5. Conserved'
  <2> SUFFICES ASSUME whole PROVE written = (yielded \o got') \o wire'
    BY DEF ReadByte, history, Conserved
  <2> QED
    BY Shift DEF ReadByte, Conserved
<1> QED
  BY <1>4, <1>5

LEMMA YieldStep ==
  ASSUME PipeInv, Conserved, Yield
  PROVE  PipeInv' /\ Conserved'
<1> USE DEF PipeInv
<1>1. << >> \in Seq(Byte) /\ Len(<< >>) = 0
  BY EmptySeq
<1>2. yielded' \in Seq(Byte)
  BY ConcatProperties DEF Yield
<1>3. PipeInv'
  BY <1>1, <1>2 DEF Yield, Answer, pipe
<1>4. Conserved'
  <2> SUFFICES ASSUME whole
               PROVE  written = ((yielded \o got) \o << >>) \o wire
    BY DEF Yield, Answer, pipe, Conserved
  <2>1. (yielded \o got) \o << >> = yielded \o got
    BY ConcatProperties, ConcatEmptySeq
  <2> QED
    BY <2>1 DEF Conserved
<1> QED
  BY <1>3, <1>4

LEMMA PipeStep ==
  PipeInv /\ Conserved /\ [SNext]_svars => PipeInv' /\ Conserved'
<1> SUFFICES ASSUME PipeInv, Conserved, [SNext]_svars
             PROVE  PipeInv' /\ Conserved'
  OBVIOUS
<1>0. /\ << >> \in Seq(Byte) /\ << >> \in Seq(Chunk) /\ Len(<< >>) = 0
      /\ (<< >> \o << >>) \o << >> = << >>
  BY EmptySeq, ConcatEmptySeq
<1>1. ASSUME NEW p \in Payload, NEW id \in Session, StartStream(p, id)
      PROVE  PipeInv' /\ Conserved'
  <2>1. out' \in Seq(Chunk)
    BY <1>1, EncodedChunks DEF StartStream
  <2>2. out' # << >> => Head(out') \in Chunk
    BY <2>1, HeadTailProperties
  <2>3. out' # << >> => 0 < Size(Head(out'))
    BY <2>2, SizeIsMore, HeaderAssumption
  <2> QED
    BY <1>1, <2>1, <2>3 DEF StartStream, PipeInv, Conserved, reader, history
<1>2. CASE Abandon
  BY <1>0, <1>2 DEF Abandon, Disrupted, PipeInv, Conserved, reader
<1>3. CASE Close
  BY <1>0, <1>3 DEF Close, PipeInv, Conserved, reader, history
<1>4. CASE Ask
  BY <1>0, <1>4, HeaderAssumption DEF Ask, PipeInv, Conserved, pipe, history
<1>5. CASE ReadNone
  BY <1>0, <1>5 DEF ReadNone, CleanEnd, Ended, Answer, PipeInv, Conserved, pipe, history
<1>6. ASSUME NEW error, error # "None", Fail(error)
      PROVE  PipeInv' /\ Conserved'
  <2>1. UNCHANGED <<open, out, at, wire>>
    BY <1>6 DEF Fail, pipe
  <2>2. /\ got' = << >> /\ want' = 0 /\ rpc' = "idle" /\ item' # "None"
        /\ whole' = FALSE /\ written' = << >> /\ yielded' = << >>
    BY <1>6 DEF Fail, Answer, Disrupted
  <2>3. Len(got') <= want' /\ want' \in Nat
    BY <1>0, <2>2
  <2>4. /\ at' \in Nat /\ (out' = << >> => at' = 0)
        /\ out' # << >> => at' < Size(Head(out'))
    BY <2>1 DEF PipeInv
  <2> QED
    BY <1>0, <2>1, <2>2, <2>3, <2>4 DEF PipeInv, Conserved
<1>7. ASSUME NEW length \in 0 .. MaxPayload + 1, ReadLength(length)
      PROVE  PipeInv' /\ Conserved'
  <2>1. length \in Nat
    BY MaxPayloadAssumption
  <2>2. CASE Fail("MalformedLength")
    BY <1>6, <2>2
  <2>3. CASE rpc' = "rest" /\ want' = Rest(length)
             /\ UNCHANGED <<vars, pipe, got, item, history>>
    <3>1. Len(got) = HeaderLen /\ want' \in Nat /\ Len(got) <= want'
      BY <1>7, <2>1, <2>3, HeaderAssumption DEF ReadLength, PipeInv, Rest, HashLen
    <3>2. got # << >>
      BY <1>0, <3>1, HeaderAssumption
    <3> QED
      BY <2>3, <3>1, <3>2 DEF PipeInv, Conserved, pipe, history
  <2> QED
    BY <1>7, <2>2, <2>3 DEF ReadLength
<1>8. CASE Reconnect
  BY <1>0, <1>8 DEF Reconnect, PipeInv, Conserved
<1>9. CASE UNCHANGED <<pipe, reader, history>>
  <2>1. UNCHANGED <<open, out, at, wire, rpc, got, want, item>>
    BY <1>9 DEF pipe, reader
  <2>2. UNCHANGED <<whole, written, yielded>>
    BY <1>9 DEF history
  <2> QED
    BY <2>1, <2>2 DEF PipeInv, Conserved
<1>10. SRestart \/ UNCHANGED svars => UNCHANGED <<pipe, reader, history>>
  BY DEF SRestart, svars
<1>11. ReadEof \/ ReadError => \E error : error # "None" /\ Fail(error)
  BY DEF ReadEof, ReadError
<1> QED
  BY <1>1, <1>2, <1>3, <1>4, <1>5, <1>6, <1>7, <1>8, <1>9, <1>10, <1>11,
     WriteByteStep, ReadByteStep, YieldStep DEF SNext, Read

(***************************************************************************)
(* In step                                                                 *)
(***************************************************************************)
\* Where the bytes of the two ends stand in what was written.
LEMMA Positions ==
  ASSUME PipeInv, Conserved, whole
  PROVE  /\ Len(yielded) \in Nat /\ Len(got) \in Nat /\ Len(wire) \in Nat
         /\ Len(written) = Len(yielded) + Len(got) + Len(wire)
         /\ \A i \in 1 .. Len(yielded) : written[i] = yielded[i]
         /\ \A i \in 1 .. Len(got) : written[Len(yielded) + i] = got[i]
         /\ \A i \in 1 .. Len(wire) : written[Len(yielded) + Len(got) + i] = wire[i]
<1> DEFINE front == yielded \o got
<1>1. Len(yielded) \in Nat /\ Len(got) \in Nat /\ Len(wire) \in Nat
  BY LenProperties DEF PipeInv
<1>2. /\ front \in Seq(Byte) /\ Len(front) = Len(yielded) + Len(got)
      /\ \A i \in 1 .. Len(yielded) + Len(got) :
           front[i] = IF i <= Len(yielded) THEN yielded[i] ELSE got[i - Len(yielded)]
  BY ConcatProperties DEF PipeInv
<1> HIDE DEF front
<1>3. /\ Len(front \o wire) = Len(front) + Len(wire)
      /\ \A i \in 1 .. Len(front) + Len(wire) :
           (front \o wire)[i] = IF i <= Len(front) THEN front[i] ELSE wire[i - Len(front)]
  <2>1. front \in Seq(Byte) /\ wire \in Seq(Byte)
    BY <1>2 DEF PipeInv
  <2> QED
    BY <2>1, ConcatProperties
<1>4. written = front \o wire
  BY DEF Conserved, front
<1>5. Len(written) = Len(yielded) + Len(got) + Len(wire)
  BY <1>1, <1>2, <1>3, <1>4
<1>6. ASSUME NEW i \in 1 .. Len(yielded) PROVE written[i] = yielded[i]
  BY <1>1, <1>2, <1>3, <1>4
<1>7. ASSUME NEW i \in 1 .. Len(got) PROVE written[Len(yielded) + i] = got[i]
  BY <1>1, <1>2, <1>3, <1>4
<1>8. ASSUME NEW i \in 1 .. Len(wire)
      PROVE  written[Len(yielded) + Len(got) + i] = wire[i]
  BY <1>1, <1>2, <1>3, <1>4
<1> QED
  BY <1>1, <1>5, <1>6, <1>7, <1>8

LEMMA StepInit == SInit => StepInv
<1>1. Len(<< >>) = 0 /\ DOMAIN << >> = {}
  BY EmptySeq
<1> QED
  BY <1>1 DEF SInit, StepInv, Framed, WriterAt, ReaderAt, Aligned, Boundary

LEMMA WriterKeepsStep ==
  ASSUME PipeInv, Conserved, StepInv, WriteByte
  PROVE  StepInv'
<1> SUFFICES ASSUME whole PROVE (Framed /\ WriterAt /\ ReaderAt)'
  BY DEF StepInv, WriteByte, reader
<1> DEFINE byte == <<Head(out), at + 1>>
           k == Len(written)
<1>1. Head(out) \in Chunk /\ at \in Nat /\ at < Size(Head(out))
  BY HeadTailProperties DEF WriteByte, PipeInv
<1>2. byte \in Byte /\ k \in Nat
  BY <1>1, LenProperties DEF Byte, PipeInv
<1>3. /\ written' = Append(written, byte) /\ Len(written') = k + 1
      /\ \A i \in 1 .. k : written'[i] = written[i]
      /\ written'[k + 1] = byte
  BY <1>2, AppendProperties DEF WriteByte, PipeInv
<1>4. Framed /\ WriterAt /\ ReaderAt /\ open
  BY DEF StepInv, WriteByte
<1>5. \A i \in 0 .. k : Boundary(i)' <=> Boundary(i)
  BY <1>2, <1>3 DEF Boundary
<1>6. Boundary(k) <=> at = 0
  BY <1>1, <1>2, <1>4, SizeIsMore DEF WriterAt, Boundary
<1>7. Framed'
  <2> SUFFICES ASSUME NEW i \in 1 .. k + 1
               PROVE  IF Boundary(i - 1)' THEN written'[i][2] = 1
                      ELSE written'[i] = <<written'[i - 1][1], written'[i - 1][2] + 1>>
    BY <1>3 DEF Framed
  <2>1. CASE i \in 1 .. k
    BY <1>2, <1>3, <1>4, <1>5, <2>1 DEF Framed, Boundary
  <2>2. CASE i = k + 1
    <3>1. CASE at = 0
      BY <1>2, <1>3, <1>5, <1>6, <2>2, <3>1
    <3>2. CASE at # 0
      <4>1. k > 0 /\ written[k] = <<Head(out), at>>
        BY <1>4, <3>2 DEF WriterAt
      <4>2. i - 1 = k /\ k \in 1 .. k /\ i - 1 \in 0 .. k
        BY <1>2, <2>2, <4>1
      <4>3. ~Boundary(i - 1)'
        BY <1>5, <1>6, <3>2, <4>2
      <4>4. written'[k] = <<Head(out), at>>
        BY <1>3, <4>1, <4>2
      <4> QED
        BY <1>3, <2>2, <4>2, <4>3, <4>4
    <3> QED
      BY <3>1, <3>2
  <2> QED
    BY <1>2, <2>1, <2>2
<1>8. WriterAt'
  <2>1. CASE at + 1 = Size(Head(out))
    BY <1>2, <1>3, <2>1 DEF WriteByte, WriterAt, Boundary
  <2>2. CASE at + 1 # Size(Head(out))
    <3>1. at' = at + 1 /\ out' = out
      BY <2>2 DEF WriteByte
    <3> QED
      BY <1>1, <1>2, <1>3, <3>1 DEF WriterAt
  <2> QED
    BY <2>1, <2>2
<1>9. ReaderAt'
  <2>1. Len(yielded) \in 0 .. k
    BY Positions
  <2> QED
    BY <1>4, <1>5, <2>1 DEF ReaderAt, Aligned, WriteByte, reader
<1> QED
  BY <1>7, <1>8, <1>9

\* The byte that is read is the one that follows.
LEMMA ReaderKeepsStep ==
  ASSUME PipeInv, Conserved, StepInv, ReadByte
  PROVE  StepInv'
<1> SUFFICES ASSUME whole PROVE (Framed /\ WriterAt /\ ReaderAt)'
  BY DEF StepInv, ReadByte, history
<1> DEFINE g == Len(got)
           n == Len(yielded) + g + 1
           byte == Head(wire)
<1>1. Framed /\ WriterAt /\ ReaderAt
  BY DEF StepInv
<1>2. (Framed /\ WriterAt)'
  BY <1>1 DEF Framed, WriterAt, Boundary, ReadByte, history
<1>3. /\ byte \in Byte /\ byte = wire[1] /\ Len(wire) > 0 /\ g < want
  BY HeadTailProperties, EmptySeq DEF ReadByte, PipeInv
<1>4. /\ got' = Append(got, byte) /\ got' \in Seq(Byte) /\ Len(got') = g + 1
      /\ \A i \in 1 .. g : got'[i] = got[i]
      /\ got'[g + 1] = byte
  BY <1>3, AppendProperties DEF ReadByte, PipeInv
<1>5. written[n] = byte /\ n \in 1 .. Len(written) /\ g \in Nat
  BY <1>3, Positions
<1>6. IF Boundary(n - 1) THEN byte[2] = 1
      ELSE byte = <<written[n - 1][1], written[n - 1][2] + 1>>
  BY <1>1, <1>5 DEF Framed
<1>7. byte = <<got'[1][1], g + 1>>
  <2>1. CASE g = 0
    <3>1. n - 1 = Len(yielded)
      BY <2>1, Positions
    <3>2. byte[2] = 1
      BY <1>1, <1>6, <3>1 DEF ReaderAt
    <3> QED
      BY <1>3, <1>4, <2>1, <3>2 DEF Byte
  <2>2. CASE g > 0
    <3>1. n - 1 = Len(yielded) + g /\ n - 1 # 0
      BY <1>5, <2>2, Positions
    <3>2. written[n - 1] = got[g]
      BY <1>5, <2>2, <3>1, Positions
    <3>3. got[g] = <<got[1][1], g>>
      <4>1. g \in DOMAIN got
        BY <1>5, <2>2, LenProperties DEF PipeInv
      <4> QED
        BY <1>1, <4>1 DEF ReaderAt, Aligned
    <3>4. got[1][1] \in Chunk
      <4>1. got \in Seq(Byte) /\ 1 \in 1 .. Len(got)
        BY <1>5, <2>2 DEF PipeInv
      <4>2. got[1] \in Byte
        BY <4>1, ElementOfSeq
      <4> QED
        BY <4>2 DEF Byte
    <3>5. want <= Size(got[1][1]) /\ Size(got[1][1]) \in Nat /\ want \in Nat
      <4>1. Size(got[1][1]) \in Nat /\ HeaderLen < Size(got[1][1])
        BY <3>4, SizeIsMore
      <4>2. want = HeaderLen \/ want = Size(got[1][1])
        BY <1>1 DEF ReaderAt, ReadByte, PipeInv
      <4> QED
        BY <4>1, <4>2, HeaderAssumption
    <3>6. ~Boundary(n - 1)
      BY <1>3, <1>5, <3>1, <3>2, <3>3, <3>5 DEF Boundary
    <3> QED
      BY <1>4, <1>5, <1>6, <2>2, <3>2, <3>3, <3>6
  <2> QED
    BY <1>5, <2>1, <2>2
<1>8. ReaderAt'
  <2>1. Aligned'
    <3> SUFFICES ASSUME NEW i \in DOMAIN got' PROVE got'[i] = <<got'[1][1], i>>
      BY DEF Aligned
    <3>1. i \in 1 .. g + 1
      BY <1>4, LenProperties
    <3>2. CASE i = g + 1
      BY <1>4, <1>7, <3>2
    <3>3. CASE i \in 1 .. g
      <4>1. i \in DOMAIN got
        BY <3>3, LenProperties DEF PipeInv
      <4>2. 1 \in 1 .. g
        BY <1>5, <3>3
      <4> QED
        BY <1>1, <1>4, <3>3, <4>1, <4>2 DEF ReaderAt, Aligned
    <3> QED
      BY <1>5, <3>1, <3>2, <3>3
  <2>2. rpc = "rest" => Len(got') > 0 /\ want = Size(got'[1][1])
    BY <1>1, <1>4, <1>5 DEF ReaderAt
  <2> QED
    BY <1>1, <2>1, <2>2 DEF ReaderAt, Boundary, ReadByte, history
<1> QED
  BY <1>2, <1>8

\* A chunk that is returned ends where a chunk of the writer ends.
LEMMA YieldKeepsStep ==
  ASSUME PipeInv, Conserved, StepInv, Yield
  PROVE  StepInv'
<1> SUFFICES ASSUME whole PROVE (Framed /\ WriterAt /\ ReaderAt)'
  BY DEF StepInv, Yield
<1> DEFINE g == Len(got)
<1>1. Framed /\ WriterAt /\ ReaderAt
  BY DEF StepInv
<1>2. (Framed /\ WriterAt)'
  BY <1>1 DEF Framed, WriterAt, Boundary, Yield, pipe
<1>3. Len(yielded') = Len(yielded) + g
  <2>1. yielded \in Seq(Byte) /\ got \in Seq(Byte)
    BY DEF PipeInv
  <2>2. yielded' = yielded \o got
    BY DEF Yield
  <2> QED
    BY <2>1, <2>2, ConcatProperties
<1>4. g \in Nat /\ g > 0 /\ g = want /\ want = Size(got[1][1])
  BY <1>1, LenProperties DEF Yield, ReaderAt, PipeInv
<1>5. got[g] = <<got[1][1], g>>
  <2>1. g \in DOMAIN got
    BY <1>4, LenProperties DEF PipeInv
  <2> QED
    BY <1>1, <2>1 DEF ReaderAt, Aligned
<1>6. written[Len(yielded) + g] = got[g]
  BY <1>4, Positions
<1>7. Boundary(Len(yielded))'
  BY <1>3, <1>4, <1>5, <1>6 DEF Boundary, Yield
<1>8. DOMAIN got' = {} /\ rpc' = "idle"
  BY EmptySeq DEF Yield, Answer
<1> QED
  BY <1>2, <1>7, <1>8 DEF ReaderAt, Aligned

LEMMA StepStep ==
  PipeInv /\ Conserved /\ StepInv /\ [SNext]_svars => StepInv'
<1> SUFFICES ASSUME PipeInv, Conserved, StepInv, [SNext]_svars PROVE StepInv'
  OBVIOUS
<1> USE DEF Boundary
<1>0. Len(<< >>) = 0 /\ DOMAIN << >> = {}
  BY EmptySeq
<1>1. ASSUME NEW p \in Payload, NEW id \in Session, StartStream(p, id)
      PROVE  StepInv'
  <2>1. at = 0 /\ at' = 0
    BY <1>1 DEF StartStream, PipeInv
  <2> QED
    BY <1>1, <2>1 DEF StartStream, StepInv, Framed, WriterAt, ReaderAt, Aligned,
                      reader, history
<1>2. CASE whole' = FALSE
  BY <1>2 DEF StepInv
<1>3. CASE Close
  BY <1>3 DEF Close, StepInv, Framed, WriterAt, ReaderAt, Aligned, reader, history
<1>4. CASE Ask
  BY <1>4 DEF Ask, StepInv, Framed, WriterAt, ReaderAt, Aligned, pipe, history
<1>5. CASE ReadNone
  BY <1>0, <1>5 DEF ReadNone, CleanEnd, Answer, StepInv, Framed, WriterAt, ReaderAt,
                    Aligned, pipe, history
<1>6. ASSUME NEW length \in 0 .. MaxPayload + 1, ReadLength(length), whole' # FALSE
      PROVE  StepInv'
  <2>1. /\ Len(got) = HeaderLen /\ rpc' = "rest" /\ want' = Rest(length)
        /\ UNCHANGED <<pipe, got, history>>
    BY <1>6 DEF ReadLength, Fail, Disrupted, PipeInv
  <2>2. whole => want' = Size(got[1][1])
    BY <1>6, <2>1 DEF ReadLength, StepInv, ReaderAt, Rest, Size
  <2> QED
    BY <2>1, <2>2, HeaderAssumption
    DEF StepInv, Framed, WriterAt, ReaderAt, Aligned, pipe, history
<1>7. CASE Reconnect
  <2>1. /\ at' = 0 /\ got' = << >> /\ rpc' # "rest"
        /\ written' = << >> /\ yielded' = << >>
    BY <1>7 DEF Reconnect, PipeInv
  <2> QED
    BY <1>0, <2>1 DEF StepInv, Framed, WriterAt, ReaderAt, Aligned
<1>8. CASE UNCHANGED <<pipe, reader, history>>
  BY <1>8 DEF StepInv, Framed, WriterAt, ReaderAt, Aligned, pipe, reader, history
<1>9. /\ SRestart \/ UNCHANGED svars => UNCHANGED <<pipe, reader, history>>
      /\ Abandon \/ ReadEof \/ ReadError => whole' = FALSE
  BY DEF SRestart, svars, Abandon, ReadEof, ReadError, Fail, Disrupted
<1> QED
  BY <1>1, <1>2, <1>3, <1>4, <1>5, <1>6, <1>7, <1>8, <1>9,
     WriterKeepsStep, ReaderKeepsStep, YieldKeepsStep DEF SNext, Read

LEMMA StreamAlways == SSpec => [](PipeInv /\ Conserved /\ StepInv)
BY PipeInit, StepInit, PipeStep, StepStep, PTL DEF SSpec

(***************************************************************************)
(* What is on the wire, and what the reader holds, are bytes of chunks     *)
(* that were sent: so is every chunk that reaches the reassembler.         *)
(***************************************************************************)
SentByte == SentChunk \X (Nat \ {0})

Item == {"none", "chunk", "None", "Io", "UnexpectedEof", "MalformedLength"}

\* What the reader takes in is bounded, whatever a header declares.
SInv ==
  /\ RInv
  /\ out \in Seq(SentChunk)
  /\ wire \in Seq(SentByte) /\ got \in Seq(SentByte)
  /\ want <= HeaderLen + MaxPayload + HashLen
  /\ rpc = "rest" => got # << >>
  /\ item \in Item

LEMMA SInvInit == SInit => SInv
<1> SUFFICES ASSUME SInit PROVE SInv
  OBVIOUS
<1>1. RInv /\ << >> \in Seq(SentChunk) /\ << >> \in Seq(SentByte)
  BY RInit, EmptySeq DEF SInit
<1> QED
  BY <1>1, HeaderAssumption, MaxPayloadAssumption DEF SInit, SInv, Item, HashLen

LEMMA StartKeepsSInv ==
  ASSUME SInv, NEW p \in Payload, NEW id \in Session, StartStream(p, id)
  PROVE  SInv'
<1>1. /\ RInv' /\ SentChunk \subseteq SentChunk'
      /\ EncodeChunks(p, id) \in Seq(SentChunk')
  BY TransmitKeepsRInv DEF StartStream, SInv
<1>2. SentByte \subseteq SentByte'
  BY <1>1 DEF SentByte
<1>3. wire' \in Seq(SentByte') /\ got' \in Seq(SentByte')
  BY <1>2, SeqMonotonic DEF StartStream, SInv, reader
<1> QED
  BY <1>1, <1>3 DEF StartStream, SInv, reader

\* Steps that leave the reassembler and the transmissions as they are.
LEMMA StillSent ==
  ASSUME RInv, UNCHANGED vars
  PROVE  RInv' /\ SentChunk' = SentChunk /\ SentByte' = SentByte
BY StillKeepsRInv DEF vars, SentChunk, IsSent, SentByte

LEMMA SInvStep == PipeInv /\ SInv /\ [SNext]_svars => SInv'
<1> SUFFICES ASSUME PipeInv, SInv, [SNext]_svars PROVE SInv'
  OBVIOUS
<1>0. << >> \in Seq(SentChunk) /\ << >> \in Seq(SentByte) /\ Len(<< >>) = 0
  BY EmptySeq
<1>1. ASSUME UNCHANGED vars
      PROVE  RInv' /\ SentChunk' = SentChunk /\ SentByte' = SentByte
  BY <1>1, StillSent DEF SInv
<1>2. CASE WriteByte
  <2> DEFINE byte == <<Head(out), at + 1>>
  <2>1. Head(out) \in SentChunk /\ Tail(out) \in Seq(SentChunk)
    BY <1>2, HeadTailProperties DEF WriteByte, SInv
  <2>2. byte \in SentByte
    BY <2>1 DEF SentByte, PipeInv
  <2>3. wire' \in Seq(SentByte)
    BY <1>2, <2>2, AppendProperties DEF WriteByte, SInv
  <2>4. out' \in {out, Tail(out)}
    BY <1>2 DEF WriteByte
  <2>5. out' \in Seq(SentChunk)
    BY <2>1, <2>4 DEF SInv
  <2> QED
    BY <1>1, <1>2, <2>3, <2>5 DEF WriteByte, SInv, reader
<1>3. CASE Abandon \/ Close
  BY <1>0, <1>1, <1>3 DEF Abandon, Close, SInv, reader
<1>4. CASE Ask
  BY <1>1, <1>4, HeaderAssumption, MaxPayloadAssumption DEF Ask, SInv, HashLen, pipe
<1>5. CASE ReadByte
  <2>1. Head(wire) \in SentByte /\ Tail(wire) \in Seq(SentByte)
    BY <1>5, HeadTailProperties DEF ReadByte, SInv
  <2>2. got' \in Seq(SentByte)
    BY <1>5, <2>1, AppendProperties DEF ReadByte, SInv
  <2> QED
    BY <1>1, <1>5, <2>1, <2>2 DEF ReadByte, SInv
<1>6. ASSUME NEW i \in Item, Answer(i), UNCHANGED vars, UNCHANGED pipe
      PROVE  SInv'
  BY <1>0, <1>1, <1>6, HeaderAssumption, MaxPayloadAssumption
  DEF Answer, SInv, HashLen, pipe
<1>7. CASE ReadNone \/ ReadEof \/ ReadError
  BY <1>6, <1>7 DEF ReadNone, ReadEof, ReadError, Fail, Item
<1>8. ASSUME NEW length \in 0 .. MaxPayload + 1, ReadLength(length) PROVE SInv'
  <2>1. CASE Fail("MalformedLength")
    BY <1>6, <2>1 DEF Fail, Item
  <2>2. CASE /\ length <= MaxPayload /\ want' = Rest(length)
             /\ UNCHANGED <<vars, pipe, got, item, history>>
    <3>1. want' <= HeaderLen + MaxPayload + HashLen
      BY <2>2, HeaderAssumption, MaxPayloadAssumption DEF Rest, HashLen
    <3>2. got # << >>
      BY <1>0, <1>8, HeaderAssumption DEF ReadLength, PipeInv
    <3> QED
      BY <1>1, <2>2, <3>1, <3>2 DEF SInv, pipe
  <2> QED
    BY <1>8, <2>1, <2>2 DEF ReadLength
<1>9. CASE Yield
  <2>0. rpc' # "rest"
    BY <1>9 DEF Yield, Answer
  <2>1. got' = << >> /\ want' = 0 /\ item' \in Item /\ UNCHANGED <<out, wire>>
    BY <1>9 DEF Yield, Answer, pipe, Item
  <2>2. CASE IngestChanged
    <3>1. RInv'
      BY <2>2, ChangedKeepsRInv DEF SInv
    <3>2. SentChunk' = SentChunk /\ SentByte' = SentByte
      BY <2>2 DEF IngestChanged, Reject, SentChunk, IsSent, SentByte
    <3> QED
      BY <1>0, <2>1, <2>0, <3>1, <3>2, HeaderAssumption, MaxPayloadAssumption DEF SInv, HashLen
  <2>3. CASE Ingest(got[1][1]) /\ Len(got) = want /\ want = Size(got[1][1])
    <3>1. got[1] \in SentByte
      <4>1. got # << >>
        BY <1>9 DEF Yield, SInv
      <4> QED
        BY <4>1, HeadTailProperties DEF SInv
    <3>2. RInv'
      BY <2>3, <3>1, IngestKeepsRInv DEF SInv, SentByte
    <3>3. UNCHANGED sent
      BY <2>3 DEF Ingest, IngestOutOfBound, IngestForeign, Reject, IngestOutOfOrder,
         IngestNext
    <3>4. SentChunk' = SentChunk /\ SentByte' = SentByte
      BY <3>3 DEF SentChunk, IsSent, SentByte
    <3> QED
      BY <1>0, <2>0, <2>1, <3>2, <3>4, HeaderAssumption, MaxPayloadAssumption DEF SInv, HashLen
  <2> QED
    BY <1>9, <2>2, <2>3 DEF Yield
<1>10. CASE Reconnect
  BY <1>1, <1>10 DEF Reconnect, SInv, Item
<1>11. CASE SRestart
  <2>1. Renewed /\ UNCHANGED <<out, wire, rpc, got, want, item>>
    BY <1>11 DEF SRestart, Restart, Renewed, pipe, reader
  <2>2. RInv'
    BY <2>1, RenewKeepsRInv DEF SInv
  <2>3. SentChunk' = SentChunk /\ SentByte' = SentByte
    BY <2>1 DEF Renewed, SentChunk, IsSent, SentByte
  <2> QED
    BY <2>1, <2>2, <2>3 DEF SInv
<1>12. CASE UNCHANGED svars
  BY <1>1, <1>12 DEF svars, SInv, pipe, reader
<1> QED
  BY <1>2, <1>3, <1>4, <1>5, <1>7, <1>8, <1>9, <1>10, <1>11, <1>12, StartKeepsSInv
  DEF SNext, Read

LEMMA SInvAlways == SSpec => [](PipeInv /\ SInv)
BY PipeInit, SInvInit, PipeStep, SInvStep, StreamAlways, PTL DEF SSpec

(***************************************************************************)
(* The theorems about the pipe                                             *)
(***************************************************************************)
\* The chunks returned are those written, in order and each in one piece,
\* until an error is reported to one side (read_chunk_from_stream).
THEOREM ReaderStaysInStep == SSpec => []InStep
<1>1. PipeInv /\ Conserved /\ StepInv => InStep
  <2> SUFFICES ASSUME PipeInv, Conserved, StepInv, whole
               PROVE  /\ IsPrefix(yielded, written)
                      /\ \/ yielded = written
                         \/ written[Len(yielded) + 1][2] = 1
    BY DEF InStep
  <2> DEFINE k == Len(yielded)
  <2>1. k \in Nat /\ Len(written) \in Nat /\ k <= Len(written)
        /\ \A i \in 1 .. k : written[i] = yielded[i]
    BY Positions, LenProperties DEF PipeInv
  <2>2. IsPrefix(yielded, written)
    <3>1. /\ SubSeq(yielded, 1, k) \in Seq(Byte) /\ SubSeq(written, 1, k) \in Seq(Byte)
          /\ Len(SubSeq(yielded, 1, k)) = k /\ Len(SubSeq(written, 1, k)) = k
          /\ \A i \in 1 .. k : SubSeq(yielded, 1, k)[i] = yielded[i]
                              /\ SubSeq(written, 1, k)[i] = written[i]
      BY <2>1, SubSeqProperties, ElementOfSeq DEF PipeInv
    <3>2. SubSeq(yielded, 1, k) = SubSeq(written, 1, k)
      BY <2>1, <3>1, SeqEqual
    <3> QED
      BY <2>1, <3>2 DEF IsPrefix
  <2>3. CASE k = Len(written)
    <3>1. yielded \in Seq(Byte) /\ written \in Seq(Byte)
      BY DEF PipeInv
    <3> QED
      BY <2>1, <2>2, <2>3, <3>1, SeqEqual
  <2>4. CASE k < Len(written)
    <3>1. k + 1 \in 1 .. Len(written) /\ k + 1 - 1 = k
      BY <2>1, <2>4
    <3>2. Boundary(k) /\ Framed
      BY DEF StepInv, ReaderAt
    <3>3. Boundary(k + 1 - 1) => written[k + 1][2] = 1
      BY <3>1, <3>2 DEF Framed
    <3> QED
      BY <2>2, <3>1, <3>2, <3>3
  <2> QED
    BY <2>1, <2>3, <2>4
<1> QED
  BY <1>1, StreamAlways, PTL

\* None is returned only when all that was written was returned before, until
\* an error is reported (the clean end of stream_adapter.rs:10).
THEOREM CleanEndIsComplete == SSpec => EndIsComplete
<1>1. ASSUME PipeInv, Conserved, whole, wire = << >>, got = << >>
      PROVE  yielded = written
  BY <1>1, ConcatEmptySeq DEF PipeInv, Conserved
<1>2. PipeInv /\ Conserved /\ [SNext]_svars =>
        [item' = "None" /\ rpc # "idle" /\ whole => yielded = written]_svars
  <2> SUFFICES ASSUME PipeInv, Conserved, SNext,
                      item' = "None", rpc # "idle", whole
               PROVE  yielded = written
    OBVIOUS
  <2>1. CASE item = "None"
    BY <1>1, <2>1 DEF PipeInv
  <2>2. CASE ReadNone
    BY <1>1, <2>2 DEF ReadNone, CleanEnd, Ended
  <2>3. item = "None" \/ ReadNone
    BY DEF SNext, Read, StartStream, WriteByte, Abandon, Close, Ask, ReadByte,
           ReadEof, ReadLength, Yield, ReadError, Reconnect, SRestart, Fail,
           Answer, reader
  <2> QED
    BY <2>1, <2>2, <2>3
<1> QED
  BY <1>2, StreamAlways, PTL DEF SSpec, EndIsComplete

\* Every variable keeps its type, and never more than one chunk of the
\* largest size is read into memory, whatever length a header declares.
THEOREM BytesWellTyped == SSpec => []STypeOK
<1>1. PipeInv /\ SInv => STypeOK
  BY DEF PipeInv, SInv, RInv, STypeOK, Item
<1> QED
  BY <1>1, SInvAlways, PTL

\* What comes out of the reassembler was sent, however the stream was cut:
\* after an error the reader may be asked on, and may begin in mid-chunk.
THEOREM StreamDeliversWhatWasSent == SSpec => []AssembledWasSent
BY SInvAlways, AssembledIsSent, PTL DEF SInv
=============================================================================
