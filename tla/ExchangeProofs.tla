--------------------------- MODULE ExchangeProofs ---------------------------
(***************************************************************************)
(* Theorems of Exchange for any sizes of the two stores.  The first is     *)
(* about the sender, whatever the receiver does; the second follows a byte *)
(* from the sender's pad to the calls of the receiver's store.             *)
(***************************************************************************)
EXTENDS Exchange, PadStoreProofs

\* What the sender has reserved ends at its offset.
InHandEndsAtOffset ==
  \/ spc = "idle" /\ span = None
  \/ /\ spc \in {"reserved", "sealed", "signed"}
     /\ span \in Span /\ span[1] + span[2] = offset

SInv ==
  /\ offset \in 0 .. SenderSize
  /\ sent \in [SenderPosition -> Nat]
  /\ InHandEndsAtOffset
  /\ EachByteOneWay

LEMMA NoneIsNoSpan == None \notin Span
BY ContentAssumption, SpanAssumption DEF Content

LEMMA SpanInside ==
  ASSUME NEW s \in Span
  PROVE  /\ s[1] \in Nat /\ s[2] \in Nat /\ s[2] > 0 /\ s[1] + s[2] <= SenderSize
         /\ BytesOf(s) = s[1] .. s[1] + s[2] - 1
         /\ BytesOf(s) \subseteq SenderPosition
BY SenderAssumption DEF Span, BytesOf, SenderPosition

LEMMA SInit == XInit => SInv
BY SenderAssumption DEF XInit, SInv, InHandEndsAtOffset, EachByteOneWay, Sent,
   InHand, SenderPosition

\* An export that fails or dies gives up its bytes: they move from those in
\* hand to those lost.
LEMMA AbandonKeepsSInv ==
  ASSUME SInv, spc # "idle", Abandon
  PROVE  SInv'
<1> USE NoneIsNoSpan
<1>1. span \in Span /\ InHand = BytesOf(span)
  BY DEF SInv, InHandEndsAtOffset, InHand
<1>2. InHand' = {} /\ Sent' = Sent /\ lost' = lost \cup InHand
  BY <1>1 DEF Abandon, InHand, Sent
<1>3. EachByteOneWay'
  BY <1>2 DEF Abandon, SInv, EachByteOneWay
<1> QED
  BY <1>3 DEF Abandon, SInv, InHandEndsAtOffset

LEMMA SenderKeepsSInv ==
  ASSUME SInv, SenderStep
  PROVE  SInv'
<1> USE NoneIsNoSpan, SenderAssumption
<1>1. CASE GenerateSignKeypair
  BY <1>1 DEF GenerateSignKeypair, sender, SInv, InHandEndsAtOffset,
     EachByteOneWay, Sent, InHand
<1>2. ASSUME NEW n \in 1 .. SenderSize, ExportReserve(n) PROVE SInv'
  <2>1. offset \in Nat /\ n \in Nat /\ n > 0 /\ offset + n <= SenderSize
        /\ span = None
    BY <1>2 DEF ExportReserve, SInv, InHandEndsAtOffset
  <2>2. span' = <<offset, n>> /\ span' \in Span /\ offset' = offset + n
    BY <1>2, <2>1 DEF ExportReserve, Span, SenderPosition
  <2>3. InHand = {} /\ InHand' = offset .. offset' - 1
    BY <2>1, <2>2 DEF InHand, BytesOf
  <2>4. Sent' = Sent /\ lost' = lost
    BY <1>2 DEF ExportReserve, Sent
  <2>5. 0 .. offset' - 1 = (0 .. offset - 1) \cup InHand'
        /\ (0 .. offset - 1) \cap InHand' = {}
    BY <2>1, <2>2, <2>3
  <2>6. EachByteOneWay'
    BY <1>2, <2>3, <2>4, <2>5 DEF ExportReserve, SInv, EachByteOneWay
  <2> QED
    BY <1>2, <2>1, <2>2, <2>6 DEF ExportReserve, SInv, InHandEndsAtOffset
<1>3. CASE SealPad \/ SignAndWrap
  <2>1. EachByteOneWay'
    BY <1>3 DEF SealPad, SignAndWrap, SInv, EachByteOneWay, Sent, InHand
  <2> QED
    BY <1>3, <2>1 DEF SealPad, SignAndWrap, SInv, InHandEndsAtOffset
<1>4. CASE ExportFails \/ SenderCrash
  BY <1>4, AbandonKeepsSInv DEF ExportFails, SenderCrash
<1>5. CASE EncodeChunks
  <2>1. span \in Span /\ InHand = BytesOf(span)
    BY <1>5 DEF EncodeChunks, SInv, InHandEndsAtOffset, InHand
  <2>2. InHand' = {} /\ lost' = lost
    BY <1>5 DEF EncodeChunks, InHand
  <2>3. sent' \in [SenderPosition -> Nat]
    BY <1>5 DEF EncodeChunks, SInv
  <2>4. \A x \in SenderPosition : sent'[x] = IF x \in InHand THEN 1 ELSE sent[x]
    <3>1. \A x \in InHand : x \in SenderPosition => sent[x] = 0
      BY DEF SInv, EachByteOneWay, Sent
    <3> QED
      BY <1>5, <2>1, <3>1 DEF EncodeChunks
  <2>5. Sent' = Sent \cup InHand
    BY <2>1, <2>4, SpanInside DEF Sent
  <2>6. EachByteOneWay'
    BY <1>5, <2>2, <2>4, <2>5 DEF EncodeChunks, SInv, EachByteOneWay
  <2> QED
    BY <1>5, <2>3, <2>6 DEF EncodeChunks, SInv, InHandEndsAtOffset
<1> QED
  BY <1>1, <1>2, <1>3, <1>4, <1>5 DEF SenderStep

LEMMA SStep == SInv /\ [XNext]_xvars => SInv'
<1> SUFFICES ASSUME SInv, [XNext]_xvars PROVE SInv'
  OBVIOUS
<1>1. CASE UNCHANGED sender
  BY <1>1 DEF sender, SInv, InHandEndsAtOffset, EachByteOneWay, Sent, InHand
<1>2. CASE ReceiverStep
  BY <1>1, <1>2 DEF ReceiverStep, GenerateBoxKeypair, ReceiverIngests,
     ReceiverCalls, Calls, ReceiverDies
<1>3. CASE SenderStep
  BY <1>3, SenderKeepsSInv
<1>4. CASE UNCHANGED xvars
  BY <1>1, <1>4 DEF xvars
<1> QED
  BY <1>2, <1>3, <1>4 DEF XNext

\* "Maybe sent, definitely burned" (export.rs:7-10), for any pad size: each
\* byte below the sender's offset was sent in one transmission, lost to an
\* error or a crash, or is still in hand, and none above it was touched.
THEOREM MaybeSentDefinitelyBurned == XSpec => []EachByteOneWay
<1>1. SInv => EachByteOneWay
  BY DEF SInv
<1> QED
  BY <1>1, SInit, SStep, PTL DEF XSpec

-----------------------------------------------------------------------------
(***************************************************************************)
(* The receiver.  An ingest over a filled store puts another pad under the *)
(* key and offset of the one before, so that KeyOfBuffer of PadStore's     *)
(* invariant does not hold here.  What remains is that every byte issued,  *)
(* of whatever pad, lies below the one offset of the journal.              *)
(***************************************************************************)
\* A transmission carries bytes that were sent, and no two carry the same.
WireInv ==
  /\ wire \subseteq Span
  /\ \A s \in wire : BytesOf(s) \subseteq Sent
  /\ \A s, t \in wire : s # t => BytesOf(s) \cap BytesOf(t) = {}

\* A store that is usable, or on its way there, has a pad that was sent.
PadWasSent == filled \/ pc # "idle" => buf \in wire /\ buf[2] = PadSize

\* IssuedBelow of PadStore, without the key.
PositionsBelow ==
  \A b \in Bytes : issued[b] > 0 =>
    /\ b[1] \in wire /\ b[1][2] = PadSize
    /\ journal \in Record => b[2] < journal.macOff
    /\ Holding => filled /\ b[2] < consumed

\* A position is issued once, be it of one pad or of another.
PositionOnce ==
  \A b \in Bytes : issued[b] > 0 =>
    /\ issued[b] = 1
    /\ \A c \in Bytes : issued[c] > 0 /\ c[2] = b[2] => c = b

RInv ==
  /\ durable = journal
  /\ FirstRecord /\ TmpReady /\ JournalHeld
  /\ PadWasSent /\ PositionsBelow /\ PositionOnce


LEMMA BothInit == XInit => TypeOK /\ SInv /\ WireInv /\ RInv
<1> SUFFICES ASSUME XInit PROVE TypeOK /\ SInv /\ WireInv /\ RInv
  OBVIOUS
<1>1. TypeOK /\ SInv
  BY TypeInit, SInit DEF XInit, IInit
<1>2. WireInv
  BY DEF XInit, WireInv
<1>3. \A b \in Bytes : issued[b] = 0
  BY DEF XInit, IInit, Init
<1>4. RInv
  BY <1>3, FileAssumption
     DEF XInit, IInit, Init, NoStore, Idle, RInv, FirstRecord, TmpReady, JournalHeld,
         PadWasSent, PositionsBelow, PositionOnce, Holding
<1> QED
  BY <1>1, <1>2, <1>4

LEMMA WireStep ==
  ASSUME SInv, WireInv, SenderStep
  PROVE  WireInv' /\ wire \subseteq wire'
<1>1. CASE EncodeChunks
  <2>1. span \in Span /\ InHand = BytesOf(span) /\ BytesOf(span) \subseteq SenderPosition
    BY <1>1, NoneIsNoSpan, SpanInside DEF EncodeChunks, SInv, InHandEndsAtOffset, InHand
  <2>2. Sent \cap BytesOf(span) = {}
    BY <2>1 DEF SInv, EachByteOneWay
  <2>3. wire' = wire \cup {span}
    BY <1>1 DEF EncodeChunks
  <2>4. Sent \subseteq Sent' /\ BytesOf(span) \subseteq Sent'
    <3>1. \A x \in SenderPosition :
            sent[x] \in Nat
            /\ sent'[x] = IF x \in BytesOf(span) THEN sent[x] + 1 ELSE sent[x]
      BY <1>1 DEF EncodeChunks, SInv
    <3> QED
      BY <2>1, <3>1 DEF Sent
  <2> QED
    BY <2>1, <2>2, <2>3, <2>4 DEF WireInv
<1>2. ASSUME UNCHANGED <<wire, sent>> PROVE WireInv' /\ wire \subseteq wire'
  BY <1>2 DEF WireInv, Sent
<1> QED
  BY <1>1, <1>2 DEF SenderStep, GenerateSignKeypair, sender, ExportReserve, SealPad,
     SignAndWrap, ExportFails, Abandon, SenderCrash

(***************************************************************************)
(* Steps of the receiver's store                                           *)
(***************************************************************************)
\* Nothing happens at the receiver, while transmissions may leave the sender.
LEMMA StoreStands ==
  ASSUME RInv, wire \subseteq wire', UNCHANGED vars
  PROVE  RInv'
BY DEF RInv, vars, FirstRecord, TmpReady, JournalHeld, PadWasSent, PositionsBelow,
   PositionOnce, Holding, Reach, Target

\* A step that ends with no call in progress and no usable store.
LEMMA StoreStops ==
  ASSUME RInv, TypeOK, ~filled', pc' = "idle", UNCHANGED <<wire, disk, issued>>
  PROVE  RInv'
BY DEF RInv, disk, FirstRecord, TmpReady, JournalHeld, PadWasSent, PositionsBelow,
   PositionOnce, Holding

\* A step from no call in progress to none that puts at most another pad
\* that was sent into the buffer.
LEMMA StoreIdles ==
  ASSUME RInv, TypeOK, pc \notin {"load", "commit"}, pc' = "idle",
         filled => buf' \in wire /\ buf'[2] = PadSize,
         UNCHANGED <<wire, filled, consumed, key, disk, issued>>
  PROVE  RInv'
BY DEF RInv, TypeOK, disk, FirstRecord, TmpReady, JournalHeld, PadWasSent,
   PositionsBelow, PositionOnce, Holding, Reach

\* What was assembled of a transmission is that transmission, and it is exact
\* only if it fits the store.
LEMMA ExactFits ==
  ASSUME NEW s \in Span, NEW e \in Assembled(s)
  PROVE  e.content = s /\ (e.kind = "exact" => s[2] = PadSize)
BY DEF Assembled, Size

LEMMA IngestKeepsRInv ==
  ASSUME TypeOK, WireInv, RInv, UNCHANGED wire, NEW s \in wire, NEW e \in Assembled(s),
         Ingest(e)
  PROVE  RInv'
<1>1. /\ live /\ pc = "idle" /\ s \in wire
      /\ e.content = s /\ (e.kind = "exact" => s[2] = PadSize)
  BY ExactFits DEF Ingest, WireInv
<1>2. CASE IngestUnverified(e)
  BY <1>2, StoreStands DEF IngestUnverified
<1>3. CASE IngestUnopened(e)
  BY <1>3, StoreStops DEF IngestUnopened, Clear, Return
<1>4. CASE IngestShort(e)
  BY <1>4, StoreStops DEF IngestShort, Return
<1>5. CASE IngestExact(e)
  BY <1>1, <1>5 DEF IngestExact, TypeOK, RInv, disk, FirstRecord, TmpReady,
     JournalHeld, PadWasSent, PositionsBelow, PositionOnce, Holding
<1>6. CASE IngestOverFilled(e)
  BY <1>1, <1>6, StoreIdles DEF IngestOverFilled, Return
<1> QED
  BY <1>2, <1>3, <1>4, <1>5, <1>6 DEF Ingest

\* The steps of finalize_fill and reserve.
LEMMA ContinueKeepsRInv ==
  ASSUME RenameDurable, TypeOK, RInv, UNCHANGED wire, Continue
  PROVE  RInv'
<1>1. CASE LoadAbsent
  BY <1>1 DEF LoadAbsent, TypeOK, RInv, store, disk, FirstRecord, TmpReady,
     JournalHeld, PadWasSent, PositionsBelow, PositionOnce, Holding
<1>2. CASE LoadAccepted
  BY <1>2, FileAssumption DEF LoadAccepted, Accepts, Adopt, Return, TypeOK, RInv, disk,
     FirstRecord, TmpReady, JournalHeld, PadWasSent, PositionsBelow, PositionOnce,
     Holding, Reach
<1>3. ASSUME NEW r, pc \notin {"idle", "commit"}, CallFails(r), UNCHANGED <<disk, issued>>
      PROVE  RInv'
  <2>1. CASE op = "reserve"
    <3>1. pc # "load" /\ pc' = "idle" /\ UNCHANGED store
      BY <1>3, <2>1 DEF TypeOK, CallFails, Return
    <3> QED
      BY <1>3, <3>1, StoreIdles DEF RInv, PadWasSent, store
  <2>2. CASE op # "reserve"
    BY <1>3, <2>2, StoreStops DEF CallFails, Gone, Return, TypeOK
  <2> QED
    BY <2>1, <2>2
<1>4. CASE LoadRefused \/ IoError
  BY <1>3, <1>4 DEF LoadRefused, IoError
<1>5. CASE CreateTmp \/ WriteTmp \/ SyncTmp
  BY <1>5 DEF CreateTmp, WriteTmp, SyncTmp, TypeOK, RInv, store, disk, FirstRecord,
     TmpReady, JournalHeld, PadWasSent, PositionsBelow, PositionOnce, Holding,
     Reach, Target
<1>6. CASE RenameTmp
  <2>1. pc = "rename" /\ pc' = "commit" /\ UNCHANGED <<store, op, need, issued>>
    BY <1>6 DEF RenameTmp
  <2>2. journal' = Rec(Target, key) /\ durable' = journal'
    BY <1>6 DEF RenameTmp, RInv, TmpReady
  <2>3. journal'.macOff = Target /\ journal'.macKey = key /\ journal' # Absent
    <3>1. Target \in Offset /\ key \in Content
      BY <2>1, PadSizeAssumption DEF TypeOK, Target, Offset
    <3> QED
      BY <2>2, <3>1, RecIsRecord, FileAssumption DEF Rec
  <2>4. TmpReady' /\ PositionOnce' /\ PadWasSent'
    BY <2>1 DEF RInv, store, TmpReady, PositionOnce, PadWasSent
  <2>5. FirstRecord' /\ JournalHeld'
    BY <2>1, <2>3 DEF store, FirstRecord, JournalHeld, Reach, Target
  <2>6. PositionsBelow'
    <3>1. CASE op = "reserve"
      <4>1. filled /\ Target = consumed + need /\ consumed \in Nat /\ need \in Nat
        BY <3>1 DEF TypeOK, Offset, Target
      <4>2. ASSUME NEW b \in Bytes, issued[b] > 0
            PROVE  b[2] < consumed /\ b[2] < Target /\ b[1] \in wire /\ b[1][2] = PadSize
        <5>1. b[2] \in Nat
          BY PadSizeAssumption DEF Bytes, Position
        <5> QED
          BY <4>1, <4>2, <5>1 DEF RInv, PositionsBelow, Holding
      <4> QED
        BY <2>1, <2>3, <4>1, <4>2 DEF store, PositionsBelow
    <3>2. CASE op # "reserve"
      <4>1. \A b \in Bytes : issued[b] = 0
        BY <2>1, <3>2 DEF RInv, FirstRecord
      <4> QED
        BY <2>1, <4>1 DEF PositionsBelow
    <3> QED
      BY <3>1, <3>2
  <2> QED
    BY <2>2, <2>4, <2>5, <2>6 DEF RInv
<1>7. CASE CommitFill
  BY <1>7 DEF CommitFill, Adopt, Return, TypeOK, RInv, disk, FirstRecord, TmpReady,
     JournalHeld, PadWasSent, PositionsBelow, PositionOnce, Holding, Reach, Target
<1>8. CASE CommitReserve
  <2>1. /\ pc = "commit" /\ op = "reserve" /\ filled
        /\ pc' = "idle" /\ consumed' = Target
        /\ buf \in wire /\ buf[2] = PadSize
        /\ UNCHANGED <<live, buf, filled, key, disk>>
    BY <1>8 DEF CommitReserve, Return, TypeOK, RInv, PadWasSent
  <2>2. /\ Target = consumed + need /\ consumed \in Nat /\ need \in Nat
        /\ Target \in Nat
    BY <2>1 DEF TypeOK, Offset, Target
  <2> DEFINE Returned == {b \in Bytes : b[1] = buf /\ consumed <= b[2] /\ b[2] < Target}
  <2>3. \A b \in Bytes :
          /\ issued[b] \in Nat /\ b[2] \in Nat
          /\ issued'[b] = IF b \in Returned THEN issued[b] + 1 ELSE issued[b]
    BY <1>8, PadSizeAssumption DEF CommitReserve, TypeOK, Bytes, Position
  <2>4. \A b \in Bytes : issued[b] > 0 =>
          b[1] \in wire /\ b[1][2] = PadSize /\ b[2] < consumed
    BY <2>1 DEF RInv, PositionsBelow, Holding
  <2>5. \A b \in Returned : issued[b] = 0
    BY <2>2, <2>3, <2>4
  <2>6. \A b \in Bytes : issued'[b] > 0 => b \in Returned \/ issued[b] > 0
    BY <2>3
  <2>7. \A b \in Bytes : issued'[b] > 0 =>
          b[1] \in wire /\ b[1][2] = PadSize /\ b[2] < Target
    BY <2>1, <2>2, <2>3, <2>4, <2>6
  <2>8. journal # Absent /\ (journal \in Record => journal.macOff = Target)
    BY <2>1 DEF RInv, FirstRecord, JournalHeld, Holding, Reach
  <2>9. FirstRecord' /\ JournalHeld' /\ TmpReady' /\ PadWasSent' /\ durable' = journal'
    BY <2>1, <2>8 DEF RInv, disk, FirstRecord, JournalHeld, TmpReady, PadWasSent,
       Holding, Reach
  <2>10. PositionsBelow'
    BY <2>1, <2>7, <2>8 DEF disk, PositionsBelow
  <2>11. ASSUME NEW b \in Bytes, issued'[b] > 0
         PROVE  /\ issued'[b] = 1
                /\ \A c \in Bytes : issued'[c] > 0 /\ c[2] = b[2] => c = b
    <3>1. CASE b \in Returned
      <4>1. \A c \in Bytes : issued'[c] > 0 /\ c[2] = b[2] => c \in Returned
        BY <2>2, <2>3, <2>4, <2>6, <3>1
      <4>2. \A c \in Returned : c[2] = b[2] => c = b
        BY <3>1 DEF Bytes
      <4> QED
        BY <2>3, <2>5, <3>1, <4>1, <4>2
    <3>2. CASE b \notin Returned
      <4>1. issued[b] > 0 /\ issued'[b] = issued[b] /\ b[2] < consumed
        BY <2>3, <2>4, <2>11, <3>2
      <4>2. \A c \in Bytes : issued'[c] > 0 /\ c[2] = b[2] => issued[c] > 0
        BY <2>2, <2>3, <2>6, <4>1
      <4> QED
        BY <4>1, <4>2 DEF RInv, PositionOnce
    <3> QED
      BY <3>1, <3>2
  <2>12. PositionOnce'
    BY <2>11 DEF PositionOnce
  <2> QED
    BY <2>9, <2>10, <2>12 DEF RInv
<1> QED
  BY <1>1, <1>2, <1>4, <1>5, <1>6, <1>7, <1>8 DEF Continue

LEMMA CallKeepsRInv ==
  ASSUME RenameDurable, TypeOK, RInv, UNCHANGED wire, Call \/ Crash \/ PowerLoss
  PROVE  RInv'
<1>1. CASE NewDeferred
  BY <1>1, StoreStops DEF NewDeferred, Return
<1>2. ASSUME NEW n \in 1 .. PadSize, Reserve(n) PROVE RInv'
  BY <1>2 DEF Reserve, TypeOK, RInv, store, disk, FirstRecord, TmpReady, JournalHeld,
     PadWasSent, PositionsBelow, PositionOnce, Holding, Reach
<1>3. CASE ReserveRejected
  BY <1>3, StoreIdles DEF ReserveRejected, Return, RInv, PadWasSent, store
<1>4. CASE Clear
  BY <1>4, StoreStops DEF Clear, Return
<1>5. CASE Drop
  BY <1>5, StoreStops DEF Drop, Gone, call
<1>6. CASE Crash
  BY <1>6, StoreStops DEF Crash, Gone, Return
<1>7. CASE PowerLoss
  BY <1>7 DEF PowerLoss, Gone, Return, TypeOK, RInv, FirstRecord, TmpReady,
     JournalHeld, PadWasSent, PositionsBelow, PositionOnce, Holding
<1> QED
  BY <1>1, <1>2, <1>3, <1>4, <1>5, <1>6, <1>7, ContinueKeepsRInv DEF Call

(***************************************************************************)
(* Both parties                                                            *)
(***************************************************************************)
\* The steps of the receiver but GenerateBoxKeypair, and of the sender.
LEMMA ReceiverCases ==
  ASSUME WireInv, XNext
  PROVE  \/ \E s \in wire : \E e \in Assembled(s) : Ingest(e) /\ UNCHANGED <<keys, sender>>
         \/ (Call \/ Crash \/ PowerLoss) /\ UNCHANGED sender /\ answer' \in {"none", "Finalize"}
              /\ keys' \in {keys, keys \ {"box"}}
         \/ keys' = keys \cup {"box"} /\ UNCHANGED <<ivars, sender>>
         \/ SenderStep /\ UNCHANGED ivars
BY DEF XNext, ReceiverStep, ReceiverIngests, ReceiverCalls, Calls, ReceiverDies,
   GenerateBoxKeypair, SenderStep, GenerateSignKeypair, ExportReserve, SealPad,
   SignAndWrap, ExportFails, Abandon, EncodeChunks, SenderCrash

LEMMA IngestKeepsType ==
  ASSUME TypeOK, WireInv, NEW s \in wire, NEW e \in Assembled(s), Ingest(e)
  PROVE  TypeOK'
<1> USE PadSizeAssumption, ContentAssumption, OffsetAssumption, FileAssumption
<1>1. live /\ pc = "idle" /\ e.content = s /\ s \in Content /\ s # None
  BY ExactFits, SpanAssumption DEF Ingest, WireInv, Content
<1>2. CASE IngestUnverified(e)
  BY <1>2 DEF IngestUnverified, vars, TypeOK
<1>3. CASE IngestUnopened(e)
  BY <1>3, TypeStep DEF IngestUnopened, Next, Begin
<1>4. CASE IngestShort(e)
  BY <1>1, <1>4 DEF IngestShort, Return, TypeOK, disk, Content, Offset, Outcome
<1>5. CASE IngestExact(e)
  BY <1>1, <1>5 DEF IngestExact, TypeOK, disk, Offset
<1>6. CASE IngestOverFilled(e)
  BY <1>1, <1>6 DEF IngestOverFilled, Return, TypeOK, disk, Offset, Outcome
<1> QED
  BY <1>2, <1>3, <1>4, <1>5, <1>6 DEF Ingest

LEMMA StoreKeepsType ==
  ASSUME TypeOK, Call \/ Crash \/ PowerLoss
  PROVE  TypeOK'
BY TypeStep DEF Call, Next, Begin, Environment

\* What holds of both parties also when a power loss may undo a rename.
BInv == TypeOK /\ SInv /\ WireInv

LEMMA BStep == BInv /\ [XNext]_xvars => BInv'
<1> SUFFICES ASSUME BInv, [XNext]_xvars PROVE BInv'
  OBVIOUS
<1>1. SInv'
  BY SStep DEF BInv
<1>2. WireInv'
  <2>1. CASE UNCHANGED sender
    BY <2>1 DEF sender, BInv, WireInv, Sent
  <2>2. CASE SenderStep
    BY <2>2, WireStep DEF BInv
  <2> QED
    BY <2>1, <2>2, ReceiverCases DEF xvars, BInv
<1>3. TypeOK'
  <2>1. CASE UNCHANGED vars
    BY <2>1 DEF BInv, TypeOK, vars
  <2> QED
    BY <2>1, ReceiverCases, IngestKeepsType, StoreKeepsType DEF BInv, xvars, ivars
<1> QED
  BY <1>1, <1>2, <1>3 DEF BInv

LEMMA RStep == RenameDurable /\ BInv /\ RInv /\ [XNext]_xvars => RInv'
<1> SUFFICES ASSUME RenameDurable, BInv, RInv, [XNext]_xvars PROVE RInv'
  OBVIOUS
<1>1. CASE UNCHANGED vars /\ (SenderStep \/ UNCHANGED wire)
  BY <1>1, WireStep, StoreStands DEF BInv
<1> QED
  BY <1>1, ReceiverCases, IngestKeepsRInv, CallKeepsRInv DEF BInv, xvars, ivars, sender

LEMMA ByteOfPad ==
  ASSUME NEW s \in Span, s[2] = PadSize, NEW x \in 0 .. PadSize - 1
  PROVE  s[1] + x \in BytesOf(s)
BY PadSizeAssumption, SpanInside

\* Bytes of two pads, or two bytes of one, are different bytes of the sender's.
LEMMA IssuedBytesDiffer ==
  ASSUME WireInv, PositionsBelow, PositionOnce,
         NEW b \in Bytes, NEW c \in Bytes, issued[b] > 0, issued[c] > 0, c # b
  PROVE  c[1][1] + c[2] # b[1][1] + b[2]
<1>1. /\ b[1] \in wire /\ b[1][2] = PadSize /\ b[1] \in Span
      /\ c[1] \in wire /\ c[1][2] = PadSize /\ c[1] \in Span
  BY DEF PositionsBelow, WireInv
<1>2. b[2] \in 0 .. PadSize - 1 /\ c[2] \in 0 .. PadSize - 1 /\ c[2] # b[2]
  BY DEF Bytes, Position, PositionOnce
<1>3. b[1][1] + b[2] \in BytesOf(b[1]) /\ c[1][1] + c[2] \in BytesOf(c[1])
  BY <1>1, <1>2, ByteOfPad
<1>4. CASE b[1] = c[1]
  BY <1>1, <1>2, <1>4, PadSizeAssumption, SpanInside
<1>5. CASE b[1] # c[1]
  BY <1>1, <1>3, <1>5 DEF WireInv
<1> QED
  BY <1>4, <1>5

\* Whatever the receiver's store issues are bytes of transmissions that left the
\* sender, each byte of the sender's pad once at most, for any sizes of the
\* pads, any number of transmissions, ingests and restarts (export_pad_payload,
\* ingest_assembled_payload), as long as a rename survives power loss.
THEOREM IssuedWasSentOnce ==
  ASSUME RenameDurable
  PROVE  XSpec => []IssuedWasSent
<1>1. BInv /\ RInv => IssuedWasSent
  <2> SUFFICES ASSUME BInv, RInv, NEW b \in Bytes, issued[b] > 0
      PROVE  /\ b[1] \in wire /\ b[1][2] = PadSize
             /\ b[1][1] + b[2] \in Sent \ lost
             /\ issued[b] = 1
             /\ \A c \in Bytes : issued[c] > 0 /\ c # b => c[1][1] + c[2] # b[1][1] + b[2]
    BY DEF IssuedWasSent
  <2>1. b[1] \in wire /\ b[1][2] = PadSize /\ b[1] \in Span /\ issued[b] = 1
    BY DEF BInv, RInv, WireInv, PositionsBelow, PositionOnce
  <2>2. b[2] \in 0 .. PadSize - 1
    BY DEF Bytes, Position
  <2>3. b[1][1] + b[2] \in BytesOf(b[1])
    BY <2>1, <2>2, ByteOfPad
  <2>4. b[1][1] + b[2] \in Sent \ lost
    BY <2>1, <2>3 DEF BInv, WireInv, SInv, EachByteOneWay
  <2> QED
    BY <2>1, <2>4, IssuedBytesDiffer DEF BInv, RInv
<1>2. XInit => BInv /\ RInv
  BY BothInit DEF BInv
<1> QED
  BY <1>1, <1>2, BStep, RStep, PTL DEF XSpec

(***************************************************************************)
(* Types                                                                   *)
(***************************************************************************)
\* The conjuncts of XTypeOK that the invariants above do not give.
TInv ==
  /\ answer \in {"none", "opened", "Reassembly", "Signature", "Decrypt",
                 "SizeMismatch", "Finalize"}
  /\ answer = "opened" => op = "finalize"
  /\ keys \subseteq {"sign", "box"}
  /\ spc # "idle" => "sign" \in keys

LEMMA TStep == BInv /\ TInv /\ [XNext]_xvars => TInv'
<1> SUFFICES ASSUME BInv, TInv, [XNext]_xvars PROVE TInv'
  OBVIOUS
<1>1. ASSUME NEW s \in wire, NEW e \in Assembled(s), Ingest(e), UNCHANGED <<keys, sender>>
      PROVE  TInv'
  BY <1>1 DEF Ingest, IngestUnverified, IngestUnopened, IngestShort, IngestExact,
     IngestOverFilled, TInv, BInv, TypeOK, vars, sender
<1>2. CASE UNCHANGED sender /\ answer' \in {"none", "Finalize"}
           /\ keys' \in {keys, keys \ {"box"}}
  BY <1>2 DEF TInv, sender
<1>3. CASE keys' = keys \cup {"box"} /\ UNCHANGED <<ivars, sender>>
  BY <1>3 DEF TInv, sender, ivars, vars
<1>4. CASE SenderStep /\ UNCHANGED ivars
  BY <1>4 DEF SenderStep, GenerateSignKeypair, sender, ExportReserve, SealPad,
     SignAndWrap, ExportFails, Abandon, EncodeChunks, SenderCrash, TInv, ivars, vars
<1>5. CASE UNCHANGED xvars
  BY <1>5 DEF TInv, xvars, ivars, vars, sender
<1> QED
  BY <1>1, <1>2, <1>3, <1>4, <1>5, ReceiverCases DEF BInv

\* Every value of both parties stays in its range, bytes are in hand exactly
\* during an export and never without a key to sign them, and an ingest that
\* has opened its box is in finalize_fill, for any sizes of the pads.
THEOREM BothWellTyped == XSpec => []XTypeOK
<1>1. BInv /\ TInv => XTypeOK
  <2> SUFFICES ASSUME BInv, TInv PROVE XTypeOK
    OBVIOUS
  <2>1. IngestTypeOK
    BY DEF BInv, TInv, IngestTypeOK
  <2>2. offset \in 0 .. SenderSize /\ sent \in [SenderPosition -> Nat] /\ wire \subseteq Span
    BY DEF BInv, SInv, WireInv
  <2>3. lost \subseteq SenderPosition
    BY <2>2, SenderAssumption DEF BInv, SInv, EachByteOneWay, SenderPosition
  <2>4. /\ spc \in {"idle", "reserved", "sealed", "signed"}
        /\ span \in Span \cup {None} /\ (spc = "idle" <=> span = None)
    BY NoneIsNoSpan DEF BInv, SInv, InHandEndsAtOffset
  <2> QED
    BY <2>1, <2>2, <2>3, <2>4 DEF TInv, XTypeOK
<1>2. XInit => BInv /\ TInv
  BY BothInit DEF BInv, TInv, XInit, IInit
<1> QED
  BY <1>1, <1>2, BStep, TStep, PTL DEF XSpec

(***************************************************************************)
(* Failed ingests                                                          *)
(***************************************************************************)
\* A store deferred and not used has nothing in its buffer.
FreshIsEmpty == locked /\ ~filled /\ pc = "idle" => buf = Zero

LEMMA FreshStep == BInv /\ FreshIsEmpty /\ [XNext]_xvars => FreshIsEmpty'
<1> SUFFICES ASSUME BInv, FreshIsEmpty, [XNext]_xvars PROVE FreshIsEmpty'
  OBVIOUS
<1> USE DEF FreshIsEmpty
<1>1. ASSUME NEW s \in wire, NEW e \in Assembled(s), Ingest(e) PROVE FreshIsEmpty'
  <2>1. CASE IngestUnverified(e)
    BY <2>1 DEF IngestUnverified, vars
  <2>2. CASE IngestUnopened(e) \/ IngestShort(e)
    BY <2>2 DEF IngestUnopened, Clear, EraseBuf, IngestShort
  <2>3. CASE IngestExact(e) \/ IngestOverFilled(e)
    BY <2>3 DEF IngestExact, IngestOverFilled
  <2> QED
    BY <1>1, <2>1, <2>2, <2>3 DEF Ingest
<1>2. CASE NewDeferred \/ ReserveRejected \/ Clear \/ Drop \/ Crash \/ PowerLoss
  BY <1>2 DEF NewDeferred, ReserveRejected, Clear, EraseBuf, Drop, Crash, PowerLoss,
     Gone, Return, store, BInv, TypeOK
<1>3. CASE (\E n \in 1 .. PadSize : Reserve(n)) \/ LoadAbsent \/ CreateTmp \/ WriteTmp
           \/ SyncTmp \/ RenameTmp
  BY <1>3 DEF Reserve, LoadAbsent, CreateTmp, WriteTmp, SyncTmp, RenameTmp
<1>4. CASE LoadAccepted \/ CommitFill \/ CommitReserve
  BY <1>4 DEF LoadAccepted, CommitFill, CommitReserve, Adopt, BInv, TypeOK
<1>5. ASSUME NEW r, pc # "idle", CallFails(r) PROVE FreshIsEmpty'
  BY <1>5 DEF CallFails, Gone, EraseBuf, store, BInv, TypeOK
<1>6. CASE LoadRefused \/ IoError
  BY <1>5, <1>6 DEF LoadRefused, IoError
<1>7. CASE UNCHANGED vars
  BY <1>7 DEF vars
<1> QED
  BY <1>1, <1>2, <1>3, <1>4, <1>6, <1>7, ReceiverCases
     DEF BInv, Call, Continue, xvars, ivars

\* finalize_fill returns its error to ingest: the buffer is erased.
LEMMA FinalizeFailureClears ==
  ASSUME TypeOK, Call, FinalizeFailed, locked
  PROVE  Cleared
<1>1. op = "finalize" /\ pc # "idle" /\ pc' = "idle" /\ ~filled'
  BY DEF FinalizeFailed, TypeOK
<1>2. LoadRefused \/ IoError
  BY <1>1 DEF Call, Continue, NewDeferred, Reserve, ReserveRejected, Clear, Drop,
     LoadAbsent, LoadAccepted, CreateTmp, WriteTmp, SyncTmp, RenameTmp, CommitFill,
     CommitReserve, Adopt, TypeOK
<1>3. ASSUME NEW r, CallFails(r) PROVE Cleared
  BY <1>1, <1>3 DEF CallFails, EraseBuf, Cleared
<1> QED
  BY <1>2, <1>3 DEF LoadRefused, IoError

\* After every error ingest returns to a store that was deferred and not used
\* before, that store holds no material and is not usable, for any sizes of
\* the pads and whatever power losses do (ingest.rs:33-34).
THEOREM FailedIngestLeavesNothing == XSpec => FreshFailureClears
<1>1. BInv /\ FreshIsEmpty /\ [XNext]_xvars =>
        [Failed /\ locked /\ ~filled => Cleared]_ivars
  <2> SUFFICES ASSUME BInv, FreshIsEmpty, XNext, Failed, locked, ~filled, ~UNCHANGED ivars
      PROVE  Cleared
    BY DEF xvars
  <2>1. ASSUME NEW s \in wire, NEW e \in Assembled(s), Ingest(e) PROVE Cleared
    <3>1. pc = "idle" /\ buf = Zero
      BY <2>1 DEF Ingest, FreshIsEmpty
    <3>2. CASE IngestUnverified(e)
      BY <3>1, <3>2 DEF IngestUnverified, vars, Cleared
    <3>3. CASE IngestUnopened(e) \/ IngestShort(e)
      BY <3>3 DEF IngestUnopened, Clear, EraseBuf, IngestShort, Cleared
    <3>4. CASE IngestExact(e) \/ IngestOverFilled(e)
      BY <3>4 DEF IngestExact, IngestOverFilled, Failed
    <3> QED
      BY <2>1, <3>2, <3>3, <3>4 DEF Ingest
  <2>2. CASE ReceiverCalls
    <3>1. Call /\ FinalizeFailed
      BY <2>2 DEF ReceiverCalls, Calls, Failed
    <3> QED
      BY <3>1, FinalizeFailureClears DEF BInv
  <2>3. CASE GenerateBoxKeypair \/ ReceiverDies \/ SenderStep
    BY <2>3 DEF GenerateBoxKeypair, ReceiverDies, Failed, SenderStep, GenerateSignKeypair,
       ExportReserve, SealPad, SignAndWrap, ExportFails, Abandon, EncodeChunks, SenderCrash
  <2> QED
    BY <2>1, <2>2, <2>3 DEF XNext, ReceiverStep, ReceiverIngests
<1>2. XInit => BInv /\ FreshIsEmpty
  BY BothInit DEF BInv, FreshIsEmpty, XInit, IInit, Init, NoStore
<1> QED
  BY <1>1, <1>2, BStep, FreshStep, PTL DEF XSpec, FreshFailureClears

=============================================================================
