---------------------------- MODULE ChunkingProofs ----------------------------
(***************************************************************************)
(* What the proofs about the three adapters share: induction over numbers, *)
(* what encode_chunks cuts and assemble() glues, and what a step of the    *)
(* reassembler keeps, for any payloads, sizes and session ids.             *)
(***************************************************************************)
EXTENDS Chunking, FiniteSetTheorems, SequenceTheorems, WellFoundedInduction, TLAPS

(***************************************************************************)
(* Induction, with a set in place of a predicate.                          *)
(***************************************************************************)
LEMMA LeastNumber ==
  ASSUME NEW S \in SUBSET Nat, NEW n \in S
  PROVE  \E m \in S : \A k \in S : m <= k
<1> DEFINE R == OpToRel(<, Nat)
<1>1. IsWellFoundedOn(R, Nat)
  BY NatLessThanWellFounded
<1>2. \A a, b \in Nat : <<a, b>> \in R <=> a < b
  BY DEF OpToRel
<1> HIDE DEF R
<1>3. PICK m \in S : \A k \in S : ~ (<<k, m>> \in R)
  BY <1>1, WFMin
<1>4. \A k \in S : ~(k < m)
  BY <1>2, <1>3
<1> QED
  BY <1>4

LEMMA Induct ==
  ASSUME NEW S, 0 \in S, \A n \in Nat : n \in S => n + 1 \in S
  PROVE  Nat \subseteq S
<1> SUFFICES ASSUME NEW n \in Nat \ S PROVE FALSE
  OBVIOUS
<1>1. PICK m \in Nat \ S : \A k \in Nat \ S : m <= k
  BY LeastNumber
<1>2. m # 0 /\ m - 1 \in Nat /\ m - 1 \in S
  BY <1>1
<1> QED
  BY <1>1, <1>2

(***************************************************************************)
(* encode_chunks                                                           *)
(***************************************************************************)
LEMMA PayloadIsSeq ==
  ASSUME NEW p \in Payload
  PROVE  p \in Seq(Range(p)) /\ Len(p) \in Nat /\ DOMAIN p = 1 .. Len(p)
BY PayloadAssumption, LenProperties

LEMMA Quotient ==
  ASSUME NEW a \in Nat, NEW b \in Nat \ {0}
  PROVE  (a \div b) * b <= a /\ a < (a \div b) * b + b
OBVIOUS

\* There are as many chunks as it takes to hold the payload, and no more,
\* but at least one.
LEMMA ChunkCount ==
  ASSUME NEW p \in Payload
  PROVE  /\ TotalChunks(Len(p)) \in Nat \ {0}
         /\ Len(p) <= TotalChunks(Len(p)) * ChunkSize
         /\ Len(p) = 0 => TotalChunks(Len(p)) = 1
         /\ Len(p) # 0 => (TotalChunks(Len(p)) - 1) * ChunkSize < Len(p)
<1> DEFINE len == Len(p)
           n == TotalChunks(len)
<1>1. len \in Nat /\ ChunkSize \in Nat \ {0}
  BY PayloadIsSeq, ChunkSizeAssumption
<1> HIDE DEF len
<1>2. CASE len = 0
  BY <1>1, <1>2 DEF TotalChunks, len
<1>3. CASE len # 0
  <2>1. n = (len + ChunkSize - 1) \div ChunkSize
    BY <1>3 DEF TotalChunks
  <2>2. len + ChunkSize - 1 \in Nat
    BY <1>1
  <2>3. n \in Nat \ {0}
    BY <1>1, <1>3, <2>1
  <2>4. n * ChunkSize <= len + ChunkSize - 1 /\ len + ChunkSize - 1 < n * ChunkSize + ChunkSize
    BY <1>1, <2>1, <2>2, Quotient
  <2>5. (n - 1) * ChunkSize = n * ChunkSize - ChunkSize /\ n * ChunkSize \in Nat
    BY <1>1, <2>3
  <2> HIDE DEF n
  <2> QED
    BY <1>1, <1>3, <2>3, <2>4, <2>5 DEF n, len
<1> QED
  BY <1>2, <1>3

LEMMA EncodedChunks ==
  ASSUME NEW p \in Payload, NEW id \in Session
  PROVE  /\ EncodeChunks(p, id) \in Seq(Chunk)
         /\ Len(EncodeChunks(p, id)) = TotalChunks(Len(p))
         /\ \A i \in 1 .. TotalChunks(Len(p)) :
              EncodeChunks(p, id)[i] =
                [session |-> id, seq |-> i - 1, total |-> TotalChunks(Len(p)),
                 data |-> Slice(p, i - 1)]
<1> DEFINE n == TotalChunks(Len(p))
           cs == EncodeChunks(p, id)
<1>1. n \in Nat \ {0}
  BY ChunkCount
<1>2. DOMAIN cs = 1 .. n /\ cs = [i \in 1 .. n |-> cs[i]]
  BY DEF EncodeChunks
<1>3. \A i \in 1 .. n : cs[i] \in Chunk
  <2> SUFFICES ASSUME NEW i \in 1 .. n PROVE cs[i] \in Chunk
    OBVIOUS
  <2>1. cs[i] \in Range(cs)
    BY <1>2 DEF Range
  <2> HIDE DEF cs
  <2> QED
    BY <2>1 DEF Chunk, cs
<1>4. cs \in [1 .. n -> Chunk]
  BY <1>2, <1>3
<1>5. cs \in Seq(Chunk)
  BY <1>1, <1>4, SeqDef
<1>6. Len(cs) = n
  BY <1>1, <1>2, <1>5, LenProperties
<1> QED
  BY <1>5, <1>6 DEF EncodeChunks

\* Every chunk is a place in some transmission.
LEMMA ChunkIs ==
  ASSUME NEW p \in Payload, NEW id \in Session, NEW c \in Range(EncodeChunks(p, id))
  PROVE  \E i \in 1 .. TotalChunks(Len(p)) :
           /\ c = EncodeChunks(p, id)[i]
           /\ c = [session |-> id, seq |-> i - 1, total |-> TotalChunks(Len(p)),
                   data |-> Slice(p, i - 1)]
BY DEF EncodeChunks, Range

\* A slice lies within its payload and is no longer than a chunk.
LEMMA SliceIsPiece ==
  ASSUME NEW p \in Payload, NEW k \in Nat
  PROVE  Slice(p, k) \in Piece /\ Len(Slice(p, k)) \in Nat
<1> DEFINE first == k * ChunkSize + 1
           end == (k + 1) * ChunkSize
           final == IF end < Len(p) THEN end ELSE Len(p)
           sl == SubSeq(p, first, final)
           len == IF first <= final THEN final - first + 1 ELSE 0
           Bytes == UNION {Range(q) : q \in Payload}
<1>1. Len(p) \in Nat /\ DOMAIN p = 1 .. Len(p)
  BY PayloadIsSeq
<1>2. k * ChunkSize \in Nat /\ (k + 1) * ChunkSize = k * ChunkSize + ChunkSize
  BY ChunkSizeAssumption
<1>3. Slice(p, k) = sl
  BY DEF Slice
<1>4. /\ first \in Nat \ {0} /\ final \in Nat /\ final <= Len(p)
      /\ len \in 0 .. ChunkSize
  BY <1>1, <1>2, ChunkSizeAssumption
<1> HIDE DEF first, end, final
<1>5. \A j \in first .. final : p[j] \in Bytes
  <2>1. \A j \in first .. final : p[j] \in Range(p)
    BY <1>1, <1>4 DEF Range
  <2> QED
    BY <2>1
<1> HIDE DEF Bytes
<1>6. sl \in Seq(Bytes) /\ Len(sl) = len
  BY <1>4, <1>5, SubSeqProperties
<1>7. sl \in [1 .. len -> Bytes]
  BY <1>6, LenProperties
<1> HIDE DEF sl, len
<1>8. Slice(p, k) \in [1 .. len -> Bytes] /\ Len(Slice(p, k)) = len
  BY <1>3, <1>6, <1>7
<1>9. Piece = UNION {[1 .. j -> Bytes] : j \in 0 .. ChunkSize}
  BY DEF Piece, Bytes
<1> QED
  BY <1>4, <1>8, <1>9

LEMMA ChunkTyped ==
  ASSUME NEW c \in Chunk
  PROVE  /\ c.session \in Session
         /\ c.total \in Nat \ {0} /\ c.seq \in 0 .. c.total - 1
         /\ c.data \in Piece /\ Len(c.data) \in Nat
<1>1. PICK p \in Payload, id \in Session : c \in Range(EncodeChunks(p, id))
  BY DEF Chunk
<1> DEFINE n == TotalChunks(Len(p))
<1>2. n \in Nat \ {0}
  BY ChunkCount
<1>3. PICK i \in 1 .. n : c = [session |-> id, seq |-> i - 1, total |-> n,
                               data |-> Slice(p, i - 1)]
  BY <1>1, ChunkIs
<1> HIDE DEF n
<1>4. i - 1 \in Nat /\ i - 1 \in 0 .. n - 1
  BY <1>2
<1>5. Slice(p, i - 1) \in Piece /\ Len(Slice(p, i - 1)) \in Nat
  BY <1>4, SliceIsPiece
<1> QED
  BY <1>2, <1>3, <1>4, <1>5

(***************************************************************************)
(* assemble                                                                *)
(***************************************************************************)
\* What satisfies the equation by which a row is flattened is what it
\* flattens to.
LEMMA FlattenIs ==
  ASSUME NEW s, NEW n \in Nat \ {0}, Len(s) = n, NEW g,
         \A i \in 1 .. n : g[i] = IF i = 1 THEN s[i] ELSE g[i - 1] \o s[i]
  PROVE  FlattenSeq(s) = g[n]
<1> DEFINE f == CHOOSE f : f = [i \in 1 .. Len(s) |->
                                  IF i = 1 THEN s[i] ELSE f[i - 1] \o s[i]]
           h == [i \in 1 .. n |-> g[i]]
<1>1. FlattenSeq(s) = f[n]
  BY Len(s) # 0 DEF FlattenSeq
<1>2. h = [i \in 1 .. n |-> IF i = 1 THEN s[i] ELSE h[i - 1] \o s[i]]
  <2> SUFFICES ASSUME NEW i \in 1 .. n
               PROVE  g[i] = IF i = 1 THEN s[i] ELSE h[i - 1] \o s[i]
    OBVIOUS
  <2>1. i # 1 => h[i - 1] = g[i - 1]
    OBVIOUS
  <2> QED
    BY <2>1
<1> HIDE DEF h
<1>3. f = [i \in 1 .. n |-> IF i = 1 THEN s[i] ELSE f[i - 1] \o s[i]]
  BY <1>2
<1> HIDE DEF f
<1> DEFINE Agree == {i \in Nat : i \in 1 .. n => f[i] = g[i]}
<1>4. 0 \in Agree
  OBVIOUS
<1>5. ASSUME NEW i \in Nat, i \in Agree PROVE i + 1 \in Agree
  <2> SUFFICES ASSUME i + 1 \in 1 .. n PROVE f[i + 1] = g[i + 1]
    OBVIOUS
  <2>1. f[i + 1] = IF i + 1 = 1 THEN s[i + 1] ELSE f[(i + 1) - 1] \o s[i + 1]
    BY <1>3
  <2>2. g[i + 1] = IF i + 1 = 1 THEN s[i + 1] ELSE g[(i + 1) - 1] \o s[i + 1]
    OBVIOUS
  <2> QED
    BY <1>5, <2>1, <2>2
<1> HIDE DEF Agree
<1>6. n \in Agree
  BY <1>4, <1>5, Induct
<1> QED
  BY <1>1, <1>6 DEF Agree

LEMMA PrefixGrows ==
  ASSUME NEW S, NEW q \in Seq(S), NEW k \in 0 .. Len(q), NEW m \in k .. Len(q)
  PROVE  SubSeq(q, 1, k) \o SubSeq(q, k + 1, m) = SubSeq(q, 1, m)
<1>1. Len(q) \in Nat
  BY LenProperties
<1>2. 1 \in 1 .. Len(q) + 1 /\ k \in 1 - 1 .. Len(q)
  BY <1>1
<1> QED
  BY <1>2, ConcatAdjacentSubSeq

\* The slices of a payload, one after the other, are the payload: whatever
\* its length, nothing is lost or doubled where it is cut.
LEMMA SlicesMakePayload ==
  ASSUME NEW p \in Payload, NEW s, Len(s) = TotalChunks(Len(p)),
         \A i \in 1 .. TotalChunks(Len(p)) : s[i] = Slice(p, i - 1)
  PROVE  FlattenSeq(s) = p
<1> DEFINE n == TotalChunks(Len(p))
           End(i) == IF i * ChunkSize < Len(p) THEN i * ChunkSize ELSE Len(p)
           g == [i \in 1 .. n |-> SubSeq(p, 1, End(i))]
<1>1. /\ p \in Seq(Range(p)) /\ Len(p) \in Nat /\ ChunkSize \in Nat \ {0}
      /\ n \in Nat \ {0} /\ Len(p) <= n * ChunkSize
      /\ Len(p) = 0 => n = 1
      /\ Len(p) # 0 => (n - 1) * ChunkSize < Len(p)
  BY PayloadIsSeq, ChunkCount, ChunkSizeAssumption
<1>2. Len(s) = n /\ \A i \in 1 .. n : s[i] = Slice(p, i - 1)
  OBVIOUS
<1> HIDE DEF n
<1>3. \A i \in 1 .. n : g[i] = SubSeq(p, 1, End(i))
  OBVIOUS
<1>4. End(n) = Len(p)
  BY <1>1
<1> HIDE DEF g
<1>5. ASSUME NEW i \in 1 .. n
      PROVE  g[i] = IF i = 1 THEN s[i] ELSE g[i - 1] \o s[i]
  <2> DEFINE from == (i - 1) * ChunkSize
  <2>1. i * ChunkSize = from + ChunkSize /\ from \in Nat /\ (i - 1) + 1 = i
    BY <1>1
  <2>2. s[i] = SubSeq(p, from + 1, End(i))
    BY <1>2, <2>1 DEF Slice
  <2>3. CASE i = 1
    <3>1. from = 0
      BY <1>1, <2>3
    <3> HIDE DEF from, End
    <3>2. s[i] = SubSeq(p, 1, End(i))
      BY <2>2, <3>1
    <3> QED
      BY <1>3, <2>3, <3>2
  <2>4. CASE i # 1
    <3>1. i - 1 \in 1 .. n /\ n # 1 /\ i - 1 \in Nat /\ n - 1 \in Nat /\ i - 1 <= n - 1
      BY <1>1, <2>4
    <3>2. from <= (n - 1) * ChunkSize /\ (n - 1) * ChunkSize \in Nat
      BY <3>1, <1>1
    <3>3. from < Len(p)
      BY <3>1, <3>2, <2>1, <1>1
    <3>4. End(i - 1) = from
      BY <3>3
    <3>5. End(i) \in from .. Len(p)
      BY <2>1, <3>3, <1>1
    <3> HIDE DEF End, from
    <3>6. from \in 0 .. Len(p)
      BY <3>3, <2>1, <1>1
    <3>7. SubSeq(p, 1, from) \o SubSeq(p, from + 1, End(i)) = SubSeq(p, 1, End(i))
      BY <3>5, <3>6, <1>1, PrefixGrows
    <3>8. g[i - 1] = SubSeq(p, 1, from)
      BY <1>3, <3>1, <3>4
    <3> QED
      BY <1>3, <2>2, <2>4, <3>7, <3>8
  <2> QED
    BY <2>3, <2>4
<1> HIDE DEF End
<1>6. g[n] = p
  <2>1. n \in 1 .. n
    BY <1>1
  <2>2. SubSeq(p, 1, Len(p)) = p
    BY <1>1, SubSeqFull
  <2> QED
    BY <1>3, <1>4, <2>1, <2>2
<1>7. n \in Nat \ {0} /\ Len(s) = n
  BY <1>1, <1>2
<1>8. FlattenSeq(s) = g[n]
  BY <1>5, <1>7, FlattenIs
<1> QED
  BY <1>6, <1>8

\* The data of the chunks that encode_chunks makes of a payload, one after
\* the other, are the payload, for every payload and chunk size: none of it is
\* lost, doubled or moved where it is cut, nor by rounding the count.
THEOREM EncodedIsWhole ==
  ASSUME NEW p \in Payload, NEW id \in Session
  PROVE  LET cs == EncodeChunks(p, id)
         IN  FlattenSeq([i \in 1 .. Len(cs) |-> cs[i].data]) = p
<1> DEFINE n == TotalChunks(Len(p))
           cs == EncodeChunks(p, id)
           data == [i \in 1 .. Len(cs) |-> cs[i].data]
<1>1. n \in Nat \ {0}
  BY ChunkCount
<1>2. /\ DOMAIN cs = 1 .. n
      /\ \A i \in 1 .. n : cs[i].data = Slice(p, i - 1)
  BY DEF EncodeChunks
<1>3. Len(cs) = n
  BY <1>1, <1>2, EncodedChunks, LenProperties
<1> HIDE DEF n, cs
<1>4. Len(data) = n
  <2>1. data \in Seq(Range(data)) /\ DOMAIN data = 1 .. n
    BY <1>1, <1>3, SeqDef DEF Range
  <2> QED
    BY <1>1, <2>1, LenProperties
<1>5. \A i \in 1 .. n : data[i] = Slice(p, i - 1)
  BY <1>2, <1>3
<1> HIDE DEF data
<1>6. FlattenSeq(data) = p
  BY <1>4, <1>5, SlicesMakePayload DEF n
<1> QED
  BY <1>6 DEF data, cs

(***************************************************************************)
(* The reassembler.  TypeOK is not inductive: that the slots filled are    *)
(* those below next survives the first chunk only because a new            *)
(* reassembler has no slots.  And what the slots hold are the slices of    *)
(* transmissions that cannot be told from the one followed, each at its    *)
(* place.                                                                  *)
(***************************************************************************)
IsSent(c) == \E t \in sent : c \in Range(EncodeChunks(t[2], t[1]))
SentChunk == {c \in Chunk : IsSent(c)}

Sourced ==
  \A i \in 1 .. next : \E t \in Followed : received[i] = Slice(t[2], i - 1)

RInv ==
  /\ TypeOK
  /\ session = None => received = << >>
  /\ IsFiniteSet(sent) /\ Sourced

\* A new reassembler takes the place of the old one.
Renewed ==
  /\ session' = None /\ total' = None /\ received' = << >> /\ next' = 0
  /\ last' = "none"
  /\ UNCHANGED sent

LEMMA NewIsTyped ==
  ASSUME session = None, total = None, received = << >>, next = 0, last = "none",
         sent \subseteq Session \X Payload, IsFiniteSet(sent)
  PROVE  RInv
<1>1. received \in Seq(Piece \cup {None}) /\ Len(received) = 0 /\ DOMAIN received = {}
  BY EmptySeq
<1> QED
  BY <1>1 DEF RInv, TypeOK, Sourced

LEMMA RInit == Init => RInv
BY NewIsTyped, FS_EmptySet DEF Init

LEMMA RenewKeepsRInv == RInv /\ Renewed => RInv'
<1> SUFFICES ASSUME RInv, Renewed PROVE RInv'
  OBVIOUS
<1>1. received' \in Seq(Piece \cup {None}) /\ Len(received') = 0 /\ DOMAIN received' = {}
  BY EmptySeq DEF Renewed
<1> QED
  BY <1>1 DEF Renewed, RInv, TypeOK, Sourced

LEMMA StillKeepsRInv == RInv /\ UNCHANGED vars => RInv'
BY DEF vars, reassembler, RInv, TypeOK, Sourced, Followed

LEMMA RejectKeepsRInv ==
  ASSUME RInv, NEW error \in {"Corrupt", "SequenceViolation"}, Reject(error)
  PROVE  RInv'
BY DEF Reject, reassembler, RInv, TypeOK, Sourced, Followed

\* What was sent stays sent.
LEMMA SentStays ==
  ASSUME sent \subseteq sent'
  PROVE  SentChunk \subseteq SentChunk'
BY DEF SentChunk, IsSent

LEMMA TransmitKeepsRInv ==
  ASSUME RInv, NEW p \in Payload, NEW id \in Session, Transmit(p, id)
  PROVE  /\ RInv'
         /\ SentChunk \subseteq SentChunk' /\ EncodeChunks(p, id) \in Seq(SentChunk')
<1>1. /\ sent' = sent \cup {<<id, p>>} /\ last' = last
      /\ session' = session /\ total' = total /\ received' = received /\ next' = next
  BY DEF Transmit, reassembler
<1>2. TypeOK' /\ (session' = None => received' = << >>)
  BY <1>1 DEF RInv, TypeOK
<1>3. IsFiniteSet(sent')
  BY <1>1, FS_AddElement DEF RInv
<1>4. Sourced'
  BY <1>1 DEF RInv, Sourced, Followed
<1>5. SentChunk \subseteq SentChunk'
  BY <1>1, SentStays
<1>6. EncodeChunks(p, id) \in Seq(SentChunk')
  <2> DEFINE cs == EncodeChunks(p, id)
  <2>1. cs \in Seq(Chunk)
    BY EncodedChunks
  <2>2. <<id, p>> \in sent' /\ <<id, p>>[1] = id /\ <<id, p>>[2] = p
    BY <1>1
  <2>3. Range(cs) \subseteq SentChunk'
    <3>1. Range(cs) \subseteq Chunk
      BY DEF Chunk
    <3> QED
      BY <2>2, <3>1 DEF SentChunk, IsSent
  <2> HIDE DEF cs
  <2>4. \A i \in 1 .. Len(cs) : cs[i] \in SentChunk'
    BY <2>1, <2>3, LenProperties DEF Range
  <2>5. cs \in Seq(SentChunk')
    BY <2>1, <2>4, IsASeq, LenProperties
  <2> QED
    BY <2>5 DEF cs
<1> QED
  BY <1>2, <1>3, <1>4, <1>5, <1>6 DEF RInv

\* Where a chunk that was sent belongs.
LEMMA SentSlice ==
  ASSUME RInv, NEW c \in SentChunk
  PROVE  \E t \in sent :
           /\ t[1] = c.session /\ TotalChunks(Len(t[2])) = c.total
           /\ c.data = Slice(t[2], c.seq)
<1>1. PICK t \in sent : c \in Range(EncodeChunks(t[2], t[1]))
  BY DEF SentChunk, IsSent
<1>2. t[2] \in Payload /\ t[1] \in Session
  BY DEF RInv, TypeOK
<1>3. PICK i \in 1 .. TotalChunks(Len(t[2])) :
        c = [session |-> t[1], seq |-> i - 1, total |-> TotalChunks(Len(t[2])),
             data |-> Slice(t[2], i - 1)]
  BY <1>1, <1>2, ChunkIs
<1> QED
  BY <1>3

LEMMA IngestKeepsRInv ==
  ASSUME RInv, NEW c \in SentChunk, Ingest(c)
  PROVE  RInv'
<1>1. /\ c.session \in Session /\ c.session # None
      /\ c.total \in Nat \ {0} /\ c.total # None /\ c.seq \in 0 .. c.total - 1
      /\ c.data \in Piece /\ c.data # None
  BY ChunkTyped, NoneAssumption DEF SentChunk
<1>2. CASE IngestOutOfBound(c) \/ IngestForeign(c)
  BY <1>2, RejectKeepsRInv DEF IngestOutOfBound, IngestForeign
<1>3. ASSUME ~OutOfBound(c), ~Foreign(c)
      PROVE  /\ Slots(c) \in Seq(Piece \cup {None}) /\ Len(Slots(c)) = c.total
             /\ DOMAIN Slots(c) = 1 .. c.total
             /\ c.total \in 1 .. MaxTotal
             /\ next \in 0 .. c.total
             /\ \A i \in 1 .. c.total : Slots(c)[i] # None <=> i <= next
             /\ \A i \in 1 .. next : Slots(c)[i] = received[i]
             /\ session # None => c.session = session /\ c.total = total
             /\ session = None => next = 0
  <2>1. c.total \in 1 .. MaxTotal
    BY <1>1, <1>3, MaxTotalAssumption DEF OutOfBound
  <2>2. CASE session = None
    <3>1. next = 0
      BY <2>2, EmptySeq DEF RInv, TypeOK
    <3>2. Slots(c) = [i \in 1 .. c.total |-> None]
      BY <2>2 DEF Slots
    <3>3. Slots(c) \in [1 .. c.total -> Piece \cup {None}]
      BY <3>2
    <3>4. Slots(c) \in Seq(Piece \cup {None}) /\ Len(Slots(c)) = c.total
      BY <1>1, <3>3, SeqDef, LenProperties
    <3> QED
      BY <1>1, <2>1, <2>2, <3>1, <3>2, <3>4
  <2>3. CASE session # None
    <3>1. Slots(c) = received /\ c.session = session /\ c.total = total
      BY <1>3, <2>3 DEF Slots, Foreign
    <3>2. Len(received) = c.total /\ received \in Seq(Piece \cup {None})
      BY <1>1, <3>1 DEF RInv, TypeOK
    <3>3. DOMAIN received = 1 .. c.total
      BY <3>2, LenProperties
    <3> QED
      BY <2>1, <2>3, <3>1, <3>2, <3>3 DEF RInv, TypeOK
  <2> QED
    BY <2>2, <2>3
<1>4. ASSUME ~OutOfBound(c), ~Foreign(c), Follow(c), UNCHANGED sent
      PROVE  /\ \A i \in 1 .. next : \E t \in Followed' : received[i] = Slice(t[2], i - 1)
             /\ \E t \in Followed' : c.data = Slice(t[2], c.seq)
  <2>1. session' = c.session /\ total' = c.total /\ sent' = sent
    BY <1>4 DEF Follow
  <2>2. ASSUME NEW i \in 1 .. next
        PROVE  \E t \in Followed' : received[i] = Slice(t[2], i - 1)
    <3>1. session # None /\ c.session = session /\ c.total = total
      BY <1>3, <1>4, <2>2
    <3>2. Followed' = Followed
      BY <2>1, <3>1 DEF Followed
    <3> QED
      BY <3>2 DEF RInv, Sourced
  <2>3. \E t \in Followed' : c.data = Slice(t[2], c.seq)
    BY <2>1, SentSlice DEF Followed
  <2> QED
    BY <2>2, <2>3
<1>5. CASE IngestOutOfOrder(c)
  <2>1. /\ ~OutOfBound(c) /\ ~Foreign(c) /\ Follow(c) /\ received' = Slots(c)
        /\ last' = "SequenceViolation" /\ sent' = sent /\ next' = next
    BY <1>5 DEF IngestOutOfOrder
  <2>2. Sourced'
    BY <1>3, <1>4, <2>1 DEF Sourced
  <2>3. TypeOK'
    BY <1>1, <1>3, <2>1 DEF Follow, RInv, TypeOK
  <2> QED
    BY <1>1, <2>1, <2>2, <2>3 DEF RInv, Follow
<1>6. CASE IngestNext(c)
  <2>1. /\ ~OutOfBound(c) /\ ~Foreign(c) /\ c.seq = next /\ Follow(c)
        /\ received' = [Slots(c) EXCEPT ![c.seq + 1] = c.data]
        /\ next' = next + 1 /\ last' \in {"more", "complete"} /\ sent' = sent
    BY <1>6 DEF IngestNext
  <2>2. c.seq + 1 \in 1 .. c.total /\ next + 1 \in 0 .. c.total
    BY <1>1, <2>1
  <2>3. received' \in Seq(Piece \cup {None}) /\ Len(received') = c.total
    BY <1>1, <1>3, <2>1, <2>2, ExceptSeq
  <2>4. /\ DOMAIN received' = 1 .. c.total
        /\ \A i \in 1 .. c.total :
             received'[i] = IF i = next + 1 THEN c.data ELSE Slots(c)[i]
    BY <1>3, <2>1
  <2>5. \A i \in 1 .. c.total : received'[i] # None <=> i <= next'
    BY <1>1, <1>3, <2>1, <2>4
  <2>6. Sourced'
    <3> SUFFICES ASSUME NEW i \in 1 .. next'
                 PROVE  \E t \in Followed' : received'[i] = Slice(t[2], i - 1)
      BY DEF Sourced
    <3>1. i \in 1 .. c.total /\ next \in Nat
      BY <1>3, <2>1, <2>2
    <3>2. CASE i = next + 1
      <4>1. i - 1 = c.seq /\ received'[i] = c.data
        BY <2>1, <2>4, <3>1, <3>2
      <4> QED
        BY <1>4, <2>1, <4>1
    <3>3. CASE i # next + 1
      <4>1. i \in 1 .. next /\ received'[i] = received[i]
        BY <1>3, <2>1, <2>4, <3>1, <3>3
      <4> QED
        BY <1>4, <2>1, <4>1
    <3> QED
      BY <3>2, <3>3
  <2>7. TypeOK'
    BY <1>1, <1>3, <2>1, <2>2, <2>3, <2>4, <2>5 DEF Follow, RInv, TypeOK
  <2> QED
    BY <1>1, <2>1, <2>6, <2>7 DEF RInv, Follow
<1> QED
  BY <1>2, <1>5, <1>6 DEF Ingest

LEMMA ChangedKeepsRInv == RInv /\ IngestChanged => RInv'
BY RejectKeepsRInv DEF IngestChanged

\* What a complete reassembler assembles was sent under the id it follows,
\* unless there are two transmissions it cannot tell apart.
LEMMA AssembledIsSent == RInv => AssembledWasSent
<1> SUFFICES ASSUME RInv, Complete, Cardinality(Followed) <= 1
             PROVE  <<session, Assembled>> \in sent
  BY DEF AssembledWasSent
<1>1. total \in 1 .. MaxTotal /\ next = total /\ Len(received) = total
  BY DEF RInv, TypeOK, Complete
<1>2. IsFiniteSet(Followed)
  BY FS_Subset DEF RInv, Followed
<1>3. PICK t \in Followed : received[1] = Slice(t[2], 1 - 1)
  BY <1>1, MaxTotalAssumption DEF RInv, Sourced
<1>4. \A u \in Followed : u = t
  <2>1. Cardinality(Followed) \in Nat
    BY <1>2, FS_CardinalityType
  <2>2. Cardinality(Followed) # 0
    BY <1>2, <1>3, FS_EmptySet
  <2>3. Cardinality(Followed) = 1
    BY <2>1, <2>2
  <2>4. PICK u : Followed = {u}
    BY <1>2, <2>3, FS_Singleton
  <2> QED
    BY <1>3, <2>4
<1>5. /\ t \in sent /\ t[1] = session /\ TotalChunks(Len(t[2])) = total
      /\ t = <<t[1], t[2]>> /\ t[2] \in Payload
  BY <1>3 DEF Followed, RInv, TypeOK
<1>6. \A i \in 1 .. total : received[i] = Slice(t[2], i - 1)
  BY <1>1, <1>4 DEF RInv, Sourced
<1>7. Assembled = t[2]
  BY <1>1, <1>5, <1>6, SlicesMakePayload DEF Assembled
<1> QED
  BY <1>5, <1>7
===============================================================================
