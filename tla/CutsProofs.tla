------------------------------ MODULE CutsProofs ------------------------------
(***************************************************************************)
(* Proof that the chunker cuts a file by its content, for any bytes, sizes,*)
(* fingerprint table, files and reads: the ring that Slide keeps computes  *)
(* the fingerprint that the reference defines by recursion.                *)
(*                                                                         *)
(* That the recursion defines a function needs induction.  It is done with *)
(* sets: the numbers up to which there is such a function would otherwise  *)
(* have a least exception.                                                 *)
(***************************************************************************)
EXTENDS StoredSendProofs, WellFoundedInduction

-----------------------------------------------------------------------------
(* The fingerprint of the reference.                                       *)

\* The byte that leaves the window with the n-th byte after start, and what that byte
\* makes of the fingerprint h.
Leaving(f, start, n) == IF n > WindowSize THEN f[start + n - WindowSize] ELSE 0

Slid(h, f, start, n) ==
  Xor(ShiftRight(Xor(h, Table[Leaving(f, start, n)])), Table[f[start + n]])

\* A set of natural numbers has a least one.
LEMMA LeastNat ==
  ASSUME NEW S \in SUBSET Nat, S # {}
  PROVE  \E n \in S : \A m \in S : n <= m
<1>1. PICK n \in S : \A m \in S : <<m, n>> \notin OpToRel(<, Nat)
  BY NatLessThanWellFounded, WFMin
<1>2. \A m \in S : ~(m < n)
  BY <1>1 DEF OpToRel
<1> QED
  BY <1>2

\* A function that starts with nothing and slides up to n.
LEMMA SlidExists ==
  ASSUME NEW f \in Seq(Byte), NEW start \in 0..Len(f), NEW N \in Nat
  PROVE  \E g : g[0] = {} /\ \A i \in 1..N : g[i] = Slid(g[i - 1], f, start, i)
<1> DEFINE Upto(n, g) == g[0] = {} /\ \A i \in 1..n : g[i] = Slid(g[i - 1], f, start, i)
           Bad == {n \in Nat : ~\E g : Upto(n, g)}
<1> SUFFICES Bad = {}
  OBVIOUS
<1> SUFFICES ASSUME Bad # {} PROVE FALSE
  OBVIOUS
<1>1. PICK n \in Bad : \A m \in Bad : n <= m
  BY LeastNat
<1>2. n # 0
  <2>1. Upto(0, [i \in {0} |-> {}])
    OBVIOUS
  <2> QED
    BY <1>1, <2>1
<1>3. PICK g : Upto(n - 1, g)
  <2>1. n - 1 \in Nat /\ ~(n <= n - 1)
    BY <1>2
  <2>2. n - 1 \notin Bad
    BY <1>1, <2>1
  <2> QED
    BY <2>1, <2>2
<1> DEFINE e == [i \in 0..n |-> IF i = n THEN Slid(g[n - 1], f, start, n) ELSE g[i]]
<1>4. /\ e[0] = g[0] /\ e[n] = Slid(g[n - 1], f, start, n)
      /\ \A i \in 1..n : i - 1 \in 0..(n - 1) /\ e[i - 1] = g[i - 1]
      /\ \A i \in 1..(n - 1) : e[i] = g[i]
  BY <1>2
<1> HIDE DEF e
<1>5. Upto(n, e)
  <2>1. e[0] = {}
    BY <1>3, <1>4
  <2>2. ASSUME NEW i \in 1..n
        PROVE  e[i] = Slid(e[i - 1], f, start, i)
    <3>1. CASE i = n
      BY <1>4, <3>1
    <3>2. CASE i # n
      <4>1. i \in 1..(n - 1)
        BY <3>2
      <4> QED
        BY <1>3, <1>4, <4>1
    <3> QED
      BY <3>1, <3>2
  <2> QED
    BY <2>1, <2>2
<1> QED
  BY <1>5

\* What the recursive definition of Fingerprint defines.
LEMMA FingerprintSlides ==
  ASSUME NEW f \in Seq(Byte), NEW start \in 0..Len(f)
  PROVE  /\ Fingerprint(f, start)[0] = {}
         /\ \A n \in 1..(Len(f) - start) :
              Fingerprint(f, start)[n] = Slid(Fingerprint(f, start)[n - 1], f, start, n)
<1> DEFINE Rest == Len(f) - start
           Body(g, n) == IF n = 0 THEN {}
                         ELSE LET leaving == IF n > WindowSize
                                               THEN f[start + n - WindowSize] ELSE 0
                              IN Xor(ShiftRight(Xor(g[n - 1], Table[leaving])),
                                     Table[f[start + n]])
           Is(g) == g = [n \in 0..Rest |-> Body(g, n)]
           fp == Fingerprint(f, start)
<1>1. Rest \in Nat
  BY LenProperties
<1>2. fp = CHOOSE g : Is(g)
  BY DEF Fingerprint
<1>3. \A g, n : n # 0 => Body(g, n) = Slid(g[n - 1], f, start, n)
  BY DEF Slid, Leaving
<1>4. \A g : Body(g, 0) = {}
  OBVIOUS
<1>5. \E g : Is(g)
  <2>1. PICK g : g[0] = {} /\ \A i \in 1..Rest : g[i] = Slid(g[i - 1], f, start, i)
    BY <1>1, SlidExists
  <2> DEFINE e == [i \in 0..Rest |-> g[i]]
  <2> HIDE DEF Body
  <2>2. ASSUME NEW n \in 0..Rest
        PROVE  e[n] = Body(e, n)
    <3>1. CASE n = 0
      BY <1>1, <1>4, <2>1, <3>1
    <3>2. CASE n # 0
      <4>1. n \in 1..Rest /\ n - 1 \in 0..Rest
        BY <1>1, <3>2
      <4>2. e[n] = g[n] /\ e[n - 1] = g[n - 1]
        BY <4>1
      <4> QED
        BY <1>3, <2>1, <3>2, <4>1, <4>2
    <3> QED
      BY <3>1, <3>2
  <2>3. e = [n \in 0..Rest |-> Body(e, n)]
    BY <2>2
  <2> QED
    BY <2>3
<1> HIDE DEF Body, fp
<1>6. fp = [n \in 0..Rest |-> Body(fp, n)]
  <2> HIDE DEF Is
  <2>1. Is(fp)
    BY <1>2, <1>5
  <2> QED
    BY <2>1 DEF Is
<1>7. fp[0] = {}
  BY <1>1, <1>4, <1>6
<1>8. \A n \in 1..Rest : fp[n] = Slid(fp[n - 1], f, start, n)
  <2> TAKE n \in 1..Rest
  <2>1. n \in 0..Rest /\ n # 0
    BY <1>1
  <2>2. fp[n] = Body(fp, n)
    BY <1>6, <2>1
  <2> QED
    BY <1>3, <2>1, <2>2
<1> QED
  BY <1>7, <1>8 DEF fp

-----------------------------------------------------------------------------
(* The inductive invariant.                                                *)

\* How many bytes ago the slot j of the ring was written; the slot at pos is the oldest.
Age(j) == IF j < hasher.pos THEN hasher.pos - j ELSE hasher.pos - j + WindowSize

\* The ring has the last WindowSize bytes since the cut, and zeros for those before it.
RingInv ==
  \A j \in 0..(WindowSize - 1) :
    hasher.window[j] = IF Age(j) <= scanned THEN file[offset + scanned - Age(j) + 1] ELSE 0

\* The content alone says that a chunk after start may have n bytes.
EndsAt(f, start, n) ==
  n = MaxChunkSize \/ (n >= MinChunkSize /\ Fingerprint(f, start)[n] \cap MaskBits = {})

\* While Next is executed, the hash is the fingerprint of the bytes scanned, and none of
\* them ended a chunk.
ScanInv ==
  inNext => /\ RingInv
            /\ hasher.hash = Fingerprint(file, offset)[scanned]
            /\ \A m \in 1..scanned : ~EndsAt(file, offset, m)

\* The chunks end at the offset.
OffsetInv ==
  offset = IF cuts = <<>> THEN 0 ELSE cuts[Len(cuts)].offset + Len(cuts[Len(cuts)].data)

ContentInv == ScanInv /\ OffsetInv /\ CutsByContent

-----------------------------------------------------------------------------
(* The steps of the chunker.                                               *)

\* The position goes round.
LEMMA Round ==
  ASSUME NEW W \in Nat, W > 0, NEW i \in 0..(W - 1)
  PROVE  (i + 1) % W = IF i + 1 = W THEN 0 ELSE i + 1
<1>1. W % W = 0
  OBVIOUS
<1>2. \A k \in 0..(W - 1) : k % W = k
  OBVIOUS
<1>3. CASE i + 1 = W
  BY <1>1, <1>3
<1>4. CASE i + 1 # W
  <2>1. i + 1 \in 0..(W - 1)
    BY <1>4
  <2> QED
    BY <1>2, <1>4, <2>1
<1> QED
  BY <1>3, <1>4

\* The slot at the position holds the byte that the reference has leave the window.
LEMMA OldestLeaves ==
  ASSUME HasherTypeOK, RingInv, scanned \in Nat, offset \in Nat
  PROVE  hasher.window[hasher.pos] = Leaving(file, offset, scanned + 1)
<1>1. hasher.pos \in 0..(WindowSize - 1) /\ WindowSize \in Nat /\ WindowSize > 0
  BY ChunkerAssumption DEF HasherTypeOK
<1>2. Age(hasher.pos) = WindowSize
  BY <1>1 DEF Age
<1>3. /\ WindowSize <= scanned <=> scanned + 1 > WindowSize
      /\ offset + scanned - WindowSize + 1 = offset + (scanned + 1) - WindowSize
  BY <1>1
<1> QED
  BY <1>1, <1>2, <1>3 DEF RingInv, Leaving

\* Slide drops the oldest byte of the ring and takes the next byte of the file.
LEMMA SlideRing ==
  ASSUME HasherTypeOK, RingInv, scanned \in Nat, offset \in Nat,
         hasher' = Slide(hasher, file[offset + scanned + 1]),
         scanned' = scanned + 1, UNCHANGED <<file, offset>>
  PROVE  RingInv'
<1> DEFINE pos == hasher.pos
<1>1. /\ pos \in 0..(WindowSize - 1) /\ WindowSize \in Nat /\ WindowSize > 0
      /\ hasher.window \in [0..(WindowSize - 1) -> Byte]
  BY ChunkerAssumption DEF HasherTypeOK
<1>2. /\ hasher'.window = [hasher.window EXCEPT ![pos] = file[offset + scanned + 1]]
      /\ hasher'.pos = (pos + 1) % WindowSize
  BY DEF Slide
<1>3. hasher'.pos = IF pos + 1 = WindowSize THEN 0 ELSE pos + 1
  BY <1>1, <1>2, Round
<1>4. ASSUME NEW j \in 0..(WindowSize - 1)
      PROVE  hasher'.window[j] =
               IF Age(j)' <= scanned' THEN file'[offset' + scanned' - Age(j)' + 1] ELSE 0
  <2>1. CASE j = pos
    <3>1. Age(j)' = 1
      BY <1>1, <1>3, <2>1 DEF Age
    <3>2. hasher'.window[j] = file[offset + scanned + 1]
      BY <1>1, <1>2, <2>1
    <3>3. offset + (scanned + 1) - 1 + 1 = offset + scanned + 1 /\ 1 <= scanned + 1
      OBVIOUS
    <3> QED
      BY <3>1, <3>2, <3>3
  <2>2. CASE j # pos
    <3>1. Age(j)' = Age(j) + 1 /\ Age(j) \in Int
      <4>1. Age(j)' = IF j < hasher'.pos THEN hasher'.pos - j ELSE hasher'.pos - j + WindowSize
        BY DEF Age
      <4>2. Age(j) = IF j < pos THEN pos - j ELSE pos - j + WindowSize
        BY DEF Age
      <4> HIDE DEF pos
      <4>3. CASE pos + 1 = WindowSize
        BY <1>1, <1>3, <2>2, <4>1, <4>2, <4>3
      <4>4. CASE pos + 1 # WindowSize
        BY <1>1, <1>3, <2>2, <4>1, <4>2, <4>4
      <4> QED
        BY <4>3, <4>4
    <3>2. hasher'.window[j] = hasher.window[j]
      BY <1>1, <1>2, <2>2
    <3>3. /\ Age(j) + 1 <= scanned + 1 <=> Age(j) <= scanned
          /\ offset + (scanned + 1) - (Age(j) + 1) + 1 = offset + scanned - Age(j) + 1
      BY <3>1
    <3> QED
      BY <3>1, <3>2, <3>3 DEF RingInv
  <2> QED
    BY <2>1, <2>2
<1> QED
  BY <1>4 DEF RingInv

\* The reference cuts at the first end, or takes the rest.
LEMMA CutAtFirst ==
  ASSUME NEW f \in Seq(Byte), NEW start \in 0..Len(f), NEW n \in 1..(Len(f) - start),
         \A m \in 1..(n - 1) : ~EndsAt(f, start, m),
         EndsAt(f, start, n) \/ n = Len(f) - start
  PROVE  CutLength(f, start) = n
<1> DEFINE Ends == {m \in 1..(Len(f) - start) : EndsAt(f, start, m)}
<1>1. CutLength(f, start) = IF Ends = {} THEN Len(f) - start
                                         ELSE CHOOSE m \in Ends : \A l \in Ends : m <= l
  BY DEF CutLength, EndsAt
<1>2. Len(f) \in Nat /\ n \in Nat
  BY LenProperties
<1>3. \A m \in Ends : m \in Nat /\ n <= m
  BY <1>2
<1>4. CASE EndsAt(f, start, n)
  <2>1. n \in Ends
    BY <1>4
  <2>2. \A m \in Ends : (\A l \in Ends : m <= l) => m = n
    BY <1>2, <1>3, <2>1
  <2> HIDE DEF Ends
  <2> QED
    BY <1>1, <1>3, <2>1, <2>2
<1>5. CASE ~EndsAt(f, start, n)
  <2>1. Ends = {}
    BY <1>2, <1>3, <1>5
  <2> QED
    BY <1>1, <1>5, <2>1
<1> QED
  BY <1>4, <1>5

\* A cut where the reference has it continues the chunks of the reference.
LEMMA EmitContent ==
  ASSUME ChunkerInv, ContentInv,
         NEW n \in 1..Len(pending), n = CutLength(file, offset), Emit(n), file' = file
  PROVE  ContentInv'
<1> DEFINE c == [data |-> SubSeq(pending, 1, n), offset |-> offset]
<1>1. /\ file \in Seq(Byte) /\ Len(pending) = readPos - offset
      /\ pending \in Seq(Byte) /\ pending = SubSeq(file, offset + 1, readPos)
      /\ offset \in Nat /\ readPos \in 0..Len(file) /\ cuts \in Seq(Chunk)
      /\ Len(cuts) \in Nat /\ Len(file) \in Nat /\ n \in Nat
  BY PendingLength, LenProperties DEF ChunkerInv, ChunkerTypeOK, PendingInv
<1>2. SubSeq(pending, 1, n) = SubSeq(file, offset + 1, offset + n)
  <2>1. /\ offset + 1 \in 1..Len(file) /\ readPos \in 1..Len(file)
        /\ 1 \in 1..(readPos - (offset + 1) + 1) /\ n \in 1..(readPos - (offset + 1) + 1)
    BY <1>1
  <2>2. SubSeq(SubSeq(file, offset + 1, readPos), 1, n) =
          SubSeq(file, (offset + 1) + 1 - 1, (offset + 1) + n - 1)
    BY <1>1, <2>1, SubSeqOfSubSeq
  <2>3. (offset + 1) + 1 - 1 = offset + 1 /\ (offset + 1) + n - 1 = offset + n
    BY <1>1
  <2> QED
    BY <1>1, <2>2, <2>3
<1>3. Len(SubSeq(pending, 1, n)) = n /\ c \in Chunk
  <2>1. \A i \in 1..n : pending[i] \in Byte
    BY <1>1
  <2>2. SubSeq(pending, 1, n) \in Seq(Byte) /\ Len(SubSeq(pending, 1, n)) = n - 1 + 1
    BY <1>1, <2>1, SubSeqProperties
  <2> QED
    BY <1>1, <2>2 DEF Chunk
<1>4. /\ Len(cuts') = Len(cuts) + 1 /\ cuts'[Len(cuts) + 1] = c
      /\ \A k \in 1..Len(cuts) : cuts'[k] = cuts[k]
  <2>1. cuts' = Append(cuts, c)
    BY DEF Emit
  <2> HIDE DEF c
  <2> QED
    BY <1>1, <1>3, <2>1, AppendProperties
<1>5. offset' = offset + n /\ inNext' = FALSE
  BY DEF Emit
<1>6. OffsetInv'
  <2>1. cuts' # <<>>
    BY <1>1, <1>4
  <2> QED
    BY <1>3, <1>4, <1>5, <2>1 DEF OffsetInv
<1>7. CutsByContent'
  <2> SUFFICES ASSUME NEW k \in 1..Len(cuts')
               PROVE  LET start == cuts'[k].offset
                      IN /\ start = IF k = 1 THEN 0
                                    ELSE cuts'[k - 1].offset + Len(cuts'[k - 1].data)
                         /\ cuts'[k].data =
                              SubSeq(file, start + 1, start + CutLength(file, start))
    BY Zenon DEF CutsByContent
  <2>1. CASE k <= Len(cuts)
    <3>1. k \in 1..Len(cuts) /\ (k # 1 => k - 1 \in 1..Len(cuts))
      BY <1>1, <2>1
    <3> QED
      BY <1>4, <3>1 DEF ContentInv, CutsByContent
  <2>2. CASE k = Len(cuts) + 1
    <3>1. offset = IF k = 1 THEN 0 ELSE cuts'[k - 1].offset + Len(cuts'[k - 1].data)
      <4>1. CASE cuts = <<>>
        BY <1>1, <2>2, <4>1, EmptySeq DEF ContentInv, OffsetInv
      <4>2. CASE cuts # <<>>
        <5>1. Len(cuts) \in 1..Len(cuts) /\ k # 1 /\ k - 1 = Len(cuts)
          BY <1>1, <2>2, <4>2, EmptySeq
        <5> QED
          BY <1>4, <4>2, <5>1 DEF ContentInv, OffsetInv
      <4> QED
        BY <4>1, <4>2
    <3>2. cuts'[k] = c
      BY <1>4, <2>2
    <3>3. /\ cuts'[k].offset = offset
          /\ cuts'[k].data = SubSeq(file, offset + 1, offset + CutLength(file, offset))
      <4>1. c.offset = offset /\ c.data = SubSeq(pending, 1, n)
        OBVIOUS
      <4> HIDE DEF c
      <4> QED
        BY <1>2, <3>2, <4>1
    <3> QED
      BY <3>1, <3>3
  <2> QED
    BY <1>1, <1>4, <2>1, <2>2
<1> QED
  BY <1>5, <1>6, <1>7 DEF ContentInv, ScanInv

\* Every step of Next keeps to the reference.
LEMMA ChunkerContent ==
  ASSUME ChunkerInv, ContentInv,
         ChunkerStep \/ \E n \in 0..ReadBufSize : ReadFails(n)
  PROVE  ContentInv'
<1>1. /\ file \in Seq(Byte) /\ Len(pending) = readPos - offset
      /\ \A i \in 1..Len(pending) : pending[i] = file[offset + i]
      /\ Len(pending) \in Nat /\ scanned \in 0..Len(pending)
      /\ offset \in 0..Len(file) /\ readPos \in 0..Len(file) /\ Len(file) \in Nat
  BY PendingLength, LenProperties DEF ChunkerInv, ChunkerTypeOK
<1>2. /\ HasherTypeOK /\ (inNext => scanned < MaxChunkSize)
      /\ (done => readPos = Len(file))
  BY DEF ChunkerInv, ChunkerTypeOK, HasherTypeOK, PendingInv
<1>3. ScanInv /\ OffsetInv /\ CutsByContent
  BY DEF ContentInv
<1>4. CASE CallNext
  <2>1. /\ scanned' = 0 /\ hasher' = Reset
        /\ UNCHANGED <<file, offset, cuts>>
    BY <1>4 DEF CallNext, srcVars
  <2>2. RingInv'
    <3>1. hasher'.pos = 0 /\ \A j \in 0..(WindowSize - 1) : hasher'.window[j] = 0
      BY <2>1 DEF Reset
    <3>2. \A j \in 0..(WindowSize - 1) : ~(Age(j)' <= scanned')
      BY <2>1, <3>1, ChunkerAssumption DEF Age
    <3> QED
      BY <3>1, <3>2 DEF RingInv
  <2>3. hasher'.hash = Fingerprint(file', offset')[scanned']
    BY <1>1, <2>1, FingerprintSlides DEF Reset
  <2>4. ScanInv'
    BY <2>1, <2>2, <2>3 DEF ScanInv
  <2> QED
    BY <1>3, <2>1, <2>4 DEF ContentInv, OffsetInv, CutsByContent
<1>5. CASE Scan
  <2> DEFINE n == scanned + 1
             h == Slide(hasher, pending[n])
  <2>1. inNext /\ scanned < Len(pending) /\ hasher' = h /\ file' = file
    BY <1>5 DEF Scan, srcVars
  <2>2. /\ n \in 1..Len(pending) /\ n \in 1..(Len(file) - offset) /\ n - 1 = scanned
        /\ n <= MaxChunkSize /\ pending[n] = file[offset + scanned + 1]
    <3>1. n \in 1..Len(pending) /\ offset + n = offset + scanned + 1
      BY <1>1, <2>1
    <3> QED
      BY <1>1, <1>2, <2>1, <3>1, ChunkerAssumption, SMTT(30)
  <2>3. h.hash = Fingerprint(file, offset)[n]
    <3>1. hasher.window[hasher.pos] = Leaving(file, offset, n)
      BY <1>1, <1>2, <1>3, <2>1, OldestLeaves DEF ScanInv
    <3>2. h.hash = Slid(hasher.hash, file, offset, n)
      <4>1. offset + n = offset + scanned + 1
        BY <1>1
      <4> QED
        BY <2>2, <3>1, <4>1 DEF Slide, Slid
    <3> QED
      BY <1>1, <1>3, <2>1, <2>2, <3>2, FingerprintSlides DEF ScanInv
  <2>4. Boundary(n, h.hash) <=> EndsAt(file, offset, n)
    BY <1>1, <2>2, <2>3, ChunkerAssumption DEF Boundary, EndsAt
  <2>5. \A m \in 1..(n - 1) : ~EndsAt(file, offset, m)
    BY <1>3, <2>1, <2>2 DEF ScanInv
  <2>6. CASE Boundary(n, h.hash)
    <3>1. Emit(n)
      BY <1>5, <2>6 DEF Scan
    <3>2. n = CutLength(file, offset)
      BY <1>1, <2>2, <2>4, <2>5, <2>6, CutAtFirst
    <3> QED
      BY <2>1, <2>2, <3>1, <3>2, EmitContent
  <2>7. CASE ~Boundary(n, h.hash)
    <3>1. scanned' = n /\ UNCHANGED <<offset, inNext, cuts>>
      BY <1>5, <2>7 DEF Scan
    <3>2. RingInv'
      BY <1>1, <1>2, <1>3, <2>1, <2>2, <3>1, SlideRing DEF ScanInv
    <3>3. \A m \in 1..n : ~EndsAt(file, offset, m)
      BY <1>1, <2>2, <2>4, <2>5, <2>7
    <3>4. ScanInv'
      BY <2>1, <2>3, <3>1, <3>2, <3>3 DEF ScanInv, EndsAt
    <3> QED
      BY <1>3, <2>1, <3>1, <3>4 DEF ContentInv, OffsetInv, CutsByContent
  <2> QED
    BY <2>6, <2>7
<1>6. CASE Flush
  <2>1. inNext /\ scanned = Len(pending) /\ done /\ file' = file
    BY <1>6 DEF Flush, srcVars
  <2>2. CASE pending # <<>>
    <3> DEFINE n == Len(pending)
    <3>1. Emit(n)
      BY <1>6, <2>2 DEF Flush
    <3>2. n \in 1..(Len(file) - offset) /\ n \in 1..Len(pending) /\ n = Len(file) - offset
      <4>1. pending \in Seq(Byte)
        BY DEF ChunkerInv, ChunkerTypeOK
      <4>2. n # 0
        BY <2>2, <4>1, EmptySeq
      <4> QED
        BY <1>1, <1>2, <2>1, <4>2
    <3>3. \A m \in 1..(n - 1) : ~EndsAt(file, offset, m)
      BY <1>1, <1>3, <2>1 DEF ScanInv
    <3>4. n = CutLength(file, offset)
      BY <1>1, <3>2, <3>3, CutAtFirst
    <3> QED
      BY <2>1, <3>1, <3>2, <3>4, EmitContent
  <2>3. CASE pending = <<>>
    <3>1. inNext' = FALSE /\ UNCHANGED <<offset, cuts>>
      BY <1>6, <2>3 DEF Flush
    <3> QED
      BY <1>3, <2>1, <3>1 DEF ContentInv, ScanInv, OffsetInv, CutsByContent
  <2> QED
    BY <2>2, <2>3
<1>7. ASSUME NEW n \in 0..ReadBufSize, NEW eof \in BOOLEAN, Read(n, eof)
      PROVE  ContentInv'
  BY <1>3, <1>7 DEF Read, ContentInv, ScanInv, RingInv, Age, EndsAt, OffsetInv, CutsByContent
<1>8. ASSUME NEW n \in 0..ReadBufSize, ReadFails(n)
      PROVE  ContentInv'
  BY <1>3, <1>8 DEF ReadFails, ContentInv, ScanInv, OffsetInv, CutsByContent
<1> QED
  BY <1>4, <1>5, <1>6, <1>7, <1>8 DEF ChunkerStep

-----------------------------------------------------------------------------
(* The theorem.                                                            *)

\* Nothing is scanned or cut at first.
LEMMA InitContent == Init => ContentInv
BY DEF Init, ChunkerInit, ContentInv, ScanInv, OffsetInv, CutsByContent

\* Only Next moves the chunker, and a send that is repeated or crashes begins it anew.
LEMMA StepContent == IInv /\ ContentInv /\ [Next]_vars => ContentInv'
<1> SUFFICES ASSUME IInv, ContentInv, [Next]_vars PROVE ContentInv'
  OBVIOUS
<1>1. CASE Cut
  BY <1>1, ChunkerContent DEF Cut, IInv
<1>2. CASE Resend \/ Crash
  <2>1. ChunkerOf(file)
    BY <1>2 DEF Resend, Crash, SendAgain
  <2> QED
    BY <2>1 DEF ChunkerOf, ContentInv, ScanInv, OffsetInv, CutsByContent
<1>3. CASE UNCHANGED chunkerVars
  BY <1>3 DEF chunkerVars, srcVars, ContentInv, ScanInv, RingInv, Age, EndsAt, OffsetInv,
              CutsByContent
<1>4. SkipChunk \/ (\E w \in Writers : Work(w)) \/ UNCHANGED vars => UNCHANGED chunkerVars
  BY DEF SkipChunk, Work, vars, sendVars
<1> QED
  BY <1>1, <1>2, <1>3, <1>4 DEF Next

\* The inductive invariant holds in every behaviour.
THEOREM ContentInvariance == Spec => [](IInv /\ ContentInv)
<1>1. Init => IInv /\ ContentInv
  BY InitIInv, InitContent
<1>2. IInv /\ ContentInv /\ [Next]_vars => (IInv /\ ContentInv)'
  <2> SUFFICES ASSUME IInv, ContentInv, [Next]_vars PROVE IInv' /\ ContentInv'
    OBVIOUS
  <2> QED
    BY StepIInv, StepContent
<1> QED
  BY <1>1, <1>2, PTL DEF Spec

\* However the reads divide a file, and whatever errors come with them, Next cuts it where
\* its content alone says.
THEOREM ContentDecides == Spec => []CutsByContent
<1>1. ContentInv => CutsByContent
  BY DEF ContentInv
<1> QED
  BY <1>1, ContentInvariance, PTL

-----------------------------------------------------------------------------
(* A send that resumes skips what an earlier send has stored.              *)

\* The chunks of a sequence follow one another and are those that content determines.
ByContent(chunks) ==
  \A k \in 1..Len(chunks) :
    LET start == chunks[k].offset
    IN /\ start = IF k = 1 THEN 0 ELSE chunks[k - 1].offset + Len(chunks[k - 1].data)
       /\ chunks[k].data = SubSeq(file, start + 1, start + CutLength(file, start))

\* Two sends cut alike.
Alike == \A k \in 1..Len(cuts) : k <= Len(arrived) => cuts[k] = arrived[k]

\* What arrived was stored.
ArrivedInv ==
  /\ ByContent(arrived)
  /\ \A k \in 1..Len(arrived) : arrived[k].data \in rows

\* The k-th chunk is determined by the chunk before it.
LEMMA SameChunk ==
  ASSUME NEW a \in Seq(Chunk), NEW b \in Seq(Chunk), ByContent(a), ByContent(b),
         NEW k \in 1..Len(a), k \in 1..Len(b), k # 1 => a[k - 1] = b[k - 1]
  PROVE  a[k] = b[k]
<1>1. a[k] \in Chunk /\ b[k] \in Chunk
  BY ElementOfSeq
<1>2. a[k].offset = b[k].offset
  <2>1. /\ a[k].offset = IF k = 1 THEN 0 ELSE a[k - 1].offset + Len(a[k - 1].data)
        /\ b[k].offset = IF k = 1 THEN 0 ELSE b[k - 1].offset + Len(b[k - 1].data)
    BY Zenon DEF ByContent
  <2> QED
    BY <2>1
<1>3. a[k].data = b[k].data
  <2> DEFINE Data(start) == SubSeq(file, start + 1, start + CutLength(file, start))
  <2>1. a[k].data = Data(a[k].offset) /\ b[k].data = Data(b[k].offset)
    BY Zenon DEF ByContent
  <2> QED
    BY <1>2, <2>1
<1>4. \A c \in Chunk : c = [data |-> c.data, offset |-> c.offset]
  BY DEF Chunk
<1> QED
  BY <1>1, <1>2, <1>3, <1>4

\* A step of the chunker adds at most one chunk.
LEMMA OneMore ==
  ASSUME ChunkerInv, ChunkerStep \/ \E n \in 0..ReadBufSize : ReadFails(n)
  PROVE  Len(cuts') <= Len(cuts) + 1
<1>1. cuts \in Seq(Chunk) /\ Len(cuts) \in Nat
  BY LenProperties DEF ChunkerInv, ChunkerTypeOK
<1>2. ASSUME NEW n \in 1..Len(pending), Emit(n)
      PROVE  Len(cuts') = Len(cuts) + 1
  BY <1>1, <1>2 DEF Emit
<1>3. cuts' = cuts \/ \E n \in 1..Len(pending) : Emit(n)
  <2>1. pending \in Seq(Byte) /\ Len(pending) \in Nat /\ scanned \in 0..Len(pending)
    BY LenProperties DEF ChunkerInv, ChunkerTypeOK
  <2>2. CASE Scan
    <3>1. scanned + 1 \in 1..Len(pending)
      BY <2>1, <2>2 DEF Scan
    <3>2. cuts' = cuts \/ Emit(scanned + 1)
      BY <2>2, Zenon DEF Scan
    <3> QED
      BY <3>1, <3>2
  <2>3. CASE Flush
    BY <2>1, <2>3, EmptySeq DEF Flush
  <2> QED
    BY <2>2, <2>3 DEF ChunkerStep, CallNext, Read, ReadFails
<1> QED
  BY <1>1, <1>2, <1>3

\* The chunks in hand stay alike as one more is cut.
LEMMA CutAlike ==
  ASSUME IInv, ContentInv, ContentInv', IInv', ByContent(arrived), Alike, Cut
  PROVE  Alike'
<1>1. /\ cuts \in Seq(Chunk) /\ cuts' \in Seq(Chunk) /\ arrived \in Seq(Chunk)
      /\ Len(cuts) \in Nat /\ Len(cuts') \in Nat /\ Len(arrived) \in Nat
  BY LenProperties DEF IInv, ChunkerInv, ChunkerTypeOK, SendTypeOK
<1>2. /\ file' = file /\ arrived' = arrived
      /\ Len(cuts) <= Len(cuts') /\ Len(cuts') <= Len(cuts) + 1
      /\ \A k \in 1..Len(cuts) : cuts'[k] = cuts[k]
  BY ChunkerSteps, OneMore DEF Cut, IInv
<1>3. ByContent(cuts')
  BY <1>2 DEF ContentInv, CutsByContent, ByContent
<1> SUFFICES ASSUME NEW k \in 1..Len(cuts'), k <= Len(arrived) PROVE cuts'[k] = arrived[k]
  BY <1>2 DEF Alike
<1>4. CASE k <= Len(cuts)
  BY <1>1, <1>2, <1>4 DEF Alike
<1>5. CASE k = Len(cuts) + 1
  <2>1. k # 1 => k - 1 \in 1..Len(cuts) /\ k - 1 <= Len(arrived)
    BY <1>1, <1>5
  <2>2. k # 1 => cuts'[k - 1] = arrived[k - 1]
    BY <2>1, <1>2 DEF Alike
  <2>3. k \in 1..Len(arrived)
    BY <1>1
  <2> QED
    BY <1>1, <1>3, <2>2, <2>3, SameChunk
<1> QED
  BY <1>1, <1>2, <1>4, <1>5

\* Chunks that arrive with a send were stored by it, or had arrived before.
LEMMA ArriveKeeps ==
  ASSUME IInv, ContentInv, ArrivedInv, Alike, SendAgain, UNCHANGED rows, file' = file
  PROVE  ArrivedInv' /\ Alike'
<1>1. /\ cuts \in Seq(Chunk) /\ arrived \in Seq(Chunk) /\ cuts' = <<>>
      /\ Len(cuts) \in Nat /\ Len(arrived) \in Nat
  BY LenProperties DEF IInv, ChunkerInv, ChunkerTypeOK, SendTypeOK, SendAgain, ChunkerOf
<1>2. PICK p \in 0..Len(cuts) : Arrives(p)
  BY DEF SendAgain
<1>3. ASSUME arrived' = arrived PROVE ArrivedInv'
  <2>1. ByContent(arrived)'
    BY <1>3 DEF ArrivedInv, ByContent
  <2>2. \A k \in 1..Len(arrived') : arrived'[k].data \in rows'
    BY <1>3 DEF ArrivedInv
  <2> QED
    BY <2>1, <2>2 DEF ArrivedInv
<1>4. ASSUME Len(arrived') = p, \A k \in 1..p : arrived'[k] = cuts[k] PROVE ArrivedInv'
  <2>1. ByContent(arrived)'
    <3>1. \A k \in 1..p : k \in 1..Len(cuts) /\ (k # 1 => k - 1 \in 1..p)
      BY <1>1
    <3>2. ByContent(cuts)
      BY DEF ContentInv, CutsByContent, ByContent
    <3> QED
      BY <1>4, <3>1, <3>2 DEF ByContent
  <2>2. ASSUME NEW k \in 1..p PROVE cuts[k].data \in rows
    <3>1. CASE k \in stored
      BY <3>1 DEF IInv, JobsInv
    <3>2. CASE k \in 1..skip
      <4>1. k \in 1..Len(cuts) /\ k \in 1..Len(arrived)
        BY <1>1, <3>2 DEF IInv, SendTypeOK
      <4>2. cuts[k] = arrived[k]
        BY <4>1, <1>1 DEF Alike
      <4> QED
        BY <4>1, <4>2 DEF ArrivedInv
    <3> QED
      BY <3>1, <3>2, <1>2 DEF Arrives
  <2>3. \A k \in 1..Len(arrived') : arrived'[k].data \in rows'
    BY <1>4, <2>2
  <2> QED
    BY <2>1, <2>3 DEF ArrivedInv
<1>5. Alike'
  BY <1>1 DEF Alike
<1> QED
  BY <1>1, <1>2, <1>3, <1>4, <1>5, ArriveStep

\* Together with the chunker's invariant, it is inductive.
ResumeInv == IInv /\ ContentInv /\ ArrivedInv /\ Alike

LEMMA StepResume == ResumeInv /\ [Next]_vars => ResumeInv'
<1> SUFFICES ASSUME ResumeInv, [Next]_vars PROVE ResumeInv'
  OBVIOUS
<1> USE DEF ResumeInv
<1>1. IInv' /\ ContentInv' /\ rows \subseteq rows'
  BY StepIInv, StepContent
<1>2. CASE Cut
  <2>1. file' = file /\ arrived' = arrived
    BY <1>2, ChunkerSteps DEF Cut, IInv
  <2>2. ArrivedInv'
    BY <2>1, <1>1 DEF ArrivedInv, ByContent
  <2>3. Alike'
    BY <1>1, <1>2, CutAlike DEF ArrivedInv
  <2> QED
    BY <1>1, <2>2, <2>3
<1>3. CASE Resend \/ Crash
  <2>1. SendAgain /\ rows' = rows /\ file' = file
    BY <1>3 DEF Resend, Crash, Die, SendAgain, ChunkerOf, storeVars, durableVars
  <2> QED
    BY <1>1, <2>1, ArriveKeeps
<1>4. CASE SkipChunk \/ (\E w \in Writers : Work(w)) \/ UNCHANGED vars
  <2>1. cuts' = cuts /\ file' = file /\ arrived' = arrived
    BY <1>4 DEF SkipChunk, Work, vars, sendVars, chunkerVars, srcVars
  <2> QED
    BY <1>1, <2>1 DEF ArrivedInv, ByContent, Alike
<1> QED
  BY <1>2, <1>3, <1>4 DEF Next

\* A send that stored every chunk it did not skip can be read back: the skipped ones were
\* cut alike and stored by an earlier send.
THEOREM ReadsBack == Spec => []SentReadsBack
<1>1. Init => ResumeInv
  <2> SUFFICES ASSUME Init PROVE ResumeInv
    OBVIOUS
  <2>1. Len(arrived) = 0 /\ Len(cuts) = 0
    BY EmptySeq DEF Init, ChunkerInit
  <2> QED
    BY <2>1, InitIInv, InitContent DEF ResumeInv, ArrivedInv, ByContent, Alike
<1>2. ResumeInv => SentReadsBack
  <2> SUFFICES ASSUME ResumeInv, Sent PROVE SentReadsBack
    BY DEF SentReadsBack
  <2> USE DEF ResumeInv, IInv
  <2>1. offset = Len(file)
    <3>1. readPos = Len(file) /\ pending = <<>>
      BY DEF Sent, Drained, ChunkerInv, PendingInv
    <3>2. Len(pending) = readPos - offset
      BY PendingLength
    <3> QED
      BY <3>1, <3>2 DEF ChunkerInv, ChunkerTypeOK
  <2>2. ASSUME NEW k \in 1..Len(cuts) PROVE cuts[k].data \in rows
    <3>1. CASE k > skip
      <4>1. k \in stored
        BY <3>1, LenProperties DEF Sent, SendTypeOK, ChunkerInv, ChunkerTypeOK
      <4> QED
        BY <4>1 DEF JobsInv
    <3>2. CASE k <= skip
      <4>1. k \in 1..Len(arrived) /\ k <= Len(arrived)
        BY <3>2, LenProperties DEF SendTypeOK, ChunkerInv, ChunkerTypeOK
      <4>2. cuts[k] = arrived[k]
        BY <4>1 DEF Alike
      <4> QED
        BY <4>1, <4>2 DEF ArrivedInv
    <3> QED
      BY <3>1, <3>2, LenProperties DEF SendTypeOK, ChunkerInv, ChunkerTypeOK
  <2>3. \A k \in 1..Len(cuts) : cuts[k].data \in rows /\ files[cuts[k].data] = "whole"
    BY <2>2 DEF StoreInv, FilesInv, ListedIsWhole
  <2> QED
    BY <2>1, <2>3 DEF SentReadsBack, ChunkerInv, CutsInv
<1> QED
  BY <1>1, <1>2, StepResume, PTL DEF Spec
=============================================================================
