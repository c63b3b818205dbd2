--------------------------- MODULE StoredSendProofs ---------------------------
(***************************************************************************)
(* Proofs about StoredSend, for any bytes, sizes, fingerprint and files,   *)
(* any number of writers and any bounds on errors and repetitions.         *)
(***************************************************************************)
EXTENDS StoredSend, SequenceTheorems, TLAPS

-----------------------------------------------------------------------------
(* The chunker.                                                            *)

\* The pending bytes are those read and not yet cut; a round of the scanning loop
\* begins below the largest size, so no chunk exceeds it.
PendingInv ==
  /\ offset <= readPos
  /\ pending = SubSeq(file, offset + 1, readPos)
  /\ inNext => scanned < MaxChunkSize
  /\ done => readPos = Len(file)

\* Every byte before the offset is in a chunk that was cut.
CutsInv ==
  /\ \A k \in 1..Len(cuts) : cuts[k].data \in ChunkData
  /\ \A i \in 1..offset : \E k \in 1..Len(cuts) :
       LET at == i - cuts[k].offset
       IN at \in 1..Len(cuts[k].data) /\ cuts[k].data[at] = file[i]

HasherTypeOK ==
  hasher \in [window : [0..(WindowSize - 1) -> Byte], pos : 0..(WindowSize - 1),
             hash : SUBSET Nat]

ChunkerInv == ChunkerTypeOK /\ PendingInv /\ CutsInv

-----------------------------------------------------------------------------
(* The chunk store.                                                        *)

\* A final file is never written in place, and a row is written after its file.
FilesInv ==
  /\ \A h \in Hashes : files[h] # "part"
  /\ ListedIsWhole

\* A writer past Rename finds the file; what it returned nil for is listed.
WritersInv ==
  \A w \in Writers :
    /\ wpc[w] # "idle" => whash[w] \in Hashes
    /\ wpc[w] = "upsert" => files[whash[w]] = "whole"
    /\ wpc[w] = "stored" => whash[w] \in rows

\* A temporary file belongs to a writer between CreateTemp and Rename, or to a process
\* that has ended.
TempsInv ==
  \A t \in temps :
    /\ t.by \in Writers => /\ t.hash = whash[t.by]
                           /\ wpc[t.by] \in {"write", "close", "rename"}
                           /\ wpc[t.by] # "write" => t.content = "whole"
    /\ t.by = "dead" => died

StoreInv == StoreTypeOK /\ FilesInv /\ WritersInv /\ TempsInv

-----------------------------------------------------------------------------
(* The send.                                                               *)

\* A writer stores the chunk it was given, and stored chunks are listed.
JobsInv ==
  /\ \A w \in Writers :
       wpc[w] # "idle" => job[w] \in 1..Len(cuts) /\ whash[w] = cuts[job[w]].data
  /\ \A k \in stored : cuts[k].data \in rows

SendTypeOK ==
  /\ taken \in 0..Len(cuts)
  /\ job \in [Writers -> 0..Len(cuts)]
  /\ stored \subseteq 1..Len(cuts)
  /\ failed \in BOOLEAN /\ died \in BOOLEAN
  /\ sends \in 0..SendBound
  /\ arrived \in Seq(Chunk) /\ skip \in 0..Len(arrived)

\* The inductive invariant.
IInv == ChunkerInv /\ StoreInv /\ SendTypeOK /\ JobsInv

-----------------------------------------------------------------------------
(* The chunker keeps its invariant.                                        *)

\* A sequence of at most MaxChunkSize bytes, and not none, may be a chunk.
LEMMA ShortIsChunk ==
  ASSUME NEW s \in Seq(Byte), Len(s) \in 1..MaxChunkSize
  PROVE  s \in ChunkData
BY LenProperties DEF ChunkData

\* The pending bytes fill the file from the offset to where it was read.
LEMMA PendingLength ==
  ASSUME ChunkerInv
  PROVE  /\ file \in Seq(Byte)
         /\ Len(pending) = readPos - offset
         /\ \A i \in 1..Len(pending) : pending[i] = file[offset + i]
<1> USE DEF ChunkerInv, ChunkerTypeOK, PendingInv
<1>1. file \in Seq(Byte)
  BY ChunkerAssumption
<1>2. \A i \in (offset + 1)..readPos : file[i] \in Byte
  BY <1>1
<1>3. /\ Len(SubSeq(file, offset + 1, readPos)) =
           IF offset + 1 <= readPos THEN readPos - (offset + 1) + 1 ELSE 0
      /\ \A i \in 1..(readPos - (offset + 1) + 1) :
           SubSeq(file, offset + 1, readPos)[i] = file[offset + 1 + i - 1]
  BY <1>2, SubSeqProperties, offset + 1 \in Int, readPos \in Int
<1> QED
  BY <1>1, <1>3

\* Emit cuts the first n pending bytes and keeps the rest.
LEMMA EmitKeeps ==
  ASSUME ChunkerInv,
         NEW n \in 1..Len(pending), n <= MaxChunkSize,
         Emit(n), UNCHANGED <<file, readPos, done>>,
         HasherTypeOK'
  PROVE  /\ ChunkerInv'
         /\ Len(cuts') = Len(cuts) + 1
         /\ \A k \in 1..Len(cuts) : cuts'[k] = cuts[k]
<1> DEFINE c == [data |-> SubSeq(pending, 1, n), offset |-> offset]
<1>1. /\ file \in Seq(Byte)
      /\ Len(pending) = readPos - offset
      /\ \A i \in 1..Len(pending) : pending[i] = file[offset + i]
  BY PendingLength
<1> USE DEF ChunkerInv, ChunkerTypeOK
<1>2. /\ offset \in Nat /\ readPos \in Nat /\ offset + n <= readPos
      /\ n \in Nat /\ pending \in Seq(Byte)
  BY <1>1
<1>3. /\ SubSeq(pending, 1, n) \in Seq(Byte)
      /\ Len(SubSeq(pending, 1, n)) = n
      /\ \A i \in 1..n : SubSeq(pending, 1, n)[i] = file[offset + i]
  <2>1. \A i \in 1..n : pending[i] \in Byte
    BY <1>2
  <2>2. /\ SubSeq(pending, 1, n) \in Seq(Byte)
        /\ Len(SubSeq(pending, 1, n)) = IF 1 <= n THEN n - 1 + 1 ELSE 0
        /\ \A i \in 1..(n - 1 + 1) : SubSeq(pending, 1, n)[i] = pending[1 + i - 1]
    BY <2>1, <1>2, SubSeqProperties
  <2> QED
    BY <1>1, <1>2, <2>2, SMTT(30)
<1>4. /\ cuts' = Append(cuts, c) /\ cuts' \in Seq(Chunk)
      /\ Len(cuts') = Len(cuts) + 1
      /\ \A k \in 1..Len(cuts) : cuts'[k] = cuts[k]
      /\ cuts'[Len(cuts) + 1] = c
  BY <1>2, <1>3 DEF Emit, Chunk
<1>5. /\ pending' = SubSeq(file, offset + n + 1, readPos)
      /\ pending' \in Seq(Byte)
  <2>1. CASE n = Len(pending)
    BY <2>1, <1>1, <1>2, SubSeqEmpty DEF Emit
  <2>2. CASE n < Len(pending)
    <3>1. pending = SubSeq(file, offset + 1, readPos)
      BY DEF PendingInv
    <3>2. SubSeq(SubSeq(file, offset + 1, readPos), n + 1, Len(pending))
            = SubSeq(file, (offset + 1) + (n + 1) - 1, (offset + 1) + Len(pending) - 1)
      BY <1>1, <1>2, <2>2, SubSeqOfSubSeq
    <3>3. pending' = SubSeq(file, offset + n + 1, readPos)
      BY <3>1, <3>2, <1>1, <1>2 DEF Emit
    <3>4. \A i \in (n + 1)..Len(pending) : pending[i] \in Byte
      BY <1>2
    <3>5. SubSeq(pending, n + 1, Len(pending)) \in Seq(Byte)
      BY <3>4, <1>2, SubSeqProperties
    <3> QED
      BY <3>3, <3>5 DEF Emit
  <2> QED
    BY <2>1, <2>2
<1>6. PendingInv'
  BY <1>2, <1>5 DEF Emit, PendingInv
<1>7. ChunkerTypeOK'
  <2>1. offset' \in 0..Len(file') /\ scanned' \in 0..Len(pending')
    BY <1>1, <1>2, <1>5, LenProperties DEF Emit
  <2> QED
    BY <2>1, <1>4, <1>5 DEF Emit, HasherTypeOK
<1>8. CutsInv'
  <2>1. \A k \in 1..Len(cuts') : cuts'[k].data \in ChunkData
    <3>1. Len(SubSeq(pending, 1, n)) \in 1..MaxChunkSize
      BY <1>2, <1>3, ChunkerAssumption
    <3>2. c.data \in ChunkData
      BY <3>1, <1>3, ShortIsChunk
    <3> QED
      BY <3>2, <1>4 DEF CutsInv
  <2>2. ASSUME NEW i \in 1..(offset + n)
        PROVE  \E k \in 1..Len(cuts') :
                 LET at == i - cuts'[k].offset
                 IN at \in 1..Len(cuts'[k].data) /\ cuts'[k].data[at] = file[i]
    <3>1. CASE i <= offset
      BY <3>1, <1>2, <1>4 DEF CutsInv
    <3>2. CASE i > offset
      <4>1. /\ i - offset \in 1..n /\ SubSeq(pending, 1, n)[i - offset] = file[i]
        BY <3>2, <1>2, <1>3
      <4>2. Len(cuts) + 1 \in 1..Len(cuts')
        BY <1>4
      <4>3. LET at == i - c.offset
            IN at \in 1..Len(c.data) /\ c.data[at] = file[i]
        BY <4>1, <1>3
      <4> HIDE DEF c
      <4> QED
        BY <4>2, <4>3, <1>4
    <3> QED
      BY <3>1, <3>2, <1>2
  <2> QED
    BY <2>1, <2>2 DEF CutsInv, Emit
<1> QED
  BY <1>4, <1>6, <1>7, <1>8

\* The bytes of a read follow those that were pending.
LEMMA TakeKeeps ==
  ASSUME ChunkerInv, NEW n \in 0..ReadBufSize, Take(n)
  PROVE  /\ readPos' \in 0..Len(file) /\ readPos <= readPos'
         /\ offset <= readPos'
         /\ pending' = SubSeq(file, offset + 1, readPos')
         /\ pending' \in Seq(Byte) /\ Len(pending') \in Nat
         /\ Len(pending) <= Len(pending')
<1>1. /\ file \in Seq(Byte) /\ Len(file) \in Nat /\ n \in Nat
      /\ offset \in Nat /\ readPos \in Nat /\ readPos + n <= Len(file)
      /\ offset <= readPos /\ pending \in Seq(Byte)
  BY PendingLength, LenProperties, ChunkerAssumption
     DEF ChunkerInv, ChunkerTypeOK, PendingInv, Take
<1>2. readPos' = readPos + n
  BY DEF Take
<1>3. SubSeq(file, offset + 1, readPos) \o SubSeq(file, readPos + 1, readPos + n)
        = SubSeq(file, offset + 1, readPos + n)
  BY <1>1, ConcatAdjacentSubSeq, offset + 1 \in 1..Len(file) + 1,
     readPos \in (offset + 1) - 1..Len(file), readPos + n \in readPos..Len(file)
<1>4. pending' = SubSeq(file, offset + 1, readPos')
  BY <1>2, <1>3 DEF Take, ChunkerInv, PendingInv
<1>5. SubSeq(file, readPos + 1, readPos + n) \in Seq(Byte)
  <2>1. \A i \in (readPos + 1)..(readPos + n) : file[i] \in Byte
    BY <1>1
  <2> QED
    BY <2>1, <1>1, SubSeqProperties
<1>6. /\ pending' \in Seq(Byte) /\ Len(pending') \in Nat
      /\ Len(pending) <= Len(pending')
  BY <1>1, <1>5, ConcatProperties, LenProperties DEF Take
<1> QED
  BY <1>1, <1>2, <1>4, <1>6

\* Slide keeps the hasher to its types.
LEMMA SlideType ==
  ASSUME HasherTypeOK, NEW b \in Byte
  PROVE  Slide(hasher, b) \in [window : [0..(WindowSize - 1) -> Byte],
                               pos : 0..(WindowSize - 1), hash : SUBSET Nat]
<1> USE ChunkerAssumption DEF HasherTypeOK
<1>1. [hasher.window EXCEPT ![hasher.pos] = b] \in [0..(WindowSize - 1) -> Byte]
  OBVIOUS
<1>2. (hasher.pos + 1) % WindowSize \in 0..(WindowSize - 1)
  OBVIOUS
<1>3. \A h \in SUBSET Nat : ShiftRight(h) \in SUBSET Nat
  BY DEF ShiftRight
<1>4. \A a, c \in SUBSET Nat : Xor(a, c) \in SUBSET Nat
  BY DEF Xor
<1>5. /\ hasher.window[hasher.pos] \in Byte
      /\ Table[hasher.window[hasher.pos]] \in SUBSET Nat /\ Table[b] \in SUBSET Nat
      /\ hasher.hash \in SUBSET Nat
  OBVIOUS
<1>6. Xor(ShiftRight(Xor(hasher.hash, Table[hasher.window[hasher.pos]])), Table[b])
        \in SUBSET Nat
  BY <1>3, <1>4, <1>5
<1> QED
  BY <1>1, <1>2, <1>6 DEF Slide

\* Every step of the chunker, errors of the source among them, keeps its invariant and
\* the chunks that were cut.
LEMMA ChunkerSteps ==
  ASSUME ChunkerInv,
         ChunkerStep \/ \E n \in 0..ReadBufSize : ReadFails(n)
  PROVE  /\ ChunkerInv'
         /\ file' = file
         /\ Len(cuts) <= Len(cuts')
         /\ \A k \in 1..Len(cuts) : cuts'[k] = cuts[k]
<1> DEFINE Goal == /\ ChunkerInv'
                   /\ file' = file
                   /\ Len(cuts) <= Len(cuts')
                   /\ \A k \in 1..Len(cuts) : cuts'[k] = cuts[k]
<1> USE DEF ChunkerInv
<1>1. /\ file \in Seq(Byte)
      /\ Len(pending) = readPos - offset
      /\ pending \in Seq(Byte) /\ Len(pending) \in Nat /\ Len(cuts) \in Nat
      /\ scanned \in Nat /\ scanned <= Len(pending)
      /\ offset \in Nat /\ readPos \in Nat
  BY PendingLength, LenProperties DEF ChunkerTypeOK
<1>2. HasherTypeOK
  BY DEF HasherTypeOK, ChunkerTypeOK
<1>3. CASE CallNext
  <2>1. ChunkerTypeOK'
    BY <1>1, <1>3, ChunkerAssumption DEF CallNext, ChunkerTypeOK, srcVars, Reset
  <2>2. PendingInv'
    BY <1>3, ChunkerAssumption DEF CallNext, PendingInv, srcVars
  <2>3. CutsInv'
    BY <1>3 DEF CallNext, CutsInv, srcVars
  <2> QED
    BY <1>1, <1>3, <2>1, <2>2, <2>3 DEF CallNext, srcVars
<1>4. CASE Scan
  <2> DEFINE h == Slide(hasher, pending[scanned + 1])
  <2>1. /\ inNext /\ scanned < Len(pending) /\ hasher' = h
        /\ UNCHANGED <<file, readPos, done>>
    BY <1>4 DEF Scan, srcVars
  <2>2. scanned + 1 \in 1..Len(pending) /\ scanned + 1 <= MaxChunkSize
    BY <1>1, <2>1, ChunkerAssumption DEF PendingInv
  <2>3. HasherTypeOK'
    <3>1. pending[scanned + 1] \in Byte
      BY <1>1, <2>2, ElementOfSeq
    <3>2. h \in [window : [0..(WindowSize - 1) -> Byte], pos : 0..(WindowSize - 1),
                 hash : SUBSET Nat]
      BY <1>2, <3>1, SlideType
    <3> QED
      BY <2>1, <3>2 DEF HasherTypeOK
  <2>4. CASE Boundary(scanned + 1, h.hash)
    <3>1. Emit(scanned + 1)
      BY <1>4, <2>4 DEF Scan
    <3> QED
      BY <1>1, <2>1, <2>2, <2>3, <3>1, EmitKeeps
  <2>5. CASE ~Boundary(scanned + 1, h.hash)
    <3>1. scanned' = scanned + 1 /\ UNCHANGED <<pending, offset, inNext, cuts>>
      BY <1>4, <2>5 DEF Scan
    <3>2. scanned' < MaxChunkSize
      BY <1>1, <2>5, <3>1, ChunkerAssumption DEF Boundary
    <3>3. ChunkerTypeOK'
      BY <1>1, <2>1, <2>2, <2>3, <3>1 DEF ChunkerTypeOK, HasherTypeOK
    <3>4. PendingInv' /\ CutsInv'
      BY <2>1, <3>1, <3>2 DEF PendingInv, CutsInv
    <3> QED
      BY <1>1, <2>1, <3>1, <3>3, <3>4
  <2> QED
    BY <2>4, <2>5
<1>5. CASE Flush
  <2>1. /\ inNext /\ scanned = Len(pending)
        /\ UNCHANGED <<file, readPos, hasher, done>>
    BY <1>5 DEF Flush, srcVars
  <2>2. CASE pending # <<>>
    <3>1. Emit(Len(pending))
      BY <1>5, <2>2 DEF Flush
    <3>2. Len(pending) \in 1..Len(pending) /\ Len(pending) <= MaxChunkSize
      BY <1>1, <2>1, <2>2, EmptySeq, ChunkerAssumption DEF PendingInv
    <3>3. HasherTypeOK'
      BY <1>2, <2>1 DEF HasherTypeOK
    <3> QED
      BY <1>1, <2>1, <3>1, <3>2, <3>3, EmitKeeps
  <2>3. CASE pending = <<>>
    <3>1. inNext' = FALSE /\ scanned' = 0 /\ UNCHANGED <<pending, offset, cuts>>
      BY <1>5, <2>3 DEF Flush
    <3>2. ChunkerTypeOK'
      <4>1. inNext' \in BOOLEAN /\ done' \in BOOLEAN
        BY <2>1, <3>1, Zenon DEF ChunkerTypeOK
      <4>2. scanned' \in 0..Len(pending')
        BY <1>1, <3>1
      <4> QED
        BY <2>1, <3>1, <4>1, <4>2 DEF ChunkerTypeOK
    <3>3. PendingInv' /\ CutsInv'
      BY <2>1, <3>1 DEF PendingInv, CutsInv
    <3> QED
      BY <1>1, <2>1, <3>1, <3>2, <3>3
  <2> QED
    BY <2>2, <2>3
<1>6. ASSUME NEW n \in 0..ReadBufSize, NEW eof \in BOOLEAN, Read(n, eof)
      PROVE  Goal
  <2>1. Take(n) /\ UNCHANGED <<file, hasher, offset, inNext, scanned, cuts>>
    BY <1>6 DEF Read
  <2>2. ChunkerTypeOK'
    BY <1>1, <1>6, <2>1, TakeKeeps, LenProperties DEF ChunkerTypeOK, Read
  <2>3. PendingInv'
    BY <1>6, <2>1, TakeKeeps DEF PendingInv, Read
  <2>4. CutsInv'
    BY <2>1 DEF CutsInv
  <2> QED
    BY <1>1, <2>1, <2>2, <2>3, <2>4
<1>7. ASSUME NEW n \in 0..ReadBufSize, ReadFails(n)
      PROVE  Goal
  <2>1. /\ Take(n) /\ UNCHANGED <<file, hasher, offset, done, cuts>>
        /\ ~done /\ inNext' = FALSE /\ scanned' = 0
    BY <1>7 DEF ReadFails
  <2>2. ChunkerTypeOK'
    <3>1. inNext' \in BOOLEAN /\ done' \in BOOLEAN
      BY <2>1, Zenon DEF ChunkerTypeOK
    <3>2. scanned' \in 0..Len(pending')
      BY <2>1, TakeKeeps
    <3> QED
      BY <2>1, <3>1, <3>2, TakeKeeps DEF ChunkerTypeOK
  <2>3. PendingInv'
    BY <2>1, TakeKeeps DEF PendingInv
  <2>4. CutsInv'
    BY <2>1 DEF CutsInv
  <2> QED
    BY <1>1, <2>1, <2>2, <2>3, <2>4
<1> QED
  BY <1>3, <1>4, <1>5, <1>6, <1>7 DEF ChunkerStep

-----------------------------------------------------------------------------
(* The chunk store keeps its invariant.                                    *)

\* What a call of the system leaves as it was: listed chunks, each writer's chunk, and
\* which writers are in WriteChunk.
Kept == /\ rows \subseteq rows'
        /\ whash' = whash
        /\ \A v \in Writers : wpc'[v] = "idle" <=> wpc[v] = "idle"

\* What becomes of the temporary file of a writer that is done with it, removed or not:
\* it is no longer that writer's, and the others stay as they are.
LEMMA RemovedTemps ==
  ASSUME StoreInv, NEW w \in Writers, Removed(w) \/ NotRemoved(w)
  PROVE  /\ temps' \subseteq [by : Owner, hash : Hashes, content : Content]
         /\ \A t \in temps' : t.by \in Writers => t \in temps /\ t.by # w
         /\ \A t \in temps' : t.by = "dead" => t \in temps
<1> USE DEF StoreInv, StoreTypeOK, Owner
<1>1. CASE Removed(w)
  BY <1>1 DEF Removed, TempsOf
<1>2. CASE NotRemoved(w)
  <2>1. ASSUME NEW t \in temps'
        PROVE  \/ t \in temps /\ t.by # w
               \/ t.by = "kept" /\ t \in [by : Owner, hash : Hashes, content : Content]
    <3>1. PICK u \in temps : t = IF u.by = w THEN [u EXCEPT !.by = "kept"] ELSE u
      BY <1>2, <2>1 DEF NotRemoved, LeftAs
    <3> QED
      BY <3>1
  <2> QED
    BY <2>1, StoreAssumption
<1> QED
  BY <1>1, <1>2

\* Every call of WriteChunk keeps the invariant of the store, and those that fail too.
LEMMA WriterSteps ==
  ASSUME StoreInv, NEW w \in Writers, WriterStep(w), UNCHANGED died
  PROVE  StoreInv' /\ Kept
<1> USE DEF StoreInv, StoreTypeOK, At, Goto, TempsOf, Temp, Content, Owner, durableVars
<1>1. CASE Stat(w)
  <2> USE <1>1 DEF Stat
  <2>1. StoreTypeOK'
    OBVIOUS
  <2>2. FilesInv'
    BY DEF FilesInv, ListedIsWhole
  <2>3. WritersInv'
    BY DEF WritersInv, FilesInv
  <2>4. TempsInv'
    BY StoreAssumption DEF TempsInv
  <2> QED
    BY <2>1, <2>2, <2>3, <2>4 DEF Kept
<1>2. CASE CreateTemp(w)
  <2> USE <1>2 DEF CreateTemp
  <2>1. StoreTypeOK'
    BY DEF WritersInv
  <2>2. FilesInv'
    BY DEF FilesInv, ListedIsWhole
  <2>3. WritersInv'
    BY DEF WritersInv
  <2>4. TempsInv'
    BY StoreAssumption DEF TempsInv
  <2> QED
    BY <2>1, <2>2, <2>3, <2>4 DEF Kept
<1>3. CASE Write(w)
  <2> USE <1>3 DEF Write
  <2>1. StoreTypeOK'
    BY DEF WritersInv
  <2>2. FilesInv'
    BY DEF FilesInv, ListedIsWhole
  <2>3. WritersInv'
    BY DEF WritersInv
  <2>4. TempsInv'
    BY StoreAssumption DEF TempsInv
  <2> QED
    BY <2>1, <2>2, <2>3, <2>4 DEF Kept
<1>4. CASE Close(w)
  <2> USE <1>4 DEF Close
  <2>1. StoreTypeOK'
    OBVIOUS
  <2>2. FilesInv'
    BY DEF FilesInv, ListedIsWhole
  <2>3. WritersInv'
    BY DEF WritersInv
  <2>4. TempsInv'
    BY StoreAssumption DEF TempsInv
  <2> QED
    BY <2>1, <2>2, <2>3, <2>4 DEF Kept
<1>5. CASE Rename(w)
  <2> USE <1>5 DEF Rename
  <2>1. PICK t \in TempsOf(w) : files' = [files EXCEPT ![t.hash] = t.content]
    OBVIOUS
  <2>2. t.hash = whash[w] /\ t.content = "whole" /\ whash[w] \in Hashes
    BY DEF TempsInv, WritersInv
  <2>3. StoreTypeOK'
    BY <2>1, <2>2
  <2>4. FilesInv'
    BY <2>1, <2>2 DEF FilesInv, ListedIsWhole
  <2>5. WritersInv'
    BY <2>1, <2>2 DEF WritersInv
  <2>6. TempsInv'
    BY StoreAssumption DEF TempsInv
  <2> QED
    BY <2>3, <2>4, <2>5, <2>6 DEF Kept
<1>6. CASE RenameRefused(w)
  <2> USE <1>6 DEF RenameRefused
  <2>0. errors' \in 0..ErrorBound
    BY StoreAssumption DEF Error
  <2>1. StoreTypeOK'
    BY <2>0, RemovedTemps
  <2>2. FilesInv'
    BY DEF FilesInv, ListedIsWhole
  <2>3. WritersInv'
    BY DEF WritersInv, FilesInv
  <2>4. TempsInv'
    BY RemovedTemps, StoreAssumption DEF TempsInv
  <2> QED
    BY <2>1, <2>2, <2>3, <2>4 DEF Kept
<1>7. CASE Upsert(w)
  <2> USE <1>7 DEF Upsert
  <2>1. StoreTypeOK'
    BY DEF WritersInv
  <2>2. FilesInv'
    BY DEF FilesInv, ListedIsWhole, WritersInv
  <2>3. WritersInv'
    BY DEF WritersInv
  <2>4. TempsInv'
    BY StoreAssumption DEF TempsInv
  <2> QED
    BY <2>1, <2>2, <2>3, <2>4 DEF Kept
<1>8. CASE CallFails(w)
  <2> USE <1>8 DEF CallFails
  <2>0. errors' \in 0..ErrorBound
    BY StoreAssumption DEF Error
  <2>1. StoreTypeOK'
    BY <2>0, RemovedTemps
  <2>2. FilesInv'
    BY DEF FilesInv, ListedIsWhole
  <2>3. WritersInv'
    BY DEF WritersInv
  <2>4. TempsInv'
    BY RemovedTemps, StoreAssumption DEF TempsInv
  <2> QED
    BY <2>1, <2>2, <2>3, <2>4 DEF Kept
<1> QED
  BY <1>1, <1>2, <1>3, <1>4, <1>5, <1>6, <1>7, <1>8 DEF WriterStep

\* A writer is given content that may be a chunk.
LEMMA CallStep ==
  ASSUME StoreInv, NEW w \in Writers, NEW h \in Hashes, Call(w, h), UNCHANGED died
  PROVE  StoreInv'
<1> USE DEF StoreInv, StoreTypeOK, At, Call, Owner, durableVars
<1>1. StoreTypeOK'
  OBVIOUS
<1>2. FilesInv'
  BY DEF FilesInv, ListedIsWhole
<1>3. WritersInv'
  BY DEF WritersInv
<1>4. TempsInv'
  BY StoreAssumption DEF TempsInv
<1> QED
  BY <1>1, <1>2, <1>3, <1>4

\* WriteChunk returns.
LEMMA ReturnStep ==
  ASSUME StoreInv, NEW w \in Writers, Return(w), UNCHANGED died
  PROVE  StoreInv'
<1> USE DEF StoreInv, StoreTypeOK, Return, Owner, durableVars
<1>1. StoreTypeOK'
  OBVIOUS
<1>2. FilesInv'
  BY DEF FilesInv, ListedIsWhole
<1>3. WritersInv'
  BY DEF WritersInv
<1>4. TempsInv'
  BY StoreAssumption DEF TempsInv
<1> QED
  BY <1>1, <1>2, <1>3, <1>4

\* The process ends and leaves its temporary files.
LEMMA DieStep ==
  ASSUME StoreInv, Die, died' = TRUE
  PROVE  StoreInv'
<1> USE DEF StoreInv, StoreTypeOK, Die, Owner, durableVars
<1>1. StoreTypeOK'
  OBVIOUS
<1>2. FilesInv'
  BY DEF FilesInv, ListedIsWhole
<1>3. WritersInv'
  BY DEF WritersInv
<1>4. TempsInv'
  BY StoreAssumption DEF TempsInv
<1> QED
  BY <1>1, <1>2, <1>3, <1>4

-----------------------------------------------------------------------------
(* The send.                                                               *)

\* The invariant holds before the first send.
LEMMA InitIInv == Init => IInv
<1> SUFFICES ASSUME Init PROVE IInv
  OBVIOUS
<1> USE DEF Init, ChunkerInit, StoreInit
<1>1. file \in Seq(Byte) /\ Len(file) \in Nat
  BY ChunkerAssumption, LenProperties
<1>2. ChunkerTypeOK
  <2>1. done \in BOOLEAN /\ inNext \in BOOLEAN
    BY Zenon
  <2>2. /\ readPos \in 0..Len(file) /\ offset \in 0..Len(file)
        /\ pending \in Seq(Byte) /\ scanned \in 0..Len(pending) /\ cuts \in Seq(Chunk)
    BY <1>1
  <2>3. HasherTypeOK
    BY ChunkerAssumption DEF HasherTypeOK, Reset
  <2> QED
    BY <2>1, <2>2, <2>3 DEF ChunkerTypeOK, HasherTypeOK
<1>3. PendingInv
  BY SubSeqEmpty DEF PendingInv
<1>4. CutsInv
  BY DEF CutsInv
<1>5. StoreInv
  BY StoreAssumption DEF StoreInv, StoreTypeOK, FilesInv, ListedIsWhole, WritersInv, TempsInv
<1>6. SendTypeOK /\ JobsInv
  <2>1. failed \in BOOLEAN /\ died \in BOOLEAN
    BY Zenon
  <2> QED
    BY <2>1, SendAssumption, EmptySeq DEF SendTypeOK, JobsInv
<1> QED
  BY <1>2, <1>3, <1>4, <1>5, <1>6 DEF IInv, ChunkerInv

\* The chunker begins again on the same file.
LEMMA AgainChunker ==
  ASSUME ChunkerInv, ChunkerOf(file)
  PROVE  ChunkerInv' /\ Len(cuts') = 0
<1>1. file \in Seq(Byte) /\ Len(file) \in Nat
  BY ChunkerAssumption, LenProperties DEF ChunkerInv, ChunkerTypeOK
<1>2. ChunkerTypeOK'
  <2>1. done' \in BOOLEAN /\ inNext' \in BOOLEAN
    BY Zenon DEF ChunkerOf
  <2>2. /\ file' = file /\ file \in Files
        /\ readPos' \in 0..Len(file) /\ offset' \in 0..Len(file)
        /\ pending' \in Seq(Byte) /\ scanned' \in 0..Len(pending') /\ cuts' \in Seq(Chunk)
    BY <1>1 DEF ChunkerInv, ChunkerTypeOK, ChunkerOf
  <2>3. HasherTypeOK'
    BY ChunkerAssumption DEF HasherTypeOK, ChunkerOf, Reset
  <2> QED
    BY <2>1, <2>2, <2>3 DEF ChunkerTypeOK, HasherTypeOK
<1>3. PendingInv'
  BY SubSeqEmpty DEF PendingInv, ChunkerOf
<1>4. CutsInv'
  BY DEF CutsInv, ChunkerOf
<1> QED
  BY <1>2, <1>3, <1>4 DEF ChunkerInv, ChunkerOf

\* The chunks that arrived are chunks of the last send, or those that had arrived.
LEMMA ArriveStep ==
  ASSUME cuts \in Seq(Chunk), arrived \in Seq(Chunk), NEW p \in 0..Len(cuts), Arrives(p)
  PROVE  /\ arrived' \in Seq(Chunk) /\ Len(arrived') \in Nat
         /\ \/ arrived' = arrived
            \/ Len(arrived') = p /\ \A k \in 1..p : arrived'[k] = cuts[k]
<1>1. CASE p > Len(arrived)
  <2>1. \A k \in 1..p : k \in 1..Len(cuts) /\ cuts[k] \in Chunk
    BY LenProperties, ElementOfSeq
  <2>2. /\ SubSeq(cuts, 1, p) \in Seq(Chunk)
        /\ Len(SubSeq(cuts, 1, p)) = IF 1 <= p THEN p - 1 + 1 ELSE 0
        /\ \A k \in 1..(p - 1 + 1) : SubSeq(cuts, 1, p)[k] = cuts[1 + k - 1]
    BY <2>1, SubSeqProperties
  <2> DEFINE new == SubSeq(cuts, 1, p)
  <2>3. arrived' = new
    BY <1>1 DEF Arrives
  <2>4. new \in Seq(Chunk) /\ Len(new) = p /\ \A k \in 1..p : new[k] = cuts[k]
    <3>1. p - 1 + 1 = p /\ \A k \in 1..p : 1 + k - 1 = k
      BY LenProperties
    <3> QED
      BY <2>2, <3>1, LenProperties
  <2> HIDE DEF new
  <2> QED
    BY <2>3, <2>4
<1>2. CASE ~(p > Len(arrived))
  BY <1>2, LenProperties DEF Arrives
<1> QED
  BY <1>1, <1>2

\* A send that begins again keeps to the types.
LEMMA AgainType ==
  ASSUME IInv, SendAgain
  PROVE  arrived' \in Seq(Chunk) /\ skip' \in 0..Len(arrived')
<1>1. PICK p \in 0..Len(cuts) : Arrives(p)
  BY DEF SendAgain
<1> QED
  BY <1>1, ArriveStep DEF SendAgain, IInv, SendTypeOK, ChunkerInv, ChunkerTypeOK

\* Every step keeps the invariant and drops no row.
LEMMA StepIInv ==
  ASSUME IInv, [Next]_vars
  PROVE  IInv' /\ rows \subseteq rows'
<1> USE DEF IInv
<1>1. CASE Cut
  <2>1. /\ ChunkerInv' /\ Len(cuts) <= Len(cuts')
        /\ \A k \in 1..Len(cuts) : cuts'[k] = cuts[k]
    BY <1>1, ChunkerSteps DEF Cut
  <2>2. StoreInv' /\ rows \subseteq rows'
    BY <1>1 DEF Cut, storeVars, durableVars, writerVars, StoreInv, StoreTypeOK, FilesInv,
                ListedIsWhole, WritersInv, TempsInv
  <2>3. Len(cuts) \in Nat /\ Len(cuts') \in Nat
    BY <2>1, LenProperties DEF ChunkerInv, ChunkerTypeOK
  <2>4. SendTypeOK'
    <3>1. failed' \in BOOLEAN
      BY <1>1, Zenon DEF Cut, SendTypeOK
    <3> QED
      BY <1>1, <2>1, <2>3, <3>1 DEF Cut, SendTypeOK
  <2>5. JobsInv'
    BY <1>1, <2>1, <2>3 DEF Cut, JobsInv, SendTypeOK, storeVars, durableVars, writerVars
  <2> QED
    BY <2>1, <2>2, <2>4, <2>5
<1>2. ASSUME NEW w \in Writers, Work(w)
      PROVE  IInv' /\ rows \subseteq rows'
  <2>1. CASE /\ taken < Len(cuts) /\ Call(w, cuts[taken + 1].data)
             /\ taken' = taken + 1 /\ job' = [job EXCEPT ![w] = taken + 1]
             /\ UNCHANGED <<chunkerVars, stored, failed, skip, sends, died, arrived>>
    <3>1. /\ Len(cuts) \in Nat /\ taken + 1 \in 1..Len(cuts)
          /\ cuts[taken + 1].data \in Hashes
      <4>1. Len(cuts) \in Nat /\ taken \in Nat /\ taken < Len(cuts)
        BY <2>1, LenProperties DEF ChunkerInv, ChunkerTypeOK, SendTypeOK
      <4>2. taken + 1 \in 1..Len(cuts)
        BY <4>1
      <4>3. cuts[taken + 1].data \in ChunkData
        BY <4>2 DEF ChunkerInv, CutsInv
      <4> QED
        BY <4>1, <4>2, <4>3, SendAssumption
    <3>2. ChunkerInv'
      BY <2>1 DEF chunkerVars, srcVars, ChunkerInv, ChunkerTypeOK, PendingInv, CutsInv
    <3>3. StoreInv'
      BY <2>1, <3>1, CallStep
    <3>4. SendTypeOK'
      BY <2>1, <3>1 DEF SendTypeOK, chunkerVars
    <3>5. JobsInv' /\ rows \subseteq rows'
      BY <2>1, <3>1 DEF JobsInv, SendTypeOK, Call, At, durableVars, chunkerVars, StoreInv,
                        StoreTypeOK
    <3> QED
      BY <3>2, <3>3, <3>4, <3>5
  <2>2. CASE WriterStep(w) /\ UNCHANGED <<chunkerVars, sendVars>>
    <3>1. StoreInv' /\ Kept
      BY <2>2, WriterSteps DEF sendVars
    <3>2. ChunkerInv'
      BY <2>2 DEF chunkerVars, srcVars, ChunkerInv, ChunkerTypeOK, PendingInv, CutsInv
    <3>3. SendTypeOK' /\ JobsInv'
      BY <2>2, <3>1 DEF SendTypeOK, JobsInv, chunkerVars, sendVars, Kept
    <3> QED
      BY <3>1, <3>2, <3>3 DEF Kept
  <2>3. CASE /\ Return(w)
             /\ IF wpc[w] = "stored" THEN stored' = stored \cup {job[w]} /\ UNCHANGED failed
                                     ELSE failed' = TRUE /\ UNCHANGED stored
             /\ job' = [job EXCEPT ![w] = 0]
             /\ UNCHANGED <<chunkerVars, taken, skip, sends, died, arrived>>
    <3>1. StoreInv'
      BY <2>3, ReturnStep
    <3>2. ChunkerInv'
      BY <2>3 DEF chunkerVars, srcVars, ChunkerInv, ChunkerTypeOK, PendingInv, CutsInv
    <3>3. Len(cuts) \in Nat /\ wpc[w] # "idle"
      BY <2>3, LenProperties DEF ChunkerInv, ChunkerTypeOK, Return
    <3>4. SendTypeOK'
      <4>1. failed' \in BOOLEAN
        BY <2>3, Zenon DEF SendTypeOK
      <4>2. stored' \subseteq 1..Len(cuts)
        BY <2>3, <3>3 DEF SendTypeOK, JobsInv
      <4> QED
        BY <2>3, <3>3, <4>1, <4>2 DEF SendTypeOK, chunkerVars
    <3>5. JobsInv' /\ rows \subseteq rows'
      <4>1. rows' = rows /\ cuts' = cuts
        BY <2>3 DEF Return, durableVars, chunkerVars
      <4>2. \A k \in stored' : cuts[k].data \in rows
        BY <2>3, <3>3 DEF JobsInv, StoreInv, WritersInv
      <4>3. \A v \in Writers : wpc'[v] # "idle" =>
              job'[v] \in 1..Len(cuts) /\ whash'[v] = cuts[job'[v]].data
        BY <2>3 DEF Return, JobsInv, SendTypeOK, StoreInv, StoreTypeOK
      <4> QED
        BY <4>1, <4>2, <4>3 DEF JobsInv
    <3> QED
      BY <3>1, <3>2, <3>4, <3>5
  <2> QED
    BY <1>2, <2>1, <2>2, <2>3 DEF Work
<1>3. CASE Resend
  <2>1. ChunkerInv' /\ Len(cuts') = 0
    BY <1>3, AgainChunker DEF Resend, SendAgain
  <2>2. StoreInv' /\ rows \subseteq rows'
    BY <1>3 DEF Resend, storeVars, durableVars, writerVars, StoreInv, StoreTypeOK, FilesInv,
                ListedIsWhole, WritersInv, TempsInv
  <2>3. SendTypeOK'
    <3>1. failed' \in BOOLEAN /\ died' \in BOOLEAN
      BY <1>3, Zenon DEF Resend, SendAgain, SendTypeOK
    <3>2. arrived' \in Seq(Chunk) /\ skip' \in 0..Len(arrived')
      BY <1>3, AgainType DEF Resend
    <3>3. /\ sends' \in 0..SendBound /\ taken' = 0 /\ stored' = {}
          /\ job' = [w \in Writers |-> 0]
      BY <1>3, SendAssumption DEF Resend, SendAgain, SendTypeOK
    <3> QED
      BY <2>1, <3>1, <3>2, <3>3 DEF SendTypeOK
  <2>4. JobsInv'
    BY <1>3, <2>1 DEF Resend, SendAgain, JobsInv, storeVars, writerVars
  <2> QED
    BY <2>1, <2>2, <2>3, <2>4
<1>4. CASE Crash
  <2>1. ChunkerInv' /\ Len(cuts') = 0
    BY <1>4, AgainChunker DEF Crash, SendAgain
  <2>2. StoreInv' /\ rows \subseteq rows'
    BY <1>4, DieStep DEF Crash, Die, durableVars
  <2>3. SendTypeOK'
    <3>1. failed' \in BOOLEAN /\ died' \in BOOLEAN
      BY <1>4, Zenon DEF Crash, SendAgain, SendTypeOK
    <3>2. arrived' \in Seq(Chunk) /\ skip' \in 0..Len(arrived')
      BY <1>4, AgainType DEF Crash
    <3>3. /\ sends' \in 0..SendBound /\ taken' = 0 /\ stored' = {}
          /\ job' = [w \in Writers |-> 0]
      BY <1>4, SendAssumption DEF Crash, SendAgain, SendTypeOK
    <3> QED
      BY <2>1, <3>1, <3>2, <3>3 DEF SendTypeOK
  <2>4. JobsInv'
    BY <1>4, <2>1 DEF Crash, Die, SendAgain, JobsInv
  <2> QED
    BY <2>1, <2>2, <2>3, <2>4
<1>5. CASE SkipChunk
  <2>1. Len(cuts) \in Nat /\ SendTypeOK'
    BY <1>5, LenProperties DEF SkipChunk, SendTypeOK, chunkerVars, ChunkerInv, ChunkerTypeOK
  <2>2. ChunkerInv'
    BY <1>5 DEF SkipChunk, chunkerVars, srcVars, ChunkerInv, ChunkerTypeOK, PendingInv, CutsInv
  <2>3. StoreInv' /\ rows' = rows
    BY <1>5 DEF SkipChunk, storeVars, durableVars, writerVars, StoreInv, StoreTypeOK,
                FilesInv, ListedIsWhole, WritersInv, TempsInv
  <2>4. JobsInv'
    BY <1>5 DEF SkipChunk, chunkerVars, storeVars, durableVars, writerVars, JobsInv
  <2> QED
    BY <2>1, <2>2, <2>3, <2>4
<1>6. CASE UNCHANGED vars
  <2>0. UNCHANGED chunkerVars /\ UNCHANGED storeVars /\ UNCHANGED sendVars
    BY <1>6 DEF vars
  <2>1. ChunkerInv'
    BY <2>0 DEF chunkerVars, srcVars, ChunkerInv, ChunkerTypeOK, PendingInv, CutsInv
  <2>2. StoreInv' /\ rows' = rows
    <3>1. UNCHANGED <<files, rows, temps, wpc, whash, errors, died>>
      BY <2>0 DEF storeVars, durableVars, writerVars, sendVars
    <3> QED
      BY <3>1 DEF StoreInv, StoreTypeOK, FilesInv, ListedIsWhole, WritersInv, TempsInv
  <2>3. SendTypeOK' /\ JobsInv'
    BY <2>0 DEF chunkerVars, storeVars, durableVars, writerVars, sendVars, SendTypeOK, JobsInv
  <2> QED
    BY <2>1, <2>2, <2>3
<1> QED
  BY <1>1, <1>2, <1>3, <1>4, <1>5, <1>6 DEF Next

-----------------------------------------------------------------------------
(* The theorems.                                                           *)

\* The invariant holds in every behaviour.
THEOREM Invariance == Spec => []IInv
BY InitIInv, StepIInv, PTL DEF Spec

\* Chunker, store and send keep to their types, for every file, table and number of
\* writers: no chunk is longer than MaxChunkSize, none is empty.
THEOREM TypeCorrect == Spec => []TypeOK
<1>1. IInv => TypeOK
  BY DEF IInv, ChunkerInv, StoreInv, SendTypeOK, TypeOK
<1> QED
  BY <1>1, Invariance, PTL

\* Next loses no byte of any file, however reads and errors divide it.
THEOREM BytesKept == Spec => []NoByteLost
<1>1. IInv => NoByteLost
  <2> SUFFICES ASSUME IInv PROVE NoByteLost
    OBVIOUS
  <2> USE DEF IInv, ChunkerInv
  <2>1. pending = SubSeq(file, offset + 1, readPos)
    BY DEF PendingInv
  <2>2. ASSUME Drained PROVE offset = Len(file)
    <3>1. readPos = Len(file) /\ pending = <<>>
      BY <2>2 DEF Drained, PendingInv
    <3>2. Len(pending) = readPos - offset
      BY PendingLength
    <3> QED
      BY <3>1, <3>2 DEF ChunkerTypeOK
  <2> QED
    BY <2>1, <2>2 DEF NoByteLost
<1> QED
  BY <1>1, Invariance, PTL

\* A row of the chunks table names a complete file, for any number of writers, errors
\* and crashes.
THEOREM ListedWhole == Spec => []ListedIsWhole
<1>1. IInv => ListedIsWhole
  BY DEF IInv, StoreInv, FilesInv
<1> QED
  BY <1>1, Invariance, PTL

\* Only the end of a process, or a file that cannot be removed, leaves a temporary file
\* behind.
THEOREM TempsRemoved == Spec => []NoTempLeft
<1>1. IInv => NoTempLeft
  BY DEF IInv, StoreInv, StoreTypeOK, TempsInv, NoTempLeft
<1> QED
  BY <1>1, Invariance, PTL
=============================================================================
