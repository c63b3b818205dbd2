------------------------------- MODULE Chunker -------------------------------
(***************************************************************************)
(* Content-defined chunking: internal/chunk/cdc.go.  BufferedChunker.Next  *)
(* reads the source in pieces of any size, slides a fingerprint over the   *)
(* bytes it has and cuts where its low bits are zero, between a smallest   *)
(* and a largest chunk size.  Resuming a transfer counts chunks, so it     *)
(* rests on a file being cut the same way every time.                      *)
(*                                                                         *)
(* The 64-bit hash is the set of the positions of its one bits, so that    *)
(* exclusive or is the symmetric difference; sizes and the table are       *)
(* constants (in the code 64 bytes, 512 KB, 8 MB, a table of 256 words).   *)
(***************************************************************************)
EXTENDS Integers, Sequences

CONSTANTS Byte,             \* values of a byte, 0 among them
          WindowSize, MinChunkSize, MaxChunkSize,
          MaskBits,         \* positions of the bits of Mask; Pattern is 0
          Table,            \* the hasher's table: byte -> word
          ReadBufSize,
          Files             \* contents a source may have

ASSUME ChunkerAssumption ==
  /\ 0 \in Byte /\ Files \subseteq Seq(Byte)
  /\ WindowSize \in Nat \ {0} /\ ReadBufSize \in Nat \ {0}
  /\ MinChunkSize \in Nat \ {0} /\ MaxChunkSize \in Nat
  /\ MinChunkSize <= MaxChunkSize
  /\ MaskBits \subseteq Nat /\ Table \in [Byte -> SUBSET Nat]

VARIABLES
  file, readPos,            \* the source, and how much of it was read
  hasher,                   \* RabinHasher: window (a ring), pos, hash
  pending, offset, done,    \* BufferedChunker
  inNext, scanned,          \* is Next being executed, and its cursor
  cuts                      \* the chunks Next returned

srcVars == <<file, readPos>>
chunkerVars == <<srcVars, hasher, pending, offset, done, inNext, scanned, cuts>>

Chunk == [data : Seq(Byte), offset : Nat]

ChunkerTypeOK ==
  /\ file \in Files /\ readPos \in 0..Len(file)
  /\ hasher \in [window : [0..(WindowSize - 1) -> Byte], pos : 0..(WindowSize - 1),
                 hash : SUBSET Nat]
  /\ pending \in Seq(Byte) /\ offset \in 0..Len(file)
  /\ done \in BOOLEAN /\ inNext \in BOOLEAN
  /\ scanned \in 0..Len(pending)
  /\ cuts \in Seq(Chunk)

-----------------------------------------------------------------------------
\* RabinHasher.

Xor(a, b) == (a \ b) \cup (b \ a)
ShiftRight(h) == {i - 1 : i \in h \ {0}}

Reset == [window |-> [i \in 0..(WindowSize - 1) |-> 0], pos |-> 0, hash |-> {}]

Slide(h, b) ==
  [window |-> [h.window EXCEPT ![h.pos] = b],
   pos |-> (h.pos + 1) % WindowSize,
   hash |-> Xor(ShiftRight(Xor(h.hash, Table[h.window[h.pos]])), Table[b])]

-----------------------------------------------------------------------------
\* NewBufferedChunker on a source with content f.
ChunkerOf(f) ==
  /\ file' = f /\ readPos' = 0
  /\ hasher' = Reset
  /\ pending' = <<>> /\ offset' = 0 /\ done' = FALSE
  /\ inNext' = FALSE /\ scanned' = 0
  /\ cuts' = <<>>

ChunkerInit ==
  /\ file \in Files /\ readPos = 0
  /\ hasher = Reset
  /\ pending = <<>> /\ offset = 0 /\ done = FALSE
  /\ inNext = FALSE /\ scanned = 0
  /\ cuts = <<>>

\* Next has returned io.EOF.
Drained == ~inNext /\ done /\ pending = <<>>

\* Mutant of CallNext: the fingerprint goes on over the cut.
CallNext_NoReset ==
  /\ ~inNext /\ ~Drained
  /\ inNext' = TRUE
  /\ scanned' = 0
  /\ UNCHANGED <<srcVars, hasher, pending, offset, done, cuts>>

CallNext ==
  /\ ~inNext /\ ~Drained
  /\ inNext' = TRUE
  /\ scanned' = 0 /\ hasher' = Reset
  /\ UNCHANGED <<srcVars, pending, offset, done, cuts>>

\* Next returns the first n bytes of pending as a chunk.
Emit(n) ==
  /\ cuts' = Append(cuts, [data |-> SubSeq(pending, 1, n), offset |-> offset])
  /\ pending' = SubSeq(pending, n + 1, Len(pending))
  /\ offset' = offset + n
  /\ inNext' = FALSE /\ scanned' = 0

\* Mutant of Boundary: a chunk may grow one byte too long.
Boundary_PastMax(n, hash) ==
  n > MaxChunkSize \/ (n >= MinChunkSize /\ hash \cap MaskBits = {})

Boundary(n, hash) ==
  n >= MaxChunkSize \/ (n >= MinChunkSize /\ hash \cap MaskBits = {})

\* One round of the scanning loop.
Scan ==
  /\ inNext /\ scanned < Len(pending)
  /\ LET h == Slide(hasher, pending[scanned + 1])
     IN /\ hasher' = h
        /\ IF Boundary(scanned + 1, h.hash)
             THEN Emit(scanned + 1)
             ELSE /\ scanned' = scanned + 1
                  /\ UNCHANGED <<pending, offset, inNext, cuts>>
  /\ UNCHANGED <<srcVars, done>>

\* The source is exhausted: the rest is the last chunk.
Flush ==
  /\ inNext /\ scanned = Len(pending) /\ done
  /\ IF pending # <<>>
       THEN Emit(Len(pending))
       ELSE /\ inNext' = FALSE /\ scanned' = 0
            /\ UNCHANGED <<pending, offset, cuts>>
  /\ UNCHANGED <<srcVars, hasher, done>>

\* Mutant of Take: the bytes read replace those that wait for a boundary.
Take_Overwrites(n) == /\ n <= ReadBufSize /\ readPos + n <= Len(file)
                      /\ pending' = SubSeq(file, readPos + 1, readPos + n)
                      /\ readPos' = readPos + n

Take(n) == /\ n <= ReadBufSize /\ readPos + n <= Len(file)
           /\ pending' = pending \o SubSeq(file, readPos + 1, readPos + n)
           /\ readPos' = readPos + n

\* Mutant of Read: each read starts to scan again, over a hasher that has seen it.
Read_ScansAgain(n, eof) ==
  /\ inNext /\ scanned = Len(pending) /\ ~done
  /\ Take(n)
  /\ (eof => readPos' = Len(file)) /\ (n = 0 => eof)
  /\ done' = eof
  /\ scanned' = 0
  /\ UNCHANGED <<file, hasher, offset, inNext, cuts>>

\* A read returns n bytes, and io.EOF with the last of them or after them.
Read(n, eof) ==
  /\ inNext /\ scanned = Len(pending) /\ ~done
  /\ Take(n)
  /\ (eof => readPos' = Len(file)) /\ (n = 0 => eof)
  /\ done' = eof
  /\ UNCHANGED <<file, hasher, offset, inNext, scanned, cuts>>

\* Next returns the error; the bytes that came with it are kept.
ReadFails(n) ==
  /\ inNext /\ scanned = Len(pending) /\ ~done
  /\ Take(n)
  /\ inNext' = FALSE /\ scanned' = 0
  /\ UNCHANGED <<file, hasher, offset, done, cuts>>

\* Without errors of the source.
ChunkerStep ==
  \/ CallNext \/ Scan \/ Flush
  \/ \E n \in 0..ReadBufSize, eof \in BOOLEAN : Read(n, eof)

-----------------------------------------------------------------------------
(* The reference: where a file is cut, without reads, ring or cursor.      *)

\* The fingerprint of the n bytes of f that follow byte number start, which depends on
\* nothing before them.
Fingerprint(f, start) ==
  LET fp[n \in 0..(Len(f) - start)] ==
        IF n = 0 THEN {}
        ELSE LET leaving == IF n > WindowSize THEN f[start + n - WindowSize] ELSE 0
             IN Xor(ShiftRight(Xor(fp[n - 1], Table[leaving])), Table[f[start + n]])
  IN fp

\* The length of the chunk of f that follows byte number start.
CutLength(f, start) ==
  LET rest == Len(f) - start
      fp == Fingerprint(f, start)
      Ends == {n \in 1..rest :
                 n = MaxChunkSize \/ (n >= MinChunkSize /\ fp[n] \cap MaskBits = {})}
  IN IF Ends = {} THEN rest ELSE CHOOSE n \in Ends : \A m \in Ends : n <= m

\* However the reads divide the source, the chunks BufferedChunker.Next returns follow
\* one another and each is the one that the file's content alone determines.  A resumed
\* transfer skips chunks by their number, so two sends must cut alike.
CutsByContent ==
  \A k \in 1..Len(cuts) :
    LET start == cuts[k].offset
    IN /\ start = IF k = 1 THEN 0 ELSE cuts[k - 1].offset + Len(cuts[k - 1].data)
       /\ cuts[k].data = SubSeq(file, start + 1, start + CutLength(file, start))

\* Every byte read is in one chunk or still pending, in order, also when an error came
\* with it; when Next returns io.EOF all of the file is in chunks.
NoByteLost ==
  /\ pending = SubSeq(file, offset + 1, readPos)
  /\ Drained => offset = Len(file)
=============================================================================
