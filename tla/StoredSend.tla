------------------------------ MODULE StoredSend ------------------------------
(***************************************************************************)
(* A file is cut and its chunks are stored: Chunker feeding the workers of *)
(* SendFileWithOptions, each of which calls WriteChunk (ChunkStore).  The  *)
(* process may end at any time, and the queue sends the file again, from   *)
(* the chunk the receiver asks for.  A receiver has what this file's       *)
(* earlier sends wrote to it: no chunk comes to it from another sender.    *)
(* SendPipeline has the channels and goroutines between the two; here a    *)
(* worker takes the next chunk when it is idle.                            *)
(***************************************************************************)
EXTENDS Chunker, ChunkStore

CONSTANTS SendBound         \* bound: how often the file is sent

\* What a chunk may be.
ChunkData == UNION {[1..n -> Byte] : n \in 1..MaxChunkSize}

ASSUME SendAssumption == SendBound \in Nat \ {0} /\ ChunkData \subseteq Hashes

VARIABLES
  taken,                    \* chunks given to workers
  job,                      \* each worker: the number of its chunk
  stored,                   \* chunks WriteChunk returned nil for
  failed,                   \* has an error stopped the send?
  skip,                     \* the resume index: chunks the receiver has already
  sends, died,              \* sends started; history: has a process ended in one?
  arrived                   \* history: the longest row of chunks the receiver ever had

sendVars == <<taken, job, stored, failed, skip, sends, died, arrived>>
vars == <<chunkerVars, storeVars, sendVars>>

TypeOK ==
  /\ ChunkerTypeOK /\ StoreTypeOK
  /\ taken \in 0..Len(cuts)
  /\ job \in [Writers -> 0..Len(cuts)]
  /\ stored \subseteq 1..Len(cuts)
  /\ failed \in BOOLEAN /\ died \in BOOLEAN
  /\ sends \in 0..SendBound
  /\ arrived \in Seq(Chunk) /\ skip \in 0..Len(arrived)

Init == /\ ChunkerInit /\ StoreInit
        /\ taken = 0 /\ job = [w \in Writers |-> 0] /\ stored = {}
        /\ failed = FALSE /\ skip = 0 /\ sends = 1 /\ died = FALSE /\ arrived = <<>>

\* The feeder asks for the next chunk when the last one found a worker.
\* An error of the source ends the send.
Cut == /\ ~failed /\ taken = Len(cuts)
       /\ \/ ChunkerStep /\ UNCHANGED failed
          \/ \E n \in 0..ReadBufSize : ReadFails(n) /\ failed' = TRUE
       /\ UNCHANGED <<storeVars, taken, job, stored, skip, sends, died, arrived>>

\* A chunk the receiver has is not stored.
SkipChunk == /\ ~failed /\ taken < Len(cuts) /\ taken < skip
             /\ taken' = taken + 1
             /\ UNCHANGED <<chunkerVars, storeVars, job, stored, failed, skip, sends, died,
                            arrived>>

Work(w) ==
  \/ /\ ~failed /\ taken < Len(cuts) /\ taken >= skip
     /\ Call(w, cuts[taken + 1].data)
     /\ taken' = taken + 1
     /\ job' = [job EXCEPT ![w] = taken + 1]
     /\ UNCHANGED <<chunkerVars, stored, failed, skip, sends, died, arrived>>
  \/ /\ WriterStep(w)
     /\ UNCHANGED <<chunkerVars, sendVars>>
  \/ /\ Return(w)
     /\ IF wpc[w] = "stored" THEN stored' = stored \cup {job[w]} /\ UNCHANGED failed
                             ELSE failed' = TRUE /\ UNCHANGED stored
     /\ job' = [job EXCEPT ![w] = 0]
     /\ UNCHANGED <<chunkerVars, taken, skip, sends, died, arrived>>

\* Of the chunks of this send, the first p reached the receiver: all of them were stored
\* first, or the receiver had them before.
Arrives(p) ==
  /\ 1..p \subseteq stored \cup 1..skip
  /\ arrived' = IF p > Len(arrived) THEN SubSeq(cuts, 1, p) ELSE arrived

\* The next send skips what the receiver's resume packet tells it to, less than it had
\* when its sidecar is lost or stale.
SendAgain == /\ sends < SendBound
             /\ \E p \in 0..Len(cuts) : Arrives(p)
             /\ skip' \in 0..Len(arrived')
             /\ ChunkerOf(file)
             /\ taken' = 0 /\ job' = [w \in Writers |-> 0] /\ stored' = {}
             /\ failed' = FALSE /\ sends' = sends + 1

\* A send that failed, or one that succeeded and is repeated.
Sent == Drained /\ stored = (skip + 1)..Len(cuts)

Resend == /\ failed \/ Sent
          /\ \A w \in Writers : wpc[w] = "idle"
          /\ SendAgain
          /\ UNCHANGED <<storeVars, died>>

Crash == /\ Die
         /\ SendAgain
         /\ died' = TRUE

Next == Cut \/ SkipChunk \/ (\E w \in Writers : Work(w)) \/ Resend \/ Crash

Spec == Init /\ [][Next]_vars

-----------------------------------------------------------------------------
(* Properties.                                                             *)

\* A row of the chunks table names a file that is there, complete, whatever writers of
\* the same content, errors and ends of the process came between WriteChunk's steps.
ListedIsWhole == \A h \in rows : files[h] = "whole"

\* Whichever of its calls fails, WriteChunk does not return with its temporary file in
\* place unless the file cannot be removed; only the end of the process leaves another.
NoTempLeft ==
  \A t \in temps : /\ t.by \in Writers => wpc[t.by] \in {"write", "close", "rename"}
                   /\ t.by = "dead" => died

\* When a send has stored every chunk it did not skip, reading all the file's chunks back
\* by their hashes, in order, gives the file, whatever sends before it left half done:
\* what it skipped an earlier send has cut alike and stored.
SentReadsBack ==
  Sent => /\ \A k \in 1..Len(cuts) : cuts[k].data \in rows /\ files[cuts[k].data] = "whole"
          /\ \A i \in 1..Len(file) : \E k \in 1..Len(cuts) :
               LET at == i - cuts[k].offset
               IN at \in 1..Len(cuts[k].data) /\ cuts[k].data[at] = file[i]
=============================================================================
