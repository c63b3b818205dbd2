-------------------------- MODULE SendPipelineProofs --------------------------
(***************************************************************************)
(* Proofs about SendPipeline, for any number of workers and of chunks and  *)
(* any resume index.                                                       *)
(***************************************************************************)
EXTENDS SendPipeline, SequenceTheorems, FiniteSetTheorems, TLAPS

-----------------------------------------------------------------------------
(* The inductive invariant.                                                *)

\* The chunks below Taken were dropped or taken by a worker; those in hand are on
\* their way from there to the stream.
Taken == idx - Len(jobs)
InHand == next..(Taken - 1)

ErrorQueued == \E k \in 1..Len(results) : results[k] = Error

Held(i) == \/ \E w \in Workers : job[w] = i
           \/ \E k \in 1..Len(results) : results[k] = i
           \/ i \in pendingPkts

\* The channel jobs holds the chunks from Taken to idx, in order.
JobsInv ==
  /\ \A k \in 1..Len(jobs) : jobs[k] = Taken + k - 1
  /\ jobs # <<>> => Taken >= ResumeIndex
  /\ next >= ResumeIndex
  /\ next = ResumeIndex \/ next <= Taken

\* What is in hand is in one place only: no worker, slot of results and pending
\* packet share a chunk.
WorkersInv ==
  /\ \A w \in Workers : job[w] = NoChunk <=> workerPc[w] \in {"take", "exited"}
  /\ \A w \in Workers : job[w] # NoChunk => job[w] \in InHand
  /\ \A v, w \in Workers : job[v] = job[w] /\ job[v] # NoChunk => v = w

ResultsInv ==
  /\ \A k \in 1..Len(results) : results[k] # Error => results[k] \in InHand
  /\ \A k, l \in 1..Len(results) : results[k] = results[l] /\ results[k] # Error => k = l
  /\ \A k \in 1..Len(results), w \in Workers : results[k] # job[w]

PendingInv ==
  /\ pendingPkts \subseteq InHand
  /\ \A i \in pendingPkts : \A w \in Workers : job[w] # i
  /\ \A i \in pendingPkts : \A k \in 1..Len(results) : results[k] # i

\* Until something fails, everything in hand is held by somebody.
HeldInv == stopped \/ ErrorQueued \/ \A i \in InHand : Held(i)

\* The stream holds the chunks from the resume index to next, and the end packet only
\* once the call returns.
WireInv ==
  /\ next - ResumeIndex <= Len(wire) /\ Len(wire) <= next - ResumeIndex + 1
  /\ \A k \in 1..(next - ResumeIndex) : wire[k] = ResumeIndex + k - 1
  /\ Len(wire) = next - ResumeIndex + 1 =>
       /\ wire[Len(wire)] = EndPacket
       /\ mainPc = "returned" /\ writerPc = "exited" /\ next >= N
  /\ returned = "ok" => Len(wire) = next - ResumeIndex + 1

\* A worker exits because the channel was closed and drained, or because of a failure.
ExitInv ==
  /\ \A w \in Workers : workerPc[w] = "exited" =>
       stopped \/ ErrorQueued \/ (jobs = <<>> /\ jobsClosed)
  /\ ErrorQueued => \E w \in Workers : workerPc[w] = "exited"
  /\ resultsClosed => \A w \in Workers : workerPc[w] = "exited"

\* What the writer reports: nil only when it has drained results after they were closed.
WriterInv ==
  /\ writerErr => stopped /\ writerPc \in {"report", "exited"}
  /\ writerPc \in {"report", "exited"} /\ ~writerErr => resultsClosed /\ results = <<>>
  /\ writerPc # "flush" /\ ~writerErr => next \notin pendingPkts
  /\ netErrCh # <<>> => writerPc = "exited" /\ (Head(netErrCh) = "nil" <=> ~writerErr)

MainInv ==
  /\ jobsClosed => mainPc \notin {"feed", "select"}
  /\ mainPc = "select" => idx < N /\ idx >= ResumeIndex
  /\ mainPc = "wait" => idx = N
  /\ stopped => writerErr \/ mainPc \in {"abort", "end", "returned"}
  /\ mainPc = "end" => writerPc = "exited" /\ next >= N
  /\ mainPc # "returned" => returned = "none"

IInv == /\ TypeOK /\ JobsInv /\ WorkersInv /\ ResultsInv /\ PendingInv /\ HeldInv
        /\ WireInv /\ ExitInv /\ WriterInv /\ MainInv

-----------------------------------------------------------------------------
(* What the steps of the proof have in common.                             *)

\* The capacity of the channels is a number.
LEMMA ChannelType == ChannelSize \in Nat
BY PipelineAssumption, FS_CardinalityType DEF ChannelSize

\* The numbers the invariant speaks of.
LEMMA Numbers ==
  ASSUME TypeOK
  PROVE  /\ N \in Nat /\ ResumeIndex \in Nat /\ ChannelSize \in Nat
         /\ idx \in Int /\ next \in Int /\ Taken \in Int
         /\ Len(jobs) \in Nat /\ Len(results) \in Nat /\ Len(wire) \in Nat
         /\ Len(netErrCh) \in Nat
BY PipelineAssumption, ChannelType, LenProperties DEF TypeOK, Taken

\* The invariant holds before anything moves.
LEMMA InitIInv == Init => IInv
<1> SUFFICES ASSUME Init PROVE IInv
  OBVIOUS
<1> USE PipelineAssumption, ChannelType DEF Init
<1>1. Len(<<>>) = 0
  BY EmptySeq
<1>2. TypeOK
  <2>1. /\ jobs \in Seq(Chunks) /\ results \in Seq(Chunks \cup {Error})
        /\ netErrCh \in Seq({"nil", "error"}) /\ wire \in Seq(Chunks \cup {EndPacket})
    BY EmptySeq
  <2>2. /\ jobsClosed \in BOOLEAN /\ resultsClosed \in BOOLEAN
        /\ stopped \in BOOLEAN /\ writerErr \in BOOLEAN
    BY Zenon
  <2> QED
    BY <1>1, <2>1, <2>2 DEF TypeOK
<1>3. JobsInv /\ WorkersInv /\ ResultsInv /\ PendingInv
  BY <1>1 DEF JobsInv, WorkersInv, ResultsInv, PendingInv, Taken, NoChunk
<1>4. HeldInv
  BY <1>1 DEF HeldInv, InHand, Taken
<1>5. WireInv
  BY <1>1 DEF WireInv
<1>6. ExitInv /\ WriterInv /\ MainInv
  BY <1>1 DEF ExitInv, WriterInv, MainInv, ErrorQueued
<1> QED
  BY <1>2, <1>3, <1>4, <1>5, <1>6 DEF IInv

-----------------------------------------------------------------------------
(* The caller's goroutine.                                                 *)

\* No chunk moves: what is in hand is where it was.
LEMMA NothingMoves ==
  ASSUME IInv, UNCHANGED <<idx, jobs, job, results, next, pendingPkts>>
  PROVE  /\ JobsInv' /\ ResultsInv' /\ PendingInv'
         /\ ErrorQueued' = ErrorQueued
         /\ \A i : Held(i)' = Held(i)
         /\ InHand' = InHand
BY DEF IInv, JobsInv, ResultsInv, PendingInv, HeldInv, ErrorQueued, Held, InHand, Taken

\* A chunk the receiver has is dropped: nothing is in hand yet.
LEMMA SkipChunkKeeps == IInv /\ SkipChunk => IInv'
<1> SUFFICES ASSUME IInv, SkipChunk PROVE IInv'
  OBVIOUS
<1> USE DEF IInv, SkipChunk, jobVars, workVars, resultVars, writerVars
<1>1. TypeOK'
  BY Numbers DEF TypeOK
<1>2. Taken < ResumeIndex /\ Taken' = Taken + 1 /\ jobs = <<>> /\ Len(jobs) = 0
  BY Numbers, EmptySeq DEF JobsInv, Taken
<1>3. JobsInv'
  BY <1>2, Numbers DEF JobsInv
<1>4. InHand = {} /\ InHand' = {}
  BY <1>2, Numbers, SMTT(30) DEF InHand, JobsInv
<1>5. WorkersInv' /\ ResultsInv' /\ PendingInv'
  BY <1>4 DEF WorkersInv, ResultsInv, PendingInv
<1>6. HeldInv'
  BY <1>4 DEF HeldInv
<1>7. WireInv' /\ ExitInv' /\ WriterInv'
  BY DEF WireInv, ExitInv, WriterInv, ErrorQueued
<1>8. MainInv'
  BY DEF MainInv
<1> QED
  BY <1>1, <1>3, <1>5, <1>6, <1>7, <1>8

\* The next chunk is cut: it is in no channel before the select.
LEMMA CutChunkKeeps == IInv /\ CutChunk => IInv'
<1> SUFFICES ASSUME IInv, CutChunk PROVE IInv'
  OBVIOUS
<1> USE DEF IInv, CutChunk, jobVars, workVars, resultVars, writerVars
<1>1. TypeOK'
  BY DEF TypeOK
<1>2. JobsInv' /\ WorkersInv' /\ ResultsInv' /\ PendingInv' /\ HeldInv'
  BY NothingMoves DEF WorkersInv, HeldInv
<1>3. WireInv' /\ ExitInv' /\ WriterInv' /\ MainInv'
  BY DEF WireInv, ExitInv, WriterInv, MainInv, ErrorQueued
<1> QED
  BY <1>1, <1>2, <1>3

\* The next chunk is appended to the channel, in order.
LEMMA FeedJobKeeps == IInv /\ FeedJob => IInv'
<1> SUFFICES ASSUME IInv, FeedJob PROVE IInv'
  OBVIOUS
<1> USE DEF IInv, FeedJob, workVars, resultVars, writerVars
<1>1. /\ jobs' \in Seq(Chunks) /\ Len(jobs') = Len(jobs) + 1
      /\ \A k \in 1..Len(jobs) : jobs'[k] = jobs[k]
      /\ jobs'[Len(jobs) + 1] = idx
  <2>1. idx \in Chunks
    BY Numbers DEF TypeOK, MainInv, Chunks
  <2> QED
    BY <2>1, Numbers, AppendProperties DEF TypeOK
<1>2. TypeOK'
  BY <1>1, Numbers DEF TypeOK, MainInv
<1>3. Taken' = Taken /\ InHand' = InHand
  BY <1>1, Numbers, SMTT(30) DEF Taken, InHand
<1>4. JobsInv'
  <2>1. \A k \in 1..Len(jobs') : jobs'[k] = Taken' + k - 1
    <3> SUFFICES ASSUME NEW k \in 1..Len(jobs') PROVE jobs'[k] = Taken' + k - 1
      OBVIOUS
    <3>1. CASE k \in 1..Len(jobs)
      BY <3>1, <1>1, <1>3 DEF JobsInv
    <3>2. CASE k = Len(jobs) + 1
      BY <3>2, <1>1, <1>3, Numbers, SMTT(30) DEF Taken
    <3> QED
      BY <3>1, <3>2, <1>1, Numbers
  <2>2. Taken' >= ResumeIndex
    <3>1. CASE jobs = <<>>
      BY <3>1, <1>3, Numbers, EmptySeq DEF Taken, MainInv
    <3>2. CASE jobs # <<>>
      BY <3>2, <1>3 DEF JobsInv
    <3> QED
      BY <3>1, <3>2
  <2> QED
    BY <2>1, <2>2, <1>3 DEF JobsInv
<1>5. WorkersInv' /\ ResultsInv' /\ PendingInv'
  BY <1>3 DEF WorkersInv, ResultsInv, PendingInv
<1>6. HeldInv'
  BY <1>3 DEF HeldInv, Held, ErrorQueued
<1>7. WireInv' /\ WriterInv'
  BY DEF WireInv, WriterInv
<1>8. ExitInv'
  BY DEF ExitInv, ErrorQueued, MainInv
<1>9. MainInv'
  BY DEF MainInv
<1> QED
  BY <1>2, <1>4, <1>5, <1>6, <1>7, <1>8, <1>9

\* The goroutine stops feeding or waits; it moves no chunk.
LEMMA StopFeedingKeeps == IInv /\ (CutFails \/ ContextDone) => IInv'
<1> SUFFICES ASSUME IInv, CutFails \/ ContextDone PROVE IInv'
  OBVIOUS
<1> USE DEF IInv, CutFails, ContextDone, StopFeeding, workVars, resultVars, writerVars
<1>1. TypeOK'
  BY DEF TypeOK
<1>2. JobsInv' /\ WorkersInv' /\ ResultsInv' /\ PendingInv' /\ HeldInv'
  BY NothingMoves DEF WorkersInv, HeldInv
<1>3. WireInv' /\ ExitInv' /\ WriterInv' /\ MainInv'
  BY DEF WireInv, ExitInv, WriterInv, MainInv, ErrorQueued
<1> QED
  BY <1>1, <1>2, <1>3

\* What the writer reported is taken from its channel.
LEMMA ReportTaken ==
  ASSUME TypeOK, netErrCh # <<>>, netErrCh' = Tail(netErrCh)
  PROVE  /\ netErrCh' = <<>> /\ Len(netErrCh') = 0
         /\ netErrCh' \in Seq({"nil", "error"})
         /\ Head(netErrCh) \in {"nil", "error"}
<1> DEFINE Reports == {"nil", "error"}
<1>1. netErrCh \in Seq(Reports) /\ Len(netErrCh) <= 1
  BY DEF TypeOK
<1> SUFFICES /\ netErrCh' = <<>> /\ Len(netErrCh') = 0
             /\ netErrCh' \in Seq(Reports) /\ Head(netErrCh) \in Reports
  OBVIOUS
<1> HIDE DEF Reports
<1>2. Len(netErrCh) = 1
  <2>1. Len(netErrCh) \in Nat \ {0}
    BY <1>1, EmptySeq, Zenon
  <2>2. \A n \in Nat \ {0} : n <= 1 => n = 1
    OBVIOUS
  <2> QED
    BY <1>1, <2>1, <2>2, Zenon
<1>3. Head(netErrCh) \in Reports /\ netErrCh' \in Seq(Reports) /\ Len(netErrCh') = 0
  BY <1>1, <1>2, HeadTailProperties
<1>4. netErrCh' = <<>>
  BY <1>3, EmptySeq
<1> QED
  BY <1>3, <1>4

\* The call returns after a failure or a cancellation.
LEMMA AbortReturnKeeps == IInv /\ AbortReturn => IInv'
<1> SUFFICES ASSUME IInv, AbortReturn PROVE IInv'
  OBVIOUS
<1> USE DEF IInv, AbortReturn, jobVars, workVars, resultVars, writerVars
<1>1. TypeOK'
  BY ReportTaken DEF TypeOK
<1>2. JobsInv' /\ WorkersInv' /\ ResultsInv' /\ PendingInv' /\ HeldInv'
  BY NothingMoves DEF WorkersInv, HeldInv
<1>3. WireInv' /\ ExitInv' /\ WriterInv' /\ MainInv'
  BY ReportTaken DEF WireInv, ExitInv, WriterInv, MainInv, ErrorQueued
<1> QED
  BY <1>1, <1>2, <1>3

\* A writer that reports nil has found the results closed, so every worker exited; with
\* no failure to release them, they exited because the jobs were closed and drained.
LEMMA NilMeansDrained ==
  ASSUME IInv, netErrCh # <<>>, Head(netErrCh) = "nil",
         mainPc \in {"feed", "select", "wait"}
  PROVE  /\ ~stopped /\ ~writerErr /\ writerPc = "exited"
         /\ jobs = <<>> /\ jobsClosed /\ results = <<>>
         /\ \A w \in Workers : job[w] = NoChunk
         /\ next >= idx
<1> USE DEF IInv
<1>1. ~writerErr /\ ~stopped /\ writerPc = "exited" /\ resultsClosed /\ results = <<>>
  BY DEF WriterInv, MainInv
<1>2. ~ErrorQueued
  BY <1>1, EmptySeq DEF ErrorQueued
<1>3. jobs = <<>> /\ jobsClosed
  BY <1>1, <1>2, PipelineAssumption DEF ExitInv
<1>4. \A w \in Workers : job[w] = NoChunk
  BY <1>1 DEF ExitInv, WorkersInv
<1>5. next >= idx
  <2> SUFFICES ASSUME next < idx PROVE FALSE
    BY Numbers
  <2>1. next \in InHand /\ next \in Nat
    BY <1>3, EmptySeq, Numbers DEF InHand, Taken, TypeOK
  <2>2. Held(next)
    BY <2>1, <1>1, <1>2 DEF HeldInv
  <2> QED
    BY <2>1, <2>2, <1>1, <1>4, EmptySeq DEF Held, WriterInv, NoChunk
<1> QED
  BY <1>1, <1>3, <1>4, <1>5

\* So the writer does not report nil while chunks are being fed.
LEMMA FeedInterruptedKeeps == IInv /\ FeedInterrupted => IInv'
<1> SUFFICES ASSUME IInv, FeedInterrupted PROVE IInv'
  OBVIOUS
<1> USE DEF IInv, FeedInterrupted, workVars, resultVars, writerVars
<1>1. Head(netErrCh) # "nil"
  BY NilMeansDrained DEF MainInv
<1>2. TypeOK'
  BY ReportTaken DEF TypeOK
<1>3. JobsInv' /\ WorkersInv' /\ ResultsInv' /\ PendingInv' /\ HeldInv'
  BY NothingMoves DEF WorkersInv, HeldInv
<1>4. WireInv' /\ ExitInv' /\ WriterInv' /\ MainInv'
  BY <1>1, ReportTaken DEF WireInv, ExitInv, WriterInv, MainInv, ErrorQueued
<1> QED
  BY <1>2, <1>3, <1>4

\* The feeder has cut the whole file.
LEMMA EndOfFileKeeps == IInv /\ EndOfFile => IInv'
<1> SUFFICES ASSUME IInv, EndOfFile PROVE IInv'
  OBVIOUS
<1> USE DEF IInv, EndOfFile, workVars, resultVars, writerVars
<1>1. TypeOK'
  BY DEF TypeOK
<1>2. JobsInv' /\ WorkersInv' /\ ResultsInv' /\ PendingInv' /\ HeldInv'
  BY NothingMoves DEF WorkersInv, HeldInv
<1>3. WireInv' /\ ExitInv' /\ WriterInv' /\ MainInv'
  BY DEF WireInv, ExitInv, WriterInv, MainInv, ErrorQueued
<1> QED
  BY <1>1, <1>2, <1>3

\* After nil the end packet may be sent: every chunk has been written.
LEMMA AwaitWriterKeeps == IInv /\ AwaitWriter => IInv'
<1> SUFFICES ASSUME IInv, AwaitWriter PROVE IInv'
  OBVIOUS
<1> USE DEF IInv, AwaitWriter, jobVars, workVars, resultVars, writerVars
<1>1. TypeOK'
  <2>1. stopped' \in BOOLEAN
    BY Zenon DEF TypeOK
  <2> QED
    BY <2>1, ReportTaken DEF TypeOK
<1>2. JobsInv' /\ WorkersInv' /\ ResultsInv' /\ PendingInv' /\ HeldInv'
  BY NothingMoves DEF WorkersInv, HeldInv
<1>3. WireInv' /\ ExitInv' /\ WriterInv'
  BY ReportTaken DEF WireInv, ExitInv, WriterInv, MainInv, ErrorQueued
<1>4. MainInv'
  BY NilMeansDrained DEF MainInv
<1> QED
  BY <1>1, <1>2, <1>3, <1>4

\* The end packet is written, or fails.
LEMMA SendEndKeeps == IInv /\ SendEnd => IInv'
<1> SUFFICES ASSUME IInv, SendEnd PROVE IInv'
  OBVIOUS
<1> USE DEF IInv, SendEnd, jobVars, workVars, resultVars, writerVars
<1>1. Len(wire) = next - ResumeIndex /\ writerPc = "exited" /\ next >= N
  BY Numbers DEF WireInv, MainInv
<1>2. /\ Append(wire, EndPacket) \in Seq(Chunks \cup {EndPacket})
      /\ Len(Append(wire, EndPacket)) = Len(wire) + 1
      /\ \A k \in 1..Len(wire) : Append(wire, EndPacket)[k] = wire[k]
      /\ Append(wire, EndPacket)[Len(wire) + 1] = EndPacket
  <2>1. wire \in Seq(Chunks \cup {EndPacket}) /\ EndPacket \in Chunks \cup {EndPacket}
    BY DEF TypeOK
  <2> QED
    BY <2>1, AppendProperties
<1>3. TypeOK'
  BY <1>2 DEF TypeOK
<1>4. JobsInv' /\ WorkersInv' /\ ResultsInv' /\ PendingInv' /\ HeldInv'
  BY NothingMoves DEF WorkersInv, HeldInv
<1>5. WireInv'
  <2>1. CASE wire' = wire /\ returned' = "error"
    BY <2>1, <1>1 DEF WireInv
  <2>2. CASE wire' = Append(wire, EndPacket)
    BY <2>2, <1>1, <1>2, Numbers, SMTT(30) DEF WireInv
  <2> QED
    BY <2>1, <2>2
<1>6. ExitInv' /\ WriterInv' /\ MainInv'
  BY DEF ExitInv, WriterInv, MainInv, ErrorQueued
<1> QED
  BY <1>3, <1>4, <1>5, <1>6

\* Nothing changes.
LEMMA StutterKeeps == IInv /\ UNCHANGED vars => IInv'
<1> SUFFICES ASSUME IInv, UNCHANGED vars PROVE IInv'
  OBVIOUS
<1> USE DEF IInv, vars, mainVars, jobVars, workVars, resultVars, writerVars
<1>1. TypeOK'
  BY DEF TypeOK
<1>2. JobsInv' /\ WorkersInv' /\ ResultsInv' /\ PendingInv' /\ HeldInv'
  BY NothingMoves DEF WorkersInv, HeldInv
<1>3. WireInv' /\ ExitInv' /\ WriterInv' /\ MainInv'
  BY DEF WireInv, ExitInv, WriterInv, MainInv, ErrorQueued
<1> QED
  BY <1>1, <1>2, <1>3

-----------------------------------------------------------------------------
(* The workers.                                                            *)

\* The head of the channel is the chunk Taken; a worker takes it.
LEMMA TakeJobKeeps == ASSUME IInv, NEW w \in Workers, TakeJob(w) PROVE IInv'
<1> USE DEF IInv, TakeJob, mainVars, resultVars, writerVars
<1>1. /\ jobs' \in Seq(Chunks) /\ Len(jobs') = Len(jobs) - 1
      /\ \A k \in 1..Len(jobs') : jobs'[k] = jobs[k + 1]
      /\ Head(jobs) \in Chunks /\ Len(jobs) >= 1
  BY HeadTailProperties, EmptySeq DEF TypeOK
<1>2. Head(jobs) = Taken
  BY <1>1, Numbers DEF JobsInv, TypeOK
<1>3. Taken \in Chunks /\ Taken' = Taken + 1 /\ next <= Taken
  BY <1>1, <1>2, Numbers DEF Taken, JobsInv
<1>4. \A i : i \in InHand' <=> i \in InHand \/ i = Taken
  BY <1>3, Numbers, SMTT(30) DEF InHand
<1>5. Taken \notin InHand /\ job[w] = NoChunk /\ Taken # NoChunk
  BY <1>3, Numbers DEF InHand, WorkersInv, Chunks, NoChunk
<1>6. job' = [job EXCEPT ![w] = Taken]
  BY <1>2
<1>7. \A v \in Workers : job'[v] = IF v = w THEN Taken ELSE job[v]
  BY <1>6 DEF TypeOK
<1>8. TypeOK'
  BY <1>1, <1>3, <1>6, Numbers DEF TypeOK
<1>9. JobsInv'
  <2>1. ASSUME NEW k \in 1..Len(jobs') PROVE jobs'[k] = Taken' + k - 1
    <3>1. k + 1 \in 1..Len(jobs) /\ k \in Nat /\ Taken \in Int
      BY <1>1, Numbers
    <3>2. jobs[k + 1] = Taken + (k + 1) - 1
      BY <3>1 DEF JobsInv
    <3> QED
      BY <3>1, <3>2, <1>1, <1>3
  <2> QED
    BY <2>1, <1>1, <1>3, Numbers DEF JobsInv
<1>10. WorkersInv'
  BY <1>4, <1>5, <1>7 DEF WorkersInv, TypeOK
<1>11. ResultsInv'
  <2>1. Taken # Error
    BY <1>3, Numbers DEF Error, Chunks
  <2> QED
    BY <2>1, <1>4, <1>5, <1>7 DEF ResultsInv
<1>12. PendingInv'
  BY <1>4, <1>5, <1>7 DEF PendingInv
<1>13. HeldInv'
  <2>1. ASSUME NEW i \in InHand, Held(i) PROVE Held(i)'
    <3>1. i # NoChunk
      BY Numbers DEF InHand, NoChunk, JobsInv
    <3> QED
      BY <2>1, <3>1, <1>5, <1>7 DEF Held
  <2>2. ASSUME NEW i, i = Taken PROVE Held(i)'
    BY <2>2, <1>7 DEF Held
  <2> QED
    BY <2>1, <2>2, <1>4 DEF HeldInv, ErrorQueued
<1>14. WireInv' /\ WriterInv' /\ MainInv'
  BY DEF WireInv, WriterInv, MainInv
<1>15. ExitInv'
  BY DEF ExitInv, ErrorQueued, TypeOK
<1> QED
  BY <1>8, <1>9, <1>10, <1>11, <1>12, <1>13, <1>14, <1>15

\* A worker that stops or works on keeps what it holds.
LEMMA JobsDoneKeeps == ASSUME IInv, NEW w \in Workers, JobsDone(w) PROVE IInv'
<1> USE DEF IInv, JobsDone, mainVars, jobVars, resultVars, writerVars
<1>1. TypeOK'
  BY DEF TypeOK
<1>2. JobsInv' /\ ResultsInv' /\ PendingInv' /\ HeldInv'
  BY NothingMoves DEF HeldInv
<1>3. WorkersInv'
  BY NothingMoves DEF WorkersInv, TypeOK
<1>4. ExitInv'
  BY DEF ExitInv, ErrorQueued, TypeOK
<1>5. WireInv' /\ WriterInv' /\ MainInv'
  BY DEF WireInv, WriterInv, MainInv
<1> QED
  BY <1>1, <1>2, <1>3, <1>4, <1>5

\* A worker has prepared its chunk, or failed to.
LEMMA ProcessKeeps == ASSUME IInv, NEW w \in Workers, Process(w) PROVE IInv'
<1> USE DEF IInv, Process, mainVars, jobVars, resultVars, writerVars
<1>1. TypeOK'
  BY DEF TypeOK
<1>2. JobsInv' /\ ResultsInv' /\ PendingInv' /\ HeldInv'
  BY NothingMoves DEF HeldInv
<1>3. WorkersInv'
  BY NothingMoves DEF WorkersInv, TypeOK
<1>4. ExitInv'
  BY DEF ExitInv, ErrorQueued, TypeOK
<1>5. WireInv' /\ WriterInv' /\ MainInv'
  BY DEF WireInv, WriterInv, MainInv
<1> QED
  BY <1>1, <1>2, <1>3, <1>4, <1>5

\* The chunk, or an error in its place, goes from the worker to the channel.
LEMMA OfferKeeps == ASSUME IInv, NEW w \in Workers, Offer(w) PROVE IInv'
<1> DEFINE r == IF workerPc[w] = "offer" THEN job[w] ELSE Error
<1> USE DEF IInv, Offer, mainVars, jobVars, writerVars
<1>1. job[w] # NoChunk /\ job[w] \in Chunks /\ job[w] \in InHand
  BY DEF WorkersInv, TypeOK
<1>2. /\ results' \in Seq(Chunks \cup {Error}) /\ Len(results') = Len(results) + 1
      /\ \A k \in 1..Len(results) : results'[k] = results[k]
      /\ results'[Len(results) + 1] = r
  <2>1. results \in Seq(Chunks \cup {Error}) /\ r \in Chunks \cup {Error}
    BY <1>1 DEF TypeOK
  <2> QED
    BY <2>1, AppendProperties
<1>3. \A v \in Workers : job'[v] = IF v = w THEN NoChunk ELSE job[v]
  BY DEF TypeOK
<1>4. r # NoChunk /\ (r # Error => r = job[w])
  BY <1>1 DEF Error, NoChunk
<1>5. InHand' = InHand /\ NoChunk \notin InHand /\ Error \notin Chunks
  BY Numbers DEF InHand, Taken, NoChunk, Error, Chunks, JobsInv
<1>6. \A k \in 1..Len(results') : k \in 1..Len(results) \/ k = Len(results) + 1
  BY <1>2, Numbers
<1>7. TypeOK'
  BY <1>2, Numbers DEF TypeOK
<1>8. JobsInv'
  BY DEF JobsInv, Taken
<1>9. WorkersInv'
  BY <1>3, <1>5 DEF WorkersInv, TypeOK
<1>10. ResultsInv'
  <2> HIDE DEF r
  <2>1. \A k \in 1..Len(results') : results'[k] # Error => results'[k] \in InHand'
    BY <1>1, <1>2, <1>4, <1>5, <1>6 DEF ResultsInv
  <2>2. \A k, l \in 1..Len(results') :
          results'[k] = results'[l] /\ results'[k] # Error => k = l
    BY <1>1, <1>2, <1>4, <1>6 DEF ResultsInv
  <2>3. \A k \in 1..Len(results'), v \in Workers : results'[k] # job'[v]
    <3> SUFFICES ASSUME NEW k \in 1..Len(results'), NEW v \in Workers
                 PROVE  results'[k] # job'[v]
      OBVIOUS
    <3>1. results'[k] # NoChunk /\ (v # w => job[v] # Error)
      <4>1. Error # NoChunk
        BY DEF Error, NoChunk
      <4>2. results'[k] # NoChunk
        BY <4>1, <1>2, <1>4, <1>5, <1>6 DEF ResultsInv
      <4>3. job[v] \in Chunks \cup {NoChunk}
        BY DEF TypeOK
      <4> QED
        BY <4>1, <4>2, <4>3, <1>5
    <3>2. CASE v = w
      BY <3>1, <3>2, <1>3
    <3>3. CASE v # w /\ k \in 1..Len(results)
      BY <3>3, <1>2, <1>3 DEF ResultsInv
    <3>4. CASE v # w /\ k = Len(results) + 1
      BY <3>1, <3>4, <1>1, <1>2, <1>3, <1>4 DEF WorkersInv
    <3> QED
      BY <3>2, <3>3, <3>4, <1>6
  <2> QED
    BY <2>1, <2>2, <2>3 DEF ResultsInv
<1>11. PendingInv'
  <2> HIDE DEF r
  <2>1. \A i \in pendingPkts : i # NoChunk /\ i # Error
    BY Numbers DEF PendingInv, InHand, JobsInv, NoChunk, Error
  <2>2. \A i \in pendingPkts : \A v \in Workers : job'[v] # i
    BY <2>1, <1>3 DEF PendingInv
  <2>3. \A i \in pendingPkts : \A k \in 1..Len(results') : results'[k] # i
    BY <2>1, <1>2, <1>4, <1>6 DEF PendingInv
  <2> QED
    BY <2>2, <2>3, <1>5 DEF PendingInv
<1>12. HeldInv' /\ ExitInv'
  <2>1. ErrorQueued => ErrorQueued'
    BY <1>2, Numbers DEF ErrorQueued
  <2>2. workerPc[w] = "fail" => ErrorQueued' /\ workerPc'[w] = "exited"
    BY <1>2, Numbers DEF ErrorQueued, TypeOK
  <2>3. ASSUME workerPc[w] = "offer", NEW i \in InHand, Held(i) PROVE Held(i)'
    BY <2>3, <1>2, <1>3, <1>5, Numbers DEF Held
  <2>4. HeldInv'
    BY <2>1, <2>2, <2>3, <1>5 DEF HeldInv
  <2>5. ErrorQueued' => ErrorQueued \/ workerPc[w] = "fail"
    BY <1>1, <1>2, <1>5, <1>6 DEF ErrorQueued
  <2>6. ExitInv'
    BY <2>1, <2>2, <2>5 DEF ExitInv, TypeOK
  <2> QED
    BY <2>4, <2>6
<1>13. WireInv' /\ MainInv'
  BY DEF WireInv, MainInv
<1>14. WriterInv'
  BY DEF WriterInv, ExitInv
<1> QED
  BY <1>7, <1>8, <1>9, <1>10, <1>11, <1>12, <1>13, <1>14

\* A worker released by stopped drops its chunk.
LEMMA AbandonKeeps == ASSUME IInv, NEW w \in Workers, Abandon(w) PROVE IInv'
<1> USE DEF IInv, Abandon, mainVars, jobVars, resultVars, writerVars
<1>1. \A v \in Workers : job'[v] = IF v = w THEN NoChunk ELSE job[v]
  BY DEF TypeOK
<1>2. InHand' = InHand /\ NoChunk \notin InHand /\ NoChunk # Error
  BY Numbers DEF InHand, Taken, NoChunk, Error, JobsInv
<1>3. TypeOK'
  BY DEF TypeOK
<1>4. JobsInv' /\ HeldInv'
  BY DEF JobsInv, HeldInv, Taken
<1>5. WorkersInv'
  BY <1>1, <1>2 DEF WorkersInv, TypeOK
<1>6. ResultsInv' /\ PendingInv'
  BY <1>1, <1>2 DEF ResultsInv, PendingInv
<1>7. ExitInv'
  BY DEF ExitInv, ErrorQueued, TypeOK
<1>8. WireInv' /\ WriterInv' /\ MainInv'
  BY DEF WireInv, WriterInv, MainInv
<1> QED
  BY <1>3, <1>4, <1>5, <1>6, <1>7, <1>8

\* The last worker has exited.
LEMMA CloseResultsKeeps == IInv /\ CloseResults => IInv'
<1> SUFFICES ASSUME IInv, CloseResults PROVE IInv'
  OBVIOUS
<1> USE DEF IInv, CloseResults, mainVars, jobVars, workVars, writerVars
<1>1. TypeOK'
  BY DEF TypeOK
<1>2. JobsInv' /\ WorkersInv' /\ ResultsInv' /\ PendingInv' /\ HeldInv'
  BY NothingMoves DEF WorkersInv, HeldInv
<1>3. WireInv' /\ ExitInv' /\ WriterInv' /\ MainInv'
  BY DEF WireInv, ExitInv, WriterInv, MainInv, ErrorQueued
<1> QED
  BY <1>1, <1>2, <1>3

-----------------------------------------------------------------------------
(* The writer.                                                             *)

\* The head of the channel goes to the packets that wait for their turn.
LEMMA ReceiveKeeps == IInv /\ Receive => IInv'
<1> SUFFICES ASSUME IInv, Receive PROVE IInv'
  OBVIOUS
<1> DEFINE r == Head(results)
<1> USE DEF IInv, Receive, WriterFails, mainVars, jobVars, workVars
<1>1. /\ results' \in Seq(Chunks \cup {Error}) /\ Len(results') = Len(results) - 1
      /\ \A k \in 1..Len(results') : results'[k] = results[k + 1]
      /\ Len(results) \in Nat /\ Len(results) >= 1
      /\ r = results[1] /\ r \in Chunks \cup {Error}
  <2>1. results \in Seq(Chunks \cup {Error}) /\ results # <<>>
    BY DEF TypeOK
  <2> QED
    BY <2>1, HeadTailProperties, EmptySeq
<1>2. \A k \in 1..Len(results') : k \in Int /\ k + 1 \in 1..Len(results) /\ k + 1 # 1
  BY <1>1
<1>3. \A k \in 1..Len(results) : k = 1 \/ (k - 1 \in 1..Len(results') /\ (k - 1) + 1 = k)
  BY <1>1
<1>4. InHand' = InHand
  BY DEF InHand, Taken
<1>5. TypeOK'
  <2>1. stopped' \in BOOLEAN /\ writerErr' \in BOOLEAN
    BY Zenon DEF TypeOK
  <2> QED
    BY <1>1, <2>1, Numbers DEF TypeOK
<1>6. JobsInv' /\ WorkersInv'
  BY <1>4 DEF JobsInv, WorkersInv, Taken
<1>7. ResultsInv'
  <2>1. \A k \in 1..Len(results') : results'[k] # Error => results'[k] \in InHand'
    BY <1>1, <1>2, <1>4 DEF ResultsInv
  <2>2. \A k, l \in 1..Len(results') :
          results'[k] = results'[l] /\ results'[k] # Error => k = l
    <3> SUFFICES ASSUME NEW k \in 1..Len(results'), NEW l \in 1..Len(results'),
                        results'[k] = results'[l], results'[k] # Error
                 PROVE  k = l
      OBVIOUS
    <3>1. k + 1 = l + 1
      BY <1>1, <1>2 DEF ResultsInv
    <3> QED
      BY <3>1, <1>2
  <2>3. \A k \in 1..Len(results'), w \in Workers : results'[k] # job'[w]
    BY <1>1, <1>2 DEF ResultsInv
  <2> QED
    BY <2>1, <2>2, <2>3 DEF ResultsInv
<1>8. PendingInv'
  <2>1. CASE r = Error
    BY <2>1, <1>1, <1>2, <1>4 DEF PendingInv
  <2>2. CASE r # Error
    <3>1. pendingPkts' = pendingPkts \cup {r}
      BY <2>2
    <3>2. r \in InHand /\ (\A w \in Workers : job[w] # r)
      BY <2>2, <1>1 DEF ResultsInv
    <3>3. \A k \in 1..Len(results') : results'[k] # r
      BY <2>2, <1>1, <1>2 DEF ResultsInv
    <3> QED
      BY <3>1, <3>2, <3>3, <1>1, <1>2, <1>4 DEF PendingInv
  <2> QED
    BY <2>1, <2>2
<1>9. HeldInv'
  <2>1. CASE r = Error
    BY <2>1 DEF HeldInv
  <2>2. CASE r # Error
    <3>1. pendingPkts' = pendingPkts \cup {r} /\ UNCHANGED stopped
      BY <2>2
    <3>2. ErrorQueued => ErrorQueued'
      <4> SUFFICES ASSUME NEW k \in 1..Len(results), results[k] = Error
                   PROVE  ErrorQueued'
        BY DEF ErrorQueued
      <4>1. k - 1 \in 1..Len(results') /\ (k - 1) + 1 = k
        BY <2>2, <1>1, <1>3
      <4> QED
        BY <4>1, <1>1 DEF ErrorQueued
    <3>3. ASSUME NEW i \in InHand, Held(i) PROVE Held(i)'
      <4>1. CASE \E k \in 1..Len(results) : results[k] = i
        <5>1. PICK k \in 1..Len(results) : results[k] = i
          BY <4>1
        <5>2. CASE k = 1
          BY <5>1, <5>2, <3>1, <1>1 DEF Held
        <5>3. CASE k # 1
          <6>1. k - 1 \in 1..Len(results') /\ results'[k - 1] = i
            BY <5>1, <5>3, <1>1, <1>3
          <6> QED
            BY <6>1 DEF Held
        <5> QED
          BY <5>2, <5>3
      <4>2. CASE i \in pendingPkts \/ \E w \in Workers : job[w] = i
        BY <4>2, <3>1 DEF Held
      <4> QED
        BY <3>3, <4>1, <4>2 DEF Held
    <3> QED
      BY <3>1, <3>2, <3>3, <1>4 DEF HeldInv
  <2> QED
    BY <2>1, <2>2
<1>10. WireInv' /\ MainInv'
  BY DEF WireInv, MainInv
<1>11. ExitInv'
  <2>1. ErrorQueued' => ErrorQueued
    BY <1>1, <1>2 DEF ErrorQueued
  <2>2. ErrorQueued => ErrorQueued' \/ stopped'
    <3> SUFFICES ASSUME NEW k \in 1..Len(results), results[k] = Error, ~stopped'
                 PROVE  ErrorQueued'
      BY DEF ErrorQueued
    <3>1. k - 1 \in 1..Len(results') /\ (k - 1) + 1 = k
      BY <1>1, <1>3
    <3> QED
      BY <3>1, <1>1 DEF ErrorQueued
  <2> QED
    BY <2>1, <2>2 DEF ExitInv
<1>12. WriterInv'
  BY DEF WriterInv
<1> QED
  BY <1>5, <1>6, <1>7, <1>8, <1>9, <1>10, <1>11, <1>12

\* The packet whose turn it is goes to the stream, and the next one is due.
LEMMA EncodeKeeps == IInv /\ Encode => IInv'
<1> SUFFICES ASSUME IInv, Encode PROVE IInv'
  OBVIOUS
<1> USE DEF IInv, Encode, mainVars, jobVars, workVars, resultVars
<1>1. /\ wire' \in Seq(Chunks \cup {EndPacket}) /\ Len(wire') = Len(wire) + 1
      /\ \A k \in 1..Len(wire) : wire'[k] = wire[k]
      /\ wire'[Len(wire) + 1] = next
  <2>1. wire \in Seq(Chunks \cup {EndPacket}) /\ next \in Chunks \cup {EndPacket}
    BY DEF TypeOK
  <2> QED
    BY <2>1, AppendProperties
<1>2. Taken' = Taken /\ next' = next + 1 /\ next < Taken
  BY Numbers DEF PendingInv, InHand, Taken
<1>3. \A i : i \in InHand' <=> i \in InHand /\ i # next
  BY <1>2, Numbers DEF InHand
<1>4. /\ \A w \in Workers : job[w] # next
      /\ \A k \in 1..Len(results) : results[k] # next
  BY DEF PendingInv
<1>5. TypeOK'
  BY <1>1, Numbers DEF TypeOK
<1>6. JobsInv'
  BY <1>2, Numbers DEF JobsInv
<1>7. WorkersInv' /\ ResultsInv' /\ PendingInv'
  BY <1>3, <1>4 DEF WorkersInv, ResultsInv, PendingInv
<1>8. HeldInv'
  BY <1>3 DEF HeldInv, Held, ErrorQueued
<1>9. WireInv'
  <2>1. Len(wire) = next - ResumeIndex /\ returned # "ok"
    BY Numbers, SMTT(30) DEF WireInv
  <2>2. \A k \in 1..(next' - ResumeIndex) : wire'[k] = ResumeIndex + k - 1
    <3> SUFFICES ASSUME NEW k \in 1..(next' - ResumeIndex)
                 PROVE  wire'[k] = ResumeIndex + k - 1
      OBVIOUS
    <3>1. k \in 1..Len(wire) \/ k = Len(wire) + 1
      BY <2>1, <1>2, Numbers, SMTT(30)
    <3> QED
      BY <3>1, <2>1, <1>1, Numbers, SMTT(30) DEF WireInv
  <2> QED
    <3>1. Len(wire') = next' - ResumeIndex
      BY <2>1, <1>1, <1>2, Numbers
    <3>2. Len(wire') # next' - ResumeIndex + 1
      BY <3>1, <1>2, Numbers
    <3>3. returned' # "ok"
      BY <2>1
    <3>4. next' - ResumeIndex <= Len(wire') /\ Len(wire') <= next' - ResumeIndex + 1
      BY <3>1, <1>2, Numbers
    <3> QED
      BY <2>2, <3>1, <3>2, <3>3, <3>4, Zenon DEF WireInv
<1>10. ExitInv' /\ WriterInv' /\ MainInv'
  BY DEF ExitInv, WriterInv, MainInv, ErrorQueued
<1> QED
  BY <1>5, <1>6, <1>7, <1>8, <1>9, <1>10

\* The writer fails.
LEMMA EncodeFailsKeeps == IInv /\ EncodeFails => IInv'
<1> SUFFICES ASSUME IInv, EncodeFails PROVE IInv'
  OBVIOUS
<1> USE DEF IInv, EncodeFails, WriterFails, mainVars, jobVars, workVars, resultVars
<1>1. TypeOK'
  BY DEF TypeOK
<1>2. JobsInv' /\ WorkersInv' /\ ResultsInv' /\ PendingInv' /\ HeldInv'
  BY NothingMoves DEF WorkersInv, HeldInv
<1>3. WireInv' /\ ExitInv' /\ WriterInv' /\ MainInv'
  BY DEF WireInv, ExitInv, WriterInv, MainInv, ErrorQueued
<1> QED
  BY <1>1, <1>2, <1>3

\* The writer waits for the next chunk.
LEMMA FlushedKeeps == IInv /\ Flushed => IInv'
<1> SUFFICES ASSUME IInv, Flushed PROVE IInv'
  OBVIOUS
<1> USE DEF IInv, Flushed, mainVars, jobVars, workVars, resultVars
<1>1. TypeOK'
  BY DEF TypeOK
<1>2. JobsInv' /\ WorkersInv' /\ ResultsInv' /\ PendingInv' /\ HeldInv'
  BY NothingMoves DEF WorkersInv, HeldInv
<1>3. WireInv' /\ ExitInv' /\ WriterInv' /\ MainInv'
  BY DEF WireInv, ExitInv, WriterInv, MainInv, ErrorQueued
<1> QED
  BY <1>1, <1>2, <1>3

\* The writer has drained the results.
LEMMA ResultsDoneKeeps == IInv /\ ResultsDone => IInv'
<1> SUFFICES ASSUME IInv, ResultsDone PROVE IInv'
  OBVIOUS
<1> USE DEF IInv, ResultsDone, mainVars, jobVars, workVars, resultVars
<1>1. TypeOK'
  BY DEF TypeOK
<1>2. JobsInv' /\ WorkersInv' /\ ResultsInv' /\ PendingInv' /\ HeldInv'
  BY NothingMoves DEF WorkersInv, HeldInv
<1>3. WireInv' /\ ExitInv' /\ WriterInv' /\ MainInv'
  BY DEF WireInv, ExitInv, WriterInv, MainInv, ErrorQueued
<1> QED
  BY <1>1, <1>2, <1>3

\* The writer reports once, nil or its error.
LEMMA ReportKeeps == IInv /\ Report => IInv'
<1> SUFFICES ASSUME IInv, Report PROVE IInv'
  OBVIOUS
<1> USE DEF IInv, Report, mainVars, jobVars, workVars, resultVars
<1>1. /\ netErrCh' \in Seq({"nil", "error"}) /\ Len(netErrCh') = 1
      /\ Head(netErrCh') = "nil" <=> ~writerErr
  OBVIOUS
<1>2. TypeOK'
  BY <1>1 DEF TypeOK
<1>3. JobsInv' /\ WorkersInv' /\ ResultsInv' /\ PendingInv' /\ HeldInv'
  BY NothingMoves DEF WorkersInv, HeldInv
<1>4. WireInv' /\ ExitInv' /\ WriterInv' /\ MainInv'
  BY <1>1 DEF WireInv, ExitInv, WriterInv, MainInv, ErrorQueued
<1> QED
  BY <1>2, <1>3, <1>4

-----------------------------------------------------------------------------
(* The theorems.                                                           *)

\* Every step keeps the invariant.
LEMMA StepIInv == IInv /\ [Next]_vars => IInv'
<1> SUFFICES ASSUME IInv, [Next]_vars PROVE IInv'
  OBVIOUS
<1>1. CASE MainStep
  BY <1>1, SkipChunkKeeps, CutChunkKeeps, FeedJobKeeps, StopFeedingKeeps, AbortReturnKeeps,
     FeedInterruptedKeeps, EndOfFileKeeps, AwaitWriterKeeps, SendEndKeeps DEF MainStep
<1>2. ASSUME NEW w \in Workers, WorkerStep(w) PROVE IInv'
  BY <1>2, TakeJobKeeps, JobsDoneKeeps, ProcessKeeps, OfferKeeps, AbandonKeeps
     DEF WorkerStep
<1>3. CASE WriterStep
  BY <1>3, ReceiveKeeps, EncodeKeeps, EncodeFailsKeeps, FlushedKeeps, ResultsDoneKeeps,
     ReportKeeps DEF WriterStep
<1>4. CASE CloseResults
  BY <1>4, CloseResultsKeeps
<1>5. CASE ContextDone
  BY <1>5, StopFeedingKeeps
<1>6. CASE UNCHANGED vars
  BY <1>6, StutterKeeps
<1> QED
  BY <1>1, <1>2, <1>3, <1>4, <1>5, <1>6 DEF Next, GoroutineStep, Idle

\* The invariant holds in every reachable state.
THEOREM Invariance == Spec => []IInv
BY InitIInv, StepIInv, PTL DEF Spec

\* The variables keep their types: no channel ever holds more than its capacity and no
\* goroutine is in a state the code does not have.
THEOREM TypeCorrect == Spec => []TypeOK
<1>1. IInv => TypeOK
  BY DEF IInv
<1> QED
  BY <1>1, Invariance, PTL

\* The receiver gets the chunks from the resume index on, in order and none twice, and
\* the end packet only after the last of them, for any number of workers.
THEOREM PacketsInOrder == Spec => []WireInOrder
<1>1. ASSUME IInv PROVE WireInOrder
  <2> SUFFICES ASSUME NEW k \in 1..Len(wire)
               PROVE  \/ wire[k] = ResumeIndex + k - 1
                      \/ wire[k] = EndPacket /\ k = Len(wire) /\ k > N - ResumeIndex
    BY DEF WireInOrder
  <2>1. TypeOK /\ WireInv
    BY <1>1 DEF IInv
  <2>2. CASE k \in 1..(next - ResumeIndex)
    BY <2>1, <2>2 DEF WireInv
  <2>3. CASE k = next - ResumeIndex + 1
    <3>1. Len(wire) = next - ResumeIndex + 1
      BY <2>1, <2>3, Numbers DEF WireInv
    <3> QED
      BY <2>1, <2>3, <3>1, Numbers, SMTT(30) DEF WireInv
  <2> QED
    BY <2>1, <2>2, <2>3, Numbers, SMTT(30) DEF WireInv
<1> QED
  BY <1>1, Invariance, PTL

\* SendFile does not return nil before every chunk and the end packet are written,
\* whichever workers, writes or cancellations went wrong meanwhile.
THEOREM NilMeansSent == Spec => []SuccessIsComplete
<1>1. ASSUME IInv PROVE SuccessIsComplete
  <2> SUFFICES ASSUME returned = "ok"
               PROVE  /\ wire # <<>> /\ wire[Len(wire)] = EndPacket
                      /\ {wire[k] : k \in 1..(Len(wire) - 1)}
                           = {i \in Chunks : i >= ResumeIndex}
    BY DEF SuccessIsComplete
  <2>1. TypeOK /\ WireInv /\ JobsInv
    BY <1>1 DEF IInv
  <2>2. /\ Len(wire) = next - ResumeIndex + 1 /\ wire[Len(wire)] = EndPacket
        /\ next >= N /\ next >= ResumeIndex /\ (next = ResumeIndex \/ next <= N)
    BY <2>1, Numbers DEF WireInv, JobsInv, TypeOK, Taken
  <2>3. wire # <<>>
    BY <2>1, <2>2, Numbers, EmptySeq DEF TypeOK
  <2>4. \A k \in 1..(Len(wire) - 1) : wire[k] = ResumeIndex + k - 1
    BY <2>1, <2>2, Numbers, SMTT(30) DEF WireInv
  <2>5. ASSUME NEW k \in 1..(Len(wire) - 1)
        PROVE  wire[k] \in {i \in Chunks : i >= ResumeIndex}
    BY <2>2, <2>4, <2>1, Numbers, SMTT(30) DEF Chunks
  <2>6. ASSUME NEW i \in Chunks, i >= ResumeIndex
        PROVE  i \in {wire[k] : k \in 1..(Len(wire) - 1)}
    <3>1. /\ i - ResumeIndex + 1 \in 1..(Len(wire) - 1)
          /\ ResumeIndex + (i - ResumeIndex + 1) - 1 = i
      BY <2>1, <2>2, <2>6, Numbers, SMTT(30) DEF Chunks
    <3> QED
      BY <2>4, <3>1
  <2> QED
    BY <2>2, <2>3, <2>5, <2>6
<1> QED
  BY <1>1, Invariance, PTL

\* A chunk is at most in one place.
LEMMA OnePlace ==
  ASSUME IInv, NEW i \in Chunks
  PROVE  \A x, y \in Places(i) : x = y
<1> USE DEF IInv
<1>1. i \in Int /\ i # NoChunk /\ i # Error /\ i # EndPacket
  BY Numbers DEF Chunks, NoChunk, Error, EndPacket
<1>2. ASSUME NEW k \in 1..Len(jobs), jobs[k] = i
      PROVE  i = Taken + k - 1 /\ i >= Taken /\ i >= next
  <2>1. jobs # <<>> /\ i = Taken + k - 1
    BY <1>2, EmptySeq DEF JobsInv
  <2> QED
    BY <2>1, Numbers DEF JobsInv
<1>3. ASSUME NEW k \in 1..Len(wire), wire[k] = i
      PROVE  i = ResumeIndex + k - 1 /\ i < next
  <2>1. k \in 1..(next - ResumeIndex)
    BY <1>1, <1>3, Numbers, SMTT(30) DEF WireInv
  <2> QED
    BY <1>3, <2>1, Numbers, SMTT(30) DEF WireInv
<1>4. i \in InHand <=> next <= i /\ i < Taken
  BY <1>1, Numbers DEF InHand
<1>5. \A w \in Workers : job[w] = i => i \in InHand
  BY <1>1 DEF WorkersInv
<1>6. \A k \in 1..Len(results) : results[k] = i => i \in InHand
  BY <1>1 DEF ResultsInv
<1>7. i \in pendingPkts => i \in InHand
  BY DEF PendingInv
<1>8. CASE i >= Taken /\ i >= next
  <2>1. \A x \in Places(i) : \E k \in 1..Len(jobs) : x = <<"jobs", k>> /\ i = Taken + k - 1
    BY <1>1, <1>2, <1>3, <1>4, <1>5, <1>6, <1>7, <1>8, Numbers DEF Places
  <2> QED
    BY <2>1, <1>1, Numbers, SMTT(30)
<1>9. CASE i < next
  <2>1. \A x \in Places(i) :
          \E k \in 1..Len(wire) : x = <<"wire", k>> /\ i = ResumeIndex + k - 1
    BY <1>1, <1>2, <1>3, <1>4, <1>5, <1>6, <1>7, <1>9, Numbers DEF Places
  <2> QED
    BY <2>1, <1>1, Numbers, SMTT(30)
<1>10. CASE i \in InHand
  <2>1. \A x \in Places(i) :
          \/ \E w \in Workers : x = <<"worker", w>> /\ job[w] = i
          \/ \E k \in 1..Len(results) : x = <<"results", k>> /\ results[k] = i
          \/ x = <<"pending", i>> /\ i \in pendingPkts
    BY <1>1, <1>2, <1>3, <1>4, <1>10, Numbers DEF Places
  <2>2. \A v, w \in Workers : job[v] = i /\ job[w] = i => v = w
    BY <1>1 DEF WorkersInv
  <2>3. \A k, l \in 1..Len(results) : results[k] = i /\ results[l] = i => k = l
    BY <1>1 DEF ResultsInv
  <2>4. \A w \in Workers, k \in 1..Len(results) : ~ (job[w] = i /\ results[k] = i)
    BY DEF ResultsInv
  <2>5. i \in pendingPkts => /\ \A w \in Workers : job[w] # i
                             /\ \A k \in 1..Len(results) : results[k] # i
    BY DEF PendingInv
  <2> QED
    BY <2>1, <2>2, <2>3, <2>4, <2>5
<1> QED
  BY <1>1, <1>4, <1>8, <1>9, <1>10, Numbers

\* A set with at most one element has cardinality 0 or 1.
LEMMA AtMostOne ==
  ASSUME NEW S, \A x, y \in S : x = y
  PROVE  /\ Cardinality(S) <= 1
         /\ S # {} => Cardinality(S) = 1
<1>1. CASE S = {}
  BY <1>1, FS_EmptySet
<1>2. CASE S # {}
  <2>1. PICK x \in S : S = {x}
    BY <1>2
  <2>2. Cardinality(S) = 1
    BY <2>1, FS_Singleton
  <2> QED
    BY <1>2, <2>2
<1> QED
  BY <1>1, <1>2

\* No chunk is dropped, duplicated or overwritten between main, workers and writer.
THEOREM ChunksAccountedFor == Spec => []NoChunkLost
<1>1. ASSUME IInv PROVE NoChunkLost
  <2> SUFFICES ASSUME NEW i \in Chunks
               PROVE  /\ Cardinality(Places(i)) <= 1
                      /\ i >= ResumeIndex /\ i < idx /\ ~stopped
                         /\ (\A w \in Workers : workerPc[w] # "exited")
                           => Cardinality(Places(i)) = 1
    BY DEF NoChunkLost
  <2> USE <1>1 DEF IInv
  <2>1. \A x, y \in Places(i) : x = y
    BY OnePlace
  <2>2. ASSUME i >= ResumeIndex, i < idx, ~stopped,
               \A w \in Workers : workerPc[w] # "exited"
        PROVE  Places(i) # {}
    <3>1. i \in Int
      BY Numbers DEF Chunks
    <3>2. CASE i < next
      <4>1. /\ i - ResumeIndex + 1 \in 1..(next - ResumeIndex)
            /\ i - ResumeIndex + 1 \in 1..Len(wire)
            /\ ResumeIndex + (i - ResumeIndex + 1) - 1 = i
        BY <2>2, <3>1, <3>2, Numbers, SMTT(30) DEF WireInv
      <4>2. wire[i - ResumeIndex + 1] = i
        BY <4>1 DEF WireInv
      <4> QED
        BY <4>1, <4>2 DEF Places
    <3>3. CASE i \in InHand
      <4>1. Held(i)
        BY <2>2, <3>3 DEF HeldInv, ExitInv
      <4> QED
        BY <4>1 DEF Held, Places
    <3>4. CASE i >= Taken
      <4>1. /\ i - Taken + 1 \in 1..Len(jobs)
            /\ Taken + (i - Taken + 1) - 1 = i
        <5>1. Taken + Len(jobs) = idx
          BY Numbers DEF Taken
        <5> QED
          BY <2>2, <3>1, <3>4, <5>1, Numbers
      <4>2. jobs[i - Taken + 1] = i
        BY <4>1 DEF JobsInv
      <4> QED
        BY <4>1, <4>2 DEF Places
    <3> QED
      BY <3>1, <3>2, <3>3, <3>4, Numbers DEF InHand
  <2> QED
    BY <2>1, <2>2, AtMostOne
<1> QED
  BY <1>1, Invariance, PTL
=============================================================================
