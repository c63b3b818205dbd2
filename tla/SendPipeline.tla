----------------------------- MODULE SendPipeline -----------------------------
(***************************************************************************)
(* The sender's chunk pipeline of internal/network/transport.go, shared in *)
(* two copies by SendFileWithOptions and SendFileOverConn: the caller's    *)
(* goroutine cuts chunks and feeds them to Parallelism workers over jobs;  *)
(* the workers persist and encrypt them in any order and pass them over    *)
(* results to one writer, which puts them back in order and encodes them   *)
(* on the stream.  A closer goroutine closes results after the workers,    *)
(* and the channel stopped releases workers nobody listens to any more.    *)
(*                                                                         *)
(* A chunk is its index; the start and resume packets have been exchanged. *)
(***************************************************************************)
EXTENDS Integers, Sequences, FiniteSets

CONSTANTS Workers,          \* opts.Parallelism goroutines
          N,                \* chunks of the file
          ResumeIndex       \* what the receiver's resume packet asked for

ASSUME PipelineAssumption == /\ IsFiniteSet(Workers) /\ Workers # {}
                             /\ N \in Nat /\ ResumeIndex \in Nat

ChannelSize == 2 * Cardinality(Workers)

Chunks == 0..(N - 1)
NoChunk == -1
Error == -2                 \* a result that carries an error
EndPacket == -3             \* the packet that closes the transfer

VARIABLES
  mainPc,                   \* the goroutine that called SendFile...
  idx,                      \* index of the chunk it looks at
  returned,                 \* what it returned: "none", "ok" or "error"
  jobs, jobsClosed,         \* channel main -> workers
  workerPc, job,            \* each worker, and the chunk it holds
  results, resultsClosed,   \* channel workers -> writer
  stopped,                  \* is the channel stopped closed?
  writerPc, next, pendingPkts, writerErr,
  netErrCh,                 \* channel writer -> main, capacity 1
  wire                      \* the packets encoded on the stream

mainVars == <<mainPc, idx, returned>>
jobVars == <<jobs, jobsClosed>>
workVars == <<workerPc, job>>
resultVars == <<results, resultsClosed>>
writerVars == <<writerPc, next, pendingPkts, writerErr>>
vars == <<mainVars, jobVars, workVars, resultVars, stopped, writerVars,
          netErrCh, wire>>

TypeOK ==
  /\ mainPc \in {"feed", "select", "abort", "wait", "end", "returned"}
  /\ idx \in 0..N
  /\ returned \in {"none", "ok", "error"}
  /\ stopped \in BOOLEAN
  /\ jobs \in Seq(Chunks) /\ Len(jobs) <= ChannelSize /\ jobsClosed \in BOOLEAN
  /\ workerPc \in [Workers -> {"take", "process", "offer", "fail", "exited"}]
  /\ job \in [Workers -> Chunks \cup {NoChunk}]
  /\ results \in Seq(Chunks \cup {Error}) /\ Len(results) <= ChannelSize
  /\ resultsClosed \in BOOLEAN
  /\ writerPc \in {"receive", "flush", "report", "exited"}
  /\ next \in Nat /\ pendingPkts \subseteq Chunks /\ writerErr \in BOOLEAN
  /\ netErrCh \in Seq({"nil", "error"}) /\ Len(netErrCh) <= 1
  /\ wire \in Seq(Chunks \cup {EndPacket})

Init == /\ mainPc = "feed" /\ idx = 0 /\ returned = "none"
        /\ stopped = FALSE
        /\ jobs = <<>> /\ jobsClosed = FALSE
        /\ workerPc = [w \in Workers |-> "take"]
        /\ job = [w \in Workers |-> NoChunk]
        /\ results = <<>> /\ resultsClosed = FALSE
        /\ writerPc = "receive" /\ next = ResumeIndex
        /\ pendingPkts = {} /\ writerErr = FALSE
        /\ netErrCh = <<>>
        /\ wire = <<>>

-----------------------------------------------------------------------------
\* The feeding loop of the caller's goroutine.

\* Chunks the receiver has already are cut and dropped.
SkipChunk == /\ mainPc = "feed" /\ idx < N /\ idx < ResumeIndex
             /\ idx' = idx + 1
             /\ UNCHANGED <<mainPc, returned, jobVars, workVars, resultVars,
                            stopped, writerVars, netErrCh, wire>>

\* With a chunk in hand the loop can only wait for one of the cases of its select.
CutChunk == /\ mainPc = "feed" /\ idx < N /\ idx >= ResumeIndex
            /\ mainPc' = "select"
            /\ UNCHANGED <<idx, returned, jobVars, workVars, resultVars,
                           stopped, writerVars, netErrCh, wire>>

FeedJob == /\ mainPc = "select"
           /\ Len(jobs) < ChannelSize
           /\ jobs' = Append(jobs, idx)
           /\ idx' = idx + 1
           /\ mainPc' = "feed"
           /\ UNCHANGED <<returned, jobsClosed, workVars, resultVars,
                          stopped, writerVars, netErrCh, wire>>

\* Stop the workers, then wait for the writer.
StopFeeding == /\ jobsClosed' = TRUE
               /\ stopped' = TRUE
               /\ mainPc' = "abort"
               /\ UNCHANGED <<idx, returned, jobs, workVars, resultVars, writerVars,
                              netErrCh, wire>>

CutFails == mainPc = "feed" /\ idx < N /\ StopFeeding

\* The caller's context may be done at any time or never; this select alone looks at it.
ContextDone == mainPc = "select" /\ StopFeeding

\* Mutant of AbortReturn: the writer's result is returned, not the error of the loop.
AbortReturn_WriterResult ==
  /\ mainPc = "abort" /\ netErrCh # <<>>
  /\ netErrCh' = Tail(netErrCh)
  /\ mainPc' = "returned"
  /\ returned' = IF Head(netErrCh) = "nil" THEN "ok" ELSE "error"
  /\ UNCHANGED <<idx, jobVars, workVars, resultVars, stopped,
                 writerVars, wire>>

AbortReturn == /\ mainPc = "abort" /\ netErrCh # <<>>
               /\ netErrCh' = Tail(netErrCh)
               /\ mainPc' = "returned" /\ returned' = "error"
               /\ UNCHANGED <<idx, jobVars, workVars, resultVars, stopped,
                              writerVars, wire>>

\* The writer reported while chunks were still being fed.
FeedInterrupted == /\ mainPc = "select" /\ netErrCh # <<>>
                   /\ netErrCh' = Tail(netErrCh)
                   /\ jobsClosed' = TRUE
                   /\ mainPc' = "returned"
                   /\ returned' = IF Head(netErrCh) = "nil" THEN "ok" ELSE "error"
                   /\ UNCHANGED <<idx, jobs, workVars, resultVars, stopped,
                                  writerVars, wire>>

EndOfFile == /\ mainPc = "feed" /\ idx = N
             /\ jobsClosed' = TRUE
             /\ mainPc' = "wait"
             /\ UNCHANGED <<idx, returned, jobs, workVars, resultVars,
                            stopped, writerVars, netErrCh, wire>>

AwaitWriter == /\ mainPc = "wait" /\ netErrCh # <<>>
               /\ netErrCh' = Tail(netErrCh)
               /\ IF Head(netErrCh) = "nil"
                    THEN /\ stopped' = TRUE
                         /\ mainPc' = "end"
                         /\ UNCHANGED returned
                    ELSE /\ mainPc' = "returned" /\ returned' = "error"
                         /\ UNCHANGED stopped
               /\ UNCHANGED <<idx, jobVars, workVars, resultVars, writerVars,
                              wire>>

\* Encode the end packet, close the stream, read until the receiver closes its
\* side; only the last cannot fail the call.
SendEnd == /\ mainPc = "end"
           /\ mainPc' = "returned"
           /\ \/ returned' = "error" /\ UNCHANGED wire
              \/ returned' \in {"ok", "error"} /\ wire' = Append(wire, EndPacket)
           /\ UNCHANGED <<idx, jobVars, workVars, resultVars, stopped,
                          writerVars, netErrCh>>

-----------------------------------------------------------------------------
\* A worker.

TakeJob(w) == /\ workerPc[w] = "take" /\ jobs # <<>>
              /\ job' = [job EXCEPT ![w] = Head(jobs)]
              /\ jobs' = Tail(jobs)
              /\ workerPc' = [workerPc EXCEPT ![w] = "process"]
              /\ UNCHANGED <<mainVars, jobsClosed, resultVars, stopped,
                             writerVars, netErrCh, wire>>

JobsDone(w) == /\ workerPc[w] = "take" /\ jobs = <<>> /\ jobsClosed
               /\ workerPc' = [workerPc EXCEPT ![w] = "exited"]
               /\ UNCHANGED <<mainVars, jobVars, job, resultVars, stopped,
                              writerVars, netErrCh, wire>>

\* Persist the chunk and encrypt it; either may fail.
Process(w) == /\ workerPc[w] = "process"
              /\ \E outcome \in {"offer", "fail"} :
                   workerPc' = [workerPc EXCEPT ![w] = outcome]
              /\ UNCHANGED <<mainVars, jobVars, job, resultVars, stopped,
                             writerVars, netErrCh, wire>>

\* Mutant of Offer: results grows without a bound.
Offer_WithoutBound(w) ==
  /\ workerPc[w] \in {"offer", "fail"}
  /\ results' = Append(results, IF workerPc[w] = "offer" THEN job[w] ELSE Error)
  /\ workerPc' = [workerPc EXCEPT ![w] = IF @ = "offer" THEN "take" ELSE "exited"]
  /\ job' = [job EXCEPT ![w] = NoChunk]
  /\ UNCHANGED <<mainVars, jobVars, resultsClosed, stopped, writerVars,
                 netErrCh, wire>>

\* After an error result the worker returns.
Offer(w) ==
  /\ workerPc[w] \in {"offer", "fail"}
  /\ Len(results) < ChannelSize
  /\ results' = Append(results, IF workerPc[w] = "offer" THEN job[w] ELSE Error)
  /\ workerPc' = [workerPc EXCEPT ![w] = IF @ = "offer" THEN "take" ELSE "exited"]
  /\ job' = [job EXCEPT ![w] = NoChunk]
  /\ UNCHANGED <<mainVars, jobVars, resultsClosed, stopped, writerVars,
                 netErrCh, wire>>

\* The other case of the same select.
Abandon(w) ==
  /\ workerPc[w] \in {"offer", "fail"} /\ stopped
  /\ workerPc' = [workerPc EXCEPT ![w] = "exited"]
  /\ job' = [job EXCEPT ![w] = NoChunk]
  /\ UNCHANGED <<mainVars, jobVars, resultVars, stopped, writerVars,
                 netErrCh, wire>>

\* The goroutine that waits for the workers.
CloseResults == /\ ~resultsClosed
                /\ \A w \in Workers : workerPc[w] = "exited"
                /\ resultsClosed' = TRUE
                /\ UNCHANGED <<mainVars, jobVars, workVars, results, stopped,
                               writerVars, netErrCh, wire>>

-----------------------------------------------------------------------------
\* The writer.

\* Leave the loop with an error: release the workers, then report.
WriterFails == /\ stopped' = TRUE
               /\ writerErr' = TRUE
               /\ writerPc' = "report"

\* Mutant of Receive: one slot for the packet that is waiting for its turn.
Receive_OneSlot ==
  /\ writerPc = "receive" /\ results # <<>>
  /\ results' = Tail(results)
  /\ IF Head(results) = Error
       THEN WriterFails /\ UNCHANGED pendingPkts
       ELSE /\ pendingPkts' = {Head(results)}
            /\ writerPc' = "flush"
            /\ UNCHANGED <<stopped, writerErr>>
  /\ UNCHANGED <<mainVars, jobVars, workVars, resultsClosed, next, netErrCh,
                 wire>>

\* Mutant of Receive: results are read only after all chunks have been fed.
Receive_AfterFeeding ==
  /\ writerPc = "receive" /\ results # <<>>
  /\ mainPc \notin {"feed", "select"}
  /\ results' = Tail(results)
  /\ IF Head(results) = Error
       THEN WriterFails /\ UNCHANGED pendingPkts
       ELSE /\ pendingPkts' = pendingPkts \cup {Head(results)}
            /\ writerPc' = "flush"
            /\ UNCHANGED <<stopped, writerErr>>
  /\ UNCHANGED <<mainVars, jobVars, workVars, resultsClosed, next, netErrCh,
                 wire>>

Receive == /\ writerPc = "receive" /\ results # <<>>
           /\ results' = Tail(results)
           /\ IF Head(results) = Error
                THEN WriterFails /\ UNCHANGED pendingPkts
                ELSE /\ pendingPkts' = pendingPkts \cup {Head(results)}
                     /\ writerPc' = "flush"
                     /\ UNCHANGED <<stopped, writerErr>>
           /\ UNCHANGED <<mainVars, jobVars, workVars, resultsClosed, next,
                          netErrCh, wire>>

\* Mutant of Encode: the packet that just arrived is written, in its turn or not.
Encode_AsTheyCome ==
  /\ writerPc = "flush" /\ pendingPkts # {}
  /\ \E i \in pendingPkts :
       /\ pendingPkts' = pendingPkts \ {i}
       /\ wire' = Append(wire, i)
  /\ next' = next + 1
  /\ UNCHANGED <<mainVars, jobVars, workVars, resultVars, stopped, writerPc,
                 writerErr, netErrCh>>

\* Write the next packet in order, if it is there.
Encode == /\ writerPc = "flush" /\ next \in pendingPkts
          /\ wire' = Append(wire, next)
          /\ pendingPkts' = pendingPkts \ {next}
          /\ next' = next + 1
          /\ UNCHANGED <<mainVars, jobVars, workVars, resultVars, stopped,
                         writerPc, writerErr, netErrCh>>

EncodeFails == /\ writerPc = "flush" /\ next \in pendingPkts
               /\ WriterFails
               /\ UNCHANGED <<mainVars, jobVars, workVars, resultVars, next,
                              pendingPkts, netErrCh, wire>>

Flushed == /\ writerPc = "flush" /\ next \notin pendingPkts
           /\ writerPc' = "receive"
           /\ UNCHANGED <<mainVars, jobVars, workVars, resultVars, stopped,
                          next, pendingPkts, writerErr, netErrCh, wire>>

ResultsDone == /\ writerPc = "receive" /\ results = <<>> /\ resultsClosed
               /\ writerPc' = "report"
               /\ UNCHANGED <<mainVars, jobVars, workVars, resultVars, stopped,
                              next, pendingPkts, writerErr, netErrCh, wire>>

Report == /\ writerPc = "report" /\ netErrCh = <<>>
          /\ netErrCh' = <<IF writerErr THEN "error" ELSE "nil">>
          /\ writerPc' = "exited"
          /\ UNCHANGED <<mainVars, jobVars, workVars, resultVars, stopped,
                         next, pendingPkts, writerErr, wire>>

-----------------------------------------------------------------------------
MainStep == \/ SkipChunk \/ CutChunk \/ FeedJob \/ CutFails \/ AbortReturn \/ FeedInterrupted
            \/ EndOfFile \/ AwaitWriter \/ SendEnd

WorkerStep(w) == TakeJob(w) \/ JobsDone(w) \/ Process(w) \/ Offer(w) \/ Abandon(w)

WriterStep == Receive \/ Encode \/ EncodeFails \/ Flushed \/ ResultsDone \/ Report

AllExited == /\ mainPc = "returned" /\ writerPc = "exited" /\ resultsClosed
             /\ \A w \in Workers : workerPc[w] = "exited"

\* After the call the process goes on without it.
Idle == mainPc = "returned" /\ UNCHANGED vars

\* A step of one of the goroutines of the call.
GoroutineStep == \/ MainStep \/ CloseResults \/ WriterStep
                 \/ \E w \in Workers : WorkerStep(w)

Next == GoroutineStep \/ ContextDone \/ Idle

Spec == Init /\ [][Next]_vars

\* When a goroutine can go on, one of them does; a write on the stream returns.  Nothing
\* says that the context is ever done.
Fairness == WF_vars(GoroutineStep)

FairSpec == Spec /\ Fairness

-----------------------------------------------------------------------------
(* Properties.                                                             *)

\* Whatever order the workers finish in, the packets on the stream are the
\* chunks from the resume index on, in order and none twice, and the end packet
\* comes only after the last of them (the receiver rejects anything else).
WireInOrder ==
  \A k \in 1..Len(wire) :
    \/ wire[k] = ResumeIndex + k - 1
    \/ wire[k] = EndPacket /\ k = Len(wire) /\ k > N - ResumeIndex

\* SendFile returns nil only if every chunk and the end packet were written,
\* also when workers fail, a write fails or the context is cancelled midway.
SuccessIsComplete ==
  returned = "ok" =>
    /\ wire # <<>> /\ wire[Len(wire)] = EndPacket
    /\ {wire[k] : k \in 1..(Len(wire) - 1)} = {i \in Chunks : i >= ResumeIndex}

\* Where chunk i is on its way from main to the stream.
Places(i) == {<<"jobs", k>> : k \in {k \in 1..Len(jobs) : jobs[k] = i}}
        \cup {<<"worker", w>> : w \in {w \in Workers : job[w] = i}}
        \cup {<<"results", k>> : k \in {k \in 1..Len(results) : results[k] = i}}
        \cup {<<"pending", i>> : j \in pendingPkts \cap {i}}
        \cup {<<"wire", k>> : k \in {k \in 1..Len(wire) : wire[k] = i}}

\* A chunk that was cut is in exactly one place of the pipeline until a failure
\* or a cancellation stops it; after that no chunk is in two places.
NoChunkLost ==
  \A i \in Chunks :
    LET copies == Cardinality(Places(i))
    IN  /\ copies <= 1
        /\ (i >= ResumeIndex /\ i < idx /\ ~stopped /\ \A w \in Workers : workerPc[w] # "exited")
             => copies = 1

\* Success, failure or cancellation: the call returns, and it leaves no worker,
\* closer or writer goroutine behind (transport.go:223 claims it).  Feeder, workers and
\* writer never wait for each other with every channel full (transport.go:286 claims that).
EverybodyReturns == <>AllExited
=============================================================================
