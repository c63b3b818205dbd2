---------------------------- MODULE ResumeTransfer ----------------------------
(***************************************************************************)
(* One file sent over QUIC, session after session, and the receiver's      *)
(* resume sidecar: internal/network/transport.go, SendFileWithOptions      *)
(* against ReceiveOnceWithOptions.  The receiver appends each chunk to the *)
(* output file, stores it, and then truncates and writes the sidecar; a    *)
(* later session starts where the sidecar says.  Sessions are cut by lost  *)
(* connections, by a sender that gives up, by two sides that wait for each *)
(* other, and by a receiver that dies in or between two of these writes or *)
(* sees one of them fail.                                                  *)
(*                                                                         *)
(* Sources are files with the same base name; size and modification time,  *)
(* which the sidecar records beside the name, tell them apart.  A piece of *)
(* the output file is a chunk or a part of one.  SendPipeline shows that   *)
(* the chunk packets are written in index order; here they are sent in     *)
(* that order.                                                             *)
(***************************************************************************)
EXTENDS Integers, Sequences

CONSTANTS Sources,          \* versions of the file that are sent
          N,                \* chunks in each
          SendFlags,        \* values of SendOptions.Resume in use
          ReceiveFlags,     \* values of ReceiveOptions.Resume in use
          StreamWindow,     \* bound: packets in flight on the stream
          FaultBound,       \* bound: sessions cut by network or sender, or repeated
          ReceiverFaultBound  \* bound: failures of the receiver

ASSUME TransferAssumption ==
  /\ N \in Nat \ {0} /\ StreamWindow \in Nat \ {0}
  /\ FaultBound \in Nat /\ ReceiverFaultBound \in Nat
  /\ SendFlags \subseteq BOOLEAN /\ ReceiveFlags \subseteq BOOLEAN
  /\ "none" \notin Sources     \* the source of no file
  /\ "torn" \notin Sources

\* A write that did not get through leaves a part of its chunk.
Piece == [src : Sources, index : 0..(N - 1), whole : BOOLEAN]

Whole(s, i) == [src |-> s, index |-> i, whole |-> TRUE]
Part(s, i) == [src |-> s, index |-> i, whole |-> FALSE]

File(s) == [k \in 1..N |-> Whole(s, k - 1)]

Packet == [type : {"start", "chunk", "end"}, src : Sources, index : 0..(N - 1)]

NoSidecar == [src |-> "none", next |-> 0]
TornSidecar == [src |-> "torn", next |-> 0]   \* empty or cut off: it does not parse
NoAck == -1
NoSource == "none"

VARIABLES
  out, sidecar,             \* the output file and its .resume.json (durable)
  rcv,                      \* the receiver: where it is
  rcvResume, rcvSrc,        \* its option, and the file of the start packet
  nextIndex,
  ended,                    \* history: it returned on an end packet
  snd, sndResume, sndSrc, sndNext,  \* the sender
  sentOk,                   \* history: files SendFile returned nil for
  connUp,                   \* is the QUIC connection usable?
  fin,                      \* has the sender closed its side of the stream?
  stream,                   \* packets written and not yet read
  ack,                      \* the resume packet on its way back
  faults, rcvFaults,        \* how many there were
  stale                     \* history: a file was truncated that a sidecar describes

diskVars == <<out, sidecar>>
rcvVars == <<rcv, rcvResume, rcvSrc, nextIndex, ended>>
sndVars == <<snd, sndResume, sndSrc, sndNext, sentOk>>
connVars == <<connUp, fin, stream, ack>>
envVars == <<faults, rcvFaults, stale>>
vars == <<diskVars, rcvVars, sndVars, connVars, envVars>>

TypeOK ==
  /\ out \in Seq(Piece)
  /\ sidecar \in [src : Sources, next : 1..N] \cup {NoSidecar, TornSidecar}
  /\ rcv \in {"down", "listening", "accepted", "receiving", "store", "persist", "rewrite"}
  /\ rcvResume \in BOOLEAN /\ rcvSrc \in Sources \cup {NoSource}
  /\ nextIndex \in 0..N
  /\ ended \in BOOLEAN
  /\ snd \in {"idle", "await", "sending", "closing"}
  /\ sndResume \in BOOLEAN /\ sndSrc \in Sources \cup {NoSource}
  /\ sndNext \in 0..N /\ sentOk \subseteq Sources
  /\ connUp \in BOOLEAN /\ fin \in BOOLEAN
  /\ stream \in Seq(Packet) /\ Len(stream) <= StreamWindow
  /\ ack \in 0..N \cup {NoAck}
  /\ faults \in 0..FaultBound /\ rcvFaults \in 0..ReceiverFaultBound
  /\ stale \in BOOLEAN

Init == /\ out = <<>> /\ sidecar = NoSidecar
        /\ rcv = "down" /\ rcvResume = TRUE /\ rcvSrc = NoSource
        /\ nextIndex = 0 /\ ended = FALSE
        /\ snd = "idle" /\ sndResume = TRUE /\ sndSrc = NoSource
        /\ sndNext = 0 /\ sentOk = {}
        /\ connUp = FALSE /\ fin = FALSE /\ stream = <<>> /\ ack = NoAck
        /\ faults = 0 /\ rcvFaults = 0 /\ stale = FALSE

Fault == /\ faults < FaultBound
         /\ faults' = faults + 1
         /\ UNCHANGED <<rcvFaults, stale>>

ReceiverFault == /\ rcvFaults < ReceiverFaultBound
                 /\ rcvFaults' = rcvFaults + 1
                 /\ UNCHANGED <<faults, stale>>

-----------------------------------------------------------------------------
\* The sender.

Write(type, i) == /\ Len(stream) < StreamWindow
                  /\ stream' = Append(stream, [type |-> type, src |-> sndSrc, index |-> i])

\* Dial the listening receiver and send the start packet.  A delivery that
\* failed is tried again; one that succeeded may be repeated by another drain
\* of the queue.
StartSend(s, resume) ==
  /\ snd = "idle"
  /\ IF s \in sentOk THEN Fault ELSE UNCHANGED envVars
  /\ rcv = "listening"
  /\ connUp' = TRUE /\ fin' = FALSE /\ ack' = NoAck
  /\ stream' = <<[type |-> "start", src |-> s, index |-> 0]>>
  /\ snd' = IF resume THEN "await" ELSE "sending"
  /\ sndResume' = resume /\ sndSrc' = s /\ sndNext' = 0
  /\ rcv' = "accepted"
  /\ UNCHANGED <<diskVars, rcvResume, rcvSrc, nextIndex, ended, sentOk>>

\* Mutant of ReadAck: the index is taken for the last one the receiver has.
ReadAck_AsLastReceived ==
  /\ snd = "await" /\ connUp /\ ack # NoAck
  /\ snd' = "sending"
  /\ sndNext' = IF ack > 0 /\ ack < N THEN ack + 1 ELSE ack
  /\ ack' = NoAck
  /\ UNCHANGED <<diskVars, rcvVars, sndResume, sndSrc, sentOk, connUp, fin, stream, envVars>>

\* The resume packet names the chunk to start from.
ReadAck == /\ snd = "await" /\ connUp /\ ack # NoAck
           /\ snd' = "sending"
           /\ sndNext' = ack
           /\ ack' = NoAck
           /\ UNCHANGED <<diskVars, rcvVars, sndResume, sndSrc, sentOk, connUp, fin,
                          stream, envVars>>

SendChunk == /\ snd = "sending" /\ connUp /\ sndNext < N
             /\ Write("chunk", sndNext)
             /\ sndNext' = sndNext + 1
             /\ UNCHANGED <<diskVars, rcvVars, snd, sndResume, sndSrc, sentOk, connUp,
                            fin, ack, envVars>>

\* The end packet, then the sender closes its side and reads until the
\* receiver closes the other.
SendEnd == /\ snd = "sending" /\ connUp /\ sndNext = N
           /\ Write("end", 0)
           /\ fin' = TRUE
           /\ snd' = "closing"
           /\ UNCHANGED <<diskVars, rcvVars, sndResume, sndSrc, sndNext, sentOk, connUp,
                          ack, envVars>>

SenderReset == /\ snd' = "idle" /\ sndSrc' = NoSource /\ sndNext' = 0
               /\ UNCHANGED sndResume

\* How the reading ended is ignored: SendFile returns nil.
SendReturns == /\ snd = "closing" /\ ~connUp
               /\ SenderReset
               /\ sentOk' = sentOk \cup {sndSrc}
               /\ UNCHANGED <<diskVars, rcvVars, connVars, envVars>>

\* The connection broke earlier: SendFile returns an error.
SendFails == /\ snd \in {"await", "sending"} /\ ~connUp
             /\ SenderReset
             /\ UNCHANGED <<diskVars, rcvVars, sentOk, connVars, envVars>>

\* The sender gives up (its context is cancelled, a chunk cannot be cut or
\* stored): its deferred calls close the stream and then the connection.  The
\* receiver may read what is in flight first, or lose it (LoseConnection).
SendAborts == /\ snd \in {"await", "sending"} /\ connUp
              /\ Fault
              /\ SenderReset
              /\ fin' = TRUE
              /\ UNCHANGED <<diskVars, rcvVars, sentOk, connUp, stream, ack>>

\* A lost connection loses what was in flight; also the idle timeout.
Disconnect == /\ connUp' = FALSE /\ stream' = <<>> /\ ack' = NoAck /\ fin' = FALSE

LoseConnection == /\ connUp
                  /\ Fault
                  /\ Disconnect
                  /\ UNCHANGED <<diskVars, rcvVars, sndVars>>

\* The sender waits for a resume packet that a receiver without Resume does not
\* send, and the receiver for a chunk.
WaitForEachOther == /\ snd = "await" /\ connUp /\ ack = NoAck
                    /\ rcv = "receiving" /\ stream = <<>> /\ ~fin

\* quic-go closes a connection on which nothing is sent.
IdleTimeout == /\ WaitForEachOther
               /\ Disconnect
               /\ UNCHANGED <<diskVars, rcvVars, sndVars, envVars>>

-----------------------------------------------------------------------------
\* The receiver.

Listen(resume) == /\ rcv = "down"
                  /\ rcv' = "listening" /\ rcvResume' = resume
                  /\ ended' = FALSE
                  /\ rcvSrc' = NoSource /\ nextIndex' = 0
                  /\ UNCHANGED <<diskVars, sndVars, connVars, envVars>>

\* ReceiveOnce returns; its deferred CloseWithError ends the connection.
Return == rcv' = "down" /\ Disconnect

Incoming(type) == rcv \in {"accepted", "receiving"} /\ stream # <<>>
                  /\ Head(stream).type = type

\* Mutant of ResumeFrom: resumes after the chunk the sidecar names.
ResumeFrom_OnePast(s) ==
  IF rcvResume /\ sidecar.src = s /\ sidecar.next < N THEN sidecar.next + 1 ELSE 0

\* The sidecar counts only if it can be read and names this very file.
ResumeFrom(s) == IF rcvResume /\ sidecar.src = s THEN sidecar.next ELSE 0

\* Mutant of Opened: the file is truncated also when it is resumed.
Opened_Truncates(resumed) == <<>>

\* O_APPEND for a resumed file, O_TRUNC for another.
Opened(resumed) == IF resumed > 0 THEN out ELSE <<>>

\* Mutant of ReceiveStart: a resumed file is received from its first chunk.
ReceiveStart_FromZero ==
  /\ Incoming("start")
  /\ rcvSrc' = Head(stream).src
  /\ nextIndex' = 0
  /\ out' = Opened(0)
  /\ ack' = IF rcvResume THEN 0 ELSE ack
  /\ rcv' = "receiving"
  /\ stream' = Tail(stream)
  /\ UNCHANGED <<sidecar, rcvResume, ended, sndVars, connUp, fin, envVars>>

\* Mutant of ReceiveStart: the index is sent only when there is one to tell.
ReceiveStart_SilentAtZero ==
  /\ Incoming("start")
  /\ LET resumed == ResumeFrom(Head(stream).src)
     IN /\ nextIndex' = resumed
        /\ out' = Opened(resumed)
        /\ ack' = IF rcvResume /\ resumed > 0 THEN resumed ELSE ack
        /\ stale' = (stale \/ (resumed = 0 /\ sidecar.src \in Sources))
  /\ rcvSrc' = Head(stream).src
  /\ rcv' = "receiving"
  /\ stream' = Tail(stream)
  /\ UNCHANGED <<sidecar, rcvResume, ended, sndVars, connUp, fin,
                 faults, rcvFaults>>

\* The sidecar of another file stays as it is; one without Resume is not read.
ReceiveStart ==
  /\ Incoming("start")
  /\ LET resumed == ResumeFrom(Head(stream).src)
     IN /\ nextIndex' = resumed
        /\ out' = Opened(resumed)
        /\ ack' = IF rcvResume THEN resumed ELSE ack
        /\ stale' = (stale \/ (resumed = 0 /\ sidecar.src \in Sources))
  /\ rcvSrc' = Head(stream).src
  /\ rcv' = "receiving"
  /\ stream' = Tail(stream)
  /\ UNCHANGED <<sidecar, rcvResume, ended, sndVars, connUp, fin,
                 faults, rcvFaults>>

\* Mutant of ReceiveChunk: chunks the file has already are not skipped.
ReceiveChunk_KeepsOld ==
  /\ Incoming("chunk")
  /\ IF Head(stream).index > nextIndex
       THEN Return /\ UNCHANGED out
       ELSE /\ out' = Append(out, Whole(rcvSrc, Head(stream).index))
            /\ rcv' = "store"
            /\ stream' = Tail(stream)
            /\ UNCHANGED <<connUp, fin, ack>>
  /\ UNCHANGED <<sidecar, rcvResume, rcvSrc, nextIndex, ended, sndVars, envVars>>

\* An old chunk is skipped, a chunk from beyond ends the session, the expected
\* one is appended to the file.
ReceiveChunk ==
  /\ Incoming("chunk")
  /\ \/ /\ Head(stream).index < nextIndex
        /\ stream' = Tail(stream)
        /\ UNCHANGED <<out, rcv, connUp, fin, ack>>
     \/ /\ Head(stream).index > nextIndex
        /\ Return
        /\ UNCHANGED out
     \/ /\ Head(stream).index = nextIndex
        /\ out' = Append(out, Whole(rcvSrc, nextIndex))
        /\ rcv' = "store"
        /\ stream' = Tail(stream)
        /\ UNCHANGED <<connUp, fin, ack>>
  /\ UNCHANGED <<sidecar, rcvResume, rcvSrc, nextIndex, ended, sndVars, envVars>>

\* The write on the output file fails, or the receiver dies in it, when a part of the
\* chunk is in the file.
AppendFails == /\ Incoming("chunk") /\ Head(stream).index = nextIndex
               /\ out' = Append(out, Part(rcvSrc, nextIndex))
               /\ ReceiverFault
               /\ Return
               /\ UNCHANGED <<sidecar, rcvResume, rcvSrc, nextIndex, ended, sndVars>>

\* The chunk store has taken the chunk.
StoreChunk == /\ rcv = "store"
              /\ nextIndex' = nextIndex + 1
              /\ rcv' = IF rcvResume THEN "persist" ELSE "receiving"
              /\ UNCHANGED <<diskVars, rcvResume, rcvSrc, ended, sndVars,
                             connVars, envVars>>

StoreFails == /\ rcv = "store"
              /\ ReceiverFault
              /\ Return
              /\ UNCHANGED <<diskVars, rcvResume, rcvSrc, nextIndex, ended, sndVars>>

\* os.WriteFile opens and truncates the sidecar ...
PersistState == /\ rcv = "persist"
                /\ sidecar' = TornSidecar
                /\ rcv' = "rewrite"
                /\ UNCHANGED <<out, rcvResume, rcvSrc, nextIndex, ended,
                               sndVars, connVars, envVars>>

\* Mutant of WriteState: records the chunk after the next.
WriteState_OneAhead ==
  /\ rcv = "rewrite"
  /\ sidecar' = [src |-> rcvSrc, next |-> nextIndex + 1]
  /\ rcv' = "receiving"
  /\ UNCHANGED <<out, rcvResume, rcvSrc, nextIndex, ended, sndVars,
                 connVars, envVars>>

\* ... and then writes it.
WriteState == /\ rcv = "rewrite"
              /\ sidecar' = [src |-> rcvSrc, next |-> nextIndex]
              /\ rcv' = "receiving"
              /\ UNCHANGED <<out, rcvResume, rcvSrc, nextIndex, ended,
                             sndVars, connVars, envVars>>

\* The sidecar cannot be opened and stays as it was, or cannot be written and stays
\* truncated.
PersistFails == /\ rcv \in {"persist", "rewrite"}
                /\ ReceiverFault
                /\ Return
                /\ UNCHANGED <<diskVars, rcvResume, rcvSrc, nextIndex, ended, sndVars>>

\* That the sidecar cannot be removed is ignored.
ReceiveEnd == /\ Incoming("end")
              /\ \/ /\ sidecar' = IF rcvResume THEN NoSidecar ELSE sidecar
                    /\ UNCHANGED envVars
                 \/ /\ rcvResume
                    /\ ReceiverFault
                    /\ UNCHANGED sidecar
              /\ ended' = TRUE
              /\ Return
              /\ UNCHANGED <<out, rcvResume, rcvSrc, nextIndex, sndVars>>

\* The sender closed the stream without an end packet: the loop is left, and
\* ReceiveOnce returns nil.
ReceiveEOF == /\ rcv = "receiving" /\ connUp /\ fin /\ stream = <<>>
              /\ Return
              /\ UNCHANGED <<diskVars, rcvResume, rcvSrc, nextIndex, ended, sndVars,
                             envVars>>

ReceiveFails == /\ rcv \in {"accepted", "receiving"} /\ ~connUp
                /\ Return
                /\ UNCHANGED <<diskVars, rcvResume, rcvSrc, nextIndex, ended, sndVars,
                               envVars>>

\* The receiver process dies: what it wrote stays.
ReceiverCrashes == /\ rcv # "down"
                   /\ ReceiverFault
                   /\ rcv' = "down"
                   /\ IF connUp THEN Disconnect ELSE UNCHANGED connVars
                   /\ UNCHANGED <<diskVars, rcvResume, rcvSrc, nextIndex, ended, sndVars>>

-----------------------------------------------------------------------------
SenderStep == \/ ReadAck \/ SendChunk \/ SendEnd \/ SendReturns \/ SendFails

ReceiverStep == \/ ReceiveStart \/ ReceiveChunk \/ StoreChunk \/ PersistState \/ WriteState
                \/ ReceiveEnd \/ ReceiveEOF \/ ReceiveFails

Start == \/ \E s \in Sources, f \in SendFlags : StartSend(s, f)
         \/ \E f \in ReceiveFlags : Listen(f)

StartUnsent == Start /\ UNCHANGED faults

Next == \/ Start \/ SenderStep \/ ReceiverStep \/ IdleTimeout
        \/ SendAborts \/ LoseConnection
        \/ AppendFails \/ StoreFails \/ PersistFails \/ ReceiverCrashes

Spec == Init /\ [][Next]_vars

\* Both processes run, failed sends are retried (the WAL), the receiver is
\* started again, quic-go times out, and faults are finitely many.
Fairness == /\ WF_vars(StartUnsent) /\ WF_vars(SenderStep) /\ WF_vars(ReceiverStep)
            /\ WF_vars(IdleTimeout)

FairSpec == Spec /\ Fairness

-----------------------------------------------------------------------------
(* Properties.                                                             *)

IsPrefixOf(s, k) == out = SubSeq(File(s), 1, k)

\* While no receiver failed and no file was truncated under a sidecar (section 4
\* of the README has what happens then), the output file is a prefix of what is
\* sent, and the receiver and the sidecar know its length: no sequence of lost
\* connections, aborts, time-outs, versions, options and resumes duplicates,
\* drops or reorders a chunk.
FileIsPrefix ==
  rcvFaults = 0 /\ ~stale =>
    \A s \in Sources :
      /\ rcv # "down" /\ rcvSrc = s =>
           IsPrefixOf(s, IF rcv = "store" THEN nextIndex + 1 ELSE nextIndex)
      /\ sidecar.src = s /\ rcv \in {"down", "listening", "accepted"} =>
           IsPrefixOf(s, sidecar.next)

\* A receiver that returned because of an end packet has the whole file, however
\* many sessions it took.
EndMeansComplete == ended /\ rcvFaults = 0 /\ ~stale => IsPrefixOf(rcvSrc, N)

\* What was received is not received again: a session that finds a sidecar starts at
\* the end of the file or, after a failure of the receiver, with its last chunk.  Only
\* a receiver that failed while the sidecar was truncated starts over.
ProgressIsKept ==
  [][rcv = "accepted" /\ rcv' = "receiving" /\ rcvResume /\ sidecar # NoSidecar /\ ~stale' =>
       /\ rcvFaults = 0 => nextIndex' = Len(out)
       /\ \/ sidecar = TornSidecar /\ nextIndex' = 0 /\ out' = <<>>
          \/ nextIndex' - out[Len(out)].index \in {0, 1} /\ out' = out]_vars

\* A receiver that dies or fails between two of its writes, or in one, has chunks sent
\* again: that may repeat a chunk in the file, or leave a part of one before its
\* repetition, but it never drops or reorders one, and at the end packet none is missing.
CrashOnlyRepeats ==
  ~stale =>
    /\ \A k \in 1..Len(out) :
         IF k = 1 THEN out[k].index = 0
                  ELSE \/ out[k].index = out[k - 1].index
                       \/ out[k].index = out[k - 1].index + 1 /\ out[k - 1].whole
    /\ ended => out # <<>> /\ out[Len(out)].index = N - 1 /\ out[Len(out)].whole

\* Sender and receiver wait for each other, until quic-go gives up, only when the
\* sender resumes and the receiver does not.
WaitOnlyOnDisagreement == WaitForEachOther => sndResume /\ ~rcvResume

Agreed == snd # "idle" /\ connUp /\ (sndResume => rcvResume)

\* Retrying gets there: if sessions whose options agree keep being started, every
\* file is eventually reported as sent, failures of the receiver included.
EveryFileSent == []<>Agreed => <>(sentOk = Sources)

-----------------------------------------------------------------------------
(* What comments of the source say and the code does not do.               *)

\* transport.go:130: the sidecar is kept "so the receiver can tell the sender
\* which chunks have already been written": the index it sends back is that of
\* the first chunk the file does not have.
AckTellsWhatIsWritten == ack # NoAck /\ snd = "await" => IsPrefixOf(rcvSrc, ack)
=============================================================================
