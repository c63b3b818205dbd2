------------------------- MODULE ResumeTransferProofs -------------------------
(***************************************************************************)
(* Proofs about ResumeTransfer, for any number of versions and chunks, any *)
(* options on either side and any bounds on packets in flight and faults.  *)
(***************************************************************************)
EXTENDS ResumeTransfer, SequenceTheorems, TLAPS

-----------------------------------------------------------------------------
(* The inductive invariant.                                                *)

\* The receiver has read the start packet; how many chunks of the file it has appended.
InSession == rcv \in {"receiving", "store", "persist", "rewrite"}
Received == IF rcv = "store" THEN nextIndex + 1 ELSE nextIndex

\* Does the sidecar speak of a file?
Named == sidecar.src \in Sources

\* The index of the last piece in the output file, and whether it is a whole chunk.
LastIndex == IF out = <<>> THEN -1 ELSE out[Len(out)].index
LastWhole == out # <<>> => out[Len(out)].whole

\* The file ends where chunk i goes on, or with chunk i or a part of it.
EndsAt(i) == LastIndex = i \/ (LastIndex = i - 1 /\ LastWhole)

\* The output file is the first k chunks of s.
FirstChunks(s, k) ==
  Len(out) = k /\ \A j \in 1..k : out[j] = Whole(s, j - 1)

\* What each side knows in each of its states.
SidesInv ==
  /\ ~connUp => stream = <<>> /\ ack = NoAck /\ ~fin
  /\ rcv \in {"down", "listening"} => ~connUp
  /\ rcv \in {"listening", "accepted"} => rcvSrc = NoSource
  /\ InSession => rcvSrc \in Sources
  /\ rcv = "store" => nextIndex < N
  /\ rcv \in {"persist", "rewrite"} => nextIndex >= 1 /\ rcvResume
  /\ ended => rcv = "down" /\ nextIndex = N /\ rcvSrc \in Sources
  /\ snd # "idle" => sndSrc \in Sources
  /\ snd = "await" => sndResume

\* The packets in flight: the start packet first, chunks with consecutive indices, the
\* end packet after the last chunk.
OrderInv ==
  /\ \A k \in 1..Len(stream) : stream[k].type = "start" => k = 1 /\ rcv = "accepted"
  /\ \A k \in 1..(Len(stream) - 1) :
       LET p == stream[k]
           q == stream[k + 1]
       IN \/ p.type = "start" /\ q.type = "chunk" /\ q.index = 0
          \/ p.type = "chunk" /\ q.type = "chunk" /\ q.index = p.index + 1
          \/ p.type = "chunk" /\ q.type = "end" /\ p.index = N - 1

\* The first packet in flight follows what the receiver has, without a gap.
HeadInv ==
  /\ connUp /\ rcv = "accepted" => stream # <<>> /\ stream[1].type = "start" /\ ack = NoAck
  /\ InSession /\ stream # <<>> =>
       \/ stream[1].type = "chunk" /\ stream[1].index <= Received
       \/ stream[1].type = "end" /\ Received = N

\* The sender goes on after the last packet in flight.
LastInv ==
  /\ snd = "sending" /\ connUp /\ stream = <<>> => sndNext <= Received
  /\ snd = "sending" /\ connUp /\ stream # <<>> =>
       LET p == stream[Len(stream)]
       IN \/ p.type = "start" /\ sndNext = 0
          \/ p.type = "chunk" /\ sndNext = p.index + 1
  /\ snd = "await" /\ connUp => \A k \in 1..Len(stream) : stream[k].type = "start"
  /\ snd = "await" /\ ack # NoAck => ack <= Received
  /\ snd = "await" /\ connUp /\ InSession /\ rcvResume => ack # NoAck

\* A receiver that resumes rewrites the sidecar of its own file only; until a file is
\* truncated under one, there is no other sidecar.  Only a failure leaves it torn.
SidecarInv ==
  LET counted == IF rcv = "persist" THEN nextIndex - 1 ELSE nextIndex
  IN /\ InSession /\ rcvResume /\ sidecar.src = rcvSrc => sidecar.next = counted
     /\ ~stale /\ InSession /\ Named => rcvResume /\ sidecar.src = rcvSrc
     /\ rcv = "rewrite" => sidecar = TornSidecar
     /\ sidecar = TornSidecar => rcv = "rewrite" \/ rcvFaults > 0

\* While the receiver does not fail, the file is the prefix the sidecar describes.
FileInv ==
  rcvFaults = 0 /\ ~stale =>
    /\ InSession \/ ended => FirstChunks(rcvSrc, Received)
    /\ rcv \in {"down", "listening", "accepted"} /\ Named =>
         FirstChunks(sidecar.src, sidecar.next)

\* What may follow what in the file.
InOrder(file, k) ==
  IF k = 1 THEN file[k].index = 0
           ELSE \/ file[k].index = file[k - 1].index
                \/ file[k].index = file[k - 1].index + 1 /\ file[k - 1].whole

\* Whatever fails, the file ends where the next chunk goes on, or with that chunk, which
\* is then appended again.
RepeatInv ==
  ~stale =>
    /\ \A k \in 1..Len(out) : InOrder(out, k)
    /\ rcv = "receiving" => EndsAt(nextIndex)
    /\ rcv = "store" => LastIndex = nextIndex /\ LastWhole
    /\ rcv \in {"persist", "rewrite"} => LastIndex = nextIndex - 1 /\ LastWhole
    /\ rcv \in {"down", "listening", "accepted"} /\ Named => EndsAt(sidecar.next)
    /\ ended => LastIndex = N - 1 /\ LastWhole

IInv == /\ TypeOK /\ SidesInv /\ OrderInv /\ HeadInv /\ LastInv /\ SidecarInv
        /\ FileInv /\ RepeatInv

-----------------------------------------------------------------------------
(* What the steps of the proof have in common.                             *)

\* The numbers the invariant speaks of.
LEMMA Numbers ==
  ASSUME TypeOK
  PROVE  /\ N \in Nat /\ N >= 1 /\ StreamWindow \in Nat /\ StreamWindow >= 1
         /\ nextIndex \in 0..N /\ sndNext \in 0..N
         /\ Received \in Nat /\ Len(out) \in Nat /\ Len(stream) \in Nat
         /\ \A k \in 1..Len(stream) : stream[k] \in Packet
         /\ \A k \in 1..Len(out) : out[k] \in Piece
BY TransferAssumption, LenProperties, ElementOfSeq DEF TypeOK, Received

\* The prefix, with its chunks named.
LEMMA PrefixIsFirstChunks ==
  ASSUME TypeOK, NEW s \in Sources, NEW k \in 0..N
  PROVE  IsPrefixOf(s, k) <=> FirstChunks(s, k)
<1> DEFINE whole == File(s)
           prefix == SubSeq(whole, 1, k)
<1>1. \A i \in 1..k : whole[i] = Whole(s, i - 1) /\ whole[i] \in Piece
  BY Numbers DEF File, Whole, Piece
<1>2. IsPrefixOf(s, k) <=> out = prefix
  BY DEF IsPrefixOf
<1> HIDE DEF whole
<1>3. k \in Nat /\ 1 \in Int
  BY Numbers
<1>4. /\ prefix \in Seq(Piece)
      /\ Len(prefix) = IF 1 <= k THEN k - 1 + 1 ELSE 0
      /\ \A i \in 1..(k - 1 + 1) : prefix[i] = whole[1 + i - 1]
  <2>1. \A i \in 1..k : whole[i] \in Piece
    BY <1>1
  <2> HIDE DEF prefix
  <2>2. \A f, m, n : m \in Int /\ n \in Int /\ (\A i \in m..n : f[i] \in Piece) =>
            /\ SubSeq(f, m, n) \in Seq(Piece)
            /\ Len(SubSeq(f, m, n)) = IF m <= n THEN n - m + 1 ELSE 0
            /\ \A i \in 1..(n - m + 1) : SubSeq(f, m, n)[i] = f[m + i - 1]
    BY SubSeqProperties
  <2> QED
    BY <2>1, <2>2, <1>3 DEF prefix
<1> HIDE DEF prefix
<1>5. Len(prefix) = k /\ \A i \in 1..k : prefix[i] = Whole(s, i - 1)
  <2>1. Len(prefix) = k /\ \A i \in 1..k : 1 + i - 1 = i /\ i \in 1..(k - 1 + 1)
    BY <1>3, <1>4
  <2>2. \A i \in 1..k : prefix[i] = whole[i]
    BY <2>1, <1>4
  <2> QED
    BY <2>1, <2>2, <1>1
<1>6. ASSUME FirstChunks(s, k) PROVE out = prefix
  <2>1. out \in Seq(Piece) /\ Len(out) = k
    BY <1>6 DEF TypeOK, FirstChunks
  <2>2. \A i \in 1..Len(out) : out[i] = prefix[i]
    BY <1>5, <1>6 DEF FirstChunks
  <2> QED
    BY <2>1, <2>2, <1>4, <1>5, SeqEqual
<1> QED
  BY <1>2, <1>5, <1>6 DEF FirstChunks

\* What the receiver has written is not touched by the sender or the network.
LEMMA ReceiverUntouched ==
  ASSUME IInv,
         UNCHANGED <<out, sidecar, rcv, rcvResume, rcvSrc, nextIndex, ended, stale, rcvFaults>>
  PROVE  SidecarInv' /\ FileInv' /\ RepeatInv'
BY DEF IInv, SidecarInv, FileInv, RepeatInv, InSession, Received, EndsAt, LastIndex, LastWhole,
       Named, FirstChunks

\* When the connection is gone, so are the packets.
LEMMA Cut ==
  ASSUME ~connUp', stream' = <<>>, ack' = NoAck
  PROVE  OrderInv' /\ HeadInv' /\ LastInv'
BY EmptySeq DEF OrderInv, HeadInv, LastInv

\* The invariant holds before the first session.
LEMMA InitIInv == Init => IInv
<1> SUFFICES ASSUME Init PROVE IInv
  OBVIOUS
<1> USE TransferAssumption DEF Init
<1>1. TypeOK
  <2>1. /\ rcvResume \in BOOLEAN /\ sndResume \in BOOLEAN /\ ended \in BOOLEAN
        /\ connUp \in BOOLEAN /\ fin \in BOOLEAN /\ stale \in BOOLEAN
    BY Zenon
  <2>2. /\ out \in Seq(Piece) /\ stream \in Seq(Packet) /\ Len(stream) = 0
    BY EmptySeq
  <2> QED
    BY <2>1, <2>2 DEF TypeOK
<1>2. SidesInv /\ SidecarInv
  BY DEF SidesInv, SidecarInv, InSession, NoSidecar, TornSidecar
<1>3. OrderInv /\ HeadInv /\ LastInv
  BY EmptySeq DEF OrderInv, HeadInv, LastInv, InSession
<1>4. FileInv /\ RepeatInv
  BY EmptySeq DEF FileInv, RepeatInv, InSession, Named, NoSidecar
<1> QED
  BY <1>1, <1>2, <1>3, <1>4 DEF IInv

-----------------------------------------------------------------------------
(* The sender and the network.                                             *)

\* A sender connects and sends its start packet.
LEMMA StartSendKeeps ==
  ASSUME IInv, NEW s \in Sources, NEW resume \in SendFlags, StartSend(s, resume)
  PROVE  IInv'
<1> USE DEF IInv, StartSend, diskVars, envVars
<1> DEFINE p == [type |-> "start", src |-> s, index |-> 0]
<1>1. p \in Packet
  BY Numbers DEF Packet
<1>2. /\ stream' \in Seq(Packet) /\ Len(stream') = 1 /\ stream'[1] = p
      /\ stream' # <<>>
  BY <1>1
<1>3. rcvFaults' = rcvFaults /\ stale' = stale /\ faults' \in 0..FaultBound
  BY TransferAssumption DEF Fault, TypeOK
<1>4. TypeOK'
  <2>1. connUp' \in BOOLEAN /\ fin' \in BOOLEAN /\ sndResume' \in BOOLEAN
    BY TransferAssumption, Zenon
  <2> QED
    BY <1>2, <1>3, <2>1, Numbers DEF TypeOK
<1>5. SidesInv'
  BY DEF SidesInv, InSession
<1>6. OrderInv' /\ HeadInv' /\ LastInv'
  BY <1>2 DEF OrderInv, HeadInv, LastInv, InSession
<1>7. SidecarInv' /\ FileInv' /\ RepeatInv'
  BY <1>3 DEF SidecarInv, FileInv, RepeatInv, InSession, FirstChunks, EndsAt, LastIndex,
             LastWhole, Named, SidesInv
<1> QED
  BY <1>4, <1>5, <1>6, <1>7

\* The sender goes on where the resume packet says.
LEMMA ReadAckKeeps == IInv /\ ReadAck => IInv'
<1> SUFFICES ASSUME IInv, ReadAck PROVE IInv'
  OBVIOUS
<1> USE DEF IInv, ReadAck, diskVars, rcvVars, envVars
<1>1. TypeOK'
  BY DEF TypeOK, NoAck
<1>2. SidesInv'
  BY DEF SidesInv, InSession
<1>3. stream = <<>>
  <2> SUFFICES ASSUME stream # <<>> PROVE FALSE
    OBVIOUS
  <2>1. 1 \in 1..Len(stream)
    BY EmptySeq, Numbers DEF TypeOK
  <2>2. rcv = "accepted"
    BY <2>1 DEF LastInv, OrderInv
  <2> QED
    BY <2>2 DEF HeadInv
<1>4. OrderInv' /\ HeadInv' /\ LastInv'
  BY <1>3, EmptySeq DEF OrderInv, HeadInv, LastInv, InSession, Received
<1>5. SidecarInv' /\ FileInv' /\ RepeatInv'
  BY ReceiverUntouched
<1> QED
  BY <1>1, <1>2, <1>4, <1>5

\* A packet written is the last in flight.
LEMMA WriteAppends ==
  ASSUME TypeOK, sndSrc \in Sources,
         NEW type \in {"chunk", "end"}, NEW i \in 0..(N - 1), Write(type, i)
  PROVE  /\ stream' \in Seq(Packet) /\ Len(stream') = Len(stream) + 1
         /\ Len(stream') <= StreamWindow /\ stream' # <<>>
         /\ \A k \in 1..Len(stream) : stream'[k] = stream[k]
         /\ stream'[Len(stream')] = [type |-> type, src |-> sndSrc, index |-> i]
<1>1. [type |-> type, src |-> sndSrc, index |-> i] \in Packet
  BY DEF Packet
<1> QED
  BY <1>1, AppendProperties, Numbers DEF Write, TypeOK

\* The sender sends the next chunk.
LEMMA SendChunkKeeps == IInv /\ SendChunk => IInv'
<1> SUFFICES ASSUME IInv, SendChunk PROVE IInv'
  OBVIOUS
<1> USE DEF IInv, SendChunk, diskVars, rcvVars, envVars
<1>1. sndSrc \in Sources /\ sndNext \in 0..(N - 1)
  BY Numbers DEF SidesInv
<1>2. /\ stream' \in Seq(Packet) /\ Len(stream') = Len(stream) + 1
      /\ Len(stream') <= StreamWindow /\ stream' # <<>>
      /\ \A k \in 1..Len(stream) : stream'[k] = stream[k]
      /\ stream'[Len(stream')] = [type |-> "chunk", src |-> sndSrc, index |-> sndNext]
  BY <1>1, WriteAppends
<1>3. Len(stream) \in Nat /\ (stream = <<>> <=> Len(stream) = 0)
  BY EmptySeq, Numbers DEF TypeOK
<1>4. TypeOK'
  BY <1>1, <1>2, Numbers DEF TypeOK
<1>5. SidesInv'
  BY DEF SidesInv, InSession
<1>6. OrderInv'
  <2>1. \A k \in 1..Len(stream') : stream'[k].type = "start" => k = 1 /\ rcv' = "accepted"
    BY <1>2, <1>3 DEF OrderInv
  <2>2. ASSUME NEW k \in 1..(Len(stream') - 1)
        PROVE  LET p == stream'[k]
                   q == stream'[k + 1]
               IN \/ p.type = "start" /\ q.type = "chunk" /\ q.index = 0
                  \/ p.type = "chunk" /\ q.type = "chunk" /\ q.index = p.index + 1
                  \/ p.type = "chunk" /\ q.type = "end" /\ p.index = N - 1
    <3>1. CASE k = Len(stream)
      BY <3>1, <1>2, <1>3 DEF LastInv
    <3>2. CASE k \in 1..(Len(stream) - 1)
      <4>1. k \in 1..Len(stream) /\ k + 1 \in 1..Len(stream)
        BY <3>2, <1>3
      <4> QED
        BY <3>2, <4>1, <1>2 DEF OrderInv
    <3> QED
      BY <3>1, <3>2, <1>2, <1>3
  <2> QED
    BY <2>1, <2>2 DEF OrderInv
<1>7. HeadInv'
  BY <1>2, <1>3 DEF HeadInv, LastInv, InSession, Received
<1>8. LastInv'
  BY <1>2, <1>1 DEF LastInv
<1>9. SidecarInv' /\ FileInv' /\ RepeatInv'
  BY ReceiverUntouched
<1> QED
  BY <1>4, <1>5, <1>6, <1>7, <1>8, <1>9

\* The end packet follows the last chunk, in flight or received.
LEMMA SendEndKeeps == IInv /\ SendEnd => IInv'
<1> SUFFICES ASSUME IInv, SendEnd PROVE IInv'
  OBVIOUS
<1> USE DEF IInv, SendEnd, diskVars, rcvVars, envVars
<1>1. sndSrc \in Sources /\ 0 \in 0..(N - 1)
  BY Numbers DEF SidesInv
<1>2. /\ stream' \in Seq(Packet) /\ Len(stream') = Len(stream) + 1
      /\ Len(stream') <= StreamWindow /\ stream' # <<>>
      /\ \A k \in 1..Len(stream) : stream'[k] = stream[k]
      /\ stream'[Len(stream')] = [type |-> "end", src |-> sndSrc, index |-> 0]
  BY <1>1, WriteAppends
<1>3. Len(stream) \in Nat /\ (stream = <<>> <=> Len(stream) = 0)
  BY EmptySeq, Numbers DEF TypeOK
<1>4. TypeOK'
  <2>1. fin' \in BOOLEAN
    BY Zenon
  <2> QED
    BY <1>2, <2>1, Numbers DEF TypeOK
<1>5. SidesInv'
  BY DEF SidesInv, InSession
<1>6. OrderInv'
  <2>1. \A k \in 1..Len(stream') : stream'[k].type = "start" => k = 1 /\ rcv' = "accepted"
    BY <1>2, <1>3 DEF OrderInv
  <2>2. ASSUME NEW k \in 1..(Len(stream') - 1)
        PROVE  LET p == stream'[k]
                   q == stream'[k + 1]
               IN \/ p.type = "start" /\ q.type = "chunk" /\ q.index = 0
                  \/ p.type = "chunk" /\ q.type = "chunk" /\ q.index = p.index + 1
                  \/ p.type = "chunk" /\ q.type = "end" /\ p.index = N - 1
    <3>1. CASE k = Len(stream)
      <4>1. stream[k] \in Packet
        BY <3>1, <1>2, <1>3, Numbers
      <4> QED
        BY <3>1, <4>1, <1>2, <1>3, Numbers DEF LastInv, Packet
    <3>2. CASE k \in 1..(Len(stream) - 1)
      <4>1. k \in 1..Len(stream) /\ k + 1 \in 1..Len(stream)
        BY <3>2, <1>3
      <4> QED
        BY <3>2, <4>1, <1>2 DEF OrderInv
    <3> QED
      BY <3>1, <3>2, <1>2, <1>3
  <2> QED
    BY <2>1, <2>2 DEF OrderInv
<1>7. HeadInv'
  <2>1. stream = <<>> /\ InSession => Received = N
    BY Numbers DEF LastInv, SidesInv, Received
  <2> QED
    BY <2>1, <1>2, <1>3 DEF HeadInv, InSession, Received
<1>8. LastInv'
  BY DEF LastInv
<1>9. SidecarInv' /\ FileInv' /\ RepeatInv'
  BY ReceiverUntouched
<1> QED
  BY <1>4, <1>5, <1>6, <1>7, <1>8, <1>9

\* The sender is done, well or badly: it leaves the packets in flight.
LEMMA SenderGoesKeeps == IInv /\ (SendReturns \/ SendFails \/ SendAborts) => IInv'
<1> SUFFICES ASSUME IInv, SendReturns \/ SendFails \/ SendAborts PROVE IInv'
  OBVIOUS
<1> USE DEF IInv, SendReturns, SendFails, SendAborts, SenderReset, Fault, diskVars,
            rcvVars, connVars, envVars
<1>1. TypeOK'
  <2>1. fin' \in BOOLEAN
    BY Zenon DEF TypeOK
  <2>2. sentOk' \subseteq Sources
    BY DEF TypeOK, SidesInv
  <2>3. faults' \in 0..FaultBound
    BY TransferAssumption DEF TypeOK
  <2> QED
    BY <2>1, <2>2, <2>3, Numbers, SMTT(30) DEF TypeOK
<1>2. SidesInv'
  BY DEF SidesInv, InSession
<1>3. OrderInv' /\ HeadInv' /\ LastInv'
  BY DEF OrderInv, HeadInv, LastInv, InSession, Received
<1>4. SidecarInv' /\ FileInv' /\ RepeatInv'
  BY ReceiverUntouched
<1> QED
  BY <1>1, <1>2, <1>3, <1>4

\* A connection that goes takes along what was in flight.
LEMMA ConnectionGoesKeeps == IInv /\ (LoseConnection \/ IdleTimeout) => IInv'
<1> SUFFICES ASSUME IInv, LoseConnection \/ IdleTimeout PROVE IInv'
  OBVIOUS
<1> USE DEF IInv, LoseConnection, IdleTimeout, Disconnect, Fault, diskVars, rcvVars,
            sndVars, envVars
<1>1. TypeOK'
  <2>1. connUp' \in BOOLEAN /\ fin' \in BOOLEAN
    BY Zenon
  <2>2. stream' \in Seq(Packet) /\ Len(stream') = 0
    BY EmptySeq
  <2>3. faults' \in 0..FaultBound
    BY TransferAssumption DEF TypeOK
  <2> QED
    BY <2>1, <2>2, <2>3, Numbers, SMTT(30) DEF TypeOK
<1>2. SidesInv'
  BY DEF SidesInv, InSession
<1>3. OrderInv' /\ HeadInv' /\ LastInv'
  BY Cut
<1>4. SidecarInv' /\ FileInv' /\ RepeatInv'
  BY ReceiverUntouched
<1> QED
  BY <1>1, <1>2, <1>3, <1>4

-----------------------------------------------------------------------------
(* The receiver.                                                           *)

\* A receiver listens, with its file and its sidecar as they are.
LEMMA ListenKeeps ==
  ASSUME IInv, NEW resume \in ReceiveFlags, Listen(resume)
  PROVE  IInv'
<1> USE DEF IInv, Listen, diskVars, sndVars, connVars, envVars
<1>1. TypeOK'
  <2>1. rcvResume' \in BOOLEAN /\ ended' \in BOOLEAN
    BY TransferAssumption, Zenon
  <2> QED
    BY <2>1, Numbers DEF TypeOK
<1>2. SidesInv'
  BY DEF SidesInv, InSession
<1>3. OrderInv' /\ HeadInv' /\ LastInv'
  BY Cut DEF SidesInv
<1>4. SidecarInv' /\ FileInv' /\ RepeatInv'
  BY DEF SidecarInv, FileInv, RepeatInv, InSession, FirstChunks, EndsAt, LastIndex,
         LastWhole, Named, SidesInv
<1> QED
  BY <1>1, <1>2, <1>3, <1>4

\* Reading a packet leaves the rest of those in flight, in order.
LEMMA ReadTakes ==
  ASSUME IInv, stream # <<>>, stream' = Tail(stream)
  PROVE  /\ stream' \in Seq(Packet) /\ Len(stream') = Len(stream) - 1
         /\ Len(stream') <= StreamWindow
         /\ \A k \in 1..Len(stream') : stream'[k] = stream[k + 1]
         /\ Head(stream) = stream[1] /\ stream[1] \in Packet
         /\ Len(stream) \in Nat \ {0} /\ 1 \in 1..Len(stream)
         /\ stream' = <<>> <=> Len(stream) = 1
<1>1. stream \in Seq(Packet) /\ Len(stream) <= StreamWindow
  BY DEF IInv, TypeOK
<1>2. Len(stream) \in Nat \ {0}
  BY <1>1, EmptySeq
<1>3. /\ stream' \in Seq(Packet) /\ Len(stream') = Len(stream) - 1
      /\ \A k \in 1..Len(stream') : stream'[k] = stream[k + 1]
      /\ Head(stream) = stream[1] /\ stream[1] \in Packet
  BY <1>1, <1>2, HeadTailProperties
<1>4. stream' = <<>> <=> Len(stream') = 0
  BY <1>3, EmptySeq
<1> QED
  BY <1>1, <1>2, <1>3, <1>4, Numbers DEF IInv

\* The packet that follows the one just read.
LEMMA ReadOrder ==
  ASSUME IInv, rcv \in {"accepted", "receiving"}, stream # <<>>, stream' = Tail(stream)
  PROVE  /\ OrderInv'
         /\ stream' # <<>> =>
              LET p == stream[1]
                  q == stream'[1]
              IN \/ p.type = "start" /\ q.type = "chunk" /\ q.index = 0
                 \/ p.type = "chunk" /\ q.type = "chunk" /\ q.index = p.index + 1
                 \/ p.type = "chunk" /\ q.type = "end" /\ p.index = N - 1
         /\ stream' # <<>> => stream'[Len(stream')] = stream[Len(stream)]
<1> USE ReadTakes
<1>1. \A k \in 1..Len(stream') : k \in Int /\ k + 1 \in 1..Len(stream) /\ k + 1 # 1
  OBVIOUS
<1>2. \A k \in 1..Len(stream') : stream'[k].type # "start"
  BY <1>1 DEF IInv, OrderInv
<1>3. ASSUME NEW k \in 1..(Len(stream') - 1)
      PROVE  LET p == stream'[k]
                 q == stream'[k + 1]
             IN \/ p.type = "start" /\ q.type = "chunk" /\ q.index = 0
                \/ p.type = "chunk" /\ q.type = "chunk" /\ q.index = p.index + 1
                \/ p.type = "chunk" /\ q.type = "end" /\ p.index = N - 1
  <2>1. k \in 1..Len(stream') /\ k + 1 \in 1..Len(stream') /\ k + 1 \in 1..(Len(stream) - 1)
    OBVIOUS
  <2>2. stream'[k] = stream[k + 1] /\ stream'[k + 1] = stream[(k + 1) + 1]
    BY <2>1
  <2> QED
    BY <2>1, <2>2 DEF IInv, OrderInv
<1>4. OrderInv'
  BY <1>2, <1>3 DEF OrderInv
<1>5. ASSUME stream' # <<>>
      PROVE  /\ 1 \in 1..(Len(stream) - 1) /\ stream'[1] = stream[1 + 1]
             /\ stream'[Len(stream')] = stream[Len(stream)]
  BY <1>5
<1> QED
  BY <1>4, <1>5 DEF IInv, OrderInv

\* The next chunk, or a part of it, is a piece.
LEMMA NextPiece ==
  ASSUME TypeOK, rcvSrc \in Sources, nextIndex < N
  PROVE  /\ Whole(rcvSrc, nextIndex) \in Piece
         /\ Part(rcvSrc, nextIndex) \in Piece
         /\ Whole(rcvSrc, nextIndex).index = nextIndex
         /\ Part(rcvSrc, nextIndex).index = nextIndex
         /\ Whole(rcvSrc, nextIndex).whole
BY Numbers DEF Piece, Whole, Part

\* The piece appended to the file is the last.
LEMMA FileAppends ==
  ASSUME TypeOK, NEW piece \in Piece, out' = Append(out, piece)
  PROVE  /\ out' \in Seq(Piece) /\ Len(out') = Len(out) + 1 /\ out' # <<>>
         /\ \A k \in 1..Len(out) : out'[k] = out[k]
         /\ out'[Len(out) + 1] = piece
BY AppendProperties DEF TypeOK

\* It is in its place when it is the next chunk or a part of it.
LEMMA AppendInOrder ==
  ASSUME IInv, rcv = "receiving", ~stale,
         NEW piece \in Piece, piece.index = nextIndex, out' = Append(out, piece)
  PROVE  /\ \A k \in 1..Len(out') : InOrder(out', k)
         /\ LastIndex' = nextIndex /\ (piece.whole => LastWhole')
<1> USE DEF IInv
<1>1. /\ Len(out') = Len(out) + 1 /\ out' # <<>>
      /\ \A k \in 1..Len(out) : out'[k] = out[k]
      /\ out'[Len(out) + 1] = piece
  BY FileAppends
<1>2. LastIndex' = nextIndex /\ (piece.whole => LastWhole')
  BY <1>1 DEF LastIndex, LastWhole
<1>3. ASSUME NEW k \in 1..Len(out') PROVE InOrder(out', k)
  <2>1. CASE k \in 1..Len(out)
    <3>1. k # 1 => k - 1 \in 1..Len(out)
      BY <2>1, Numbers
    <3> QED
      BY <2>1, <3>1, <1>1 DEF RepeatInv, InOrder
  <2>2. CASE k = Len(out) + 1 /\ out = <<>>
    <3>1. k = 1 /\ nextIndex = 0
      BY <2>2, Numbers, EmptySeq DEF RepeatInv, EndsAt, LastIndex
    <3> QED
      BY <2>2, <3>1, <1>1 DEF InOrder
  <2>3. CASE k = Len(out) + 1 /\ out # <<>>
    <3>1. k # 1 /\ k - 1 = Len(out) /\ k - 1 \in 1..Len(out)
      BY <2>3, Numbers, EmptySeq DEF TypeOK
    <3>2. \/ out[Len(out)].index = nextIndex
          \/ out[Len(out)].index = nextIndex - 1 /\ out[Len(out)].whole
      BY <2>3 DEF RepeatInv, EndsAt, LastIndex, LastWhole
    <3>3. out'[k] = piece /\ out'[k - 1] = out[Len(out)]
      BY <2>3, <3>1, <1>1
    <3>4. \/ piece.index = out[Len(out)].index
          \/ piece.index = out[Len(out)].index + 1 /\ out[Len(out)].whole
      BY <3>2, Numbers, SMTT(30)
    <3> QED
      BY <3>1, <3>3, <3>4 DEF InOrder
  <2> QED
    BY <2>1, <2>2, <2>3, <1>1, Numbers
<1> QED
  BY <1>2, <1>3

\* A file that is resumed is the one the sidecar describes.
LEMMA ReceiveStartKeeps == IInv /\ ReceiveStart => IInv'
<1> SUFFICES ASSUME IInv, ReceiveStart PROVE IInv'
  OBVIOUS
<1> DEFINE s == Head(stream).src
           resumed == ResumeFrom(s)
<1> USE DEF IInv, ReceiveStart, Incoming, sndVars
<1>1. /\ stream # <<>> /\ stream' = Tail(stream) /\ rcv \in {"accepted", "receiving"}
      /\ Head(stream).type = "start" /\ nextIndex' = resumed /\ out' = Opened(resumed)
      /\ ack' = (IF rcvResume THEN resumed ELSE ack) /\ rcvSrc' = s
      /\ stale' = (stale \/ (resumed = 0 /\ Named))
  BY DEF Named
<1>2. s \in Sources /\ rcv = "accepted" /\ Head(stream) = stream[1]
  <2>1. Head(stream) = stream[1] /\ stream[1] \in Packet /\ 1 \in 1..Len(stream)
    BY <1>1, ReadTakes
  <2> QED
    BY <1>1, <2>1 DEF OrderInv, Packet
<1>3. /\ resumed \in 0..N
      /\ resumed > 0 => rcvResume /\ sidecar.src = s /\ sidecar.next = resumed /\ Named
      /\ rcvResume /\ sidecar.src = s => resumed = sidecar.next /\ resumed > 0
      /\ Named /\ resumed = 0 => stale'
  <2> HIDE DEF s
  <2>1. CASE rcvResume /\ sidecar.src = s
    <3>1. Named
      BY <2>1, <1>2 DEF Named
    <3>2. sidecar.next \in 1..N
      BY <3>1, TransferAssumption DEF TypeOK, Named, NoSidecar, TornSidecar
    <3>3. resumed = sidecar.next
      BY <2>1 DEF ResumeFrom
    <3> QED
      BY <2>1, <3>1, <3>2, <3>3, Numbers
  <2>2. CASE ~ (rcvResume /\ sidecar.src = s)
    <3>1. resumed = 0
      BY <2>2 DEF ResumeFrom
    <3>2. Named => stale'
      BY <3>1, <1>1
    <3> HIDE DEF resumed
    <3> QED
      BY <2>2, <3>1, <3>2, Numbers
  <2> QED
    BY <2>1, <2>2
<1> HIDE DEF s, resumed
<1>4. connUp /\ ack = NoAck
  BY <1>1, <1>2 DEF SidesInv, HeadInv
<1>5. out' \in Seq(Piece) /\ (resumed > 0 => out' = out) /\ (resumed = 0 => out' = <<>>)
  BY <1>1, <1>3, EmptySeq DEF TypeOK, Opened
<1>6. TypeOK'
  <2>1. stale' \in BOOLEAN
    BY <1>1, Zenon DEF TypeOK
  <2> QED
    BY <1>1, <1>2, <1>3, <1>5, <2>1, ReadTakes DEF TypeOK, NoAck
<1>7. SidesInv'
  BY <1>2, <1>4, <1>1 DEF SidesInv, InSession
<1>8. OrderInv' /\ HeadInv' /\ LastInv'
  <2>1. InSession' /\ Received' = resumed /\ resumed \in Nat
    BY <1>1, <1>3, Numbers DEF InSession, Received
  <2>2. HeadInv'
    BY <1>1, <1>2, <1>3, <2>1, ReadOrder DEF HeadInv
  <2>3. LastInv'
    <3>1. stream' = <<>> /\ snd = "sending" => sndNext = 0
      BY <1>1, <1>2, <1>4, ReadTakes DEF LastInv
    <3>2. stream' # <<>> => stream'[Len(stream')] = stream[Len(stream)]
      BY <1>1, ReadOrder
    <3>3. snd = "await" => stream' = <<>>
      <4> SUFFICES ASSUME snd = "await", stream' # <<>> PROVE FALSE
        OBVIOUS
      <4>1. stream'[1].type = "chunk"
        BY <1>1, <1>2, ReadOrder
      <4>2. 1 + 1 \in 1..Len(stream) /\ stream'[1] = stream[1 + 1]
        BY <1>1, ReadTakes
      <4> QED
        BY <4>1, <4>2, <1>4 DEF LastInv
    <3> QED
      BY <1>1, <1>3, <1>4, <2>1, <3>1, <3>2, <3>3, EmptySeq DEF LastInv, NoAck
  <2> QED
    BY <1>1, <2>2, <2>3, ReadOrder
<1>9. SidecarInv'
  BY <1>1, <1>2, <1>3 DEF SidecarInv, InSession, Named
<1>10. FileInv'
  <2> SUFFICES ASSUME rcvFaults' = 0, ~stale' PROVE FirstChunks(rcvSrc, Received)'
    BY <1>1 DEF FileInv, InSession
  <2>1. Received' = resumed
    BY <1>1 DEF Received
  <2>2. CASE resumed = 0
    BY <2>1, <2>2, <1>5, EmptySeq DEF FirstChunks
  <2>3. CASE resumed > 0
    BY <2>1, <2>3, <1>1, <1>2, <1>3, <1>5 DEF FirstChunks, FileInv
  <2> QED
    BY <2>2, <2>3, <1>3
<1>11. RepeatInv'
  <2> SUFFICES ASSUME ~stale'
               PROVE  (\A k \in 1..Len(out') : InOrder(out', k)) /\ EndsAt(nextIndex)'
    BY <1>1 DEF RepeatInv, SidesInv
  <2>1. CASE resumed = 0
    BY <2>1, <1>1, <1>5, EmptySeq DEF EndsAt, LastIndex, LastWhole
  <2>2. CASE resumed > 0
    BY <2>2, <1>1, <1>2, <1>3, <1>5 DEF EndsAt, LastIndex, LastWhole, RepeatInv
  <2> QED
    BY <2>1, <2>2, <1>3, SMTT(30)
<1> QED
  BY <1>6, <1>7, <1>8, <1>9, <1>10, <1>11

\* The expected chunk is appended, an old one is skipped; one from beyond never comes.
LEMMA ReceiveChunkKeeps == IInv /\ ReceiveChunk => IInv'
<1> SUFFICES ASSUME IInv, ReceiveChunk PROVE IInv'
  OBVIOUS
<1> DEFINE p == Head(stream)
<1> USE DEF IInv, ReceiveChunk, Incoming, sndVars, envVars
<1>1. /\ stream # <<>> /\ p = stream[1] /\ p.type = "chunk" /\ p \in Packet
      /\ 1 \in 1..Len(stream)
  BY HeadTailProperties, EmptySeq, Numbers DEF TypeOK
<1>2. rcv = "receiving" /\ connUp /\ rcvSrc \in Sources /\ Received = nextIndex
  BY <1>1 DEF SidesInv, HeadInv, InSession, Received
<1>3. p.index <= nextIndex /\ p.index \in 0..(N - 1)
  BY <1>1, <1>2 DEF HeadInv, InSession, Packet
<1> HIDE DEF p
<1>4. /\ stream' = Tail(stream)
      /\ UNCHANGED <<connUp, fin, ack>>
      /\ \/ p.index < nextIndex /\ rcv' = "receiving" /\ out' = out
         \/ /\ p.index = nextIndex /\ rcv' = "store"
            /\ out' = Append(out, Whole(rcvSrc, nextIndex))
  <2>1. p.index \in Int /\ nextIndex \in Int /\ ~ (p.index > nextIndex)
    BY <1>3, Numbers
  <2>2. \/ p.index < nextIndex /\ stream' = Tail(stream) /\ UNCHANGED <<out, rcv, connUp, fin, ack>>
        \/ p.index > nextIndex
        \/ /\ p.index = nextIndex /\ rcv' = "store" /\ stream' = Tail(stream)
           /\ out' = Append(out, Whole(rcvSrc, nextIndex))
           /\ UNCHANGED <<connUp, fin, ack>>
    BY Zenon DEF p
  <2> QED
    BY <2>1, <2>2, <1>2, Zenon
<1>5. rcv' = "store" =>
        /\ nextIndex < N
        /\ out' \in Seq(Piece) /\ Len(out') = Len(out) + 1 /\ out' # <<>>
        /\ \A k \in 1..Len(out) : out'[k] = out[k]
        /\ out'[Len(out) + 1] = Whole(rcvSrc, nextIndex)
  <2> SUFFICES ASSUME rcv' = "store"
               PROVE  /\ nextIndex < N
                      /\ out' \in Seq(Piece) /\ Len(out') = Len(out) + 1 /\ out' # <<>>
                      /\ \A k \in 1..Len(out) : out'[k] = out[k]
                      /\ out'[Len(out) + 1] = Whole(rcvSrc, nextIndex)
    OBVIOUS
  <2>1. nextIndex < N /\ out' = Append(out, Whole(rcvSrc, nextIndex))
    BY <1>2, <1>3, <1>4, Numbers
  <2>2. Whole(rcvSrc, nextIndex) \in Piece
    BY <1>2, <2>1, NextPiece
  <2> QED
    BY <2>1, <2>2, FileAppends
<1>6. TypeOK'
  BY <1>1, <1>4, <1>5, ReadTakes DEF TypeOK
<1>7. SidesInv'
  BY <1>2, <1>4, <1>5 DEF SidesInv, InSession
<1>8. InSession' /\ Received' >= p.index + 1 /\ Received' >= Received /\ Received' <= N
  BY <1>2, <1>3, <1>4, <1>5, Numbers DEF InSession, Received
<1>9. OrderInv' /\ HeadInv' /\ LastInv'
  <2>1. stream' # <<>> => \/ stream'[1].type = "chunk" /\ stream'[1].index = p.index + 1
                          \/ stream'[1].type = "end" /\ p.index = N - 1
    BY <1>1, <1>2, <1>4, ReadOrder
  <2>2. HeadInv'
    <3>1. connUp' /\ rcv' # "accepted"
      BY <1>2, <1>4
    <3>2. p.index + 1 <= Received' /\ (p.index = N - 1 => Received' = N)
      <4>1. p.index \in Int /\ N \in Int /\ Received' \in Int
        BY <1>2, <1>3, <1>4, Numbers DEF Received
      <4> QED
        BY <4>1, <1>8
    <3> QED
      BY <2>1, <3>1, <3>2 DEF HeadInv
  <2>3. stream' = <<>> => p = stream[Len(stream)]
    BY <1>1, <1>4, ReadTakes
  <2>4. stream' # <<>> => stream'[Len(stream')] = stream[Len(stream)]
    BY <1>1, <1>2, <1>4, ReadOrder
  <2>5. snd # "await"
    BY <1>1, <1>2 DEF LastInv
  <2>6. LastInv'
    BY <2>3, <2>4, <2>5, <1>1, <1>2, <1>3, <1>4, <1>8, Numbers DEF LastInv
  <2> QED
    BY <2>2, <2>6, <1>1, <1>2, <1>4, ReadOrder
<1>10. SidecarInv'
  BY <1>2, <1>4 DEF SidecarInv, InSession, Named
<1>11. FileInv'
  <2> SUFFICES ASSUME rcvFaults' = 0, ~stale' PROVE FirstChunks(rcvSrc, Received)'
    BY <1>4 DEF FileInv, InSession
  <2>1. FirstChunks(rcvSrc, nextIndex)
    BY <1>2 DEF FileInv, InSession
  <2>2. CASE rcv' = "receiving"
    BY <2>1, <2>2, <1>4 DEF FirstChunks, Received
  <2>3. CASE rcv' = "store"
    <3>1. Received' = nextIndex + 1 /\ rcvSrc' = rcvSrc
      BY <2>3, <1>5 DEF Received
    <3>2. Len(out) = nextIndex /\ nextIndex \in Nat /\ Len(out') = nextIndex + 1
      BY <2>1, <2>3, <1>5, Numbers DEF FirstChunks
    <3>3. ASSUME NEW j \in 1..(nextIndex + 1)
          PROVE  out'[j] = Whole(rcvSrc, j - 1)
      <4>1. CASE j <= nextIndex
        <5>1. j \in 1..nextIndex /\ j \in 1..Len(out)
          BY <3>2, <4>1
        <5> QED
          BY <2>1, <2>3, <1>5, <5>1 DEF FirstChunks
      <4>2. CASE j = nextIndex + 1
        <5>1. j - 1 = nextIndex /\ j = Len(out) + 1
          BY <3>2, <4>2
        <5> QED
          BY <2>3, <1>5, <5>1
      <4> QED
        BY <3>2, <4>1, <4>2
    <3> QED
      BY <3>1, <3>2, <3>3 DEF FirstChunks
  <2> QED
    BY <2>2, <2>3, <1>4
<1>12. RepeatInv'
  <2> SUFFICES ASSUME ~stale PROVE RepeatInv'
    BY DEF RepeatInv
  <2>1. CASE rcv' = "receiving"
    BY <2>1, <1>2, <1>4 DEF RepeatInv, EndsAt, LastIndex, LastWhole, SidesInv
  <2>2. CASE rcv' = "store"
    <3>1. out' = Append(out, Whole(rcvSrc, nextIndex)) /\ nextIndex < N
      BY <2>2, <1>2, <1>4, <1>5
    <3>2. (\A k \in 1..Len(out') : InOrder(out', k)) /\ LastIndex' = nextIndex /\ LastWhole'
      BY <3>1, <1>2, NextPiece, AppendInOrder
    <3> QED
      BY <2>2, <3>2, <1>2 DEF RepeatInv, SidesInv
  <2> QED
    BY <2>1, <2>2, <1>4
<1> QED
  BY <1>6, <1>7, <1>9, <1>10, <1>11, <1>12

\* The chunk just appended is stored.
LEMMA StoreChunkKeeps == IInv /\ StoreChunk => IInv'
<1> SUFFICES ASSUME IInv, StoreChunk PROVE IInv'
  OBVIOUS
<1> USE DEF IInv, StoreChunk, diskVars, sndVars, connVars, envVars
<1>1. nextIndex' = nextIndex + 1 /\ nextIndex' \in 0..N /\ rcvResume \in BOOLEAN
  BY Numbers DEF SidesInv, TypeOK
<1>2. TypeOK'
  BY <1>1 DEF TypeOK
<1>3. SidesInv'
  BY <1>1, Numbers DEF SidesInv, InSession
<1>4. InSession /\ InSession' /\ Received' = Received
  BY <1>1 DEF InSession, Received
<1>5. OrderInv' /\ HeadInv' /\ LastInv'
  BY <1>4 DEF OrderInv, HeadInv, LastInv
<1>6. SidecarInv'
  BY <1>1, <1>4, Numbers DEF SidecarInv, Named
<1>7. FileInv'
  BY <1>4 DEF FileInv, FirstChunks, SidesInv
<1>8. RepeatInv'
  <2>1. ~stale => LastIndex = nextIndex' - 1 /\ LastWhole
    BY <1>1, Numbers DEF RepeatInv
  <2>2. /\ LastIndex' = LastIndex /\ LastWhole' = LastWhole
        /\ ~ended' /\ rcv' \in {"persist", "receiving"}
    BY DEF LastIndex, LastWhole, SidesInv
  <2> QED
    BY <2>1, <2>2 DEF RepeatInv, EndsAt
<1> QED
  BY <1>2, <1>3, <1>5, <1>6, <1>7, <1>8

\* The sidecar is truncated: it says nothing of the file until it is written.
LEMMA PersistStateKeeps == IInv /\ PersistState => IInv'
<1> SUFFICES ASSUME IInv, PersistState PROVE IInv'
  OBVIOUS
<1> USE DEF IInv, PersistState, sndVars, connVars, envVars
<1>1. TypeOK'
  BY DEF TypeOK
<1>2. SidesInv'
  BY DEF SidesInv, InSession
<1>3. InSession /\ InSession' /\ Received' = Received /\ ~Named'
  BY TransferAssumption DEF InSession, Received, Named, TornSidecar
<1>4. OrderInv' /\ HeadInv' /\ LastInv'
  BY <1>3 DEF OrderInv, HeadInv, LastInv
<1>5. SidecarInv'
  BY <1>2, <1>3 DEF SidecarInv, SidesInv, Named
<1>6. FileInv'
  BY <1>3 DEF FileInv, FirstChunks, SidesInv
<1>7. RepeatInv'
  BY Numbers DEF RepeatInv, LastIndex, LastWhole, SidesInv
<1> QED
  BY <1>1, <1>2, <1>4, <1>5, <1>6, <1>7

\* The sidecar is brought up to the file.
LEMMA WriteStateKeeps == IInv /\ WriteState => IInv'
<1> SUFFICES ASSUME IInv, WriteState PROVE IInv'
  OBVIOUS
<1> USE DEF IInv, WriteState, sndVars, connVars, envVars
<1>1. sidecar' \in [src : Sources, next : 1..N] /\ sidecar'.src = rcvSrc
      /\ sidecar'.next = nextIndex /\ sidecar' # TornSidecar
  BY Numbers, TransferAssumption DEF SidesInv, InSession, TornSidecar
<1>2. TypeOK'
  BY <1>1 DEF TypeOK
<1>3. SidesInv'
  BY DEF SidesInv, InSession
<1>4. InSession /\ InSession' /\ Received' = Received
  BY DEF InSession, Received
<1>5. OrderInv' /\ HeadInv' /\ LastInv'
  BY <1>4 DEF OrderInv, HeadInv, LastInv
<1>6. SidecarInv'
  BY <1>1, <1>4 DEF SidecarInv, SidesInv
<1>7. FileInv'
  BY <1>4 DEF FileInv, FirstChunks, SidesInv
<1>8. RepeatInv'
  BY Numbers DEF RepeatInv, EndsAt, LastIndex, LastWhole, SidesInv
<1> QED
  BY <1>2, <1>3, <1>5, <1>6, <1>7, <1>8

\* The end packet comes when the file is complete.
LEMMA ReceiveEndKeeps == IInv /\ ReceiveEnd => IInv'
<1> SUFFICES ASSUME IInv, ReceiveEnd PROVE IInv'
  OBVIOUS
<1> USE DEF IInv, ReceiveEnd, Incoming, Return, Disconnect, ReceiverFault, sndVars, envVars
<1>1. /\ stream # <<>> /\ stream[1].type = "end" /\ 1 \in 1..Len(stream)
  BY HeadTailProperties, EmptySeq, Numbers DEF TypeOK
<1>2. rcv = "receiving" /\ rcvSrc \in Sources /\ nextIndex = N /\ Received = N
  BY <1>1 DEF SidesInv, HeadInv, InSession, Received
<1>3. /\ stale' = stale /\ rcvFaults' \in 0..ReceiverFaultBound /\ faults' = faults
      /\ rcvFaults \in Nat /\ rcvFaults' \in Nat /\ rcvFaults' >= rcvFaults
      /\ \/ sidecar' = NoSidecar
         \/ sidecar' = sidecar /\ (~rcvResume \/ rcvFaults' > 0)
  BY TransferAssumption DEF TypeOK
<1>4. TypeOK'
  <2>1. connUp' \in BOOLEAN /\ fin' \in BOOLEAN /\ ended' \in BOOLEAN
    BY Zenon
  <2>2. stream' \in Seq(Packet) /\ Len(stream') = 0
    BY EmptySeq
  <2> QED
    BY <1>3, <2>1, <2>2, Numbers DEF TypeOK
<1>5. SidesInv'
  BY <1>2 DEF SidesInv, InSession
<1>6. OrderInv' /\ HeadInv' /\ LastInv'
  BY Cut
<1>7. SidecarInv'
  BY <1>2, <1>3, TransferAssumption DEF SidecarInv, InSession, Named, NoSidecar, TornSidecar
<1>8. ~Named' \/ sidecar' = sidecar
  BY <1>3, TransferAssumption DEF Named, NoSidecar
<1>9. ~stale /\ Named' => rcvFaults' > 0 /\ sidecar.src = rcvSrc /\ sidecar'.next = N
  <2> SUFFICES ASSUME ~stale, Named'
               PROVE  rcvFaults' > 0 /\ sidecar.src = rcvSrc /\ sidecar'.next = N
    OBVIOUS
  <2>1. sidecar' = sidecar /\ Named
    BY <1>8 DEF Named
  <2>2. rcvResume /\ sidecar.src = rcvSrc /\ sidecar.next = N
    BY <2>1, <1>2 DEF SidecarInv, InSession
  <2> QED
    BY <2>1, <2>2, <1>2, <1>3, TransferAssumption DEF NoSidecar
<1>10. FileInv'
  BY <1>2, <1>3, <1>9 DEF FileInv, InSession, FirstChunks, Received
<1>11. RepeatInv'
  <2> SUFFICES ASSUME ~stale PROVE RepeatInv'
    BY <1>3 DEF RepeatInv
  <2>1. LastIndex = N - 1 /\ LastWhole
    <3>1. EndsAt(N)
      BY <1>2 DEF RepeatInv
    <3>2. out # <<>> => out[Len(out)] \in Piece
      BY Numbers, EmptySeq DEF TypeOK
    <3> QED
      BY <3>1, <3>2, Numbers DEF EndsAt, LastIndex, Piece
  <2>2. LastIndex' = LastIndex /\ LastWhole' = LastWhole
    BY DEF LastIndex, LastWhole
  <2> QED
    BY <2>1, <2>2, <1>3, <1>9 DEF RepeatInv, EndsAt
<1> QED
  BY <1>4, <1>5, <1>6, <1>7, <1>10, <1>11

\* The session ends otherwise: the sidecar describes the file, up to what a receiver
\* that failed had appended and not recorded.
LEMMA SessionEndsKeeps ==
  ASSUME IInv, StoreFails \/ PersistFails \/ ReceiveEOF \/ ReceiveFails \/ ReceiverCrashes
  PROVE  IInv'
<1> USE DEF IInv, StoreFails, PersistFails, ReceiveEOF, ReceiveFails, ReceiverCrashes,
            ReceiverFault, Return, Disconnect, diskVars, sndVars, connVars, envVars
<1>1. /\ rcv' = "down" /\ rcv # "down" /\ ~connUp'
      /\ stream' = <<>> /\ ack' = NoAck /\ ~fin'
      /\ stale' = stale /\ rcvFaults' \in 0..ReceiverFaultBound
      /\ UNCHANGED <<out, sidecar, rcvResume, rcvSrc, nextIndex, ended, sndVars, faults>>
  BY TransferAssumption DEF TypeOK, SidesInv
<1>2. /\ rcvFaults' = 0 => rcvFaults = 0 /\ rcv \in {"accepted", "receiving"}
      /\ rcvFaults \in Nat /\ rcvFaults' >= rcvFaults
      /\ rcv = "rewrite" => rcvFaults' > 0
  BY TransferAssumption DEF TypeOK
<1>3. TypeOK'
  <2>1. connUp' \in BOOLEAN /\ fin' \in BOOLEAN
    BY Zenon DEF TypeOK
  <2>2. stream' \in Seq(Packet) /\ Len(stream') = 0
    BY <1>1, EmptySeq
  <2> QED
    BY <1>1, <2>1, <2>2, Numbers DEF TypeOK
<1>4. ~ended
  BY <1>1 DEF SidesInv
<1>5. SidesInv'
  BY <1>1, <1>4 DEF SidesInv, InSession
<1>6. OrderInv' /\ HeadInv' /\ LastInv'
  BY <1>1, Cut
<1>7. SidecarInv'
  BY <1>1, <1>2 DEF SidecarInv, InSession
<1>8. FileInv'
  BY <1>1, <1>2, <1>4, Numbers DEF FileInv, SidecarInv, InSession, Named, FirstChunks, Received
<1>9. rcv = "rewrite" => ~Named
  BY TransferAssumption DEF SidecarInv, Named, TornSidecar
<1>10. RepeatInv'
  <2>1. LastIndex' = LastIndex /\ LastWhole' = LastWhole /\ Named' = Named
    BY <1>1 DEF LastIndex, LastWhole, Named
  <2> QED
    BY <2>1, <1>1, <1>4, <1>9, Numbers DEF RepeatInv, SidecarInv, InSession, EndsAt, TypeOK
<1> QED
  BY <1>3, <1>5, <1>6, <1>7, <1>8, <1>10

\* A part of the next chunk is at the end of the file: the sidecar names that chunk.
LEMMA AppendFailsKeeps == IInv /\ AppendFails => IInv'
<1> SUFFICES ASSUME IInv, AppendFails PROVE IInv'
  OBVIOUS
<1> USE DEF IInv, AppendFails, Incoming, ReceiverFault, Return, Disconnect, sndVars, envVars
<1>1. /\ stream # <<>> /\ Head(stream) = stream[1] /\ Head(stream) \in Packet
      /\ 1 \in 1..Len(stream)
  BY HeadTailProperties, EmptySeq, Numbers DEF TypeOK
<1>2. rcv = "receiving" /\ rcvSrc \in Sources /\ nextIndex < N /\ ~ended
  BY <1>1, Numbers DEF SidesInv, HeadInv, InSession, Packet
<1>3. /\ Part(rcvSrc, nextIndex) \in Piece
      /\ Part(rcvSrc, nextIndex).index = nextIndex
      /\ out' \in Seq(Piece)
  BY <1>2, NextPiece, FileAppends
<1>4. /\ rcvFaults' \in 0..ReceiverFaultBound /\ rcvFaults' > 0
      /\ stale' = stale /\ faults' = faults
  BY TransferAssumption DEF TypeOK
<1>5. TypeOK'
  <2>1. connUp' \in BOOLEAN /\ fin' \in BOOLEAN
    BY Zenon
  <2>2. stream' \in Seq(Packet) /\ Len(stream') = 0
    BY EmptySeq
  <2> QED
    BY <1>3, <1>4, <2>1, <2>2, Numbers DEF TypeOK
<1>6. SidesInv'
  BY <1>2 DEF SidesInv, InSession
<1>7. OrderInv' /\ HeadInv' /\ LastInv'
  BY Cut
<1>8. SidecarInv' /\ FileInv'
  BY <1>4 DEF SidecarInv, FileInv, InSession
<1>9. RepeatInv'
  <2> SUFFICES ASSUME ~stale PROVE RepeatInv'
    BY <1>4 DEF RepeatInv
  <2>1. (\A k \in 1..Len(out') : InOrder(out', k)) /\ LastIndex' = nextIndex
    BY <1>2, <1>3, AppendInOrder
  <2>2. Named' => sidecar'.next = nextIndex
    BY <1>2 DEF SidecarInv, InSession, Named
  <2> QED
    BY <2>1, <2>2, <1>2 DEF RepeatInv, EndsAt
<1> QED
  BY <1>5, <1>6, <1>7, <1>8, <1>9

\* Nothing changes.
LEMMA StutterKeeps == IInv /\ UNCHANGED vars => IInv'
<1> SUFFICES ASSUME IInv, UNCHANGED vars PROVE IInv'
  OBVIOUS
<1> USE DEF IInv, vars, diskVars, rcvVars, sndVars, connVars, envVars
<1>1. TypeOK' /\ SidesInv'
  BY DEF TypeOK, SidesInv, InSession
<1>2. OrderInv' /\ HeadInv' /\ LastInv'
  BY DEF OrderInv, HeadInv, LastInv, InSession, Received
<1> QED
  BY <1>1, <1>2, ReceiverUntouched

-----------------------------------------------------------------------------
(* The theorems.                                                           *)

\* Every step keeps the invariant.
LEMMA StepIInv == IInv /\ [Next]_vars => IInv'
<1> SUFFICES ASSUME IInv, [Next]_vars PROVE IInv'
  OBVIOUS
<1>1. CASE Start
  BY <1>1, StartSendKeeps, ListenKeeps DEF Start
<1>2. CASE SenderStep \/ SendAborts
  BY <1>2, ReadAckKeeps, SendChunkKeeps, SendEndKeeps, SenderGoesKeeps DEF SenderStep
<1>3. CASE IdleTimeout \/ LoseConnection
  BY <1>3, ConnectionGoesKeeps
<1>4. CASE ReceiverStep \/ AppendFails \/ StoreFails \/ PersistFails \/ ReceiverCrashes
  BY <1>4, ReceiveStartKeeps, ReceiveChunkKeeps, StoreChunkKeeps, PersistStateKeeps,
     WriteStateKeeps, ReceiveEndKeeps, AppendFailsKeeps, SessionEndsKeeps DEF ReceiverStep
<1>5. CASE UNCHANGED vars
  BY <1>5, StutterKeeps
<1> QED
  BY <1>1, <1>2, <1>3, <1>4, <1>5 DEF Next

\* The invariant holds in every reachable state.
THEOREM Invariance == Spec => []IInv
BY InitIInv, StepIInv, PTL DEF Spec

\* The variables keep their types: indices stay within the file and packets within the
\* window.
THEOREM TypeCorrect == Spec => []TypeOK
<1>1. IInv => TypeOK
  BY DEF IInv
<1> QED
  BY <1>1, Invariance, PTL

\* While the receiver does not fail and no sidecar is left behind, the output file is a
\* prefix of what is sent, and its length is what receiver and sidecar say it is.
THEOREM ReceivedIsPrefix == Spec => []FileIsPrefix
<1>1. ASSUME IInv PROVE FileIsPrefix
  <2> SUFFICES ASSUME rcvFaults = 0, ~stale, NEW s \in Sources
               PROVE  /\ rcv # "down" /\ rcvSrc = s =>
                           IsPrefixOf(s, IF rcv = "store" THEN nextIndex + 1 ELSE nextIndex)
                      /\ sidecar.src = s /\ rcv \in {"down", "listening", "accepted"} =>
                           IsPrefixOf(s, sidecar.next)
    BY DEF FileIsPrefix
  <2> USE <1>1 DEF IInv
  <2>1. s # NoSource
    BY TransferAssumption DEF NoSource
  <2>2. ASSUME rcv # "down", rcvSrc = s PROVE IsPrefixOf(s, Received)
    <3>1. InSession
      BY <2>1, <2>2 DEF SidesInv, InSession, TypeOK
    <3>2. Received \in 0..N
      BY Numbers DEF SidesInv, Received
    <3> QED
      BY <2>2, <3>1, <3>2, PrefixIsFirstChunks DEF FileInv
  <2>3. ASSUME sidecar.src = s, rcv \in {"down", "listening", "accepted"}
        PROVE  IsPrefixOf(s, sidecar.next)
    <3>1. Named
      BY <2>3 DEF Named
    <3>2. sidecar.next \in 0..N
      BY <3>1, TransferAssumption, Numbers DEF TypeOK, Named, NoSidecar, TornSidecar
    <3> QED
      BY <2>3, <3>1, <3>2, PrefixIsFirstChunks DEF FileInv
  <2> QED
    BY <2>2, <2>3 DEF Received
<1> QED
  BY <1>1, Invariance, PTL

\* ReceiveOnce returns on an end packet only with the whole file, over any number of
\* sessions.
THEOREM EndIsComplete == Spec => []EndMeansComplete
<1>1. ASSUME IInv PROVE EndMeansComplete
  <2> SUFFICES ASSUME ended, rcvFaults = 0, ~stale PROVE IsPrefixOf(rcvSrc, N)
    BY DEF EndMeansComplete
  <2> USE <1>1 DEF IInv
  <2>1. rcvSrc \in Sources /\ Received = N /\ N \in 0..N
    BY Numbers DEF SidesInv, Received
  <2> QED
    BY <2>1, PrefixIsFirstChunks DEF FileInv
<1> QED
  BY <1>1, Invariance, PTL

\* A receiver that dies or fails between two writes, or in one, may repeat a chunk in the
\* file; it never drops or reorders one.
THEOREM FailureOnlyRepeats == Spec => []CrashOnlyRepeats
<1>1. ASSUME IInv PROVE CrashOnlyRepeats
  <2> USE <1>1 DEF IInv
  <2>1. ~stale => \A k \in 1..Len(out) : InOrder(out, k)
    BY DEF RepeatInv
  <2>2. ~stale /\ ended => LastIndex = N - 1 /\ LastWhole /\ N - 1 # -1
    BY Numbers DEF RepeatInv
  <2> QED
    BY <2>1, <2>2 DEF CrashOnlyRepeats, InOrder, LastIndex, LastWhole
<1> QED
  BY <1>1, Invariance, PTL

\* Sender and receiver wait for each other only when the sender resumes and the
\* receiver does not.
THEOREM WaitMeansDisagreement == Spec => []WaitOnlyOnDisagreement
<1>1. IInv => WaitOnlyOnDisagreement
  BY DEF IInv, WaitOnlyOnDisagreement, WaitForEachOther, SidesInv, LastInv, InSession
<1> QED
  BY <1>1, Invariance, PTL

\* A session that finds a sidecar goes on where the file ends, or repeats its last chunk;
\* only after a failure within the rewriting of the sidecar does it start over.
THEOREM ProgressKept == Spec => ProgressIsKept
<1> DEFINE GoesOn ==
      rcv = "accepted" /\ rcv' = "receiving" /\ rcvResume /\ sidecar # NoSidecar /\ ~stale' =>
        /\ rcvFaults = 0 => nextIndex' = Len(out)
        /\ \/ sidecar = TornSidecar /\ nextIndex' = 0 /\ out' = <<>>
           \/ nextIndex' - out[Len(out)].index \in {0, 1} /\ out' = out
<1>1. ASSUME IInv, [Next]_vars PROVE [GoesOn]_vars
  <2> SUFFICES ASSUME rcv = "accepted", rcv' = "receiving", rcvResume, sidecar # NoSidecar,
                      ~stale'
               PROVE  GoesOn
    OBVIOUS
  <2> HIDE DEF GoesOn
  <2> USE <1>1 DEF IInv
  <2>1. ReceiveStart
    BY DEF Next, Start, SenderStep, ReceiverStep, StartSend, Listen, ReadAck, SendChunk,
       SendEnd, SendReturns, SendFails, SendAborts, LoseConnection, IdleTimeout,
       ReceiveChunk, StoreChunk, StoreFails, AppendFails, PersistState, WriteState,
       PersistFails, ReceiveEnd, ReceiveEOF, ReceiveFails, ReceiverCrashes, Return, Incoming,
       vars, diskVars, rcvVars
  <2> DEFINE s == Head(stream).src
             resumed == ResumeFrom(s)
  <2>2. /\ nextIndex' = resumed /\ out' = Opened(resumed)
        /\ stale' = (stale \/ (resumed = 0 /\ Named))
    BY <2>1 DEF ReceiveStart, Named
  <2>3. s \in Sources
    BY <2>1, ReadTakes DEF ReceiveStart, Incoming, Packet
  <2> HIDE DEF s
  <2>4. CASE sidecar = TornSidecar
    <3>1. resumed = 0
      BY <2>3, <2>4, TransferAssumption DEF ResumeFrom, TornSidecar
    <3>2. rcvFaults > 0
      BY <2>4 DEF SidecarInv
    <3> QED
      BY <2>2, <2>4, <3>1, <3>2 DEF GoesOn, Opened
  <2>5. CASE sidecar # TornSidecar
    <3>1. Named /\ sidecar.next \in 1..N
      BY <2>5 DEF TypeOK, Named
    <3>2. ~stale /\ resumed = sidecar.next /\ out' = out /\ nextIndex' = sidecar.next
      <4>1. resumed \in {0, sidecar.next} /\ ~stale /\ resumed # 0
        BY <2>2, <3>1 DEF ResumeFrom
      <4> HIDE DEF resumed
      <4> QED
        BY <4>1, <3>1, <2>2, Numbers DEF Opened
    <3>3. rcvFaults = 0 => Len(out) = sidecar.next
      BY <3>1, <3>2 DEF FileInv, FirstChunks
    <3>4. LastIndex \in {sidecar.next, sidecar.next - 1} /\ LastIndex # -1
      BY <3>1, <3>2, Numbers DEF RepeatInv, EndsAt
    <3>5. out[Len(out)].index = LastIndex
      BY <3>4 DEF LastIndex
    <3> QED
      BY <3>1, <3>2, <3>3, <3>4, <3>5, Numbers DEF GoesOn
  <2> QED
    BY <2>4, <2>5
<1> QED
  BY <1>1, Invariance, PTL DEF Spec, ProgressIsKept
=============================================================================
