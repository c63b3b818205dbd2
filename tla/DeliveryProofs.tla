---------------------------- MODULE DeliveryProofs ----------------------------
(***************************************************************************)
(* Proofs about Delivery, for any table of options, any addresses, token   *)
(* life, retry limit and registration time, and any bounds on the clock    *)
(* and on faults.                                                          *)
(***************************************************************************)
EXTENDS Delivery, SequenceTheorems, TLAPS

-----------------------------------------------------------------------------
(* The inductive invariant.                                                *)

\* The registry's entry is the last registration, and so is what a running lookup read
\* unless the peer has registered since; either is missing only when that has expired.
RegistryInv ==
  /\ sweep <= now
  /\ peer = last \/ (peer = Absent /\ last.expires < now)
  /\ asking /\ ~renewed => read = last \/ (read = Absent /\ last.expires < now)

\* What the sender has sent, from each kind of packet on.
FromEnd == IF spc = "closing" THEN <<"end">> ELSE <<>>
FromChunk == CASE spc = "closing" -> <<"chunk", "end">>
               [] spc = "ending" -> <<"chunk">>
               [] OTHER -> <<>>
FromStart == CASE spc = "closing" -> <<"start", "chunk", "end">>
               [] spc = "ending" -> <<"start", "chunk">>
               [] OTHER -> <<"start">>

\* A connection that the receiver has left carries its refusal, and nothing else; there
\* is none before it accepts the next.
LeftInv ==
  /\ ~connUp => out = <<>> /\ in = <<>> /\ ~fin
  /\ connUp /\ rpc \in {"down", "listening"} => spc = "authAck" /\ in = <<"auth_fail">>

\* The packets in flight while the sender waits for the answer to its token.
AuthInv ==
  connUp /\ spc = "authAck" =>
    /\ opts.token # "none"
    /\ rpc = "accepted" => out = <<"auth">> /\ in = <<>>
    /\ rpc = "session" => out = <<>> /\ in = <<"auth_ok">>
    /\ rpc # "receiving"

\* The packets in flight after that, and when the sender has no token.
WireInv ==
  connUp /\ spc # "authAck" =>
    /\ rpc = "accepted" => opts.token = "none" /\ out = FromStart /\ in = <<>>
    /\ rpc = "session" => out = FromStart /\ in = <<>>
    /\ rpc = "receiving" =>
         /\ \/ out = FromChunk
            \/ out = FromEnd /\ spc \in {"ending", "closing"} /\ rkey = SenderKey
         /\ in = <<>> \/ (in = <<"resume">> /\ opts.rcvResume)

\* A receiver in a session has verified a token granted to it, or needs none.
KeyInv ==
  /\ rpc \in {"listening", "accepted"} => rkey = "none"
  /\ rpc \in {"session", "receiving"} =>
       \/ opts.token = "recipient" /\ verifiedAt \in 0..TokenLife /\ rkey = opts.rcvSpace
       \/ opts.token = "none" /\ rkey = "none" /\ ~opts.rcvAuth

\* A sender in a session has a connection of one of the tiers; it sends chunks when it
\* has read the resume packet it waits for.
SenderInv ==
  /\ spc \in InSession \cup {"closing"} => route \in {"direct", "punched"}
  /\ spc \in {"sending", "ending", "closing"} /\ opts.resume => opts.rcvResume

\* After a complete file or a push there is no other tier in this SendFile.
OneInv ==
  /\ here => ~pushed /\ ~connUp /\ (spc = "closing" \/ (spc = "idle" /\ done))
  /\ pushed => spc = "idle" /\ done

SessionInv == LeftInv /\ AuthInv /\ WireInv /\ KeyInv /\ SenderInv /\ OneInv

\* While SendFile runs, another failure is within the limit.
RetryInv == spc # "idle" => retries < MaxRetries

IInv == TypeOK /\ RegistryInv /\ SessionInv /\ RetryInv

-----------------------------------------------------------------------------
(* Sequences of a few packets.                                             *)

\* A second packet.
LEMMA AppendToOne ==
  ASSUME NEW S, NEW a \in S, NEW b \in S
  PROVE  Append(<<a>>, b) = <<a, b>>
<1>1. <<a>> \in Seq(S) /\ <<a, b>> \in Seq(S)
  OBVIOUS
<1>2. Append(<<a>>, b) \in Seq(S) /\ Len(Append(<<a>>, b)) = 2
  BY <1>1, AppendProperties
<1>3. \A i \in 1..2 : Append(<<a>>, b)[i] = <<a, b>>[i]
  BY <1>1, AppendProperties
<1> QED  BY <1>1, <1>2, <1>3, SeqEqual

\* A third packet.
LEMMA AppendToTwo ==
  ASSUME NEW S, NEW a \in S, NEW b \in S, NEW c \in S
  PROVE  Append(<<a, b>>, c) = <<a, b, c>>
<1>1. <<a, b>> \in Seq(S) /\ <<a, b, c>> \in Seq(S)
  OBVIOUS
<1>2. Append(<<a, b>>, c) \in Seq(S) /\ Len(Append(<<a, b>>, c)) = 3
  BY <1>1, AppendProperties
<1>3. \A i \in 1..3 : Append(<<a, b>>, c)[i] = <<a, b, c>>[i]
  BY <1>1, AppendProperties
<1> QED  BY <1>1, <1>2, <1>3, SeqEqual

\* The packets the sender appends to what it has sent.
LEMMA PacketsAppended ==
  /\ Append(<<>>, "start") = <<"start">>
  /\ Append(<<>>, "chunk") = <<"chunk">>
  /\ Append(<<>>, "end") = <<"end">>
  /\ Append(<<"start">>, "chunk") = <<"start", "chunk">>
  /\ Append(<<"chunk">>, "end") = <<"chunk", "end">>
  /\ Append(<<"start", "chunk">>, "end") = <<"start", "chunk", "end">>
  /\ Append(<<>>, "auth_ok") = <<"auth_ok">>
  /\ Append(<<>>, "auth_fail") = <<"auth_fail">>
  /\ Append(<<>>, "resume") = <<"resume">>
<1>1. /\ "start" \in Packet /\ "chunk" \in Packet /\ "end" \in Packet
  BY DEF Packet
<1>2. Append(<<"start">>, "chunk") = <<"start", "chunk">>
  BY <1>1, AppendToOne
<1>3. Append(<<"chunk">>, "end") = <<"chunk", "end">>
  BY <1>1, AppendToOne
<1>4. Append(<<"start", "chunk">>, "end") = <<"start", "chunk", "end">>
  BY <1>1, AppendToTwo
<1> QED  BY <1>2, <1>3, <1>4

\* The packets the receiver takes off it.
LEMMA PacketsTaken ==
  /\ Tail(<<"auth">>) = <<>> /\ Head(<<"auth">>) = "auth"
  /\ Tail(<<"start">>) = <<>> /\ Head(<<"start">>) = "start"
  /\ Tail(<<"chunk">>) = <<>> /\ Head(<<"chunk">>) = "chunk"
  /\ Tail(<<"end">>) = <<>> /\ Head(<<"end">>) = "end"
  /\ Tail(<<"start", "chunk">>) = <<"chunk">> /\ Head(<<"start", "chunk">>) = "start"
  /\ Tail(<<"chunk", "end">>) = <<"end">> /\ Head(<<"chunk", "end">>) = "chunk"
  /\ Tail(<<"start", "chunk", "end">>) = <<"chunk", "end">>
  /\ Head(<<"start", "chunk", "end">>) = "start"
  /\ Tail(<<"auth_ok">>) = <<>> /\ Head(<<"auth_ok">>) = "auth_ok"
  /\ Head(<<"auth_fail">>) = "auth_fail"
  /\ Tail(<<"resume">>) = <<>> /\ Head(<<"resume">>) = "resume"
  OBVIOUS

-----------------------------------------------------------------------------
(* The registry.                                                           *)

\* Every step leaves the registry as it is or is one of its own.
LEMMA RegistrySteps ==
  ASSUME [Next]_vars
  PROVE  \/ UNCHANGED <<now, registryVars>>
         \/ Tick \/ SweepBegins \/ evict \/ Register(home) \/ ReadRecord \/ LookupEnds
<1> USE DEF vars, envVars, rcvEnv
<1>1. CASE SenderStep
  BY <1>1 DEF SenderStep, Dial, DialFails, AskRendezvous, Answered, LookupFails,
              PunchDial, PunchExpires, RelayPush, RelayFails, AuthAccepted, AuthRejected,
              ReadResume, SendChunk, SendEnd, SessionReturns, SessionFails, SenderAborts,
              Connect
<1>2. CASE ReceiverStep
  BY <1>2 DEF ReceiverStep, Authenticate, Reject, Unauthenticated, ReceiveStart,
              ReceiveChunk, ReceiveEnd, ReceiveEOF, ReceiveFails
<1>3. CASE Registry \/ Clock
  BY <1>3 DEF Registry, Clock
<1>4. CASE StartSend \/ Listen \/ ListenEnds \/ RelayPoll \/ LoseConnection \/ IdleTimeout
  BY <1>4 DEF StartSend, Listen, ListenEnds, RelayPoll, LoseConnection, IdleTimeout
<1> QED  BY <1>1, <1>2, <1>3, <1>4 DEF Next

\* Every step of the registry keeps its types.
LEMMA RegistryStepType ==
  ASSUME TypeOK, [Next]_vars
  PROVE  RegistryTypeOK'
<1> USE RendezvousAssumption DEF TypeOK, RegistryTypeOK, registryVars, Record, Absent, NoSweep
<1>1. CASE UNCHANGED <<now, registryVars>>
  BY <1>1
<1>2. CASE Tick
  BY <1>2 DEF Tick
<1>3. CASE SweepBegins
  BY <1>3 DEF SweepBegins
<1>4. CASE evict
  BY <1>4 DEF evict
<1>5. CASE Register(home)
  BY <1>5 DEF Register
<1>6. CASE ReadRecord
  BY <1>6 DEF ReadRecord
<1>7. CASE LookupEnds
  BY <1>7 DEF LookupEnds
<1> QED  BY <1>1, <1>2, <1>3, <1>4, <1>5, <1>6, <1>7, RegistrySteps

\* Every step of the registry keeps RegistryInv, the eviction loop with an old time among them.
LEMMA RegistryStepInv ==
  ASSUME TypeOK, RegistryInv, [Next]_vars
  PROVE  RegistryInv'
<1> USE RendezvousAssumption
    DEF TypeOK, RegistryTypeOK, RegistryInv, registryVars, Record, Absent, NoSweep
<1>1. CASE UNCHANGED <<now, registryVars>>
  BY <1>1
<1>2. CASE Tick
  BY <1>2 DEF Tick
<1>3. CASE SweepBegins
  BY <1>3 DEF SweepBegins
<1>4. CASE evict
  BY <1>4 DEF evict
<1>5. CASE Register(home)
  BY <1>5 DEF Register
<1>6. CASE ReadRecord
  BY <1>6 DEF ReadRecord
<1>7. CASE LookupEnds
  BY <1>7 DEF LookupEnds
<1> QED  BY <1>1, <1>2, <1>3, <1>4, <1>5, <1>6, <1>7, RegistrySteps

-----------------------------------------------------------------------------
(* Type correctness.                                                       *)

\* The parts of TypeOK: the registry's, the sender's, the connection's, the receiver's.
SenderTypes ==
  /\ opts \in Options
  /\ spc \in {"idle", "direct", "lookup", "punch", "relay", "closing"} \cup InSession
  /\ dest \in IF spc = "punch" THEN Addrs ELSE Addrs \cup {"none"}
  /\ route \in {"none", "direct", "punched"}
  /\ done \in BOOLEAN

WireTypes ==
  /\ connUp \in BOOLEAN /\ fin \in BOOLEAN
  /\ out \in Seq(Packet) /\ in \in Seq(Reply)

ReceiverTypes ==
  /\ rpc \in {"down", "listening", "accepted", "session", "receiving"}
  /\ home \in Addrs /\ rkey \in {"none", "S", "T"}
  /\ verifiedAt \in 0..TimeBound \cup {-1}
  /\ file \in {"absent", "empty", "whole"}

HistoryTypes ==
  /\ inbox \in BOOLEAN /\ pushed \in BOOLEAN /\ here \in BOOLEAN
  /\ received \subseteq {"direct", "punched", "relay"}
  /\ faults \in 0..FaultBound

CountTypes == retries \in 0..MaxRetries /\ refused \in Nat

SideTypes == SenderTypes /\ WireTypes /\ ReceiverTypes /\ HistoryTypes /\ CountTypes

\* The types of the registry and those of the two sides are all there are.
LEMMA SideTypesIsTypeOK == TypeOK <=> RegistryTypeOK /\ SideTypes
  BY DEF TypeOK, SideTypes, SenderTypes, WireTypes, ReceiverTypes, HistoryTypes, CountTypes

\* The options of both sides, by name.
LEMMA OptionTypes ==
  ASSUME SideTypes
  PROVE  /\ opts.token \in TokenKinds
         /\ opts.resume \in BOOLEAN /\ opts.addr \in BOOLEAN /\ opts.rdv \in BOOLEAN
         /\ opts.relay \in BOOLEAN /\ opts.force \in BOOLEAN
         /\ opts.rcvSpace \in {"none", "S", "T"}
         /\ opts.rcvAuth \in BOOLEAN /\ opts.rcvResume \in BOOLEAN
         /\ opts.rcvSpace # "none" => opts.rcvAuth
  BY DeliveryAssumption DEF SideTypes, SenderTypes, Option

\* A packet or a reply more or less leaves the stream one of packets.
LEMMA PacketTypes ==
  ASSUME SideTypes
  PROVE  /\ out # <<>> => Tail(out) \in Seq(Packet)
         /\ in # <<>> => Tail(in) \in Seq(Reply)
         /\ \A p \in {"auth", "start", "chunk", "end"} :
              Append(out, p) \in Seq(Packet) /\ <<p>> \in Seq(Packet)
         /\ \A p \in {"auth_ok", "auth_fail", "resume"} : Append(in, p) \in Seq(Reply)
         /\ <<>> \in Seq(Packet) /\ <<>> \in Seq(Reply)
<1>1. \A S, s : s \in Seq(S) => /\ s # <<>> => Tail(s) \in Seq(S)
                              /\ \A p \in S : Append(s, p) \in Seq(S) /\ <<p>> \in Seq(S)
                              /\ <<>> \in Seq(S)
  BY HeadTailProperties, AppendProperties
<1>2. /\ \A p \in {"auth", "start", "chunk", "end"} : p \in Packet
      /\ \A p \in {"auth_ok", "auth_fail", "resume"} : p \in Reply
  BY DEF Packet, Reply
<1>3. out \in Seq(Packet) /\ in \in Seq(Reply)
  BY DEF SideTypes, WireTypes
<1> QED  BY <1>1, <1>2, <1>3

\* Where a tier that fails leaves the sender.
LEMMA TiersEnd ==
  /\ LastTier \in {"relay", "idle"}
  /\ TierAfterDirect \in {"lookup", "relay", "idle"}
  /\ FirstTier \in {"direct", "lookup", "relay", "idle"}
  /\ NextTier \in {"lookup", "relay", "idle"}
  BY DEF LastTier, TierAfterDirect, FirstTier, NextTier

\* Faults stay within their bound.
LEMMA FaultType == ASSUME SideTypes, Fault PROVE faults' \in 0..FaultBound
  BY DeliveryAssumption DEF SideTypes, HistoryTypes, Fault

\* An answer with an address is that of the record the lookup read.
LEMMA AnswerType ==
  ASSUME TypeOK
  PROVE  LookupAnswer \in Addrs \cup {"none"}
  BY DEF TypeOK, RegistryTypeOK, LookupAnswer, Record, Absent

\* The end packet is read when the sender is closing, and had a connection of a tier;
\* the chunk before it opened.
LEMMA EndIsLast ==
  ASSUME SessionInv, ReceiveEnd
  PROVE  spc = "closing" /\ route \in {"direct", "punched"} /\ rkey = SenderKey
<1>1. connUp /\ out # <<>> /\ Head(out) = "end" /\ rpc = "receiving"
  BY DEF ReceiveEnd, Incoming
<1>2. spc # "authAck"
  BY <1>1 DEF SessionInv, AuthInv
<1>3. out = FromChunk \/ (out = FromEnd /\ spc \in {"ending", "closing"} /\ rkey = SenderKey)
  BY <1>1, <1>2 DEF SessionInv, WireInv
<1>4. out # FromChunk
  BY <1>1, PacketsTaken DEF FromChunk
<1>5. spc = "closing" /\ rkey = SenderKey
  BY <1>1, <1>3, <1>4 DEF FromEnd
<1> QED  BY <1>5 DEF SessionInv, SenderInv

\* A step is the sender's, or leaves the sender's variables alone.
LEMMA SenderOrNot ==
  ASSUME [Next]_vars
  PROVE  StartSend \/ SenderStep \/ UNCHANGED <<opts, sndVars>>
<1> USE DEF vars, rcvEnv
<1>1. CASE ReceiverStep
  BY <1>1 DEF ReceiverStep, Authenticate, Reject, Unauthenticated, ReceiveStart,
              ReceiveChunk, ReceiveEnd, ReceiveEOF, ReceiveFails
<1>2. CASE Listen \/ ListenEnds \/ RelayPoll \/ LoseConnection \/ IdleTimeout
  BY <1>2 DEF Listen, ListenEnds, RelayPoll, LoseConnection, IdleTimeout
<1>3. CASE Registry \/ Clock
  BY <1>3 DEF Registry, Clock
<1> QED  BY <1>1, <1>2, <1>3 DEF Next

\* No step changes the options.
LEMMA OptionsStay == ASSUME [Next]_vars PROVE opts' = opts
  BY DEF vars, Next, SenderStep, ReceiverStep, rcvEnv, envVars, StartSend, Dial, DialFails,
     AskRendezvous, Answered, LookupFails, PunchDial, PunchExpires, RelayPush, RelayFails,
     AuthAccepted, AuthRejected, ReadResume, SendChunk, SendEnd, SessionReturns,
     SessionFails, SenderAborts, Listen, ListenEnds, Authenticate, Reject, Unauthenticated,
     ReceiveStart, ReceiveChunk, ReceiveEnd, ReceiveEOF, ReceiveFails, LoseConnection,
     IdleTimeout, RelayPoll, Registry, Clock, Connect

\* The types of the sender, action by action.
LEMMA SenderTypesStep ==
  ASSUME IInv, [Next]_vars
  PROVE  SenderTypes'
<1>1. TypeOK /\ SideTypes
  BY SideTypesIsTypeOK DEF IInv
<1> USE <1>1 DEF sndVars, envVars, SideTypes, SenderTypes, InSession
<1>2. dest \in Addrs \cup {"none"}
  OBVIOUS
<1>3. opts' = opts
  BY OptionsStay
<1>4. CASE UNCHANGED <<opts, sndVars>>
  BY <1>4
<1>5. CASE StartSend
  BY <1>3, <1>5, TiersEnd DEF StartSend, Goto, GoOn
<1>6. CASE Dial
  BY <1>3, <1>6, <1>2, TiersEnd DEF Dial, Connect
<1>7. CASE DialFails
  BY <1>3, <1>7, TiersEnd DEF DialFails, GiveUpRoute, GoOn
<1>8. CASE AskRendezvous
  BY <1>3, <1>8, TiersEnd DEF AskRendezvous
<1>9. CASE Answered
  BY <1>3, <1>9, AnswerType, TiersEnd DEF Answered, GoOn
<1>10. CASE LookupFails
  BY <1>3, <1>10, TiersEnd DEF LookupFails, Goto, GoOn
<1>11. CASE PunchDial
  BY <1>3, <1>11, <1>2, TiersEnd DEF PunchDial, Connect
<1>12. CASE PunchExpires
  BY <1>3, <1>12, TiersEnd DEF PunchExpires, GiveUpRoute, GoOn
<1>13. CASE RelayPush
  BY <1>3, <1>13, TiersEnd DEF RelayPush
<1>14. CASE RelayFails
  BY <1>3, <1>14, TiersEnd DEF RelayFails, Goto, GoOn
<1>15. CASE AuthAccepted
  BY <1>3, <1>15, TiersEnd DEF AuthAccepted, Goto, GoOn
<1>16. CASE AuthRejected
  BY <1>3, <1>16, TiersEnd DEF AuthRejected, GiveUpRoute, GoOn
<1>17. CASE ReadResume
  BY <1>3, <1>17, TiersEnd DEF ReadResume, Goto, GoOn
<1>18. CASE SendChunk
  BY <1>3, <1>18, TiersEnd DEF SendChunk, Goto, GoOn
<1>19. CASE SendEnd
  BY <1>3, <1>19, TiersEnd DEF SendEnd, Goto, GoOn
<1>20. CASE SessionReturns
  BY <1>3, <1>20, TiersEnd DEF SessionReturns
<1>21. CASE SessionFails
  BY <1>3, <1>21, TiersEnd DEF SessionFails, GiveUpRoute, GoOn
<1>22. CASE SenderAborts
  BY <1>3, <1>22, TiersEnd DEF SenderAborts, GiveUpRoute, GoOn
<1> QED
  BY <1>4, <1>5, <1>6, <1>7, <1>8, <1>9, <1>10, <1>11, <1>12, <1>13, <1>14, <1>15, <1>16,
     <1>17, <1>18, <1>19, <1>20, <1>21, <1>22, SenderOrNot DEF SenderStep

\* The types of the stream, action by action.
LEMMA WireTypesStep ==
  ASSUME IInv, [Next]_vars
  PROVE  WireTypes'
<1>1. TypeOK /\ SideTypes
  BY SideTypesIsTypeOK DEF IInv
<1> USE <1>1 DEF connVars, rcvVars, envVars, rcvEnv, sndVars, SideTypes, WireTypes
<1>2. /\ out # <<>> => Tail(out) \in Seq(Packet)
      /\ in # <<>> => Tail(in) \in Seq(Reply)
      /\ \A p \in {"auth", "start", "chunk", "end"} :
           Append(out, p) \in Seq(Packet) /\ <<p>> \in Seq(Packet)
      /\ \A p \in {"auth_ok", "auth_fail", "resume"} : Append(in, p) \in Seq(Reply)
      /\ <<>> \in Seq(Packet) /\ <<>> \in Seq(Reply)
  BY PacketTypes
<1>3. CASE UNCHANGED <<connVars>>
  BY <1>3
<1>4. CASE Dial
  BY <1>4, <1>2 DEF Dial, Connect
<1>5. CASE PunchDial
  BY <1>5, <1>2 DEF PunchDial, Connect
<1>6. CASE AuthAccepted
  BY <1>6, <1>2 DEF AuthAccepted, Reads, Sends
<1>7. CASE AuthRejected
  BY <1>7, <1>2 DEF AuthRejected, Disconnect
<1>8. CASE ReadResume
  BY <1>8, <1>2 DEF ReadResume, Reads
<1>9. CASE SendChunk
  BY <1>9, <1>2 DEF SendChunk, Sends
<1>10. CASE SendEnd
  BY <1>10, <1>2 DEF SendEnd, Sends
<1>11. CASE SenderAborts
  BY <1>11 DEF SenderAborts
<1>12. CASE Authenticate
  BY <1>12, <1>2 DEF Authenticate, Incoming, Take, ReceiverKey
<1>13. CASE Reject
  BY <1>13, <1>2 DEF Reject, Incoming, Take, Disconnect
<1>14. CASE Unauthenticated
  BY <1>14, <1>2 DEF Unauthenticated, Return, Disconnect
<1>15. CASE ReceiveStart
  BY <1>15, <1>2 DEF ReceiveStart, Incoming, Take
<1>16. CASE ReceiveChunk
  BY <1>16, <1>2 DEF ReceiveChunk, Incoming, Take, Return, Disconnect
<1>17. CASE ReceiveEnd
  BY <1>17, <1>2 DEF ReceiveEnd, Return, Disconnect
<1>18. CASE ReceiveEOF
  BY <1>18, <1>2 DEF ReceiveEOF, Return, Disconnect
<1>19. CASE LoseConnection
  BY <1>19, <1>2 DEF LoseConnection, Disconnect
<1>20. CASE IdleTimeout
  BY <1>20, <1>2 DEF IdleTimeout, Disconnect
<1>21. CASE StartSend \/ DialFails \/ AskRendezvous \/ Answered \/ LookupFails \/
          PunchExpires \/ RelayPush \/ RelayFails \/ SessionReturns \/ SessionFails
  BY <1>21, <1>3 DEF StartSend, Goto, GoOn, DialFails, GiveUpRoute, GoOn, AskRendezvous, Answered,
     LookupFails, PunchExpires, RelayPush, RelayFails, SessionReturns, SessionFails
<1>22. CASE Listen \/ ListenEnds \/ ReceiveFails \/ RelayPoll \/ Registry \/ Clock
  BY <1>22, <1>3 DEF Listen, ListenEnds, ReceiveFails, RelayPoll, Registry, Clock
<1> QED
  BY <1>3, <1>4, <1>5, <1>6, <1>7, <1>8, <1>9, <1>10, <1>11, <1>12, <1>13, <1>14,
     <1>15, <1>16, <1>17, <1>18, <1>19, <1>20, <1>21, <1>22 DEF Next, SenderStep,
     ReceiverStep, vars

\* The types of the receiver, action by action.
LEMMA ReceiverTypesStep ==
  ASSUME IInv, [Next]_vars
  PROVE  ReceiverTypes'
<1>1. TypeOK /\ SideTypes
  BY SideTypesIsTypeOK DEF IInv
<1> USE <1>1 DEF rcvVars, envVars, rcvEnv, SideTypes, ReceiverTypes
<1>2. CASE UNCHANGED <<rcvVars>>
  BY <1>2
<1>3. CASE Dial
  BY <1>3 DEF Dial, Connect
<1>4. CASE PunchDial
  BY <1>4 DEF PunchDial, Connect
<1>5. CASE Listen
  BY <1>5 DEF Listen
<1>6. CASE ListenEnds
  BY <1>6 DEF ListenEnds
<1>7. CASE Authenticate
  BY <1>7, OptionTypes DEF Authenticate, ReceiverKey, TypeOK, RegistryTypeOK
<1>8. CASE Reject
  BY <1>8 DEF Reject
<1>9. CASE Unauthenticated
  BY <1>9 DEF Unauthenticated, Return
<1>10. CASE ReceiveStart
  BY <1>10 DEF ReceiveStart
<1>11. CASE ReceiveChunk
  BY <1>11 DEF ReceiveChunk, Return
<1>12. CASE ReceiveEnd
  BY <1>12 DEF ReceiveEnd, Return
<1>13. CASE ReceiveEOF
  BY <1>13 DEF ReceiveEOF, Return
<1>14. CASE ReceiveFails
  BY <1>14 DEF ReceiveFails
<1>15. CASE StartSend \/ DialFails \/ AskRendezvous \/ Answered \/ LookupFails \/
          PunchExpires \/ RelayPush \/ RelayFails \/ AuthAccepted \/ AuthRejected \/
          ReadResume \/ SendChunk \/ SendEnd \/ SessionReturns \/ SessionFails \/
          SenderAborts
  BY <1>15, <1>2 DEF StartSend, Goto, GoOn, DialFails, GiveUpRoute, GoOn, AskRendezvous, Answered,
     LookupFails, PunchExpires, RelayPush, RelayFails, AuthAccepted, AuthRejected,
     ReadResume, SendChunk, SendEnd, SessionReturns, SessionFails, SenderAborts
<1>16. CASE LoseConnection \/ IdleTimeout \/ RelayPoll \/ Registry \/ Clock
  BY <1>16, <1>2 DEF LoseConnection, IdleTimeout, RelayPoll, Registry, Clock
<1> QED
  BY <1>2, <1>3, <1>4, <1>5, <1>6, <1>7, <1>8, <1>9, <1>10, <1>11, <1>12, <1>13,
     <1>14, <1>15, <1>16 DEF Next, SenderStep, ReceiverStep, vars

\* The types of the histories, action by action.
LEMMA HistoryTypesStep ==
  ASSUME IInv, [Next]_vars
  PROVE  HistoryTypes'
<1>1. TypeOK /\ SideTypes
  BY SideTypesIsTypeOK DEF IInv
<1> USE <1>1 DEF relayVars, histVars, envVars, rcvEnv, SideTypes, HistoryTypes
<1>2. CASE UNCHANGED <<relayVars, histVars, faults>>
  BY <1>2
<1>3. CASE StartSend
  BY <1>3 DEF StartSend
<1>4. CASE DialFails
  BY <1>4, FaultType DEF DialFails
<1>5. CASE LookupFails
  BY <1>5, FaultType DEF LookupFails
<1>6. CASE RelayPush
  BY <1>6 DEF RelayPush
<1>7. CASE RelayFails
  BY <1>7, FaultType DEF RelayFails
<1>8. CASE SenderAborts
  BY <1>8, FaultType DEF SenderAborts
<1>9. CASE ListenEnds
  BY <1>9, FaultType DEF ListenEnds
<1>10. CASE ReceiveEnd
  BY <1>10, EndIsLast DEF IInv, ReceiveEnd
<1>11. CASE LoseConnection
  BY <1>11, FaultType DEF LoseConnection
<1>12. CASE RelayPoll
  BY <1>12 DEF RelayPoll
<1>13. CASE Dial \/ AskRendezvous \/ Answered \/ PunchDial \/ PunchExpires \/
          AuthAccepted \/ AuthRejected \/ ReadResume \/ SendChunk \/ SendEnd \/
          SessionReturns \/ SessionFails
  BY <1>13, <1>2 DEF Dial, Connect, AskRendezvous, Answered, PunchDial, PunchExpires,
     GiveUpRoute, GoOn, AuthAccepted, Goto, AuthRejected, ReadResume, SendChunk, SendEnd,
     SessionReturns, SessionFails
<1>14. CASE Listen \/ Authenticate \/ Reject \/ Unauthenticated \/ ReceiveStart \/
          ReceiveChunk \/ ReceiveEOF \/ ReceiveFails \/ IdleTimeout \/ Registry \/ Clock
  BY <1>14, <1>2 DEF Listen, Authenticate, ReceiverKey, Reject, Unauthenticated,
     ReceiveStart, ReceiveChunk, ReceiveEOF, ReceiveFails, IdleTimeout, Registry,
     Clock
<1> QED
  BY <1>2, <1>3, <1>4, <1>5, <1>6, <1>7, <1>8, <1>9, <1>10, <1>11, <1>12, <1>13, <1>14
     DEF Next, SenderStep, ReceiverStep, vars

\* SendFile fails once more at most, and only when it has been called within the limit.
LEMMA RetrySteps ==
  ASSUME IInv, [Next]_vars
  PROVE  \/ UNCHANGED <<spc, retries>>
         \/ retries' = retries /\ (spc # "idle" \/ retries < MaxRetries)
         \/ /\ retries' = retries + 1 /\ spc' = "idle"
            /\ spc # "idle" \/ retries < MaxRetries
<1> USE DEF sndVars, GoOn, Goto, GiveUpRoute, InSession
<1>1. CASE UNCHANGED <<opts, sndVars>>
  BY <1>1
<1>2. CASE StartSend
  BY <1>2 DEF StartSend
<1>3. CASE Dial \/ PunchDial \/ AskRendezvous
  BY <1>3 DEF Dial, PunchDial, AskRendezvous, Connect
<1>4. CASE DialFails \/ LookupFails \/ PunchExpires \/ RelayFails
  BY <1>4 DEF DialFails, LookupFails, PunchExpires, RelayFails
<1>5. CASE Answered \/ RelayPush \/ SessionReturns
  BY <1>5 DEF Answered, RelayPush, SessionReturns
<1>6. CASE AuthRejected \/ SessionFails \/ SenderAborts
  BY <1>6 DEF AuthRejected, SessionFails, SenderAborts
<1>7. CASE AuthAccepted \/ ReadResume \/ SendChunk \/ SendEnd
  BY <1>7 DEF AuthAccepted, ReadResume, SendChunk, SendEnd
<1> QED
  BY <1>1, <1>2, <1>3, <1>4, <1>5, <1>6, <1>7, SenderOrNot DEF SenderStep

\* A refused dial is counted, and nothing else is.
LEMMA RefusedSteps ==
  ASSUME [Next]_vars
  PROVE  DialFails \/ UNCHANGED refused
<1> USE DEF vars, histVars, envVars, rcvEnv
<1>1. CASE SenderStep
  BY <1>1 DEF SenderStep, Dial, AskRendezvous, Answered, LookupFails, PunchDial,
     PunchExpires, RelayPush, RelayFails, AuthAccepted, AuthRejected, ReadResume,
     SendChunk, SendEnd, SessionReturns, SessionFails, SenderAborts, Connect
<1>2. CASE ReceiverStep
  BY <1>2 DEF ReceiverStep, Authenticate, Reject, Unauthenticated, ReceiveStart,
              ReceiveChunk, ReceiveEnd, ReceiveEOF, ReceiveFails
<1>3. CASE \/ StartSend \/ Listen \/ ListenEnds \/ RelayPoll \/ LoseConnection
           \/ IdleTimeout \/ Registry \/ Clock
  BY <1>3 DEF StartSend, Listen, ListenEnds, RelayPoll, LoseConnection, IdleTimeout,
              Registry, Clock
<1> QED  BY <1>1, <1>2, <1>3 DEF Next

\* The counts keep their types, and the limit holds.
LEMMA CountStep ==
  ASSUME IInv, [Next]_vars
  PROVE  CountTypes' /\ RetryInv'
<1>1. retries \in 0..MaxRetries /\ refused \in Nat /\ MaxRetries \in Nat
  BY DeliveryAssumption DEF IInv, TypeOK
<1>2. retries' \in 0..MaxRetries /\ RetryInv'
  BY <1>1, RetrySteps DEF IInv, RetryInv
<1>3. refused' \in Nat
  BY <1>1, RefusedSteps DEF DialFails
<1> QED  BY <1>2, <1>3 DEF CountTypes

\* Every step keeps the types.
LEMMA TypeStep ==
  ASSUME IInv, [Next]_vars
  PROVE  TypeOK'
<1>1. TypeOK /\ RegistryTypeOK'
  BY RegistryStepType DEF IInv
<1>2. SideTypes'
  BY SenderTypesStep, WireTypesStep, ReceiverTypesStep, HistoryTypesStep, CountStep
     DEF SideTypes
<1>3. (TypeOK <=> RegistryTypeOK /\ SideTypes)'
  BY DEF TypeOK, SideTypes, SenderTypes, WireTypes, ReceiverTypes, HistoryTypes, CountTypes
<1> QED  BY <1>1, <1>2, <1>3

-----------------------------------------------------------------------------
(* The session.                                                            *)

\* Every step keeps what the two sides know of their session, one case per action.
LEMMA SessionStep ==
  ASSUME IInv, [Next]_vars
  PROVE  SessionInv'
<1>1. SideTypes /\ SessionInv
  BY SideTypesIsTypeOK DEF IInv
<1> USE <1>1, OptionTypes, PacketsTaken, PacketsAppended
    DEF sndVars, connVars, rcvVars, relayVars, histVars, envVars, rcvEnv, SenderKey,
        SideTypes, SenderTypes, WireTypes, ReceiverTypes, HistoryTypes, InSession,
        SessionInv, LeftInv, AuthInv, WireInv, KeyInv, SenderInv, OneInv,
        FromStart, FromChunk, FromEnd
<1>2. CASE UNCHANGED <<opts, sndVars, connVars, rcvVars, pushed, here>>
  BY <1>2
<1>3. CASE AskRendezvous \/ RelayPoll \/ Registry \/ Clock
  BY <1>2, <1>3 DEF AskRendezvous, RelayPoll, Registry, Clock
<1>4. CASE StartSend
  BY <1>4, TiersEnd DEF StartSend, Goto, GoOn
<1>5. CASE Dial
  BY <1>5, TiersEnd DEF Dial, Connect
<1>6. CASE DialFails
  BY <1>6, TiersEnd DEF DialFails, GiveUpRoute, GoOn
<1>7. CASE Answered
  BY <1>7, TiersEnd DEF Answered, GoOn
<1>8. CASE LookupFails
  BY <1>8, TiersEnd DEF LookupFails, Goto, GoOn
<1>9. CASE PunchDial
  BY <1>9, TiersEnd DEF PunchDial, Connect
<1>10. CASE PunchExpires
  BY <1>10, TiersEnd DEF PunchExpires, GiveUpRoute, GoOn
<1>11. CASE RelayPush
  BY <1>11, TiersEnd DEF RelayPush
<1>12. CASE RelayFails
  BY <1>12, TiersEnd DEF RelayFails, Goto, GoOn
<1>13. CASE AuthAccepted
  BY <1>13, TiersEnd DEF AuthAccepted, Reads, Sends, Goto, GoOn
<1>14. CASE AuthRejected
  BY <1>14, TiersEnd DEF AuthRejected, Disconnect, GiveUpRoute, GoOn
<1>15. CASE ReadResume
  BY <1>15, TiersEnd DEF ReadResume, Reads, Goto, GoOn
<1>16. CASE SendChunk
  BY <1>16, TiersEnd DEF SendChunk, Sends, Goto, GoOn
<1>17. CASE SendEnd
  BY <1>17, TiersEnd DEF SendEnd, Sends, Goto, GoOn
<1>18. CASE SessionReturns
  BY <1>18, TiersEnd DEF SessionReturns
<1>19. CASE SessionFails
  BY <1>19, TiersEnd DEF SessionFails, GiveUpRoute, GoOn
<1>20. CASE SenderAborts
  BY <1>20, TiersEnd DEF SenderAborts, GiveUpRoute, GoOn
<1>21. CASE Listen
  BY <1>21, TiersEnd DEF Listen
<1>22. CASE ListenEnds
  BY <1>22, TiersEnd DEF ListenEnds
<1>23. CASE Authenticate
  <2>1. now \in 0..TimeBound /\ (now <= TokenLife => now \in 0..TokenLife)
    BY DeliveryAssumption, RendezvousAssumption DEF IInv, TypeOK, RegistryTypeOK
  <2> QED  BY <1>23, <2>1 DEF Authenticate, Incoming, Take, ReceiverKey, TokenValid
<1>24. CASE Reject
  BY <1>24, TiersEnd DEF Reject, Incoming, Take, Disconnect, TokenValid
<1>25. CASE Unauthenticated
  BY <1>25, TiersEnd DEF Unauthenticated, Return, Disconnect, Incoming
<1>26. CASE ReceiveStart
  BY <1>26, TiersEnd, ZenonT(30) DEF ReceiveStart, Incoming, Take
<1>27. CASE ReceiveChunk
  BY <1>27, TiersEnd, ZenonT(30) DEF ReceiveChunk, Incoming, Take, Return, Disconnect, Opens
<1>28. CASE ReceiveEnd
  <2>1. spc = "closing"
    BY <1>1, <1>28, EndIsLast
  <2>2. ~pushed
    BY <1>1, <2>1
  <2>3. /\ rpc' = "down" /\ connUp' = FALSE /\ out' = <<>> /\ in' = <<>> /\ ~fin'
        /\ UNCHANGED <<opts, sndVars, pushed, rkey>>
    BY <1>28 DEF ReceiveEnd, Return, Disconnect
  <2> QED  BY <2>1, <2>2, <2>3
<1>29. CASE ReceiveEOF
  BY <1>29, TiersEnd DEF ReceiveEOF, Return, Disconnect
<1>30. CASE ReceiveFails
  BY <1>30, TiersEnd DEF ReceiveFails
<1>31. CASE LoseConnection
  BY <1>31, TiersEnd DEF LoseConnection, Disconnect
<1>32. CASE IdleTimeout
  BY <1>32, TiersEnd DEF IdleTimeout, Disconnect, WaitForEachOther
<1> QED
  BY <1>2, <1>3, <1>4, <1>5, <1>6, <1>7, <1>8, <1>9, <1>10, <1>11, <1>12, <1>13,
     <1>14, <1>15, <1>16, <1>17, <1>18, <1>19, <1>20, <1>21, <1>22, <1>23, <1>24,
     <1>25, <1>26, <1>27, <1>28, <1>29, <1>30, <1>31, <1>32 DEF Next, SenderStep,
     ReceiverStep, vars

-----------------------------------------------------------------------------
(* What a retry is spent on.                                               *)

\* The direct connection of this SendFile was refused or lost: if no other tier delivers
\* the file, it will have failed.
Spent == \/ spc \in {"lookup", "punch", "relay"}
         \/ spc \in InSession /\ (route = "punched" \/ ~connUp)
Owed == IF Spent THEN 1 ELSE 0

\* A sender that waits for a resume packet will have it from a receiver that resumes; a
\* stream it has closed is not one it sends on.
AwaitInv ==
  /\ spc = "await" => opts.resume
  /\ connUp /\ spc = "await" /\ rpc = "receiving" /\ opts.rcvResume => in = <<"resume">>
  /\ connUp /\ fin => spc \notin InSession

\* No receiver leaves a connection without an end packet when the sides agree, and each
\* retry, the one that is owed too, has a failure or a refused dial of its own.
Accounted == /\ connUp => rpc \notin {"down", "listening"}
             /\ retries + Owed <= faults + refused

AccountInv == AwaitInv /\ (CanDeliver => Accounted)

\* What the sides know of a session gives AwaitInv, step by step.
LEMMA AwaitStep ==
  ASSUME IInv, AwaitInv, [Next]_vars
  PROVE  AwaitInv'
<1>1. SideTypes /\ SessionInv
  BY SideTypesIsTypeOK DEF IInv
<1> USE <1>1, OptionTypes, PacketsAppended
    DEF sndVars, connVars, rcvVars, envVars, rcvEnv, AwaitInv, InSession, GoOn, Goto,
        GiveUpRoute, Disconnect, Take, Return
<1>2. CASE UNCHANGED <<opts, sndVars, connVars, rpc>>
  BY <1>2
<1>3. CASE AskRendezvous \/ RelayPoll \/ Registry \/ Clock
  BY <1>2, <1>3 DEF AskRendezvous, RelayPoll, Registry, Clock
<1>4. CASE StartSend \/ DialFails \/ Answered \/ LookupFails \/ PunchExpires
  BY <1>4, TiersEnd DEF StartSend, DialFails, Answered, LookupFails, PunchExpires
<1>5. CASE Dial \/ PunchDial
  BY <1>5 DEF Dial, PunchDial, Connect
<1>6. CASE RelayPush \/ RelayFails \/ SessionReturns \/ SessionFails
  BY <1>6, TiersEnd DEF RelayPush, RelayFails, SessionReturns, SessionFails
<1>7. CASE AuthAccepted
  BY <1>7 DEF AuthAccepted, Reads, Sends, SessionInv, AuthInv
<1>8. CASE AuthRejected \/ SenderAborts
  BY <1>8, TiersEnd DEF AuthRejected, SenderAborts
<1>9. CASE ReadResume \/ SendChunk \/ SendEnd
  BY <1>9 DEF ReadResume, SendChunk, SendEnd, Reads, Sends
<1>10. CASE Listen \/ ListenEnds \/ ReceiveFails
  BY <1>10 DEF Listen, ListenEnds, ReceiveFails
<1>11. CASE Authenticate \/ Unauthenticated
  BY <1>11 DEF Authenticate, Unauthenticated
<1>12. CASE Reject
  BY <1>12 DEF Reject
<1>13. CASE ReceiveStart
  BY <1>13 DEF ReceiveStart, Incoming, SessionInv, AuthInv, WireInv
<1>14. CASE ReceiveChunk
  BY <1>14 DEF ReceiveChunk
<1>15. CASE ReceiveEnd \/ ReceiveEOF \/ LoseConnection \/ IdleTimeout
  BY <1>15 DEF ReceiveEnd, ReceiveEOF, LoseConnection, IdleTimeout
<1> QED
  BY <1>2, <1>3, <1>4, <1>5, <1>6, <1>7, <1>8, <1>9, <1>10, <1>11, <1>12, <1>13, <1>14,
     <1>15 DEF Next, SenderStep, ReceiverStep, vars

\* When the sides agree, no step of theirs ends a session on a sender in the middle of it.
LEMMA NothingEndsIt ==
  ASSUME IInv, AwaitInv, CanDeliver, Accounted
  PROVE  /\ ~AuthRejected /\ ~Reject /\ ~IdleTimeout
         /\ Unauthenticated => UNCHANGED connVars
         /\ ReceiveChunk => UNCHANGED <<connUp, rpc>>
         /\ ReceiveEnd \/ ReceiveEOF => spc \notin InSession
<1>1. SideTypes /\ SessionInv
  BY SideTypesIsTypeOK DEF IInv
<1> USE <1>1, OptionTypes DEF CanDeliver, Agree
<1>2. ~AuthRejected
  BY PacketsTaken DEF AuthRejected, Accounted, SessionInv, AuthInv, SideTypes, ReceiverTypes
<1>3. ~Reject
  <2> SUFFICES ASSUME Reject PROVE FALSE
    OBVIOUS
  <2>1. connUp /\ rpc = "accepted" /\ Head(out) = "auth" /\ opts.token = "none"
    BY DEF Reject, Incoming, TokenValid, TokenKinds
  <2>2. out = FromStart
    BY <2>1 DEF SessionInv, AuthInv, WireInv
  <2>3. Head(FromStart) = "start"
    BY PacketsTaken DEF FromStart
  <2> QED
    BY <2>1, <2>2, <2>3
<1>4. ~IdleTimeout
  <2>1. <<"resume">> # <<>>
    OBVIOUS
  <2> QED
    BY <2>1, Zenon DEF IdleTimeout, WaitForEachOther, AwaitInv
<1>5. Unauthenticated => UNCHANGED connVars
  BY PacketsTaken DEF Unauthenticated, Incoming, SessionInv, AuthInv, WireInv
<1>6. ReceiveChunk => UNCHANGED <<connUp, rpc>>
  BY DEF ReceiveChunk, Take, Opens, SenderKey, SessionInv, KeyInv
<1>7. ReceiveEnd \/ ReceiveEOF => spc \notin InSession
  BY EndIsLast DEF ReceiveEOF, AwaitInv, InSession
<1> QED  BY <1>2, <1>3, <1>4, <1>5, <1>6, <1>7

\* A fault or none, and a dial refused or none.
LEMMA CountsGrow ==
  ASSUME IInv, [Next]_vars
  PROVE  /\ retries \in Nat /\ refused \in Nat /\ faults \in Nat
         /\ retries' \in Nat /\ refused' \in Nat /\ faults' \in Nat
<1>1. TypeOK /\ TypeOK'
  BY TypeStep DEF IInv
<1> QED  BY <1>1, DeliveryAssumption DEF TypeOK

\* The tiers keep the account.
LEMMA TiersAccount ==
  ASSUME IInv, AccountInv, CanDeliver, [Next]_vars,
         \/ StartSend \/ Dial \/ DialFails \/ AskRendezvous \/ Answered \/ LookupFails
         \/ PunchDial \/ PunchExpires \/ RelayPush \/ RelayFails
  PROVE  Accounted'
<1> USE CountsGrow DEF AccountInv, Accounted, sndVars, connVars, rcvVars, GoOn, Goto,
        GiveUpRoute, Owed, Spent, InSession
<1>1. CASE StartSend
  BY <1>1 DEF StartSend, FirstTier, CanDeliver
<1>2. CASE Dial
  BY <1>2 DEF Dial, Connect, histVars
<1>3. CASE DialFails
  BY <1>3, TiersEnd DEF DialFails, Fault
<1>4. CASE AskRendezvous
  BY <1>4 DEF AskRendezvous, histVars
<1>5. CASE Answered
  BY <1>5, TiersEnd DEF Answered, histVars
<1>6. CASE LookupFails \/ RelayFails
  BY <1>6, TiersEnd DEF LookupFails, RelayFails, Fault, histVars
<1>7. CASE PunchDial
  BY <1>7 DEF PunchDial, Connect, histVars
<1>8. CASE PunchExpires
  BY <1>8, TiersEnd DEF PunchExpires, histVars
<1>9. CASE RelayPush
  BY <1>9 DEF RelayPush, histVars
<1> QED  BY <1>1, <1>2, <1>3, <1>4, <1>5, <1>6, <1>7, <1>8, <1>9

\* The sender's side of a session keeps the account.
LEMMA SenderAccounts ==
  ASSUME IInv, AccountInv, CanDeliver, [Next]_vars,
         \/ AuthAccepted \/ AuthRejected \/ ReadResume \/ SendChunk \/ SendEnd
         \/ SessionReturns \/ SessionFails \/ SenderAborts
  PROVE  Accounted'
<1> USE CountsGrow DEF AccountInv, Accounted, sndVars, connVars, rcvVars, envVars, histVars,
        GoOn, Goto, GiveUpRoute, Owed, Spent, InSession
<1>1. CASE AuthAccepted \/ ReadResume \/ SendChunk \/ SendEnd
  BY <1>1 DEF AuthAccepted, ReadResume, SendChunk, SendEnd
<1>2. CASE AuthRejected
  BY <1>2, NothingEndsIt
<1>3. CASE SessionReturns
  BY <1>3 DEF SessionReturns
<1>4. CASE SessionFails
  BY <1>4, TiersEnd DEF SessionFails
<1>5. CASE SenderAborts
  BY <1>5, TiersEnd DEF SenderAborts, Fault
<1> QED  BY <1>1, <1>2, <1>3, <1>4, <1>5

\* The receiver, the network, the relay and the registry keep the account.
LEMMA OthersAccount ==
  ASSUME IInv, AccountInv, CanDeliver, [Next]_vars,
         \/ UNCHANGED vars \/ ReceiverStep \/ Listen \/ ListenEnds \/ LoseConnection
         \/ IdleTimeout \/ RelayPoll \/ Registry \/ Clock
  PROVE  Accounted'
<1>1. Accounted /\ AwaitInv
  BY DEF AccountInv
<1> USE <1>1, CountsGrow DEF Accounted, connVars, rcvVars, rcvEnv, histVars, sndVars, Owed,
        Spent, Disconnect, Take, Return
<1>2. CASE UNCHANGED <<sndVars, connVars, rpc, refused, faults>>
  BY <1>2
<1>3. CASE RelayPoll \/ Registry \/ Clock
  BY <1>2, <1>3 DEF RelayPoll, Registry, Clock
<1>4. CASE Listen \/ ListenEnds \/ ReceiveFails
  BY <1>4 DEF Listen, ListenEnds, ReceiveFails, Fault
<1>5. CASE Authenticate \/ ReceiveStart
  BY <1>5 DEF Authenticate, ReceiveStart
<1>6. CASE Unauthenticated
  <2>1. UNCHANGED connVars
    BY <1>6, NothingEndsIt
  <2>2. connUp /\ rpc' \in {"session", "down"} /\ (rpc' = "down" => ~connUp')
    BY <1>6 DEF Unauthenticated, Incoming
  <2>3. UNCHANGED <<sndVars, refused, faults>>
    BY <1>6 DEF Unauthenticated
  <2> QED
    BY <2>1, <2>2, <2>3
<1>7. CASE ReceiveChunk
  <2>1. UNCHANGED <<connUp, rpc>>
    BY <1>7, NothingEndsIt
  <2>2. UNCHANGED <<sndVars, refused, faults>>
    BY <1>7 DEF ReceiveChunk
  <2> QED
    BY <2>1, <2>2
<1>8. CASE ReceiveEnd \/ ReceiveEOF
  BY <1>8, NothingEndsIt DEF ReceiveEnd, ReceiveEOF
<1>9. CASE LoseConnection
  BY <1>9 DEF LoseConnection, Fault
<1>10. CASE Reject \/ IdleTimeout
  BY <1>10, NothingEndsIt
<1> QED
  BY <1>2, <1>3, <1>4, <1>5, <1>6, <1>7, <1>8, <1>9, <1>10 DEF ReceiverStep, vars

\* The account is kept for as long as the sides agree and the token is valid.
LEMMA AccountStep ==
  ASSUME IInv, AccountInv, [Next]_vars
  PROVE  AccountInv'
<1>1. AwaitInv'
  BY AwaitStep DEF AccountInv
<1>2. ASSUME CanDeliver' PROVE Accounted'
  <2>1. opts' = opts /\ now \in Int /\ now' \in Int /\ now <= now'
    <3>1. opts' = opts
      BY OptionsStay
    <3>2. now \in Nat /\ (now' = now \/ now' = now + 1)
      <4>1. now \in Nat
        BY RendezvousAssumption DEF IInv, TypeOK, RegistryTypeOK
      <4>2. CASE Tick
        BY <4>1, <4>2 DEF Tick
      <4>3. CASE SweepBegins \/ evict \/ Register(home) \/ ReadRecord \/ LookupEnds
        BY <4>1, <4>3 DEF SweepBegins, evict, Register, ReadRecord, LookupEnds
      <4> QED
        BY <4>1, <4>2, <4>3, RegistrySteps
    <3> QED  BY <3>1, <3>2
  <2>2. CanDeliver
    BY <1>2, <2>1, DeliveryAssumption DEF CanDeliver, Agree
  <2> QED
    BY <2>2, TiersAccount, SenderAccounts, OthersAccount DEF Next, SenderStep
<1> QED  BY <1>1, <1>2 DEF AccountInv

-----------------------------------------------------------------------------
(* The theorems.                                                           *)

\* The invariant holds before the first call.
LEMMA InitIInv == Init => IInv
<1> SUFFICES ASSUME Init
             PROVE  IInv
  OBVIOUS
<1>1. KnownAddr \in Addrs
  BY DeliveryAssumption DEF KnownAddr
<1>2. RegistryTypeOK /\ RegistryInv
  <2>1. 0 \in 0..TimeBound
    BY RendezvousAssumption
  <2>2. /\ now = 0 /\ sweep = -1 /\ NoSweep = -1
        /\ peer = Absent /\ read = Absent /\ last = Absent
        /\ Absent \in Record
    BY DEF Init, RegistryInit, Record, NoSweep
  <2>3. asking \in BOOLEAN /\ renewed \in BOOLEAN /\ ~asking
    BY DEF Init, RegistryInit
  <2> QED
    BY <2>1, <2>2, <2>3 DEF RegistryTypeOK, RegistryInv
<1>3. SideTypes
  <2>1. 0 \in 0..FaultBound
    BY DeliveryAssumption
  <2>2. SenderTypes
    BY DEF Init, SenderTypes
  <2>3. WireTypes
    <3>1. connUp \in BOOLEAN /\ fin \in BOOLEAN
      BY Zenon DEF Init
    <3>2. out \in Seq(Packet) /\ in \in Seq(Reply)
      BY DEF Init
    <3> QED  BY <3>1, <3>2 DEF WireTypes
  <2>4. ReceiverTypes
    BY <1>1 DEF Init, ReceiverTypes
  <2>5. HistoryTypes
    BY <2>1 DEF Init, HistoryTypes
  <2>6. CountTypes
    BY DeliveryAssumption DEF Init, CountTypes
  <2> QED  BY <2>2, <2>3, <2>4, <2>5, <2>6 DEF SideTypes
<1>4. SessionInv
  BY DEF Init, SessionInv, LeftInv, AuthInv, WireInv, KeyInv, SenderInv, OneInv, InSession
<1>5. RetryInv
  BY DEF Init, RetryInv
<1> QED  BY <1>2, <1>3, <1>4, <1>5, SideTypesIsTypeOK DEF IInv

\* Every step keeps the invariant.
LEMMA NextIInv == IInv /\ [Next]_vars => IInv'
  BY TypeStep, RegistryStepInv, SessionStep, CountStep DEF IInv

\* The inductive invariant holds in every behaviour.
THEOREM Invariance == Spec => []IInv
  BY InitIInv, NextIInv, PTL DEF Spec

\* Every variable of both sides, of the connection and of the registry keeps its type,
\* whatever the options and however SendFile and the receiver are restarted.
THEOREM TypeCorrect == Spec => []TypeOK
<1>1. IInv => TypeOK
  BY DEF IInv
<1> QED  BY <1>1, Invariance, PTL

\* When the sides agree and the sender knows an address, every retry the queue counts
\* (coordinator.go) has a failure, or a dial while nobody listened, of its own: for any
\* retry limit, nothing else brings an entry to it while the token is valid.
THEOREM RetriesAccounted == Spec => []RetriesAreAccountedFor
<1>1. Init => IInv /\ AccountInv
  <2> SUFFICES ASSUME Init PROVE AccountInv
    BY InitIInv
  <2>1. AwaitInv
    BY DEF Init, AwaitInv
  <2>2. Accounted
    BY DEF Init, Accounted, Owed, Spent, InSession
  <2> QED
    BY <2>1, <2>2 DEF AccountInv
<1>2. IInv /\ AccountInv /\ [Next]_vars => (IInv /\ AccountInv)'
  BY NextIInv, AccountStep
<1>3. IInv /\ AccountInv => RetriesAreAccountedFor
  <2> SUFFICES ASSUME IInv, Accounted PROVE retries <= faults + refused
    BY DEF AccountInv, RetriesAreAccountedFor
  <2>1. retries \in Nat /\ refused \in Nat /\ faults \in Nat
    BY DeliveryAssumption DEF IInv, TypeOK
  <2> QED
    BY <2>1 DEF Accounted, Owed
<1> QED  BY <1>1, <1>2, <1>3, PTL DEF Spec

\* One SendFile of deliverer.go does not deliver a file twice: once a complete file has
\* come by a connection, no failure of that session sends it to the relay as well.
THEOREM FileTakesOneRoute == Spec => []OneRoute
<1>1. IInv => OneRoute
  BY DEF IInv, SessionInv, OneInv, OneRoute
<1> QED  BY <1>1, Invariance, PTL

\* A complete file comes by a connection only between sides whose options agree, with a
\* token that was granted to the receiver and valid when it was verified (auth.go,
\* session.go); and by the relay only unsealed.
THEOREM OnlyTheAgreedReceive == Spec => ReceivedOnlyIfAgreed
<1>1. ASSUME IInv, [Next]_vars, received' # received
      PROVE  IF here' # here THEN /\ Agree
                                  /\ opts.token = "recipient" =>
                                       verifiedAt \in 0..TokenLife
                             ELSE opts.token = "none"
  <2>1. ReceiveEnd \/ RelayPoll
    BY <1>1 DEF Next, vars, SenderStep, ReceiverStep, histVars, envVars, rcvEnv, StartSend,
         Dial, DialFails, AskRendezvous, Answered, LookupFails, PunchDial, PunchExpires,
         RelayPush, RelayFails, AuthAccepted, AuthRejected, ReadResume, SendChunk, SendEnd,
         SessionReturns, SessionFails, SenderAborts, Connect, Listen, ListenEnds,
         Authenticate, Reject, Unauthenticated, ReceiveStart, ReceiveChunk, ReceiveEOF,
         ReceiveFails, LoseConnection, IdleTimeout, Registry, Clock
  <2>2. CASE ReceiveEnd
    <3>1. spc = "closing" /\ rkey = SenderKey
      BY <1>1, <2>2, EndIsLast DEF IInv
    <3>2. here = FALSE /\ here' = TRUE
      BY <1>1, <2>2 DEF IInv, TypeOK, SessionInv, OneInv, ReceiveEnd, Incoming
    <3>3. /\ opts.token # "none" => /\ opts.token = "recipient"
                                    /\ verifiedAt \in 0..TokenLife
                                    /\ rkey = opts.rcvSpace
          /\ opts.token = "none" => ~opts.rcvAuth
      BY <1>1, <2>2 DEF IInv, SessionInv, KeyInv, ReceiveEnd
    <3>4. opts.resume => opts.rcvResume
      BY <1>1, <3>1 DEF IInv, SessionInv, SenderInv
    <3> QED  BY <3>1, <3>2, <3>3, <3>4 DEF Agree, SenderKey
  <2>3. CASE RelayPoll
    BY <1>1, <2>3 DEF RelayPoll, Opens, SenderKey
  <2> QED  BY <2>1, <2>2, <2>3
<1>2. IInv /\ [Next]_vars =>
        [received' # received =>
           IF here' # here THEN /\ Agree
                                /\ opts.token = "recipient" => verifiedAt \in 0..TokenLife
                           ELSE opts.token = "none"]_vars
  BY <1>1
<1> QED  BY <1>2, Invariance, PTL DEF Spec, ReceivedOnlyIfAgreed

\* A lookup of the rendezvous server is answered by the peer's last registration, or by
\* 404 when that has expired, unless the peer registers meanwhile: no sweep, whenever it
\* took its time, hides a registered peer (server.go).
THEOREM LookupsAreCurrent == Spec => AnswerIsCurrent
<1>1. ASSUME IInv, Answered
      PROVE  renewed \/ dest' = IF last.expires < now THEN "none" ELSE last.addr
  <2>1. asking /\ dest' = LookupAnswer
    BY <1>1 DEF Answered, LookupEnds
  <2>2. CASE ~renewed /\ read = last
    BY <2>1, <2>2 DEF LookupAnswer
  <2>3. CASE read = Absent /\ last.expires < now
    <3>1. Absent.expires < now
      BY <1>1 DEF IInv, TypeOK, RegistryTypeOK, Absent
    <3> QED  BY <2>1, <2>3, <3>1 DEF LookupAnswer
  <2> QED  BY <1>1, <2>1, <2>2, <2>3 DEF IInv, RegistryInv
<1>2. IInv => [Answered => \/ renewed
                          \/ dest' = IF last.expires < now THEN "none" ELSE last.addr]_vars
  BY <1>1
<1> QED  BY <1>2, Invariance, PTL DEF Spec, AnswerIsCurrent
=============================================================================
