------------------------------- MODULE Delivery -------------------------------
(***************************************************************************)
(* One queued file on its way to a peer: Deliverer.SendFile of             *)
(* internal/network/deliverer.go, called until it returns nil or has       *)
(* failed as often as the queue of internal/sync/coordinator.go allows,    *)
(* against a receiver that runs ReceiveOnceWithOptions again and again.    *)
(* The tiers are a direct connection, one to the address the rendezvous    *)
(* server gives (Rendezvous, internal/holepunch/puncher.go), and the       *)
(* relay.  Each session begins with the handshake of                       *)
(* internal/network/auth.go, and its key is derived by both sides on their *)
(* own (session.go).                                                       *)
(*                                                                         *)
(* What the sides agree on depends on the options each was started with,   *)
(* which no step changes: they are drawn once, from Options.  The file is  *)
(* one chunk; SendPipeline and ResumeTransfer have many, RelayTransfer the *)
(* messages of the relay.                                                  *)
(***************************************************************************)
EXTENDS Rendezvous, Sequences

CONSTANTS Options,          \* options of the two sides
          TokenLife,        \* how long a queued token is valid
          MaxRetries,       \* 10 for the queue; vault send tries once
          FaultBound        \* bound: failures of network, relay and sender, moves

\* No token; one issued for the recipient when the file was queued; or one issued to the
\* sender itself (by a node at each attempt, by vault send when it is not told the
\* recipient's key).  A token comes with the key of space S.
TokenKinds == {"none", "recipient", "self"}

Option == [token : TokenKinds, resume : BOOLEAN,
           addr : BOOLEAN, rdv : BOOLEAN, relay : BOOLEAN, force : BOOLEAN,
           rcvSpace : {"none", "S", "T"}, rcvAuth : BOOLEAN, rcvResume : BOOLEAN]

ASSUME DeliveryAssumption ==
  /\ Addrs # {} /\ "none" \notin Addrs
  /\ Options \subseteq Option
  /\ \A o \in Options : o.rcvSpace # "none" => o.rcvAuth
  /\ TokenLife \in Nat /\ MaxRetries \in Nat /\ FaultBound \in Nat

VARIABLES
  opts,
  spc,                      \* the sender: where it is in SendFile
  dest, route,              \* the address of the tier, and which connection is in use
  done,                     \* SendFile returned nil, and the entry was removed
  retries,                  \* how often SendFile returned an error
  connUp, fin,              \* the connection; has the sender closed its side?
  out, in,                  \* packets on the way to and from the receiver
  rpc, home,                \* the receiver, and the address it listens on
  rkey, verifiedAt,         \* its session key, and when it verified the token
  file,                     \* its output file
  inbox,                    \* the peer's inbox at the relay
  received,                 \* history: routes a complete file came by
  here, pushed,             \* history: came complete, was pushed, in this SendFile
  refused,                  \* history: direct dials that found nobody listening
  faults

sndVars == <<spc, dest, route, done, retries>>
connVars == <<connUp, fin, out, in>>
rcvVars == <<rpc, home, rkey, verifiedAt, file>>
relayVars == <<inbox, pushed>>
histVars == <<received, here, refused>>
vars == <<now, registryVars, opts, sndVars, connVars, rcvVars, relayVars, histVars, faults>>

InSession == {"authAck", "await", "sending", "ending"}
Packet == {"auth", "start", "chunk", "end"}
Reply == {"auth_ok", "auth_fail", "resume"}

TypeOK ==
  /\ RegistryTypeOK
  /\ opts \in Options
  /\ spc \in {"idle", "direct", "lookup", "punch", "relay", "closing"} \cup InSession
  /\ dest \in IF spc = "punch" THEN Addrs ELSE Addrs \cup {"none"}
  /\ route \in {"none", "direct", "punched"}
  /\ done \in BOOLEAN /\ connUp \in BOOLEAN /\ fin \in BOOLEAN
  /\ out \in Seq(Packet) /\ in \in Seq(Reply)
  /\ rpc \in {"down", "listening", "accepted", "session", "receiving"}
  /\ home \in Addrs /\ rkey \in {"none", "S", "T"}
  /\ verifiedAt \in 0..TimeBound \cup {-1}
  /\ file \in {"absent", "empty", "whole"}
  /\ inbox \in BOOLEAN /\ pushed \in BOOLEAN /\ here \in BOOLEAN
  /\ received \subseteq {"direct", "punched", "relay"}
  /\ retries \in 0..MaxRetries /\ refused \in Nat /\ faults \in 0..FaultBound

\* The address the sender knows is the one the receiver first listens on.
KnownAddr == CHOOSE a \in Addrs : TRUE

Init == /\ RegistryInit
        /\ opts \in Options
        /\ spc = "idle" /\ dest = "none" /\ route = "none" /\ done = FALSE
        /\ connUp = FALSE /\ fin = FALSE /\ out = <<>> /\ in = <<>>
        /\ rpc = "down" /\ home = KnownAddr
        /\ rkey = "none" /\ verifiedAt = -1 /\ file = "absent"
        /\ inbox = FALSE /\ pushed = FALSE
        /\ received = {} /\ here = FALSE
        /\ retries = 0 /\ refused = 0 /\ faults = 0

Fault == faults < FaultBound /\ faults' = faults + 1

-----------------------------------------------------------------------------
(* The tiers.                                                              *)

\* The key of the sender's session, and of the relay's chunks and manifest.
SenderKey == IF opts.token = "none" THEN "none" ELSE "S"

Disconnect == connUp' = FALSE /\ fin' = FALSE /\ out' = <<>> /\ in' = <<>>

\* SendFile goes on at pc; without a tier that is left it returns an error.
GoOn(pc) == /\ spc' = pc
            /\ retries' = IF pc = "idle" THEN retries + 1 ELSE retries
            /\ UNCHANGED done
Goto(pc) == GoOn(pc) /\ UNCHANGED <<dest, route>>
GiveUpRoute(pc) == GoOn(pc) /\ route' = "none" /\ dest' = "none"

\* Without a relay client SendFile returns an error.
LastTier == IF opts.relay THEN "relay" ELSE "idle"
TierAfterDirect == IF opts.rdv THEN "lookup" ELSE LastTier

\* Mutant of FirstTier: with a rendezvous client the known address is not tried.
FirstTier_RendezvousFirst ==
  CASE opts.force -> LastTier
    [] opts.rdv /\ ~opts.force -> "lookup"
    [] opts.addr /\ ~opts.rdv /\ ~opts.force -> "direct"
    [] OTHER -> LastTier

FirstTier == CASE opts.force -> LastTier
               [] opts.addr /\ ~opts.force -> "direct"
               [] OTHER -> TierAfterDirect

NextTier == IF route = "direct" THEN TierAfterDirect ELSE LastTier

\* The queue, or vault send, calls SendFile until it returns nil, or gives up.
StartSend == /\ spc = "idle" /\ ~done /\ retries < MaxRetries
             /\ Goto(FirstTier)
             /\ here' = FALSE /\ pushed' = FALSE
             /\ UNCHANGED <<now, registryVars, opts, connVars, rcvVars, inbox, received,
                            refused, faults>>

\* A dialled receiver accepts this connection and stops listening.  The sender's
\* first packet is the token, if it has one.
Connect(r) ==
  /\ rpc = "listening"
  /\ connUp' = TRUE /\ fin' = FALSE /\ in' = <<>>
  /\ IF opts.token = "none"
       THEN out' = <<"start">> /\ spc' = IF opts.resume THEN "await" ELSE "sending"
       ELSE out' = <<"auth">> /\ spc' = "authAck"
  /\ route' = r
  /\ rpc' = "accepted"
  /\ UNCHANGED <<now, registryVars, opts, dest, done, retries, home, rkey, verifiedAt,
                 file, relayVars, histVars>>

Dial == /\ spc = "direct" /\ home = KnownAddr
        /\ Connect("direct")
        /\ UNCHANGED faults

\* Nobody listens there, or the packets do not come through.
DialFails == /\ spc = "direct"
             /\ IF rpc = "listening" /\ home = KnownAddr
                  THEN Fault /\ UNCHANGED refused
                  ELSE refused' = refused + 1 /\ UNCHANGED faults
             /\ GiveUpRoute(TierAfterDirect)
             /\ UNCHANGED <<now, registryVars, opts, connVars, rcvVars, relayVars,
                            received, here>>

AskRendezvous == /\ spc = "lookup"
                 /\ ReadRecord
                 /\ UNCHANGED <<opts, sndVars, connVars, rcvVars, relayVars, histVars,
                                faults>>

\* Mutant of Answered: an answer without an address is dialled.
Answered_AnyAnswer ==
  /\ spc = "lookup"
  /\ LookupEnds
  /\ dest' = LookupAnswer
  /\ spc' = "punch"
  /\ UNCHANGED <<opts, route, done, retries, connVars, rcvVars, relayVars, histVars,
                 faults>>

\* "none" is no address: the next tier.
Answered == /\ spc = "lookup"
            /\ LookupEnds
            /\ dest' = LookupAnswer
            /\ GoOn(IF LookupAnswer = "none" THEN LastTier ELSE "punch")
            /\ UNCHANGED <<opts, route, connVars, rcvVars, relayVars, histVars, faults>>

\* The server cannot be asked, or not in time.
LookupFails == /\ spc = "lookup"
               /\ Fault
               /\ IF asking THEN LookupEnds ELSE UNCHANGED <<now, registryVars>>
               /\ Goto(LastTier)
               /\ UNCHANGED <<opts, connVars, rcvVars, relayVars, histVars>>

\* Within the window the address is dialled again and again.
PunchDial == /\ spc = "punch" /\ home = dest
             /\ Connect("punched")
             /\ UNCHANGED faults

\* Mutant of PunchExpires: no window; an address without a peer is dialled for ever.
PunchExpires_Waits ==
  /\ spc = "punch" /\ home = dest
  /\ GiveUpRoute(LastTier)
  /\ UNCHANGED <<now, registryVars, opts, connVars, rcvVars, relayVars, histVars, faults>>

\* ErrPunchFailed: the window ended before a dial succeeded.
PunchExpires ==
  /\ spc = "punch"
  /\ GiveUpRoute(LastTier)
  /\ UNCHANGED <<now, registryVars, opts, connVars, rcvVars, relayVars, histVars, faults>>

RelayPush == /\ spc = "relay"
             /\ inbox' = TRUE /\ pushed' = TRUE
             /\ spc' = "idle" /\ done' = TRUE
             /\ UNCHANGED <<now, registryVars, opts, dest, route, retries, connVars,
                            rcvVars, histVars, faults>>

RelayFails == /\ spc = "relay"
              /\ Fault
              /\ Goto("idle")
              /\ UNCHANGED <<now, registryVars, opts, connVars, rcvVars, relayVars,
                             histVars>>

-----------------------------------------------------------------------------
(* The session: the sender.                                                *)

envVars == <<now, registryVars, opts, relayVars, histVars>>

Reads(reply) == connUp /\ in # <<>> /\ Head(in) = reply /\ in' = Tail(in)
Sends(p) == connUp /\ out' = Append(out, p)

AuthAccepted == /\ spc = "authAck" /\ Reads("auth_ok")
                /\ Sends("start")
                /\ Goto(IF opts.resume THEN "await" ELSE "sending")
                /\ UNCHANGED <<envVars, connUp, fin, rcvVars, faults>>

AuthRejected == /\ spc = "authAck" /\ connUp /\ in # <<>> /\ Head(in) = "auth_fail"
                /\ Disconnect
                /\ GiveUpRoute(NextTier)
                /\ UNCHANGED <<envVars, rcvVars, faults>>

ReadResume == /\ spc = "await" /\ Reads("resume")
              /\ Goto("sending")
              /\ UNCHANGED <<envVars, connUp, fin, out, rcvVars, faults>>

SendChunk == /\ spc = "sending" /\ Sends("chunk")
             /\ Goto("ending")
             /\ UNCHANGED <<envVars, connUp, fin, in, rcvVars, faults>>

SendEnd == /\ spc = "ending" /\ Sends("end")
           /\ fin' = TRUE
           /\ Goto("closing")
           /\ UNCHANGED <<envVars, connUp, in, rcvVars, faults>>

\* Mutant of SessionReturns: a lost connection is an error, and the next tier is tried.
SessionReturns_MayFail ==
  /\ spc = "closing" /\ ~connUp
  /\ \/ /\ spc' = "idle" /\ route' = "none" /\ dest' = "none" /\ done' = TRUE
        /\ UNCHANGED retries
     \/ GiveUpRoute(NextTier)
  /\ UNCHANGED <<envVars, connVars, rcvVars, faults>>

\* The receiver has closed the connection, or it is lost: the error of ReadAll is
\* dropped, and SendFile returns nil.
SessionReturns ==
  /\ spc = "closing" /\ ~connUp
  /\ spc' = "idle" /\ route' = "none" /\ dest' = "none" /\ done' = TRUE
  /\ UNCHANGED <<envVars, retries, connVars, rcvVars, faults>>

SessionFails == /\ spc \in InSession /\ ~connUp
                /\ GiveUpRoute(NextTier)
                /\ UNCHANGED <<envVars, connVars, rcvVars, faults>>

\* A chunk cannot be cut or stored: the deferred calls close stream and connection.
SenderAborts == /\ spc = "sending" /\ connUp
                /\ Fault
                /\ fin' = TRUE
                /\ GiveUpRoute(NextTier)
                /\ UNCHANGED <<envVars, connUp, out, in, rcvVars>>

-----------------------------------------------------------------------------
(* The session: the receiver.                                              *)

rcvEnv == <<now, registryVars, opts, sndVars, relayVars>>

Listen == /\ rpc = "down"
          /\ rpc' = "listening" /\ rkey' = "none" /\ verifiedAt' = -1
          /\ UNCHANGED <<rcvEnv, histVars, connVars, home, file, faults>>

\* It is stopped, or another connection uses up its one Accept; or it is started
\* elsewhere.
ListenEnds == /\ rpc = "listening"
              /\ Fault
              /\ rpc' = "down"
              /\ home' \in Addrs
              /\ UNCHANGED <<rcvEnv, histVars, connVars, rkey, verifiedAt, file>>

Incoming(p) == connUp /\ out # <<>> /\ Head(out) = p
Take == out' = Tail(out) /\ UNCHANGED <<connUp, fin>>
Return == rpc' = "down" /\ Disconnect

\* Mutant of TokenValid: a token expires one tick early.
TokenValid_TooShort == opts.token = "recipient" /\ now < TokenLife

\* VerifyToken: signed, not expired, and granted to this receiver.
TokenValid == opts.token = "recipient" /\ now <= TokenLife

\* The receiver derives its session key from its space and the token it was sent, the
\* sender from its own space and that same token: the spaces tell the keys apart.
ReceiverKey == opts.rcvSpace

Authenticate ==
  /\ rpc = "accepted" /\ Incoming("auth") /\ TokenValid
  /\ Take
  /\ in' = Append(in, "auth_ok")
  /\ rpc' = "session" /\ rkey' = ReceiverKey /\ verifiedAt' = now
  /\ UNCHANGED <<rcvEnv, histVars, home, file, faults>>

\* The receiver says so and returns; its closing of the connection may overtake
\* the answer.
Reject ==
  /\ rpc = "accepted" /\ Incoming("auth") /\ ~TokenValid
  /\ rpc' = "down"
  /\ \/ Disconnect
     \/ Take /\ in' = Append(in, "auth_fail")
  /\ UNCHANGED <<rcvEnv, histVars, home, rkey, verifiedAt, file, faults>>

\* Mutant of Unauthenticated: a first packet that is no token is taken as it is.
Unauthenticated_Accepts ==
  /\ rpc = "accepted" /\ Incoming("start")
  /\ rpc' = "session"
  /\ UNCHANGED <<rcvEnv, histVars, connVars, home, rkey, verifiedAt, file, faults>>

\* A first packet that is no token is kept for the loop, unless auth is required.
Unauthenticated ==
  /\ rpc = "accepted" /\ Incoming("start")
  /\ IF opts.rcvAuth THEN Return ELSE rpc' = "session" /\ UNCHANGED connVars
  /\ UNCHANGED <<rcvEnv, histVars, home, rkey, verifiedAt, file, faults>>

ReceiveStart ==
  /\ rpc = "session" /\ Incoming("start")
  /\ Take
  /\ in' = IF opts.rcvResume THEN Append(in, "resume") ELSE in
  /\ file' = "empty"
  /\ rpc' = "receiving"
  /\ UNCHANGED <<rcvEnv, histVars, home, rkey, verifiedAt, faults>>

\* Does a chunk sealed with key k open with key j?  With another key it does not decrypt;
\* not decrypted at all, or not sealed at all, it does not have its hash.
Opens(j, k) == j = k

\* A chunk that does not open ends the session.
ReceiveChunk ==
  /\ rpc = "receiving" /\ Incoming("chunk")
  /\ IF Opens(rkey, SenderKey)
       THEN Take /\ file' = "whole" /\ UNCHANGED <<in, rpc>>
       ELSE Return /\ UNCHANGED file
  /\ UNCHANGED <<rcvEnv, histVars, home, rkey, verifiedAt, faults>>

ReceiveEnd ==
  /\ rpc = "receiving" /\ Incoming("end")
  /\ received' = received \cup {route} /\ here' = TRUE
  /\ Return
  /\ UNCHANGED <<rcvEnv, home, rkey, verifiedAt, file, refused, faults>>

\* A stream closed before its end packet: the receiver returns nil all the same.
ReceiveEOF ==
  /\ rpc \in {"accepted", "session", "receiving"} /\ connUp /\ fin /\ out = <<>>
  /\ Return
  /\ UNCHANGED <<rcvEnv, histVars, home, rkey, verifiedAt, file, faults>>

ReceiveFails ==
  /\ rpc \in {"accepted", "session", "receiving"} /\ ~connUp
  /\ rpc' = "down"
  /\ UNCHANGED <<rcvEnv, histVars, connVars, home, rkey, verifiedAt, file, faults>>

LoseConnection == /\ connUp
                  /\ Fault
                  /\ Disconnect
                  /\ UNCHANGED <<rcvEnv, histVars, rcvVars>>

\* The sender waits for a resume packet this receiver does not send.
WaitForEachOther == /\ spc = "await" /\ connUp /\ in = <<>>
                    /\ rpc = "receiving" /\ out = <<>>

IdleTimeout == /\ WaitForEachOther
               /\ Disconnect
               /\ UNCHANGED <<rcvEnv, histVars, rcvVars, faults>>

\* The recipient's node polls with no session key: what is sealed cannot be read, and is
\* gone from the inbox.
RelayPoll == /\ inbox
             /\ inbox' = FALSE
             /\ received' = IF Opens("none", SenderKey) THEN received \cup {"relay"} ELSE received
             /\ UNCHANGED <<now, registryVars, opts, sndVars, connVars, rcvVars, pushed,
                            here, refused, faults>>

-----------------------------------------------------------------------------
\* Only a sender that has a client asks the registry.
Registry == /\ opts.rdv
            /\ SweepBegins \/ evict \/ Register(home)
            /\ UNCHANGED <<opts, sndVars, connVars, rcvVars, relayVars, histVars, faults>>

Clock == /\ Tick
         /\ UNCHANGED <<opts, sndVars, connVars, rcvVars, relayVars, histVars, faults>>

SenderStep ==
  \/ Dial \/ DialFails \/ AskRendezvous \/ Answered \/ LookupFails
  \/ PunchDial \/ PunchExpires \/ RelayPush \/ RelayFails
  \/ AuthAccepted \/ AuthRejected \/ ReadResume \/ SendChunk \/ SendEnd
  \/ SessionReturns \/ SessionFails \/ SenderAborts

ReceiverStep ==
  \/ Authenticate \/ Reject \/ Unauthenticated \/ ReceiveStart
  \/ ReceiveChunk \/ ReceiveEnd \/ ReceiveEOF \/ ReceiveFails

Next == \/ StartSend \/ SenderStep
        \/ Listen \/ ReceiverStep \/ ListenEnds \/ RelayPoll
        \/ LoseConnection \/ IdleTimeout
        \/ Registry \/ Clock

\* The queue retries until its limit, the receiver is started again, goroutines run,
\* quic-go closes idle connections.
Fairness == /\ WF_vars(StartSend) /\ WF_vars(SenderStep)
            /\ WF_vars(Listen) /\ WF_vars(ReceiverStep)
            /\ WF_vars(IdleTimeout) /\ WF_vars(RelayPoll)

Spec == Init /\ [][Next]_vars /\ Fairness

-----------------------------------------------------------------------------
(* Properties.                                                             *)

\* With these options a session of honest sides can carry the file.
Agree == /\ opts.token = "none" => ~opts.rcvAuth
         /\ opts.token = "recipient" => opts.rcvSpace = "S"
         /\ opts.token # "self"
         /\ opts.resume => opts.rcvResume

\* A complete file comes only by a session between sides whose options agree, and whose
\* token was valid when the session began; or unsealed by the relay.
ReceivedOnlyIfAgreed ==
  [][received' # received =>
       IF here' # here THEN /\ Agree
                            /\ opts.token = "recipient" => verifiedAt \in 0..TokenLife
                       ELSE opts.token = "none"]_vars

\* The options agree, the sender knows an address, and the token has not expired.
CanDeliver == Agree /\ opts.addr /\ ~opts.force /\ now <= TokenLife

\* Then only a failure, or a dial while nobody listens there, costs a retry: the handshake,
\* the other tiers, sessions that ended badly and restarts of the receiver cost none.
RetriesAreAccountedFor == CanDeliver => retries <= faults + refused

\* When fewer of these come than there are retries, the file is delivered.
AgreedIsDelivered == [](CanDeliver /\ faults + refused < MaxRetries) => <>done

\* One SendFile does not deliver a file twice: what came by a connection is not pushed
\* to the relay as well.
OneRoute == ~(here /\ pushed)

\* SendFile returns, whatever the other side, the network and the registry do.
SendFileReturns == spc # "idle" ~> spc = "idle"

\* A lookup is answered by the peer's last registration, and by none when it has
\* expired, unless the peer registers while the lookup is running: no sweep, whenever it
\* took its time, hides a peer that has registered.
AnswerIsCurrent ==
  [][Answered => \/ renewed
                 \/ dest' = IF last.expires < now THEN "none" ELSE last.addr]_vars

\* What SendFile reported as delivered by a connection is at the receiver.
DoneIsReceived == (done /\ ~pushed) => received # {}
=============================================================================
