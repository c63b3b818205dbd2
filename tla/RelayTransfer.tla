---------------------------- MODULE RelayTransfer ----------------------------
(***************************************************************************)
(* Files sent over the relay: RelayTransfer.SendFile and ReceiveFile       *)
(* (internal/network/relay_transfer.go), the relay client they call, and   *)
(* the poll loop of a running node (internal/node/node.go), composed with  *)
(* RelayServer.                                                            *)
(*                                                                         *)
(* A sender pushes the chunks of a file and then a manifest, under a fresh *)
(* random transfer id, to the one recipient.  The recipient pulls whatever *)
(* is there, writes one complete transfer and forgets the rest.  Senders,  *)
(* the poll loop and the server interleave at every request.  A message is *)
(* its transfer and its place in it; a transfer's content is that of its   *)
(* file.                                                                   *)
(***************************************************************************)
EXTENDS RelayServer, FiniteSetsExt

CONSTANTS Senders,          \* deliveries running at the same time, any peer's
          Files,
          ChunkCount,       \* [Files -> Nat]
          ChunkSize,        \* [Files -> Nat], in the unit of MaxLine
          SpaceFiles,       \* the files sent with --space, hence encrypted
          NoFile,
          MaxTransfers,     \* bound: transfers ever started
          FaultBound        \* bound: failed requests, writes and crashes

ASSUME TransferAssumption ==
  /\ ChunkCount \in [Files -> Nat] /\ ChunkSize \in [Files -> Nat]
  /\ SpaceFiles \subseteq Files /\ NoFile \notin Files
  /\ MaxTransfers \in Nat /\ FaultBound \in Nat

Transfers == 1..MaxTransfers

Manifest == -1              \* the place of the manifest

VARIABLES
  transferOf,               \* the transfer each sender is pushing, 0: none
  idx,                      \* the next chunk it pushes
  fileOf,                   \* the file of each transfer
  sent,                     \* transfers whose SendFile returned nil
  response,                 \* a pull response on its way; <<>>: none
  pulled,                   \* the messages ReceiveFile works on; <<>>: idle
  written,                  \* history: the files ReceiveFile wrote, in order
  undone,                   \* history: transfers whose messages a pull handed out and,
                            \*   its commit having failed, did not delete
  faults                    \* faults so far

sendVars == <<transferOf, idx, fileOf, sent>>
recvVars == <<response, pulled, written, undone>>
vars == <<relayVars, sendVars, recvVars, faults>>

Body == [transfer : Transfers, place : Nat \cup {Manifest}]
Message == [body : Body, pushedAt : 0..MaxClock]

CountOf(t) == ChunkCount[fileOf[t]]

TypeOK ==
  /\ inbox \in Seq(Message) /\ clock \in 0..MaxClock
  /\ transferOf \in [Senders -> Transfers \cup {0}]
  /\ fileOf \in [Transfers -> Files \cup {NoFile}]
  /\ idx \in [Senders -> Nat]
  /\ \A s \in Senders : transferOf[s] # 0 =>
       /\ fileOf[transferOf[s]] # NoFile
       /\ idx[s] <= CountOf(transferOf[s])
  /\ sent \subseteq {t \in Transfers : fileOf[t] # NoFile}
  /\ response \in Seq(Message) /\ pulled \in Seq(Message)
  /\ written \in Seq([transfer : Transfers, data : Seq(Body)])
  /\ undone \subseteq Transfers
  /\ faults \in 0..FaultBound

Init == /\ RelayInit
        /\ transferOf = [s \in Senders |-> 0]
        /\ idx = [s \in Senders |-> 0]
        /\ fileOf = [t \in Transfers |-> NoFile]
        /\ sent = {}
        /\ response = <<>> /\ pulled = <<>> /\ written = <<>> /\ undone = {}
        /\ faults = 0

Fault == faults < FaultBound /\ faults' = faults + 1

-----------------------------------------------------------------------------
\* SendFile.

IsFresh(t) == fileOf[t] = NoFile /\ \A u \in Transfers : u < t => fileOf[u] # NoFile

\* Mutant of StartTransfer: the index is not started afresh.
StartTransfer_KeepsIndex(s, f) ==
  /\ transferOf[s] = 0
  /\ \A t \in sent : fileOf[t] # f
  /\ \E t \in Transfers :
       /\ IsFresh(t)
       /\ transferOf' = [transferOf EXCEPT ![s] = t]
       /\ fileOf' = [fileOf EXCEPT ![t] = f]
  /\ UNCHANGED <<relayVars, idx, sent, recvVars, faults>>

\* A delivery that failed is started again, under a new id; one that returned
\* nil is not.
StartTransfer(s, f) ==
  /\ transferOf[s] = 0
  /\ \A t \in sent : fileOf[t] # f
  /\ \E t \in Transfers :
       /\ IsFresh(t)
       /\ transferOf' = [transferOf EXCEPT ![s] = t]
       /\ fileOf' = [fileOf EXCEPT ![t] = f]
  /\ idx' = [idx EXCEPT ![s] = 0]
  /\ UNCHANGED <<relayVars, sent, recvVars, faults>>

\* What the sender pushes next: a chunk, or the manifest after the last one.
NextBody(s) ==
  LET t == transferOf[s]
  IN [transfer |-> t, place |-> IF idx[s] < CountOf(t) THEN idx[s] ELSE Manifest]

ManifestSize == 1

SizeOf(body) == IF body.place = Manifest THEN ManifestSize
                ELSE ChunkSize[fileOf[body.transfer]]

\* SendFile returns; what it has pushed stays where it is.
SendReturns(s) == transferOf' = [transferOf EXCEPT ![s] = 0]

\* A push that is answered.
PushChunk(s) ==
  /\ transferOf[s] # 0 /\ ~Refused(SizeOf(NextBody(s)))
  /\ Push(NextBody(s))
  /\ IF NextBody(s).place = Manifest
       THEN /\ SendReturns(s)
            /\ sent' = sent \cup {transferOf[s]}
            /\ UNCHANGED idx
       ELSE /\ idx' = [idx EXCEPT ![s] = @ + 1]
            /\ UNCHANGED <<transferOf, sent>>
  /\ UNCHANGED <<clock, fileOf, recvVars, faults>>

PushRefused(s) ==
  /\ transferOf[s] # 0 /\ Refused(SizeOf(NextBody(s)))
  /\ SendReturns(s)
  /\ UNCHANGED <<relayVars, idx, fileOf, sent, recvVars, faults>>

\* The server stored the message, its response is lost: an error all the same.
PushUnanswered(s) ==
  /\ transferOf[s] # 0 /\ ~Refused(SizeOf(NextBody(s)))
  /\ Fault
  /\ Push(NextBody(s))
  /\ SendReturns(s)
  /\ UNCHANGED <<clock, idx, fileOf, sent, recvVars>>

\* The server is not reached, the file cannot be cut, the context is cancelled.
PushFails(s) ==
  /\ transferOf[s] # 0
  /\ Fault
  /\ SendReturns(s)
  /\ UNCHANGED <<relayVars, idx, fileOf, sent, recvVars>>

-----------------------------------------------------------------------------
\* The poll loop: PullChunks, then the rest of ReceiveFile.

\* An empty inbox is an error without an effect.
PullRequest == /\ response = <<>> /\ pulled = <<>> /\ inbox # <<>>
               /\ Pull
               /\ response' = inbox
               /\ UNCHANGED <<clock, sendVars, pulled, written, undone, faults>>

\* The transaction does not commit; the messages it read are returned all the same.
PullNotCommitted ==
  /\ response = <<>> /\ pulled = <<>> /\ inbox # <<>>
  /\ Fault
  /\ response' = inbox
  /\ undone' = undone \cup {inbox[k].body.transfer : k \in DOMAIN inbox}
  /\ UNCHANGED <<relayVars, sendVars, pulled, written>>

\* The response to a pull is one line.
Fits == MapThenSumSet(LAMBDA k : SizeOf(response[k].body), DOMAIN response) <= MaxLine

PullChunks == /\ response # <<>> /\ Fits
              /\ pulled' = response
              /\ response' = <<>>
              /\ UNCHANGED <<relayVars, sendVars, written, undone, faults>>

\* The client cannot read the line.
PullTooLong == /\ response # <<>> /\ ~Fits
               /\ response' = <<>>
               /\ UNCHANGED <<relayVars, sendVars, pulled, written, undone, faults>>

\* The connection, or the node, goes down before the response is read.
PullUnanswered == /\ response # <<>>
                  /\ Fault
                  /\ response' = <<>>
                  /\ UNCHANGED <<relayVars, sendVars, pulled, written, undone>>

Pulled == {pulled[k].body : k \in DOMAIN pulled}

Manifests == {b.transfer : b \in {c \in Pulled : c.place = Manifest}}

\* Mutant of rawChunks: chunks are collected by their index only.
rawChunks_AnyTransfer(t) == {b \in Pulled : b.place # Manifest}

rawChunks(t) == {b \in Pulled : b.place # Manifest /\ b.transfer = t}

IsComplete(t) == Cardinality({b.place : b \in rawChunks(t)}) >= CountOf(t)

\* The poll loop has no session key: the manifest of a file sent with --space
\* is ciphertext to it, and ReceiveFile returns at the first one.
Unreadable == \E t \in Manifests : fileOf[t] \in SpaceFiles

\* ReceiveFile returns, with what it pulled.
ReceiveReturns == pulled' = <<>>

\* The ids are random: which complete transfer is the first is anybody's guess.
WriteTransfer ==
  /\ ~Unreadable
  /\ \E t \in Manifests :
       /\ IsComplete(t)
       /\ written' = Append(written,
            [transfer |-> t,
             data |-> [i \in 1..CountOf(t) |->
                         CHOOSE b \in rawChunks(t) : b.place = i - 1]])
  /\ ReceiveReturns
  /\ UNCHANGED <<relayVars, sendVars, response, undone, faults>>

\* No manifest, one that cannot be read, or no complete transfer.
NothingToWrite ==
  /\ pulled # <<>>
  /\ Unreadable \/ \A t \in Manifests : ~IsComplete(t)
  /\ ReceiveReturns
  /\ UNCHANGED <<relayVars, sendVars, response, written, undone, faults>>

\* Writing the file fails, or the node goes down.
WriteFails == /\ pulled # <<>>
              /\ Fault
              /\ ReceiveReturns
              /\ UNCHANGED <<relayVars, sendVars, response, written, undone>>

-----------------------------------------------------------------------------
Evict == evict /\ UNCHANGED <<clock, sendVars, recvVars, faults>>

PassTime == Tick /\ UNCHANGED <<inbox, sendVars, recvVars, faults>>

SenderStep(s) == \/ \E f \in Files : StartTransfer(s, f)
                 \/ PushChunk(s) \/ PushRefused(s) \/ PushUnanswered(s) \/ PushFails(s)

ReceiverStep == \/ PullRequest \/ PullNotCommitted \/ PullUnanswered
                \/ PullChunks \/ PullTooLong
                \/ WriteTransfer \/ NothingToWrite \/ WriteFails

Next == (\E s \in Senders : SenderStep(s)) \/ ReceiverStep \/ Evict \/ PassTime

Spec == Init /\ [][Next]_vars

-----------------------------------------------------------------------------
(* Properties.                                                             *)

\* What ReceiveFile writes is one whole transfer, chunk for chunk: however
\* transfers of the same file interleave in the inbox, are cut short by errors,
\* split by pulls or thinned out by eviction, their chunks are never mixed.
WrittenFromOneTransfer ==
  \A k \in DOMAIN written :
    LET t == written[k].transfer
    IN written[k].data =
         [i \in 1..CountOf(t) |-> [transfer |-> t, place |-> i - 1]]

\* A transfer is written at most once, whatever is retried, lost or evicted: no message is
\* handed out by two pulls, unless the server could not commit its deletion.
WrittenOnce ==
  \A j, k \in DOMAIN written :
    written[j].transfer = written[k].transfer => j = k \/ written[j].transfer \in undone

\* A buffered message leaves the inbox only in the response to a pull or because
\* it is older than maxAge, whatever else expires or arrives.
LeavesByPullOrAge ==
  [][\A k \in DOMAIN inbox :
       \/ \E j \in DOMAIN inbox' : inbox'[j] = inbox[k]
       \/ \E j \in DOMAIN response' : response'[j] = inbox[k]
       \/ Expired(inbox[k])]_vars

-----------------------------------------------------------------------------
(* What comments of the source say and the code does not do.               *)

\* coordinator.go:27: every intent is in the WAL first, "so that no operation is
\* silently lost".
\* A delivery over the relay that returned nil removes its entry: the file was
\* written, or is still whole somewhere on its way to the recipient (who does not
\* put what two pulls returned together).
SentIsNotLost ==
  \A t \in sent :
    \/ \E k \in DOMAIN written : written[k].transfer = t
    \/ \E messages \in {inbox, response, pulled} :
         Cardinality({k \in DOMAIN messages : messages[k].body.transfer = t})
           = CountOf(t) + 1
=============================================================================
