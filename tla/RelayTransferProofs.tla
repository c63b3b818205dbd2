------------------------- MODULE RelayTransferProofs -------------------------
(***************************************************************************)
(* Proofs about RelayTransfer and the RelayServer it is composed with, for *)
(* any senders, files, sizes and limits, and any bounds on time, transfers *)
(* and faults.                                                             *)
(***************************************************************************)
EXTENDS RelayTransfer, SequenceTheorems, FiniteSetTheorems, TLAPS

-----------------------------------------------------------------------------
(* The inductive invariant.                                                *)

\* What is on its way was pushed by a SendFile: a chunk of the file, or the manifest.
OfTransfer(b) ==
  /\ fileOf[b.transfer] # NoFile
  /\ b.place # Manifest => b.place < CountOf(b.transfer)

BodiesInv == /\ \A k \in DOMAIN inbox : OfTransfer(inbox[k].body)
             /\ \A k \in DOMAIN response : OfTransfer(response[k].body)
             /\ \A k \in DOMAIN pulled : OfTransfer(pulled[k].body)

\* Is the manifest of t among these messages?
HasManifest(messages, t) ==
  \E k \in DOMAIN messages : /\ messages[k].body.transfer = t
                             /\ messages[k].body.place = Manifest

OneManifest(messages) ==
  \A j, k \in DOMAIN messages :
    /\ messages[j].body.place = Manifest /\ messages[k].body.place = Manifest
    /\ messages[j].body.transfer = messages[k].body.transfer
    => j = k

IsWritten(t) == \E k \in DOMAIN written : written[k].transfer = t

\* Two deliveries push under two ids, and none has pushed its manifest yet.
SendersInv ==
  /\ \A r, s \in Senders : transferOf[r] # 0 /\ transferOf[r] = transferOf[s] => r = s
  /\ \A s \in Senders : transferOf[s] # 0 =>
       /\ ~HasManifest(inbox, transferOf[s]) /\ ~HasManifest(response, transferOf[s])
       /\ ~HasManifest(pulled, transferOf[s]) /\ ~IsWritten(transferOf[s])

\* There is one manifest of a transfer, in one place, until its file is written, unless
\* a pull left a copy of it behind.
ManifestInv ==
  /\ OneManifest(inbox) /\ OneManifest(response) /\ OneManifest(pulled)
  /\ \A t \in Transfers \ undone :
       /\ HasManifest(inbox, t) =>
            ~HasManifest(response, t) /\ ~HasManifest(pulled, t) /\ ~IsWritten(t)
       /\ HasManifest(response, t) => ~HasManifest(pulled, t) /\ ~IsWritten(t)
       /\ HasManifest(pulled, t) => ~IsWritten(t)

WrittenInv ==
  /\ \A k \in DOMAIN written : fileOf[written[k].transfer] # NoFile
  /\ WrittenFromOneTransfer /\ WrittenOnce

IInv == TypeOK /\ BodiesInv /\ SendersInv /\ ManifestInv /\ WrittenInv

-----------------------------------------------------------------------------
(* Facts about the state that every step needs.                            *)

\* A transfer that was begun has a file and a number of chunks.
LEMMA Counts ==
  ASSUME TypeOK, NEW t \in Transfers, fileOf[t] # NoFile
  PROVE  fileOf[t] \in Files /\ CountOf(t) \in Nat
  BY TransferAssumption DEF TypeOK, CountOf

\* The elements of the sequences of messages, and of the history.
LEMMA ElementTypes ==
  ASSUME TypeOK
  PROVE  /\ \A k \in DOMAIN inbox : inbox[k] \in Message /\ inbox[k].body \in Body
         /\ \A k \in DOMAIN response : response[k] \in Message /\ response[k].body \in Body
         /\ \A k \in DOMAIN pulled : pulled[k] \in Message /\ pulled[k].body \in Body
         /\ \A k \in DOMAIN written : written[k].transfer \in Transfers
<1>1. \A S : \A q \in Seq(S) : \A k \in DOMAIN q : q[k] \in S
  BY ElementOfSeq, LenProperties
<1>2. \A m \in Message : m.body \in Body
  BY DEF Message
<1>3. \A w \in [transfer : Transfers, data : Seq(Body)] : w.transfer \in Transfers
  OBVIOUS
<1>4. /\ inbox \in Seq(Message) /\ response \in Seq(Message) /\ pulled \in Seq(Message)
      /\ written \in Seq([transfer : Transfers, data : Seq(Body)])
  BY DEF TypeOK
<1> QED  BY <1>1, <1>2, <1>3, <1>4

\* No transfer has the id that stands for none.
LEMMA TransferNumbers == \A t \in Transfers : t \in Nat /\ t # 0
  BY TransferAssumption DEF Transfers

\* What a sender pushes next is of its transfer, and a chunk of the file or the manifest.
LEMMA NextBodyIsGood ==
  ASSUME TypeOK, NEW s \in Senders, transferOf[s] # 0
  PROVE  /\ transferOf[s] \in Transfers /\ NextBody(s) \in Body
         /\ NextBody(s).transfer = transferOf[s] /\ OfTransfer(NextBody(s))
<1>1. transferOf[s] \in Transfers /\ fileOf[transferOf[s]] # NoFile /\ idx[s] \in Nat
  BY DEF TypeOK
<1>2. CountOf(transferOf[s]) \in Nat
  BY <1>1, Counts
<1> QED  BY <1>1, <1>2 DEF NextBody, Body, OfTransfer, Manifest

-----------------------------------------------------------------------------
(* StartTransfer.                                                          *)

\* The types after a transfer begins.
LEMMA StartType ==
  ASSUME TypeOK, NEW s \in Senders, NEW f \in Files, StartTransfer(s, f)
  PROVE  TypeOK'
<1> USE DEF relayVars, recvVars
<1>1. PICK t \in Transfers : /\ IsFresh(t)
                             /\ transferOf' = [transferOf EXCEPT ![s] = t]
                             /\ fileOf' = [fileOf EXCEPT ![t] = f]
  BY DEF StartTransfer
<1>2. /\ idx' = [idx EXCEPT ![s] = 0] /\ sent' = sent /\ faults' = faults
      /\ UNCHANGED <<inbox, clock, response, pulled, written, undone>>
  BY DEF StartTransfer
<1>3. \A u \in Transfers : fileOf'[u] = IF u = t THEN f ELSE fileOf[u]
  BY <1>1 DEF TypeOK
<1>4. f # NoFile /\ fileOf[t] = NoFile /\ ChunkCount[f] \in Nat
  BY <1>1, TransferAssumption DEF IsFresh
<1>5. /\ transferOf' \in [Senders -> Transfers \cup {0}]
      /\ fileOf' \in [Transfers -> Files \cup {NoFile}]
      /\ idx' \in [Senders -> Nat]
  BY <1>1, <1>2 DEF TypeOK
<1>6. ASSUME NEW r \in Senders, transferOf'[r] # 0
      PROVE  /\ fileOf'[transferOf'[r]] # NoFile
             /\ idx'[r] <= CountOf(transferOf[r])'
  <2>1. CASE r = s
    <3>1. transferOf'[r] = t /\ idx'[r] = 0
      BY <1>1, <1>2, <2>1 DEF TypeOK
    <3> QED  BY <1>3, <1>4, <3>1 DEF CountOf
  <2>2. CASE r # s
    <3>1. transferOf'[r] = transferOf[r] /\ idx'[r] = idx[r]
      BY <1>1, <1>2, <2>2 DEF TypeOK
    <3>2. /\ transferOf[r] \in Transfers /\ fileOf[transferOf[r]] # NoFile
          /\ idx[r] <= CountOf(transferOf[r])
      BY <1>6, <3>1 DEF TypeOK
    <3>3. fileOf'[transferOf[r]] = fileOf[transferOf[r]]
      BY <1>3, <1>4, <3>2
    <3> QED  BY <3>1, <3>2, <3>3 DEF CountOf
  <2> QED  BY <2>1, <2>2
<1>7. sent' \subseteq {u \in Transfers : fileOf'[u] # NoFile}
  BY <1>2, <1>3, <1>4 DEF TypeOK
<1> QED  BY <1>2, <1>5, <1>6, <1>7 DEF TypeOK

\* What is on its way or written belongs to transfers that have a file already.
LEMMA StartInv ==
  ASSUME IInv, NEW s \in Senders, NEW f \in Files, StartTransfer(s, f)
  PROVE  BodiesInv' /\ SendersInv' /\ ManifestInv' /\ WrittenInv'
<1> USE DEF relayVars, recvVars
<1>1. PICK t \in Transfers : /\ IsFresh(t)
                             /\ transferOf' = [transferOf EXCEPT ![s] = t]
                             /\ fileOf' = [fileOf EXCEPT ![t] = f]
  BY DEF StartTransfer
<1>2. UNCHANGED <<inbox, response, pulled, written, undone>>
  BY DEF StartTransfer
<1>3. TypeOK
  BY DEF IInv
<1>4. fileOf[t] = NoFile
  BY <1>1 DEF IsFresh
<1>5. \A u \in Transfers : fileOf[u] # NoFile => fileOf'[u] = fileOf[u]
  BY <1>1, <1>3, <1>4 DEF TypeOK
<1>6. \A u \in Transfers : fileOf[u] # NoFile => CountOf(u)' = CountOf(u)
  BY <1>5 DEF CountOf
<1>7. /\ \A k \in DOMAIN inbox : inbox[k].body \in Body
      /\ \A k \in DOMAIN response : response[k].body \in Body
      /\ \A k \in DOMAIN pulled : pulled[k].body \in Body
      /\ \A k \in DOMAIN written : written[k].transfer \in Transfers
  BY <1>3, ElementTypes
<1>8. \A b \in Body : OfTransfer(b) => OfTransfer(b)'
  BY <1>5, <1>6 DEF OfTransfer, Body
<1>9. BodiesInv'
  BY <1>2, <1>7, <1>8 DEF IInv, BodiesInv
<1>10. /\ ~HasManifest(inbox, t) /\ ~HasManifest(response, t) /\ ~HasManifest(pulled, t)
       /\ ~IsWritten(t)
  BY <1>4 DEF IInv, BodiesInv, WrittenInv, OfTransfer, HasManifest, IsWritten
<1>11. SendersInv'
  <2>1. \A r \in Senders : transferOf'[r] = IF r = s THEN t ELSE transferOf[r]
    BY <1>1, <1>3 DEF TypeOK
  <2>2. \A r \in Senders : transferOf[r] # 0 => transferOf[r] # t
    BY <1>3, <1>4 DEF TypeOK
  <2> QED
    BY <1>2, <1>10, <2>1, <2>2 DEF IInv, SendersInv, HasManifest, IsWritten
<1>12. ManifestInv'
  BY <1>2 DEF IInv, ManifestInv, HasManifest, OneManifest, IsWritten
<1>13. WrittenInv'
  <2>1. \A k \in DOMAIN written : fileOf'[written[k].transfer] # NoFile
    BY <1>5, <1>7 DEF IInv, WrittenInv
  <2>2. WrittenFromOneTransfer'
    BY <1>2, <1>6, <1>7 DEF IInv, WrittenInv, WrittenFromOneTransfer
  <2> QED  BY <1>2, <2>1, <2>2 DEF IInv, WrittenInv, WrittenOnce
<1> QED  BY <1>9, <1>11, <1>12, <1>13

-----------------------------------------------------------------------------
(* The pushes.                                                             *)

\* A push appends one message.
LEMMA PushAppends ==
  ASSUME TypeOK, NEW s \in Senders, transferOf[s] # 0, Push(NextBody(s))
  PROVE  /\ inbox' \in Seq(Message)
         /\ DOMAIN inbox' = 1..(Len(inbox) + 1) /\ DOMAIN inbox = 1..Len(inbox)
         /\ \A k \in DOMAIN inbox : inbox'[k] = inbox[k]
         /\ inbox'[Len(inbox) + 1] = [body |-> NextBody(s), pushedAt |-> clock]
         /\ Len(inbox) \in Nat
<1>1. [body |-> NextBody(s), pushedAt |-> clock] \in Message
  BY NextBodyIsGood DEF TypeOK, Message
<1>2. inbox \in Seq(Message) /\ inbox' = Append(inbox, [body |-> NextBody(s), pushedAt |-> clock])
  BY DEF TypeOK, Push
<1> QED  BY <1>1, <1>2, AppendProperties

\* A message of a sender's transfer may be pushed, when the sender is done with the
\* transfer if the message is its manifest.
LEMMA PushInv ==
  ASSUME IInv, NEW s \in Senders, transferOf[s] # 0, Push(NextBody(s)),
         \/ transferOf' = [transferOf EXCEPT ![s] = 0]
         \/ transferOf' = transferOf /\ NextBody(s).place # Manifest,
         UNCHANGED <<fileOf, response, pulled, written, undone>>
  PROVE  BodiesInv' /\ SendersInv' /\ ManifestInv' /\ WrittenInv'
<1>1. TypeOK
  BY DEF IInv
<1>2. /\ DOMAIN inbox' = 1..(Len(inbox) + 1) /\ DOMAIN inbox = 1..Len(inbox)
      /\ \A k \in DOMAIN inbox : inbox'[k] = inbox[k]
      /\ inbox'[Len(inbox) + 1].body = NextBody(s)
      /\ Len(inbox) \in Nat
  <2>1. inbox'[Len(inbox) + 1] = [body |-> NextBody(s), pushedAt |-> clock]
    BY <1>1, PushAppends
  <2>2. /\ DOMAIN inbox' = 1..(Len(inbox) + 1) /\ DOMAIN inbox = 1..Len(inbox)
        /\ \A k \in DOMAIN inbox : inbox'[k] = inbox[k]
        /\ Len(inbox) \in Nat
    BY <1>1, PushAppends
  <2> QED  BY <2>1, <2>2
<1>3. \A k \in DOMAIN inbox' : k \in DOMAIN inbox \/ k = Len(inbox) + 1
  BY <1>2
<1>4. /\ transferOf[s] \in Transfers /\ OfTransfer(NextBody(s))
      /\ NextBody(s).transfer = transferOf[s]
  BY <1>1, NextBodyIsGood
<1>5. BodiesInv'
  <2>1. \A b : OfTransfer(b)' <=> OfTransfer(b)
    BY DEF OfTransfer, CountOf
  <2> QED  BY <1>2, <1>3, <1>4, <2>1 DEF IInv, BodiesInv
<1>6. \A t : HasManifest(inbox', t) =>
              HasManifest(inbox, t) \/ (t = transferOf[s] /\ NextBody(s).place = Manifest)
  BY <1>2, <1>3, <1>4 DEF HasManifest
<1>7. \A r \in Senders :
        /\ transferOf'[r] = transferOf[r] \/ (r = s /\ transferOf'[r] = 0)
        /\ NextBody(s).place = Manifest /\ r = s => transferOf'[r] = 0
  BY <1>1 DEF TypeOK
<1>8. SendersInv'
  BY <1>6, <1>7 DEF IInv, SendersInv, HasManifest, IsWritten
<1>9. OneManifest(inbox')
  <2> SUFFICES ASSUME NEW j \in DOMAIN inbox', NEW k \in DOMAIN inbox',
                      inbox'[j].body.place = Manifest, inbox'[k].body.place = Manifest,
                      inbox'[j].body.transfer = inbox'[k].body.transfer
               PROVE  j = k
    BY DEF OneManifest
  <2>1. CASE j \in DOMAIN inbox /\ k \in DOMAIN inbox
    BY <1>2, <2>1 DEF IInv, ManifestInv, OneManifest
  <2>2. CASE j \in DOMAIN inbox /\ k = Len(inbox) + 1
    BY <1>2, <1>4, <2>2 DEF IInv, SendersInv, HasManifest
  <2>3. CASE j = Len(inbox) + 1 /\ k \in DOMAIN inbox
    BY <1>2, <1>4, <2>3 DEF IInv, SendersInv, HasManifest
  <2> QED  BY <1>3, <2>1, <2>2, <2>3
<1>10. ManifestInv'
  <2>1. /\ ~HasManifest(response, transferOf[s]) /\ ~HasManifest(pulled, transferOf[s])
        /\ ~IsWritten(transferOf[s])
    BY DEF IInv, SendersInv
  <2>2. OneManifest(response)' /\ OneManifest(pulled)'
    BY DEF IInv, ManifestInv, OneManifest
  <2>3. response' = response /\ pulled' = pulled /\ written' = written
    OBVIOUS
  <2>4. ASSUME NEW t \in Transfers \ undone
        PROVE  /\ HasManifest(inbox', t) =>
                    ~HasManifest(response, t) /\ ~HasManifest(pulled, t) /\ ~IsWritten(t)
               /\ HasManifest(response, t) => ~HasManifest(pulled, t) /\ ~IsWritten(t)
               /\ HasManifest(pulled, t) => ~IsWritten(t)
    BY <1>6, <2>1 DEF IInv, ManifestInv
  <2> QED  BY <1>9, <2>2, <2>3, <2>4 DEF ManifestInv, HasManifest, IsWritten
<1>11. WrittenInv'
  BY DEF IInv, WrittenInv, WrittenFromOneTransfer, WrittenOnce, CountOf
<1> QED  BY <1>5, <1>8, <1>10, <1>11

\* A push that is answered keeps the invariant.
LEMMA PushChunkStep ==
  ASSUME IInv, NEW s \in Senders, PushChunk(s)
  PROVE  IInv'
<1> USE DEF recvVars
<1>1. /\ transferOf[s] # 0 /\ Push(NextBody(s)) /\ TypeOK
      /\ UNCHANGED <<clock, fileOf, response, pulled, written, undone, faults>>
  BY DEF IInv, PushChunk
<1>2. inbox' \in Seq(Message)
  BY <1>1, PushAppends
<1>3. /\ transferOf[s] \in Transfers /\ fileOf[transferOf[s]] # NoFile
      /\ idx[s] \in Nat /\ idx[s] <= CountOf(transferOf[s])
  BY <1>1 DEF TypeOK
<1>4. CASE NextBody(s).place = Manifest
  <2>1. /\ transferOf' = [transferOf EXCEPT ![s] = 0] /\ idx' = idx
        /\ sent' = sent \cup {transferOf[s]}
    BY <1>4 DEF PushChunk, SendReturns
  <2>2. TypeOK'
    BY <1>1, <1>2, <1>3, <2>1 DEF TypeOK, CountOf
  <2> QED  BY <1>1, <2>1, <2>2, PushInv DEF IInv
<1>5. CASE NextBody(s).place # Manifest
  <2>1. transferOf' = transferOf /\ idx' = [idx EXCEPT ![s] = @ + 1] /\ sent' = sent
    BY <1>5 DEF PushChunk
  <2>2. idx[s] < CountOf(transferOf[s]) /\ CountOf(transferOf[s]) \in Nat
    BY <1>1, <1>3, <1>5, Counts DEF NextBody
  <2>3. \A r \in Senders : idx'[r] = IF r = s THEN idx[s] + 1 ELSE idx[r]
    BY <1>1, <2>1 DEF TypeOK
  <2>4. TypeOK'
    BY <1>1, <1>2, <1>3, <2>1, <2>2, <2>3 DEF TypeOK, CountOf
  <2> QED  BY <1>1, <1>5, <2>1, <2>4, PushInv DEF IInv
<1> QED  BY <1>4, <1>5

\* Faults stay within their bound.
LEMMA FaultType == ASSUME TypeOK, Fault PROVE faults' \in 0..FaultBound
  BY TransferAssumption DEF TypeOK, Fault

\* A push keeps the invariant when its answer is lost.
LEMMA PushUnansweredStep ==
  ASSUME IInv, NEW s \in Senders, PushUnanswered(s)
  PROVE  IInv'
<1>1. /\ transferOf[s] # 0 /\ Push(NextBody(s)) /\ TypeOK /\ Fault
      /\ transferOf' = [transferOf EXCEPT ![s] = 0]
      /\ UNCHANGED <<clock, idx, fileOf, sent, response, pulled, written, undone>>
  BY DEF IInv, PushUnanswered, SendReturns, recvVars
<1>2. inbox' \in Seq(Message)
  BY <1>1, PushAppends
<1>3. TypeOK'
  BY <1>1, <1>2, FaultType DEF TypeOK, CountOf
<1> QED  BY <1>1, <1>3, PushInv DEF IInv

\* A delivery that returns leaves everything it pushed.
LEMMA SendEndsStep ==
  ASSUME IInv, NEW s \in Senders, PushRefused(s) \/ PushFails(s)
  PROVE  IInv'
<1>1. /\ transferOf' = [transferOf EXCEPT ![s] = 0] /\ TypeOK
      /\ UNCHANGED <<inbox, clock, idx, fileOf, sent, response, pulled, written, undone>>
  BY DEF IInv, PushRefused, PushFails, SendReturns, relayVars, recvVars
<1>2. faults' \in 0..FaultBound
  BY <1>1, FaultType DEF PushRefused, PushFails, TypeOK
<1>3. \A r \in Senders : transferOf'[r] # 0 => r # s /\ transferOf'[r] = transferOf[r]
  BY <1>1 DEF TypeOK
<1>4. TypeOK'
  BY <1>1, <1>2, <1>3 DEF TypeOK, CountOf
<1>5. BodiesInv'
  BY <1>1 DEF IInv, BodiesInv, OfTransfer, CountOf
<1>6. SendersInv'
  BY <1>1, <1>3 DEF IInv, SendersInv, HasManifest, IsWritten
<1>7. ManifestInv'
  BY <1>1 DEF IInv, ManifestInv, HasManifest, OneManifest, IsWritten
<1>8. WrittenInv'
  BY <1>1 DEF IInv, WrittenInv, WrittenFromOneTransfer, WrittenOnce, CountOf
<1> QED  BY <1>4, <1>5, <1>6, <1>7, <1>8 DEF IInv

-----------------------------------------------------------------------------
(* The poll loop.                                                          *)

\* Messages that move keep their properties; here they move to response or pulled, or
\* are gone.
LEMMA PullStep ==
  ASSUME IInv,
         PullRequest \/ PullChunks \/ PullTooLong \/ PullUnanswered
           \/ NothingToWrite \/ WriteFails
  PROVE  IInv'
<1>1. /\ UNCHANGED <<clock, transferOf, idx, fileOf, sent, written, undone>>
      /\ inbox' \in {inbox, <<>>} /\ response' \in {response, inbox, <<>>}
      /\ pulled' \in {pulled, response, <<>>}
      /\ faults' = faults \/ Fault
  BY DEF PullRequest, Pull, PullChunks, PullTooLong, PullUnanswered, NothingToWrite,
         WriteFails, ReceiveReturns, relayVars, sendVars
<1>2. /\ response' = inbox => inbox' = <<>> \/ inbox = <<>> \/ response' = response
      /\ pulled' = response => response' = <<>> \/ pulled' = pulled
  BY DEF PullRequest, Pull, PullChunks, PullTooLong, PullUnanswered, NothingToWrite,
         WriteFails, ReceiveReturns, relayVars, sendVars
<1>3. TypeOK'
  <2>1. faults' \in 0..FaultBound
    BY <1>1, FaultType DEF IInv, TypeOK
  <2>2. <<>> \in Seq(Message)
    OBVIOUS
  <2>3. inbox' \in Seq(Message) /\ response' \in Seq(Message) /\ pulled' \in Seq(Message)
    BY <1>1, <2>2 DEF IInv, TypeOK
  <2>4. \A s \in Senders : transferOf'[s] # 0 => /\ fileOf'[transferOf'[s]] # NoFile
                                                /\ idx'[s] <= CountOf(transferOf[s])'
    BY <1>1 DEF IInv, TypeOK, CountOf
  <2> QED  BY <1>1, <2>1, <2>3, <2>4 DEF IInv, TypeOK
<1>4. \A k \in DOMAIN <<>> : FALSE
  OBVIOUS
<1>5. BodiesInv'
  BY <1>1, <1>4 DEF IInv, BodiesInv, OfTransfer, CountOf
<1>6. \A t : ~HasManifest(<<>>, t)
  BY <1>4 DEF HasManifest
<1>7. /\ \A t : HasManifest(inbox, t)' => HasManifest(inbox, t) /\ inbox' = inbox
      /\ \A t : HasManifest(response, t)' =>
                 \/ HasManifest(response, t) /\ response' = response
                 \/ HasManifest(inbox, t) /\ ~HasManifest(inbox, t)'
      /\ \A t : HasManifest(pulled, t)' =>
                 \/ HasManifest(pulled, t) /\ pulled' = pulled
                 \/ HasManifest(response, t) /\ ~HasManifest(response, t)'
      /\ \A t : IsWritten(t)' <=> IsWritten(t)
  BY <1>1, <1>2, <1>6 DEF HasManifest, IsWritten
<1>8. SendersInv'
  BY <1>1, <1>7 DEF IInv, SendersInv
<1>9. OneManifest(inbox)' /\ OneManifest(response)' /\ OneManifest(pulled)'
  BY <1>1, <1>4 DEF IInv, ManifestInv, OneManifest
<1>10. ManifestInv'
  BY <1>1, <1>7, <1>9 DEF IInv, ManifestInv
<1>11. WrittenInv'
  BY <1>1 DEF IInv, WrittenInv, WrittenFromOneTransfer, WrittenOnce, CountOf
<1> QED  BY <1>3, <1>5, <1>8, <1>10, <1>11 DEF IInv

\* A pull that does not commit leaves a copy of every message it hands out: their
\* transfers are those that may be written again.
LEMMA PullNotCommittedStep ==
  ASSUME IInv, PullNotCommitted
  PROVE  IInv'
<1>1. /\ UNCHANGED <<inbox, clock, transferOf, idx, fileOf, sent, pulled, written>>
      /\ response = <<>> /\ response' = inbox /\ Fault
      /\ undone' = undone \cup {inbox[k].body.transfer : k \in DOMAIN inbox}
  BY DEF PullNotCommitted, relayVars, sendVars
<1>2. TypeOK'
  <2>1. faults' \in 0..FaultBound
    BY <1>1, FaultType DEF IInv
  <2>2. undone' \subseteq Transfers
    BY <1>1, ElementTypes DEF IInv, TypeOK, Body
  <2>3. \A s \in Senders : transferOf'[s] # 0 => /\ fileOf'[transferOf'[s]] # NoFile
                                                /\ idx'[s] <= CountOf(transferOf[s])'
    BY <1>1 DEF IInv, TypeOK, CountOf
  <2> QED  BY <1>1, <2>1, <2>2, <2>3 DEF IInv, TypeOK
<1>3. BodiesInv'
  BY <1>1 DEF IInv, BodiesInv, OfTransfer, CountOf
<1>4. SendersInv'
  BY <1>1 DEF IInv, SendersInv, HasManifest, IsWritten
<1>5. \A t \in Transfers \ undone' : ~HasManifest(inbox, t)
  BY <1>1 DEF HasManifest
<1>6. ManifestInv'
  <2>1. OneManifest(inbox)' /\ OneManifest(response)' /\ OneManifest(pulled)'
    BY <1>1 DEF IInv, ManifestInv, OneManifest
  <2>2. inbox' = inbox /\ response' = inbox /\ pulled' = pulled /\ written' = written
    BY <1>1
  <2>3. Transfers \ undone' \subseteq Transfers \ undone
    BY <1>1
  <2>4. ASSUME NEW t \in Transfers \ undone'
        PROVE  /\ ~HasManifest(inbox, t)
               /\ HasManifest(pulled, t) => ~IsWritten(t)
    BY <1>5, <2>3 DEF IInv, ManifestInv
  <2> QED  BY <2>1, <2>2, <2>4 DEF ManifestInv, HasManifest, IsWritten
<1>7. WrittenInv'
  BY <1>1 DEF IInv, WrittenInv, WrittenFromOneTransfer, WrittenOnce, CountOf
<1> QED  BY <1>2, <1>3, <1>4, <1>6, <1>7 DEF IInv

\* The body of a chunk is its transfer and its index.
Chunk(t, i) == [transfer |-> t, place |-> i]

\* What was pulled is the manifest or a chunk of a transfer that was begun.
LEMMA PulledBodies ==
  ASSUME IInv, NEW b \in Pulled
  PROVE  /\ b \in Body /\ OfTransfer(b)
         /\ b.place # Manifest => b = Chunk(b.transfer, b.place)
<1>1. b \in Body /\ OfTransfer(b)
  BY ElementTypes DEF IInv, BodiesInv, Pulled
<1> QED  BY <1>1 DEF Body, Chunk

\* As many indices as the file has chunks are all its indices: ReceiveFile, which only
\* counts, finds every chunk it writes.
LEMMA CompleteHasAll ==
  ASSUME IInv, NEW t \in Transfers, fileOf[t] # NoFile, IsComplete(t)
  PROVE  \A i \in 1..CountOf(t) :
           (CHOOSE b \in rawChunks(t) : b.place = i - 1) = Chunk(t, i - 1)
<1> DEFINE n == CountOf(t)
           places == {b.place : b \in rawChunks(t)}
<1>1. n \in Nat
  BY Counts DEF IInv
<1>2. \A b \in rawChunks(t) : /\ b.place \in 0..(n - 1)
                              /\ b = Chunk(t, b.place)
  <2> SUFFICES ASSUME NEW b \in rawChunks(t)
               PROVE  b.place \in 0..(n - 1) /\ b = Chunk(t, b.place)
    OBVIOUS
  <2>1. b \in Pulled /\ b.place # Manifest /\ b.transfer = t
    BY DEF rawChunks
  <2>2. b \in Body /\ OfTransfer(b) /\ b = Chunk(t, b.place)
    BY <2>1, PulledBodies
  <2>3. b.place \in Nat /\ b.place < n
    BY <2>1, <2>2 DEF Body, OfTransfer
  <2> QED  BY <1>1, <2>2, <2>3
<1>3. places \subseteq 0..(n - 1)
  BY <1>2
<1>4. IsFiniteSet(0..(n - 1)) /\ Cardinality(0..(n - 1)) = n
  BY <1>1, FS_Interval
<1>5. Cardinality(places) <= n /\ (Cardinality(places) = n => places = 0..(n - 1))
  BY <1>3, <1>4, FS_Subset
<1>6. Cardinality(places) >= n /\ Cardinality(places) \in Nat
  BY <1>3, <1>4, FS_Subset, FS_CardinalityType DEF IsComplete
<1>7. places = 0..(n - 1)
  BY <1>1, <1>5, <1>6
<1> SUFFICES ASSUME NEW i \in 1..n
             PROVE  (CHOOSE b \in rawChunks(t) : b.place = i - 1) = Chunk(t, i - 1)
  OBVIOUS
<1>8. i - 1 \in places
  <2>1. i - 1 \in 0..(n - 1)
    BY <1>1
  <2> QED  BY <1>7, <2>1
<1>9. \E b \in rawChunks(t) : b.place = i - 1
  BY <1>8
<1>10. \A b \in rawChunks(t) : b.place = i - 1 => b = Chunk(t, i - 1)
  BY <1>2
<1> QED  BY <1>9, <1>10

\* A manifest that was pulled is of a transfer that has not been written.
LEMMA WriteStep ==
  ASSUME IInv, WriteTransfer
  PROVE  IInv'
<1>1. PICK t \in Manifests :
        /\ IsComplete(t)
        /\ written' = Append(written,
             [transfer |-> t,
              data |-> [i \in 1..CountOf(t) |->
                          CHOOSE b \in rawChunks(t) : b.place = i - 1]])
  BY DEF WriteTransfer
<1>2. /\ pulled' = <<>>
      /\ UNCHANGED <<inbox, clock, transferOf, idx, fileOf, sent, response, undone, faults>>
  BY DEF WriteTransfer, ReceiveReturns, relayVars, sendVars
<1>3. t \in Transfers /\ fileOf[t] # NoFile /\ HasManifest(pulled, t)
  <2>1. PICK b \in Pulled : b.place = Manifest /\ b.transfer = t
    BY DEF Manifests
  <2>2. b \in Body /\ OfTransfer(b)
    BY PulledBodies
  <2>3. HasManifest(pulled, t)
    BY <2>1 DEF Pulled, HasManifest
  <2> QED  BY <2>1, <2>2, <2>3 DEF Body, OfTransfer
<1>4. CountOf(t) \in Nat
  BY <1>3, Counts DEF IInv
<1> DEFINE data == [i \in 1..CountOf(t) |-> Chunk(t, i - 1)]
           w == [transfer |-> t, data |-> data]
           W == [transfer : Transfers, data : Seq(Body)]
<1>5. written' = Append(written, w)
  BY <1>1, <1>3, CompleteHasAll
<1>6. w \in W
  <2>1. \A i \in 1..CountOf(t) : Chunk(t, i - 1) \in Body
    BY <1>3, <1>4 DEF Chunk, Body
  <2>2. data \in Seq(Body)
    BY <1>4, <2>1
  <2> QED  BY <1>3, <2>2
<1>7. /\ written \in Seq(W) /\ written' \in Seq(W) /\ Len(written) \in Nat
      /\ DOMAIN written = 1..Len(written) /\ DOMAIN written' = 1..(Len(written) + 1)
      /\ \A k \in DOMAIN written : written'[k] = written[k]
      /\ written'[Len(written) + 1] = w
  <2>1. written \in Seq(W)
    BY DEF IInv, TypeOK
  <2> HIDE DEF W, w
  <2> QED  BY <1>5, <1>6, <2>1, AppendProperties
<1>8. \A k \in DOMAIN written' : k \in DOMAIN written \/ k = Len(written) + 1
  BY <1>7
<1>9. t \notin undone => \A k \in DOMAIN written : written[k].transfer # t
  BY <1>3 DEF IInv, ManifestInv, IsWritten
<1> HIDE DEF data, w, W
<1>10. w.transfer = t /\ w.data = [i \in 1..CountOf(t) |-> Chunk(t, i - 1)]
  BY DEF w, data
<1>11. TypeOK'
  <2>1. pulled' \in Seq(Message)
    BY <1>2
  <2>2. written' \in Seq([transfer : Transfers, data : Seq(Body)])
    BY <1>7 DEF W
  <2>3. \A s \in Senders : transferOf'[s] # 0 => /\ fileOf'[transferOf'[s]] # NoFile
                                                /\ idx'[s] <= CountOf(transferOf[s])'
    BY <1>2 DEF IInv, TypeOK, CountOf
  <2> QED  BY <1>2, <2>1, <2>2, <2>3 DEF IInv, TypeOK
<1>12. \A k \in DOMAIN <<>> : FALSE
  OBVIOUS
<1>13. BodiesInv'
  BY <1>2, <1>12 DEF IInv, BodiesInv, OfTransfer, CountOf
<1>14. \A u : IsWritten(u)' => IsWritten(u) \/ u = t
  BY <1>7, <1>8, <1>10 DEF IsWritten
<1>15. \A u : ~HasManifest(pulled, u)'
  BY <1>2, <1>12 DEF HasManifest
<1>16. t \notin undone => ~HasManifest(inbox, t) /\ ~HasManifest(response, t)
  BY <1>3 DEF IInv, ManifestInv
<1>17. SendersInv'
  BY <1>2, <1>3, <1>14, <1>15 DEF IInv, SendersInv, HasManifest
<1>18. ManifestInv'
  <2>1. OneManifest(pulled)'
    BY <1>2, <1>12 DEF OneManifest
  <2> QED
    BY <1>2, <1>14, <1>15, <1>16, <2>1 DEF IInv, ManifestInv, OneManifest, HasManifest
<1>19. WrittenInv'
  <2>1. \A k \in DOMAIN written' : fileOf'[written'[k].transfer] # NoFile
    BY <1>2, <1>3, <1>7, <1>8, <1>10 DEF IInv, WrittenInv
  <2>2. WrittenFromOneTransfer'
    <3> SUFFICES ASSUME NEW k \in DOMAIN written'
                 PROVE  written'[k].data =
                          [i \in 1..CountOf(written'[k].transfer) |->
                             [transfer |-> written'[k].transfer, place |-> i - 1]]
      BY <1>2 DEF WrittenFromOneTransfer, CountOf
    <3>1. CASE k \in DOMAIN written
      BY <1>7, <3>1 DEF IInv, WrittenInv, WrittenFromOneTransfer
    <3>2. CASE k = Len(written) + 1
      BY <1>7, <1>10, <3>2 DEF Chunk
    <3> QED  BY <1>8, <3>1, <3>2
  <2>3. WrittenOnce'
    <3> SUFFICES ASSUME NEW j \in DOMAIN written', NEW k \in DOMAIN written',
                        written'[j].transfer = written'[k].transfer,
                        written'[j].transfer \notin undone
                 PROVE  j = k
      BY <1>2 DEF WrittenOnce
    <3>1. CASE j \in DOMAIN written /\ k \in DOMAIN written
      BY <1>7, <3>1 DEF IInv, WrittenInv, WrittenOnce
    <3>2. CASE j = Len(written) + 1 \/ k = Len(written) + 1
      BY <1>7, <1>8, <1>9, <1>10, <3>2
    <3> QED  BY <1>8, <3>1, <3>2
  <2> QED  BY <2>1, <2>2, <2>3 DEF WrittenInv
<1> QED  BY <1>11, <1>13, <1>17, <1>18, <1>19 DEF IInv

-----------------------------------------------------------------------------
(* Eviction and time.                                                      *)

\* What is kept keeps its order, and nothing that has not expired is forgotten.
LEMMA EvictKeeps ==
  ASSUME TypeOK, evict
  PROVE  \E n \in Nat : \E key \in [1..n -> DOMAIN inbox] :
           /\ inbox' = [i \in 1..n |-> inbox[key[i]]]
           /\ \A i, j \in 1..n : key[i] = key[j] => i = j
           /\ \A k \in DOMAIN inbox : ~Expired(inbox[k]) => \E i \in 1..n : key[i] = k
<1>1. inbox \in Seq(Message) /\ DOMAIN inbox = 1..Len(inbox) /\ Len(inbox) \in Nat
  BY LenProperties DEF TypeOK
<1>2. PICK time \in 0..clock, gone \in 0..Len(inbox) :
        /\ \A k \in DOMAIN inbox : OlderThan(inbox[k], time - MaxAge) <=> k <= gone
        /\ inbox' = SubSeq(inbox, gone + 1, Len(inbox))
  BY DEF evict
<1> DEFINE n == Len(inbox) - gone
           key == [i \in 1..n |-> gone + i]
<1>3. n \in Nat /\ \A i \in 1..n : gone + i \in 1..Len(inbox)
  BY <1>1
<1>4. inbox' = [i \in 1..n |-> inbox[gone + i]]
  <2> DEFINE kept == SubSeq(inbox, gone + 1, Len(inbox))
  <2>1. \A i \in (gone + 1)..Len(inbox) : inbox[i] \in Message
    BY <1>1, ElementTypes
  <2>2. /\ kept \in Seq(Message)
        /\ Len(kept) = IF gone + 1 <= Len(inbox) THEN Len(inbox) - (gone + 1) + 1 ELSE 0
        /\ \A i \in 1..(Len(inbox) - (gone + 1) + 1) : kept[i] = inbox[(gone + 1) + i - 1]
    BY <1>1, <2>1, SubSeqProperties
  <2>3. /\ Len(inbox) - (gone + 1) + 1 = n
        /\ \A i \in 1..n : (gone + 1) + i - 1 = gone + i
    BY <1>1
  <2> HIDE DEF kept
  <2>4. Len(kept) = n
    <3> DEFINE m == Len(inbox)
               l == Len(kept)
    <3>1. m \in Nat /\ gone \in 0..m /\ n = m - gone
      BY <1>1
    <3>2. l = IF gone + 1 <= m THEN m - (gone + 1) + 1 ELSE 0
      BY <2>2
    <3> HIDE DEF m, l, n
    <3>3. l = n
      BY <3>1, <3>2
    <3> QED  BY <3>3 DEF l
  <2>5. kept \in [1..n -> Message]
    BY <2>2, <2>4, LenProperties
  <2>6. kept = [i \in 1..n |-> inbox[gone + i]]
    BY <2>2, <2>3, <2>5
  <2> QED  BY <1>2, <2>6 DEF kept
<1>5. ASSUME NEW k \in DOMAIN inbox, ~Expired(inbox[k])
      PROVE  k - gone \in 1..n /\ gone + (k - gone) = k
  <2>1. inbox[k].pushedAt \in Int /\ clock \in Int /\ MaxAge \in Int
    BY RelayAssumption, ElementTypes DEF TypeOK, Message
  <2>2. ~OlderThan(inbox[k], time - MaxAge)
    BY <1>5, <2>1 DEF Expired, OlderThan
  <2> QED  BY <1>1, <1>2, <2>2
<1>6. key \in [1..n -> DOMAIN inbox] /\ inbox' = [i \in 1..n |-> inbox[key[i]]]
  BY <1>1, <1>3, <1>4
<1>7. \A i, j \in 1..n : key[i] = key[j] => i = j
  BY <1>1
<1>8. \A k \in DOMAIN inbox : ~Expired(inbox[k]) => \E i \in 1..n : key[i] = k
  BY <1>5
<1> HIDE DEF n, key
<1> QED  BY <1>3, <1>6, <1>7, <1>8

\* Eviction keeps the invariant.
LEMMA EvictStep ==
  ASSUME IInv, Evict
  PROVE  IInv'
<1>1. /\ TypeOK
      /\ UNCHANGED <<clock, transferOf, idx, fileOf, sent, response, pulled, written,
                     undone, faults>>
  BY DEF IInv, Evict, sendVars, recvVars
<1>2. PICK n \in Nat : \E key \in [1..n -> DOMAIN inbox] :
        /\ inbox' = [i \in 1..n |-> inbox[key[i]]]
        /\ \A i, j \in 1..n : key[i] = key[j] => i = j
  <2>1. evict
    BY DEF Evict
  <2> QED  BY <1>1, <2>1, EvictKeeps
<1>3. PICK key \in [1..n -> DOMAIN inbox] :
        /\ inbox' = [i \in 1..n |-> inbox[key[i]]]
        /\ \A i, j \in 1..n : key[i] = key[j] => i = j
  BY <1>2
<1>4. DOMAIN inbox' = 1..n /\ \A i \in 1..n : key[i] \in DOMAIN inbox /\ inbox'[i] = inbox[key[i]]
  BY <1>3
<1>5. inbox' \in Seq(Message)
  BY <1>1, <1>2, <1>3, <1>4, ElementTypes
<1>6. TypeOK'
  <2>1. \A s \in Senders : transferOf'[s] # 0 => /\ fileOf'[transferOf'[s]] # NoFile
                                                /\ idx'[s] <= CountOf(transferOf[s])'
    BY <1>1 DEF TypeOK, CountOf
  <2> QED  BY <1>1, <1>5, <2>1 DEF TypeOK
<1>7. BodiesInv'
  BY <1>1, <1>4 DEF IInv, BodiesInv, OfTransfer, CountOf
<1>8. \A t : HasManifest(inbox, t)' => HasManifest(inbox, t)
  BY <1>4 DEF HasManifest
<1>9. SendersInv'
  BY <1>1, <1>8 DEF IInv, SendersInv, HasManifest, IsWritten
<1>10. OneManifest(inbox)'
  BY <1>3, <1>4 DEF IInv, ManifestInv, OneManifest
<1>11. ManifestInv'
  BY <1>1, <1>8, <1>10 DEF IInv, ManifestInv, OneManifest, HasManifest, IsWritten
<1>12. WrittenInv'
  BY <1>1 DEF IInv, WrittenInv, WrittenFromOneTransfer, WrittenOnce, CountOf
<1> QED  BY <1>6, <1>7, <1>9, <1>11, <1>12 DEF IInv

\* The steps that move no message keep the invariant.
LEMMA StillStep ==
  ASSUME IInv, PassTime \/ UNCHANGED vars
  PROVE  IInv'
<1>1. UNCHANGED <<inbox, transferOf, idx, fileOf, sent, response, pulled, written, undone, faults>>
  BY DEF PassTime, sendVars, recvVars, vars, relayVars
<1>2. clock' \in 0..MaxClock
  BY RelayAssumption DEF IInv, TypeOK, PassTime, Tick, vars, relayVars
<1>3. TypeOK'
  BY <1>1, <1>2 DEF IInv, TypeOK, CountOf
<1>4. BodiesInv'
  BY <1>1 DEF IInv, BodiesInv, OfTransfer, CountOf
<1>5. SendersInv'
  BY <1>1 DEF IInv, SendersInv, HasManifest, IsWritten
<1>6. ManifestInv'
  BY <1>1 DEF IInv, ManifestInv, OneManifest, HasManifest, IsWritten
<1>7. WrittenInv'
  BY <1>1 DEF IInv, WrittenInv, WrittenFromOneTransfer, WrittenOnce, CountOf
<1> QED  BY <1>3, <1>4, <1>5, <1>6, <1>7 DEF IInv

-----------------------------------------------------------------------------
(* The theorems.                                                           *)

\* The invariant holds before the first request.
LEMMA InitIInv == Init => IInv
<1> SUFFICES ASSUME Init
             PROVE  IInv
  OBVIOUS
<1>1. 0 \in 0..MaxClock /\ 0 \in 0..FaultBound
  BY RelayAssumption, TransferAssumption
<1>2. \A k \in DOMAIN <<>> : FALSE
  OBVIOUS
<1>3. \A s \in Senders : transferOf[s] = 0
  BY DEF Init
<1>4. /\ <<>> \in Seq(Message)
      /\ <<>> \in Seq([transfer : Transfers, data : Seq(Body)])
  OBVIOUS
<1>5. TypeOK
  BY <1>1, <1>3, <1>4 DEF Init, RelayInit, TypeOK
<1>6. BodiesInv /\ SendersInv
  BY <1>2, <1>3 DEF Init, RelayInit, BodiesInv, SendersInv
<1>7. ManifestInv
  BY <1>2 DEF Init, RelayInit, ManifestInv, OneManifest, HasManifest
<1>8. WrittenInv
  BY <1>2 DEF Init, WrittenInv, WrittenFromOneTransfer, WrittenOnce
<1> QED  BY <1>5, <1>6, <1>7, <1>8 DEF IInv

\* Every step keeps the invariant.
LEMMA NextIInv == IInv /\ [Next]_vars => IInv'
<1> SUFFICES ASSUME IInv, [Next]_vars
             PROVE  IInv'
  OBVIOUS
<1>1. ASSUME NEW s \in Senders, SenderStep(s)
      PROVE  IInv'
  <2>1. ASSUME NEW f \in Files, StartTransfer(s, f)
        PROVE  IInv'
    BY <2>1, StartType, StartInv DEF IInv
  <2> QED
    BY <1>1, <2>1, PushChunkStep, SendEndsStep, PushUnansweredStep DEF SenderStep
<1>2. CASE ReceiverStep
  BY <1>2, PullStep, PullNotCommittedStep, WriteStep DEF ReceiverStep
<1>3. CASE Evict
  BY <1>3, EvictStep
<1>4. CASE PassTime \/ UNCHANGED vars
  BY <1>4, StillStep
<1> QED  BY <1>1, <1>2, <1>3, <1>4 DEF Next

\* The inductive invariant holds in every behaviour.
THEOREM Invariance == Spec => []IInv
  BY InitIInv, NextIInv, PTL DEF Spec

\* Every variable of senders, poll loop and relay keeps its type: an index never passes
\* the chunks of its file, and what is on its way and written is made of pushed messages.
THEOREM TypeCorrect == Spec => []TypeOK
<1>1. IInv => TypeOK
  BY DEF IInv
<1> QED  BY <1>1, Invariance, PTL

\* ReceiveFile (relay_transfer.go) writes the chunks of one transfer, each at its place,
\* although it only counts them: deliveries of the same file that interleave, fail or
\* are evicted are never mixed, and no chunk is missing or doubled.
THEOREM FilesAreWhole == Spec => []WrittenFromOneTransfer
<1>1. IInv => WrittenFromOneTransfer
  BY DEF IInv, WrittenInv
<1> QED  BY <1>1, Invariance, PTL

\* No transfer is written twice unless a pull whose deletion did not commit (relay.go)
\* handed its messages out: the bucket is deleted in the transaction that reads it, and a
\* sender that failed starts again under a new id.
THEOREM FilesAreWrittenOnce == Spec => []WrittenOnce
<1>1. IInv => WrittenOnce
  BY DEF IInv, WrittenInv
<1> QED  BY <1>1, Invariance, PTL

\* A message that the relay accepted stays until a pull hands it out or it is older than
\* maxAge (relay.go): no push and no eviction of another message removes it.
THEOREM MessagesAreKept == Spec => LeavesByPullOrAge
<1> DEFINE Stays == \A k \in DOMAIN inbox :
                      \/ \E j \in DOMAIN inbox' : inbox'[j] = inbox[k]
                      \/ \E j \in DOMAIN response' : response'[j] = inbox[k]
                      \/ Expired(inbox[k])
<1>1. ASSUME IInv, Next
      PROVE  Stays
  <2>1. TypeOK
    BY <1>1 DEF IInv
  <2>2. CASE inbox' = inbox
    BY <2>2
  <2>3. CASE PullRequest
    BY <2>3 DEF PullRequest
  <2>4. ASSUME NEW s \in Senders, PushChunk(s) \/ PushUnanswered(s)
        PROVE  Stays
    <3>1. /\ DOMAIN inbox' = 1..(Len(inbox) + 1) /\ DOMAIN inbox = 1..Len(inbox)
          /\ \A k \in DOMAIN inbox : inbox'[k] = inbox[k]
          /\ Len(inbox) \in Nat
      BY <2>1, <2>4, PushAppends DEF PushChunk, PushUnanswered
    <3>2. \A k \in DOMAIN inbox : k \in DOMAIN inbox'
      BY <3>1
    <3> QED  BY <3>1, <3>2
  <2>5. CASE Evict
    <3>1. PICK n \in Nat : \E key \in [1..n -> DOMAIN inbox] :
            /\ inbox' = [i \in 1..n |-> inbox[key[i]]]
            /\ \A k \in DOMAIN inbox : ~Expired(inbox[k]) => \E i \in 1..n : key[i] = k
      <4>1. evict
        BY <2>5 DEF Evict
      <4> QED  BY <2>1, <4>1, EvictKeeps
    <3> QED  BY <3>1
  <2>6. \/ inbox' = inbox \/ PullRequest \/ Evict
        \/ \E s \in Senders : PushChunk(s) \/ PushUnanswered(s)
    BY <1>1 DEF Next, SenderStep, ReceiverStep, StartTransfer, PushRefused, PushFails,
         PullChunks, PullTooLong, PullUnanswered, PullNotCommitted,
         WriteTransfer, NothingToWrite, WriteFails, PassTime, relayVars
  <2> QED  BY <2>2, <2>3, <2>4, <2>5, <2>6
<1>2. IInv /\ [Next]_vars => [Stays]_vars
  BY <1>1
<1> QED  BY <1>2, Invariance, PTL DEF Spec, LeavesByPullOrAge
=============================================================================
