# A verification project for Vault

Vault (`src/apps/backend`, Go) sends files between peers without a server in the middle:
files are cut into chunks and sent over QUIC, directly or after UDP hole punching; if
that fails they are left with a store-and-forward relay. Intents to send are kept in a
write-ahead log and delivered when their peer is there. This directory holds TLA+ models
of the parts where order, concurrency and failure matter, the TLC configurations that
check them, and TLAPS proofs of every invariant and action property the passing runs
check.

Paths below are relative to `src/apps/backend`. Line numbers of every definition are in
the `map` of `PROJECT.json`.

## 1. The system

| Component | State | Operations | Who calls it |
|---|---|---|---|
| **Sync coordinator** `internal/sync/coordinator.go` | `online`: peer -> bool (mutex) | `Enqueue`, `MarkOnline`, `MarkOffline`, `DrainPeer`, `Run` (poll loop), `deliver` | node, discovery, CLI |
| **Write-ahead log** `internal/store/wal.go`, `bolt.go` | a BoltDB bucket of entries (status, retry counter), its sequence | `EnqueueEntry`, `GetPendingEntries`, `GetAllPendingEntries`, `MarkInFlight`, `MarkDone`, `MarkFailed`, `DeleteEntry` | coordinator, CLI |
| **CLI** `cmd/vault` | none; a process that opens the log | `send`, `receive`, `queue retry`, `run`, `share`, ... | the user |
| **Node runtime** `internal/node` | context, engine, goroutines | `Run`: start services, wait, close the engine; relay poll loop | CLI `run` |
| **Discovery** `internal/network/discovery.go` | peer table | mDNS browse -> `MarkOnline` | node |
| **Deliverer** `internal/network/deliverer.go` | none | QUIC, then hole punch, then relay | coordinator |
| **Transport** `internal/network/transport.go` | connection, output file, `.resume.json` | `SendFileWithOptions`, `SendFileOverConn`, `ReceiveOnceWithOptions` | deliverer, CLI |
| **Relay server** `internal/relay/relay.go` | one bucket of messages per recipient | `Push`, `Pull`, eviction | relay client |
| **Relay client and transfer** `internal/relay/client.go`, `internal/network/relay_transfer.go` | none | `SendFile`, `ReceiveFile` | deliverer, node |
| **Rendezvous** `internal/rendezvous` | addresses with expiry (mutex) | `Register`, `Lookup`, `List`, eviction loop | CLI, deliverer |
| **Hole puncher** `internal/holepunch` | sockets | probe; dial until one succeeds or the window ends | deliverer |
| **Chunker** `internal/chunk` | rolling hash, buffer | `Next` | transport, relay transfer |
| **Chunk store, metadata** `internal/store` | files and rows | `WriteChunk`, `ReadChunk` | transport |
| **Transfer authentication** `internal/network/auth.go`, `session.go` | none | token before the start packet; session key of space and token | transport |
| **Identity, spaces, tokens** `internal/crypto`, `internal/store` | key files, tables | issue and verify a token, seal, invite | CLI, node, transport |
| **Status API, dashboard** | none | read-only | browser |

How they interact: `vault send` and the node write an intent to the log and call the
deliverer; the node's coordinator drains the log in one goroutine for each `MarkOnline`
and in its poll loop, so several goroutines work on the same entries; the deliverer's
transport talks to a receiver in another process over one QUIC stream; the relay stands
between a `SendFile` and, any time later, a `ReceiveFile` that a node's poll loop calls
every few seconds. BoltDB locks its file, so one process has the log at a time.

What is hard: goroutines that hold snapshots of the same log entries; processes that
stop between two log writes; a ring of goroutines and bounded channels that anything may
interrupt; two files on disk that describe each other and are written one after the
other; a destructive read (pull) whose answer may be lost; options of two machines that
have to fit; retries of what was half done. `PROJECT.json` lists each such place under
`hazards`, with the properties that watch it.

What makes each component correct:

- *queue*: what was accepted leaves the log only delivered; nothing removed comes back;
  nothing is forgotten; the retry limit is kept; entries of a peer that is online get
  delivered;
- *send pipeline*: the packets on the stream are the chunks, in order, once; success
  means all of them; no goroutine outlives the call for ever;
- *resumable transfer*: the output file is a prefix of the source whatever happened to
  earlier sessions, and complete at the end; both sides agree on whether the file
  arrived; retrying terminates;
- *relay*: a written file is one transfer, written once unless the server could not
  commit a pull; a message disappears only when it was handed over or is too old; what
  was sent arrives;
- *delivery*: a file arrives only where the options of the two sides agree, and by one
  tier; if they agree only failures cost retries, and it arrives while some are left; a
  call always returns;
- *rendezvous*: a lookup gives the last address a peer registered, and none when it has
  expired, whatever the eviction loop does meanwhile;
- *chunker*: chunk boundaries depend on the content only, never on how reads divide it,
  and no byte is lost;
- *chunk store*: a chunk that is listed is there and complete; every successful send can
  be read back, the chunks a resumed one skipped included.

## 2. Modules

| Module | Models | EXTENDS / INSTANCE |
|---|---|---|
| `Outbox` | the abstract promise of the queue | |
| `WAL` | the log: one action per BoltDB transaction | |
| `Coordinator` | coordinator, node, CLI processes over the log | `WAL`; `Outbox` by refinement |
| `CoordinatorProofs` | theorems about `Coordinator` | `Coordinator`, `TLAPS` |
| `RetryProofs` | theorems about the retry counter | `CoordinatorProofs`, `FiniteSetTheorems` |
| `SendPipeline` | goroutines and channels of one send | |
| `SendPipelineProofs` | theorems about `SendPipeline` | `SendPipeline`, `SequenceTheorems`, `FiniteSetTheorems`, `TLAPS` |
| `ResumeTransfer` | sender and receiver over many sessions, with the sidecar | |
| `ResumeTransferProofs` | theorems about `ResumeTransfer` | `ResumeTransfer`, `SequenceTheorems`, `TLAPS` |
| `RelayServer` | the relay's inbox | |
| `RelayTransfer` | senders, relay client, polling recipient | `RelayServer` |
| `RelayTransferProofs` | theorems about `RelayTransfer` and `RelayServer` | `RelayTransfer`, `SequenceTheorems`, `FiniteSetTheorems`, `TLAPS` |
| `Rendezvous` | the registry: registration, expiry, sweep, lookup | |
| `Delivery` | one queued file, its three tiers and a receiver, with every combination of options | `Rendezvous` |
| `DeliveryProofs` | theorems about `Delivery` and `Rendezvous` | `Delivery`, `SequenceTheorems`, `TLAPS` |
| `Chunker` | rolling fingerprint and `BufferedChunker.Next`, and a reference definition of the cuts | |
| `ChunkStore` | `WriteChunk` by several writers | |
| `StoredSend` | a send that cuts a file and stores its chunks | `Chunker`, `ChunkStore` |
| `StoredSendProofs` | theorems about `StoredSend` | `StoredSend`, `SequenceTheorems`, `TLAPS` |
| `CutsProofs` | theorem that the content decides the cuts | `StoredSendProofs`, `WellFoundedInduction` |
| `MC...` | constants for TLC | the module they are named after |

A definition named `X_Something` beside a definition `X`, commented "Mutant of", is a
plausible bug in `X`; no specification uses it. Each of the checked properties is
falsified when the one named for it in `PROJECT.json` takes the place of `X`.

### WAL and Coordinator

`WAL` has the bucket as functions of the entry id (`status`, `retries`, `peerOf`), the
bucket sequence `seq`, and whether the handle is open. Each operation is one BoltDB
transaction and so one step; a closed handle or a missing key makes it an error that
changes nothing (`Found`). An entry's operation, payload and timestamps are left out,
since the log never looks at them. Note that `MarkFailed` puts the entry back to
*pending*; nothing in the code ever writes *failed*.

`Coordinator` has a program counter per goroutine: `Main` (the poll loop, or the body of
the CLI command) and a bounded set of `Drainers`, the goroutines that `MarkOnline`
spawns. Between two log transactions anything may happen.

| Code | Action |
|---|---|
| `Node.Run`, `vault send`, `vault queue retry` starting | `StartNode`, `StartSend`, `SendEntry`, `StartRetry` |
| `Enqueue`, `MarkOnline`, `MarkOffline` | the same names |
| `drainPeer`, `pollAndDeliver`: read pending entries | `BeginDrain`, `BeginPoll` |
| the loop over the snapshot, with its two `ctx` checks | `TakeEntry`, `FinishDrain` |
| `deliver`: limit reached | `GiveUp` |
| `deliver`: `MarkWALInFlight` | `MarkInFlight` |
| `deliver`: `deliveryFunc` returns | `DeliverySucceeds`, `DeliveryFails` |
| `deliver`: `MarkWALFailed`; `MarkWALDone`, then `DeleteWALEntry` | `MarkFailed`; `MarkDone`, `Delete` |
| signal; engine closed; process ends or dies | `Cancel`, `CloseEngine`, `Exit`, `Crash` |

Every decision on the retry limit is taken on the snapshot (`cur[g].retries`), never on
the entry, as in the code. `delivered` and `failures` are history variables. `UpSpec` is
the same without what stops a node (`Cancel`, `CloseEngine`, a crash of it); a `vault
send` may still die.

`Outbox` says what a caller may rely on: accept, deliver (perhaps again), retire what
was delivered, never take back. `Coordinator` implements it with `accepted = 1..seq` and
`retired` = the enqueued ids the log no longer has.

### SendPipeline

The caller's goroutine, the workers, the goroutine that closes `results`, and the
writer, with the channels `jobs`, `results` (capacity twice the workers), `netErrCh`
(capacity 1) and `stopped`. Each case of each `select` is an action: `FeedJob`,
`ContextDone`, `FeedInterrupted` are the cases of the feeding loop, `Offer` and
`Abandon` those of a worker. Storing and encrypting a chunk, cutting the file and
encoding a packet may fail at any time. `wire` is what the encoder wrote. A chunk is its
index. The code exists twice, for a dialled and for an existing connection; both are the
same.

### ResumeTransfer

Sender, connection and receiver, session after session. The receiver's handling of a
chunk is four steps that a failure can separate: append it to the output file
(`ReceiveChunk`), store it (`StoreChunk`), and, since `os.WriteFile` first truncates and
then writes, empty the sidecar (`PersistState`) and write it (`WriteState`). A start
packet follows the sidecar if this can be read and its name, size and modification time
are those of the packet, and otherwise truncates the output file (`ReceiveStart`);
`Sources` are versions of one file that these fields tell apart, and `TornSidecar` is
one that does not parse. The stream is a bounded FIFO; losing the connection loses what
was in flight in both directions.

Each session draws the resume option of either side from its flags, a file that was sent
may be sent again (two drains of the queue do that), and the receiver may die at any
point (`ReceiverCrashes`), leave a part of a chunk in the file (`AppendFails`), or fail
to store a chunk (`StoreFails`), to write the sidecar (`PersistFails`) or to remove it
(`ReceiveEnd`, which goes on). A sender that resumes and a receiver that does not wait
for each other until quic-go closes the connection (`IdleTimeout`). Two history
variables delimit what holds: `rcvFaults` counts the failures of the receiver, `stale`
says that a file was truncated while a sidecar described it.

### RelayServer and RelayTransfer

`inbox` is the bucket of one recipient, in key order; `Push`, `Pull` and `evict` are one
transaction each. `RelayTransfer` interleaves any number of `SendFile` calls, request by
request, with the recipient's `ReceiveFile`: the pull (`PullRequest`), the arrival of
its response (`PullChunks`), which is one line and has to fit the 64 KiB token of the
scanner that reads it (`PullTooLong`), and the writing of one complete transfer
(`WriteTransfer`). Requests that fail before or after they took effect are `PushFails`,
`PushUnanswered`, `PullUnanswered`. The server does not look at whether the transaction
of a pull commits: if it does not, the messages are handed out and stay
(`PullNotCommitted`; the history variable `undone` has their transfers). A message is
its transfer and its place in it; the output of `ReceiveFile` is the sequence of
messages it was written from. Time is a small clock, used by eviction only. Keys are in
the order of the pushes, so what `evict` deletes is a prefix of the inbox: the messages
older than a cutoff that was computed at some time before the lock was taken.

### Rendezvous and Delivery

`Rendezvous` has the record of one peer (`peer`), a clock, the time a running sweep took
before it got the lock (`sweep`), and the record a lookup read under the lock and judges
after it (`read`). The history variable `last` is the last registration, swept or not.

`Delivery` puts one file between a sender, `spc`, that calls `SendFile` until it returns
nil or has returned an error `MaxRetries` times (10 in the queue, 1 for a `vault send`),
and a receiver, `rpc`, that runs `ReceiveOnceWithOptions` again and again. `retries`
counts these errors; the history variable `refused` counts the direct dials that found
nobody listening, which no bound limits. `opts` holds the options of both sides; no step
changes them. They are drawn from `Options`: the sender's token (none, one issued for
the recipient when the file was queued, one a node issues to itself) and resume flag,
which tiers it has, and the receiver's space, `RequireAuth` and resume flag. A key is
the space it comes from; a chunk opens with the key it was sealed with, and only an
unsealed one opens without (`Opens`).

| Code | Action |
|---|---|
| `Deliverer.SendFile` and the order of its tiers | `StartSend`, `FirstTier`, `NextTier`, `LastTier` |
| dialling the known address | `Dial`, `DialFails` |
| asking the registry; its answer; 404, error or timeout | `AskRendezvous`; `Answered`; `LookupFails` |
| the dial loop of the hole puncher; its window | `PunchDial`; `PunchExpires` |
| the relay | `RelayPush`, `RelayFails`, `RelayPoll` |
| `clientSessionKey`, `serverAuthHandshake` | `AuthAccepted`, `AuthRejected`; `Authenticate`, `Reject`, `Unauthenticated` |
| the session | `ReadResume`, `SendChunk`, `SendEnd`, `SessionReturns`, `SessionFails`, `SenderAborts`; `ReceiveStart`, `ReceiveChunk`, `ReceiveEnd`, `ReceiveEOF`, `ReceiveFails` |
| register, sweep, lookup of the server | `Registry`, the actions of `Rendezvous` |

The receiver accepts one connection and stops listening (`Connect`), so one that breaks
uses up its session; it may also be started again elsewhere (`ListenEnds`), with a
registration before or after. The file has one chunk here, and the relay one message:
`SendPipeline`, `ResumeTransfer` and `RelayTransfer` have many.

### Chunker, ChunkStore and StoredSend

`Chunker` keeps the hasher's ring, its position and its hash, the pending bytes and the
cursor of `Next`. `Read` returns any number of bytes with or without `io.EOF`,
`ReadFails` bytes with an error. The 64-bit hash is the set of its one bits, with which
exclusive or is the symmetric difference. `CutLength` is the reference: where the
content alone says the next cut is, from a fingerprint that is a recursive function of
the number of bytes.

`ChunkStore` has one step for each call of the system in `WriteChunk`: `Stat`,
`CreateTemp`, `Write`, `Close`, `Rename`, `Upsert`; each may fail (`CallFails`), and so
may the removal of the temporary file after that, which is ignored (`NotRemoved`). The
process may end between any two (`Die`), which leaves temporary files too. A hash stands
for the content it is the hash of. `StoredSend` feeds the chunks of `Chunker` to
writers, repeats sends that failed or succeeded, and crashes. A repeated send skips the
chunks below the receiver's resume index without storing them (`SkipChunk`). The history
variable `arrived` has the chunks that reached the receiver; it has them from this
sender, so each was stored by an earlier send or skipped by it.

## 3. Runs

Each run asks one question. The sizes are distinct states.

| Run | Bounds | Shows |
|---|---|---|
| `queue_crash` | 1 peer, 2 entries, poll loop + 1 drain, `MaxRetries` 1, 1 failed delivery per entry, counter up to 2; about 276 000 | with crashes and restarts at any point and all three kinds of process, the queue implements `Outbox` (`ImplementsOutbox`); `RemovedOnlyAfterDelivery`; `NoResurrection` by stale drains; `StrandedStays`: an inflight entry that no goroutine holds is never looked at again |
| `queue_up` | 1 entry, poll loop + 2 drains, `MaxRetries` 1, up to 4 failures, counter up to 5; about 63 000 | `InFlightOwned`: while the node stays up no inflight entry is abandoned; `FailuresCounted`: concurrent failures lose no increment; `AttemptsBounded`: the limit is overrun by one attempt per other goroutine at most (the bound is tight) |
| `queue_live` | 2 peers, 2 entries, 1 drain, `MaxRetries` 2, 1 failure; about 215 000 | `EventuallyDelivered`, also when the entries of an offline peer come first |
| `pipeline` | 2 workers, channels of 4, 12 chunks of which the first is skipped; about 1 755 000 | `WireInOrder`, `SuccessIsComplete`, `NoChunkLost`, and `EverybodyReturns`: the call returns and every goroutine it started ends, also when the channels are full |
| `transfer_sessions` | 2 versions of a file of 4 chunks, either resume flag on each side, 3 packets in flight, 2 cuts or repetitions, 2 failures of the receiver; about 2 099 000 | `FileIsPrefix`, `EndMeansComplete`, `ProgressIsKept`; `CrashOnlyRepeats`: a failing receiver may repeat chunks in the file, or leave a part of one before its repetition, and never loses one; `WaitOnlyOnDisagreement`; and `EveryFileSent` |
| `storage` | bytes 0 and 1, all files of 0, 1 and 6 bytes, chunks of 2 to 4, window 2, reads of up to 3; 2 writers, 2 sends, 1 failing call, a crash, any resume index; about 3 200 000 | `CutsByContent` and `NoByteLost` for every division into reads; `ListedIsWhole`, `NoTempLeft`, and `SentReadsBack`, also of resumed sends |
| `delivery` | all 48 combinations of session options with a known address, 2 that agree with all 14 combinations of tiers, 1 that does not with 8 of them; 2 addresses, clock up to 2, `MaxRetries` 3, 2 faults; about 999 000 | `ReceivedOnlyIfAgreed`, `OneRoute`, `SendFileReturns`, `AnswerIsCurrent` of the registry; `RetriesAreAccountedFor`: between sides that agree only faults and dials of a receiver that is not there cost a retry; `AgreedIsDelivered` while these are fewer than the retries |
| `relay_safety` | 2 senders, files of one and two chunks, one encrypted, one too large, 2 transfers, 2 faults, clock up to 2; about 2 321 000 | `WrittenFromOneTransfer`, `WrittenOnce`, `LeavesByPullOrAge` |
| `queue_stranded`, `transfer_sidecar`, `delivery_lost`, `relay_lost` | the smallest in which it happens | a comment of the source the code does not live up to: section 4 |

A run of a violated property ends at its shortest counterexample. Four more
configurations, which belong to no run, have constants with which TLC finds the others
of section 4 instead: `MCResumeTransfer_Stale`, `MCRelayTransfer_Unanswered`,
`MCRelayTransfer_Two` and `MCRelayTransfer_Sealed`.

Why the bounds are enough. *Queue*: entries interact only by their order in a snapshot,
and two suffice for that; goroutines interact through one entry at a time, and the
interesting orders need two holding a snapshot of it and a third that changes it, which
`queue_up` has. `MaxRetries` is 1 or 2 instead of 10, so that the limit is reached and
passed. `RetryBound` stops the counter after it passed the limit by more than the number
of goroutines; it is a guard on `GiveUp` and `MarkFailed`. *Pipeline*: two workers hold
two chunks, `jobs` and `results` four each, ten in all. Eleven chunks are sent, so,
while the writer does not run, the feeder can block on a full `jobs` while every worker
blocks on a full `results`: a writer that started after the feeding would never run
(`Receive_AfterFeeding`, the mutant of `EverybodyReturns`). *Transfer*: four chunks are
more than the stream holds; two cuts with two versions let a session be cut at any
chunk, another version come in between, and the first be resumed; two failures of the
receiver let one leave a torn sidecar, or a repeated chunk, to the next. *Storage*: six
bytes make chunks that end by the fingerprint, by the largest size and by the end of the
file, boundaries that fall at, before and after the end of a read, and files whose
chunks are equal, which two writers then store at the same time. *Delivery*: a
registration that expires after one tick of two can be swept, found expired and renewed;
two faults suffice to lose a connection and a tier in one call, and leave one of the
three retries; refused dials can use up all of them. *Relay*: two transfers interleave
in every order; the inbox can hold a message that is too old beside one that is not; a
full pull can be longer than a line.

Symmetry is used for drains in `queue_up`, for writers in `storage` and for senders in
the relay runs; never in a run with a liveness property. `CHECK_DEADLOCK FALSE` is given
where the system may rest: a queue whose bounded counters are used up, transfers whose
last fault has been used, a file sent for the last time, and a delivery that is done.

Fairness. `queue_live`: weak fairness of the poll and of every goroutine. Go runs every
runnable goroutine, the ticker fires, and a delivery returns because QUIC and the relay
client time out; that it does not fail for ever is the bound on failures, and the
property assumes that node and peer stay. `pipeline`: when some goroutine of the call
can go on, one of them does; an encode returns because the stream is written or fails.
That is less than fairness of each goroutine, and it is enough, because no goroutine can
go on for ever. `transfer_sessions`: both processes run, a failed send is tried again
and the receiver is started again, and faults are finitely many; idle connections are
closed by quic-go. The property, `EveryFileSent`, assumes that sessions whose options
agree keep being started: after its ten failures the queue leaves that to the user.
`delivery`: `SendFile` is called again only until the retries are used up; the receiver
runs and is started again, and a recipient polls its inbox. No fairness is assumed of
faults, of crashes or of a user's commands in the queue.

## 4. Where the comments and the code disagree

1. **An operation can be lost silently** (`queue_stranded`). `coordinator.go:27`
   promises that none is "if the peer is offline or the process crashes". `deliver`
   marks an entry inflight and settles it in a later transaction; a process that stops
   in between (a crash, the node closing its engine under running drains, `queue retry`
   exiting before the drain it spawned) leaves it inflight, and only pending entries are
   ever read. `StrandedStays` is the other half: this is for ever.
2. **The sidecar does not tell what was written** (`transfer_sidecar`).
   `transport.go:130` says it does. A receiver that dies, or fails to store a chunk,
   after appending the chunk asks for it again and appends it twice; the transfer
   completes with a wrong file. `CrashOnlyRepeats` shows the damage to be repetition, of
   chunks or parts of them, only. One that dies or fails while the sidecar is truncated
   leaves none that parses, and everything is received again (`ProgressIsKept` has this
   as its one exception). A sidecar can also outlive the file it describes, because
   `ReceiveStart` truncates without removing it: another version, or a receiver without
   resume, in between is enough (`stale`, `MCResumeTransfer_Stale`).
3. **The sender does not know that the receiver has the file** (`delivery_lost`).
   `transport.go:368` waits for the receiver to close "to ensure it processed the 'end'
   packet" and drops the error of that wait. A receiver that has an identity and no
   space key accepts the token, finds that the sealed chunks do not have their hashes
   and closes; the last packets of a short file are written by then, and the entry
   leaves the queue. A connection lost at that moment does the same. Returning that
   error would not be the whole cure: a file that had arrived would then be pushed to
   the relay as well (the mutant of `OneRoute`).
4. **A relayed file is lost**, although `coordinator.go:27` promises that no operation
   is: `SendFile` returned nil, so the intent is removed from the log. Four ways: the
   recipient polls while a sender is between two chunks, and the first ones are pulled
   and forgotten, the rest incomplete (`relay_lost`); the response to a pull is lost,
   after the inbox was deleted (`MCRelayTransfer_Unanswered`); two complete files come
   in one pull, of which `ReceiveFile` writes one and drops the other
   (`MCRelayTransfer_Two`); the node's poll loop reads without a session key, so the
   manifest of a file sent with `--space` is ciphertext to it and is dropped
   (`MCRelayTransfer_Sealed`). All but the second need no fault.

The models show further behaviour worth knowing that has no run of its own.

- *Queue*: an entry whose attempts are used up is put back to pending at every poll and
  never "permanently failed" (`coordinator.go:17`); two drains send the same entry
  (`MarkInFlight` does not look at the status); the failed attempt of `vault send` is
  not counted (`DeliveryFails`).
- *Transfer*: `ReceiveOnce` returns nil when the sender closed its stream midway
  (`ReceiveEOF`); the index in a resume packet is that of the next chunk, not of the
  last one received, as the comment of the field has it (`ReadAck`); a delivery repeated
  after a complete one truncates the complete file first.
- *Relay*: pulls and pushes whose line exceeds 64 KiB are lost or refused although
  payloads of 8 MiB are announced (`PullTooLong`, `PushRefused`); a manifest encrypted
  for a space ends the processing of everything pulled with it (`Unreadable`); a pull
  whose deletion did not commit has its messages handed out again, and a transfer can
  then be written twice (`PullNotCommitted`).
- *Delivery*: a node issues the token of a delivery to itself, which no other peer
  accepts (`TokenKinds`); a queued token is valid for 24 hours and the entry is retried
  with it afterwards; `Deliverer.Rendezvous` is set by no caller in `src`, so its tier
  is that of a caller of the package.

## 5. Proofs

The theorems hold for every value of the constants that satisfies the named assumptions;
TLC evaluates these in every run of the module. Each module of proofs begins with its
inductive invariant, `IInv`, made of named parts, each with a comment that says what the
part adds. TLC checked every invariant on the instance of the component's run before it
was proved. `InitIInv` and a lemma per action (or per group of actions that touch the
same part) are the two halves of the induction; the last step of a theorem is temporal.

### The queue (`CoordinatorProofs`, `RetryProofs`)

| Theorem | Statement |
|---|---|
| `TypeCorrect` | `Spec => []TypeOK` |
| `Invariance` | `Spec => []IInv` |
| `NothingRemovedUndelivered` | `Spec => []RemovedOnlyAfterDelivery` |
| `RemovedForGood` | `Spec => NoResurrection` |
| `QueueImplementsOutbox` | `Spec => ImplementsOutbox` |
| `StrandedForGood` | `Spec => StrandedStays` |
| `NothingAbandonedWhileUp` | `UpSpec => []InFlightOwned` |
| `RetryInvariance` | `UpSpec => [](IInv /\ UpInv /\ RetryInv)` |
| `NoFailureForgotten` | `UpSpec => []FailuresCounted` |
| `RetriesEnd` | `UpSpec => []AttemptsBounded` |

They rest on `WALAssumption` (`MaxEntries` is a natural number, `NoPeer` no peer) and
`CoordinatorAssumption` (`Main` is not a drain, there are finitely many drains, the
bounds are natural numbers).

`RemovedOnlyAfterDelivery` is not inductive: `Delete` removes an entry because the
goroutine is at `"delete"`, so the invariant must say how it got there. `IInv` adds
`SentInv` (a goroutine at `"sent"` or `"delete"` works on a delivered id), `KnownInv`
(ids held by goroutines were allocated, so a fresh id is held by none) and `LogInv` (ids
above `seq` have no entry).

`StatusSteps` says how a step can change an entry's status: a fresh id becomes pending,
a goroutine working on an existing entry moves it between the live statuses, or `Delete`
removes it. `RemovedForGood` and the refinement follow from it: `RefinementStep` maps
`Enqueue` and `SendEntry` to `Accept`, `DeliverySucceeds` to `Deliver`, `Delete` to
`Retire` (or a stutter if the entry was gone), and everything else to a stutter.
`HoldsSteps` shows that a stranded entry is handed to no goroutine. For `InFlightOwned`,
`UpInv` adds that the log is open while a process runs and that a `vault send` or no
process holds no snapshots; under `UpNext` two goroutines may work on one entry, and
whichever settles it first takes it out of inflight (`StepOwned`).

The bound on attempts needs a count. `MayFail(id)` are the goroutines that still have an
attempt at the entry, in their snapshot or under way; `Closed(id)` says that no new
snapshot can lead to one, because the counter in the log has reached the limit or the
entry is gone. `Counted` has that, once an entry is closed, failures and goroutines that
may fail are together at most `MaxRetries` plus the number of drains. The step that
closes an entry is the hard one (`StepCounts`): the goroutine that takes it has no
attempt left, and the others are either about to count an error or may still fail, not
both (`Disjoint`, `AllOthers`).

### The send pipeline (`SendPipelineProofs`)

| Theorem | Statement |
|---|---|
| `TypeCorrect` | `Spec => []TypeOK` |
| `Invariance` | `Spec => []IInv` |
| `PacketsInOrder` | `Spec => []WireInOrder` |
| `NilMeansSent` | `Spec => []SuccessIsComplete` |
| `ChunksAccountedFor` | `Spec => []NoChunkLost` |

From `PipelineAssumption`, for any finite set of workers and any number of chunks. The
chunks between the writer's `next` and `Taken`, the last one a worker took, are
`InHand`. `WorkersInv`, `ResultsInv` and `PendingInv` say that workers, slots of
`results` and pending packets hold chunks in hand and share none; `HeldInv` that, until
something fails, everything in hand is held. `WireInv` ties the length of the stream to
`next`. That nil means complete needs the converse of a failure: `ExitInv` and
`WriterInv` say that `results` is closed and empty without an error only when every
worker found `jobs` closed and drained, and then nothing is in hand and `next` is past
the last chunk. An error in `results` takes the place of a chunk, so `ErrorQueued`
stands beside `stopped` in these.

### The resumable transfer (`ResumeTransferProofs`)

| Theorem | Statement |
|---|---|
| `TypeCorrect` | `Spec => []TypeOK` |
| `Invariance` | `Spec => []IInv` |
| `ReceivedIsPrefix` | `Spec => []FileIsPrefix` |
| `EndIsComplete` | `Spec => []EndMeansComplete` |
| `FailureOnlyRepeats` | `Spec => []CrashOnlyRepeats` |
| `WaitMeansDisagreement` | `Spec => []WaitOnlyOnDisagreement` |
| `ProgressKept` | `Spec => ProgressIsKept` |

From `TransferAssumption`: there are a chunk and a slot in the stream, and `"none"` and
`"torn"`, which stand for no file and an unreadable sidecar, are no versions. That the
file is a prefix depends on what is in flight: `OrderInv` (packets have consecutive
indices), `HeadInv` (the first one follows what was received, or repeats it), `LastInv`
(the sender goes on after the last). `SidecarInv` and `FileInv` relate index, sidecar
and file, with the one chunk by which they differ between the receiver's writes; a
sidecar is torn between its two steps and after a failure only. `RepeatInv` is what is
left of that when the receiver may fail: the file ends with the chunk before the next
one, whole, or with the next one or a part of it (`EndsAt`). `ProgressKept` follows from
it: a session that finds a sidecar starts there, and only a torn one makes it start
over.

### Delivery and rendezvous (`DeliveryProofs`)

| Theorem | Statement |
|---|---|
| `TypeCorrect` | `Spec => []TypeOK` |
| `Invariance` | `Spec => []IInv` |
| `FileTakesOneRoute` | `Spec => []OneRoute` |
| `RetriesAccounted` | `Spec => []RetriesAreAccountedFor` |
| `OnlyTheAgreedReceive` | `Spec => ReceivedOnlyIfAgreed` |
| `LookupsAreCurrent` | `Spec => AnswerIsCurrent` |

From `RendezvousAssumption` and `DeliveryAssumption`, for any subset of the options.
`KeyInv` says what a receiver has verified when it is in a session; `AuthInv` and
`WireInv` list what is in flight for each pair of states of the two sides, which is how
a sealed chunk can meet only the key it was sealed for. `OneInv` says that after a
complete file or a push there is no connection and no further tier. `RetriesAccounted`
needs a stronger count, `Accounted`: beside the errors `SendFile` returned, one may be
owed, by a call whose tiers have failed so far or whose session has lost its connection.
What costs neither a fault nor a refused dial must then be shown not to end a session:
`AwaitInv` has what a sender waits for (`NothingEndsIt`). The condition on the options
is no invariant, but no step makes it true: they stay (`OptionsStay`), and the clock
only goes on. `RegistryInv` says that the record, and what a running lookup has read of
it, is the last registration or is missing because that has expired: a sweep that took
its time before the lock removes nothing newer.

### The relay (`RelayTransferProofs`)

| Theorem | Statement |
|---|---|
| `TypeCorrect` | `Spec => []TypeOK` |
| `Invariance` | `Spec => []IInv` |
| `FilesAreWhole` | `Spec => []WrittenFromOneTransfer` |
| `FilesAreWrittenOnce` | `Spec => []WrittenOnce` |
| `MessagesAreKept` | `Spec => LeavesByPullOrAge` |

From `RelayAssumption` and `TransferAssumption`. `ReceiveFile` takes a transfer for
complete when it counts as many distinct indices as the manifest announces;
`CompleteHasAll` shows that counting suffices, because `BodiesInv` has every index below
the announced number. A file is written where its manifest was pulled, so that it is
written once rests on the manifest: `SendersInv` and `ManifestInv` say that it is pushed
once and, unless a pull that did not commit has left a copy of it behind (`undone`), is
in one of inbox, response, pulled messages and written files. `EvictKeeps` shows that
removing a prefix of the inbox loses no message younger than the cutoff.

### Cutting and storing (`StoredSendProofs`, `CutsProofs`)

| Theorem | Statement |
|---|---|
| `TypeCorrect` | `Spec => []TypeOK` |
| `Invariance` | `Spec => []IInv` |
| `BytesKept` | `Spec => []NoByteLost` |
| `ListedWhole` | `Spec => []ListedIsWhole` |
| `TempsRemoved` | `Spec => []NoTempLeft` |
| `ContentInvariance` | `Spec => [](IInv /\ ContentInv)` |
| `ContentDecides` | `Spec => []CutsByContent` |
| `ReadsBack` | `Spec => []SentReadsBack` |

They rest on `ChunkerAssumption` (sizes are positive, the smallest at most the largest,
the table maps bytes to words), `StoreAssumption` (`"dead"` and `"kept"`, the owners of
left temporary files, are no writers) and `SendAssumption` (the store knows every
content a chunk may have). The invariant has a part for each module. `PendingInv`: the
pending bytes are those of the file between the offset and where it was read, and a
round of scanning begins below the largest size; `EmitKeeps` and `TakeKeeps` show it for
a cut and for a read. `CutsInv`: every byte before the offset is in a chunk. `FilesInv`
and `WritersInv`: no final file is partial, and a writer that comes to its row finds the
file. `TempsInv`: whose a temporary file is. `JobsInv`: a writer stores the chunk it was
given, and what it reported is listed. `WriterSteps` has one step for each call of
`WriteChunk`.

`ContentDecides` compares the hasher with a recursive definition, which needs two
things. First, that the recursion defines a function (`FingerprintSlides`): the
installed provers cannot use the induction theorems of the library, whose parameter is
an operator, but its theorem that a non-empty subset of a well-founded set has a minimal
element speaks of sets, and the numbers up to which there is no such function are one
(`LeastNat`, `SlidExists`). Second, what the ring holds: `RingInv` says, without
arithmetic modulo the window, that the slot written `Age(j)` bytes ago has the byte of
the file that many places before the cursor, or zero. Then a slide of the ring is a step
of the recursion (`OldestLeaves`, `SlideRing`), and the cursor has passed no end of a
chunk, so `Next` cuts where the reference does (`CutAtFirst`).

`ReadsBack` needs that theorem: a resumed send reads back chunks it did not store, which
are listed because an earlier send stored them and because both cut the file alike.
`ArrivedInv` says that what arrived is cut by its content and listed, `Alike` that the
chunks of this send agree with it. A chunk is determined by where the one before it ends
(`SameChunk`, `OneMore`), so each new chunk keeps them equal (`CutAlike`), and so does
the next send (`ArriveKeeps`).

### Only model-checked

The liveness properties `EventuallyDelivered`, `EverybodyReturns`, `EveryFileSent`,
`AgreedIsDelivered` and `SendFileReturns`: liveness under fairness and `ENABLED` are out
of the prover's reach. The four properties of the runs of section 4 (`NothingStranded`,
`AckTellsWhatIsWritten`, `DoneIsReceived`, `SentIsNotLost`) are false of the code. No
module uses a `RECURSIVE` operator.

## 6. Not modelled, and why

- *Cryptography, invitations, identities, tables of spaces*: library calls and encodings
  without state that changes over time. A token is its grantee and its expiry, a key the
  space it belongs to.
- *mDNS*: discovery is the caller of `MarkOnline`, at any time. When the library
  announces and forgets peers is outside this repository.
- *Probes of the hole puncher*: they leave from a socket of their own, before the dials,
  and change no state of the program.
- *Contents in `ResumeTransfer` and `RelayTransfer`*: a chunk is its index, so hash
  checks always succeed there; `Delivery` has the chunk that does not open, `StoredSend`
  the contents.
- *Power loss*: what a file system keeps of a file that was never synced. A crash ends
  the process and leaves what was written.
- *A restart of the rendezvous server* forgets every record until its peer registers
  again; a sender that finds none goes on to the next tier, as after an expiry. `List`,
  health and ping read only.
- *Reading and verifying chunks, tables of files and peers*: single statements of
  SQLite.
- *Status API, dashboard, shared front-end packages*: they read.

## 7. Plan

Done, in this order: `WAL`, `Coordinator` with `Outbox`, `SendPipeline`,
`ResumeTransfer`, `RelayServer` and `RelayTransfer`, `CoordinatorProofs`; then
`Chunker`, `ChunkStore` and `StoredSend`, `Rendezvous` and `Delivery`, and the failures
and options of both sides in `ResumeTransfer`; `StoredSendProofs`; then the proofs about
pipeline, transfer, delivery, relay, retry counter and cuts.

Next, in order of importance: an abstract channel (chunks arrive in order, each once,
and a success means all) that `SendPipeline` and `ResumeTransfer` both implement, with
the two refinements proved step by step as that of `Outbox` is; an abstract mailbox for
the relay; the safety half of the termination arguments, for instance that each round of
a send or a session brings a bounded measure down.

Possible modules after that: `Coordinator`'s retry of several entries over `Delivery`;
two receivers of one space behind the relay.
