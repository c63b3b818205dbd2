----------------------------- MODULE Coordinator -----------------------------
(***************************************************************************)
(* The offline-first sync queue: internal/sync/coordinator.go over the WAL, *)
(* inside the three kinds of process that use it:                          *)
(*   "node"  vault run: the poll loop (Main) and one drain goroutine per   *)
(*           MarkOnline (internal/node/node.go, discovery.go);             *)
(*   "send"  vault send: enqueues an entry and delivers it itself;         *)
(*   "retry" vault queue retry: one drain in the foreground (Main) and the *)
(*           one MarkOnline spawned.                                       *)
(* BoltDB locks its file, so at most one of them runs at a time.  Any of   *)
(* them may crash at any point; what is in the WAL survives.               *)
(*                                                                         *)
(* The goroutines interleave at every WAL transaction.  deliveryFunc is an *)
(* environment call that returns nil or an error.                          *)
(***************************************************************************)
EXTENDS WAL, FiniteSets

CONSTANTS Main,             \* the goroutine of the poll loop or CLI command
          Drainers,         \* bound: goroutines that MarkOnline has running
          MaxRetries,       \* sync.MaxRetries (10 in the source)
          FailureBound,     \* bound: failed deliveries per entry
          RetryBound        \* bound: value the retry counter reaches

ASSUME CoordinatorAssumption ==
  /\ Main \notin Drainers /\ IsFiniteSet(Drainers)
  /\ MaxRetries \in Nat /\ FailureBound \in Nat /\ RetryBound \in Nat

Goroutines == {Main} \cup Drainers

VARIABLES proc,             \* which process holds the WAL, or "down"
          cancelled,        \* has the process's context been cancelled?
          online,           \* Coordinator.online: the set of peers set to true
          pc,               \* where each goroutine is
          target,           \* the peer a drain goroutine was started for
          todo,             \* entries of its snapshot it has yet to visit
          cur,              \* the snapshot entry it is working on
          delivered,        \* history: ids a delivery of which returned nil
          failures          \* history: errors deliver got, for each id

procVars == <<proc, cancelled, online>>
goVars == <<pc, target, todo, cur>>
history == <<delivered, failures>>
vars == <<walVars, procVars, goVars, history>>

NoEntry == [id |-> 0, retries |-> 0]

PCs == {"idle",             \* not running, or waiting for the ticker
        "begin",            \* drain started, pending entries not read yet
        "next",             \* between two entries of its snapshot
        "deliver",          \* in deliver, retry limit not yet checked
        "sending",          \* inside deliveryFunc
        "failed",           \* deliveryFunc returned an error
        "sent",             \* deliveryFunc returned nil
        "delete",           \* MarkWALDone has returned
        "returned"}         \* Main only: the command is about to exit

TypeOK == /\ WALTypeOK
          /\ proc \in {"down", "node", "send", "retry"}
          /\ cancelled \in BOOLEAN
          /\ online \subseteq Peers
          /\ pc \in [Goroutines -> PCs]
          /\ target \in [Goroutines -> Peers \cup {NoPeer}]
          /\ todo \in [Goroutines -> SUBSET Snapshot]
          /\ cur \in [Goroutines -> Snapshot \cup {NoEntry}]
          /\ delivered \subseteq Ids
          /\ failures \in [Ids -> Nat]

\* No process: every goroutine, the context and the online map are gone.
Init == /\ WALInit
        /\ proc = "down"
        /\ cancelled = FALSE
        /\ online = {}
        /\ pc = [g \in Goroutines |-> "idle"]
        /\ target = [g \in Goroutines |-> NoPeer]
        /\ todo = [g \in Goroutines |-> {}]
        /\ cur = [g \in Goroutines |-> NoEntry]
        /\ delivered = {}
        /\ failures = [id \in Ids |-> 0]

Idle(g) == pc[g] = "idle"

-----------------------------------------------------------------------------
\* Processes start.

StartNode == /\ proc = "down"
             /\ proc' = "node"
             /\ dbOpen' = TRUE
             /\ UNCHANGED <<logVars, cancelled, online, goVars, history>>

StartSend == /\ proc = "down"
             /\ proc' = "send"
             /\ dbOpen' = TRUE
             /\ UNCHANGED <<logVars, cancelled, online, goVars, history>>

\* sendCmd enqueues and goes straight to the delivery, without marking the
\* entry in flight.
SendEntry(p) == /\ proc = "send" /\ Idle(Main)
                /\ EnqueueEntry(p)
                /\ pc' = [pc EXCEPT ![Main] = "sending"]
                /\ cur' = [cur EXCEPT ![Main] = [id |-> seq + 1, retries |-> 0]]
                /\ UNCHANGED <<dbOpen, procVars, target, todo, history>>

\* queueRetryCmd calls MarkOnline(p), which spawns a drain, and then drains
\* the same peer itself.
StartRetry(p, d) == /\ proc = "down"
                    /\ proc' = "retry"
                    /\ dbOpen' = TRUE
                    /\ online' = {p}
                    /\ pc' = [pc EXCEPT ![Main] = "begin", ![d] = "begin"]
                    /\ target' = [target EXCEPT ![Main] = p, ![d] = p]
                    /\ UNCHANGED <<logVars, cancelled, todo, cur, history>>

-----------------------------------------------------------------------------
\* Calls made on a running node's coordinator.

Enqueue(p) == /\ proc = "node"
              /\ EnqueueEntry(p)
              /\ UNCHANGED <<dbOpen, procVars, goVars, history>>

\* Made at every mDNS announcement, also for a peer that is online already.
MarkOnline(p, d) == /\ proc = "node"
                    /\ Idle(d)
                    /\ online' = online \cup {p}
                    /\ pc' = [pc EXCEPT ![d] = "begin"]
                    /\ target' = [target EXCEPT ![d] = p]
                    /\ UNCHANGED <<walVars, proc, cancelled, todo, cur, history>>

MarkOffline(p) == /\ proc = "node"
                  /\ online' = online \ {p}
                  /\ UNCHANGED <<walVars, proc, cancelled, goVars, history>>

-----------------------------------------------------------------------------
\* drainPeer and pollAndDeliver: read the pending entries once, then visit
\* them in key order.

\* Where a goroutine goes when it is through with its snapshot.
Ended(g) == IF g = Main /\ proc # "node" THEN "returned" ELSE "idle"

\* A closed handle makes the read fail, and the drain returns the error.
BeginDrain(g) ==
  /\ pc[g] = "begin"
  /\ todo' = [todo EXCEPT ![g] = IF dbOpen THEN PendingOf(target[g]) ELSE {}]
  /\ pc' = [pc EXCEPT ![g] = "next"]
  /\ target' = [target EXCEPT ![g] = NoPeer]
  /\ UNCHANGED <<walVars, procVars, cur, history>>

BeginPoll ==
  /\ proc = "node" /\ Idle(Main)
  /\ todo' = [todo EXCEPT ![Main] = IF dbOpen THEN AllPending ELSE {}]
  /\ pc' = [pc EXCEPT ![Main] = "next"]
  /\ UNCHANGED <<walVars, procVars, target, cur, history>>

\* The snapshot is exhausted, or the context was cancelled between entries.
FinishDrain(g) ==
  /\ pc[g] = "next"
  /\ todo[g] = {} \/ cancelled
  /\ pc' = [pc EXCEPT ![g] = Ended(g)]
  /\ todo' = [todo EXCEPT ![g] = {}]
  /\ UNCHANGED <<walVars, procVars, target, cur, history>>

IsNext(g, e) == e \in todo[g] /\ \A f \in todo[g] : e.id <= f.id

\* Only the poll loop looks at the online map.
Skips(g, e) == g = Main /\ proc = "node" /\ peerOf[e.id] \notin online

\* Mutant of TakeEntry: an offline peer ends the poll instead of being skipped.
TakeEntry_StopsAtOffline(g) ==
  /\ pc[g] = "next" /\ ~cancelled
  /\ \E e \in todo[g] :
       /\ IsNext(g, e)
       /\ IF Skips(g, e)
             THEN /\ todo' = [todo EXCEPT ![g] = {}]
                  /\ UNCHANGED <<pc, cur>>
             ELSE /\ todo' = [todo EXCEPT ![g] = @ \ {e}]
                  /\ pc' = [pc EXCEPT ![g] = "deliver"]
                  /\ cur' = [cur EXCEPT ![g] = e]
  /\ UNCHANGED <<walVars, procVars, target, history>>

TakeEntry(g) ==
  /\ pc[g] = "next" /\ ~cancelled
  /\ \E e \in todo[g] :
       /\ IsNext(g, e)
       /\ todo' = [todo EXCEPT ![g] = @ \ {e}]
       /\ IF Skips(g, e)
             THEN UNCHANGED <<pc, cur>>
             ELSE /\ pc' = [pc EXCEPT ![g] = "deliver"]
                  /\ cur' = [cur EXCEPT ![g] = e]
  /\ UNCHANGED <<walVars, procVars, target, history>>

-----------------------------------------------------------------------------
\* deliver: every decision about the retry limit is taken on the snapshot.

\* Mutant of Exhausted: one attempt too many.
Exhausted_OffByOne(e) == e.retries > MaxRetries

Exhausted(e) == e.retries >= MaxRetries

\* deliver returns: on to the next entry of the snapshot.
NextEntry(g) == /\ pc' = [pc EXCEPT ![g] = "next"]
                /\ cur' = [cur EXCEPT ![g] = NoEntry]

\* Mutant of GiveUp: an exhausted entry is removed from the log.
GiveUp_Deletes(g) ==
  /\ pc[g] = "deliver" /\ Exhausted(cur[g])
  /\ DeleteEntry(cur[g].id)
  /\ NextEntry(g)
  /\ UNCHANGED <<dbOpen, procVars, target, todo, history>>

GiveUp(g) ==
  /\ pc[g] = "deliver" /\ Exhausted(cur[g])
  /\ retries[cur[g].id] < RetryBound
  /\ MarkEntryFailed(cur[g].id)
  /\ NextEntry(g)
  /\ UNCHANGED <<dbOpen, procVars, target, todo, history>>

\* An error (entry gone, handle closed) makes deliver return.
MarkInFlight(g) ==
  /\ pc[g] = "deliver" /\ ~Exhausted(cur[g])
  /\ MarkEntryInFlight(cur[g].id)
  /\ IF Found(cur[g].id)
        THEN /\ pc' = [pc EXCEPT ![g] = "sending"]
             /\ UNCHANGED cur
        ELSE NextEntry(g)
  /\ UNCHANGED <<dbOpen, procVars, target, todo, history>>

DeliverySucceeds(g) ==
  /\ pc[g] = "sending"
  /\ delivered' = delivered \cup {cur[g].id}
  /\ pc' = [pc EXCEPT ![g] = "sent"]
  /\ UNCHANGED <<walVars, procVars, target, todo, cur, failures>>

\* Mutant of DeliveryFails: no return after the error, the entry is completed.
DeliveryFails_FallsThrough(g) ==
  /\ pc[g] = "sending"
  /\ failures[cur[g].id] < FailureBound
  /\ failures' = [failures EXCEPT ![cur[g].id] = @ + 1]
  /\ pc' = [pc EXCEPT ![g] = "sent"]
  /\ UNCHANGED <<walVars, procVars, target, todo, cur, delivered>>

\* Mutant of DeliveryFails: returns without marking the entry failed.
DeliveryFails_Unmarked(g) ==
  /\ pc[g] = "sending"
  /\ failures[cur[g].id] < FailureBound
  /\ failures' = [failures EXCEPT ![cur[g].id] = @ + 1]
  /\ NextEntry(g)
  /\ UNCHANGED <<walVars, procVars, target, todo, delivered>>

\* sendCmd reports the error and returns; deliver goes on to mark the entry.
DeliveryFails(g) ==
  /\ pc[g] = "sending"
  /\ IF proc = "send"
        THEN /\ NextEntry(g)
             /\ UNCHANGED failures
        ELSE /\ failures[cur[g].id] < FailureBound
             /\ failures' = [failures EXCEPT ![cur[g].id] = @ + 1]
             /\ pc' = [pc EXCEPT ![g] = "failed"]
             /\ UNCHANGED cur
  /\ UNCHANGED <<walVars, procVars, target, todo, delivered>>

\* Mutant of MarkFailed: writes back the counter of the goroutine's snapshot.
MarkFailed_FromSnapshot(g) ==
  /\ pc[g] = "failed"
  /\ status' = IF Found(cur[g].id) THEN [status EXCEPT ![cur[g].id] = "pending"]
                                  ELSE status
  /\ retries' = IF Found(cur[g].id)
                  THEN [retries EXCEPT ![cur[g].id] = cur[g].retries + 1]
                  ELSE retries
  /\ NextEntry(g)
  /\ UNCHANGED <<seq, peerOf, dbOpen, procVars, target, todo, history>>

MarkFailed(g) ==
  /\ pc[g] = "failed"
  /\ retries[cur[g].id] < RetryBound
  /\ MarkEntryFailed(cur[g].id)
  /\ NextEntry(g)
  /\ UNCHANGED <<dbOpen, procVars, target, todo, history>>

\* An error of MarkWALDone is logged and the entry is deleted all the same.
MarkDone(g) ==
  /\ pc[g] = "sent"
  /\ MarkEntryDone(cur[g].id)
  /\ pc' = [pc EXCEPT ![g] = "delete"]
  /\ UNCHANGED <<dbOpen, procVars, target, todo, cur, history>>

Delete(g) ==
  /\ pc[g] = "delete"
  /\ DeleteEntry(cur[g].id)
  /\ NextEntry(g)
  /\ UNCHANGED <<dbOpen, procVars, target, todo, history>>

-----------------------------------------------------------------------------
\* Processes stop.

\* The node's context is cancelled by a signal.
Cancel == /\ proc = "node"
          /\ cancelled' = TRUE
          /\ UNCHANGED <<walVars, proc, online, goVars, history>>

\* Node.Run closes the engine when the context is done, or a service failed
\* while it is not; no goroutine is waited for.
CloseEngine == /\ proc = "node"
               /\ dbOpen' = FALSE
               /\ UNCHANGED <<logVars, procVars, goVars, history>>

\* The operating system takes everything but the WAL.
Halt == /\ proc' = "down"
        /\ dbOpen' = FALSE
        /\ cancelled' = FALSE
        /\ online' = {}
        /\ pc' = [g \in Goroutines |-> "idle"]
        /\ target' = [g \in Goroutines |-> NoPeer]
        /\ todo' = [g \in Goroutines |-> {}]
        /\ cur' = [g \in Goroutines |-> NoEntry]
        /\ UNCHANGED <<logVars, history>>

\* The process ends when its main function returns; goroutines are not joined.
Exit == /\ \/ pc[Main] = "returned"
           \/ proc = "node" /\ ~dbOpen
        /\ Halt

Crash == proc # "down" /\ Halt

-----------------------------------------------------------------------------
Step(g) == \/ BeginDrain(g) \/ FinishDrain(g) \/ TakeEntry(g)
           \/ GiveUp(g) \/ MarkInFlight(g)
           \/ DeliverySucceeds(g) \/ DeliveryFails(g)
           \/ MarkFailed(g) \/ MarkDone(g) \/ Delete(g)

\* Nothing stops the node.  A send may crash.
UpNext == \/ StartNode \/ StartSend
          \/ BeginPoll
          \/ \E p \in Peers : SendEntry(p) \/ Enqueue(p) \/ MarkOffline(p)
          \/ \E p \in Peers, d \in Drainers : MarkOnline(p, d)
          \/ \E g \in Goroutines : Step(g)
          \/ Exit
          \/ proc = "send" /\ Crash

Next == \/ UpNext
        \/ \E p \in Peers, d \in Drainers : StartRetry(p, d)
        \/ Cancel \/ CloseEngine \/ Crash

Spec == Init /\ [][Next]_vars

UpSpec == Init /\ [][UpNext]_vars

\* Go runs every goroutine, the ticker fires, and a delivery returns (QUIC and
\* the relay client time out); that it does not fail forever is FailureBound.
Fairness == /\ WF_vars(BeginPoll)
            /\ \A g \in Goroutines : WF_vars(Step(g))

FairUpSpec == UpSpec /\ Fairness

-----------------------------------------------------------------------------
(* Properties.                                                             *)

Enqueued(id) == id <= seq

Working(g, id) == pc[g] \in {"sending", "failed", "sent"} /\ cur[g].id = id

Holds(g, id) == cur[g].id = id \/ \E e \in todo[g] : e.id = id

\* An entry leaves the log only after a delivery of it returned nil, however
\* many stale drains, failed log writes, crashes and restarts there were.
RemovedOnlyAfterDelivery ==
  \A id \in Ids : Enqueued(id) /\ status[id] = "absent" => id \in delivered

\* A drain that still holds a snapshot of a removed entry cannot bring it back.
NoResurrection ==
  [][\A id \in Ids : Enqueued(id) /\ status[id] = "absent"
                       => status'[id] = "absent"]_vars

\* While the node is not stopped, an entry marked inflight (which no drain
\* reads any more) has a goroutine that will settle it.
InFlightOwned ==
  \A id \in Ids : status[id] = "inflight" => \E g \in Goroutines : Working(g, id)

\* Concurrent deliveries of one entry do not lose each other's increments:
\* every error deliver got is in the retry counter or about to be.
FailuresCounted ==
  \A id \in Ids : status[id] # "absent" =>
    failures[id] <= retries[id]
      + Cardinality({g \in Goroutines : pc[g] = "failed" /\ cur[g].id = id})

\* The retry limit is looked at in snapshots, so it can be overrun, but only by
\* the one attempt that each other goroutine may still have in its snapshot.
AttemptsBounded ==
  \A id \in Ids : failures[id] <= MaxRetries + Cardinality(Drainers)

\* An inflight entry no goroutine holds stays one for ever: no start, poll or
\* drain ever picks it up again.
StrandedStays ==
  [][\A id \in Ids :
       status[id] = "inflight" /\ (\A g \in Goroutines : ~Holds(g, id))
       => status'[id] = "inflight" /\ (\A g \in Goroutines : ~Holds(g, id)')]_vars

\* If deliveries to a peer fail fewer than MaxRetries times and the peer stays
\* online at a running node, every entry for it is eventually delivered, by the
\* poll loop if not by a drain.
EventuallyDelivered ==
  \A p \in Peers, id \in Ids :
    <>[](proc = "node" /\ p \in online)
      => (Enqueued(id) /\ peerOf[id] = p ~> id \in delivered)

\* The queue implements what it promises.
Promise == INSTANCE Outbox WITH
             Ops <- Ids,
             accepted <- 1..seq,
             delivered <- delivered,
             retired <- {id \in 1..seq : status[id] = "absent"}

\* Acceptance, delivery and removal of entries happen as Outbox allows.
ImplementsOutbox == Promise!Spec

-----------------------------------------------------------------------------
(* What comments of the source say and the code does not do.               *)

\* coordinator.go:27: the WAL is written first "so that no operation is
\* silently lost if the peer is offline or the process crashes".
NothingStranded ==
  \A id \in Ids : status[id] = "inflight" /\ id \notin delivered
                  => \E g \in Goroutines : Working(g, id)
=============================================================================
