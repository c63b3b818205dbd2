-------------------------- MODULE CoordinatorProofs --------------------------
(***************************************************************************)
(* Proofs about Coordinator, for any number of peers, entries and drain    *)
(* goroutines and any retry limit.                                         *)
(***************************************************************************)
EXTENDS Coordinator, TLAPS

\* At work on an entry of its snapshot.
Busy(g) == pc[g] \in {"deliver", "sending", "failed", "sent", "delete"}

\* Ids not allocated yet have no entry.
LogInv == \A id \in Ids : id > seq => status[id] = "absent"

\* What was delivered, and what the goroutines hold, was enqueued before.
KnownInv == /\ \A id \in delivered : id <= seq
            /\ \A g \in Goroutines : \A e \in todo[g] : e.id <= seq
            /\ \A g \in Goroutines :
                 Busy(g) => cur[g] \in Snapshot /\ cur[g].id <= seq

\* A goroutine completes an entry only after its delivery returned nil.
SentInv == \A g \in Goroutines :
             pc[g] \in {"sent", "delete"} => cur[g].id \in delivered

\* The inductive invariant.
IInv == TypeOK /\ LogInv /\ KnownInv /\ SentInv /\ RemovedOnlyAfterDelivery

-----------------------------------------------------------------------------
\* The invariant holds before any process has run.
LEMMA InitIInv == Init => IInv
<1> SUFFICES ASSUME Init PROVE IInv
  OBVIOUS
<1> USE DEF Init, WALInit
<1>1. TypeOK
  <2>1. WALTypeOK
    <3>1. dbOpen \in BOOLEAN
      OBVIOUS
    <3>2. /\ seq \in 0..MaxEntries
          /\ peerOf \in [Ids -> Peers \cup {NoPeer}]
          /\ status \in [Ids -> Statuses \cup {"absent"}]
          /\ retries \in [Ids -> Nat]
      BY WALAssumption
    <3> QED
      BY <3>1, <3>2 DEF WALTypeOK
  <2>2. proc \in {"down", "node", "send", "retry"} /\ cancelled \in BOOLEAN
    OBVIOUS
  <2>3. online \subseteq Peers /\ delivered \subseteq Ids
    OBVIOUS
  <2>4. /\ pc \in [Goroutines -> PCs]
        /\ target \in [Goroutines -> Peers \cup {NoPeer}]
        /\ todo \in [Goroutines -> SUBSET Snapshot]
        /\ cur \in [Goroutines -> Snapshot \cup {NoEntry}]
        /\ failures \in [Ids -> Nat]
    BY DEF PCs
  <2> QED
    BY <2>1, <2>2, <2>3, <2>4 DEF TypeOK
<1>2. LogInv
  BY DEF LogInv
<1>3. KnownInv
  BY DEF KnownInv, Busy
<1>4. SentInv
  BY DEF SentInv
<1>5. RemovedOnlyAfterDelivery
  BY DEF RemovedOnlyAfterDelivery, Enqueued, Ids
<1> QED
  BY <1>1, <1>2, <1>3, <1>4, <1>5 DEF IInv

\* Every step of any process, a crash included, preserves the invariant.
LEMMA StepIInv == IInv /\ [Next]_vars => IInv'
<1> SUFFICES ASSUME IInv, [Next]_vars PROVE IInv'
  OBVIOUS
<1> USE WALAssumption, CoordinatorAssumption
        DEF IInv, TypeOK, WALTypeOK, LogInv, KnownInv, SentInv,
            RemovedOnlyAfterDelivery, Enqueued, Busy
<1>1. CASE StartNode
  BY <1>1 DEF StartNode, logVars, goVars, history
<1>2. CASE StartSend
  BY <1>2 DEF StartSend, logVars, goVars, history
<1>3. CASE BeginPoll
  BY <1>3 DEF BeginPoll, AllPending, walVars, procVars, history, PCs, Idle, Goroutines, Snapshot, Ids
<1>4. ASSUME NEW p \in Peers, SendEntry(p) PROVE IInv'
  <2> USE <1>4 DEF SendEntry, EnqueueEntry
  <2>1. seq + 1 \in Ids /\ [id |-> seq + 1, retries |-> 0] \in Snapshot
    BY DEF Ids, Snapshot
  <2>2. WALTypeOK'
    BY <2>1 DEF Statuses, Ids
  <2>3. LogInv' /\ KnownInv' /\ SentInv' /\ RemovedOnlyAfterDelivery'
    BY <2>1 DEF procVars, history, Goroutines, Ids, Snapshot
  <2> HIDE DEF WALTypeOK, EnqueueEntry, LogInv, KnownInv, SentInv, RemovedOnlyAfterDelivery
  <2>4. TypeOK'
    BY <2>1, <2>2 DEF procVars, history, PCs
  <2> QED
    BY <2>3, <2>4
<1>5. ASSUME NEW p \in Peers, Enqueue(p) PROVE IInv'
  <2> USE <1>5 DEF Enqueue, EnqueueEntry
  <2>1. seq + 1 \in Ids
    BY DEF Ids
  <2>2. WALTypeOK'
    BY <2>1 DEF Statuses, Ids
  <2>3. LogInv' /\ KnownInv' /\ SentInv' /\ RemovedOnlyAfterDelivery'
    BY <2>1 DEF procVars, goVars, history, Ids, Snapshot
  <2> HIDE DEF WALTypeOK, EnqueueEntry, LogInv, KnownInv, SentInv, RemovedOnlyAfterDelivery
  <2>4. TypeOK'
    BY <2>2 DEF procVars, goVars, history
  <2> QED
    BY <2>3, <2>4
<1>6. ASSUME NEW p \in Peers, MarkOffline(p) PROVE IInv'
  BY <1>6 DEF MarkOffline, walVars, goVars, history
<1>7. ASSUME NEW p \in Peers, NEW d \in Drainers, MarkOnline(p, d) PROVE IInv'
  BY <1>7 DEF MarkOnline, walVars, history, Goroutines, PCs
<1>8. ASSUME NEW p \in Peers, NEW d \in Drainers, StartRetry(p, d) PROVE IInv'
  BY <1>8 DEF StartRetry, logVars, history, Goroutines, PCs
<1>9. ASSUME NEW g \in Goroutines, BeginDrain(g) PROVE IInv'
  <2>1. /\ todo'[g] \subseteq Snapshot
        /\ \A e \in todo'[g] : e.id <= seq
    BY <1>9, SMTT(30) DEF BeginDrain, PendingOf, Snapshot, Ids
  <2>2. todo' = [todo EXCEPT ![g] = todo'[g]]
    BY <1>9 DEF BeginDrain
  <2>3. TypeOK'
    BY <1>9, <2>1, <2>2 DEF BeginDrain, walVars, procVars, history, PCs
  <2>4. LogInv' /\ RemovedOnlyAfterDelivery'
    BY <1>9 DEF BeginDrain, walVars, history
  <2>5. KnownInv' /\ SentInv'
    BY <1>9, <2>1, <2>2 DEF BeginDrain, walVars, history
  <2> QED
    BY <2>3, <2>4, <2>5
<1>10. ASSUME NEW g \in Goroutines, FinishDrain(g) PROVE IInv'
  BY <1>10 DEF FinishDrain, Ended, walVars, procVars, history, PCs
<1>11. ASSUME NEW g \in Goroutines, TakeEntry(g) PROVE IInv'
  BY <1>11 DEF TakeEntry, walVars, procVars, history, PCs
<1>12. ASSUME NEW g \in Goroutines, GiveUp(g) PROVE IInv'
  BY <1>12 DEF GiveUp, MarkEntryFailed, NextEntry, Found, procVars, history, PCs, Snapshot,
               Statuses
<1>13. ASSUME NEW g \in Goroutines, MarkInFlight(g) PROVE IInv'
  BY <1>13 DEF MarkInFlight, MarkEntryInFlight, updateStatus, NextEntry, Found, procVars,
               history, PCs, Snapshot, Statuses
<1>14. ASSUME NEW g \in Goroutines, DeliverySucceeds(g) PROVE IInv'
  BY <1>14 DEF DeliverySucceeds, walVars, procVars, PCs, Snapshot
<1>15. ASSUME NEW g \in Goroutines, DeliveryFails(g) PROVE IInv'
  BY <1>15 DEF DeliveryFails, NextEntry, walVars, procVars, PCs, Snapshot
<1>16. ASSUME NEW g \in Goroutines, MarkFailed(g) PROVE IInv'
  BY <1>16 DEF MarkFailed, MarkEntryFailed, NextEntry, Found, procVars, history, PCs,
               Snapshot, Statuses
<1>17. ASSUME NEW g \in Goroutines, MarkDone(g) PROVE IInv'
  BY <1>17 DEF MarkDone, MarkEntryDone, updateStatus, Found, procVars, history, PCs,
               Snapshot, Statuses
<1>18. ASSUME NEW g \in Goroutines, Delete(g) PROVE IInv'
  BY <1>18 DEF Delete, DeleteEntry, NextEntry, procVars, history, PCs, Snapshot, Statuses
<1>19. CASE Cancel
  BY <1>19 DEF Cancel, walVars, goVars, history
<1>20. CASE CloseEngine
  BY <1>20 DEF CloseEngine, logVars, procVars, goVars, history
<1>21. CASE Halt
  BY <1>21 DEF Halt, logVars, history, PCs
<1>22. CASE UNCHANGED vars
  BY <1>22 DEF vars, walVars, procVars, goVars, history
<1> QED
  BY <1>1, <1>2, <1>3, <1>4, <1>5, <1>6, <1>7, <1>8, <1>9, <1>10, <1>11,
     <1>12, <1>13, <1>14, <1>15, <1>16, <1>17, <1>18, <1>19, <1>20, <1>21, <1>22
     DEF Next, UpNext, Step, Exit, Crash

-----------------------------------------------------------------------------
\* The invariant holds in every reachable state, whatever crashes.
THEOREM Invariance == Spec => []IInv
BY InitIInv, StepIInv, PTL DEF Spec

\* Type correctness.
THEOREM TypeCorrect == Spec => []TypeOK
<1>1. IInv => TypeOK
  BY DEF IInv
<1> QED
  BY <1>1, Invariance, PTL

\* No entry leaves the log before a delivery of it succeeded: with any number
\* of concurrent drains working on stale snapshots, and any crashes.
THEOREM NothingRemovedUndelivered == Spec => []RemovedOnlyAfterDelivery
<1>1. IInv => RemovedOnlyAfterDelivery
  BY DEF IInv
<1> QED
  BY <1>1, Invariance, PTL

-----------------------------------------------------------------------------
\* How any step may change the status of an entry.
LEMMA StatusSteps ==
  ASSUME IInv, [Next]_vars, NEW id \in Ids, status[id] # status'[id]
  PROVE  \/ id = seq + 1 /\ status'[id] = "pending"
         \/ \E g \in Goroutines :
              /\ Busy(g) /\ cur[g].id = id
              /\ \/ status[id] # "absent" /\ status'[id] # "absent"
                 \/ pc[g] = "delete" /\ status'[id] = "absent"
<1> USE DEF IInv, TypeOK, WALTypeOK, Busy
<1>1. CASE \/ StartNode \/ StartSend \/ BeginPoll \/ Cancel \/ CloseEngine
           \/ Halt \/ UNCHANGED vars
  BY <1>1 DEF StartNode, StartSend, BeginPoll, Cancel, CloseEngine, Halt, vars,
              walVars, logVars
<1>2. CASE \E p \in Peers : SendEntry(p) \/ Enqueue(p) \/ MarkOffline(p)
  BY <1>2 DEF SendEntry, Enqueue, MarkOffline, EnqueueEntry, walVars
<1>3. CASE \E p \in Peers, d \in Drainers : MarkOnline(p, d) \/ StartRetry(p, d)
  BY <1>3 DEF MarkOnline, StartRetry, walVars, logVars
<1>4. ASSUME NEW g \in Goroutines,
             \/ BeginDrain(g) \/ FinishDrain(g) \/ TakeEntry(g)
             \/ DeliverySucceeds(g) \/ DeliveryFails(g)
      PROVE  FALSE
  BY <1>4 DEF BeginDrain, FinishDrain, TakeEntry, DeliverySucceeds, DeliveryFails,
              walVars
<1>5. ASSUME NEW g \in Goroutines, \/ GiveUp(g) \/ MarkFailed(g)
                                  \/ MarkInFlight(g) \/ MarkDone(g)
      PROVE  /\ Busy(g) /\ cur[g].id = id
             /\ status[id] # "absent" /\ status'[id] # "absent"
  BY <1>5 DEF GiveUp, MarkFailed, MarkInFlight, MarkDone, MarkEntryFailed,
              MarkEntryInFlight, MarkEntryDone, updateStatus, Found
<1>6. ASSUME NEW g \in Goroutines, Delete(g)
      PROVE  Busy(g) /\ cur[g].id = id /\ pc[g] = "delete" /\ status'[id] = "absent"
  BY <1>6 DEF Delete, DeleteEntry
<1> QED
  BY <1>1, <1>2, <1>3, <1>4, <1>5, <1>6 DEF Next, UpNext, Step, Exit, Crash

\* A removed entry never comes back, although MarkFailed and updateStatus are
\* called on the strength of snapshots taken before it was removed.
THEOREM RemovedForGood == Spec => NoResurrection
<1>1. IInv /\ [Next]_vars =>
        [\A id \in Ids : Enqueued(id) /\ status[id] = "absent"
                         => status'[id] = "absent"]_vars
  <2> SUFFICES ASSUME IInv, [Next]_vars, NEW id \in Ids,
                      Enqueued(id), status[id] = "absent", status'[id] # "absent"
               PROVE  FALSE
    OBVIOUS
  <2>1. id = seq + 1
    BY StatusSteps
  <2> QED
    BY <2>1 DEF IInv, TypeOK, WALTypeOK, Enqueued, Ids
<1> QED
  BY <1>1, Invariance, PTL DEF Spec, NoResurrection

-----------------------------------------------------------------------------
\* The queue implements Outbox.

\* The initial state is Outbox's.
LEMMA RefinementInit == Init => Promise!Init
BY WALAssumption DEF Init, WALInit, Promise!Init, Ids

\* Every step is an Accept, a Deliver, a Retire or a stutter of Outbox.
LEMMA RefinementStep ==
  IInv /\ IInv' /\ [Next]_vars => [Promise!Next]_Promise!outboxVars
<1> SUFFICES ASSUME IInv, IInv', [Next]_vars
             PROVE  [Promise!Next]_Promise!outboxVars
  OBVIOUS
<1> DEFINE accepted == 1..seq
           gone == {id \in 1..seq : status[id] = "absent"}
<1> USE DEF IInv, TypeOK, WALTypeOK
<1>1. ASSUME NEW p \in Peers, EnqueueEntry(p), UNCHANGED delivered
      PROVE  Promise!Next
  <2>1. seq + 1 \in Ids /\ seq + 1 \notin accepted
    BY <1>1, WALAssumption DEF EnqueueEntry, Ids
  <2>2. accepted' = accepted \cup {seq + 1}
    BY <1>1, WALAssumption DEF EnqueueEntry
  <2>3. gone' = gone
    BY <1>1, <2>1, <2>2 DEF EnqueueEntry, Ids
  <2>4. Promise!Accept(seq + 1)
    BY <2>1, <2>2, <2>3, <1>1 DEF Promise!Accept
  <2> QED
    BY <2>1, <2>4 DEF Promise!Next
<1>2. ASSUME NEW g \in Goroutines, DeliverySucceeds(g)
      PROVE  Promise!Next
  <2>1. cur[g].id \in accepted /\ cur[g].id \in Ids
    BY <1>2 DEF DeliverySucceeds, KnownInv, Busy, Snapshot, Ids
  <2>2. Promise!Deliver(cur[g].id)
    BY <2>1, <1>2 DEF DeliverySucceeds, walVars, Promise!Deliver
  <2> QED
    BY <2>1, <2>2 DEF Promise!Next
<1>3. ASSUME NEW g \in Goroutines, Delete(g)
      PROVE  Promise!Next \/ UNCHANGED Promise!outboxVars
  <2>1. cur[g].id \in accepted \cap delivered /\ cur[g].id \in Ids
    BY <1>3 DEF Delete, KnownInv, SentInv, Busy, Snapshot, Ids
  <2>2. UNCHANGED <<seq, delivered>>
    BY <1>3 DEF Delete, DeleteEntry, history
  <2>3. CASE ~dbOpen
    BY <2>2, <2>3, <1>3 DEF Delete, DeleteEntry, Promise!outboxVars
  <2>4. CASE dbOpen
    <3>1. gone' = gone \cup {cur[g].id}
      BY <2>1, <2>2, <2>4, <1>3, WALAssumption, SMTT(30) DEF Delete, DeleteEntry, Ids
    <3>2. PICK op \in Ids : op = cur[g].id
      BY <2>1
    <3>3. Promise!Retire(op)
      BY <3>1, <3>2, <2>1, <2>2 DEF Promise!Retire
    <3>4. Promise!Next
      BY <3>2, <3>3 DEF Promise!Next
    <3> QED
      BY <3>4
  <2> QED
    BY <2>3, <2>4
<1>4. ASSUME NEW g \in Goroutines, \/ GiveUp(g) \/ MarkFailed(g)
                                  \/ MarkInFlight(g) \/ MarkDone(g)
      PROVE  UNCHANGED Promise!outboxVars
  <2>1. UNCHANGED <<seq, delivered>>
    BY <1>4 DEF GiveUp, MarkFailed, MarkInFlight, MarkDone, MarkEntryFailed,
                MarkEntryInFlight, MarkEntryDone, updateStatus, history
  <2>2. \A id \in Ids : status'[id] = "absent" <=> status[id] = "absent"
    <3>1. CASE GiveUp(g) \/ MarkFailed(g)
      BY <3>1 DEF GiveUp, MarkFailed, MarkEntryFailed, Found
    <3>2. CASE MarkInFlight(g)
      BY <3>2 DEF MarkInFlight, MarkEntryInFlight, updateStatus, Found
    <3>3. CASE MarkDone(g)
      BY <3>3 DEF MarkDone, MarkEntryDone, updateStatus, Found
    <3> QED
      BY <1>4, <3>1, <3>2, <3>3
  <2>3. 1..seq \subseteq Ids
    BY WALAssumption DEF Ids
  <2> HIDE DEF IInv, TypeOK, WALTypeOK
  <2>4. gone' = gone
    BY <2>1, <2>2, <2>3
  <2> QED
    BY <2>1, <2>4 DEF Promise!outboxVars
<1>5. ASSUME NEW g \in Goroutines,
             \/ BeginDrain(g) \/ FinishDrain(g) \/ TakeEntry(g) \/ DeliveryFails(g)
      PROVE  UNCHANGED Promise!outboxVars
  <2>1. UNCHANGED <<walVars, delivered>>
    BY <1>5 DEF BeginDrain, FinishDrain, TakeEntry, DeliveryFails, history
  <2> QED
    BY <2>1 DEF walVars, Promise!outboxVars
<1>6. CASE \/ StartNode \/ StartSend \/ BeginPoll \/ Cancel \/ CloseEngine
           \/ Halt \/ UNCHANGED vars
  BY <1>6 DEF StartNode, StartSend, BeginPoll, Cancel, CloseEngine, Halt, vars,
              walVars, logVars, history, Promise!outboxVars
<1>7. CASE \/ \E p \in Peers : MarkOffline(p)
           \/ \E p \in Peers, d \in Drainers : MarkOnline(p, d) \/ StartRetry(p, d)
  BY <1>7 DEF MarkOffline, MarkOnline, StartRetry, walVars, logVars, history,
              Promise!outboxVars
<1>8. ASSUME NEW p \in Peers, SendEntry(p) \/ Enqueue(p)
      PROVE  Promise!Next
  BY <1>1, <1>8 DEF SendEntry, Enqueue, history
<1> HIDE DEF accepted, gone, IInv, TypeOK, WALTypeOK
<1>9. ASSUME NEW g \in Goroutines, Step(g)
      PROVE  Promise!Next \/ UNCHANGED Promise!outboxVars
  <2>1. CASE DeliverySucceeds(g)
    BY <2>1, <1>2
  <2>2. CASE Delete(g)
    BY <2>2, <1>3
  <2>3. CASE GiveUp(g) \/ MarkFailed(g) \/ MarkInFlight(g) \/ MarkDone(g)
    BY <2>3, <1>4
  <2>4. CASE BeginDrain(g) \/ FinishDrain(g) \/ TakeEntry(g) \/ DeliveryFails(g)
    BY <2>4, <1>5
  <2> QED
    BY <2>1, <2>2, <2>3, <2>4, <1>9 DEF Step
<1> QED
  BY <1>6, <1>7, <1>8, <1>9 DEF Next, UpNext, Exit, Crash

\* Through crashes, restarts and concurrent drains the queue behaves as an
\* Outbox: operations leave it only delivered, and only once.
THEOREM QueueImplementsOutbox == Spec => ImplementsOutbox
<1>1. Spec => Promise!Init /\ [][Promise!Next]_Promise!outboxVars
  BY RefinementInit, RefinementStep, Invariance, PTL DEF Spec
<1> QED
  BY <1>1 DEF ImplementsOutbox, Promise!Spec

-----------------------------------------------------------------------------
\* Stranding is for ever.

\* Every step but Enqueue and SendEntry hands out only entries in the log as
\* pending, or what a goroutine held already.
LEMMA HoldsSteps ==
  ASSUME IInv, [Next]_vars, NEW id \in Ids, status[id] = "inflight",
         \A g \in Goroutines : ~Holds(g, id)
  PROVE  \A g \in Goroutines : ~Holds(g, id)'
<1> USE DEF IInv, TypeOK, WALTypeOK, Holds, NoEntry
<1>1. CASE StartNode \/ StartSend \/ Cancel \/ CloseEngine \/ UNCHANGED vars
  BY <1>1 DEF StartNode, StartSend, Cancel, CloseEngine, vars, goVars
<1>2. CASE BeginPoll
  BY <1>2 DEF BeginPoll, AllPending
<1>3. CASE Halt
  BY <1>3 DEF Halt, Ids
<1>4. ASSUME NEW p \in Peers, Enqueue(p) \/ MarkOffline(p)
      PROVE  \A g \in Goroutines : ~Holds(g, id)'
  BY <1>4 DEF Enqueue, MarkOffline, goVars
<1>5. ASSUME NEW p \in Peers, SendEntry(p)
      PROVE  \A g \in Goroutines : ~Holds(g, id)'
  <2>1. id # seq + 1
    BY <1>5, WALAssumption DEF SendEntry, EnqueueEntry, LogInv, Ids
  <2> QED
    BY <1>5, <2>1 DEF SendEntry
<1>6. ASSUME NEW p \in Peers, NEW d \in Drainers, MarkOnline(p, d) \/ StartRetry(p, d)
      PROVE  \A g \in Goroutines : ~Holds(g, id)'
  BY <1>6 DEF MarkOnline, StartRetry
<1>7. ASSUME NEW h \in Goroutines, BeginDrain(h)
      PROVE  \A g \in Goroutines : ~Holds(g, id)'
  BY <1>7 DEF BeginDrain, PendingOf
<1>8. ASSUME NEW h \in Goroutines, FinishDrain(h) \/ TakeEntry(h)
      PROVE  \A g \in Goroutines : ~Holds(g, id)'
  BY <1>8 DEF FinishDrain, TakeEntry
<1>9. ASSUME NEW h \in Goroutines,
             \/ GiveUp(h) \/ MarkInFlight(h) \/ DeliverySucceeds(h)
             \/ DeliveryFails(h) \/ MarkFailed(h) \/ MarkDone(h) \/ Delete(h)
      PROVE  \A g \in Goroutines : ~Holds(g, id)'
  BY <1>9 DEF GiveUp, MarkInFlight, DeliverySucceeds, DeliveryFails, MarkFailed,
              MarkDone, Delete, NextEntry, Ids
<1> QED
  BY <1>1, <1>2, <1>3, <1>4, <1>5, <1>6, <1>7, <1>8, <1>9
     DEF Next, UpNext, Step, Exit, Crash

\* An inflight entry that no goroutine holds is never looked at again, however
\* often the node is started and however many drains run.
THEOREM StrandedForGood == Spec => StrandedStays
<1>1. IInv /\ [Next]_vars =>
        [\A id \in Ids :
           status[id] = "inflight" /\ (\A g \in Goroutines : ~Holds(g, id))
           => status'[id] = "inflight" /\ (\A g \in Goroutines : ~Holds(g, id)')]_vars
  <2> SUFFICES ASSUME IInv, [Next]_vars, NEW id \in Ids, status[id] = "inflight",
                      \A g \in Goroutines : ~Holds(g, id)
               PROVE  status'[id] = "inflight" /\ (\A g \in Goroutines : ~Holds(g, id)')
    OBVIOUS
  <2>1. \A g \in Goroutines : ~Holds(g, id)'
    BY HoldsSteps
  <2>2. id # seq + 1
    BY WALAssumption DEF IInv, TypeOK, WALTypeOK, LogInv, Ids
  <2>3. status'[id] = "inflight"
    BY <2>2, StatusSteps DEF Holds
  <2> QED
    BY <2>1, <2>3
<1> QED
  BY <1>1, Invariance, PTL DEF Spec, StrandedStays

-----------------------------------------------------------------------------
\* While the node is not stopped.

\* What is true of the processes when the node, once started, stays up: the
\* handle is open, and before the node nothing was marked in flight.
UpInv == /\ proc # "retry"
         /\ proc # "down" => dbOpen
         /\ proc # "node" =>
              /\ \A id \in Ids : status[id] # "inflight"
              /\ \A g \in Goroutines :
                   /\ todo[g] = {} /\ pc[g] \notin {"begin", "deliver"}
                   /\ proc = "down" => pc[g] = "idle"
         /\ proc = "node" => pc[Main] # "returned"

\* UpInv survives every step that does not stop the node.
LEMMA StepUpInv == IInv /\ UpInv /\ [UpNext]_vars => UpInv'
<1> SUFFICES ASSUME IInv, UpInv, [UpNext]_vars PROVE UpInv'
  OBVIOUS
<1> USE CoordinatorAssumption DEF IInv, TypeOK, WALTypeOK, UpInv, Goroutines
<1>1. CASE StartNode \/ StartSend \/ BeginPoll \/ UNCHANGED vars
  BY <1>1 DEF StartNode, StartSend, BeginPoll, vars, walVars, logVars, procVars, goVars, Idle
<1>2. ASSUME NEW p \in Peers, SendEntry(p) \/ Enqueue(p) \/ MarkOffline(p)
      PROVE  UpInv'
  BY <1>2 DEF SendEntry, Enqueue, MarkOffline, EnqueueEntry, walVars, procVars, goVars
<1>3. ASSUME NEW p \in Peers, NEW d \in Drainers, MarkOnline(p, d) PROVE UpInv'
  BY <1>3 DEF MarkOnline, walVars
<1>4. ASSUME NEW g \in Goroutines, BeginDrain(g) \/ FinishDrain(g) \/ TakeEntry(g)
      PROVE  UpInv'
  BY <1>4 DEF BeginDrain, FinishDrain, TakeEntry, Ended, walVars, procVars
<1>5. ASSUME NEW g \in Goroutines, GiveUp(g) \/ MarkInFlight(g) \/ MarkFailed(g)
      PROVE  UpInv'
  BY <1>5 DEF GiveUp, MarkInFlight, MarkFailed, MarkEntryFailed, MarkEntryInFlight,
              updateStatus, NextEntry, procVars
<1>6. ASSUME NEW g \in Goroutines, DeliverySucceeds(g) \/ DeliveryFails(g)
      PROVE  UpInv'
  BY <1>6 DEF DeliverySucceeds, DeliveryFails, NextEntry, walVars, procVars
<1>7. ASSUME NEW g \in Goroutines, MarkDone(g) \/ Delete(g) PROVE UpInv'
  BY <1>7 DEF MarkDone, Delete, MarkEntryDone, updateStatus, DeleteEntry, NextEntry,
              procVars
<1>8. CASE Exit \/ (proc = "send" /\ Crash)
  BY <1>8 DEF Exit, Crash, Halt, logVars
<1> QED
  BY <1>1, <1>2, <1>3, <1>4, <1>5, <1>6, <1>7, <1>8 DEF UpNext, Step

\* A goroutine that settles an entry takes it out of "inflight", and one that
\* marks it inflight is at work on it.
LEMMA StepOwned == IInv /\ UpInv /\ InFlightOwned /\ [UpNext]_vars => InFlightOwned'
<1> SUFFICES ASSUME IInv, UpInv, InFlightOwned, [UpNext]_vars,
                    NEW id \in Ids, status'[id] = "inflight"
             PROVE  \E g \in Goroutines : Working(g, id)'
  BY DEF InFlightOwned
<1> USE CoordinatorAssumption
    DEF IInv, TypeOK, WALTypeOK, InFlightOwned, Goroutines, Working
<1>1. CASE StartNode \/ StartSend \/ BeginPoll \/ UNCHANGED vars
  BY <1>1 DEF StartNode, StartSend, BeginPoll, vars, walVars, logVars, goVars, Idle
<1>2. ASSUME NEW p \in Peers, SendEntry(p) \/ Enqueue(p) \/ MarkOffline(p)
      PROVE  \E g \in Goroutines : Working(g, id)'
  BY <1>2 DEF SendEntry, Enqueue, MarkOffline, EnqueueEntry, Idle, walVars, goVars
<1>3. ASSUME NEW p \in Peers, NEW d \in Drainers, MarkOnline(p, d)
      PROVE  \E g \in Goroutines : Working(g, id)'
  BY <1>3 DEF MarkOnline, Idle, walVars
<1>4. ASSUME NEW h \in Goroutines,
             BeginDrain(h) \/ FinishDrain(h) \/ TakeEntry(h) \/ DeliverySucceeds(h)
      PROVE  \E g \in Goroutines : Working(g, id)'
  BY <1>4 DEF BeginDrain, FinishDrain, TakeEntry, DeliverySucceeds, Ended, walVars
<1>5. ASSUME NEW h \in Goroutines, MarkInFlight(h)
      PROVE  \E g \in Goroutines : Working(g, id)'
  BY <1>5 DEF MarkInFlight, MarkEntryInFlight, updateStatus, NextEntry
<1>6. ASSUME NEW h \in Goroutines, DeliveryFails(h)
      PROVE  \E g \in Goroutines : Working(g, id)'
  BY <1>6 DEF DeliveryFails, NextEntry, walVars, UpInv
<1>7. ASSUME NEW h \in Goroutines,
             GiveUp(h) \/ MarkFailed(h) \/ MarkDone(h) \/ Delete(h)
      PROVE  \E g \in Goroutines : Working(g, id)'
  <2>1. dbOpen
    BY <1>7 DEF UpInv, GiveUp, MarkFailed, MarkDone, Delete
  <2>2. status[id] = "inflight" /\ cur[h].id # id
    <3>1. CASE GiveUp(h) \/ MarkFailed(h)
      BY <2>1, <3>1, ZenonT(30) DEF GiveUp, MarkFailed, MarkEntryFailed, Found
    <3>2. CASE MarkDone(h)
      BY <2>1, <3>2 DEF MarkDone, MarkEntryDone, updateStatus, Found
    <3>3. CASE Delete(h)
      BY <2>1, <3>3 DEF Delete, DeleteEntry
    <3> QED
      BY <1>7, <3>1, <3>2, <3>3
  <2> QED
    BY <1>7, <2>2 DEF GiveUp, MarkFailed, MarkDone, Delete, NextEntry
<1>8. CASE Exit \/ (proc = "send" /\ Crash)
  BY <1>8 DEF Exit, Crash, Halt, logVars, UpInv
<1> QED
  BY <1>1, <1>2, <1>3, <1>4, <1>5, <1>6, <1>7, <1>8 DEF UpNext, Step

\* As long as nothing stops the node, no entry is ever abandoned in flight,
\* whatever drains run at once on the same entries.
THEOREM NothingAbandonedWhileUp == UpSpec => []InFlightOwned
<1>1. Init => UpInv /\ InFlightOwned
  BY DEF Init, WALInit, UpInv, InFlightOwned
<1>2. [UpNext]_vars => [Next]_vars
  BY DEF Next
<1> QED
  BY <1>1, <1>2, InitIInv, StepIInv, StepUpInv, StepOwned, PTL DEF UpSpec
=============================================================================
