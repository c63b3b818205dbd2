----------------------------- MODULE RetryProofs -----------------------------
(***************************************************************************)
(* Proofs about the retry counter of Coordinator, at a node that nothing   *)
(* stops: for any number of goroutines at work on the same entries, any    *)
(* retry limit and any number of failures.                                 *)
(***************************************************************************)
EXTENDS CoordinatorProofs, FiniteSetTheorems

-----------------------------------------------------------------------------
(* The inductive invariant.                                                *)

\* The goroutines that got an error for the entry and have not counted it yet.
Failing(id) == {g \in Goroutines : pc[g] = "failed" /\ cur[g].id = id}

\* The goroutines that may still get one: they have a snapshot of the entry with a
\* counter below the limit, whatever its counter is now.
HasSnapshot(g, id) == \E e \in todo[g] : e.id = id /\ e.retries < MaxRetries

Attempts(g, id) == /\ cur[g].id = id
                   /\ \/ pc[g] = "sending"
                      \/ pc[g] = "deliver" /\ cur[g].retries < MaxRetries

MayFail(id) ==
  {g \in Goroutines : proc = "node" /\ (HasSnapshot(g, id) \/ Attempts(g, id))}

\* No snapshot taken from now on leads to an attempt.
Closed(id) == status[id] = "absent" \/ retries[id] >= MaxRetries

\* A snapshot has an entry once, and what a goroutine works on is no longer in it.
OnceInv ==
  \A g \in Goroutines :
    /\ \A e, f \in todo[g] : e.id = f.id => e = f
    /\ Busy(g) => \A e \in todo[g] : e.id # cur[g].id

\* Only the coordinator of a node counts failures.
NodeInv == \A g \in Goroutines : proc # "node" => pc[g] # "failed"

\* What is not counted yet, before the counter reaches the limit; and how many attempts
\* are left after that.
Counted(id) ==
  /\ id > seq => failures[id] = 0
  /\ status[id] # "absent" => failures[id] <= retries[id] + Cardinality(Failing(id))
  /\ Closed(id) =>
       failures[id] + Cardinality(MayFail(id)) <= MaxRetries + Cardinality(Drainers)

CountInv == \A id \in Ids : Counted(id)

RetryInv == OnceInv /\ NodeInv /\ CountInv

-----------------------------------------------------------------------------
(* Counting goroutines.                                                    *)

\* There is one goroutine more than drains.
LEMMA GoroutineCount ==
  /\ IsFiniteSet(Goroutines) /\ Cardinality(Drainers) \in Nat
  /\ Cardinality(Goroutines) = Cardinality(Drainers) + 1
<1>1. IsFiniteSet(Drainers) /\ Main \notin Drainers
  BY CoordinatorAssumption
<1>2. Goroutines = Drainers \cup {Main}
  BY DEF Goroutines
<1> QED  BY <1>1, <1>2, FS_AddElement, FS_CardinalityType

\* A set of goroutines has no fewer members than its subsets.
LEMMA SubsetCount ==
  ASSUME NEW S \in SUBSET Goroutines
  PROVE  /\ IsFiniteSet(S) /\ Cardinality(S) \in Nat
         /\ Cardinality(S) <= Cardinality(Drainers) + 1
         /\ \A T \in SUBSET S : Cardinality(T) <= Cardinality(S)
<1>1. IsFiniteSet(S) /\ Cardinality(S) <= Cardinality(Goroutines)
  BY GoroutineCount, FS_Subset
<1>2. Cardinality(S) \in Nat
  BY <1>1, FS_CardinalityType
<1>3. \A T \in SUBSET S : Cardinality(T) <= Cardinality(S)
  BY <1>1, FS_Subset
<1> QED  BY <1>1, <1>2, <1>3, GoroutineCount

\* A goroutine more or less.
LEMMA OneMore ==
  ASSUME NEW S \in SUBSET Goroutines, NEW g \in Goroutines
  PROVE  /\ g \notin S => Cardinality(S \cup {g}) = Cardinality(S) + 1
         /\ g \in S => Cardinality(S \ {g}) = Cardinality(S) - 1
  BY SubsetCount, FS_AddElement, FS_RemoveElement

\* Disjoint sets of the goroutines other than g.
LEMMA AllOthers ==
  ASSUME NEW A \in SUBSET Goroutines, NEW B \in SUBSET Goroutines, A \cap B = {},
         NEW g \in Goroutines, g \notin A, g \notin B
  PROVE  Cardinality(A) + Cardinality(B) <= Cardinality(Drainers)
<1>1. IsFiniteSet(A) /\ IsFiniteSet(B) /\ Cardinality(A) \in Nat /\ Cardinality(B) \in Nat
  BY SubsetCount
<1>2. Cardinality(A \cup B) = Cardinality(A) + Cardinality(B) - Cardinality(A \cap B)
  BY <1>1, FS_Union
<1>3. Cardinality(A \cap B) = 0
  BY FS_EmptySet
<1>4. A \cup B \in SUBSET Goroutines /\ g \notin A \cup B
  OBVIOUS
<1>5. Cardinality(A \cup B) + 1 <= Cardinality(Drainers) + 1
  <2>1. Cardinality((A \cup B) \cup {g}) = Cardinality(A \cup B) + 1
    BY <1>4, OneMore
  <2>2. (A \cup B) \cup {g} \in SUBSET Goroutines
    BY <1>4
  <2>3. Cardinality((A \cup B) \cup {g}) <= Cardinality(Drainers) + 1
    BY <2>2, SubsetCount
  <2> QED  BY <2>1, <2>3
<1>6. Cardinality(Drainers) \in Nat /\ Cardinality(A \cup B) \in Nat
  BY <1>4, GoroutineCount, SubsetCount
<1> QED  BY <1>1, <1>2, <1>3, <1>5, <1>6

\* The sets that are counted are sets of goroutines.
LEMMA Subsets ==
  ASSUME NEW id \in Ids
  PROVE  Failing(id) \in SUBSET Goroutines /\ MayFail(id) \in SUBSET Goroutines
  BY DEF Failing, MayFail

\* The numbers the invariant speaks of.
LEMMA Numbers ==
  ASSUME IInv, NEW id \in Ids
  PROVE  /\ failures[id] \in Nat /\ retries[id] \in Nat /\ MaxRetries \in Nat
         /\ Cardinality(Failing(id)) \in Nat /\ Cardinality(MayFail(id)) \in Nat
         /\ Cardinality(Drainers) \in Nat /\ id \in Nat /\ seq \in Nat
<1>1. failures[id] \in Nat /\ retries[id] \in Nat /\ id \in Nat /\ seq \in Nat
  BY WALAssumption DEF IInv, TypeOK, WALTypeOK, Ids
<1>2. Cardinality(Failing(id)) \in Nat /\ Cardinality(MayFail(id)) \in Nat
  BY Subsets, SubsetCount
<1> QED  BY <1>1, <1>2, CoordinatorAssumption, GoroutineCount

-----------------------------------------------------------------------------
(* What a goroutine has in hand it has once.                               *)

\* Every step keeps OnceInv.
LEMMA StepOnce ==
  ASSUME IInv, UpInv, OnceInv, [UpNext]_vars
  PROVE  OnceInv'
<1> USE CoordinatorAssumption DEF IInv, TypeOK, UpInv, OnceInv, Busy, Goroutines
<1>1. CASE StartNode \/ StartSend \/ UNCHANGED vars
  BY <1>1 DEF StartNode, StartSend, vars, goVars
<1>2. CASE BeginPoll
  BY <1>2 DEF BeginPoll, AllPending
<1>3. ASSUME NEW p \in Peers, SendEntry(p)
      PROVE  OnceInv'
  BY <1>3 DEF SendEntry
<1>4. ASSUME NEW p \in Peers, Enqueue(p) \/ MarkOffline(p)
      PROVE  OnceInv'
  BY <1>4 DEF Enqueue, MarkOffline, goVars
<1>5. ASSUME NEW p \in Peers, NEW d \in Drainers, MarkOnline(p, d)
      PROVE  OnceInv'
  BY <1>5 DEF MarkOnline
<1>6. ASSUME NEW g \in Goroutines, BeginDrain(g)
      PROVE  OnceInv'
  BY <1>6 DEF BeginDrain, PendingOf
<1>7. ASSUME NEW g \in Goroutines, FinishDrain(g) \/ TakeEntry(g)
      PROVE  OnceInv'
  BY <1>7 DEF FinishDrain, TakeEntry, Ended
<1>8. ASSUME NEW g \in Goroutines,
             \/ GiveUp(g) \/ MarkInFlight(g) \/ DeliverySucceeds(g)
             \/ DeliveryFails(g) \/ MarkFailed(g) \/ MarkDone(g) \/ Delete(g)
      PROVE  OnceInv'
  BY <1>8 DEF GiveUp, MarkInFlight, DeliverySucceeds, DeliveryFails, MarkFailed,
              MarkDone, Delete, NextEntry
<1>9. CASE Halt
  BY <1>9 DEF Halt
<1> QED
  BY <1>1, <1>2, <1>3, <1>4, <1>5, <1>6, <1>7, <1>8, <1>9
     DEF UpNext, Step, Exit, Crash

\* Every step keeps NodeInv.
LEMMA StepNode ==
  ASSUME IInv, UpInv, NodeInv, [UpNext]_vars
  PROVE  NodeInv'
<1> USE CoordinatorAssumption DEF IInv, TypeOK, UpInv, NodeInv, Goroutines
<1>1. CASE StartNode \/ StartSend \/ BeginPoll \/ UNCHANGED vars
  BY <1>1 DEF StartNode, StartSend, BeginPoll, vars, goVars, procVars
<1>2. ASSUME NEW p \in Peers, SendEntry(p) \/ Enqueue(p) \/ MarkOffline(p)
      PROVE  NodeInv'
  BY <1>2 DEF SendEntry, Enqueue, MarkOffline, goVars, procVars
<1>3. ASSUME NEW p \in Peers, NEW d \in Drainers, MarkOnline(p, d)
      PROVE  NodeInv'
  BY <1>3 DEF MarkOnline
<1>4. ASSUME NEW g \in Goroutines, BeginDrain(g) \/ FinishDrain(g) \/ TakeEntry(g)
      PROVE  NodeInv'
  BY <1>4 DEF BeginDrain, FinishDrain, TakeEntry, Ended, procVars
<1>5. ASSUME NEW g \in Goroutines,
             \/ GiveUp(g) \/ MarkInFlight(g) \/ DeliverySucceeds(g)
             \/ DeliveryFails(g) \/ MarkFailed(g) \/ MarkDone(g) \/ Delete(g)
      PROVE  NodeInv'
  BY <1>5 DEF GiveUp, MarkInFlight, DeliverySucceeds, DeliveryFails, MarkFailed,
              MarkDone, Delete, NextEntry, procVars
<1>6. CASE Halt
  BY <1>6 DEF Halt
<1> QED
  BY <1>1, <1>2, <1>3, <1>4, <1>5, <1>6 DEF UpNext, Step, Exit, Crash

-----------------------------------------------------------------------------
(* The counter.                                                            *)

\* A goroutine at work on an entry past its attempt cannot fail on it again, nor one that
\* gives it up.
LEMMA NotAgain ==
  ASSUME IInv, OnceInv, NEW g \in Goroutines, NEW id \in Ids, cur[g].id = id, Busy(g),
         \/ pc[g] \in {"failed", "sent", "delete"}
         \/ pc[g] = "deliver" /\ Exhausted(cur[g])
  PROVE  g \notin MayFail(id)
<1>1. ~HasSnapshot(g, id)
  BY DEF HasSnapshot, OnceInv
<1>2. ~Attempts(g, id)
  <2>1. cur[g].retries \in Nat
    BY DEF IInv, KnownInv, Snapshot
  <2> QED  BY <2>1, CoordinatorAssumption DEF Attempts, Exhausted
<1> QED  BY <1>1, <1>2 DEF MayFail

\* Those that have failed and those that may are different goroutines.
LEMMA Disjoint ==
  ASSUME OnceInv, NEW id \in Ids
  PROVE  Failing(id) \cap MayFail(id) = {}
<1> SUFFICES ASSUME NEW g \in Failing(id), g \in MayFail(id)
             PROVE  FALSE
  OBVIOUS
<1>1. g \in Goroutines /\ pc[g] = "failed" /\ cur[g].id = id
  BY DEF Failing
<1> QED  BY <1>1 DEF MayFail, HasSnapshot, Attempts, OnceInv, Busy

\* A step that neither counts nor gets an error for the entry, and hands out no snapshot
\* of it when it is closed.
LEMMA Quiet ==
  ASSUME IInv, NEW id \in Ids, Counted(id), seq' = seq \/ seq' = seq + 1,
         retries'[id] = retries[id], failures'[id] = failures[id],
         status'[id] = "absent" <=> status[id] = "absent",
         Failing(id)' = Failing(id),
         Closed(id) => MayFail(id)' \subseteq MayFail(id)
  PROVE  Counted(id)'
<1>1. Closed(id)' <=> Closed(id)
  BY DEF Closed
<1>2. ASSUME Closed(id)
      PROVE  failures'[id] + Cardinality(MayFail(id)') <= MaxRetries + Cardinality(Drainers)
  <2>1. MayFail(id)' \in SUBSET MayFail(id) /\ MayFail(id) \in SUBSET Goroutines
    BY <1>2, Subsets
  <2>2. Cardinality(MayFail(id)') <= Cardinality(MayFail(id))
    BY <2>1, SubsetCount
  <2>3. Cardinality(MayFail(id)') \in Nat
    <3>1. MayFail(id)' \in SUBSET Goroutines
      BY <2>1
    <3> QED  BY <3>1, SubsetCount
  <2>4. failures[id] + Cardinality(MayFail(id)) <= MaxRetries + Cardinality(Drainers)
    BY <1>2 DEF Counted
  <2> QED  BY <2>2, <2>3, <2>4, Numbers
<1>3. id > seq' => id > seq
  BY Numbers
<1> QED  BY <1>1, <1>2, <1>3 DEF Counted

\* An entry that closes without g failing on it leaves room for g's attempt.
LEMMA Closes ==
  ASSUME IInv, OnceInv, NEW id \in Ids, Counted(id), ~Closed(id),
         NEW g \in Goroutines, g \notin Failing(id), g \notin MayFail(id)
  PROVE  failures[id] + Cardinality(MayFail(id)) < MaxRetries + Cardinality(Drainers)
<1>1. failures[id] <= retries[id] + Cardinality(Failing(id)) /\ retries[id] < MaxRetries
  BY Numbers DEF Counted, Closed
<1>2. Cardinality(Failing(id)) + Cardinality(MayFail(id)) <= Cardinality(Drainers)
  BY Subsets, Disjoint, AllOthers
<1> QED  BY <1>1, <1>2, Numbers

\* The steps that leave failures and retries alone and put no entry in the log.
LEMMA StepQuiet ==
  ASSUME IInv, UpInv, RetryInv, NEW id \in Ids,
         \/ StartNode \/ StartSend \/ BeginPoll \/ Exit \/ (proc = "send" /\ Crash)
         \/ UNCHANGED vars
         \/ \E p \in Peers : MarkOffline(p)
         \/ \E p \in Peers, d \in Drainers : MarkOnline(p, d)
         \/ \E g \in Goroutines :
              \/ BeginDrain(g) \/ FinishDrain(g) \/ TakeEntry(g)
              \/ MarkInFlight(g) \/ DeliverySucceeds(g) \/ MarkDone(g)
  PROVE  Counted(id)'
<1> DEFINE Same == /\ seq' = seq /\ retries' = retries /\ failures' = failures
                   /\ status'[id] = "absent" <=> status[id] = "absent"
                   /\ Failing(id)' = Failing(id)
                   /\ Closed(id) => MayFail(id)' \subseteq MayFail(id)
<1> SUFFICES Same
  BY Quiet DEF RetryInv, CountInv
<1> USE CoordinatorAssumption
    DEF IInv, TypeOK, WALTypeOK, UpInv, Failing, MayFail, HasSnapshot, Attempts, Goroutines
<1>1. CASE StartNode \/ StartSend \/ UNCHANGED vars
  BY <1>1 DEF StartNode, StartSend, vars, walVars, logVars, procVars, goVars, history
<1>2. CASE BeginPoll
  BY <1>2 DEF BeginPoll, AllPending, walVars, procVars, history, Closed, Idle
<1>3. CASE Exit \/ (proc = "send" /\ Crash)
  BY <1>3 DEF Exit, Crash, Halt, logVars, history, RetryInv, NodeInv
<1>4. CASE \E p \in Peers : MarkOffline(p)
  BY <1>4 DEF MarkOffline, walVars, goVars, history
<1>5. ASSUME NEW p \in Peers, NEW d \in Drainers, MarkOnline(p, d)
      PROVE  Same
  BY <1>5 DEF MarkOnline, Idle, walVars, history
<1>6. ASSUME NEW g \in Goroutines, BeginDrain(g)
      PROVE  Same
  BY <1>6 DEF BeginDrain, PendingOf, walVars, procVars, history, Closed
<1>7. ASSUME NEW g \in Goroutines, FinishDrain(g)
      PROVE  Same
  BY <1>7 DEF FinishDrain, Ended, walVars, procVars, history
<1>8. ASSUME NEW g \in Goroutines, TakeEntry(g)
      PROVE  Same
  BY <1>8 DEF TakeEntry, walVars, procVars, history
<1>9. ASSUME NEW g \in Goroutines, MarkInFlight(g)
      PROVE  Same
  BY <1>9 DEF MarkInFlight, MarkEntryInFlight, updateStatus, NextEntry, Found, Exhausted,
              procVars, history, KnownInv, Busy, Snapshot
<1>10. ASSUME NEW g \in Goroutines, DeliverySucceeds(g)
      PROVE  Same
  BY <1>10 DEF DeliverySucceeds, walVars, procVars
<1>11. ASSUME NEW g \in Goroutines, MarkDone(g)
      PROVE  Same
  BY <1>11 DEF MarkDone, MarkEntryDone, updateStatus, Found, procVars, history
<1> QED  BY <1>1, <1>2, <1>3, <1>4, <1>5, <1>6, <1>7, <1>8, <1>9, <1>10, <1>11

\* A new entry has no failures, and nobody has a snapshot of it.
LEMMA StepEnqueue ==
  ASSUME IInv, UpInv, RetryInv, NEW id \in Ids, NEW p \in Peers, SendEntry(p) \/ Enqueue(p)
  PROVE  Counted(id)'
<1>1. /\ seq' = seq + 1 /\ failures' = failures /\ retries' = retries
      /\ status' = [status EXCEPT ![seq + 1] = "pending"]
  BY DEF SendEntry, Enqueue, EnqueueEntry, history
<1>2. Counted(id)
  BY DEF RetryInv, CountInv
<1>3. Failing(id)' = Failing(id)
  BY CoordinatorAssumption
     DEF SendEntry, Enqueue, Failing, goVars, RetryInv, NodeInv, Goroutines, IInv, TypeOK, Idle
<1>4. MayFail(id)' \subseteq MayFail(id)
  BY DEF SendEntry, Enqueue, MayFail, HasSnapshot, Attempts, procVars, goVars
<1>5. CASE id # seq + 1
  <2>1. status'[id] = status[id]
    BY <1>1, <1>5 DEF IInv, TypeOK, WALTypeOK
  <2> QED  BY <1>1, <1>2, <1>3, <1>4, <2>1, Quiet
<1>6. CASE id = seq + 1
  <2>1. failures[id] = 0
    BY <1>2, <1>6, Numbers DEF Counted
  <2>2. MayFail(id)' = {}
    <3>1. MayFail(id) = {}
      <4>1. ASSUME NEW g \in Goroutines, HasSnapshot(g, id)
            PROVE  FALSE
        <5>1. PICK e \in todo[g] : e.id = id
          BY <4>1 DEF HasSnapshot
        <5>2. e.id <= seq
          BY <5>1 DEF IInv, KnownInv
        <5> QED  BY <1>6, <5>1, <5>2, Numbers
      <4>2. ASSUME NEW g \in Goroutines, Attempts(g, id)
            PROVE  FALSE
        <5>1. cur[g].id = id /\ cur[g].id <= seq
          BY <4>2 DEF Attempts, Busy, IInv, KnownInv
        <5> QED  BY <1>6, <5>1, Numbers
      <4> QED  BY <4>1, <4>2 DEF MayFail
    <3> QED  BY <1>4, <3>1
  <2>3. Cardinality({}) = 0
    BY FS_EmptySet
  <2> QED  BY <1>1, <1>3, <1>6, <2>1, <2>2, <2>3, Numbers DEF Counted
<1> QED  BY <1>5, <1>6

\* An error moves a goroutine from those that may fail to those that have.
LEMMA StepFails ==
  ASSUME IInv, UpInv, RetryInv, NEW id \in Ids, NEW g \in Goroutines, DeliveryFails(g)
  PROVE  Counted(id)'
<1>1. Counted(id)
  BY DEF RetryInv, CountInv
<1>2. /\ seq' = seq /\ retries' = retries /\ status' = status /\ todo' = todo /\ proc' = proc
      /\ pc[g] = "sending" /\ Busy(g)
  BY DEF DeliveryFails, walVars, procVars, Busy
<1>3. CASE proc = "send" \/ cur[g].id # id
  <2>1. failures'[id] = failures[id]
    BY <1>3 DEF DeliveryFails, IInv, TypeOK
  <2>2. Failing(id)' = Failing(id)
    BY <1>3 DEF DeliveryFails, NextEntry, Failing, IInv, TypeOK
  <2>3. MayFail(id)' \subseteq MayFail(id)
    BY <1>2 DEF DeliveryFails, NextEntry, MayFail, HasSnapshot, Attempts, IInv, TypeOK
  <2> QED  BY <1>1, <1>2, <2>1, <2>2, <2>3, Quiet
<1>4. CASE proc # "send" /\ cur[g].id = id
  <2>1. /\ failures' = [failures EXCEPT ![id] = @ + 1] /\ cur' = cur
        /\ pc' = [pc EXCEPT ![g] = "failed"]
    BY <1>4 DEF DeliveryFails
  <2>2. failures'[id] = failures[id] + 1
    BY <2>1 DEF IInv, TypeOK
  <2>3. g \notin Failing(id) /\ Failing(id)' = Failing(id) \cup {g}
    BY <1>2, <1>4, <2>1 DEF Failing, IInv, TypeOK
  <2>4. Cardinality(Failing(id)') = Cardinality(Failing(id)) + 1
    BY <2>3, Subsets, OneMore
  <2>5. proc = "node"
    <3>1. proc # "down"
      BY <1>2 DEF UpInv
    <3> QED  BY <1>4, <3>1 DEF UpInv, IInv, TypeOK
  <2>6. g \in MayFail(id)
    BY <1>2, <1>4, <2>5 DEF MayFail, Attempts
  <2>7. \A h \in MayFail(id)' : h \in MayFail(id) /\ h # g
    <3>1. ~HasSnapshot(g, id)
      BY <1>2, <1>4 DEF HasSnapshot, RetryInv, OnceInv
    <3> QED
      BY <1>2, <1>4, <2>1, <3>1 DEF MayFail, HasSnapshot, Attempts, IInv, TypeOK
  <2>8. Cardinality(MayFail(id)') <= Cardinality(MayFail(id)) - 1
    <3>1. MayFail(id) \ {g} \in SUBSET Goroutines /\ MayFail(id)' \in SUBSET (MayFail(id) \ {g})
      BY <2>7, Subsets
    <3>2. Cardinality(MayFail(id)') <= Cardinality(MayFail(id) \ {g})
      BY <3>1, SubsetCount
    <3> QED  BY <2>6, <3>2, Subsets, OneMore
  <2>9. Cardinality(MayFail(id)') \in Nat
    <3>1. MayFail(id)' \in SUBSET Goroutines
      BY DEF MayFail
    <3> QED  BY <3>1, SubsetCount
  <2>10. id <= seq
    BY <1>2, <1>4 DEF IInv, KnownInv
  <2>11. Closed(id)' <=> Closed(id)
    BY <1>2 DEF Closed
  <2> QED
    BY <1>1, <1>2, <2>2, <2>4, <2>8, <2>9, <2>10, <2>11, Numbers DEF Counted
<1> QED  BY <1>3, <1>4

\* What a step of g that ends its work on an entry does to the two sets.
LEMMA EndOfWork ==
  ASSUME IInv, OnceInv, NEW id \in Ids, NEW g \in Goroutines, Busy(g), NextEntry(g),
         proc' = proc, todo' = todo,
         \/ pc[g] \in {"failed", "sent", "delete"}
         \/ pc[g] = "deliver" /\ Exhausted(cur[g])
  PROVE  Failing(id)' = Failing(id) \ {g} /\ MayFail(id)' = MayFail(id)
<1>1. /\ pc' = [pc EXCEPT ![g] = "next"] /\ cur' = [cur EXCEPT ![g] = NoEntry]
      /\ pc \in [Goroutines -> PCs] /\ cur \in [Goroutines -> Snapshot \cup {NoEntry}]
  BY DEF NextEntry, IInv, TypeOK
<1>2. Failing(id)' = Failing(id) \ {g}
  BY <1>1 DEF Failing
<1>3. ~Attempts(g, id)
  <2>1. cur[g].retries \in Nat
    BY DEF IInv, KnownInv, Snapshot
  <2> QED  BY <2>1, CoordinatorAssumption DEF Attempts, Exhausted
<1>4. ~Attempts(g, id)'
  BY <1>1 DEF Attempts
<1>5. \A h \in Goroutines : h # g => (Attempts(h, id)' <=> Attempts(h, id))
  BY <1>1 DEF Attempts
<1>6. \A h \in Goroutines : HasSnapshot(h, id)' <=> HasSnapshot(h, id)
  BY DEF HasSnapshot
<1> QED  BY <1>2, <1>3, <1>4, <1>5, <1>6 DEF MayFail

\* Counting an error, or giving up: the counter goes up by one in the log, whatever the
\* snapshot said; when that closes the entry, g has no attempt at it left.
LEMMA StepCounts ==
  ASSUME IInv, UpInv, RetryInv, NEW id \in Ids, NEW g \in Goroutines,
         MarkFailed(g) \/ GiveUp(g)
  PROVE  Counted(id)'
<1>1. Counted(id)
  BY DEF RetryInv, CountInv
<1>2. /\ seq' = seq /\ failures' = failures /\ proc' = proc /\ todo' = todo
      /\ MarkEntryFailed(cur[g].id) /\ NextEntry(g) /\ Busy(g)
      /\ pc[g] = "failed" \/ (pc[g] = "deliver" /\ Exhausted(cur[g]))
  BY DEF MarkFailed, GiveUp, MarkEntryFailed, procVars, history, Busy
<1>3. Failing(id)' = Failing(id) \ {g} /\ MayFail(id)' = MayFail(id)
  BY <1>2, EndOfWork DEF RetryInv
<1>4. status'[id] = "absent" <=> status[id] = "absent"
  BY <1>2 DEF MarkEntryFailed, Found, IInv, TypeOK, WALTypeOK
<1>5. CASE cur[g].id # id
  <2>1. retries'[id] = retries[id]
    BY <1>2, <1>5 DEF MarkEntryFailed, IInv, TypeOK, WALTypeOK
  <2>2. Failing(id)' = Failing(id)
    BY <1>3, <1>5 DEF Failing
  <2> QED  BY <1>1, <1>2, <1>3, <1>4, <2>1, <2>2, Quiet
<1>6. CASE cur[g].id = id
  <2>1. dbOpen
    BY <1>2 DEF UpInv, Busy
  <2>2. status[id] # "absent" => retries'[id] = retries[id] + 1
    BY <1>2, <1>6, <2>1 DEF MarkEntryFailed, Found, IInv, TypeOK, WALTypeOK
  <2>3. status[id] = "absent" => retries'[id] = retries[id]
    BY <1>2, <1>6 DEF MarkEntryFailed, Found, IInv, TypeOK, WALTypeOK
  <2>4. Cardinality(Failing(id)) <= Cardinality(Failing(id)') + 1
    <3>1. CASE g \in Failing(id)
      BY <1>3, <3>1, Subsets, OneMore, Numbers
    <3>2. CASE g \notin Failing(id)
      <4>1. Failing(id)' = Failing(id)
        BY <1>3, <3>2
      <4> QED  BY <4>1, Numbers
    <3> QED  BY <3>1, <3>2
  <2>5. Cardinality(Failing(id)') \in Nat
    <3>1. Failing(id)' \in SUBSET Goroutines
      BY DEF Failing
    <3> QED  BY <3>1, SubsetCount
  <2>6. g \notin MayFail(id)
    BY <1>2, <1>6, NotAgain DEF RetryInv
  <2>7. Closed(id)' =>
          failures[id] + Cardinality(MayFail(id)) <= MaxRetries + Cardinality(Drainers)
    <3>1. CASE Closed(id)
      BY <1>1, <3>1 DEF Counted
    <3>2. CASE ~Closed(id)
      <4>1. status[id] # "absent" /\ retries[id] < MaxRetries
        BY <3>2, Numbers DEF Closed
      <4>2. ASSUME Closed(id)'
            PROVE  retries[id] + 1 >= MaxRetries
        BY <1>4, <2>2, <4>1, <4>2 DEF Closed
      <4>3. failures[id] <= retries[id] + Cardinality(Failing(id))
        BY <1>1, <4>1 DEF Counted
      <4>4. Cardinality(Failing(id)') + Cardinality(MayFail(id)) <= Cardinality(Drainers)
        <5>1. Failing(id)' \in SUBSET Goroutines /\ g \notin Failing(id)'
          BY <1>3, Subsets
        <5>2. Failing(id)' \cap MayFail(id) = {}
          BY <1>3, Disjoint DEF RetryInv
        <5> QED  BY <2>6, <5>1, <5>2, Subsets, AllOthers
      <4> QED  BY <2>4, <2>5, <4>1, <4>3, <4>4, Numbers
    <3> QED  BY <3>1, <3>2
  <2> QED
    BY <1>1, <1>2, <1>3, <1>4, <2>2, <2>4, <2>5, <2>7, Numbers DEF Counted
<1> QED  BY <1>5, <1>6

\* A removed entry is closed; who removes it had delivered it.
LEMMA StepDelete ==
  ASSUME IInv, UpInv, RetryInv, NEW id \in Ids, NEW g \in Goroutines, Delete(g)
  PROVE  Counted(id)'
<1>1. Counted(id)
  BY DEF RetryInv, CountInv
<1>2. /\ seq' = seq /\ failures' = failures /\ retries' = retries /\ proc' = proc
      /\ todo' = todo /\ DeleteEntry(cur[g].id) /\ NextEntry(g) /\ Busy(g)
      /\ pc[g] = "delete"
  BY DEF Delete, DeleteEntry, procVars, history, Busy
<1>3. Failing(id)' = Failing(id) \ {g} /\ MayFail(id)' = MayFail(id)
  BY <1>2, EndOfWork DEF RetryInv
<1>4. Failing(id)' = Failing(id) /\ g \notin Failing(id)
  BY <1>2, <1>3 DEF Failing
<1>5. CASE cur[g].id # id \/ Closed(id)
  <2>1. status'[id] # "absent" => status[id] # "absent"
    BY <1>2 DEF DeleteEntry, IInv, TypeOK, WALTypeOK
  <2>2. Closed(id)' => Closed(id)
    BY <1>2, <1>5 DEF Closed, DeleteEntry, IInv, TypeOK, WALTypeOK
  <2> QED  BY <1>1, <1>2, <1>3, <1>4, <2>1, <2>2 DEF Counted
<1>6. CASE cur[g].id = id /\ ~Closed(id)
  <2>1. g \notin MayFail(id)
    BY <1>2, <1>6, NotAgain DEF RetryInv
  <2>2. failures[id] + Cardinality(MayFail(id)) < MaxRetries + Cardinality(Drainers)
    BY <1>1, <1>4, <1>6, <2>1, Closes DEF RetryInv
  <2>3. dbOpen /\ status'[id] = "absent"
    <3>1. dbOpen
      BY <1>2 DEF UpInv, Busy
    <3> QED  BY <1>2, <1>6, <3>1 DEF DeleteEntry, IInv, TypeOK, WALTypeOK
  <2> QED  BY <1>1, <1>2, <1>3, <2>2, <2>3, Numbers DEF Counted
<1> QED  BY <1>5, <1>6

-----------------------------------------------------------------------------
(* The theorems.                                                           *)

\* Nothing is enqueued at first.
LEMMA InitRetry == Init => RetryInv
<1> SUFFICES ASSUME Init
             PROVE  RetryInv
  OBVIOUS
<1>1. OnceInv /\ NodeInv
  BY DEF Init, OnceInv, NodeInv, Busy
<1>2. ASSUME NEW id \in Ids
      PROVE  Counted(id)
  <2>1. MayFail(id) = {} /\ Cardinality({}) = 0
    BY FS_EmptySet DEF Init, MayFail
  <2>2. failures[id] = 0 /\ status[id] = "absent"
    BY DEF Init, WALInit
  <2> QED  BY <2>1, <2>2, CoordinatorAssumption, GoroutineCount DEF Counted
<1> QED  BY <1>1, <1>2 DEF RetryInv, CountInv

\* Every step keeps the invariant.
LEMMA StepRetry == IInv /\ UpInv /\ RetryInv /\ [UpNext]_vars => RetryInv'
<1> SUFFICES ASSUME IInv, UpInv, RetryInv, [UpNext]_vars
             PROVE  RetryInv'
  OBVIOUS
<1>1. ASSUME NEW id \in Ids
      PROVE  Counted(id)'
  <2>1. CASE \E p \in Peers : SendEntry(p) \/ Enqueue(p)
    BY <2>1, StepEnqueue
  <2>2. CASE \E g \in Goroutines : DeliveryFails(g)
    BY <2>2, StepFails
  <2>3. CASE \E g \in Goroutines : MarkFailed(g) \/ GiveUp(g)
    BY <2>3, StepCounts
  <2>4. CASE \E g \in Goroutines : Delete(g)
    BY <2>4, StepDelete
  <2> QED  BY <2>1, <2>2, <2>3, <2>4, StepQuiet DEF UpNext, Step
<1> QED  BY <1>1, StepOnce, StepNode DEF RetryInv, CountInv

\* The inductive invariant holds in every behaviour of a node that stays up.
THEOREM RetryInvariance == UpSpec => [](IInv /\ UpInv /\ RetryInv)
<1>1. Init => UpInv
  BY DEF Init, WALInit, UpInv
<1>2. [UpNext]_vars => [Next]_vars
  BY DEF Next
<1> QED
  BY <1>1, <1>2, InitIInv, InitRetry, StepIInv, StepUpInv, StepRetry, PTL DEF UpSpec

\* MarkEntryFailed reads and writes the counter in one transaction (wal.go): however many
\* goroutines fail on one entry at a time, none loses another's increment.
THEOREM NoFailureForgotten == UpSpec => []FailuresCounted
<1>1. RetryInv => FailuresCounted
  BY DEF RetryInv, CountInv, Counted, FailuresCounted, Failing
<1> QED  BY <1>1, RetryInvariance, PTL

\* deliver looks at the retry limit in its snapshot (coordinator.go): attempts may go past
\* MaxRetries, but by no more than one for each other goroutine.
THEOREM RetriesEnd == UpSpec => []AttemptsBounded
<1>1. ASSUME IInv, RetryInv, NEW id \in Ids
      PROVE  failures[id] <= MaxRetries + Cardinality(Drainers)
  <2>1. Counted(id)
    BY <1>1 DEF RetryInv, CountInv
  <2>2. CASE Closed(id)
    BY <1>1, <2>1, <2>2, Numbers DEF Counted
  <2>3. CASE ~Closed(id)
    <3>1. /\ failures[id] <= retries[id] + Cardinality(Failing(id))
          /\ retries[id] < MaxRetries
      BY <1>1, <2>1, <2>3, Numbers DEF Counted, Closed
    <3>2. Cardinality(Failing(id)) <= Cardinality(Drainers) + 1
      BY Subsets, SubsetCount
    <3> QED  BY <1>1, <3>1, <3>2, Numbers
  <2> QED  BY <2>2, <2>3
<1>2. IInv /\ RetryInv => AttemptsBounded
  BY <1>1 DEF AttemptsBounded
<1> QED  BY <1>2, RetryInvariance, PTL
=============================================================================
