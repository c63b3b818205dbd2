--------------------------------- MODULE WAL ---------------------------------
(***************************************************************************)
(* The write-ahead log of internal/store/wal.go: one BoltDB bucket of      *)
(* entries keyed by a sequence number that is never reused.  Every         *)
(* operation is one BoltDB transaction, hence one atomic step; the module  *)
(* gives each as an action a component composes with its own.              *)
(*                                                                         *)
(* Ids are the bucket's sequence numbers.  The key is the number printed   *)
(* with %010d, so key order is number order; MaxEntries bounds the model   *)
(* far below the ten digits at which that would stop being so.             *)
(* An entry's op and payload are opaque to the log and are left out.       *)
(***************************************************************************)
EXTENDS Integers

CONSTANTS Peers,            \* peer identifiers
          NoPeer,           \* stands for "no peer"
          MaxEntries        \* bound: how many entries are ever enqueued

ASSUME WALAssumption == MaxEntries \in Nat /\ NoPeer \notin Peers

Ids == 1..MaxEntries

\* WALStatusFailed is declared in the source and never assigned.
Statuses == {"pending", "inflight", "done", "failed"}

VARIABLES dbOpen,           \* is the BoltDB handle open? (volatile)
          seq,              \* the bucket's sequence (durable)
          peerOf,           \* the peer of each enqueued entry (durable)
          status,           \* "absent" where the bucket has no such key (durable)
          retries           \* the retry counter of each entry (durable)

logVars == <<seq, peerOf, status, retries>>
walVars == <<dbOpen, seq, peerOf, status, retries>>

\* A snapshot of an entry, as GetPendingEntries hands it out: the fields the
\* caller reads later are its id and its retry counter.
Snapshot == [id : Ids, retries : Nat]

WALTypeOK == /\ dbOpen \in BOOLEAN
             /\ seq \in 0..MaxEntries
             /\ peerOf \in [Ids -> Peers \cup {NoPeer}]
             /\ status \in [Ids -> Statuses \cup {"absent"}]
             /\ retries \in [Ids -> Nat]

WALInit == /\ dbOpen = FALSE
           /\ seq = 0
           /\ peerOf = [id \in Ids |-> NoPeer]
           /\ status = [id \in Ids |-> "absent"]
           /\ retries = [id \in Ids |-> 0]

-----------------------------------------------------------------------------
\* Reads.

\* A write transaction that names a key fails on a closed handle, and on a
\* missing key: the entry is changed only when this holds.
Found(id) == dbOpen /\ status[id] # "absent"

\* Mutant of PendingOf: entries left inflight are taken up again.
PendingOf_InFlightToo(p) ==
  {[id |-> id, retries |-> retries[id]] :
      id \in {i \in Ids : status[i] \in {"pending", "inflight"} /\ peerOf[i] = p}}

PendingOf(p) ==
  {[id |-> id, retries |-> retries[id]] :
      id \in {i \in Ids : status[i] = "pending" /\ peerOf[i] = p}}

AllPending ==
  {[id |-> id, retries |-> retries[id]] :
      id \in {i \in Ids : status[i] = "pending"}}

-----------------------------------------------------------------------------
\* Write transactions.

\* The counter of an id never used is still 0.
EnqueueEntry(p) ==
  /\ dbOpen
  /\ seq < MaxEntries
  /\ seq' = seq + 1
  /\ status' = [status EXCEPT ![seq + 1] = "pending"]
  /\ peerOf' = [peerOf EXCEPT ![seq + 1] = p]
  /\ UNCHANGED retries

\* Mutant of updateStatus: a missing key is written instead of reported.
updateStatus_Upserts(id, s) ==
  /\ status' = IF dbOpen THEN [status EXCEPT ![id] = s] ELSE status
  /\ UNCHANGED <<seq, peerOf, retries>>

\* An error leaves the bucket as it was: the transaction is rolled back.
updateStatus(id, s) ==
  /\ status' = IF Found(id) THEN [status EXCEPT ![id] = s] ELSE status
  /\ UNCHANGED <<seq, peerOf, retries>>

\* The status the entry had is not looked at.
MarkEntryInFlight(id) == updateStatus(id, "inflight")

MarkEntryDone(id) == updateStatus(id, "done")

\* Mutant of MarkEntryFailed: counts the attempts left, not the attempts made.
MarkEntryFailed_CountsDown(id) ==
  /\ status' = IF Found(id) THEN [status EXCEPT ![id] = "pending"] ELSE status
  /\ retries' = IF Found(id) THEN [retries EXCEPT ![id] = @ - 1] ELSE retries
  /\ UNCHANGED <<seq, peerOf>>

\* The counter is read and written in one transaction.
MarkEntryFailed(id) ==
  /\ status' = IF Found(id) THEN [status EXCEPT ![id] = "pending"] ELSE status
  /\ retries' = IF Found(id) THEN [retries EXCEPT ![id] = @ + 1] ELSE retries
  /\ UNCHANGED <<seq, peerOf>>

\* Deleting a missing key is no error.
DeleteEntry(id) ==
  /\ status' = IF dbOpen THEN [status EXCEPT ![id] = "absent"] ELSE status
  /\ UNCHANGED <<seq, peerOf, retries>>
=============================================================================
