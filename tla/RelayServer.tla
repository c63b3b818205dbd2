----------------------------- MODULE RelayServer -----------------------------
(***************************************************************************)
(* The store-and-forward relay server of internal/relay/relay.go: one      *)
(* BoltDB bucket per recipient, filled by push and emptied by pull, with   *)
(* an eviction loop.  Every operation holds the server's mutex and is one  *)
(* BoltDB transaction, hence one atomic step a component composes with its *)
(* own.  Buckets of different recipients do not touch each other, so there *)
(* is one recipient.  The inbox survives a restart of the server; a server *)
(* that is down is a push or pull that fails at the client.                *)
(***************************************************************************)
EXTENDS Integers, Sequences, FiniteSets

CONSTANTS MaxChunkSize,     \* what Push accepts (8 MiB in the source)
          MaxLine,          \* what one line of the protocol carries: the
                            \* 64 KiB token limit of bufio.Scanner
          MaxAge,           \* maxAge of the server (24 h); 0: keep for ever
          MaxClock          \* bound: how far time goes

ASSUME RelayAssumption ==
  /\ MaxChunkSize \in Nat /\ MaxLine \in Nat /\ MaxAge \in Nat /\ MaxClock \in Nat

VARIABLES inbox,            \* buffered messages in key order (durable)
          clock

relayVars == <<inbox, clock>>

RelayInit == /\ inbox = <<>>
             /\ clock = 0

\* The line is read before the size of its payload is looked at; a line that
\* is too long ends the connection without a response.
Refused(size) == size > MaxLine \/ size > MaxChunkSize

Push(body) == inbox' = Append(inbox, [body |-> body, pushedAt |-> clock])

\* Mutant of Pull: the bucket is read and not deleted.
Pull_KeepsInbox == UNCHANGED inbox

\* The bucket is deleted in the transaction that reads it.  Whether it commits is not
\* looked at: see PullNotCommitted in RelayTransfer.
Pull == inbox' = <<>>

OlderThan(m, cutoff) == m.pushedAt < cutoff
Expired(m) == OlderThan(m, clock - MaxAge)

\* Mutant of evict: an expired message takes the whole bucket with it.
evict_WholeBucket ==
  /\ MaxAge > 0
  /\ \E k \in DOMAIN inbox : Expired(inbox[k])
  /\ inbox' = <<>>

\* Messages are in the order they were pushed: those older than the cutoff, which are
\* deleted, come first.  The cutoff is computed before the lock is taken, at some earlier
\* time.
evict == /\ MaxAge > 0
         /\ \E time \in 0..clock, n \in 0..Len(inbox) :
              /\ \A k \in DOMAIN inbox : OlderThan(inbox[k], time - MaxAge) <=> k <= n
              /\ inbox' = SubSeq(inbox, n + 1, Len(inbox))

Tick == clock < MaxClock /\ clock' = clock + 1
=============================================================================
