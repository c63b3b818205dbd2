------------------------------ MODULE Rendezvous ------------------------------
(***************************************************************************)
(* The rendezvous registry: internal/rendezvous/server.go, asked through   *)
(* client.go.  A peer posts its address, which lasts for a time; a loop    *)
(* sweeps out what has expired, and takes the time before it gets the      *)
(* lock; a lookup reads the record under the lock and looks at its expiry  *)
(* after that.  Entries of different peers are independent: one is enough. *)
(***************************************************************************)
EXTENDS Integers

CONSTANTS Addrs,            \* addresses a peer may have
          TTL,              \* how long a registration lasts
          TimeBound         \* bound: the clock stops here

ASSUME RendezvousAssumption == TTL \in Nat /\ TimeBound \in Nat

Absent == [addr |-> "none", expires |-> -1]
Record == [addr : Addrs, expires : 0..(TimeBound + TTL)] \cup {Absent}
NoSweep == -1

VARIABLES
  now,                      \* the clock
  peer,                     \* the peer's entry in Server.peers
  sweep,                    \* the time the running evict took, or NoSweep
  asking, read,             \* is a lookup running, and the record it read
  last, renewed             \* history: the last registration; has there been one
                            \*   since the lookup read the record?

registryVars == <<peer, sweep, asking, read, last, renewed>>

RegistryTypeOK ==
  /\ now \in 0..TimeBound
  /\ peer \in Record /\ read \in Record /\ last \in Record
  /\ sweep \in 0..TimeBound \cup {NoSweep}
  /\ asking \in BOOLEAN /\ renewed \in BOOLEAN

RegistryInit ==
  /\ now = 0 /\ peer = Absent /\ sweep = NoSweep
  /\ asking = FALSE /\ read = Absent /\ last = Absent /\ renewed = FALSE

Tick == /\ now < TimeBound
        /\ now' = now + 1
        /\ UNCHANGED registryVars

\* POST /peers/{id}; a new record, also when the peer has one.
Register(a) ==
  /\ peer' = [addr |-> a, expires |-> now + TTL]
  /\ last' = peer' /\ renewed' = TRUE
  /\ UNCHANGED <<now, sweep, asking, read>>

SweepBegins == /\ sweep = NoSweep
               /\ sweep' = now
               /\ UNCHANGED <<now, peer, asking, read, last, renewed>>

\* Mutant of evict: a record goes at the instant it expires, when a lookup still
\* finds it.
evict_AtBoundary ==
  /\ sweep # NoSweep
  /\ peer' = IF peer.expires <= sweep THEN Absent ELSE peer
  /\ sweep' = NoSweep
  /\ UNCHANGED <<now, asking, read, last, renewed>>

\* The sweep has the lock.
evict == /\ sweep # NoSweep
         /\ peer' = IF peer.expires < sweep THEN Absent ELSE peer
         /\ sweep' = NoSweep
         /\ UNCHANGED <<now, asking, read, last, renewed>>

\* GET /peers/{id}: the record is read under the lock.
ReadRecord == /\ ~asking
              /\ asking' = TRUE /\ read' = peer /\ renewed' = FALSE
              /\ UNCHANGED <<now, peer, sweep, last>>

\* Its expiry is looked at after that; 404 is "none" at the client.
LookupAnswer == IF read.expires < now THEN "none" ELSE read.addr

LookupEnds == /\ asking
              /\ asking' = FALSE /\ read' = Absent
              /\ UNCHANGED <<now, peer, sweep, last, renewed>>

RegistryStep == SweepBegins \/ evict \/ \E a \in Addrs : Register(a)
=============================================================================
