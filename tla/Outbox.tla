------------------------------- MODULE Outbox -------------------------------
(***************************************************************************)
(* What the offline-first queue promises its callers, whatever goroutines, *)
(* drains, crashes and restarts lie behind it: an operation that was       *)
(* accepted leaves the queue only after it was delivered, and what left    *)
(* the queue never comes back.  Delivery may be repeated.  WAL and         *)
(* Coordinator are shown to implement this (Coordinator!Promise).          *)
(***************************************************************************)

CONSTANT Ops                \* the operations that can be accepted

VARIABLES accepted,         \* operations a caller was told are queued
          delivered,        \* operations some delivery of which succeeded
          retired           \* operations that have left the queue

outboxVars == <<accepted, delivered, retired>>

Init == /\ accepted = {}
        /\ delivered = {}
        /\ retired = {}

Accept(op) == /\ op \notin accepted
              /\ accepted' = accepted \cup {op}
              /\ UNCHANGED <<delivered, retired>>

Deliver(op) == /\ op \in accepted
               /\ delivered' = delivered \cup {op}
               /\ UNCHANGED <<accepted, retired>>

Retire(op) == /\ op \in accepted \cap delivered
              /\ retired' = retired \cup {op}
              /\ UNCHANGED <<accepted, delivered>>

Next == \E op \in Ops : Accept(op) \/ Deliver(op) \/ Retire(op)

Spec == Init /\ [][Next]_outboxVars
=============================================================================
