------------------------------ MODULE MCDelivery ------------------------------
(* The whole table of session options with a known address and no other tier,  *)
(* and the tiers with options that agree, that do not, and that cannot.        *)
EXTENDS Delivery

Sides == {o \in [token : {"none", "recipient", "self"}, resume : BOOLEAN,
                 rcvSpace : {"none", "S", "T"}, rcvAuth : BOOLEAN, rcvResume : BOOLEAN] :
            o.rcvSpace # "none" => o.rcvAuth}

Tiers == {t \in [addr : BOOLEAN, rdv : BOOLEAN, relay : BOOLEAN, force : BOOLEAN] :
            t.addr \/ t.rdv \/ t.relay}

Both(s, t) ==
  [token |-> s.token, resume |-> s.resume, rcvSpace |-> s.rcvSpace, rcvAuth |-> s.rcvAuth,
   rcvResume |-> s.rcvResume, addr |-> t.addr, rdv |-> t.rdv, relay |-> t.relay,
   force |-> t.force]

Direct == [addr |-> TRUE, rdv |-> FALSE, relay |-> FALSE, force |-> FALSE]

Some(token, space) ==
  [token |-> token, resume |-> TRUE, rcvSpace |-> space, rcvAuth |-> space # "none",
   rcvResume |-> TRUE]

\* The options of vault send and vault receive when no flag turns resume off.
DefaultOptions == {Both(Some(t, s), Direct) : t \in {"none", "recipient"},
                                              s \in {"none", "S"}}

MCOptions == {Both(s, Direct) : s \in Sides}
             \cup {Both(s, t) : s \in {Some("none", "none"), Some("recipient", "S")},
                                t \in Tiers}
             \cup {Both(Some("recipient", "none"), t) :
                       t \in {u \in Tiers : u.rdv => u.addr /\ u.relay}}
=============================================================================
