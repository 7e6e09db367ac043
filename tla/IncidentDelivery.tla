-------------------------- MODULE IncidentDelivery --------------------------
(***************************************************************************)
(* What the queue-to-ChatOps pipeline promises its operators, with no      *)
(* worker, dedup store or clock in it.  A queue message carries alert      *)
(* clusters; a cluster is settled when somebody was told about its         *)
(* fingerprint or a rule silenced it.  A message may be acknowledged       *)
(* (deleted) while one of its clusters is unsettled only because another   *)
(* message that carries the same fingerprint is still owed: not yet        *)
(* acknowledged, or parked in the dead-letter queue for an operator.       *)
(***************************************************************************)
CONSTANTS Messages, Fingerprints,
          Work            \* Work[m]: the fingerprints message m asks about

VARIABLES accepted,       \* messages the queue took
          settled,        \* <<message, fingerprint>> pairs already settled
          acked,          \* messages deleted from the queue
          parked          \* messages moved to the dead-letter queue

vars == <<accepted, settled, acked, parked>>

Init == accepted = {} /\ settled = {} /\ acked = {} /\ parked = {}

Accept(m) ==
  /\ m \notin accepted
  /\ accepted' = accepted \union {m}
  /\ UNCHANGED <<settled, acked, parked>>

(* One notification (or silencing) of f answers every message that had     *)
(* already asked about f.                                                  *)
Settle(f) ==
  /\ settled' = settled \union {<<m, f>> : m \in {n \in accepted : f \in Work[n]}}
  /\ UNCHANGED <<accepted, acked, parked>>

(* A later message about f rides on an earlier settlement of f.            *)
Ride(m, f) ==
  /\ m \in accepted
  /\ \E n \in accepted : <<n, f>> \in settled
  /\ settled' = settled \union {<<m, f>>}
  /\ UNCHANGED <<accepted, acked, parked>>

(* f is still owed by a message outside B.                                 *)
OwedOutside(f, B) == \E n \in accepted \ (acked \union B) : f \in Work[n]

Ack(B) ==
  /\ B # {} /\ B \subseteq accepted \ (acked \union parked)
  /\ \A m \in B : \A f \in Work[m] : <<m, f>> \in settled \/ OwedOutside(f, B)
  /\ acked' = acked \union B
  /\ UNCHANGED <<accepted, settled, parked>>

Park(m) ==
  /\ m \in accepted \ (acked \union parked)
  /\ parked' = parked \union {m}
  /\ UNCHANGED <<accepted, settled, acked>>

Next ==
  \/ \E m \in Messages : Accept(m) \/ Park(m)
  \/ \E f \in Fingerprints : Settle(f)
  \/ \E m \in Messages, f \in Fingerprints : Ride(m, f)
  \/ \E B \in SUBSET Messages : Ack(B)

Spec == Init /\ [][Next]_vars
=============================================================================
