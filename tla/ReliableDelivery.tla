--------------------------- MODULE ReliableDelivery ---------------------------
(***************************************************************************)
(* What the durable outbox promises the IM conversations: a message that   *)
(* has entered it is owed to one route, under one place in the order of    *)
(* that route, until the sink of the route accepts it; messages of a route *)
(* are handed over in order; nothing is handed over that is not owed.      *)
(* Delivery is at least once: an entry may outlive its acceptance.         *)
(***************************************************************************)
EXTENDS Integers

CONSTANT Entry      \* records with at least a route and a seq

VARIABLES owed,     \* entries on disk
          accepted  \* entries some sink has accepted

Init == owed = {} /\ accepted = {}

(* The disk changes: only what was accepted may leave. *)
Commit ==
  /\ owed' \in SUBSET Entry
  /\ owed \ owed' \subseteq accepted
  /\ UNCHANGED accepted

(* The sink of e.route takes e, after everything owed earlier to it. *)
Deliver(e) ==
  /\ e \in owed
  /\ \A d \in owed : d.route = e.route /\ d.seq < e.seq => d \in accepted
  /\ accepted' = accepted \cup {e}
  /\ UNCHANGED owed

Next == Commit \/ \E e \in owed : Deliver(e)

Spec == Init /\ [][Next]_<<owed, accepted>>
=============================================================================
