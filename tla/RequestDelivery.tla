-------------------------- MODULE RequestDelivery ---------------------------
(***************************************************************************)
(* What the Worker and the desktop promise together about a request, with  *)
(* neither pages, epochs nor processes: the Worker owes a request from the *)
(* moment it accepts it until the desktop has it durably, and the desktop  *)
(* settles only what it has and what the Worker will not send again.       *)
(* CloudIngress implements it.                                             *)
(***************************************************************************)
CONSTANTS Requests, CanRewind  \* whether an operator may restore D1

VARIABLES accepted,  \* every request the Worker took
          owed,      \* those it still has to deliver
          received,  \* those the desktop made durable
          settled    \* those that ran to an end
vars == <<accepted, owed, received, settled>>

Init == accepted = {} /\ owed = {} /\ received = {} /\ settled = {}

Accept(m) ==
  /\ m \notin accepted
  /\ accepted' = accepted \cup {m} /\ owed' = owed \cup {m}
  /\ UNCHANGED <<received, settled>>

Receive(m) ==
  /\ m \in accepted /\ (CanRewind \/ m \in owed)
  /\ received' = received \cup {m}
  /\ UNCHANGED <<accepted, owed, settled>>

\* An acknowledgement covers received requests only.
Release(S) ==
  /\ S \subseteq received
  /\ owed' = owed \ S
  /\ UNCHANGED <<accepted, received, settled>>

Settle(m) ==
  /\ m \in received \ settled /\ (CanRewind \/ m \notin owed)
  /\ settled' = settled \cup {m}
  /\ UNCHANGED <<accepted, owed, received>>

\* A restore brings back what was released, or drops what is owed.
Rewind ==
  /\ CanRewind
  /\ owed' \subseteq accepted
  /\ UNCHANGED <<accepted, received, settled>>

Next == \/ \E m \in Requests : Accept(m) \/ Receive(m) \/ Settle(m)
        \/ \E S \in SUBSET owed : Release(S)
        \/ Rewind
Spec == Init /\ [][Next]_vars
=============================================================================
