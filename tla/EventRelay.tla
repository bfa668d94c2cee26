------------------------------- MODULE EventRelay -------------------------------
(***************************************************************************)
(* What the transactional outbox promises to the rest of the system, with  *)
(* no dispatcher, lock or crash in sight: a stored event is delivered at   *)
(* least once, and it is confirmed only after it was delivered.  Events of *)
(* Rejected are those the broker never accepts.                            *)
(***************************************************************************)

CONSTANTS Events, Rejected

VARIABLES stored,      \* events committed together with their order
          delivered,   \* events the broker has acknowledged or holds
          confirmed    \* events the sender will not send again

relayVars == <<stored, delivered, confirmed>>

Init == stored = {} /\ delivered = {} /\ confirmed = {}

Store(e) ==
    /\ stored' = stored \cup {e}
    /\ UNCHANGED <<delivered, confirmed>>

Deliver(e) ==
    /\ e \in stored
    /\ delivered' = delivered \cup {e}
    /\ UNCHANGED <<stored, confirmed>>

Confirm(e) ==
    /\ e \in delivered
    /\ confirmed' = confirmed \cup {e}
    /\ UNCHANGED <<stored, delivered>>

Next == \E e \in Events : Store(e) \/ Deliver(e) \/ Confirm(e)

SafeRelay == Init /\ [][Next]_relayVars

\* Every stored event the broker accepts is delivered, then confirmed.
Relay ==
    /\ SafeRelay
    /\ \A e \in Events \ Rejected :
          WF_relayVars(Deliver(e)) /\ WF_relayVars(Confirm(e))

=============================================================================
