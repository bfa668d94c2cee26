---------------------------- MODULE MCServiceProcess ----------------------------
\* Constants for TLC: backlogs of up to two messages, in one topic or in two.
EXTENDS ServiceProcess, TLC

Message(i, k) == [id |-> i, kind |-> k]

MCServices == AllServices

\* One topic with a message of every kind before or after a good one, or two copies
\* of an event.
OneTopic(t) ==
    {t :> <<Message(1, k), Message(2, "good")>> : k \in Kinds}
        \cup {t :> <<Message(1, "good"), Message(2, k)>> : k \in Kinds}
        \cup {t :> <<Message(1, "good"), Message(1, "good")>>}

\* Two topics that disturb each other.
TwoTopics(t, u) ==
    {(t :> <<Message(1, "good"), Message(1, "good")>>) @@ (u :> <<Message(2, k)>>) :
        k \in Kinds}

MCBacklogs ==
    OneTopic("inventory.reserved") \cup OneTopic("orders.created")
        \cup TwoTopics("inventory.reserved", "payment.captured")
        \cup TwoTopics("orders.created", "order.cancelled")

\* The backlogs satisfy the premise of CommittedIsHandled.
ASSUME UniqueHere == EventIdsUnique

=============================================================================
