--------------------------------- MODULE MCSaga ---------------------------------
\* Constants for TLC: one order of two lines, and stock for one and a half such orders:
\* when a replay reserves again, its second line fails and its first is rolled back.
EXTENDS Saga, TLC

CONSTANTS o1, p1, c1, c2

MCItems == o1 :> <<[product |-> p1, quantity |-> 1], [product |-> p1, quantity |-> 1]>>
MCTotal == p1 :> 3

(* The CONSTRAINTs of the run *)

\* It hides no violation: lost stays true once it is, and every property holds of each
\* behaviour in which it becomes true.
NothingLost == ~lost

\* A copy that meets the mark of its event is only committed, which changes nothing;
\* MCInventory follows these too.
CopiesMatter ==
    \A o \in Orders :
        /\ cpc[o] = "fetch" => <<"created", o>> \notin iprocessed
        /\ xpc[o] = "fetch" => <<"cancelled", o>> \notin iprocessed

\* One client captures while the other fails or cancels the same payment.
ClientsDisagree ==
    /\ pcall[c1] # P!Idle => pcall[c1].to = "CAPTURED"
    /\ pcall[c2] # P!Idle => pcall[c2].to # "CAPTURED"

\* Either their calls overlap, or something fails.
OneTrouble == pcall[c1] # P!Idle /\ pcall[c2] # P!Idle => faults = 0

\* The ACTION_CONSTRAINT: fetching, marking and committing commute with the steps of
\* everyone else, so these steps are taken first.  A fault may still come before them.
LocalFirst ==
    \A o \in Orders :
        \/ faults' # faults
        \/ CASE kpc[o] \in {"fetch", "mark", "commit"} -> kpc'[o] # kpc[o]
             [] xpc[o] \in {"fetch", "mark", "commit"} -> xpc'[o] # xpc[o]
             [] cpc[o] \in {"fetch", "commit"} -> cpc'[o] # cpc[o]
             [] OTHER -> TRUE

=============================================================================
