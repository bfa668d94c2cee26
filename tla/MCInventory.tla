------------------------------ MODULE MCInventory ------------------------------
(* Inventory for TLC: two orders that cannot both be served. *)
EXTENDS Inventory, TLC

CONSTANTS p1, p2, a, b

MCProducts == {p1, p2}
MCOrders == {a, b}

L(p, q) == [product |-> p, quantity |-> q]

\* Order b has reserved p2 when it finds that a took all of p1.  There is enough of
\* both for b to be reserved twice.
MCItems == (a :> <<L(p1, 2)>>) @@ (b :> <<L(p2, 1), L(p1, 1)>>)

MCTotal == (p1 :> 2) @@ (p2 :> 2)

\* The CONSTRAINT of the runs: a row is followed up to twice what b asks for.  Releases
\* that keep failing let handlers reserve again for ever, and rows grow without bound.
MaxRow == 2
RowsBounded == \A o \in Orders, p \in Products : reservation[o][p] <= MaxRow

===============================================================================
