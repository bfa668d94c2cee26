------------------------------- MODULE MCCheckout -------------------------------
\* Constants for TLC: amounts from -32 to 31.
EXTENDS Checkout, TLC

MCPadded == (" " :> "") @@ (" alice " :> "alice") @@ (" k " :> "k")
MCUpper == ("usd" :> "USD") @@ ("card" :> "CARD")

Item(p, q, c, cur) == [product |-> p, quantity |-> q, price |-> c, currency |-> cur]

Body(customer, method, items, key) ==
    [customer |-> customer, address |-> "home", method |-> method, items |-> items,
     key |-> key]

Lines == <<Item("pear", 3, 3, "USD"), Item("apple", 1, 2, "CURRENCY_USD")>>

MCBodies ==
    {Body("alice", "CARD", Lines, "k"),
     Body(" alice ", "card", [Lines EXCEPT ![1].currency = "usd"], " k "),  \* a retry
     Body("alice", "CASH", <<Item("pear", 1, 5, "EUR")>>, "k"),     \* another order
     Body("alice", "CARD", [Lines EXCEPT ![2].currency = "EUR"], "k"),  \* two currencies
     Body("alice", "CARD", <<Item("pear", 3, 31, "USD")>>, ""),     \* wraps to 29
     Body("alice", "CARD", <<Item("pear", 1, 31, "USD"), Item("apple", 1, 1, "USD")>>, ""),
                                                                   \* wraps to -32
     Body("alice", "CARD", <<Item("pear", 1, 0, "USD")>>, ""),
     Body("alice", "CARD", <<>>, ""),
     Body(" ", "CARD", Lines, "k"),
     Body("alice", "POUND", Lines, "k")}

\* Attempts and identifiers are interchangeable.
MCSymmetry == Permutations(Attempts) \cup Permutations(OrderIDs)

=============================================================================
