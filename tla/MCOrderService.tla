---------------------------- MODULE MCOrderService ----------------------------
(* OrderService for TLC: the callers and the orders are interchangeable. *)
EXTENDS OrderService, TLC

Symmetry == Permutations(Callers) \cup Permutations(OrderIDs) \cup Permutations(Requests)

===============================================================================
