---------------------------- MODULE MCGatewayCancel ----------------------------
(* GatewayCancel for TLC: a request, two retries of it, one with the same key  *)
(* and another reason, and one without a key.                                  *)
EXTENDS GatewayCancel

CONSTANTS r1, r2, r3, other, bare, k

MCRequests == {r1, r2, r3, other, bare}

MCKeyOf == [r \in MCRequests |-> IF r = bare THEN NoHeader ELSE k]

MCPrintOf == [r \in MCRequests |-> IF r = other THEN "other" ELSE "cancel"]

================================================================================
