----------------------------- MODULE MCECBuffer ------------------------------
(* Instances of ECBuffer for TLC, with a Vandermonde code over the         *)
(* integers modulo the prime Base.                                         *)
EXTENDS ECBuffer

CONSTANT Base

MCByte == 0 .. Base - 1

RECURSIVE Weighted(_, _, _)
Weighted(column, i, d) ==
    IF d = K THEN 0 ELSE (d + 1) ^ i * column[d] + Weighted(column, i, d + 1)

MCParity(i, column) == Weighted(column, i, 0) % Base

MCRecover(known) ==
    CHOOSE column \in [0 .. K - 1 -> MCByte] :
        \A b \in DOMAIN known :
            known[b] = IF b < K THEN column[b] ELSE MCParity(b - K, column)

(* Payloads that fill one block, and two *)
Payloads == {<<1>>, <<1, 2, 1>>}
OnePayload == {<<1>>}
NoQueuePairs == {}
SomeQueuePairs == {1}           \* carries a block of every message

=============================================================================
