----------------------------- MODULE MCPingPong -----------------------------
(***************************************************************************)
(* Values for the constants of PingPong.                                   *)
(***************************************************************************)
EXTENDS PingPong

(* A link-local gid; the second port's has a zero digit in front of a      *)
(* group of four bytes.                                                    *)
MCPortGid ==
    [e \in Endpoint |->
        IF e = "client" THEN [i \in 1 .. 16 |-> 255 - i]
                        ELSE [i \in 1 .. 16 |-> IF i = 5 THEN 10 ELSE 16 * i - 1]]

=============================================================================
