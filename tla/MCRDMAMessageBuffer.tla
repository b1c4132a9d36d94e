------------------------ MODULE MCRDMAMessageBuffer -------------------------
(* Instances of RDMAMessageBuffer for TLC: a size_t has WordLen digits,    *)
(* least significant first, to the base Base.                              *)
EXTENDS RDMAMessageBuffer

CONSTANTS
    Base,          \* number of byte values
    ValidityWord   \* the validity constant as a size_t

MCByte == 0 .. Base - 1

MCEncode(n) == [i \in 1 .. WordLen |-> (n \div Base ^ (i - 1)) % Base]

RECURSIVE Digits(_, _)
Digits(w, i) == IF i > WordLen THEN 0 ELSE w[i] + Base * Digits(w, i + 1)

MCDecode(w) == Digits(w, 1)

MCValidity == MCEncode(ValidityWord)

(* Payloads *)
Short == {<<>>, <<1>>, <<2, 1>>}
Long == {<<>>, <<1>>, <<1, 1, 2, 1>>}

(* A payload that begins with the validity word *)
Colliding == {<<9, 1, 2>>}

(* The hypothesis of the theorems about frames, and the payload it excludes *)
ASSUME Hypothesis == CollisionFree <=> Message # Colliding

=============================================================================
