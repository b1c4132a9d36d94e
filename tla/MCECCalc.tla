------------------------------ MODULE MCECCalc -------------------------------
(***************************************************************************)
(* Instances of ECCalc for TLC: every calculation is on the list, as in a  *)
(* build without optimisation; one data block and one parity block.       *)
(***************************************************************************)
EXTENDS ECCalc, TLC

CONSTANTS t1, t2

Threads == {t1, t2}

(* One thread encodes, or misses too many blocks; the other misses the     *)
(* data block.                                                             *)
SomeRequests == (t1 :> {Encode, <<1, 1>>}) @@ (t2 :> {<<1, 0>>})
OnlyEncode == [t \in Threads |-> {Encode}]

=============================================================================
