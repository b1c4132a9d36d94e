-------------------------------- MODULE Gid ---------------------------------
(***************************************************************************)
(* The gid of a port, 16 bytes, crosses the TCP connection as 32 hex       *)
(* digits.  Each group of four bytes is read as an integer, brought to     *)
(* network order, printed with eight digits, parsed and brought back.  An  *)
(* integer is the sequence of its bytes, the most significant one first.   *)
(***************************************************************************)
EXTENDS Naturals, Sequences

Group(s, size, i) == SubSeq(s, size * (i - 1) + 1, size * i)
Join(f) == f[1] \o f[2] \o f[3] \o f[4]
Reversed(s) == [i \in DOMAIN s |-> s[Len(s) + 1 - i]]

(* A little-endian host keeps the least significant byte first. *)
Load(bytes) == Reversed(bytes)
Store(int) == Reversed(int)
Swap(int) == Reversed(int)    \* htonl and ntohl

Digits(b) == <<b \div 16, b % 16>>

(* Mutant: printed with %x, without leading zeroes; the rest is what the   *)
(* buffer held.                                                            *)
FormatUnpadded(int) ==
    LET d == Join([i \in 1 .. 4 |-> Digits(int[i])])
    IN  IF d[1] = 0 THEN Tail(d) \o <<0>> ELSE d

Format(int) == Join([i \in 1 .. 4 |-> Digits(int[i])])
Parse(text) == [i \in 1 .. 4 |-> 16 * text[2 * i - 1] + text[2 * i]]

gid_to_wire_gid(gid) == Join([i \in 1 .. 4 |-> Format(Swap(Load(Group(gid, 4, i))))])
wire_gid_to_gid(wire) == Join([i \in 1 .. 4 |-> Store(Swap(Parse(Group(wire, 8, i))))])

=============================================================================
