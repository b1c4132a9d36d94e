--------------------------- MODULE BootstrapProofs --------------------------
(***************************************************************************)
(* Proofs about how two endpoints find each other and part: a gid comes    *)
(* back from its text, queue pair i is connected to queue pair i, whoever  *)
(* holds the peer's descriptor may send, and destructors free things in an *)
(* order in which nothing loses what it uses.                              *)
(*                                                                         *)
(* The plans of the two classes are worked out first (PlanShape): where    *)
(* they have the calls for each queue pair, the registrations and the      *)
(* exchange of the descriptors.  From the step an endpoint is at follow    *)
(* how many words it has written and read (Written, Read) and what state   *)
(* its queue pairs are in (StateAfter).  The invariant BootInv says that a *)
(* stream holds the words between what one side has written and what the   *)
(* other has read, and every record what the plan says it must.            *)
(*                                                                         *)
(* The second half works out which step of a plan acquires and which step  *)
(* takes over what (AcquiresAt, FreesAt), and that a resource only uses    *)
(* what an earlier part of the plan made (Rank).  The invariant HoldInv    *)
(* says that the calls destructors would make free exactly what has an     *)
(* owner, each before what it uses.  WordInv says which words can be where *)
(* when endpoints read out of step.                                        *)
(***************************************************************************)
EXTENDS PingPong, Integers, FiniteSetTheorems, SequenceTheorems, TLAPS

-----------------------------------------------------------------------------
(* Sequences *)

IsConcat(u, a, b) ==
    /\ Len(a) \in Nat /\ Len(b) \in Nat /\ Len(u) = Len(a) + Len(b)
    /\ \A j \in 1 .. Len(a) : u[j] = a[j]
    /\ \A j \in 1 .. Len(b) : u[Len(a) + j] = b[j]

LEMMA Concatenation ==
  ASSUME NEW S, NEW a, NEW b, a \in Seq(S), b \in Seq(S)
  PROVE  a \o b \in Seq(S) /\ IsConcat(a \o b, a, b)
<1>1. /\ a \o b \in Seq(S) /\ Len(a \o b) = Len(a) + Len(b)
      /\ \A j \in 1 .. Len(a) + Len(b) : (a \o b)[j] = IF j <= Len(a) THEN a[j] ELSE b[j - Len(a)]
  BY ConcatProperties
<1>2. Len(a) \in Nat /\ Len(b) \in Nat
  BY LenProperties
<1>3. ASSUME NEW j \in 1 .. Len(b) PROVE (a \o b)[Len(a) + j] = b[j]
  <2>1. Len(a) + j \in 1 .. Len(a) + Len(b) /\ ~(Len(a) + j <= Len(a)) /\ (Len(a) + j) - Len(a) = j
    BY <1>2
  <2> QED BY <1>1, <2>1
<1>4. \A j \in 1 .. Len(a) : (a \o b)[j] = a[j]
  BY <1>1, <1>2
<1> QED BY <1>1, <1>2, <1>3, <1>4 DEF IsConcat

-----------------------------------------------------------------------------
(* The gid of a port *)

Byte == 0 .. 255
Digit == 0 .. 15

(* f has four parts of length n, and u joins them. *)
Parts(f, n, S) == /\ n \in Nat /\ f[1] \in Seq(S) /\ f[2] \in Seq(S) /\ f[3] \in Seq(S) /\ f[4] \in Seq(S)
                  /\ Len(f[1]) = n /\ Len(f[2]) = n /\ Len(f[3]) = n /\ Len(f[4]) = n
Joins(u, f, n, S) ==
    /\ u \in Seq(S) /\ Len(u) = n + n + n + n
    /\ \A j \in 1 .. n : u[j] = f[1][j]
    /\ \A j \in 1 .. n : u[n + j] = f[2][j]
    /\ \A j \in 1 .. n : u[(n + n) + j] = f[3][j]
    /\ \A j \in 1 .. n : u[(n + n + n) + j] = f[4][j]

LEMMA JoinProperties ==
  ASSUME NEW S, NEW f, NEW n, Parts(f, n, S)
  PROVE  Joins(Join(f), f, n, S)
<1> DEFINE a == f[1]
           b == f[2]
           c == f[3]
           d == f[4]
           s == a \o b
           t == s \o c
           u == t \o d
<1>1. /\ a \in Seq(S) /\ b \in Seq(S) /\ c \in Seq(S) /\ d \in Seq(S) /\ n \in Nat
      /\ Len(a) = n /\ Len(b) = n /\ Len(c) = n /\ Len(d) = n
  BY DEF Parts
<1>2. Join(f) = u
  BY DEF Join
<1> SUFFICES /\ u \in Seq(S) /\ Len(u) = n + n + n + n
             /\ \A j \in 1 .. n : u[j] = a[j]
             /\ \A j \in 1 .. n : u[n + j] = b[j]
             /\ \A j \in 1 .. n : u[(n + n) + j] = c[j]
             /\ \A j \in 1 .. n : u[(n + n + n) + j] = d[j]
  BY <1>2, Zenon DEF Joins
<1> HIDE DEF a, b, c, d
<1>3. s \in Seq(S) /\ IsConcat(s, a, b)
  BY <1>1, Concatenation, Zenon
<1>4. t \in Seq(S) /\ IsConcat(t, s, c)
  BY <1>1, <1>3, Concatenation, Zenon
<1>5. u \in Seq(S) /\ IsConcat(u, t, d)
  BY <1>1, <1>4, Concatenation, Zenon
<1> HIDE DEF s, t, u
<1>6. Len(s) = n + n /\ \A j \in 1 .. n : s[j] = a[j] /\ s[n + j] = b[j]
  BY <1>1, <1>3 DEF IsConcat
<1>7. Len(t) = n + n + n /\ (\A j \in 1 .. n + n : t[j] = s[j]) /\ \A j \in 1 .. n : t[(n + n) + j] = c[j]
  BY <1>1, <1>4, <1>6 DEF IsConcat
<1>8. /\ Len(u) = n + n + n + n /\ \A j \in 1 .. n + n + n : u[j] = t[j]
      /\ \A j \in 1 .. n : u[(n + n + n) + j] = d[j]
  BY <1>1, <1>5, <1>7 DEF IsConcat
<1>9. ASSUME NEW j \in 1 .. n PROVE u[j] = a[j] /\ u[n + j] = b[j] /\ u[(n + n) + j] = c[j]
  <2>1. j \in 1 .. n + n /\ n + j \in 1 .. n + n
    BY <1>1
  <2>2. j \in 1 .. n + n + n /\ n + j \in 1 .. n + n + n /\ (n + n) + j \in 1 .. n + n + n
    BY <1>1
  <2>3. /\ u[j] = t[j] /\ u[n + j] = t[n + j] /\ u[(n + n) + j] = t[(n + n) + j]
    BY <1>8, <2>2
  <2> QED BY <1>6, <1>7, <2>1, <2>3
<1> QED BY <1>5, <1>8, <1>9

LEMMA Halves ==
  \A b \in Byte : /\ b \div 16 \in Digit /\ b % 16 \in Digit /\ 16 * (b \div 16) + (b % 16) = b
BY DEF Byte, Digit

LEMMA ReversedTwice ==
  ASSUME NEW S, NEW s \in Seq(S)
  PROVE  Reversed(Reversed(s)) = s
<1>1. Len(s) \in Nat /\ s \in [1 .. Len(s) -> S] /\ DOMAIN s = 1 .. Len(s)
  BY LenProperties
<1>2. DOMAIN Reversed(s) = 1 .. Len(s) /\ \A i \in 1 .. Len(s) : Reversed(s)[i] = s[Len(s) + 1 - i]
  BY <1>1 DEF Reversed
<1>3. Reversed(s) \in [1 .. Len(s) -> S]
  BY <1>1, <1>2 DEF Reversed
<1>4. Reversed(s) \in Seq(S)
  BY <1>1, <1>3, SeqDef
<1>5. Len(Reversed(s)) = Len(s)
  <2>1. DOMAIN Reversed(s) = 1 .. Len(Reversed(s)) /\ Len(Reversed(s)) \in Nat
    BY <1>4, LenProperties
  <2> QED BY <1>1, <1>2, <2>1
<1>6. \A i \in 1 .. Len(s) : Reversed(Reversed(s))[i] = s[i]
  BY <1>1, <1>2, <1>5 DEF Reversed
<1>7. DOMAIN Reversed(Reversed(s)) = 1 .. Len(s)
  BY <1>2 DEF Reversed
<1> QED BY <1>1, <1>6, <1>7 DEF Reversed

LEMMA Pair ==
  ASSUME NEW x \in Digit, NEW y \in Digit
  PROVE  <<x, y>> \in Seq(Digit) /\ Len(<<x, y>>) = 2 /\ <<x, y>>[1] = x /\ <<x, y>>[2] = y
OBVIOUS

LEMMA FormatParsed ==
  ASSUME NEW int \in Seq(Byte), Len(int) = 4
  PROVE  Format(int) \in Seq(Digit) /\ Len(Format(int)) = 8 /\ Parse(Format(int)) = int
<1> DEFINE d == [i \in 1 .. 4 |-> Digits(int[i])]
<1>1. int \in [1 .. 4 -> Byte]
  BY LenProperties
<1>2. ASSUME NEW i \in 1 .. 4
      PROVE  /\ d[i] \in Seq(Digit) /\ Len(d[i]) = 2
             /\ d[i][1] = int[i] \div 16 /\ d[i][2] = int[i] % 16
  <2>1. int[i] \in Byte
    BY <1>1
  <2>2. int[i] \div 16 \in Digit /\ int[i] % 16 \in Digit
    BY <2>1, Halves
  <2>3. d[i] = <<int[i] \div 16, int[i] % 16>>
    BY DEF Digits
  <2> DEFINE x == int[i] \div 16
             y == int[i] % 16
  <2> HIDE DEF d, x, y
  <2>4. x \in Digit /\ y \in Digit /\ d[i] = <<x, y>>
    BY <2>2, <2>3 DEF x, y
  <2>5. d[i] \in Seq(Digit) /\ Len(d[i]) = 2 /\ d[i][1] = x /\ d[i][2] = y
    BY <2>4, Pair
  <2> QED BY <2>5 DEF x, y
<1>3. Format(int) = Join(d)
  BY DEF Format
<1> HIDE DEF d
<1> DEFINE n == 2
<1>4. Parts(d, n, Digit)
  BY <1>2 DEF Parts
<1> HIDE DEF n
<1>5. /\ Join(d) \in Seq(Digit) /\ Len(Join(d)) = n + n + n + n
      /\ \A j \in 1 .. n : Join(d)[j] = d[1][j]
      /\ \A j \in 1 .. n : Join(d)[n + j] = d[2][j]
      /\ \A j \in 1 .. n : Join(d)[(n + n) + j] = d[3][j]
      /\ \A j \in 1 .. n : Join(d)[(n + n + n) + j] = d[4][j]
  <2>1. Joins(Join(d), d, n, Digit)
    BY <1>4, JoinProperties, Zenon
  <2> QED BY <2>1 DEF Joins
<1>6. /\ Join(d)[1] = d[1][1] /\ Join(d)[2] = d[1][2] /\ Join(d)[3] = d[2][1] /\ Join(d)[4] = d[2][2]
      /\ Join(d)[5] = d[3][1] /\ Join(d)[6] = d[3][2] /\ Join(d)[7] = d[4][1] /\ Join(d)[8] = d[4][2]
  BY <1>5 DEF n
<1>7. \A i \in 1 .. 4 : 16 * (int[i] \div 16) + (int[i] % 16) = int[i]
  BY <1>1, Halves
<1>8. \A i \in 1 .. 4 : 16 * Join(d)[2 * i - 1] + Join(d)[2 * i] = int[i]
  <2>2. /\ 16 * Join(d)[1] + Join(d)[2] = int[1] /\ 16 * Join(d)[3] + Join(d)[4] = int[2]
        /\ 16 * Join(d)[5] + Join(d)[6] = int[3] /\ 16 * Join(d)[7] + Join(d)[8] = int[4]
    BY <1>2, <1>6, <1>7
  <2> QED BY <2>2
<1>9. Parse(Format(int)) = int
  BY <1>1, <1>3, <1>8 DEF Parse
<1> QED BY <1>3, <1>5, <1>9 DEF n

LEMMA GroupProperties ==
  ASSUME NEW S, NEW s \in Seq(S), NEW n \in {4, 8}, Len(s) = 4 * n, NEW i \in 1 .. 4
  PROVE  /\ Group(s, n, i) \in Seq(S) /\ Len(Group(s, n, i)) = n
         /\ \A j \in 1 .. n : Group(s, n, i)[j] = s[n * (i - 1) + j]
<1> DEFINE a == n * (i - 1) + 1
           b == n * i
<1>1. a \in Int /\ b \in Int /\ a >= 1 /\ b = a + n - 1 /\ b <= 4 * n /\ n * (i - 1) \in Int
  OBVIOUS
<1>2. \A j \in a .. b : s[j] \in S
  <2>1. \A j \in a .. b : j \in 1 .. Len(s)
    BY <1>1
  <2> QED BY <2>1, ElementOfSeq
<1>3. Group(s, n, i) = SubSeq(s, a, b)
  BY DEF Group
<1> HIDE DEF a, b
<1>0. a \in Int /\ b \in Int
  BY <1>1
<1>4. /\ SubSeq(s, a, b) \in Seq(S) /\ Len(SubSeq(s, a, b)) = IF a <= b THEN b - a + 1 ELSE 0
      /\ \A j \in 1 .. b - a + 1 : SubSeq(s, a, b)[j] = s[a + j - 1]
  BY <1>0, <1>2, SubSeqProperties
<1>5. \A j \in 1 .. n : a + j - 1 = n * (i - 1) + j /\ j \in 1 .. b - a + 1
  BY <1>1 DEF a
<1>6. a <= b /\ b - a + 1 = n
  BY <1>1
<1>7. Len(SubSeq(s, a, b)) = n
  BY <1>4, <1>6, Zenon
<1>8. \A j \in 1 .. n : SubSeq(s, a, b)[j] = s[n * (i - 1) + j]
  BY <1>4, <1>5, Zenon
<1> QED BY <1>3, <1>4, <1>7, <1>8, Zenon

(* Four bytes come back from their eight digits. *)
LEMMA GroupSurvives ==
  ASSUME NEW g \in Seq(Byte), Len(g) = 4
  PROVE  /\ Format(Swap(Load(g))) \in Seq(Digit) /\ Len(Format(Swap(Load(g)))) = 8
         /\ Store(Swap(Parse(Format(Swap(Load(g)))))) = g
<1>1. Swap(Load(g)) = g
  BY ReversedTwice DEF Swap, Load
<1>2. Format(g) \in Seq(Digit) /\ Len(Format(g)) = 8 /\ Parse(Format(g)) = g
  BY FormatParsed
<1>3. Store(Swap(g)) = g
  BY ReversedTwice DEF Store, Swap
<1> QED BY <1>1, <1>2, <1>3

(* Whatever its bytes are, a gid comes back from its text as it was. *)
THEOREM GidSurvives == \A gid \in [1 .. 16 -> Byte] : wire_gid_to_gid(gid_to_wire_gid(gid)) = gid
<1> SUFFICES ASSUME NEW gid \in [1 .. 16 -> Byte] PROVE wire_gid_to_gid(gid_to_wire_gid(gid)) = gid
  OBVIOUS
<1>1. gid \in Seq(Byte) /\ Len(gid) = 16
  <2>1. gid \in Seq(Byte)
    BY SeqDef
  <2>2. DOMAIN gid = 1 .. Len(gid) /\ Len(gid) \in Nat
    BY <2>1, LenProperties
  <2> QED BY <2>1, <2>2
<1> DEFINE g(i) == Group(gid, 4, i)
           f == [i \in 1 .. 4 |-> Format(Swap(Load(g(i))))]
           w == gid_to_wire_gid(gid)
           p == [i \in 1 .. 4 |-> Store(Swap(Parse(Group(w, 8, i))))]
           n == 8
           m == 4
<1>2. ASSUME NEW i \in 1 .. 4
      PROVE  g(i) \in Seq(Byte) /\ Len(g(i)) = 4 /\ \A j \in 1 .. 4 : g(i)[j] = gid[4 * (i - 1) + j]
  <2>1. Len(gid) = 4 * 4 /\ 4 \in {4, 8}
    BY <1>1
  <2> QED BY <1>1, <2>1, GroupProperties
<1>3. w = Join(f)
  BY DEF gid_to_wire_gid
<1>4. wire_gid_to_gid(w) = Join(p)
  BY DEF wire_gid_to_gid
<1> HIDE DEF g, w, n, m
<1>5. ASSUME NEW i \in 1 .. 4 PROVE f[i] \in Seq(Digit) /\ Len(f[i]) = 8 /\ Store(Swap(Parse(f[i]))) = g(i)
  BY <1>2, GroupSurvives
<1> HIDE DEF f
<1>6. Parts(f, n, Digit)
  BY <1>5 DEF n, Parts
<1>7. /\ Join(f) \in Seq(Digit) /\ Len(Join(f)) = n + n + n + n
      /\ \A j \in 1 .. n : Join(f)[j] = f[1][j]
      /\ \A j \in 1 .. n : Join(f)[n + j] = f[2][j]
      /\ \A j \in 1 .. n : Join(f)[(n + n) + j] = f[3][j]
      /\ \A j \in 1 .. n : Join(f)[(n + n + n) + j] = f[4][j]
  <2>1. Joins(Join(f), f, n, Digit)
    BY <1>6, JoinProperties, Zenon
  <2> QED BY <2>1 DEF Joins
<1>8. w \in Seq(Digit) /\ Len(w) = 32
  BY <1>3, <1>7 DEF n
<1>9. /\ \A j \in 1 .. 8 : w[j] = f[1][j]
      /\ \A j \in 1 .. 8 : w[8 + j] = f[2][j]
      /\ \A j \in 1 .. 8 : w[16 + j] = f[3][j]
      /\ \A j \in 1 .. 8 : w[24 + j] = f[4][j]
  BY <1>3, <1>7 DEF n
<1>10. ASSUME NEW i \in 1 .. 4 PROVE Group(w, 8, i) = f[i]
  <2>1. n \in {4, 8} /\ Len(w) = 4 * n /\ w \in Seq(Digit)
    BY <1>8 DEF n
  <2>8. /\ Group(w, n, i) \in Seq(Digit) /\ Len(Group(w, n, i)) = n
        /\ \A j \in 1 .. n : Group(w, n, i)[j] = w[n * (i - 1) + j]
    BY <2>1, GroupProperties, Zenon
  <2>2. /\ Group(w, 8, i) \in Seq(Digit) /\ Len(Group(w, 8, i)) = 8
        /\ \A j \in 1 .. 8 : Group(w, 8, i)[j] = w[8 * (i - 1) + j]
    BY <2>8, Zenon DEF n
  <2>3. \A j \in 1 .. 8 : w[8 * (i - 1) + j] = f[i][j]
    BY <1>9
  <2>4. f[i] \in Seq(Digit) /\ Len(f[i]) = 8
    BY <1>5
  <2>5. \A j \in 1 .. 8 : Group(w, 8, i)[j] = f[i][j]
    BY <2>2, <2>3
  <2> DEFINE x == Group(w, 8, i)
             y == f[i]
  <2>6. x \in Seq(Digit) /\ y \in Seq(Digit) /\ Len(x) = Len(y) /\ \A j \in 1 .. Len(x) : x[j] = y[j]
    BY <2>2, <2>4, <2>5
  <2> HIDE DEF x, y
  <2>7. x = y
    BY <2>6, SeqEqual
  <2> QED BY <2>7 DEF x, y
<1>11. \A i \in 1 .. 4 : p[i] = g(i)
  <2> SUFFICES ASSUME NEW i \in 1 .. 4 PROVE p[i] = g(i)
    OBVIOUS
  <2>1. p[i] = Store(Swap(Parse(f[i])))
    BY <1>10
  <2> QED BY <1>5, <2>1
<1> HIDE DEF p
<1>12. Parts(p, m, Byte)
  BY <1>2, <1>11 DEF m, Parts
<1>13. /\ Join(p) \in Seq(Byte) /\ Len(Join(p)) = m + m + m + m
       /\ \A j \in 1 .. m : Join(p)[j] = p[1][j]
       /\ \A j \in 1 .. m : Join(p)[m + j] = p[2][j]
       /\ \A j \in 1 .. m : Join(p)[(m + m) + j] = p[3][j]
       /\ \A j \in 1 .. m : Join(p)[(m + m + m) + j] = p[4][j]
  <2>1. Joins(Join(p), p, m, Byte)
    BY <1>12, JoinProperties, Zenon
  <2> QED BY <2>1 DEF Joins
<1>14. /\ \A j \in 1 .. 4 : Join(p)[j] = p[1][j]
       /\ \A j \in 1 .. 4 : Join(p)[4 + j] = p[2][j]
       /\ \A j \in 1 .. 4 : Join(p)[8 + j] = p[3][j]
       /\ \A j \in 1 .. 4 : Join(p)[12 + j] = p[4][j]
  BY <1>13 DEF m
<1>15. ASSUME NEW i \in 1 .. 4, NEW j \in 1 .. 4 PROVE p[i][j] = gid[4 * (i - 1) + j]
  BY <1>2, <1>11
<1>16. ASSUME NEW k \in 1 .. 16 PROVE Join(p)[k] = gid[k]
  <2>1. CASE k \in 1 .. 4
    <3>1. p[1][k] = gid[4 * (1 - 1) + k] /\ 4 * (1 - 1) + k = k
      BY <1>15, <2>1
    <3> QED BY <1>14, <2>1, <3>1
  <2>2. CASE k - 4 \in 1 .. 4
    <3>1. p[2][k - 4] = gid[4 * (2 - 1) + (k - 4)] /\ 4 * (2 - 1) + (k - 4) = k /\ 4 + (k - 4) = k
      BY <1>15, <2>2
    <3>2. Join(p)[4 + (k - 4)] = p[2][k - 4]
      BY <1>14, <2>2
    <3> QED BY <3>1, <3>2
  <2>3. CASE k - 8 \in 1 .. 4
    <3>1. p[3][k - 8] = gid[4 * (3 - 1) + (k - 8)] /\ 4 * (3 - 1) + (k - 8) = k /\ 8 + (k - 8) = k
      BY <1>15, <2>3
    <3>2. Join(p)[8 + (k - 8)] = p[3][k - 8]
      BY <1>14, <2>3
    <3> QED BY <3>1, <3>2
  <2>4. CASE k - 12 \in 1 .. 4
    <3>1. p[4][k - 12] = gid[4 * (4 - 1) + (k - 12)] /\ 4 * (4 - 1) + (k - 12) = k /\ 12 + (k - 12) = k
      BY <1>15, <2>4
    <3>2. Join(p)[12 + (k - 12)] = p[4][k - 12]
      BY <1>14, <2>4
    <3> QED BY <3>1, <3>2
  <2> QED BY <2>1, <2>2, <2>3, <2>4
<1> DEFINE v == Join(p)
<1>17. v \in Seq(Byte) /\ Len(v) = Len(gid) /\ \A k \in 1 .. Len(v) : v[k] = gid[k]
  BY <1>1, <1>13, <1>16 DEF m
<1> HIDE DEF v
<1>18. v = gid
  BY <1>1, <1>17, SeqEqual
<1> QED BY <1>4, <1>18 DEF v, w

-----------------------------------------------------------------------------
(* The plans of the constructors *)

(* A sequence of whatever elements *)
Listed(s) == \E S : s \in Seq(S)

LEMMA ListedFacts ==
  /\ \A x : Listed(<<x>>) /\ Len(<<x>>) = 1 /\ <<x>>[1] = x
  /\ \A x, y : Listed(<<x, y>>) /\ Len(<<x, y>>) = 2 /\ <<x, y>>[1] = x /\ <<x, y>>[2] = y
  /\ \A x, y, z : /\ Listed(<<x, y, z>>) /\ Len(<<x, y, z>>) = 3
                  /\ <<x, y, z>>[1] = x /\ <<x, y, z>>[2] = y /\ <<x, y, z>>[3] = z
  /\ Listed(<<>>) /\ Len(<<>>) = 0
<1>1. ASSUME NEW x PROVE Listed(<<x>>) /\ Len(<<x>>) = 1 /\ <<x>>[1] = x
  <2>1. <<x>> \in Seq({x})
    OBVIOUS
  <2> QED BY <2>1 DEF Listed
<1>2. ASSUME NEW x, NEW y PROVE Listed(<<x, y>>) /\ Len(<<x, y>>) = 2 /\ <<x, y>>[1] = x /\ <<x, y>>[2] = y
  <2>1. <<x, y>> \in Seq({x, y})
    OBVIOUS
  <2> QED BY <2>1 DEF Listed
<1>3. ASSUME NEW x, NEW y, NEW z
      PROVE  /\ Listed(<<x, y, z>>) /\ Len(<<x, y, z>>) = 3
             /\ <<x, y, z>>[1] = x /\ <<x, y, z>>[2] = y /\ <<x, y, z>>[3] = z
  <2>1. <<x, y, z>> \in Seq({x, y, z})
    OBVIOUS
  <2> QED BY <2>1 DEF Listed
<1>4. Listed(<<>>) /\ Len(<<>>) = 0
  <2>1. <<>> \in Seq({})
    OBVIOUS
  <2> QED BY <2>1 DEF Listed
<1> QED BY <1>1, <1>2, <1>3, <1>4

LEMMA ListedConcat ==
  ASSUME NEW a, NEW b, Listed(a), Listed(b)
  PROVE  Listed(a \o b) /\ IsConcat(a \o b, a, b)
<1>1. PICK A : a \in Seq(A)
  BY DEF Listed
<1>2. PICK B : b \in Seq(B)
  BY DEF Listed
<1>3. a \in Seq(A \union B) /\ b \in Seq(A \union B)
  BY <1>1, <1>2, SeqMonotonic
<1> QED BY <1>3, Concatenation DEF Listed

(* A step of none of the calls that exchange something, change a queue     *)
(* pair or begin the last part                                             *)
LoudCall == {"query", "write", "read", "INIT", "RTR", "RTS", "sendRmr", "receiveRmr", "query device"}
QuietStep(step) == step.call \notin LoudCall /\ \A i : step.res # QueuePair(i)
Quiet(s) == Listed(s) /\ Len(s) \in Nat /\ \A j \in 1 .. Len(s) : QuietStep(s[j])

LEMMA QuietConcat ==
  ASSUME NEW a, NEW b, Quiet(a), Quiet(b)
  PROVE  Quiet(a \o b) /\ Len(a \o b) = Len(a) + Len(b) /\ IsConcat(a \o b, a, b)
<1> DEFINE u == a \o b
<1>1. Listed(u) /\ IsConcat(u, a, b)
  BY ListedConcat DEF Quiet
<1> HIDE DEF u
<1>2. ASSUME NEW j \in 1 .. Len(u) PROVE QuietStep(u[j])
  <2>1. CASE j \in 1 .. Len(a)
    BY <1>1, <2>1 DEF IsConcat, Quiet
  <2>2. CASE j \notin 1 .. Len(a)
    <3>1. j - Len(a) \in 1 .. Len(b) /\ Len(a) + (j - Len(a)) = j
      BY <1>1, <2>2 DEF IsConcat
    <3>2. u[Len(a) + (j - Len(a))] = b[j - Len(a)]
      BY <1>1, <3>1 DEF IsConcat
    <3> QED BY <3>1, <3>2 DEF Quiet
  <2> QED BY <2>1, <2>2
<1>3. Len(u) \in Nat
  BY <1>1 DEF IsConcat
<1> QED BY <1>1, <1>2, <1>3 DEF Quiet, u, IsConcat

(* A quiet sequence of n steps *)
QuietSteps(s, n) == Quiet(s) /\ n \in Nat /\ Len(s) = n

LEMMA QuietSum ==
  ASSUME NEW a, NEW b, NEW m, NEW n, QuietSteps(a, m), QuietSteps(b, n)
  PROVE  QuietSteps(a \o b, m + n) /\ IsConcat(a \o b, a, b)
BY QuietConcat DEF QuietSteps

LEMMA QuietNone == QuietSteps(<<>>, 0)
BY ListedFacts DEF QuietSteps, Quiet

LEMMA QuietOne == ASSUME NEW x, QuietStep(x) PROVE QuietSteps(<<x>>, 1)
BY ListedFacts DEF QuietSteps, Quiet

LEMMA QuietTwo == ASSUME NEW x, NEW y, QuietStep(x), QuietStep(y) PROVE QuietSteps(<<x, y>>, 2)
BY ListedFacts DEF QuietSteps, Quiet

LEMMA QuietThree ==
  ASSUME NEW x, NEW y, NEW z, QuietStep(x), QuietStep(y), QuietStep(z)
  PROVE  QuietSteps(<<x, y, z>>, 3)
BY ListedFacts DEF QuietSteps, Quiet

(* The calls of a constructor apart from the queue pairs *)
QuietCall == {"acquire", "notify", "listen", "connect", "accept", "check size"}

LEMMA QuietCalls ==
  ASSUME NEW call \in QuietCall, NEW name, NEW i, name # "queuePair"
  PROVE  /\ QuietStep(Call(call, <<name, i>>))
         /\ Call(call, <<name, i>>).call = call /\ Call(call, <<name, i>>).res = <<name, i>>
<1> DEFINE r == <<name, i>>
<1>1. \A j : r # QueuePair(j)
  BY DEF QueuePair
<1> HIDE DEF r
<1>2. QuietStep(Call(call, r)) /\ Call(call, r).call = call /\ Call(call, r).res = r
  BY <1>1 DEF QuietStep, Call, QuietCall, LoudCall
<1> QED BY <1>2 DEF r

LEMMA CompletingKeeps ==
  ASSUME NEW call, NEW r, NEW frees
  PROVE  /\ Completing(Call(call, r), frees).call = Call(call, r).call
         /\ Completing(Call(call, r), frees).res = Call(call, r).res
         /\ QuietStep(Call(call, r)) => QuietStep(Completing(Call(call, r), frees))
BY DEF QuietStep, Call, Completing

LEMMA QuietRaw ==
  ASSUME NEW name, NEW i, name # "queuePair"
  PROVE  /\ QuietStep(Raw(<<name, i>>)) /\ Raw(<<name, i>>).call = "acquire" /\ Raw(<<name, i>>).res = <<name, i>>
         /\ \A frees : QuietStep(Completing(Raw(<<name, i>>), frees))
<1> DEFINE call == "acquire"
           r == <<name, i>>
<1>1. call \in QuietCall
  BY DEF QuietCall
<1> HIDE DEF call
<1>2. QuietStep(Call(call, r)) /\ Call(call, r).call = call /\ Call(call, r).res = r
  BY <1>1, QuietCalls
<1> HIDE DEF r
<1>3. \A frees : QuietStep(Completing(Call(call, r), frees))
  BY <1>2, CompletingKeeps, Zenon
<1> QED BY <1>2, <1>3 DEF Raw, call, r

LEMMA FunctionListed ==
  ASSUME NEW n \in Nat, NEW f, f = [i \in 1 .. n |-> f[i]]
  PROVE  Listed(f) /\ Len(f) = n
<1> DEFINE S == {f[i] : i \in 1 .. n}
<1>1. f \in [1 .. n -> S]
  OBVIOUS
<1>2. f \in Seq(S)
  BY <1>1, SeqDef
<1>3. Len(f) \in Nat /\ 1 .. Len(f) = 1 .. n
  BY <1>1, <1>2, LenProperties
<1>4. Len(f) = n
  <2>1. \A k \in Nat : k \in 1 .. k \/ k = 0
    OBVIOUS
  <2>2. CASE n < Len(f)
    <3>1. Len(f) \in 1 .. n
      BY <1>3, <2>2
    <3> QED BY <1>3, <2>2, <3>1
  <2>3. CASE Len(f) < n
    <3>1. n \in 1 .. Len(f)
      BY <1>3, <2>3
    <3> QED BY <1>3, <2>3, <3>1
  <2> QED BY <1>3, <2>2, <2>3
<1> QED BY <1>2, <1>4 DEF Listed

LEMMA QuietFunction ==
  ASSUME NEW n \in Nat, NEW f, f = [i \in 1 .. n |-> f[i]], \A i \in 1 .. n : QuietStep(f[i])
  PROVE  QuietSteps(f, n)
BY FunctionListed DEF QuietSteps, Quiet

LEMMA QuietSocket ==
  ASSUME NEW e \in Endpoint
  PROVE  QuietSteps(SocketSteps(e), IF e = "client" THEN 1 ELSE 2)
<1> DEFINE x == Call("connect", The("socket"))
           y == Call("listen", The("socket"))
           z == Call("accept", The("socket"))
<1>1. QuietStep(x) /\ QuietStep(y) /\ QuietStep(z)
  <2>1. "connect" \in QuietCall /\ "listen" \in QuietCall /\ "accept" \in QuietCall
    BY DEF QuietCall
  <2>2. "socket" # "queuePair"
    OBVIOUS
  <2>3. \A call \in QuietCall : QuietStep(Call(call, <<"socket", 0>>))
    BY <2>2, QuietCalls, Zenon
  <2> QED BY <2>1, <2>3, Zenon DEF The
<1>2. SocketSteps(e) = IF e = "client" THEN <<x>> ELSE <<y, z>>
  BY DEF SocketSteps
<1> HIDE DEF x, y, z
<1>3. QuietSteps(<<x>>, 1) /\ QuietSteps(<<y, z>>, 2)
  BY <1>1, QuietOne, QuietTwo
<1> QED BY <1>2, <1>3

LEMMA QuietCompletionQueuePair == \A i : QuietSteps(CompletionQueuePairSteps(i), 3)
<1> SUFFICES ASSUME NEW i PROVE QuietSteps(CompletionQueuePairSteps(i), 3)
  OBVIOUS
<1>1. QuietStep(Raw(<<"channel", i>>))
  BY QuietRaw
<1>2. QuietStep(Raw(<<"sendQueue", i>>))
  BY QuietRaw
<1>3. QuietStep(Raw(<<"receiveQueue", i>>))
  BY QuietRaw
<1> QED BY <1>1, <1>2, <1>3, QuietThree DEF CompletionQueuePairSteps

LEMMA QuietNetwork == QuietSteps(NetworkSteps, 8)
<1> DEFINE a == <<Raw(The("devices")), Raw(The("context")), Raw(The("pd"))>>
           b == <<Completing(Raw(The("srq")), DestroyReceiveQueue)>>
           c == CompletionQueuePairSteps(0)
           d == <<Completing(Call("notify", The("sendQueue")), DestroyNetwork)>>
<1>1. NetworkSteps = a \o b \o c \o d
  BY DEF NetworkSteps, ReceiveQueueSteps
<1>2. QuietSteps(a, 3)
  <2>1. QuietStep(Raw(The("devices")))
    BY QuietRaw DEF The
  <2>2. QuietStep(Raw(The("context")))
    BY QuietRaw DEF The
  <2>3. QuietStep(Raw(The("pd")))
    BY QuietRaw DEF The
  <2> QED BY <2>1, <2>2, <2>3, QuietThree
<1>3. QuietSteps(b, 1)
  <2>1. QuietStep(Completing(Raw(The("srq")), DestroyReceiveQueue))
    BY QuietRaw DEF The
  <2> QED BY <2>1, QuietOne
<1>4. QuietSteps(c, 3)
  BY QuietCompletionQueuePair
<1>5. QuietSteps(d, 1)
  <2>1. QuietStep(Call("notify", The("sendQueue")))
    BY QuietCalls DEF QuietCall, The
  <2>2. QuietStep(Completing(Call("notify", The("sendQueue")), DestroyNetwork))
    BY <2>1, CompletingKeeps
  <2> QED BY <2>2, QuietOne
<1> HIDE DEF a, b, c, d
<1>6. QuietSteps(a \o b, 3 + 1)
  BY <1>2, <1>3, QuietSum, Zenon
<1>7. QuietSteps(a \o b \o c, 3 + 1 + 3)
  BY <1>4, <1>6, QuietSum, Zenon
<1>8. QuietSteps(a \o b \o c \o d, 3 + 1 + 3 + 1)
  BY <1>5, <1>7, QuietSum, Zenon
<1>9. 3 + 1 + 3 + 1 = 8
  OBVIOUS
<1> QED BY <1>1, <1>8, <1>9, Zenon

(* What comes before the queue pairs *)
Preparation(c) ==
    NetworkSteps \o CompletionQueuePairSteps(1)
        \o <<Completing(Call("notify", Own("sendQueue")), DestroyCompletionQueuePair(1))>>
        \o (IF c = "ECBuffer" THEN <<Raw(The("queuePairs"))>> ELSE <<>>)

LEMMA QuietPreparation ==
  ASSUME NEW c \in Class
  PROVE  QuietSteps(Preparation(c), IF c = "ECBuffer" THEN 13 ELSE 12)
<1> DEFINE a == NetworkSteps
           b == CompletionQueuePairSteps(1)
           d == <<Completing(Call("notify", Own("sendQueue")), DestroyCompletionQueuePair(1))>>
           f == IF c = "ECBuffer" THEN <<Raw(The("queuePairs"))>> ELSE <<>>
           n == IF c = "ECBuffer" THEN 1 ELSE 0
<1>1. Preparation(c) = a \o b \o d \o f
  BY DEF Preparation
<1>2. QuietSteps(a, 8) /\ QuietSteps(b, 3)
  BY QuietNetwork, QuietCompletionQueuePair
<1>3. QuietSteps(d, 1)
  <2>1. QuietStep(Call("notify", Own("sendQueue")))
    BY QuietCalls DEF QuietCall, Own
  <2>2. QuietStep(Completing(Call("notify", Own("sendQueue")), DestroyCompletionQueuePair(1)))
    BY <2>1, CompletingKeeps
  <2> QED BY <2>2, QuietOne
<1>4. QuietSteps(f, n)
  <2>1. QuietStep(Raw(The("queuePairs")))
    BY QuietRaw DEF The
  <2>2. QuietSteps(<<Raw(The("queuePairs"))>>, 1)
    BY <2>1, QuietOne
  <2> QED BY <2>2, QuietNone
<1> HIDE DEF a, b, d, f, n
<1>5. QuietSteps(a \o b, 8 + 3)
  BY <1>2, QuietSum, Zenon
<1>6. QuietSteps(a \o b \o d, 8 + 3 + 1)
  BY <1>3, <1>5, QuietSum, Zenon
<1>7. QuietSteps(a \o b \o d \o f, 8 + 3 + 1 + n)
  BY <1>4, <1>6, QuietSum, Zenon
<1>8. 8 + 3 + 1 + n = IF c = "ECBuffer" THEN 13 ELSE 12
  BY DEF n
<1> QED BY <1>1, <1>7, <1>8, Zenon

LEMMA QuietMember ==
  ASSUME NEW name, name # "queuePair"
  PROVE  QuietStep(Member(name)) /\ Member(name).call = "acquire" /\ Member(name).res = The(name)
<1>1. /\ QuietStep(Raw(The(name))) /\ Raw(The(name)).call = "acquire" /\ Raw(The(name)).res = The(name)
      /\ \A frees : QuietStep(Completing(Raw(The(name)), frees))
  BY QuietRaw DEF The
<1>2. Member(name).call = Raw(The(name)).call /\ Member(name).res = Raw(The(name)).res
  BY CompletingKeeps DEF Member, Raw
<1> QED BY <1>1, <1>2 DEF Member

MemorySteps(c) == [i \in DOMAIN Memory(c) |-> Member(Memory(c)[i])]
RegionSteps(c) == [i \in DOMAIN Regions(c) |-> Member(Regions(c)[i])]

LEMMA QuietMemory ==
  ASSUME NEW c \in Class
  PROVE  QuietSteps(MemorySteps(c), IF c = "ECBuffer" THEN 4 ELSE 2)
<1> DEFINE n == IF c = "ECBuffer" THEN 4 ELSE 2
           f == MemorySteps(c)
<1>1. DOMAIN Memory(c) = 1 .. n /\ \A i \in 1 .. n : Memory(c)[i] # "queuePair"
  <2>1. CASE c = "ECBuffer"
    <3>1. DOMAIN Memory(c) = 1 .. 4
      BY <2>1 DEF Memory
    <3>2. \A i \in 1 .. 4 : Memory(c)[i] # "queuePair"
      BY <2>1 DEF Memory
    <3> QED BY <2>1, <3>1, <3>2
  <2>2. CASE c # "ECBuffer"
    <3>1. DOMAIN Memory(c) = 1 .. 2
      BY <2>2 DEF Memory
    <3>2. \A i \in 1 .. 2 : Memory(c)[i] # "queuePair"
      BY <2>2 DEF Memory
    <3> QED BY <2>2, <3>1, <3>2
  <2> QED BY <2>1, <2>2
<1>2. f = [i \in 1 .. n |-> f[i]] /\ \A i \in 1 .. n : f[i] = Member(Memory(c)[i])
  BY <1>1 DEF MemorySteps
<1>3. n \in Nat
  OBVIOUS
<1> HIDE DEF n, f
<1>4. \A i \in 1 .. n : QuietStep(f[i])
  BY <1>1, <1>2, QuietMember
<1> QED BY <1>2, <1>3, <1>4, QuietFunction DEF n, f

LEMMA QuietRegions ==
  ASSUME NEW c \in Class
  PROVE  LET n == IF c = "ECBuffer" THEN 6 ELSE 4
         IN  /\ QuietSteps(RegionSteps(c), n)
             /\ \A region \in {"localReceive", "localReadPos", "localCurrentRemoteReceive"} :
                   \E i \in 1 .. n : /\ RegionSteps(c)[i].call = "acquire"
                                     /\ RegionSteps(c)[i].res = The(region)
<1> DEFINE n == IF c = "ECBuffer" THEN 6 ELSE 4
           f == RegionSteps(c)
<1>1. DOMAIN Regions(c) = 1 .. n /\ \A i \in 1 .. n : Regions(c)[i] # "queuePair"
  <2>1. CASE c = "ECBuffer"
    <3>1. DOMAIN Regions(c) = 1 .. 6
      BY <2>1 DEF Regions
    <3>2. \A i \in 1 .. 6 : Regions(c)[i] # "queuePair"
      BY <2>1 DEF Regions
    <3> QED BY <2>1, <3>1, <3>2
  <2>2. CASE c # "ECBuffer"
    <3>1. DOMAIN Regions(c) = 1 .. 4
      BY <2>2 DEF Regions
    <3>2. \A i \in 1 .. 4 : Regions(c)[i] # "queuePair"
      BY <2>2 DEF Regions
    <3> QED BY <2>2, <3>1, <3>2
  <2> QED BY <2>1, <2>2
<1>2. f = [i \in 1 .. n |-> f[i]] /\ \A i \in 1 .. n : f[i] = Member(Regions(c)[i])
  BY <1>1 DEF RegionSteps
<1>3. n \in Nat
  OBVIOUS
<1>4. \A region \in {"localReceive", "localReadPos", "localCurrentRemoteReceive"} :
         \E i \in 1 .. n : Regions(c)[i] = region
  <2>1. CASE c = "ECBuffer"
    <3>1. Regions(c)[2] = "localReceive" /\ Regions(c)[5] = "localReadPos"
            /\ Regions(c)[6] = "localCurrentRemoteReceive"
      BY <2>1 DEF Regions
    <3> QED BY <2>1, <3>1
  <2>2. CASE c # "ECBuffer"
    <3>1. Regions(c)[2] = "localReceive" /\ Regions(c)[3] = "localReadPos"
            /\ Regions(c)[4] = "localCurrentRemoteReceive"
      BY <2>2 DEF Regions
    <3> QED BY <2>2, <3>1
  <2> QED BY <2>1, <2>2
<1> HIDE DEF n, f
<1>5. \A i \in 1 .. n : QuietStep(f[i]) /\ f[i].call = "acquire" /\ f[i].res = The(Regions(c)[i])
  BY <1>1, <1>2, QuietMember
<1>6. QuietSteps(f, n)
  BY <1>2, <1>3, <1>5, QuietFunction
<1>7. \A region \in {"localReceive", "localReadPos", "localCurrentRemoteReceive"} :
         \E i \in 1 .. n : f[i].call = "acquire" /\ f[i].res = The(region)
  BY <1>4, <1>5
<1> QED BY <1>6, <1>7 DEF n, f

LEMMA CalcSteps ==
  /\ Listed(ECCalcSteps) /\ Len(ECCalcSteps) = 7
  /\ ECCalcSteps[1].call = "query device" /\ \A i : ECCalcSteps[1].res # QueuePair(i)
  /\ \A j \in 2 .. 7 : QuietStep(ECCalcSteps[j])
<1> DEFINE x == Call("query device", The("context"))
           a == <<x>>
           f == [i \in 1 .. 5 |-> Raw(Each(<<"comp", "arrays", "sges", "en_mat", "encode_matrix">>)[i])]
           z == Completing(Raw(The("calc")), DestroyECCalc)
           b == <<z>>
<1>1. x.call = "query device" /\ x.res = The("context")
  BY DEF Call
<1>2. \A i : x.res # QueuePair(i)
  <2>1. \A i : <<"context", 0>> # <<"queuePair", i>>
    OBVIOUS
  <2> QED BY <1>1, <2>1, Zenon DEF The, QueuePair
<1>3. QuietStep(z)
  BY QuietRaw DEF The
<1>4. \A i \in 1 .. 5 : QuietStep(f[i])
  <2> SUFFICES ASSUME NEW i \in 1 .. 5 PROVE QuietStep(f[i])
    OBVIOUS
  <2> DEFINE name == <<"comp", "arrays", "sges", "en_mat", "encode_matrix">>[i]
  <2>1. name # "queuePair"
    OBVIOUS
  <2>2. f[i] = Raw(<<name, 0>>)
    BY DEF Each, The
  <2> HIDE DEF name, f
  <2> QED BY <2>1, <2>2, QuietRaw
<1>5. ECCalcSteps = a \o f \o b
  BY DEF ECCalcSteps
<1>6. f = [i \in 1 .. 5 |-> f[i]]
  OBVIOUS
<1> HIDE DEF x, f, z
<1>7. Listed(a) /\ Len(a) = 1 /\ a[1] = x /\ Listed(b) /\ Len(b) = 1 /\ b[1] = z
  BY ListedFacts
<1>8. Listed(f) /\ Len(f) = 5
  BY <1>6, FunctionListed
<1> DEFINE u == a \o f
           v == u \o b
<1> HIDE DEF a, b
<1>9. Listed(u) /\ IsConcat(u, a, f)
  BY <1>7, <1>8, ListedConcat, Zenon
<1>10. Listed(v) /\ IsConcat(v, u, b)
  BY <1>7, <1>9, ListedConcat, Zenon
<1>11. ECCalcSteps = v
  BY <1>5
<1> HIDE DEF u, v
<1>12. Len(u) = 6 /\ u[1] = x /\ \A j \in 1 .. 5 : u[1 + j] = f[j]
  BY <1>7, <1>8, <1>9 DEF IsConcat
<1>13. Len(v) = 7 /\ v[1] = x /\ (\A j \in 1 .. 5 : v[1 + j] = f[j]) /\ v[7] = z
  <2>1. Len(v) = 7 /\ (\A j \in 1 .. 6 : v[j] = u[j]) /\ v[6 + 1] = b[1]
    BY <1>7, <1>10, <1>12 DEF IsConcat
  <2>2. \A j \in 1 .. 5 : 1 + j \in 1 .. 6
    OBVIOUS
  <2> QED BY <1>7, <1>12, <2>1, <2>2
<1>14. ASSUME NEW j \in 2 .. 7 PROVE QuietStep(v[j])
  <2>1. j = 7 \/ (j - 1 \in 1 .. 5 /\ 1 + (j - 1) = j)
    OBVIOUS
  <2> QED BY <1>3, <1>4, <1>13, <2>1
<1> QED BY <1>1, <1>2, <1>10, <1>11, <1>13, <1>14

(* The calls for queue pair i are steps 7 * (i - 1) + 1 and on of these. *)
LEMMA ExchangeSteps ==
  ASSUME NEW c \in Class
  PROVE  /\ QueuePairsOf(c) \in Nat /\ QueuePairsOf(c) > 0
         /\ Listed(QueuePairSteps(c)) /\ Len(QueuePairSteps(c)) = 7 * QueuePairsOf(c)
         /\ \A i \in 1 .. QueuePairsOf(c), k \in 1 .. 7 :
               /\ QueuePairSteps(c)[7 * (i - 1) + k].call = ExchangeCalls[k]
               /\ QueuePairSteps(c)[7 * (i - 1) + k].res = QueuePair(i)
<1> DEFINE q == QueuePairsOf(c)
           s == QueuePairSteps(c)
           n == 7 * q
<1>1. q \in Nat /\ q > 0 /\ n \in Nat
  BY LifecycleAssumption DEF QueuePairsOf
<1>2. /\ s = [j \in 1 .. n |-> s[j]]
      /\ \A j \in 1 .. n : s[j] = QueuePairStep(c, ((j - 1) \div 7) + 1, ExchangeCalls[((j - 1) % 7) + 1])
  BY DEF QueuePairSteps
<1> HIDE DEF s
<1>3. Listed(s) /\ Len(s) = n
  BY <1>1, <1>2, FunctionListed
<1>4. ASSUME NEW i \in 1 .. q, NEW k \in 1 .. 7
      PROVE  s[7 * (i - 1) + k].call = ExchangeCalls[k] /\ s[7 * (i - 1) + k].res = QueuePair(i)
  <2> DEFINE j == 7 * (i - 1) + k
  <2>1. j \in 1 .. n /\ j - 1 = 7 * (i - 1) + (k - 1) /\ i \in Nat
    BY <1>1
  <2>2. ((j - 1) \div 7) + 1 = i /\ ((j - 1) % 7) + 1 = k
    BY <2>1
  <2> HIDE DEF j
  <2>3. s[j] = QueuePairStep(c, i, ExchangeCalls[k])
    BY <1>2, <2>1, <2>2
  <2> HIDE DEF q, n
  <2> DEFINE call == ExchangeCalls[k]
  <2> HIDE DEF call
  <2>4. QueuePairStep(c, i, call).call = call /\ QueuePairStep(c, i, call).res = QueuePair(i)
    <3>1. Call(call, QueuePair(i)).call = call /\ Call(call, QueuePair(i)).res = QueuePair(i)
      BY DEF Call
    <3>2. \A frees : /\ Completing(Call(call, QueuePair(i)), frees).call = Call(call, QueuePair(i)).call
                     /\ Completing(Call(call, QueuePair(i)), frees).res = Call(call, QueuePair(i)).res
      BY CompletingKeeps, Zenon
    <3> QED BY <3>1, <3>2, Zenon DEF QueuePairStep
  <2> QED BY <2>3, <2>4 DEF call, j
<1> QED BY <1>1, <1>3, <1>4 DEF s

(* Where a plan has the calls of queue pair i, what comes before them, and *)
(* the step that sends the descriptors *)
Before(c, e) == (IF e = "client" THEN 1 ELSE 2) + (IF c = "ECBuffer" THEN 13 ELSE 12)
Place(c, e, i, k) == Before(c, e) + 7 * (i - 1) + k
RmrPlace(c, e) == Before(c, e) + 7 * QueuePairsOf(c) + (IF c = "ECBuffer" THEN 10 ELSE 6) + 2

(* A plan of b quiet steps, the calls for q queue pairs, quiet steps that  *)
(* register memory, and the exchange of the descriptors at r               *)
Shape(p, b, q, r) ==
    /\ b \in Nat /\ q \in Nat /\ q > 0 /\ r \in Nat /\ r > b + 7 * q
    /\ Len(p) \in Nat /\ Len(p) >= r + 1
    /\ \A n \in 1 .. b : QuietStep(p[n])
    /\ \A i \in 1 .. q, k \in 1 .. 7 :
          p[b + 7 * (i - 1) + k].call = ExchangeCalls[k] /\ p[b + 7 * (i - 1) + k].res = QueuePair(i)
    /\ \A n \in b + 7 * q + 1 .. r - 1 : QuietStep(p[n])
    /\ \A region \in {"localReceive", "localReadPos", "localCurrentRemoteReceive"} :
          \E n \in b + 7 * q + 1 .. r - 1 : p[n].call = "acquire" /\ p[n].res = The(region)
    /\ p[r].call = "sendRmr" /\ p[r + 1].call = "receiveRmr"
    /\ \A n \in r + 2 .. Len(p) : p[n].call = "query device" \/ QuietStep(p[n])
    /\ \A n \in r .. Len(p) : \A i : p[n].res # QueuePair(i)

LEMMA PlanShape ==
  ASSUME NEW c \in Class, NEW e \in Endpoint
  PROVE  Shape(Plan[c][e], Before(c, e), QueuePairsOf(c), RmrPlace(c, e))
<1> DEFINE s == SocketSteps(e)
           a == Preparation(c)
           x == QueuePairSteps(c)
           m == MemorySteps(c)
           g == RegionSteps(c)
           t1 == Call("check size", The("receiveBuffer"))
           t2 == Call("sendRmr", The("localReceive"))
           t3 == Call("receiveRmr", The("localReceive"))
           t == <<t1, t2, t3>>
           z == IF c = "ECBuffer" THEN ECCalcSteps ELSE <<>>
           u1 == a \o x
           u2 == u1 \o m
           u3 == u2 \o g
           u4 == u3 \o t
           u5 == u4 \o z
           p == s \o u5
           ls == IF e = "client" THEN 1 ELSE 2
           la == IF c = "ECBuffer" THEN 13 ELSE 12
           q == QueuePairsOf(c)
           lm == IF c = "ECBuffer" THEN 4 ELSE 2
           lg == IF c = "ECBuffer" THEN 6 ELSE 4
           lz == IF c = "ECBuffer" THEN 7 ELSE 0
<1>1. Plan[c][e] = p
  BY DEF Plan, BufferSteps, RDMANetworkingSteps, Preparation, MemorySteps, RegionSteps
<1>3. /\ ls \in Nat /\ la \in Nat /\ lm \in Nat /\ lg \in Nat /\ lz \in Nat
  OBVIOUS
<1>4. /\ q \in Nat /\ q > 0 /\ Listed(x) /\ Len(x) = 7 * q
      /\ \A i \in 1 .. q, k \in 1 .. 7 :
            x[7 * (i - 1) + k].call = ExchangeCalls[k] /\ x[7 * (i - 1) + k].res = QueuePair(i)
  BY ExchangeSteps
<1>2. Before(c, e) = ls + la /\ RmrPlace(c, e) = ls + la + 7 * q + lm + lg + 2
  <2>1. Before(c, e) = ls + la
    BY DEF Before
  <2> DEFINE d == 7 * q
             b == Before(c, e)
  <2>2. RmrPlace(c, e) = b + d + (IF c = "ECBuffer" THEN 10 ELSE 6) + 2
    BY DEF RmrPlace
  <2>3. d \in Nat /\ b \in Nat
    BY <1>4, <2>1
  <2> HIDE DEF d, b
  <2>4. RmrPlace(c, e) = b + d + lm + lg + 2
    BY <2>2, <2>3
  <2> QED BY <2>1, <2>4 DEF b, d
<1>5. QuietSteps(s, ls) /\ QuietSteps(a, la) /\ QuietSteps(m, lm) /\ QuietSteps(g, lg)
  <2>1. QuietSteps(g, lg)
    BY QuietRegions
  <2> QED BY <2>1, QuietSocket, QuietPreparation, QuietMemory
<1>6. \A region \in {"localReceive", "localReadPos", "localCurrentRemoteReceive"} :
         \E i \in 1 .. lg : g[i].call = "acquire" /\ g[i].res = The(region)
  BY QuietRegions
<1>7. /\ QuietStep(t1) /\ t2.call = "sendRmr" /\ t3.call = "receiveRmr"
      /\ \A i : t2.res # QueuePair(i) /\ t3.res # QueuePair(i)
  <2>1. \A i : <<"localReceive", 0>> # <<"queuePair", i>>
    OBVIOUS
  <2>2. t2.res = The("localReceive") /\ t3.res = The("localReceive") /\ t2.call = "sendRmr" /\ t3.call = "receiveRmr"
    BY DEF Call
  <2>3. \A i : The("localReceive") # QueuePair(i)
    BY <2>1, Zenon DEF The, QueuePair
  <2>4. QuietStep(t1)
    <3>1. "check size" \in QuietCall /\ "receiveBuffer" # "queuePair"
      BY DEF QuietCall
    <3> QED BY <3>1, QuietCalls, Zenon DEF The
  <2> QED BY <2>2, <2>3, <2>4
<1>8. /\ Listed(z) /\ Len(z) = lz
      /\ \A j \in 1 .. lz : z[j].call = "query device" \/ QuietStep(z[j])
      /\ \A j \in 1 .. lz : \A i : z[j].res # QueuePair(i)
  <2>1. CASE c = "ECBuffer"
    <3>1. \A j \in 1 .. 7 : j = 1 \/ j \in 2 .. 7
      OBVIOUS
    <3> QED BY <2>1, <3>1, CalcSteps DEF QuietStep
  <2>2. CASE c # "ECBuffer"
    BY <2>2, ListedFacts
  <2> QED BY <2>1, <2>2
<1> HIDE DEF s, a, x, m, g, t1, t2, t3, z, ls, la, q, lm, lg, lz
<1>9. Listed(t) /\ Len(t) = 3 /\ t[1] = t1 /\ t[2] = t2 /\ t[3] = t3
  BY ListedFacts
<1> HIDE DEF t
<1>10. Listed(s) /\ Listed(a) /\ Listed(m) /\ Listed(g) /\ Len(s) = ls /\ Len(a) = la /\ Len(m) = lm /\ Len(g) = lg
  BY <1>5 DEF QuietSteps, Quiet
<1>11. Listed(u1) /\ IsConcat(u1, a, x)
  BY <1>4, <1>10, ListedConcat, Zenon
<1>12. Listed(u2) /\ IsConcat(u2, u1, m)
  BY <1>10, <1>11, ListedConcat, Zenon
<1>13. Listed(u3) /\ IsConcat(u3, u2, g)
  BY <1>10, <1>12, ListedConcat, Zenon
<1>14. Listed(u4) /\ IsConcat(u4, u3, t)
  BY <1>9, <1>13, ListedConcat, Zenon
<1>15. Listed(u5) /\ IsConcat(u5, u4, z)
  BY <1>8, <1>14, ListedConcat, Zenon
<1>16. IsConcat(p, s, u5)
  BY <1>10, <1>15, ListedConcat, Zenon
<1> HIDE DEF u1, u2, u3, u4, u5, p
<1> DEFINE n1 == la + 7 * q
           n2 == n1 + lm
           n3 == n2 + lg
           n4 == n3 + 3
           n5 == n4 + lz
<1>0. /\ n1 = la + 7 * q /\ n2 = n1 + lm /\ n3 = n2 + lg /\ n4 = n3 + 3 /\ n5 = n4 + lz
      /\ n1 \in Nat /\ n2 \in Nat /\ n3 \in Nat /\ n4 \in Nat /\ n5 \in Nat
      /\ q \in Nat /\ q > 0 /\ 7 * q \in Nat
  BY <1>3, <1>4
<1> HIDE DEF n1, n2, n3, n4, n5
<1>17. Len(u1) = n1 /\ n1 \in Nat /\ (\A j \in 1 .. la : u1[j] = a[j]) /\ \A j \in 1 .. 7 * q : u1[la + j] = x[j]
  BY <1>0, <1>3, <1>4, <1>10, <1>11 DEF IsConcat
<1>18. Len(u2) = n2 /\ n2 \in Nat /\ (\A j \in 1 .. n1 : u2[j] = u1[j]) /\ \A j \in 1 .. lm : u2[n1 + j] = m[j]
  BY <1>0, <1>3, <1>10, <1>12, <1>17 DEF IsConcat
<1>19. Len(u3) = n3 /\ n3 \in Nat /\ (\A j \in 1 .. n2 : u3[j] = u2[j]) /\ \A j \in 1 .. lg : u3[n2 + j] = g[j]
  BY <1>0, <1>3, <1>10, <1>13, <1>18 DEF IsConcat
<1>20. Len(u4) = n4 /\ n4 \in Nat /\ (\A j \in 1 .. n3 : u4[j] = u3[j]) /\ \A j \in 1 .. 3 : u4[n3 + j] = t[j]
  BY <1>0, <1>9, <1>14, <1>19 DEF IsConcat
<1>21. /\ Len(u5) = n5 /\ n5 \in Nat
       /\ \A j \in 1 .. n4 : u5[j] = u4[j]
       /\ \A j \in 1 .. lz : u5[n4 + j] = z[j]
  BY <1>0, <1>3, <1>8, <1>15, <1>20 DEF IsConcat
<1>22. /\ Len(p) = ls + n5 /\ Len(p) \in Nat
       /\ \A j \in 1 .. ls : p[j] = s[j]
       /\ \A j \in 1 .. n5 : p[ls + j] = u5[j]
  BY <1>0, <1>3, <1>10, <1>16, <1>21 DEF IsConcat
<1>23. \A j \in 1 .. n3 : u5[j] = u3[j]
  <2>1. \A j \in 1 .. n3 : j \in 1 .. n4
    BY <1>0
  <2> QED BY <1>20, <1>21, <2>1, Zenon
<1>24. \A j \in 1 .. n1 : u5[j] = u1[j]
  <2>1. \A j \in 1 .. n1 : j \in 1 .. n2 /\ j \in 1 .. n3
    BY <1>0, <1>3
  <2> QED BY <1>18, <1>19, <1>23, <2>1, Zenon
<1>25. \A j \in 1 .. la : p[ls + j] = a[j]
  <2>1. \A j \in 1 .. la : j \in 1 .. n1 /\ j \in 1 .. n5
    BY <1>0, <1>3
  <2> QED BY <1>17, <1>22, <1>24, <2>1, Zenon
<1>26. \A j \in 1 .. 7 * q : p[ls + (la + j)] = x[j]
  <2>1. \A j \in 1 .. 7 * q : la + j \in 1 .. n1 /\ la + j \in 1 .. n5
    BY <1>0, <1>3
  <2> QED BY <1>17, <1>22, <1>24, <2>1, Zenon
<1>27. \A j \in 1 .. lm : p[ls + (n1 + j)] = m[j]
  <2>1. \A j \in 1 .. lm : n1 + j \in 1 .. n2 /\ n1 + j \in 1 .. n3 /\ n1 + j \in 1 .. n5
    BY <1>0, <1>3
  <2>2. \A j \in 1 .. lm : u5[n1 + j] = m[j]
    BY <1>18, <1>19, <1>23, <2>1, Zenon
  <2> QED BY <1>22, <2>1, <2>2, Zenon
<1>28. \A j \in 1 .. lg : p[ls + (n2 + j)] = g[j]
  <2>1. \A j \in 1 .. lg : n2 + j \in 1 .. n3 /\ n2 + j \in 1 .. n5
    BY <1>0, <1>3
  <2>2. \A j \in 1 .. lg : u5[n2 + j] = g[j]
    BY <1>19, <1>23, <2>1, Zenon
  <2> QED BY <1>22, <2>1, <2>2, Zenon
<1>29. \A j \in 1 .. 3 : p[ls + (n3 + j)] = t[j]
  <2>1. \A j \in 1 .. 3 : n3 + j \in 1 .. n4 /\ n3 + j \in 1 .. n5
    BY <1>0, <1>3
  <2>2. \A j \in 1 .. 3 : u5[n3 + j] = t[j]
    BY <1>20, <1>21, <2>1, Zenon
  <2> QED BY <1>22, <2>1, <2>2, Zenon
<1>30. \A j \in 1 .. lz : p[ls + (n4 + j)] = z[j]
  <2>1. \A j \in 1 .. lz : n4 + j \in 1 .. n5
    BY <1>0, <1>3
  <2> QED BY <1>21, <1>22, <2>1, Zenon
<1> DEFINE b == ls + la
           r == ls + la + 7 * q + lm + lg + 2
<1>31. /\ b \in Nat /\ r \in Nat /\ r > b + 7 * q /\ Len(p) >= r + 1 /\ Len(p) = r + 1 + lz
       /\ r + 1 = ls + n4 /\ r - 1 = ls + (n3 + 1) /\ r = ls + (n3 + 2) /\ r + 1 = ls + (n3 + 3)
  BY <1>0, <1>3, <1>4, <1>22
<1>32. \A n \in 1 .. b : QuietStep(p[n])
  <2> SUFFICES ASSUME NEW n \in 1 .. b PROVE QuietStep(p[n])
    OBVIOUS
  <2>1. n \in 1 .. ls \/ (n - ls \in 1 .. la /\ ls + (n - ls) = n)
    BY <1>0, <1>3
  <2> QED BY <1>5, <1>22, <1>25, <2>1 DEF QuietSteps, Quiet
<1>33. ASSUME NEW i \in 1 .. q, NEW k \in 1 .. 7
       PROVE  p[b + 7 * (i - 1) + k].call = ExchangeCalls[k] /\ p[b + 7 * (i - 1) + k].res = QueuePair(i)
  <2> DEFINE j == 7 * (i - 1) + k
  <2>1. j \in 1 .. 7 * q /\ b + 7 * (i - 1) + k = ls + (la + j)
    BY <1>0, <1>3
  <2>2. x[j].call = ExchangeCalls[k] /\ x[j].res = QueuePair(i)
    BY <1>4
  <2> HIDE DEF j, b
  <2>3. p[ls + (la + j)] = x[j]
    BY <1>26, <2>1
  <2> QED BY <2>1, <2>2, <2>3
<1>34. \A n \in b + 7 * q + 1 .. r - 1 : QuietStep(p[n])
  <2> SUFFICES ASSUME NEW n \in b + 7 * q + 1 .. r - 1 PROVE QuietStep(p[n])
    OBVIOUS
  <2>1. \/ n - ls - n1 \in 1 .. lm /\ ls + (n1 + (n - ls - n1)) = n
        \/ n - ls - n2 \in 1 .. lg /\ ls + (n2 + (n - ls - n2)) = n
        \/ n = ls + (n3 + 1)
    BY <1>0, <1>3
  <2> HIDE DEF b, r
  <2>2. CASE n - ls - n1 \in 1 .. lm /\ ls + (n1 + (n - ls - n1)) = n
    <3>1. p[n] = m[n - ls - n1]
      BY <1>27, <2>2
    <3> QED BY <1>5, <2>2, <3>1 DEF QuietSteps, Quiet
  <2>3. CASE n - ls - n2 \in 1 .. lg /\ ls + (n2 + (n - ls - n2)) = n
    <3>1. p[n] = g[n - ls - n2]
      BY <1>28, <2>3
    <3> QED BY <1>5, <2>3, <3>1 DEF QuietSteps, Quiet
  <2>4. CASE n = ls + (n3 + 1)
    BY <1>7, <1>9, <1>29, <2>4
  <2> QED BY <2>1, <2>2, <2>3, <2>4
<1>35. ASSUME NEW region \in {"localReceive", "localReadPos", "localCurrentRemoteReceive"}
       PROVE  \E n \in b + 7 * q + 1 .. r - 1 : p[n].call = "acquire" /\ p[n].res = The(region)
  <2> PICK j \in 1 .. lg : g[j].call = "acquire" /\ g[j].res = The(region)
    BY <1>6
  <2>1. ls + (n2 + j) \in b + 7 * q + 1 .. r - 1
    BY <1>0, <1>3
  <2> HIDE DEF b, r
  <2> QED BY <1>28, <2>1
<1>36. p[r] = t2 /\ p[r + 1] = t3
  <2>1. p[ls + (n3 + 2)] = t[2] /\ p[ls + (n3 + 3)] = t[3]
    BY <1>29
  <2> QED BY <1>9, <1>31, <2>1
<1>37. ASSUME NEW n \in r + 2 .. Len(p) PROVE n - ls - n4 \in 1 .. lz /\ p[n] = z[n - ls - n4]
  <2>1. n - ls - n4 \in 1 .. lz /\ ls + (n4 + (n - ls - n4)) = n
    BY <1>0, <1>3, <1>31
  <2> HIDE DEF b, r
  <2> QED BY <1>0, <1>30, <2>1
<1>38. \A n \in r + 2 .. Len(p) : p[n].call = "query device" \/ QuietStep(p[n])
  BY <1>8, <1>37
<1>39. \A n \in r .. Len(p) : \A i : p[n].res # QueuePair(i)
  <2> HIDE DEF r
  <2> SUFFICES ASSUME NEW n \in r .. Len(p) PROVE \A i : p[n].res # QueuePair(i)
    OBVIOUS
  <2>1. n = r \/ n = r + 1 \/ n \in r + 2 .. Len(p)
    BY <1>0, <1>3, <1>31
  <2> QED BY <1>7, <1>8, <1>36, <1>37, <2>1
<1>40. p[r].call = "sendRmr" /\ p[r + 1].call = "receiveRmr"
  BY <1>7, <1>36
<1> HIDE DEF b, r
<1>41. Shape(p, b, q, r)
  BY <1>4, <1>22, <1>31, <1>32, <1>33, <1>34, <1>35, <1>38, <1>39, <1>40, Zenon DEF Shape
<1> QED BY <1>1, <1>2, <1>41, Zenon DEF b, r, q

(* What step n can be *)
IsExchange(p, b, q, n) ==
    \E i \in 1 .. q, k \in 1 .. 7 :
        n = b + 7 * (i - 1) + k /\ p[n].call = ExchangeCalls[k] /\ p[n].res = QueuePair(i)
NoQueuePair(step) == \A i : step.res # QueuePair(i)
Placed(p, b, q, r, n) ==
    \/ /\ QuietStep(p[n])
       /\ n \in 1 .. b \/ n \in b + 7 * q + 1 .. r - 1 \/ n \in r + 2 .. Len(p)
    \/ IsExchange(p, b, q, n)
    \/ n = r /\ p[n].call = "sendRmr" /\ NoQueuePair(p[n])
    \/ n = r + 1 /\ p[n].call = "receiveRmr" /\ NoQueuePair(p[n])
    \/ n \in r + 2 .. Len(p) /\ p[n].call = "query device" /\ NoQueuePair(p[n])

LEMMA PlanPlaces ==
  ASSUME NEW p, NEW b, NEW q, NEW r, Shape(p, b, q, r), NEW n \in 1 .. Len(p)
  PROVE  Placed(p, b, q, r, n)
<1>1. b \in Nat /\ q \in Nat /\ r \in Nat /\ r > b + 7 * q /\ Len(p) \in Nat /\ Len(p) >= r + 1
  BY DEF Shape
<1>2. CASE n \in 1 .. b
  BY <1>2 DEF Shape, Placed, NoQueuePair
<1>3. CASE n \in b + 1 .. b + 7 * q
  <2> DEFINE i == ((n - 1 - b) \div 7) + 1
             k == ((n - 1 - b) % 7) + 1
  <2>1. i \in 1 .. q /\ k \in 1 .. 7 /\ n = b + 7 * (i - 1) + k
    BY <1>1, <1>3
  <2> HIDE DEF i, k
  <2>2. p[n].call = ExchangeCalls[k] /\ p[n].res = QueuePair(i)
    BY <2>1 DEF Shape
  <2> QED BY <2>1, <2>2 DEF Placed, IsExchange
<1>4. CASE n \in b + 7 * q + 1 .. r - 1
  BY <1>4 DEF Shape, Placed, NoQueuePair
<1>5. CASE n = r \/ n = r + 1
  <2>1. n \in r .. Len(p)
    BY <1>1, <1>5
  <2> QED BY <1>5, <2>1 DEF Shape, Placed, NoQueuePair
<1>6. CASE n \in r + 2 .. Len(p)
  <2>1. n \in r .. Len(p)
    BY <1>1, <1>6
  <2> QED BY <1>6, <2>1 DEF Shape, Placed, NoQueuePair
<1>7. \/ n \in 1 .. b \/ n \in b + 1 .. b + 7 * q \/ n \in b + 7 * q + 1 .. r - 1
      \/ n = r \/ n = r + 1 \/ n \in r + 2 .. Len(p)
  BY <1>1
<1> QED BY <1>2, <1>3, <1>4, <1>5, <1>6, <1>7, Zenon

(* How many steps of the exchange are done before step n, and how many     *)
(* words have been written and read *)
Done(b, q, n) == IF n <= b THEN 0 ELSE IF n > b + 7 * q THEN 7 * q ELSE n - 1 - b
WrittenBy(b, q, r, n) == 5 * ((Done(b, q, n) + 4) \div 7) + IF n > r THEN 3 ELSE 0
ReadBy(b, q, r, n) == 5 * ((Done(b, q, n) + 3) \div 7) + IF n > r + 1 THEN 3 ELSE 0

LEMMA Sevenths ==
  ASSUME NEW i \in Nat, i > 0, NEW k \in 1 .. 8
  PROVE  /\ (7 * (i - 1) + k - 1 + 4) \div 7 = IF k >= 4 THEN i ELSE i - 1
         /\ (7 * (i - 1) + k - 1 + 3) \div 7 = IF k >= 5 THEN i ELSE i - 1
OBVIOUS

Numbers(b, q, r) == b \in Nat /\ q \in Nat /\ q > 0 /\ r \in Nat /\ r > b + 7 * q
CountedAt(b, q, r, n, i, k) ==
    /\ WrittenBy(b, q, r, n) = 5 * IF k >= 4 THEN i ELSE i - 1
    /\ ReadBy(b, q, r, n) = 5 * IF k >= 5 THEN i ELSE i - 1
CountedOutside(b, q, r, n) ==
    /\ n <= b + 1 => WrittenBy(b, q, r, n) = 0 /\ ReadBy(b, q, r, n) = 0
    /\ n > b + 7 * q =>
          /\ WrittenBy(b, q, r, n) = 5 * q + IF n > r THEN 3 ELSE 0
          /\ ReadBy(b, q, r, n) = 5 * q + IF n > r + 1 THEN 3 ELSE 0

LEMMA CountInExchange ==
  ASSUME NEW b, NEW q, NEW r, Numbers(b, q, r), NEW i \in 1 .. q, NEW k \in 1 .. 8,
         NEW n, n = b + 7 * (i - 1) + k
  PROVE  CountedAt(b, q, r, n, i, k)
<1> DEFINE d == 7 * (i - 1) + k - 1
<1>0. b \in Nat /\ q \in Nat /\ q > 0 /\ r \in Nat /\ r > b + 7 * q
  BY DEF Numbers
<1>1. i \in Nat /\ i > 0 /\ i <= q
  BY <1>0
<1>2. n \in Nat /\ n > b /\ n <= r /\ d \in Nat /\ n - 1 - b = d /\ (n > b + 7 * q => d = 7 * q)
  BY <1>0, <1>1
<1>3. (d + 4) \div 7 = (IF k >= 4 THEN i ELSE i - 1) /\ (d + 3) \div 7 = IF k >= 5 THEN i ELSE i - 1
  BY <1>1, Sevenths
<1> HIDE DEF d
<1>4. Done(b, q, n) = d
  BY <1>0, <1>2 DEF Done
<1>5. ~(n > r) /\ ~(n > r + 1)
  BY <1>0, <1>2
<1> HIDE DEF d
<1>6. WrittenBy(b, q, r, n) = 5 * ((d + 4) \div 7) + 0 /\ ReadBy(b, q, r, n) = 5 * ((d + 3) \div 7) + 0
  BY <1>4, <1>5, Zenon DEF WrittenBy, ReadBy
<1>7. WrittenBy(b, q, r, n) = (5 * IF k >= 4 THEN i ELSE i - 1) /\ ReadBy(b, q, r, n) = 5 * IF k >= 5 THEN i ELSE i - 1
  BY <1>1, <1>3, <1>6
<1> QED BY <1>7 DEF CountedAt

LEMMA CountOutside ==
  ASSUME NEW b, NEW q, NEW r, Numbers(b, q, r), NEW n \in Nat
  PROVE  CountedOutside(b, q, r, n)
<1>0. b \in Nat /\ q \in Nat /\ q > 0 /\ r \in Nat /\ r > b + 7 * q
  BY DEF Numbers
<1>1. (0 + 4) \div 7 = 0 /\ (0 + 3) \div 7 = 0
  OBVIOUS
<1>2. (7 * q + 4) \div 7 = q /\ (7 * q + 3) \div 7 = q
  BY <1>0
<1>3. ASSUME n <= b + 1 PROVE WrittenBy(b, q, r, n) = 0 /\ ReadBy(b, q, r, n) = 0
  <2>1. Done(b, q, n) = 0 /\ n <= r
    BY <1>0, <1>3 DEF Done
  <2> QED BY <1>0, <1>1, <1>3, <2>1 DEF WrittenBy, ReadBy
<1>4. ASSUME n > b + 7 * q
      PROVE  /\ WrittenBy(b, q, r, n) = 5 * q + IF n > r THEN 3 ELSE 0
             /\ ReadBy(b, q, r, n) = 5 * q + IF n > r + 1 THEN 3 ELSE 0
  <2>1. Done(b, q, n) = 7 * q /\ n > b
    BY <1>0, <1>4 DEF Done
  <2> QED BY <1>0, <1>2, <1>4, <2>1 DEF WrittenBy, ReadBy
<1> QED BY <1>3, <1>4 DEF CountedOutside

(* The state of a queue pair for which n calls were made *)
StateAfter(n) == IF n < 1 THEN "none" ELSE IF n < 5 THEN "RESET"
                 ELSE IF n = 5 THEN "INIT" ELSE IF n = 6 THEN "RTR" ELSE "RTS"
Transition == {"INIT", "RTR", "RTS"}

(* What step n of a plan does to the counts and to the queue pairs *)
Counts(p, b, q, r, n) ==
    LET w == WrittenBy(b, q, r, n)
        x == ReadBy(b, q, r, n)
    IN  /\ w \in Nat /\ x \in Nat
        /\ WrittenBy(b, q, r, n + 1) = w + (IF p[n].call = "write" THEN 5 ELSE IF p[n].call = "sendRmr" THEN 3 ELSE 0)
        /\ ReadBy(b, q, r, n + 1) = x + (IF p[n].call = "read" THEN 5 ELSE IF p[n].call = "receiveRmr" THEN 3 ELSE 0)
        /\ p[n].call = "sendRmr" => n = r /\ w = 5 * q
        /\ p[n].call = "receiveRmr" => n = r + 1 /\ x = 5 * q
        /\ p[n].call = "query device" => n > r + 1
        /\ p[n].call \in {"query", "write", "read"} \union Transition =>
              \E i \in 1 .. q, k \in 1 .. 7 :
                 /\ n = b + 7 * (i - 1) + k /\ p[n].call = ExchangeCalls[k] /\ p[n].res = QueuePair(i)
                 /\ k = 3 => w = 5 * (i - 1)
                 /\ k = 4 => x = 5 * (i - 1)

LEMMA CallsNamed ==
  /\ ExchangeCalls[1] = "acquire" /\ ExchangeCalls[2] = "query" /\ ExchangeCalls[3] = "write"
  /\ ExchangeCalls[4] = "read" /\ ExchangeCalls[5] = "INIT" /\ ExchangeCalls[6] = "RTR"
  /\ ExchangeCalls[7] = "RTS"
BY DEF ExchangeCalls

LEMMA Counting ==
  ASSUME NEW p, NEW b, NEW q, NEW r, Shape(p, b, q, r), NEW n \in 1 .. Len(p)
  PROVE  Counts(p, b, q, r, n)
<1> DEFINE w == WrittenBy(b, q, r, n)
           x == ReadBy(b, q, r, n)
           w1 == WrittenBy(b, q, r, n + 1)
           x1 == ReadBy(b, q, r, n + 1)
           call == p[n].call
           dw == IF call = "write" THEN 5 ELSE IF call = "sendRmr" THEN 3 ELSE 0
           dx == IF call = "read" THEN 5 ELSE IF call = "receiveRmr" THEN 3 ELSE 0
<1>1. b \in Nat /\ q \in Nat /\ q > 0 /\ r \in Nat /\ r > b + 7 * q /\ Len(p) \in Nat
  BY DEF Shape
<1>2. n \in Nat /\ n + 1 \in Nat /\ Numbers(b, q, r)
  BY <1>1 DEF Numbers
<1>8. CountedOutside(b, q, r, n)
  BY <1>2, CountOutside, Zenon
<1>9. CountedOutside(b, q, r, n + 1)
  BY <1>2, CountOutside, Zenon
<1>3. CASE QuietStep(p[n]) /\ (n \in 1 .. b \/ n \in b + 7 * q + 1 .. r - 1 \/ n \in r + 2 .. Len(p))
  <2>1. /\ n <= b + 1 => w = 0 /\ x = 0
        /\ n > b + 7 * q => w = (5 * q + IF n > r THEN 3 ELSE 0) /\ x = (5 * q + IF n > r + 1 THEN 3 ELSE 0)
    BY <1>8 DEF CountedOutside
  <2>2. /\ n + 1 <= b + 1 => w1 = 0 /\ x1 = 0
        /\ n + 1 > b + 7 * q => w1 = (5 * q + IF n + 1 > r THEN 3 ELSE 0) /\ x1 = (5 * q + IF n + 1 > r + 1 THEN 3 ELSE 0)
    BY <1>9 DEF CountedOutside
  <2> HIDE DEF w, x, w1, x1
  <2>3. w \in Nat /\ x \in Nat /\ w1 = w /\ x1 = x
    BY <1>1, <1>3, <2>1, <2>2
  <2>4. p[n].call \notin LoudCall
    BY <1>3 DEF QuietStep
  <2>5. /\ call \notin {"write", "sendRmr", "read", "receiveRmr", "query device"}
        /\ call \notin {"query", "write", "read"} \union Transition
    BY <2>4 DEF LoudCall, Transition, call
  <2> HIDE DEF call
  <2>7. dw = 0 /\ dx = 0
    BY <2>5, Zenon
  <2> HIDE DEF dw, dx
  <2>6. w1 = w + dw /\ x1 = x + dx
    BY <2>3, <2>7
  <2> QED BY <2>3, <2>5, <2>6, Zenon DEF Counts, w, x, w1, x1, dw, dx, call
<1>4. CASE IsExchange(p, b, q, n)
  <2> PICK i \in 1 .. q, k \in 1 .. 7 :
               n = b + 7 * (i - 1) + k /\ p[n].call = ExchangeCalls[k] /\ p[n].res = QueuePair(i)
    BY <1>4 DEF IsExchange
  <2>1. w = (5 * IF k >= 4 THEN i ELSE i - 1) /\ x = (5 * IF k >= 5 THEN i ELSE i - 1)
    <3>1. k \in 1 .. 8
      OBVIOUS
    <3>2. CountedAt(b, q, r, n, i, k)
      BY <1>2, <3>1, CountInExchange, Zenon
    <3> QED BY <3>2 DEF CountedAt
  <2>2. w1 = (5 * IF k + 1 >= 4 THEN i ELSE i - 1) /\ x1 = (5 * IF k + 1 >= 5 THEN i ELSE i - 1)
    <3>1. k + 1 \in 1 .. 8 /\ n + 1 = b + 7 * (i - 1) + (k + 1)
      BY <1>1
    <3>2. CountedAt(b, q, r, n + 1, i, k + 1)
      BY <1>2, <3>1, CountInExchange, Zenon
    <3> QED BY <3>2 DEF CountedAt
  <2> HIDE DEF w, x, w1, x1
  <2>3. /\ w \in Nat /\ x \in Nat
        /\ w1 = w + (IF k = 3 THEN 5 ELSE 0) /\ x1 = x + (IF k = 4 THEN 5 ELSE 0)
        /\ k = 3 => w = 5 * (i - 1)
        /\ k = 4 => x = 5 * (i - 1)
    BY <2>1, <2>2
  <2>4. /\ call = "write" <=> k = 3
        /\ call = "read" <=> k = 4
        /\ call # "sendRmr" /\ call # "receiveRmr" /\ call # "query device"
    <3>1. k = 1 \/ k = 2 \/ k = 3 \/ k = 4 \/ k = 5 \/ k = 6 \/ k = 7
      OBVIOUS
    <3>2. call = ExchangeCalls[k]
      OBVIOUS
    <3> HIDE DEF call
    <3> QED BY <3>1, <3>2, CallsNamed
  <2>5. dw = (IF k = 3 THEN 5 ELSE 0) /\ dx = (IF k = 4 THEN 5 ELSE 0)
    <3> HIDE DEF call
    <3> QED BY <2>4
  <2> HIDE DEF dw, dx
  <2>6. w1 = w + dw /\ x1 = x + dx
    BY <2>3, <2>5
  <2>7. \E j \in 1 .. q, m \in 1 .. 7 :
                 /\ n = b + 7 * (j - 1) + m /\ call = ExchangeCalls[m] /\ p[n].res = QueuePair(j)
                 /\ m = 3 => w = 5 * (j - 1)
                 /\ m = 4 => x = 5 * (j - 1)
    BY <2>3, Zenon
  <2> HIDE DEF call
  <2> QED BY <2>3, <2>4, <2>6, <2>7, Zenon DEF Counts, w, x, w1, x1, dw, dx, call
<1>5. CASE n = r /\ p[n].call = "sendRmr"
  <2>1. w = 5 * q /\ x = 5 * q
    BY <1>1, <1>5, <1>8 DEF CountedOutside
  <2>2. w1 = 5 * q + 3 /\ x1 = 5 * q
    BY <1>1, <1>5, <1>9 DEF CountedOutside
  <2> HIDE DEF w, x, w1, x1
  <2> QED BY <1>1, <1>5, <2>1, <2>2 DEF Counts, w, x, w1, x1, Transition
<1>6. CASE n = r + 1 /\ p[n].call = "receiveRmr"
  <2>1. w = 5 * q + 3 /\ x = 5 * q
    BY <1>1, <1>6, <1>8 DEF CountedOutside
  <2>2. w1 = 5 * q + 3 /\ x1 = 5 * q + 3
    BY <1>1, <1>6, <1>9 DEF CountedOutside
  <2> HIDE DEF w, x, w1, x1
  <2> QED BY <1>1, <1>6, <2>1, <2>2 DEF Counts, w, x, w1, x1, Transition
<1>7. CASE n \in r + 2 .. Len(p) /\ p[n].call = "query device"
  <2>0. n \in r + 2 .. Len(p)
    BY <1>7
  <2>3. n > r + 1 /\ n > r /\ n > b + 7 * q /\ n + 1 > r /\ n + 1 > r + 1 /\ n + 1 > b + 7 * q
    BY <1>1, <1>2, <2>0
  <2>1. w = 5 * q + 3 /\ x = 5 * q + 3
    BY <2>3, <1>8 DEF CountedOutside
  <2>2. w1 = 5 * q + 3 /\ x1 = 5 * q + 3
    BY <2>3, <1>9 DEF CountedOutside
  <2> HIDE DEF w, x, w1, x1
  <2>4. /\ call = "query device" /\ call \notin {"write", "sendRmr", "read", "receiveRmr"}
        /\ call \notin {"query", "write", "read"} \union Transition
    BY <1>7 DEF Transition
  <2> HIDE DEF call
  <2>5. dw = 0 /\ dx = 0
    BY <2>4
  <2> HIDE DEF dw, dx
  <2>6. w \in Nat /\ x \in Nat /\ w1 = w + dw /\ x1 = x + dx
    BY <1>1, <2>1, <2>2, <2>5
  <2> QED BY <2>3, <2>4, <2>6, Zenon DEF Counts, w, x, w1, x1, dw, dx, call
<1>10. Placed(p, b, q, r, n)
  BY PlanPlaces, Zenon
<1> QED BY <1>3, <1>4, <1>5, <1>6, <1>7, <1>10, Zenon DEF Placed

(* ... and to the state of queue pair j *)
LEMMA StateSteps ==
  ASSUME NEW p, NEW b, NEW q, NEW r, Shape(p, b, q, r), NEW n \in 1 .. Len(p), NEW j \in 1 .. q
  PROVE  LET before == StateAfter(n - 1 - (b + 7 * (j - 1)))
             after == StateAfter(n - (b + 7 * (j - 1)))
         IN  /\ p[n].call = "acquire" /\ p[n].res = QueuePair(j) => after = "RESET"
             /\ p[n].call \in Transition /\ p[n].res = QueuePair(j) => after = p[n].call
             /\ p[n].res # QueuePair(j) \/ p[n].call \notin {"acquire"} \union Transition => after = before
             /\ p[n].call = "RTS" /\ p[n].res = QueuePair(j) => before = "RTR"
<1> DEFINE before == StateAfter(n - 1 - (b + 7 * (j - 1)))
           after == StateAfter(n - (b + 7 * (j - 1)))
<1>1. b \in Nat /\ q \in Nat /\ q > 0 /\ r \in Nat /\ r > b + 7 * q /\ Len(p) \in Nat
  BY DEF Shape
<1>6. Placed(p, b, q, r, n)
  BY PlanPlaces, Zenon
<1>2. CASE n \in 1 .. b \/ n > b + 7 * q
  <2>1. before = after
    BY <1>1, <1>2 DEF StateAfter
  <2>2. \/ \A i : p[n].res # QueuePair(i)
        \/ \E i \in 1 .. q, k \in 1 .. 7 : n = b + 7 * (i - 1) + k
    BY <1>6, Zenon DEF Placed, QuietStep, NoQueuePair, IsExchange
  <2>3. \A i \in 1 .. q, k \in 1 .. 7 : n # b + 7 * (i - 1) + k
    BY <1>1, <1>2
  <2> HIDE DEF before, after
  <2> QED BY <2>1, <2>2, <2>3 DEF before, after
<1>3. CASE IsExchange(p, b, q, n)
  <2> PICK i \in 1 .. q, k \in 1 .. 7 :
               n = b + 7 * (i - 1) + k /\ p[n].call = ExchangeCalls[k] /\ p[n].res = QueuePair(i)
    BY <1>3 DEF IsExchange
  <2>1. CASE i = j
    <3>1. n - 1 - (b + 7 * (j - 1)) = k - 1 /\ n - (b + 7 * (j - 1)) = k
      <4> DEFINE m == 7 * (j - 1)
      <4>1. n = b + m + k /\ m \in Int /\ k \in Int /\ b \in Int
        BY <1>1, <2>1
      <4> HIDE DEF m
      <4>2. n - 1 - (b + m) = k - 1 /\ n - (b + m) = k
        BY <4>1
      <4> QED BY <4>2 DEF m
    <3>2. before = StateAfter(k - 1) /\ after = StateAfter(k)
      BY <3>1
    <3> HIDE DEF before, after
    <3>3. /\ k = 1 => after = "RESET"
          /\ k \in {2, 3, 4} => after = before
          /\ k = 5 => after = "INIT"
          /\ k = 6 => after = "RTR"
          /\ k = 7 => after = "RTS" /\ before = "RTR"
      BY <3>2 DEF StateAfter
    <3>4. /\ p[n].call = "acquire" <=> k = 1
          /\ p[n].call = "INIT" <=> k = 5
          /\ p[n].call = "RTR" <=> k = 6
          /\ p[n].call = "RTS" <=> k = 7
      BY CallsNamed
    <3>5. p[n].res = QueuePair(j) /\ k \in 1 .. 7
      BY <2>1
    <3> QED BY <3>3, <3>4, <3>5 DEF Transition, before, after
  <2>2. CASE i # j
    <3>1. p[n].res # QueuePair(j)
      <4>1. <<"queuePair", i>> # <<"queuePair", j>>
        BY <2>2
      <4> QED BY <4>1 DEF QueuePair
    <3>2. before = after
      <4>1. i < j => n - (b + 7 * (j - 1)) < 1 /\ n - 1 - (b + 7 * (j - 1)) < 1
        BY <1>1
      <4>2. i > j => n - 1 - (b + 7 * (j - 1)) > 6 /\ n - (b + 7 * (j - 1)) > 6
        BY <1>1
      <4>3. n - 1 - (b + 7 * (j - 1)) \in Int /\ n - (b + 7 * (j - 1)) \in Int /\ (i < j \/ i > j)
        BY <1>1, <2>2
      <4> QED BY <4>1, <4>2, <4>3 DEF StateAfter
    <3> HIDE DEF before, after
    <3> QED BY <3>1, <3>2 DEF before, after
  <2> QED BY <2>1, <2>2
<1>4. n \in 1 .. b \/ n > b + 7 * q \/ n \in b + 1 .. b + 7 * q
  BY <1>1
<1>5. ASSUME n \in b + 1 .. b + 7 * q
      PROVE  IsExchange(p, b, q, n)
  <2>1. n \notin 1 .. b /\ n \notin b + 7 * q + 1 .. r - 1 /\ n \notin r + 2 .. Len(p) /\ n # r /\ n # r + 1
    BY <1>1, <1>5
  <2> QED BY <2>1, <1>6, Zenon DEF Placed
<1> QED BY <1>2, <1>3, <1>4, <1>5

-----------------------------------------------------------------------------
(* What goes over the connection *)

(* The words that endpoint e has written and read before step n of its     *)
(* plan, and word j of those it writes *)
Written(c, e, n) == WrittenBy(Before(c, e), QueuePairsOf(c), RmrPlace(c, e), n)
Read(c, e, n) == ReadBy(Before(c, e), QueuePairsOf(c), RmrPlace(c, e), n)
SentWord(c, e, j) ==
    IF j <= 5 * QueuePairsOf(c) THEN Word(e, ((j - 1) \div 5) + 1, ((j - 1) % 5) + 1)
                                ELSE RmrInfoOf(e)[j - 5 * QueuePairsOf(c)]

LEMMA QueuePairsPositive ==
  \A c \in Class : QueuePairsOf(c) \in Nat /\ QueuePairsOf(c) > 0 /\ \A i \in 1 .. QueuePairsOf(c) : i \in Index
BY LifecycleAssumption DEF QueuePairsOf, Index

LEMMA WordsOfAddress ==
  ASSUME NEW c \in Class, NEW e, NEW i \in 1 .. QueuePairsOf(c), NEW m \in 1 .. 5
  PROVE  SentWord(c, e, 5 * (i - 1) + m) = AddressOf(e, i)[m]
<1> DEFINE j == 5 * (i - 1) + m
           q == QueuePairsOf(c)
<1>1. q \in Nat
  BY QueuePairsPositive
<1> HIDE DEF q
<1>2. j \in Nat /\ j <= 5 * q /\ (j - 1) \div 5 = i - 1 /\ (j - 1) % 5 = m - 1
  <2>1. i \in Nat /\ i > 0 /\ i <= q /\ j - 1 = 5 * (i - 1) + (m - 1)
    BY <1>1 DEF q
  <2> QED BY <1>1, <2>1
<1> HIDE DEF j
<1>3. ((j - 1) \div 5) + 1 = i /\ ((j - 1) % 5) + 1 = m
  <2>1. i \in Int
    BY <1>1 DEF q
  <2> QED BY <1>2, <2>1
<1>4. SentWord(c, e, j) = Word(e, i, m)
  BY <1>2, <1>3 DEF SentWord, q
<1> QED BY <1>4 DEF j, AddressOf

LEMMA WordsOfRmrInfo ==
  ASSUME NEW c \in Class, NEW e, NEW m \in 1 .. 3
  PROVE  SentWord(c, e, 5 * QueuePairsOf(c) + m) = RmrInfoOf(e)[m]
<1> DEFINE q == QueuePairsOf(c)
<1>1. q \in Nat
  BY QueuePairsPositive
<1> HIDE DEF q
<1>2. ~(5 * q + m <= 5 * q) /\ (5 * q + m) - 5 * q = m
  BY <1>1
<1> QED BY <1>2 DEF SentWord, q

LEMMA RecordsListed ==
  /\ \A e, i : Listed(AddressOf(e, i)) /\ Len(AddressOf(e, i)) = 5
  /\ \A e : Listed(RmrInfoOf(e)) /\ Len(RmrInfoOf(e)) = 3
<1>1. ASSUME NEW e, NEW i PROVE Listed(AddressOf(e, i)) /\ Len(AddressOf(e, i)) = 5
  <2> DEFINE f == AddressOf(e, i)
  <2>1. f = [n \in 1 .. 5 |-> f[n]]
    BY DEF AddressOf
  <2> HIDE DEF f
  <2>2. Listed(f) /\ Len(f) = 5
    BY <2>1, FunctionListed
  <2> QED BY <2>2 DEF f
<1>2. ASSUME NEW e PROVE Listed(RmrInfoOf(e)) /\ Len(RmrInfoOf(e)) = 3
  BY ListedFacts, Zenon DEF RmrInfoOf
<1> QED BY <1>1, <1>2

LEMMA SameList ==
  ASSUME NEW a, NEW b, Listed(a), Listed(b), Len(a) = Len(b), \A j \in 1 .. Len(a) : a[j] = b[j]
  PROVE  a = b
<1>1. PICK A : a \in Seq(A)
  BY DEF Listed
<1>2. PICK B : b \in Seq(B)
  BY DEF Listed
<1>3. a \in Seq(A \union B) /\ b \in Seq(A \union B)
  BY <1>1, <1>2, SeqMonotonic
<1> QED BY <1>3, SeqEqual

LEMMA ListedLength == \A s : Listed(s) => Len(s) \in Nat
BY LenProperties DEF Listed

LEMMA ListedPart ==
  ASSUME NEW s, Listed(s), NEW a \in Nat, NEW b \in Nat, a >= 1, b <= Len(s), a <= b + 1
  PROVE  LET t == SubSeq(s, a, b)
         IN  Listed(t) /\ Len(t) = b - a + 1 /\ \A j \in 1 .. Len(t) : t[j] = s[a + j - 1]
<1>1. PICK S : s \in Seq(S)
  BY DEF Listed
<1>2. \A j \in a .. b : s[j] \in S
  <2>1. Len(s) \in Nat
    BY <1>1, LenProperties
  <2>2. \A j \in a .. b : j \in 1 .. Len(s)
    BY <2>1
  <2> QED BY <1>1, <2>2, ElementOfSeq
<1>3. /\ SubSeq(s, a, b) \in Seq(S)
      /\ Len(SubSeq(s, a, b)) = IF a <= b THEN b - a + 1 ELSE 0
      /\ \A j \in 1 .. b - a + 1 : SubSeq(s, a, b)[j] = s[a + j - 1]
  BY <1>2, SubSeqProperties
<1>4. Len(SubSeq(s, a, b)) = b - a + 1
  BY <1>3
<1> QED BY <1>3, <1>4 DEF Listed

(* Reading n words takes them from the stream and puts them over the       *)
(* beginning of the record. *)
LEMMA Taken ==
  ASSUME NEW s, Listed(s), NEW n \in 1 .. Len(s)
  PROVE  LET t == SubSeq(s, n + 1, Len(s))
         IN  Listed(t) /\ Len(t) = Len(s) - n /\ \A j \in 1 .. Len(t) : t[j] = s[n + j]
<1> DEFINE l == Len(s)
           a == n + 1
           t == SubSeq(s, a, l)
<1>1. l \in Nat /\ n \in Nat /\ n <= l /\ n \in 1 .. l
  BY ListedLength
<1> HIDE DEF l
<1>2. a \in Nat /\ a >= 1 /\ a <= l + 1 /\ l <= Len(s)
  BY <1>1 DEF l
<1> HIDE DEF a
<1>3. Listed(t) /\ Len(t) = l - a + 1 /\ \A j \in 1 .. Len(t) : t[j] = s[a + j - 1]
  BY <1>1, <1>2, ListedPart
<1> HIDE DEF t
<1>4. Len(t) = l - n /\ \A j \in 1 .. Len(t) : a + j - 1 = n + j
  BY <1>1, <1>3 DEF a
<1> QED BY <1>3, <1>4 DEF t, a, l

LEMMA Overwritten ==
  ASSUME NEW s, Listed(s), NEW record, Listed(record), NEW n \in 1 .. Len(s), n <= Len(record)
  PROVE  LET u == SubSeq(s, 1, n) \o SubSeq(record, n + 1, Len(record))
         IN  /\ Listed(u) /\ Len(u) = Len(record)
             /\ \A j \in 1 .. n : u[j] = s[j]
             /\ \A j \in n + 1 .. Len(record) : u[j] = record[j]
<1> DEFINE l == Len(record)
           a == SubSeq(s, 1, n)
           m == n + 1
           b == SubSeq(record, m, l)
           u == a \o b
           one == 1
<1>1. n \in Nat /\ n >= 1 /\ n <= Len(s) /\ n <= l /\ l \in Nat /\ m \in Nat /\ m >= 1 /\ m <= l + 1 /\ one \in Nat
      /\ Len(s) \in Nat
  BY ListedLength
<1>2. Listed(a) /\ Len(a) = n /\ \A j \in 1 .. n : a[j] = s[j]
  <2> DEFINE v == SubSeq(s, one, n)
  <2>1. one >= 1 /\ n <= Len(s) /\ one <= n + 1
    BY <1>1
  <2> HIDE DEF one
  <2>2. Listed(v) /\ Len(v) = n - one + 1 /\ \A j \in 1 .. Len(v) : v[j] = s[one + j - 1]
    BY <1>1, <2>1, ListedPart
  <2> HIDE DEF v
  <2>3. Len(v) = n /\ \A j \in 1 .. n : one + j - 1 = j
    BY <1>1, <2>2 DEF one
  <2>4. Listed(v) /\ Len(v) = n /\ \A j \in 1 .. n : v[j] = s[j]
    BY <2>2, <2>3
  <2> QED BY <2>4 DEF v, one
<1> HIDE DEF a, m
<1>3. Listed(b) /\ Len(b) = l - m + 1 /\ \A j \in 1 .. Len(b) : b[j] = record[m + j - 1]
  <2>1. l <= Len(record)
    BY <1>1
  <2> HIDE DEF l
  <2> QED BY <1>1, <2>1, ListedPart
<1> HIDE DEF b, l
<1>4. Listed(u) /\ IsConcat(u, a, b)
  BY <1>2, <1>3, ListedConcat, Zenon
<1> HIDE DEF u
<1>5. Len(u) = l
  BY <1>1, <1>2, <1>3, <1>4 DEF IsConcat, m
<1>6. \A j \in 1 .. n : u[j] = s[j]
  BY <1>2, <1>4 DEF IsConcat
<1>7. ASSUME NEW j \in m .. l PROVE u[j] = record[j]
  <2> DEFINE k == j - n
  <2>1. k \in 1 .. Len(b) /\ n + k = j /\ m + k - 1 = j
    BY <1>1, <1>3 DEF m
  <2> HIDE DEF k
  <2>2. u[n + k] = b[k] /\ b[k] = record[m + k - 1]
    BY <1>2, <1>3, <1>4, <2>1 DEF IsConcat
  <2> QED BY <2>1, <2>2
<1> QED BY <1>4, <1>5, <1>6, <1>7 DEF u, a, b, m, l

(* The address of a queue pair leads back to it: this needs GidSurvives.   *)
LEMMA AddressLeads ==
  ASSUME NEW e \in Endpoint, NEW i \in Index
  PROVE  DestinationOf(AddressOf(e, i)) = Destination(e, i)
<1> DEFINE a == AddressOf(e, i)
<1>1. \E x \in Endpoint, j \in Index : a = AddressOf(x, j)
  OBVIOUS
<1>2. a[1] = <<e, i, 1>>
  BY DEF AddressOf, Word
<1>3. a[1][1] = e /\ a[1][2] = i
  BY <1>2
<1>4. ParsedGid[e] = PortGid[e]
  <2>1. PortGid[e] \in [1 .. 16 -> Byte]
    BY BootstrapAssumption DEF Byte
  <2>2. WireGid[e] = gid_to_wire_gid(PortGid[e]) /\ ParsedGid[e] = wire_gid_to_gid(WireGid[e])
    BY DEF WireGid, ParsedGid
  <2> QED BY <2>1, <2>2, GidSurvives
<1> HIDE DEF a
<1>5. DestinationOf(a) = [of |-> e, qpn |-> i, gid |-> PortGid[e]]
  BY <1>1, <1>3, <1>4 DEF DestinationOf
<1> QED BY <1>5 DEF a, Destination

-----------------------------------------------------------------------------
(* The inductive invariant of the bootstrap *)

Phases == {"constructing", "ready", "unwinding", "closing", "dead", "aborted", "unwound", "closed"}
QueuePairState == {"none", "RESET"} \union Transition

(* A value for each endpoint *)
Family(f) == f = [e \in Endpoint |-> f[e]]

BootTyped ==
    /\ class \in Class /\ phase \in [Endpoint -> Phases] /\ at \in [Endpoint -> Nat]
    /\ qpState \in [Endpoint -> [Index -> QueuePairState]]
    /\ Family(live) /\ Family(addr) /\ Family(stream) /\ Family(misread) /\ Family(dest) /\ Family(remote)
    /\ \A e \in Endpoint :
          /\ Listed(addr[e]) /\ Len(addr[e]) = 5
          /\ Listed(remote[e]) /\ Len(remote[e]) = 3
          /\ Listed(stream[e])
          /\ misread[e] \in BOOLEAN
          /\ dest[e] = [i \in Index |-> dest[e][i]]

Active(e) == phase[e] \in {"constructing", "ready"}

(* What e reads is what its peer wrote, in step. *)
Sound(e) == ~misread[e] /\ ~Closed(Peer(e))

Positions ==
    \A e \in Endpoint :
        /\ phase[e] = "constructing" => at[e] \in 1 .. Len(Plan[class][e])
        /\ phase[e] = "ready" => at[e] = Len(Plan[class][e]) + 1

(* The stream holds the words that the peer has written beyond those that  *)
(* e has read. *)
StreamOf(e) ==
    Sound(e) =>
        LET s == stream[Peer(e)]
            read == Read(class, e, at[e])
        IN  /\ Len(s) = Written(class, Peer(e), at[Peer(e)]) - read
            /\ \A j \in 1 .. Len(s) : s[j] = SentWord(class, Peer(e), read + j)
Streams == \A e \in Endpoint : StreamOf(e)

(* The record holds the address of the queue pair being connected, and     *)
(* then that of its peer; at the end, the peer's descriptors are there.    *)
AddressesOf(e) ==
    \A i \in 1 .. QueuePairsOf(class) :
        /\ at[e] = Place(class, e, i, 3) => addr[e] = AddressOf(e, i)
        /\ at[e] \in {Place(class, e, i, 5), Place(class, e, i, 6)} /\ Sound(e) => addr[e] = AddressOf(Peer(e), i)
RemoteOf(e) == at[e] > RmrPlace(class, e) + 1 /\ Sound(e) => remote[e] = RmrInfoOf(Peer(e))
Records == \A e \in Endpoint : AddressesOf(e) /\ RemoteOf(e)

(* As long as nothing was given back, queue pairs and resources are what   *)
(* the steps so far have made them. *)
StatesOf(e) ==
    Active(e) => \A i \in 1 .. QueuePairsOf(class) :
                    qpState[e][i] = StateAfter(at[e] - 1 - Place(class, e, i, 0))
LivesOf(e) ==
    Active(e) => \A n \in 1 .. at[e] - 1 :
                    Plan[class][e][n].call = "acquire" => Plan[class][e][n].res \in live[e]
Built == \A e \in Endpoint : StatesOf(e) /\ LivesOf(e)

BootInv == BootTyped /\ Positions /\ Streams /\ Records /\ Built /\ Paired

LEMMA Peers ==
  ASSUME NEW e \in Endpoint
  PROVE  /\ Peer(e) \in Endpoint /\ Peer(e) # e /\ Peer(Peer(e)) = e
         /\ \A x \in Endpoint : x = e \/ x = Peer(e)
BY DEF Endpoint, Peer

-----------------------------------------------------------------------------
(* A step of a constructor that is done *)

(* The counts of StepCounts, for a step of a plan of a class *)
StepCounts(c, e, n) ==
    LET step == Plan[c][e][n]
        q == QueuePairsOf(c)
    IN  /\ n \in Nat /\ n > 0
        /\ Written(c, e, n) \in Nat /\ Read(c, e, n) \in Nat
        /\ step.call = "write" =>
              Written(c, e, n + 1) = Written(c, e, n) + 5
        /\ step.call = "sendRmr" =>
              Written(c, e, n + 1) = Written(c, e, n) + 3 /\ Written(c, e, n) = 5 * q
        /\ step.call \notin {"write", "sendRmr"} => Written(c, e, n + 1) = Written(c, e, n)
        /\ step.call = "read" => Read(c, e, n + 1) = Read(c, e, n) + 5
        /\ step.call = "receiveRmr" =>
              Read(c, e, n + 1) = Read(c, e, n) + 3 /\ Read(c, e, n) = 5 * q /\ n = RmrPlace(c, e) + 1
        /\ step.call \notin {"read", "receiveRmr"} => Read(c, e, n + 1) = Read(c, e, n)
        /\ step.call = "query device" => n > RmrPlace(c, e) + 1
        /\ step.call \in {"query", "write", "read"} \union Transition =>
              \E i \in 1 .. q, k \in 1 .. 7 :
                 /\ n = Place(c, e, i, k) /\ step.call = ExchangeCalls[k]
                 /\ step.res = QueuePair(i) /\ step.res[2] = i
                 /\ k = 3 => Written(c, e, n) = 5 * (i - 1)
                 /\ k = 4 => Read(c, e, n) = 5 * (i - 1)

LEMMA StepCounted ==
  ASSUME NEW c \in Class, NEW e \in Endpoint, NEW n \in 1 .. Len(Plan[c][e])
  PROVE  StepCounts(c, e, n)
<1> DEFINE p == Plan[c][e]
           b == Before(c, e)
           q == QueuePairsOf(c)
           r == RmrPlace(c, e)
<1>1. Shape(p, b, q, r)
  BY PlanShape
<1>2. n \in 1 .. Len(p) /\ Len(p) \in Nat
  BY <1>1 DEF Shape
<1>3. Counts(p, b, q, r, n)
  BY <1>1, <1>2, Counting, Zenon
<1>4. /\ \A m : Written(c, e, m) = WrittenBy(b, q, r, m) /\ Read(c, e, m) = ReadBy(b, q, r, m)
      /\ \A i, k : Place(c, e, i, k) = b + 7 * (i - 1) + k
  BY DEF Written, Read, Place
<1>5. \A i : QueuePair(i)[2] = i
  BY DEF QueuePair
<1> DEFINE w == Written(c, e, n)
           x == Read(c, e, n)
           w1 == Written(c, e, n + 1)
           x1 == Read(c, e, n + 1)
           call == p[n].call
<1>6. /\ w \in Nat /\ x \in Nat
      /\ w1 = w + (IF call = "write" THEN 5 ELSE IF call = "sendRmr" THEN 3 ELSE 0)
      /\ x1 = x + (IF call = "read" THEN 5 ELSE IF call = "receiveRmr" THEN 3 ELSE 0)
      /\ call = "sendRmr" => w = 5 * q
      /\ call = "receiveRmr" => n = r + 1 /\ x = 5 * q
      /\ call = "query device" => n > r + 1
  BY <1>3, <1>4, Zenon DEF Counts
<1>7. call \in {"query", "write", "read"} \union Transition =>
              \E i \in 1 .. q, k \in 1 .. 7 :
                 /\ n = Place(c, e, i, k) /\ call = ExchangeCalls[k]
                 /\ p[n].res = QueuePair(i) /\ p[n].res[2] = i
                 /\ k = 3 => w = 5 * (i - 1)
                 /\ k = 4 => x = 5 * (i - 1)
  <2> SUFFICES ASSUME call \in {"query", "write", "read"} \union Transition
               PROVE  \E i \in 1 .. q, k \in 1 .. 7 :
                         /\ n = Place(c, e, i, k) /\ call = ExchangeCalls[k]
                         /\ p[n].res = QueuePair(i) /\ p[n].res[2] = i
                         /\ k = 3 => w = 5 * (i - 1)
                         /\ k = 4 => x = 5 * (i - 1)
    OBVIOUS
  <2>1. PICK i \in 1 .. q, k \in 1 .. 7 :
           /\ n = b + 7 * (i - 1) + k /\ call = ExchangeCalls[k] /\ p[n].res = QueuePair(i)
           /\ k = 3 => w = 5 * (i - 1)
           /\ k = 4 => x = 5 * (i - 1)
    BY <1>3, <1>4, Zenon DEF Counts
  <2>2. n = Place(c, e, i, k) /\ p[n].res[2] = i
    BY <1>4, <1>5, <2>1, Zenon
  <2> QED BY <2>1, <2>2, Zenon
<1> HIDE DEF w, x, w1, x1, call
<1>8. /\ call = "write" => w1 = w + 5
      /\ call = "sendRmr" => w1 = w + 3
      /\ call \notin {"write", "sendRmr"} => w1 = w
      /\ call = "read" => x1 = x + 5
      /\ call = "receiveRmr" => x1 = x + 3
      /\ call \notin {"read", "receiveRmr"} => x1 = x
  <2>1. /\ w \in Nat /\ w1 = w + (IF call = "write" THEN 5 ELSE IF call = "sendRmr" THEN 3 ELSE 0)
        /\ x \in Nat /\ x1 = x + (IF call = "read" THEN 5 ELSE IF call = "receiveRmr" THEN 3 ELSE 0)
    BY <1>6
  <2>2. call = "write" => w1 = w + 5
    BY <2>1
  <2>3. call = "sendRmr" => w1 = w + 3
    BY <2>1
  <2>4. call \notin {"write", "sendRmr"} => w1 = w
    BY <2>1
  <2>5. call = "read" => x1 = x + 5
    BY <2>1
  <2>6. call = "receiveRmr" => x1 = x + 3
    BY <2>1
  <2>7. call \notin {"read", "receiveRmr"} => x1 = x
    BY <2>1
  <2> QED BY <2>2, <2>3, <2>4, <2>5, <2>6, <2>7
<1>9. n \in Nat /\ n > 0
  BY <1>2
<1> HIDE DEF p, q, r
<1> QED BY <1>6, <1>7, <1>8, <1>9, Zenon DEF StepCounts, p, q, r, w, x, w1, x1, call

LEMMA ReadNatural ==
  \A c \in Class, e \in Endpoint, n \in Nat : Written(c, e, n) \in Nat /\ Read(c, e, n) \in Nat
<1> SUFFICES ASSUME NEW c \in Class, NEW e \in Endpoint, NEW n \in Nat
             PROVE  Written(c, e, n) \in Nat /\ Read(c, e, n) \in Nat
  OBVIOUS
<1> DEFINE b == Before(c, e)
           q == QueuePairsOf(c)
           d == Done(b, q, n)
<1>1. b \in Nat /\ q \in Nat
  BY PlanShape DEF Shape
<1> HIDE DEF b, q
<1>2. d \in Nat
  BY <1>1 DEF Done
<1> HIDE DEF d
<1>3. (d + 4) \div 7 \in Nat /\ (d + 3) \div 7 \in Nat
  BY <1>2
<1> QED BY <1>3 DEF Written, Read, WrittenBy, ReadBy, b, q, d

(* Only the endpoint that takes it advances. *)
Advanced(e) ==
    /\ class' = class
    /\ at[e] \in 1 .. Len(Plan[class][e]) /\ Len(Plan[class][e]) \in Nat
    /\ at'[e] = at[e] + 1 /\ at'[Peer(e)] = at[Peer(e)]
    /\ phase'[e] \in {"constructing", "ready"} /\ phase'[Peer(e)] = phase[Peer(e)]
    /\ \A x \in Endpoint : (Closed(x)' <=> Closed(x)) /\ (Active(x)' <=> Active(x))

LEMMA Proceeding ==
  ASSUME BootTyped, Positions, NEW e \in Endpoint, phase[e] = "constructing", Proceed(e)
  PROVE  Advanced(e) /\ Positions' /\ at' \in [Endpoint -> Nat] /\ phase' \in [Endpoint -> Phases] /\ Family(live)'
<1>1. /\ class' = class /\ at' = [at EXCEPT ![e] = @ + 1]
      /\ phase' = IF at[e] = Len(Plan[class][e]) THEN [phase EXCEPT ![e] = "ready"] ELSE phase
  BY DEF Proceed, Phase
<1>2. /\ at \in [Endpoint -> Nat] /\ phase \in [Endpoint -> Phases] /\ class \in Class
  BY DEF BootTyped
<1>3. at[e] \in 1 .. Len(Plan[class][e]) /\ Len(Plan[class][e]) \in Nat
  BY <1>2, PlanShape DEF Positions, Shape
<1>4. at'[e] = at[e] + 1 /\ at'[Peer(e)] = at[Peer(e)] /\ at' \in [Endpoint -> Nat]
  BY <1>1, <1>2, Peers
<1>5. /\ phase'[e] = (IF at[e] = Len(Plan[class][e]) THEN "ready" ELSE "constructing")
      /\ phase'[Peer(e)] = phase[Peer(e)] /\ phase' \in [Endpoint -> Phases]
  BY <1>1, <1>2, Peers DEF Phases
<1>6. \A x \in Endpoint : (Closed(x)' <=> Closed(x)) /\ (Active(x)' <=> Active(x))
  BY <1>5, Peers DEF Closed, Active
<1>7. Positions'
  <2> SUFFICES ASSUME NEW x \in Endpoint
               PROVE  /\ phase'[x] = "constructing" => at'[x] \in 1 .. Len(Plan[class][x])
                      /\ phase'[x] = "ready" => at'[x] = Len(Plan[class][x]) + 1
    BY <1>1 DEF Positions
  <2> DEFINE l == Len(Plan[class][e])
  <2> HIDE DEF l
  <2>1. CASE x = e
    <3>1. at[e] \in 1 .. l /\ l \in Nat /\ phase'[e] = (IF at[e] = l THEN "ready" ELSE "constructing")
      BY <1>3, <1>5 DEF l
    <3> QED BY <1>4, <2>1, <3>1 DEF l
  <2>2. CASE x = Peer(e)
    BY <1>4, <1>5, <2>2 DEF Positions
  <2> QED BY <2>1, <2>2, Peers
<1>8. Family(live)'
  BY DEF BootTyped, Family, Proceed
<1>9. phase'[e] \in {"constructing", "ready"}
  BY <1>5
<1> QED BY <1>1, <1>3, <1>4, <1>5, <1>6, <1>7, <1>8, <1>9 DEF Advanced

LEMMA AdvanceCounted ==
  ASSUME BootTyped, NEW e \in Endpoint, Advanced(e)
  PROVE  StepCounts(class, e, at[e])
BY StepCounted DEF BootTyped, Advanced

(* What e is about to do with the connection: nothing, to write a record,  *)
(* or to read one. *)
Waits(e) == Step(e).call \notin TcpCalls /\ stream' = stream
Writes(e, record) ==
    /\ Listed(record) /\ stream' = [stream EXCEPT ![e] = @ \o record]
    /\ Read(class, e, at[e] + 1) = Read(class, e, at[e])
    /\ Written(class, e, at[e] + 1) = Written(class, e, at[e]) + Len(record)
    /\ \A m \in 1 .. Len(record) : record[m] = SentWord(class, e, Written(class, e, at[e]) + m)
Reads(e, size) ==
    /\ size \in Nat /\ stream'[e] = stream[e]
    /\ Written(class, e, at[e] + 1) = Written(class, e, at[e])
    /\ Read(class, e, at[e] + 1) = Read(class, e, at[e]) + size
    /\ Sound(e)' => LET s == stream[Peer(e)]
                    IN  size \in 1 .. Len(s) /\ stream'[Peer(e)] = SubSeq(s, size + 1, Len(s))

(* e makes no worse what is read from it and what it reads. *)
Careful(e) == misread'[Peer(e)] = misread[Peer(e)] /\ (misread[e] => misread'[e])

LEMMA StaysSound ==
  ASSUME NEW e \in Endpoint, Advanced(e), Careful(e)
  PROVE  \A x \in Endpoint : Sound(x)' => Sound(x)
<1> SUFFICES ASSUME NEW x \in Endpoint, ~misread'[x], ~Closed(Peer(x))' PROVE Sound(x)
  BY DEF Sound
<1>1. ~Closed(Peer(x))
  BY Peers DEF Advanced
<1>2. ~misread[x]
  BY Peers DEF Careful
<1> QED BY <1>1, <1>2 DEF Sound

LEMMA StreamStays ==
  ASSUME NEW x \in Endpoint, StreamOf(x), class' = class, stream'[Peer(x)] = stream[Peer(x)],
         Written(class, Peer(x), at'[Peer(x)]) = Written(class, Peer(x), at[Peer(x)]),
         Read(class, x, at'[x]) = Read(class, x, at[x]),
         Sound(x)' => Sound(x)
  PROVE  StreamOf(x)'
BY DEF StreamOf

LEMMA StreamsWait ==
  ASSUME BootTyped, Streams, NEW e \in Endpoint, Advanced(e), Careful(e), Waits(e)
  PROVE  Streams'
<1>1. class' = class /\ at'[e] = at[e] + 1 /\ at'[Peer(e)] = at[Peer(e)] /\ stream' = stream
  BY DEF Advanced, Waits
<1>2. /\ Written(class, e, at[e] + 1) = Written(class, e, at[e])
      /\ Read(class, e, at[e] + 1) = Read(class, e, at[e])
  BY AdvanceCounted DEF StepCounts, Waits, TcpCalls, Step
<1>3. \A x \in Endpoint : /\ Written(class, x, at'[x]) = Written(class, x, at[x])
                          /\ Read(class, x, at'[x]) = Read(class, x, at[x])
  BY <1>1, <1>2, Peers
<1>4. ASSUME NEW x \in Endpoint PROVE StreamOf(x)'
  <2>1. StreamOf(x) /\ Peer(x) \in Endpoint /\ (Sound(x)' => Sound(x))
    BY Peers, StaysSound DEF Streams
  <2>2. stream'[Peer(x)] = stream[Peer(x)]
    BY <1>1
  <2> QED BY <1>1, <1>3, <2>1, <2>2, StreamStays
<1> QED BY <1>4 DEF Streams

LEMMA StreamsWrite ==
  ASSUME BootTyped, Streams, NEW e \in Endpoint, Advanced(e), Careful(e), NEW record, Writes(e, record)
  PROVE  Streams'
<1> DEFINE d == Peer(e)
           s == stream[e]
           t == s \o record
           w == Written(class, e, at[e])
           x == Read(class, d, at[d])
<1>1. class' = class /\ at'[e] = at[e] + 1 /\ at'[d] = at[d]
  BY DEF Advanced
<1>2. d \in Endpoint /\ d # e /\ Peer(d) = e /\ \A y \in Endpoint : y = e \/ y = d
  BY Peers
<1>3. stream'[e] = t /\ stream'[d] = stream[d] /\ Listed(s) /\ Listed(record)
  BY <1>2 DEF Writes, BootTyped, Family
<1>4. StreamOf(e)'
  <2>1. stream'[Peer(e)] = stream[Peer(e)] /\ at'[Peer(e)] = at[Peer(e)]
    BY <1>1, <1>3
  <2>2. Read(class, e, at'[e]) = Read(class, e, at[e])
    BY <1>1 DEF Writes
  <2>3. Sound(e)' => Sound(e)
    BY StaysSound
  <2> QED BY <1>1, <2>1, <2>2, <2>3, StreamStays DEF Streams
<1>5. StreamOf(d)'
  <2> SUFFICES ASSUME Sound(d)'
               PROVE  /\ Len(t) = Written(class, e, at[e] + 1) - x
                      /\ \A j \in 1 .. Len(t) : t[j] = SentWord(class, e, x + j)
    BY <1>1, <1>2, <1>3 DEF StreamOf
  <2>1. Sound(d)
    BY <1>2, StaysSound
  <2>2. Len(s) = w - x /\ \A j \in 1 .. Len(s) : s[j] = SentWord(class, e, x + j)
    BY <1>2, <2>1 DEF Streams, StreamOf
  <2>3. IsConcat(t, s, record)
    BY <1>3, ListedConcat, Zenon
  <2>4. w \in Nat /\ x \in Nat
    <3>1. w \in Nat
      BY AdvanceCounted DEF StepCounts
    <3>2. x \in Nat
      BY <1>2, ReadNatural DEF BootTyped
    <3> QED BY <3>1, <3>2
  <2>5. Written(class, e, at[e] + 1) = w + Len(record) /\ \A m \in 1 .. Len(record) : record[m] = SentWord(class, e, w + m)
    BY DEF Writes
  <2> HIDE DEF s, t, w, x
  <2>6. Len(t) = Len(s) + Len(record) /\ Len(s) \in Nat /\ Len(record) \in Nat
    BY <2>3 DEF IsConcat
  <2>7. Len(t) = (w + Len(record)) - x
    BY <2>2, <2>4, <2>6
  <2>8. ASSUME NEW j \in 1 .. Len(t) PROVE t[j] = SentWord(class, e, x + j)
    <3>1. CASE j \in 1 .. Len(s)
      BY <2>2, <2>3, <3>1 DEF IsConcat
    <3>2. CASE j - Len(s) \in 1 .. Len(record)
      <4> DEFINE m == j - Len(s)
      <4>1. w + m = x + j /\ Len(s) + m = j
        BY <2>2, <2>4, <2>6
      <4> HIDE DEF m
      <4>2. t[Len(s) + m] = record[m] /\ record[m] = SentWord(class, e, w + m)
        BY <2>3, <2>5, <3>2 DEF IsConcat, m
      <4> QED BY <4>1, <4>2
    <3>3. j \in 1 .. Len(s) \/ j - Len(s) \in 1 .. Len(record)
      BY <2>6
    <3> QED BY <3>1, <3>2, <3>3
  <2> QED BY <2>5, <2>7, <2>8
<1> QED BY <1>2, <1>4, <1>5 DEF Streams

LEMMA StreamsRead ==
  ASSUME BootTyped, Streams, NEW e \in Endpoint, Advanced(e), Careful(e), NEW size, Reads(e, size)
  PROVE  Streams'
<1> DEFINE d == Peer(e)
           s == stream[d]
           t == SubSeq(s, size + 1, Len(s))
           w == Written(class, d, at[d])
           x == Read(class, e, at[e])
<1>1. class' = class /\ at'[e] = at[e] + 1 /\ at'[d] = at[d]
  BY DEF Advanced
<1>2. d \in Endpoint /\ d # e /\ Peer(d) = e /\ \A y \in Endpoint : y = e \/ y = d
  BY Peers
<1>3. StreamOf(d)'
  <2>1. stream'[Peer(d)] = stream[Peer(d)]
    BY <1>2 DEF Reads
  <2>2. Written(class, Peer(d), at'[Peer(d)]) = Written(class, Peer(d), at[Peer(d)])
    BY <1>1, <1>2 DEF Reads
  <2>3. Read(class, d, at'[d]) = Read(class, d, at[d])
    BY <1>1
  <2>4. StreamOf(d) /\ (Sound(d)' => Sound(d))
    BY <1>2, StaysSound DEF Streams
  <2> QED BY <1>1, <1>2, <2>1, <2>2, <2>3, <2>4, StreamStays
<1>4. StreamOf(e)'
  <2>0. Read(class, e, at[e] + 1) = x + size /\ size \in Nat
    BY DEF Reads
  <2> SUFFICES ASSUME Sound(e)'
               PROVE  /\ Len(stream'[d]) = w - (x + size)
                      /\ \A j \in 1 .. Len(stream'[d]) : stream'[d][j] = SentWord(class, d, x + size + j)
    BY <1>1, <1>2, <2>0 DEF StreamOf
  <2>1. size \in 1 .. Len(s) /\ stream'[d] = t
    BY DEF Reads
  <2>2. Len(s) = w - x /\ \A j \in 1 .. Len(s) : s[j] = SentWord(class, d, x + j)
    BY <1>2, StaysSound DEF Streams, StreamOf
  <2>3. w \in Nat /\ x \in Nat
    <3>1. x \in Nat
      BY AdvanceCounted DEF StepCounts
    <3>2. w \in Nat
      BY <1>2, ReadNatural DEF BootTyped
    <3> QED BY <3>1, <3>2
  <2>4. Listed(s)
    BY <1>2 DEF BootTyped
  <2>5. Len(t) = Len(s) - size /\ \A j \in 1 .. Len(t) : t[j] = s[size + j]
    BY <2>1, <2>4, Taken
  <2>6. Len(s) \in Nat
    BY <2>4, ListedLength
  <2> HIDE DEF s, t, w, x
  <2>7. Len(t) = w - (x + size)
    BY <2>0, <2>2, <2>3, <2>5
  <2>8. ASSUME NEW j \in 1 .. Len(t) PROVE t[j] = SentWord(class, d, x + size + j)
    <3>1. size + j \in 1 .. Len(s) /\ x + (size + j) = x + size + j
      BY <2>0, <2>3, <2>5, <2>6
    <3>2. s[size + j] = SentWord(class, d, x + (size + j))
      BY <2>2, <3>1
    <3> QED BY <2>5, <3>1, <3>2
  <2> QED BY <2>1, <2>7, <2>8
<1> QED BY <1>2, <1>3, <1>4 DEF Streams

LEMMA PlaceCall ==
  ASSUME NEW c \in Class, NEW e \in Endpoint, NEW i \in 1 .. QueuePairsOf(c), NEW k \in 1 .. 7,
         NEW n, n = Place(c, e, i, k)
  PROVE  Plan[c][e][n].call = ExchangeCalls[k] /\ Plan[c][e][n].res = QueuePair(i)
BY PlanShape DEF Shape, Place

LEMMA PlaceNumbers ==
  ASSUME NEW c \in Class, NEW e \in Endpoint
  PROVE  /\ Before(c, e) \in Nat /\ RmrPlace(c, e) \in Nat
         /\ Plan[c][e][RmrPlace(c, e) + 1].call = "receiveRmr"
         /\ \A i \in 1 .. QueuePairsOf(c), k \in 0 .. 7 :
               i \in Nat /\ Place(c, e, i, k) \in Nat /\ Place(c, e, i, k) = Before(c, e) + 7 * (i - 1) + k
<1>1. Before(c, e) \in Nat /\ RmrPlace(c, e) \in Nat /\ Plan[c][e][RmrPlace(c, e) + 1].call = "receiveRmr"
  BY PlanShape DEF Shape
<1>2. QueuePairsOf(c) \in Nat
  BY QueuePairsPositive
<1>3. ASSUME NEW i \in 1 .. QueuePairsOf(c), NEW k \in 0 .. 7
      PROVE  i \in Nat /\ Place(c, e, i, k) \in Nat /\ Place(c, e, i, k) = Before(c, e) + 7 * (i - 1) + k
  <2> DEFINE b == Before(c, e)
             q == QueuePairsOf(c)
  <2> HIDE DEF b, q
  <2>1. i \in Nat /\ i > 0
    BY <1>2 DEF q
  <2>2. b \in Nat
    BY <1>1 DEF b
  <2>3. b + 7 * (i - 1) + k \in Nat
    BY <2>1, <2>2
  <2> QED BY <2>1, <2>3 DEF Place, b
<1> QED BY <1>1, <1>3

(* What the step makes of the records ... *)
RecordsOf(e) ==
    /\ addr'[Peer(e)] = addr[Peer(e)] /\ remote'[Peer(e)] = remote[Peer(e)]
    /\ Step(e).call = "query" => addr'[e] = AddressOf(e, Current(e))
    /\ Step(e).call = "read" /\ Sound(e)' => addr'[e] = AddressOf(Peer(e), Current(e))
    /\ Step(e).call \notin {"query", "read"} => addr'[e] = addr[e]
    /\ Step(e).call = "receiveRmr" /\ Sound(e)' => remote'[e] = RmrInfoOf(Peer(e))
    /\ Step(e).call # "receiveRmr" => remote'[e] = remote[e]

LEMMA RecordsProceed ==
  ASSUME BootTyped, Records, NEW e \in Endpoint, Advanced(e), Careful(e), RecordsOf(e)
  PROVE  Records'
<1> DEFINE d == Peer(e)
           n == at[e]
<1>1. class' = class /\ at'[e] = n + 1 /\ at'[d] = at[d] /\ n \in Nat /\ class \in Class
  BY DEF Advanced, BootTyped
<1>2. d \in Endpoint /\ d # e /\ Peer(d) = e /\ \A y \in Endpoint : y = e \/ y = d
  BY Peers
<1>3. \A x \in Endpoint : Sound(x)' => Sound(x)
  BY StaysSound
<1>4. AddressesOf(d)' /\ RemoteOf(d)'
  <2>1. addr'[d] = addr[d] /\ remote'[d] = remote[d]
    BY DEF RecordsOf
  <2>2. AddressesOf(d) /\ RemoteOf(d) /\ (Sound(d)' => Sound(d))
    BY <1>2, <1>3 DEF Records
  <2>3. AddressesOf(d)'
    <3> SUFFICES ASSUME NEW i \in 1 .. QueuePairsOf(class)
                 PROVE  /\ at[d] = Place(class, d, i, 3) => addr'[d] = AddressOf(d, i)
                        /\ at[d] \in {Place(class, d, i, 5), Place(class, d, i, 6)} /\ Sound(d)' =>
                              addr'[d] = AddressOf(Peer(d), i)
      BY <1>1 DEF AddressesOf
    <3> QED BY <2>1, <2>2 DEF AddressesOf
  <2>4. RemoteOf(d)'
    BY <1>1, <2>1, <2>2 DEF RemoteOf
  <2> QED BY <2>3, <2>4
<1> HIDE DEF n
<1>5. AddressesOf(e)'
  <2> SUFFICES ASSUME NEW i \in 1 .. QueuePairsOf(class)
               PROVE  /\ n + 1 = Place(class, e, i, 3) => addr'[e] = AddressOf(e, i)
                      /\ n + 1 \in {Place(class, e, i, 5), Place(class, e, i, 6)} /\ Sound(e)' =>
                            addr'[e] = AddressOf(d, i)
    BY <1>1 DEF AddressesOf
  <2>1. \A k \in 1 .. 7 : n + 1 = Place(class, e, i, k) => n = Place(class, e, i, k - 1)
    <3> SUFFICES ASSUME NEW k \in 1 .. 7, n + 1 = Place(class, e, i, k) PROVE n = Place(class, e, i, k - 1)
      OBVIOUS
    <3>1. k \in 0 .. 7 /\ k - 1 \in 0 .. 7
      OBVIOUS
    <3>2. /\ i \in Nat /\ Before(class, e) \in Nat
          /\ Place(class, e, i, k) = Before(class, e) + 7 * (i - 1) + k
          /\ Place(class, e, i, k - 1) = Before(class, e) + 7 * (i - 1) + (k - 1)
      BY <1>1, <3>1, PlaceNumbers
    <3> QED BY <1>1, <3>2
  <2>2. \A k \in 1 .. 7 : n = Place(class, e, i, k) => Step(e).call = ExchangeCalls[k] /\ Current(e) = i
    BY <1>1, PlaceCall DEF Step, Current, QueuePair, n
  <2>3. ASSUME n + 1 = Place(class, e, i, 3) PROVE addr'[e] = AddressOf(e, i)
    <3>1. n = Place(class, e, i, 2)
      <4>1. 3 \in 1 .. 7 /\ 3 - 1 = 2
        OBVIOUS
      <4> QED BY <2>1, <2>3, <4>1
    <3> QED BY <2>2, <3>1, CallsNamed DEF RecordsOf
  <2>4. ASSUME n + 1 = Place(class, e, i, 5), Sound(e)' PROVE addr'[e] = AddressOf(d, i)
    <3>1. n = Place(class, e, i, 4)
      <4>1. 5 \in 1 .. 7 /\ 5 - 1 = 4
        OBVIOUS
      <4> QED BY <2>1, <2>4, <4>1
    <3> QED BY <2>2, <2>4, <3>1, CallsNamed DEF RecordsOf
  <2>5. ASSUME n + 1 = Place(class, e, i, 6), Sound(e)' PROVE addr'[e] = AddressOf(d, i)
    <3>1. n = Place(class, e, i, 5)
      <4>1. 6 \in 1 .. 7 /\ 6 - 1 = 5
        OBVIOUS
      <4> QED BY <2>1, <2>5, <4>1
    <3>2. addr'[e] = addr[e]
      BY <2>2, <3>1, CallsNamed DEF RecordsOf
    <3>3. AddressesOf(e) /\ Sound(e)
      BY <1>3, <2>5 DEF Records
    <3> QED BY <3>1, <3>2, <3>3 DEF AddressesOf, n
  <2> QED BY <2>3, <2>4, <2>5
<1>6. RemoteOf(e)'
  <2> DEFINE r == RmrPlace(class, e)
  <2> SUFFICES ASSUME n + 1 > r + 1, Sound(e)' PROVE remote'[e] = RmrInfoOf(d)
    BY <1>1 DEF RemoteOf
  <2>1. r \in Nat /\ Plan[class][e][r + 1].call = "receiveRmr"
    BY <1>1, PlaceNumbers
  <2> HIDE DEF r
  <2>2. CASE n = r + 1
    <3>1. Step(e).call = "receiveRmr"
      BY <2>1, <2>2 DEF Step, n
    <3> QED BY <3>1 DEF RecordsOf
  <2>3. CASE n > r + 1
    <3>1. Step(e).call # "receiveRmr"
      <4>1. StepCounts(class, e, n)
        BY AdvanceCounted DEF n
      <4>2. Step(e).call = "receiveRmr" => n = r + 1
        BY <4>1 DEF StepCounts, Step, n, r
      <4> QED BY <1>1, <2>1, <2>3, <4>2
    <3>2. RemoteOf(e) /\ Sound(e)
      BY <1>3 DEF Records
    <3> QED BY <2>3, <3>1, <3>2 DEF RecordsOf, RemoteOf, n, r
  <2> QED BY <1>1, <2>1, <2>2, <2>3
<1> QED BY <1>2, <1>4, <1>5, <1>6 DEF Records

(* ... of the queue pairs, and of where they are connected to *)
QueuePairsMade(e) ==
    /\ qpState'[Peer(e)] = qpState[Peer(e)]
    /\ \A j \in Index :
          /\ Step(e).res = QueuePair(j) /\ Step(e).call = "acquire" => qpState'[e][j] = "RESET"
          /\ Step(e).res = QueuePair(j) /\ Step(e).call \in Transition => qpState'[e][j] = Step(e).call
          /\ Step(e).res # QueuePair(j) \/ Step(e).call \notin {"acquire"} \union Transition =>
                qpState'[e][j] = qpState[e][j]
Connections(e) ==
    /\ dest'[Peer(e)] = dest[Peer(e)]
    /\ \A j \in Index :
          dest'[e][j] = IF Step(e).call = "RTR" /\ Step(e).res = QueuePair(j) THEN DestinationOf(addr[e]) ELSE dest[e][j]

LEMMA BuiltProceed ==
  ASSUME BootTyped, Built, NEW e \in Endpoint, Advanced(e), Proceed(e), QueuePairsMade(e)
  PROVE  Built'
<1> DEFINE d == Peer(e)
           n == at[e]
           q == QueuePairsOf(class)
<1>1. class' = class /\ at'[e] = n + 1 /\ at'[d] = at[d] /\ n \in Nat /\ n > 0 /\ class \in Class
      /\ n \in 1 .. Len(Plan[class][e])
  BY DEF Advanced, BootTyped
<1>2. d \in Endpoint /\ d # e /\ \A y \in Endpoint : y = e \/ y = d
  BY Peers
<1>3. live'[d] = live[d] /\ live'[e] = IF Step(e).call = "acquire" THEN live[e] \union {Step(e).res} ELSE live[e]
  BY <1>2 DEF Proceed, BootTyped, Family
<1>4. (Active(e)' => Active(e)) /\ (Active(d)' => Active(d))
  BY <1>2 DEF Advanced
<1>5. StatesOf(d)' /\ LivesOf(d)'
  <2>1. StatesOf(d) /\ LivesOf(d)
    BY <1>2 DEF Built
  <2>2. StatesOf(d)'
    BY <1>1, <1>4, <2>1 DEF StatesOf, QueuePairsMade
  <2>3. LivesOf(d)'
    BY <1>1, <1>3, <1>4, <2>1 DEF LivesOf
  <2> QED BY <2>2, <2>3
<1>6. LivesOf(e)'
  <2> SUFFICES ASSUME Active(e)', NEW m \in 1 .. (n + 1) - 1, Plan[class][e][m].call = "acquire"
               PROVE  Plan[class][e][m].res \in live'[e]
    BY <1>1 DEF LivesOf
  <2>1. CASE m = n
    BY <1>3, <2>1 DEF Step
  <2>2. CASE m # n
    <3>1. m \in 1 .. n - 1
      BY <1>1, <2>2
    <3>2. Plan[class][e][m].res \in live[e]
      BY <1>2, <1>4, <3>1 DEF Built, LivesOf
    <3> QED BY <1>3, <3>2
  <2> QED BY <2>1, <2>2
<1>7. StatesOf(e)'
  <2> SUFFICES ASSUME Active(e)', NEW j \in 1 .. q
               PROVE  qpState'[e][j] = StateAfter((n + 1) - 1 - Place(class, e, j, 0))
    BY <1>1 DEF StatesOf
  <2> DEFINE b == Before(class, e)
             r == RmrPlace(class, e)
             p == Plan[class][e]
             old == StateAfter(n - 1 - (b + 7 * (j - 1)))
             new == StateAfter(n - (b + 7 * (j - 1)))
  <2>1. Shape(p, b, q, r)
    BY <1>1, PlanShape
  <2>2. j \in Index
    BY <1>1, QueuePairsPositive
  <2>3. Place(class, e, j, 0) = b + 7 * (j - 1) /\ Place(class, e, j, 0) \in Nat
    <3>1. 0 \in 0 .. 7
      OBVIOUS
    <3>2. j \in Nat /\ b \in Nat /\ Place(class, e, j, 0) \in Nat /\ Place(class, e, j, 0) = b + 7 * (j - 1) + 0
      BY <1>1, <3>1, PlaceNumbers
    <3> HIDE DEF b
    <3> QED BY <3>2
  <2>4. qpState[e][j] = old
    <3>1. qpState[e][j] = StateAfter(n - 1 - Place(class, e, j, 0))
      BY <1>2, <1>4 DEF Built, StatesOf
    <3> QED BY <2>3, <3>1
  <2>5. StateAfter((n + 1) - 1 - Place(class, e, j, 0)) = new
    <3> DEFINE m == Place(class, e, j, 0)
    <3>1. m = b + 7 * (j - 1) /\ m \in Nat
      BY <2>3
    <3> HIDE DEF m, b
    <3>2. (n + 1) - 1 - m = n - (b + 7 * (j - 1))
      BY <1>1, <3>1
    <3> QED BY <3>2 DEF m
  <2> HIDE DEF b, r, q
  <2>6. /\ p[n].call = "acquire" /\ p[n].res = QueuePair(j) => new = "RESET"
        /\ p[n].call \in Transition /\ p[n].res = QueuePair(j) => new = p[n].call
        /\ p[n].res # QueuePair(j) \/ p[n].call \notin {"acquire"} \union Transition => new = old
    BY <1>1, <2>1, StateSteps
  <2> HIDE DEF old, new
  <2>7. qpState'[e][j] = new
    BY <2>2, <2>4, <2>6 DEF QueuePairsMade, Step
  <2> QED BY <2>5, <2>7
<1> QED BY <1>2, <1>5, <1>6, <1>7 DEF Built

LEMMA PairedProceed ==
  ASSUME BootTyped, Records, Built, Paired, NEW e \in Endpoint, phase[e] = "constructing",
         Advanced(e), Careful(e), QueuePairsMade(e), Connections(e)
  PROVE  Paired'
<1> DEFINE d == Peer(e)
           n == at[e]
           q == QueuePairsOf(class)
<1>1. class \in Class /\ n \in 1 .. Len(Plan[class][e])
  BY DEF Advanced, BootTyped
<1>2. d \in Endpoint /\ d # e /\ Peer(d) = e /\ \A y \in Endpoint : y = e \/ y = d
  BY Peers
<1>3. \A x \in Endpoint : (Closed(x) => Closed(x)') /\ (misread[x] => misread'[x])
  BY <1>2 DEF Advanced, Careful
<1> SUFFICES ASSUME NEW x \in Endpoint, NEW j \in Index, qpState'[x][j] \in {"RTR", "RTS"}
             PROVE  dest'[x][j] = Destination(Peer(x), j) \/ Closed(Peer(x))' \/ misread'[x]
  BY DEF Paired
<1>4. ASSUME qpState[x][j] \in {"RTR", "RTS"}, dest'[x][j] = dest[x][j]
      PROVE  dest'[x][j] = Destination(Peer(x), j) \/ Closed(Peer(x))' \/ misread'[x]
  <2>1. dest[x][j] = Destination(Peer(x), j) \/ Closed(Peer(x)) \/ misread[x]
    BY <1>4 DEF Paired
  <2> QED BY <1>2, <1>3, <1>4, <2>1
<1>5. CASE x = d
  BY <1>4, <1>5 DEF QueuePairsMade, Connections
<1>6. CASE x = e /\ (Step(e).res # QueuePair(j) \/ Step(e).call \notin {"acquire"} \union Transition)
  <2>1. qpState'[e][j] = qpState[e][j]
    BY <1>6 DEF QueuePairsMade
  <2>2. dest'[e][j] = dest[e][j]
    BY <1>6 DEF Connections, Transition
  <2> QED BY <1>4, <1>6, <2>1, <2>2
<1>7. CASE x = e /\ Step(e).res = QueuePair(j) /\ Step(e).call \in {"acquire", "INIT"}
  <2>1. qpState'[e][j] \in {"RESET", "INIT"}
    BY <1>7 DEF QueuePairsMade, Transition
  <2> QED BY <1>7, <2>1
<1>8. CASE x = e /\ Step(e).res = QueuePair(j) /\ Step(e).call = "RTR"
  <2>1. dest'[e][j] = DestinationOf(addr[e])
    BY <1>8 DEF Connections
  <2>2. \E i \in 1 .. q, k \in 1 .. 7 : n = Place(class, e, i, k) /\ Step(e).call = ExchangeCalls[k] /\ Step(e).res = QueuePair(i)
    <3>1. StepCounts(class, e, n)
      BY AdvanceCounted
    <3>2. Step(e).call \in {"query", "write", "read"} \union Transition
      BY <1>8 DEF Transition
    <3> QED BY <3>1, <3>2, Zenon DEF StepCounts, Step
  <2> PICK i \in 1 .. q, k \in 1 .. 7 : n = Place(class, e, i, k) /\ Step(e).call = ExchangeCalls[k] /\ Step(e).res = QueuePair(i)
    BY <2>2
  <2>3. k = 6
    <3>1. k = 1 \/ k = 2 \/ k = 3 \/ k = 4 \/ k = 5 \/ k = 6 \/ k = 7
      OBVIOUS
    <3> QED BY <1>8, <3>1, CallsNamed
  <2>4. i = j
    <3>1. <<"queuePair", i>> = <<"queuePair", j>>
      BY <1>8 DEF QueuePair
    <3> QED BY <3>1
  <2>5. Sound(e) => addr[e] = AddressOf(d, j)
    BY <1>2, <2>3, <2>4 DEF Records, AddressesOf
  <2>6. DestinationOf(AddressOf(d, j)) = Destination(d, j)
    BY <1>2, AddressLeads
  <2>7. Sound(e) \/ Closed(d) \/ misread[e]
    BY DEF Sound
  <2> QED BY <1>2, <1>3, <1>8, <2>1, <2>5, <2>6, <2>7
<1>9. CASE x = e /\ Step(e).res = QueuePair(j) /\ Step(e).call = "RTS"
  <2>1. dest'[e][j] = dest[e][j]
    BY <1>9 DEF Connections
  <2>2. qpState[e][j] = "RTR"
    <3> DEFINE b == Before(class, e)
               r == RmrPlace(class, e)
               p == Plan[class][e]
    <3>1. Shape(p, b, q, r)
      BY <1>1, PlanShape
    <3>2. j \in 1 .. q
      <4>1. StepCounts(class, e, n)
        BY AdvanceCounted
      <4>2. Step(e).call \in {"query", "write", "read"} \union Transition
        BY <1>9 DEF Transition
      <4>3. \E i \in 1 .. q : Step(e).res = QueuePair(i)
        BY <4>1, <4>2, Zenon DEF StepCounts, Step
      <4>4. \A i : QueuePair(i) = QueuePair(j) => i = j
        <5> SUFFICES ASSUME NEW i, <<"queuePair", i>> = <<"queuePair", j>> PROVE i = j
          BY DEF QueuePair
        <5> QED OBVIOUS
      <4> QED BY <1>9, <4>3, <4>4
    <3>3. StateAfter(n - 1 - (b + 7 * (j - 1))) = "RTR"
      BY <1>1, <1>9, <3>1, <3>2, StateSteps DEF Step
    <3>4. Place(class, e, j, 0) = b + 7 * (j - 1)
      <4>1. 0 \in 0 .. 7
        OBVIOUS
      <4>2. j \in Nat /\ b \in Nat /\ Place(class, e, j, 0) = b + 7 * (j - 1) + 0
        BY <1>1, <3>2, <4>1, PlaceNumbers
      <4> HIDE DEF b
      <4> QED BY <4>2
    <3>5. qpState[e][j] = StateAfter(n - 1 - Place(class, e, j, 0))
      BY <3>2 DEF Built, StatesOf, Active
    <3> QED BY <3>3, <3>4, <3>5
  <2> QED BY <1>4, <1>9, <2>1, <2>2
<1> QED BY <1>2, <1>5, <1>6, <1>7, <1>8, <1>9 DEF Transition

(* The part of the type that a step of the exchange can disturb *)
ExchangeTyped ==
    /\ qpState \in [Endpoint -> [Index -> QueuePairState]]
    /\ Family(addr) /\ Family(stream) /\ Family(misread) /\ Family(dest) /\ Family(remote)
    /\ \A e \in Endpoint :
          /\ Listed(addr[e]) /\ Len(addr[e]) = 5
          /\ Listed(remote[e]) /\ Len(remote[e]) = 3
          /\ Listed(stream[e])
          /\ misread[e] \in BOOLEAN
          /\ dest[e] = [i \in Index |-> dest[e][i]]

LEMMA ProceedInv ==
  ASSUME BootInv, NEW e \in Endpoint, phase[e] = "constructing", Proceed(e), Careful(e), ExchangeTyped',
         Waits(e) \/ (\E record : Writes(e, record)) \/ (\E size : Reads(e, size)),
         RecordsOf(e), QueuePairsMade(e), Connections(e)
  PROVE  BootInv'
<1>1. BootTyped /\ Positions /\ Streams /\ Records /\ Built /\ Paired
  BY DEF BootInv
<1>2. Advanced(e) /\ Positions' /\ at' \in [Endpoint -> Nat] /\ phase' \in [Endpoint -> Phases] /\ Family(live)'
  BY <1>1, Proceeding
<1>3. BootTyped'
  <2>1. class' \in Class
    BY <1>1, <1>2 DEF Advanced, BootTyped
  <2> QED BY <1>2, <2>1 DEF BootTyped, ExchangeTyped
<1>4. Streams'
  BY <1>1, <1>2, StreamsWait, StreamsWrite, StreamsRead
<1>5. Records'
  BY <1>1, <1>2, RecordsProceed
<1>6. Built'
  BY <1>1, <1>2, BuiltProceed
<1>7. Paired'
  BY <1>1, <1>2, PairedProceed
<1> QED BY <1>2, <1>3, <1>4, <1>5, <1>6, <1>7 DEF BootInv

LEMMA Unexchanged ==
  ASSUME BootTyped, NEW e \in Endpoint, UNCHANGED exchange
  PROVE  /\ addr' = addr /\ stream' = stream /\ misread' = misread /\ dest' = dest /\ remote' = remote
         /\ Careful(e)
BY DEF exchange, Careful

(* Steps that leave the connection alone *)
LEMMA QuietAction ==
  ASSUME BootInv, NEW e \in Endpoint, phase[e] = "constructing", Proceed(e), UNCHANGED exchange,
         Step(e).call \in {"listen", "connect", "accept", "acquire", "notify", "check size", "query device"},
         QueuePairsMade(e), qpState' \in [Endpoint -> [Index -> QueuePairState]]
  PROVE  BootInv'
<1>1. BootTyped
  BY DEF BootInv
<1>2. addr' = addr /\ stream' = stream /\ misread' = misread /\ dest' = dest /\ remote' = remote /\ Careful(e)
  BY <1>1, Unexchanged
<1>3. ExchangeTyped'
  BY <1>1, <1>2 DEF BootTyped, ExchangeTyped
<1>4. Waits(e) /\ RecordsOf(e) /\ Connections(e)
  BY <1>2 DEF Waits, TcpCalls, RecordsOf, Connections
<1> QED BY <1>2, <1>3, <1>4, ProceedInv

LEMMA QueuePairsKept ==
  ASSUME NEW e \in Endpoint, qpState' = qpState, Step(e).call \notin {"acquire"} \union Transition
  PROVE  QueuePairsMade(e)
BY DEF QueuePairsMade

LEMMA QuietActions ==
  ASSUME BootInv, NEW e \in Endpoint, Listen(e) \/ TcpConnect(e) \/ Accept(e) \/ Check(e)
  PROVE  BootInv'
<1>1. /\ phase[e] = "constructing" /\ Proceed(e) /\ UNCHANGED exchange /\ qpState' = qpState
      /\ Step(e).call \in {"listen", "connect", "accept", "notify", "check size", "query device"}
  BY DEF Listen, TcpConnect, Accept, Check, At
<1>2. Step(e).call \notin {"acquire"} \union Transition
  BY <1>1 DEF Transition
<1>3. qpState' \in [Endpoint -> [Index -> QueuePairState]]
  BY <1>1 DEF BootInv, BootTyped
<1> QED BY <1>1, <1>2, <1>3, QueuePairsKept, QuietAction

LEMMA AcquireStep == ASSUME BootInv, NEW e \in Endpoint, Acquire(e) PROVE BootInv'
<1> DEFINE i == Current(e)
<1>1. /\ phase[e] = "constructing" /\ Proceed(e) /\ UNCHANGED exchange /\ Step(e).call = "acquire"
      /\ qpState' = IF Step(e).res = QueuePair(i) THEN [qpState EXCEPT ![e][i] = "RESET"] ELSE qpState
  BY DEF Acquire, At
<1>2. qpState \in [Endpoint -> [Index -> QueuePairState]]
  BY DEF BootInv, BootTyped
<1>3. qpState' \in [Endpoint -> [Index -> QueuePairState]]
  BY <1>1, <1>2 DEF QueuePairState
<1>4. QueuePairsMade(e)
  <2>1. qpState'[Peer(e)] = qpState[Peer(e)]
    BY <1>1, <1>2, Peers
  <2>2. ASSUME NEW j \in Index, Step(e).res = QueuePair(j) PROVE qpState'[e][j] = "RESET"
    <3>1. i = j
      BY <2>2 DEF Current, QueuePair
    <3> HIDE DEF i
    <3> QED BY <1>1, <1>2, <2>2, <3>1
  <2>3. ASSUME NEW j \in Index, Step(e).res # QueuePair(j) PROVE qpState'[e][j] = qpState[e][j]
    <3> HIDE DEF i
    <3>1. Step(e).res = QueuePair(i) => i # j
      BY <2>3
    <3> QED BY <1>1, <1>2, <3>1
  <2>4. "acquire" \notin Transition
    BY DEF Transition
  <2> QED BY <1>1, <2>1, <2>2, <2>3, <2>4 DEF QueuePairsMade
<1> QED BY <1>1, <1>3, <1>4, QuietAction

LEMMA QueryStep == ASSUME BootInv, NEW e \in Endpoint, Query(e) PROVE BootInv'
<1>1. /\ phase[e] = "constructing" /\ Proceed(e) /\ Step(e).call = "query"
      /\ addr' = [addr EXCEPT ![e] = AddressOf(e, Current(e))]
      /\ stream' = stream /\ misread' = misread /\ dest' = dest /\ remote' = remote /\ qpState' = qpState
  BY DEF Query, At
<1>2. BootTyped
  BY DEF BootInv
<1>3. addr'[e] = AddressOf(e, Current(e)) /\ addr'[Peer(e)] = addr[Peer(e)] /\ Family(addr)'
  BY <1>1, <1>2, Peers DEF BootTyped, Family
<1>4. ExchangeTyped'
  <2>1. \A x \in Endpoint : Listed(addr'[x]) /\ Len(addr'[x]) = 5
    <3> SUFFICES ASSUME NEW x \in Endpoint PROVE Listed(addr'[x]) /\ Len(addr'[x]) = 5
      OBVIOUS
    <3>1. CASE x = e
      BY <1>3, <3>1, RecordsListed
    <3>2. CASE x = Peer(e)
      BY <1>2, <1>3, <3>2 DEF BootTyped
    <3> QED BY <3>1, <3>2, Peers
  <2> QED BY <1>1, <1>2, <1>3, <2>1 DEF BootTyped, ExchangeTyped
<1>5. Waits(e) /\ RecordsOf(e) /\ Connections(e) /\ Careful(e)
  BY <1>1, <1>3 DEF Waits, TcpCalls, RecordsOf, Connections, Careful
<1>6. QueuePairsMade(e)
  BY <1>1, QueuePairsKept DEF Transition
<1> QED BY <1>1, <1>4, <1>5, <1>6, ProceedInv

LEMMA ConnectStep == ASSUME BootInv, NEW e \in Endpoint, Connect(e) PROVE BootInv'
<1> DEFINE i == Current(e)
<1>1. PICK state \in Transition :
         /\ phase[e] = "constructing" /\ Proceed(e) /\ Step(e).call = state
         /\ qpState' = [qpState EXCEPT ![e][i] = state]
         /\ dest' = IF state = "RTR" THEN [dest EXCEPT ![e][i] = DestinationOf(addr[e])] ELSE dest
         /\ addr' = addr /\ stream' = stream /\ misread' = misread /\ remote' = remote
  BY DEF Connect, At, Transition
<1>2. BootTyped
  BY DEF BootInv
<1>3. Step(e).res = QueuePair(i) /\ i \in Index /\ \A j : Step(e).res = QueuePair(j) <=> i = j
  <2>1. Advanced(e)
    BY <1>1, <1>2, Proceeding DEF BootInv
  <2>2. StepCounts(class, e, at[e])
    BY <1>2, <2>1, AdvanceCounted
  <2>3. PICK k \in 1 .. QueuePairsOf(class) : Step(e).res = QueuePair(k) /\ Step(e).res[2] = k
    BY <1>1, <2>2 DEF StepCounts, Step
  <2>4. i = k /\ k \in Index
    BY <1>2, <2>3, QueuePairsPositive DEF Current, BootTyped
  <2>5. \A j : QueuePair(j)[2] = j
    BY DEF QueuePair
  <2> HIDE DEF i
  <2> QED BY <2>3, <2>4, <2>5
<1> HIDE DEF i
<1>4. QueuePairsMade(e) /\ qpState' \in [Endpoint -> [Index -> QueuePairState]]
  <2>1. qpState \in [Endpoint -> [Index -> QueuePairState]]
    BY <1>2 DEF BootTyped
  <2>2. qpState' \in [Endpoint -> [Index -> QueuePairState]]
    BY <1>1, <2>1 DEF QueuePairState
  <2>3. qpState'[Peer(e)] = qpState[Peer(e)] /\ qpState'[e][i] = state
    BY <1>1, <1>3, <2>1, Peers
  <2>4. \A j \in Index : j # i => qpState'[e][j] = qpState[e][j]
    BY <1>1, <2>1
  <2>5. state # "acquire"
    BY DEF Transition
  <2> QED BY <1>1, <1>3, <2>2, <2>3, <2>4, <2>5, Zenon DEF QueuePairsMade
<1>5. Connections(e) /\ Family(dest)' /\ \A x \in Endpoint : dest'[x] = [j \in Index |-> dest'[x][j]]
  <2>1. Family(dest) /\ \A x \in Endpoint : dest[x] = [j \in Index |-> dest[x][j]]
    BY <1>2 DEF BootTyped
  <2>2. CASE state = "RTR"
    <3>1. dest' = [dest EXCEPT ![e][i] = DestinationOf(addr[e])]
      BY <1>1, <2>2
    <3>2. dest'[Peer(e)] = dest[Peer(e)] /\ Family(dest)'
      BY <2>1, <3>1, Peers DEF Family
    <3>3. dest'[e] = [dest[e] EXCEPT ![i] = DestinationOf(addr[e])]
      BY <2>1, <3>1 DEF Family
    <3>4. dest'[e] = [j \in Index |-> dest'[e][j]] /\ \A j \in Index : dest'[e][j] = IF i = j THEN DestinationOf(addr[e]) ELSE dest[e][j]
      BY <1>3, <2>1, <3>3
    <3>5. \A j \in Index : dest'[e][j] = IF Step(e).call = "RTR" /\ Step(e).res = QueuePair(j) THEN DestinationOf(addr[e]) ELSE dest[e][j]
      BY <1>1, <1>3, <2>2, <3>4, Zenon
    <3>6. Connections(e)
      BY <3>2, <3>5, Zenon DEF Connections
    <3> QED BY <2>1, <3>2, <3>4, <3>6, Peers
  <2>3. CASE state # "RTR"
    BY <1>1, <2>1, <2>3 DEF Connections, Family
  <2> QED BY <2>2, <2>3
<1>6. ExchangeTyped'
  BY <1>1, <1>2, <1>4, <1>5 DEF BootTyped, ExchangeTyped, Family
<1>7. Waits(e) /\ RecordsOf(e) /\ Careful(e)
  BY <1>1 DEF Waits, TcpCalls, RecordsOf, Careful, Transition
<1> QED BY <1>1, <1>4, <1>5, <1>6, <1>7, ProceedInv

(* What is written and read, and how the record and the stream change *)
LEMMA WriteTyped ==
  ASSUME BootTyped, NEW e \in Endpoint, NEW record, Listed(record),
         stream' = [stream EXCEPT ![e] = @ \o record]
  PROVE  Family(stream)' /\ \A x \in Endpoint : Listed(stream'[x])
<1>1. Family(stream)' /\ stream'[e] = stream[e] \o record /\ stream'[Peer(e)] = stream[Peer(e)]
  BY Peers DEF BootTyped, Family
<1>2. Listed(stream[e] \o record)
  BY ListedConcat DEF BootTyped
<1>3. Listed(stream[Peer(e)])
  BY Peers DEF BootTyped
<1> QED BY <1>1, <1>2, <1>3, Peers

LEMMA WriteStep ==
  ASSUME BootInv, NEW e \in Endpoint, phase[e] = "constructing", Proceed(e), NEW record,
         stream' = [stream EXCEPT ![e] = @ \o record], Listed(record), Writes(e, record),
         misread' = misread, addr' = addr, dest' = dest, remote' = remote, qpState' = qpState,
         Step(e).call \in {"write", "sendRmr"}
  PROVE  BootInv'
<1>1. BootTyped
  BY DEF BootInv
<1>2. Family(stream)' /\ \A x \in Endpoint : Listed(stream'[x])
  BY <1>1, WriteTyped
<1>3. ExchangeTyped'
  BY <1>1, <1>2 DEF BootTyped, ExchangeTyped
<1>4. RecordsOf(e) /\ Connections(e) /\ Careful(e)
  BY DEF RecordsOf, Connections, Careful
<1>5. QueuePairsMade(e)
  BY QueuePairsKept DEF Transition
<1> QED BY <1>3, <1>4, <1>5, ProceedInv

LEMMA WritesAddress ==
  ASSUME BootInv, NEW e \in Endpoint, SendAddress(e)
  PROVE  Listed(addr[e]) /\ Writes(e, addr[e])
<1>1. /\ phase[e] = "constructing" /\ Proceed(e) /\ Step(e).call = "write"
      /\ stream' = [stream EXCEPT ![e] = @ \o addr[e]]
      /\ misread' = misread /\ addr' = addr /\ dest' = dest /\ remote' = remote /\ qpState' = qpState
  BY DEF SendAddress, At, TcpWrite
<1>2. BootTyped /\ Records
  BY DEF BootInv
<1>3. Listed(addr[e]) /\ Len(addr[e]) = 5
  BY <1>2 DEF BootTyped
<1>4. StepCounts(class, e, at[e])
  BY <1>1, <1>2, Proceeding, AdvanceCounted DEF BootInv
<1>5. /\ Written(class, e, at[e] + 1) = Written(class, e, at[e]) + 5
      /\ Read(class, e, at[e] + 1) = Read(class, e, at[e])
  BY <1>1, <1>4 DEF StepCounts, Step
<1>6. PICK i \in 1 .. QueuePairsOf(class) : at[e] = Place(class, e, i, 3) /\ Written(class, e, at[e]) = 5 * (i - 1)
  <2>1. PICK i \in 1 .. QueuePairsOf(class), k \in 1 .. 7 :
           /\ at[e] = Place(class, e, i, k) /\ Step(e).call = ExchangeCalls[k]
           /\ k = 3 => Written(class, e, at[e]) = 5 * (i - 1)
    BY <1>1, <1>4 DEF StepCounts, Step
  <2>2. k = 3
    <3>1. k = 1 \/ k = 2 \/ k = 3 \/ k = 4 \/ k = 5 \/ k = 6 \/ k = 7
      OBVIOUS
    <3> QED BY <1>1, <2>1, <3>1, CallsNamed
  <2> QED BY <2>1, <2>2
<1>7. addr[e] = AddressOf(e, i)
  BY <1>2, <1>6 DEF Records, AddressesOf
<1>8. \A m \in 1 .. 5 : addr[e][m] = SentWord(class, e, Written(class, e, at[e]) + m)
  BY <1>2, <1>6, <1>7, WordsOfAddress DEF BootTyped
<1> QED BY <1>1, <1>3, <1>5, <1>8 DEF Writes

LEMMA SendAddressStep == ASSUME BootInv, NEW e \in Endpoint, SendAddress(e) PROVE BootInv'
<1>1. /\ phase[e] = "constructing" /\ Proceed(e) /\ Step(e).call = "write"
      /\ stream' = [stream EXCEPT ![e] = @ \o addr[e]]
      /\ misread' = misread /\ addr' = addr /\ dest' = dest /\ remote' = remote /\ qpState' = qpState
  BY DEF SendAddress, At, TcpWrite
<1> QED BY <1>1, WritesAddress, WriteStep

LEMMA WritesRmrInfo ==
  ASSUME BootInv, NEW e \in Endpoint, SendRmrInfo(e)
  PROVE  Listed(RmrInfoOf(e)) /\ Writes(e, RmrInfoOf(e))
<1>1. /\ phase[e] = "constructing" /\ Proceed(e) /\ Step(e).call = "sendRmr"
      /\ stream' = [stream EXCEPT ![e] = @ \o RmrInfoOf(e)]
      /\ misread' = misread /\ addr' = addr /\ dest' = dest /\ remote' = remote /\ qpState' = qpState
  BY DEF SendRmrInfo, At, TcpWrite
<1>2. BootTyped
  BY DEF BootInv
<1>3. Listed(RmrInfoOf(e)) /\ Len(RmrInfoOf(e)) = 3
  BY RecordsListed
<1>4. StepCounts(class, e, at[e])
  BY <1>1, <1>2, Proceeding, AdvanceCounted DEF BootInv
<1>5. /\ Written(class, e, at[e] + 1) = Written(class, e, at[e]) + 3
      /\ Written(class, e, at[e]) = 5 * QueuePairsOf(class)
      /\ Read(class, e, at[e] + 1) = Read(class, e, at[e])
  BY <1>1, <1>4 DEF StepCounts, Step
<1>6. \A m \in 1 .. 3 : RmrInfoOf(e)[m] = SentWord(class, e, Written(class, e, at[e]) + m)
  BY <1>2, <1>5, WordsOfRmrInfo DEF BootTyped
<1> QED BY <1>1, <1>3, <1>5, <1>6 DEF Writes

LEMMA SendRmrInfoStep == ASSUME BootInv, NEW e \in Endpoint, SendRmrInfo(e) PROVE BootInv'
<1>1. /\ phase[e] = "constructing" /\ Proceed(e) /\ Step(e).call = "sendRmr"
      /\ stream' = [stream EXCEPT ![e] = @ \o RmrInfoOf(e)]
      /\ misread' = misread /\ addr' = addr /\ dest' = dest /\ remote' = remote /\ qpState' = qpState
  BY DEF SendRmrInfo, At, TcpWrite
<1> QED BY <1>1, WritesRmrInfo, WriteStep

(* A record of so many words is read, in whole or in part, or nothing is   *)
(* left to read. *)
Gets(e, old, new, size) ==
    \/ \E n \in Received(e, size) : new = Over(e, old, n) /\ TcpRead(e, n, size)
    \/ EndOfStream(e) /\ new = old /\ stream' = stream /\ misread' = misread
Gotten(e, new, size) ==
    /\ Listed(new) /\ Len(new) = size
    /\ Family(stream)' /\ Family(misread)'
    /\ \A x \in Endpoint : Listed(stream'[x]) /\ misread'[x] \in BOOLEAN
    /\ stream'[e] = stream[e] /\ Careful(e)
GottenInStep(e, new, size) ==
    LET s == stream[Peer(e)]
    IN  /\ size \in 1 .. Len(s) /\ stream'[Peer(e)] = SubSeq(s, size + 1, Len(s))
        /\ \A j \in 1 .. size : new[j] = SentWord(class, Peer(e), Read(class, e, at[e]) + j)

LEMMA ReceivedPart ==
  ASSUME BootTyped, NEW e \in Endpoint, NEW size \in Nat, NEW n \in Received(e, size)
  PROVE  LET s == stream[Peer(e)]
         IN  n \in 1 .. Len(s) /\ n <= size /\ n \in Nat /\ Len(s) \in Nat /\ Listed(s)
<1>1. Listed(stream[Peer(e)])
  BY Peers DEF BootTyped
<1>2. Len(stream[Peer(e)]) \in Nat
  BY <1>1, ListedLength
<1> QED BY <1>1, <1>2 DEF Received

LEMMA GetTyped ==
  ASSUME BootTyped, NEW e \in Endpoint, NEW old, NEW new, NEW size \in Nat, Listed(old), Len(old) = size,
         Gets(e, old, new, size)
  PROVE  Gotten(e, new, size)
<1> DEFINE d == Peer(e)
           s == stream[d]
<1>0. d \in Endpoint /\ d # e /\ \A x \in Endpoint : x = e \/ x = d
  BY Peers
<1>1. CASE EndOfStream(e) /\ new = old /\ stream' = stream /\ misread' = misread
  BY <1>1 DEF BootTyped, Careful, Family, Gotten
<1>2. CASE \E n \in Received(e, size) : new = Over(e, old, n) /\ TcpRead(e, n, size)
  <2> PICK n \in Received(e, size) : new = Over(e, old, n) /\ TcpRead(e, n, size)
    BY <1>2
  <2>1. n \in 1 .. Len(s) /\ n <= size /\ n \in Nat /\ Listed(s)
    BY ReceivedPart
  <2> DEFINE t == SubSeq(s, n + 1, Len(s))
             u == SubSeq(s, 1, n) \o SubSeq(old, n + 1, Len(old))
  <2>2. new = u
    BY DEF Over
  <2>3. Listed(u) /\ Len(u) = size
    BY <2>1, Overwritten
  <2>4. Listed(t)
    BY <2>1, Taken
  <2>5. /\ stream' = [stream EXCEPT ![d] = t]
        /\ misread' = [misread EXCEPT ![e] = misread[e] \/ n < size]
    BY DEF TcpRead
  <2> HIDE DEF t, u, s, d
  <2>6. stream'[d] = t /\ stream'[e] = stream[e] /\ Family(stream)' /\ Listed(stream[e])
    BY <1>0, <2>5 DEF BootTyped, Family
  <2>7. /\ misread'[d] = misread[d] /\ Family(misread)' /\ misread'[e] = (misread[e] \/ n < size)
        /\ misread[e] \in BOOLEAN /\ misread[d] \in BOOLEAN
    BY <1>0, <2>5 DEF BootTyped, Family
  <2>8. Careful(e)
    BY <2>7 DEF Careful, d
  <2> QED BY <1>0, <2>2, <2>3, <2>4, <2>6, <2>7, <2>8 DEF Gotten
<1> QED BY <1>1, <1>2 DEF Gets

(* Whoever still reads in step gets all of the record and nothing else. *)
LEMMA GetSound ==
  ASSUME BootTyped, Streams, NEW e \in Endpoint, Advanced(e), NEW old, NEW new, NEW size \in Nat, size > 0,
         Listed(old), Len(old) = size, Gets(e, old, new, size), Sound(e)', Careful(e)
  PROVE  GottenInStep(e, new, size)
<1> DEFINE d == Peer(e)
           s == stream[d]
<1>0. d \in Endpoint /\ d # e /\ \A x \in Endpoint : x = e \/ x = d
  BY Peers
<1>1. ~Closed(d) /\ ~misread'[e]
  BY <1>0 DEF Sound, Advanced
<1>2. PICK n \in Received(e, size) : new = Over(e, old, n) /\ TcpRead(e, n, size)
  BY <1>1 DEF Gets, EndOfStream
<1>3. n \in 1 .. Len(s) /\ n <= size /\ n \in Nat /\ Listed(s) /\ Len(s) \in Nat
  BY ReceivedPart
<1> DEFINE t == SubSeq(s, n + 1, Len(s))
           u == SubSeq(s, 1, n) \o SubSeq(old, n + 1, Len(old))
<1>4. new = u
  BY <1>2 DEF Over
<1>5. \A j \in 1 .. n : u[j] = s[j]
  BY <1>3, Overwritten
<1>6. /\ stream' = [stream EXCEPT ![d] = t]
      /\ misread' = [misread EXCEPT ![e] = misread[e] \/ n < size]
  BY <1>2 DEF TcpRead
<1>7. n = size
  <2>1. ~(n < size)
    BY <1>1, <1>6 DEF BootTyped, Family
  <2> QED BY <1>3, <2>1
<1>8. \A j \in 1 .. Len(s) : s[j] = SentWord(class, d, Read(class, e, at[e]) + j)
  BY StaysSound DEF Streams, StreamOf
<1>9. stream'[d] = t
  BY <1>0, <1>6 DEF BootTyped, Family
<1>10. \A j \in 1 .. size : new[j] = SentWord(class, d, Read(class, e, at[e]) + j)
  <2> SUFFICES ASSUME NEW j \in 1 .. size PROVE new[j] = SentWord(class, d, Read(class, e, at[e]) + j)
    OBVIOUS
  <2>1. j \in 1 .. n /\ j \in 1 .. Len(s)
    BY <1>3, <1>7
  <2> HIDE DEF u, s
  <2> QED BY <1>4, <1>5, <1>8, <2>1
<1> QED BY <1>3, <1>7, <1>9, <1>10 DEF GottenInStep

LEMMA GetsAddress ==
  ASSUME BootTyped, NEW e \in Endpoint, ReceiveAddress(e)
  PROVE  Gets(e, addr[e], addr'[e], 5) /\ addr'[Peer(e)] = addr[Peer(e)] /\ Family(addr)'
<1>1. CASE \E n \in Received(e, 5) : addr' = [addr EXCEPT ![e] = Over(e, @, n)] /\ TcpRead(e, n, 5)
  <2> PICK n \in Received(e, 5) : addr' = [addr EXCEPT ![e] = Over(e, @, n)] /\ TcpRead(e, n, 5)
    BY <1>1
  <2>1. addr'[e] = Over(e, addr[e], n) /\ addr'[Peer(e)] = addr[Peer(e)] /\ Family(addr)'
    BY Peers DEF BootTyped, Family
  <2> QED BY <2>1 DEF Gets
<1>2. CASE EndOfStream(e) /\ UNCHANGED <<addr, stream, misread>>
  BY <1>2 DEF Gets, BootTyped, Family
<1> QED BY <1>1, <1>2 DEF ReceiveAddress

(* How many words e has read when it reads the address for queue pair i *)
LEMMA ReadsInTurn ==
  ASSUME NEW e \in Endpoint, Step(e).call = "read", StepCounts(class, e, at[e])
  PROVE  \E i \in 1 .. QueuePairsOf(class) : Current(e) = i /\ Read(class, e, at[e]) = 5 * (i - 1)
<1>1. PICK i \in 1 .. QueuePairsOf(class), k \in 1 .. 7 :
         /\ Step(e).call = ExchangeCalls[k] /\ Step(e).res[2] = i
         /\ k = 4 => Read(class, e, at[e]) = 5 * (i - 1)
  BY DEF StepCounts, Step
<1>2. k = 4
  <2>1. k = 1 \/ k = 2 \/ k = 3 \/ k = 4 \/ k = 5 \/ k = 6 \/ k = 7
    OBVIOUS
  <2> QED BY <1>1, <2>1, CallsNamed
<1> QED BY <1>1, <1>2 DEF Current

LEMMA ReceiveAddressStep == ASSUME BootInv, NEW e \in Endpoint, ReceiveAddress(e) PROVE BootInv'
<1>1. /\ phase[e] = "constructing" /\ Proceed(e) /\ Step(e).call = "read"
      /\ dest' = dest /\ remote' = remote /\ qpState' = qpState
  BY DEF ReceiveAddress, At
<1>2. BootTyped /\ Streams
  BY DEF BootInv
<1>3. Listed(addr[e]) /\ Len(addr[e]) = 5
  BY <1>2 DEF BootTyped
<1>4. Gets(e, addr[e], addr'[e], 5) /\ addr'[Peer(e)] = addr[Peer(e)] /\ Family(addr)'
  BY <1>2, GetsAddress
<1> DEFINE old == addr[e]
           new == addr'[e]
           size == 5
<1>5. /\ size \in Nat /\ size > 0 /\ size = 5 /\ new = addr'[e]
      /\ Listed(old) /\ Len(old) = size /\ Gets(e, old, new, size)
  BY <1>3, <1>4
<1> HIDE DEF old, new, size
<1>6. /\ Listed(addr'[e]) /\ Len(addr'[e]) = 5
      /\ Family(stream)' /\ Family(misread)'
      /\ \A x \in Endpoint : Listed(stream'[x]) /\ misread'[x] \in BOOLEAN
      /\ stream'[e] = stream[e] /\ Careful(e)
  <2>1. Gotten(e, new, size)
    BY <1>2, <1>5, GetTyped
  <2> QED BY <1>5, <2>1 DEF Gotten
<1>7. ExchangeTyped'
  <2>1. \A x \in Endpoint : Listed(addr'[x]) /\ Len(addr'[x]) = 5
    <3> SUFFICES ASSUME NEW x \in Endpoint PROVE Listed(addr'[x]) /\ Len(addr'[x]) = 5
      OBVIOUS
    <3>1. CASE x = e
      BY <1>6, <3>1
    <3>2. CASE x = Peer(e)
      BY <1>2, <1>4, <3>2 DEF BootTyped
    <3> QED BY <3>1, <3>2, Peers
  <2> QED BY <1>1, <1>2, <1>4, <1>6, <2>1 DEF BootTyped, ExchangeTyped
<1>8. Advanced(e)
  BY <1>1, <1>2, Proceeding DEF BootInv
<1>9. StepCounts(class, e, at[e])
  BY <1>2, <1>8, AdvanceCounted
<1>10. /\ Written(class, e, at[e] + 1) = Written(class, e, at[e])
       /\ Read(class, e, at[e] + 1) = Read(class, e, at[e]) + 5
  BY <1>1, <1>9 DEF StepCounts, Step
<1>11. Sound(e)' => LET s == stream[Peer(e)]
                    IN  /\ 5 \in 1 .. Len(s) /\ stream'[Peer(e)] = SubSeq(s, 5 + 1, Len(s))
                        /\ \A j \in 1 .. 5 : addr'[e][j] = SentWord(class, Peer(e), Read(class, e, at[e]) + j)
  <2>1. Sound(e)' => GottenInStep(e, new, size)
    BY <1>2, <1>5, <1>6, <1>8, GetSound
  <2> QED BY <1>5, <2>1 DEF GottenInStep
<1>12. Reads(e, 5)
  BY <1>6, <1>10, <1>11 DEF Reads
<1>13. PICK i \in 1 .. QueuePairsOf(class) : Current(e) = i /\ Read(class, e, at[e]) = 5 * (i - 1)
  BY <1>1, <1>9, ReadsInTurn
<1>14. Sound(e)' => addr'[e] = AddressOf(Peer(e), i)
  <2> SUFFICES ASSUME Sound(e)' PROVE addr'[e] = AddressOf(Peer(e), i)
    OBVIOUS
  <2> DEFINE a == addr'[e]
             d == Peer(e)
             b == AddressOf(d, i)
  <2>1. \A j \in 1 .. 5 : a[j] = SentWord(class, d, 5 * (i - 1) + j)
    BY <1>11, <1>13
  <2>2. \A j \in 1 .. 5 : b[j] = SentWord(class, d, 5 * (i - 1) + j)
    <3> SUFFICES ASSUME NEW j \in 1 .. 5 PROVE b[j] = SentWord(class, d, 5 * (i - 1) + j)
      OBVIOUS
    <3>1. class \in Class
      BY <1>2 DEF BootTyped
    <3> HIDE DEF d
    <3>2. SentWord(class, d, 5 * (i - 1) + j) = AddressOf(d, i)[j]
      BY <3>1, WordsOfAddress
    <3> QED BY <3>2
  <2>3. Listed(a) /\ Len(a) = 5 /\ Listed(b) /\ Len(b) = 5
    BY <1>6, RecordsListed
  <2> HIDE DEF a, b, d
  <2>4. a = b
    BY <2>1, <2>2, <2>3, SameList
  <2> QED BY <2>4 DEF a, b, d
<1>15. RecordsOf(e) /\ Connections(e)
  BY <1>1, <1>4, <1>13, <1>14 DEF RecordsOf, Connections
<1>16. QueuePairsMade(e)
  BY <1>1, QueuePairsKept DEF Transition
<1> QED BY <1>1, <1>6, <1>7, <1>12, <1>15, <1>16, ProceedInv

LEMMA GetsRmrInfo ==
  ASSUME BootTyped, NEW e \in Endpoint, ReceiveAndSetupRmr(e)
  PROVE  Gets(e, remote[e], remote'[e], 3) /\ remote'[Peer(e)] = remote[Peer(e)] /\ Family(remote)'
<1>1. CASE \E n \in Received(e, 3) : remote' = [remote EXCEPT ![e] = Over(e, @, n)] /\ TcpRead(e, n, 3)
  <2> PICK n \in Received(e, 3) : remote' = [remote EXCEPT ![e] = Over(e, @, n)] /\ TcpRead(e, n, 3)
    BY <1>1
  <2>1. remote'[e] = Over(e, remote[e], n) /\ remote'[Peer(e)] = remote[Peer(e)] /\ Family(remote)'
    BY Peers DEF BootTyped, Family
  <2> QED BY <2>1 DEF Gets
<1>2. CASE EndOfStream(e) /\ UNCHANGED <<remote, stream, misread>>
  BY <1>2 DEF Gets, BootTyped, Family
<1> QED BY <1>1, <1>2 DEF ReceiveAndSetupRmr

LEMMA ReceiveRmrStep == ASSUME BootInv, NEW e \in Endpoint, ReceiveAndSetupRmr(e) PROVE BootInv'
<1>1. /\ phase[e] = "constructing" /\ Proceed(e) /\ Step(e).call = "receiveRmr"
      /\ dest' = dest /\ addr' = addr /\ qpState' = qpState
  BY DEF ReceiveAndSetupRmr, At
<1>2. BootTyped /\ Streams
  BY DEF BootInv
<1>3. Listed(remote[e]) /\ Len(remote[e]) = 3
  BY <1>2 DEF BootTyped
<1>4. Gets(e, remote[e], remote'[e], 3) /\ remote'[Peer(e)] = remote[Peer(e)] /\ Family(remote)'
  BY <1>2, GetsRmrInfo
<1> DEFINE old == remote[e]
           new == remote'[e]
           size == 3
<1>5. /\ size \in Nat /\ size > 0 /\ size = 3 /\ new = remote'[e]
      /\ Listed(old) /\ Len(old) = size /\ Gets(e, old, new, size)
  BY <1>3, <1>4
<1> HIDE DEF old, new, size
<1>6. /\ Listed(remote'[e]) /\ Len(remote'[e]) = 3
      /\ Family(stream)' /\ Family(misread)'
      /\ \A x \in Endpoint : Listed(stream'[x]) /\ misread'[x] \in BOOLEAN
      /\ stream'[e] = stream[e] /\ Careful(e)
  <2>1. Gotten(e, new, size)
    BY <1>2, <1>5, GetTyped
  <2> QED BY <1>5, <2>1 DEF Gotten
<1>7. ExchangeTyped'
  <2>1. \A x \in Endpoint : Listed(remote'[x]) /\ Len(remote'[x]) = 3
    <3> SUFFICES ASSUME NEW x \in Endpoint PROVE Listed(remote'[x]) /\ Len(remote'[x]) = 3
      OBVIOUS
    <3>1. CASE x = e
      BY <1>6, <3>1
    <3>2. CASE x = Peer(e)
      BY <1>2, <1>4, <3>2 DEF BootTyped
    <3> QED BY <3>1, <3>2, Peers
  <2> QED BY <1>1, <1>2, <1>4, <1>6, <2>1 DEF BootTyped, ExchangeTyped
<1>8. Advanced(e)
  BY <1>1, <1>2, Proceeding DEF BootInv
<1>9. StepCounts(class, e, at[e])
  BY <1>2, <1>8, AdvanceCounted
<1>10. /\ Written(class, e, at[e] + 1) = Written(class, e, at[e])
       /\ Read(class, e, at[e] + 1) = Read(class, e, at[e]) + 3
       /\ Read(class, e, at[e]) = 5 * QueuePairsOf(class)
  BY <1>1, <1>9 DEF StepCounts, Step
<1>11. Sound(e)' => LET s == stream[Peer(e)]
                    IN  /\ 3 \in 1 .. Len(s) /\ stream'[Peer(e)] = SubSeq(s, 3 + 1, Len(s))
                        /\ \A j \in 1 .. 3 : remote'[e][j] = SentWord(class, Peer(e), Read(class, e, at[e]) + j)
  <2>1. Sound(e)' => GottenInStep(e, new, size)
    BY <1>2, <1>5, <1>6, <1>8, GetSound
  <2> QED BY <1>5, <2>1 DEF GottenInStep
<1>12. Reads(e, 3)
  BY <1>6, <1>10, <1>11 DEF Reads
<1>13. Sound(e)' => remote'[e] = RmrInfoOf(Peer(e))
  <2> SUFFICES ASSUME Sound(e)' PROVE remote'[e] = RmrInfoOf(Peer(e))
    OBVIOUS
  <2> DEFINE a == remote'[e]
             b == RmrInfoOf(Peer(e))
  <2>1. \A j \in 1 .. 3 : a[j] = SentWord(class, Peer(e), 5 * QueuePairsOf(class) + j)
    BY <1>10, <1>11
  <2>2. \A j \in 1 .. 3 : b[j] = SentWord(class, Peer(e), 5 * QueuePairsOf(class) + j)
    BY <1>2, WordsOfRmrInfo DEF BootTyped
  <2>3. Listed(a) /\ Len(a) = 3 /\ Listed(b) /\ Len(b) = 3
    BY <1>6, RecordsListed
  <2> HIDE DEF a, b
  <2>4. a = b
    BY <2>1, <2>2, <2>3, SameList
  <2> QED BY <2>4 DEF a, b
<1>14. RecordsOf(e) /\ Connections(e)
  BY <1>1, <1>4, <1>13 DEF RecordsOf, Connections
<1>15. QueuePairsMade(e)
  BY <1>1, QueuePairsKept DEF Transition
<1> QED BY <1>1, <1>6, <1>7, <1>12, <1>14, <1>15, ProceedInv

-----------------------------------------------------------------------------
(* A step of an endpoint that stops, is destroyed, or already ends: it may *)
(* give back what it has, and neither writes nor reads. *)
Stops(e) ==
    /\ class' = class /\ at' = at /\ UNCHANGED exchange
    /\ phase' \in [Endpoint -> Phases] /\ phase'[Peer(e)] = phase[Peer(e)] /\ ~Active(e)' /\ ~Closed(e)
    /\ qpState' \in [Endpoint -> [Index -> QueuePairState]] /\ qpState'[Peer(e)] = qpState[Peer(e)]
    /\ \A j \in Index : qpState'[e][j] \in {qpState[e][j], "none"}
    /\ Family(live)' /\ live'[Peer(e)] = live[Peer(e)]

LEMMA StopInv == ASSUME BootInv, NEW e \in Endpoint, Stops(e) PROVE BootInv'
<1>1. BootTyped /\ Positions /\ Streams /\ Records /\ Built /\ Paired
  BY DEF BootInv
<1>2. class' = class /\ at' = at /\ addr' = addr /\ stream' = stream /\ misread' = misread /\ dest' = dest /\ remote' = remote
  BY DEF Stops, exchange
<1>3. BootTyped'
  BY <1>1, <1>2 DEF BootTyped, Stops, Family
<1>4. \A x \in Endpoint : Active(x)' => x = Peer(e) /\ Active(x)
  BY Peers DEF Stops, Active
<1>5. \A x \in Endpoint : Closed(x) => Closed(x)'
  BY Peers DEF Stops, Closed
<1>6. \A x \in Endpoint : Sound(x)' => Sound(x)
  BY <1>2, <1>5, Peers DEF Sound
<1>7. Positions'
  <2> SUFFICES ASSUME NEW x \in Endpoint
               PROVE  /\ phase'[x] = "constructing" => at[x] \in 1 .. Len(Plan[class][x])
                      /\ phase'[x] = "ready" => at[x] = Len(Plan[class][x]) + 1
    BY <1>2 DEF Positions
  <2>1. phase'[x] \in {"constructing", "ready"} => phase'[x] = phase[x]
    BY <1>4 DEF Active, Stops
  <2> QED BY <1>1, <2>1 DEF Positions
<1>8. Streams'
  <2> SUFFICES ASSUME NEW x \in Endpoint PROVE StreamOf(x)'
    BY DEF Streams
  <2>1. StreamOf(x) /\ (Sound(x)' => Sound(x))
    BY <1>1, <1>6 DEF Streams
  <2> QED BY <1>2, <2>1, StreamStays
<1>9. Records'
  <2> SUFFICES ASSUME NEW x \in Endpoint PROVE AddressesOf(x)' /\ RemoteOf(x)'
    BY DEF Records
  <2>1. AddressesOf(x) /\ RemoteOf(x) /\ (Sound(x)' => Sound(x))
    BY <1>1, <1>6 DEF Records
  <2>2. AddressesOf(x)'
    BY <1>2, <2>1 DEF AddressesOf
  <2>3. RemoteOf(x)'
    BY <1>2, <2>1 DEF RemoteOf
  <2> QED BY <2>2, <2>3
<1>10. Built'
  <2> SUFFICES ASSUME NEW x \in Endpoint, Active(x)' PROVE StatesOf(x)' /\ LivesOf(x)'
    BY DEF Built, StatesOf, LivesOf
  <2>1. x = Peer(e) /\ Active(x) /\ StatesOf(x) /\ LivesOf(x)
    BY <1>1, <1>4 DEF Built
  <2>2. qpState'[x] = qpState[x] /\ live'[x] = live[x]
    BY <2>1 DEF Stops
  <2>3. StatesOf(x)'
    BY <1>2, <2>1, <2>2 DEF StatesOf
  <2>4. LivesOf(x)'
    BY <1>2, <2>1, <2>2 DEF LivesOf
  <2> QED BY <2>3, <2>4
<1>11. Paired'
  <2> SUFFICES ASSUME NEW x \in Endpoint, NEW j \in Index, qpState'[x][j] \in {"RTR", "RTS"}
               PROVE  dest'[x][j] = Destination(Peer(x), j) \/ Closed(Peer(x))' \/ misread'[x]
    BY DEF Paired
  <2>1. qpState'[x][j] = qpState[x][j]
    <3>1. CASE x = e
      BY <3>1 DEF Stops
    <3>2. CASE x = Peer(e)
      BY <3>2 DEF Stops
    <3> QED BY <3>1, <3>2, Peers
  <2>2. dest[x][j] = Destination(Peer(x), j) \/ Closed(Peer(x)) \/ misread[x]
    BY <1>1, <2>1 DEF Paired
  <2> QED BY <1>2, <1>5, <2>2, Peers
<1> QED BY <1>3, <1>7, <1>8, <1>9, <1>10, <1>11 DEF BootInv

LEMMA PhaseSet ==
  ASSUME BootTyped, NEW e \in Endpoint, NEW p \in Phases, Phase(e, p)
  PROVE  phase' \in [Endpoint -> Phases] /\ phase'[e] = p /\ phase'[Peer(e)] = phase[Peer(e)]
BY Peers DEF BootTyped, Phase

LEMMA RaiseStep ==
  ASSUME BootInv, NEW e \in Endpoint, phase[e] \in {"constructing", "ready"}, Raise(e)
  PROVE  BootInv'
<1>1. BootTyped
  BY DEF BootInv
<1>2. class' = class /\ at' = at /\ UNCHANGED exchange /\ ~Closed(e)
  BY DEF Raise, Closed
<1>3. CASE /\ Phase(e, "dead") /\ live' = [live EXCEPT ![e] = {}]
           /\ qpState' = [qpState EXCEPT ![e] = [i \in Index |-> "none"]]
  <2>1. phase' \in [Endpoint -> Phases] /\ phase'[e] = "dead" /\ phase'[Peer(e)] = phase[Peer(e)]
    BY <1>1, <1>3, PhaseSet DEF Phases
  <2>2. Family(live)' /\ live'[Peer(e)] = live[Peer(e)]
    BY <1>1, <1>3, Peers DEF BootTyped, Family
  <2>3. /\ qpState' \in [Endpoint -> [Index -> QueuePairState]] /\ qpState'[Peer(e)] = qpState[Peer(e)]
        /\ \A j \in Index : qpState'[e][j] = "none"
    BY <1>1, <1>3, Peers DEF BootTyped, QueuePairState
  <2>4. ~Active(e)'
    BY <2>1 DEF Active
  <2>5. Stops(e)
    BY <1>2, <2>1, <2>2, <2>3, <2>4 DEF Stops
  <2> QED BY <2>5, StopInv
<1>4. CASE Phase(e, "unwinding") /\ live' = live /\ qpState' = qpState
  <2>1. phase' \in [Endpoint -> Phases] /\ phase'[e] = "unwinding" /\ phase'[Peer(e)] = phase[Peer(e)]
    BY <1>1, <1>4, PhaseSet DEF Phases
  <2>2. Stops(e)
    BY <1>1, <1>2, <1>4, <2>1 DEF Stops, BootTyped, Active, Family
  <2> QED BY <2>2, StopInv
<1> QED BY <1>3, <1>4 DEF Raise, holdings

LEMMA PhaseStep ==
  ASSUME BootInv, NEW e \in Endpoint, ~Closed(e),
         NEW p \in {"aborted", "closing", "unwound", "closed"}, Phase(e, p),
         class' = class, at' = at, UNCHANGED exchange, live' = live, qpState' = qpState
  PROVE  BootInv'
<1>1. BootTyped
  BY DEF BootInv
<1>2. phase' \in [Endpoint -> Phases] /\ phase'[e] = p /\ phase'[Peer(e)] = phase[Peer(e)]
  BY <1>1, PhaseSet DEF Phases
<1>3. Stops(e)
  BY <1>1, <1>2 DEF Stops, BootTyped, Active, Family
<1> QED BY <1>3, StopInv

LEMMA ReleaseStep == ASSUME BootInv, NEW e \in Endpoint, Release(e) PROVE BootInv'
<1> DEFINE r == Head(cleanup[e])
           i == r[2]
<1>1. BootTyped
  BY DEF BootInv
<1>2. class' = class /\ at' = at /\ UNCHANGED exchange /\ phase[e] \in {"unwinding", "closing"} /\ ~Closed(e)
  BY DEF Release, Closed
<1>3. CASE Phase(e, "aborted") /\ UNCHANGED <<holdings, qpState>>
  <2>1. "aborted" \in {"aborted", "closing", "unwound", "closed"} /\ live' = live /\ qpState' = qpState
    BY <1>3 DEF holdings
  <2> QED BY <1>2, <1>3, <2>1, PhaseStep
<1>4. CASE /\ live' = [live EXCEPT ![e] = @ \ {r}] /\ phase' = phase
           /\ qpState' = IF r = QueuePair(i) THEN [qpState EXCEPT ![e][i] = "none"] ELSE qpState
  <2> HIDE DEF i
  <2>1. Family(live)' /\ live'[Peer(e)] = live[Peer(e)]
    BY <1>1, <1>4, Peers DEF BootTyped, Family
  <2>2. qpState \in [Endpoint -> [Index -> QueuePairState]] /\ "none" \in QueuePairState
    BY <1>1 DEF BootTyped, QueuePairState
  <2>3. CASE qpState' = [qpState EXCEPT ![e][i] = "none"]
    <3>1. /\ qpState' \in [Endpoint -> [Index -> QueuePairState]] /\ qpState'[Peer(e)] = qpState[Peer(e)]
          /\ \A j \in Index : qpState'[e][j] \in {qpState[e][j], "none"}
      BY <2>2, <2>3, Peers
    <3>2. Stops(e)
      BY <1>1, <1>2, <1>4, <2>1, <3>1 DEF Stops, BootTyped, Active
    <3> QED BY <3>2, StopInv
  <2>4. CASE qpState' = qpState
    <3>1. Stops(e)
      BY <1>1, <1>2, <1>4, <2>1, <2>2, <2>4 DEF Stops, BootTyped, Active
    <3> QED BY <3>1, StopInv
  <2> QED BY <1>4, <2>3, <2>4
<1> QED BY <1>3, <1>4 DEF Release

LEMMA DestroyedStep == ASSUME BootInv, NEW e \in Endpoint, Destroyed(e) PROVE BootInv'
<1>1. ~Closed(e) /\ UNCHANGED <<class, at, holdings, exchange, qpState>>
  BY DEF Destroyed, Closed
<1>2. class' = class /\ at' = at /\ UNCHANGED exchange /\ live' = live /\ qpState' = qpState
  BY <1>1 DEF holdings
<1>3. PICK p \in {"unwound", "closed"} : Phase(e, p)
  BY DEF Destroyed
<1> QED BY <1>1, <1>2, <1>3, PhaseStep

LEMMA LeaveScopeStep ==
  ASSUME BootInv, NEW e \in Endpoint, phase[e] = "ready", LeaveScope(e) PROVE BootInv'
<1>1. ~Closed(e) /\ "closing" \in {"aborted", "closing", "unwound", "closed"}
  BY DEF Closed
<1>2. Phase(e, "closing") /\ class' = class /\ at' = at /\ UNCHANGED exchange /\ live' = live /\ qpState' = qpState
  BY DEF LeaveScope, holdings
<1> QED BY <1>1, <1>2, PhaseStep

LEMMA BootStands == ASSUME BootInv, UNCHANGED bootVars PROVE BootInv'
<1>1. /\ class' = class /\ phase' = phase /\ at' = at /\ live' = live /\ qpState' = qpState
      /\ addr' = addr /\ stream' = stream /\ misread' = misread /\ dest' = dest /\ remote' = remote
  BY DEF bootVars, holdings, exchange
<1>2. BootTyped' /\ Positions'
  BY <1>1 DEF BootInv, BootTyped, Positions, Family
<1>3. Streams'
  BY <1>1 DEF BootInv, Streams, StreamOf, Sound, Closed
<1>4. Records'
  BY <1>1 DEF BootInv, Records, AddressesOf, RemoteOf, Sound, Closed
<1>5. Built'
  BY <1>1 DEF BootInv, Built, StatesOf, LivesOf, Active
<1>6. Paired'
  BY <1>1 DEF BootInv, Paired, Closed
<1> QED BY <1>2, <1>3, <1>4, <1>5, <1>6 DEF BootInv

LEMMA BootStep == BootInv /\ [Next]_vars => BootInv'
<1> SUFFICES ASSUME BootInv, [Next]_vars PROVE BootInv'
  OBVIOUS
<1>1. CASE UNCHANGED vars
  BY <1>1, BootStands DEF vars
<1>2. ASSUME NEW e \in Endpoint, Run(e) PROVE BootInv'
  <2>1. CASE Construct(e)
    <3>1. CASE Refused(e)
      BY <3>1, RaiseStep DEF Refused, At
    <3> QED BY <2>1, <3>1, QuietActions, AcquireStep, QueryStep, SendAddressStep, ReceiveAddressStep,
               ConnectStep, SendRmrInfoStep, ReceiveRmrStep DEF Construct
  <2>2. CASE Destroy(e)
    BY <2>2, ReleaseStep, DestroyedStep DEF Destroy
  <2>3. CASE ClientSend \/ ClientReceive \/ ServerReceive \/ ServerSend
    <3>1. UNCHANGED bootVars
      BY <2>3 DEF ClientSend, ClientReceive, ServerReceive, ServerSend
    <3> QED BY <3>1, BootStands
  <2>4. CASE ClientExit \/ ServerExit
    <3>1. "client" \in Endpoint /\ "server" \in Endpoint
      BY DEF Endpoint
    <3> QED BY <2>4, <3>1, LeaveScopeStep DEF ClientExit, ServerExit
  <2> QED BY <1>2, <2>1, <2>2, <2>3, <2>4 DEF Run
<1>3. ASSUME NEW e \in Endpoint, Throw(e) \/ SendFails(e) PROVE BootInv'
  BY <1>3, RaiseStep DEF Throw, SendFails
<1> QED BY <1>1, <1>2, <1>3 DEF Next

LEMMA BootStart == Init => BootInv
<1> SUFFICES ASSUME Init PROVE BootInv
  OBVIOUS
<1>1. /\ class \in Class
      /\ phase = [e \in Endpoint |-> "constructing"] /\ at = [e \in Endpoint |-> 1]
      /\ live = [e \in Endpoint |-> {}] /\ addr = [e \in Endpoint |-> Zero(5)]
      /\ stream = [e \in Endpoint |-> <<>>] /\ misread = [e \in Endpoint |-> FALSE]
      /\ qpState = [e \in Endpoint |-> [i \in Index |-> "none"]]
      /\ dest = [e \in Endpoint |-> [i \in Index |-> Unconnected]]
      /\ remote = [e \in Endpoint |-> Zero(3)]
  BY DEF Init, BootInit
<1>2. \A n \in Nat : Listed(Zero(n)) /\ Len(Zero(n)) = n
  <2> SUFFICES ASSUME NEW n \in Nat PROVE Listed(Zero(n)) /\ Len(Zero(n)) = n
    OBVIOUS
  <2> DEFINE f == Zero(n)
  <2>1. f = [j \in 1 .. n |-> f[j]]
    BY DEF Zero
  <2> HIDE DEF f
  <2>2. Listed(f) /\ Len(f) = n
    BY <2>1, FunctionListed
  <2> QED BY <2>2 DEF f
<1>3. Listed(<<>>) /\ Len(<<>>) = 0
  BY ListedFacts
<1>4. BootTyped
  <2>1. Listed(Zero(5)) /\ Len(Zero(5)) = 5 /\ Listed(Zero(3)) /\ Len(Zero(3)) = 3
    BY <1>2
  <2>2. /\ phase \in [Endpoint -> Phases] /\ at \in [Endpoint -> Nat]
        /\ qpState \in [Endpoint -> [Index -> QueuePairState]]
    BY <1>1 DEF Phases, QueuePairState
  <2>3. Family(live) /\ Family(addr) /\ Family(stream) /\ Family(misread) /\ Family(dest) /\ Family(remote)
    BY <1>1 DEF Family
  <2>4. \A e \in Endpoint :
           /\ addr[e] = Zero(5) /\ remote[e] = Zero(3) /\ stream[e] = <<>> /\ misread[e] = FALSE
           /\ dest[e] = [i \in Index |-> Unconnected]
    BY <1>1
  <2> QED BY <1>1, <1>3, <2>1, <2>2, <2>3, <2>4 DEF BootTyped
<1>5. \A e \in Endpoint : /\ Numbers(Before(class, e), QueuePairsOf(class), RmrPlace(class, e))
                          /\ Before(class, e) >= 1 /\ Len(Plan[class][e]) \in Nat /\ Len(Plan[class][e]) >= 1
  <2> SUFFICES ASSUME NEW e \in Endpoint
               PROVE  /\ Numbers(Before(class, e), QueuePairsOf(class), RmrPlace(class, e))
                      /\ Before(class, e) >= 1 /\ Len(Plan[class][e]) \in Nat /\ Len(Plan[class][e]) >= 1
    OBVIOUS
  <2> DEFINE p == Plan[class][e]
             b == Before(class, e)
             q == QueuePairsOf(class)
             r == RmrPlace(class, e)
  <2>1. Shape(p, b, q, r)
    BY <1>1, PlanShape
  <2>2. b >= 1
    BY DEF Before
  <2> HIDE DEF p, b, q, r
  <2>3. Numbers(b, q, r) /\ Len(p) \in Nat /\ Len(p) >= r + 1 /\ r \in Nat
    BY <2>1, Zenon DEF Shape, Numbers
  <2>4. Len(p) >= 1
    BY <2>3
  <2> QED BY <2>2, <2>3, <2>4 DEF p, b, q, r
<1>6. \A e \in Endpoint : at[e] = 1 /\ phase[e] = "constructing"
  BY <1>1
<1>7. Positions
  BY <1>5, <1>6 DEF Positions
<1>8. Streams
  <2> SUFFICES ASSUME NEW e \in Endpoint PROVE StreamOf(e)
    BY DEF Streams
  <2>1. \A x \in Endpoint : Written(class, x, at[x]) = 0 /\ Read(class, x, at[x]) = 0
    <3> SUFFICES ASSUME NEW x \in Endpoint PROVE Written(class, x, at[x]) = 0 /\ Read(class, x, at[x]) = 0
      OBVIOUS
    <3> DEFINE b == Before(class, x)
               q == QueuePairsOf(class)
               r == RmrPlace(class, x)
               n == at[x]
    <3>1. Numbers(b, q, r) /\ n \in Nat /\ n <= b + 1
      <4>1. Numbers(b, q, r) /\ b >= 1 /\ n = 1
        BY <1>5, <1>6
      <4> HIDE DEF b, q, r, n
      <4>2. b \in Nat
        BY <4>1 DEF Numbers
      <4> QED BY <4>1, <4>2
    <3> HIDE DEF b, q, r, n
    <3>2. CountedOutside(b, q, r, n)
      BY <3>1, CountOutside
    <3>3. WrittenBy(b, q, r, n) = 0 /\ ReadBy(b, q, r, n) = 0
      BY <3>1, <3>2 DEF CountedOutside
    <3> QED BY <3>3 DEF Written, Read, b, q, r, n
  <2>2. stream[Peer(e)] = <<>> /\ Len(stream[Peer(e)]) = 0
    BY <1>1, <1>3, Peers
  <2>3. Len(stream[Peer(e)]) = Written(class, Peer(e), at[Peer(e)]) - Read(class, e, at[e])
    BY <2>1, <2>2, Peers
  <2> QED BY <2>2, <2>3 DEF StreamOf
<1>9. Records
  <2> SUFFICES ASSUME NEW e \in Endpoint PROVE AddressesOf(e) /\ RemoteOf(e)
    BY DEF Records
  <2>1. Before(class, e) \in Nat /\ Before(class, e) >= 1 /\ RmrPlace(class, e) \in Nat /\ RmrPlace(class, e) > 1
    <3> DEFINE b == Before(class, e)
               q == QueuePairsOf(class)
               r == RmrPlace(class, e)
    <3>1. b \in Nat /\ b >= 1 /\ q \in Nat /\ q > 0 /\ r \in Nat /\ r > b + 7 * q
      BY <1>5 DEF Numbers
    <3> HIDE DEF b, q, r
    <3>2. r > 1
      BY <3>1
    <3> QED BY <3>1, <3>2 DEF b, r
  <2>2. ASSUME NEW i \in 1 .. QueuePairsOf(class), NEW k \in 3 .. 6 PROVE at[e] # Place(class, e, i, k)
    <3>1. i \in Nat /\ i >= 1
      BY <1>1, QueuePairsPositive
    <3> QED BY <1>6, <2>1, <3>1 DEF Place
  <2>3. AddressesOf(e)
    BY <2>2 DEF AddressesOf
  <2> QED BY <1>6, <2>1, <2>3 DEF RemoteOf
<1>10. Built
  <2> SUFFICES ASSUME NEW e \in Endpoint PROVE StatesOf(e) /\ LivesOf(e)
    BY DEF Built
  <2>1. LivesOf(e)
    BY <1>6 DEF LivesOf
  <2>2. ASSUME NEW i \in 1 .. QueuePairsOf(class)
        PROVE  qpState[e][i] = StateAfter(at[e] - 1 - Place(class, e, i, 0))
    <3>1. i \in Nat /\ i >= 1 /\ i \in Index
      BY <1>1, QueuePairsPositive
    <3>2. Before(class, e) \in Nat
      BY <1>5 DEF Numbers
    <3>3. at[e] - 1 - Place(class, e, i, 0) < 1
      BY <1>6, <3>1, <3>2 DEF Place
    <3>4. qpState[e][i] = "none"
      BY <1>1, <3>1
    <3> QED BY <3>3, <3>4 DEF StateAfter
  <2> QED BY <2>1, <2>2 DEF StatesOf
<1>11. Paired
  BY <1>1 DEF Paired
<1> QED BY <1>4, <1>7, <1>8, <1>9, <1>10, <1>11 DEF BootInv

LEMMA BootInvariant == Spec => []BootInv
BY BootStart, BootStep, PTL DEF Spec

(* Queue pair i of one endpoint is connected to queue pair i of the other, *)
(* for every number of queue pairs, whatever fails and in whatever order   *)
(* the steps are made, unless the peer is gone or a record was read in     *)
(* part: exchangeQPNAndConnect pairs the right queue pairs. *)
THEOREM QueuePairsArePaired == Spec => []Paired
<1>1. BootInv => Paired
  BY DEF BootInv
<1> QED BY <1>1, BootInvariant, PTL

-----------------------------------------------------------------------------
(* What is ready when the descriptors have been exchanged *)

LEMMA WrittenBound ==
  ASSUME NEW b, NEW q, NEW r, Numbers(b, q, r), NEW n \in Nat, n <= r
  PROVE  WrittenBy(b, q, r, n) <= 5 * q
<1> DEFINE d == Done(b, q, n)
           w == (d + 4) \div 7
<1>1. b \in Nat /\ q \in Nat /\ q > 0 /\ r \in Nat /\ 7 * q \in Nat
  BY DEF Numbers
<1>2. d \in Nat /\ d <= 7 * q
  BY <1>1 DEF Done
<1> HIDE DEF d
<1>3. w \in Nat /\ w <= q
  BY <1>1, <1>2
<1>4. ~(n > r)
  BY <1>1
<1> HIDE DEF w
<1>5. WrittenBy(b, q, r, n) = 5 * w + 0
  BY <1>4, Zenon DEF WrittenBy, d, w
<1> QED BY <1>1, <1>3, <1>5

LEMMA PlaceNumbersKnown ==
  ASSUME NEW c \in Class, NEW e \in Endpoint
  PROVE  RmrPlace(c, e) \in Nat /\ Numbers(Before(c, e), QueuePairsOf(c), RmrPlace(c, e))
<1>1. Shape(Plan[c][e], Before(c, e), QueuePairsOf(c), RmrPlace(c, e))
  BY PlanShape
<1> QED BY <1>1, Zenon DEF Shape, Numbers

LEMMA RegionLives ==
  ASSUME BootInv, NEW e \in Endpoint, Active(e), at[e] > RmrPlace(class, e),
         NEW region \in {"localReceive", "localReadPos", "localCurrentRemoteReceive"}
  PROVE  The(region) \in live[e]
<1> DEFINE p == Plan[class][e]
           b == Before(class, e)
           q == QueuePairsOf(class)
           r == RmrPlace(class, e)
<1>1. class \in Class /\ at[e] \in Nat /\ LivesOf(e)
  BY DEF BootInv, BootTyped, Built
<1>2. Shape(p, b, q, r)
  BY <1>1, PlanShape
<1>3. at[e] > r
  OBVIOUS
<1>4. \A n \in 1 .. at[e] - 1 : p[n].call = "acquire" => p[n].res \in live[e]
  BY <1>1 DEF LivesOf
<1> HIDE DEF p, b, q, r
<1>5. b \in Nat /\ q \in Nat /\ r \in Nat
  BY <1>2, Zenon DEF Shape
<1>6. PICK n \in b + 7 * q + 1 .. r - 1 : p[n].call = "acquire" /\ p[n].res = The(region)
  BY <1>2, Zenon DEF Shape
<1>7. n \in 1 .. at[e] - 1
  <2>1. at[e] \in Nat /\ n \in b + 7 * q + 1 .. r - 1
    BY <1>1, <1>6
  <2> QED BY <1>3, <1>5, <2>1
<1> QED BY <1>4, <1>6, <1>7

LEMMA QueuePairsReady ==
  ASSUME BootInv, NEW e \in Endpoint, Active(e), at[e] > RmrPlace(class, e), NEW i \in 1 .. QueuePairsOf(class)
  PROVE  qpState[e][i] = "RTS"
<1> DEFINE b == Before(class, e)
           q == QueuePairsOf(class)
           r == RmrPlace(class, e)
           n == at[e]
<1>1. class \in Class /\ n \in Nat /\ StatesOf(e) /\ n > r
  BY DEF BootInv, BootTyped, Built
<1>2. Numbers(b, q, r)
  BY <1>1, PlaceNumbersKnown
<1>3. qpState[e][i] = StateAfter(n - 1 - (b + 7 * (i - 1) + 0))
  BY <1>1 DEF StatesOf, Place
<1> HIDE DEF b, r, n
<1>4. i \in 1 .. q
  OBVIOUS
<1> HIDE DEF q
<1>5. b \in Nat /\ q \in Nat /\ r \in Nat /\ r > b + 7 * q
  BY <1>2 DEF Numbers
<1>6. n - 1 - (b + 7 * (i - 1) + 0) > 6
  BY <1>1, <1>4, <1>5
<1> DEFINE m == n - 1 - (b + 7 * (i - 1) + 0)
<1>7. m \in Int /\ m > 6 /\ qpState[e][i] = StateAfter(m)
  BY <1>1, <1>3, <1>4, <1>5, <1>6
<1> HIDE DEF m
<1> QED BY <1>7 DEF StateAfter

(* The end of the plan, and the query of the device, come after the        *)
(* descriptor was received. *)
Prepared(e) == phase[e] = "ready" \/ At(e, "query device")

LEMMA DescriptorReceived ==
  ASSUME BootInv, NEW e \in Endpoint, Prepared(e)
  PROVE  Active(e) /\ at[e] > RmrPlace(class, e) + 1
<1> DEFINE p == Plan[class][e]
           b == Before(class, e)
           q == QueuePairsOf(class)
           r == RmrPlace(class, e)
<1>1. class \in Class /\ at[e] \in Nat /\ Positions
  BY DEF BootInv, BootTyped
<1>2. Shape(p, b, q, r)
  BY <1>1, PlanShape
<1>3. CASE phase[e] = "ready"
  <2>1. at[e] = Len(p) + 1
    BY <1>1, <1>3 DEF Positions
  <2> HIDE DEF p, b, q, r
  <2>2. Len(p) \in Nat /\ r \in Nat /\ Len(p) >= r + 1
    BY <1>2, Zenon DEF Shape
  <2>3. at[e] > r + 1
    BY <2>1, <2>2
  <2> QED BY <1>3, <2>3 DEF Active, r
<1>4. CASE At(e, "query device")
  <2>1. phase[e] = "constructing"
    BY <1>4, Zenon DEF At
  <2>2. at[e] \in 1 .. Len(Plan[class][e])
    BY <1>1, <2>1 DEF Positions
  <2>3. StepCounts(class, e, at[e])
    BY <1>1, <2>2, StepCounted
  <2>4. at[e] > RmrPlace(class, e) + 1
    BY <1>4, <2>3, Zenon DEF At, StepCounts, Step
  <2>5. Active(e)
    BY <2>1 DEF Active
  <2> QED BY <2>4, <2>5
<1> QED BY <1>3, <1>4, Zenon DEF Prepared

(* Who has read the peer's descriptor in step knows that it was sent. *)
LEMMA DescriptorSent ==
  ASSUME BootInv, NEW e \in Endpoint, at[e] > RmrPlace(class, e) + 1, Sound(e)
  PROVE  at[Peer(e)] > RmrPlace(class, Peer(e))
<1> DEFINE d == Peer(e)
           q == QueuePairsOf(class)
           l == Len(stream[d])
<1>1. class \in Class /\ at[e] \in Nat /\ at[d] \in Nat /\ d \in Endpoint /\ Listed(stream[d]) /\ StreamOf(e)
  BY Peers DEF BootInv, BootTyped, Streams
<1>2. l \in Nat
  BY <1>1, ListedLength
<1>3. l = Written(class, d, at[d]) - Read(class, e, at[e])
  BY <1>1 DEF StreamOf
<1>4. Read(class, e, at[e]) = 5 * q + 3
  <2> DEFINE b == Before(class, e)
             r == RmrPlace(class, e)
             n == at[e]
  <2>1. Numbers(b, q, r) /\ n \in Nat /\ n > r + 1
    BY <1>1, PlaceNumbersKnown
  <2> HIDE DEF b, q, r, n
  <2>2. CountedOutside(b, q, r, n)
    BY <2>1, CountOutside
  <2>3. n > b + 7 * q
    BY <2>1 DEF Numbers
  <2>4. ReadBy(b, q, r, n) = 5 * q + 3
    BY <2>1, <2>2, <2>3 DEF CountedOutside
  <2> QED BY <2>4 DEF Read, b, q, r, n
<1>5. ASSUME ~(at[d] > RmrPlace(class, d)) PROVE Written(class, d, at[d]) <= 5 * q
  <2> DEFINE b == Before(class, d)
             r == RmrPlace(class, d)
             n == at[d]
  <2>1. Numbers(b, q, r) /\ n \in Nat /\ ~(n > r)
    BY <1>1, <1>5, PlaceNumbersKnown
  <2> HIDE DEF b, q, r, n, d
  <2>2. n <= r
    BY <2>1 DEF Numbers
  <2>3. WrittenBy(b, q, r, n) <= 5 * q
    BY <2>1, <2>2, WrittenBound
  <2> QED BY <2>3 DEF Written, b, q, r, n
<1>6. Written(class, d, at[d]) \in Nat /\ q \in Nat
  BY <1>1, ReadNatural, QueuePairsPositive
<1> HIDE DEF d, q, l
<1>7. Written(class, d, at[d]) > 5 * q
  BY <1>2, <1>3, <1>4, <1>6
<1> DEFINE w == Written(class, d, at[d])
<1>8. w \in Nat /\ w > 5 * q /\ q \in Nat /\ (~(at[d] > RmrPlace(class, d)) => w <= 5 * q)
  BY <1>5, <1>6, <1>7
<1> HIDE DEF w
<1>9. at[d] > RmrPlace(class, d)
  BY <1>8
<1> QED BY <1>9 DEF d

LEMMA RegionFlags ==
  /\ "LocalWrite" \in Permissions(class, "localCurrentRemoteReceive")
  /\ {"LocalWrite", "RemoteWrite"} \subseteq Permissions(class, "localReceive")
  /\ "RemoteRead" \in Permissions(class, "localReadPos")
<1>1. Permissions(class, "localReceive") = {"LocalWrite", "RemoteWrite"}
  BY DEF Permissions
<1>2. Permissions(class, "localReadPos") = {"RemoteRead"}
  BY DEF Permissions
<1>3. Permissions(class, "localCurrentRemoteReceive") = {"LocalWrite"}
  BY DEF Permissions
<1> QED BY <1>1, <1>2, <1>3

LEMMA FlagsSet ==
  ASSUME NEW permissions
  PROVE  /\ "LocalWrite" \in permissions => "IBV_ACCESS_LOCAL_WRITE" \in convertPermissions(permissions)
         /\ "RemoteWrite" \in permissions => "IBV_ACCESS_REMOTE_WRITE" \in convertPermissions(permissions)
         /\ "RemoteRead" \in permissions => "IBV_ACCESS_REMOTE_READ" \in convertPermissions(permissions)
<1>1. /\ Flag["LocalWrite"] = "IBV_ACCESS_LOCAL_WRITE" /\ Flag["RemoteWrite"] = "IBV_ACCESS_REMOTE_WRITE"
      /\ Flag["RemoteRead"] = "IBV_ACCESS_REMOTE_READ"
  BY DEF Flag
<1> QED BY <1>1 DEF convertPermissions

LEMMA BothReady == BootInv => PeerReady
<1> SUFFICES ASSUME BootInv, NEW e \in Endpoint, Prepared(e)
             PROVE  /\ Registered(e, "localCurrentRemoteReceive", {"IBV_ACCESS_LOCAL_WRITE"})
                    /\ \/ misread[e] \/ phase[Peer(e)] \notin {"constructing", "ready"}
                       \/ /\ \A i \in 1 .. QueuePairsOf(class) : qpState[Peer(e)][i] \in {"RTR", "RTS"}
                          /\ remote[e] = RmrInfoOf(Peer(e))
                          /\ PeerMayWrite(Peer(e), remote[e][2][2])
                          /\ PeerMayRead(Peer(e), remote[e][3][2])
  BY Zenon DEF PeerReady, Prepared
<1> DEFINE d == Peer(e)
<1>1. Active(e) /\ at[e] > RmrPlace(class, e) + 1 /\ at[e] > RmrPlace(class, e)
  <2>1. class \in Class /\ at[e] \in Nat
    BY DEF BootInv, BootTyped
  <2>2. RmrPlace(class, e) \in Nat
    BY <2>1, PlaceNumbersKnown
  <2>3. Active(e) /\ at[e] > RmrPlace(class, e) + 1
    BY DescriptorReceived
  <2> QED BY <2>1, <2>2, <2>3
<1>2. Registered(e, "localCurrentRemoteReceive", {"IBV_ACCESS_LOCAL_WRITE"})
  BY <1>1, RegionLives, RegionFlags, FlagsSet DEF Registered
<1>3. ASSUME ~misread[e], phase[d] \in {"constructing", "ready"}
      PROVE  /\ \A i \in 1 .. QueuePairsOf(class) : qpState[d][i] \in {"RTR", "RTS"}
             /\ remote[e] = RmrInfoOf(d) /\ PeerMayWrite(d, remote[e][2][2]) /\ PeerMayRead(d, remote[e][3][2])
  <2>1. Active(d) /\ Sound(e) /\ d \in Endpoint
    BY <1>3, Peers DEF Active, Sound, Closed
  <2>2. at[d] > RmrPlace(class, d)
    BY <1>1, <2>1, DescriptorSent
  <2>3. remote[e] = RmrInfoOf(d)
    BY <1>1, <2>1 DEF BootInv, Records, RemoteOf
  <2> HIDE DEF d
  <2>4. remote[e][2][2] = "localReceive" /\ remote[e][3][2] = "localReadPos"
    BY <2>3 DEF RmrInfoOf
  <2>5. The("localReceive") \in live[d] /\ The("localReadPos") \in live[d]
    BY <2>1, <2>2, RegionLives
  <2>6. PeerMayWrite(d, "localReceive")
    BY <2>5, RegionFlags, FlagsSet DEF PeerMayWrite, Registered, qp_access_flags
  <2>7. PeerMayRead(d, "localReadPos")
    BY <2>5, RegionFlags, FlagsSet DEF PeerMayRead, Registered, qp_access_flags
  <2>8. \A i \in 1 .. QueuePairsOf(class) : qpState[d][i] = "RTS"
    BY <2>1, <2>2, QueuePairsReady
  <2> QED BY <2>3, <2>4, <2>6, <2>7, <2>8
<1> QED BY <1>2, <1>3

(* Once a constructor has its descriptor, the peer, if it still runs, is   *)
(* ready for the first request, which is not repeated: every queue pair it *)
(* has is in RTR at least, and what the descriptor names is registered for *)
(* what will be done to it; setupRmr's exchange is also the barrier that   *)
(* the retry count of 0 needs. *)
THEOREM PeerIsReady == Spec => []PeerReady
BY BootInvariant, BothReady, PTL

(* Where the parts of a plan begin, and how long they are: the connection, *)
(* the network and the completion queues, the queue pairs, the memory, its *)
(* registrations, the descriptors, and the calculations *)
LenSocket(e) == IF e = "client" THEN 1 ELSE 2
LenPreparation(c) == IF c = "ECBuffer" THEN 13 ELSE 12
LenMemory(c) == IF c = "ECBuffer" THEN 4 ELSE 2
LenRegions(c) == IF c = "ECBuffer" THEN 6 ELSE 4
LenCalc(c) == IF c = "ECBuffer" THEN 7 ELSE 0
ExchangeAt(c, e) == LenSocket(e) + LenPreparation(c)
MemoryAt(c, e) == ExchangeAt(c, e) + 7 * QueuePairsOf(c)
RegionsAt(c, e) == MemoryAt(c, e) + LenMemory(c)
RmrAt(c, e) == RegionsAt(c, e) + LenRegions(c)
CalcAt(c, e) == RmrAt(c, e) + 3

RmrSteps == <<Call("check size", The("receiveBuffer")),
              Call("sendRmr", The("localReceive")), Call("receiveRmr", The("localReceive"))>>

Sections(p, c, e) ==
    /\ Len(p) = CalcAt(c, e) + LenCalc(c)
    /\ \A j \in 1 .. LenSocket(e) : p[j] = SocketSteps(e)[j]
    /\ \A j \in 1 .. LenPreparation(c) : p[LenSocket(e) + j] = Preparation(c)[j]
    /\ \A j \in 1 .. 7 * QueuePairsOf(c) : p[ExchangeAt(c, e) + j] = QueuePairSteps(c)[j]
    /\ \A j \in 1 .. LenMemory(c) : p[MemoryAt(c, e) + j] = MemorySteps(c)[j]
    /\ \A j \in 1 .. LenRegions(c) : p[RegionsAt(c, e) + j] = RegionSteps(c)[j]
    /\ \A j \in 1 .. 3 : p[RmrAt(c, e) + j] = RmrSteps[j]
    /\ \A j \in 1 .. LenCalc(c) : p[CalcAt(c, e) + j] = ECCalcSteps[j]

LEMMA LengthsNatural ==
  ASSUME NEW c \in Class, NEW e \in Endpoint
  PROVE  /\ LenSocket(e) \in Nat /\ LenPreparation(c) \in Nat /\ LenMemory(c) \in Nat
         /\ LenRegions(c) \in Nat /\ LenCalc(c) \in Nat
         /\ QueuePairsOf(c) \in Nat /\ QueuePairsOf(c) > 0 /\ 7 * QueuePairsOf(c) \in Nat
<1>1. QueuePairsOf(c) \in Nat /\ QueuePairsOf(c) > 0
  BY ExchangeSteps
<1> QED BY <1>1 DEF LenSocket, LenPreparation, LenMemory, LenRegions, LenCalc

(* A list of n elements of one and l of another *)
Extends(w, u, s, n, l) ==
    /\ Listed(w) /\ Len(w) = n + l /\ n \in Nat /\ n + l \in Nat
    /\ \A j \in 1 .. n : w[j] = u[j]
    /\ \A j \in 1 .. l : w[n + j] = s[j]

LEMMA Extended ==
  ASSUME NEW u, NEW s, NEW n, Listed(u), Listed(s), Len(u) = n, NEW l \in Nat, Len(s) = l
  PROVE  Extends(u \o s, u, s, n, l)
<1> DEFINE w == u \o s
<1>1. Listed(w) /\ IsConcat(w, u, s)
  BY ListedConcat
<1> HIDE DEF w
<1>2. n \in Nat /\ n + l \in Nat /\ Len(w) = n + l
  BY <1>1 DEF IsConcat
<1>3. Extends(w, u, s, n, l)
  BY <1>1, <1>2 DEF IsConcat, Extends
<1> QED BY <1>3 DEF w

LEMMA PlanSections ==
  ASSUME NEW c \in Class, NEW e \in Endpoint
  PROVE  Sections(Plan[c][e], c, e)
<1> DEFINE s == SocketSteps(e)
           a == Preparation(c)
           x == QueuePairSteps(c)
           m == MemorySteps(c)
           g == RegionSteps(c)
           t == RmrSteps
           z == IF c = "ECBuffer" THEN ECCalcSteps ELSE <<>>
           u1 == a \o x
           u2 == u1 \o m
           u3 == u2 \o g
           u4 == u3 \o t
           u5 == u4 \o z
           p == s \o u5
           ls == LenSocket(e)
           la == LenPreparation(c)
           q == QueuePairsOf(c)
           lx == 7 * q
           lm == LenMemory(c)
           lg == LenRegions(c)
           lz == LenCalc(c)
<1>1. Plan[c][e] = p
  BY DEF Plan, BufferSteps, RDMANetworkingSteps, Preparation, MemorySteps, RegionSteps, RmrSteps
<1>2. /\ ls \in Nat /\ la \in Nat /\ lx \in Nat /\ lm \in Nat /\ lg \in Nat /\ lz \in Nat
  BY LengthsNatural
<1>3. Listed(s) /\ Listed(a) /\ Listed(m) /\ Listed(g) /\ Len(s) = ls /\ Len(a) = la /\ Len(m) = lm /\ Len(g) = lg
  <2>1. QuietSteps(s, ls)
    BY QuietSocket DEF LenSocket
  <2>2. QuietSteps(a, la)
    BY QuietPreparation DEF LenPreparation
  <2>3. QuietSteps(m, lm)
    BY QuietMemory DEF LenMemory
  <2>4. QuietSteps(g, lg)
    BY QuietRegions DEF LenRegions
  <2> QED BY <2>1, <2>2, <2>3, <2>4 DEF QuietSteps, Quiet
<1>4. Listed(x) /\ Len(x) = lx
  BY ExchangeSteps
<1>5. Listed(t) /\ Len(t) = 3
  BY ListedFacts DEF RmrSteps
<1>6. Listed(z) /\ Len(z) = lz /\ \A j \in 1 .. lz : z[j] = ECCalcSteps[j]
  <2>1. CASE c = "ECBuffer"
    BY <2>1, CalcSteps DEF LenCalc
  <2>2. CASE c # "ECBuffer"
    BY <2>2, ListedFacts DEF LenCalc
  <2> QED BY <2>1, <2>2
<1>30. 3 \in Nat
  OBVIOUS
<1> HIDE DEF s, a, x, m, g, t, z, ls, la, q, lx, lm, lg, lz
<1> DEFINE n1 == la + lx
           n2 == n1 + lm
           n3 == n2 + lg
           n4 == n3 + 3
           n5 == n4 + lz
<1>31. Extends(u1, a, x, la, lx)
  BY <1>2, <1>3, <1>4, Extended, Zenon
<1> HIDE DEF u1
<1>11. /\ Listed(u1) /\ Len(u1) = n1 /\ n1 \in Nat
       /\ \A j \in 1 .. la : u1[j] = a[j]
       /\ \A j \in 1 .. lx : u1[la + j] = x[j]
  BY <1>31 DEF Extends
<1> HIDE DEF n1
<1>32. Extends(u2, u1, m, n1, lm)
  BY <1>2, <1>3, <1>11, Extended, Zenon
<1> HIDE DEF u2
<1>12. /\ Listed(u2) /\ Len(u2) = n2 /\ n2 \in Nat
       /\ \A j \in 1 .. n1 : u2[j] = u1[j]
       /\ \A j \in 1 .. lm : u2[n1 + j] = m[j]
  BY <1>32 DEF Extends
<1> HIDE DEF n2
<1>33. Extends(u3, u2, g, n2, lg)
  BY <1>2, <1>3, <1>12, Extended, Zenon
<1> HIDE DEF u3
<1>13. /\ Listed(u3) /\ Len(u3) = n3 /\ n3 \in Nat
       /\ \A j \in 1 .. n2 : u3[j] = u2[j]
       /\ \A j \in 1 .. lg : u3[n2 + j] = g[j]
  BY <1>33 DEF Extends
<1> HIDE DEF n3
<1>34. Extends(u4, u3, t, n3, 3)
  BY <1>5, <1>13, <1>30, Extended, Zenon
<1> HIDE DEF u4
<1>14. /\ Listed(u4) /\ Len(u4) = n4 /\ n4 \in Nat
       /\ \A j \in 1 .. n3 : u4[j] = u3[j]
       /\ \A j \in 1 .. 3 : u4[n3 + j] = t[j]
  BY <1>34 DEF Extends
<1> HIDE DEF n4
<1>35. Extends(u5, u4, z, n4, lz)
  BY <1>2, <1>6, <1>14, Extended, Zenon
<1> HIDE DEF u5
<1>15. /\ Listed(u5) /\ Len(u5) = n5 /\ n5 \in Nat
       /\ \A j \in 1 .. n4 : u5[j] = u4[j]
       /\ \A j \in 1 .. lz : u5[n4 + j] = z[j]
  BY <1>35 DEF Extends
<1> HIDE DEF n5
<1>36. Extends(p, s, u5, ls, n5)
  BY <1>2, <1>3, <1>15, Extended, Zenon
<1> HIDE DEF p
<1>16. /\ Len(p) = ls + n5
       /\ \A j \in 1 .. ls : p[j] = s[j]
       /\ \A j \in 1 .. n5 : p[ls + j] = u5[j]
  BY <1>36 DEF Extends
<1>0. /\ n1 = la + lx /\ n2 = n1 + lm /\ n3 = n2 + lg /\ n4 = n3 + 3 /\ n5 = n4 + lz
      /\ n1 <= n2 /\ n2 <= n3 /\ n3 <= n4 /\ n4 <= n5 /\ n1 <= n3 /\ n1 <= n4 /\ n2 <= n4 /\ n1 <= n5 /\ n2 <= n5 /\ n3 <= n5
  <2>1. /\ n1 = la + lx /\ n2 = n1 + lm /\ n3 = n2 + lg /\ n4 = n3 + 3 /\ n5 = n4 + lz
    BY DEF n1, n2, n3, n4, n5
  <2>2. n1 \in Nat /\ n2 \in Nat /\ n3 \in Nat /\ n4 \in Nat /\ n5 \in Nat
    BY <1>11, <1>12, <1>13, <1>14, <1>15
  <2> QED BY <1>2, <2>1, <2>2
<1>17. /\ \A j \in 1 .. n3 : u5[j] = u3[j]
       /\ \A j \in 1 .. n2 : u5[j] = u2[j]
       /\ \A j \in 1 .. n1 : u5[j] = u1[j]
  <2>1. \A j \in 1 .. n3 : j \in 1 .. n4
    BY <1>0, <1>13, <1>14
  <2>2. \A j \in 1 .. n2 : j \in 1 .. n3
    BY <1>0, <1>12, <1>13
  <2>3. \A j \in 1 .. n1 : j \in 1 .. n2
    BY <1>0, <1>11, <1>12
  <2>4. \A j \in 1 .. n3 : u5[j] = u3[j]
    BY <2>1, <1>14, <1>15, Zenon
  <2>5. \A j \in 1 .. n2 : u5[j] = u2[j]
    BY <2>2, <2>4, <1>13, Zenon
  <2>6. \A j \in 1 .. n1 : u5[j] = u1[j]
    BY <2>3, <2>5, <1>12, Zenon
  <2> QED BY <2>4, <2>5, <2>6
<1>21. \A j \in 1 .. la : p[ls + j] = a[j]
  <2>1. \A j \in 1 .. la : j \in 1 .. n1 /\ j \in 1 .. n5 /\ 0 + j = j
    BY <1>0, <1>2, <1>11, <1>15
  <2> QED BY <1>11, <1>16, <1>17, <2>1
<1>22. \A j \in 1 .. lx : p[(ls + la) + j] = x[j]
  <2>1. \A j \in 1 .. lx : la + j \in 1 .. n1 /\ (ls + la) + j = ls + (la + j)
    BY <1>0, <1>2
  <2>2. \A j \in 1 .. lx : u5[la + j] = x[j]
    BY <1>11, <1>17, <2>1, Zenon
  <2>3. \A j \in 1 .. lx : la + j \in 1 .. n5
    BY <1>0, <1>2, <1>11, <1>12, <1>13, <1>14, <1>15
  <2>4. \A j \in 1 .. lx : p[ls + (la + j)] = x[j]
    BY <1>16, <2>2, <2>3, Zenon
  <2> QED BY <2>1, <2>4
<1>23. \A j \in 1 .. lm : p[(ls + n1) + j] = m[j]
  <2>1. \A j \in 1 .. lm : n1 + j \in 1 .. n2 /\ (ls + n1) + j = ls + (n1 + j)
    BY <1>0, <1>2, <1>11
  <2>2. \A j \in 1 .. lm : u5[n1 + j] = m[j]
    BY <1>12, <1>17, <2>1, Zenon
  <2>3. \A j \in 1 .. lm : n1 + j \in 1 .. n5
    BY <1>0, <1>2, <1>11, <1>12, <1>13, <1>14, <1>15
  <2>4. \A j \in 1 .. lm : p[ls + (n1 + j)] = m[j]
    BY <1>16, <2>2, <2>3, Zenon
  <2> QED BY <2>1, <2>4
<1>24. \A j \in 1 .. lg : p[(ls + n2) + j] = g[j]
  <2>1. \A j \in 1 .. lg : n2 + j \in 1 .. n3 /\ (ls + n2) + j = ls + (n2 + j)
    BY <1>0, <1>2, <1>12
  <2>2. \A j \in 1 .. lg : u5[n2 + j] = g[j]
    BY <1>13, <1>17, <2>1, Zenon
  <2>3. \A j \in 1 .. lg : n2 + j \in 1 .. n5
    BY <1>0, <1>2, <1>11, <1>12, <1>13, <1>14, <1>15
  <2>4. \A j \in 1 .. lg : p[ls + (n2 + j)] = g[j]
    BY <1>16, <2>2, <2>3, Zenon
  <2> QED BY <2>1, <2>4
<1>25. \A j \in 1 .. 3 : p[(ls + n3) + j] = t[j]
  <2>1. \A j \in 1 .. 3 : n3 + j \in 1 .. n4 /\ (ls + n3) + j = ls + (n3 + j)
    BY <1>0, <1>2, <1>13
  <2>2. \A j \in 1 .. 3 : u5[n3 + j] = t[j]
    BY <1>14, <1>15, <2>1, Zenon
  <2>3. \A j \in 1 .. 3 : n3 + j \in 1 .. n5
    BY <1>0, <1>2, <1>11, <1>12, <1>13, <1>14, <1>15
  <2>4. \A j \in 1 .. 3 : p[ls + (n3 + j)] = t[j]
    BY <1>16, <2>2, <2>3, Zenon
  <2> QED BY <2>1, <2>4
<1>26. \A j \in 1 .. lz : p[(ls + n4) + j] = z[j]
  <2>1. \A j \in 1 .. lz : (ls + n4) + j = ls + (n4 + j)
    BY <1>2, <1>14
  <2>3. \A j \in 1 .. lz : n4 + j \in 1 .. n5
    BY <1>0, <1>2, <1>11, <1>12, <1>13, <1>14, <1>15
  <2>4. \A j \in 1 .. lz : p[ls + (n4 + j)] = z[j]
    BY <1>16, <1>15, <2>3, Zenon
  <2> QED BY <2>1, <2>4
<1>27. /\ ExchangeAt(c, e) = ls + la /\ MemoryAt(c, e) = ls + n1 /\ RegionsAt(c, e) = ls + n2
       /\ RmrAt(c, e) = ls + n3 /\ CalcAt(c, e) = ls + n4 /\ CalcAt(c, e) + lz = ls + n5
  <2>1. /\ ExchangeAt(c, e) = ls + la /\ MemoryAt(c, e) = ExchangeAt(c, e) + lx
        /\ RegionsAt(c, e) = MemoryAt(c, e) + lm
        /\ RmrAt(c, e) = RegionsAt(c, e) + lg /\ CalcAt(c, e) = RmrAt(c, e) + 3
    BY DEF ExchangeAt, MemoryAt, RegionsAt, RmrAt, CalcAt, ls, la, lx, q, lm, lg
  <2> QED BY <1>0, <1>2, <2>1
<1>28. \A j \in 1 .. lz : p[CalcAt(c, e) + j] = ECCalcSteps[j]
  BY <1>6, <1>26, <1>27
<1>29. Sections(p, c, e)
  BY <1>16, <1>21, <1>22, <1>23, <1>24, <1>25, <1>27, <1>28
     DEF Sections, s, a, x, m, g, t, ls, la, lx, q, lm, lg, lz
<1> QED BY <1>1, <1>29

-----------------------------------------------------------------------------
(* What each step of a plan acquires, and what the object that it completes *)
(* frees *)
AcquiresStep(x, r, F) == x.call = "acquire" /\ x.res = r /\ x.frees = F
OtherStep(x, F) == x.call # "acquire" /\ x.frees = F

LEMMA StepFields ==
  ASSUME NEW call, NEW r, NEW F
  PROVE  /\ AcquiresStep(Raw(r), r, <<>>) /\ AcquiresStep(Completing(Raw(r), F), r, F)
         /\ call # "acquire" => OtherStep(Call(call, r), <<>>) /\ OtherStep(Completing(Call(call, r), F), F)
BY DEF AcquiresStep, OtherStep, Raw, Completing, Call

LEMMA MemberFields == ASSUME NEW name PROVE AcquiresStep(Member(name), The(name), <<The(name)>>)
<1> DEFINE F == <<The(name)>>
           r == The(name)
<1> HIDE DEF F, r
<1>1. AcquiresStep(Completing(Raw(r), F), r, F)
  BY StepFields
<1> QED BY <1>1 DEF Member, F, r

PairResource(i, j) == <<<<"channel", i>>, <<"sendQueue", i>>, <<"receiveQueue", i>>>>[j]

LEMMA PairSteps ==
  \A i : /\ Listed(CompletionQueuePairSteps(i)) /\ Len(CompletionQueuePairSteps(i)) = 3
         /\ \A j \in 1 .. 3 : AcquiresStep(CompletionQueuePairSteps(i)[j], PairResource(i, j), <<>>)
<1> SUFFICES ASSUME NEW i
             PROVE  /\ Listed(CompletionQueuePairSteps(i)) /\ Len(CompletionQueuePairSteps(i)) = 3
                    /\ \A j \in 1 .. 3 : AcquiresStep(CompletionQueuePairSteps(i)[j], PairResource(i, j), <<>>)
  OBVIOUS
<1> DEFINE x == <<"channel", i>>
           y == <<"sendQueue", i>>
           z == <<"receiveQueue", i>>
           u == Raw(x)
           v == Raw(y)
           w == Raw(z)
<1>1. AcquiresStep(u, x, <<>>) /\ AcquiresStep(v, y, <<>>) /\ AcquiresStep(w, z, <<>>)
  BY StepFields, Zenon
<1>2. CompletionQueuePairSteps(i) = <<u, v, w>>
  BY DEF CompletionQueuePairSteps
<1>3. \A j \in 1 .. 3 : PairResource(i, j) = <<x, y, z>>[j]
  BY DEF PairResource
<1> HIDE DEF x, y, z, u, v, w
<1>4. Listed(<<u, v, w>>) /\ Len(<<u, v, w>>) = 3
  BY ListedFacts, Zenon
<1>5. \A j \in 1 .. 3 : AcquiresStep(<<u, v, w>>[j], <<x, y, z>>[j], <<>>)
  <2>1. <<u, v, w>>[1] = u /\ <<u, v, w>>[2] = v /\ <<u, v, w>>[3] = w
    OBVIOUS
  <2>2. <<x, y, z>>[1] = x /\ <<x, y, z>>[2] = y /\ <<x, y, z>>[3] = z
    OBVIOUS
  <2>3. \A j \in 1 .. 3 : j = 1 \/ j = 2 \/ j = 3
    OBVIOUS
  <2> QED BY <1>1, <2>1, <2>2, <2>3, Zenon
<1> QED BY <1>2, <1>3, <1>4, <1>5

NetworkResource(j) == Each(<<"devices", "context", "pd", "srq">>)[j]

LEMMA NetworkResources ==
  /\ NetworkResource(1) = The("devices") /\ NetworkResource(2) = The("context")
  /\ NetworkResource(3) = The("pd") /\ NetworkResource(4) = The("srq")
BY DEF NetworkResource, Each

LEMMA NetworkFields ==
  /\ Listed(NetworkSteps) /\ Len(NetworkSteps) = 8
  /\ \A j \in 1 .. 3 : AcquiresStep(NetworkSteps[j], NetworkResource(j), <<>>)
  /\ AcquiresStep(NetworkSteps[4], NetworkResource(4), DestroyReceiveQueue)
  /\ \A j \in 1 .. 3 : AcquiresStep(NetworkSteps[4 + j], PairResource(0, j), <<>>)
  /\ OtherStep(NetworkSteps[8], DestroyNetwork)
<1> DEFINE x == Raw(The("devices"))
           y == Raw(The("context"))
           z == Raw(The("pd"))
           v == Completing(Raw(The("srq")), DestroyReceiveQueue)
           w == Completing(Call("notify", The("sendQueue")), DestroyNetwork)
           a == <<x, y, z>>
           b == <<v>>
           c == CompletionQueuePairSteps(0)
           d == <<w>>
           l1 == 1
           l3 == 3
<1>1. NetworkSteps = a \o b \o c \o d
  BY DEF NetworkSteps, ReceiveQueueSteps
<1>2. /\ AcquiresStep(x, NetworkResource(1), <<>>) /\ AcquiresStep(y, NetworkResource(2), <<>>)
      /\ AcquiresStep(z, NetworkResource(3), <<>>)
      /\ AcquiresStep(v, NetworkResource(4), DestroyReceiveQueue)
  BY StepFields, NetworkResources
<1>3. OtherStep(w, DestroyNetwork)
  <2>1. "notify" # "acquire"
    OBVIOUS
  <2> QED BY <2>1, StepFields, Zenon
<1> HIDE DEF x, y, z, v, w
<1>4. /\ Listed(a) /\ Len(a) = l3 /\ a[1] = x /\ a[2] = y /\ a[3] = z
      /\ Listed(b) /\ Len(b) = l1 /\ b[1] = v /\ Listed(d) /\ Len(d) = l1 /\ d[1] = w
  BY ListedFacts, Zenon
<1>5. /\ Listed(c) /\ Len(c) = l3 /\ \A j \in 1 .. 3 : AcquiresStep(c[j], PairResource(0, j), <<>>)
  BY PairSteps
<1>6. l1 \in Nat /\ l3 \in Nat /\ l1 = 1 /\ l3 = 3
  OBVIOUS
<1> HIDE DEF a, b, c, d, l1, l3
<1> DEFINE u1 == a \o b
           u2 == u1 \o c
           u3 == u2 \o d
<1>7. Extends(u1, a, b, l3, l1)
  BY <1>4, <1>6, Extended, Zenon
<1> HIDE DEF u1
<1>8. Listed(u1) /\ Len(u1) = 4 /\ (\A j \in 1 .. 3 : u1[j] = a[j]) /\ u1[4] = b[1]
  BY <1>6, <1>7 DEF Extends
<1>9. Extends(u2, u1, c, 4, l3)
  BY <1>5, <1>6, <1>8, Extended, Zenon
<1> HIDE DEF u2
<1>10. Listed(u2) /\ Len(u2) = 7 /\ (\A j \in 1 .. 4 : u2[j] = u1[j]) /\ \A j \in 1 .. 3 : u2[4 + j] = c[j]
  BY <1>6, <1>9 DEF Extends
<1>11. Extends(u3, u2, d, 7, l1)
  BY <1>4, <1>6, <1>10, Extended, Zenon
<1>12. NetworkSteps = u3
  BY <1>1 DEF u1, u2, u3
<1> HIDE DEF u3
<1>13. Listed(u3) /\ Len(u3) = 8 /\ (\A j \in 1 .. 7 : u3[j] = u2[j]) /\ u3[8] = d[1]
  BY <1>6, <1>11 DEF Extends
<1>14. /\ u3[1] = x /\ u3[2] = y /\ u3[3] = z /\ u3[4] = v /\ u3[8] = w
       /\ u3[5] = c[1] /\ u3[6] = c[2] /\ u3[7] = c[3]
  BY <1>4, <1>8, <1>10, <1>13
<1>15. \A j \in 1 .. 3 : AcquiresStep(u3[j], NetworkResource(j), <<>>)
  <2>1. \A j \in 1 .. 3 : j = 1 \/ j = 2 \/ j = 3
    OBVIOUS
  <2> QED BY <1>2, <1>14, <2>1, Zenon
<1>16. \A j \in 1 .. 3 : u3[4 + j] = c[j]
  BY <1>14
<1> QED BY <1>2, <1>3, <1>5, <1>12, <1>13, <1>14, <1>15, <1>16

LEMMA PreparationFields ==
  ASSUME NEW c \in Class
  PROVE  /\ \A j \in 1 .. 3 : AcquiresStep(Preparation(c)[j], NetworkResource(j), <<>>)
         /\ AcquiresStep(Preparation(c)[4], NetworkResource(4), DestroyReceiveQueue)
         /\ \A j \in 1 .. 3 : AcquiresStep(Preparation(c)[4 + j], PairResource(0, j), <<>>)
         /\ OtherStep(Preparation(c)[8], DestroyNetwork)
         /\ \A j \in 1 .. 3 : AcquiresStep(Preparation(c)[8 + j], PairResource(1, j), <<>>)
         /\ OtherStep(Preparation(c)[12], DestroyCompletionQueuePair(1))
         /\ c = "ECBuffer" => AcquiresStep(Preparation(c)[13], The("queuePairs"), <<>>)
<1> DEFINE x == Completing(Call("notify", Own("sendQueue")), DestroyCompletionQueuePair(1))
           y == Raw(The("queuePairs"))
           a == NetworkSteps
           b == CompletionQueuePairSteps(1)
           d == <<x>>
           f == IF c = "ECBuffer" THEN <<y>> ELSE <<>>
           l1 == 1
           l3 == 3
           l == IF c = "ECBuffer" THEN 1 ELSE 0
<1>1. Preparation(c) = a \o b \o d \o f
  BY DEF Preparation
<1>2. OtherStep(x, DestroyCompletionQueuePair(1)) /\ AcquiresStep(y, The("queuePairs"), <<>>)
  <2>1. "notify" # "acquire"
    OBVIOUS
  <2> QED BY <2>1, StepFields, Zenon
<1> HIDE DEF x, y
<1>3. Listed(a) /\ Len(a) = 8
  BY NetworkFields
<1>4. Listed(b) /\ Len(b) = l3 /\ \A j \in 1 .. 3 : AcquiresStep(b[j], PairResource(1, j), <<>>)
  BY PairSteps
<1>5. Listed(d) /\ Len(d) = l1 /\ d[1] = x
  BY ListedFacts, Zenon
<1>6. Listed(f) /\ Len(f) = l /\ (c = "ECBuffer" => l = 1 /\ f[1] = y)
  BY ListedFacts
<1>7. l1 \in Nat /\ l3 \in Nat /\ l1 = 1 /\ l3 = 3 /\ l \in Nat
  OBVIOUS
<1> HIDE DEF b, d, f, l1, l3, l
<1> DEFINE u1 == a \o b
           u2 == u1 \o d
           u3 == u2 \o f
<1>8. Extends(u1, a, b, 8, l3)
  BY <1>3, <1>4, <1>7, Extended, Zenon
<1>9. Listed(u1) /\ Len(u1) = 11 /\ (\A j \in 1 .. 8 : u1[j] = a[j]) /\ \A j \in 1 .. 3 : u1[8 + j] = b[j]
  <2> HIDE DEF u1, a
  <2> QED BY <1>7, <1>8 DEF Extends
<1>18. a = NetworkSteps
  OBVIOUS
<1> HIDE DEF u1, a
<1>10. Extends(u2, u1, d, 11, l1)
  BY <1>5, <1>7, <1>9, Extended, Zenon
<1> HIDE DEF u2
<1>11. Listed(u2) /\ Len(u2) = 12 /\ (\A j \in 1 .. 11 : u2[j] = u1[j]) /\ u2[12] = x
  <2>1. u2[11 + 1] = d[1]
    BY <1>7, <1>10 DEF Extends
  <2> QED BY <1>5, <1>7, <1>10, <2>1 DEF Extends
<1>12. Extends(u3, u2, f, 12, l)
  BY <1>6, <1>7, <1>11, Extended, Zenon
<1>13. Preparation(c) = u3
  BY <1>1 DEF u1, u2, u3
<1> HIDE DEF u3
<1>14. (\A j \in 1 .. 12 : u3[j] = u2[j]) /\ (c = "ECBuffer" => u3[13] = y)
  <2>1. \A j \in 1 .. l : u3[12 + j] = f[j]
    BY <1>12, Zenon DEF Extends
  <2>2. c = "ECBuffer" => u3[12 + 1] = f[1]
    BY <1>6, <2>1
  <2> QED BY <1>6, <1>12, <2>2 DEF Extends
<1>15. \A j \in 1 .. 8 : u3[j] = NetworkSteps[j]
  BY <1>9, <1>11, <1>14, <1>18
<1>16. \A j \in 1 .. 3 : u3[8 + j] = b[j] /\ u3[4 + j] = NetworkSteps[4 + j] /\ u3[j] = NetworkSteps[j]
  BY <1>9, <1>11, <1>14, <1>15
<1>17. u3[4] = NetworkSteps[4] /\ u3[8] = NetworkSteps[8] /\ u3[12] = x
  BY <1>11, <1>14, <1>15
<1> QED BY <1>2, <1>4, <1>13, <1>14, <1>16, <1>17, NetworkFields

(* The step among those of the queue pairs after which they have an owner *)
OwnerStep(c) == IF c = "ECBuffer" THEN 7 * QueuePairsOf(c) ELSE 1

LEMMA QueuePairFields ==
  ASSUME NEW c \in Class, NEW i \in 1 .. QueuePairsOf(c), NEW k \in 1 .. 7
  PROVE  LET x == QueuePairSteps(c)[7 * (i - 1) + k]
         IN  /\ k = 1 => x.call = "acquire" /\ x.res = QueuePair(i)
             /\ k # 1 => x.call # "acquire"
             /\ x.frees = IF 7 * (i - 1) + k = OwnerStep(c) THEN DestroyQueuePairs(c) ELSE <<>>
<1> DEFINE q == QueuePairsOf(c)
           s == QueuePairSteps(c)
           n == 7 * q
           j == 7 * (i - 1) + k
           call == ExchangeCalls[k]
           F == DestroyQueuePairs(c)
           r == QueuePair(i)
           owned == \/ c = "ECBuffer" /\ call = "RTS" /\ i = QueuePairs
                    \/ c = "RDMAMessageBuffer" /\ call = "acquire"
<1>1. q \in Nat /\ q > 0 /\ n \in Nat /\ s[j].call = call /\ s[j].res = r
  <2>1. s[j].call = call /\ s[j].res = r
    BY ExchangeSteps, Zenon
  <2>2. q \in Nat /\ q > 0 /\ n \in Nat
    <3>1. q \in Nat /\ q > 0
      BY ExchangeSteps, Zenon
    <3> HIDE DEF q
    <3> QED BY <3>1
  <2> HIDE DEF q, n, j, s, call, r
  <2> QED BY <2>1, <2>2
<1>2. s[j] = QueuePairStep(c, i, call)
  <2>1. \A m \in 1 .. n : s[m] = QueuePairStep(c, ((m - 1) \div 7) + 1, ExchangeCalls[((m - 1) % 7) + 1])
    BY DEF QueuePairSteps
  <2> HIDE DEF s
  <2>2. j \in 1 .. n /\ j - 1 = 7 * (i - 1) + (k - 1) /\ i \in Nat
    BY <1>1
  <2>3. ((j - 1) \div 7) + 1 = i /\ ((j - 1) % 7) + 1 = k
    BY <2>2
  <2> HIDE DEF j
  <2> QED BY <2>1, <2>2, <2>3
<1>3. /\ k = 1 => call = "acquire"
      /\ k # 1 => call # "acquire"
      /\ k = 7 <=> call = "RTS"
  BY DEF ExchangeCalls
<1>4. (c = "ECBuffer" => q = QueuePairs) /\ (c # "ECBuffer" => q = 1)
  BY DEF QueuePairsOf
<1>5. owned <=> j = OwnerStep(c)
  <2>1. CASE c = "ECBuffer"
    <3>1. owned <=> k = 7 /\ i = q
      BY <1>3, <1>4, <2>1
    <3>2. j = 7 * q <=> k = 7 /\ i = q
      BY <1>1
    <3> QED BY <2>1, <3>1, <3>2 DEF OwnerStep
  <2>2. CASE c # "ECBuffer"
    <3>1. owned <=> k = 1
      BY <1>3, <2>2 DEF Class
    <3>2. i = 1 /\ (j = 1 <=> k = 1)
      BY <1>4, <2>2
    <3> QED BY <2>2, <3>1, <3>2 DEF OwnerStep
  <2> QED BY <2>1, <2>2
<1>6. s[j].frees = IF owned THEN F ELSE <<>>
  <2>1. s[j] = IF owned THEN Completing(Call(call, r), F) ELSE Call(call, r)
    BY <1>2, Zenon DEF QueuePairStep
  <2> HIDE DEF call, owned, F, r, s, j
  <2>2. Completing(Call(call, r), F).frees = F /\ Call(call, r).frees = <<>>
    BY DEF Completing, Call
  <2> QED BY <2>1, <2>2
<1> HIDE DEF call, owned, F, r, s, j
<1>7. s[j].frees = IF j = OwnerStep(c) THEN F ELSE <<>>
  BY <1>5, <1>6
<1> QED BY <1>1, <1>3, <1>7 DEF F, r, s, j

LEMMA MemoryFields ==
  ASSUME NEW c \in Class
  PROVE  /\ \A j \in 1 .. LenMemory(c) :
               AcquiresStep(MemorySteps(c)[j], The(Memory(c)[j]), <<The(Memory(c)[j])>>)
         /\ \A j \in 1 .. LenRegions(c) :
               AcquiresStep(RegionSteps(c)[j], The(Regions(c)[j]), <<The(Regions(c)[j])>>)
<1>1. DOMAIN Memory(c) = 1 .. LenMemory(c)
  <2>1. CASE c = "ECBuffer"
    BY <2>1 DEF Memory, LenMemory
  <2>2. CASE c # "ECBuffer"
    BY <2>2 DEF Memory, LenMemory
  <2> QED BY <2>1, <2>2
<1>2. DOMAIN Regions(c) = 1 .. LenRegions(c)
  <2>1. CASE c = "ECBuffer"
    BY <2>1 DEF Regions, LenRegions
  <2>2. CASE c # "ECBuffer"
    BY <2>2 DEF Regions, LenRegions
  <2> QED BY <2>1, <2>2
<1>3. \A j \in 1 .. LenMemory(c) : MemorySteps(c)[j] = Member(Memory(c)[j])
  BY <1>1 DEF MemorySteps
<1>4. \A j \in 1 .. LenRegions(c) : RegionSteps(c)[j] = Member(Regions(c)[j])
  BY <1>2 DEF RegionSteps
<1> QED BY <1>3, <1>4, MemberFields

CalcNames == <<"comp", "arrays", "sges", "en_mat", "encode_matrix", "calc">>

LEMMA CalcFields ==
  /\ OtherStep(ECCalcSteps[1], <<>>)
  /\ \A j \in 1 .. 5 : AcquiresStep(ECCalcSteps[1 + j], The(CalcNames[j]), <<>>)
  /\ AcquiresStep(ECCalcSteps[7], The(CalcNames[6]), DestroyECCalc)
<1> DEFINE x == Call("query device", The("context"))
           a == <<x>>
           f == [i \in 1 .. 5 |-> Raw(Each(<<"comp", "arrays", "sges", "en_mat", "encode_matrix">>)[i])]
           z == Completing(Raw(The("calc")), DestroyECCalc)
           b == <<z>>
           l1 == 1
           l5 == 5
<1>1. OtherStep(x, <<>>)
  BY DEF OtherStep, Call
<1>2. AcquiresStep(z, The("calc"), DestroyECCalc)
  BY StepFields, Zenon
<1>3. \A i \in 1 .. 5 : AcquiresStep(f[i], The(CalcNames[i]), <<>>)
  <2> SUFFICES ASSUME NEW i \in 1 .. 5 PROVE AcquiresStep(f[i], The(CalcNames[i]), <<>>)
    OBVIOUS
  <2> DEFINE r == The(CalcNames[i])
  <2>1. f[i] = Raw(r)
    BY DEF Each, CalcNames
  <2> HIDE DEF r
  <2>2. AcquiresStep(Raw(r), r, <<>>)
    BY StepFields, Zenon
  <2> QED BY <2>1, <2>2 DEF r
<1>4. ECCalcSteps = a \o f \o b
  BY DEF ECCalcSteps
<1>5. f = [i \in 1 .. 5 |-> f[i]]
  OBVIOUS
<1> HIDE DEF x, f, z
<1>6. Listed(a) /\ Len(a) = l1 /\ a[1] = x /\ Listed(b) /\ Len(b) = l1 /\ b[1] = z
  BY ListedFacts, Zenon
<1>7. Listed(f) /\ Len(f) = l5
  BY <1>5, FunctionListed
<1>8. l1 = 1 /\ l5 = 5
  OBVIOUS
<1> HIDE DEF a, b, l1, l5
<1> DEFINE u == a \o f
           v == u \o b
<1>9. Extends(u, a, f, l1, l5)
  <2>1. l5 \in Nat
    BY <1>8
  <2> QED BY <1>6, <1>7, <2>1, Extended, Zenon
<1> HIDE DEF u
<1>10. Listed(u) /\ Len(u) = 6 /\ u[1] = a[1] /\ \A j \in 1 .. 5 : u[1 + j] = f[j]
  BY <1>8, <1>9 DEF Extends
<1>11. Extends(v, u, b, 6, l1)
  <2>1. l1 \in Nat
    BY <1>8
  <2> QED BY <1>6, <1>10, <2>1, Extended, Zenon
<1>12. ECCalcSteps = v
  BY <1>4 DEF u, v
<1> HIDE DEF v
<1>13. (\A j \in 1 .. 6 : v[j] = u[j]) /\ v[7] = b[1]
  BY <1>8, <1>11 DEF Extends
<1>14. v[1] = x /\ v[7] = z /\ \A j \in 1 .. 5 : v[1 + j] = f[j]
  BY <1>6, <1>10, <1>13
<1>15. CalcNames[6] = "calc"
  BY DEF CalcNames
<1> QED BY <1>1, <1>2, <1>3, <1>12, <1>14, <1>15

(* The object that owns the queue pairs is complete when all of them are   *)
(* connected (ECBuffer) or when the queue pair is made (RDMAMessageBuffer).*)
OwnerAt(c, e) == ExchangeAt(c, e) + OwnerStep(c)

(* The steps of a plan that complete an object, and what its destructor    *)
(* frees *)
FreesAt(c, e, n, F) ==
    \/ n = LenSocket(e) + 4 /\ F = DestroyReceiveQueue
    \/ n = LenSocket(e) + 8 /\ F = DestroyNetwork
    \/ n = LenSocket(e) + 12 /\ F = DestroyCompletionQueuePair(1)
    \/ n = OwnerAt(c, e) /\ F = DestroyQueuePairs(c)
    \/ \E j \in 1 .. LenMemory(c) : n = MemoryAt(c, e) + j /\ F = <<The(Memory(c)[j])>>
    \/ \E j \in 1 .. LenRegions(c) : n = RegionsAt(c, e) + j /\ F = <<The(Regions(c)[j])>>
    \/ c = "ECBuffer" /\ n = CalcAt(c, e) + 7 /\ F = DestroyECCalc

(* The steps that acquire something *)
AcquiresAt(c, e, n, r) ==
    \/ \E j \in 1 .. 4 : n = LenSocket(e) + j /\ r = NetworkResource(j)
    \/ \E i \in {0, 1}, j \in 1 .. 3 : n = LenSocket(e) + (4 + 4 * i) + j /\ r = PairResource(i, j)
    \/ c = "ECBuffer" /\ n = LenSocket(e) + 13 /\ r = The("queuePairs")
    \/ \E i \in 1 .. QueuePairsOf(c) : n = ExchangeAt(c, e) + (7 * (i - 1) + 1) /\ r = QueuePair(i)
    \/ \E j \in 1 .. LenMemory(c) : n = MemoryAt(c, e) + j /\ r = The(Memory(c)[j])
    \/ \E j \in 1 .. LenRegions(c) : n = RegionsAt(c, e) + j /\ r = The(Regions(c)[j])
    \/ c = "ECBuffer" /\ \E j \in 1 .. 6 : n = CalcAt(c, e) + 1 + j /\ r = The(CalcNames[j])

(* Where the parts are, as numbers *)
PlacesOf(c, e) ==
    /\ LenSocket(e) \in Nat /\ LenPreparation(c) \in {12, 13} /\ (c = "ECBuffer" <=> LenPreparation(c) = 13)
    /\ 7 * QueuePairsOf(c) \in Nat /\ 7 * QueuePairsOf(c) > 0
    /\ OwnerStep(c) \in 1 .. 7 * QueuePairsOf(c)
    /\ LenMemory(c) \in Nat /\ LenRegions(c) \in Nat /\ LenCalc(c) \in {0, 7} /\ (c = "ECBuffer" <=> LenCalc(c) = 7)
    /\ ExchangeAt(c, e) = LenSocket(e) + LenPreparation(c)
    /\ OwnerAt(c, e) = ExchangeAt(c, e) + OwnerStep(c)
    /\ MemoryAt(c, e) = ExchangeAt(c, e) + 7 * QueuePairsOf(c)
    /\ RegionsAt(c, e) = MemoryAt(c, e) + LenMemory(c)
    /\ RmrAt(c, e) = RegionsAt(c, e) + LenRegions(c)
    /\ CalcAt(c, e) = RmrAt(c, e) + 3
    /\ Len(Plan[c][e]) = CalcAt(c, e) + LenCalc(c)

LEMMA PlacesKnown == ASSUME NEW c \in Class, NEW e \in Endpoint PROVE PlacesOf(c, e)
<1> DEFINE q == QueuePairsOf(c)
           d == 7 * q
<1>1. /\ LenSocket(e) \in Nat /\ LenMemory(c) \in Nat /\ LenRegions(c) \in Nat
      /\ q \in Nat /\ q > 0
  BY LengthsNatural
<1>2. /\ LenPreparation(c) \in {12, 13} /\ (c = "ECBuffer" <=> LenPreparation(c) = 13)
      /\ LenCalc(c) \in {0, 7} /\ (c = "ECBuffer" <=> LenCalc(c) = 7)
  BY DEF LenPreparation, LenCalc
<1>3. Len(Plan[c][e]) = CalcAt(c, e) + LenCalc(c)
  BY PlanSections DEF Sections
<1>4. OwnerStep(c) = IF c = "ECBuffer" THEN d ELSE 1
  BY DEF OwnerStep
<1>5. /\ ExchangeAt(c, e) = LenSocket(e) + LenPreparation(c)
      /\ OwnerAt(c, e) = ExchangeAt(c, e) + OwnerStep(c)
      /\ MemoryAt(c, e) = ExchangeAt(c, e) + d
      /\ RegionsAt(c, e) = MemoryAt(c, e) + LenMemory(c)
      /\ RmrAt(c, e) = RegionsAt(c, e) + LenRegions(c)
      /\ CalcAt(c, e) = RmrAt(c, e) + 3
  BY DEF ExchangeAt, OwnerAt, MemoryAt, RegionsAt, RmrAt, CalcAt
<1> HIDE DEF q
<1>6. d \in Nat /\ d > 0
  BY <1>1
<1> HIDE DEF d
<1>7. OwnerStep(c) \in 1 .. d
  BY <1>4, <1>6
<1> QED BY <1>1, <1>2, <1>3, <1>5, <1>6, <1>7 DEF PlacesOf, d, q

LEMMA SocketFields ==
  ASSUME NEW e \in Endpoint, NEW j \in 1 .. LenSocket(e)
  PROVE  OtherStep(SocketSteps(e)[j], <<>>)
<1> DEFINE x == Call("connect", The("socket"))
           y == Call("listen", The("socket"))
           z == Call("accept", The("socket"))
<1>1. OtherStep(x, <<>>) /\ OtherStep(y, <<>>) /\ OtherStep(z, <<>>)
  BY DEF OtherStep, Call
<1>2. SocketSteps(e) = IF e = "client" THEN <<x>> ELSE <<y, z>>
  BY DEF SocketSteps
<1> HIDE DEF x, y, z
<1>3. e = "client" => j = 1
  BY DEF LenSocket
<1>4. e # "client" => j = 1 \/ j = 2
  BY DEF LenSocket
<1>5. <<x>>[1] = x /\ <<y, z>>[1] = y /\ <<y, z>>[2] = z
  OBVIOUS
<1> QED BY <1>1, <1>2, <1>3, <1>4, <1>5

LEMMA RmrFields == \A j \in 1 .. 3 : OtherStep(RmrSteps[j], <<>>)
<1> DEFINE x == Call("check size", The("receiveBuffer"))
           y == Call("sendRmr", The("localReceive"))
           z == Call("receiveRmr", The("localReceive"))
           size == "check size"
<1>1. OtherStep(y, <<>>) /\ OtherStep(z, <<>>)
  BY DEF OtherStep, Call
<1>2. OtherStep(x, <<>>)
  <2>1. size # "acquire"
    BY Zenon
  <2> HIDE DEF size
  <2>2. OtherStep(Call(size, The("receiveBuffer")), <<>>)
    BY <2>1, StepFields, Zenon
  <2> QED BY <2>2 DEF size
<1>3. RmrSteps = <<x, y, z>>
  BY DEF RmrSteps
<1> HIDE DEF x, y, z
<1>4. <<x, y, z>>[1] = x /\ <<x, y, z>>[2] = y /\ <<x, y, z>>[3] = z
  OBVIOUS
<1>5. \A j \in 1 .. 3 : j = 1 \/ j = 2 \/ j = 3
  OBVIOUS
<1> QED BY <1>1, <1>2, <1>3, <1>4, <1>5, Zenon

(* A step of a plan: it frees what FreesAt says, and acquires what         *)
(* AcquiresAt says. *)
StepTold(c, e, n) ==
    LET step == Plan[c][e][n]
    IN  /\ step.frees = <<>> \/ FreesAt(c, e, n, step.frees)
        /\ step.call = "acquire" => AcquiresAt(c, e, n, step.res)

LEMMA StepsTold ==
  ASSUME NEW c \in Class, NEW e \in Endpoint, NEW n \in 1 .. Len(Plan[c][e])
  PROVE  StepTold(c, e, n)
<1> DEFINE p == Plan[c][e]
           ls == LenSocket(e)
           la == LenPreparation(c)
           lx == 7 * QueuePairsOf(c)
           lm == LenMemory(c)
           lg == LenRegions(c)
           lz == LenCalc(c)
           nx == ExchangeAt(c, e)
           nm == MemoryAt(c, e)
           ng == RegionsAt(c, e)
           nt == RmrAt(c, e)
           nz == CalcAt(c, e)
<1>1. Sections(p, c, e)
  BY PlanSections
<1>2. /\ ls \in Nat /\ la \in {12, 13} /\ (c = "ECBuffer" <=> la = 13) /\ lx \in Nat /\ lm \in Nat /\ lg \in Nat
      /\ lz \in {0, 7} /\ (c = "ECBuffer" <=> lz = 7)
      /\ nx = ls + la /\ nm = nx + lx /\ ng = nm + lm /\ nt = ng + lg /\ nz = nt + 3 /\ Len(p) = nz + lz
  BY PlacesKnown DEF PlacesOf
<1> DEFINE told(x) == /\ x.frees = <<>> \/ FreesAt(c, e, n, x.frees)
                      /\ x.call = "acquire" => AcquiresAt(c, e, n, x.res)
<1>3. SUFFICES told(p[n])
  BY DEF StepTold
<1>4. ASSUME NEW x, OtherStep(x, <<>>) PROVE told(x)
  BY <1>4 DEF OtherStep
<1>5. ASSUME NEW x, NEW F, OtherStep(x, F), FreesAt(c, e, n, F) PROVE told(x)
  BY <1>5 DEF OtherStep
<1>6. ASSUME NEW x, NEW r, AcquiresStep(x, r, <<>>), AcquiresAt(c, e, n, r) PROVE told(x)
  BY <1>6 DEF AcquiresStep
<1>7. ASSUME NEW x, NEW r, NEW F, AcquiresStep(x, r, F), AcquiresAt(c, e, n, r), FreesAt(c, e, n, F) PROVE told(x)
  BY <1>7 DEF AcquiresStep
<1> HIDE DEF p, told
<1>8. n \in 1 .. nz + lz
  BY <1>2 DEF p
<1>10. CASE n \in 1 .. ls
  <2>1. OtherStep(p[n], <<>>)
    BY <1>1, <1>10, SocketFields DEF Sections
  <2> QED BY <1>4, <2>1
<1>11. CASE n \in ls + 1 .. nx
  <2> DEFINE a == Preparation(c)
  <2>1. \A j \in 1 .. la : p[ls + j] = a[j]
    BY <1>1 DEF Sections
  <2> HIDE DEF a
  <2>2. /\ \A j \in 1 .. 3 : AcquiresStep(a[j], NetworkResource(j), <<>>)
        /\ AcquiresStep(a[4], NetworkResource(4), DestroyReceiveQueue)
        /\ \A j \in 1 .. 3 : AcquiresStep(a[4 + j], PairResource(0, j), <<>>)
        /\ OtherStep(a[8], DestroyNetwork)
        /\ \A j \in 1 .. 3 : AcquiresStep(a[8 + j], PairResource(1, j), <<>>)
        /\ OtherStep(a[12], DestroyCompletionQueuePair(1))
        /\ c = "ECBuffer" => AcquiresStep(a[13], The("queuePairs"), <<>>)
    BY PreparationFields DEF a
  <2>3. PICK k \in 1 .. la : n = ls + k /\ p[n] = a[k]
    <3>1. n - ls \in 1 .. la /\ n = ls + (n - ls)
      <4> HIDE DEF ls, la, lx, lm, lg, lz, nx, nm, ng, nt, nz
      <4> QED BY <1>2, <1>11
    <3> QED BY <2>1, <3>1
  <2>4. \/ k \in 1 .. 3 \/ k = 4 \/ k - 4 \in 1 .. 3 \/ k = 8 \/ k - 8 \in 1 .. 3 \/ k = 12
        \/ k = 13 /\ c = "ECBuffer"
    BY <1>2, <2>3
  <2>5. CASE k \in 1 .. 3
    <3>1. AcquiresAt(c, e, n, NetworkResource(k))
      BY <2>3, <2>5 DEF AcquiresAt
    <3> QED BY <1>6, <2>2, <2>3, <2>5, <3>1
  <2>6. CASE k = 4
    <3>1. AcquiresAt(c, e, n, NetworkResource(4)) /\ FreesAt(c, e, n, DestroyReceiveQueue)
      BY <2>3, <2>6 DEF AcquiresAt, FreesAt
    <3> QED BY <1>7, <2>2, <2>3, <2>6, <3>1
  <2>7. CASE k - 4 \in 1 .. 3
    <3> DEFINE j == k - 4
    <3>1. j \in 1 .. 3 /\ 4 + j = k /\ n = ls + (4 + 4 * 0) + j /\ 0 \in {0, 1}
      BY <1>2, <2>3, <2>7
    <3> HIDE DEF j
    <3>2. AcquiresAt(c, e, n, PairResource(0, j))
      BY <3>1, Zenon DEF AcquiresAt
    <3>3. AcquiresStep(p[n], PairResource(0, j), <<>>)
      BY <2>2, <2>3, <3>1
    <3> QED BY <1>6, <3>2, <3>3
  <2>8. CASE k = 8
    <3>1. FreesAt(c, e, n, DestroyNetwork)
      BY <2>3, <2>8 DEF FreesAt
    <3> QED BY <1>5, <2>2, <2>3, <2>8, <3>1
  <2>9. CASE k - 8 \in 1 .. 3
    <3> DEFINE j == k - 8
    <3>1. j \in 1 .. 3 /\ 8 + j = k /\ n = ls + (4 + 4 * 1) + j /\ 1 \in {0, 1}
      BY <1>2, <2>3, <2>9
    <3> HIDE DEF j
    <3>2. AcquiresAt(c, e, n, PairResource(1, j))
      BY <3>1, Zenon DEF AcquiresAt
    <3>3. AcquiresStep(p[n], PairResource(1, j), <<>>)
      BY <2>2, <2>3, <3>1
    <3> QED BY <1>6, <3>2, <3>3
  <2>10. CASE k = 12
    <3>1. FreesAt(c, e, n, DestroyCompletionQueuePair(1))
      BY <2>3, <2>10 DEF FreesAt
    <3> QED BY <1>5, <2>2, <2>3, <2>10, <3>1
  <2>11. CASE k = 13 /\ c = "ECBuffer"
    <3>1. AcquiresAt(c, e, n, The("queuePairs"))
      BY <2>3, <2>11 DEF AcquiresAt
    <3> QED BY <1>6, <2>2, <2>3, <2>11, <3>1
  <2> QED BY <2>4, <2>5, <2>6, <2>7, <2>8, <2>9, <2>10, <2>11
<1>12. CASE n \in nx + 1 .. nm
  <2> DEFINE j == n - nx
             q == QueuePairsOf(c)
             i == ((j - 1) \div 7) + 1
             k == ((j - 1) % 7) + 1
             x == QueuePairSteps(c)
             m == 7 * (i - 1) + k
  <2>0. \A h \in 1 .. lx : p[nx + h] = x[h]
    BY <1>1 DEF Sections
  <2>10. q \in Nat /\ q > 0
    BY LengthsNatural
  <2>1. j \in 1 .. lx /\ n = nx + j
    <3> HIDE DEF ls, la, lx, lm, lg, lz, nx, nm, ng, nt, nz
    <3> QED BY <1>2, <1>12
  <2>2. i \in 1 .. q /\ k \in 1 .. 7 /\ j = m
    <3> HIDE DEF j
    <3> QED BY <2>1, <2>10
  <2> HIDE DEF j, i, k, x, m
  <2>3. p[n] = x[j]
    BY <2>0, <2>1
  <2>4. /\ k = 1 => x[m].call = "acquire" /\ x[m].res = QueuePair(i)
        /\ k # 1 => x[m].call # "acquire"
        /\ x[m].frees = IF m = OwnerStep(c) THEN DestroyQueuePairs(c) ELSE <<>>
    BY <2>2, QueuePairFields DEF x, m
  <2>5. j = OwnerStep(c) => FreesAt(c, e, n, DestroyQueuePairs(c))
    BY <2>1 DEF FreesAt, OwnerAt
  <2>6. k = 1 => AcquiresAt(c, e, n, QueuePair(i))
    <3>1. k = 1 => n = nx + (7 * (i - 1) + 1)
      BY <2>1, <2>2 DEF m
    <3> QED BY <2>2, <3>1, Zenon DEF AcquiresAt
  <2> QED BY <2>2, <2>3, <2>4, <2>5, <2>6 DEF told
<1>13. CASE n \in nm + 1 .. ng
  <2> DEFINE j == n - nm
  <2>1. j \in 1 .. lm /\ n = nm + j
    <3> HIDE DEF ls, la, lx, lm, lg, lz, nx, nm, ng, nt, nz
    <3> QED BY <1>2, <1>13
  <2> HIDE DEF j
  <2>2. AcquiresStep(p[n], The(Memory(c)[j]), <<The(Memory(c)[j])>>)
    BY <1>1, <2>1, MemoryFields DEF Sections
  <2>3. AcquiresAt(c, e, n, The(Memory(c)[j])) /\ FreesAt(c, e, n, <<The(Memory(c)[j])>>)
    BY <2>1, Zenon DEF AcquiresAt, FreesAt
  <2> QED BY <1>7, <2>2, <2>3
<1>14. CASE n \in ng + 1 .. nt
  <2> DEFINE j == n - ng
  <2>1. j \in 1 .. lg /\ n = ng + j
    <3> HIDE DEF ls, la, lx, lm, lg, lz, nx, nm, ng, nt, nz
    <3> QED BY <1>2, <1>14
  <2> HIDE DEF j
  <2>2. AcquiresStep(p[n], The(Regions(c)[j]), <<The(Regions(c)[j])>>)
    BY <1>1, <2>1, MemoryFields DEF Sections
  <2>3. AcquiresAt(c, e, n, The(Regions(c)[j])) /\ FreesAt(c, e, n, <<The(Regions(c)[j])>>)
    BY <2>1, Zenon DEF AcquiresAt, FreesAt
  <2> QED BY <1>7, <2>2, <2>3
<1>15. CASE n \in nt + 1 .. nz
  <2> DEFINE j == n - nt
  <2>1. j \in 1 .. 3 /\ n = nt + j
    <3> HIDE DEF ls, la, lx, lm, lg, lz, nx, nm, ng, nt, nz
    <3> QED BY <1>2, <1>15
  <2> HIDE DEF j
  <2>2. OtherStep(p[n], <<>>)
    BY <1>1, <2>1, RmrFields DEF Sections
  <2> QED BY <1>4, <2>2
<1>16. CASE n \in nz + 1 .. nz + lz
  <2> DEFINE j == n - nz
  <2>1. j \in 1 .. lz /\ n = nz + j /\ c = "ECBuffer" /\ j \in 1 .. 7
    <3> HIDE DEF ls, la, lx, lm, lg, lz, nx, nm, ng, nt, nz
    <3> QED BY <1>2, <1>16
  <2> HIDE DEF j
  <2>2. p[n] = ECCalcSteps[j]
    BY <1>1, <2>1 DEF Sections
  <2>3. CASE j = 1
    BY <1>4, <2>2, <2>3, CalcFields
  <2>4. CASE j \in 2 .. 6
    <3> DEFINE h == j - 1
    <3>1. h \in 1 .. 5 /\ 1 + h = j /\ h \in 1 .. 6 /\ n = nz + 1 + h
      BY <1>2, <2>1, <2>4
    <3> HIDE DEF h
    <3>2. AcquiresAt(c, e, n, The(CalcNames[h]))
      BY <2>1, <3>1, Zenon DEF AcquiresAt
    <3>3. AcquiresStep(p[n], The(CalcNames[h]), <<>>)
      BY <2>2, <3>1, CalcFields
    <3> QED BY <1>6, <3>2, <3>3
  <2>5. CASE j = 7
    <3>1. n = nz + 1 + 6 /\ 6 \in 1 .. 6 /\ n = nz + 7
      BY <1>2, <2>1, <2>5
    <3>2. AcquiresAt(c, e, n, The(CalcNames[6])) /\ FreesAt(c, e, n, DestroyECCalc)
      BY <2>1, <3>1, Zenon DEF AcquiresAt, FreesAt
    <3> QED BY <1>7, <2>2, <2>5, <3>2, CalcFields
  <2> QED BY <2>1, <2>3, <2>4, <2>5
<1>17. n \in 1 .. ls \/ n \in ls + 1 .. nx \/ n \in nx + 1 .. nm \/ n \in nm + 1 .. ng \/ n \in ng + 1 .. nt
         \/ n \in nt + 1 .. nz \/ n \in nz + 1 .. nz + lz
  <2> HIDE DEF ls, la, lx, lm, lg, lz, nx, nm, ng, nt, nz
  <2> QED BY <1>2, <1>8
<1> QED BY <1>10, <1>11, <1>12, <1>13, <1>14, <1>15, <1>16, <1>17

LEMMA NameOfStep ==
  ASSUME NEW c \in Class, NEW e \in Endpoint
  PROVE  /\ \A n, F : FreesAt(c, e, n, F) => n \in 1 .. Len(Plan[c][e]) /\ Plan[c][e][n].frees = F
         /\ \A n, r : AcquiresAt(c, e, n, r) =>
               n \in 1 .. Len(Plan[c][e]) /\ Plan[c][e][n].call = "acquire" /\ Plan[c][e][n].res = r
<1> DEFINE p == Plan[c][e]
           ls == LenSocket(e)
           la == LenPreparation(c)
           lx == 7 * QueuePairsOf(c)
           lo == OwnerStep(c)
           lm == LenMemory(c)
           lg == LenRegions(c)
           lz == LenCalc(c)
           nx == ExchangeAt(c, e)
           nm == MemoryAt(c, e)
           ng == RegionsAt(c, e)
           nt == RmrAt(c, e)
           nz == CalcAt(c, e)
           a == Preparation(c)
<1>1. Sections(p, c, e)
  BY PlanSections
<1>2. /\ ls \in Nat /\ la \in {12, 13} /\ (c = "ECBuffer" <=> la = 13) /\ lx \in Nat /\ lm \in Nat /\ lg \in Nat
      /\ lo \in 1 .. lx
      /\ lz \in {0, 7} /\ (c = "ECBuffer" <=> lz = 7)
      /\ nx = ls + la /\ nm = nx + lx /\ ng = nm + lm /\ nt = ng + lg /\ nz = nt + 3 /\ Len(p) = nz + lz
      /\ OwnerAt(c, e) = nx + lo
  BY PlacesKnown DEF PlacesOf
<1>3. /\ \A j \in 1 .. la : p[ls + j] = a[j]
      /\ \A j \in 1 .. lx : p[nx + j] = QueuePairSteps(c)[j]
      /\ \A j \in 1 .. lm : p[nm + j] = MemorySteps(c)[j]
      /\ \A j \in 1 .. lg : p[ng + j] = RegionSteps(c)[j]
      /\ \A j \in 1 .. lz : p[nz + j] = ECCalcSteps[j]
  BY <1>1 DEF Sections
<1>4. /\ \A j \in 1 .. 3 : AcquiresStep(a[j], NetworkResource(j), <<>>)
      /\ AcquiresStep(a[4], NetworkResource(4), DestroyReceiveQueue)
      /\ \A j \in 1 .. 3 : AcquiresStep(a[4 + j], PairResource(0, j), <<>>)
      /\ OtherStep(a[8], DestroyNetwork)
      /\ \A j \in 1 .. 3 : AcquiresStep(a[8 + j], PairResource(1, j), <<>>)
      /\ OtherStep(a[12], DestroyCompletionQueuePair(1))
      /\ c = "ECBuffer" => AcquiresStep(a[13], The("queuePairs"), <<>>)
  BY PreparationFields
<1>5. /\ \A j \in 1 .. la : ls + j \in 1 .. Len(p)
      /\ \A j \in 1 .. lx : nx + j \in 1 .. Len(p)
      /\ \A j \in 1 .. lm : nm + j \in 1 .. Len(p)
      /\ \A j \in 1 .. lg : ng + j \in 1 .. Len(p)
      /\ \A j \in 1 .. lz : nz + j \in 1 .. Len(p)
  <2> DEFINE l == Len(p)
  <2>1. l = nz + lz
    BY <1>2
  <2> HIDE DEF l, ls, la, lx, lm, lg, lz, nx, nm, ng, nt, nz
  <2>2. /\ \A j \in 1 .. la : ls + j \in 1 .. l
        /\ \A j \in 1 .. lx : nx + j \in 1 .. l
        /\ \A j \in 1 .. lm : nm + j \in 1 .. l
        /\ \A j \in 1 .. lg : ng + j \in 1 .. l
        /\ \A j \in 1 .. lz : nz + j \in 1 .. l
    BY <1>2, <2>1
  <2> QED BY <2>2 DEF l
<1>6. \A n, F : FreesAt(c, e, n, F) => n \in 1 .. Len(p) /\ p[n].frees = F
  <2> SUFFICES ASSUME NEW n, NEW F, FreesAt(c, e, n, F) PROVE n \in 1 .. Len(p) /\ p[n].frees = F
    OBVIOUS
  <2>1. CASE n = ls + 4 /\ F = DestroyReceiveQueue
    <3>1. 4 \in 1 .. la
      BY <1>2
    <3> QED BY <1>3, <1>4, <1>5, <2>1, <3>1 DEF AcquiresStep
  <2>2. CASE n = ls + 8 /\ F = DestroyNetwork
    <3>1. 8 \in 1 .. la
      BY <1>2
    <3> QED BY <1>3, <1>4, <1>5, <2>2, <3>1 DEF OtherStep
  <2>3. CASE n = ls + 12 /\ F = DestroyCompletionQueuePair(1)
    <3>1. 12 \in 1 .. la
      BY <1>2
    <3> QED BY <1>3, <1>4, <1>5, <2>3, <3>1 DEF OtherStep
  <2>4. CASE n = OwnerAt(c, e) /\ F = DestroyQueuePairs(c)
    <3> DEFINE q == QueuePairsOf(c)
               i == ((lo - 1) \div 7) + 1
               k == ((lo - 1) % 7) + 1
    <3>1. i \in 1 .. q /\ k \in 1 .. 7 /\ lo = 7 * (i - 1) + k
      <4>1. lo \in 1 .. 7 * q /\ q \in Nat
        BY <1>2, LengthsNatural
      <4> HIDE DEF lo, q
      <4> QED BY <4>1
    <3> HIDE DEF i, k
    <3>2. QueuePairSteps(c)[7 * (i - 1) + k].frees = IF 7 * (i - 1) + k = lo THEN DestroyQueuePairs(c) ELSE <<>>
      BY <3>1, QueuePairFields, Zenon
    <3> HIDE DEF lo, q, nx, lx, p
    <3>3. QueuePairSteps(c)[lo].frees = DestroyQueuePairs(c)
      BY <3>1, <3>2
    <3> QED BY <1>2, <1>3, <1>5, <2>4, <3>3
  <2>5. ASSUME NEW j \in 1 .. lm, n = nm + j, F = <<The(Memory(c)[j])>>
        PROVE  n \in 1 .. Len(p) /\ p[n].frees = F
    BY <1>3, <1>5, <2>5, MemoryFields DEF AcquiresStep
  <2>6. ASSUME NEW j \in 1 .. lg, n = ng + j, F = <<The(Regions(c)[j])>>
        PROVE  n \in 1 .. Len(p) /\ p[n].frees = F
    BY <1>3, <1>5, <2>6, MemoryFields DEF AcquiresStep
  <2>7. CASE c = "ECBuffer" /\ n = nz + 7 /\ F = DestroyECCalc
    <3>1. 7 \in 1 .. lz
      BY <1>2, <2>7
    <3> QED BY <1>3, <1>5, <2>7, <3>1, CalcFields DEF AcquiresStep
  <2> QED BY <2>1, <2>2, <2>3, <2>4, <2>5, <2>6, <2>7 DEF FreesAt
<1>7. \A n, r : AcquiresAt(c, e, n, r) => n \in 1 .. Len(p) /\ p[n].call = "acquire" /\ p[n].res = r
  <2> SUFFICES ASSUME NEW n, NEW r, AcquiresAt(c, e, n, r)
               PROVE  n \in 1 .. Len(p) /\ p[n].call = "acquire" /\ p[n].res = r
    OBVIOUS
  <2> DEFINE goal == n \in 1 .. Len(p) /\ p[n].call = "acquire" /\ p[n].res = r
  <2>0. ASSUME NEW k \in 1 .. la, n = ls + k, NEW F, AcquiresStep(a[k], r, F) PROVE goal
    <3>1. p[n] = a[k] /\ n \in 1 .. Len(p)
      BY <1>3, <1>5, <2>0
    <3> QED BY <2>0, <3>1 DEF AcquiresStep
  <2>1. ASSUME NEW j \in 1 .. 4, n = ls + j, r = NetworkResource(j) PROVE goal
    <3>1. j \in 1 .. la
      <4> HIDE DEF ls, la, lx, lo, lm, lg, lz, nx, nm, ng, nt, nz
      <4> QED BY <1>2
    <3>2. \E F : AcquiresStep(a[j], r, F)
      <4>1. j \in 1 .. 3 \/ j = 4
        OBVIOUS
      <4> QED BY <1>4, <2>1, <4>1
    <3> HIDE DEF goal, a
    <3> QED BY <2>0, <2>1, <3>1, <3>2
  <2>2. ASSUME NEW i \in {0, 1}, NEW j \in 1 .. 3, n = ls + (4 + 4 * i) + j, r = PairResource(i, j) PROVE goal
    <3> DEFINE k == 4 + 4 * i + j
    <3>1. k \in 1 .. la /\ n = ls + k
      <4> HIDE DEF ls, la
      <4> QED BY <1>2, <2>2
    <3>2. AcquiresStep(a[k], r, <<>>)
      <4>1. CASE i = 0
        <5>1. k = 4 + j
          BY <4>1
        <5> QED BY <1>4, <2>2, <4>1, <5>1
      <4>2. CASE i = 1
        <5>1. k = 8 + j
          BY <4>2
        <5> QED BY <1>4, <2>2, <4>2, <5>1
      <4> QED BY <4>1, <4>2
    <3> HIDE DEF goal, a, k
    <3> QED BY <2>0, <3>1, <3>2
  <2>3. ASSUME c = "ECBuffer", n = ls + 13, r = The("queuePairs") PROVE goal
    <3>1. 13 \in 1 .. la /\ AcquiresStep(a[13], r, <<>>)
      BY <1>2, <1>4, <2>3
    <3> HIDE DEF goal, a
    <3> QED BY <2>0, <2>3, <3>1
  <2>4. ASSUME NEW i \in 1 .. QueuePairsOf(c), n = nx + (7 * (i - 1) + 1), r = QueuePair(i) PROVE goal
    <3> DEFINE q == QueuePairsOf(c)
               one == 1
               j == 7 * (i - 1) + one
    <3>1. one \in 1 .. 7 /\ one = 1
      OBVIOUS
    <3>2. j \in 1 .. lx /\ n = nx + j
      <4>1. i \in 1 .. q /\ q \in Nat
        BY LengthsNatural
      <4>2. lx = 7 * q
        OBVIOUS
      <4> HIDE DEF q, lx, nx
      <4> QED BY <2>4, <4>1, <4>2
    <3>3. QueuePairSteps(c)[j].call = "acquire" /\ QueuePairSteps(c)[j].res = QueuePair(i)
      <4> HIDE DEF one
      <4> QED BY <3>1, QueuePairFields, Zenon
    <3> HIDE DEF j, nx, lx, p
    <3> QED BY <1>3, <1>5, <2>4, <3>2, <3>3
  <2>5. ASSUME NEW j \in 1 .. lm, n = nm + j, r = The(Memory(c)[j]) PROVE goal
    BY <1>3, <1>5, <2>5, MemoryFields DEF AcquiresStep
  <2>6. ASSUME NEW j \in 1 .. lg, n = ng + j, r = The(Regions(c)[j]) PROVE goal
    BY <1>3, <1>5, <2>6, MemoryFields DEF AcquiresStep
  <2>7. ASSUME c = "ECBuffer", NEW j \in 1 .. 6, n = nz + 1 + j, r = The(CalcNames[j]) PROVE goal
    <3> DEFINE h == 1 + j
    <3>1. h \in 1 .. lz /\ n = nz + h
      <4> HIDE DEF ls, la, lx, lo, lm, lg, lz, nx, nm, ng, nt, nz
      <4> QED BY <1>2, <2>7
    <3>2. p[n] = ECCalcSteps[h] /\ n \in 1 .. Len(p)
      <4> HIDE DEF h, nz
      <4> QED BY <1>3, <1>5, <3>1
    <3>3. ECCalcSteps[h].call = "acquire" /\ ECCalcSteps[h].res = r
      <4>1. CASE j \in 1 .. 5
        BY <2>7, <4>1, CalcFields DEF AcquiresStep
      <4>2. CASE j = 6
        <5>1. h = 7
          BY <4>2
        <5> QED BY <2>7, <4>2, <5>1, CalcFields DEF AcquiresStep
      <4>3. j \in 1 .. 5 \/ j = 6
        OBVIOUS
      <4> QED BY <4>1, <4>2, <4>3
    <3> QED BY <3>2, <3>3
  <2> HIDE DEF goal
  <2>8. goal
    BY <2>1, <2>2, <2>3, <2>4, <2>5, <2>6, <2>7 DEF AcquiresAt
  <2> QED BY <2>8 DEF goal
<1> QED BY <1>6, <1>7

(* What an object owns, and what has been acquired, before step n of a plan *)
OwnedBefore(c, e, n, r) == \E i, F : FreesAt(c, e, i, F) /\ i < n /\ r \in Elements(F)
AcquiredBefore(c, e, n, r) == \E i : AcquiresAt(c, e, i, r) /\ i < n

LEMMA HeldBefore ==
  ASSUME NEW c \in Class, NEW e \in Endpoint, NEW n \in Steps(c, e)
  PROVE  /\ n \in Nat
         /\ \A r : r \in Owned[c][e][n] <=> OwnedBefore(c, e, n, r)
         /\ \A r : r \in Acquired[c][e][n] <=> AcquiredBefore(c, e, n, r)
<1> DEFINE p == Plan[c][e]
<1>1. Len(p) \in Nat /\ n \in Nat /\ n <= Len(p) + 1
  <2>1. Len(p) \in Nat
    BY PlanShape, Zenon DEF Shape
  <2>2. n \in 1 .. Len(p) + 1
    BY DEF Steps
  <2> HIDE DEF p
  <2> QED BY <2>1, <2>2
<1>2. Owned[c][e][n] = UNION {Elements(p[i].frees) : i \in 1 .. n - 1}
  BY DEF Owned
<1>3. Acquired[c][e][n] = {p[i].res : i \in {j \in 1 .. n - 1 : p[j].call = "acquire"}}
  BY DEF Acquired
<1>0. \A i \in 1 .. n - 1 : i \in 1 .. Len(p) /\ i < n
  BY <1>1
<1>9. \A i \in 1 .. Len(p) : i < n => i \in 1 .. n - 1
  BY <1>1
<1>10. /\ \A i, F : FreesAt(c, e, i, F) => i \in 1 .. Len(p) /\ p[i].frees = F
       /\ \A i, r : AcquiresAt(c, e, i, r) => i \in 1 .. Len(p) /\ p[i].call = "acquire" /\ p[i].res = r
  BY NameOfStep
<1>11. \A i \in 1 .. Len(p) : /\ p[i].frees = <<>> \/ FreesAt(c, e, i, p[i].frees)
                              /\ p[i].call = "acquire" => AcquiresAt(c, e, i, p[i].res)
  BY StepsTold DEF StepTold
<1>12. Elements(<<>>) = {}
  BY DEF Elements
<1> HIDE DEF p
<1>4. ASSUME NEW r, r \in Owned[c][e][n] PROVE OwnedBefore(c, e, n, r)
  <2>1. PICK i \in 1 .. n - 1 : r \in Elements(p[i].frees)
    BY <1>2, <1>4
  <2> QED BY <1>0, <1>11, <1>12, <2>1 DEF OwnedBefore
<1>5. ASSUME NEW r, OwnedBefore(c, e, n, r) PROVE r \in Owned[c][e][n]
  <2>1. PICK i, F : FreesAt(c, e, i, F) /\ i < n /\ r \in Elements(F)
    BY <1>5 DEF OwnedBefore
  <2>2. i \in 1 .. n - 1 /\ p[i].frees = F
    BY <1>9, <1>10, <2>1
  <2> QED BY <1>2, <2>1, <2>2
<1>6. ASSUME NEW r, r \in Acquired[c][e][n] PROVE AcquiredBefore(c, e, n, r)
  <2>1. PICK i \in 1 .. n - 1 : p[i].call = "acquire" /\ r = p[i].res
    BY <1>3, <1>6
  <2> QED BY <1>0, <1>11, <2>1 DEF AcquiredBefore
<1>7. ASSUME NEW r, AcquiredBefore(c, e, n, r) PROVE r \in Acquired[c][e][n]
  <2>1. PICK i : AcquiresAt(c, e, i, r) /\ i < n
    BY <1>7 DEF AcquiredBefore
  <2>2. i \in 1 .. n - 1 /\ p[i].call = "acquire" /\ p[i].res = r
    BY <1>9, <1>10, <2>1
  <2> QED BY <1>3, <2>2
<1> QED BY <1>1, <1>4, <1>5, <1>6, <1>7

-----------------------------------------------------------------------------
(* What resources use, and the lists that destructors work through *)
MemoryName == {"receiveBuffer", "sendBuffer", "encode_extra_buffer", "decode_extra_buffer"}
CalcName == {"calc", "encode_matrix", "en_mat", "sges", "comp"}

LEMMA UsesKnown ==
  /\ Uses(The("devices")) = {} /\ Uses(The("context")) = {}
  /\ Uses(The("pd")) = {The("context")} /\ Uses(The("srq")) = {The("pd")}
  /\ \A i : /\ Uses(PairResource(i, 1)) = {The("context")}
            /\ Uses(PairResource(i, 2)) = {PairResource(i, 1)} /\ Uses(PairResource(i, 3)) = {PairResource(i, 1)}
  /\ \A i : Uses(QueuePair(i)) = {The("pd"), The("srq"), PairResource(1, 2), PairResource(1, 3)}
  /\ Uses(The("queuePairs")) = {}
  /\ \A name \in MemoryName : Uses(The(name)) = {}
  /\ Uses(The("localSend")) = {The("pd"), The("sendBuffer")}
  /\ Uses(The("localReceive")) = {The("pd"), The("receiveBuffer")}
  /\ Uses(The("encodeExtra")) = {The("pd"), The("encode_extra_buffer")}
  /\ Uses(The("decodeExtra")) = {The("pd"), The("decode_extra_buffer")}
  /\ Uses(The("localReadPos")) = {The("pd")} /\ Uses(The("localCurrentRemoteReceive")) = {The("pd")}
  /\ Uses(The("calc")) = {The("pd"), The("en_mat")}
  /\ \A name \in CalcName \ {"calc"} : Uses(The(name)) = {}
  /\ Uses(The("arrays")) = {}
<1> DEFINE D == DOMAIN Buffer
<1>0. D = {"localSend", "localReceive", "encodeExtra", "decodeExtra"}
  BY DEF Buffer
<1>1. /\ Buffer["localSend"] = "sendBuffer" /\ Buffer["localReceive"] = "receiveBuffer"
      /\ Buffer["encodeExtra"] = "encode_extra_buffer" /\ Buffer["decodeExtra"] = "decode_extra_buffer"
  BY DEF Buffer
<1>2. \A r : Uses(r) =
    CASE r[1] = "pd" -> {The("context")}
      [] r[1] = "channel" -> {The("context")}
      [] r[1] \in {"sendQueue", "receiveQueue"} -> {<<"channel", r[2]>>}
      [] r[1] = "srq" -> {The("pd")}
      [] r[1] = "queuePair" -> {The("pd"), The("srq"), Own("sendQueue"), Own("receiveQueue")}
      [] r[1] \in D -> {The("pd"), The(Buffer[r[1]])}
      [] r[1] \in {"localReadPos", "localCurrentRemoteReceive"} -> {The("pd")}
      [] r[1] = "calc" -> {The("pd"), The("en_mat")}
      [] OTHER -> {}
  BY DEF Uses
<1>3. \A name : The(name)[1] = name
  BY DEF The
<1>4. \A i : /\ PairResource(i, 1)[1] = "channel" /\ PairResource(i, 2)[1] = "sendQueue" /\ PairResource(i, 3)[1] = "receiveQueue"
             /\ PairResource(i, 1) = <<"channel", i>> /\ PairResource(i, 2)[2] = i /\ PairResource(i, 3)[2] = i
             /\ QueuePair(i)[1] = "queuePair"
  BY DEF PairResource, QueuePair
<1>5. Own("sendQueue") = PairResource(1, 2) /\ Own("receiveQueue") = PairResource(1, 3)
  BY DEF Own, PairResource
<1> HIDE DEF D
<1>6. /\ Uses(The("devices")) = {} /\ Uses(The("context")) = {}
      /\ Uses(The("pd")) = {The("context")} /\ Uses(The("srq")) = {The("pd")}
      /\ Uses(The("queuePairs")) = {} /\ Uses(The("arrays")) = {}
  BY <1>0, <1>2, <1>3
<1>7. /\ \A name \in MemoryName : Uses(The(name)) = {}
      /\ \A name \in CalcName \ {"calc"} : Uses(The(name)) = {}
  BY <1>0, <1>2, <1>3 DEF MemoryName, CalcName
<1>8. /\ Uses(The("localReadPos")) = {The("pd")} /\ Uses(The("localCurrentRemoteReceive")) = {The("pd")}
      /\ Uses(The("calc")) = {The("pd"), The("en_mat")}
  BY <1>0, <1>2, <1>3
<1>9. /\ Uses(The("localSend")) = {The("pd"), The("sendBuffer")}
      /\ Uses(The("localReceive")) = {The("pd"), The("receiveBuffer")}
      /\ Uses(The("encodeExtra")) = {The("pd"), The("encode_extra_buffer")}
      /\ Uses(The("decodeExtra")) = {The("pd"), The("decode_extra_buffer")}
  BY <1>0, <1>1, <1>2, <1>3
<1>10. \A i : Uses(QueuePair(i)) = {The("pd"), The("srq"), PairResource(1, 2), PairResource(1, 3)}
  BY <1>0, <1>2, <1>4, <1>5
<1>11. \A i : Uses(PairResource(i, 1)) = {The("context")}
  BY <1>0, <1>2, <1>4
<1>12. \A i : Uses(PairResource(i, 2)) = {PairResource(i, 1)} /\ Uses(PairResource(i, 3)) = {PairResource(i, 1)}
  <2> SUFFICES ASSUME NEW i
               PROVE  Uses(PairResource(i, 2)) = {PairResource(i, 1)} /\ Uses(PairResource(i, 3)) = {PairResource(i, 1)}
    OBVIOUS
  <2> DEFINE y == PairResource(i, 2)
             z == PairResource(i, 3)
  <2>1. y[1] = "sendQueue" /\ z[1] = "receiveQueue" /\ y[2] = i /\ z[2] = i /\ PairResource(i, 1) = <<"channel", i>>
    BY <1>4
  <2> HIDE DEF y, z
  <2>2. Uses(y) = {<<"channel", y[2]>>} /\ Uses(z) = {<<"channel", z[2]>>}
    BY <1>0, <1>2, <2>1
  <2> QED BY <2>1, <2>2 DEF y, z
<1> QED BY <1>6, <1>7, <1>8, <1>9, <1>10, <1>11, <1>12

(* No two elements of a list are the same, and what an element uses comes  *)
(* after it if it is in the list at all. *)
Distinct(F) == \A i, j \in 1 .. Len(F) : F[i] = F[j] => i = j
Descends(F) == \A i \in 1 .. Len(F) : \A u \in Uses(F[i]) : u \notin Elements(F) \/ \E j \in 1 .. Len(F) : j > i /\ u = F[j]
Destructor(F) == Listed(F) /\ Len(F) \in Nat /\ DOMAIN F = 1 .. Len(F) /\ Distinct(F) /\ Descends(F)

LEMMA ListedDomain == ASSUME NEW s, Listed(s) PROVE Len(s) \in Nat /\ DOMAIN s = 1 .. Len(s)
<1> PICK S : s \in Seq(S)
  BY DEF Listed
<1> QED BY LenProperties

LEMMA SingleDestructor ==
  ASSUME NEW r, r \notin Uses(r)
  PROVE  Destructor(<<r>>) /\ Elements(<<r>>) = {r}
<1> DEFINE F == <<r>>
<1>1. Listed(F) /\ Len(F) = 1 /\ F[1] = r
  BY ListedFacts, Zenon
<1> HIDE DEF F
<1>2. Len(F) \in Nat /\ DOMAIN F = 1 .. 1
  BY <1>1, ListedDomain
<1>3. Elements(F) = {r}
  BY <1>1, <1>2 DEF Elements
<1>4. Distinct(F) /\ Descends(F)
  BY <1>1, <1>3 DEF Distinct, Descends
<1> QED BY <1>1, <1>2, <1>3, <1>4 DEF Destructor, F

LEMMA ReceiveQueueDestructor ==
  Destructor(DestroyReceiveQueue) /\ Elements(DestroyReceiveQueue) = {The("srq")}
<1>1. The("srq") # The("pd")
  BY DEF The
<1>2. The("srq") \notin Uses(The("srq"))
  BY <1>1, UsesKnown
<1> QED BY <1>2, SingleDestructor DEF DestroyReceiveQueue

LEMMA PairDestructor ==
  \A i : LET F == DestroyCompletionQueuePair(i)
         IN  /\ Destructor(F) /\ Len(F) = 3
             /\ F[1] = PairResource(i, 2) /\ F[2] = PairResource(i, 3) /\ F[3] = PairResource(i, 1)
<1> SUFFICES ASSUME NEW i
             PROVE  LET F == DestroyCompletionQueuePair(i)
                    IN  /\ Destructor(F) /\ Len(F) = 3
                        /\ F[1] = PairResource(i, 2) /\ F[2] = PairResource(i, 3) /\ F[3] = PairResource(i, 1)
  OBVIOUS
<1> DEFINE x == PairResource(i, 1)
           y == PairResource(i, 2)
           z == PairResource(i, 3)
           F == <<y, z, x>>
<1>1. F = DestroyCompletionQueuePair(i)
  BY DEF DestroyCompletionQueuePair, PairResource
<1>2. x # y /\ x # z /\ y # z /\ x # The("context")
  BY DEF PairResource, The
<1>3. Uses(x) = {The("context")} /\ Uses(y) = {x} /\ Uses(z) = {x}
  BY UsesKnown
<1>8. y # The("context") /\ z # The("context")
  BY DEF PairResource, The
<1> HIDE DEF x, y, z
<1>4. Listed(F) /\ Len(F) = 3 /\ F[1] = y /\ F[2] = z /\ F[3] = x
  BY ListedFacts, Zenon
<1> HIDE DEF F
<1>5. Len(F) \in Nat /\ DOMAIN F = 1 .. 3
  BY <1>4, ListedDomain
<1>6. Distinct(F)
  BY <1>2, <1>4 DEF Distinct
<1>7. Descends(F)
  <2> SUFFICES ASSUME NEW k \in 1 .. 3, NEW u \in Uses(F[k])
               PROVE  u \notin Elements(F) \/ \E j \in 1 .. 3 : j > k /\ u = F[j]
    BY <1>4 DEF Descends
  <2>1. CASE k = 3
    BY <1>2, <1>3, <1>4, <1>5, <1>8, <2>1 DEF Elements
  <2>2. CASE k \in {1, 2}
    BY <1>3, <1>4, <2>2
  <2> QED BY <2>1, <2>2
<1> QED BY <1>1, <1>4, <1>5, <1>6, <1>7 DEF Destructor, x, y, z

LEMMA NetworkDestructor ==
  LET F == DestroyNetwork
  IN  /\ Destructor(F) /\ Len(F) = 7
      /\ F[1] = The("srq") /\ F[2] = PairResource(0, 2) /\ F[3] = PairResource(0, 3) /\ F[4] = PairResource(0, 1)
      /\ F[5] = The("pd") /\ F[6] = The("context") /\ F[7] = The("devices")
<1> DEFINE a == DestroyReceiveQueue
           b == DestroyCompletionQueuePair(0)
           d == Each(<<"pd", "context", "devices">>)
           s == The("srq")
           x == PairResource(0, 1)
           y == PairResource(0, 2)
           z == PairResource(0, 3)
           p == The("pd")
           c == The("context")
           v == The("devices")
           u == a \o b
           F == u \o d
           l3 == 3
<1>1. DestroyNetwork = F
  BY DEF DestroyNetwork
<1>2. Listed(a) /\ Len(a) = 1 /\ a[1] = s
  BY ListedFacts, Zenon DEF DestroyReceiveQueue
<1>3. Listed(b) /\ Len(b) = l3 /\ b[1] = y /\ b[2] = z /\ b[3] = x
  BY PairDestructor, Zenon DEF Destructor
<1>4. Listed(d) /\ Len(d) = l3 /\ d[1] = p /\ d[2] = c /\ d[3] = v
  <2>1. d = [i \in 1 .. 3 |-> d[i]]
    BY DEF Each
  <2>2. d[1] = p /\ d[2] = c /\ d[3] = v
    BY DEF Each
  <2> HIDE DEF d
  <2>3. Listed(d) /\ Len(d) = 3
    BY <2>1, FunctionListed
  <2> QED BY <2>2, <2>3
<1>5. s # x /\ s # y /\ s # z /\ s # p /\ s # c /\ s # v
  BY DEF PairResource, The
<1>6. x # y /\ x # z /\ x # p /\ x # c /\ x # v /\ y # z
  BY DEF PairResource, The
<1>7. y # p /\ y # c /\ y # v /\ z # p /\ z # c /\ z # v /\ p # c /\ p # v /\ c # v
  BY DEF PairResource, The
<1>8. Uses(s) = {p} /\ Uses(y) = {x} /\ Uses(z) = {x} /\ Uses(x) = {c} /\ Uses(p) = {c} /\ Uses(c) = {} /\ Uses(v) = {}
  BY UsesKnown
<1>9. l3 = 3 /\ l3 \in Nat
  OBVIOUS
<1> HIDE DEF a, b, d, s, x, y, z, p, c, v, l3
<1>10. Extends(u, a, b, 1, l3)
  BY <1>2, <1>3, <1>9, Extended, Zenon
<1> HIDE DEF u
<1>11. Listed(u) /\ Len(u) = 4 /\ u[1] = s /\ u[2] = y /\ u[3] = z /\ u[4] = x
  <2>1. u[1 + 1] = b[1] /\ u[1 + 2] = b[2] /\ u[1 + 3] = b[3]
    BY <1>9, <1>10 DEF Extends
  <2> QED BY <1>2, <1>3, <1>9, <1>10, <2>1 DEF Extends
<1>12. Extends(F, u, d, 4, l3)
  BY <1>4, <1>9, <1>11, Extended, Zenon
<1> HIDE DEF F
<1>13. /\ Listed(F) /\ Len(F) = 7 /\ F[1] = s /\ F[2] = y /\ F[3] = z /\ F[4] = x
       /\ F[5] = p /\ F[6] = c /\ F[7] = v
  <2>1. F[4 + 1] = d[1] /\ F[4 + 2] = d[2] /\ F[4 + 3] = d[3]
    BY <1>9, <1>12 DEF Extends
  <2> QED BY <1>4, <1>9, <1>11, <1>12, <2>1 DEF Extends
<1>14. Len(F) \in Nat /\ DOMAIN F = 1 .. Len(F)
  BY <1>13, ListedDomain
<1>15. Distinct(F)
  <2> SUFFICES ASSUME NEW i \in 1 .. 7, NEW j \in 1 .. 7, F[i] = F[j] PROVE i = j
    BY <1>13 DEF Distinct
  <2>1. i = 1 \/ i = 2 \/ i = 3 \/ i = 4 \/ i = 5 \/ i = 6 \/ i = 7
    OBVIOUS
  <2>2. j = 1 \/ j = 2 \/ j = 3 \/ j = 4 \/ j = 5 \/ j = 6 \/ j = 7
    OBVIOUS
  <2> QED BY <1>5, <1>6, <1>7, <1>13, <2>1, <2>2
<1>16. Descends(F)
  <2> SUFFICES ASSUME NEW k \in 1 .. 7, NEW w \in Uses(F[k])
               PROVE  \E j \in 1 .. 7 : j > k /\ w = F[j]
    BY <1>13 DEF Descends
  <2>1. k = 1 \/ k = 2 \/ k = 3 \/ k = 4 \/ k = 5 \/ k = 6 \/ k = 7
    OBVIOUS
  <2>2. CASE k = 1 \/ k = 2 \/ k = 3
    BY <1>8, <1>13, <2>2
  <2>3. CASE k = 4 \/ k = 5
    BY <1>8, <1>13, <2>3
  <2>4. CASE k = 6 \/ k = 7
    BY <1>8, <1>13, <2>4
  <2> QED BY <2>1, <2>2, <2>3, <2>4
<1> QED BY <1>1, <1>13, <1>14, <1>15, <1>16 DEF Destructor, s, x, y, z, p, c, v

-----------------------------------------------------------------------------
(* The parts that own resources, in the order in which they are complete:  *)
(* the network, the completion queues, the queue pairs, the memory, its    *)
(* registrations, and the calculations.  No resource uses one of a later   *)
(* part. *)
NetworkName == {"devices", "context", "pd", "srq"}
PairName == {"channel", "sendQueue", "receiveQueue"}
RegionName == {"localSend", "localReceive", "encodeExtra", "decodeExtra", "localReadPos", "localCurrentRemoteReceive"}

Rank(r) ==
    IF r[1] \in NetworkName THEN 1
    ELSE IF r[1] \in PairName THEN r[2] + 1
    ELSE IF r[1] \in {"queuePair", "queuePairs"} THEN 3
    ELSE IF r[1] \in MemoryName THEN 4
    ELSE IF r[1] \in RegionName THEN 5
    ELSE 6

LEMMA Ranks ==
  /\ \A name \in NetworkName : Rank(The(name)) = 1
  /\ \A i \in {0, 1}, j \in 1 .. 3 : Rank(PairResource(i, j)) = i + 1
  /\ \A i : Rank(QueuePair(i)) = 3
  /\ Rank(The("queuePairs")) = 3
  /\ \A name \in MemoryName : Rank(The(name)) = 4
  /\ \A name \in RegionName : Rank(The(name)) = 5
  /\ \A name \in CalcName \union {"arrays"} : Rank(The(name)) = 6
<1>1. \A name : The(name)[1] = name
  BY DEF The
<1>2. \A i : QueuePair(i)[1] = "queuePair"
  BY DEF QueuePair
<1>3. \A i \in {0, 1}, j \in 1 .. 3 : PairResource(i, j)[1] \in PairName /\ PairResource(i, j)[2] = i
  BY DEF PairResource, PairName
<1>4. /\ PairName \intersect NetworkName = {} /\ "queuePair" \notin NetworkName \union PairName
      /\ "queuePairs" \notin NetworkName \union PairName
      /\ MemoryName \intersect (NetworkName \union PairName \union {"queuePair", "queuePairs"}) = {}
  BY DEF NetworkName, PairName, MemoryName
<1>5. /\ RegionName \intersect (NetworkName \union PairName \union {"queuePair", "queuePairs"} \union MemoryName) = {}
  BY DEF NetworkName, PairName, MemoryName, RegionName
<1>6. (CalcName \union {"arrays"}) \intersect
         (NetworkName \union PairName \union {"queuePair", "queuePairs"} \union MemoryName \union RegionName) = {}
  BY DEF NetworkName, PairName, MemoryName, RegionName, CalcName
<1>7. /\ \A name \in NetworkName : Rank(The(name)) = 1
      /\ \A i : Rank(QueuePair(i)) = 3
      /\ Rank(The("queuePairs")) = 3
  BY <1>1, <1>2, <1>4 DEF Rank
<1>8. \A i \in {0, 1}, j \in 1 .. 3 : Rank(PairResource(i, j)) = i + 1
  BY <1>3, <1>4 DEF Rank
<1>9. \A name \in MemoryName : Rank(The(name)) = 4
  BY <1>1, <1>4 DEF Rank
<1>10. \A name \in RegionName : Rank(The(name)) = 5
  BY <1>1, <1>5 DEF Rank
<1>11. \A name \in CalcName \union {"arrays"} : Rank(The(name)) = 6
  BY <1>1, <1>6 DEF Rank
<1> QED BY <1>7, <1>8, <1>9, <1>10, <1>11

LEMMA NamedRanks ==
  /\ Rank(The("devices")) = 1 /\ Rank(The("context")) = 1 /\ Rank(The("pd")) = 1 /\ Rank(The("srq")) = 1
  /\ \A j \in 1 .. 3 : Rank(PairResource(0, j)) = 1
  /\ \A j \in 1 .. 3 : Rank(PairResource(1, j)) = 2
<1>1. /\ "devices" \in NetworkName /\ "context" \in NetworkName /\ "pd" \in NetworkName /\ "srq" \in NetworkName
  BY DEF NetworkName
<1>2. 0 \in {0, 1} /\ 1 \in {0, 1} /\ 0 + 1 = 1 /\ 1 + 1 = 2
  OBVIOUS
<1>3. \A j \in 1 .. 3 : Rank(PairResource(0, j)) = 0 + 1 /\ Rank(PairResource(1, j)) = 1 + 1
  BY <1>2, Ranks, Zenon
<1> QED BY <1>1, <1>2, <1>3, Ranks

(* The names of the memory and of its registrations *)
LEMMA NamesKnown ==
  ASSUME NEW c \in Class
  PROVE  /\ \A j \in 1 .. LenMemory(c) : Memory(c)[j] \in MemoryName
         /\ \A j \in 1 .. LenRegions(c) : Regions(c)[j] \in RegionName
         /\ \A i, j \in 1 .. LenMemory(c) : The(Memory(c)[i]) = The(Memory(c)[j]) => i = j
         /\ \A i, j \in 1 .. LenRegions(c) : The(Regions(c)[i]) = The(Regions(c)[j]) => i = j
<1>0. \A x, y : The(x) = The(y) => x = y
  BY DEF The
<1> DEFINE m == Memory(c)
           r == Regions(c)
<1>1. CASE c = "ECBuffer"
  <2>1. /\ LenMemory(c) = 4 /\ m[1] = "receiveBuffer" /\ m[2] = "sendBuffer"
        /\ m[3] = "encode_extra_buffer" /\ m[4] = "decode_extra_buffer"
    BY <1>1 DEF LenMemory, Memory
  <2>2. /\ LenRegions(c) = 6 /\ r[1] = "localSend" /\ r[2] = "localReceive" /\ r[3] = "encodeExtra"
        /\ r[4] = "decodeExtra" /\ r[5] = "localReadPos" /\ r[6] = "localCurrentRemoteReceive"
    BY <1>1 DEF LenRegions, Regions
  <2> HIDE DEF m, r
  <2>3. \A j \in 1 .. 4 : m[j] \in MemoryName
    BY <2>1 DEF MemoryName
  <2>4. \A j \in 1 .. 6 : r[j] \in RegionName
    BY <2>2 DEF RegionName
  <2>5. \A i, j \in 1 .. 4 : m[i] = m[j] => i = j
    BY <2>1
  <2>6. \A i, j \in 1 .. 6 : r[i] = r[j] => i = j
    BY <2>2
  <2>7. /\ \A i, j \in 1 .. 4 : The(m[i]) = The(m[j]) => i = j
        /\ \A i, j \in 1 .. 6 : The(r[i]) = The(r[j]) => i = j
    BY <1>0, <2>5, <2>6, Zenon
  <2> QED BY <2>1, <2>2, <2>3, <2>4, <2>7, Zenon DEF m, r
<1>2. CASE c = "RDMAMessageBuffer"
  <2>1. LenMemory(c) = 2 /\ m[1] = "receiveBuffer" /\ m[2] = "sendBuffer"
    BY <1>2 DEF LenMemory, Memory
  <2>2. /\ LenRegions(c) = 4 /\ r[1] = "localSend" /\ r[2] = "localReceive"
        /\ r[3] = "localReadPos" /\ r[4] = "localCurrentRemoteReceive"
    BY <1>2 DEF LenRegions, Regions
  <2> HIDE DEF m, r
  <2>3. \A j \in 1 .. 2 : m[j] \in MemoryName
    BY <2>1 DEF MemoryName
  <2>4. \A j \in 1 .. 4 : r[j] \in RegionName
    BY <2>2 DEF RegionName
  <2>5. \A i, j \in 1 .. 2 : m[i] = m[j] => i = j
    BY <2>1
  <2>6. \A i, j \in 1 .. 4 : r[i] = r[j] => i = j
    BY <2>2
  <2>7. /\ \A i, j \in 1 .. 2 : The(m[i]) = The(m[j]) => i = j
        /\ \A i, j \in 1 .. 4 : The(r[i]) = The(r[j]) => i = j
    BY <1>0, <2>5, <2>6, Zenon
  <2> QED BY <2>1, <2>2, <2>3, <2>4, <2>7, Zenon DEF m, r
<1> QED BY <1>1, <1>2 DEF Class

(* A registration uses the protection domain and memory of the same class. *)
LEMMA RegionUses ==
  ASSUME NEW c \in Class, NEW j \in 1 .. LenRegions(c), NEW u \in Uses(The(Regions(c)[j]))
  PROVE  u = The("pd") \/ \E i \in 1 .. LenMemory(c) : u = The(Memory(c)[i])
<1> DEFINE m == Memory(c)
           r == Regions(c)
           l == LenMemory(c)
<1>1. CASE c = "ECBuffer"
  <2>1. /\ l = 4 /\ m[1] = "receiveBuffer" /\ m[2] = "sendBuffer"
        /\ m[3] = "encode_extra_buffer" /\ m[4] = "decode_extra_buffer"
    BY <1>1 DEF LenMemory, Memory
  <2>2. /\ j \in 1 .. 6 /\ r[1] = "localSend" /\ r[2] = "localReceive" /\ r[3] = "encodeExtra"
        /\ r[4] = "decodeExtra" /\ r[5] = "localReadPos" /\ r[6] = "localCurrentRemoteReceive"
    BY <1>1 DEF LenRegions, Regions
  <2>3. u \in Uses(The(r[j]))
    OBVIOUS
  <2> HIDE DEF m, r, l
  <2>4. j = 1 \/ j = 2 \/ j = 3 \/ j = 4 \/ j = 5 \/ j = 6
    BY <2>2
  <2>5. /\ \E i \in 1 .. l : m[i] = "receiveBuffer"
        /\ \E i \in 1 .. l : m[i] = "sendBuffer"
        /\ \E i \in 1 .. l : m[i] = "encode_extra_buffer"
        /\ \E i \in 1 .. l : m[i] = "decode_extra_buffer"
    BY <2>1
  <2>6. \/ u = The("pd") \/ u = The("receiveBuffer") \/ u = The("sendBuffer")
        \/ u = The("encode_extra_buffer") \/ u = The("decode_extra_buffer")
    BY <2>2, <2>3, <2>4, UsesKnown
  <2>7. u = The("pd") \/ \E i \in 1 .. l : u = The(m[i])
    BY <2>5, <2>6, Zenon
  <2> QED BY <2>7 DEF m, l
<1>2. CASE c = "RDMAMessageBuffer"
  <2>1. l = 2 /\ m[1] = "receiveBuffer" /\ m[2] = "sendBuffer"
    BY <1>2 DEF LenMemory, Memory
  <2>2. /\ j \in 1 .. 4 /\ r[1] = "localSend" /\ r[2] = "localReceive"
        /\ r[3] = "localReadPos" /\ r[4] = "localCurrentRemoteReceive"
    BY <1>2 DEF LenRegions, Regions
  <2>3. u \in Uses(The(r[j]))
    OBVIOUS
  <2> HIDE DEF m, r, l
  <2>4. j = 1 \/ j = 2 \/ j = 3 \/ j = 4
    BY <2>2
  <2>5. /\ \E i \in 1 .. l : m[i] = "receiveBuffer"
        /\ \E i \in 1 .. l : m[i] = "sendBuffer"
    BY <2>1
  <2>6. u = The("pd") \/ u = The("receiveBuffer") \/ u = The("sendBuffer")
    BY <2>2, <2>3, <2>4, UsesKnown
  <2>7. u = The("pd") \/ \E i \in 1 .. l : u = The(m[i])
    BY <2>5, <2>6, Zenon
  <2> QED BY <2>7 DEF m, l
<1> QED BY <1>1, <1>2 DEF Class

LEMMA QueuePairsDestructor ==
  ASSUME NEW c \in Class
  PROVE  /\ Destructor(DestroyQueuePairs(c))
         /\ \A r : r \in Elements(DestroyQueuePairs(c)) <=>
               (\E i \in 1 .. QueuePairsOf(c) : r = QueuePair(i)) \/ (c = "ECBuffer" /\ r = The("queuePairs"))
<1> DEFINE q == QueuePairsOf(c)
           a == [i \in 1 .. q |-> QueuePair(i)]
           v == The("queuePairs")
           b == IF c = "ECBuffer" THEN <<v>> ELSE <<>>
           l == IF c = "ECBuffer" THEN 1 ELSE 0
           F == a \o b
<1>1. DestroyQueuePairs(c) = F
  BY DEF DestroyQueuePairs
<1>2. q \in Nat /\ q > 0
  BY ExchangeSteps
<1>3. Listed(a) /\ Len(a) = q
  BY <1>2, FunctionListed
<1>4. \A i \in 1 .. q : a[i] = QueuePair(i)
  OBVIOUS
<1>5. Listed(b) /\ Len(b) = l /\ (c = "ECBuffer" => b[1] = v)
  <2>1. CASE c = "ECBuffer"
    BY <2>1, ListedFacts, Zenon
  <2>2. CASE c # "ECBuffer"
    BY <2>2, ListedFacts
  <2> QED BY <2>1, <2>2
<1>6. l \in {0, 1} /\ (c = "ECBuffer" <=> l = 1)
  OBVIOUS
<1>7. (\A i : QueuePair(i) # v) /\ (\A i, j : QueuePair(i) = QueuePair(j) => i = j)
  BY DEF QueuePair, The
<1>8. (\A i : Rank(QueuePair(i)) = 3) /\ Rank(v) = 3
  BY Ranks
<1>9. Uses(v) = {} /\ \A i : \A u \in Uses(QueuePair(i)) : Rank(u) # 3
  <2>1. Uses(v) = {}
    BY UsesKnown
  <2>2. \A i : Uses(QueuePair(i)) = {The("pd"), The("srq"), PairResource(1, 2), PairResource(1, 3)}
    BY UsesKnown
  <2>3. Rank(The("pd")) = 1 /\ Rank(The("srq")) = 1 /\ Rank(PairResource(1, 2)) = 2 /\ Rank(PairResource(1, 3)) = 2
    BY NamedRanks
  <2> QED BY <2>1, <2>2, <2>3
<1> HIDE DEF q, a, v, b, l
<1>10. Extends(F, a, b, q, l)
  <2>1. l \in Nat
    BY <1>6
  <2> QED BY <1>3, <1>5, <2>1, Extended, Zenon
<1> HIDE DEF F
<1>11. Listed(F) /\ Len(F) \in Nat /\ DOMAIN F = 1 .. Len(F) /\ Len(F) = q + l
  BY <1>10, ListedDomain DEF Extends
<1>12. \A i \in 1 .. q : F[i] = QueuePair(i)
  BY <1>4, <1>10 DEF Extends
<1>13. l = 1 => F[q + 1] = v
  BY <1>5, <1>6, <1>10 DEF Extends
<1>14. \A i \in 1 .. Len(F) : i \in 1 .. q \/ (l = 1 /\ i = q + 1)
  BY <1>2, <1>6, <1>11
<1>15. ASSUME NEW r
       PROVE  r \in Elements(F) <=> (\E i \in 1 .. q : r = QueuePair(i)) \/ (l = 1 /\ r = v)
  <2>1. ASSUME r \in Elements(F) PROVE (\E i \in 1 .. q : r = QueuePair(i)) \/ (l = 1 /\ r = v)
    <3>1. PICK i \in 1 .. Len(F) : r = F[i]
      BY <1>11, <2>1 DEF Elements
    <3> QED BY <1>12, <1>13, <1>14, <3>1
  <2>2. ASSUME NEW i \in 1 .. q, r = QueuePair(i) PROVE r \in Elements(F)
    <3>1. i \in 1 .. Len(F)
      BY <1>2, <1>6, <1>11
    <3> QED BY <1>11, <1>12, <2>2, <3>1 DEF Elements
  <2>3. ASSUME l = 1, r = v PROVE r \in Elements(F)
    <3>1. q + 1 \in 1 .. Len(F)
      BY <1>2, <1>11, <2>3
    <3> QED BY <1>11, <1>13, <2>3, <3>1 DEF Elements
  <2> QED BY <2>1, <2>2, <2>3
<1>16. Distinct(F)
  <2> SUFFICES ASSUME NEW i \in 1 .. Len(F), NEW j \in 1 .. Len(F), F[i] = F[j] PROVE i = j
    BY DEF Distinct
  <2>1. CASE i \in 1 .. q /\ j \in 1 .. q
    BY <1>7, <1>12, <2>1
  <2>2. CASE i \in 1 .. q /\ j \notin 1 .. q
    BY <1>7, <1>12, <1>13, <1>14, <2>2
  <2>3. CASE i \notin 1 .. q /\ j \in 1 .. q
    BY <1>7, <1>12, <1>13, <1>14, <2>3
  <2>4. CASE i \notin 1 .. q /\ j \notin 1 .. q
    BY <1>14, <2>4
  <2> QED BY <2>1, <2>2, <2>3, <2>4
<1>17. Descends(F)
  <2> SUFFICES ASSUME NEW i \in 1 .. Len(F), NEW u \in Uses(F[i]) PROVE u \notin Elements(F)
    BY DEF Descends
  <2>1. Rank(u) # 3
    <3>1. CASE i \in 1 .. q
      BY <1>9, <1>12, <3>1
    <3>2. CASE l = 1 /\ i = q + 1
      BY <1>9, <1>13, <3>2
    <3> QED BY <1>14, <3>1, <3>2
  <2>2. \A r \in Elements(F) : Rank(r) = 3
    BY <1>8, <1>15
  <2> QED BY <2>1, <2>2
<1>18. Destructor(F)
  BY <1>11, <1>16, <1>17 DEF Destructor
<1> QED BY <1>1, <1>6, <1>15, <1>18 DEF q, v

LEMMA CalcDestructor ==
  Destructor(DestroyECCalc) /\ \A r : r \in Elements(DestroyECCalc) <=> \E name \in CalcName : r = The(name)
<1> DEFINE F == DestroyECCalc
           v == The("calc")
           x == The("encode_matrix")
           y == The("en_mat")
           z == The("sges")
           w == The("comp")
<1>1. F[1] = v /\ F[2] = x /\ F[3] = y /\ F[4] = z /\ F[5] = w
  BY DEF DestroyECCalc, Each
<1>2. F = [i \in 1 .. 5 |-> F[i]]
  BY DEF DestroyECCalc, Each
<1>3. v # x /\ v # y /\ v # z /\ v # w /\ x # y /\ x # z /\ x # w /\ y # z /\ y # w /\ z # w
  BY DEF The
<1>4. v # The("pd") /\ x # The("pd") /\ y # The("pd") /\ z # The("pd") /\ w # The("pd")
  BY DEF The
<1>5. Uses(v) = {The("pd"), y} /\ Uses(x) = {} /\ Uses(y) = {} /\ Uses(z) = {} /\ Uses(w) = {}
  BY UsesKnown DEF CalcName
<1>6. \A r : (\E name \in CalcName : r = The(name)) <=> r = v \/ r = x \/ r = y \/ r = z \/ r = w
  BY DEF CalcName
<1> HIDE DEF F, v, x, y, z, w
<1>7. Listed(F) /\ Len(F) = 5
  BY <1>2, FunctionListed
<1>8. Len(F) \in Nat /\ DOMAIN F = 1 .. Len(F) /\ DOMAIN F = 1 .. 5
  BY <1>7, ListedDomain
<1>9. \A i \in 1 .. 5 : i = 1 \/ i = 2 \/ i = 3 \/ i = 4 \/ i = 5
  OBVIOUS
<1>10. \A r : r \in Elements(F) <=> r = v \/ r = x \/ r = y \/ r = z \/ r = w
  <2>1. ASSUME NEW r, r \in Elements(F) PROVE r = v \/ r = x \/ r = y \/ r = z \/ r = w
    <3>1. PICK i \in 1 .. 5 : r = F[i]
      BY <1>8, <2>1 DEF Elements
    <3> QED BY <1>1, <1>9, <3>1
  <2>2. \A i \in 1 .. 5 : F[i] \in Elements(F)
    BY <1>8 DEF Elements
  <2>3. F[1] \in Elements(F) /\ F[2] \in Elements(F) /\ F[3] \in Elements(F) /\ F[4] \in Elements(F) /\ F[5] \in Elements(F)
    BY <2>2
  <2> QED BY <1>1, <2>1, <2>3
<1>11. Distinct(F)
  <2> SUFFICES ASSUME NEW i \in 1 .. 5, NEW j \in 1 .. 5, F[i] = F[j] PROVE i = j
    BY <1>7 DEF Distinct
  <2> QED BY <1>1, <1>3, <1>9
<1>12. Descends(F)
  <2> SUFFICES ASSUME NEW i \in 1 .. 5, NEW u \in Uses(F[i])
               PROVE  u \notin Elements(F) \/ \E j \in 1 .. 5 : j > i /\ u = F[j]
    BY <1>7 DEF Descends
  <2>1. CASE i = 1
    BY <1>1, <1>4, <1>5, <1>10, <2>1
  <2>2. CASE i # 1
    BY <1>1, <1>5, <1>9, <2>2
  <2> QED BY <2>1, <2>2
<1> QED BY <1>6, <1>7, <1>8, <1>10, <1>11, <1>12 DEF Destructor, F

LEMMA MemberDestructor ==
  ASSUME NEW c \in Class
  PROVE  /\ \A j \in 1 .. LenMemory(c) :
               LET r == The(Memory(c)[j])
               IN  Destructor(<<r>>) /\ Elements(<<r>>) = {r} /\ Rank(r) = 4 /\ Uses(r) = {}
         /\ \A j \in 1 .. LenRegions(c) :
               LET r == The(Regions(c)[j])
               IN  Destructor(<<r>>) /\ Elements(<<r>>) = {r} /\ Rank(r) = 5 /\ \A u \in Uses(r) : Rank(u) < 5
<1>1. ASSUME NEW j \in 1 .. LenMemory(c)
      PROVE  LET r == The(Memory(c)[j])
             IN  Destructor(<<r>>) /\ Elements(<<r>>) = {r} /\ Rank(r) = 4 /\ Uses(r) = {}
  <2> DEFINE name == Memory(c)[j]
             r == The(name)
  <2>1. name \in MemoryName
    BY NamesKnown
  <2> HIDE DEF name
  <2>2. Uses(r) = {} /\ Rank(r) = 4
    BY <2>1, UsesKnown, Ranks, Zenon
  <2> HIDE DEF r
  <2>3. Destructor(<<r>>) /\ Elements(<<r>>) = {r}
    BY <2>2, SingleDestructor
  <2> QED BY <2>2, <2>3 DEF r, name
<1>2. ASSUME NEW j \in 1 .. LenRegions(c)
      PROVE  LET r == The(Regions(c)[j])
             IN  Destructor(<<r>>) /\ Elements(<<r>>) = {r} /\ Rank(r) = 5 /\ \A u \in Uses(r) : Rank(u) < 5
  <2> DEFINE name == Regions(c)[j]
             r == The(name)
  <2>1. name \in RegionName
    BY NamesKnown
  <2>2. \A u \in Uses(r) : u = The("pd") \/ \E i \in 1 .. LenMemory(c) : u = The(Memory(c)[i])
    BY RegionUses
  <2>3. \A i \in 1 .. LenMemory(c) : Rank(The(Memory(c)[i])) = 4
    BY <1>1
  <2>4. Rank(The("pd")) = 1
    BY NamedRanks
  <2>5. \A u \in Uses(r) : Rank(u) < 5
    BY <2>2, <2>3, <2>4
  <2> HIDE DEF name
  <2>6. Rank(r) = 5
    BY <2>1, Ranks, Zenon
  <2> HIDE DEF r
  <2>7. Destructor(<<r>>) /\ Elements(<<r>>) = {r}
    <3>1. r \notin Uses(r)
      BY <2>5, <2>6
    <3> QED BY <3>1, SingleDestructor
  <2> QED BY <2>5, <2>6, <2>7 DEF r, name
<1> QED BY <1>1, <1>2

-----------------------------------------------------------------------------
(* The steps at which the objects of a part are complete *)
InPart(c, e, n, k) ==
    \/ k = 1 /\ n <= LenSocket(e) + 8
    \/ k = 2 /\ n = LenSocket(e) + 12
    \/ k = 3 /\ n = OwnerAt(c, e)
    \/ k = 4 /\ n > MemoryAt(c, e) /\ n <= RegionsAt(c, e)
    \/ k = 5 /\ n > RegionsAt(c, e) /\ n <= RmrAt(c, e)
    \/ k = 6 /\ n = CalcAt(c, e) + 7

LEMMA PartsOrdered ==
  ASSUME NEW c \in Class, NEW e \in Endpoint, NEW n \in Nat, NEW m \in Nat, n < m,
         NEW k, NEW l, InPart(c, e, n, k), InPart(c, e, m, l)
  PROVE  k <= l /\ (k = l => k \in {1, 4, 5}) /\ (l = 1 <=> m <= LenSocket(e) + 8)
<1> DEFINE ls == LenSocket(e)
           la == LenPreparation(c)
           lx == 7 * QueuePairsOf(c)
           lo == OwnerStep(c)
           lm == LenMemory(c)
           lg == LenRegions(c)
           no == OwnerAt(c, e)
           nm == MemoryAt(c, e)
           ng == RegionsAt(c, e)
           nt == RmrAt(c, e)
           nz == CalcAt(c, e)
<1>1. /\ ls \in Nat /\ la \in {12, 13} /\ lx \in Nat /\ lo \in 1 .. lx /\ lm \in Nat /\ lg \in Nat
      /\ no = ls + la + lo /\ nm = ls + la + lx /\ ng = nm + lm /\ nt = ng + lg /\ nz = nt + 3
  <2>1. PlacesOf(c, e)
    BY PlacesKnown
  <2> QED BY <2>1 DEF PlacesOf
<1>2. \/ k = 1 /\ n <= ls + 8
      \/ k = 2 /\ n = ls + 12
      \/ k = 3 /\ n = no
      \/ k = 4 /\ n > nm /\ n <= ng
      \/ k = 5 /\ n > ng /\ n <= nt
      \/ k = 6 /\ n = nz + 7
  BY DEF InPart
<1>3. \/ l = 1 /\ m <= ls + 8
      \/ l = 2 /\ m = ls + 12
      \/ l = 3 /\ m = no
      \/ l = 4 /\ m > nm /\ m <= ng
      \/ l = 5 /\ m > ng /\ m <= nt
      \/ l = 6 /\ m = nz + 7
  BY DEF InPart
<1> HIDE DEF ls, la, lx, lo, lm, lg, no, nm, ng, nt, nz
<1>4. k \in 1 .. 6 /\ l \in 1 .. 6
  BY <1>2, <1>3
<1>5. /\ ls + 12 < no /\ no <= nm /\ nm <= ng /\ ng <= nt /\ nt < nz /\ no \in Nat /\ nm \in Nat /\ ng \in Nat /\ nt \in Nat /\ nz \in Nat
  BY <1>1
<1>6. k <= l
  BY <1>1, <1>2, <1>3, <1>5
<1>7. k = l => k \in {1, 4, 5}
  BY <1>1, <1>2, <1>3, <1>5
<1>8. l = 1 <=> m <= ls + 8
  BY <1>1, <1>3, <1>5
<1> QED BY <1>6, <1>7, <1>8 DEF ls

LEMMA PartStarts ==
  ASSUME NEW c \in Class, NEW e \in Endpoint
  PROVE  /\ ExchangeAt(c, e) \in Nat /\ OwnerAt(c, e) \in Nat /\ MemoryAt(c, e) \in Nat
         /\ RegionsAt(c, e) \in Nat /\ RmrAt(c, e) \in Nat /\ CalcAt(c, e) \in Nat
<1> DEFINE ls == LenSocket(e)
           la == LenPreparation(c)
           lx == 7 * QueuePairsOf(c)
           lo == OwnerStep(c)
           lm == LenMemory(c)
           lg == LenRegions(c)
           ne == ExchangeAt(c, e)
           no == OwnerAt(c, e)
           nm == MemoryAt(c, e)
           ng == RegionsAt(c, e)
           nt == RmrAt(c, e)
           nz == CalcAt(c, e)
<1>1. /\ ls \in Nat /\ la \in {12, 13} /\ lx \in Nat /\ lo \in 1 .. lx /\ lm \in Nat /\ lg \in Nat
      /\ ne = ls + la /\ no = ne + lo /\ nm = ne + lx /\ ng = nm + lm /\ nt = ng + lg /\ nz = nt + 3
  <2>1. PlacesOf(c, e)
    BY PlacesKnown
  <2> QED BY <2>1 DEF PlacesOf
<1> HIDE DEF ls, la, lx, lo, lm, lg, ne, no, nm, ng, nt, nz
<1>2. ne \in Nat /\ no \in Nat /\ nm \in Nat /\ ng \in Nat /\ nt \in Nat /\ nz \in Nat
  BY <1>1
<1> QED BY <1>2 DEF ne, no, nm, ng, nt, nz

(* What an object owns belongs to one part and uses nothing of a later one;*)
(* memory and registrations use nothing of their own part. *)
OfPart(F, k) ==
    \A r \in Elements(F) :
        Rank(r) = k /\ \A u \in Uses(r) : Rank(u) <= k /\ (k \in {4, 5} => Rank(u) < k)

LEMMA OwnPart ==
  /\ OfPart(DestroyReceiveQueue, 1) /\ OfPart(DestroyNetwork, 1) /\ OfPart(DestroyCompletionQueuePair(1), 2)
  /\ OfPart(DestroyECCalc, 6)
  /\ \A c \in Class : OfPart(DestroyQueuePairs(c), 3)
<1>1. OfPart(DestroyReceiveQueue, 1)
  BY ReceiveQueueDestructor, UsesKnown, NamedRanks DEF OfPart
<1>2. OfPart(DestroyNetwork, 1)
  <2> DEFINE F == DestroyNetwork
             s == The("srq")
             x == PairResource(0, 1)
             y == PairResource(0, 2)
             z == PairResource(0, 3)
             p == The("pd")
             c == The("context")
             v == The("devices")
  <2>1. DOMAIN F = 1 .. Len(F) /\ Len(F) = 7
    BY NetworkDestructor DEF Destructor
  <2>2. F[1] = s /\ F[2] = y /\ F[3] = z /\ F[4] = x /\ F[5] = p /\ F[6] = c /\ F[7] = v
    BY NetworkDestructor
  <2>3. Uses(s) = {p} /\ Uses(y) = {x} /\ Uses(z) = {x} /\ Uses(x) = {c} /\ Uses(p) = {c} /\ Uses(c) = {} /\ Uses(v) = {}
    BY UsesKnown
  <2>4. Rank(s) = 1 /\ Rank(y) = 1 /\ Rank(z) = 1 /\ Rank(x) = 1 /\ Rank(p) = 1 /\ Rank(c) = 1 /\ Rank(v) = 1
    BY NamedRanks
  <2> HIDE DEF F, s, x, y, z, p, c, v
  <2>5. ASSUME NEW r \in Elements(F) PROVE Rank(r) = 1 /\ \A u \in Uses(r) : Rank(u) = 1
    <3>1. PICK i \in 1 .. 7 : r = F[i]
      BY <2>1 DEF Elements
    <3>2. i = 1 \/ i = 2 \/ i = 3 \/ i = 4 \/ i = 5 \/ i = 6 \/ i = 7
      OBVIOUS
    <3>3. r = s \/ r = y \/ r = z \/ r = x \/ r = p \/ r = c \/ r = v
      BY <2>2, <3>1, <3>2
    <3> QED BY <2>3, <2>4, <3>3
  <2> QED BY <2>5 DEF OfPart, F
<1>3. OfPart(DestroyCompletionQueuePair(1), 2)
  <2> DEFINE F == DestroyCompletionQueuePair(1)
             x == PairResource(1, 1)
             y == PairResource(1, 2)
             z == PairResource(1, 3)
             c == The("context")
  <2>1. DOMAIN F = 1 .. Len(F) /\ Len(F) = 3
    BY PairDestructor DEF Destructor
  <2>2. F[1] = y /\ F[2] = z /\ F[3] = x
    BY PairDestructor
  <2>3. Uses(y) = {x} /\ Uses(z) = {x} /\ Uses(x) = {c}
    BY UsesKnown
  <2>4. Rank(y) = 2 /\ Rank(z) = 2 /\ Rank(x) = 2 /\ Rank(c) = 1
    BY NamedRanks
  <2> HIDE DEF F, x, y, z, c
  <2>5. ASSUME NEW r \in Elements(F) PROVE Rank(r) = 2 /\ \A u \in Uses(r) : Rank(u) \in {1, 2}
    <3>1. PICK i \in 1 .. 3 : r = F[i]
      BY <2>1 DEF Elements
    <3>2. i = 1 \/ i = 2 \/ i = 3
      OBVIOUS
    <3> QED BY <2>2, <2>3, <2>4, <3>1, <3>2
  <2> QED BY <2>5 DEF OfPart, F
<1>4. OfPart(DestroyECCalc, 6)
  <2> SUFFICES ASSUME NEW name \in CalcName
               PROVE  Rank(The(name)) = 6 /\ \A u \in Uses(The(name)) : Rank(u) <= 6
    BY CalcDestructor DEF OfPart
  <2>1. Rank(The(name)) = 6 /\ Rank(The("en_mat")) = 6 /\ Rank(The("pd")) = 1
    <3>1. "en_mat" \in CalcName
      BY DEF CalcName
    <3> QED BY <3>1, Ranks, NamedRanks
  <2>2. name = "calc" \/ name \in CalcName \ {"calc"}
    OBVIOUS
  <2>3. CASE name = "calc"
    BY <2>1, <2>3, UsesKnown
  <2>4. CASE name \in CalcName \ {"calc"}
    BY <2>1, <2>4, UsesKnown
  <2> QED BY <2>2, <2>3, <2>4
<1>5. ASSUME NEW c \in Class PROVE OfPart(DestroyQueuePairs(c), 3)
  <2> SUFFICES ASSUME NEW r \in Elements(DestroyQueuePairs(c))
               PROVE  Rank(r) = 3 /\ \A u \in Uses(r) : Rank(u) <= 3
    BY DEF OfPart
  <2>1. (\E i \in 1 .. QueuePairsOf(c) : r = QueuePair(i)) \/ r = The("queuePairs")
    BY QueuePairsDestructor
  <2>2. CASE \E i \in 1 .. QueuePairsOf(c) : r = QueuePair(i)
    <3>1. PICK i : r = QueuePair(i)
      BY <2>2
    <3>2. Uses(r) = {The("pd"), The("srq"), PairResource(1, 2), PairResource(1, 3)} /\ Rank(r) = 3
      BY <3>1, UsesKnown, Ranks
    <3> QED BY <3>2, NamedRanks
  <2>3. CASE r = The("queuePairs")
    BY <2>3, UsesKnown, Ranks
  <2> QED BY <2>1, <2>2, <2>3
<1> QED BY <1>1, <1>2, <1>3, <1>4, <1>5

LEMMA FreedParts ==
  ASSUME NEW c \in Class, NEW e \in Endpoint, NEW n, NEW F, FreesAt(c, e, n, F)
  PROVE  Destructor(F) /\ n \in Nat /\ \E k \in 1 .. 6 : InPart(c, e, n, k) /\ OfPart(F, k)
<1>0. n \in Nat
  <2> DEFINE p == Plan[c][e]
  <2>1. n \in 1 .. Len(p) /\ PlacesOf(c, e)
    BY NameOfStep, PlacesKnown
  <2>2. Len(p) \in Nat
    BY <2>1 DEF PlacesOf
  <2> HIDE DEF p
  <2> QED BY <2>1, <2>2
<1>1. CASE n = LenSocket(e) + 4 /\ F = DestroyReceiveQueue
  <2>1. InPart(c, e, n, 1)
    BY <1>1, PlacesKnown DEF InPart, PlacesOf
  <2> QED BY <1>0, <1>1, <2>1, ReceiveQueueDestructor, OwnPart
<1>2. CASE n = LenSocket(e) + 8 /\ F = DestroyNetwork
  <2>1. InPart(c, e, n, 1)
    BY <1>2, PlacesKnown DEF InPart, PlacesOf
  <2> QED BY <1>0, <1>2, <2>1, NetworkDestructor, OwnPart
<1>3. CASE n = LenSocket(e) + 12 /\ F = DestroyCompletionQueuePair(1)
  <2>1. InPart(c, e, n, 2)
    BY <1>3 DEF InPart
  <2> QED BY <1>0, <1>3, <2>1, PairDestructor, OwnPart
<1>4. CASE n = OwnerAt(c, e) /\ F = DestroyQueuePairs(c)
  <2>1. InPart(c, e, n, 3)
    BY <1>4 DEF InPart
  <2> QED BY <1>0, <1>4, <2>1, QueuePairsDestructor, OwnPart
<1>5. ASSUME NEW j \in 1 .. LenMemory(c), n = MemoryAt(c, e) + j, F = <<The(Memory(c)[j])>>
      PROVE  Destructor(F) /\ InPart(c, e, n, 4) /\ OfPart(F, 4)
  <2>1. InPart(c, e, n, 4)
    <3> DEFINE l == LenMemory(c)
               a == MemoryAt(c, e)
               b == RegionsAt(c, e)
    <3>1. j \in 1 .. l /\ n = a + j /\ b = a + l /\ l \in Nat /\ a \in Nat
      <4>1. PlacesOf(c, e)
        BY PlacesKnown
      <4>2. b = a + l /\ l \in Nat
        BY <4>1 DEF PlacesOf
      <4>3. a \in Nat
        BY PartStarts
      <4> QED BY <1>5, <4>2, <4>3
    <3> HIDE DEF l, a, b
    <3>2. n > a /\ n <= b
      BY <3>1
    <3> QED BY <3>2 DEF InPart, a, b
  <2>2. LET r == The(Memory(c)[j])
        IN  Destructor(<<r>>) /\ Elements(<<r>>) = {r} /\ Rank(r) = 4 /\ Uses(r) = {}
    BY MemberDestructor
  <2>3. OfPart(F, 4)
    BY <1>5, <2>2 DEF OfPart
  <2> QED BY <1>5, <2>1, <2>2, <2>3
<1>6. ASSUME NEW j \in 1 .. LenRegions(c), n = RegionsAt(c, e) + j, F = <<The(Regions(c)[j])>>
      PROVE  Destructor(F) /\ InPart(c, e, n, 5) /\ OfPart(F, 5)
  <2>1. InPart(c, e, n, 5)
    <3> DEFINE l == LenRegions(c)
               a == RegionsAt(c, e)
               b == RmrAt(c, e)
    <3>1. j \in 1 .. l /\ n = a + j /\ b = a + l /\ l \in Nat /\ a \in Nat
      <4>1. PlacesOf(c, e)
        BY PlacesKnown
      <4>2. b = a + l /\ l \in Nat
        BY <4>1 DEF PlacesOf
      <4>3. a \in Nat
        BY PartStarts
      <4> QED BY <1>6, <4>2, <4>3
    <3> HIDE DEF l, a, b
    <3>2. n > a /\ n <= b
      BY <3>1
    <3> QED BY <3>2 DEF InPart, a, b
  <2>2. LET r == The(Regions(c)[j])
        IN  Destructor(<<r>>) /\ Elements(<<r>>) = {r} /\ Rank(r) = 5 /\ \A u \in Uses(r) : Rank(u) < 5
    BY MemberDestructor
  <2>3. OfPart(F, 5)
    <3> DEFINE r == The(Regions(c)[j])
    <3>1. F = <<r>> /\ Elements(<<r>>) = {r} /\ Rank(r) = 5
      BY <1>6, <2>2
    <3>2. \A u \in Uses(r) : Rank(u) <= 5 /\ Rank(u) < 5
      <4> SUFFICES ASSUME NEW u \in Uses(r) PROVE Rank(u) <= 5 /\ Rank(u) < 5
        OBVIOUS
      <4>1. u = The("pd") \/ \E i \in 1 .. LenMemory(c) : u = The(Memory(c)[i])
        BY RegionUses
      <4>2. Rank(u) = 1 \/ Rank(u) = 4
        BY <4>1, NamedRanks, MemberDestructor
      <4> QED BY <4>2
    <3> HIDE DEF r
    <3> QED BY <3>1, <3>2 DEF OfPart
  <2> QED BY <1>6, <2>1, <2>2, <2>3
<1>7. CASE c = "ECBuffer" /\ n = CalcAt(c, e) + 7 /\ F = DestroyECCalc
  <2>1. InPart(c, e, n, 6)
    BY <1>7 DEF InPart
  <2> QED BY <1>0, <1>7, <2>1, CalcDestructor, OwnPart
<1>8. CASE \E j \in 1 .. LenMemory(c) : n = MemoryAt(c, e) + j /\ F = <<The(Memory(c)[j])>>
  <2>1. Destructor(F) /\ InPart(c, e, n, 4) /\ OfPart(F, 4)
    BY <1>5, <1>8
  <2> QED BY <1>0, <2>1
<1>9. CASE \E j \in 1 .. LenRegions(c) : n = RegionsAt(c, e) + j /\ F = <<The(Regions(c)[j])>>
  <2>1. Destructor(F) /\ InPart(c, e, n, 5) /\ OfPart(F, 5)
    BY <1>6, <1>9
  <2> QED BY <1>0, <2>1
<1> QED BY <1>1, <1>2, <1>3, <1>4, <1>7, <1>8, <1>9, Zenon DEF FreesAt

-----------------------------------------------------------------------------
(* Two objects: the later one takes over the earlier (the receive queue is *)
(* a member of the network), or they have nothing to do with one another.  *)
LEMMA PartsNamed ==
  ASSUME NEW c \in Class, NEW e \in Endpoint, NEW n, NEW F, FreesAt(c, e, n, F), NEW k, InPart(c, e, n, k)
  PROVE  /\ k = 1 => \/ n = LenSocket(e) + 4 /\ F = DestroyReceiveQueue
                     \/ n = LenSocket(e) + 8 /\ F = DestroyNetwork
         /\ k = 4 => \E j \in 1 .. LenMemory(c) : n = MemoryAt(c, e) + j /\ F = <<The(Memory(c)[j])>>
         /\ k = 5 => \E j \in 1 .. LenRegions(c) : n = RegionsAt(c, e) + j /\ F = <<The(Regions(c)[j])>>
<1> DEFINE ls == LenSocket(e)
           la == LenPreparation(c)
           lx == 7 * QueuePairsOf(c)
           lo == OwnerStep(c)
           lm == LenMemory(c)
           lg == LenRegions(c)
           no == OwnerAt(c, e)
           nm == MemoryAt(c, e)
           ng == RegionsAt(c, e)
           nt == RmrAt(c, e)
           nz == CalcAt(c, e)
           first == n = LenSocket(e) + 4 /\ F = DestroyReceiveQueue
           net == n = LenSocket(e) + 8 /\ F = DestroyNetwork
           mem == \E j \in 1 .. LenMemory(c) : n = MemoryAt(c, e) + j /\ F = <<The(Memory(c)[j])>>
           reg == \E j \in 1 .. LenRegions(c) : n = RegionsAt(c, e) + j /\ F = <<The(Regions(c)[j])>>
<1>1. /\ ls \in Nat /\ la \in {12, 13} /\ lx \in Nat /\ lo \in 1 .. lx /\ lm \in Nat /\ lg \in Nat
      /\ no = ls + la + lo /\ nm = ls + la + lx /\ ng = nm + lm /\ nt = ng + lg /\ nz = nt + 3
  <2>1. PlacesOf(c, e)
    BY PlacesKnown
  <2> QED BY <2>1 DEF PlacesOf
<1>2. \/ k = 1 /\ n <= ls + 8
      \/ k = 2 /\ n = ls + 12
      \/ k = 3 /\ n = no
      \/ k = 4 /\ n > nm /\ n <= ng
      \/ k = 5 /\ n > ng /\ n <= nt
      \/ k = 6 /\ n = nz + 7
  BY DEF InPart
<1>3. mem => \E j \in 1 .. lm : n = nm + j
  BY Zenon
<1>4. reg => \E j \in 1 .. lg : n = ng + j
  BY Zenon
<1>5. \/ first /\ n = ls + 4
      \/ net /\ n = ls + 8
      \/ n = ls + 12
      \/ n = no
      \/ mem
      \/ reg
      \/ n = nz + 7
  BY Zenon DEF FreesAt
<1> HIDE DEF ls, la, lx, lo, lm, lg, no, nm, ng, nt, nz, first, net, mem, reg
<1>6. /\ ls + 12 < no /\ no <= nm /\ nm <= ng /\ ng <= nt /\ nt < nz /\ no \in Nat /\ nm \in Nat /\ ng \in Nat /\ nt \in Nat /\ nz \in Nat
  BY <1>1
<1>7. /\ mem => n > nm /\ n <= ng
      /\ reg => n > ng /\ n <= nt
  BY <1>1, <1>3, <1>4, <1>6
<1>8. n \in Nat
  BY FreedParts
<1>9. n <= ls + 8 => n # ls + 12 /\ n # no /\ ~(n > nm) /\ ~(n > ng) /\ n # nz + 7
  BY <1>1, <1>6, <1>8
<1>10. n > nm /\ n <= ng => n # ls + 4 /\ n # ls + 8 /\ n # ls + 12 /\ n # no /\ ~(n > ng) /\ n # nz + 7
  BY <1>1, <1>6, <1>8
<1>11. n > ng /\ n <= nt => n # ls + 4 /\ n # ls + 8 /\ n # ls + 12 /\ n # no /\ ~(n <= ng) /\ n # nz + 7
  BY <1>1, <1>6, <1>8
<1>12. (k = 1 => n <= ls + 8) /\ (k = 4 => n > nm /\ n <= ng) /\ (k = 5 => n > ng /\ n <= nt)
  BY <1>2
<1>13. k = 1 => first \/ net
  BY <1>5, <1>7, <1>9, <1>12, Zenon
<1>14. k = 4 => mem
  BY <1>5, <1>7, <1>10, <1>12, Zenon
<1>15. k = 5 => reg
  BY <1>5, <1>7, <1>11, <1>12, Zenon
<1> QED BY <1>13, <1>14, <1>15 DEF first, net, mem, reg

Untouched(G, F) == \A r \in Elements(G) : r \notin Elements(F) /\ \A u \in Uses(r) : u \notin Elements(F)

LEMMA OwnersApart ==
  ASSUME NEW c \in Class, NEW e \in Endpoint, NEW n, NEW F, FreesAt(c, e, n, F)
  PROVE  \/ \A i, G : FreesAt(c, e, i, G) /\ i < n => Elements(G) \subseteq Elements(F)
         \/ \A i, G : FreesAt(c, e, i, G) /\ i < n => Untouched(G, F)
<1>1. n \in Nat /\ Destructor(F)
  BY FreedParts
<1>2. PICK l \in 1 .. 6 : InPart(c, e, n, l) /\ OfPart(F, l)
  BY FreedParts
<1>3. CASE l = 1
  <2> SUFFICES ASSUME NEW i, NEW G, FreesAt(c, e, i, G), i < n PROVE Elements(G) \subseteq Elements(F)
    OBVIOUS
  <2>1. i \in Nat
    BY FreedParts
  <2>2. PICK k \in 1 .. 6 : InPart(c, e, i, k)
    BY FreedParts
  <2>3. k = 1
    <3>1. k <= l
      BY <1>1, <1>2, <2>1, <2>2, PartsOrdered
    <3> QED BY <1>3, <3>1
  <2>4. /\ \/ i = LenSocket(e) + 4 /\ G = DestroyReceiveQueue
           \/ i = LenSocket(e) + 8 /\ G = DestroyNetwork
        /\ \/ n = LenSocket(e) + 4 /\ F = DestroyReceiveQueue
           \/ n = LenSocket(e) + 8 /\ F = DestroyNetwork
    BY <1>2, <1>3, <2>2, <2>3, PartsNamed
  <2>5. LenSocket(e) \in Nat
    BY PlacesKnown DEF PlacesOf
  <2>6. G = DestroyReceiveQueue /\ F = DestroyNetwork
    BY <2>4, <2>5
  <2>7. 1 \in DOMAIN F /\ F[1] = The("srq")
    BY <2>6, NetworkDestructor DEF Destructor
  <2> QED BY <2>6, <2>7, ReceiveQueueDestructor DEF Elements
<1>4. CASE l # 1
  <2> SUFFICES ASSUME NEW i, NEW G, FreesAt(c, e, i, G), i < n PROVE Untouched(G, F)
    OBVIOUS
  <2>1. i \in Nat
    BY FreedParts
  <2>2. PICK k \in 1 .. 6 : InPart(c, e, i, k) /\ OfPart(G, k)
    BY FreedParts
  <2>3. k <= l /\ (k = l => k \in {4, 5})
    BY <1>1, <1>2, <1>4, <2>1, <2>2, PartsOrdered
  <2>4. CASE k # l
    <3>1. \A r \in Elements(G) : Rank(r) # l /\ \A u \in Uses(r) : Rank(u) # l
      <4> SUFFICES ASSUME NEW r \in Elements(G) PROVE Rank(r) # l /\ \A u \in Uses(r) : Rank(u) # l
        OBVIOUS
      <4>1. Rank(r) = k /\ \A u \in Uses(r) : Rank(u) <= k
        BY <2>2 DEF OfPart
      <4>2. ASSUME NEW u \in Uses(r) PROVE Rank(u) # l
        <5>1. Rank(u) <= k
          BY <4>1
        <5> QED BY <2>3, <2>4, <5>1
      <4> QED BY <2>4, <4>1, <4>2
    <3>2. \A r \in Elements(F) : Rank(r) = l
      BY <1>2 DEF OfPart
    <3> QED BY <3>1, <3>2 DEF Untouched
  <2>5. CASE k = l
    <3>1. \A r \in Elements(G) : \A u \in Uses(r) : Rank(u) # l
      <4> SUFFICES ASSUME NEW r \in Elements(G), NEW u \in Uses(r) PROVE Rank(u) # l
        OBVIOUS
      <4>1. Rank(u) < k
        BY <2>2, <2>3, <2>5 DEF OfPart
      <4> QED BY <2>5, <4>1
    <3>2. \A r \in Elements(F) : Rank(r) = l
      BY <1>2 DEF OfPart
    <3>3. \A r \in Elements(G) : r \notin Elements(F)
      <4>1. CASE l = 4
        <5>1. PICK j \in 1 .. LenMemory(c) : i = MemoryAt(c, e) + j /\ G = <<The(Memory(c)[j])>>
          BY <2>2, <2>5, <4>1, PartsNamed
        <5>2. PICK m \in 1 .. LenMemory(c) : n = MemoryAt(c, e) + m /\ F = <<The(Memory(c)[m])>>
          BY <1>2, <4>1, PartsNamed
        <5>3. j # m
          BY <5>1, <5>2, PartStarts
        <5>4. The(Memory(c)[j]) # The(Memory(c)[m])
          BY <5>3, NamesKnown
        <5>5. Elements(G) = {The(Memory(c)[j])} /\ Elements(F) = {The(Memory(c)[m])}
          BY <5>1, <5>2, MemberDestructor
        <5> QED BY <5>4, <5>5
      <4>2. CASE l = 5
        <5>1. PICK j \in 1 .. LenRegions(c) : i = RegionsAt(c, e) + j /\ G = <<The(Regions(c)[j])>>
          BY <2>2, <2>5, <4>2, PartsNamed
        <5>2. PICK m \in 1 .. LenRegions(c) : n = RegionsAt(c, e) + m /\ F = <<The(Regions(c)[m])>>
          BY <1>2, <4>2, PartsNamed
        <5>3. j # m
          BY <5>1, <5>2, PartStarts
        <5>4. The(Regions(c)[j]) # The(Regions(c)[m])
          BY <5>3, NamesKnown
        <5>5. Elements(G) = {The(Regions(c)[j])} /\ Elements(F) = {The(Regions(c)[m])}
          BY <5>1, <5>2, MemberDestructor
        <5> QED BY <5>4, <5>5
      <4> QED BY <2>3, <2>5, <4>1, <4>2
    <3> QED BY <3>1, <3>2, <3>3 DEF Untouched
  <2> QED BY <2>4, <2>5
<1> QED BY <1>3, <1>4

-----------------------------------------------------------------------------
(* What has been acquired by which step *)
LEMMA AcquiredBy ==
  ASSUME NEW c \in Class, NEW e \in Endpoint, NEW n \in Nat
  PROVE  /\ \A j \in 1 .. 4 : n > LenSocket(e) + j => AcquiredBefore(c, e, n, NetworkResource(j))
         /\ \A i \in {0, 1}, j \in 1 .. 3 :
               n > LenSocket(e) + (4 + 4 * i) + j => AcquiredBefore(c, e, n, PairResource(i, j))
         /\ c = "ECBuffer" /\ n > LenSocket(e) + 13 => AcquiredBefore(c, e, n, The("queuePairs"))
         /\ \A i \in 1 .. QueuePairsOf(c) :
               n > ExchangeAt(c, e) + (7 * (i - 1) + 1) => AcquiredBefore(c, e, n, QueuePair(i))
         /\ \A j \in 1 .. LenMemory(c) : n > MemoryAt(c, e) + j => AcquiredBefore(c, e, n, The(Memory(c)[j]))
         /\ \A j \in 1 .. LenRegions(c) : n > RegionsAt(c, e) + j => AcquiredBefore(c, e, n, The(Regions(c)[j]))
         /\ \A j \in 1 .. 6 :
               c = "ECBuffer" /\ n > CalcAt(c, e) + 1 + j => AcquiredBefore(c, e, n, The(CalcNames[j]))
<1> DEFINE ls == LenSocket(e)
           ne == ExchangeAt(c, e)
           nm == MemoryAt(c, e)
           ng == RegionsAt(c, e)
           nz == CalcAt(c, e)
<1>1. ls \in Nat /\ ne \in Nat /\ nm \in Nat /\ ng \in Nat /\ nz \in Nat
  BY PartStarts, PlacesKnown DEF PlacesOf
<1>2. \A i, r : AcquiresAt(c, e, i, r) /\ i < n => AcquiredBefore(c, e, n, r)
  BY Zenon DEF AcquiredBefore
<1>3. \A j \in 1 .. 4 : AcquiresAt(c, e, ls + j, NetworkResource(j))
  BY Zenon DEF AcquiresAt
<1>4. \A i \in {0, 1}, j \in 1 .. 3 : AcquiresAt(c, e, ls + (4 + 4 * i) + j, PairResource(i, j))
  BY Zenon DEF AcquiresAt
<1>5. c = "ECBuffer" => AcquiresAt(c, e, ls + 13, The("queuePairs"))
  BY Zenon DEF AcquiresAt
<1>6. \A i \in 1 .. QueuePairsOf(c) : AcquiresAt(c, e, ne + (7 * (i - 1) + 1), QueuePair(i))
  BY Zenon DEF AcquiresAt
<1>7. \A j \in 1 .. LenMemory(c) : AcquiresAt(c, e, nm + j, The(Memory(c)[j]))
  BY Zenon DEF AcquiresAt
<1>8. \A j \in 1 .. LenRegions(c) : AcquiresAt(c, e, ng + j, The(Regions(c)[j]))
  BY Zenon DEF AcquiresAt
<1>9. \A j \in 1 .. 6 : c = "ECBuffer" => AcquiresAt(c, e, nz + 1 + j, The(CalcNames[j]))
  BY Zenon DEF AcquiresAt
<1> HIDE DEF ls, ne, nm, ng, nz
<1>10. \A j \in 1 .. 4 : n > ls + j => AcquiredBefore(c, e, n, NetworkResource(j))
  BY <1>1, <1>2, <1>3
<1>11. \A i \in {0, 1}, j \in 1 .. 3 :
           n > ls + (4 + 4 * i) + j => AcquiredBefore(c, e, n, PairResource(i, j))
  BY <1>1, <1>2, <1>4
<1>12. c = "ECBuffer" /\ n > ls + 13 => AcquiredBefore(c, e, n, The("queuePairs"))
  BY <1>1, <1>2, <1>5
<1>13. \A i \in 1 .. QueuePairsOf(c) : n > ne + (7 * (i - 1) + 1) => AcquiredBefore(c, e, n, QueuePair(i))
  <2> SUFFICES ASSUME NEW i \in 1 .. QueuePairsOf(c), n > ne + (7 * (i - 1) + 1)
               PROVE  AcquiredBefore(c, e, n, QueuePair(i))
    OBVIOUS
  <2> DEFINE k == ne + (7 * (i - 1) + 1)
  <2>1. AcquiresAt(c, e, k, QueuePair(i))
    BY <1>6, Zenon
  <2>2. k < n
    BY <1>1
  <2> HIDE DEF k
  <2> QED BY <1>2, <2>1, <2>2, Zenon
<1>14. \A j \in 1 .. LenMemory(c) : n > nm + j => AcquiredBefore(c, e, n, The(Memory(c)[j]))
  <2> SUFFICES ASSUME NEW j \in 1 .. LenMemory(c), n > nm + j
               PROVE  AcquiredBefore(c, e, n, The(Memory(c)[j]))
    OBVIOUS
  <2> DEFINE k == nm + j
  <2>1. AcquiresAt(c, e, k, The(Memory(c)[j]))
    BY <1>7, Zenon
  <2>2. k < n
    BY <1>1
  <2> HIDE DEF k
  <2> QED BY <1>2, <2>1, <2>2, Zenon
<1>15. \A j \in 1 .. LenRegions(c) : n > ng + j => AcquiredBefore(c, e, n, The(Regions(c)[j]))
  <2> SUFFICES ASSUME NEW j \in 1 .. LenRegions(c), n > ng + j
               PROVE  AcquiredBefore(c, e, n, The(Regions(c)[j]))
    OBVIOUS
  <2> DEFINE k == ng + j
  <2>1. AcquiresAt(c, e, k, The(Regions(c)[j]))
    BY <1>8, Zenon
  <2>2. k < n
    BY <1>1
  <2> HIDE DEF k
  <2> QED BY <1>2, <2>1, <2>2, Zenon
<1>16. \A j \in 1 .. 6 : c = "ECBuffer" /\ n > nz + 1 + j => AcquiredBefore(c, e, n, The(CalcNames[j]))
  BY <1>1, <1>2, <1>9
<1> QED BY <1>10, <1>11, <1>12, <1>13, <1>14, <1>15, <1>16 DEF ls, ne, nm, ng, nz

(* From the step that completes it on, the network and the completion      *)
(* queues are there for all that follows. *)
LEMMA NetworkAcquired ==
  ASSUME NEW c \in Class, NEW e \in Endpoint, NEW n \in Nat
  PROVE  /\ n > LenSocket(e) + 4 => /\ AcquiredBefore(c, e, n, The("devices")) /\ AcquiredBefore(c, e, n, The("context"))
                                    /\ AcquiredBefore(c, e, n, The("pd")) /\ AcquiredBefore(c, e, n, The("srq"))
         /\ n > LenSocket(e) + 7 => \A j \in 1 .. 3 : AcquiredBefore(c, e, n, PairResource(0, j))
         /\ n > LenSocket(e) + 11 => \A j \in 1 .. 3 : AcquiredBefore(c, e, n, PairResource(1, j))
<1> DEFINE ls == LenSocket(e)
<1>1. ls \in Nat
  BY PlacesKnown DEF PlacesOf
<1>2. \A j \in 1 .. 4 : n > ls + j => AcquiredBefore(c, e, n, NetworkResource(j))
  BY AcquiredBy
<1>3. \A i \in {0, 1}, j \in 1 .. 3 : n > ls + (4 + 4 * i) + j => AcquiredBefore(c, e, n, PairResource(i, j))
  BY AcquiredBy
<1> HIDE DEF ls
<1>4. ASSUME n > ls + 4
      PROVE  /\ AcquiredBefore(c, e, n, NetworkResource(1)) /\ AcquiredBefore(c, e, n, NetworkResource(2))
             /\ AcquiredBefore(c, e, n, NetworkResource(3)) /\ AcquiredBefore(c, e, n, NetworkResource(4))
  BY <1>1, <1>2, <1>4
<1>5. ASSUME n > ls + 7, NEW j \in 1 .. 3 PROVE AcquiredBefore(c, e, n, PairResource(0, j))
  <2>1. n > ls + (4 + 4 * 0) + j
    BY <1>1, <1>5
  <2> QED BY <1>3, <2>1
<1>6. ASSUME n > ls + 11, NEW j \in 1 .. 3 PROVE AcquiredBefore(c, e, n, PairResource(1, j))
  <2>1. n > ls + (4 + 4 * 1) + j
    BY <1>1, <1>6
  <2> QED BY <1>3, <2>1
<1> QED BY <1>4, <1>5, <1>6, NetworkResources DEF ls

(* What an object owns, and what that uses, has been acquired when the     *)
(* object is complete. *)
Has(c, e, n, r) == AcquiredBefore(c, e, n, r) /\ \A u \in Uses(r) : AcquiredBefore(c, e, n, u)

LEMMA Supplied ==
  ASSUME NEW c \in Class, NEW e \in Endpoint, NEW n, NEW F, FreesAt(c, e, n, F), NEW r \in Elements(F)
  PROVE  Has(c, e, n + 1, r)
<1> DEFINE ls == LenSocket(e)
           m == n + 1
<1>0. n \in Nat
  BY FreedParts
<1>1. ls \in Nat
  BY PlacesKnown DEF PlacesOf
<1>2. m \in Nat
  BY <1>0
<1>3. OwnerAt(c, e) > ls + 12 /\ MemoryAt(c, e) > ls + 12 /\ RegionsAt(c, e) = MemoryAt(c, e) + LenMemory(c)
      /\ MemoryAt(c, e) \in Nat /\ LenMemory(c) \in Nat /\ CalcAt(c, e) > ls + 12
      /\ RegionsAt(c, e) \in Nat /\ CalcAt(c, e) \in Nat /\ OwnerAt(c, e) \in Nat
  <2> DEFINE la == LenPreparation(c)
             lx == 7 * QueuePairsOf(c)
             lo == OwnerStep(c)
             lm == LenMemory(c)
             lg == LenRegions(c)
             no == OwnerAt(c, e)
             nm == MemoryAt(c, e)
             ng == RegionsAt(c, e)
             nz == CalcAt(c, e)
  <2>1. /\ la \in {12, 13} /\ lx \in Nat /\ lx > 0 /\ lo \in 1 .. lx /\ lm \in Nat /\ lg \in Nat
        /\ no = ls + la + lo /\ nm = ls + la + lx /\ ng = nm + lm /\ nz = ng + lg + 3
    <3>1. PlacesOf(c, e)
      BY PlacesKnown
    <3> QED BY <3>1 DEF PlacesOf
  <2> HIDE DEF ls, la, lx, lo, lm, lg, no, nm, ng, nz
  <2>2. no > ls + 12 /\ nm > ls + 12 /\ ng = nm + lm /\ nm \in Nat /\ lm \in Nat /\ nz > ls + 12
        /\ ng \in Nat /\ nz \in Nat /\ no \in Nat
    BY <1>1, <2>1
  <2> QED BY <2>2 DEF no, nm, ng, lm, nz
<1>4. CASE n = ls + 4 /\ F = DestroyReceiveQueue
  <2>1. m > ls + 4
    BY <1>1, <1>4
  <2>2. r = The("srq") /\ Uses(r) = {The("pd")}
    BY <1>4, ReceiveQueueDestructor, UsesKnown
  <2> QED BY <1>2, <2>1, <2>2, NetworkAcquired DEF Has
<1>5. CASE n = ls + 8 /\ F = DestroyNetwork
  <2> DEFINE s == The("srq")
             x == PairResource(0, 1)
             y == PairResource(0, 2)
             z == PairResource(0, 3)
             p == The("pd")
             d == The("context")
             v == The("devices")
             Got(u) == AcquiredBefore(c, e, m, u)
  <2>1. m > ls + 4 /\ m > ls + 7
    BY <1>1, <1>5
  <2>2. Got(s) /\ Got(x) /\ Got(y) /\ Got(z) /\ Got(p) /\ Got(d) /\ Got(v)
    BY <1>2, <2>1, NetworkAcquired
  <2>3. Uses(s) = {p} /\ Uses(y) = {x} /\ Uses(z) = {x} /\ Uses(x) = {d} /\ Uses(p) = {d} /\ Uses(d) = {} /\ Uses(v) = {}
    BY UsesKnown
  <2>4. F[1] = s /\ F[2] = y /\ F[3] = z /\ F[4] = x /\ F[5] = p /\ F[6] = d /\ F[7] = v
    BY <1>5, NetworkDestructor
  <2>5. PICK i \in 1 .. 7 : r = F[i]
    BY <1>5, NetworkDestructor DEF Elements, Destructor
  <2>6. i = 1 \/ i = 2 \/ i = 3 \/ i = 4 \/ i = 5 \/ i = 6 \/ i = 7
    OBVIOUS
  <2> HIDE DEF s, x, y, z, p, d, v, Got
  <2>7. r = s \/ r = y \/ r = z \/ r = x \/ r = p \/ r = d \/ r = v
    BY <2>4, <2>5, <2>6
  <2>8. Got(r) /\ \A u \in Uses(r) : Got(u)
    BY <2>2, <2>3, <2>7
  <2> QED BY <2>8 DEF Has, Got
<1>6. CASE n = ls + 12 /\ F = DestroyCompletionQueuePair(1)
  <2> DEFINE x == PairResource(1, 1)
             y == PairResource(1, 2)
             z == PairResource(1, 3)
             d == The("context")
             Got(u) == AcquiredBefore(c, e, m, u)
  <2>1. m > ls + 4 /\ m > ls + 11
    BY <1>1, <1>6
  <2>2. Got(x) /\ Got(y) /\ Got(z) /\ Got(d)
    BY <1>2, <2>1, NetworkAcquired
  <2>3. Uses(y) = {x} /\ Uses(z) = {x} /\ Uses(x) = {d}
    BY UsesKnown
  <2>4. F[1] = y /\ F[2] = z /\ F[3] = x
    BY <1>6, PairDestructor
  <2>5. PICK i \in 1 .. 3 : r = F[i]
    BY <1>6, PairDestructor DEF Elements, Destructor
  <2>6. i = 1 \/ i = 2 \/ i = 3
    OBVIOUS
  <2> HIDE DEF x, y, z, d, Got
  <2>7. Got(r) /\ \A u \in Uses(r) : Got(u)
    BY <2>2, <2>3, <2>4, <2>5, <2>6
  <2> QED BY <2>7 DEF Has, Got
<1>7. CASE n = OwnerAt(c, e) /\ F = DestroyQueuePairs(c)
  <2>1. m > ls + 4 /\ m > ls + 11
    BY <1>1, <1>3, <1>7
  <2>2. /\ AcquiredBefore(c, e, m, The("pd")) /\ AcquiredBefore(c, e, m, The("srq"))
        /\ AcquiredBefore(c, e, m, PairResource(1, 2)) /\ AcquiredBefore(c, e, m, PairResource(1, 3))
    BY <1>2, <2>1, NetworkAcquired
  <2>3. CASE \E i \in 1 .. QueuePairsOf(c) : r = QueuePair(i)
    <3>1. PICK i \in 1 .. QueuePairsOf(c) : r = QueuePair(i)
      BY <2>3
    <3>2. m > ExchangeAt(c, e) + (7 * (i - 1) + 1)
      <4> DEFINE q == QueuePairsOf(c)
                 lo == OwnerStep(c)
                 ne == ExchangeAt(c, e)
      <4>1. n = ne + lo /\ ne \in Nat /\ q \in Nat /\ i \in 1 .. q
        BY <1>7, PartStarts, ExchangeSteps DEF OwnerAt
      <4>2. lo = 7 * q \/ (lo = 1 /\ q = 1)
        BY DEF OwnerStep, QueuePairsOf
      <4> HIDE DEF q, lo, ne
      <4>3. n + 1 > ne + (7 * (i - 1) + 1)
        BY <4>1, <4>2
      <4> QED BY <4>3 DEF ne
    <3>3. AcquiredBefore(c, e, m, QueuePair(i))
      BY <1>2, <3>2, AcquiredBy
    <3>4. Uses(r) = {The("pd"), The("srq"), PairResource(1, 2), PairResource(1, 3)}
      BY <3>1, UsesKnown
    <3> QED BY <2>2, <3>1, <3>3, <3>4 DEF Has
  <2>4. CASE c = "ECBuffer" /\ r = The("queuePairs")
    <3>1. m > ls + 13
      <4>1. OwnerAt(c, e) > ls + 13
        <5> DEFINE lo == OwnerStep(c)
                   ne == ExchangeAt(c, e)
        <5>1. ne = ls + 13 /\ lo \in Nat /\ lo > 0 /\ OwnerAt(c, e) = ne + lo
          BY <2>4, PlacesKnown DEF PlacesOf, OwnerAt
        <5> HIDE DEF lo, ne, ls
        <5> QED BY <1>1, <5>1
      <4> QED BY <1>1, <1>3, <1>7, <4>1
    <3>2. AcquiredBefore(c, e, m, The("queuePairs"))
      BY <1>2, <2>4, <3>1, AcquiredBy
    <3> QED BY <2>4, <3>2, UsesKnown DEF Has
  <2> QED BY <1>7, <2>3, <2>4, QueuePairsDestructor
<1>8. ASSUME NEW j \in 1 .. LenMemory(c), n = MemoryAt(c, e) + j, F = <<The(Memory(c)[j])>>
      PROVE  Has(c, e, m, r)
  <2>1. r = The(Memory(c)[j]) /\ Uses(r) = {}
    BY <1>8, MemberDestructor
  <2>2. m > MemoryAt(c, e) + j
    BY <1>0, <1>8
  <2>3. AcquiredBefore(c, e, m, r)
    BY <1>2, <2>1, <2>2, AcquiredBy
  <2> QED BY <2>1, <2>3 DEF Has
<1>9. ASSUME NEW j \in 1 .. LenRegions(c), n = RegionsAt(c, e) + j, F = <<The(Regions(c)[j])>>
      PROVE  Has(c, e, m, r)
  <2>1. r = The(Regions(c)[j])
    BY <1>9, MemberDestructor
  <2>2. m > RegionsAt(c, e) + j
    BY <1>0, <1>9
  <2>3. AcquiredBefore(c, e, m, r)
    BY <1>2, <2>1, <2>2, AcquiredBy
  <2>4. ASSUME NEW u \in Uses(r) PROVE AcquiredBefore(c, e, m, u)
    <3>1. u = The("pd") \/ \E i \in 1 .. LenMemory(c) : u = The(Memory(c)[i])
      BY <2>1, <2>4, RegionUses
    <3>2. CASE u = The("pd")
      <4>1. m > ls + 4
        BY <1>0, <1>1, <1>3, <1>9
      <4> QED BY <1>2, <3>2, <4>1, NetworkAcquired
    <3>3. CASE \E i \in 1 .. LenMemory(c) : u = The(Memory(c)[i])
      <4>1. PICK i \in 1 .. LenMemory(c) : u = The(Memory(c)[i])
        BY <3>3
      <4>2. m > MemoryAt(c, e) + i
        <5> DEFINE lm == LenMemory(c)
                   lg == LenRegions(c)
                   nm == MemoryAt(c, e)
                   ng == RegionsAt(c, e)
        <5>1. ng = nm + lm /\ nm \in Nat /\ lm \in Nat /\ i \in 1 .. lm /\ n = ng + j /\ j \in 1 .. lg /\ lg \in Nat
          BY <1>3, <1>9, LengthsNatural
        <5> HIDE DEF lm, lg, nm, ng
        <5>2. n + 1 > nm + i
          BY <5>1
        <5> QED BY <5>2 DEF nm
      <4> QED BY <1>2, <4>1, <4>2, AcquiredBy
    <3> QED BY <3>1, <3>2, <3>3
  <2> QED BY <2>3, <2>4 DEF Has
<1>10. CASE c = "ECBuffer" /\ n = CalcAt(c, e) + 7 /\ F = DestroyECCalc
  <2>1. m > ls + 4
    BY <1>1, <1>3, <1>10
  <2>2. AcquiredBefore(c, e, m, The("pd"))
    BY <1>2, <2>1, NetworkAcquired
  <2>3. \A j \in 1 .. 6 : AcquiredBefore(c, e, m, The(CalcNames[j]))
    <3>1. \A j \in 1 .. 6 : m > CalcAt(c, e) + 1 + j
      BY <1>3, <1>10
    <3> QED BY <1>2, <1>10, <3>1, AcquiredBy
  <2>4. \A name \in CalcName : \E j \in 1 .. 6 : name = CalcNames[j]
    BY DEF CalcName, CalcNames
  <2>5. \A name \in CalcName : AcquiredBefore(c, e, m, The(name))
    BY <2>3, <2>4, Zenon
  <2>6. PICK name \in CalcName : r = The(name)
    BY <1>10, CalcDestructor
  <2>7. CASE name = "calc"
    <3>1. "en_mat" \in CalcName
      BY DEF CalcName
    <3>2. Uses(r) = {The("pd"), The("en_mat")}
      BY <2>6, <2>7, UsesKnown
    <3> QED BY <2>2, <2>5, <2>6, <3>1, <3>2 DEF Has
  <2>8. CASE name # "calc"
    <3>1. Uses(r) = {}
      BY <2>6, <2>8, UsesKnown
    <3> QED BY <2>5, <2>6, <3>1 DEF Has
  <2> QED BY <2>7, <2>8
<1>11. CASE \E j \in 1 .. LenMemory(c) : n = MemoryAt(c, e) + j /\ F = <<The(Memory(c)[j])>>
  BY <1>8, <1>11
<1>12. CASE \E j \in 1 .. LenRegions(c) : n = RegionsAt(c, e) + j /\ F = <<The(Regions(c)[j])>>
  BY <1>9, <1>12
<1> QED BY <1>4, <1>5, <1>6, <1>7, <1>10, <1>11, <1>12, Zenon DEF FreesAt

-----------------------------------------------------------------------------
(* What an object owns is there when its part is complete. *)
LEMMA OwnedLate ==
  ASSUME NEW c \in Class, NEW e \in Endpoint, NEW n \in Nat, NEW r, OwnedBefore(c, e, n, r)
  PROVE  /\ Rank(r) = 1 /\ r # The("srq") => n > LenSocket(e) + 8
         /\ Rank(r) = 2 => n > LenSocket(e) + 12
<1>1. PICK k, G : FreesAt(c, e, k, G) /\ k < n /\ r \in Elements(G)
  BY DEF OwnedBefore
<1>2. k \in Nat /\ LenSocket(e) \in Nat
  BY <1>1, FreedParts, PlacesKnown DEF PlacesOf
<1>3. PICK l \in 1 .. 6 : InPart(c, e, k, l) /\ OfPart(G, l)
  BY <1>1, FreedParts
<1>4. Rank(r) = l
  BY <1>1, <1>3 DEF OfPart
<1>5. ASSUME Rank(r) = 1, r # The("srq") PROVE n > LenSocket(e) + 8
  <2>1. \/ k = LenSocket(e) + 4 /\ G = DestroyReceiveQueue
        \/ k = LenSocket(e) + 8 /\ G = DestroyNetwork
    BY <1>1, <1>3, <1>4, <1>5, PartsNamed
  <2>2. G # DestroyReceiveQueue
    BY <1>1, <1>5, ReceiveQueueDestructor
  <2> QED BY <1>1, <1>2, <2>1, <2>2
<1>6. ASSUME Rank(r) = 2 PROVE n > LenSocket(e) + 12
  <2>1. k = LenSocket(e) + 12
    BY <1>3, <1>4, <1>6 DEF InPart
  <2> QED BY <1>1, <1>2, <2>1
<1> QED BY <1>5, <1>6

LEMMA OwnedOnceFreed ==
  ASSUME NEW c, NEW e, NEW n, NEW i, NEW F, FreesAt(c, e, i, F), i < n, NEW r \in Elements(F)
  PROVE  OwnedBefore(c, e, n, r)
BY Zenon DEF OwnedBefore

(* A resource without an owner that keeps one with an owner from being     *)
(* freed is a queue pair of an ECBuffer, while the next are connected. *)
HalfConnected(c, e, n) ==
    c = "ECBuffer" /\ n <= Len(Plan[c][e]) /\ \E j \in Index : Plan[c][e][n].res = QueuePair(j)

LEMMA Connecting ==
  ASSUME NEW c \in Class, NEW e \in Endpoint, NEW n \in Nat, n > ExchangeAt(c, e), n <= MemoryAt(c, e)
  PROVE  n <= Len(Plan[c][e]) /\ \E j \in 1 .. QueuePairsOf(c) : Plan[c][e][n].res = QueuePair(j)
<1> DEFINE q == QueuePairsOf(c)
           d == 7 * q
           s == QueuePairSteps(c)
           ne == ExchangeAt(c, e)
           nm == MemoryAt(c, e)
           p == Plan[c][e]
           t == n - ne
<1>1. ne \in Nat /\ nm = ne + d /\ d \in Nat /\ nm <= Len(p) /\ Len(p) \in Nat /\ q \in Nat
  <2> DEFINE lm == LenMemory(c)
             lg == LenRegions(c)
             lz == LenCalc(c)
             ng == RegionsAt(c, e)
             nt == RmrAt(c, e)
             nz == CalcAt(c, e)
  <2>1. nm = ne + d /\ d \in Nat /\ lm \in Nat /\ lg \in Nat /\ lz \in {0, 7} /\ ng = nm + lm /\ nt = ng + lg
        /\ nz = nt + 3 /\ Len(p) = nz + lz
    BY PlacesKnown DEF PlacesOf
  <2>2. ne \in Nat /\ nm \in Nat
    BY PartStarts
  <2>3. q \in Nat
    BY ExchangeSteps
  <2> HIDE DEF lm, lg, lz, ng, nt, nz, ne, nm, d, q, p
  <2> QED BY <2>1, <2>2, <2>3
<1>2. \A j \in 1 .. d : p[ne + j] = s[j]
  BY PlanSections DEF Sections
<1>3. \A j \in 1 .. d : ((j - 1) \div 7) + 1 \in 1 .. q
  <2> HIDE DEF q
  <2> QED BY <1>1
<1>4. \A j \in 1 .. d : s[j].res = QueuePair(((j - 1) \div 7) + 1)
  <2> SUFFICES ASSUME NEW j \in 1 .. d PROVE s[j].res = QueuePair(((j - 1) \div 7) + 1)
    OBVIOUS
  <2> DEFINE i == ((j - 1) \div 7) + 1
             call == ExchangeCalls[((j - 1) % 7) + 1]
  <2>1. s[j] = QueuePairStep(c, i, call)
    BY DEF QueuePairSteps
  <2> HIDE DEF i, call, s
  <2>2. s[j].res = QueuePair(i)
    BY <2>1 DEF QueuePairStep, Completing, Call
  <2> QED BY <2>2 DEF i
<1>5. n <= nm
  OBVIOUS
<1> HIDE DEF s, ne, nm, p, q, d
<1>6. t \in 1 .. d /\ n = ne + t /\ n <= Len(p)
  <2>1. n > ne
    BY DEF ne
  <2> QED BY <1>1, <1>5, <2>1
<1> HIDE DEF t
<1>7. p[n].res = QueuePair(((t - 1) \div 7) + 1)
  BY <1>2, <1>4, <1>6
<1>8. \E j \in 1 .. q : p[n].res = QueuePair(j)
  BY <1>3, <1>6, <1>7, Zenon
<1> QED BY <1>6, <1>8 DEF p, q

LEMMA Orphans ==
  ASSUME NEW c \in Class, NEW e \in Endpoint, NEW n \in Nat, NEW r, NEW u,
         OwnedBefore(c, e, n, r), AcquiredBefore(c, e, n, u), ~OwnedBefore(c, e, n, u), Refuses(r, {u})
  PROVE  HalfConnected(c, e, n) /\ \E i \in Index : u = QueuePair(i)
<1> DEFINE ls == LenSocket(e)
<1>1. PICK m : AcquiresAt(c, e, m, u) /\ m < n
  BY DEF AcquiredBefore
<1>2. r \in Uses(u) /\ r # The("context")
  <2>1. r \in Uses(u) /\ r[1] \in {"pd", "channel", "sendQueue", "receiveQueue", "srq"}
    BY DEF Refuses
  <2>2. The("context")[1] = "context"
    BY DEF The
  <2> QED BY <2>1, <2>2
<1>3. ls \in Nat
  BY PlacesKnown DEF PlacesOf
<1>4. ASSUME NEW j \in 1 .. 4, u = NetworkResource(j) PROVE FALSE
  <2>1. j = 1 \/ j = 2 \/ j = 3 \/ j = 4
    OBVIOUS
  <2>2. u = The("srq") /\ r = The("pd")
    BY <1>2, <1>4, <2>1, NetworkResources, UsesKnown
  <2>3. r # The("srq") /\ Rank(r) = 1
    BY <2>2, NamedRanks DEF The
  <2>4. ls + 8 < n
    BY <1>3, <2>3, OwnedLate
  <2>5. u \in Elements(DestroyNetwork)
    BY <2>2, NetworkDestructor DEF Destructor, Elements
  <2>6. FreesAt(c, e, ls + 8, DestroyNetwork)
    BY Zenon DEF FreesAt
  <2> HIDE DEF ls
  <2> QED BY <2>4, <2>5, <2>6, OwnedOnceFreed
<1>5. ASSUME NEW i \in {0, 1}, NEW j \in 1 .. 3, u = PairResource(i, j) PROVE FALSE
  <2>1. j = 1 \/ j = 2 \/ j = 3
    OBVIOUS
  <2>2. j # 1
    BY <1>2, <1>5, UsesKnown
  <2>3. Uses(u) = {PairResource(i, 1)}
    BY <1>5, <2>1, <2>2, UsesKnown
  <2>4. r = PairResource(i, 1)
    BY <1>2, <2>3
  <2>5. CASE i = 0
    <3>1. Rank(r) = 1 /\ r # The("srq")
      BY <2>4, <2>5, NamedRanks DEF PairResource, The
    <3>2. ls + 8 < n
      BY <1>3, <3>1, OwnedLate
    <3>3. u \in Elements(DestroyNetwork)
      BY <1>5, <2>1, <2>2, <2>5, NetworkDestructor DEF Destructor, Elements
    <3>4. FreesAt(c, e, ls + 8, DestroyNetwork)
      BY Zenon DEF FreesAt
    <3> HIDE DEF ls
    <3> QED BY <3>2, <3>3, <3>4, OwnedOnceFreed
  <2>6. CASE i = 1
    <3>1. Rank(r) = 2
      BY <2>4, <2>6, NamedRanks
    <3>2. ls + 12 < n
      BY <1>3, <3>1, OwnedLate
    <3>3. u \in Elements(DestroyCompletionQueuePair(1))
      BY <1>5, <2>1, <2>2, <2>6, PairDestructor DEF Destructor, Elements
    <3>4. FreesAt(c, e, ls + 12, DestroyCompletionQueuePair(1))
      BY Zenon DEF FreesAt
    <3> HIDE DEF ls
    <3> QED BY <3>2, <3>3, <3>4, OwnedOnceFreed
  <2> QED BY <2>5, <2>6
<1>6. CASE u = The("queuePairs")
  BY <1>2, <1>6, UsesKnown
<1>7. ASSUME NEW i \in 1 .. QueuePairsOf(c), m = ExchangeAt(c, e) + (7 * (i - 1) + 1), u = QueuePair(i)
      PROVE  HalfConnected(c, e, n) /\ \E j \in Index : u = QueuePair(j)
  <2> DEFINE q == QueuePairsOf(c)
             lo == OwnerStep(c)
             ne == ExchangeAt(c, e)
             no == OwnerAt(c, e)
             nm == MemoryAt(c, e)
  <2>1. q \in Nat /\ ne \in Nat /\ no = ne + lo /\ nm = ne + 7 * q /\ m = ne + (7 * (i - 1) + 1) /\ i \in 1 .. q
    BY <1>7, PartStarts, ExchangeSteps DEF OwnerAt, MemoryAt
  <2>2. \/ c = "ECBuffer" /\ lo = 7 * q
        \/ c # "ECBuffer" /\ lo = 1 /\ q = 1
    BY DEF OwnerStep, QueuePairsOf
  <2>3. u \in Elements(DestroyQueuePairs(c))
    BY <1>7, QueuePairsDestructor
  <2>4. FreesAt(c, e, no, DestroyQueuePairs(c))
    BY Zenon DEF FreesAt
  <2> HIDE DEF q, lo, ne, no, nm
  <2>5. ~(no < n)
    BY <2>3, <2>4, OwnedOnceFreed
  <2>6. m < n /\ lo \in Nat
    BY <1>1, <2>1, <2>2
  <2>7. c = "ECBuffer" /\ n > ne /\ n <= nm
    BY <2>1, <2>2, <2>5, <2>6
  <2>8. n <= Len(Plan[c][e]) /\ \E j \in 1 .. q : Plan[c][e][n].res = QueuePair(j)
    BY <2>7, Connecting DEF ne, nm, q
  <2>9. q = QueuePairs
    BY <2>7 DEF QueuePairsOf, q
  <2> QED BY <1>7, <2>7, <2>8, <2>9 DEF HalfConnected, Index, q
<1>8. ASSUME NEW j \in 1 .. LenMemory(c), u = The(Memory(c)[j]) PROVE FALSE
  BY <1>2, <1>8, MemberDestructor
<1>9. ASSUME NEW j \in 1 .. LenRegions(c), m = RegionsAt(c, e) + j, u = The(Regions(c)[j]) PROVE FALSE
  <2>1. FreesAt(c, e, m, <<u>>)
    BY <1>9, Zenon DEF FreesAt
  <2>2. u \in Elements(<<u>>)
    BY <1>9, MemberDestructor
  <2> QED BY <1>1, <2>1, <2>2, OwnedOnceFreed
<1>10. ASSUME c = "ECBuffer", NEW j \in 1 .. 6, m = CalcAt(c, e) + 1 + j, u = The(CalcNames[j]) PROVE FALSE
  <2>1. /\ CalcNames[1] = "comp" /\ CalcNames[2] = "arrays" /\ CalcNames[3] = "sges"
        /\ CalcNames[4] = "en_mat" /\ CalcNames[5] = "encode_matrix" /\ CalcNames[6] = "calc"
    BY DEF CalcNames
  <2>2. j = 1 \/ j = 2 \/ j = 3 \/ j = 4 \/ j = 5 \/ j = 6
    OBVIOUS
  <2>3. CASE j # 6
    <3>1. Uses(u) = {}
      BY <1>10, <2>1, <2>2, <2>3, UsesKnown DEF CalcName
    <3> QED BY <1>2, <3>1
  <2>4. CASE j = 6
    <3>1. m = CalcAt(c, e) + 7
      BY <1>10, <2>4, PartStarts
    <3>2. FreesAt(c, e, m, DestroyECCalc)
      BY <1>10, <3>1, Zenon DEF FreesAt
    <3>3. u \in Elements(DestroyECCalc)
      BY <1>10, <2>1, <2>4, CalcDestructor DEF CalcName
    <3> QED BY <1>1, <3>2, <3>3, OwnedOnceFreed
  <2> QED BY <2>3, <2>4
<1> QED BY <1>1, <1>4, <1>5, <1>6, <1>7, <1>8, <1>9, <1>10, Zenon DEF AcquiresAt

-----------------------------------------------------------------------------
(* A step of a plan, in terms of what has been acquired and is owned *)
StepHolds(F, O, A, X) ==
    /\ Destructor(F)
    /\ \A r \in Elements(F) : r \in A \union X /\ Uses(r) \subseteq A \union X
    /\ \/ O \subseteq Elements(F)
       \/ \A r \in O : r \notin Elements(F) /\ \A u \in Uses(r) : u \notin Elements(F)

AcquiredIn(step) == IF step.call = "acquire" THEN {step.res} ELSE {}

LEMMA PlanSteps ==
  ASSUME NEW c \in Class, NEW e \in Endpoint
  PROVE  /\ Len(Plan[c][e]) \in Nat /\ Steps(c, e) = 1 .. Len(Plan[c][e]) + 1
         /\ Owned[c][e][1] = {} /\ Acquired[c][e][1] = {}
         /\ \A n \in 1 .. Len(Plan[c][e]) :
               /\ Owned[c][e][n + 1] = Owned[c][e][n] \union Elements(Plan[c][e][n].frees)
               /\ Acquired[c][e][n + 1] = Acquired[c][e][n] \union AcquiredIn(Plan[c][e][n])
<1> DEFINE p == Plan[c][e]
           l == Len(p)
           Own1(n) == UNION {Elements(p[i].frees) : i \in 1 .. n - 1}
           Acq(n) == {p[i].res : i \in {j \in 1 .. n - 1 : p[j].call = "acquire"}}
<1>1. l \in Nat
  BY PlanShape DEF Shape
<1>2. Steps(c, e) = 1 .. l + 1
  BY DEF Steps
<1>3. \A n \in 1 .. l + 1 : Owned[c][e][n] = Own1(n) /\ Acquired[c][e][n] = Acq(n)
  BY <1>2 DEF Owned, Acquired
<1> HIDE DEF p, l
<1>4. Own1(1) = {} /\ Acq(1) = {}
  OBVIOUS
<1>5. ASSUME NEW n \in 1 .. l
      PROVE  /\ Own1(n + 1) = Own1(n) \union Elements(p[n].frees)
             /\ Acq(n + 1) = Acq(n) \union AcquiredIn(p[n])
  <2>1. (n + 1) - 1 = n /\ 1 .. n = (1 .. n - 1) \union {n} /\ n \in Nat
    BY <1>1
  <2>2. Own1(n + 1) = Own1(n) \union Elements(p[n].frees)
    <3>1. Own1(n + 1) = UNION {Elements(p[i].frees) : i \in (1 .. n - 1) \union {n}}
      BY <2>1
    <3> QED BY <3>1
  <2>3. Acq(n + 1) = Acq(n) \union AcquiredIn(p[n])
    <3>1. Acq(n + 1) = {p[i].res : i \in {j \in (1 .. n - 1) \union {n} : p[j].call = "acquire"}}
      BY <2>1
    <3> DEFINE D == 1 .. n - 1
    <3>2. Acq(n) = {p[i].res : i \in {j \in D : p[j].call = "acquire"}}
      OBVIOUS
    <3> HIDE DEF D, Acq
    <3>3. Acq(n + 1) = {p[i].res : i \in {j \in D \union {n} : p[j].call = "acquire"}}
      BY <3>1 DEF D
    <3>4. CASE p[n].call = "acquire"
      BY <3>2, <3>3, <3>4 DEF AcquiredIn
    <3>5. CASE p[n].call # "acquire"
      <4>1. {j \in D \union {n} : p[j].call = "acquire"} = {j \in D : p[j].call = "acquire"}
        BY <3>5
      <4> QED BY <3>2, <3>3, <3>5, <4>1 DEF AcquiredIn
    <3> QED BY <3>4, <3>5
  <2> QED BY <2>2, <2>3
<1>6. \A n \in 1 .. l : n \in 1 .. l + 1 /\ n + 1 \in 1 .. l + 1 /\ 1 \in 1 .. l + 1
  BY <1>1
<1>7. 1 \in 1 .. l + 1
  BY <1>1
<1> HIDE DEF Own1, Acq
<1>8. \A n \in 1 .. l :
         /\ Owned[c][e][n + 1] = Owned[c][e][n] \union Elements(p[n].frees)
         /\ Acquired[c][e][n + 1] = Acquired[c][e][n] \union AcquiredIn(p[n])
  BY <1>3, <1>5, <1>6
<1> QED BY <1>1, <1>2, <1>3, <1>4, <1>7, <1>8 DEF p, l

LEMMA NothingFreed == Destructor(<<>>) /\ Elements(<<>>) = {}
<1>1. Listed(<<>>) /\ Len(<<>>) = 0
  BY ListedFacts
<1>2. Len(<<>>) \in Nat /\ DOMAIN <<>> = 1 .. 0
  BY <1>1, ListedDomain
<1>3. Elements(<<>>) = {}
  BY <1>2 DEF Elements
<1>4. Distinct(<<>>) /\ Descends(<<>>)
  BY <1>1 DEF Distinct, Descends
<1> QED BY <1>1, <1>2, <1>3, <1>4 DEF Destructor

LEMMA StepsHold ==
  ASSUME NEW c \in Class, NEW e \in Endpoint, NEW n \in 1 .. Len(Plan[c][e])
  PROVE  StepHolds(Plan[c][e][n].frees, Owned[c][e][n], Acquired[c][e][n], AcquiredIn(Plan[c][e][n]))
<1> DEFINE F == Plan[c][e][n].frees
           O == Owned[c][e][n]
           A == Acquired[c][e][n]
           X == AcquiredIn(Plan[c][e][n])
           A1 == Acquired[c][e][n + 1]
<1>1. n \in Steps(c, e) /\ n + 1 \in Steps(c, e) /\ n \in Nat
  <2> DEFINE l == Len(Plan[c][e])
  <2>1. l \in Nat /\ Steps(c, e) = 1 .. l + 1 /\ n \in 1 .. l
    BY PlanSteps
  <2> HIDE DEF l
  <2> QED BY <2>1
<1>2. A1 = A \union X
  BY PlanSteps
<1>3. \A r : r \in O <=> OwnedBefore(c, e, n, r)
  BY <1>1, HeldBefore
<1>4. \A r : r \in A1 <=> AcquiredBefore(c, e, n + 1, r)
  BY <1>1, HeldBefore
<1>5. F = <<>> \/ FreesAt(c, e, n, F)
  BY StepsTold DEF StepTold
<1> HIDE DEF F, O, A, X, A1
<1>6. ASSUME F = <<>> PROVE StepHolds(F, O, A, X)
  <2>1. Destructor(F) /\ \A r : r \notin Elements(F)
    BY <1>6, NothingFreed
  <2>2. \A r \in Elements(F) : r \in A \union X /\ Uses(r) \subseteq A \union X
    BY <2>1
  <2>3. \A r \in O : r \notin Elements(F) /\ \A u \in Uses(r) : u \notin Elements(F)
    BY <2>1
  <2> QED BY <2>1, <2>2, <2>3, Zenon DEF StepHolds
<1>7. ASSUME FreesAt(c, e, n, F) PROVE StepHolds(F, O, A, X)
  <2>1. Destructor(F)
    BY <1>7, FreedParts
  <2>2. \A r \in Elements(F) : r \in A1 /\ Uses(r) \subseteq A1
    <3> SUFFICES ASSUME NEW r \in Elements(F) PROVE r \in A1 /\ Uses(r) \subseteq A1
      OBVIOUS
    <3>1. Has(c, e, n + 1, r)
      BY <1>7, Supplied
    <3> QED BY <1>4, <3>1 DEF Has
  <2>5. \A r \in Elements(F) : r \in A \union X /\ Uses(r) \subseteq A \union X
    BY <1>2, <2>2
  <2>3. CASE \A i, G : FreesAt(c, e, i, G) /\ i < n => Elements(G) \subseteq Elements(F)
    <3>1. O \subseteq Elements(F)
      <4> SUFFICES ASSUME NEW r \in O PROVE r \in Elements(F)
        OBVIOUS
      <4>1. PICK i, G : FreesAt(c, e, i, G) /\ i < n /\ r \in Elements(G)
        BY <1>3 DEF OwnedBefore
      <4>2. Elements(G) \subseteq Elements(F)
        BY <2>3, <4>1, Zenon
      <4> QED BY <4>1, <4>2
    <3> QED BY <2>1, <2>5, <3>1, Zenon DEF StepHolds
  <2>4. CASE \A i, G : FreesAt(c, e, i, G) /\ i < n => Untouched(G, F)
    <3>1. \A r \in O : r \notin Elements(F) /\ \A u \in Uses(r) : u \notin Elements(F)
      <4> SUFFICES ASSUME NEW r \in O PROVE r \notin Elements(F) /\ \A u \in Uses(r) : u \notin Elements(F)
        OBVIOUS
      <4>1. PICK i, G : FreesAt(c, e, i, G) /\ i < n /\ r \in Elements(G)
        BY <1>3 DEF OwnedBefore
      <4>2. Untouched(G, F)
        BY <2>4, <4>1, Zenon
      <4> QED BY <4>1, <4>2 DEF Untouched
    <3> QED BY <2>1, <2>5, <3>1, Zenon DEF StepHolds
  <2> QED BY <1>7, <2>3, <2>4, OwnersApart
<1> QED BY <1>5, <1>6, <1>7 DEF F, O, A, X

LEMMA OwnedAcquired ==
  ASSUME NEW c \in Class, NEW e \in Endpoint, NEW n \in Steps(c, e)
  PROVE  Owned[c][e][n] \subseteq Acquired[c][e][n]
<1> SUFFICES ASSUME NEW r, OwnedBefore(c, e, n, r) PROVE AcquiredBefore(c, e, n, r)
  BY HeldBefore
<1>1. PICK i, F : FreesAt(c, e, i, F) /\ i < n /\ r \in Elements(F)
  BY DEF OwnedBefore
<1>2. Has(c, e, i + 1, r)
  BY <1>1, Supplied
<1>3. i \in Nat /\ n \in Nat
  BY <1>1, FreedParts, HeldBefore
<1>4. PICK m : AcquiresAt(c, e, m, r) /\ m < i + 1
  BY <1>2 DEF Has, AcquiredBefore
<1>5. m \in Nat
  <2> DEFINE l == Len(Plan[c][e])
  <2>1. m \in 1 .. l /\ l \in Nat
    BY <1>4, NameOfStep, PlanSteps
  <2> HIDE DEF l
  <2> QED BY <2>1
<1>6. m < n
  BY <1>1, <1>3, <1>4, <1>5
<1> QED BY <1>4, <1>6, Zenon DEF AcquiredBefore

-----------------------------------------------------------------------------
(* What a completed object takes over: of the calls that destructors would *)
(* make, none are its members', or all are. *)
List(s) == Listed(s) /\ Len(s) \in Nat /\ DOMAIN s = 1 .. Len(s)

LEMMA TakeoverApart ==
  ASSUME NEW step, NEW s, List(s), Destructor(step.frees), \A i \in DOMAIN s : s[i] \notin Elements(step.frees)
  PROVE  LET t == Takeover(step, s)
             l == Len(step.frees)
         IN  /\ List(t) /\ Len(t) = l + Len(s)
             /\ \A j \in 1 .. l : t[j] = step.frees[j]
             /\ \A j \in 1 .. Len(s) : t[l + j] = s[j]
<1> DEFINE F == step.frees
           members == {i \in DOMAIN s : s[i] \in Elements(F)}
           a == Cardinality(members) + 1
           u == SubSeq(s, a, Len(s))
           t == F \o u
<1>1. Takeover(step, s) = t
  BY Zenon DEF Takeover, Older
<1>2. members = {}
  OBVIOUS
<1>3. a = 1
  <2> HIDE DEF members
  <2>1. Cardinality(members) = 0
    BY <1>2, FS_EmptySet
  <2> QED BY <2>1
<1>4. Listed(s) /\ Len(s) \in Nat /\ Listed(F) /\ Len(F) \in Nat
  BY DEF List, Destructor
<1> HIDE DEF members, a, F
<1>5. Listed(u) /\ Len(u) = Len(s) /\ \A j \in 1 .. Len(s) : u[j] = s[j]
  <2> DEFINE l == Len(s)
             v == SubSeq(s, 1, l)
  <2>1. l \in Nat /\ 1 >= 1 /\ l <= l /\ 1 <= l + 1 /\ 1 \in Nat
    BY <1>4
  <2>2. Listed(v) /\ Len(v) = l - 1 + 1 /\ \A j \in 1 .. Len(v) : v[j] = s[1 + j - 1]
    BY <1>4, <2>1, ListedPart
  <2>3. u = v
    BY <1>3
  <2> HIDE DEF l, v, u
  <2>4. Listed(u) /\ Len(u) = l /\ \A j \in 1 .. l : u[j] = s[j]
    BY <2>1, <2>2, <2>3
  <2> QED BY <2>4 DEF l
<1> HIDE DEF u
<1>6. Listed(t) /\ IsConcat(t, F, u)
  BY <1>4, <1>5, ListedConcat
<1> HIDE DEF t
<1>7. List(t)
  BY <1>6, ListedDomain DEF List
<1> QED BY <1>1, <1>5, <1>6, <1>7 DEF IsConcat, F

LEMMA TakeoverOf ==
  ASSUME NEW step, NEW s, List(s), Destructor(step.frees), \A i \in DOMAIN s : s[i] \in Elements(step.frees)
  PROVE  LET t == Takeover(step, s)
         IN  /\ List(t) /\ Len(t) = Len(step.frees)
             /\ \A j \in 1 .. Len(t) : t[j] = step.frees[j]
<1> DEFINE F == step.frees
           members == {i \in DOMAIN s : s[i] \in Elements(F)}
           l == Len(s)
           a == Cardinality(members) + 1
           u == SubSeq(s, a, l)
           t == F \o u
<1>1. Takeover(step, s) = t
  BY Zenon DEF Takeover, Older
<1>2. members = 1 .. l
  BY DEF List
<1>3. Listed(s) /\ l \in Nat /\ Listed(F) /\ Len(F) \in Nat
  BY DEF List, Destructor
<1> HIDE DEF members, F, l
<1>4. a = l + 1
  <2>1. Cardinality(1 .. l) = IF 1 > l THEN 0 ELSE l - 1 + 1
    <3>1. 1 \in Int /\ l \in Int
      BY <1>3
    <3> QED BY <3>1, FS_Interval
  <2>2. Cardinality(members) = l
    BY <1>2, <1>3, <2>1
  <2> QED BY <2>2
<1> HIDE DEF a
<1>5. Listed(u) /\ Len(u) = 0
  <2> DEFINE v == SubSeq(s, l + 1, l)
  <2>1. l + 1 \in Nat /\ l + 1 >= 1 /\ l <= Len(s) /\ l + 1 <= l + 1
    BY <1>3 DEF l
  <2>2. Listed(v) /\ Len(v) = l - (l + 1) + 1
    BY <1>3, <2>1, ListedPart
  <2>3. u = v
    BY <1>4
  <2> HIDE DEF u, v
  <2> QED BY <1>3, <2>2, <2>3
<1> HIDE DEF u
<1>6. Listed(t) /\ IsConcat(t, F, u)
  BY <1>3, <1>5, ListedConcat
<1> HIDE DEF t
<1>7. List(t)
  BY <1>6, ListedDomain DEF List
<1>8. Len(t) = Len(F) /\ \A j \in 1 .. Len(F) : t[j] = F[j]
  BY <1>5, <1>6 DEF IsConcat
<1> QED BY <1>1, <1>7, <1>8 DEF F

(* What an endpoint holds, in each phase: while it runs, everything it has *)
(* acquired, and its destructors would free what is owned; once they run,  *)
(* what is still in their list and what nobody owns.  What a resource in   *)
(* the list uses comes after it, or has no owner. *)
Holding(O, A, p, L, s) ==
    /\ O \subseteq A
    /\ List(s) /\ Distinct(s) /\ Elements(s) \subseteq O
    /\ \A i \in 1 .. Len(s) : \A u \in Uses(s[i]) : u \in A \ O \/ \E j \in 1 .. Len(s) : j > i /\ u = s[j]
    /\ p \in {"constructing", "ready"} => O \subseteq Elements(s)
    /\ p \in {"unwound", "closed"} => s = <<>>
    /\ IF p = "dead" THEN L = {} /\ s = <<>> ELSE L = (A \ O) \union Elements(s)

LEMMA HoldingStarts == Holding({}, {}, "constructing", {}, <<>>)
<1>1. List(<<>>) /\ Distinct(<<>>) /\ Elements(<<>>) = {} /\ Len(<<>>) = 0
  BY NothingFreed, ListedFacts DEF Destructor, List
<1> QED BY <1>1 DEF Holding

LEMMA HoldingProceeds ==
  \A O, A, L, s, step, X, p :
      /\ Holding(O, A, "constructing", L, s) /\ StepHolds(step.frees, O, A, X)
      /\ p \in {"constructing", "ready"}
      => Holding(O \union Elements(step.frees), A \union X, p, L \union X, Takeover(step, s))
<1> TAKE O, A, L, s, step, X, p
<1> HAVE /\ Holding(O, A, "constructing", L, s) /\ StepHolds(step.frees, O, A, X)
         /\ p \in {"constructing", "ready"}
<1> DEFINE F == step.frees
           E == Elements(F)
           O1 == O \union E
           A1 == A \union X
           t == Takeover(step, s)
           f == Len(F)
           l == Len(s)
<1>1. Destructor(F) /\ \A r \in E : r \in A1 /\ Uses(r) \subseteq A1
  BY DEF StepHolds
<1>2. O \subseteq E \/ \A r \in O : r \notin E /\ \A u \in Uses(r) : u \notin E
  BY Zenon DEF StepHolds
<1>3. /\ O \subseteq A /\ List(s) /\ Distinct(s) /\ Elements(s) = O /\ L = (A \ O) \union Elements(s)
      /\ \A i \in 1 .. l : \A u \in Uses(s[i]) : u \in A \ O \/ \E j \in 1 .. l : j > i /\ u = s[j]
  BY DEF Holding
<1>4. /\ l \in Nat /\ DOMAIN s = 1 .. l /\ f \in Nat /\ DOMAIN F = 1 .. f /\ Distinct(F) /\ Descends(F)
  BY <1>1, <1>3 DEF List, Destructor
<1>5. /\ \A i \in 1 .. l : s[i] \in O
      /\ \A r \in O : \E i \in 1 .. l : r = s[i]
      /\ \A i \in 1 .. f : F[i] \in E
      /\ \A r \in E : \E i \in 1 .. f : r = F[i]
  BY <1>3, <1>4 DEF Elements
<1>6. \A i \in 1 .. f : \A u \in Uses(F[i]) : u \notin E \/ \E j \in 1 .. f : j > i /\ u = F[j]
  BY <1>4 DEF Descends
<1>7. L \union X = A1 /\ O1 \subseteq A1
  BY <1>1, <1>3
<1>8. CASE O \subseteq E
  <2>1. \A i \in DOMAIN s : s[i] \in Elements(step.frees)
    BY <1>4, <1>5, <1>8
  <2>2. List(t) /\ Len(t) = f /\ \A j \in 1 .. Len(t) : t[j] = F[j]
    BY <1>1, <1>3, <2>1, TakeoverOf
  <2>3. O1 = E
    BY <1>8
  <2> HIDE DEF t, F, E, f, l, A1
  <2>4. Elements(t) = E
    BY <1>5, <2>2 DEF Elements, List
  <2>5. Distinct(t)
    BY <1>4, <2>2 DEF Distinct, f
  <2>6. \A i \in 1 .. Len(t) : \A u \in Uses(t[i]) : u \in A1 \ O1 \/ \E j \in 1 .. Len(t) : j > i /\ u = t[j]
    <3> SUFFICES ASSUME NEW i \in 1 .. f, NEW u \in Uses(F[i]), u \notin A1 \ O1
                 PROVE  \E j \in 1 .. f : j > i /\ u = t[j]
      BY <2>2
    <3>1. u \in E
      BY <1>1, <1>5, <2>3
    <3>2. PICK j \in 1 .. f : j > i /\ u = F[j]
      BY <1>6, <3>1
    <3> QED BY <2>2, <3>2
  <2>7. Holding(O1, A1, p, L \union X, t)
    BY <1>7, <2>2, <2>3, <2>4, <2>5, <2>6 DEF Holding
  <2> QED BY <2>7 DEF E, A1, t, F
<1>9. CASE \A r \in O : r \notin E /\ \A u \in Uses(r) : u \notin E
  <2>1. \A i \in DOMAIN s : s[i] \notin Elements(step.frees)
    BY <1>4, <1>5, <1>9
  <2>2. /\ List(t) /\ Len(t) = f + l
        /\ \A j \in 1 .. f : t[j] = F[j]
        /\ \A j \in 1 .. l : t[f + j] = s[j]
    BY <1>1, <1>3, <2>1, TakeoverApart
  <2> HIDE DEF t, F, E, f, l, A1, O1
  <2>3. \A i \in 1 .. Len(t) : i \in 1 .. f \/ (i - f \in 1 .. l /\ i = f + (i - f))
    BY <1>4, <2>2
  <2>4. \A i \in 1 .. f : i \in 1 .. Len(t)
    BY <1>4, <2>2
  <2>5. \A i \in 1 .. l : f + i \in 1 .. Len(t) /\ f + i > f
    BY <1>4, <2>2
  <2>6. DOMAIN t = 1 .. Len(t)
    BY <2>2 DEF List
  <2>7. Elements(t) = O1
    <3>1. ASSUME NEW r \in Elements(t) PROVE r \in O1
      <4>1. PICK i \in 1 .. Len(t) : r = t[i]
        BY <2>6, <3>1 DEF Elements
      <4>2. CASE i \in 1 .. f
        BY <1>5, <2>2, <4>1, <4>2 DEF O1
      <4>3. CASE i - f \in 1 .. l /\ i = f + (i - f)
        <5> DEFINE k == i - f
        <5>1. k \in 1 .. l /\ r = t[f + k]
          BY <4>1, <4>3
        <5> HIDE DEF k
        <5> QED BY <1>5, <2>2, <5>1 DEF O1
      <4> QED BY <2>3, <4>2, <4>3
    <3>2. ASSUME NEW r \in O1 PROVE r \in Elements(t)
      <4>1. \A i \in 1 .. Len(t) : t[i] \in Elements(t)
        BY <2>6 DEF Elements
      <4>2. CASE r \in E
        BY <1>5, <2>2, <2>4, <4>1, <4>2
      <4>3. CASE r \in O
        <5>1. PICK i \in 1 .. l : r = s[i]
          BY <1>5, <4>3
        <5>2. t[f + i] \in Elements(t) /\ t[f + i] = s[i]
          BY <2>2, <2>5, <4>1
        <5> QED BY <5>1, <5>2
      <4> QED BY <4>2, <4>3 DEF O1
    <3> QED BY <3>1, <3>2
  <2>8. Distinct(t)
    <3> SUFFICES ASSUME NEW i \in 1 .. Len(t), NEW j \in 1 .. Len(t), t[i] = t[j] PROVE i = j
      BY DEF Distinct
    <3> DEFINE a == i - f
               b == j - f
    <3>1. i \in 1 .. f \/ (a \in 1 .. l /\ i = f + a)
      BY <2>3
    <3>2. j \in 1 .. f \/ (b \in 1 .. l /\ j = f + b)
      BY <2>3
    <3> HIDE DEF a, b
    <3>3. i \in 1 .. f => t[i] \in E /\ t[i] = F[i]
      BY <1>5, <2>2
    <3>4. j \in 1 .. f => t[j] \in E /\ t[j] = F[j]
      BY <1>5, <2>2
    <3>5. a \in 1 .. l /\ i = f + a => t[i] \in O /\ t[i] = s[a]
      BY <1>5, <2>2
    <3>6. b \in 1 .. l /\ j = f + b => t[j] \in O /\ t[j] = s[b]
      BY <1>5, <2>2
    <3>7. CASE i \in 1 .. f /\ j \in 1 .. f
      BY <1>4, <3>3, <3>4, <3>7 DEF Distinct, f
    <3>8. CASE i \in 1 .. f /\ b \in 1 .. l /\ j = f + b
      BY <1>9, <3>3, <3>6, <3>8
    <3>9. CASE a \in 1 .. l /\ i = f + a /\ j \in 1 .. f
      BY <1>9, <3>4, <3>5, <3>9
    <3>10. CASE a \in 1 .. l /\ i = f + a /\ b \in 1 .. l /\ j = f + b
      <4>1. s[a] = s[b]
        BY <3>5, <3>6, <3>10
      <4>2. a = b
        BY <1>3, <3>10, <4>1 DEF Distinct, l
      <4> QED BY <3>10, <4>2
    <3> QED BY <3>1, <3>2, <3>7, <3>8, <3>9, <3>10
  <2>9. \A i \in 1 .. Len(t) : \A u \in Uses(t[i]) : u \in A1 \ O1 \/ \E j \in 1 .. Len(t) : j > i /\ u = t[j]
    <3> SUFFICES ASSUME NEW i \in 1 .. Len(t), NEW u \in Uses(t[i]), u \notin A1 \ O1
                 PROVE  \E j \in 1 .. Len(t) : j > i /\ u = t[j]
      OBVIOUS
    <3>1. CASE i \in 1 .. f
      <4>1. u \in Uses(F[i])
        BY <2>2, <3>1
      <4>2. u \in A1
        BY <1>1, <1>5, <3>1, <4>1
      <4>3. CASE u \in E
        <5>1. PICK j \in 1 .. f : j > i /\ u = F[j]
          BY <1>6, <3>1, <4>1, <4>3
        <5> QED BY <2>2, <2>4, <5>1
      <4>4. CASE u \in O
        <5>1. PICK j \in 1 .. l : u = s[j]
          BY <1>5, <4>4
        <5>2. f + j \in 1 .. Len(t) /\ f + j > i /\ t[f + j] = s[j]
          BY <1>4, <2>2, <2>5, <3>1
        <5> QED BY <5>1, <5>2
      <4> QED BY <4>2, <4>3, <4>4 DEF O1
    <3>2. CASE i - f \in 1 .. l /\ i = f + (i - f)
      <4> DEFINE k == i - f
      <4>1. k \in 1 .. l /\ i = f + k /\ t[i] = s[k]
        BY <2>2, <3>2
      <4> HIDE DEF k
      <4>2. u \in Uses(s[k]) /\ s[k] \in O
        BY <1>5, <4>1
      <4>3. u \notin E
        BY <1>9, <4>2
      <4>4. u \notin A \ O
        BY <4>3 DEF A1, O1
      <4>5. PICK j \in 1 .. l : j > k /\ u = s[j]
        BY <1>3, <4>1, <4>2, <4>4
      <4>6. f + j \in 1 .. Len(t) /\ f + j > i /\ t[f + j] = s[j]
        BY <1>4, <2>2, <2>5, <4>1, <4>5
      <4> QED BY <4>5, <4>6
    <3> QED BY <2>3, <3>1, <3>2
  <2>10. Holding(O1, A1, p, L \union X, t)
    <3>1. L \union X = (A1 \ O1) \union Elements(t)
      BY <1>7, <2>7
    <3> QED BY <1>7, <2>2, <2>7, <2>8, <2>9, <3>1 DEF Holding
  <2> QED BY <2>10 DEF E, A1, O1, t, F
<1> QED BY <1>2, <1>8, <1>9

LEMMA HoldingPhase ==
  ASSUME NEW O, NEW A, NEW L, NEW s, NEW p, Holding(O, A, p, L, s), p # "dead",
         NEW r, r \notin {"constructing", "ready", "dead"}, r \in {"unwound", "closed"} => s = <<>>
  PROVE  Holding(O, A, r, L, s)
BY DEF Holding

LEMMA HoldingDies ==
  ASSUME NEW O, NEW A, NEW L, NEW s, NEW p, Holding(O, A, p, L, s) PROVE Holding(O, A, "dead", {}, <<>>)
<1>1. List(<<>>) /\ Distinct(<<>>) /\ Elements(<<>>) = {} /\ Len(<<>>) = 0
  BY NothingFreed, ListedFacts DEF Destructor, List
<1> QED BY <1>1 DEF Holding

LEMMA Popped ==
  ASSUME NEW s, List(s), s # <<>>
  PROVE  /\ Len(s) > 0 /\ Head(s) = s[1]
         /\ List(Tail(s)) /\ Len(Tail(s)) = Len(s) - 1
         /\ \A j \in 1 .. Len(Tail(s)) : Tail(s)[j] = s[j + 1]
<1>1. PICK S : s \in Seq(S)
  BY DEF List, Listed
<1>2. /\ Head(s) = s[1] /\ Tail(s) \in Seq(S) /\ Len(Tail(s)) = Len(s) - 1
      /\ \A j \in 1 .. Len(Tail(s)) : Tail(s)[j] = s[j + 1]
  BY <1>1, HeadTailProperties
<1>3. Len(s) > 0
  BY <1>1, EmptySeq DEF List
<1>4. List(Tail(s))
  BY <1>2, LenProperties DEF List, Listed
<1> QED BY <1>2, <1>3, <1>4

LEMMA HoldingReleases ==
  ASSUME NEW O, NEW A, NEW L, NEW s, NEW p, p \in {"unwinding", "closing"}, Holding(O, A, p, L, s), s # <<>>
  PROVE  Holding(O, A, p, L \ {Head(s)}, Tail(s))
<1> DEFINE t == Tail(s)
           l == Len(s)
           m == Len(t)
           r == Head(s)
<1>1. /\ O \subseteq A /\ List(s) /\ Distinct(s) /\ Elements(s) \subseteq O /\ L = (A \ O) \union Elements(s)
      /\ \A i \in 1 .. l : \A u \in Uses(s[i]) : u \in A \ O \/ \E j \in 1 .. l : j > i /\ u = s[j]
  BY DEF Holding
<1>2. /\ l > 0 /\ r = s[1] /\ List(t) /\ m = l - 1
      /\ \A j \in 1 .. m : t[j] = s[j + 1]
  BY <1>1, Popped
<1>3. l \in Nat /\ DOMAIN s = 1 .. l /\ DOMAIN t = 1 .. m
  BY <1>1, <1>2 DEF List
<1>4. \A i, j \in 1 .. l : s[i] = s[j] => i = j
  BY <1>1 DEF Distinct
<1> HIDE DEF t, l, m, r
<1>5. /\ \A j \in 1 .. m : j + 1 \in 1 .. l /\ j + 1 # 1
      /\ \A j \in 1 .. l : j = 1 \/ (j - 1 \in 1 .. m /\ (j - 1) + 1 = j)
      /\ 1 \in 1 .. l
  BY <1>2, <1>3
<1>6. Elements(s) = {s[j] : j \in 1 .. l} /\ Elements(t) = {t[j] : j \in 1 .. m}
  BY <1>3 DEF Elements
<1>7. Elements(t) = Elements(s) \ {r}
  <2>1. ASSUME NEW x \in Elements(t) PROVE x \in Elements(s) /\ x # r
    <3>1. PICK j \in 1 .. m : x = t[j]
      BY <1>6
    <3>2. x = s[j + 1] /\ j + 1 \in 1 .. l /\ j + 1 # 1
      BY <1>2, <1>5, <3>1
    <3> QED BY <1>2, <1>4, <1>5, <1>6, <3>2
  <2>2. ASSUME NEW x \in Elements(s), x # r PROVE x \in Elements(t)
    <3>1. PICK j \in 1 .. l : x = s[j]
      BY <1>6
    <3>2. j - 1 \in 1 .. m /\ (j - 1) + 1 = j
      BY <1>2, <1>5, <2>2, <3>1
    <3>3. t[j - 1] = s[j]
      BY <1>2, <3>2
    <3> QED BY <1>6, <3>1, <3>2, <3>3
  <2> QED BY <2>1, <2>2
<1>8. \A i, j \in 1 .. m : t[i] = t[j] => i = j
  <2> SUFFICES ASSUME NEW i \in 1 .. m, NEW j \in 1 .. m, t[i] = t[j] PROVE i = j
    OBVIOUS
  <2>1. s[i + 1] = s[j + 1] /\ i + 1 \in 1 .. l /\ j + 1 \in 1 .. l
    BY <1>2, <1>5
  <2>2. i + 1 = j + 1
    BY <1>4, <2>1
  <2> QED BY <2>2
<1>9. \A i \in 1 .. m : \A u \in Uses(t[i]) : u \in A \ O \/ \E j \in 1 .. m : j > i /\ u = t[j]
  <2> SUFFICES ASSUME NEW i \in 1 .. m, NEW u \in Uses(t[i]), u \notin A \ O
               PROVE  \E j \in 1 .. m : j > i /\ u = t[j]
    OBVIOUS
  <2>1. i + 1 \in 1 .. l /\ u \in Uses(s[i + 1])
    BY <1>2, <1>5
  <2>2. PICK k \in 1 .. l : k > i + 1 /\ u = s[k]
    BY <1>1, <2>1 DEF l
  <2>3. k - 1 \in 1 .. m /\ (k - 1) + 1 = k /\ k - 1 > i
    BY <1>5, <2>2
  <2>4. t[k - 1] = s[k]
    BY <1>2, <2>3
  <2> QED BY <2>2, <2>3, <2>4
<1>10. r \in O /\ L \ {r} = (A \ O) \union Elements(t)
  <2>1. r \in Elements(s)
    BY <1>2, <1>5, <1>6
  <2> QED BY <1>1, <1>7, <2>1
<1>11. Distinct(t) /\ Elements(t) \subseteq O
  BY <1>1, <1>7, <1>8 DEF Distinct, m
<1>12. p \notin {"constructing", "ready", "unwound", "closed", "dead"}
  OBVIOUS
<1>13. Holding(O, A, p, L \ {r}, t)
  BY <1>1, <1>2, <1>9, <1>10, <1>11, <1>12 DEF Holding, m
<1> QED BY <1>13 DEF r, t

(* The driver refuses to destroy what is next only on account of something *)
(* nobody owns. *)
(* A resource of the list is still used, by one that nobody owns. *)
HeldUp(r, O, A, L) == r \in O /\ \E u \in (A \ O) : u \in L /\ Refuses(r, {u})

LEMMA HoldingRefuses ==
  \A O, A, L, s, p :
      p \in {"unwinding", "closing"} /\ Holding(O, A, p, L, s) /\ s # <<>> /\ Refuses(Head(s), L)
        => HeldUp(Head(s), O, A, L)
<1> TAKE O, A, L, s, p
<1> HAVE p \in {"unwinding", "closing"} /\ Holding(O, A, p, L, s) /\ s # <<>> /\ Refuses(Head(s), L)
<1> DEFINE l == Len(s)
           r == Head(s)
<1>1. /\ List(s) /\ Distinct(s) /\ Elements(s) \subseteq O /\ L = (A \ O) \union Elements(s)
      /\ \A i \in 1 .. l : \A u \in Uses(s[i]) : u \in A \ O \/ \E j \in 1 .. l : j > i /\ u = s[j]
  BY DEF Holding
<1>2. l > 0 /\ r = s[1] /\ l \in Nat /\ DOMAIN s = 1 .. l
  BY <1>1, Popped DEF List
<1>3. \A i, j \in 1 .. l : s[i] = s[j] => i = j
  BY <1>1 DEF Distinct
<1> HIDE DEF l
<1>4. 1 \in 1 .. l
  BY <1>2
<1>5. PICK u \in L : r \in Uses(u) /\ r[1] \in {"pd", "channel", "sendQueue", "receiveQueue", "srq"}
  BY DEF Refuses
<1> HIDE DEF r
<1>6. r \in O
  BY <1>1, <1>2, <1>4 DEF Elements
<1>7. u \notin Elements(s)
  <2> SUFFICES ASSUME u \in Elements(s) PROVE FALSE
    OBVIOUS
  <2>1. PICK i \in 1 .. l : u = s[i]
    BY <1>2 DEF Elements
  <2>2. PICK j \in 1 .. l : j > i /\ r = s[j]
    BY <1>1, <1>5, <1>6, <2>1 DEF l
  <2>3. j = 1
    BY <1>2, <1>3, <1>4, <2>2
  <2> QED BY <2>2, <2>3
<1>8. u \in A \ O /\ Refuses(r, {u})
  BY <1>1, <1>5, <1>7 DEF Refuses
<1> QED BY <1>5, <1>6, <1>8 DEF r, HeldUp

-----------------------------------------------------------------------------
(* What the endpoints hold *)
OwnedNow(e) == Owned[class][e][at[e]]
AcquiredNow(e) == Acquired[class][e][at[e]]

HoldOf(e) ==
    /\ at[e] \in Steps(class, e)
    /\ Holding(OwnedNow(e), AcquiredNow(e), phase[e], live[e], cleanup[e])
    /\ phase[e] = "aborted" => HalfConnected(class, e, at[e]) /\ \E i \in Index : QueuePair(i) \in live[e]

HoldInv == Family(cleanup) /\ \A e \in Endpoint : HoldOf(e)

LEMMA HoldStays ==
  ASSUME NEW e \in Endpoint, HoldOf(e), class' = class, at'[e] = at[e], phase'[e] = phase[e],
         live'[e] = live[e], cleanup'[e] = cleanup[e]
  PROVE  HoldOf(e)'
BY DEF HoldOf, OwnedNow, AcquiredNow

LEMMA HoldChanges ==
  ASSUME HoldInv, NEW e \in Endpoint, class' = class, at'[Peer(e)] = at[Peer(e)],
         phase'[Peer(e)] = phase[Peer(e)], live'[Peer(e)] = live[Peer(e)], cleanup'[Peer(e)] = cleanup[Peer(e)],
         Family(cleanup)', HoldOf(e)'
  PROVE  HoldInv'
<1>1. HoldOf(Peer(e))'
  BY Peers, HoldStays DEF HoldInv
<1>2. \A x \in Endpoint : x = e \/ x = Peer(e)
  BY Peers
<1> QED BY <1>1, <1>2 DEF HoldInv

LEMMA HoldProceeds ==
  ASSUME BootInv, HoldInv, NEW e \in Endpoint, phase[e] = "constructing", Proceed(e)
  PROVE  HoldInv'
<1> DEFINE n == at[e]
           step == Plan[class][e][n]
           X == AcquiredIn(step)
<1>1. BootTyped /\ Positions /\ Family(cleanup) /\ HoldOf(e)
  BY DEF BootInv, HoldInv
<1>2. Advanced(e)
  BY <1>1, Proceeding
<1>3. /\ class' = class /\ class \in Class /\ n \in 1 .. Len(Plan[class][e]) /\ at'[e] = n + 1
      /\ phase'[e] \in {"constructing", "ready"}
      /\ at'[Peer(e)] = at[Peer(e)] /\ phase'[Peer(e)] = phase[Peer(e)]
  BY <1>1, <1>2 DEF Advanced, BootTyped
<1>4. /\ live' = [live EXCEPT ![e] = IF step.call = "acquire" THEN @ \union {step.res} ELSE @]
      /\ cleanup' = [cleanup EXCEPT ![e] = Takeover(step, @)]
  BY DEF Proceed, Step
<1>5. /\ live'[e] = live[e] \union X /\ cleanup'[e] = Takeover(step, cleanup[e])
      /\ live'[Peer(e)] = live[Peer(e)] /\ cleanup'[Peer(e)] = cleanup[Peer(e)]
      /\ Family(cleanup)'
  <2> HIDE DEF step
  <2>1. live = [x \in Endpoint |-> live[x]] /\ cleanup = [x \in Endpoint |-> cleanup[x]]
    BY <1>1 DEF BootTyped, Family
  <2>2. Peer(e) \in Endpoint /\ Peer(e) # e
    BY Peers
  <2>3. live'[Peer(e)] = live[Peer(e)] /\ cleanup'[Peer(e)] = cleanup[Peer(e)] /\ cleanup'[e] = Takeover(step, cleanup[e])
    BY <1>4, <2>1, <2>2
  <2>4. live'[e] = live[e] \union X
    BY <1>4, <2>1 DEF AcquiredIn
  <2>5. Family(cleanup)'
    BY <1>4, <2>1 DEF Family
  <2> QED BY <2>3, <2>4, <2>5
<1>6. Holding(OwnedNow(e), AcquiredNow(e), "constructing", live[e], cleanup[e])
  BY <1>1 DEF HoldOf
<1>7. StepHolds(step.frees, OwnedNow(e), AcquiredNow(e), X)
  BY <1>3, StepsHold DEF OwnedNow, AcquiredNow
<1>8. /\ Owned[class][e][n + 1] = OwnedNow(e) \union Elements(step.frees)
      /\ Acquired[class][e][n + 1] = AcquiredNow(e) \union X
  BY <1>3, PlanSteps DEF OwnedNow, AcquiredNow
<1>9. Holding(OwnedNow(e) \union Elements(step.frees), AcquiredNow(e) \union X, phase'[e],
              live[e] \union X, Takeover(step, cleanup[e]))
  <2> DEFINE O == OwnedNow(e)
             A == AcquiredNow(e)
             L == live[e]
             s == cleanup[e]
             p == phase'[e]
  <2>1. p \in {"constructing", "ready"}
    BY <1>3
  <2>2. Holding(O, A, "constructing", L, s)
    BY <1>6
  <2>3. StepHolds(step.frees, O, A, X)
    BY <1>7
  <2> HIDE DEF step, X, O, A, L, s, p
  <2>4. Holding(O \union Elements(step.frees), A \union X, p, L \union X, Takeover(step, s))
    BY <2>1, <2>2, <2>3, HoldingProceeds, Zenon
  <2> QED BY <2>4 DEF O, A, L, s, p
<1>10. n + 1 \in Steps(class, e)
  <2> DEFINE l == Len(Plan[class][e])
  <2>1. l \in Nat /\ Steps(class, e) = 1 .. l + 1 /\ n \in 1 .. l
    BY <1>3, PlanSteps
  <2> HIDE DEF l, n
  <2> QED BY <2>1
<1>11. HoldOf(e)'
  <2> HIDE DEF step, X, n
  <2>1. OwnedNow(e)' = OwnedNow(e) \union Elements(step.frees) /\ AcquiredNow(e)' = AcquiredNow(e) \union X
    BY <1>3, <1>8 DEF OwnedNow, AcquiredNow
  <2>2. at'[e] \in Steps(class', e) /\ phase'[e] # "aborted"
    BY <1>3, <1>10
  <2>3. Holding(OwnedNow(e)', AcquiredNow(e)', phase'[e], live'[e], cleanup'[e])
    BY <1>5, <1>9, <2>1
  <2> QED BY <2>2, <2>3 DEF HoldOf
<1> QED BY <1>3, <1>5, <1>11, HoldChanges

(* e changes its phase, or what it holds, and stays where it is. *)
Remains(e) ==
    /\ class' = class /\ at' = at
    /\ \E p \in Phases : phase' = [phase EXCEPT ![e] = p]
    /\ \E L : live' = [live EXCEPT ![e] = L]
    /\ \E s : cleanup' = [cleanup EXCEPT ![e] = s]

LEMMA HoldRemains ==
  ASSUME BootInv, HoldInv, NEW e \in Endpoint, Remains(e),
         Holding(OwnedNow(e), AcquiredNow(e), phase'[e], live'[e], cleanup'[e]),
         phase'[e] = "aborted" => HalfConnected(class, e, at[e]) /\ \E i \in Index : QueuePair(i) \in live'[e]
  PROVE  HoldInv'
<1>1. Family(live) /\ Family(cleanup) /\ HoldOf(e) /\ phase \in [Endpoint -> Phases]
  BY DEF BootInv, BootTyped, HoldInv
<1>2. Peer(e) \in Endpoint /\ Peer(e) # e
  BY Peers
<1>3. phase'[Peer(e)] = phase[Peer(e)]
  BY <1>1, <1>2 DEF Remains
<1>4. live'[Peer(e)] = live[Peer(e)]
  BY <1>1, <1>2 DEF Remains, Family
<1>5. cleanup'[Peer(e)] = cleanup[Peer(e)] /\ Family(cleanup)'
  BY <1>1, <1>2 DEF Remains, Family
<1>6. class' = class /\ at' = at
  BY DEF Remains
<1>7. HoldOf(e)'
  BY <1>1, <1>6 DEF HoldOf, OwnedNow, AcquiredNow
<1> QED BY <1>3, <1>4, <1>5, <1>6, <1>7, HoldChanges

LEMMA Kept == ASSUME NEW f, Family(f), NEW e \in Endpoint PROVE f = [f EXCEPT ![e] = f[e]]
BY DEF Family

LEMMA HoldRaises ==
  ASSUME BootInv, HoldInv, NEW e \in Endpoint, phase[e] \in {"constructing", "ready"}, Raise(e)
  PROVE  HoldInv'
<1>1. Family(live) /\ Family(cleanup) /\ phase \in [Endpoint -> Phases]
  BY DEF BootInv, BootTyped, HoldInv
<1>2. Holding(OwnedNow(e), AcquiredNow(e), phase[e], live[e], cleanup[e])
  BY DEF HoldInv, HoldOf
<1>3. class' = class /\ at' = at
  BY DEF Raise
<1>4. CASE Phase(e, "dead") /\ live' = [live EXCEPT ![e] = {}] /\ cleanup' = [cleanup EXCEPT ![e] = <<>>]
  <2>1. phase' = [phase EXCEPT ![e] = "dead"] /\ "dead" \in Phases
    BY <1>4 DEF Phase, Phases
  <2>2. Remains(e)
    BY <1>3, <1>4, <2>1, Zenon DEF Remains
  <2>3. phase'[e] = "dead" /\ live'[e] = {} /\ cleanup'[e] = <<>>
    BY <1>1, <1>4, <2>1 DEF Family
  <2>4. Holding(OwnedNow(e), AcquiredNow(e), "dead", {}, <<>>)
    BY <1>2, HoldingDies
  <2> QED BY <2>2, <2>3, <2>4, HoldRemains
<1>5. CASE Phase(e, "unwinding") /\ live' = live /\ cleanup' = cleanup
  <2>1. phase' = [phase EXCEPT ![e] = "unwinding"] /\ "unwinding" \in Phases
    BY <1>5 DEF Phase, Phases
  <2>2. live' = [live EXCEPT ![e] = live[e]] /\ cleanup' = [cleanup EXCEPT ![e] = cleanup[e]]
    BY <1>1, <1>5, Kept
  <2>3. Remains(e)
    BY <1>3, <2>1, <2>2, Zenon DEF Remains
  <2>4. phase'[e] = "unwinding"
    BY <1>1, <2>1
  <2>5. Holding(OwnedNow(e), AcquiredNow(e), "unwinding", live[e], cleanup[e])
    BY <1>2, HoldingPhase
  <2> QED BY <1>5, <2>3, <2>4, <2>5, HoldRemains
<1> QED BY <1>4, <1>5, Zenon DEF Raise, holdings

LEMMA HoldReleases == ASSUME BootInv, HoldInv, NEW e \in Endpoint, Release(e) PROVE HoldInv'
<1> DEFINE s == cleanup[e]
           r == Head(s)
<1>1. Family(live) /\ Family(cleanup) /\ phase \in [Endpoint -> Phases] /\ class \in Class
  BY DEF BootInv, BootTyped, HoldInv
<1>2. Holding(OwnedNow(e), AcquiredNow(e), phase[e], live[e], s) /\ at[e] \in Steps(class, e)
  BY DEF HoldInv, HoldOf
<1>3. class' = class /\ at' = at /\ phase[e] \in {"unwinding", "closing"} /\ s # <<>>
  BY DEF Release
<1>4. CASE Refuses(r, live[e]) /\ Phase(e, "aborted") /\ live' = live /\ cleanup' = cleanup
  <2>1. phase' = [phase EXCEPT ![e] = "aborted"] /\ "aborted" \in Phases
    BY <1>4 DEF Phase, Phases
  <2>2. live' = [live EXCEPT ![e] = live[e]] /\ cleanup' = [cleanup EXCEPT ![e] = cleanup[e]]
    BY <1>1, <1>4, Kept
  <2>3. Remains(e)
    BY <1>3, <2>1, <2>2, Zenon DEF Remains
  <2>4. phase'[e] = "aborted"
    BY <1>1, <2>1
  <2>5. Holding(OwnedNow(e), AcquiredNow(e), "aborted", live[e], s)
    BY <1>2, <1>3, HoldingPhase
  <2>6. r \in OwnedNow(e) /\ \E u \in (AcquiredNow(e) \ OwnedNow(e)) : u \in live[e] /\ Refuses(r, {u})
    <3> DEFINE O == OwnedNow(e)
               A == AcquiredNow(e)
               L == live[e]
               p == phase[e]
    <3>1. p \in {"unwinding", "closing"}
      BY <1>3
    <3>2. Holding(O, A, p, L, s)
      BY <1>2
    <3>3. s # <<>>
      BY <1>3
    <3>4. Refuses(Head(s), L)
      BY <1>4
    <3> HIDE DEF s, O, A, L, p
    <3>5. HeldUp(Head(s), O, A, L)
      BY <3>1, <3>2, <3>3, <3>4, HoldingRefuses, Zenon
    <3> QED BY <3>5 DEF O, A, L, p, HeldUp
  <2>7. PICK u : u \in AcquiredNow(e) /\ u \notin OwnedNow(e) /\ u \in live[e] /\ Refuses(r, {u})
    BY <2>6
  <2>8. HalfConnected(class, e, at[e]) /\ \E i \in Index : u = QueuePair(i)
    <3> HIDE DEF r, s
    <3>1. at[e] \in Nat /\ OwnedBefore(class, e, at[e], r) /\ AcquiredBefore(class, e, at[e], u) /\ ~OwnedBefore(class, e, at[e], u)
      BY <1>1, <1>2, <2>6, <2>7, HeldBefore DEF OwnedNow, AcquiredNow
    <3> QED BY <1>1, <2>7, <3>1, Orphans
  <2>9. \E i \in Index : QueuePair(i) \in live'[e]
    BY <1>4, <2>7, <2>8
  <2> QED BY <1>4, <2>3, <2>4, <2>5, <2>8, <2>9, HoldRemains
<1>5. CASE live' = [live EXCEPT ![e] = @ \ {r}] /\ cleanup' = [cleanup EXCEPT ![e] = Tail(@)] /\ phase' = phase
  <2>1. live' = [live EXCEPT ![e] = live[e] \ {r}] /\ cleanup' = [cleanup EXCEPT ![e] = Tail(s)]
    BY <1>1, <1>5 DEF Family
  <2>2. phase' = [phase EXCEPT ![e] = phase[e]] /\ phase[e] \in Phases
    BY <1>1, <1>5
  <2>3. Remains(e)
    BY <1>3, <2>1, <2>2, Zenon DEF Remains
  <2>4. live'[e] = live[e] \ {r} /\ cleanup'[e] = Tail(s) /\ phase'[e] = phase[e]
    BY <1>1, <1>5 DEF Family
  <2>5. Holding(OwnedNow(e), AcquiredNow(e), phase[e], live[e] \ {r}, Tail(s))
    BY <1>2, <1>3, HoldingReleases
  <2> HIDE DEF s, r
  <2>6. phase'[e] # "aborted"
    BY <1>3, <2>4
  <2> QED BY <2>3, <2>4, <2>5, <2>6, HoldRemains
<1> QED BY <1>4, <1>5, Zenon DEF Release, holdings

LEMMA HoldSettles ==
  ASSUME BootInv, HoldInv, NEW e \in Endpoint, NEW p \in {"closing", "unwound", "closed"}, Phase(e, p),
         class' = class, at' = at, live' = live, cleanup' = cleanup,
         phase[e] # "dead", p \in {"unwound", "closed"} => cleanup[e] = <<>>
  PROVE  HoldInv'
<1>1. Family(live) /\ Family(cleanup) /\ phase \in [Endpoint -> Phases]
  BY DEF BootInv, BootTyped, HoldInv
<1>2. Holding(OwnedNow(e), AcquiredNow(e), phase[e], live[e], cleanup[e])
  BY DEF HoldInv, HoldOf
<1>3. phase' = [phase EXCEPT ![e] = p] /\ p \in Phases
  BY DEF Phase, Phases
<1>4. live' = [live EXCEPT ![e] = live[e]] /\ cleanup' = [cleanup EXCEPT ![e] = cleanup[e]]
  BY <1>1, Kept
<1>5. Remains(e)
  BY <1>3, <1>4, Zenon DEF Remains
<1>6. phase'[e] = p
  BY <1>1, <1>3
<1>7. Holding(OwnedNow(e), AcquiredNow(e), p, live[e], cleanup[e])
  BY <1>2, HoldingPhase
<1> QED BY <1>5, <1>6, <1>7, HoldRemains

LEMMA HoldStands == ASSUME HoldInv, UNCHANGED bootVars PROVE HoldInv'
<1>1. class' = class /\ phase' = phase /\ at' = at /\ live' = live /\ cleanup' = cleanup
  BY DEF bootVars, holdings
<1>2. Family(cleanup)'
  BY <1>1 DEF HoldInv, Family
<1>3. \A e \in Endpoint : HoldOf(e)'
  BY <1>1, HoldStays DEF HoldInv
<1> QED BY <1>2, <1>3 DEF HoldInv

LEMMA HoldConstructs == ASSUME BootInv, HoldInv, NEW e \in Endpoint, Construct(e) PROVE HoldInv'
<1>1. CASE Refused(e)
  BY <1>1, HoldRaises DEF Refused, At
<1>2. CASE Listen(e) \/ TcpConnect(e) \/ Accept(e) \/ Acquire(e) \/ Check(e) \/ Query(e)
  <2>1. phase[e] = "constructing" /\ Proceed(e)
    BY <1>2 DEF Listen, TcpConnect, Accept, Acquire, Check, Query, At
  <2> QED BY <2>1, HoldProceeds
<1>3. CASE SendAddress(e) \/ ReceiveAddress(e) \/ Connect(e) \/ SendRmrInfo(e) \/ ReceiveAndSetupRmr(e)
  <2>1. phase[e] = "constructing" /\ Proceed(e)
    BY <1>3 DEF SendAddress, ReceiveAddress, Connect, SendRmrInfo, ReceiveAndSetupRmr, At
  <2> QED BY <2>1, HoldProceeds
<1> QED BY <1>1, <1>2, <1>3 DEF Construct

LEMMA HoldStep == BootInv /\ HoldInv /\ [Next]_vars => HoldInv'
<1> SUFFICES ASSUME BootInv, HoldInv, [Next]_vars PROVE HoldInv'
  OBVIOUS
<1>1. CASE UNCHANGED vars
  BY <1>1, HoldStands DEF vars
<1>2. ASSUME NEW e \in Endpoint, Run(e) PROVE HoldInv'
  <2>1. CASE Construct(e)
    BY <2>1, HoldConstructs
  <2>2. CASE Destroy(e)
    <3>1. CASE Release(e)
      BY <3>1, HoldReleases
    <3>2. CASE Destroyed(e)
      <4>1. class' = class /\ at' = at /\ live' = live /\ cleanup' = cleanup /\ cleanup[e] = <<>> /\ phase[e] # "dead"
        BY <3>2 DEF Destroyed, holdings
      <4>2. PICK p \in {"unwound", "closed"} : Phase(e, p)
        BY <3>2 DEF Destroyed
      <4> QED BY <4>1, <4>2, HoldSettles
    <3> QED BY <2>2, <3>1, <3>2 DEF Destroy
  <2>3. CASE ClientSend \/ ClientReceive \/ ServerReceive \/ ServerSend
    <3>1. UNCHANGED bootVars
      BY <2>3 DEF ClientSend, ClientReceive, ServerReceive, ServerSend
    <3> QED BY <3>1, HoldStands
  <2>4. ASSUME NEW x \in Endpoint, phase[x] = "ready", LeaveScope(x) PROVE HoldInv'
    <3>1. Phase(x, "closing") /\ class' = class /\ at' = at /\ live' = live /\ cleanup' = cleanup /\ phase[x] # "dead"
      BY <2>4 DEF LeaveScope, holdings
    <3> QED BY <3>1, HoldSettles
  <2>5. CASE ClientExit \/ ServerExit
    <3>1. "client" \in Endpoint /\ "server" \in Endpoint
      BY DEF Endpoint
    <3> QED BY <2>4, <2>5, <3>1 DEF ClientExit, ServerExit
  <2> QED BY <1>2, <2>1, <2>2, <2>3, <2>5 DEF Run
<1>3. ASSUME NEW e \in Endpoint, Throw(e) \/ SendFails(e) PROVE HoldInv'
  BY <1>3, HoldRaises DEF Throw, SendFails
<1> QED BY <1>1, <1>2, <1>3 DEF Next

LEMMA HoldStart == Init => HoldInv
<1> SUFFICES ASSUME Init PROVE HoldInv
  OBVIOUS
<1>1. /\ class \in Class /\ phase = [e \in Endpoint |-> "constructing"] /\ at = [e \in Endpoint |-> 1]
      /\ live = [e \in Endpoint |-> {}] /\ cleanup = [e \in Endpoint |-> <<>>]
  BY DEF Init, BootInit
<1>2. Family(cleanup)
  BY <1>1 DEF Family
<1>3. ASSUME NEW e \in Endpoint PROVE HoldOf(e)
  <2>1. at[e] = 1 /\ phase[e] = "constructing" /\ live[e] = {} /\ cleanup[e] = <<>>
    BY <1>1
  <2>2. OwnedNow(e) = {} /\ AcquiredNow(e) = {}
    BY <1>1, <2>1, PlanSteps DEF OwnedNow, AcquiredNow
  <2>3. 1 \in Steps(class, e)
    <3> DEFINE l == Len(Plan[class][e])
    <3>1. l \in Nat /\ Steps(class, e) = 1 .. l + 1
      BY <1>1, PlanSteps
    <3> HIDE DEF l
    <3> QED BY <3>1
  <2>4. Holding(OwnedNow(e), AcquiredNow(e), phase[e], live[e], cleanup[e])
    BY <2>1, <2>2, HoldingStarts
  <2> QED BY <2>1, <2>3, <2>4 DEF HoldOf
<1> QED BY <1>2, <1>3 DEF HoldInv

LEMMA HoldInvariant == Spec => []HoldInv
<1>1. BootInv /\ HoldInv /\ [Next]_vars => HoldInv'
  BY HoldStep
<1> QED BY <1>1, HoldStart, BootInvariant, PTL DEF Spec

(* Whatever fails, in whatever order the endpoints run and for every       *)
(* number of queue pairs, no destructor frees or destroys what something   *)
(* with an owner still uses. *)
THEOREM NothingIsFreedInUse == Spec => []NothingUsedIsFreed
<1>1. HoldInv => NothingUsedIsFreed
  <2> SUFFICES ASSUME HoldInv, NEW e \in Endpoint, NEW r \in live[e] \intersect OwnedNow(e), NEW u \in Uses(r)
               PROVE  u \in live[e]
    BY DEF NothingUsedIsFreed, OwnedNow
  <2> DEFINE O == OwnedNow(e)
             A == AcquiredNow(e)
             s == cleanup[e]
             l == Len(s)
  <2>1. Holding(O, A, phase[e], live[e], s)
    BY DEF HoldInv, HoldOf
  <2>2. phase[e] # "dead"
    BY <2>1 DEF Holding
  <2>3. live[e] = (A \ O) \union Elements(s)
    BY <2>1, <2>2 DEF Holding
  <2>4. r \in Elements(s)
    BY <2>3
  <2>5. /\ \A i \in 1 .. l : \A v \in Uses(s[i]) : v \in A \ O \/ \E j \in 1 .. l : j > i /\ v = s[j]
        /\ DOMAIN s = 1 .. l
    BY <2>1 DEF Holding, List
  <2> HIDE DEF O, A, l
  <2>6. PICK i \in 1 .. l : r = s[i]
    BY <2>4, <2>5 DEF Elements
  <2>7. u \in A \ O \/ \E j \in 1 .. l : u = s[j]
    BY <2>5, <2>6
  <2>8. \A j \in 1 .. l : s[j] \in Elements(s)
    BY <2>5 DEF Elements
  <2> QED BY <2>3, <2>7, <2>8
<1> QED BY <1>1, HoldInvariant, PTL

(* A destructor ends the process with an exception of its own only when an *)
(* ECBuffer was connecting its queue pairs: ~CompletionQueuePair throws    *)
(* for no other reason. *)
THEOREM OnlyHalfConnectedAborts == Spec => []AbortsOnlyHalfConnected
<1>1. HoldInv => AbortsOnlyHalfConnected
  <2> SUFFICES ASSUME HoldInv, NEW e \in Endpoint, phase[e] = "aborted"
               PROVE  /\ class = "ECBuffer" /\ at[e] <= Len(Plan[class][e])
                      /\ Step(e).res = QueuePair(Current(e))
                      /\ \E i \in Index : QueuePair(i) \in live[e]
    BY DEF AbortsOnlyHalfConnected
  <2>1. HalfConnected(class, e, at[e]) /\ \E i \in Index : QueuePair(i) \in live[e]
    BY DEF HoldInv, HoldOf
  <2>2. PICK j \in Index : Step(e).res = QueuePair(j)
    BY <2>1 DEF HalfConnected, Step
  <2>3. QueuePair(j)[2] = j
    BY DEF QueuePair
  <2>4. Step(e).res = QueuePair(Current(e))
    BY <2>2, <2>3 DEF Current
  <2> QED BY <2>1, <2>4 DEF HalfConnected
<1> QED BY <1>1, HoldInvariant, PTL

(* What destructors that have run to their end leave behind is exactly     *)
(* what had no owner when they began. *)
THEOREM OnlyOrphansAreLeft == Spec => []OnlyOrphansLeft
<1>1. HoldInv => OnlyOrphansLeft
  <2> SUFFICES ASSUME HoldInv, NEW e \in Endpoint, phase[e] \in {"unwound", "closed"}
               PROVE  live[e] = AcquiredNow(e) \ OwnedNow(e)
    BY DEF OnlyOrphansLeft, AcquiredNow, OwnedNow
  <2>1. Holding(OwnedNow(e), AcquiredNow(e), phase[e], live[e], cleanup[e])
    BY DEF HoldInv, HoldOf
  <2>2. cleanup[e] = <<>> /\ live[e] = (AcquiredNow(e) \ OwnedNow(e)) \union Elements(cleanup[e])
    BY <2>1 DEF Holding
  <2>3. Elements(<<>>) = {}
    BY NothingFreed
  <2> QED BY <2>2, <2>3
<1> QED BY <1>1, HoldInvariant, PTL

-----------------------------------------------------------------------------
(* Which words are in the streams and the records, even of an endpoint     *)
(* that reads out of step: it never reads more than it asks for, so that   *)
(* it takes no word of a descriptor for one of an address. *)
Sort(c, j) == IF j <= 5 * QueuePairsOf(c) THEN AddressWord ELSE RmrInfoWord

StreamSorted(e) ==
    LET l == Len(stream[e])
        w == Written(class, e, at[e])
    IN  /\ l <= w /\ w - l <= Read(class, Peer(e), at[Peer(e)])
        /\ \A j \in 1 .. l : stream[e][j] \in Sort(class, w - l + j)

NoWord == <<"zero">>
AddressSorted(e) == \A m \in 1 .. 5 : addr[e][m] \in AddressWord \union {NoWord}

Sorted == \A e \in Endpoint : StreamSorted(e) /\ AddressSorted(e)
WordInv == faults \in 0 .. MaxFaults /\ Sorted

LEMMA SentWordSorted ==
  ASSUME NEW c \in Class, NEW e \in Endpoint, NEW j \in Nat, j > 0, j <= 5 * QueuePairsOf(c) + 3
  PROVE  SentWord(c, e, j) \in Sort(c, j)
<1> DEFINE q == QueuePairsOf(c)
<1>1. q \in Nat /\ q > 0 /\ \A i \in 1 .. q : i \in Index
  BY QueuePairsPositive
<1>2. CASE j <= 5 * q
  <2> DEFINE i == ((j - 1) \div 5) + 1
             m == ((j - 1) % 5) + 1
  <2> HIDE DEF q
  <2>1. i \in 1 .. q /\ m \in 1 .. 5
    <3> DEFINE k == j - 1
    <3>1. k \in Nat /\ k < 5 * q
      BY <1>1, <1>2
    <3> HIDE DEF k
    <3>2. k \div 5 \in Nat /\ k \div 5 < q /\ k % 5 \in 0 .. 4
      BY <1>1, <3>1
    <3> QED BY <1>1, <3>2 DEF k
  <2>2. i \in Index
    BY <1>1, <2>1
  <2> HIDE DEF i, m
  <2>3. Word(e, i, m) \in AddressWord
    BY <2>1, <2>2 DEF AddressWord
  <2> QED BY <1>2, <2>3 DEF SentWord, Sort, q, i, m
<1>3. CASE ~(j <= 5 * q)
  <2> DEFINE m == j - 5 * q
             f == RmrInfoOf(e)
  <2>1. m \in 1 .. 3
    BY <1>1, <1>3
  <2>2. DOMAIN f = 1 .. 3
    BY DEF RmrInfoOf
  <2> HIDE DEF m, f
  <2>3. f[m] \in Elements(f)
    BY <2>1, <2>2 DEF Elements
  <2>4. f[m] \in RmrInfoWord
    BY <2>3 DEF RmrInfoWord, f
  <2> QED BY <1>3, <2>4 DEF SentWord, Sort, q, m, f
<1> QED BY <1>2, <1>3

LEMMA WrittenLimit ==
  ASSUME NEW c \in Class, NEW e \in Endpoint, NEW n \in Nat
  PROVE  Written(c, e, n) <= 5 * QueuePairsOf(c) + 3
<1> DEFINE b == Before(c, e)
           q == QueuePairsOf(c)
           r == RmrPlace(c, e)
           d == Done(b, q, n)
           w == (d + 4) \div 7
           z == IF n > r THEN 3 ELSE 0
<1>1. b \in Nat /\ q \in Nat
  BY PlaceNumbersKnown DEF Numbers
<1> HIDE DEF b, q, r
<1>2. d \in Nat /\ d <= 7 * q
  BY <1>1 DEF Done
<1> HIDE DEF d
<1>3. w \in Nat /\ w <= q
  BY <1>1, <1>2
<1>4. z \in 0 .. 3
  OBVIOUS
<1> HIDE DEF w, z
<1>5. Written(c, e, n) = 5 * w + z
  BY Zenon DEF Written, WrittenBy, b, q, r, d, w, z
<1>6. 5 * w + z <= 5 * q + 3
  BY <1>1, <1>3, <1>4
<1> QED BY <1>5, <1>6 DEF q

LEMMA SortedStays ==
  ASSUME NEW x \in Endpoint, StreamSorted(x), class' = class, stream'[x] = stream[x],
         Written(class, x, at'[x]) = Written(class, x, at[x]),
         Read(class, Peer(x), at'[Peer(x)]) = Read(class, Peer(x), at[Peer(x)])
  PROVE  StreamSorted(x)'
BY DEF StreamSorted

LEMMA SortedWait ==
  ASSUME BootTyped, Sorted, NEW e \in Endpoint, Advanced(e), Waits(e)
  PROVE  \A x \in Endpoint : StreamSorted(x)'
<1>1. class' = class /\ at'[e] = at[e] + 1 /\ at'[Peer(e)] = at[Peer(e)] /\ stream' = stream
  BY DEF Advanced, Waits
<1>2. /\ Written(class, e, at[e] + 1) = Written(class, e, at[e])
      /\ Read(class, e, at[e] + 1) = Read(class, e, at[e])
  BY AdvanceCounted DEF StepCounts, Waits, TcpCalls, Step
<1>3. \A x \in Endpoint : /\ Written(class, x, at'[x]) = Written(class, x, at[x])
                          /\ Read(class, x, at'[x]) = Read(class, x, at[x])
  BY <1>1, <1>2, Peers
<1> SUFFICES ASSUME NEW x \in Endpoint PROVE StreamSorted(x)'
  OBVIOUS
<1>4. StreamSorted(x) /\ Peer(x) \in Endpoint
  BY Peers DEF Sorted
<1>5. stream'[x] = stream[x]
  BY <1>1
<1> QED BY <1>1, <1>3, <1>4, <1>5, SortedStays

LEMMA SortedWrite ==
  ASSUME BootTyped, Sorted, NEW e \in Endpoint, Advanced(e), NEW record, Writes(e, record)
  PROVE  \A x \in Endpoint : StreamSorted(x)'
<1> DEFINE d == Peer(e)
           s == stream[e]
           t == s \o record
           l == Len(s)
           k == Len(record)
           w == Written(class, e, at[e])
<1>1. class' = class /\ class \in Class /\ at'[e] = at[e] + 1 /\ at'[d] = at[d] /\ at[e] + 1 \in Nat
  BY DEF Advanced, BootTyped
<1>2. d \in Endpoint /\ d # e /\ Peer(d) = e /\ \A y \in Endpoint : y = e \/ y = d
  BY Peers
<1>3. stream'[e] = t /\ stream'[d] = stream[d] /\ Listed(s) /\ Listed(record)
  BY <1>2 DEF Writes, BootTyped, Family
<1>4. StreamSorted(d)'
  <2>1. Read(class, Peer(d), at'[Peer(d)]) = Read(class, Peer(d), at[Peer(d)])
    BY <1>1, <1>2 DEF Writes
  <2>2. Written(class, d, at'[d]) = Written(class, d, at[d])
    BY <1>1
  <2>3. StreamSorted(d)
    BY <1>2 DEF Sorted
  <2> QED BY <1>1, <1>2, <1>3, <2>1, <2>2, <2>3, SortedStays
<1>5. StreamSorted(e)'
  <2>1. /\ l <= w /\ w - l <= Read(class, d, at[d])
        /\ \A j \in 1 .. l : s[j] \in Sort(class, w - l + j)
    BY DEF Sorted, StreamSorted
  <2>2. IsConcat(t, s, record)
    BY <1>3, ListedConcat, Zenon
  <2>3. /\ Written(class, e, at[e] + 1) = w + k
        /\ \A m \in 1 .. k : record[m] = SentWord(class, e, w + m)
    BY DEF Writes
  <2>4. w \in Nat
    BY AdvanceCounted DEF StepCounts
  <2>5. w + k <= 5 * QueuePairsOf(class) + 3
    BY <1>1, <2>3, WrittenLimit
  <2>6. QueuePairsOf(class) \in Nat
    BY <1>1, QueuePairsPositive
  <2>7. Len(t) = l + k /\ l \in Nat /\ k \in Nat
    BY <2>2 DEF IsConcat
  <2> HIDE DEF s, t, l, k, w
  <2>8. ASSUME NEW j \in 1 .. l + k PROVE t[j] \in Sort(class, w - l + j)
    <3>1. CASE j \in 1 .. l
      BY <2>1, <2>2, <3>1 DEF IsConcat, l
    <3>2. CASE j - l \in 1 .. k
      <4> DEFINE m == j - l
      <4>1. w + m = w - l + j /\ l + m = j /\ w + m \in Nat /\ w + m > 0
        BY <2>4, <2>7, <3>2
      <4>2. w + m <= 5 * QueuePairsOf(class) + 3
        <5> DEFINE q == QueuePairsOf(class)
        <5> HIDE DEF q
        <5> QED BY <2>4, <2>5, <2>6, <2>7, <3>2 DEF q
      <4> HIDE DEF m
      <4>3. t[l + m] = record[m] /\ record[m] = SentWord(class, e, w + m)
        BY <2>2, <2>3, <3>2 DEF IsConcat, m, l, k
      <4>4. SentWord(class, e, w + m) \in Sort(class, w + m)
        BY <1>1, <4>1, <4>2, SentWordSorted
      <4> QED BY <4>1, <4>3, <4>4
    <3>3. j \in 1 .. l \/ j - l \in 1 .. k
      BY <2>7
    <3> QED BY <3>1, <3>2, <3>3
  <2>9. l + k <= w + k /\ (w + k) - (l + k) = w - l
    BY <2>1, <2>4, <2>7
  <2> QED BY <1>1, <1>3, <2>1, <2>3, <2>7, <2>8, <2>9 DEF StreamSorted
<1> QED BY <1>2, <1>4, <1>5

(* Up to size words are taken from the stream. *)
Drains(e, size) ==
    /\ size \in Nat /\ stream'[e] = stream[e]
    /\ Written(class, e, at[e] + 1) = Written(class, e, at[e])
    /\ Read(class, e, at[e] + 1) = Read(class, e, at[e]) + size
    /\ LET s == stream[Peer(e)]
       IN  \/ stream'[Peer(e)] = s
           \/ \E n \in 1 .. Len(s) : n <= size /\ stream'[Peer(e)] = SubSeq(s, n + 1, Len(s))

LEMMA SortedRead ==
  ASSUME BootTyped, Sorted, NEW e \in Endpoint, Advanced(e), NEW size, Drains(e, size)
  PROVE  \A x \in Endpoint : StreamSorted(x)'
<1> DEFINE d == Peer(e)
           s == stream[d]
           l == Len(s)
           w == Written(class, d, at[d])
           x == Read(class, e, at[e])
<1>1. class' = class /\ class \in Class /\ at'[e] = at[e] + 1 /\ at'[d] = at[d]
  BY DEF Advanced, BootTyped
<1>2. d \in Endpoint /\ d # e /\ Peer(d) = e /\ \A y \in Endpoint : y = e \/ y = d
  BY Peers
<1>3. StreamSorted(e)'
  <2>1. Written(class, e, at'[e]) = Written(class, e, at[e]) /\ stream'[e] = stream[e]
    BY <1>1 DEF Drains
  <2>2. Read(class, d, at'[d]) = Read(class, d, at[d])
    BY <1>1
  <2>3. StreamSorted(e)
    BY DEF Sorted
  <2> QED BY <1>1, <2>1, <2>2, <2>3, SortedStays
<1>4. StreamSorted(d)'
  <2>1. /\ l <= w /\ w - l <= x
        /\ \A j \in 1 .. l : s[j] \in Sort(class, w - l + j)
    BY <1>2 DEF Sorted, StreamSorted
  <2>2. Read(class, e, at'[e]) = x + size /\ size \in Nat /\ Written(class, d, at'[d]) = w
    BY <1>1 DEF Drains
  <2>3. w \in Nat /\ x \in Nat
    <3>1. x \in Nat
      BY AdvanceCounted DEF StepCounts
    <3>2. w \in Nat
      BY <1>2, ReadNatural DEF BootTyped
    <3> QED BY <3>1, <3>2
  <2>4. Listed(s) /\ l \in Nat
    BY <1>2, ListedLength DEF BootTyped
  <2>5. CASE stream'[d] = s
    <3>1. w - l <= x + size
      <4> HIDE DEF w, l, x
      <4> QED BY <2>1, <2>2, <2>3, <2>4
    <3> QED BY <1>1, <1>2, <2>1, <2>2, <2>5, <3>1 DEF StreamSorted
  <2>6. CASE \E n \in 1 .. l : n <= size /\ stream'[d] = SubSeq(s, n + 1, l)
    <3> PICK n \in 1 .. l : n <= size /\ stream'[d] = SubSeq(s, n + 1, l)
      BY <2>6
    <3> DEFINE t == SubSeq(s, n + 1, l)
    <3>1. Len(t) = l - n /\ \A j \in 1 .. Len(t) : t[j] = s[n + j]
      BY <2>4, Taken
    <3>2. stream'[d] = t
      OBVIOUS
    <3> HIDE DEF t, s, l, w, x
    <3>3. l - n <= w /\ w - (l - n) <= x + size
      BY <2>1, <2>2, <2>3, <2>4
    <3>4. ASSUME NEW j \in 1 .. l - n PROVE t[j] \in Sort(class, w - (l - n) + j)
      <4>1. n + j \in 1 .. l /\ w - l + (n + j) = w - (l - n) + j
        BY <2>3, <2>4
      <4>2. s[n + j] \in Sort(class, w - l + (n + j))
        BY <2>1, <4>1
      <4> QED BY <3>1, <4>1, <4>2
    <3> QED BY <1>1, <1>2, <2>2, <3>1, <3>2, <3>3, <3>4 DEF StreamSorted
  <2> QED BY <2>5, <2>6 DEF Drains
<1> QED BY <1>2, <1>3, <1>4

LEMMA WordsProceed ==
  ASSUME BootInv, WordInv, NEW e \in Endpoint, phase[e] = "constructing", Proceed(e),
         Waits(e) \/ (\E record : Writes(e, record)) \/ (\E size : Drains(e, size)),
         addr'[Peer(e)] = addr[Peer(e)], AddressSorted(e)'
  PROVE  WordInv'
<1>1. Advanced(e) /\ BootTyped /\ Sorted
  BY Proceeding DEF BootInv, WordInv
<1>2. \A x \in Endpoint : StreamSorted(x)'
  BY <1>1, SortedWait, SortedWrite, SortedRead
<1>3. AddressSorted(Peer(e))'
  BY <1>1, Peers DEF Sorted, AddressSorted
<1>4. \A x \in Endpoint : x = e \/ x = Peer(e)
  BY Peers
<1>5. faults' = faults
  BY DEF Proceed
<1> QED BY <1>2, <1>3, <1>4, <1>5 DEF WordInv, Sorted

LEMMA AddressKept == ASSUME Sorted, NEW e \in Endpoint, addr' = addr PROVE AddressSorted(e)'
BY DEF Sorted, AddressSorted

LEMMA WordsQuiet ==
  ASSUME BootInv, WordInv, NEW e \in Endpoint, Listen(e) \/ TcpConnect(e) \/ Accept(e) \/ Acquire(e) \/ Check(e)
  PROVE  WordInv'
<1>1. /\ phase[e] = "constructing" /\ Proceed(e) /\ addr' = addr /\ stream' = stream
      /\ Step(e).call \in {"listen", "connect", "accept", "acquire", "notify", "check size", "query device"}
  BY DEF Listen, TcpConnect, Accept, Acquire, Check, At, exchange
<1>2. Waits(e)
  BY <1>1 DEF Waits, TcpCalls
<1>3. AddressSorted(e)'
  BY <1>1, AddressKept DEF WordInv
<1> QED BY <1>1, <1>2, <1>3, WordsProceed

LEMMA WordsConnect == ASSUME BootInv, WordInv, NEW e \in Endpoint, Connect(e) PROVE WordInv'
<1>1. /\ phase[e] = "constructing" /\ Proceed(e) /\ addr' = addr /\ stream' = stream
      /\ Step(e).call \in {"INIT", "RTR", "RTS"}
  BY DEF Connect, At
<1>2. Waits(e)
  BY <1>1 DEF Waits, TcpCalls
<1>3. AddressSorted(e)'
  BY <1>1, AddressKept DEF WordInv
<1> QED BY <1>1, <1>2, <1>3, WordsProceed

LEMMA WordsQuery == ASSUME BootInv, WordInv, NEW e \in Endpoint, Query(e) PROVE WordInv'
<1> DEFINE i == Current(e)
<1>1. /\ phase[e] = "constructing" /\ Proceed(e) /\ Step(e).call = "query"
      /\ addr' = [addr EXCEPT ![e] = AddressOf(e, i)] /\ stream' = stream
  BY DEF Query, At
<1>2. Waits(e)
  BY <1>1 DEF Waits, TcpCalls
<1>3. BootTyped /\ StepCounts(class, e, at[e])
  BY <1>1, Proceeding, AdvanceCounted DEF BootInv
<1>4. i \in Index
  <2>1. \E k \in 1 .. QueuePairsOf(class) : Step(e).res[2] = k
    BY <1>1, <1>3 DEF StepCounts, Step
  <2> QED BY <1>3, <2>1, QueuePairsPositive DEF Current, BootTyped
<1> HIDE DEF i
<1>5. addr'[e] = AddressOf(e, i) /\ addr'[Peer(e)] = addr[Peer(e)]
  BY <1>1, <1>3, Peers DEF BootTyped, Family
<1>6. AddressSorted(e)'
  <2> SUFFICES ASSUME NEW m \in 1 .. 5 PROVE AddressOf(e, i)[m] \in AddressWord
    BY <1>5 DEF AddressSorted
  <2>1. Word(e, i, m) \in AddressWord
    BY <1>4 DEF AddressWord
  <2> QED BY <2>1 DEF AddressOf
<1> QED BY <1>1, <1>2, <1>5, <1>6, WordsProceed

LEMMA WordsSent == ASSUME BootInv, WordInv, NEW e \in Endpoint, SendAddress(e) \/ SendRmrInfo(e) PROVE WordInv'
<1>1. phase[e] = "constructing" /\ Proceed(e) /\ addr' = addr
  BY DEF SendAddress, SendRmrInfo, At
<1>2. \E record : Writes(e, record)
  BY WritesAddress, WritesRmrInfo
<1>3. AddressSorted(e)'
  BY <1>1, AddressKept DEF WordInv
<1> QED BY <1>1, <1>2, <1>3, WordsProceed

(* What a read takes, whole or not, it puts over the beginning of the      *)
(* record. *)
LEMMA Drained ==
  ASSUME BootTyped, NEW e \in Endpoint, NEW old, NEW new, NEW size \in Nat, Listed(old), Len(old) = size,
         Gets(e, old, new, size),
         Written(class, e, at[e] + 1) = Written(class, e, at[e]),
         Read(class, e, at[e] + 1) = Read(class, e, at[e]) + size
  PROVE  /\ Drains(e, size)
         /\ \A m \in 1 .. size : new[m] = old[m] \/ (m \in 1 .. Len(stream[Peer(e)]) /\ new[m] = stream[Peer(e)][m])
<1> DEFINE d == Peer(e)
           s == stream[d]
<1>0. d \in Endpoint /\ d # e
  BY Peers
<1>1. CASE EndOfStream(e) /\ new = old /\ stream' = stream /\ misread' = misread
  <2>1. Drains(e, size)
    BY <1>1 DEF Drains
  <2>2. \A m \in 1 .. size : new[m] = old[m]
    BY <1>1
  <2> QED BY <2>1, <2>2
<1>2. CASE \E n \in Received(e, size) : new = Over(e, old, n) /\ TcpRead(e, n, size)
  <2> PICK n \in Received(e, size) : new = Over(e, old, n) /\ TcpRead(e, n, size)
    BY <1>2
  <2>1. n \in 1 .. Len(s) /\ n <= size /\ n \in Nat /\ Len(s) \in Nat /\ Listed(s)
    BY ReceivedPart
  <2> DEFINE t == SubSeq(s, n + 1, Len(s))
             u == SubSeq(s, 1, n) \o SubSeq(old, n + 1, Len(old))
  <2>2. new = u
    BY DEF Over
  <2>3. /\ \A j \in 1 .. n : u[j] = s[j]
        /\ \A j \in n + 1 .. size : u[j] = old[j]
    BY <2>1, Overwritten
  <2>4. stream' = [stream EXCEPT ![d] = t]
    BY DEF TcpRead
  <2>5. stream'[d] = t /\ stream'[e] = stream[e]
    BY <1>0, <2>4 DEF BootTyped, Family
  <2>6. Drains(e, size)
    BY <2>1, <2>5 DEF Drains
  <2> HIDE DEF t, u, s, d
  <2>7. \A m \in 1 .. size : new[m] = old[m] \/ (m \in 1 .. Len(s) /\ new[m] = s[m])
    <3> SUFFICES ASSUME NEW m \in 1 .. size PROVE new[m] = old[m] \/ (m \in 1 .. Len(s) /\ new[m] = s[m])
      OBVIOUS
    <3>1. CASE m \in 1 .. n
      BY <2>1, <2>2, <2>3, <3>1
    <3>2. CASE m \in n + 1 .. size
      <4>1. u[m] = old[m]
        BY <2>3, <3>2
      <4> QED BY <2>2, <4>1
    <3> QED BY <2>1, <3>1, <3>2
  <2> QED BY <2>6, <2>7 DEF s, d
<1> QED BY <1>1, <1>2 DEF Gets

LEMMA WordsReceived == ASSUME BootInv, WordInv, NEW e \in Endpoint, ReceiveAddress(e) PROVE WordInv'
<1> DEFINE d == Peer(e)
           s == stream[d]
           l == Len(s)
           w == Written(class, d, at[d])
           x == Read(class, e, at[e])
           q == QueuePairsOf(class)
           old == addr[e]
           new == addr'[e]
<1>1. phase[e] = "constructing" /\ Proceed(e) /\ Step(e).call = "read"
  BY DEF ReceiveAddress, At
<1>2. BootTyped /\ Sorted
  BY DEF BootInv, WordInv
<1>3. StepCounts(class, e, at[e])
  BY <1>1, <1>2, Proceeding, AdvanceCounted DEF BootInv
<1>4. /\ Written(class, e, at[e] + 1) = Written(class, e, at[e])
      /\ Read(class, e, at[e] + 1) = Read(class, e, at[e]) + 5
  BY <1>1, <1>3 DEF StepCounts, Step
<1>5. /\ Listed(old) /\ Len(old) = 5 /\ Gets(e, old, new, 5)
      /\ addr'[d] = addr[d]
  BY <1>2, GetsAddress DEF BootTyped
<1>6. /\ Drains(e, 5)
      /\ \A m \in 1 .. 5 : new[m] = old[m] \/ (m \in 1 .. l /\ new[m] = s[m])
  <2> DEFINE size == 5
  <2>1. size \in Nat /\ Len(old) = size /\ Gets(e, old, new, size) /\ Listed(old)
        /\ Read(class, e, at[e] + 1) = Read(class, e, at[e]) + size
    BY <1>4, <1>5
  <2> HIDE DEF size, old, new
  <2>2. /\ Drains(e, size)
        /\ \A m \in 1 .. size : new[m] = old[m] \/ (m \in 1 .. Len(stream[Peer(e)]) /\ new[m] = stream[Peer(e)][m])
    BY <1>2, <1>4, <2>1, Drained
  <2> QED BY <2>2 DEF size
<1>7. PICK i \in 1 .. q : x = 5 * (i - 1)
  BY <1>1, <1>3, ReadsInTurn
<1>8. \A m \in 1 .. 5 : m \in 1 .. l => s[m] \in AddressWord
  <2>1. l <= w /\ w - l <= x /\ \A j \in 1 .. l : s[j] \in Sort(class, w - l + j)
    BY <1>2, Peers DEF Sorted, StreamSorted
  <2>2. q \in Nat /\ w \in Nat /\ l \in Nat
    <3>1. d \in Endpoint /\ class \in Class /\ at[d] \in Nat /\ Listed(s)
      BY <1>2, Peers DEF BootTyped
    <3> QED BY <3>1, QueuePairsPositive, ReadNatural, ListedLength
  <2> HIDE DEF s, l, w, x, q
  <2>3. ASSUME NEW m \in 1 .. 5, m \in 1 .. l PROVE w - l + m <= 5 * q
    BY <1>7, <2>1, <2>2
  <2>4. ASSUME NEW m \in 1 .. 5, m \in 1 .. l PROVE s[m] \in AddressWord
    BY <2>1, <2>3, <2>4 DEF Sort, q
  <2> QED BY <2>4
<1>9. AddressSorted(e)'
  <2>1. \A m \in 1 .. 5 : old[m] \in AddressWord \union {NoWord}
    BY <1>2 DEF Sorted, AddressSorted
  <2> SUFFICES ASSUME NEW m \in 1 .. 5 PROVE new[m] \in AddressWord \union {NoWord}
    BY DEF AddressSorted
  <2> HIDE DEF old, new, s, l
  <2> QED BY <1>6, <1>8, <2>1
<1> QED BY <1>1, <1>5, <1>6, <1>9, WordsProceed

LEMMA WordsDescribed == ASSUME BootInv, WordInv, NEW e \in Endpoint, ReceiveAndSetupRmr(e) PROVE WordInv'
<1>1. phase[e] = "constructing" /\ Proceed(e) /\ Step(e).call = "receiveRmr" /\ addr' = addr
  BY DEF ReceiveAndSetupRmr, At
<1>2. BootTyped
  BY DEF BootInv
<1>3. StepCounts(class, e, at[e])
  BY <1>1, <1>2, Proceeding, AdvanceCounted DEF BootInv
<1> DEFINE size == 3
           old == remote[e]
           new == remote'[e]
<1>4. /\ Written(class, e, at[e] + 1) = Written(class, e, at[e])
      /\ Read(class, e, at[e] + 1) = Read(class, e, at[e]) + size
  BY <1>1, <1>3 DEF StepCounts, Step
<1>5. size \in Nat /\ Listed(old) /\ Len(old) = size /\ Gets(e, old, new, size)
  BY <1>2, GetsRmrInfo DEF BootTyped
<1> HIDE DEF size, old, new
<1>6. Drains(e, size)
  BY <1>2, <1>4, <1>5, Drained
<1>7. AddressSorted(e)'
  BY <1>1, AddressKept DEF WordInv
<1> QED BY <1>1, <1>6, <1>7, WordsProceed

(* Steps that neither write nor read *)
LEMMA WordsStand ==
  ASSUME WordInv, class' = class, at' = at, UNCHANGED exchange, faults' \in 0 .. MaxFaults
  PROVE  WordInv'
<1>1. addr' = addr /\ stream' = stream
  BY DEF exchange
<1> QED BY <1>1 DEF WordInv, Sorted, StreamSorted, AddressSorted

LEMMA FaultsCounted == ASSUME faults \in Nat, Faults < MaxFaults PROVE faults + 1 \in 0 .. MaxFaults
<1> DEFINE S == {e \in Endpoint : misread[e]}
           c == Cardinality(S)
<1>1. IsFiniteSet(Endpoint)
  <2>1. Endpoint = {"client"} \union {"server"}
    BY DEF Endpoint
  <2>2. IsFiniteSet({"client"}) /\ IsFiniteSet({"server"})
    BY FS_Singleton
  <2> QED BY <2>1, <2>2, FS_Union
<1>2. c \in Nat
  <2>1. S \subseteq Endpoint
    OBVIOUS
  <2>2. IsFiniteSet(S)
    BY <1>1, <2>1, FS_Subset
  <2> QED BY <2>2, FS_CardinalityType
<1>3. Faults = faults + c
  BY DEF Faults
<1> HIDE DEF c
<1> QED BY <1>2, <1>3, BootstrapAssumption

LEMMA WordsRaise ==
  ASSUME WordInv, NEW e \in Endpoint, Raise(e), faults' \in 0 .. MaxFaults
  PROVE  WordInv'
BY WordsStand DEF Raise

LEMMA WordStep == BootInv /\ WordInv /\ [Next]_vars => WordInv'
<1> SUFFICES ASSUME BootInv, WordInv, [Next]_vars PROVE WordInv'
  OBVIOUS
<1>0. faults \in 0 .. MaxFaults /\ faults \in Nat
  BY BootstrapAssumption DEF WordInv
<1>1. CASE UNCHANGED vars
  BY <1>0, <1>1, WordsStand DEF vars, bootVars
<1>2. ASSUME NEW e \in Endpoint, Run(e) PROVE WordInv'
  <2>1. CASE Construct(e)
    <3>1. CASE Refused(e)
      BY <1>0, <3>1, WordsRaise DEF Refused
    <3> QED BY <2>1, <3>1, WordsQuiet, WordsConnect, WordsQuery, WordsSent, WordsReceived, WordsDescribed DEF Construct
  <2>2. CASE Destroy(e)
    BY <1>0, <2>2, WordsStand DEF Destroy, Release, Destroyed
  <2>3. CASE ClientSend \/ ClientReceive \/ ServerReceive \/ ServerSend
    <3>1. UNCHANGED bootVars
      BY <2>3 DEF ClientSend, ClientReceive, ServerReceive, ServerSend
    <3> QED BY <1>0, <3>1, WordsStand DEF bootVars
  <2>4. CASE ClientExit \/ ServerExit
    BY <1>0, <2>4, WordsStand DEF ClientExit, ServerExit, LeaveScope
  <2> QED BY <1>2, <2>1, <2>2, <2>3, <2>4 DEF Run
<1>3. ASSUME NEW e \in Endpoint, Throw(e) \/ SendFails(e) PROVE WordInv'
  <2>1. CASE Throw(e)
    <3>1. /\ Raise(e)
          /\ faults' = faults \/ (Faults < MaxFaults /\ faults' = faults + 1)
      BY <2>1 DEF Throw
    <3>2. faults' \in 0 .. MaxFaults
      BY <1>0, <3>1, FaultsCounted
    <3> QED BY <3>1, <3>2, WordsRaise
  <2>2. CASE SendFails(e)
    BY <1>0, <2>2, WordsRaise DEF SendFails
  <2> QED BY <1>3, <2>1, <2>2
<1> QED BY <1>1, <1>2, <1>3 DEF Next

LEMMA WordStart == Init => WordInv
<1> SUFFICES ASSUME Init PROVE WordInv
  OBVIOUS
<1>1. /\ class \in Class /\ at = [e \in Endpoint |-> 1] /\ faults = 0
      /\ addr = [e \in Endpoint |-> Zero(5)] /\ stream = [e \in Endpoint |-> <<>>]
  BY DEF Init, BootInit
<1>2. ASSUME NEW e \in Endpoint PROVE StreamSorted(e) /\ AddressSorted(e)
  <2>1. at[e] = 1 /\ stream[e] = <<>> /\ Len(stream[e]) = 0 /\ at[Peer(e)] = 1
    BY <1>1, Peers, ListedFacts
  <2>2. Written(class, e, 1) \in Nat /\ Read(class, Peer(e), 1) \in Nat
    BY <1>1, Peers, ReadNatural
  <2>3. Written(class, e, 1) = 0
    <3>1. CountedOutside(Before(class, e), QueuePairsOf(class), RmrPlace(class, e), 1)
      BY <1>1, PlaceNumbersKnown, CountOutside
    <3>2. 1 <= Before(class, e) + 1
      BY <1>1, PlaceNumbersKnown DEF Numbers
    <3> QED BY <3>1, <3>2 DEF CountedOutside, Written
  <2>4. StreamSorted(e)
    BY <2>1, <2>2, <2>3 DEF StreamSorted
  <2>5. AddressSorted(e)
    BY <1>1 DEF AddressSorted, Zero, NoWord
  <2> QED BY <2>4, <2>5
<1> QED BY <1>1, <1>2, BootstrapAssumption DEF WordInv, Sorted

LEMMA WordInvariant == Spec => []WordInv
<1>1. BootInv /\ WordInv /\ [Next]_vars => WordInv'
  BY WordStep
<1> QED BY <1>1, WordStart, BootInvariant, PTL DEF Spec

LEMMA HoldingTypes ==
  ASSUME HoldInv, NEW e \in Endpoint
  PROVE  /\ at[e] \in Steps(class, e)
         /\ live[e] \subseteq Acquired[class][e][at[e]]
         /\ Elements(cleanup[e]) \subseteq live[e]
<1> DEFINE O == OwnedNow(e)
           A == AcquiredNow(e)
           s == cleanup[e]
<1>1. at[e] \in Steps(class, e) /\ Holding(O, A, phase[e], live[e], s)
  BY DEF HoldInv, HoldOf
<1>2. Elements(<<>>) = {}
  BY NothingFreed
<1>3. /\ O \subseteq A /\ Elements(s) \subseteq O
      /\ (live[e] = {} /\ s = <<>>) \/ live[e] = (A \ O) \union Elements(s)
  BY <1>1 DEF Holding
<1> HIDE DEF O, s, A
<1>4. live[e] \subseteq A /\ Elements(s) \subseteq live[e]
  BY <1>2, <1>3
<1> QED BY <1>1, <1>4 DEF s, A, AcquiredNow

LEMMA WordTypes ==
  ASSUME BootTyped, WordInv, NEW e \in Endpoint
  PROVE  /\ Len(addr[e]) = 5 /\ Elements(addr[e]) \subseteq AddressWord \union Elements(Zero(5))
         /\ Elements(stream[e]) \subseteq AddressWord \union RmrInfoWord
<1>1. /\ Len(addr[e]) = 5 /\ DOMAIN addr[e] = 1 .. Len(addr[e])
      /\ DOMAIN stream[e] = 1 .. Len(stream[e])
  BY ListedDomain DEF BootTyped
<1>2. NoWord \in Elements(Zero(5))
  <2>1. Zero(5)[1] = NoWord /\ 1 \in DOMAIN Zero(5)
    BY DEF Zero, NoWord
  <2> QED BY <2>1 DEF Elements
<1>3. \A m \in 1 .. 5 : addr[e][m] \in AddressWord \union {NoWord}
  BY DEF WordInv, Sorted, AddressSorted
<1>4. \A j \in 1 .. Len(stream[e]) : stream[e][j] \in AddressWord \union RmrInfoWord
  <2> SUFFICES ASSUME NEW j \in 1 .. Len(stream[e]) PROVE stream[e][j] \in AddressWord \union RmrInfoWord
    OBVIOUS
  <2>1. \E k : stream[e][j] \in Sort(class, k)
    BY DEF WordInv, Sorted, StreamSorted
  <2> QED BY <2>1 DEF Sort
<1> QED BY <1>1, <1>2, <1>3, <1>4 DEF Elements

LEMMA BootTypes == BootInv /\ HoldInv /\ WordInv => BootTypeOK
<1> SUFFICES ASSUME BootInv, HoldInv, WordInv PROVE BootTypeOK
  OBVIOUS
<1>1. BootTyped
  BY DEF BootInv
<1>2. /\ class \in Class
      /\ phase \in [Endpoint -> {"constructing", "ready", "unwinding", "closing",
                                 "dead", "aborted", "unwound", "closed"}]
  BY <1>1 DEF BootTyped, Phases
<1>3. faults \in 0 .. MaxFaults
  BY DEF WordInv
<1>4. qpState \in [Endpoint -> [Index -> {"none", "RESET", "INIT", "RTR", "RTS"}]]
  <2>1. QueuePairState = {"none", "RESET", "INIT", "RTR", "RTS"}
    BY DEF QueuePairState, Transition
  <2> QED BY <1>1, <2>1 DEF BootTyped
<1>5. ASSUME NEW e \in Endpoint
      PROVE  /\ at[e] \in Steps(class, e)
             /\ live[e] \subseteq Acquired[class][e][at[e]]
             /\ Elements(cleanup[e]) \subseteq live[e]
             /\ Len(addr[e]) = 5 /\ Elements(addr[e]) \subseteq AddressWord \union Elements(Zero(5))
             /\ Elements(stream[e]) \subseteq AddressWord \union RmrInfoWord
             /\ Len(remote[e]) = 3
             /\ misread[e] \in BOOLEAN
  <2>1. Len(remote[e]) = 3 /\ misread[e] \in BOOLEAN
    BY <1>1 DEF BootTyped
  <2> QED BY <1>1, <2>1, HoldingTypes, WordTypes
<1> QED BY <1>2, <1>3, <1>4, <1>5 DEF BootTypeOK

=============================================================================
