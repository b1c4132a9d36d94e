--------------------------- MODULE ECBufferSender ---------------------------
(***************************************************************************)
(* The types of ECBuffer and the state of send(), for every ring, number   *)
(* of blocks, payload and schedule, failures of the calculations and of    *)
(* connections included.                                                   *)
(***************************************************************************)
EXTENDS ECBuffer, SequenceTheorems, FiniteSetTheorems, TLAPS

(* Where block b begins in its stripe, stripe n + 1 in the stream, and     *)
(* byte o of block b of stripe s *)
BlockAt(b) == b * Unit
StripeAt(n) == n * Stripe
Pos(s, b, o) == sent[s].at + BlockAt(b) + o

-----------------------------------------------------------------------------
(* The state of send() *)

Survivors ==
    /\ rPc = "poll" => IF Cardinality(receivedBlocks) < K THEN survived = receivedBlocks
                                                          ELSE Cardinality(survived) = K
    /\ rPc = "decode" => Cardinality(survived) = K

Stripes ==
    \A i \in DOMAIN sent : /\ sent[i].at = StripeAt(i - 1)
                           /\ 1 + Len(sent[i].data) <= BlockSize * K

(* sendPos advances through the stripe of the running send(). *)
Progress ==
    /\ sPc # "idle" => sent # <<>>
    /\ sPc = "idle" => sendPos = StripeAt(Len(sent)) /\ sBlock = 0
    /\ sPc = "length" => sBlock = 0
    /\ sPc = "data" => sBlock < K
    /\ Writing => sBlock < K + M /\ sendPos = Current.at + BlockAt(sBlock) + PartBegin
    /\ sPc = "post" => /\ sBlock < K + M
                       /\ sendPos = Current.at + (IF sBlock < K THEN BlockAt(sBlock) + Unit ELSE Stripe)
                       /\ sBlock >= K => IsCoded
    /\ sPc = "encode" => sendPos = Current.at + Stripe /\ sBlock = K /\ IsCoded
    /\ sPc = "failed" => Current.at <= sendPos /\ sendPos <= Current.at + Stripe

(* What the read of the peer's position grants the running send() *)
Granted ==
    /\ reading # "none" => Writing
    /\ currentRemoteReceive <= readValue /\ readValue <= readPos
    /\ sendPos - currentRemoteReceive <= Size

(* Until the parity blocks are encoded there is only padding in them. *)
PaddedOnly == Writing \/ sPc = "encode" \/ (sPc = "post" /\ sBlock < K)
LaidByte(b, o) ==
    IF b >= K /\ o < BlockSize /\ PaddedOnly THEN Pad ELSE BlockByte(Len(sent), b, o)

(* What the running send() has written so far lies in the sendBuffer. *)
Laid ==
    /\ PaddedOnly => Len(sent) \notin unencoded
    /\ sPc \notin {"idle", "failed"} =>
          \A b \in Block, o \in 0 .. BlockSize :
              Pos(Len(sent), b, o) < sendPos
                  => sendBuffer[Cell(Pos(Len(sent), b, o))] = LaidByte(b, o)

SendInv == TypeOK /\ Survivors /\ Stripes /\ Progress /\ Granted /\ Laid

-----------------------------------------------------------------------------
(* The same by whose state it is: the sending endpoint's, the queue pairs', *)
(* the receiving endpoint's *)

SenderTypes ==
    /\ sPc \in {"idle", "length", "data", "pad", "validity", "post", "encode", "failed"}
    /\ sBlock \in 0 .. K + M
    /\ sent \in Seq(SentStripe)
    /\ sendBuffer \in [Cells -> Byte]
    /\ sendPos \in Nat
    /\ readQp \in Block
    /\ unencoded \subseteq DOMAIN sent

CardTypes ==
    /\ currentRemoteReceive \in Nat /\ readValue \in Nat
    /\ sq \in [Block -> Seq(WriteRequest)]
    /\ sqUsed \in [Block -> 0 .. MaxSendWr]
    /\ \A q \in Block : \A i \in DOMAIN sq[q] : /\ sq[q][i].begin + sq[q][i].len <= Size
                                                /\ sq[q][i].from + sq[q][i].len <= Unit
    /\ reading \in {"none", "posted", "executed", "landed"}
    /\ cq \in Seq({"read", "error"})
    /\ broken \subseteq Block

ReceiverTypes ==
    /\ receiveBuffer \in [Cells -> Byte]
    /\ readPos \in Nat
    /\ rPc \in {"idle", "poll", "decode", "size", "copy", "zero", "advance", "failed"}
    /\ rBlock \in 0 .. K + M
    /\ survived \subseteq receivedBlocks /\ receivedBlocks \subseteq Block
    /\ receiveSize \in Nat
    /\ received \in Seq(Seq(Byte))
    /\ undecoded \subseteq Nat \ {0} /\ unstarted \subseteq undecoded

SenderPart == SenderTypes /\ Stripes /\ Progress /\ Laid
ReceiverPart == ReceiverTypes /\ Survivors

-----------------------------------------------------------------------------
(* Positions and cells *)

LEMMA Sizes ==
  /\ Size \in Nat /\ Size > 0 /\ K \in Nat /\ K > 0 /\ M \in Nat
  /\ BlockSize \in Nat /\ BlockSize > 0
  /\ Unit \in Nat /\ Unit = BlockSize + 1
  /\ Stripe \in Nat /\ Stripe <= Size
<1>1. /\ Size \in Nat /\ Size > 0 /\ K \in Nat /\ K > 0 /\ M \in Nat
      /\ BlockSize \in Nat /\ BlockSize > 0 /\ Stripe <= Size
  BY SizeAssumption
<1>2. Unit \in Nat /\ Unit = BlockSize + 1
  BY <1>1 DEF Unit
<1>3. Stripe \in Nat
  <2>1. K + M \in Nat
    BY <1>1
  <2> QED BY <1>2, <2>1 DEF Stripe
<1> QED BY <1>1, <1>2, <1>3

LEMMA Division ==
  ASSUME NEW p \in Int
  PROVE  \E k \in Int : p = (Size * k) + Cell(p) /\ Cell(p) \in Cells
<1>1. /\ p = (Size * (p \div Size)) + (p % Size)
      /\ p % Size \in 0 .. Size - 1 /\ p \div Size \in Int
  BY Sizes
<1> QED BY <1>1 DEF Cell, Cells

LEMMA CellType == \A p \in Int : Cell(p) \in Cells /\ Cell(p) \in Nat /\ Cell(p) < Size
  BY Division, Sizes DEF Cells

LEMMA Remainder ==
  ASSUME NEW k \in Int, NEW r \in Cells
  PROVE  Cell((Size * k) + r) = r
  BY Sizes DEF Cell, Cells

LEMMA Multiples ==
  ASSUME NEW k \in Int, NEW p \in Int, NEW r \in Int, p = (Size * k) + r
  PROVE  /\ p + Size = (Size * (k + 1)) + r
         /\ Size * (-k) = -(Size * k)
  BY Sizes

(* Inside the ring, positions and cells advance together. *)
LEMMA CellNext ==
  ASSUME NEW p \in Int, NEW n \in Nat, Cell(p) + n < Size
  PROVE  Cell(p + n) = Cell(p) + n
<1>1. PICK k \in Int : p = (Size * k) + Cell(p) /\ Cell(p) \in Cells
  BY Division
<1>2. p + n = (Size * k) + (Cell(p) + n) /\ Cell(p) + n \in Cells
  BY <1>1, Sizes DEF Cells
<1>3. Cell((Size * k) + (Cell(p) + n)) = Cell(p) + n
  BY <1>2, Remainder
<1> QED BY <1>2, <1>3

(* The position behind the last cell is at cell 0 again. *)
LEMMA CellWrap ==
  ASSUME NEW p \in Int
  PROVE  Cell(p + (Size - Cell(p))) = 0
<1>1. PICK k \in Int : p = (Size * k) + Cell(p) /\ Cell(p) \in Cells
  BY Division
<1>2. p + (Size - Cell(p)) = (Size * (k + 1)) + 0
  BY <1>1, Sizes DEF Cells
<1>3. 0 \in Cells
  BY Sizes DEF Cells
<1> QED BY <1>2, <1>3, Remainder

(* Less than one ring ahead of q, the distance is that of the cells. *)
LEMMA CellDistance ==
  ASSUME NEW p \in Int, NEW q \in Int, q <= p, p < q + Size
  PROVE  Cell(Cell(p) - q) = p - q
<1>1. PICK k \in Int : p = (Size * k) + Cell(p) /\ Cell(p) \in Cells
  BY Division
<1>2. p - q \in Cells /\ -k \in Int
  BY Sizes DEF Cells
<1>3. Cell(p) - q = (Size * (-k)) + (p - q)
  <2>1. Size * k \in Int /\ Cell(p) \in Int
    BY CellType, Sizes
  <2> QED BY <1>1, <2>1, Multiples
<1>4. Cell((Size * (-k)) + (p - q)) = p - q
  BY <1>2, Remainder
<1> QED BY <1>3, <1>4

(* Two positions less than one ring apart do not share a cell. *)
LEMMA CellInjective ==
  ASSUME NEW p \in Int, NEW q \in Int, Cell(p) = Cell(q), p < q + Size, q < p + Size
  PROVE  p = q
<1>1. CASE q <= p
  <2>1. Cell(Cell(p) - q) = p - q BY <1>1, CellDistance
  <2>2. Cell(Cell(q) - q) = 0 BY CellDistance, Sizes
  <2> QED BY <2>1, <2>2
<1>2. CASE p <= q
  <2>1. Cell(Cell(q) - p) = q - p BY <1>2, CellDistance
  <2>2. Cell(Cell(p) - p) = 0 BY CellDistance, Sizes
  <2> QED BY <2>1, <2>2
<1> QED BY <1>1, <1>2

(* Copying bytes to position pos changes the cells from pos on ... *)
LEMMA OverlayInside ==
  ASSUME NEW buffer, NEW pos \in Int, NEW bytes, Len(bytes) \in Nat,
         NEW p \in Int, pos <= p, p < pos + Len(bytes), Len(bytes) <= Size
  PROVE  Overlay(buffer, pos, bytes)[Cell(p)] = bytes[p - pos + 1]
<1>1. Cell(Cell(p) - pos) = p - pos
  BY CellDistance, Sizes
<1>2. Overlay(buffer, pos, bytes)[Cell(p)]
          = IF p - pos < Len(bytes) THEN bytes[p - pos + 1] ELSE buffer[Cell(p)]
  BY <1>1, CellType DEF Overlay
<1> QED BY <1>2

(* ... and no other cell of the ring that ends at pos + Size. *)
LEMMA OverlayOutside ==
  ASSUME NEW buffer, NEW pos \in Int, NEW bytes, Len(bytes) \in Nat,
         NEW p \in Int, pos + Len(bytes) <= p, p < pos + Size
  PROVE  Overlay(buffer, pos, bytes)[Cell(p)] = buffer[Cell(p)]
<1>1. Cell(Cell(p) - pos) = p - pos
  BY CellDistance, Sizes
<1> QED BY <1>1, CellType DEF Overlay

LEMMA OverlayType ==
  ASSUME NEW buffer \in [Cells -> Byte], NEW pos \in Int, NEW bytes \in Seq(Byte)
  PROVE  Overlay(buffer, pos, bytes) \in [Cells -> Byte]
<1> SUFFICES ASSUME NEW c \in Cells
             PROVE  (IF Cell(c - pos) < Len(bytes) THEN bytes[Cell(c - pos) + 1] ELSE buffer[c]) \in Byte
  BY DEF Overlay
<1>1. Cell(c - pos) \in Nat
  <2>1. c - pos \in Int BY Sizes DEF Cells
  <2> QED BY <2>1, CellType
<1>2. CASE Cell(c - pos) < Len(bytes)
  <2>1. Cell(c - pos) + 1 \in 1 .. Len(bytes)
    BY <1>1, <1>2
  <2> QED BY <2>1, <1>2, ElementOfSeq
<1>3. CASE ~(Cell(c - pos) < Len(bytes))
  BY <1>3
<1> QED BY <1>2, <1>3

LEMMA FunctionIsSeq ==
  ASSUME NEW T, NEW n \in Nat, NEW f \in [1 .. n -> T]
  PROVE  f \in Seq(T) /\ Len(f) = n
  OBVIOUS

-----------------------------------------------------------------------------
(* Stripes and blocks *)

(* Multiples of u lie u apart. *)
LEMMA Apart ==
  ASSUME NEW u \in Nat, NEW b \in Nat
  PROVE  /\ b * u \in Nat /\ 0 * u = 0 /\ (b + 1) * u = (b * u) + u
         /\ \A c \in Nat : b < c => (b * u) + u <= c * u
<1>1. b * u \in Nat /\ 0 * u = 0 /\ (b + 1) * u = (b * u) + u
  OBVIOUS
<1>2. ASSUME NEW c \in Nat, b < c PROVE (b * u) + u <= c * u
  <2>1. PICK d \in Nat : c = (b + 1) + d
    <3>1. c - (b + 1) \in Nat /\ c = (b + 1) + (c - (b + 1))
      BY <1>2
    <3> QED BY <3>1
  <2>2. c * u = ((b + 1) * u) + (d * u) /\ d * u \in Nat
    BY <2>1
  <2> QED BY <1>1, <2>2
<1> QED BY <1>1, <1>2

LEMMA BlockRoom ==
  /\ \A b \in Nat : BlockAt(b) \in Nat /\ BlockAt(b + 1) = BlockAt(b) + Unit
  /\ \A b, c \in Nat : b < c => BlockAt(b) + Unit <= BlockAt(c)
  /\ BlockAt(0) = 0 /\ BlockAt(K + M) = Stripe
<1>1. Unit \in Nat
  BY Sizes
<1> HIDE DEF Unit
<1> QED BY <1>1, Apart DEF BlockAt, Stripe

LEMMA StripeRoom ==
  /\ \A n \in Nat : StripeAt(n) \in Nat /\ StripeAt(n + 1) = StripeAt(n) + Stripe
  /\ \A n, m \in Nat : n < m => StripeAt(n) + Stripe <= StripeAt(m)
  /\ StripeAt(0) = 0
<1>1. Stripe \in Nat
  BY Sizes
<1> HIDE DEF Stripe
<1> QED BY <1>1, Apart DEF StripeAt

LEMMA BlockType ==
  ASSUME NEW b \in Block
  PROVE  /\ b \in Nat /\ b < K + M /\ K + M \in Nat
         /\ BlockAt(b) \in Nat /\ BlockAt(b) + Unit <= Stripe
<1>1. b \in Nat /\ b < K + M /\ K + M \in Nat
  BY Sizes DEF Block
<1>2. BlockAt(b) + Unit <= BlockAt(K + M)
  BY <1>1, BlockRoom
<1> QED BY <1>1, <1>2, BlockRoom

(* Where a stripe's bytes lie in the stream *)
LEMMA Position ==
  ASSUME TypeOK, Stripes, NEW s \in DOMAIN sent, NEW b \in Block, NEW o \in 0 .. BlockSize
  PROVE  /\ sent[s].at \in Nat /\ sent[s].at = StripeAt(s - 1) /\ s - 1 \in Nat /\ s \in Nat
         /\ Pos(s, b, o) \in Nat /\ sent[s].at <= Pos(s, b, o)
         /\ Pos(s, b, o) < sent[s].at + Stripe
         /\ At(sent[s].at, b, o) = Cell(Pos(s, b, o))
<1>1. /\ sent \in Seq(SentStripe) /\ DOMAIN sent = 1 .. Len(sent) /\ Len(sent) \in Nat
  BY LenProperties DEF TypeOK
<1>2. s \in Nat /\ s - 1 \in Nat
  BY <1>1
<1>3. sent[s].at = StripeAt(s - 1) /\ StripeAt(s - 1) \in Nat
  BY <1>2, StripeRoom DEF Stripes
<1>4. BlockAt(b) \in Nat /\ BlockAt(b) + Unit <= Stripe /\ b \in Nat
  BY BlockType
<1>5. /\ Pos(s, b, o) \in Nat /\ sent[s].at <= Pos(s, b, o)
      /\ Pos(s, b, o) < sent[s].at + Stripe
  BY <1>3, <1>4, Sizes DEF Pos
<1>6. At(sent[s].at, b, o) = Cell(Pos(s, b, o))
  BY DEF At, Pos, BlockAt
<1> QED BY <1>2, <1>3, <1>5, <1>6

(* A byte of the stream belongs to one block of one stripe. *)
LEMMA SamePlace ==
  ASSUME NEW n \in Nat, NEW b \in Block, NEW o \in 0 .. BlockSize,
         NEW m \in Nat, NEW c \in Block, NEW u \in 0 .. BlockSize,
         StripeAt(n) + BlockAt(b) + o = StripeAt(m) + BlockAt(c) + u
  PROVE  n = m /\ b = c /\ o = u
<1> DEFINE x == StripeAt(n)
           y == StripeAt(m)
           v == BlockAt(b)
           w == BlockAt(c)
<1>1. /\ x \in Nat /\ y \in Nat /\ v \in Nat /\ w \in Nat /\ b \in Nat /\ c \in Nat
      /\ v + Unit <= Stripe /\ w + Unit <= Stripe
  BY StripeRoom, BlockType
<1>2. o \in Nat /\ u \in Nat /\ o < Unit /\ u < Unit /\ Unit \in Nat /\ Stripe \in Nat
  BY Sizes
<1>3. x + v + o = y + w + u
  OBVIOUS
<1>4. n < m => x + Stripe <= y
  BY StripeRoom
<1>5. m < n => y + Stripe <= x
  BY StripeRoom
<1>6. b < c => v + Unit <= w
  BY <1>1, BlockRoom
<1>7. c < b => w + Unit <= v
  BY <1>1, BlockRoom
<1>8. n = m
  <2> HIDE DEF x, y, v, w
  <2> QED BY <1>1, <1>2, <1>3, <1>4, <1>5
<1>9. x = y
  BY <1>8
<1> HIDE DEF x, y, v, w
<1>10. b = c
  BY <1>1, <1>2, <1>3, <1>6, <1>7, <1>9
<1>11. v = w
  BY <1>10 DEF v, w
<1> QED BY <1>1, <1>2, <1>3, <1>8, <1>9, <1>10, <1>11

LEMMA SameByte ==
  ASSUME TypeOK, Stripes,
         NEW s \in DOMAIN sent, NEW b \in Block, NEW o \in 0 .. BlockSize,
         NEW t \in DOMAIN sent, NEW c \in Block, NEW u \in 0 .. BlockSize,
         Pos(s, b, o) = Pos(t, c, u)
  PROVE  s = t /\ b = c /\ o = u
<1>1. /\ sent[s].at = StripeAt(s - 1) /\ s - 1 \in Nat /\ s \in Nat
      /\ sent[t].at = StripeAt(t - 1) /\ t - 1 \in Nat /\ t \in Nat
  BY Position
<1>2. StripeAt(s - 1) + BlockAt(b) + o = StripeAt(t - 1) + BlockAt(c) + u
  BY <1>1 DEF Pos
<1>3. s - 1 = t - 1 /\ b = c /\ o = u
  BY <1>1, <1>2, SamePlace
<1> QED BY <1>1, <1>3

(* Nor does a cell, for positions less than a ring apart. *)
LEMMA SameCell ==
  ASSUME TypeOK, Stripes,
         NEW s \in DOMAIN sent, NEW b \in Block, NEW o \in 0 .. BlockSize,
         NEW t \in DOMAIN sent, NEW c \in Block, NEW u \in 0 .. BlockSize,
         Pos(s, b, o) < Pos(t, c, u) + Size, Pos(t, c, u) < Pos(s, b, o) + Size,
         At(sent[s].at, b, o) = At(sent[t].at, c, u)
  PROVE  s = t /\ b = c /\ o = u
<1>1. /\ Pos(s, b, o) \in Nat /\ At(sent[s].at, b, o) = Cell(Pos(s, b, o))
      /\ Pos(t, c, u) \in Nat /\ At(sent[t].at, c, u) = Cell(Pos(t, c, u))
  BY Position
<1> DEFINE p == Pos(s, b, o)
          q == Pos(t, c, u)
<1>2. p \in Int /\ q \in Int /\ Cell(p) = Cell(q) /\ p < q + Size /\ q < p + Size
  <2>1. p \in Nat /\ q \in Nat
    BY <1>1
  <2>2. Cell(p) = Cell(q)
    BY <1>1
  <2>3. p < q + Size /\ q < p + Size
    OBVIOUS
  <2> QED BY <2>1, <2>2, <2>3
<1> HIDE DEF p, q
<1>3. p = q
  BY <1>2, CellInjective
<1> USE DEF p, q
<1>4. Pos(s, b, o) = Pos(t, c, u)
  BY <1>3
<1> QED BY <1>4, SameByte


-----------------------------------------------------------------------------
(* Types of what the actions compute *)

LEMMA Parts == SendInv <=> SenderPart /\ CardTypes /\ ReceiverPart /\ Granted
<1>1. TypeOK <=> SenderTypes /\ CardTypes /\ ReceiverTypes
  BY Zenon DEF TypeOK, SenderTypes, CardTypes, ReceiverTypes
<1> QED BY <1>1, Zenon DEF SendInv, SenderPart, ReceiverPart

LEMMA SenderKept ==
  ASSUME SenderPart, UNCHANGED <<sPc, sBlock, sent, sendBuffer, sendPos, unencoded>>, readQp' \in Block
  PROVE  SenderPart'
<1>1. SenderTypes'
  BY DEF SenderPart, SenderTypes
<1>2. Current' = Current /\ IsCoded' = IsCoded /\ PartBegin' = PartBegin /\ Writing' = Writing
  BY DEF Current, IsCoded, PartBegin, Writing
<1>3. Stripes'
  BY DEF SenderPart, Stripes
<1>4. Progress'
  BY <1>2 DEF SenderPart, Progress
<1>5. Laid'
  <2>1. PaddedOnly' = PaddedOnly
    BY DEF PaddedOnly, Writing
  <2>2. ASSUME NEW b \in Block, NEW o \in 0 .. BlockSize
        PROVE  /\ LaidByte(b, o)' = LaidByte(b, o)
               /\ Pos(Len(sent), b, o)' = Pos(Len(sent), b, o)
    BY <2>1 DEF LaidByte, BlockByte, Pos
  <2> QED BY <2>1, <2>2 DEF SenderPart, Laid
<1> QED BY <1>1, <1>3, <1>4, <1>5 DEF SenderPart

LEMMA SenderUnchanged ==
  ASSUME SenderPart, UNCHANGED senderVars
  PROVE  SenderPart'
<1>1. readQp' \in Block /\ UNCHANGED <<sPc, sBlock, sent, sendBuffer, sendPos, unencoded>>
  BY DEF senderVars, SenderPart, SenderTypes
<1> QED BY <1>1, SenderKept

LEMMA CardUnchanged ==
  ASSUME CardTypes, UNCHANGED nicVars
  PROVE  CardTypes'
  BY DEF CardTypes, nicVars

LEMMA ReceiverUnchanged ==
  ASSUME ReceiverPart, UNCHANGED receiverVars, UNCHANGED receiveBuffer
  PROVE  ReceiverPart'
<1>1. ReceiverTypes'
  BY DEF ReceiverPart, ReceiverTypes, receiverVars
<1>2. Survivors'
  BY DEF ReceiverPart, Survivors, receiverVars
<1> QED BY <1>1, <1>2 DEF ReceiverPart

(* The current message *)
LEMMA Messages ==
  ASSUME SenderTypes
  PROVE  /\ DOMAIN sent = 1 .. Len(sent) /\ Len(sent) \in Nat
         /\ sent # <<>> => Len(sent) \in DOMAIN sent /\ Current \in SentStripe
         /\ \A s \in DOMAIN sent : /\ sent[s] \in SentStripe /\ sent[s].data \in Seq(Byte)
                                   /\ sent[s].at \in Nat /\ s \in Nat /\ s - 1 \in Nat
                                   /\ Len(sent[s].data) \in Nat
<1>1. sent \in Seq(SentStripe)
  BY DEF SenderTypes
<1>2. DOMAIN sent = 1 .. Len(sent) /\ Len(sent) \in Nat
  BY <1>1, LenProperties
<1>3. ASSUME NEW s \in DOMAIN sent
      PROVE  /\ sent[s] \in SentStripe /\ sent[s].data \in Seq(Byte)
             /\ sent[s].at \in Nat /\ s \in Nat /\ s - 1 \in Nat
             /\ Len(sent[s].data) \in Nat
  <2>1. s \in 1 .. Len(sent)
    BY <1>2
  <2>2. sent[s] \in SentStripe
    BY <1>1, <2>1, ElementOfSeq
  <2>3. sent[s].data \in Message /\ sent[s].at \in Nat
    BY <2>2 DEF SentStripe
  <2>4. sent[s].data \in Seq(Byte)
    BY <2>3, ByteAssumption
  <2> QED BY <1>2, <2>1, <2>2, <2>3, <2>4, LenProperties
<1>4. ASSUME sent # <<>> PROVE Len(sent) \in DOMAIN sent /\ Current \in SentStripe
  <2>1. Len(sent) \in DOMAIN sent
    <3>1. Len(sent) # 0
      BY <1>1, <1>4, EmptySeq
    <3> QED BY <1>2, <3>1
  <2> QED BY <1>3, <2>1 DEF Current
<1> QED BY <1>2, <1>3, <1>4

LEMMA StreamType ==
  ASSUME SenderTypes, Stripes, NEW s \in DOMAIN sent, NEW x \in Nat
  PROVE  StreamByte(sent[s].data, x) \in Byte
<1> DEFINE m == sent[s].data
<1>1. m \in Seq(Byte) /\ Len(m) \in Nat
  BY Messages
<1>2. Len(m) \in Byte
  <2>1. 1 + Len(m) <= BlockSize * K
    BY DEF Stripes
  <2>2. BlockSize * K = K * BlockSize /\ K * BlockSize \in Nat
    BY Sizes
  <2>3. Len(m) \in 0 .. K * BlockSize - 1
    BY <1>1, <2>1, <2>2
  <2> QED BY <2>3, ByteAssumption
<1>3. ASSUME x \in 1 .. Len(m) PROVE m[x] \in Byte
  BY <1>1, <1>3, ElementOfSeq
<1>4. Pad \in Byte
  BY ByteAssumption
<1> HIDE DEF m
<1>5. StreamByte(m, x) \in Byte
  BY <1>2, <1>3, <1>4 DEF StreamByte
<1> QED BY <1>5 DEF m

(* The cases of BlockByte *)
LEMMA BlockByteCases ==
  ASSUME NEW s, NEW b \in Block, NEW o \in 0 .. BlockSize
  PROVE  /\ o = BlockSize => BlockByte(s, b, o) = Validity
         /\ o # BlockSize /\ b < K
                => BlockByte(s, b, o) = StreamByte(sent[s].data, b * BlockSize + o)
         /\ o # BlockSize /\ ~(b < K) /\ s \in unencoded => BlockByte(s, b, o) = Pad
         /\ o # BlockSize /\ ~(b < K) /\ s \notin unencoded
                => BlockByte(s, b, o)
                      = Parity(b - K, [d \in Data |->
                                          StreamByte(sent[s].data, d * BlockSize + o)])
<1> DEFINE column == [d \in Data |-> StreamByte(sent[s].data, d * BlockSize + o)]
<1>1. b \in Nat /\ K \in Nat
  BY BlockType, Sizes
<1>2. CodeWord(column)[b] = IF b < K THEN column[b] ELSE Parity(b - K, column)
  BY DEF CodeWord
<1>3. b < K => column[b] = StreamByte(sent[s].data, b * BlockSize + o)
  BY <1>1 DEF Data
<1>4. BlockByte(s, b, o) = IF o = BlockSize THEN Validity
                           ELSE IF b >= K /\ s \in unencoded THEN Pad ELSE CodeWord(column)[b]
  BY DEF BlockByte
<1>5. ~(b < K) <=> b >= K
  BY <1>1
<1> HIDE DEF column
<1>6. /\ o = BlockSize => BlockByte(s, b, o) = Validity
      /\ o # BlockSize /\ b < K => BlockByte(s, b, o) = StreamByte(sent[s].data, b * BlockSize + o)
      /\ o # BlockSize /\ ~(b < K) /\ s \in unencoded => BlockByte(s, b, o) = Pad
      /\ o # BlockSize /\ ~(b < K) /\ s \notin unencoded => BlockByte(s, b, o) = Parity(b - K, column)
  BY <1>2, <1>3, <1>4, <1>5
<1> QED BY <1>6 DEF column

LEMMA PlainByte ==
  ASSUME NEW s, NEW b \in Block, NEW o \in 0 .. BlockSize
  PROVE  /\ o = BlockSize => BlockByte(s, b, o) = Validity
         /\ o # BlockSize /\ b < K
                => BlockByte(s, b, o) = StreamByte(sent[s].data, b * BlockSize + o)
         /\ o # BlockSize /\ ~(b < K) /\ s \in unencoded => BlockByte(s, b, o) = Pad
  BY BlockByteCases, Zenon

LEMMA BlockByteType ==
  ASSUME SenderTypes, Stripes, NEW s \in DOMAIN sent, NEW b \in Block, NEW o \in 0 .. BlockSize
  PROVE  BlockByte(s, b, o) \in Byte
<1>1. \A d \in Nat : d * BlockSize + o \in Nat
  BY Sizes
<1>2. b \in Nat /\ b < K + M
  BY BlockType
<1>3. Data \subseteq Nat
  BY DEF Data
<1>4. [d \in Data |-> StreamByte(sent[s].data, d * BlockSize + o)] \in Column
  BY <1>1, <1>3, StreamType DEF Column
<1>5. ASSUME ~(b < K)
      PROVE  Parity(b - K, [d \in Data |-> StreamByte(sent[s].data, d * BlockSize + o)]) \in Byte
  <2>1. b - K \in 0 .. M - 1
    BY <1>2, <1>5, Sizes
  <2> QED BY <1>4, <2>1, CodeAssumption
<1>6. StreamByte(sent[s].data, b * BlockSize + o) \in Byte
  BY <1>1, <1>2, StreamType
<1> QED BY <1>5, <1>6, ByteAssumption, BlockByteCases

LEMMA AtType ==
  ASSUME NEW pos \in Int, NEW b \in Int, NEW o \in Int
  PROVE  At(pos, b, o) \in Cells
<1>1. pos + b * Unit + o \in Int
  BY Sizes
<1> QED BY <1>1, CellType DEF At

(* Numbering the bytes of blocks on end *)
LEMMA Split ==
  ASSUME NEW n \in Nat, NEW i \in 1 .. n * Unit
  PROVE  /\ (i - 1) \div Unit \in 0 .. n - 1
         /\ (i - 1) % Unit \in 0 .. BlockSize
<1> DEFINE d == (i - 1) \div Unit
           r == (i - 1) % Unit
           j == i - 1
<1>1. Unit \in Nat /\ Unit > 0 /\ Unit = BlockSize + 1 /\ BlockSize \in Nat
  BY Sizes
<1>2. n * Unit \in Nat
  BY <1>1
<1>3. j \in Nat /\ j < n * Unit
  BY <1>2
<1> HIDE DEF Unit
<1>4. d \in Int /\ r \in 0 .. Unit - 1 /\ j = (Unit * d) + r
  <2> HIDE DEF j
  <2>1. j \div Unit \in Int /\ j % Unit \in 0 .. Unit - 1 /\ j = (Unit * (j \div Unit)) + (j % Unit)
    BY <1>1, <1>3
  <2> QED BY <2>1 DEF j
<1> HIDE DEF d, r, j
<1>5. d >= 0
  <2> SUFFICES ASSUME d <= -1 PROVE FALSE
    BY <1>4
  <2>1. Unit * d <= -Unit
    BY <1>1, <1>4
  <2>2. Unit * d \in Int
    BY <1>1, <1>4
  <2> QED BY <1>1, <1>3, <1>4, <2>1, <2>2
<1>6. d < n
  <2> SUFFICES ASSUME n <= d PROVE FALSE
    BY <1>4
  <2>1. n * Unit <= Unit * d
    BY <1>1, <1>4, <1>5
  <2>2. Unit * d \in Int
    BY <1>1, <1>4
  <2> QED BY <1>1, <1>2, <1>3, <1>4, <2>1, <2>2
<1>7. d \in 0 .. n - 1 /\ r \in 0 .. BlockSize
  BY <1>1, <1>4, <1>5, <1>6
<1> QED BY <1>7 DEF d, r

LEMMA Joined ==
  ASSUME NEW b \in Nat, NEW o \in 0 .. BlockSize
  PROVE  (b * Unit + o) \div Unit = b /\ (b * Unit + o) % Unit = o
<1>1. Unit \in Nat /\ Unit > 0 /\ o \in Nat /\ o < Unit
  BY Sizes
<1> HIDE DEF Unit
<1> QED BY <1>1

(* The bytes a call of writeToSendBuffer or zeroSendBuffer writes *)
LEMMA FilledType ==
  ASSUME SenderTypes, Stripes, NEW s \in DOMAIN sent, NEW b \in Nat
  PROVE  /\ Filled(sent[s].data, b) \in 0 .. BlockSize
         /\ b = 0 => Filled(sent[s].data, b) >= 1
         /\ b >= K => Filled(sent[s].data, b) = 0
<1> DEFINE n == Len(sent[s].data)
           left == 1 + n - b * BlockSize
<1>1. n \in Nat /\ BlockSize \in Nat /\ BlockSize > 0 /\ K > 0 /\ K \in Nat
  BY Messages, Sizes
<1>2. b * BlockSize \in Nat /\ (b = 0 => b * BlockSize = 0)
  BY <1>1
<1>3. left \in Int /\ (b = 0 => left >= 1)
  BY <1>1, <1>2
<1>4. Filled(sent[s].data, b)
          = IF b >= K \/ left <= 0 THEN 0 ELSE IF left > BlockSize THEN BlockSize ELSE left
  BY DEF Filled
<1> HIDE DEF n, left
<1> QED BY <1>1, <1>3, <1>4

LEMMA WritingBlock ==
  ASSUME SenderPart, Writing
  PROVE  /\ sent # <<>> /\ Len(sent) \in DOMAIN sent /\ Current = sent[Len(sent)]
         /\ sBlock \in Block /\ sBlock \in Nat
         /\ sendPos = Current.at + BlockAt(sBlock) + PartBegin
         /\ Current.at \in Nat /\ BlockAt(sBlock) \in Nat
<1>1. sent # <<>> /\ sBlock < K + M /\ sendPos = Current.at + BlockAt(sBlock) + PartBegin
  BY DEF SenderPart, Progress, Writing
<1>2. Len(sent) \in DOMAIN sent
  BY <1>1, Messages DEF SenderPart
<1>3. sBlock \in Block
  BY <1>1, Sizes DEF SenderPart, SenderTypes, Block
<1> QED BY <1>1, <1>2, <1>3, BlockType, Messages DEF SenderPart, Current

LEMMA PartBounds ==
  ASSUME SenderPart, Writing
  PROVE  /\ PartBegin \in Nat /\ PartEnd \in Nat /\ PartLen \in Nat
         /\ PartEnd = PartBegin + PartLen /\ PartEnd <= Unit
         /\ sPc # "validity" => PartEnd <= BlockSize
<1>1. /\ BlockSize \in Nat /\ BlockSize > 0 /\ Unit = BlockSize + 1
  BY Sizes
<1>2. Filled(Current.data, sBlock) \in 0 .. BlockSize /\ (sBlock = 0 => Filled(Current.data, sBlock) >= 1)
  BY WritingBlock, FilledType DEF SenderPart
<1>3. sPc \in {"length", "data", "pad", "validity"}
  BY DEF Writing
<1> DEFINE f == Filled(Current.data, sBlock)
<1>4. /\ PartBegin = CASE sPc = "length"   -> 0
                       [] sPc = "data"     -> IF sBlock = 0 THEN 1 ELSE 0
                       [] sPc = "pad"      -> f
                       [] sPc = "validity" -> BlockSize
      /\ PartEnd = CASE sPc = "length"   -> 1
                     [] sPc = "data"     -> f
                     [] sPc = "pad"      -> BlockSize
                     [] sPc = "validity" -> Unit
  BY DEF PartBegin, PartEnd
<1>5. f \in 0 .. BlockSize /\ (sBlock = 0 => f >= 1)
  BY <1>2
<1> HIDE DEF f
<1>6. PartBegin \in Nat /\ PartEnd \in Nat /\ PartBegin <= PartEnd /\ PartEnd <= Unit
      /\ (sPc # "validity" => PartEnd <= BlockSize)
  <2>1. CASE sPc = "length"
    BY <1>1, <1>4, <2>1
  <2>2. CASE sPc = "data"
    BY <1>1, <1>4, <1>5, <2>2
  <2>3. CASE sPc = "pad"
    BY <1>1, <1>4, <1>5, <2>3
  <2>4. CASE sPc = "validity"
    BY <1>1, <1>4, <2>4
  <2> QED BY <1>3, <2>1, <2>2, <2>3, <2>4
<1> QED BY <1>6 DEF PartLen

(* Byte o of the block send() is at, as the call writes it *)
LEMMA PartByte ==
  ASSUME SenderPart, Writing, NEW o \in PartBegin .. PartEnd - 1
  PROVE  /\ o \in 0 .. BlockSize /\ o - PartBegin + 1 \in 1 .. PartLen
         /\ Part[o - PartBegin + 1] = LaidByte(sBlock, o)
<1>1. /\ BlockSize \in Nat /\ BlockSize > 0 /\ Unit = BlockSize + 1 /\ K \in Nat
  BY Sizes
<1>2. /\ PartBegin \in Nat /\ PartEnd \in Nat /\ PartLen \in Nat
      /\ PartEnd = PartBegin + PartLen /\ PartEnd <= Unit
  BY PartBounds
<1>3. o \in Nat /\ o < PartEnd /\ o \in 0 .. BlockSize /\ o - PartBegin + 1 \in 1 .. PartLen
  BY <1>1, <1>2
<1>4. Part[o - PartBegin + 1]
          = IF sPc = "validity" THEN Validity
            ELSE StreamByte(Current.data, sBlock * BlockSize + PartBegin + (o - PartBegin + 1) - 1)
  BY <1>3 DEF Part
<1>5. CASE sPc = "validity"
  <2>1. o = BlockSize
    <3>1. PartBegin = BlockSize
      BY <1>5 DEF PartBegin
    <3> QED BY <1>1, <1>2, <1>3, <3>1
  <2>2. LaidByte(sBlock, o) = Validity
    <3>1. ~(o < BlockSize)
      BY <1>1, <2>1
    <3>2. BlockByte(Len(sent), sBlock, o) = Validity
      BY <1>3, <2>1, WritingBlock, PlainByte
    <3> QED BY <3>1, <3>2 DEF LaidByte
  <2> QED BY <1>3, <1>4, <1>5, <2>2
<1>6. CASE sPc # "validity"
  <2>1. o < BlockSize
    BY <1>1, <1>2, <1>3, <1>6, PartBounds
  <2>2. sBlock \in Nat /\ sBlock * BlockSize \in Nat
    BY <1>1, WritingBlock
  <2>3. sBlock * BlockSize + PartBegin + (o - PartBegin + 1) - 1 = sBlock * BlockSize + o
    BY <1>2, <1>3, <2>2
  <2>4. Part[o - PartBegin + 1] = StreamByte(Current.data, sBlock * BlockSize + o)
    BY <1>4, <1>6, <2>3
  <2>5. CASE sBlock < K
    <3>1. LaidByte(sBlock, o) = BlockByte(Len(sent), sBlock, o)
      BY <1>1, <2>2, <2>5 DEF LaidByte
    <3>2. BlockByte(Len(sent), sBlock, o) = StreamByte(Current.data, sBlock * BlockSize + o)
      <4>1. o # BlockSize
        BY <1>1, <2>1
      <4>2. Current = sent[Len(sent)] /\ sBlock \in Block
        BY WritingBlock
      <4>3. BlockByte(Len(sent), sBlock, o) = StreamByte(sent[Len(sent)].data, sBlock * BlockSize + o)
        BY <1>3, <2>5, <4>1, <4>2, PlainByte
      <4> QED BY <4>2, <4>3
    <3> QED BY <1>3, <2>4, <3>1, <3>2
  <2>6. CASE sBlock >= K
    <3>1. LaidByte(sBlock, o) = Pad
      BY <2>1, <2>6 DEF LaidByte, PaddedOnly
    <3>2. StreamByte(Current.data, sBlock * BlockSize + o) = Pad
      <4> DEFINE n == Len(Current.data)
                 x == sBlock * BlockSize + o
      <4>1. n \in Nat /\ 1 + n <= BlockSize * K
        BY WritingBlock, Messages DEF Stripes, SenderPart
      <4>2. BlockSize * K <= sBlock * BlockSize
        BY <1>1, <2>2, <2>6
      <4>3. BlockSize * K \in Nat /\ x \in Nat
        BY <1>1, <1>3, <2>2
      <4>4. x > n
        BY <1>3, <2>2, <4>1, <4>2, <4>3
      <4> HIDE DEF n, x
      <4>5. x # 0 /\ x \notin 1 .. n
        BY <4>1, <4>3, <4>4
      <4>6. StreamByte(Current.data, x) = Pad
        BY <4>5 DEF StreamByte, n
      <4> QED BY <4>6 DEF x
    <3> QED BY <1>3, <2>4, <3>1, <3>2
  <2> QED BY <1>1, <2>2, <2>5, <2>6
<1> QED BY <1>5, <1>6

LEMMA PartType ==
  ASSUME SenderPart, Writing
  PROVE  Part \in Seq(Byte) /\ Len(Part) = PartLen
<1>1. PartLen \in Nat /\ PartBegin \in Nat
  BY PartBounds
<1>2. ASSUME NEW i \in 1 .. PartLen
      PROVE (IF sPc = "validity" THEN Validity
            ELSE StreamByte(Current.data, sBlock * BlockSize + PartBegin + i - 1)) \in Byte
  <2>1. sBlock * BlockSize + PartBegin + i - 1 \in Nat
    <3>1. sBlock \in Nat /\ BlockSize \in Nat
      BY WritingBlock, Sizes
    <3>2. sBlock * BlockSize \in Nat
      BY <3>1
    <3> QED BY <1>1, <3>2
  <2>2. StreamByte(Current.data, sBlock * BlockSize + PartBegin + i - 1) \in Byte
    BY <2>1, WritingBlock, StreamType DEF SenderPart
  <2> QED BY <2>2, ByteAssumption
<1>3. Part \in [1 .. PartLen -> Byte]
  BY <1>2 DEF Part
<1> QED BY <1>1, <1>3, FunctionIsSeq

-----------------------------------------------------------------------------
(* The steps of send() *)

LEMMA PartsPrimed == SendInv' <=> SenderPart' /\ CardTypes' /\ ReceiverPart' /\ Granted'
<1>1. TypeOK' <=> SenderTypes' /\ CardTypes' /\ ReceiverTypes'
  BY Zenon DEF TypeOK, SenderTypes, CardTypes, ReceiverTypes
<1> QED BY <1>1, Zenon DEF SendInv, SenderPart, ReceiverPart

LEMMA StartSendStep ==
  ASSUME SendInv, NEW m \in Message, StartSend(m)
  PROVE  SendInv'
<1> DEFINE record == [data |-> m, at |-> sendPos]
           n == Len(sent)
<1>1. SenderTypes /\ Stripes /\ Progress /\ Laid /\ CardTypes /\ ReceiverPart /\ Granted
  BY Parts DEF SenderPart
<1>2. /\ sPc = "idle" /\ sent' = Append(sent, record) /\ sPc' = "length" /\ sBlock' = 0
      /\ 1 + Len(m) <= BlockSize * K
      /\ UNCHANGED <<sendBuffer, sendPos, readQp, unencoded>>
      /\ UNCHANGED nicVars /\ UNCHANGED receiverVars /\ UNCHANGED receiveBuffer
  BY Zenon DEF StartSend
<1>3. CardTypes' /\ ReceiverPart'
  BY <1>1, <1>2, CardUnchanged, ReceiverUnchanged
<1>4. sent \in Seq(SentStripe) /\ n \in Nat /\ DOMAIN sent = 1 .. n /\ record \in SentStripe
  BY <1>1, Messages DEF SenderTypes, SentStripe
<1>5. /\ sent' \in Seq(SentStripe) /\ Len(sent') = n + 1 /\ DOMAIN sent' = 1 .. n + 1
      /\ sent'[n + 1] = record
      /\ \A i \in 1 .. n : sent'[i] = sent[i]
  BY <1>2, <1>4, AppendProperties
<1>6. SenderTypes'
  <2>1. unencoded' \subseteq DOMAIN sent'
    BY <1>1, <1>2, <1>4, <1>5 DEF SenderTypes
  <2>2. sBlock' \in 0 .. K + M
    BY <1>2, Sizes
  <2> QED BY <1>1, <1>2, <1>5, <2>1, <2>2 DEF SenderTypes
<1>7. sendPos = StripeAt(n) /\ sendPos \in Nat
  BY <1>1, <1>2 DEF Progress, SenderTypes
<1>8. Stripes'
  <2> SUFFICES ASSUME NEW i \in 1 .. n + 1
               PROVE  sent'[i].at = StripeAt(i - 1) /\ 1 + Len(sent'[i].data) <= BlockSize * K
    BY <1>5 DEF Stripes, StripeAt, Stripe, Unit
  <2>1. CASE i \in 1 .. n
    BY <1>1, <1>4, <1>5, <2>1 DEF Stripes
  <2>2. CASE i = n + 1
    <3>1. (n + 1) - 1 = n
      BY <1>4
    <3> QED BY <1>2, <1>5, <1>7, <2>2, <3>1
  <2> QED BY <1>4, <2>1, <2>2
<1>9. Current' = record
  BY <1>5 DEF Current
<1>10. Writing' /\ PartBegin' = 0 /\ PaddedOnly'
  BY <1>2 DEF Writing, PartBegin, PaddedOnly
<1>11. Progress'
  <2>1. sent' # <<>>
    BY <1>4, <1>5
  <2>2. sendPos' = Current'.at + BlockAt(sBlock') + PartBegin'
    BY <1>2, <1>7, <1>9, <1>10, BlockRoom
  <2>3. 0 < K + M /\ 0 < K
    BY Sizes
  <2>4. BlockAt(sBlock)' = BlockAt(sBlock')
    BY DEF BlockAt
  <2> QED BY <1>2, <2>1, <2>2, <2>3, <2>4 DEF Progress
<1>12. Laid'
  <2>1. Len(sent') \notin unencoded'
    BY <1>1, <1>2, <1>4, <1>5 DEF SenderTypes
  <2>2. ASSUME NEW b \in Block, NEW o \in 0 .. BlockSize
        PROVE  ~(Pos(Len(sent), b, o)' < sendPos')
    <3>1. Pos(Len(sent), b, o)' = sendPos + BlockAt(b) + o
      BY <1>5, <1>9 DEF Pos, Current, BlockAt, Unit
    <3>2. BlockAt(b) \in Nat /\ o \in Nat
      BY BlockType, Sizes
    <3> QED BY <1>2, <1>7, <3>1, <3>2
  <2> QED BY <2>1, <2>2, Zenon DEF Laid
<1>13. Granted'
  BY <1>1, <1>2, <1>10 DEF Granted, Writing, nicVars, receiverVars
<1> QED BY <1>3, <1>6, <1>8, <1>11, <1>12, <1>13, PartsPrimed DEF SenderPart

(* send() has a block behind it and goes on to the next one. *)
LEMMA NextBlockStep ==
  ASSUME SenderTypes, Stripes, sent # <<>>, sBlock \in Block, NextBlock(sBlock),
         UNCHANGED sent, sendPos' = Current.at + BlockAt(sBlock) + Unit
  PROVE  /\ sBlock' \in 0 .. K + M
         /\ sPc' \in {"data", "pad", "encode", "idle"}
         /\ Progress'
<1>1. /\ Len(sent) \in Nat /\ Len(sent) \in DOMAIN sent /\ Current.at \in Nat
      /\ Current.at = StripeAt(Len(sent) - 1) /\ Len(sent) - 1 \in Nat
  BY Messages DEF Current, Stripes
<1>2. /\ sBlock \in Nat /\ sBlock < K + M /\ K \in Nat /\ K > 0 /\ M \in Nat
      /\ BlockAt(sBlock + 1) = BlockAt(sBlock) + Unit /\ BlockAt(K + M) = Stripe
      /\ BlockAt(sBlock) \in Nat /\ Unit \in Nat /\ BlockAt(sBlock + 1) \in Nat
  <2>1. sBlock \in Nat /\ sBlock < K + M /\ BlockAt(sBlock) \in Nat
    BY BlockType
  <2>2. sBlock + 1 \in Nat
    BY <2>1
  <2>3. BlockAt(sBlock + 1) = BlockAt(sBlock) + Unit /\ BlockAt(sBlock + 1) \in Nat
        /\ BlockAt(K + M) = Stripe
    BY <2>1, <2>2, BlockRoom
  <2> QED BY <2>1, <2>3, Sizes
<1>3. Current' = Current /\ IsCoded' = IsCoded
  BY DEF Current, IsCoded
<1>4. sendPos' = Current.at + BlockAt(sBlock + 1)
  BY <1>1, <1>2
<1>5. BlockAt(sBlock)' = BlockAt(sBlock')
  BY DEF BlockAt
<1>6. CASE sBlock + 1 < K + M
  <2>1. sBlock' = sBlock + 1 /\ sPc' = IF sBlock + 1 < K THEN "data" ELSE "pad"
    BY <1>6 DEF NextBlock
  <2>2. PartBegin' = 0
    <3>1. CASE sBlock + 1 < K
      BY <1>2, <2>1, <3>1 DEF PartBegin
    <3>2. CASE ~(sBlock + 1 < K)
      <4>1. Filled(Current.data, sBlock + 1) = 0
        <5>1. sBlock + 1 \in Nat /\ sBlock + 1 >= K
          BY <1>2, <3>2
        <5> QED BY <1>1, <5>1, FilledType DEF Current
      <4>2. Filled(Current.data, sBlock)' = Filled(Current.data, sBlock + 1)
        BY <1>3, <2>1 DEF Filled
      <4> QED BY <2>1, <3>2, <4>1, <4>2 DEF PartBegin
    <3> QED BY <3>1, <3>2
  <2>3. sendPos' = Current'.at + BlockAt(sBlock') + PartBegin'
    BY <1>1, <1>2, <1>3, <1>4, <2>1, <2>2
  <2>4. sBlock' < K + M /\ sBlock' \in 0 .. K + M
    BY <1>2, <1>6, <2>1
  <2>5. sPc' = "data" => sBlock' < K
    BY <2>1
  <2>6. sPc' \in {"data", "pad"}
    BY <2>1
  <2>7. Progress'
    BY <1>5, <2>3, <2>4, <2>5, <2>6 DEF Progress
  <2> QED BY <2>4, <2>6, <2>7
<1>7. CASE ~(sBlock + 1 < K + M)
  <2>1. sBlock + 1 = K + M
    BY <1>2, <1>7
  <2>2. sendPos' = Current.at + Stripe
    BY <1>2, <1>4, <2>1
  <2>3. sendPos' = StripeAt(Len(sent))
    <3>1. StripeAt((Len(sent) - 1) + 1) = StripeAt(Len(sent) - 1) + Stripe
      BY <1>1, StripeRoom
    <3>2. (Len(sent) - 1) + 1 = Len(sent)
      BY <1>1
    <3> QED BY <1>1, <2>2, <3>1, <3>2
  <2>4. CASE IsCoded
    <3>1. sBlock' = K /\ sPc' = "encode"
      BY <1>7, <2>4 DEF NextBlock
    <3>2. Progress'
      BY <1>3, <2>2, <2>4, <3>1 DEF Progress, Writing, Stripe, Unit
    <3> QED BY <1>2, <3>1, <3>2
  <2>5. CASE ~IsCoded
    <3>1. sBlock' = 0 /\ sPc' = "idle"
      BY <1>7, <2>5 DEF NextBlock
    <3>2. StripeAt(Len(sent))' = StripeAt(Len(sent))
      BY DEF StripeAt, Stripe, Unit
    <3>3. Progress'
      BY <2>3, <3>1, <3>2 DEF Progress, Writing
    <3> QED BY <1>2, <3>1, <3>3
  <2> QED BY <2>4, <2>5
<1> QED BY <1>6, <1>7

LEMMA CellRing ==
  ASSUME NEW p \in Int
  PROVE  Cell(p + Size) = Cell(p)
<1>1. PICK k \in Int : p = (Size * k) + Cell(p) /\ Cell(p) \in Cells
  BY Division
<1>2. Cell(p) \in Int /\ k + 1 \in Int
  BY <1>1, CellType
<1>3. p + Size = (Size * (k + 1)) + Cell(p)
  BY <1>1, <1>2, Multiples
<1> QED BY <1>1, <1>2, <1>3, Remainder

(* Byte o of block b of the running send()'s stripe *)
LEMMA CurrentPosition ==
  ASSUME SenderTypes, Stripes, sent # <<>>, NEW b \in Block, NEW o \in 0 .. BlockSize
  PROVE  /\ Current.at \in Nat /\ Pos(Len(sent), b, o) = Current.at + BlockAt(b) + o
         /\ Pos(Len(sent), b, o) \in Nat /\ Current.at <= Pos(Len(sent), b, o)
         /\ Pos(Len(sent), b, o) < Current.at + Stripe
<1>1. Current.at \in Nat /\ Pos(Len(sent), b, o) = Current.at + BlockAt(b) + o
  BY Messages DEF Current, Pos
<1>2. BlockAt(b) \in Nat /\ BlockAt(b) + Unit <= Stripe
  BY BlockType
<1>3. o \in Nat /\ o < Unit /\ Unit \in Nat /\ Stripe \in Nat
  BY Sizes
<1> QED BY <1>1, <1>2, <1>3

LEMMA WrittenProgress ==
  ASSUME SenderPart, WriteToSendBuffer
  PROVE  /\ sBlock' \in 0 .. K + M
         /\ sPc' \in {"data", "pad", "validity", "post", "encode", "idle"}
         /\ sPc' = "idle" \/ PaddedOnly'
         /\ Progress'
<1>1. /\ Writing /\ sendPos' = sendPos + PartLen
      /\ UNCHANGED <<sent, readQp, unencoded>>
  BY DEF WriteToSendBuffer
<1>2. /\ PartBegin \in Nat /\ PartEnd \in Nat /\ PartLen \in Nat /\ PartEnd = PartBegin + PartLen
  BY <1>1, PartBounds
<1>3. /\ sent # <<>> /\ sBlock \in Block /\ sBlock \in Nat /\ sBlock < K + M
      /\ sendPos = Current.at + BlockAt(sBlock) + PartBegin
      /\ Current.at \in Nat /\ BlockAt(sBlock) \in Nat
  BY <1>1, WritingBlock, BlockType
<1>4. sendPos' = Current.at + BlockAt(sBlock) + PartEnd
  BY <1>1, <1>2, <1>3
<1>5. Current' = Current /\ IsCoded' = IsCoded
  BY <1>1 DEF Current, IsCoded
<1>6. BlockAt(sBlock)' = BlockAt(sBlock')
  BY DEF BlockAt
<1>7. sPc \in {"length", "data", "pad", "validity"} /\ sBlock \in 0 .. K + M
  BY <1>1 DEF Writing, SenderPart, SenderTypes
<1>8. K \in Nat /\ M \in Nat /\ K > 0
  BY Sizes
<1>9. CASE sPc = "length"
  <2>1. sPc' = "data" /\ sBlock' = sBlock
    BY <1>9 DEF WriteToSendBuffer
  <2>2. sBlock = 0 /\ PartEnd = 1
    BY <1>9 DEF SenderPart, Progress, PartEnd
  <2>3. PartBegin' = 1
    BY <2>1, <2>2 DEF PartBegin
  <2>4. Progress'
    BY <1>1, <1>3, <1>4, <1>5, <1>6, <1>8, <2>1, <2>2, <2>3 DEF Progress
  <2> QED BY <1>7, <2>1, <2>4 DEF PaddedOnly, Writing
<1>10. CASE sPc = "data"
  <2>1. sPc' = "pad" /\ sBlock' = sBlock
    BY <1>10 DEF WriteToSendBuffer
  <2>2. PartBegin' = PartEnd
    <3>1. Filled(Current.data, sBlock)' = Filled(Current.data, sBlock)
      BY <1>5, <2>1 DEF Filled
    <3> QED BY <1>10, <2>1, <3>1 DEF PartBegin, PartEnd
  <2>3. Progress'
    BY <1>1, <1>3, <1>4, <1>5, <1>6, <2>1, <2>2 DEF Progress
  <2> QED BY <1>7, <2>1, <2>3 DEF PaddedOnly, Writing
<1>11. CASE sPc = "pad"
  <2>1. sPc' = "validity" /\ sBlock' = sBlock
    BY <1>11 DEF WriteToSendBuffer
  <2>2. PartBegin' = PartEnd
    BY <1>11, <2>1 DEF PartBegin, PartEnd
  <2>3. Progress'
    BY <1>1, <1>3, <1>4, <1>5, <1>6, <2>1, <2>2 DEF Progress
  <2> QED BY <1>7, <2>1, <2>3 DEF PaddedOnly, Writing
<1>12. CASE sPc = "validity"
  <2>1. PartEnd = Unit
    BY <1>12 DEF PartEnd
  <2>2. CASE sBlock < K
    <3>1. sPc' = "post" /\ sBlock' = sBlock
      BY <1>12, <2>2 DEF WriteToSendBuffer
    <3>2. Progress'
      BY <1>1, <1>3, <1>4, <1>5, <1>6, <1>8, <2>1, <2>2, <3>1, Sizes DEF Progress, Writing
    <3> QED BY <1>7, <2>2, <3>1, <3>2 DEF PaddedOnly
  <2>3. CASE ~(sBlock < K)
    <3>1. NextBlock(sBlock)
      BY <1>12, <2>3 DEF WriteToSendBuffer
    <3>2. /\ sBlock' \in 0 .. K + M
          /\ sPc' \in {"data", "pad", "encode", "idle"}
          /\ Progress'
      BY <1>1, <1>3, <1>4, <2>1, <3>1, NextBlockStep DEF SenderPart
    <3> QED BY <3>2 DEF PaddedOnly, Writing
  <2> QED BY <2>2, <2>3
<1> QED BY <1>7, <1>9, <1>10, <1>11, <1>12

(* What a call writes is laid down, what lay there before stays. *)
LEMMA WrittenLaid ==
  ASSUME SenderPart, Writing, NEW b \in Block, NEW o \in 0 .. BlockSize,
         Pos(Len(sent), b, o) < sendPos + PartLen
  PROVE  Overlay(sendBuffer, sendPos, Part)[Cell(Pos(Len(sent), b, o))] = LaidByte(b, o)
<1> DEFINE p == Pos(Len(sent), b, o)
           a == Current.at
           x == BlockAt(sBlock)
           y == BlockAt(b)
           n == PartLen
           first == PartBegin
           last == PartEnd
           bytes == Part
<1>1. first \in Nat /\ last \in Nat /\ n \in Nat /\ last = first + n /\ last <= Unit
  BY PartBounds
<1>2. /\ sent # <<>> /\ sBlock \in Block /\ sBlock \in Nat
      /\ sendPos = a + x + first /\ a \in Nat /\ x \in Nat
  BY WritingBlock
<1>3. x + Unit <= Stripe /\ Stripe <= Size /\ Stripe \in Nat /\ Size \in Nat /\ Unit \in Nat
  BY <1>2, BlockType, Sizes
<1>4. p = a + y + o /\ p \in Nat /\ a <= p /\ p < a + Stripe
  BY <1>2, CurrentPosition DEF SenderPart
<1>5. bytes \in Seq(Byte) /\ Len(bytes) = n
  BY PartType
<1>6. sendPos \in Nat
  BY DEF SenderPart, SenderTypes
<1>7. b \in Nat /\ y \in Nat /\ o \in Nat /\ o < Unit
  BY BlockType, Sizes
<1>8. p < sendPos + n
  OBVIOUS
<1>9. CASE p < sendPos
  <2>1. sendBuffer[Cell(p)] = LaidByte(b, o)
    BY <1>9 DEF Laid, SenderPart, Writing
  <2> HIDE DEF p, a, x, y, n, first, last, bytes
  <2>2. sendPos + n <= p + Size /\ p + Size < sendPos + Size /\ p + Size \in Int
    BY <1>1, <1>2, <1>3, <1>4, <1>6, <1>9
  <2>3. Overlay(sendBuffer, sendPos, bytes)[Cell(p + Size)] = sendBuffer[Cell(p + Size)]
    BY <1>1, <1>5, <1>6, <2>2, OverlayOutside
  <2>4. Cell(p + Size) = Cell(p)
    BY <1>4, CellRing
  <2>5. Overlay(sendBuffer, sendPos, bytes)[Cell(p)] = LaidByte(b, o)
    BY <2>1, <2>3, <2>4
  <2> QED BY <2>5 DEF p, bytes
<1>10. CASE ~(p < sendPos)
  <2>1. b < sBlock => y + Unit <= x
    BY <1>2, <1>7, BlockRoom
  <2>2. sBlock < b => x + Unit <= y
    BY <1>2, <1>7, BlockRoom
  <2>3. x + first <= y + o /\ y + o < x + last
    <3> HIDE DEF p, a, x, y, n, first, last
    <3> QED BY <1>1, <1>2, <1>4, <1>6, <1>7, <1>8, <1>10
  <2>4. b = sBlock
    <3> HIDE DEF x, y, first, last
    <3> QED BY <1>1, <1>2, <1>3, <1>7, <2>1, <2>2, <2>3
  <2>5. x = y
    BY <2>4
  <2>6. o \in first .. last - 1 /\ p - sendPos = o - first /\ sendPos <= p /\ n <= Size
    <3> HIDE DEF p, a, x, y, n, first, last
    <3> QED BY <1>1, <1>2, <1>3, <1>4, <1>6, <1>7, <1>10, <2>3, <2>5
  <2>7. bytes[o - first + 1] = LaidByte(b, o)
    BY <2>4, <2>6, PartByte
  <2> HIDE DEF p, a, x, y, n, first, last, bytes
  <2>8. Overlay(sendBuffer, sendPos, bytes)[Cell(p)] = bytes[p - sendPos + 1]
    <3>1. /\ sendPos \in Int /\ p \in Int /\ Len(bytes) \in Nat /\ sendPos <= p
          /\ p < sendPos + Len(bytes) /\ Len(bytes) <= Size
      BY <1>1, <1>4, <1>5, <1>6, <1>8, <2>6
    <3> QED BY <3>1, OverlayInside
  <2>9. Overlay(sendBuffer, sendPos, bytes)[Cell(p)] = LaidByte(b, o)
    BY <2>6, <2>7, <2>8
  <2> QED BY <2>9 DEF p, bytes
<1> QED BY <1>9, <1>10

LEMMA WriteStep ==
  ASSUME SendInv, WriteToSendBuffer
  PROVE  SendInv'
<1>1. SenderPart /\ CardTypes /\ ReceiverPart /\ Granted
  BY Parts
<1>2. /\ Writing /\ reading = "none" /\ PartLen <= SafeToWrite
      /\ sendBuffer' = Overlay(sendBuffer, sendPos, Part)
      /\ sendPos' = sendPos + PartLen
      /\ UNCHANGED <<sent, readQp, unencoded>>
      /\ UNCHANGED nicVars /\ UNCHANGED receiverVars /\ UNCHANGED receiveBuffer
  BY DEF WriteToSendBuffer
<1>3. CardTypes' /\ ReceiverPart'
  BY <1>1, <1>2, CardUnchanged, ReceiverUnchanged
<1>4. PartLen \in Nat /\ sendPos \in Nat /\ sendBuffer \in [Cells -> Byte]
  BY <1>1, <1>2, PartBounds DEF SenderPart, SenderTypes
<1>5. /\ sBlock' \in 0 .. K + M
      /\ sPc' \in {"data", "pad", "validity", "post", "encode", "idle"}
      /\ sPc' = "idle" \/ PaddedOnly'
      /\ Progress'
  BY <1>1, WrittenProgress
<1>6. SenderTypes'
  <2>1. sendBuffer' \in [Cells -> Byte]
    BY <1>1, <1>2, <1>4, PartType, OverlayType
  <2>2. sendPos' \in Nat
    BY <1>2, <1>4
  <2>3. SenderTypes
    BY <1>1 DEF SenderPart
  <2> QED BY <1>2, <1>5, <2>1, <2>2, <2>3 DEF SenderTypes
<1>7. Stripes'
  <2>1. Stripes
    BY <1>1 DEF SenderPart
  <2> QED BY <1>2, <2>1 DEF Stripes
<1>8. Laid'
  <2>1. Len(sent) \notin unencoded /\ PaddedOnly
    BY <1>1, <1>2 DEF SenderPart, Laid, PaddedOnly
  <2>2. CASE sPc' = "idle"
    BY <1>2, <2>1, <2>2 DEF Laid
  <2>3. CASE PaddedOnly'
    <3> SUFFICES ASSUME NEW b \in Block, NEW o \in 0 .. BlockSize,
                        (Pos(Len(sent), b, o) < sendPos)'
                 PROVE  (sendBuffer[Cell(Pos(Len(sent), b, o))] = LaidByte(b, o))'
      BY <1>2, <2>1, Zenon DEF Laid
    <3>1. Pos(Len(sent), b, o)' = Pos(Len(sent), b, o)
      BY <1>2 DEF Pos
    <3>2. BlockByte(Len(sent), b, o)' = BlockByte(Len(sent), b, o)
      BY <1>2 DEF BlockByte
    <3>3. LaidByte(b, o)' = LaidByte(b, o)
      BY <2>1, <2>3, <3>2 DEF LaidByte
    <3>4. Pos(Len(sent), b, o) < sendPos + PartLen
      BY <1>2, <3>1
    <3>5. sendBuffer'[Cell(Pos(Len(sent), b, o))] = LaidByte(b, o)
      BY <1>1, <1>2, <3>4, WrittenLaid
    <3>6. Cell(Pos(Len(sent), b, o))' = Cell(Pos(Len(sent), b, o))
      BY <3>1 DEF Cell
    <3> QED BY <3>3, <3>5, <3>6
  <2> QED BY <1>5, <2>2, <2>3
<1>9. Granted'
  <2>1. currentRemoteReceive \in Nat /\ currentRemoteReceive' = currentRemoteReceive
        /\ Size \in Nat
    BY <1>1, <1>2, Sizes DEF CardTypes, nicVars
  <2>2. sendPos' - currentRemoteReceive' <= Size
    BY <1>2, <1>4, <2>1 DEF SafeToWrite
  <2>3. reading' = "none" /\ readValue' = readValue /\ readPos' = readPos
    BY <1>2 DEF nicVars, receiverVars
  <2> QED BY <1>1, <2>1, <2>2, <2>3 DEF Granted
<1> QED BY <1>3, <1>5, <1>6, <1>7, <1>8, <1>9, PartsPrimed DEF SenderPart

-----------------------------------------------------------------------------
(* What send() posts *)

(* Requests that stay inside the ring and inside a block *)
WellFormed(requests) ==
    /\ requests \in Seq(WriteRequest)
    /\ \A i \in DOMAIN requests : /\ requests[i].begin + requests[i].len <= Size
                                  /\ requests[i].from + requests[i].len <= Unit

(* A block is posted in one piece or in two, that which ends at the end of *)
(* the ring first.                                                         *)
LEMMA Pieces ==
  ASSUME SenderTypes, NEW pos \in Nat
  PROVE  LET r == Wraparound(pos, Unit)
         IN  /\ WellFormed(r) /\ Len(r) \in 1 .. 2
             /\ \A i \in DOMAIN r : r[i].stripe = Len(sent) /\ r[i].begin = Cell(pos + r[i].from)
             /\ r[1].from = 0
             /\ 2 \in DOMAIN r => r[1].from + r[1].len = r[2].from
<1> DEFINE first == Size - Cell(pos)
           r == Wraparound(pos, Unit)
           n == Len(sent)
<1>1. /\ Unit \in Nat /\ Unit = BlockSize + 1 /\ BlockSize \in Nat /\ BlockSize > 0
      /\ Size \in Nat /\ Stripe \in Nat /\ Stripe <= Size /\ n \in Nat
  BY Sizes, Messages
<1>2. Cell(pos) \in Cells /\ Cell(pos) \in Nat /\ Cell(pos) < Size /\ first \in 1 .. Size
  <2> DEFINE c == Cell(pos)
  <2>1. c \in Cells /\ c \in Nat /\ c < Size
    <3>1. pos \in Int
      OBVIOUS
    <3> QED BY <3>1, CellType
  <2>2. first = Size - c
    OBVIOUS
  <2> HIDE DEF c, first
  <2>3. first \in 1 .. Size
    BY <1>1, <2>1, <2>2
  <2> QED BY <2>1, <2>3 DEF c
<1>3. Unit <= Stripe
  <2>1. 0 \in Block
    BY Sizes DEF Block
  <2>2. BlockAt(0) \in Nat /\ BlockAt(0) + Unit <= Stripe
    BY <2>1, BlockType
  <2> QED BY <1>1, <2>2
<1>4. Cell(pos + 0) = Cell(pos)
  OBVIOUS
<1>5. CASE first >= Unit
  <2> DEFINE w == [begin |-> Cell(pos), len |-> Unit, stripe |-> n, from |-> 0]
  <2>1. r = <<w>>
    BY <1>5 DEF Wraparound, Slice
  <2>2. w \in WriteRequest
    BY <1>1, <1>2, <1>3 DEF WriteRequest
  <2>3. w.begin = Cell(pos + w.from) /\ w.stripe = n /\ w.begin + w.len <= Size /\ w.from + w.len <= Unit
        /\ w.from = 0
    BY <1>1, <1>2, <1>4, <1>5
  <2> HIDE DEF w, r
  <2>4. r \in Seq(WriteRequest) /\ Len(r) = 1 /\ DOMAIN r = 1 .. 1 /\ r[1] = w
    BY <2>1, <2>2
  <2>5. WellFormed(r)
    BY <2>3, <2>4 DEF WellFormed
  <2> QED BY <2>3, <2>4, <2>5 DEF r
<1>6. CASE ~(first >= Unit)
  <2> DEFINE w == [begin |-> Cell(pos), len |-> first, stripe |-> n, from |-> 0]
             v == [begin |-> 0, len |-> Unit - first, stripe |-> n, from |-> first]
  <2>1. r = <<w, v>>
    BY <1>6 DEF Wraparound, Slice
  <2>2. Cell(pos + first) = 0
    BY CellWrap
  <2> HIDE DEF first
  <2>3. w \in WriteRequest /\ v \in WriteRequest
    BY <1>1, <1>2, <1>3, <1>6 DEF WriteRequest, Cells
  <2>4. w.begin = Cell(pos + w.from) /\ w.stripe = n /\ w.from + w.len <= Unit
        /\ w.from = 0
    BY <1>1, <1>2, <1>4, <1>6
  <2>5. w.begin + w.len <= Size
    BY <1>1, <1>2 DEF first
  <2>6. v.begin = Cell(pos + v.from) /\ v.stripe = n /\ v.begin + v.len <= Size /\ v.from + v.len <= Unit
        /\ v.from = w.from + w.len
    BY <1>1, <1>2, <1>3, <1>6, <2>2
  <2> HIDE DEF w, v, r
  <2>7. r \in Seq(WriteRequest) /\ Len(r) = 2 /\ DOMAIN r = 1 .. 2 /\ r[1] = w /\ r[2] = v
    BY <2>1, <2>3
  <2>8. ASSUME NEW i \in DOMAIN r PROVE r[i] = w \/ r[i] = v
    BY <2>7
  <2>9. WellFormed(r)
    BY <2>4, <2>5, <2>6, <2>7, <2>8 DEF WellFormed
  <2> QED BY <2>4, <2>6, <2>7, <2>8, <2>9 DEF r
<1> QED BY <1>5, <1>6

LEMMA RequestsType ==
  ASSUME SenderPart, sent # <<>>, NEW b \in Block
  PROVE  /\ WellFormed(Requests(b)) /\ Len(Requests(b)) \in 1 .. 2
         /\ \A n \in 0 .. Len(Requests(b)) :
                WellFormed(SubSeq(Requests(b), 1, n)) /\ Len(SubSeq(Requests(b), 1, n)) = n
<1> DEFINE r == Requests(b)
<1>1. Current.at + b * Unit \in Nat
  <2>1. Current.at \in Nat /\ BlockAt(b) \in Nat
    BY Messages, BlockType DEF SenderPart, Current
  <2> QED BY <2>1 DEF BlockAt
<1>2. WellFormed(r) /\ Len(r) \in 1 .. 2
  BY <1>1, Pieces DEF Requests, SenderPart
<1>3. ASSUME NEW n \in 0 .. Len(r)
      PROVE  WellFormed(SubSeq(r, 1, n)) /\ Len(SubSeq(r, 1, n)) = n
  <2> HIDE DEF r
  <2>1. r \in Seq(WriteRequest) /\ DOMAIN r = 1 .. Len(r)
    BY <1>2 DEF WellFormed
  <2>2. SubSeq(r, 1, n) \in Seq(WriteRequest) /\ Len(SubSeq(r, 1, n)) = n
        /\ DOMAIN SubSeq(r, 1, n) = 1 .. n
    BY <1>2, <2>1
  <2>3. ASSUME NEW i \in 1 .. n PROVE SubSeq(r, 1, n)[i] = r[i] /\ i \in DOMAIN r
    BY <1>2, <2>1, <2>3
  <2> QED BY <1>2, <2>2, <2>3 DEF WellFormed
<1> QED BY <1>2, <1>3

LEMMA PostTypes ==
  ASSUME CardTypes, NEW b \in Block, NEW requests, WellFormed(requests),
         Len(requests) <= Room(b), Post(b, requests),
         UNCHANGED <<reading, readValue, currentRemoteReceive, broken>>
  PROVE  CardTypes'
<1>1. /\ requests \in Seq(WriteRequest) /\ Len(requests) \in Nat /\ DOMAIN requests = 1 .. Len(requests)
      /\ sqUsed[b] \in 0 .. MaxSendWr /\ MaxSendWr \in Nat
      /\ sq[b] \in Seq(WriteRequest)
  BY BoundAssumption DEF WellFormed, CardTypes
<1>2. sqUsed' \in [Block -> 0 .. MaxSendWr]
  <2>1. sqUsed[b] + Len(requests) \in 0 .. MaxSendWr
    BY <1>1 DEF Room
  <2> QED BY <2>1 DEF Post, CardTypes
<1>3. cq' \in Seq({"read", "error"})
  <2>1. [i \in DOMAIN requests |-> "error"] \in Seq({"read", "error"})
    BY <1>1
  <2>2. cq \in Seq({"read", "error"})
    BY DEF CardTypes
  <2>3. CASE b \in broken
    <3> DEFINE errors == [i \in DOMAIN requests |-> "error"]
    <3>1. cq' = cq \o errors
      BY <2>3 DEF Post
    <3>2. errors \in Seq({"read", "error"})
      BY <2>1
    <3> HIDE DEF errors
    <3> QED BY <2>2, <3>1, <3>2, ConcatProperties
  <2>4. CASE b \notin broken
    BY <2>2, <2>4 DEF Post
  <2> QED BY <2>3, <2>4
<1>4. /\ sq' \in [Block -> Seq(WriteRequest)]
      /\ \A q \in Block : \A i \in DOMAIN sq'[q] : /\ sq'[q][i].begin + sq'[q][i].len <= Size
                                                   /\ sq'[q][i].from + sq'[q][i].len <= Unit
  <2>1. CASE sq' = sq
    BY <2>1 DEF CardTypes
  <2>2. CASE sq' = [sq EXCEPT ![b] = @ \o requests]
    <3>1. sq[b] \o requests \in Seq(WriteRequest)
      BY <1>1
    <3>2. sq' \in [Block -> Seq(WriteRequest)] /\ sq'[b] = sq[b] \o requests
          /\ \A q \in Block : q # b => sq'[q] = sq[q]
      BY <2>2, <3>1 DEF CardTypes
    <3>3. ASSUME NEW i \in DOMAIN (sq[b] \o requests)
          PROVE  \/ i \in DOMAIN sq[b] /\ (sq[b] \o requests)[i] = sq[b][i]
                 \/ \E j \in DOMAIN requests : (sq[b] \o requests)[i] = requests[j]
      <4>1. i \in 1 .. Len(sq[b]) + Len(requests) /\ DOMAIN sq[b] = 1 .. Len(sq[b]) /\ Len(sq[b]) \in Nat
        BY <1>1
      <4>2. CASE i <= Len(sq[b])
        BY <1>1, <4>1, <4>2
      <4>3. CASE ~(i <= Len(sq[b]))
        <5>1. i - Len(sq[b]) \in 1 .. Len(requests)
          BY <1>1, <4>1, <4>3
        <5>2. (sq[b] \o requests)[i] = requests[i - Len(sq[b])]
          BY <1>1, <4>1, <4>3
        <5> QED BY <1>1, <5>1, <5>2
      <4> QED BY <4>2, <4>3
    <3>4. ASSUME NEW q \in Block, NEW i \in DOMAIN sq[q]
          PROVE  sq[q][i].begin + sq[q][i].len <= Size /\ sq[q][i].from + sq[q][i].len <= Unit
      BY DEF CardTypes
    <3>5. ASSUME NEW i \in DOMAIN requests
          PROVE  /\ requests[i].begin + requests[i].len <= Size
                 /\ requests[i].from + requests[i].len <= Unit
      BY DEF WellFormed
    <3>6. ASSUME NEW q \in Block, NEW i \in DOMAIN sq'[q]
          PROVE  sq'[q][i].begin + sq'[q][i].len <= Size /\ sq'[q][i].from + sq'[q][i].len <= Unit
      <4>1. CASE q # b
        BY <3>2, <3>4, <4>1
      <4>2. CASE q = b
        <5>1. i \in DOMAIN (sq[b] \o requests) /\ sq'[q][i] = (sq[b] \o requests)[i]
          BY <3>2, <4>2
        <5>2. \/ i \in DOMAIN sq[b] /\ sq'[q][i] = sq[b][i]
              \/ \E j \in DOMAIN requests : sq'[q][i] = requests[j]
          BY <3>3, <5>1
        <5> QED BY <3>4, <3>5, <5>2
      <4> QED BY <4>1, <4>2
    <3> QED BY <3>2, <3>6
  <2> QED BY <2>1, <2>2 DEF Post
<1> QED BY <1>2, <1>3, <1>4 DEF CardTypes

-----------------------------------------------------------------------------
(* The read of the peer's position, and the posts *)

LEMMA InStripe ==
  ASSUME SenderPart, sPc # "idle"
  PROVE  /\ sent # <<>> /\ Current.at \in Nat /\ sendPos \in Nat
         /\ Current.at <= sendPos /\ sendPos <= Current.at + Stripe
<1>1. sent # <<>> /\ sendPos \in Nat
  BY DEF SenderPart, Progress, SenderTypes
<1>2. Current.at \in Nat
  BY <1>1, Messages DEF SenderPart, Current
<1>3. sPc \in {"length", "data", "pad", "validity", "post", "encode", "failed"}
  BY DEF SenderPart, SenderTypes
<1>4. Progress /\ sBlock \in 0 .. K + M
  BY DEF SenderPart, SenderTypes
<1>5. Stripe \in Nat /\ Unit \in Nat
  BY Sizes
<1> DEFINE a == Current.at
<1>6. a \in Nat
  BY <1>2
<1> SUFFICES a <= sendPos /\ sendPos <= a + Stripe
  BY <1>1, <1>2
<1>7. CASE Writing
  <2> DEFINE x == BlockAt(sBlock)
             first == PartBegin
  <2>1. sendPos = a + x + first /\ x \in Nat /\ sBlock \in Block
    BY <1>7, WritingBlock
  <2>2. x + Unit <= Stripe
    BY <2>1, BlockType
  <2>3. first \in Nat /\ first <= Unit
    <3>1. /\ PartBegin \in Nat /\ PartEnd \in Nat /\ PartLen \in Nat
          /\ PartEnd = PartBegin + PartLen /\ PartEnd <= Unit
      BY <1>7, PartBounds
    <3> QED BY <1>5, <3>1
  <2> HIDE DEF x, first, a
  <2> QED BY <1>1, <1>5, <1>6, <2>1, <2>2, <2>3
<1>8. CASE sPc = "post"
  <2> DEFINE x == BlockAt(sBlock)
  <2>1. sBlock < K + M /\ sendPos = a + (IF sBlock < K THEN x + Unit ELSE Stripe)
    BY <1>4, <1>8 DEF Progress
  <2>2. sBlock \in Block
    BY <1>4, <2>1, Sizes DEF Block
  <2>3. x \in Nat /\ x + Unit <= Stripe
    BY <2>2, BlockType
  <2> HIDE DEF x, a
  <2>4. CASE sBlock < K
    BY <1>1, <1>5, <1>6, <2>1, <2>3, <2>4
  <2>5. CASE ~(sBlock < K)
    BY <1>1, <1>5, <1>6, <2>1, <2>5
  <2> QED BY <2>4, <2>5
<1>9. CASE sPc = "encode"
  <2>1. sendPos = a + Stripe
    BY <1>4, <1>9 DEF Progress
  <2> HIDE DEF a
  <2> QED BY <1>1, <1>5, <1>6, <2>1
<1>10. CASE sPc = "failed"
  BY <1>4, <1>10 DEF Progress
<1> QED BY <1>3, <1>7, <1>8, <1>9, <1>10 DEF Writing

(* What lies in the sendBuffer outlives a step that does not write it. *)
LEMMA LaidMoves ==
  ASSUME Laid, UNCHANGED <<sent, sendBuffer, sendPos, unencoded>>,
         \/ sPc' \in {"idle", "failed"}
         \/ sPc \notin {"idle", "failed"} /\ PaddedOnly /\ PaddedOnly'
         \/ sPc \notin {"idle", "failed"} /\ ~PaddedOnly /\ ~PaddedOnly'
  PROVE  Laid'
<1>1. CASE sPc' \in {"idle", "failed"}
  BY <1>1 DEF Laid, PaddedOnly, Writing
<1>2. CASE sPc \notin {"idle", "failed"} /\ (PaddedOnly <=> PaddedOnly')
  <2>1. PaddedOnly' => Len(sent') \notin unencoded'
    BY <1>2 DEF Laid
  <2>2. ASSUME NEW b \in Block, NEW o \in 0 .. BlockSize,
               (Pos(Len(sent), b, o) < sendPos)'
        PROVE  (sendBuffer[Cell(Pos(Len(sent), b, o))] = LaidByte(b, o))'
    <3>1. Pos(Len(sent), b, o)' = Pos(Len(sent), b, o)
      BY DEF Pos
    <3>2. BlockByte(Len(sent), b, o)' = BlockByte(Len(sent), b, o)
      BY DEF BlockByte
    <3>3. LaidByte(b, o)' = LaidByte(b, o)
      BY <1>2, <3>2 DEF LaidByte
    <3>4. Pos(Len(sent), b, o) < sendPos
      BY <2>2, <3>1
    <3>5. sendBuffer[Cell(Pos(Len(sent), b, o))] = LaidByte(b, o)
      BY <1>2, <3>4 DEF Laid
    <3>6. Cell(Pos(Len(sent), b, o))' = Cell(Pos(Len(sent), b, o))
      BY <3>1 DEF Cell
    <3> QED BY <3>3, <3>5, <3>6
  <2> QED BY <2>1, <2>2, Zenon DEF Laid
<1> QED BY <1>1, <1>2

LEMMA PostReadStep ==
  ASSUME SendInv, PostRead
  PROVE  SendInv'
<1>1. SenderPart /\ CardTypes /\ ReceiverPart /\ Granted
  BY Parts
<1>2. /\ Writing /\ sqUsed[readQp] < MaxSendWr
      /\ sqUsed' = [sqUsed EXCEPT ![readQp] = @ + 1] /\ reading' = "posted"
      /\ cq' = (IF readQp \in broken THEN Append(cq, "error") ELSE cq)
      /\ UNCHANGED senderVars /\ UNCHANGED receiverVars /\ UNCHANGED receiveBuffer
      /\ UNCHANGED <<sq, readValue, currentRemoteReceive, broken>>
  BY DEF PostRead
<1>3. SenderPart' /\ ReceiverPart'
  BY <1>1, <1>2, SenderUnchanged, ReceiverUnchanged
<1>4. CardTypes'
  <2>1. sqUsed' \in [Block -> 0 .. MaxSendWr]
    <3>1. readQp \in Block /\ sqUsed \in [Block -> 0 .. MaxSendWr] /\ MaxSendWr \in Nat
      BY <1>1, BoundAssumption DEF SenderPart, SenderTypes, CardTypes
    <3>2. sqUsed[readQp] + 1 \in 0 .. MaxSendWr
      BY <1>2, <3>1
    <3> QED BY <1>2, <3>1, <3>2
  <2>2. cq' \in Seq({"read", "error"})
    <3>1. cq \in Seq({"read", "error"})
      BY <1>1 DEF CardTypes
    <3>2. Append(cq, "error") \in Seq({"read", "error"})
      BY <3>1
    <3> QED BY <1>2, <3>1, <3>2
  <2> QED BY <1>1, <1>2, <2>1, <2>2 DEF CardTypes
<1>5. Granted'
  BY <1>1, <1>2 DEF Granted, Writing, senderVars, receiverVars
<1> QED BY <1>3, <1>4, <1>5, PartsPrimed

LEMMA PollReadStep ==
  ASSUME SendInv, PollRead
  PROVE  SendInv'
<1>1. SenderPart /\ CardTypes /\ ReceiverPart /\ Granted
  BY Parts
<1>2. /\ cq # <<>> /\ cq' = Tail(cq) /\ reading' = "none"
      /\ sqUsed' = [sqUsed EXCEPT ![readQp] = 0]
      /\ readQp' = (readQp + 1) % (K + M)
      /\ UNCHANGED <<sPc, sBlock, sent, sendBuffer, sendPos, unencoded>>
      /\ UNCHANGED <<sq, readValue, currentRemoteReceive, broken>>
      /\ UNCHANGED receiverVars /\ UNCHANGED receiveBuffer
  BY DEF PollRead
<1>3. readQp' \in Block
  <2>1. K + M \in Nat /\ K + M > 0
    BY Sizes
  <2>2. readQp + 1 \in Int
    BY <1>1, Sizes DEF SenderPart, SenderTypes, Block
  <2> HIDE DEF Block
  <2>3. (readQp + 1) % (K + M) \in 0 .. (K + M) - 1
    BY <2>1, <2>2
  <2> QED BY <1>2, <2>3, Sizes DEF Block
<1>4. SenderPart' /\ ReceiverPart'
  BY <1>1, <1>2, <1>3, SenderKept, ReceiverUnchanged
<1>5. CardTypes'
  <2>1. sqUsed' \in [Block -> 0 .. MaxSendWr]
    <3>1. 0 \in 0 .. MaxSendWr
      BY BoundAssumption
    <3> QED BY <1>1, <1>2, <3>1 DEF CardTypes
  <2>2. cq' \in Seq({"read", "error"})
    BY <1>1, <1>2, HeadTailProperties DEF CardTypes
  <2> QED BY <1>1, <1>2, <2>1, <2>2 DEF CardTypes
<1>6. Granted'
  BY <1>1, <1>2 DEF Granted, Writing, receiverVars
<1> QED BY <1>4, <1>5, <1>6, PartsPrimed

(* send() throws. *)
LEMMA FailingStep ==
  ASSUME SenderPart, sPc # "idle", sPc' = "failed",
         UNCHANGED <<sBlock, sent, sendBuffer, sendPos, readQp, unencoded>>
  PROVE  SenderPart'
<1>1. SenderTypes'
  BY DEF SenderPart, SenderTypes
<1>2. Stripes'
  BY DEF SenderPart, Stripes
<1>3. Current' = Current
  BY DEF Current
<1>4. Progress'
  <2>1. sent # <<>> /\ Current.at <= sendPos /\ sendPos <= Current.at + Stripe
    BY InStripe
  <2>2. sent' # <<>> /\ Current'.at <= sendPos' /\ sendPos' <= Current'.at + Stripe
    BY <1>3, <2>1
  <2> QED BY <2>2 DEF Progress, Writing, Stripe, Unit
<1>5. Laid'
  BY LaidMoves DEF SenderPart
<1> QED BY <1>1, <1>2, <1>4, <1>5 DEF SenderPart

LEMMA PollErrorStep ==
  ASSUME SendInv, PollError
  PROVE  SendInv'
<1>1. SenderPart /\ CardTypes /\ ReceiverPart /\ Granted
  BY Parts
<1>2. /\ cq # <<>> /\ cq' = Tail(cq) /\ reading # "none" /\ reading' = "none" /\ sPc' = "failed"
      /\ UNCHANGED <<sBlock, sent, sendBuffer, sendPos, readQp, unencoded>>
      /\ UNCHANGED <<sq, sqUsed, readValue, currentRemoteReceive, broken>>
      /\ UNCHANGED receiverVars /\ UNCHANGED receiveBuffer
  BY DEF PollError
<1>3. SenderPart' /\ ReceiverPart'
  BY <1>1, <1>2, FailingStep, ReceiverUnchanged DEF Granted, Writing
<1>4. CardTypes'
  <2>1. cq' \in Seq({"read", "error"})
    BY <1>1, <1>2, HeadTailProperties DEF CardTypes
  <2> QED BY <1>1, <1>2, <2>1 DEF CardTypes
<1>5. Granted'
  BY <1>1, <1>2 DEF Granted, receiverVars
<1> QED BY <1>3, <1>4, <1>5, PartsPrimed

LEMMA PostDataStep ==
  ASSUME SendInv, PostData
  PROVE  SendInv'
<1>1. SenderPart /\ CardTypes /\ ReceiverPart /\ Granted
  BY Parts
<1>2. /\ sPc = "post" /\ sBlock < K /\ NextBlock(sBlock)
      /\ UNCHANGED <<sent, sendBuffer, sendPos, readQp, unencoded>>
      /\ UNCHANGED <<reading, readValue, currentRemoteReceive, broken>>
      /\ UNCHANGED receiverVars /\ UNCHANGED receiveBuffer
  BY DEF PostData
<1>3. sent # <<>> /\ sBlock \in Block /\ sendPos = Current.at + BlockAt(sBlock) + Unit
  <2>1. sent # <<>> /\ sBlock < K + M /\ sendPos = Current.at + (BlockAt(sBlock) + Unit)
    BY <1>1, <1>2 DEF SenderPart, Progress
  <2>2. sBlock \in Block
    BY <1>1, <2>1, Sizes DEF SenderPart, SenderTypes, Block
  <2>3. Current.at \in Nat
    BY <1>1, <1>2, InStripe
  <2>4. BlockAt(sBlock) \in Nat /\ Unit \in Nat
    BY <2>2, BlockType, Sizes
  <2> QED BY <2>1, <2>2, <2>3, <2>4
<1>4. /\ sBlock' \in 0 .. K + M
      /\ sPc' \in {"data", "pad", "encode", "idle"}
      /\ Progress'
  BY <1>1, <1>2, <1>3, NextBlockStep DEF SenderPart
<1>5. SenderPart'
  <2>1. SenderTypes'
    BY <1>1, <1>2, <1>4 DEF SenderPart, SenderTypes
  <2>2. Stripes'
    BY <1>1, <1>2 DEF SenderPart, Stripes
  <2>3. PaddedOnly
    BY <1>2 DEF PaddedOnly
  <2>4. sPc' = "idle" \/ PaddedOnly'
    BY <1>4 DEF PaddedOnly, Writing
  <2>5. Laid'
    BY <1>1, <1>2, <2>3, <2>4, LaidMoves DEF SenderPart
  <2> QED BY <1>4, <2>1, <2>2, <2>5 DEF SenderPart
<1>6. CardTypes'
  <2>1. CASE Unposted(sBlock)
    <3>1. UNCHANGED <<sq, sqUsed, cq>>
      BY <2>1 DEF PostData
    <3> QED BY <1>1, <1>2, <3>1 DEF CardTypes
  <2>2. CASE ~Unposted(sBlock)
    <3>1. Len(Requests(sBlock)) <= Room(sBlock) /\ Post(sBlock, Requests(sBlock))
      BY <2>2 DEF PostData
    <3>2. WellFormed(Requests(sBlock))
      BY <1>1, <1>3, RequestsType
    <3> QED BY <1>1, <1>2, <1>3, <3>1, <3>2, PostTypes
  <2> QED BY <2>1, <2>2
<1>7. Granted'
  BY <1>1, <1>2 DEF Granted, Writing, receiverVars
<1>8. ReceiverPart'
  BY <1>1, <1>2, ReceiverUnchanged
<1> QED BY <1>5, <1>6, <1>7, <1>8, PartsPrimed

LEMMA PostParityStep ==
  ASSUME SendInv, PostParity
  PROVE  SendInv'
<1>1. SenderPart /\ CardTypes /\ ReceiverPart /\ Granted
  BY Parts
<1>2. /\ sPc = "post" /\ sBlock >= K
      /\ Len(Requests(sBlock)) <= Room(sBlock) /\ Post(sBlock, Requests(sBlock))
      /\ \/ sBlock + 1 < K + M /\ sBlock' = sBlock + 1 /\ sPc' = "post"
         \/ sBlock' = 0 /\ sPc' = "idle"
      /\ UNCHANGED <<sent, sendBuffer, sendPos, readQp, unencoded>>
      /\ UNCHANGED <<reading, readValue, currentRemoteReceive, broken>>
      /\ UNCHANGED receiverVars /\ UNCHANGED receiveBuffer
  BY DEF PostParity
<1>3. sent # <<>> /\ sBlock \in Block /\ sendPos = Current.at + Stripe /\ IsCoded
      /\ sBlock \in Nat /\ K \in Nat /\ M \in Nat /\ K > 0
  <2>1. /\ sent # <<>> /\ sBlock < K + M /\ (sBlock >= K => IsCoded)
        /\ sendPos = Current.at + (IF sBlock < K THEN BlockAt(sBlock) + Unit ELSE Stripe)
    BY <1>1, <1>2 DEF SenderPart, Progress
  <2>2. sBlock \in Block /\ sBlock \in Nat /\ K \in Nat /\ M \in Nat /\ K > 0
    BY <1>1, <2>1, Sizes DEF SenderPart, SenderTypes, Block
  <2>3. ~(sBlock < K)
    BY <1>2, <2>2
  <2> QED BY <1>2, <2>1, <2>2, <2>3
<1>4. SenderPart'
  <2>1. sBlock' \in 0 .. K + M
    BY <1>2, <1>3
  <2>2. SenderTypes'
    BY <1>1, <1>2, <2>1 DEF SenderPart, SenderTypes
  <2>3. Stripes'
    BY <1>1, <1>2 DEF SenderPart, Stripes
  <2>4. ~PaddedOnly
    BY <1>2, <1>3 DEF PaddedOnly, Writing
  <2>5. sPc' = "idle" \/ ~PaddedOnly'
    BY <1>2, <1>3 DEF PaddedOnly, Writing
  <2>6. Laid'
    BY <1>1, <1>2, <2>4, <2>5, LaidMoves DEF SenderPart
  <2>7. Current' = Current /\ IsCoded' = IsCoded /\ StripeAt(Len(sent))' = StripeAt(Len(sent))
    BY <1>2 DEF Current, IsCoded, StripeAt, Stripe, Unit
  <2>8. StripeAt(Len(sent)) = Current.at + Stripe
    <3>1. /\ Current.at = StripeAt(Len(sent) - 1) /\ Len(sent) - 1 \in Nat
          /\ (Len(sent) - 1) + 1 = Len(sent)
      BY <1>1, <1>3, Messages DEF SenderPart, Stripes, Current
    <3> QED BY <3>1, StripeRoom
  <2>9. Progress'
    <3>1. CASE sBlock + 1 < K + M /\ sBlock' = sBlock + 1 /\ sPc' = "post"
      <4>1. ~(sBlock' < K) /\ sBlock' < K + M
        BY <1>2, <1>3, <3>1
      <4>2. sent' # <<>> /\ sendPos' = Current'.at + Stripe /\ IsCoded'
        BY <1>2, <1>3, <2>7
      <4> QED BY <3>1, <4>1, <4>2 DEF Progress, Writing, Stripe, Unit
    <3>2. CASE sBlock' = 0 /\ sPc' = "idle"
      <4>1. sendPos' = StripeAt(Len(sent))'
        BY <1>2, <1>3, <2>7, <2>8
      <4> QED BY <3>2, <4>1 DEF Progress, Writing
    <3> QED BY <1>2, <3>1, <3>2
  <2> QED BY <2>2, <2>3, <2>6, <2>9 DEF SenderPart
<1>5. CardTypes'
  <2>1. WellFormed(Requests(sBlock))
    BY <1>1, <1>3, RequestsType
  <2> QED BY <1>1, <1>2, <1>3, <2>1, PostTypes
<1>6. Granted'
  BY <1>1, <1>2 DEF Granted, Writing, receiverVars
<1>7. ReceiverPart'
  BY <1>1, <1>2, ReceiverUnchanged
<1> QED BY <1>4, <1>5, <1>6, <1>7, PartsPrimed

LEMMA PostFullStep ==
  ASSUME SendInv, PostFull
  PROVE  SendInv'
<1>1. SenderPart /\ CardTypes /\ ReceiverPart /\ Granted
  BY Parts
<1>2. /\ \/ /\ sPc = "post" /\ Len(Requests(sBlock)) > Room(sBlock)
            /\ Post(sBlock, SubSeq(Requests(sBlock), 1, Room(sBlock)))
         \/ Writing /\ reading = "none" /\ UNCHANGED <<sq, sqUsed, cq>>
      /\ sPc' = "failed"
      /\ UNCHANGED <<sBlock, sent, sendBuffer, sendPos, readQp, unencoded>>
      /\ UNCHANGED <<reading, readValue, currentRemoteReceive, broken>>
      /\ UNCHANGED receiverVars /\ UNCHANGED receiveBuffer
  BY DEF PostFull
<1>3. sPc # "idle"
  BY <1>2 DEF Writing
<1>4. SenderPart' /\ ReceiverPart'
  BY <1>1, <1>2, <1>3, FailingStep, ReceiverUnchanged
<1>5. CardTypes'
  <2>1. CASE /\ sPc = "post" /\ Len(Requests(sBlock)) > Room(sBlock)
             /\ Post(sBlock, SubSeq(Requests(sBlock), 1, Room(sBlock)))
    <3> DEFINE n == Room(sBlock)
               requests == Requests(sBlock)
    <3>1. sent # <<>> /\ sBlock \in Block
      BY <1>1, <2>1, Sizes DEF SenderPart, SenderTypes, Progress, Block
    <3>2. Len(requests) \in Nat
      <4>1. Len(requests) \in 1 .. 2
        BY <1>1, <3>1, RequestsType
      <4> QED BY <4>1
    <3>3. n \in Nat
      <4>1. MaxSendWr \in Nat
        BY BoundAssumption
      <4>2. sqUsed[sBlock] \in 0 .. MaxSendWr
        BY <1>1, <3>1 DEF CardTypes
      <4> QED BY <4>1, <4>2 DEF Room
    <3>4. n \in 0 .. Len(requests)
      <4>1. Len(requests) > n
        BY <2>1
      <4> HIDE DEF n, requests
      <4> QED BY <3>2, <3>3, <4>1
    <3>5. WellFormed(SubSeq(requests, 1, n)) /\ Len(SubSeq(requests, 1, n)) = n
      BY <1>1, <3>1, <3>4, RequestsType
    <3>6. Len(SubSeq(requests, 1, n)) <= Room(sBlock)
      BY <3>3, <3>5
    <3> QED BY <1>1, <1>2, <2>1, <3>1, <3>5, <3>6, PostTypes
  <2>2. CASE UNCHANGED <<sq, sqUsed, cq>>
    BY <1>1, <1>2, <2>2 DEF CardTypes
  <2> QED BY <1>2, <2>1, <2>2
<1>6. Granted'
  <2>1. reading = "none"
    BY <1>1, <1>2 DEF Granted, Writing
  <2> QED BY <1>1, <1>2, <2>1 DEF Granted, receiverVars
<1> QED BY <1>4, <1>5, <1>6, PartsPrimed

-----------------------------------------------------------------------------
(* The parity blocks *)

LEMMA ColumnType ==
  ASSUME NEW buffer \in [Cells -> Byte], NEW pos \in Int, NEW o \in Int
  PROVE  [d \in Data |-> buffer[At(pos, d, o)]] \in Column
<1>1. Data \subseteq Int
  BY Sizes DEF Data
<1>2. ASSUME NEW d \in Data PROVE buffer[At(pos, d, o)] \in Byte
  BY <1>1, AtType
<1> QED BY <1>2 DEF Column

LEMMA RegionType ==
  ASSUME SenderTypes, Stripes, sent # <<>>
  PROVE  EncodedRegion \in Seq(Byte) /\ Len(EncodedRegion) = M * Unit
<1>1. M \in Nat /\ K \in Nat /\ M * Unit \in Nat
  BY Sizes
<1>2. ASSUME NEW i \in 1 .. M * Unit
      PROVE (LET b == K + (i - 1) \div Unit
                 offset == (i - 1) % Unit
             IN  IF offset = BlockSize THEN Validity ELSE EncodedByte(b, offset)) \in Byte
  <2> DEFINE d == (i - 1) \div Unit
             offset == (i - 1) % Unit
  <2>1. d \in 0 .. M - 1 /\ offset \in 0 .. BlockSize
    BY <1>1, Split
  <2> SUFFICES (IF offset = BlockSize THEN Validity ELSE EncodedByte(K + d, offset)) \in Byte
    OBVIOUS
  <2> HIDE DEF d, offset
  <2>2. (K + d) - K = d
    BY <1>1, <2>1
  <2>3. offset \in Int
    BY <2>1, Sizes
  <2>4. Current.at \in Int
    BY Messages DEF Current
  <2>5. [x \in Data |-> sendBuffer[At(Current.at, x, offset)]] \in Column
    BY <2>3, <2>4, ColumnType DEF SenderTypes
  <2>6. EncodedByte(K + d, offset) = Parity(d, [x \in Data |-> sendBuffer[At(Current.at, x, offset)]])
    BY <2>2 DEF EncodedByte
  <2>7. EncodedByte(K + d, offset) \in Byte
    BY <2>1, <2>5, <2>6, CodeAssumption
  <2> QED BY <2>7, ByteAssumption
<1>3. EncodedRegion \in [1 .. M * Unit -> Byte]
  BY <1>2 DEF EncodedRegion
<1> QED BY <1>1, <1>3, FunctionIsSeq

(* Encoding lays down the parity blocks that the data blocks call for. *)
LEMMA EncodedLaid ==
  ASSUME SenderPart, sPc = "encode", NEW b \in Block, NEW o \in 0 .. BlockSize
  PROVE  Overlay(sendBuffer, Current.at + K * Unit, EncodedRegion)[Cell(Pos(Len(sent), b, o))]
             = BlockByte(Len(sent), b, o)
<1> DEFINE p == Pos(Len(sent), b, o)
           a == Current.at
           pos == a + BlockAt(K)
           region == EncodedRegion
           y == BlockAt(b)
<1>1. /\ sent # <<>> /\ sendPos = a + Stripe /\ PaddedOnly /\ Len(sent) \notin unencoded
      /\ Len(sent) \in DOMAIN sent /\ a \in Nat /\ Current = sent[Len(sent)]
  BY Messages DEF SenderPart, Progress, PaddedOnly, Laid, Current
<1>2. p = a + y + o /\ p \in Nat /\ a <= p /\ p < a + Stripe
  BY <1>1, CurrentPosition DEF SenderPart
<1>3. /\ Unit \in Nat /\ Unit = BlockSize + 1 /\ BlockSize \in Nat /\ K \in Nat /\ M \in Nat
      /\ Stripe \in Nat /\ Stripe <= Size /\ Size \in Nat /\ o \in Nat /\ o < Unit
  BY Sizes
<1>4. b \in Nat /\ b < K + M /\ y \in Nat
  BY BlockType
<1>5. BlockAt(K) \in Nat /\ BlockAt(K) + M * Unit = Stripe /\ M * Unit \in Nat
  BY <1>3, BlockRoom DEF BlockAt, Stripe
<1>6. region \in Seq(Byte) /\ Len(region) = M * Unit
  BY <1>1, RegionType DEF SenderPart
<1>7. ASSUME NEW c \in Block
      PROVE  sendBuffer[Cell(Pos(Len(sent), c, o))] = LaidByte(c, o)
  <2>1. Pos(Len(sent), c, o) < sendPos
    BY <1>1, CurrentPosition DEF SenderPart
  <2> QED BY <2>1 DEF Laid, SenderPart
<1>8. CASE b < K
  <2>1. y + Unit <= BlockAt(K)
    BY <1>3, <1>4, <1>8, BlockRoom
  <2>2. LaidByte(b, o) = BlockByte(Len(sent), b, o)
    BY <1>3, <1>4, <1>8 DEF LaidByte
  <2>3. sendBuffer[Cell(p)] = BlockByte(Len(sent), b, o)
    BY <1>7, <2>2
  <2>4. /\ pos \in Int /\ p + Size \in Int /\ Len(region) \in Nat /\ pos + Len(region) <= p + Size
        /\ p + Size < pos + Size
    <3>1. BlockAt(K) \in Nat
      BY <1>5
    <3> DEFINE z == BlockAt(K)
               u == M * Unit
    <3>2. z \in Nat /\ u \in Nat /\ z + u = Stripe /\ y + Unit <= z /\ pos = a + z /\ Len(region) = u
      BY <1>5, <1>6, <2>1
    <3> HIDE DEF p, a, pos, region, y, z, u
    <3> QED BY <1>1, <1>2, <1>3, <1>4, <3>2
  <2>5. Overlay(sendBuffer, pos, region)[Cell(p + Size)] = sendBuffer[Cell(p + Size)]
    <3> HIDE DEF p, pos, region
    <3> QED BY <2>4, OverlayOutside
  <2>6. Cell(p + Size) = Cell(p)
    <3> HIDE DEF p
    <3> QED BY <1>2, CellRing
  <2>7. Overlay(sendBuffer, pos, region)[Cell(p)] = BlockByte(Len(sent), b, o)
    BY <2>3, <2>5, <2>6
  <2> QED BY <2>7 DEF BlockAt
<1>9. CASE ~(b < K)
  <2> DEFINE d == b - K
  <2>1. d \in 0 .. M - 1 /\ d \in Nat /\ b = K + d
    BY <1>3, <1>4, <1>9
  <2>2. y = BlockAt(K) + BlockAt(d) /\ BlockAt(d) \in Nat
    <3>1. (K + d) * Unit = K * Unit + d * Unit
      BY <1>3, <2>1
    <3> QED BY <2>1, <3>1, BlockRoom DEF BlockAt
  <2>3. BlockAt(d) + Unit <= M * Unit
    BY <1>3, <2>1, BlockRoom DEF BlockAt
  <2>4. p - pos = BlockAt(d) + o
    <3> DEFINE z == BlockAt(K)
               x == BlockAt(d)
    <3>1. z \in Nat /\ x \in Nat /\ y = z + x /\ pos = a + z
      BY <1>5, <2>2
    <3> SUFFICES p - pos = x + o
      OBVIOUS
    <3> HIDE DEF p, a, pos, y, z, x
    <3> QED BY <1>1, <1>2, <1>3, <3>1
  <2>5. /\ pos \in Int /\ p \in Int /\ Len(region) \in Nat /\ pos <= p
        /\ p < pos + Len(region) /\ Len(region) <= Size
    <3> DEFINE z == BlockAt(K)
               x == BlockAt(d)
               u == M * Unit
    <3>1. z \in Nat /\ x \in Nat /\ u \in Nat /\ z + u = Stripe /\ pos = a + z /\ Len(region) = u
          /\ x + Unit <= u /\ p - pos = x + o
      BY <1>5, <1>6, <2>2, <2>3, <2>4
    <3> HIDE DEF p, a, pos, region, y, z, x, u
    <3> QED BY <1>1, <1>2, <1>3, <3>1
  <2>6. Overlay(sendBuffer, pos, region)[Cell(p)] = region[p - pos + 1]
    <3> HIDE DEF p, pos, region
    <3> QED BY <2>5, OverlayInside
  <2>7. region[p - pos + 1] = IF o = BlockSize THEN Validity ELSE EncodedByte(b, o)
    <3>1. p - pos + 1 \in 1 .. M * Unit /\ (p - pos + 1) - 1 = d * Unit + o
      <4> DEFINE x == BlockAt(d)
                 u == M * Unit
      <4>1. p - pos = x + o /\ x + Unit <= u /\ x \in Nat /\ u \in Nat
        BY <1>5, <2>2, <2>3, <2>4
      <4>2. p - pos + 1 \in 1 .. u /\ (p - pos + 1) - 1 = x + o
        <5> HIDE DEF p, pos, x, u
        <5> QED BY <1>3, <4>1
      <4> QED BY <4>2 DEF BlockAt
    <3>2. (d * Unit + o) \div Unit = d /\ (d * Unit + o) % Unit = o
      BY <2>1, Joined
    <3>3. region[p - pos + 1]
              = LET c == K + ((p - pos + 1) - 1) \div Unit
                    offset == ((p - pos + 1) - 1) % Unit
                IN  IF offset = BlockSize THEN Validity ELSE EncodedByte(c, offset)
      BY <3>1 DEF EncodedRegion
    <3> HIDE DEF p, pos, region, d
    <3> QED BY <2>1, <3>1, <3>2, <3>3
  <2>8. CASE o = BlockSize
    BY <2>6, <2>7, <2>8, PlainByte DEF BlockAt
  <2>9. CASE o # BlockSize
    <3>1. ASSUME NEW c \in Data
          PROVE  sendBuffer[At(Current.at, c, o)] = StreamByte(sent[Len(sent)].data, c * BlockSize + o)
      <4>1. c \in Block /\ c < K /\ c \in Nat
        BY <1>3 DEF Data, Block
      <4>2. At(Current.at, c, o) = Cell(Pos(Len(sent), c, o))
        BY <1>1 DEF At, Pos, BlockAt
      <4>3. LaidByte(c, o) = BlockByte(Len(sent), c, o)
        BY <1>3, <4>1 DEF LaidByte
      <4>4. BlockByte(Len(sent), c, o) = StreamByte(sent[Len(sent)].data, c * BlockSize + o)
        BY <2>9, <4>1, PlainByte
      <4> QED BY <1>7, <4>1, <4>2, <4>3, <4>4
    <3>2. [c \in Data |-> sendBuffer[At(Current.at, c, o)]]
              = [c \in Data |-> StreamByte(sent[Len(sent)].data, c * BlockSize + o)]
      BY <3>1
    <3>3. EncodedByte(b, o) = BlockByte(Len(sent), b, o)
      <4>1. BlockByte(Len(sent), b, o)
                = Parity(b - K, [c \in Data |->
                                    StreamByte(sent[Len(sent)].data, c * BlockSize + o)])
        BY <1>1, <1>9, <2>9, BlockByteCases, Zenon
      <4>2. EncodedByte(b, o) = Parity(b - K, [c \in Data |-> sendBuffer[At(Current.at, c, o)]])
        BY Zenon DEF EncodedByte
      <4> QED BY <3>2, <4>1, <4>2, Zenon
    <3> QED BY <2>6, <2>7, <2>9, <3>3 DEF BlockAt
  <2> QED BY <2>8, <2>9
<1> QED BY <1>8, <1>9

LEMMA EncodeStep ==
  ASSUME SendInv, Encode
  PROVE  SendInv'
<1>1. SenderPart /\ CardTypes /\ ReceiverPart /\ Granted
  BY Parts
<1>2. /\ sPc = "encode"
      /\ UNCHANGED <<sent, sendPos, readQp>>
      /\ UNCHANGED nicVars /\ UNCHANGED receiverVars /\ UNCHANGED receiveBuffer
  BY DEF Encode
<1>3. \/ /\ sendBuffer' = Overlay(sendBuffer, Current.at + K * Unit, EncodedRegion)
         /\ unencoded' = unencoded
      \/ unencoded' = unencoded \union {Len(sent)} /\ sendBuffer' = sendBuffer
  BY DEF Encode
<1>4. IF M = 0 THEN sPc' = "idle" /\ sBlock' = 0 ELSE sPc' = "post" /\ sBlock' = sBlock
  BY DEF Encode
<1>5. /\ sent # <<>> /\ sendPos = Current.at + Stripe /\ sBlock = K /\ IsCoded
      /\ Len(sent) \in DOMAIN sent /\ Current.at \in Nat /\ Len(sent) \notin unencoded /\ PaddedOnly
  BY <1>1, <1>2, Messages DEF SenderPart, Progress, Laid, PaddedOnly, Current
<1>6. K \in Nat /\ M \in Nat /\ K > 0
  BY Sizes
<1>7. SenderTypes'
  <2>1. sendBuffer' \in [Cells -> Byte]
    <3>1. Current.at + K * Unit \in Int
      <4>1. K * Unit \in Nat
        BY Sizes
      <4> QED BY <1>5, <4>1
    <3>2. EncodedRegion \in Seq(Byte)
      BY <1>1, <1>5, RegionType DEF SenderPart
    <3>3. sendBuffer \in [Cells -> Byte]
      BY <1>1 DEF SenderPart, SenderTypes
    <3>4. Overlay(sendBuffer, Current.at + K * Unit, EncodedRegion) \in [Cells -> Byte]
      BY <3>1, <3>2, <3>3, OverlayType
    <3> QED BY <1>3, <3>3, <3>4
  <2>2. unencoded' \subseteq DOMAIN sent
    BY <1>1, <1>3, <1>5 DEF SenderPart, SenderTypes
  <2>3. sBlock' \in 0 .. K + M /\ sPc' \in {"idle", "post"}
    BY <1>4, <1>5, <1>6
  <2> QED BY <1>1, <1>2, <2>1, <2>2, <2>3 DEF SenderPart, SenderTypes
<1>8. Stripes'
  BY <1>1, <1>2 DEF SenderPart, Stripes
<1>9. Current' = Current /\ IsCoded' = IsCoded /\ StripeAt(Len(sent))' = StripeAt(Len(sent))
  BY <1>2 DEF Current, IsCoded, StripeAt, Stripe, Unit
<1>10. Progress'
  <2>1. CASE M = 0
    <3>1. StripeAt(Len(sent)) = Current.at + Stripe
      <4>1. /\ Current.at = StripeAt(Len(sent) - 1) /\ Len(sent) - 1 \in Nat
            /\ (Len(sent) - 1) + 1 = Len(sent)
        BY <1>1, <1>5, Messages DEF SenderPart, Stripes, Current
      <4> QED BY <4>1, StripeRoom
    <3>2. sendPos' = StripeAt(Len(sent))'
      BY <1>2, <1>5, <1>9, <3>1
    <3> QED BY <1>4, <2>1, <3>2 DEF Progress, Writing
  <2>2. CASE M # 0
    <3>1. sPc' = "post" /\ sBlock' = K /\ ~(sBlock' < K) /\ sBlock' < K + M
      BY <1>4, <1>5, <1>6, <2>2
    <3>2. sent' # <<>> /\ sendPos' = Current'.at + Stripe /\ IsCoded'
      BY <1>2, <1>5, <1>9
    <3> QED BY <3>1, <3>2 DEF Progress, Writing, Stripe, Unit
  <2> QED BY <2>1, <2>2
<1>11. Laid'
  <2>1. ~PaddedOnly'
    BY <1>4, <1>5, <1>6 DEF PaddedOnly, Writing
  <2>2. ASSUME NEW b \in Block, NEW o \in 0 .. BlockSize
        PROVE  (sendBuffer[Cell(Pos(Len(sent), b, o))] = LaidByte(b, o))'
    <3>1. Pos(Len(sent), b, o)' = Pos(Len(sent), b, o)
      BY <1>2 DEF Pos
    <3>2. Cell(Pos(Len(sent), b, o))' = Cell(Pos(Len(sent), b, o))
      BY <3>1 DEF Cell
    <3>3. LaidByte(b, o)' = BlockByte(Len(sent), b, o)'
      BY <2>1 DEF LaidByte
    <3>4. CASE unencoded' = unencoded /\ sendBuffer' = Overlay(sendBuffer, Current.at + K * Unit, EncodedRegion)
      <4>1. BlockByte(Len(sent), b, o)' = BlockByte(Len(sent), b, o)
        BY <1>2, <3>4 DEF BlockByte
      <4>2. sendBuffer'[Cell(Pos(Len(sent), b, o))] = BlockByte(Len(sent), b, o)
        BY <1>1, <1>2, <3>4, EncodedLaid
      <4> QED BY <3>2, <3>3, <4>1, <4>2
    <3>5. CASE unencoded' = unencoded \union {Len(sent)} /\ sendBuffer' = sendBuffer
      <4>1. sendBuffer[Cell(Pos(Len(sent), b, o))] = LaidByte(b, o)
        <5>1. Pos(Len(sent), b, o) < sendPos
          BY <1>1, <1>5, CurrentPosition DEF SenderPart
        <5> QED BY <1>1, <1>2, <5>1 DEF SenderPart, Laid
      <4>2. BlockByte(Len(sent), b, o)' = LaidByte(b, o)
        <5>1. o \in Nat /\ b \in Nat /\ BlockSize \in Nat /\ (o # BlockSize <=> o < BlockSize)
              /\ (~(b < K) <=> b >= K)
          BY <1>6, BlockType, Sizes
        <5>2. CASE o = BlockSize
          <6>1. LaidByte(b, o) = BlockByte(Len(sent), b, o)
            BY <5>1, <5>2 DEF LaidByte
          <6>2. BlockByte(Len(sent), b, o) = Validity
            BY <5>2, PlainByte
          <6>3. BlockByte(Len(sent), b, o)' = Validity
            BY <5>2 DEF BlockByte
          <6> QED BY <6>1, <6>2, <6>3
        <5>3. CASE o # BlockSize /\ b < K
          <6>1. LaidByte(b, o) = BlockByte(Len(sent), b, o)
            BY <5>1, <5>3 DEF LaidByte
          <6>2. ~(b >= K)
            BY <5>1, <5>3
          <6>3. BlockByte(Len(sent), b, o)' = BlockByte(Len(sent), b, o)
            BY <1>2, <5>3, <6>2 DEF BlockByte
          <6> QED BY <6>1, <6>3
        <5>4. CASE o # BlockSize /\ ~(b < K)
          <6>1. LaidByte(b, o) = Pad
            BY <1>5, <5>1, <5>4 DEF LaidByte
          <6>2. Len(sent') \in unencoded' /\ b >= K
            BY <1>2, <3>5, <5>1, <5>4
          <6>3. BlockByte(Len(sent), b, o)' = Pad
            BY <5>4, <6>2 DEF BlockByte
          <6> QED BY <6>1, <6>3
        <5> QED BY <5>2, <5>3, <5>4
      <4> QED BY <3>2, <3>3, <3>5, <4>1, <4>2
    <3> QED BY <1>3, <3>4, <3>5
  <2> QED BY <2>1, <2>2, Zenon DEF Laid
<1>12. SenderPart'
  BY <1>7, <1>8, <1>10, <1>11 DEF SenderPart
<1>13. CardTypes' /\ ReceiverPart'
  BY <1>1, <1>2, CardUnchanged, ReceiverUnchanged
<1>14. Granted'
  BY <1>1, <1>2 DEF Granted, Writing, nicVars, receiverVars
<1> QED BY <1>12, <1>13, <1>14, PartsPrimed

-----------------------------------------------------------------------------
(* The steps of the card *)

LEMMA ShorterFields ==
  ASSUME NEW w \in WriteRequest
  PROVE  Shorter(w) = [begin |-> w.begin + 1, len |-> w.len - 1, stripe |-> w.stripe, from |-> w.from + 1]
<1>1. w = [begin |-> w.begin, len |-> w.len, stripe |-> w.stripe, from |-> w.from]
  BY DEF WriteRequest
<1> DEFINE x == w.begin
           y == w.len
           z == w.stripe
           f == w.from
<1>2. w = [begin |-> x, len |-> y, stripe |-> z, from |-> f]
  BY <1>1
<1>3. Shorter(w) = [w EXCEPT !.begin = x + 1, !.len = y - 1, !.from = f + 1]
  BY DEF Shorter
<1> HIDE DEF x, y, z, f
<1>4. Shorter(w) = [begin |-> x + 1, len |-> y - 1, stripe |-> z, from |-> f + 1]
  BY <1>2, <1>3
<1> QED BY <1>4 DEF x, y, z, f

LEMMA PlaceByteStep ==
  ASSUME SendInv, NEW q \in Block, PlaceByte(q)
  PROVE  SendInv'
<1> DEFINE s == sq[q]
           wr == Head(s)
<1>1. SenderPart /\ CardTypes /\ ReceiverPart /\ Granted
  BY Parts
<1>2. /\ s # <<>>
      /\ receiveBuffer' = [receiveBuffer EXCEPT ![wr.begin] = sendBuffer[wr.begin]]
      /\ sq' = [sq EXCEPT ![q] = IF wr.len = 1 THEN Tail(s) ELSE [s EXCEPT ![1] = Shorter(wr)]]
      /\ UNCHANGED senderVars /\ UNCHANGED receiverVars
      /\ UNCHANGED <<sqUsed, reading, readValue, currentRemoteReceive, cq, broken>>
  BY DEF PlaceByte
<1>3. /\ s \in Seq(WriteRequest) /\ Len(s) \in Nat /\ 1 \in DOMAIN s /\ wr = s[1] /\ DOMAIN s = 1 .. Len(s)
      /\ wr \in WriteRequest /\ Tail(s) \in Seq(WriteRequest) /\ Len(Tail(s)) = Len(s) - 1
      /\ \A i \in 1 .. Len(s) - 1 : Tail(s)[i] = s[i + 1]
  <2>1. s \in Seq(WriteRequest)
    BY <1>1 DEF CardTypes
  <2> HIDE DEF s
  <2> QED BY <1>2, <2>1
<1>4. ASSUME NEW i \in DOMAIN s PROVE s[i].begin + s[i].len <= Size /\ s[i].from + s[i].len <= Unit
  BY <1>1 DEF CardTypes
<1>5. SenderPart'
  BY <1>1, <1>2, SenderUnchanged
<1>6. ReceiverPart'
  <2>1. receiveBuffer' \in [Cells -> Byte]
    <3>1. wr.begin \in Cells
      BY <1>3 DEF WriteRequest
    <3>2. sendBuffer[wr.begin] \in Byte
      BY <1>1, <3>1 DEF SenderPart, SenderTypes
    <3> QED BY <1>1, <1>2, <3>2 DEF ReceiverPart, ReceiverTypes
  <2>2. ReceiverTypes'
    BY <1>1, <1>2, <2>1 DEF ReceiverPart, ReceiverTypes, receiverVars
  <2>3. Survivors'
    BY <1>1, <1>2 DEF ReceiverPart, Survivors, receiverVars
  <2> QED BY <2>2, <2>3 DEF ReceiverPart
<1>7. CardTypes'
  <2> DEFINE t == IF wr.len = 1 THEN Tail(s) ELSE [s EXCEPT ![1] = Shorter(wr)]
  <2>1. WellFormed(t)
    <3>1. CASE wr.len = 1
      <4>1. t = Tail(s) /\ DOMAIN t = 1 .. Len(s) - 1
        BY <1>3, <3>1
      <4>2. ASSUME NEW i \in DOMAIN t
            PROVE  t[i].begin + t[i].len <= Size /\ t[i].from + t[i].len <= Unit
        <5>1. i + 1 \in DOMAIN s /\ t[i] = s[i + 1]
          BY <1>3, <4>1
        <5> QED BY <1>4, <5>1
      <4> QED BY <1>3, <4>1, <4>2 DEF WellFormed
    <3>2. CASE wr.len # 1
      <4>1. /\ wr.begin \in Cells /\ wr.len \in 1 .. Size /\ wr.stripe \in Nat /\ wr.from \in 0 .. BlockSize
            /\ wr = [begin |-> wr.begin, len |-> wr.len, stripe |-> wr.stripe, from |-> wr.from]
        BY <1>3 DEF WriteRequest
      <4>2. wr.begin + wr.len <= Size /\ wr.from + wr.len <= Unit
        BY <1>3, <1>4
      <4> DEFINE v == Shorter(wr)
      <4>3. v = [begin |-> wr.begin + 1, len |-> wr.len - 1, stripe |-> wr.stripe, from |-> wr.from + 1]
        BY <1>3, ShorterFields
      <4>4. wr.begin + 1 \in Cells /\ wr.len - 1 \in 1 .. Size /\ wr.from + 1 \in 0 .. BlockSize
        <5> DEFINE x == wr.begin
                   y == wr.len
                   z == wr.from
        <5>1. x \in Cells /\ y \in 1 .. Size /\ z \in 0 .. BlockSize /\ x + y <= Size /\ z + y <= Unit /\ y # 1
          BY <3>2, <4>1, <4>2
        <5> HIDE DEF x, y, z
        <5>2. x + 1 \in Cells /\ y - 1 \in 1 .. Size /\ z + 1 \in 0 .. BlockSize
          BY <5>1, Sizes DEF Cells
        <5> QED BY <5>2 DEF x, y, z
      <4>5. v \in WriteRequest /\ v.begin + v.len <= Size /\ v.from + v.len <= Unit
        BY <4>1, <4>2, <4>3, <4>4, Sizes DEF WriteRequest, Cells
      <4> HIDE DEF v
      <4>6. t = [s EXCEPT ![1] = v]
        BY <3>2 DEF v
      <4>7. t \in Seq(WriteRequest) /\ DOMAIN t = DOMAIN s /\ t[1] = v
            /\ \A i \in DOMAIN s : i # 1 => t[i] = s[i]
        <5> HIDE DEF s, t
        <5> QED BY <1>3, <4>5, <4>6
      <4> HIDE DEF t
      <4> QED BY <1>4, <4>5, <4>7 DEF WellFormed
    <3> QED BY <3>1, <3>2
  <2>2. sq' = [sq EXCEPT ![q] = t]
    BY <1>2
  <2> HIDE DEF t
  <2>3. /\ sq' \in [Block -> Seq(WriteRequest)] /\ sq'[q] = t
        /\ \A p \in Block : p # q => sq'[p] = sq[p]
    BY <1>1, <2>1, <2>2 DEF CardTypes, WellFormed
  <2>4. \A p \in Block : \A i \in DOMAIN sq'[p] : /\ sq'[p][i].begin + sq'[p][i].len <= Size
                                                  /\ sq'[p][i].from + sq'[p][i].len <= Unit
    BY <1>1, <2>1, <2>3 DEF CardTypes, WellFormed
  <2> QED BY <1>1, <1>2, <2>3, <2>4 DEF CardTypes
<1>8. Granted'
  BY <1>1, <1>2 DEF Granted, Writing, senderVars, receiverVars
<1> QED BY <1>5, <1>6, <1>7, <1>8, PartsPrimed

LEMMA ReadSteps ==
  ASSUME SendInv, ExecuteRead \/ LandRead
  PROVE  SendInv'
<1>1. SenderPart /\ CardTypes /\ ReceiverPart /\ Granted
  BY Parts
<1>2. /\ reading # "none" /\ reading' \in {"executed", "landed"}
      /\ UNCHANGED senderVars /\ UNCHANGED receiverVars /\ UNCHANGED receiveBuffer
      /\ UNCHANGED <<sq, sqUsed, broken>>
  BY DEF ExecuteRead, LandRead
<1>3. \/ readValue' = readPos /\ currentRemoteReceive' = currentRemoteReceive /\ cq' = cq
      \/ readValue' = readValue /\ currentRemoteReceive' = readValue /\ cq' = Append(cq, "read")
  BY DEF ExecuteRead, LandRead
<1>4. SenderPart' /\ ReceiverPart'
  BY <1>1, <1>2, SenderUnchanged, ReceiverUnchanged
<1>5. readPos \in Nat /\ sendPos \in Nat /\ currentRemoteReceive \in Nat /\ readValue \in Nat
      /\ cq \in Seq({"read", "error"}) /\ Size \in Nat
  BY <1>1, Sizes DEF ReceiverPart, ReceiverTypes, SenderPart, SenderTypes, CardTypes
<1>6. CardTypes'
  <2>1. Append(cq, "read") \in Seq({"read", "error"})
    BY <1>5
  <2>2. cq' \in Seq({"read", "error"}) /\ readValue' \in Nat /\ currentRemoteReceive' \in Nat
    BY <1>3, <1>5, <2>1
  <2> QED BY <1>1, <1>2, <2>2 DEF CardTypes
<1>7. Granted'
  <2>1. Writing' = Writing /\ Writing
    BY <1>1, <1>2 DEF Granted, Writing, senderVars
  <2>2. sendPos' = sendPos /\ readPos' = readPos
    BY <1>2 DEF senderVars, receiverVars
  <2>3. currentRemoteReceive <= readValue /\ readValue <= readPos /\ sendPos - currentRemoteReceive <= Size
    BY <1>1 DEF Granted
  <2>4. /\ currentRemoteReceive' <= readValue' /\ readValue' <= readPos'
        /\ sendPos' - currentRemoteReceive' <= Size
    BY <1>3, <1>5, <2>2, <2>3
  <2> QED BY <2>1, <2>4 DEF Granted
<1> QED BY <1>4, <1>6, <1>7, PartsPrimed

LEMMA BreakStep ==
  ASSUME SendInv, NEW q \in Block, Break(q)
  PROVE  SendInv'
<1> DEFINE read == IF readQp = q /\ reading \in {"posted", "executed"} THEN 1 ELSE 0
           n == Len(sq[q]) + read
           errors == [i \in 1 .. n |-> "error"]
<1>1. SenderPart /\ CardTypes /\ ReceiverPart /\ Granted
  BY Parts
<1>2. /\ broken' = broken \union {q}
      /\ cq' = cq \o errors
      /\ sq' = [sq EXCEPT ![q] = <<>>]
      /\ UNCHANGED senderVars /\ UNCHANGED receiverVars /\ UNCHANGED receiveBuffer
      /\ UNCHANGED <<sqUsed, reading, readValue, currentRemoteReceive>>
  BY DEF Break
<1>3. cq' \in Seq({"read", "error"})
  <2>1. n \in Nat
    <3>1. Len(sq[q]) \in Nat
      <4>1. sq[q] \in Seq(WriteRequest)
        BY <1>1 DEF CardTypes
      <4> QED BY <4>1, LenProperties
    <3>2. read \in Nat
      OBVIOUS
    <3> HIDE DEF read
    <3> QED BY <3>1, <3>2
  <2>2. errors \in [1 .. n -> {"read", "error"}]
    OBVIOUS
  <2> HIDE DEF errors, n
  <2>3. errors \in Seq({"read", "error"})
    BY <2>1, <2>2, FunctionIsSeq
  <2> QED BY <1>1, <1>2, <2>3, ConcatProperties DEF CardTypes
<1>4. CardTypes'
  <2>1. <<>> \in Seq(WriteRequest) /\ DOMAIN <<>> = {}
    OBVIOUS
  <2>2. /\ sq' \in [Block -> Seq(WriteRequest)] /\ sq'[q] = <<>>
        /\ \A p \in Block : p # q => sq'[p] = sq[p]
    BY <1>1, <1>2, <2>1 DEF CardTypes
  <2>3. \A p \in Block : \A i \in DOMAIN sq'[p] : /\ sq'[p][i].begin + sq'[p][i].len <= Size
                                                  /\ sq'[p][i].from + sq'[p][i].len <= Unit
    BY <1>1, <2>1, <2>2 DEF CardTypes
  <2> QED BY <1>1, <1>2, <1>3, <2>2, <2>3 DEF CardTypes
<1>5. SenderPart' /\ ReceiverPart'
  BY <1>1, <1>2, SenderUnchanged, ReceiverUnchanged
<1>6. Granted'
  BY <1>1, <1>2 DEF Granted, Writing, senderVars, receiverVars
<1> QED BY <1>4, <1>5, <1>6, PartsPrimed

-----------------------------------------------------------------------------
(* The steps of receive() *)

LEMMA SenderIsApart ==
  ASSUME SenderPart, CardTypes, Granted, UNCHANGED senderVars, UNCHANGED nicVars,
         readPos \in Nat, readPos' \in Nat, readPos <= readPos'
  PROVE  SenderPart' /\ CardTypes' /\ Granted'
<1>1. SenderPart' /\ CardTypes'
  BY SenderUnchanged, CardUnchanged
<1>2. readValue \in Nat
  BY DEF CardTypes
<1>3. readValue' <= readPos'
  BY <1>2 DEF Granted, nicVars
<1>4. Granted'
  BY <1>3 DEF Granted, Writing, senderVars, nicVars
<1> QED BY <1>1, <1>4

LEMMA BlocksFinite ==
  IsFiniteSet(Block) /\ \A S \in SUBSET Block : IsFiniteSet(S) /\ Cardinality(S) \in Nat
<1>1. IsFiniteSet(Block)
  BY FS_Interval, Sizes DEF Block
<1>2. ASSUME NEW S \in SUBSET Block PROVE IsFiniteSet(S) /\ Cardinality(S) \in Nat
  BY <1>1, FS_Subset, FS_CardinalityType
<1> QED BY <1>1, <1>2

LEMMA PollBlockStep ==
  ASSUME ReceiverPart, PollBlock
  PROVE  ReceiverPart'
<1>1. /\ ReceiverTypes /\ Survivors /\ rPc = "poll" /\ rBlock < K + M /\ rBlock' = rBlock + 1
      /\ UNCHANGED <<rPc, receiveSize, readPos, received, undecoded, unstarted, receiveBuffer>>
  BY DEF ReceiverPart, PollBlock
<1>2. \/ receivedBlocks' = receivedBlocks /\ survived' = survived
      \/ /\ rBlock \notin receivedBlocks /\ receivedBlocks' = receivedBlocks \union {rBlock}
         /\ survived' = IF Cardinality(receivedBlocks) < K THEN survived \union {rBlock} ELSE survived
  BY DEF PollBlock
<1>3. rBlock \in Block /\ rBlock + 1 \in 0 .. K + M /\ K \in Nat
  BY <1>1, Sizes DEF ReceiverTypes, Block
<1>4. ReceiverTypes'
  BY <1>1, <1>2, <1>3 DEF ReceiverTypes
<1>5. IF Cardinality(receivedBlocks) < K THEN survived = receivedBlocks ELSE Cardinality(survived) = K
  BY <1>1 DEF Survivors
<1>6. IsFiniteSet(receivedBlocks) /\ Cardinality(receivedBlocks) \in Nat
  BY <1>1, BlocksFinite DEF ReceiverTypes
<1>7. IF Cardinality(receivedBlocks') < K THEN survived' = receivedBlocks' ELSE Cardinality(survived') = K
  <2>1. CASE receivedBlocks' = receivedBlocks /\ survived' = survived
    BY <1>5, <2>1
  <2>2. CASE /\ rBlock \notin receivedBlocks /\ receivedBlocks' = receivedBlocks \union {rBlock}
             /\ survived' = IF Cardinality(receivedBlocks) < K THEN survived \union {rBlock} ELSE survived
    <3>1. Cardinality(receivedBlocks') = Cardinality(receivedBlocks) + 1
      BY <1>6, <2>2, FS_AddElement
    <3>2. CASE Cardinality(receivedBlocks) < K
      <4>1. survived' = receivedBlocks'
        BY <1>5, <2>2, <3>2
      <4>2. ~(Cardinality(receivedBlocks') < K) => Cardinality(receivedBlocks') = K
        BY <1>3, <1>6, <3>1, <3>2
      <4> QED BY <4>1, <4>2
    <3>3. CASE ~(Cardinality(receivedBlocks) < K)
      <4>1. Cardinality(survived') = K
        BY <1>5, <2>2, <3>3
      <4>2. ~(Cardinality(receivedBlocks') < K)
        BY <1>3, <1>6, <3>1, <3>3
      <4> QED BY <4>1, <4>2
    <3> QED BY <3>2, <3>3
  <2> QED BY <1>2, <2>1, <2>2
<1>8. Survivors'
  BY <1>1, <1>7 DEF Survivors
<1> QED BY <1>4, <1>8 DEF ReceiverPart

LEMMA DecodedType ==
  ASSUME ReceiverTypes, Cardinality(survived) = K
  PROVE  DecodedRegion \in Seq(Byte) /\ Len(DecodedRegion) = K * Unit
<1>1. K \in Nat /\ K * Unit \in Nat /\ readPos \in Int /\ survived \in SUBSET Block
  BY Sizes DEF ReceiverTypes
<1>2. ASSUME NEW i \in 1 .. K * Unit
      PROVE (LET b == (i - 1) \div Unit
                 offset == (i - 1) % Unit
             IN  IF b \in survived \/ offset = BlockSize
                 THEN receiveBuffer[At(readPos, b, offset)]
                 ELSE DecodedColumn(offset)[b]) \in Byte
  <2> DEFINE b == (i - 1) \div Unit
             offset == (i - 1) % Unit
  <2>1. b \in 0 .. K - 1 /\ offset \in 0 .. BlockSize
    BY <1>1, Split
  <2> SUFFICES (IF b \in survived \/ offset = BlockSize
                THEN receiveBuffer[At(readPos, b, offset)]
                ELSE DecodedColumn(offset)[b]) \in Byte
    OBVIOUS
  <2> HIDE DEF b, offset
  <2>2. b \in Int /\ offset \in Int /\ b \in Data
    BY <2>1, Sizes DEF Data
  <2>3. receiveBuffer[At(readPos, b, offset)] \in Byte
    BY <1>1, <2>2, AtType DEF ReceiverTypes
  <2>4. DecodedColumn(offset) \in Column
    <3>1. ASSUME NEW c \in survived PROVE receiveBuffer[At(readPos, c, offset)] \in Byte
      <4>1. c \in Int
        BY <1>1, Sizes DEF Block
      <4> QED BY <1>1, <2>2, <4>1, AtType DEF ReceiverTypes
    <3>2. [c \in survived |-> receiveBuffer[At(readPos, c, offset)]] \in [survived -> Byte]
      BY <3>1
    <3>3. \A known \in [survived -> Byte] : Recover(known) \in Column
      BY <1>1, CodeAssumption
    <3> QED BY <3>2, <3>3 DEF DecodedColumn
  <2>5. DecodedColumn(offset)[b] \in Byte
    BY <2>2, <2>4 DEF Column
  <2> QED BY <2>3, <2>5
<1>3. DecodedRegion \in [1 .. K * Unit -> Byte]
  BY <1>2 DEF DecodedRegion
<1> QED BY <1>1, <1>3, FunctionIsSeq

LEMMA DecodeStep ==
  ASSUME ReceiverPart, Decode
  PROVE  ReceiverPart'
<1>1. /\ ReceiverTypes /\ Survivors /\ rPc = "decode" /\ rPc' = "size"
      /\ UNCHANGED <<rBlock, receivedBlocks, survived, receiveSize, readPos, received>>
  BY DEF ReceiverPart, Decode
<1>2. \/ /\ receiveBuffer' = Overlay(receiveBuffer, readPos, DecodedRegion)
         /\ undecoded' = undecoded /\ unstarted' = unstarted
      \/ /\ receiveBuffer' = receiveBuffer /\ undecoded' = undecoded \union {Len(received) + 1}
         /\ unstarted' = unstarted \/ unstarted' = {Len(received) + 1}
  BY DEF Decode
<1>3. receiveBuffer' \in [Cells -> Byte]
  <2>1. Cardinality(survived) = K
    BY <1>1 DEF Survivors
  <2>2. DecodedRegion \in Seq(Byte)
    BY <1>1, <2>1, DecodedType
  <2>3. receiveBuffer \in [Cells -> Byte] /\ readPos \in Nat
    BY <1>1 DEF ReceiverTypes
  <2>4. Overlay(receiveBuffer, readPos, DecodedRegion) \in [Cells -> Byte]
    BY <2>2, <2>3, OverlayType
  <2> QED BY <1>2, <2>3, <2>4
<1>4. undecoded' \subseteq Nat \ {0} /\ unstarted' \subseteq undecoded'
  <2>1. Len(received) \in Nat
    BY <1>1, LenProperties DEF ReceiverTypes
  <2>2. Len(received) + 1 \in Nat \ {0}
    BY <2>1
  <2>3. undecoded \subseteq Nat \ {0} /\ unstarted \subseteq undecoded
    BY <1>1 DEF ReceiverTypes
  <2>4. CASE undecoded' = undecoded /\ unstarted' = unstarted
    BY <2>3, <2>4
  <2>5. CASE /\ undecoded' = undecoded \union {Len(received) + 1}
             /\ unstarted' = unstarted \/ unstarted' = {Len(received) + 1}
    BY <2>2, <2>3, <2>5
  <2> QED BY <1>2, <2>4, <2>5
<1>5. ReceiverTypes'
  BY <1>1, <1>3, <1>4 DEF ReceiverTypes
<1>6. Survivors'
  BY <1>1 DEF Survivors
<1> QED BY <1>5, <1>6 DEF ReceiverPart

LEMMA CopyPayloadStep ==
  ASSUME ReceiverPart, CopyPayload
  PROVE  ReceiverPart'
<1> DEFINE payload == [i \in 1 .. receiveSize |->
                          receiveBuffer[At(readPos, i \div BlockSize, i % BlockSize)]]
<1>1. /\ ReceiverTypes /\ rPc' = "zero" /\ received' = Append(received, payload)
      /\ UNCHANGED <<rBlock, receivedBlocks, survived, receiveSize, readPos, undecoded, unstarted, receiveBuffer>>
  BY DEF ReceiverPart, CopyPayload
<1>2. payload \in Seq(Byte)
  <2>1. ASSUME NEW i \in 1 .. receiveSize
        PROVE receiveBuffer[At(readPos, i \div BlockSize, i % BlockSize)] \in Byte
    <3>1. i \in Int /\ BlockSize \in Nat /\ BlockSize > 0
      BY Sizes
    <3>2. i \div BlockSize \in Int /\ i % BlockSize \in Int
      BY <3>1
    <3> QED BY <1>1, <3>2, AtType DEF ReceiverTypes
  <2>2. payload \in [1 .. receiveSize -> Byte]
    BY <2>1
  <2> QED BY <1>1, <2>2, FunctionIsSeq DEF ReceiverTypes
<1> HIDE DEF payload
<1>3. received' \in Seq(Seq(Byte))
  BY <1>1, <1>2, AppendProperties DEF ReceiverTypes
<1>4. ReceiverTypes'
  BY <1>1, <1>3 DEF ReceiverTypes
<1>5. Survivors'
  BY <1>1 DEF Survivors
<1> QED BY <1>4, <1>5 DEF ReceiverPart

LEMMA ZeroesType ==
  /\ [i \in 1 .. Stripe |-> 0] \in Seq(Byte) /\ Len([i \in 1 .. Stripe |-> 0]) = Stripe
<1>1. Stripe \in Nat /\ 0 \in Byte
  BY Sizes, ByteAssumption
<1>2. [i \in 1 .. Stripe |-> 0] \in [1 .. Stripe -> Byte]
  BY <1>1
<1> QED BY <1>1, <1>2, FunctionIsSeq

LEMMA ReceiverStep ==
  ASSUME SendInv, Receiver
  PROVE  SendInv'
<1>1. SenderPart /\ CardTypes /\ ReceiverPart /\ Granted /\ ReceiverTypes /\ Survivors
  BY Parts DEF ReceiverPart
<1>2. UNCHANGED senderVars /\ UNCHANGED nicVars
  BY DEF Receiver, StartReceive, PollBlock, PollAgain, EnoughBlocks, Decode, ReadSize, AllocateResult,
         CopyPayload, ZeroReceiveBuffer, AdvanceReadPos
<1>3. K \in Nat /\ K > 0 /\ M \in Nat /\ Stripe \in Nat /\ readPos \in Nat
  BY <1>1, Sizes DEF ReceiverTypes
<1>4. ReceiverPart' /\ readPos' \in Nat /\ readPos <= readPos'
  <2>1. CASE StartReceive
    <3>1. /\ rPc' = "poll" /\ rBlock' = 0 /\ receivedBlocks' = {} /\ survived' = {}
          /\ UNCHANGED <<receiveSize, readPos, received, undecoded, unstarted, receiveBuffer>>
      BY <2>1 DEF StartReceive
    <3>2. ReceiverTypes'
      BY <1>1, <1>3, <3>1 DEF ReceiverTypes
    <3>3. Survivors'
      BY <1>3, <3>1, FS_EmptySet DEF Survivors
    <3> QED BY <1>3, <3>1, <3>2, <3>3 DEF ReceiverPart
  <2>2. CASE PollBlock
    <3>1. readPos' = readPos
      BY <2>2 DEF PollBlock
    <3> QED BY <1>1, <1>3, <2>2, <3>1, PollBlockStep
  <2>3. CASE PollAgain
    <3>1. /\ rBlock' = 0
          /\ UNCHANGED <<rPc, receivedBlocks, survived, receiveSize, readPos, received, undecoded, unstarted,
                         receiveBuffer>>
      BY <2>3 DEF PollAgain
    <3>2. ReceiverTypes' /\ Survivors'
      BY <1>1, <1>3, <3>1 DEF ReceiverTypes, Survivors
    <3> QED BY <1>3, <3>1, <3>2 DEF ReceiverPart
  <2>4. CASE EnoughBlocks
    <3>1. /\ rPc = "poll" /\ Cardinality(receivedBlocks) >= K /\ rPc' \in {"size", "decode"}
          /\ UNCHANGED <<rBlock, receivedBlocks, survived, receiveSize, readPos, received, undecoded, unstarted,
                         receiveBuffer>>
      BY <2>4 DEF EnoughBlocks
    <3>2. Cardinality(survived) = K
      <4>1. Cardinality(receivedBlocks) \in Nat
        BY <1>1, BlocksFinite DEF ReceiverTypes
      <4>2. ~(Cardinality(receivedBlocks) < K)
        BY <1>3, <3>1, <4>1
      <4> QED BY <1>1, <3>1, <4>2 DEF Survivors
    <3>3. ReceiverTypes'
      BY <1>1, <3>1 DEF ReceiverTypes
    <3>4. Survivors'
      BY <3>1, <3>2 DEF Survivors
    <3> QED BY <1>3, <3>1, <3>3, <3>4 DEF ReceiverPart
  <2>5. CASE Decode
    <3>1. readPos' = readPos
      BY <2>5 DEF Decode
    <3> QED BY <1>1, <1>3, <2>5, <3>1, DecodeStep
  <2>6. CASE ReadSize
    <3>1. /\ receiveSize' = receiveBuffer[At(readPos, 0, 0)] /\ rPc' = "copy"
          /\ UNCHANGED <<rBlock, receivedBlocks, survived, readPos, received, undecoded, unstarted, receiveBuffer>>
      BY <2>6 DEF ReadSize
    <3>2. receiveSize' \in Nat
      BY <1>1, <1>3, <3>1, AtType, ByteAssumption DEF ReceiverTypes
    <3>3. ReceiverTypes' /\ Survivors'
      BY <1>1, <3>1, <3>2 DEF ReceiverTypes, Survivors
    <3> QED BY <1>3, <3>1, <3>3 DEF ReceiverPart
  <2>7. CASE CopyPayload
    <3>1. readPos' = readPos
      BY <2>7 DEF CopyPayload
    <3> QED BY <1>1, <1>3, <2>7, <3>1, CopyPayloadStep
  <2>8. CASE ZeroReceiveBuffer
    <3>1. /\ receiveBuffer' = Overlay(receiveBuffer, readPos, [i \in 1 .. Stripe |-> 0])
          /\ rPc' = "advance"
          /\ UNCHANGED <<rBlock, receivedBlocks, survived, receiveSize, readPos, received, undecoded, unstarted>>
      BY <2>8 DEF ZeroReceiveBuffer
    <3>2. receiveBuffer' \in [Cells -> Byte]
      <4>1. receiveBuffer \in [Cells -> Byte]
        BY <1>1 DEF ReceiverTypes
      <4> QED BY <1>3, <3>1, <4>1, ZeroesType, OverlayType
    <3>3. ReceiverTypes' /\ Survivors'
      BY <1>1, <3>1, <3>2 DEF ReceiverTypes, Survivors
    <3> QED BY <1>3, <3>1, <3>3 DEF ReceiverPart
  <2>9. CASE AdvanceReadPos
    <3>1. /\ readPos' = readPos + Stripe /\ rPc' = "idle" /\ rBlock' = 0 /\ receivedBlocks' = {}
          /\ survived' = {} /\ receiveSize' = 0
          /\ UNCHANGED <<received, undecoded, unstarted, receiveBuffer>>
      BY <2>9 DEF AdvanceReadPos
    <3>2. readPos' \in Nat /\ readPos <= readPos'
      BY <1>3, <3>1
    <3>3. ReceiverTypes' /\ Survivors'
      BY <1>1, <1>3, <3>1, <3>2 DEF ReceiverTypes, Survivors
    <3> QED BY <3>2, <3>3 DEF ReceiverPart
  <2>10. CASE AllocateResult
    <3>1. /\ rPc' = "failed"
          /\ UNCHANGED <<rBlock, receivedBlocks, survived, receiveSize, readPos, received, undecoded, unstarted,
                         receiveBuffer>>
      BY <2>10 DEF AllocateResult
    <3>2. ReceiverTypes' /\ Survivors'
      BY <1>1, <3>1 DEF ReceiverTypes, Survivors
    <3> QED BY <1>3, <3>1, <3>2 DEF ReceiverPart
  <2> QED BY <2>1, <2>2, <2>3, <2>4, <2>5, <2>6, <2>7, <2>8, <2>9, <2>10 DEF Receiver
<1>5. SenderPart' /\ CardTypes' /\ Granted'
  BY <1>1, <1>2, <1>3, <1>4, SenderIsApart
<1> QED BY <1>4, <1>5, PartsPrimed

-----------------------------------------------------------------------------
LEMMA SendInit == Init => SendInv
<1> SUFFICES ASSUME Init PROVE SenderPart /\ CardTypes /\ ReceiverPart /\ Granted
  BY Parts
<1>1. Size \in Nat /\ K \in Nat /\ K > 0 /\ M \in Nat /\ 0 \in Byte /\ MaxSendWr \in Nat
  BY Sizes, ByteAssumption, BoundAssumption
<1>2. 0 \in Block
  BY <1>1 DEF Block
<1>3. SenderTypes
  BY <1>1, <1>2 DEF Init, SenderTypes
<1>4. Len(sent) = 0 /\ DOMAIN sent = {}
  BY DEF Init
<1>5. Stripes
  BY <1>4 DEF Stripes
<1>6. Progress
  BY <1>4, StripeRoom DEF Init, Progress, Writing
<1>7. Laid
  BY DEF Init, Laid, PaddedOnly, Writing
<1>8. CardTypes
  <2>1. sq \in [Block -> Seq(WriteRequest)] /\ \A q \in Block : DOMAIN sq[q] = {}
    BY DEF Init
  <2>2. sqUsed \in [Block -> 0 .. MaxSendWr]
    BY <1>1 DEF Init
  <2>3. cq \in Seq({"read", "error"})
    BY DEF Init
  <2> QED BY <2>1, <2>2, <2>3 DEF Init, CardTypes
<1>9. ReceiverPart
  <2>1. received \in Seq(Seq(Byte)) /\ receiveBuffer \in [Cells -> Byte]
    BY <1>1 DEF Init
  <2> QED BY <1>1, <2>1 DEF Init, ReceiverPart, ReceiverTypes, Survivors
<1>10. Granted
  BY <1>1 DEF Init, Granted
<1> QED BY <1>3, <1>5, <1>6, <1>7, <1>8, <1>9, <1>10 DEF SenderPart

LEMMA SendNext == SendInv /\ [Next]_vars => SendInv'
<1> SUFFICES ASSUME SendInv, [Next]_vars PROVE SendInv'
  OBVIOUS
<1>1. CASE \E m \in Message : StartSend(m)
  BY <1>1, StartSendStep
<1>2. CASE Sender
  BY <1>2, WriteStep, PostReadStep, PollReadStep, PollErrorStep, PostDataStep, EncodeStep,
     PostParityStep, PostFullStep DEF Sender
<1>3. CASE \E q \in Block : PlaceByte(q) \/ Break(q)
  BY <1>3, PlaceByteStep, BreakStep
<1>4. CASE ExecuteRead \/ LandRead
  BY <1>4, ReadSteps
<1>5. CASE Receiver
  BY <1>5, ReceiverStep
<1>6. CASE UNCHANGED vars
  <2>1. SenderPart /\ CardTypes /\ ReceiverPart /\ Granted
    BY Parts
  <2>2. UNCHANGED senderVars /\ UNCHANGED nicVars /\ UNCHANGED receiverVars /\ UNCHANGED receiveBuffer
    BY <1>6 DEF vars
  <2>3. SenderPart' /\ CardTypes' /\ ReceiverPart'
    BY <2>1, <2>2, SenderUnchanged, CardUnchanged, ReceiverUnchanged
  <2>4. Granted'
    BY <2>1, <2>2 DEF Granted, Writing, senderVars, nicVars, receiverVars
  <2> QED BY <2>3, <2>4, PartsPrimed
<1> QED BY <1>1, <1>2, <1>3, <1>4, <1>5, <1>6 DEF Next

(* The state of send(): sendPos advances through the stripe of the current *)
(* message, what was written lies in the sendBuffer, and send() never gets *)
(* more than a ring ahead of the receiver.                                 *)
LEMMA SendingKept == Spec => []SendInv
<1>1. Init => SendInv
  BY SendInit
<1>2. SendInv /\ [Next]_vars => SendInv'
  BY SendNext
<1> QED BY <1>1, <1>2, PTL DEF Spec

(* Whatever the sizes, the payloads and the failures, ring positions,     *)
(* slices, queues and received blocks stay within their types: no slice    *)
(* leaves the ring, no decode is given other than K blocks.                *)
THEOREM TypesHold == Spec => []TypeOK
<1>1. SendInv => TypeOK
  BY DEF SendInv
<1> QED BY <1>1, SendingKept, PTL

=============================================================================
