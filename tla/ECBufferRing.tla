---------------------------- MODULE ECBufferRing ----------------------------
(***************************************************************************)
(* What the card and receive() make of the ring that send() fills:         *)
(* PendingKept, ValidIsCurrent, the refinement of MessageChannel and       *)
(* QueuesSuffice, for every ring, payload and schedule, provided that no   *)
(* message has more than K blocks sent.  With spare blocks receive() goes  *)
(* on while the card still holds writes for the stripe it leaves.          *)
(***************************************************************************)
EXTENDS ECBufferSender

-----------------------------------------------------------------------------
(* What the card and the receiver make of the ring *)

(* The blocks of message s that send() posts *)
Coding(s) == (s - 1) % Period < Coded
Due(s) == IF Coding(s) THEN Block \ {0} ELSE Data

(* No message has more than K blocks sent. *)
NoSpare == M <= 1 \/ Coded = 0

(* Blocks of the current message that send() has yet to post *)
BlockEnd(b) == Current.at + BlockAt(b) + Unit
Ahead(b) ==
    \/ Writing /\ (b >= sBlock \/ b >= K)
    \/ sPc = "encode" /\ b >= K
    \/ sPc = "post" /\ b >= sBlock
    \/ sPc = "failed" /\ sendPos < BlockEnd(b)
Posted(s, b) == b \in Due(s) /\ (s = Len(sent) => ~Ahead(b))

(* The stripe receive() is at; the first one it has not taken all of *)
Settled == rPc \in {"decode", "size", "copy", "zero", "advance", "failed"}
Reading == IF rPc \in {"zero", "advance"} THEN Len(received) ELSE Len(received) + 1
Open == IF Settled THEN Reading + 1 ELSE Reading

Done(s) == s \in DOMAIN sent /\ Cardinality(Due(s)) = K /\ \A b \in Due(s) : Posted(s, b)

InRing(s, b, o) == receiveBuffer[At(sent[s].at, b, o)]

(* A write still with queue pair q carries bytes of a block that was       *)
(* posted, and finds them in the sendBuffer.                               *)
Carries(w, q) ==
    /\ w.stripe \in DOMAIN sent /\ Posted(w.stripe, q) /\ w.stripe >= Open
    /\ w.begin = At(sent[w.stripe].at, q, w.from)
    /\ \A x \in 0 .. w.len - 1 : sendBuffer[w.begin + x] = BlockByte(w.stripe, q, w.from + x)
Slices == \A q \in Block : \A i \in DOMAIN sq[q] : Carries(sq[q][i], q)

(* A queue pair's writes are in the order of the stream, and before the    *)
(* first one all of its block is placed.                                   *)
Before(v, w) == v.stripe < w.stripe \/ (v.stripe = w.stripe /\ v.from + v.len <= w.from)
Follows(v, w) == v.stripe = w.stripe /\ v.from + v.len = w.from
PlacedUpTo(w, q) == \A o \in 0 .. w.from - 1 : InRing(w.stripe, q, o) = BlockByte(w.stripe, q, o)
InOrder(s, q) ==
    /\ \A i, j \in DOMAIN s : i < j => Before(s[i], s[j])
    /\ \A i \in DOMAIN s : \/ s[i].from = 0
                           \/ i > 1 /\ Follows(s[i - 1], s[i])
                           \/ i = 1 /\ PlacedUpTo(s[i], q)
Order == \A q \in Block : InOrder(sq[q], q)

(* Nothing is in the receiveBuffer but what receive() is taking out of the *)
(* stripe it reads and bytes of blocks posted since.                       *)
Taking(c) ==
    /\ rPc \in {"decode", "size", "copy", "zero", "failed"}
    /\ \E b \in Block, o \in 0 .. BlockSize : c = At(readPos, b, o)
Holds(c) ==
    \E s \in DOMAIN sent, b \in Block, o \in 0 .. BlockSize :
        /\ s >= Open /\ Posted(s, b)
        /\ c = At(sent[s].at, b, o) /\ receiveBuffer[c] = BlockByte(s, b, o)
Nonzero == \A c \in Cells : receiveBuffer[c] = 0 \/ Taking(c) \/ Holds(c)

(* With its validity word a block is there entirely. *)
Complete(s, b) ==
    /\ \A o \in 0 .. BlockSize : InRing(s, b, o) = BlockByte(s, b, o)
    /\ \A i \in DOMAIN sq[b] : sq[b][i].stripe # s
Whole ==
    \A s \in DOMAIN sent, b \in Block :
        s >= Open /\ Posted(s, b) /\ InRing(s, b, BlockSize) # 0 => Complete(s, b)

(* receive() *)
Found == /\ survived = receivedBlocks
         /\ \A b \in receivedBlocks : /\ Reading \in DOMAIN sent /\ Posted(Reading, b)
                                      /\ receiveBuffer[At(readPos, b, BlockSize)] = Validity
Enough == /\ survived = receivedBlocks /\ receivedBlocks = Due(Reading)
          /\ \A b \in receivedBlocks, o \in 0 .. BlockSize :
                receiveBuffer[At(readPos, b, o)] = BlockByte(Reading, b, o)
          /\ \A b \in Block : receiveBuffer[At(readPos, b, BlockSize)] # 0 => b \in receivedBlocks
Restored == Reading \notin Miscalculated =>
                \A b \in Data, o \in 0 .. BlockSize - 1 :
                    receiveBuffer[At(readPos, b, o)] = BlockByte(Reading, b, o)
Returned == \A i \in DOMAIN received : i \notin Miscalculated => received[i] = sent[i].data
Receiving ==
    /\ readPos = StripeAt(Reading - 1)
    /\ \A s \in 1 .. Open - 1 : Done(s)
    /\ undecoded \subseteq 1 .. Open - 1
    /\ Returned
    /\ rPc = "poll" => Found
    /\ rPc = "decode" => Enough
    /\ rPc \in {"size", "copy"} => Restored
    /\ rPc = "copy" /\ Reading \notin Miscalculated => receiveSize = Len(sent[Reading].data)

RingPart == Slices /\ Order /\ Nonzero /\ Whole /\ Receiving
RingInv == SendInv /\ RingPart

-----------------------------------------------------------------------------
(* Where posted blocks lie *)

LEMMA StripePositive == Unit <= Stripe /\ Stripe > 0 /\ Unit > 0
<1>1. 0 \in Block
  BY Sizes DEF Block
<1>2. BlockAt(0) \in Nat /\ BlockAt(0) + Unit <= Stripe
  BY <1>1, BlockType
<1> QED BY <1>2, Sizes

(* The stripe of the last message ends at sendPos or behind it. *)
LEMMA LastStripe ==
  ASSUME SenderPart, sent # <<>>
  PROVE  /\ Len(sent) \in DOMAIN sent /\ Current = sent[Len(sent)]
         /\ Current.at \in Nat /\ sendPos \in Nat /\ Stripe \in Nat
         /\ Current.at <= sendPos /\ sendPos <= Current.at + Stripe
         /\ sPc = "idle" => sendPos = Current.at + Stripe
<1>1. Len(sent) \in DOMAIN sent /\ Current = sent[Len(sent)] /\ Current.at \in Nat /\ sendPos \in Nat
      /\ Stripe \in Nat
  BY Messages, Sizes DEF SenderPart, SenderTypes, Current
<1>2. CASE sPc # "idle"
  BY <1>1, <1>2, InStripe
<1>3. CASE sPc = "idle"
  <2>1. sendPos = StripeAt(Len(sent))
    BY <1>3 DEF SenderPart, Progress
  <2>2. /\ Current.at = StripeAt(Len(sent) - 1) /\ Len(sent) - 1 \in Nat
        /\ (Len(sent) - 1) + 1 = Len(sent)
    BY <1>1, Messages DEF SenderPart, Stripes, Current
  <2>3. sendPos = Current.at + Stripe
    BY <2>1, <2>2, StripeRoom
  <2> QED BY <1>1, <1>3, <2>3
<1> QED BY <1>2, <1>3

LEMMA DueBlocks == \A s : Due(s) \subseteq Block
  BY Sizes DEF Due, Data, Block

(* A posted block is written entirely. *)
LEMMA PostedBehind ==
  ASSUME SenderPart, NEW s \in DOMAIN sent, NEW b \in Block, Posted(s, b)
  PROVE  sent[s].at + BlockAt(b) + Unit <= sendPos
<1> DEFINE a == sent[s].at
           y == BlockAt(b)
           e == Current.at
<1>1. /\ DOMAIN sent = 1 .. Len(sent) /\ Len(sent) \in Nat /\ s \in Nat /\ s - 1 \in Nat /\ a \in Nat
      /\ a = StripeAt(s - 1)
  BY Messages DEF SenderPart, Stripes
<1>2. sent # <<>>
  BY <1>1
<1>3. e \in Nat /\ sendPos \in Nat /\ Stripe \in Nat /\ e <= sendPos /\ (sPc = "idle" => sendPos = e + Stripe)
  BY <1>2, LastStripe
<1>4. y \in Nat /\ y + Unit <= Stripe /\ Unit \in Nat /\ b \in Nat
  BY BlockType, Sizes
<1>5. CASE s # Len(sent)
  <2>1. Len(sent) \in DOMAIN sent /\ Current = sent[Len(sent)]
    BY <1>2, LastStripe
  <2>2. e = StripeAt(Len(sent) - 1) /\ Len(sent) - 1 \in Nat
    BY <1>1, <2>1, Messages DEF SenderPart, Stripes
  <2>3. s - 1 < Len(sent) - 1
    BY <1>1, <1>5
  <2>4. a + Stripe <= e
    BY <1>1, <2>2, <2>3, StripeRoom
  <2> HIDE DEF a, y, e
  <2>5. a + y + Unit <= sendPos
    BY SMTT(30), <1>1, <1>3, <1>4, <2>4
  <2> QED BY <2>5 DEF a, y
<1>6. CASE s = Len(sent)
  <2>1. a = e /\ ~Ahead(b)
    BY <1>6 DEF Posted, Current
  <2>2. sPc \in {"length", "data", "pad", "validity", "post", "encode", "failed", "idle"}
        /\ sBlock \in Nat
    BY Sizes DEF SenderPart, SenderTypes
  <2> DEFINE x == BlockAt(sBlock)
  <2>3. x \in Nat /\ (b < sBlock => y + Unit <= x)
    BY <1>4, <2>2, BlockRoom
  <2>4. CASE Writing
    <3>1. ~(b >= sBlock)
      BY <2>1, <2>4 DEF Ahead
    <3>2. b < sBlock
      BY <1>4, <2>2, <3>1
    <3>3. sendPos = e + x + PartBegin
      BY <2>4, WritingBlock
    <3>4. PartBegin \in Nat
      BY <2>4, PartBounds
    <3> DEFINE f == PartBegin
    <3>5. f \in Nat /\ sendPos = e + x + f
      BY <3>3, <3>4
    <3> HIDE DEF a, y, e, x, f
    <3>6. a + y + Unit <= sendPos
      BY <1>3, <1>4, <2>1, <2>3, <3>2, <3>5
    <3> QED BY <3>6 DEF a, y
  <2>5. CASE sPc = "post"
    <3>1. ~(b >= sBlock)
      BY <2>1, <2>5 DEF Ahead
    <3>2. b < sBlock
      BY <1>4, <2>2, <3>1
    <3>3. sendPos = e + (IF sBlock < K THEN x + Unit ELSE Stripe)
      BY <2>5 DEF SenderPart, Progress
    <3> HIDE DEF a, y, e, x
    <3>4. a + y + Unit <= sendPos
      BY <1>3, <1>4, <2>1, <2>3, <3>2, <3>3
    <3> QED BY <3>4 DEF a, y
  <2>6. CASE sPc = "encode"
    <3>1. sendPos = e + Stripe
      BY <2>6 DEF SenderPart, Progress
    <3> HIDE DEF a, y, e
    <3>2. a + y + Unit <= sendPos
      BY <1>3, <1>4, <2>1, <3>1
    <3> QED BY <3>2 DEF a, y
  <2>7. CASE sPc = "failed"
    <3>1. ~(sendPos < e + y + Unit)
      BY <2>1, <2>7 DEF Ahead, BlockEnd
    <3> HIDE DEF a, y, e
    <3>2. a + y + Unit <= sendPos
      BY <1>3, <1>4, <2>1, <3>1
    <3> QED BY <3>2 DEF a, y
  <2>8. CASE sPc = "idle"
    <3>1. sendPos = e + Stripe
      BY <1>3, <2>8
    <3> HIDE DEF a, y, e
    <3>2. a + y + Unit <= sendPos
      BY <1>3, <1>4, <2>1, <3>1
    <3> QED BY <3>2 DEF a, y
  <2> QED BY <2>2, <2>4, <2>5, <2>6, <2>7, <2>8 DEF Writing
<1> QED BY <1>5, <1>6

(* sendPos is never more than a ring ahead of the receiver. *)
LEMMA RingAhead ==
  ASSUME SendInv
  PROVE  /\ readPos \in Nat /\ sendPos \in Nat /\ Size \in Nat /\ sendPos <= readPos + Size
         /\ readPos = StripeAt(Reading - 1) => /\ Reading \in Nat /\ Reading > 0 /\ Reading - 1 \in Nat
                                               /\ Open \in Nat /\ Open - 1 \in Nat
<1>1. SenderPart /\ CardTypes /\ ReceiverPart /\ Granted
  BY Parts
<1>2. /\ readPos \in Nat /\ sendPos \in Nat /\ Size \in Nat /\ currentRemoteReceive \in Nat /\ readValue \in Nat
      /\ currentRemoteReceive <= readValue /\ readValue <= readPos
      /\ sendPos - currentRemoteReceive <= Size
  BY <1>1, Sizes DEF SenderPart, SenderTypes, CardTypes, ReceiverPart, ReceiverTypes, Granted
<1>3. Len(received) \in Nat
  BY <1>1, LenProperties DEF ReceiverPart, ReceiverTypes
<1>4. Reading \in Nat
  BY <1>3 DEF Reading
<1>5. ASSUME readPos = StripeAt(Reading - 1), Reading = 0 PROVE FALSE
  <2>1. readPos = (-1) * Stripe
    BY <1>5 DEF StripeAt
  <2>2. Stripe \in Nat /\ Stripe > 0
    BY StripePositive, Sizes
  <2>3. (-1) * Stripe < 0
    BY <2>2
  <2> QED BY <1>2, <2>1, <2>3
<1>6. Open = Reading + 1 \/ Open = Reading
  BY DEF Open
<1> QED BY <1>2, <1>4, <1>5, <1>6

(* The bytes of posted blocks that receive() has not passed lie within one *)
(* ring from readPos on, once it has settled on a stripe behind that one.  *)
LEMMA Window ==
  ASSUME SendInv, readPos = StripeAt(Reading - 1),
         NEW s \in DOMAIN sent, NEW b \in Block, NEW o \in 0 .. BlockSize, s >= Open, Posted(s, b)
  PROVE  /\ Pos(s, b, o) \in Nat /\ readPos \in Nat /\ Size \in Nat
         /\ readPos <= sent[s].at
         /\ readPos <= Pos(s, b, o) /\ Pos(s, b, o) < readPos + Size /\ Pos(s, b, o) < sendPos
         /\ Settled => readPos + Stripe <= Pos(s, b, o)
         /\ At(sent[s].at, b, o) = Cell(Pos(s, b, o)) /\ Cell(Pos(s, b, o)) \in Cells
<1> DEFINE a == sent[s].at
           p == Pos(s, b, o)
           y == BlockAt(b)
<1>1. SenderPart /\ TypeOK /\ Stripes
  BY Parts DEF SendInv
<1>2. /\ a \in Nat /\ a = StripeAt(s - 1) /\ s - 1 \in Nat /\ s \in Nat /\ p \in Nat /\ a <= p
      /\ At(sent[s].at, b, o) = Cell(p)
  BY <1>1, Position
<1>3. /\ readPos \in Nat /\ sendPos \in Nat /\ Size \in Nat /\ sendPos <= readPos + Size
      /\ Reading \in Nat /\ Reading > 0 /\ Reading - 1 \in Nat /\ Stripe \in Nat
  BY RingAhead, Sizes
<1>4. a + y + Unit <= sendPos /\ p = a + y + o /\ y \in Nat /\ o \in Nat /\ o < Unit /\ Unit \in Nat
  BY <1>1, PostedBehind, BlockType, Sizes DEF Pos
<1>5. readPos <= a /\ (Settled => readPos + Stripe <= a)
  <2>1. CASE Settled
    <3>1. s >= Reading + 1
      BY <2>1 DEF Open
    <3>2. Reading - 1 < s - 1
      BY <1>2, <1>3, <3>1
    <3>3. readPos + Stripe <= a
      BY <1>2, <1>3, <3>2, StripeRoom
    <3> HIDE DEF a
    <3> QED BY <1>2, <1>3, <3>3
  <2>2. CASE ~Settled
    <3>1. s >= Reading
      BY <2>2 DEF Open
    <3>2. Reading - 1 < s - 1 \/ Reading - 1 = s - 1
      BY <1>2, <1>3, <3>1
    <3>3. Reading - 1 < s - 1 => readPos + Stripe <= a
      BY <1>2, <1>3, StripeRoom
    <3>4. Reading - 1 = s - 1 => readPos = a
      BY <1>2
    <3> HIDE DEF a
    <3> QED BY <1>2, <1>3, <2>2, <3>2, <3>3, <3>4
  <2> QED BY <2>1, <2>2
<1>6. p < sendPos
  <2> HIDE DEF a, p, y
  <2> QED BY <1>2, <1>3, <1>4
<1>7. readPos <= p /\ p < readPos + Size /\ (Settled => readPos + Stripe <= p)
  <2> HIDE DEF a, p, y
  <2> QED BY <1>2, <1>3, <1>5, <1>6
<1>8. Cell(p) \in Cells
  BY <1>2, CellType
<1> QED BY <1>2, <1>3, <1>5, <1>6, <1>7, <1>8

(* Of such bytes no two share a cell, *)
LEMMA SameSpot ==
  ASSUME SendInv, readPos = StripeAt(Reading - 1),
         NEW s \in DOMAIN sent, NEW b \in Block, NEW o \in 0 .. BlockSize, s >= Open, Posted(s, b),
         NEW t \in DOMAIN sent, NEW c \in Block, NEW u \in 0 .. BlockSize, t >= Open, Posted(t, c),
         At(sent[s].at, b, o) = At(sent[t].at, c, u)
  PROVE  s = t /\ b = c /\ o = u
<1> DEFINE p == Pos(s, b, o)
           q == Pos(t, c, u)
<1>1. p \in Nat /\ readPos \in Nat /\ Size \in Nat /\ readPos <= p /\ p < readPos + Size
  BY Window
<1>2. q \in Nat /\ readPos <= q /\ q < readPos + Size
  BY Window
<1>3. p < q + Size /\ q < p + Size
  <2> HIDE DEF p, q
  <2> QED BY <1>1, <1>2
<1>4. TypeOK /\ Stripes
  BY DEF SendInv
<1> QED BY <1>3, <1>4, SameCell

(* Where byte u of block c of the stripe receive() reads lies *)
LEMMA ReaderPlace ==
  ASSUME SendInv, readPos = StripeAt(Reading - 1), NEW c \in Block, NEW u \in 0 .. BlockSize
  PROVE  /\ readPos + BlockAt(c) + u \in Nat /\ readPos <= readPos + BlockAt(c) + u
         /\ readPos + BlockAt(c) + u < readPos + Stripe
         /\ At(readPos, c, u) = Cell(readPos + BlockAt(c) + u) /\ At(readPos, c, u) \in Cells
<1>1. readPos \in Nat
  BY RingAhead
<1>2. BlockAt(c) \in Nat /\ BlockAt(c) + Unit <= Stripe
  BY BlockType
<1>3. u \in Nat /\ u < Unit /\ Unit \in Nat /\ Stripe \in Nat
  BY Sizes
<1>4. /\ readPos + BlockAt(c) + u \in Nat /\ readPos <= readPos + BlockAt(c) + u
      /\ readPos + BlockAt(c) + u < readPos + Stripe
  BY <1>1, <1>2, <1>3
<1>5. At(readPos, c, u) = Cell(readPos + BlockAt(c) + u)
  BY DEF At, BlockAt
<1> QED BY <1>4, <1>5, CellType

(* nor with the stripe receive() has settled on; before it has, with       *)
(* nothing but the same byte of the stripe it looks at.                    *)
LEMMA ReaderSpot ==
  ASSUME SendInv, readPos = StripeAt(Reading - 1),
         NEW s \in DOMAIN sent, NEW b \in Block, NEW o \in 0 .. BlockSize, s >= Open, Posted(s, b),
         NEW c \in Block, NEW u \in 0 .. BlockSize,
         At(sent[s].at, b, o) = At(readPos, c, u)
  PROVE  ~Settled /\ s = Reading /\ b = c /\ o = u
<1> DEFINE p == Pos(s, b, o)
           q == readPos + BlockAt(c) + u
<1>1. /\ p \in Nat /\ readPos \in Nat /\ Size \in Nat /\ readPos <= p /\ p < readPos + Size
      /\ (Settled => readPos + Stripe <= p) /\ At(sent[s].at, b, o) = Cell(p)
  BY Window
<1>2. q \in Nat /\ readPos <= q /\ q < readPos + Stripe /\ At(readPos, c, u) = Cell(q)
  BY ReaderPlace
<1>3. Stripe \in Nat /\ Stripe <= Size
  BY Sizes
<1>4. p \in Int /\ q \in Int /\ Cell(p) = Cell(q) /\ p < q + Size /\ q < p + Size
  <2>1. Cell(p) = Cell(q)
    BY <1>1, <1>2
  <2> HIDE DEF p, q
  <2> QED BY <1>1, <1>2, <1>3, <2>1
<1>5. p = q
  <2> HIDE DEF p, q
  <2> QED BY <1>4, CellInjective
<1>6. ~Settled
  <2> HIDE DEF p, q
  <2> QED BY <1>1, <1>2, <1>3, <1>5
<1>7. /\ sent[s].at = StripeAt(s - 1) /\ s - 1 \in Nat /\ s \in Nat
  BY Position DEF SendInv
<1>8. Reading \in Nat /\ Reading - 1 \in Nat
  BY RingAhead
<1>9. StripeAt(s - 1) + BlockAt(b) + o = StripeAt(Reading - 1) + BlockAt(c) + u
  BY <1>5, <1>7 DEF Pos
<1>10. s - 1 = Reading - 1 /\ b = c /\ o = u
  BY <1>7, <1>8, <1>9, SamePlace
<1> QED BY <1>6, <1>7, <1>8, <1>10

(* The current message's stripe, seen from the receiver: a block of it     *)
(* that is due, written and not posted still finds its cells empty.        *)
LEMMA FreshBlock ==
  ASSUME SendInv, Nonzero, Receiving, sent # <<>>, NEW b \in Due(Len(sent)),
         ~Posted(Len(sent), b), BlockEnd(b) <= sendPos
  PROVE  /\ b \in Block /\ Len(sent) \in DOMAIN sent /\ Len(sent) >= Open
         /\ InRing(Len(sent), b, BlockSize) = 0
<1> DEFINE n == Len(sent)
           p == Pos(n, b, BlockSize)
<1>1. b \in Block /\ BlockSize \in 0 .. BlockSize
  BY DueBlocks, Sizes
<1>2. SenderPart /\ TypeOK /\ Stripes
  BY Parts DEF SendInv
<1>3. n \in DOMAIN sent /\ Current = sent[n] /\ n \in Nat /\ DOMAIN sent = 1 .. n
  BY <1>2, LastStripe, Messages DEF SenderPart
<1>4. readPos = StripeAt(Reading - 1) /\ (\A s \in 1 .. Open - 1 : Done(s))
  BY DEF Receiving
<1>5. /\ readPos \in Nat /\ sendPos \in Nat /\ Size \in Nat /\ sendPos <= readPos + Size
      /\ Reading \in Nat /\ Reading > 0 /\ Reading - 1 \in Nat
      /\ Open \in Nat /\ Open - 1 \in Nat /\ Stripe \in Nat
  BY <1>4, RingAhead, Sizes
<1>6. n >= Open
  <2> SUFFICES ASSUME n < Open PROVE FALSE
    BY <1>3, <1>5
  <2>1. n \in 1 .. Open - 1
    BY <1>3, <1>5
  <2>2. Done(n)
    BY <1>4, <2>1
  <2> QED BY <2>2 DEF Done
<1>7. /\ p \in Nat /\ sent[n].at <= p /\ At(sent[n].at, b, BlockSize) = Cell(p)
      /\ sent[n].at \in Nat /\ sent[n].at = StripeAt(n - 1) /\ n - 1 \in Nat
  BY <1>1, <1>2, <1>3, Position
<1>8. p < sendPos
  <2>1. p = Current.at + BlockAt(b) + BlockSize /\ Current.at + BlockAt(b) + Unit <= sendPos
    BY <1>3 DEF Pos, BlockEnd
  <2>2. Current.at \in Nat /\ BlockAt(b) \in Nat /\ Unit = BlockSize + 1 /\ BlockSize \in Nat
    BY <1>1, <1>3, <1>7, BlockType, Sizes
  <2> DEFINE x == Current.at
             y == BlockAt(b)
  <2>3. p = x + y + BlockSize /\ x + y + Unit <= sendPos /\ x \in Nat /\ y \in Nat
    BY <2>1, <2>2
  <2> HIDE DEF p, x, y
  <2> QED BY <1>5, <2>2, <2>3
<1>9. readPos <= p /\ (Settled => readPos + Stripe <= p)
  <2> DEFINE a == sent[n].at
  <2>1. Settled => readPos + Stripe <= a
    <3> SUFFICES ASSUME Settled PROVE readPos + Stripe <= a
      OBVIOUS
    <3>1. n >= Reading + 1
      BY <1>6 DEF Open
    <3>2. Reading - 1 < n - 1
      BY <1>3, <1>5, <3>1
    <3> QED BY <1>4, <1>5, <1>7, <3>2, StripeRoom
  <2>2. readPos <= a
    <3>1. n >= Reading
      BY <1>3, <1>5, <1>6 DEF Open
    <3>2. Reading - 1 < n - 1 \/ Reading - 1 = n - 1
      <4>1. n \in Nat /\ Reading \in Nat
        BY <1>3, <1>5
      <4> HIDE DEF n
      <4> QED BY <3>1, <4>1
    <3>3. Reading - 1 < n - 1 => readPos + Stripe <= a
      BY <1>4, <1>5, <1>7, StripeRoom
    <3>4. Reading - 1 = n - 1 => readPos = a
      BY <1>4, <1>7
    <3>5. a \in Nat
      BY <1>7
    <3> HIDE DEF a
    <3> QED BY <1>5, <3>2, <3>3, <3>4, <3>5
  <2>3. a \in Nat /\ a <= p
    BY <1>7
  <2> HIDE DEF a, p
  <2> QED BY <1>5, <1>7, <2>1, <2>2, <2>3
<1>10. Cell(p) \in Cells
  BY <1>7, CellType
<1>11. ~Taking(Cell(p))
  <2> SUFFICES ASSUME Settled, NEW c \in Block, NEW u \in 0 .. BlockSize, Cell(p) = At(readPos, c, u)
               PROVE  FALSE
    BY DEF Taking, Settled
  <2> DEFINE q == readPos + BlockAt(c) + u
  <2>1. q \in Nat /\ readPos <= q /\ q < readPos + Stripe /\ At(readPos, c, u) = Cell(q)
    BY <1>4, ReaderPlace
  <2>2. Cell(p) = Cell(q)
    BY <2>1
  <2>3. Stripe <= Size
    BY Sizes
  <2> HIDE DEF p, q
  <2>4. p < q + Size /\ q < p + Size /\ p # q
    BY <1>5, <1>7, <1>8, <1>9, <2>1, <2>3
  <2> QED BY <1>7, <2>1, <2>2, <2>4, CellInjective
<1>12. ~Holds(Cell(p))
  <2> SUFFICES ASSUME NEW s \in DOMAIN sent, NEW c \in Block, NEW u \in 0 .. BlockSize,
                      s >= Open, Posted(s, c), Cell(p) = At(sent[s].at, c, u)
               PROVE  FALSE
    BY DEF Holds
  <2> DEFINE q == Pos(s, c, u)
  <2>1. q \in Nat /\ readPos <= q /\ q < readPos + Size
    BY <1>4, Window
  <2>2. p < q + Size /\ q < p + Size
    <3> HIDE DEF p, q
    <3> QED BY <1>5, <1>7, <1>8, <1>9, <2>1
  <2>3. s = n /\ c = b
    BY <1>1, <1>2, <1>3, <1>7, <2>2, SameCell
  <2> QED BY <2>3
<1>13. receiveBuffer[Cell(p)] = 0
  BY <1>10, <1>11, <1>12 DEF Nonzero
<1> QED BY <1>1, <1>3, <1>6, <1>7, <1>13 DEF InRing

-----------------------------------------------------------------------------
(* Steps of send(): what they leave as it was, what they add *)

SentGrows == \A s \in DOMAIN sent : s \in DOMAIN sent' /\ sent'[s] = sent[s]

PostedStays ==
    \A s \in DOMAIN sent, b \in Block :
        Posted(s, b) => /\ Posted(s, b)'
                        /\ \A o \in 0 .. BlockSize : BlockByte(s, b, o)' = BlockByte(s, b, o)

PostedFresh ==
    \A s \in DOMAIN sent', b \in Block :
        Posted(s, b)' => s \in DOMAIN sent /\ (Posted(s, b) \/ InRing(s, b, BlockSize) = 0)

(* Queue pair q is given no write for a block posted before. *)
QueueFresh ==
    \A q \in Block : \A i \in DOMAIN sq'[q] :
        \/ \E j \in DOMAIN sq[q] : sq[q][j].stripe = sq'[q][i].stripe
        \/ ~Posted(sq'[q][i].stripe, q)

ReceiverStays == UNCHANGED receiverVars /\ UNCHANGED receiveBuffer

LEMMA ReaderStays ==
  ASSUME ReceiverStays
  PROVE  Reading' = Reading /\ Settled' = Settled /\ Open' = Open
  BY DEF ReceiverStays, receiverVars, Reading, Settled, Open

LEMMA RingStays ==
  ASSUME ReceiverStays, SentGrows
  PROVE  \A s \in DOMAIN sent, b \in Block, o \in 0 .. BlockSize : InRing(s, b, o)' = InRing(s, b, o)
  BY DEF ReceiverStays, SentGrows, InRing, At, Cell

(* What is in the receiveBuffer stays explained. *)
LEMMA NonzeroKept ==
  ASSUME Nonzero, ReceiverStays, SentGrows, PostedStays
  PROVE  Nonzero'
<1> SUFFICES ASSUME NEW c \in Cells PROVE receiveBuffer'[c] = 0 \/ Taking(c)' \/ Holds(c)'
  BY DEF Nonzero, Cells
<1>1. receiveBuffer' = receiveBuffer /\ rPc' = rPc /\ readPos' = readPos /\ Open' = Open
  BY ReaderStays DEF ReceiverStays, receiverVars
<1>2. Taking(c) => Taking(c)'
  BY <1>1 DEF Taking, At, Cell
<1>3. ASSUME Holds(c) PROVE Holds(c)'
  <2>1. PICK s \in DOMAIN sent, b \in Block, o \in 0 .. BlockSize :
            /\ s >= Open /\ Posted(s, b)
            /\ c = At(sent[s].at, b, o) /\ receiveBuffer[c] = BlockByte(s, b, o)
    BY <1>3 DEF Holds
  <2>2. s \in DOMAIN sent' /\ sent'[s] = sent[s]
    BY DEF SentGrows
  <2>3. Posted(s, b)' /\ BlockByte(s, b, o)' = BlockByte(s, b, o)
    BY <2>1 DEF PostedStays
  <2>4. receiveBuffer'[c] = BlockByte(s, b, o)' /\ s >= Open'
    BY <1>1, <2>1, <2>3
  <2>5. c = At(sent[s].at, b, o)'
    BY <2>1, <2>2 DEF At, Cell
  <2> QED BY <2>2, <2>3, <2>4, <2>5 DEF Holds, Block
<1>4. receiveBuffer[c] = 0 \/ Taking(c) \/ Holds(c)
  BY DEF Nonzero
<1> QED BY <1>1, <1>2, <1>3, <1>4

LEMMA WholeKept ==
  ASSUME Whole, ReceiverStays, SentGrows, PostedStays, PostedFresh, QueueFresh
  PROVE  Whole'
<1> SUFFICES ASSUME NEW s \in DOMAIN sent', NEW b \in Block, s >= Open', Posted(s, b)',
                    InRing(s, b, BlockSize)' # 0
             PROVE  Complete(s, b)'
  BY DEF Whole, Block
<1>1. BlockSize \in 0 .. BlockSize
  BY Sizes
<1>2. s \in DOMAIN sent /\ (Posted(s, b) \/ InRing(s, b, BlockSize) = 0)
  BY DEF PostedFresh
<1>3. Open' = Open /\ InRing(s, b, BlockSize)' = InRing(s, b, BlockSize)
  BY <1>1, <1>2, ReaderStays, RingStays
<1>4. Posted(s, b)
  BY <1>2, <1>3
<1>5. Complete(s, b)
  BY <1>2, <1>3, <1>4 DEF Whole
<1>6. ASSUME NEW o \in 0 .. BlockSize PROVE InRing(s, b, o)' = BlockByte(s, b, o)'
  <2>1. InRing(s, b, o)' = InRing(s, b, o)
    BY <1>2, RingStays
  <2>2. BlockByte(s, b, o)' = BlockByte(s, b, o)
    BY <1>2, <1>4 DEF PostedStays
  <2> QED BY <1>5, <2>1, <2>2 DEF Complete
<1>7. ASSUME NEW i \in DOMAIN sq'[b] PROVE sq'[b][i].stripe # s
  <2>1. CASE \E j \in DOMAIN sq[b] : sq[b][j].stripe = sq'[b][i].stripe
    BY <1>5, <2>1 DEF Complete
  <2>2. CASE ~Posted(sq'[b][i].stripe, b)
    BY <1>4, <2>2
  <2> QED BY <2>1, <2>2 DEF QueueFresh
<1> QED BY <1>6, <1>7 DEF Complete

LEMMA DoneKept ==
  ASSUME SentGrows, PostedStays, NEW s, Done(s)
  PROVE  Done(s)'
<1>1. s \in DOMAIN sent /\ Cardinality(Due(s)) = K /\ \A b \in Due(s) : Posted(s, b)
  BY DEF Done
<1>2. \A b \in Due(s) : Posted(s, b)'
  BY <1>1, DueBlocks DEF PostedStays
<1>3. Due(s)' = Due(s) /\ s \in DOMAIN sent'
  BY <1>1 DEF Due, Coding, Data, Block, SentGrows
<1> QED BY <1>1, <1>2, <1>3 DEF Done

LEMMA ReadingDone ==
  ASSUME SendInv, Receiving, Settled
  PROVE  Done(Reading) /\ Reading \in DOMAIN sent
<1>1. Reading \in Nat /\ Reading > 0 /\ Open = Reading + 1
  BY RingAhead DEF Receiving, Open
<1>2. Reading \in 1 .. Open - 1
  BY <1>1
<1> QED BY <1>2 DEF Receiving, Done

LEMMA DataByteKept ==
  ASSUME NEW s, sent'[s] = sent[s], NEW b \in Data, NEW o
  PROVE  BlockByte(s, b, o)' = BlockByte(s, b, o)
<1>1. ~(b >= K)
  BY Sizes DEF Data
<1> QED BY <1>1 DEF BlockByte, StreamByte, CodeWord

LEMMA ReceivedSent ==
  ASSUME SendInv, Receiving
  PROVE  DOMAIN received \subseteq DOMAIN sent
<1>1. DOMAIN received = 1 .. Len(received) /\ Len(received) \in Nat
  BY LenProperties DEF SendInv, TypeOK
<1>2. Reading \in Nat /\ Reading > 0 /\ Open \in Nat
  BY RingAhead DEF Receiving
<1>3. Len(received) <= Open - 1
  BY <1>1, <1>2 DEF Reading, Open, Settled
<1>4. \A i \in DOMAIN received : i \in 1 .. Open - 1
  BY <1>1, <1>2, <1>3
<1> QED BY <1>4 DEF Receiving, Done

LEMMA ReceivingKept ==
  ASSUME SendInv, Receiving, ReceiverStays, SentGrows, PostedStays, unencoded \subseteq unencoded'
  PROVE  Receiving'
<1>1. /\ Reading' = Reading /\ Settled' = Settled /\ Open' = Open
      /\ UNCHANGED <<rPc, rBlock, receivedBlocks, survived, receiveSize, readPos, received, undecoded,
                     receiveBuffer>>
  BY ReaderStays DEF ReceiverStays, receiverVars
<1>2. Miscalculated \subseteq Miscalculated'
  BY <1>1 DEF Miscalculated
<1>3. readPos' = StripeAt(Reading - 1)'
  BY <1>1 DEF Receiving, StripeAt, Stripe, Unit
<1>4. \A s \in 1 .. Open' - 1 : Done(s)'
  BY <1>1, DoneKept DEF Receiving
<1>5. undecoded' \subseteq 1 .. Open' - 1
  BY <1>1 DEF Receiving
<1>6. Returned'
  BY <1>1, <1>2, ReceivedSent DEF Receiving, Returned, SentGrows
<1>0. PICK r : r = Reading
  OBVIOUS
<1>7. r = Reading /\ Reading' = r
  BY <1>0, <1>1
<1>8. r \in DOMAIN sent => r \in DOMAIN sent' /\ sent'[r] = sent[r]
  BY DEF SentGrows
<1>9. Settled => r \in DOMAIN sent /\ Done(r)
  BY <1>7, ReadingDone
<1>10. receivedBlocks \subseteq Block
  BY DEF SendInv, TypeOK
<1>11. \A b, o : At(readPos', b, o) = At(readPos, b, o)
  BY <1>1
<1>12. rPc' = "poll" => Found'
  <2> SUFFICES ASSUME rPc = "poll" PROVE Found'
    BY <1>1
  <2>1. Found
    BY DEF Receiving
  <2>2. ASSUME NEW b \in receivedBlocks
        PROVE  /\ r \in DOMAIN sent' /\ Posted(r, b)'
               /\ receiveBuffer[At(readPos, b, BlockSize)] = Validity
    <3>1. b \in Block
      BY <1>10
    <3>2. r \in DOMAIN sent /\ Posted(r, b) /\ receiveBuffer[At(readPos, b, BlockSize)] = Validity
      BY <1>7, <2>1 DEF Found
    <3>3. Posted(r, b)'
      BY <3>1, <3>2 DEF PostedStays
    <3> QED BY <1>8, <3>2, <3>3
  <2> QED BY <1>1, <1>7, <2>1, <2>2 DEF Found, At, Cell, Unit
<1>13. rPc' = "decode" => Enough'
  <2> SUFFICES ASSUME rPc = "decode" PROVE Enough'
    BY <1>1
  <2>1. Enough /\ r \in DOMAIN sent /\ Done(r)
    BY <1>9 DEF Receiving, Settled
  <2>2. Due(Reading)' = Due(r) /\ receivedBlocks = Due(r)
    BY <1>7, <2>1 DEF Enough, Due, Coding, Data, Block
  <2>3. ASSUME NEW b \in receivedBlocks, NEW o \in 0 .. BlockSize
        PROVE  receiveBuffer[At(readPos, b, o)] = BlockByte(r, b, o)'
    <3>1. b \in Block /\ Posted(r, b)
      BY <1>10, <2>1, <2>2 DEF Done
    <3>2. BlockByte(r, b, o)' = BlockByte(r, b, o)
      BY <2>1, <3>1 DEF PostedStays
    <3>3. receiveBuffer[At(readPos, b, o)] = BlockByte(r, b, o)
      BY <1>7, <2>1 DEF Enough
    <3> QED BY <3>2, <3>3
  <2>4. survived' = receivedBlocks' /\ receivedBlocks' = Due(Reading)'
    BY <1>1, <2>1, <2>2 DEF Enough
  <2>5. \A b \in Block : receiveBuffer'[At(readPos, b, BlockSize)'] # 0 => b \in receivedBlocks'
    BY <1>1, <2>1 DEF Enough, At, Cell, Unit
  <2> QED BY <1>1, <1>7, <2>3, <2>4, <2>5 DEF Enough, At, Cell, Unit, Block
<1>14. rPc' \in {"size", "copy"} => Restored'
  <2> SUFFICES ASSUME rPc \in {"size", "copy"}, r \notin Miscalculated',
                      NEW b \in Data, NEW o \in 0 .. BlockSize - 1
               PROVE  receiveBuffer[At(readPos, b, o)] = BlockByte(r, b, o)'
    BY <1>1, <1>7 DEF Restored, At, Cell, Unit, Data
  <2>1. r \in DOMAIN sent
    BY <1>9 DEF Settled
  <2>2. BlockByte(r, b, o)' = BlockByte(r, b, o)
    BY <1>8, <2>1, DataByteKept
  <2>3. Restored /\ r \notin Miscalculated
    BY <1>2 DEF Receiving
  <2> QED BY <1>7, <2>2, <2>3 DEF Restored
<1>15. rPc' = "copy" /\ Reading' \notin Miscalculated' => receiveSize' = Len(sent'[Reading'].data)
  <2> SUFFICES ASSUME rPc = "copy", r \notin Miscalculated' PROVE receiveSize = Len(sent'[r].data)
    BY <1>1, <1>7
  <2>1. r \in DOMAIN sent /\ sent'[r] = sent[r]
    BY <1>8, <1>9 DEF Settled
  <2> QED BY <1>2, <1>7, <2>1 DEF Receiving
<1> QED BY <1>3, <1>4, <1>5, <1>6, <1>12, <1>13, <1>14, <1>15 DEF Receiving

-----------------------------------------------------------------------------
(* What a step of send() has to show *)

(* No byte of a write that is with the card is overwritten. *)
CellsKept ==
    \A q \in Block : \A i \in DOMAIN sq[q] : \A x \in 0 .. sq[q][i].len - 1 :
        sendBuffer'[sq[q][i].begin + x] = sendBuffer[sq[q][i].begin + x]

(* Requests for a block of the current message that was not posted yet *)
Fresh(P, q) ==
    /\ P # <<>> => ~Posted(Len(sent), q) /\ P[1].from = 0
    /\ \A j \in DOMAIN P : /\ P[j].stripe = Len(sent)
                           /\ j > 1 => Follows(P[j - 1], P[j])
    /\ \A i, j \in DOMAIN P : i < j => Before(P[i], P[j])

Extended(q) ==
    \E P \in Seq(WriteRequest) :
        /\ sq'[q] = sq[q] \o P /\ Fresh(P, q)
        /\ \A j \in DOMAIN P : Carries(P[j], q)'

LEMMA NotExtended ==
  ASSUME NEW q \in Block, SendInv, sq'[q] = sq[q]
  PROVE  Extended(q)
<1>1. sq[q] \in Seq(WriteRequest)
  BY DEF SendInv, TypeOK
<1>2. sq[q] \o <<>> = sq[q]
  BY <1>1, ConcatEmptySeq
<1>3. << >> \in Seq(WriteRequest) /\ DOMAIN << >> = {}
  OBVIOUS
<1>4. Fresh(<< >>, q)
  BY <1>3 DEF Fresh
<1> QED BY <1>2, <1>3, <1>4 DEF Extended

LEMMA PostedSame ==
  ASSUME SendInv, sent' = sent, unencoded' = unencoded,
         \A b \in Due(Len(sent)) : ~Ahead(b) => ~Ahead(b)'
  PROVE  SentGrows /\ PostedStays
<1>1. SentGrows
  BY DEF SentGrows
<1>2. ASSUME NEW s \in DOMAIN sent, NEW b \in Block, Posted(s, b)
      PROVE  /\ Posted(s, b)'
             /\ \A o \in 0 .. BlockSize : BlockByte(s, b, o)' = BlockByte(s, b, o)
  <2>1. Due(s)' = Due(s) /\ Len(sent)' = Len(sent) /\ b \in Due(s)
    BY <1>2 DEF Due, Coding, Data, Block, Posted
  <2>2. s = Len(sent) => ~Ahead(b)'
    BY <1>2, <2>1 DEF Posted
  <2>3. Posted(s, b)'
    BY <2>1, <2>2 DEF Posted
  <2>4. \A o \in 0 .. BlockSize : BlockByte(s, b, o)' = BlockByte(s, b, o)
    BY DEF BlockByte, StreamByte, CodeWord
  <2> QED BY <2>3, <2>4
<1> QED BY <1>1, <1>2 DEF PostedStays

LEMMA FreshSame ==
  ASSUME SendInv, sent' = sent,
         \A b \in Due(Len(sent)) : ~Ahead(b)' => ~Ahead(b) \/ InRing(Len(sent), b, BlockSize) = 0
  PROVE  PostedFresh
<1> SUFFICES ASSUME NEW s \in DOMAIN sent, NEW b \in Block, Posted(s, b)'
             PROVE  Posted(s, b) \/ InRing(s, b, BlockSize) = 0
  BY DEF PostedFresh, Block
<1>1. Due(s)' = Due(s) /\ Len(sent)' = Len(sent)
  BY DEF Due, Coding, Data, Block
<1>2. b \in Due(s) /\ (s = Len(sent) => ~Ahead(b)')
  BY <1>1 DEF Posted
<1> QED BY <1>2 DEF Posted

LEMMA CarriesKept ==
  ASSUME NEW q \in Block, NEW w \in WriteRequest, w.from + w.len <= Unit, Carries(w, q),
         w.stripe >= Open', SentGrows, PostedStays,
         \A x \in 0 .. w.len - 1 : sendBuffer'[w.begin + x] = sendBuffer[w.begin + x]
  PROVE  Carries(w, q)'
<1>1. /\ w.stripe \in DOMAIN sent /\ Posted(w.stripe, q) /\ w.stripe >= Open
      /\ w.begin = At(sent[w.stripe].at, q, w.from)
      /\ \A x \in 0 .. w.len - 1 : sendBuffer[w.begin + x] = BlockByte(w.stripe, q, w.from + x)
  BY DEF Carries
<1>2. w.stripe \in DOMAIN sent' /\ sent'[w.stripe] = sent[w.stripe]
  BY <1>1 DEF SentGrows
<1>3. /\ Posted(w.stripe, q)'
      /\ \A o \in 0 .. BlockSize : BlockByte(w.stripe, q, o)' = BlockByte(w.stripe, q, o)
  BY <1>1 DEF PostedStays
<1>4. w.stripe >= Open'
  OBVIOUS
<1>5. w.begin = At(sent[w.stripe].at, q, w.from)'
  BY <1>1, <1>2 DEF At, Cell, Unit
<1>6. ASSUME NEW x \in 0 .. w.len - 1
      PROVE  sendBuffer'[w.begin + x] = BlockByte(w.stripe, q, w.from + x)'
  <2>1. w.from \in Nat /\ w.len \in Nat
    BY Sizes DEF WriteRequest
  <2>2. w.from + x \in 0 .. BlockSize
    BY <2>1, Sizes
  <2> QED BY <1>1, <1>3, <2>2
<1> QED BY <1>2, <1>3, <1>4, <1>5, <1>6 DEF Carries

LEMMA InOrderKept ==
  ASSUME NEW q \in Block, NEW S \in Seq(WriteRequest), InOrder(S, q),
         \A i \in DOMAIN S : \/ S[i].from = 0 \/ i > 1
                             \/ S[i].stripe \in DOMAIN sent /\ Posted(S[i].stripe, q),
         ReceiverStays, SentGrows, PostedStays
  PROVE  InOrder(S, q)'
<1>1. ASSUME NEW i \in DOMAIN S, PlacedUpTo(S[i], q), S[i].stripe \in DOMAIN sent, Posted(S[i].stripe, q)
      PROVE  PlacedUpTo(S[i], q)'
  <2> SUFFICES ASSUME NEW o \in 0 .. S[i].from - 1
               PROVE  InRing(S[i].stripe, q, o)' = BlockByte(S[i].stripe, q, o)'
    BY DEF PlacedUpTo
  <2>1. S[i] \in WriteRequest
    OBVIOUS
  <2>2. o \in 0 .. BlockSize
    BY <2>1, Sizes DEF WriteRequest
  <2>3. InRing(S[i].stripe, q, o)' = InRing(S[i].stripe, q, o)
    BY <1>1, <2>2, RingStays
  <2>4. BlockByte(S[i].stripe, q, o)' = BlockByte(S[i].stripe, q, o)
    BY <1>1, <2>2 DEF PostedStays
  <2> QED BY <1>1, <2>3, <2>4 DEF PlacedUpTo
<1>2. \A i, j \in DOMAIN S : i < j => Before(S[i], S[j])'
  BY DEF InOrder, Before
<1>3. ASSUME NEW i \in DOMAIN S
      PROVE  \/ S[i].from = 0
             \/ i > 1 /\ Follows(S[i - 1], S[i])'
             \/ i = 1 /\ PlacedUpTo(S[i], q)'
  BY <1>1 DEF InOrder, Follows
<1> QED BY <1>2, <1>3 DEF InOrder

LEMMA AppendOrder ==
  ASSUME NEW q, NEW S \in Seq(WriteRequest), NEW P \in Seq(WriteRequest), InOrder(S, q), Fresh(P, q),
         \A i \in DOMAIN S : S[i].stripe < Len(sent)
  PROVE  InOrder(S \o P, q)
<1> DEFINE T == S \o P
           n == Len(S)
<1>1. /\ n \in Nat /\ Len(P) \in Nat /\ T \in Seq(WriteRequest) /\ Len(T) = n + Len(P)
      /\ DOMAIN T = 1 .. n + Len(P) /\ DOMAIN S = 1 .. n /\ DOMAIN P = 1 .. Len(P)
      /\ \A i \in 1 .. n : T[i] = S[i]
      /\ \A i \in n + 1 .. n + Len(P) : T[i] = P[i - n]
  BY LenProperties, ConcatProperties
<1> HIDE DEF T
<1>2. ASSUME NEW i \in DOMAIN T, NEW j \in DOMAIN T, i < j PROVE Before(T[i], T[j])
  <2>1. CASE j <= n
    <3>1. i \in DOMAIN S /\ j \in DOMAIN S /\ T[i] = S[i] /\ T[j] = S[j]
      BY <1>1, <1>2, <2>1
    <3> QED BY <1>2, <3>1 DEF InOrder
  <2>2. CASE i <= n /\ j > n
    <3>0. i \in 1 .. n /\ j \in n + 1 .. n + Len(P) /\ j - n \in 1 .. Len(P)
      BY <1>1, <2>2
    <3>1. i \in DOMAIN S /\ j - n \in DOMAIN P /\ T[i] = S[i] /\ T[j] = P[j - n]
      BY <1>1, <3>0
    <3>2. T[i].stripe < Len(sent) /\ T[j].stripe = Len(sent)
      BY <3>1 DEF Fresh
    <3> QED BY <3>2 DEF Before
  <2>3. CASE i > n
    <3>1. i - n \in DOMAIN P /\ j - n \in DOMAIN P /\ T[i] = P[i - n] /\ T[j] = P[j - n] /\ i - n < j - n
      BY <1>1, <1>2, <2>3
    <3> QED BY <3>1 DEF Fresh
  <2> QED BY <1>1, <2>1, <2>2, <2>3
<1>3. ASSUME NEW i \in DOMAIN T
      PROVE  \/ T[i].from = 0
             \/ i > 1 /\ Follows(T[i - 1], T[i])
             \/ i = 1 /\ PlacedUpTo(T[i], q)
  <2>1. CASE i <= n
    <3>1. i \in DOMAIN S /\ T[i] = S[i] /\ (i > 1 => T[i - 1] = S[i - 1])
      BY <1>1, <2>1
    <3> QED BY <3>1 DEF InOrder
  <2>2. CASE i = n + 1
    <3>1. 1 \in DOMAIN P /\ T[i] = P[1] /\ P # <<>>
      BY <1>1, <2>2
    <3> QED BY <3>1 DEF Fresh
  <2>3. CASE i > n + 1
    <3>1. i - n \in DOMAIN P /\ i - n > 1 /\ T[i] = P[i - n] /\ T[i - 1] = P[(i - n) - 1] /\ i > 1
      BY SMTT(30), <1>1, <2>3
    <3>2. Follows(P[(i - n) - 1], P[i - n])
      BY <3>1 DEF Fresh
    <3> QED BY <3>1, <3>2
  <2> QED BY <1>1, <2>1, <2>2, <2>3
<1> QED BY <1>2, <1>3 DEF InOrder, T

LEMMA SendStep ==
  ASSUME SendInv, RingPart, ReceiverStays, SentGrows, PostedStays, PostedFresh,
         unencoded \subseteq unencoded', CellsKept, \A q \in Block : Extended(q)
  PROVE  RingPart'
<1>1. Slices /\ Order /\ Nonzero /\ Whole /\ Receiving
  BY DEF RingPart
<1>2. /\ \A q \in Block : sq[q] \in Seq(WriteRequest)
      /\ \A q \in Block : \A i \in DOMAIN sq[q] : sq[q][i].from + sq[q][i].len <= Unit
  BY DEF SendInv, TypeOK
<1>3. DOMAIN sent = 1 .. Len(sent) /\ Len(sent) \in Nat
  BY LenProperties DEF SendInv, TypeOK
<1>4. ASSUME NEW q \in Block
      PROVE  /\ (\A i \in DOMAIN sq[q] : Carries(sq[q][i], q))'
             /\ InOrder(sq[q], q)'
             /\ \A i \in DOMAIN sq'[q] : \/ \E j \in DOMAIN sq[q] : sq[q][j].stripe = sq'[q][i].stripe
                                         \/ ~Posted(sq'[q][i].stripe, q)
  <2>1. PICK P \in Seq(WriteRequest) :
            /\ sq'[q] = sq[q] \o P /\ Fresh(P, q)
            /\ \A j \in DOMAIN P : Carries(P[j], q)'
    BY <1>4 DEF Extended
  <2>2. PICK S \in Seq(WriteRequest) : S = sq[q]
    BY <1>2
  <2>3. PICK T : T = sq'[q]
    OBVIOUS
  <2>4. T = S \o P
    BY <2>1, <2>2, <2>3
  <2> DEFINE n == Len(S)
  <2>5. /\ n \in Nat /\ Len(P) \in Nat /\ T \in Seq(WriteRequest)
        /\ DOMAIN T = 1 .. n + Len(P) /\ DOMAIN S = 1 .. n /\ DOMAIN P = 1 .. Len(P)
        /\ \A i \in 1 .. n : T[i] = S[i]
        /\ \A i \in n + 1 .. n + Len(P) : T[i] = P[i - n]
    BY <2>4, LenProperties, ConcatProperties
  <2>6. ASSUME NEW i \in DOMAIN S PROVE Carries(S[i], q) /\ S[i] \in WriteRequest /\ S[i].from + S[i].len <= Unit
    BY <1>1, <1>2, <2>2 DEF Slices
  <2>7. ASSUME NEW i \in DOMAIN S PROVE Carries(S[i], q)'
    <3>1. \A x \in 0 .. S[i].len - 1 : sendBuffer'[S[i].begin + x] = sendBuffer[S[i].begin + x]
      BY <2>2 DEF CellsKept
    <3>2. S[i].stripe >= Open'
      BY <2>6, ReaderStays DEF Carries
    <3> QED BY <2>6, <3>1, <3>2, CarriesKept
  <2>8. ASSUME NEW i \in DOMAIN T PROVE Carries(T[i], q)'
    <3>1. CASE i <= n
      <4>1. i \in DOMAIN S /\ T[i] = S[i]
        BY <2>5, <3>1
      <4> QED BY <2>7, <4>1
    <3>2. CASE i > n
      <4>1. i \in n + 1 .. n + Len(P) /\ i - n \in 1 .. Len(P)
        BY <2>5, <3>2
      <4>2. T[i] = P[i - n] /\ i - n \in DOMAIN P
        BY <2>5, <4>1
      <4> QED BY <2>1, <4>2
    <3> QED BY <2>5, <3>1, <3>2
  <2>9. ASSUME NEW i \in DOMAIN S, P # <<>> PROVE S[i].stripe < Len(sent)
    <3>1. S[i].stripe \in DOMAIN sent /\ Posted(S[i].stripe, q)
      BY <2>6 DEF Carries
    <3>2. ~Posted(Len(sent), q)
      BY <2>1, <2>9 DEF Fresh
    <3>3. S[i].stripe # Len(sent)
      BY <3>1, <3>2
    <3> QED BY <1>3, <3>1, <3>3
  <2>10. InOrder(S, q)
    BY <1>1, <2>2 DEF Order
  <2>11. InOrder(T, q)
    <3>1. CASE P = <<>>
      BY <2>4, <2>10, <3>1, ConcatEmptySeq
    <3>2. CASE P # <<>>
      BY <2>1, <2>4, <2>9, <2>10, <3>2, AppendOrder
    <3> QED BY <3>1, <3>2
  <2>12. ASSUME NEW i \in DOMAIN T
         PROVE  T[i].from = 0 \/ (T[i].stripe \in DOMAIN sent /\ Posted(T[i].stripe, q)) \/ i > 1
    <3>1. CASE i <= n
      <4>1. i \in DOMAIN S /\ T[i] = S[i]
        BY <2>5, <3>1
      <4> QED BY <2>6, <4>1 DEF Carries
    <3>2. CASE i > n
      <4>1. i \in n + 1 .. n + Len(P) /\ i - n \in 1 .. Len(P)
        BY <2>5, <3>2
      <4>2. T[i] = P[i - n] /\ P # <<>>
        BY <2>5, <4>1
      <4>3. i = 1 => i - n = 1
        BY <2>5, <4>1
      <4>4. P[1].from = 0
        BY <2>1, <4>2 DEF Fresh
      <4> QED BY <2>5, <4>2, <4>3, <4>4
    <3> QED BY <2>5, <3>1, <3>2
  <2>13. InOrder(T, q)'
    BY <2>5, <2>11, <2>12, InOrderKept
  <2>14. ASSUME NEW i \in DOMAIN T
         PROVE  (\E j \in DOMAIN S : S[j].stripe = T[i].stripe) \/ ~Posted(T[i].stripe, q)
    <3>1. CASE i <= n
      <4>1. i \in DOMAIN S /\ T[i] = S[i]
        BY <2>5, <3>1
      <4> QED BY <4>1
    <3>2. CASE i > n
      <4>1. i \in n + 1 .. n + Len(P) /\ i - n \in 1 .. Len(P)
        BY <2>5, <3>2
      <4>2. T[i] = P[i - n] /\ i - n \in DOMAIN P /\ P # <<>>
        BY <2>5, <4>1
      <4>3. T[i].stripe = Len(sent) /\ ~Posted(Len(sent), q)
        BY <2>1, <4>2 DEF Fresh
      <4> QED BY <4>3
    <3> QED BY <2>5, <3>1, <3>2
  <2>15. InOrder(sq[q], q)'
    BY <2>3, <2>13 DEF InOrder, PlacedUpTo, Before, Follows
  <2>16. (\A i \in DOMAIN sq[q] : Carries(sq[q][i], q))'
    BY <2>3, <2>8 DEF Carries
  <2> QED BY <2>2, <2>3, <2>14, <2>15, <2>16
<1>5. QueueFresh
  BY <1>4 DEF QueueFresh
<1>6. Slices'
  BY <1>4 DEF Slices, Block
<1>7. Order'
  BY <1>4 DEF Order, Block
<1>8. Nonzero' /\ Whole' /\ Receiving'
  BY <1>1, <1>5, NonzeroKept, WholeKept, ReceivingKept
<1> QED BY <1>6, <1>7, <1>8 DEF RingPart

-----------------------------------------------------------------------------
(* Each step of send() *)

(* The cells of a write are those of the bytes it carries. *)
LEMMA SliceCell ==
  ASSUME TypeOK, Stripes, NEW q \in Block, NEW w \in WriteRequest, w.stripe \in DOMAIN sent,
         w.begin + w.len <= Size, w.from + w.len <= Unit, w.begin = At(sent[w.stripe].at, q, w.from),
         NEW x \in 0 .. w.len - 1
  PROVE  /\ w.from + x \in 0 .. BlockSize /\ w.begin + x \in Cells
         /\ w.begin + x = Cell(Pos(w.stripe, q, w.from + x))
<1> DEFINE f == w.from
           n == w.len
           c == w.begin
           s == w.stripe
           p == Pos(s, q, f)
<1>1. f \in 0 .. BlockSize /\ f \in Nat /\ n \in Nat /\ c \in Cells /\ c \in Nat /\ x \in Nat /\ x < n
      /\ c + n <= Size /\ f + n <= Unit /\ Unit = BlockSize + 1 /\ BlockSize \in Nat /\ Size \in Nat
  BY Sizes DEF WriteRequest, Cells
<1>2. p \in Nat /\ c = Cell(p)
  <2>1. f \in 0 .. BlockSize /\ s \in DOMAIN sent /\ c = At(sent[s].at, q, f)
    BY <1>1
  <2> HIDE DEF f, s, c
  <2> QED BY <2>1, Position
<1>3. f + x \in 0 .. BlockSize /\ c + x \in 0 .. Size - 1 /\ c + x < Size
  <2> HIDE DEF f, n, c
  <2> QED BY <1>1
<1>4. Cell(p + x) = c + x
  <2> HIDE DEF p, c, n
  <2> QED BY <1>1, <1>2, <1>3, CellNext
<1>5. p + x = Pos(s, q, f + x)
  <2>1. sent[s].at \in Nat /\ BlockAt(q) \in Nat
    BY <1>1, Position, BlockType
  <2> DEFINE a == sent[s].at
             y == BlockAt(q)
  <2>2. a \in Nat /\ y \in Nat /\ p = a + y + f /\ Pos(s, q, f + x) = a + y + (f + x)
    BY <2>1 DEF Pos
  <2> HIDE DEF a, y, p, f, s
  <2> QED BY <1>1, <2>2
<1>6. f + x \in 0 .. BlockSize /\ c + x \in Cells /\ c + x = Cell(Pos(s, q, f + x))
  BY <1>3, <1>4, <1>5 DEF Cells
<1> QED BY <1>6

(* What is written behind every byte that is with the card, and less than  *)
(* a ring ahead of the receiver, overwrites none of them.                  *)
LEMMA WrittenAhead ==
  ASSUME SendInv, Slices, readPos = StripeAt(Reading - 1),
         NEW pos \in Nat, NEW bytes, Len(bytes) \in Nat, pos + Len(bytes) <= readPos + Size,
         sendBuffer' = Overlay(sendBuffer, pos, bytes),
         \A s \in DOMAIN sent, b \in Block, o \in 0 .. BlockSize :
             s >= Open /\ Posted(s, b) => Pos(s, b, o) < pos
  PROVE  CellsKept
<1> SUFFICES ASSUME NEW q \in Block, NEW i \in DOMAIN sq[q], NEW x \in 0 .. sq[q][i].len - 1
             PROVE  sendBuffer'[sq[q][i].begin + x] = sendBuffer[sq[q][i].begin + x]
  BY DEF CellsKept
<1>1. PICK w \in WriteRequest : w = sq[q][i]
  BY DEF SendInv, TypeOK
<1>2. w.begin + w.len <= Size /\ w.from + w.len <= Unit /\ Carries(w, q)
  BY <1>1 DEF SendInv, TypeOK, Slices
<1>3. w.stripe \in DOMAIN sent /\ Posted(w.stripe, q) /\ w.stripe >= Open
      /\ w.begin = At(sent[w.stripe].at, q, w.from)
  BY <1>2 DEF Carries
<1>4. w.from + x \in 0 .. BlockSize /\ w.begin + x = Cell(Pos(w.stripe, q, w.from + x))
  BY <1>1, <1>2, <1>3, SliceCell DEF SendInv
<1> DEFINE p == Pos(w.stripe, q, w.from + x)
<1>5. p \in Nat /\ readPos \in Nat /\ Size \in Nat /\ readPos <= p
  BY <1>3, <1>4, Window
<1>6. p < pos
  BY <1>3, <1>4
<1> HIDE DEF p
<1>7. p + Size \in Int /\ pos + Len(bytes) <= p + Size /\ p + Size < pos + Size
  BY <1>5, <1>6
<1>8. Overlay(sendBuffer, pos, bytes)[Cell(p + Size)] = sendBuffer[Cell(p + Size)]
  BY <1>7, OverlayOutside
<1>9. Cell(p + Size) = Cell(p)
  BY <1>5, CellRing
<1>10. w.begin + x = Cell(p)
  BY <1>4 DEF p
<1> QED BY <1>1, <1>8, <1>9, <1>10

LEMMA QuietStep ==
  ASSUME SendInv, RingPart, ReceiverStays, UNCHANGED <<sPc, sBlock, sent, sendBuffer, sendPos, unencoded, sq>>
  PROVE  RingPart'
<1>1. \A b \in Block : Ahead(b)' = Ahead(b)
  BY DEF Ahead, Writing, BlockEnd, Current, BlockAt, Unit
<1>2. SentGrows /\ PostedStays /\ PostedFresh
  BY <1>1, DueBlocks, PostedSame, FreshSame
<1>3. CellsKept /\ \A q \in Block : Extended(q)
  BY NotExtended DEF CellsKept
<1> QED BY <1>2, <1>3, SendStep

(* A send() that fails leaves the blocks it has written to the end posted. *)
LEMMA FailedStep ==
  ASSUME SendInv, RingPart, ReceiverStays, UNCHANGED <<sent, sendBuffer, sendPos, unencoded>>,
         sPc' = "failed", sent # <<>>, \A q \in Block : Extended(q)
  PROVE  RingPart'
<1>1. Nonzero /\ Receiving
  BY DEF RingPart
<1>2. \A b \in Block : Ahead(b)' <=> sendPos < BlockEnd(b)
  BY DEF Ahead, Writing, BlockEnd, Current, BlockAt, Unit
<1>3. Len(sent) \in DOMAIN sent /\ Current = sent[Len(sent)] /\ SenderPart
      /\ Current.at \in Nat /\ sendPos \in Nat
  BY Parts, LastStripe
<1>4. ASSUME NEW b \in Due(Len(sent)), ~Ahead(b) PROVE ~Ahead(b)'
  <2>1. b \in Block /\ Posted(Len(sent), b)
    BY <1>4, DueBlocks DEF Posted
  <2>2. BlockEnd(b) <= sendPos
    BY <1>3, <2>1, PostedBehind DEF BlockEnd
  <2>3. BlockEnd(b) \in Nat
    BY <1>3, <2>1, BlockType, Sizes DEF BlockEnd
  <2> QED BY <1>2, <1>3, <2>1, <2>2, <2>3
<1>5. ASSUME NEW b \in Due(Len(sent)), ~Ahead(b)'
      PROVE  ~Ahead(b) \/ InRing(Len(sent), b, BlockSize) = 0
  <2>1. b \in Block
    BY DueBlocks
  <2>2. BlockEnd(b) \in Nat
    BY <1>3, <2>1, BlockType, Sizes DEF BlockEnd
  <2>3. BlockEnd(b) <= sendPos
    BY <1>2, <1>3, <1>5, <2>1, <2>2
  <2>4. CASE ~Posted(Len(sent), b)
    BY <1>1, <2>3, <2>4, FreshBlock
  <2>5. CASE Posted(Len(sent), b)
    BY <2>5 DEF Posted
  <2> QED BY <2>4, <2>5
<1>6. SentGrows /\ PostedStays /\ PostedFresh
  BY <1>4, <1>5, PostedSame, FreshSame
<1>7. CellsKept
  BY DEF CellsKept
<1> QED BY <1>6, <1>7, SendStep

LEMMA StartSendRing ==
  ASSUME SendInv, RingPart, NEW m \in Message, StartSend(m)
  PROVE  RingPart'
<1>1. /\ sPc = "idle" /\ sent' = Append(sent, [data |-> m, at |-> sendPos])
      /\ sPc' = "length" /\ sBlock' = 0
      /\ UNCHANGED <<sendBuffer, sendPos, unencoded, sq>> /\ ReceiverStays
  BY DEF StartSend, ReceiverStays, nicVars
<1>2. /\ sent \in Seq(SentStripe) /\ DOMAIN sent = 1 .. Len(sent) /\ Len(sent) \in Nat
      /\ [data |-> m, at |-> sendPos] \in SentStripe /\ unencoded \subseteq DOMAIN sent
  BY LenProperties DEF SendInv, TypeOK, SentStripe
<1>3. /\ Len(sent') = Len(sent) + 1 /\ DOMAIN sent' = 1 .. Len(sent) + 1
      /\ \A s \in DOMAIN sent : sent'[s] = sent[s]
  BY <1>1, <1>2, AppendProperties
<1>4. SentGrows
  BY <1>2, <1>3 DEF SentGrows
<1>5. \A s, b : s \in DOMAIN sent => (Posted(s, b)' <=> b \in Due(s))
  <2> SUFFICES ASSUME NEW s \in DOMAIN sent, NEW b PROVE Posted(s, b)' <=> b \in Due(s)
    OBVIOUS
  <2>1. s # Len(sent')
    BY <1>2, <1>3
  <2>2. Due(s)' = Due(s)
    BY DEF Due, Coding, Data, Block
  <2> QED BY <2>1, <2>2 DEF Posted
<1>6. \A s, b : Posted(s, b) <=> b \in Due(s)
  BY <1>1 DEF Posted, Ahead, Writing
<1>7. PostedStays
  <2> SUFFICES ASSUME NEW s \in DOMAIN sent, NEW b \in Block, Posted(s, b)
               PROVE  /\ Posted(s, b)'
                      /\ \A o \in 0 .. BlockSize : BlockByte(s, b, o)' = BlockByte(s, b, o)
    BY DEF PostedStays
  <2>1. sent'[s] = sent[s] /\ unencoded' = unencoded
    BY <1>1, <1>3
  <2>2. \A o \in 0 .. BlockSize : BlockByte(s, b, o)' = BlockByte(s, b, o)
    BY <2>1 DEF BlockByte, StreamByte, CodeWord
  <2> QED BY <1>5, <1>6, <2>2
<1>8. PostedFresh
  <2> SUFFICES ASSUME NEW s \in DOMAIN sent', NEW b \in Block, Posted(s, b)'
               PROVE  s \in DOMAIN sent /\ Posted(s, b)
    BY DEF PostedFresh, Block
  <2>1. CASE s = Len(sent')
    <3>1. ~Ahead(b)'
      BY <2>1 DEF Posted
    <3>2. Ahead(b)'
      BY <1>1, BlockType DEF Ahead, Writing
    <3> QED BY <3>1, <3>2
  <2>2. CASE s # Len(sent')
    <3>1. s \in DOMAIN sent
      BY <1>2, <1>3, <2>2
    <3> QED BY <1>5, <1>6, <3>1
  <2> QED BY <2>1, <2>2
<1>9. CellsKept /\ \A q \in Block : Extended(q)
  BY <1>1, NotExtended DEF CellsKept
<1> QED BY <1>1, <1>4, <1>7, <1>8, <1>9, SendStep

(* A call that writes or pads posts no block. *)
LEMMA WriteAhead ==
  ASSUME SendInv, WriteToSendBuffer, NEW b \in Due(Len(sent))
  PROVE  Ahead(b)' <=> Ahead(b)
<1>1. Writing
  BY DEF WriteToSendBuffer
<1>2. sBlock \in Block /\ sBlock \in Nat /\ sBlock < K + M /\ K \in Nat /\ M \in Nat
  BY <1>1, Parts, WritingBlock, BlockType, Sizes
<1>3. b \in Block /\ b \in Nat /\ (~IsCoded => b < K)
  <2>1. b \in Block
    BY DueBlocks
  <2>2. ~IsCoded => b \in Data
    BY DEF Due, Coding, IsCoded
  <2> QED BY <2>1, <2>2, BlockType, Sizes DEF Data
<1>4. CASE sPc \in {"length", "data", "pad"}
  <2>1. sBlock' = sBlock /\ Writing'
    BY <1>4 DEF WriteToSendBuffer, Writing
  <2> QED BY <1>1, <2>1 DEF Ahead, Writing
<1>5. CASE sPc = "validity"
  <2>1. Ahead(b) <=> b >= sBlock \/ b >= K
    BY <1>5 DEF Ahead, Writing
  <2>2. CASE sBlock < K
    <3>1. sPc' = "post" /\ sBlock' = sBlock
      BY <1>5, <2>2 DEF WriteToSendBuffer
    <3>2. Ahead(b)' <=> b >= sBlock
      BY <3>1 DEF Ahead, Writing
    <3> QED BY <1>2, <1>3, <2>1, <2>2, <3>2
  <2>3. CASE ~(sBlock < K)
    <3>1. NextBlock(sBlock)
      BY <1>5, <2>3 DEF WriteToSendBuffer
    <3>2. Ahead(b) <=> b >= K
      BY <1>2, <1>3, <2>1, <2>3
    <3>3. CASE sBlock + 1 < K + M
      <4>1. sBlock' = sBlock + 1 /\ sPc' = "pad"
        BY <1>2, <2>3, <3>1, <3>3 DEF NextBlock
      <4>2. Ahead(b)' <=> b >= sBlock + 1 \/ b >= K
        BY <4>1 DEF Ahead, Writing
      <4> QED BY <1>2, <1>3, <2>3, <3>2, <4>2
    <3>4. CASE ~(sBlock + 1 < K + M) /\ IsCoded
      <4>1. sPc' = "encode"
        BY <3>1, <3>4 DEF NextBlock
      <4>2. Ahead(b)' <=> b >= K
        BY <4>1 DEF Ahead, Writing
      <4> QED BY <3>2, <4>2
    <3>5. CASE ~(sBlock + 1 < K + M) /\ ~IsCoded
      <4>1. sPc' = "idle"
        BY <3>1, <3>5 DEF NextBlock
      <4>2. ~Ahead(b)'
        BY <4>1 DEF Ahead, Writing
      <4> QED BY <1>2, <1>3, <3>2, <3>5, <4>2
    <3> QED BY <3>3, <3>4, <3>5
  <2> QED BY <2>2, <2>3
<1> QED BY <1>1, <1>4, <1>5 DEF Writing

LEMMA WriteRing ==
  ASSUME SendInv, RingPart, WriteToSendBuffer
  PROVE  RingPart'
<1>1. /\ Writing /\ PartLen <= SafeToWrite /\ sendBuffer' = Overlay(sendBuffer, sendPos, Part)
      /\ UNCHANGED <<sent, unencoded, sq>> /\ ReceiverStays
  BY DEF WriteToSendBuffer, ReceiverStays, nicVars
<1>2. Slices /\ Receiving /\ SenderPart /\ Granted
  BY Parts DEF RingPart
<1>4. \A b \in Due(Len(sent)) : Ahead(b)' <=> Ahead(b)
  BY WriteAhead
<1>5. SentGrows /\ PostedStays /\ PostedFresh
  BY <1>1, <1>4, PostedSame, FreshSame
<1>6. CellsKept
  <2>1. PartLen \in Nat /\ Part \in Seq(Byte) /\ Len(Part) = PartLen
    BY <1>1, <1>2, PartBounds, PartType
  <2>2. sendPos \in Nat /\ readPos \in Nat /\ Size \in Nat /\ currentRemoteReceive \in Nat /\ readValue \in Nat
        /\ currentRemoteReceive <= readPos
    BY <1>2, Sizes DEF SendInv, TypeOK, Granted
  <2> DEFINE n == PartLen
  <2>3. n <= Size - (sendPos - currentRemoteReceive) /\ n \in Nat
    BY <1>1, <2>1 DEF SafeToWrite
  <2>4. sendPos + n <= readPos + Size
    <3> HIDE DEF n
    <3> QED BY <2>2, <2>3
  <2>5. sendPos + Len(Part) <= readPos + Size /\ Len(Part) \in Nat
    BY <2>1, <2>4
  <2>6. readPos = StripeAt(Reading - 1)
    BY <1>2 DEF Receiving
  <2>7. \A s \in DOMAIN sent, b \in Block, o \in 0 .. BlockSize :
            s >= Open /\ Posted(s, b) => Pos(s, b, o) < sendPos
    BY <2>6, Window
  <2> QED BY <1>1, <1>2, <2>2, <2>5, <2>6, <2>7, WrittenAhead
<1> QED BY <1>1, <1>5, <1>6, NotExtended, SendStep

LEMMA EncodeAhead ==
  ASSUME SendInv, Encode, NEW b \in Due(Len(sent))
  PROVE  (Ahead(b)' <=> Ahead(b)) /\ (Ahead(b) <=> b >= K)
<1>1. sPc = "encode" /\ ((sPc' = "idle" /\ M = 0) \/ (sPc' = "post" /\ sBlock' = sBlock))
  BY Zenon DEF Encode
<1>2. sBlock = K
  BY <1>1 DEF SendInv, Progress
<1>3. Ahead(b) <=> b >= K
  BY <1>1 DEF Ahead, Writing
<1>4. CASE sPc' = "idle" /\ M = 0
  <2>1. b \in Block
    BY DueBlocks
  <2>2. ~(b >= K)
    BY <1>4, <2>1, BlockType, Sizes
  <2>3. ~Ahead(b)'
    BY <1>4 DEF Ahead, Writing
  <2> QED BY <1>3, <2>2, <2>3
<1>5. CASE sPc' = "post" /\ sBlock' = sBlock
  <2>1. Ahead(b)' <=> b >= sBlock
    BY <1>5 DEF Ahead, Writing
  <2> QED BY <1>2, <1>3, <2>1
<1> QED BY <1>1, <1>4, <1>5

LEMMA EncodeRing ==
  ASSUME SendInv, RingPart, Encode
  PROVE  RingPart'
<1>1. /\ sPc = "encode" /\ UNCHANGED <<sent, sq, sendPos>> /\ ReceiverStays
      /\ \/ sendBuffer' = Overlay(sendBuffer, Current.at + K * Unit, EncodedRegion) /\ unencoded' = unencoded
         \/ sendBuffer' = sendBuffer /\ unencoded' = unencoded \union {Len(sent)}
      /\ (sPc' = "idle" /\ M = 0) \/ (sPc' = "post" /\ sBlock' = sBlock)
  <2>1. /\ sPc = "encode" /\ UNCHANGED <<sent, sq, sendPos>> /\ ReceiverStays
    BY DEF Encode, ReceiverStays, nicVars
  <2>2. \/ sendBuffer' = Overlay(sendBuffer, Current.at + K * Unit, EncodedRegion) /\ unencoded' = unencoded
        \/ sendBuffer' = sendBuffer /\ unencoded' = unencoded \union {Len(sent)}
    BY Zenon DEF Encode
  <2>3. (sPc' = "idle" /\ M = 0) \/ (sPc' = "post" /\ sBlock' = sBlock)
    BY Zenon DEF Encode
  <2> QED BY <2>1, <2>2, <2>3
<1>2. Slices /\ Receiving /\ SenderPart /\ Granted /\ sBlock = K /\ sendPos = Current.at + Stripe
  BY <1>1, Parts DEF RingPart, SenderPart, Progress
<1>3. \A b \in Due(Len(sent)) : (Ahead(b)' <=> Ahead(b)) /\ (Ahead(b) <=> b >= K)
  BY EncodeAhead
<1>4. ASSUME NEW s \in DOMAIN sent, NEW b \in Block, Posted(s, b)
      PROVE  /\ Posted(s, b)'
             /\ \A o \in 0 .. BlockSize : BlockByte(s, b, o)' = BlockByte(s, b, o)
             /\ s = Len(sent) => b \in Data
  <2>1. Due(s)' = Due(s) /\ Len(sent)' = Len(sent) /\ b \in Due(s)
    BY <1>1, <1>4 DEF Due, Coding, Data, Block, Posted
  <2>2. s = Len(sent) => ~Ahead(b)' /\ ~(b >= K)
    BY <1>3, <1>4, <2>1 DEF Posted
  <2>3. Posted(s, b)'
    BY <2>1, <2>2 DEF Posted
  <2>4. s = Len(sent) => b \in Data
    BY <2>2, BlockType, Sizes DEF Data
  <2>5. CASE s = Len(sent)
    BY <1>1, <2>3, <2>4, <2>5, DataByteKept
  <2>6. CASE s # Len(sent)
    <3>1. sent'[s] = sent[s] /\ (s \in unencoded' <=> s \in unencoded)
      BY <1>1, <2>6
    <3>2. \A o \in 0 .. BlockSize : BlockByte(s, b, o)' = BlockByte(s, b, o)
      BY <3>1 DEF BlockByte, StreamByte, CodeWord
    <3> QED BY <2>3, <2>6, <3>2
  <2> QED BY <2>5, <2>6
<1>5. SentGrows /\ PostedStays /\ PostedFresh
  BY <1>1, <1>3, <1>4, FreshSame DEF SentGrows, PostedStays
<1>6. CellsKept
  <2>1. CASE sendBuffer' = sendBuffer
    BY <2>1 DEF CellsKept
  <2>2. CASE sendBuffer' = Overlay(sendBuffer, Current.at + K * Unit, EncodedRegion)
    <3> DEFINE e == Current.at
               y == BlockAt(K)
               n == Len(EncodedRegion)
    <3>1. e \in Nat /\ y \in Nat /\ K \in Nat /\ K * Unit = y /\ Stripe \in Nat /\ sendPos = e + Stripe
          /\ Len(sent) \in DOMAIN sent /\ e = sent[Len(sent)].at /\ DOMAIN sent = 1 .. Len(sent)
          /\ Len(sent) \in Nat /\ Unit \in Nat /\ M \in Nat
      BY <1>1, <1>2, InStripe, LastStripe, BlockRoom, Sizes, Messages DEF BlockAt, SenderPart
    <3>2. n = M * Unit /\ n \in Nat
      BY <3>1 DEF EncodedRegion
    <3>3. y + n = Stripe
      BY <3>1, <3>2 DEF BlockAt, Stripe
    <3>4. sendPos \in Nat /\ readPos \in Nat /\ Size \in Nat /\ sendPos <= readPos + Size
      BY RingAhead
    <3>5. e + y \in Nat /\ (e + y) + n <= readPos + Size
      <4> HIDE DEF e, y, n
      <4> QED BY SMTT(30), <3>1, <3>2, <3>3, <3>4
    <3>6. readPos = StripeAt(Reading - 1)
      BY <1>2 DEF Receiving
    <3>7. ASSUME NEW s \in DOMAIN sent, NEW b \in Block, NEW o \in 0 .. BlockSize, s >= Open, Posted(s, b)
          PROVE  Pos(s, b, o) < e + y
      <4>1. sent[s].at \in Nat /\ Pos(s, b, o) < sent[s].at + Stripe /\ sent[s].at = StripeAt(s - 1)
            /\ s - 1 \in Nat /\ s \in Nat
        BY Position DEF SendInv
      <4>2. CASE s = Len(sent)
        <5>0. b \in Data
          BY <1>4, <3>7, <4>2
        <5>1. b \in Nat /\ b < K
          BY <5>0, Sizes DEF Data
        <5>2. BlockAt(b) + Unit <= y /\ BlockAt(b) \in Nat
          BY <3>1, <5>1, BlockRoom
        <5> DEFINE z == BlockAt(b)
        <5>3. Pos(s, b, o) = e + z + o /\ z \in Nat /\ z + Unit <= y /\ o < Unit /\ o \in Nat
          BY <3>1, <4>2, <5>2, Sizes DEF Pos
        <5>4. e \in Nat /\ y \in Nat /\ Unit \in Nat
          BY <3>1
        <5> HIDE DEF e, y, z
        <5> QED BY <5>3, <5>4
      <4>3. CASE s # Len(sent)
        <5>0. sent[Len(sent)].at = StripeAt(Len(sent) - 1)
          BY <3>1 DEF SendInv, Stripes
        <5>1. sent[Len(sent)].at = StripeAt(Len(sent) - 1) /\ Len(sent) - 1 \in Nat /\ s - 1 < Len(sent) - 1
          <6>1. s \in 1 .. Len(sent) /\ Len(sent) \in Nat
            BY <3>1
          <6> HIDE DEF e, y, n
          <6> QED BY <4>3, <5>0, <6>1
        <5>2. sent[s].at + Stripe <= e
          BY <3>1, <4>1, <5>1, StripeRoom
        <5> DEFINE a == sent[s].at
                   p == Pos(s, b, o)
        <5>3. p < a + Stripe /\ a + Stripe <= e /\ p \in Nat /\ a \in Nat
          BY <4>1, <5>2, Position DEF SendInv
        <5> HIDE DEF a, p, e, y
        <5>4. p < e + y
          BY <3>1, <5>3
        <5> QED BY <5>4 DEF p
      <4> QED BY <4>2, <4>3
    <3>8. sendBuffer' = Overlay(sendBuffer, e + y, EncodedRegion)
      BY <2>2 DEF BlockAt
    <3> QED BY <1>2, <3>2, <3>5, <3>6, <3>7, <3>8, WrittenAhead
  <2> QED BY <1>1, <2>1, <2>2
<1> QED BY <1>1, <1>5, <1>6, NotExtended, SendStep

(* The requests that post a block, or the first of them *)
LEMMA PostedPieces ==
  ASSUME SendInv, sPc = "post", NEW b \in Block, sBlock = b, Len(sent) >= Open, ReceiverStays,
         UNCHANGED <<sent, sendBuffer, unencoded>>, Posted(Len(sent), b)',
         NEW P \in Seq(WriteRequest), DOMAIN P \subseteq DOMAIN Requests(b),
         \A j \in DOMAIN P : P[j] = Requests(b)[j]
  PROVE  Fresh(P, b) /\ \A j \in DOMAIN P : Carries(P[j], b)'
<1> DEFINE r == Requests(b)
           n == Len(sent)
<1>1. SenderPart /\ TypeOK /\ Stripes /\ sent # <<>>
  BY Parts DEF SendInv, Progress
<1>2. /\ Current.at \in Nat /\ BlockAt(b) \in Nat /\ n \in DOMAIN sent /\ Current = sent[n] /\ sendPos \in Nat
      /\ n \in Nat /\ BlockSize \in Nat /\ Unit = BlockSize + 1 /\ BlockAt(b) + Unit <= Stripe /\ Stripe \in Nat
      /\ SenderTypes
  BY <1>1, LastStripe, BlockType, Sizes, Messages DEF SenderPart
<1>3. r = Wraparound(Current.at + BlockAt(b), Unit) /\ Current.at + BlockAt(b) \in Nat
  BY <1>2 DEF Requests, BlockAt
<1>4. /\ WellFormed(r) /\ Len(r) \in 1 .. 2
      /\ \A i \in DOMAIN r : r[i].stripe = n /\ r[i].begin = Cell(Current.at + BlockAt(b) + r[i].from)
      /\ r[1].from = 0
      /\ 2 \in DOMAIN r => r[1].from + r[1].len = r[2].from
  BY <1>2, <1>3, Pieces
<1>5. DOMAIN r = 1 .. Len(r) /\ DOMAIN P = 1 .. Len(P) /\ Len(P) \in Nat
  BY <1>4, LenProperties DEF WellFormed
<1>6. ASSUME NEW j \in DOMAIN P PROVE j \in DOMAIN r /\ P[j] = r[j] /\ j \in 1 .. 2
  BY <1>4, <1>5
<1>7. ~Posted(n, b)
  <2>1. b \in Nat
    BY BlockType
  <2>2. Ahead(b)
    BY <2>1 DEF Ahead
  <2> QED BY <2>2 DEF Posted
<1>8. Fresh(P, b)
  <2>1. P # <<>> => P[1].from = 0
    <3>1. P # <<>> => 1 \in DOMAIN P
      BY <1>5
    <3> QED BY <1>4, <1>6, <3>1
  <2>0. ASSUME 2 \in DOMAIN P PROVE Follows(P[1], P[2]) /\ P[1] \in WriteRequest /\ P[2] \in WriteRequest
    <3>1. 1 \in DOMAIN P /\ 2 \in DOMAIN P
      BY <1>5, <2>0
    <3>2. P[1] = r[1] /\ P[2] = r[2] /\ 1 \in DOMAIN r /\ 2 \in DOMAIN r
      BY <1>6, <3>1
    <3>3. r[1].stripe = r[2].stripe /\ r[1].from + r[1].len = r[2].from
      BY <1>4, <3>2
    <3>4. Follows(P[1], P[2])
      BY <3>2, <3>3 DEF Follows
    <3> QED BY <3>1, <3>4
  <2>2. ASSUME NEW j \in DOMAIN P, j > 1 PROVE Follows(P[j - 1], P[j])
    <3>1. j = 2 /\ j - 1 = 1
      BY <1>6, <2>2
    <3> QED BY <2>0, <3>1
  <2>3. ASSUME NEW i \in DOMAIN P, NEW j \in DOMAIN P, i < j PROVE Before(P[i], P[j])
    <3>1. i \in 1 .. 2 /\ j \in 1 .. 2
      BY <1>6
    <3>2. i = 1 /\ j = 2
      BY <2>3, <3>1
    <3>3. Follows(P[1], P[2]) /\ P[1] \in WriteRequest /\ P[2] \in WriteRequest
      BY <2>0, <3>2
    <3>4. ASSUME NEW w \in WriteRequest PROVE w.from + w.len \in Nat
      <4>1. w.from \in 0 .. BlockSize /\ w.len \in 1 .. Size /\ BlockSize \in Nat /\ Size \in Nat
        BY Sizes DEF WriteRequest
      <4>2. w.from \in Nat /\ w.len \in Nat
        BY <4>1
      <4> QED BY <4>2
    <3>5. P[1].from + P[1].len \in Nat
      BY <3>3, <3>4
    <3>7. P[1].stripe = P[2].stripe /\ P[1].from + P[1].len = P[2].from
      BY <3>3 DEF Follows
    <3>6. Before(P[1], P[2])
      BY <3>5, <3>7 DEF Before
    <3> QED BY <3>2, <3>6
  <2>4. ASSUME NEW j \in DOMAIN P PROVE P[j].stripe = n
    BY <1>4, <1>6
  <2> QED BY <1>7, <2>1, <2>2, <2>3, <2>4 DEF Fresh
<1>9. ASSUME NEW j \in DOMAIN P PROVE Carries(P[j], b)'
  <2>1. PICK w \in WriteRequest : w = P[j]
    OBVIOUS
  <2>2. w = r[j] /\ j \in DOMAIN r
    BY <1>6, <2>1
  <2>3. /\ w.stripe = n /\ w.begin = Cell(Current.at + BlockAt(b) + w.from)
        /\ w.begin + w.len <= Size /\ w.from + w.len <= Unit
    BY <1>4, <2>2 DEF WellFormed
  <2>4. w.begin = At(sent[w.stripe].at, b, w.from)
    BY <1>2, <2>3 DEF At, BlockAt
  <2>5. ASSUME NEW x \in 0 .. w.len - 1
        PROVE  sendBuffer[w.begin + x] = BlockByte(n, b, w.from + x)
    <3>1. w.from + x \in 0 .. BlockSize /\ w.begin + x = Cell(Pos(n, b, w.from + x))
      BY <1>1, <1>2, <2>3, <2>4, SliceCell
    <3> DEFINE o == w.from + x
    <3>2. o \in 0 .. BlockSize /\ w.begin + x = Cell(Pos(n, b, o))
      BY <3>1
    <3> HIDE DEF o
    <3>3. Pos(n, b, o) < sendPos
      <4>0. sendPos = Current.at + (IF b < K THEN BlockAt(b) + Unit ELSE Stripe)
        BY DEF SendInv, Progress
      <4>5. sendPos = Current.at + (BlockAt(b) + Unit) \/ sendPos = Current.at + Stripe
        BY <4>0
      <4>1. sendPos = Current.at + BlockAt(b) + Unit \/ sendPos = Current.at + Stripe
        BY SMTT(30), <1>2, <4>5
      <4> DEFINE e == Current.at
                 y == BlockAt(b)
                 p == Pos(n, b, o)
      <4>2. e \in Nat /\ y \in Nat /\ o \in Nat /\ o < Unit /\ Unit \in Nat /\ p = e + y + o /\ y + Unit <= Stripe
            /\ Stripe \in Nat
        BY <1>2, <3>2, Sizes DEF Pos
      <4>3. sendPos = e + y + Unit \/ sendPos = e + Stripe
        BY <4>1
      <4> HIDE DEF e, y, p
      <4>4. p < sendPos
        BY <4>2, <4>3
      <4> QED BY <4>4 DEF p
    <3>4. sendBuffer[Cell(Pos(n, b, o))] = LaidByte(b, o)
      BY <3>2, <3>3 DEF SendInv, Laid
    <3>5. LaidByte(b, o) = BlockByte(n, b, o)
      <4>1. b >= K => ~PaddedOnly
        BY BlockType, Sizes DEF PaddedOnly, Writing
      <4> QED BY <4>1 DEF LaidByte
    <3>6. sendBuffer[w.begin + x] = BlockByte(n, b, o)
      BY <3>2, <3>4, <3>5
    <3> QED BY <3>6 DEF o
  <2>6. sent'[n] = sent[n] /\ n \in DOMAIN sent' /\ n >= Open' /\ Posted(n, b)'
    BY <1>2, ReaderStays
  <2>7. ASSUME NEW o PROVE BlockByte(n, b, o)' = BlockByte(n, b, o)
    BY DEF BlockByte, StreamByte, CodeWord
  <2>8. w.begin = At(sent[w.stripe].at, b, w.from)'
    BY <2>3, <2>4, <2>6 DEF At, Cell, Unit
  <2>9. ASSUME NEW x \in 0 .. w.len - 1
        PROVE  sendBuffer'[w.begin + x] = BlockByte(w.stripe, b, w.from + x)'
    BY <2>3, <2>5, <2>7
  <2>10. Carries(w, b)'
    BY <2>3, <2>6, <2>8, <2>9 DEF Carries
  <2> QED BY <2>1, <2>10
<1> QED BY <1>8, <1>9

LEMMA ReadRing ==
  ASSUME SendInv, RingPart, PostRead \/ PollRead \/ ExecuteRead \/ LandRead
  PROVE  RingPart'
<1>1. UNCHANGED <<sPc, sBlock, sent, sendBuffer, sendPos, unencoded, sq>> /\ ReceiverStays
  BY DEF PostRead, PollRead, ExecuteRead, LandRead, senderVars, ReceiverStays
<1> QED BY <1>1, QuietStep

LEMMA PollErrorRing ==
  ASSUME SendInv, RingPart, PollError
  PROVE  RingPart'
<1>1. /\ UNCHANGED <<sent, sendBuffer, sendPos, unencoded, sq>> /\ ReceiverStays
      /\ sPc' = "failed" /\ reading # "none"
  BY DEF PollError, ReceiverStays
<1>2. sent # <<>>
  BY <1>1 DEF SendInv, Granted, Progress, Writing
<1> QED BY <1>1, <1>2, NotExtended, FailedStep

(* A block is posted when it is written to its end. *)
LEMMA PostEnd ==
  ASSUME SendInv, sPc = "post", NEW b \in Block, sBlock = b
  PROVE  BlockEnd(b) <= sendPos
<1>0. SenderPart /\ sent # <<>>
  BY Parts DEF SendInv, Progress
<1>1. sendPos = Current.at + (IF b < K THEN BlockAt(b) + Unit ELSE Stripe)
  BY DEF SendInv, Progress
<1>2. Current.at \in Nat /\ BlockAt(b) \in Nat /\ BlockAt(b) + Unit <= Stripe /\ Unit \in Nat /\ Stripe \in Nat
  BY <1>0, LastStripe, BlockType, Sizes
<1> DEFINE e == Current.at
           y == BlockAt(b)
<1>3. /\ e \in Nat /\ y \in Nat /\ y + Unit <= Stripe /\ BlockEnd(b) = e + y + Unit
      /\ sendPos = e + (IF b < K THEN y + Unit ELSE Stripe)
  BY <1>1, <1>2 DEF BlockEnd
<1> HIDE DEF e, y
<1> QED BY <1>2, <1>3

(* A block that is written becomes posted; its queue pair may be broken.   *)
LEMMA BlockRing ==
  ASSUME SendInv, RingPart, sPc = "post", NEW b \in Block, sBlock = b, ReceiverStays,
         UNCHANGED <<sent, sendBuffer, sendPos, unencoded>>,
         \A c \in Block : Ahead(c)' <=> c >= b + 1,
         b \in Due(Len(sent)) => Post(b, Requests(b)),
         b \notin Due(Len(sent)) => UNCHANGED sq
  PROVE  RingPart'
<1>1. Nonzero /\ Receiving /\ SenderPart /\ sent # <<>> /\ b \in Nat
  BY Parts, BlockType DEF RingPart, SendInv, Progress
<1>2. \A c \in Block : Ahead(c) <=> c >= b
  BY DEF Ahead, Writing
<1>3. BlockEnd(b) <= sendPos
  BY PostEnd
<1>4. ~Posted(Len(sent), b)
  BY <1>1, <1>2 DEF Posted
<1>5. b \in Due(Len(sent)) => /\ Len(sent) >= Open /\ InRing(Len(sent), b, BlockSize) = 0
                              /\ Posted(Len(sent), b)'
  <2> SUFFICES ASSUME b \in Due(Len(sent))
               PROVE  /\ Len(sent) >= Open /\ InRing(Len(sent), b, BlockSize) = 0
                      /\ Posted(Len(sent), b)'
    OBVIOUS
  <2>1. ~Ahead(b)'
    BY <1>1
  <2>2. b \in Due(Len(sent))'
    BY DEF Due, Coding, Data, Block
  <2> QED BY <1>1, <1>3, <1>4, <2>1, <2>2, FreshBlock DEF Posted
<1>6. ASSUME NEW c \in Due(Len(sent)), ~Ahead(c) PROVE ~Ahead(c)'
  <2>1. c \in Block /\ c \in Nat
    BY DueBlocks, BlockType
  <2> QED BY <1>1, <1>2, <1>6, <2>1
<1>7. ASSUME NEW c \in Due(Len(sent)), ~Ahead(c)'
      PROVE  ~Ahead(c) \/ InRing(Len(sent), c, BlockSize) = 0
  <2>1. c \in Block /\ c \in Nat
    BY DueBlocks, BlockType
  <2>2. ~(c >= b + 1)
    BY <1>7, <2>1
  <2>3. c = b \/ ~(c >= b)
    BY <1>1, <2>1, <2>2
  <2> QED BY <1>2, <1>5, <1>7, <2>1, <2>3
<1>8. SentGrows /\ PostedStays /\ PostedFresh
  BY <1>6, <1>7, PostedSame, FreshSame
<1>9. CellsKept
  BY DEF CellsKept
<1>10. ASSUME NEW q \in Block PROVE Extended(q)
  <2>1. CASE sq'[q] = sq[q]
    BY <2>1, NotExtended
  <2>2. CASE sq'[q] # sq[q]
    <3>1. b \in Due(Len(sent)) /\ Post(b, Requests(b))
      BY <2>2
    <3>2. sq' = [sq EXCEPT ![b] = @ \o Requests(b)]
      BY <2>2, <3>1 DEF Post
    <3>3. q = b /\ sq'[b] = sq[b] \o Requests(b)
      BY <2>2, <3>2 DEF SendInv, TypeOK
    <3>4. Requests(b) \in Seq(WriteRequest)
      BY <1>1, RequestsType DEF WellFormed
    <3>5. PICK P \in Seq(WriteRequest) : P = Requests(b)
      BY <3>4
    <3>6. Fresh(P, b) /\ \A j \in DOMAIN P : Carries(P[j], b)'
      BY <1>5, <3>1, <3>5, PostedPieces
    <3> QED BY <3>3, <3>5, <3>6 DEF Extended
  <2> QED BY <2>1, <2>2
<1> QED BY <1>8, <1>9, <1>10, SendStep

(* What PostData and PostParity do *)
NowPosted(b) ==
    /\ sPc = "post" /\ sPc' # "failed" /\ sBlock = b /\ ReceiverStays
    /\ UNCHANGED <<sent, sendBuffer, sendPos, unencoded, readQp, reading, readValue,
                   currentRemoteReceive, broken>>
    /\ \A c \in Block : Ahead(c)' <=> c >= b + 1
    /\ b \in Due(Len(sent)) => Len(Requests(b)) <= Room(b) /\ Post(b, Requests(b))
    /\ b \notin Due(Len(sent)) => UNCHANGED <<sq, sqUsed, cq>>

LEMMA DataPosted ==
  ASSUME SendInv, PostData
  PROVE  \E b \in Block : NowPosted(b)
<1>1. PICK b \in Block : b = sBlock /\ b \in Nat /\ b < K
  <2>1. sBlock \in 0 .. K + M /\ sBlock < K
    BY DEF PostData, SendInv, TypeOK
  <2>2. sBlock \in Block /\ sBlock \in Nat
    BY <2>1, Sizes DEF Block
  <2> QED BY <2>1, <2>2
<1>2. /\ sPc = "post" /\ NextBlock(b) /\ ReceiverStays
      /\ UNCHANGED <<sent, sendBuffer, sendPos, unencoded, readQp, reading, readValue,
                     currentRemoteReceive, broken>>
      /\ IF Unposted(b) THEN UNCHANGED <<sq, sqUsed, cq>>
         ELSE Len(Requests(b)) <= Room(b) /\ Post(b, Requests(b))
  BY <1>1 DEF PostData, ReceiverStays
<1>3. b \in Due(Len(sent)) <=> ~Unposted(b)
  <2>1. b \in Data
    BY <1>1, Sizes DEF Data
  <2> QED BY <2>1 DEF Due, Coding, Unposted, IsCoded
<1>4. ASSUME NEW c \in Block PROVE Ahead(c)' <=> c >= b + 1
  <2>1. c \in Nat /\ c < K + M /\ K \in Nat /\ M \in Nat
    BY BlockType, Sizes
  <2>2. CASE b + 1 < K + M
    <3>1. sBlock' = b + 1 /\ sPc' \in {"data", "pad"}
      BY <1>2, <2>2 DEF NextBlock
    <3>2. Ahead(c)' <=> c >= b + 1 \/ c >= K
      BY <3>1 DEF Ahead, Writing
    <3> QED BY <1>1, <2>1, <3>2
  <2>3. CASE ~(b + 1 < K + M) /\ IsCoded
    <3>1. sPc' = "encode"
      BY <1>2, <2>3 DEF NextBlock
    <3>2. Ahead(c)' <=> c >= K
      BY <3>1 DEF Ahead, Writing
    <3> QED BY <1>1, <2>1, <2>3, <3>2
  <2>4. CASE ~(b + 1 < K + M) /\ ~IsCoded
    <3>1. sPc' = "idle"
      BY <1>2, <2>4 DEF NextBlock
    <3>2. ~Ahead(c)'
      BY <3>1 DEF Ahead, Writing
    <3> QED BY <1>1, <2>1, <2>4, <3>2
  <2> QED BY <2>2, <2>3, <2>4
<1>5. sPc' # "failed"
  BY <1>2, Zenon DEF NextBlock
<1> QED BY <1>1, <1>2, <1>3, <1>4, <1>5 DEF NowPosted

LEMMA ParityPosted ==
  ASSUME SendInv, PostParity
  PROVE  \E b \in Block : NowPosted(b)
<1>1. PICK b \in Block : b = sBlock /\ b \in Nat /\ b >= K
  <2>1. sBlock \in 0 .. K + M /\ sBlock >= K /\ sBlock < K + M
    BY DEF PostParity, SendInv, TypeOK, Progress
  <2>2. sBlock \in Block /\ sBlock \in Nat
    BY <2>1, Sizes DEF Block
  <2> QED BY <2>1, <2>2
<1>2. /\ sPc = "post" /\ ReceiverStays
      /\ UNCHANGED <<sent, sendBuffer, sendPos, unencoded, readQp, reading, readValue,
                     currentRemoteReceive, broken>>
      /\ Len(Requests(b)) <= Room(b) /\ Post(b, Requests(b))
      /\ IF b + 1 < K + M THEN sBlock' = b + 1 /\ sPc' = "post" ELSE sPc' = "idle"
  BY <1>1 DEF PostParity, ReceiverStays
<1>3. b \in Due(Len(sent))
  <2>1. IsCoded
    BY <1>1, <1>2 DEF SendInv, Progress
  <2>2. b # 0
    BY <1>1, Sizes
  <2> QED BY <1>1, <2>1, <2>2 DEF Due, Coding, IsCoded
<1>4. ASSUME NEW c \in Block PROVE Ahead(c)' <=> c >= b + 1
  <2>1. c \in Nat /\ c < K + M /\ K \in Nat /\ M \in Nat
    BY BlockType, Sizes
  <2>2. CASE b + 1 < K + M
    <3>1. sBlock' = b + 1 /\ sPc' = "post"
      BY <1>2, <2>2
    <3> QED BY <3>1 DEF Ahead, Writing
  <2>3. CASE ~(b + 1 < K + M)
    <3>1. sPc' = "idle"
      BY <1>2, <2>3
    <3>2. ~Ahead(c)'
      BY <3>1 DEF Ahead, Writing
    <3> QED BY <1>1, <2>1, <2>3, <3>2
  <2> QED BY <2>2, <2>3
<1>5. sPc' # "failed"
  BY <1>2
<1> QED BY <1>1, <1>2, <1>3, <1>4, <1>5 DEF NowPosted

LEMMA PostRing ==
  ASSUME SendInv, RingPart, PostData \/ PostParity
  PROVE  RingPart'
<1>1. PICK b \in Block : NowPosted(b)
  BY DataPosted, ParityPosted
<1> QED BY <1>1, BlockRing DEF NowPosted

LEMMA PostFullRing ==
  ASSUME SendInv, RingPart, PostFull
  PROVE  RingPart'
<1>1. /\ sPc' = "failed" /\ UNCHANGED <<sent, sendBuffer, sendPos, unencoded>> /\ ReceiverStays
      /\ \/ Writing /\ UNCHANGED sq
         \/ /\ sPc = "post" /\ ~Unposted(sBlock) /\ Len(Requests(sBlock)) > Room(sBlock)
            /\ Post(sBlock, SubSeq(Requests(sBlock), 1, Room(sBlock)))
  BY DEF PostFull, ReceiverStays
<1>2. CASE Writing /\ UNCHANGED sq
  <2>1. sent # <<>>
    BY <1>2 DEF SendInv, Progress, Writing
  <2> QED BY <1>1, <1>2, <2>1, NotExtended, FailedStep
<1>3. CASE /\ sPc = "post" /\ ~Unposted(sBlock) /\ Len(Requests(sBlock)) > Room(sBlock)
           /\ Post(sBlock, SubSeq(Requests(sBlock), 1, Room(sBlock)))
  <2>1. PICK b \in Block : b = sBlock /\ b \in Nat
    <3>1. sBlock \in 0 .. K + M /\ sBlock < K + M
      BY <1>3 DEF SendInv, TypeOK, Progress
    <3>2. sBlock \in Block /\ sBlock \in Nat
      BY <3>1, Sizes DEF Block
    <3> QED BY <3>2
  <2>2. Nonzero /\ Receiving /\ SenderPart /\ sent # <<>> /\ BlockEnd(b) <= sendPos
    BY <1>3, <2>1, Parts, PostEnd DEF RingPart, SendInv, Progress
  <2>3. b \in Due(Len(sent))
    <3>1. CASE b < K
      <4>1. b \in Data
        BY <2>1, <3>1, Sizes DEF Data
      <4> QED BY <1>3, <2>1, <4>1 DEF Due, Coding, Unposted, IsCoded
    <3>2. CASE ~(b < K)
      <4>1. IsCoded /\ b # 0
        BY <1>3, <2>1, <3>2, Sizes DEF SendInv, Progress
      <4> QED BY <4>1 DEF Due, Coding, IsCoded
    <3> QED BY <3>1, <3>2
  <2>4. ~Posted(Len(sent), b)
    <3>1. Ahead(b)
      BY <1>3, <2>1 DEF Ahead
    <3> QED BY <3>1 DEF Posted
  <2>5. Len(sent) >= Open
    BY <2>2, <2>3, <2>4, FreshBlock
  <2>6. Posted(Len(sent), b)'
    <3>1. Ahead(b)' <=> sendPos < BlockEnd(b)
      BY <1>1 DEF Ahead, Writing, BlockEnd, Current, BlockAt, Unit
    <3>2. BlockEnd(b) \in Nat /\ sendPos \in Nat
      BY <2>2, LastStripe, BlockType, Sizes DEF BlockEnd
    <3>3. ~Ahead(b)'
      BY <2>2, <3>1, <3>2
    <3>4. b \in Due(Len(sent))'
      BY <1>1, <2>3 DEF Due, Coding, Data, Block
    <3> QED BY <3>3, <3>4 DEF Posted
  <2> DEFINE r == Requests(b)
             n == Room(b)
  <2>7. Len(r) > n /\ Post(b, SubSeq(r, 1, n))
    BY <1>3, <2>1
  <2>8. n \in 0 .. Len(r) /\ n \in Nat
    <3>1. sqUsed[b] \in 0 .. MaxSendWr
      BY DEF SendInv, TypeOK
    <3>2. MaxSendWr \in Nat
      BY BoundAssumption
    <3>3. Len(r) \in Nat
      BY <2>2, RequestsType
    <3>4. n \in Nat
      BY <3>1, <3>2 DEF Room
    <3> HIDE DEF r, n
    <3> QED BY <2>7, <3>3, <3>4
  <2>9. r \in Seq(WriteRequest) /\ SubSeq(r, 1, n) \in Seq(WriteRequest) /\ Len(SubSeq(r, 1, n)) = n
    BY <2>2, <2>8, RequestsType DEF WellFormed
  <2> HIDE DEF r, n
  <2>10. DOMAIN r = 1 .. Len(r) /\ DOMAIN SubSeq(r, 1, n) = 1 .. n /\ Len(r) \in Nat
    BY <2>8, <2>9, LenProperties
  <2>11. \A j \in 1 .. n : SubSeq(r, 1, n)[j] = r[j] /\ j \in 1 .. Len(r)
    BY <2>8, <2>9, <2>10
  <2>12. PICK P \in Seq(WriteRequest) : P = SubSeq(r, 1, n)
    BY <2>9
  <2>13. DOMAIN P \subseteq DOMAIN r /\ \A j \in DOMAIN P : P[j] = r[j]
    BY <2>10, <2>11, <2>12
  <2>14. Fresh(P, b) /\ \A j \in DOMAIN P : Carries(P[j], b)'
    BY <1>1, <1>3, <2>1, <2>5, <2>6, <2>13, PostedPieces DEF r
  <2>15. ASSUME NEW q \in Block PROVE Extended(q)
    <3>1. CASE sq'[q] = sq[q]
      BY <3>1, NotExtended
    <3>2. CASE sq'[q] # sq[q]
      <4>1. sq' = [sq EXCEPT ![b] = @ \o SubSeq(r, 1, n)]
        BY <2>7, <3>2 DEF Post
      <4>2. q = b /\ sq'[b] = sq[b] \o SubSeq(r, 1, n)
        BY <3>2, <4>1 DEF SendInv, TypeOK
      <4> QED BY <2>12, <2>14, <4>2 DEF Extended
    <3> QED BY <3>1, <3>2
  <2> QED BY <1>1, <2>2, <2>15, FailedStep
<1> QED BY <1>1, <1>2, <1>3

LEMMA SenderRing ==
  ASSUME SendInv, RingPart, (\E m \in Message : StartSend(m)) \/ Sender \/ ExecuteRead \/ LandRead
  PROVE  RingPart'
BY StartSendRing, WriteRing, ReadRing, PollErrorRing, PostRing, EncodeRing, PostFullRing
   DEF Sender

-----------------------------------------------------------------------------
(* Steps that leave the sending endpoint alone *)

LEMMA SenderStill ==
  ASSUME UNCHANGED senderVars
  PROVE  /\ sent' = sent /\ unencoded' = unencoded /\ sendBuffer' = sendBuffer
         /\ \A s : Due(s)' = Due(s)
         /\ \A s, b : Posted(s, b)' <=> Posted(s, b)
         /\ \A s, b, o : BlockByte(s, b, o)' = BlockByte(s, b, o)
         /\ \A s : Done(s)' <=> Done(s)
<1>1. sent' = sent /\ unencoded' = unencoded /\ sendBuffer' = sendBuffer /\ sPc' = sPc /\ sBlock' = sBlock
      /\ sendPos' = sendPos
  BY DEF senderVars
<1>2. ASSUME NEW s PROVE Due(s)' = Due(s)
  BY DEF Due, Coding, Data, Block
<1>3. ASSUME NEW b PROVE Ahead(b)' <=> Ahead(b)
  BY <1>1 DEF Ahead, Writing, BlockEnd, Current, BlockAt, Unit
<1>4. ASSUME NEW s, NEW b PROVE Posted(s, b)' <=> Posted(s, b)
  BY <1>1, <1>2, <1>3 DEF Posted
<1>5. ASSUME NEW s, NEW b, NEW o PROVE BlockByte(s, b, o)' = BlockByte(s, b, o)
  BY <1>1 DEF BlockByte, StreamByte, CodeWord
<1>6. ASSUME NEW s PROVE Done(s)' <=> Done(s)
  BY <1>1, <1>2, <1>4 DEF Done
<1> QED BY <1>1, <1>2, <1>4, <1>5, <1>6

LEMMA StillGrows ==
  ASSUME UNCHANGED senderVars
  PROVE  SentGrows /\ PostedStays /\ PostedFresh
<1>1. /\ sent' = sent
      /\ \A s, b : Posted(s, b)' <=> Posted(s, b)
      /\ \A s, b, o : BlockByte(s, b, o)' = BlockByte(s, b, o)
  BY SenderStill
<1>2. SentGrows
  BY <1>1 DEF SentGrows
<1>3. PostedStays
  BY <1>1 DEF PostedStays
<1>4. PostedFresh
  BY <1>1 DEF PostedFresh
<1> QED BY <1>2, <1>3, <1>4

LEMMA BreakRing ==
  ASSUME SendInv, RingPart, NEW q \in Block, Break(q)
  PROVE  RingPart'
<1>1. /\ UNCHANGED senderVars /\ ReceiverStays /\ UNCHANGED sendBuffer
      /\ sq' = [sq EXCEPT ![q] = <<>>]
  BY SenderStill DEF Break, ReceiverStays
<1>2. SentGrows /\ PostedStays /\ PostedFresh
  BY <1>1, StillGrows
<1>3. Slices /\ Order /\ Nonzero /\ Whole /\ Receiving /\ sq \in [Block -> Seq(WriteRequest)]
  BY DEF RingPart, SendInv, TypeOK
<1>4. ASSUME NEW r \in Block PROVE sq'[r] = sq[r] \/ sq'[r] = <<>>
  BY <1>1, <1>3
<1>5. QueueFresh
  <2> SUFFICES ASSUME NEW r \in Block, NEW i \in DOMAIN sq'[r]
               PROVE  \E j \in DOMAIN sq[r] : sq[r][j].stripe = sq'[r][i].stripe
    BY DEF QueueFresh
  <2>1. sq'[r] = sq[r]
    BY <1>4
  <2> QED BY <2>1
<1>6. Slices'
  <2> SUFFICES ASSUME NEW r \in Block, NEW i \in DOMAIN sq'[r] PROVE Carries(sq[r][i], r)'
    BY DEF Slices, Block
  <2>1. sq'[r] = sq[r] /\ i \in DOMAIN sq[r]
    BY <1>4
  <2>2. PICK w \in WriteRequest : w = sq[r][i]
    BY <1>3, <2>1
  <2>3. Carries(w, r) /\ w.from + w.len <= Unit
    BY <1>3, <2>1, <2>2 DEF Slices, SendInv, TypeOK
  <2>6. w.stripe >= Open'
    BY <1>1, <2>3, ReaderStays DEF Carries
  <2>4. Carries(w, r)'
    BY <1>1, <1>2, <2>3, <2>6, CarriesKept
  <2>5. w = sq'[r][i]
    BY <2>1, <2>2
  <2> QED BY <2>4, <2>5 DEF Carries
<1>7. Order'
  <2> SUFFICES ASSUME NEW r \in Block PROVE InOrder(sq[r], r)'
    BY DEF Order, Block
  <2>1. CASE sq'[r] = <<>>
    BY <2>1 DEF InOrder
  <2>2. CASE sq'[r] = sq[r]
    <3>1. PICK S \in Seq(WriteRequest) : S = sq[r]
      BY <1>3
    <3>2. InOrder(S, r) /\ \A i \in DOMAIN S : S[i].stripe \in DOMAIN sent /\ Posted(S[i].stripe, r)
      BY <1>3, <3>1 DEF Order, Slices, Carries
    <3>3. InOrder(S, r)'
      BY <1>1, <1>2, <3>2, InOrderKept
    <3>4. S = sq'[r]
      BY <2>2, <3>1
    <3> QED BY <3>3, <3>4 DEF InOrder, PlacedUpTo, Before, Follows
  <2> QED BY <1>4, <2>1, <2>2
<1>8. unencoded' = unencoded
  BY <1>1, SenderStill
<1>9. Nonzero' /\ Whole' /\ Receiving'
  BY <1>1, <1>2, <1>3, <1>5, <1>8, NonzeroKept, WholeKept, ReceivingKept
<1> QED BY <1>6, <1>7, <1>9 DEF RingPart

-----------------------------------------------------------------------------
(* The card places a byte *)

LEMMA HeadCarries ==
  ASSUME SendInv, Slices, NEW q \in Block, sq[q] # <<>>, NEW w, w = Head(sq[q])
  PROVE  /\ w \in WriteRequest /\ 1 \in DOMAIN sq[q] /\ w = sq[q][1] /\ Carries(w, q)
         /\ w.begin + w.len <= Size /\ w.from + w.len <= Unit /\ w.len \in Nat /\ w.len >= 1
         /\ w.begin \in Cells /\ w.from \in 0 .. BlockSize
         /\ w.stripe \in DOMAIN sent /\ Posted(w.stripe, q) /\ w.stripe >= Open
         /\ w.begin = At(sent[w.stripe].at, q, w.from)
         /\ sendBuffer[w.begin] = BlockByte(w.stripe, q, w.from)
<1>1. sq[q] \in Seq(WriteRequest)
  BY DEF SendInv, TypeOK
<1>2. 1 \in DOMAIN sq[q] /\ w = sq[q][1] /\ w \in WriteRequest
  BY <1>1
<1>3. Carries(w, q) /\ w.begin + w.len <= Size /\ w.from + w.len <= Unit
  BY <1>2 DEF Slices, SendInv, TypeOK
<1>4. /\ w.len \in 1 .. Size /\ w.len \in Nat /\ w.len >= 1
      /\ w.begin \in Cells /\ w.begin \in Nat /\ w.from \in 0 .. BlockSize /\ w.from \in Nat
  BY <1>2, Sizes DEF WriteRequest, Cells
<1>5. w.stripe \in DOMAIN sent /\ Posted(w.stripe, q) /\ w.stripe >= Open
      /\ w.begin = At(sent[w.stripe].at, q, w.from)
  BY <1>3 DEF Carries
<1>6. 0 \in 0 .. w.len - 1
  BY <1>4
<1>7. sendBuffer[w.begin + 0] = BlockByte(w.stripe, q, w.from + 0)
  BY <1>3, <1>6 DEF Carries
<1>8. w.begin + 0 = w.begin /\ w.from + 0 = w.from
  BY <1>4
<1> QED BY <1>2, <1>3, <1>4, <1>5, <1>7, <1>8

(* A byte that is as it should stays so when another one is placed. *)
LEMMA StaysRight ==
  ASSUME SendInv, readPos = StripeAt(Reading - 1), UNCHANGED senderVars,
         NEW s \in DOMAIN sent, NEW b \in Block, NEW o \in 0 .. BlockSize, s >= Open, Posted(s, b),
         receiveBuffer' = [receiveBuffer EXCEPT ![At(sent[s].at, b, o)] = BlockByte(s, b, o)],
         NEW t \in DOMAIN sent, NEW c \in Block, NEW u \in 0 .. BlockSize, t >= Open, Posted(t, c),
         InRing(t, c, u) = BlockByte(t, c, u) \/ (t = s /\ c = b /\ u = o)
  PROVE  InRing(t, c, u)' = BlockByte(t, c, u)'
<1>1. sent' = sent /\ BlockByte(t, c, u)' = BlockByte(t, c, u)
  BY SenderStill
<1>2. receiveBuffer \in [Cells -> Byte] /\ At(sent[s].at, b, o) \in Cells /\ At(sent[t].at, c, u) \in Cells
  <2>1. receiveBuffer \in [Cells -> Byte]
    BY DEF SendInv, TypeOK
  <2>2. At(sent[s].at, b, o) \in Cells
    BY Window
  <2>3. At(sent[t].at, c, u) \in Cells
    BY Window
  <2> QED BY <2>1, <2>2, <2>3
<1>3. InRing(t, c, u)' = receiveBuffer'[At(sent[t].at, c, u)]
  BY <1>1 DEF InRing, At, Cell, Unit
<1>4. CASE At(sent[s].at, b, o) = At(sent[t].at, c, u)
  <2>1. s = t /\ b = c /\ o = u
    BY <1>4, SameSpot
  <2>2. receiveBuffer'[At(sent[t].at, c, u)] = BlockByte(s, b, o)
    BY <1>2, <1>4
  <2> QED BY <1>1, <1>3, <2>1, <2>2
<1>5. CASE At(sent[s].at, b, o) # At(sent[t].at, c, u)
  <2>1. receiveBuffer'[At(sent[t].at, c, u)] = receiveBuffer[At(sent[t].at, c, u)]
    BY <1>2, <1>5
  <2>2. ~(t = s /\ c = b /\ u = o)
    BY <1>5
  <2> QED BY <1>1, <1>3, <2>1, <2>2 DEF InRing
<1> QED BY <1>4, <1>5

(* The oldest write of queue pair q, its first byte being placed *)
Placing(w, q) ==
    /\ UNCHANGED senderVars /\ UNCHANGED receiverVars
    /\ sq[q] # <<>> /\ w = Head(sq[q])
    /\ receiveBuffer' = [receiveBuffer EXCEPT ![w.begin] = sendBuffer[w.begin]]
    /\ sq' = [sq EXCEPT ![q] = IF w.len = 1 THEN Tail(@) ELSE [@ EXCEPT ![1] = Shorter(w)]]

LEMMA PlacedByte ==
  ASSUME SendInv, RingPart, NEW q \in Block, NEW w, Placing(w, q)
  PROVE  /\ \A t \in DOMAIN sent, c \in Block, u \in 0 .. BlockSize :
                t >= Open /\ Posted(t, c) /\ InRing(t, c, u) = BlockByte(t, c, u)
                    => InRing(t, c, u)' = BlockByte(t, c, u)'
         /\ InRing(w.stripe, q, w.from)' = BlockByte(w.stripe, q, w.from)'
         /\ \A c \in Cells : c # w.begin => receiveBuffer'[c] = receiveBuffer[c]
         /\ receiveBuffer'[w.begin] = BlockByte(w.stripe, q, w.from)
<1>1. Slices /\ readPos = StripeAt(Reading - 1) /\ UNCHANGED senderVars
  BY DEF RingPart, Receiving, Placing
<1>2. /\ w.stripe \in DOMAIN sent /\ w.from \in 0 .. BlockSize /\ w.stripe >= Open /\ Posted(w.stripe, q)
      /\ w.begin = At(sent[w.stripe].at, q, w.from) /\ w.begin \in Cells
      /\ sendBuffer[w.begin] = BlockByte(w.stripe, q, w.from)
  BY <1>1, HeadCarries DEF Placing
<1>3. receiveBuffer' = [receiveBuffer EXCEPT ![w.begin] = BlockByte(w.stripe, q, w.from)]
  BY <1>2 DEF Placing
<1>4. receiveBuffer \in [Cells -> Byte]
  BY DEF SendInv, TypeOK
<1>5. receiveBuffer' = [receiveBuffer EXCEPT ![At(sent[w.stripe].at, q, w.from)] = BlockByte(w.stripe, q, w.from)]
  BY <1>2, <1>3
<1>6. \A t \in DOMAIN sent, c \in Block, u \in 0 .. BlockSize :
          t >= Open /\ Posted(t, c) /\ InRing(t, c, u) = BlockByte(t, c, u)
              => InRing(t, c, u)' = BlockByte(t, c, u)'
  <2> SUFFICES ASSUME NEW t \in DOMAIN sent, NEW c \in Block, NEW u \in 0 .. BlockSize,
                      t >= Open, Posted(t, c), InRing(t, c, u) = BlockByte(t, c, u)
               PROVE  InRing(t, c, u)' = BlockByte(t, c, u)'
    OBVIOUS
  <2> QED BY ZenonT(30), <1>1, <1>2, <1>5, StaysRight
<1>7. InRing(w.stripe, q, w.from)' = BlockByte(w.stripe, q, w.from)'
  <2>1. PICK s : s = w.stripe
    OBVIOUS
  <2>2. PICK f : f = w.from
    OBVIOUS
  <2>3. InRing(s, q, f)' = BlockByte(s, q, f)'
    BY <1>1, <1>2, <1>5, <2>1, <2>2, StaysRight
  <2> QED BY <2>1, <2>2, <2>3
<1>8. \A c \in Cells : c # w.begin => receiveBuffer'[c] = receiveBuffer[c]
  BY <1>2, <1>3, <1>4
<1>9. receiveBuffer'[w.begin] = BlockByte(w.stripe, q, w.from)
  BY <1>2, <1>3, <1>4
<1> QED BY <1>6, <1>7, <1>8, <1>9

(* What is left of the queue *)
LEMMA LeftOver ==
  ASSUME SendInv, Slices, NEW q \in Block, NEW w, Placing(w, q)
  PROVE  /\ \A r \in Block : r # q => sq'[r] = sq[r]
         /\ w.len = 1 => /\ DOMAIN sq'[q] = 1 .. Len(sq[q]) - 1
                         /\ \A i \in 1 .. Len(sq[q]) - 1 : sq'[q][i] = sq[q][i + 1]
         /\ w.len # 1 => /\ DOMAIN sq'[q] = DOMAIN sq[q] /\ sq'[q][1] = Shorter(w)
                         /\ \A i \in DOMAIN sq[q] : i # 1 => sq'[q][i] = sq[q][i]
<1>1. sq \in [Block -> Seq(WriteRequest)] /\ sq[q] # <<>>
  BY DEF SendInv, TypeOK, Placing
<1>2. PICK S \in Seq(WriteRequest) : S = sq[q]
  BY <1>1
<1>3. DOMAIN S = 1 .. Len(S) /\ Len(S) \in Nat /\ Len(S) > 0 /\ 1 \in DOMAIN S
  BY <1>1, <1>2, LenProperties
<1>4. sq'[q] = IF w.len = 1 THEN Tail(S) ELSE [S EXCEPT ![1] = Shorter(w)]
  BY <1>1, <1>2 DEF Placing
<1>5. \A r \in Block : r # q => sq'[r] = sq[r]
  BY <1>1 DEF Placing
<1>6. ASSUME w.len = 1
      PROVE  DOMAIN sq'[q] = 1 .. Len(S) - 1 /\ \A i \in 1 .. Len(S) - 1 : sq'[q][i] = S[i + 1]
  <2>1. sq'[q] = Tail(S)
    BY <1>4, <1>6
  <2>2. DOMAIN Tail(S) = 1 .. Len(S) - 1 /\ \A j \in 1 .. Len(S) - 1 : Tail(S)[j] = S[j + 1]
    BY <1>3
  <2> QED BY <2>1, <2>2
<1>7. ASSUME w.len # 1
      PROVE  /\ DOMAIN sq'[q] = DOMAIN S /\ sq'[q][1] = Shorter(w)
             /\ \A i \in DOMAIN S : i # 1 => sq'[q][i] = S[i]
  <2>1. sq'[q] = [S EXCEPT ![1] = Shorter(w)]
    BY <1>4, <1>7
  <2> QED BY <1>3, <2>1
<1> QED BY <1>2, <1>5, <1>6, <1>7

LEMMA PlaceSlices ==
  ASSUME SendInv, RingPart, NEW q \in Block, NEW w, Placing(w, q)
  PROVE  Slices'
<1>1. /\ Slices /\ receiverVars' = receiverVars /\ sent' = sent /\ sendBuffer' = sendBuffer
      /\ \A s, b : Posted(s, b)' <=> Posted(s, b)
      /\ \A s, b, o : BlockByte(s, b, o)' = BlockByte(s, b, o)
  BY SenderStill DEF RingPart, Placing
<1>2. Open' = Open
  BY <1>1 DEF receiverVars, Open, Settled, Reading
<1>3. ASSUME NEW r \in Block, NEW v \in WriteRequest, v.from + v.len <= Unit, Carries(v, r)
      PROVE  Carries(v, r)'
  <2>1. v.stripe >= Open'
    BY <1>2, <1>3 DEF Carries
  <2>2. SentGrows /\ PostedStays
    BY StillGrows DEF Placing
  <2> QED BY <1>1, <1>3, <2>1, <2>2, CarriesKept
<1>4. ASSUME NEW r \in Block, NEW i \in DOMAIN sq'[r] PROVE Carries(sq[r][i], r)'
  <2>1. PICK v : v = sq'[r][i]
    OBVIOUS
  <2>2. CASE \E j \in DOMAIN sq[r] : v = sq[r][j]
    <3>1. Carries(v, r) /\ v \in WriteRequest /\ v.from + v.len <= Unit
      BY <1>1, <2>2 DEF Slices, SendInv, TypeOK
    <3>2. Carries(v, r)'
      BY <1>3, <3>1
    <3> QED BY <2>1, <3>2 DEF Carries
  <2>3. CASE ~\E j \in DOMAIN sq[r] : v = sq[r][j]
    <3>1. r = q /\ w.len # 1 /\ v = Shorter(w)
      <4>1. r = q
        BY <1>1, <1>4, <2>1, <2>3, LeftOver, Zenon
      <4>2. w.len # 1
        <5> SUFFICES ASSUME w.len = 1 PROVE FALSE
          OBVIOUS
        <5>1. /\ DOMAIN sq'[q] = 1 .. Len(sq[q]) - 1
              /\ \A j \in 1 .. Len(sq[q]) - 1 : sq'[q][j] = sq[q][j + 1]
          BY <1>1, LeftOver, Zenon
        <5>2. DOMAIN sq[q] = 1 .. Len(sq[q]) /\ Len(sq[q]) \in Nat
          <6>1. sq[q] \in Seq(WriteRequest)
            BY DEF SendInv, TypeOK
          <6> QED BY <6>1, LenProperties
        <5>3. i \in 1 .. Len(sq[q]) - 1 /\ i + 1 \in DOMAIN sq[q]
          BY <1>4, <4>1, <5>1, <5>2
        <5> QED BY <2>1, <2>3, <4>1, <5>1, <5>3
      <4>3. /\ DOMAIN sq'[q] = DOMAIN sq[q] /\ sq'[q][1] = Shorter(w)
            /\ \A j \in DOMAIN sq[q] : j # 1 => sq'[q][j] = sq[q][j]
        BY <1>1, <4>2, LeftOver, Zenon
      <4>4. i = 1
        BY <1>4, <2>1, <2>3, <4>1, <4>3, Zenon
      <4> QED BY <2>1, <4>1, <4>2, <4>3, <4>4
    <3>2. /\ w \in WriteRequest /\ Carries(w, q) /\ w.begin + w.len <= Size /\ w.from + w.len <= Unit
          /\ w.len \in Nat /\ w.len >= 1 /\ w.stripe \in DOMAIN sent /\ Posted(w.stripe, q)
          /\ w.stripe >= Open /\ w.begin = At(sent[w.stripe].at, q, w.from) /\ w.from \in 0 .. BlockSize
          /\ w.begin \in Cells
      BY <1>1, HeadCarries DEF Placing
    <3>3. /\ v.begin = w.begin + 1 /\ v.len = w.len - 1 /\ v.stripe = w.stripe /\ v.from = w.from + 1
      BY <3>1, <3>2, ShorterFields
    <3>4. 1 \in 0 .. w.len - 1
      BY <3>1, <3>2
    <3>5. w.from + 1 \in 0 .. BlockSize /\ w.begin + 1 = Cell(Pos(w.stripe, q, w.from + 1))
      BY <3>2, <3>4, SliceCell DEF SendInv
    <3>6. v.begin = At(sent[v.stripe].at, q, v.from)
      BY <3>2, <3>3, <3>5, Position DEF SendInv
    <3>7. ASSUME NEW x \in 0 .. v.len - 1
          PROVE  sendBuffer[v.begin + x] = BlockByte(v.stripe, q, v.from + x)
      <4>1. x \in Nat /\ x + 1 \in 0 .. w.len - 1
        BY <3>2, <3>3
      <4>2. sendBuffer[w.begin + (x + 1)] = BlockByte(w.stripe, q, w.from + (x + 1))
        BY <3>2, <4>1 DEF Carries
      <4>3. w.begin \in Nat /\ w.from \in Nat
        BY <3>2, Sizes DEF Cells
      <4>4. v.begin + x = w.begin + (x + 1) /\ v.from + x = w.from + (x + 1)
        BY <3>3, <4>1, <4>3
      <4> QED BY <3>3, <4>2, <4>4
    <3>8. Carries(v, q)
      BY <3>2, <3>3, <3>6, <3>7 DEF Carries
    <3>10. v \in WriteRequest /\ v.from + v.len <= Unit
      <4>1. w.len \in 1 .. Size /\ w.begin \in Nat /\ w.stripe \in Nat /\ w.from \in Nat /\ Size \in Nat
        BY <3>2, Sizes DEF WriteRequest, Cells
      <4>2. v = [begin |-> w.begin + 1, len |-> w.len - 1, stripe |-> w.stripe, from |-> w.from + 1]
        BY <3>1, <3>2, ShorterFields
      <4> DEFINE x == w.begin
                 y == w.len
                 f == w.from
      <4>3. /\ x \in Nat /\ y \in 1 .. Size /\ y # 1 /\ x + y <= Size /\ f \in Nat /\ f + y <= Unit
        BY <3>1, <3>2, <4>1
      <4> HIDE DEF x, y, f
      <4>4. x + 1 \in 0 .. Size - 1 /\ y - 1 \in 1 .. Size /\ (f + 1) + (y - 1) = f + y
        BY <4>1, <4>3
      <4>5. w.begin + 1 \in Cells /\ w.len - 1 \in 1 .. Size /\ v.from + v.len <= Unit
        BY <3>3, <4>3, <4>4 DEF x, y, f, Cells
      <4> QED BY <3>5, <4>1, <4>2, <4>5 DEF WriteRequest
    <3>9. Carries(v, r)'
      BY <1>3, <3>1, <3>8, <3>10
    <3> QED BY <2>1, <3>9 DEF Carries
  <2> QED BY <2>2, <2>3
<1> QED BY <1>4 DEF Slices, Block

(* What was placed of a block stays; with this byte one more is. *)
LEMMA PlacedStays ==
  ASSUME SendInv, RingPart, NEW q \in Block, NEW w, Placing(w, q), NEW r \in Block,
         NEW v \in WriteRequest, Carries(v, r), PlacedUpTo(v, r)
  PROVE  PlacedUpTo(v, r)'
<1> SUFFICES ASSUME NEW o \in 0 .. v.from - 1
             PROVE  InRing(v.stripe, r, o)' = BlockByte(v.stripe, r, o)'
  BY DEF PlacedUpTo
<1>1. o \in 0 .. BlockSize
  BY Sizes DEF WriteRequest
<1>2. InRing(v.stripe, r, o) = BlockByte(v.stripe, r, o)
  BY DEF PlacedUpTo
<1> QED BY <1>1, <1>2, PlacedByte DEF Carries

LEMMA PlacedPrefix ==
  ASSUME SendInv, RingPart, NEW q \in Block, NEW w, Placing(w, q)
  PROVE  \A o \in 0 .. w.from : InRing(w.stripe, q, o)' = BlockByte(w.stripe, q, o)'
<1> SUFFICES ASSUME NEW o \in 0 .. w.from PROVE InRing(w.stripe, q, o)' = BlockByte(w.stripe, q, o)'
  OBVIOUS
<1>1. Slices /\ Order
  BY DEF RingPart
<1>2. w \in WriteRequest /\ 1 \in DOMAIN sq[q] /\ w = sq[q][1] /\ Carries(w, q) /\ w.from \in Nat
  <2>1. w \in WriteRequest /\ 1 \in DOMAIN sq[q] /\ w = sq[q][1] /\ Carries(w, q)
    BY <1>1, HeadCarries DEF Placing
  <2> QED BY <2>1, Sizes DEF WriteRequest
<1>3. InRing(w.stripe, q, w.from)' = BlockByte(w.stripe, q, w.from)'
  BY PlacedByte
<1>4. CASE o = w.from
  BY <1>3, <1>4
<1>5. CASE o # w.from
  <2>1. o \in 0 .. w.from - 1 /\ w.from # 0
    BY <1>2, <1>5
  <2>2. PlacedUpTo(w, q)
    BY <1>1, <1>2, <2>1 DEF Order, InOrder
  <2>3. PlacedUpTo(w, q)'
    BY <1>2, <2>2, PlacedStays
  <2> QED BY <2>1, <2>3 DEF PlacedUpTo
<1> QED BY <1>4, <1>5

LEMMA PlaceOrder ==
  ASSUME SendInv, RingPart, NEW q \in Block, NEW w, Placing(w, q)
  PROVE  Order'
<1>1. Slices /\ Order /\ sent' = sent /\ \A s, b, o : BlockByte(s, b, o)' = BlockByte(s, b, o)
  BY SenderStill DEF RingPart, Placing
<1>3. /\ w \in WriteRequest /\ 1 \in DOMAIN sq[q] /\ w = sq[q][1] /\ Carries(w, q)
      /\ w.from + w.len <= Unit /\ w.len \in Nat /\ w.len >= 1 /\ w.from \in 0 .. BlockSize
      /\ w.from \in Nat
  BY <1>1, HeadCarries DEF Placing
<1>4. sq[q] \in Seq(WriteRequest) /\ DOMAIN sq[q] = 1 .. Len(sq[q]) /\ Len(sq[q]) \in Nat
  BY LenProperties DEF SendInv, TypeOK
<1>5. \A o \in 0 .. w.from : InRing(w.stripe, q, o)' = BlockByte(w.stripe, q, o)'
  BY PlacedPrefix
<1>6. ASSUME NEW v, v.stripe = w.stripe, v.from = w.from + 1 PROVE PlacedUpTo(v, q)'
  <2> SUFFICES ASSUME NEW o \in 0 .. v.from - 1
               PROVE  InRing(v.stripe, q, o)' = BlockByte(v.stripe, q, o)'
    BY DEF PlacedUpTo
  <2>1. o \in 0 .. w.from
    BY <1>3, <1>6
  <2> QED BY <1>5, <1>6, <2>1
<1>7. ASSUME NEW r \in Block, r # q PROVE InOrder(sq[r], r)'
  <2>1. PICK S \in Seq(WriteRequest) : S = sq[r]
    BY DEF SendInv, TypeOK
  <2>2. S = sq'[r]
    BY <1>1, <1>7, <2>1, LeftOver
  <2>3. InOrder(S, r) /\ \A i \in DOMAIN S : Carries(S[i], r) /\ S[i] \in WriteRequest
    BY <1>1, <2>1 DEF Order, Slices
  <2>4. \A i \in DOMAIN S : PlacedUpTo(S[i], r) => PlacedUpTo(S[i], r)'
    BY <2>3, PlacedStays
  <2>5. InOrder(S, r)'
    BY <2>3, <2>4 DEF InOrder, Before, Follows
  <2> QED BY <2>2, <2>5 DEF InOrder, PlacedUpTo, Before, Follows
<1>8. PICK S \in Seq(WriteRequest) : S = sq[q]
  BY <1>4
<1>9. PICK T : T = sq'[q]
  OBVIOUS
<1>0. PICK n \in Nat : n = Len(S)
  BY <1>4, <1>8
<1>10. /\ DOMAIN S = 1 .. n /\ S[1] = w /\ 1 \in DOMAIN S
       /\ w.len = 1 => DOMAIN T = 1 .. n - 1 /\ \A i \in 1 .. n - 1 : T[i] = S[i + 1]
       /\ w.len # 1 => /\ DOMAIN T = DOMAIN S /\ T[1] = Shorter(w)
                       /\ \A i \in DOMAIN S : i # 1 => T[i] = S[i]
  BY <1>0, <1>1, <1>3, <1>4, <1>8, <1>9, LeftOver
<1>11. /\ \A i, j \in DOMAIN S : i < j => Before(S[i], S[j])
       /\ \A i \in DOMAIN S : S[i].from = 0 \/ (i > 1 /\ Follows(S[i - 1], S[i])) \/ i = 1
  BY <1>1, <1>8 DEF Order, InOrder
<1>12. ASSUME w.len = 1 PROVE InOrder(sq[q], q)'
  <2>0. DOMAIN T = 1 .. n - 1 /\ \A i \in 1 .. n - 1 : T[i] = S[i + 1]
    BY <1>10, <1>12
  <2>1. ASSUME NEW i \in DOMAIN T, NEW j \in DOMAIN T, i < j PROVE Before(T[i], T[j])
    <3>0. i \in 1 .. n - 1 /\ j \in 1 .. n - 1
      BY <2>0
    <3>2. i + 1 \in 1 .. n /\ j + 1 \in 1 .. n /\ i + 1 < j + 1
      BY <2>1, <3>0
    <3>1. i + 1 \in DOMAIN S /\ j + 1 \in DOMAIN S /\ T[i] = S[i + 1] /\ T[j] = S[j + 1] /\ i + 1 < j + 1
      BY <1>10, <2>0, <3>0, <3>2
    <3> QED BY <1>11, <3>1
  <2>2. ASSUME NEW i \in DOMAIN T
        PROVE  T[i].from = 0 \/ (i > 1 /\ Follows(T[i - 1], T[i])) \/ (i = 1 /\ PlacedUpTo(T[i], q)')
    <3>0. i \in 1 .. n - 1
      BY <2>0
    <3>5. i \in Nat /\ i >= 1 /\ i + 1 \in 1 .. n /\ i + 1 # 1 /\ (i + 1) - 1 = i
      BY <3>0
    <3>1. i \in Nat /\ i >= 1 /\ i + 1 \in DOMAIN S /\ T[i] = S[i + 1] /\ i + 1 # 1 /\ (i + 1) - 1 = i
      BY <1>10, <2>0, <3>0, <3>5
    <3>2. S[i + 1].from = 0 \/ Follows(S[i], S[i + 1])
      BY <1>11, <3>1
    <3>3. CASE i = 1 /\ Follows(S[i], S[i + 1])
      <4>1. T[1].stripe = w.stripe /\ T[1].from = w.from + 1
        BY <1>10, <1>12, <3>1, <3>3 DEF Follows
      <4> QED BY <1>6, <3>3, <4>1
    <3>4. CASE i # 1 /\ Follows(S[i], S[i + 1])
      <4>1. i > 1 /\ i - 1 \in 1 .. n - 1 /\ (i - 1) + 1 = i
        BY <3>0, <3>4
      <4>2. T[i - 1] = S[i]
        BY <2>0, <4>1
      <4> QED BY <3>1, <3>4, <4>1, <4>2
    <3> QED BY <3>1, <3>2, <3>3, <3>4
  <2>3. InOrder(T, q)'
    BY <2>1, <2>2 DEF InOrder, Before, Follows
  <2> QED BY <1>9, <2>3 DEF InOrder, PlacedUpTo, Before, Follows
<1>13. ASSUME w.len # 1 PROVE InOrder(sq[q], q)'
  <2>0. DOMAIN T = DOMAIN S /\ T[1] = Shorter(w) /\ \A i \in DOMAIN S : i # 1 => T[i] = S[i]
    BY <1>10, <1>13
  <2>1. /\ T[1].stripe = w.stripe /\ T[1].from = w.from + 1 /\ T[1].len = w.len - 1
        /\ T[1].from + T[1].len = w.from + w.len
    <3>1. T[1].stripe = w.stripe /\ T[1].from = w.from + 1 /\ T[1].len = w.len - 1
      BY <1>3, <2>0, ShorterFields
    <3>2. (w.from + 1) + (w.len - 1) = w.from + w.len
      BY SMTT(30), <1>3
    <3> QED BY <3>1, <3>2
  <2>2. ASSUME NEW i \in DOMAIN T, NEW j \in DOMAIN T, i < j PROVE Before(T[i], T[j])
    <3>0. i \in 1 .. n /\ j \in 1 .. n
      BY <1>10, <2>0
    <3>5. j # 1
      BY <2>2, <3>0
    <3>1. i \in DOMAIN S /\ j \in DOMAIN S /\ j # 1
      BY <1>10, <3>0, <3>5
    <3>2. Before(S[i], S[j]) /\ T[j] = S[j]
      BY <1>11, <2>0, <2>2, <3>1
    <3>3. CASE i = 1
      BY <1>10, <2>1, <3>2, <3>3 DEF Before
    <3>4. CASE i # 1
      BY <2>0, <3>1, <3>2, <3>4
    <3> QED BY <3>3, <3>4
  <2>3. ASSUME NEW i \in DOMAIN T
        PROVE  T[i].from = 0 \/ (i > 1 /\ Follows(T[i - 1], T[i])) \/ (i = 1 /\ PlacedUpTo(T[i], q)')
    <3>1. i \in 1 .. n
      BY <1>10, <2>0
    <3>2. CASE i = 1
      BY <1>6, <2>1, <3>2
    <3>3. CASE i # 1
      <4>1. T[i] = S[i] /\ (S[i].from = 0 \/ Follows(S[i - 1], S[i])) /\ i > 1 /\ i - 1 \in DOMAIN S
        <5>1. i > 1 /\ i - 1 \in 1 .. n
          BY <3>1, <3>3
        <5> QED BY <1>10, <1>11, <2>0, <3>1, <3>3, <5>1
      <4>2. CASE i - 1 = 1
        <5>1. S[i - 1] = w
          BY <1>10, <4>2
        <5>2. Follows(S[i - 1], S[i]) => Follows(T[i - 1], T[i])
          BY <2>1, <4>1, <4>2, <5>1 DEF Follows
        <5> QED BY <4>1, <5>2
      <4>3. CASE i - 1 # 1
        BY <2>0, <4>1, <4>3
      <4> QED BY <4>2, <4>3
    <3> QED BY <3>2, <3>3
  <2>4. InOrder(T, q)'
    BY <2>2, <2>3 DEF InOrder, Before, Follows
  <2> QED BY <1>9, <2>4 DEF InOrder, PlacedUpTo, Before, Follows
<1>14. InOrder(sq[q], q)'
  BY <1>12, <1>13
<1>15. ASSUME NEW r \in Block PROVE InOrder(sq[r], r)'
  <2>1. CASE r = q
    BY <1>14, <2>1
  <2>2. CASE r # q
    BY <1>7, <2>2
  <2> QED BY <2>1, <2>2
<1> QED BY <1>15 DEF Order, Block

(* Before and after the byte, the same stripes are open. *)
LEMMA PlacingOpen ==
  ASSUME NEW q, NEW w, Placing(w, q)
  PROVE  /\ Open' = Open /\ Reading' = Reading /\ Settled' = Settled
         /\ UNCHANGED <<rPc, rBlock, receivedBlocks, survived, receiveSize, readPos, received, undecoded>>
<1>1. UNCHANGED <<rPc, rBlock, receivedBlocks, survived, receiveSize, readPos, received, undecoded>>
  BY DEF Placing, receiverVars
<1> QED BY <1>1 DEF Open, Reading, Settled

LEMMA PlaceNonzero ==
  ASSUME SendInv, RingPart, NEW q \in Block, NEW w, Placing(w, q)
  PROVE  Nonzero'
<1> SUFFICES ASSUME NEW c \in Cells PROVE receiveBuffer'[c] = 0 \/ Taking(c)' \/ Holds(c)'
  BY DEF Nonzero, Cells
<1>1. /\ Open' = Open /\ rPc' = rPc /\ readPos' = readPos /\ sent' = sent
      /\ \A s, b : Posted(s, b)' <=> Posted(s, b)
      /\ \A s, b, o : BlockByte(s, b, o)' = BlockByte(s, b, o)
  BY PlacingOpen, SenderStill DEF Placing
<1>2. ASSUME NEW s \in DOMAIN sent, NEW b \in Block, NEW o \in 0 .. BlockSize, s >= Open, Posted(s, b),
             c = At(sent[s].at, b, o), receiveBuffer'[c] = BlockByte(s, b, o)
      PROVE  Holds(c)'
  <2>1. c = At(sent[s].at, b, o)'
    BY <1>1, <1>2 DEF At, Cell, Unit
  <2>2. s \in DOMAIN sent' /\ s >= Open' /\ Posted(s, b)' /\ receiveBuffer'[c] = BlockByte(s, b, o)'
    BY <1>1, <1>2
  <2> QED BY <2>1, <2>2 DEF Holds, Block
<1>3. CASE c = w.begin
  <2>1. Slices
    BY DEF RingPart
  <2>2. /\ w.stripe \in DOMAIN sent /\ Posted(w.stripe, q) /\ w.stripe >= Open /\ w.from \in 0 .. BlockSize
        /\ w.begin = At(sent[w.stripe].at, q, w.from)
    BY <2>1, HeadCarries DEF Placing
  <2>3. receiveBuffer'[c] = BlockByte(w.stripe, q, w.from)
    BY <1>3, PlacedByte
  <2> QED BY <1>2, <1>3, <2>2, <2>3
<1>4. CASE c # w.begin
  <2>1. receiveBuffer'[c] = receiveBuffer[c]
    BY <1>4, PlacedByte
  <2>2. receiveBuffer[c] = 0 \/ Taking(c) \/ Holds(c)
    BY DEF RingPart, Nonzero
  <2>3. Taking(c) => Taking(c)'
    BY <1>1 DEF Taking, At, Cell, Unit, Block
  <2>4. Holds(c) => Holds(c)'
    BY <1>2, <2>1 DEF Holds
  <2> QED BY <2>1, <2>2, <2>3, <2>4
<1> QED BY <1>3, <1>4

(* When the byte completes a block it is its validity word, and the queue  *)
(* pair's other writes are for later stripes.                              *)
LEMMA PlaceWhole ==
  ASSUME SendInv, RingPart, NEW q \in Block, NEW w, Placing(w, q)
  PROVE  Whole'
<1>1. /\ Open' = Open /\ sent' = sent
      /\ \A s, b : Posted(s, b)' <=> Posted(s, b)
  BY PlacingOpen, SenderStill DEF Placing
<1> SUFFICES ASSUME NEW s \in DOMAIN sent, NEW b \in Block, s >= Open, Posted(s, b),
                    InRing(s, b, BlockSize)' # 0
             PROVE  Complete(s, b)'
  BY <1>1 DEF Whole, Block
<1>2. Slices /\ Order /\ Whole /\ readPos = StripeAt(Reading - 1)
  BY DEF RingPart, Receiving
<1>3. /\ w \in WriteRequest /\ 1 \in DOMAIN sq[q] /\ w = sq[q][1]
      /\ w.from + w.len <= Unit /\ w.len \in Nat /\ w.len >= 1 /\ w.from \in 0 .. BlockSize
      /\ w.stripe \in DOMAIN sent /\ Posted(w.stripe, q) /\ w.stripe >= Open
      /\ w.begin = At(sent[w.stripe].at, q, w.from)
  BY <1>2, HeadCarries DEF Placing
<1>4. BlockSize \in Nat /\ BlockSize \in 0 .. BlockSize /\ Unit = BlockSize + 1
  BY Sizes
<1>5. CASE InRing(s, b, BlockSize) # 0
  <2>1. Complete(s, b)
    BY <1>2, <1>5 DEF Whole
  <2>2. \A o \in 0 .. BlockSize : InRing(s, b, o)' = BlockByte(s, b, o)'
    BY <2>1, PlacedByte DEF Complete
  <2>3. ASSUME NEW i \in DOMAIN sq'[b] PROVE \E j \in DOMAIN sq[b] : sq'[b][i].stripe = sq[b][j].stripe
    <3>1. CASE b # q
      BY <1>2, <3>1, LeftOver
    <3>2. CASE b = q /\ w.len = 1
      <4>1. i \in 1 .. Len(sq[q]) - 1 /\ sq'[q][i] = sq[q][i + 1]
        BY <1>2, <2>3, <3>2, LeftOver
      <4>2. sq[q] \in Seq(WriteRequest)
        BY DEF SendInv, TypeOK
      <4>3. i + 1 \in DOMAIN sq[q]
        BY <4>1, <4>2
      <4> QED BY <3>2, <4>1, <4>3
    <3>3. CASE b = q /\ w.len # 1
      <4>1. i \in DOMAIN sq[q] /\ sq'[q][1] = Shorter(w) /\ (i # 1 => sq'[q][i] = sq[q][i])
        BY <1>2, <2>3, <3>3, LeftOver
      <4>2. Shorter(w).stripe = w.stripe
        BY <1>3, ShorterFields
      <4> QED BY <1>3, <3>3, <4>1, <4>2
    <3> QED BY <3>1, <3>2, <3>3
  <2>4. \A i \in DOMAIN sq'[b] : sq'[b][i].stripe # s
    BY <2>1, <2>3 DEF Complete
  <2> QED BY <2>2, <2>4 DEF Complete
<1>6. CASE InRing(s, b, BlockSize) = 0
  <2>1. At(sent[s].at, b, BlockSize) = w.begin
    <3>1. At(sent[s].at, b, BlockSize) \in Cells
      BY <1>2, <1>4, Window
    <3>2. InRing(s, b, BlockSize)' = receiveBuffer'[At(sent[s].at, b, BlockSize)]
      BY <1>1 DEF InRing, At, Cell, Unit
    <3> QED BY <1>6, <3>1, <3>2, PlacedByte DEF InRing
  <2>2. s = w.stripe /\ b = q /\ BlockSize = w.from
    BY <1>2, <1>3, <1>4, <2>1, SameSpot
  <2>3. w.len = 1
    BY <1>3, <1>4, <2>2
  <2>4. \A o \in 0 .. BlockSize : InRing(s, b, o)' = BlockByte(s, b, o)'
    <3> SUFFICES ASSUME NEW o \in 0 .. BlockSize PROVE InRing(s, b, o)' = BlockByte(s, b, o)'
      OBVIOUS
    <3>1. InRing(w.stripe, q, o)' = BlockByte(w.stripe, q, o)'
      BY <2>2, PlacedPrefix
    <3> QED BY <2>2, <3>1 DEF InRing, BlockByte
  <2>5. ASSUME NEW i \in DOMAIN sq'[b] PROVE sq'[b][i].stripe # s
    <3>1. i \in 1 .. Len(sq[q]) - 1 /\ sq'[q][i] = sq[q][i + 1]
      BY <1>2, <2>2, <2>3, <2>5, LeftOver
    <3>2. sq[q] \in Seq(WriteRequest)
      BY DEF SendInv, TypeOK
    <3>3. i + 1 \in DOMAIN sq[q] /\ 1 < i + 1
      BY <3>1, <3>2
    <3>4. PICK v \in WriteRequest : v = sq[q][i + 1]
      BY <3>2, <3>3
    <3>5. Before(w, v)
      BY <1>2, <1>3, <3>3, <3>4 DEF Order, InOrder
    <3>6. v.from \in 0 .. BlockSize
      BY DEF WriteRequest
    <3>7. w.stripe < v.stripe
      BY <1>4, <2>2, <2>3, <3>5, <3>6 DEF Before
    <3>8. w.stripe \in Nat /\ v.stripe \in Nat
      BY <1>3 DEF WriteRequest
    <3> QED BY <2>2, <3>1, <3>4, <3>7, <3>8
  <2> QED BY <2>4, <2>5 DEF Complete
<1> QED BY <1>5, <1>6

LEMMA PlaceReceiving ==
  ASSUME SendInv, RingPart, NEW q \in Block, NEW w, Placing(w, q)
  PROVE  Receiving'
<1>1. /\ Open' = Open /\ Reading' = Reading /\ Settled' = Settled
      /\ UNCHANGED <<rPc, rBlock, receivedBlocks, survived, receiveSize, readPos, received, undecoded>>
  BY PlacingOpen
<1>2. /\ sent' = sent /\ unencoded' = unencoded
      /\ \A s : Due(s)' = Due(s)
      /\ \A s, b : Posted(s, b)' <=> Posted(s, b)
      /\ \A s, b, o : BlockByte(s, b, o)' = BlockByte(s, b, o)
      /\ \A s : Done(s)' <=> Done(s)
  BY SenderStill DEF Placing
<1>3. Slices /\ Receiving /\ readPos = StripeAt(Reading - 1)
  BY DEF RingPart, Receiving
<1>4. /\ w.from \in 0 .. BlockSize /\ w.stripe \in DOMAIN sent /\ Posted(w.stripe, q) /\ w.stripe >= Open
      /\ w.begin = At(sent[w.stripe].at, q, w.from)
  BY <1>3, HeadCarries DEF Placing
<1>5. ASSUME NEW c \in Block, NEW u \in 0 .. BlockSize
      PROVE  \/ receiveBuffer'[At(readPos, c, u)] = receiveBuffer[At(readPos, c, u)]
             \/ ~Settled /\ receiveBuffer'[At(readPos, c, u)] = BlockByte(w.stripe, q, w.from) /\ u = w.from
  <2>1. At(readPos, c, u) \in Cells
    BY <1>3, ReaderPlace
  <2>2. CASE At(readPos, c, u) = w.begin
    <3>1. ~Settled /\ u = w.from
      BY <1>3, <1>4, <2>2, ReaderSpot
    <3> QED BY <2>2, <3>1, PlacedByte
  <2>3. CASE At(readPos, c, u) # w.begin
    BY <2>1, <2>3, PlacedByte
  <2> QED BY <2>2, <2>3
<1>6. readPos' = StripeAt(Reading - 1)' /\ undecoded' \subseteq 1 .. Open' - 1 /\ (\A s \in 1 .. Open' - 1 : Done(s)')
  BY <1>1, <1>2, <1>3 DEF Receiving, StripeAt, Stripe, Unit
<1>7. Miscalculated' = Miscalculated
  BY <1>1, <1>2 DEF Miscalculated
<1>8. Returned'
  BY <1>1, <1>2, <1>3, <1>7 DEF Receiving, Returned
<1>9. \A c, u : At(readPos, c, u)' = At(readPos, c, u)
  BY <1>1 DEF At, Cell, Unit
<1>10. rPc' = "poll" => Found'
  <2> SUFFICES ASSUME rPc = "poll" PROVE Found'
    BY <1>1
  <2>1. Found
    BY <1>3 DEF Receiving
  <2>2. receivedBlocks \subseteq Block /\ BlockSize \in 0 .. BlockSize
    BY SMTT(30), Sizes DEF SendInv, TypeOK
  <2>3. ASSUME NEW b \in receivedBlocks
        PROVE  receiveBuffer'[At(readPos, b, BlockSize)] = Validity
    <3>1. receiveBuffer[At(readPos, b, BlockSize)] = Validity
      BY <2>1 DEF Found
    <3>2. BlockByte(w.stripe, q, BlockSize) = Validity
      BY DEF BlockByte
    <3> QED BY <1>5, <2>2, <3>1, <3>2
  <2>4. PICK r : r = Reading
    OBVIOUS
  <2>5. \A b \in receivedBlocks : r \in DOMAIN sent /\ Posted(r, b)'
    BY <1>2, <2>1, <2>4 DEF Found
  <2>6. Reading' = r
    BY <1>1, <2>4
  <2> QED BY <1>1, <1>2, <1>9, <2>1, <2>3, <2>5, <2>6 DEF Found
<1>11. ASSUME Settled, NEW c \in Block, NEW u \in 0 .. BlockSize
       PROVE  receiveBuffer'[At(readPos, c, u)] = receiveBuffer[At(readPos, c, u)]
  BY <1>5, <1>11
<1>12. PICK r : r = Reading
  OBVIOUS
<1>13. Reading' = r
  BY <1>1, <1>12
<1>14. rPc' = "decode" => Enough'
  <2> SUFFICES ASSUME rPc = "decode" PROVE Enough'
    BY <1>1
  <2>1. Enough /\ Settled /\ receivedBlocks \subseteq Block /\ BlockSize \in 0 .. BlockSize
    BY <1>3, Sizes DEF Receiving, Settled, SendInv, TypeOK
  <2>2. survived' = receivedBlocks' /\ receivedBlocks' = Due(Reading)'
    <3>1. survived = receivedBlocks /\ receivedBlocks = Due(r)
      BY <1>12, <2>1 DEF Enough
    <3>2. Due(r)' = Due(r)
      BY <1>2
    <3>3. Due(Reading)' = Due(r)'
      BY <1>13 DEF Due, Coding
    <3> QED BY <1>1, <3>1, <3>2, <3>3
  <2>3. ASSUME NEW b \in receivedBlocks, NEW o \in 0 .. BlockSize
        PROVE  receiveBuffer'[At(readPos, b, o)] = BlockByte(r, b, o)'
    <3>1. receiveBuffer[At(readPos, b, o)] = BlockByte(r, b, o)
      BY <1>12, <2>1 DEF Enough
    <3>2. BlockByte(r, b, o)' = BlockByte(r, b, o)
      BY <1>2
    <3> QED BY <1>11, <2>1, <3>1, <3>2
  <2>4. \A b \in receivedBlocks', o \in 0 .. BlockSize :
            receiveBuffer'[At(readPos, b, o)'] = BlockByte(Reading, b, o)'
    BY <1>1, <1>9, <1>13, <2>3 DEF BlockByte
  <2>5. \A b \in Block : receiveBuffer'[At(readPos, b, BlockSize)'] # 0 => b \in receivedBlocks'
    BY <1>1, <1>9, <1>11, <2>1 DEF Enough
  <2> QED BY <2>2, <2>4, <2>5 DEF Enough, Block
<1>15. rPc' \in {"size", "copy"} => Restored'
  <2> SUFFICES ASSUME rPc \in {"size", "copy"}, r \notin Miscalculated,
                      NEW b \in Data, NEW o \in 0 .. BlockSize - 1
               PROVE  receiveBuffer'[At(readPos, b, o)] = BlockByte(r, b, o)'
    <3>1. \A b \in Data, o \in 0 .. BlockSize - 1 : At(readPos, b, o)' = At(readPos, b, o)
      BY <1>9
    <3> QED BY ZenonT(30), <1>1, <1>7, <1>13, <3>1 DEF Restored, Data, BlockByte
  <2>1. Settled /\ b \in Block /\ o \in 0 .. BlockSize
    BY Sizes DEF Settled, Data, Block
  <2>2. receiveBuffer[At(readPos, b, o)] = BlockByte(r, b, o)
    BY <1>3, <1>12 DEF Receiving, Restored
  <2> QED BY <1>2, <1>11, <2>1, <2>2
<1>16. rPc' = "copy" /\ Reading' \notin Miscalculated' => receiveSize' = Len(sent'[Reading'].data)
  BY <1>1, <1>2, <1>3, <1>7 DEF Receiving
<1> QED BY <1>6, <1>8, <1>10, <1>14, <1>15, <1>16 DEF Receiving

LEMMA PlaceRing ==
  ASSUME SendInv, RingPart, NEW q \in Block, PlaceByte(q)
  PROVE  RingPart'
<1>1. PICK w : w = Head(sq[q])
  OBVIOUS
<1>2. Placing(w, q)
  BY <1>1 DEF PlaceByte, Placing
<1> QED BY <1>2, PlaceSlices, PlaceOrder, PlaceNonzero, PlaceWhole, PlaceReceiving DEF RingPart

-----------------------------------------------------------------------------
(* The steps of receive() *)

(* With no spare blocks a stripe is taken only when all of it is there. *)
LEMMA DueSize ==
  ASSUME NoSpare, NEW s \in Nat, s > 0
  PROVE  IsFiniteSet(Due(s)) /\ Cardinality(Due(s)) <= K
<1>1. K \in Nat /\ K > 0 /\ M \in Nat
  BY Sizes
<1>2. CASE ~Coding(s)
  <2>1. Due(s) = 0 .. K - 1
    BY <1>2 DEF Due, Data
  <2>2. IsFiniteSet(0 .. K - 1) /\ Cardinality(0 .. K - 1) = IF 0 > K - 1 THEN 0 ELSE (K - 1) - 0 + 1
    BY <1>1, FS_Interval
  <2>3. (IF 0 > K - 1 THEN 0 ELSE (K - 1) - 0 + 1) = K
    BY <1>1
  <2> QED BY <1>1, <2>1, <2>2, <2>3
<1>3. CASE Coding(s)
  <2>1. M <= 1
    <3> SUFFICES ASSUME Coded = 0 PROVE FALSE
      BY DEF NoSpare
    <3>1. Period \in Nat /\ Period > 0
      BY BoundAssumption
    <3>2. PICK j \in Int : j = s - 1
      OBVIOUS
    <3>3. j % Period \in 0 .. Period - 1
      BY <3>1
    <3>4. ~(j % Period < 0)
      BY <3>3
    <3> QED BY <1>3, <3>2, <3>4 DEF Coding
  <2>2. Due(s) = Block \ {0}
    BY <1>3 DEF Due
  <2>3. 0 \in Block
    BY <1>1 DEF Block
  <2>4. IsFiniteSet(Block) /\ Cardinality(Block) = IF 0 > K + M - 1 THEN 0 ELSE (K + M - 1) - 0 + 1
    BY <1>1, FS_Interval DEF Block
  <2>5. (IF 0 > K + M - 1 THEN 0 ELSE (K + M - 1) - 0 + 1) = K + M
    BY <1>1
  <2>6. IsFiniteSet(Block \ {0}) /\ Cardinality(Block \ {0}) = (K + M) - 1
    BY <2>3, <2>4, <2>5, FS_RemoveElement
  <2>7. (K + M) - 1 <= K
    BY <1>1, <2>1
  <2> QED BY <2>2, <2>6, <2>7
<1> QED BY <1>2, <1>3

(* The blocks posted that receive() has not passed stay as they are. *)
OpenKept ==
    \A s \in DOMAIN sent, b \in Block, o \in 0 .. BlockSize :
        s >= Open /\ Posted(s, b) => InRing(s, b, o)' = InRing(s, b, o)

LEMMA ReceiverQueues ==
  ASSUME SendInv, RingPart, UNCHANGED senderVars, UNCHANGED sq, OpenKept,
         \A q \in Block : \A i \in DOMAIN sq[q] : sq[q][i].stripe >= Open',
         \A s \in Nat : s >= Open' => s >= Open
  PROVE  Slices' /\ Order' /\ Whole'
<1>1. /\ Slices /\ Order /\ Whole /\ sent' = sent /\ sendBuffer' = sendBuffer
      /\ \A s, b : Posted(s, b)' <=> Posted(s, b)
      /\ \A s, b, o : BlockByte(s, b, o)' = BlockByte(s, b, o)
  BY SenderStill DEF RingPart
<1>2. SentGrows /\ PostedStays
  BY StillGrows
<1>3. ASSUME NEW q \in Block, NEW i \in DOMAIN sq[q] PROVE Carries(sq[q][i], q)'
  <2>1. PICK w \in WriteRequest : w = sq[q][i]
    BY DEF SendInv, TypeOK
  <2>2. Carries(w, q) /\ w.from + w.len <= Unit /\ w.stripe >= Open'
    BY <1>1, <2>1 DEF Slices, SendInv, TypeOK
  <2>3. Carries(w, q)'
    BY <1>1, <1>2, <2>2, CarriesKept
  <2>4. w = sq'[q][i]
    BY <2>1
  <2> QED BY <2>3, <2>4 DEF Carries
<1>4. Slices'
  BY <1>3 DEF Slices, Block
<1>5. ASSUME NEW q \in Block PROVE InOrder(sq[q], q)'
  <2>1. PICK S \in Seq(WriteRequest) : S = sq[q]
    BY DEF SendInv, TypeOK
  <2>2. InOrder(S, q) /\ \A i \in DOMAIN S : Carries(S[i], q) /\ S[i] \in WriteRequest
    BY <1>1, <2>1 DEF Order, Slices
  <2>3. ASSUME NEW i \in DOMAIN S, PlacedUpTo(S[i], q) PROVE PlacedUpTo(S[i], q)'
    <3>1. PICK w \in WriteRequest : w = S[i]
      BY <2>2
    <3>2. PICK s : s = w.stripe
      OBVIOUS
    <3>3. s \in DOMAIN sent /\ s >= Open /\ Posted(s, q)
      BY <2>2, <3>1, <3>2 DEF Carries
    <3>4. ASSUME NEW o \in 0 .. w.from - 1 PROVE InRing(s, q, o)' = BlockByte(s, q, o)'
      <4>1. o \in 0 .. BlockSize
        BY Sizes DEF WriteRequest
      <4>2. InRing(s, q, o)' = InRing(s, q, o)
        BY <3>3, <4>1 DEF OpenKept
      <4>3. InRing(s, q, o) = BlockByte(s, q, o)
        BY <2>3, <3>1, <3>2 DEF PlacedUpTo
      <4> QED BY <1>1, <4>2, <4>3
    <3>5. PlacedUpTo(w, q)'
      BY <3>2, <3>4 DEF PlacedUpTo, InRing, BlockByte
    <3> QED BY <3>1, <3>5 DEF PlacedUpTo
  <2>4. InOrder(S, q)'
    BY <2>2, <2>3 DEF InOrder, Before, Follows
  <2>5. S = sq'[q]
    BY <2>1
  <2> QED BY <2>4, <2>5 DEF InOrder, PlacedUpTo, Before, Follows
<1>6. Order'
  BY <1>5 DEF Order, Block
<1>7. Whole'
  <2> SUFFICES ASSUME NEW s \in DOMAIN sent, NEW b \in Block, s >= Open', Posted(s, b),
                      InRing(s, b, BlockSize)' # 0
               PROVE  Complete(s, b)'
    BY <1>1 DEF Whole, Block
  <2>1. BlockSize \in 0 .. BlockSize /\ s \in Nat
    BY Sizes, LenProperties DEF SendInv, TypeOK
  <2>2. s >= Open /\ InRing(s, b, BlockSize) # 0
    BY <2>1 DEF OpenKept
  <2>3. Complete(s, b)
    BY <1>1, <2>2 DEF Whole
  <2>4. \A o \in 0 .. BlockSize : InRing(s, b, o)' = BlockByte(s, b, o)'
    BY <1>1, <2>2, <2>3 DEF OpenKept, Complete
  <2>5. \A i \in DOMAIN sq'[b] : sq'[b][i].stripe # s
    BY <2>3 DEF Complete
  <2> QED BY <2>4, <2>5 DEF Complete
<1> QED BY <1>4, <1>6, <1>7

(* As long as receive() stays with its stripe and leaves the ring alone,   *)
(* only what is known of the blocks it found changes.                      *)
LEMMA BufferSame ==
  ASSUME SendInv, UNCHANGED senderVars, receiveBuffer' = receiveBuffer
  PROVE  OpenKept
<1>1. sent' = sent
  BY SenderStill
<1> QED BY <1>1 DEF OpenKept, InRing, At, Cell, Unit

LEMMA OpenSlices ==
  ASSUME SendInv, RingPart, Open' = Open
  PROVE  /\ \A q \in Block : \A i \in DOMAIN sq[q] : sq[q][i].stripe >= Open'
         /\ \A s \in Nat : s >= Open' => s >= Open
  BY DEF RingPart, Slices, Carries

LEMMA NonzeroSame ==
  ASSUME Nonzero, UNCHANGED senderVars, UNCHANGED <<receiveBuffer, readPos>>, Open' = Open,
         \/ rPc' = rPc
         \/ rPc \in {"idle", "poll", "advance"}
         \/ rPc' \in {"decode", "size", "copy", "zero", "failed"}
  PROVE  Nonzero'
<1> SUFFICES ASSUME NEW c \in Cells PROVE receiveBuffer'[c] = 0 \/ Taking(c)' \/ Holds(c)'
  BY DEF Nonzero, Cells
<1>1. /\ sent' = sent /\ \A s, b : Posted(s, b)' <=> Posted(s, b)
      /\ \A s, b, o : BlockByte(s, b, o)' = BlockByte(s, b, o)
  BY SenderStill
<1>2. receiveBuffer[c] = 0 \/ Taking(c) \/ Holds(c)
  BY DEF Nonzero
<1>3. Taking(c) => Taking(c)'
  BY DEF Taking, At, Cell, Unit, Block
<1>4. ASSUME Holds(c) PROVE Holds(c)'
  <2>1. PICK s \in DOMAIN sent, b \in Block, o \in 0 .. BlockSize :
            /\ s >= Open /\ Posted(s, b)
            /\ c = At(sent[s].at, b, o) /\ receiveBuffer[c] = BlockByte(s, b, o)
    BY <1>4 DEF Holds
  <2>2. s \in DOMAIN sent' /\ s >= Open' /\ Posted(s, b)' /\ receiveBuffer'[c] = BlockByte(s, b, o)'
    BY <1>1, <2>1
  <2>3. c = At(sent[s].at, b, o)'
    BY <1>1, <2>1 DEF At, Cell, Unit
  <2> QED BY <2>2, <2>3 DEF Holds, Block
<1> QED BY <1>2, <1>3, <1>4

(* What Receiving says of the messages, whatever receive() is at *)
Taken ==
    /\ readPos = StripeAt(Reading - 1)
    /\ \A s \in 1 .. Open - 1 : Done(s)
    /\ undecoded \subseteq 1 .. Open - 1
    /\ Returned

LEMMA TakenKept ==
  ASSUME Taken, UNCHANGED senderVars, UNCHANGED <<readPos, undecoded, received>>,
         Reading' = Reading, Open' = Open
  PROVE  Taken'
<1>1. sent' = sent /\ unencoded' = unencoded /\ \A s : Done(s)' <=> Done(s)
  BY SenderStill
<1>2. Miscalculated' = Miscalculated
  BY <1>1 DEF Miscalculated
<1>3. readPos' = StripeAt(Reading - 1)'
  BY DEF Taken, StripeAt, Stripe, Unit
<1>4. \A s \in 1 .. Open' - 1 : Done(s)'
  BY <1>1 DEF Taken
<1>5. Returned'
  BY <1>1, <1>2 DEF Taken, Returned
<1> QED BY <1>3, <1>4, <1>5 DEF Taken

(* A byte of its stripe that receive() looks at and that is not zero was   *)
(* placed for it.                                                          *)
LEMMA FoundByte ==
  ASSUME SendInv, RingPart, rPc = "poll", NEW b \in Block, NEW o \in 0 .. BlockSize,
         receiveBuffer[At(readPos, b, o)] # 0
  PROVE  Reading \in DOMAIN sent /\ Posted(Reading, b)
<1>1. Nonzero /\ readPos = StripeAt(Reading - 1)
  BY DEF RingPart, Receiving
<1>2. PICK c \in Cells : c = At(readPos, b, o)
  BY <1>1, ReaderPlace
<1>3. Holds(c)
  <2>1. ~Taking(c)
    BY DEF Taking
  <2> QED BY <1>1, <1>2, <2>1 DEF Nonzero
<1>4. PICK s \in DOMAIN sent, d \in Block, u \in 0 .. BlockSize :
          s >= Open /\ Posted(s, d) /\ c = At(sent[s].at, d, u)
  BY <1>3 DEF Holds
<1>5. s = Reading /\ d = b
  BY <1>1, <1>2, <1>4, ReaderSpot
<1> QED BY <1>4, <1>5

LEMMA StartReceiveRing ==
  ASSUME SendInv, RingPart, StartReceive
  PROVE  RingPart'
<1>1. /\ UNCHANGED senderVars /\ UNCHANGED sq /\ rPc = "idle" /\ rPc' = "poll" /\ receivedBlocks' = {}
      /\ survived' = {} /\ UNCHANGED <<readPos, received, undecoded, receiveBuffer>>
  BY DEF StartReceive, nicVars
<1>2. Reading' = Reading /\ Open' = Open
  BY <1>1 DEF Reading, Open, Settled
<1>3. Taken /\ Nonzero
  BY DEF RingPart, Receiving, Taken
<1>4. Slices' /\ Order' /\ Whole'
  BY <1>1, <1>2, BufferSame, OpenSlices, ReceiverQueues
<1>5. Nonzero'
  BY <1>1, <1>2, <1>3, NonzeroSame
<1>6. Taken'
  BY <1>1, <1>2, <1>3, TakenKept
<1>7. Receiving'
  BY <1>1, <1>6 DEF Receiving, Taken, Found
<1> QED BY <1>4, <1>5, <1>7 DEF RingPart

LEMMA PollBlockRing ==
  ASSUME NoSpare, SendInv, RingPart, PollBlock
  PROVE  RingPart'
<1>1. /\ UNCHANGED senderVars /\ UNCHANGED sq /\ rPc = "poll" /\ rPc' = "poll"
      /\ UNCHANGED <<readPos, received, undecoded, receiveBuffer>>
      /\ \/ receivedBlocks' = receivedBlocks /\ survived' = survived
         \/ /\ receiveBuffer[At(readPos, rBlock, BlockSize)] = Validity /\ rBlock \notin receivedBlocks
            /\ receivedBlocks' = receivedBlocks \union {rBlock}
            /\ survived' = IF Cardinality(receivedBlocks) < K THEN survived \union {rBlock} ELSE survived
  BY DEF PollBlock, nicVars
<1>2. Reading' = Reading /\ Open' = Open
  BY <1>1 DEF Reading, Open, Settled
<1>3. Taken /\ Nonzero /\ Found
  BY <1>1 DEF RingPart, Receiving, Taken
<1>4. Slices' /\ Order' /\ Whole'
  BY <1>1, <1>2, BufferSame, OpenSlices, ReceiverQueues
<1>5. Nonzero'
  BY <1>1, <1>2, <1>3, NonzeroSame
<1>6. Taken'
  BY <1>1, <1>2, <1>3, TakenKept
<1>7. PICK r : r = Reading
  OBVIOUS
<1>8. survived' = receivedBlocks' /\ \A b \in receivedBlocks' :
          r \in DOMAIN sent /\ Posted(r, b) /\ receiveBuffer[At(readPos, b, BlockSize)] = Validity
  <2>1. CASE receivedBlocks' = receivedBlocks /\ survived' = survived
    BY <1>3, <1>7, <2>1 DEF Found
  <2>2. CASE /\ receiveBuffer[At(readPos, rBlock, BlockSize)] = Validity /\ rBlock \notin receivedBlocks
             /\ receivedBlocks' = receivedBlocks \union {rBlock}
             /\ survived' = IF Cardinality(receivedBlocks) < K THEN survived \union {rBlock} ELSE survived
    <3>1. PICK b \in Block : b = rBlock
      <4>1. rBlock \in 0 .. K + M /\ rBlock < K + M
        BY DEF SendInv, TypeOK, PollBlock
      <4> QED BY <4>1, Sizes DEF Block
    <3>2. r \in DOMAIN sent /\ Posted(r, b)
      <4>1. Validity # 0 /\ BlockSize \in 0 .. BlockSize
        BY ByteAssumption, Sizes
      <4> QED BY <1>1, <1>7, <2>2, <3>1, <4>1, FoundByte
    <3>3. IsFiniteSet(Due(r)) /\ Cardinality(Due(r)) <= K
      <4>1. r \in Nat /\ r > 0
        BY <1>3, <1>7, RingAhead DEF Taken
      <4> QED BY <4>1, DueSize
    <3>4. receivedBlocks \subseteq Due(r) \ {b} /\ b \in Due(r)
      BY <1>3, <1>7, <2>2, <3>1, <3>2 DEF Found, Posted
    <3>5. IsFiniteSet(Due(r) \ {b}) /\ Cardinality(Due(r) \ {b}) = Cardinality(Due(r)) - 1
      BY <3>3, <3>4, FS_RemoveElement
    <3>6. Cardinality(receivedBlocks) <= Cardinality(Due(r) \ {b})
      BY <3>4, <3>5, FS_Subset
    <3>7. Cardinality(receivedBlocks) < K
      <4>1. Cardinality(receivedBlocks) \in Nat /\ Cardinality(Due(r)) \in Nat /\ K \in Nat
        BY <3>3, BlocksFinite, FS_CardinalityType, Sizes DEF SendInv, TypeOK
      <4> QED BY <3>3, <3>5, <3>6, <4>1
    <3>8. survived' = receivedBlocks'
      BY <1>3, <2>2, <3>7 DEF Found
    <3> QED BY <1>3, <1>7, <2>2, <3>1, <3>2, <3>8 DEF Found
  <2> QED BY <1>1, <2>1, <2>2
<1>9. Found'
  <2>1. /\ sent' = sent /\ Reading' = r /\ \A s, b : Posted(s, b)' <=> Posted(s, b)
    BY <1>1, <1>2, <1>7, SenderStill
  <2>2. \A b \in receivedBlocks' : At(readPos, b, BlockSize)' = At(readPos, b, BlockSize)
    BY <1>1 DEF At, Cell, Unit
  <2>3. \A b \in receivedBlocks' : Reading' \in DOMAIN sent' /\ Posted(r, b)'
    BY <1>8, <2>1
  <2> QED BY <1>1, <1>8, <2>1, <2>2, <2>3 DEF Found
<1>10. Receiving'
  BY <1>1, <1>6, <1>9 DEF Receiving, Taken
<1> QED BY <1>4, <1>5, <1>10 DEF RingPart

LEMMA PollAgainRing ==
  ASSUME SendInv, RingPart, PollAgain
  PROVE  RingPart'
<1>1. /\ UNCHANGED senderVars /\ UNCHANGED sq /\ rPc = "poll" /\ rPc' = "poll"
      /\ UNCHANGED <<readPos, received, undecoded, receiveBuffer, receivedBlocks, survived>>
  BY DEF PollAgain, nicVars
<1>2. Reading' = Reading /\ Open' = Open
  BY <1>1 DEF Reading, Open, Settled
<1>3. Taken /\ Nonzero /\ Found
  BY <1>1 DEF RingPart, Receiving, Taken
<1>4. Slices' /\ Order' /\ Whole'
  BY <1>1, <1>2, BufferSame, OpenSlices, ReceiverQueues
<1>5. Nonzero' /\ Taken'
  BY <1>1, <1>2, <1>3, NonzeroSame, TakenKept
<1>6. Found'
  <2>1. PICK r : r = Reading
    OBVIOUS
  <2>2. /\ sent' = sent /\ Reading' = r /\ \A s, b : Posted(s, b)' <=> Posted(s, b)
    BY <1>1, <1>2, <2>1, SenderStill
  <2>3. \A b \in receivedBlocks : At(readPos, b, BlockSize)' = At(readPos, b, BlockSize)
    BY <1>1 DEF At, Cell, Unit
  <2>4. \A b \in receivedBlocks : r \in DOMAIN sent /\ Posted(r, b)'
    BY <1>3, <2>1, <2>2 DEF Found
  <2> QED BY <1>1, <1>3, <2>2, <2>3, <2>4 DEF Found
<1>7. Receiving'
  BY <1>1, <1>5, <1>6 DEF Receiving, Taken
<1> QED BY <1>4, <1>5, <1>7 DEF RingPart

(* receive() has found K blocks, so all that is due: the stripe is there.  *)
LEMMA StripeThere ==
  ASSUME NoSpare, SendInv, RingPart, rPc = "poll", Cardinality(receivedBlocks) >= K
  PROVE  /\ Reading \in DOMAIN sent /\ sent[Reading].at = readPos /\ Done(Reading)
         /\ receivedBlocks = Due(Reading) /\ survived = receivedBlocks
         /\ \A b \in receivedBlocks : Posted(Reading, b) /\ Complete(Reading, b)
<1>1. Found /\ Whole /\ readPos = StripeAt(Reading - 1)
  BY DEF RingPart, Receiving
<1>2. /\ receivedBlocks \subseteq Block /\ IsFiniteSet(receivedBlocks) /\ Cardinality(receivedBlocks) \in Nat
      /\ K \in Nat /\ K > 0 /\ Validity # 0 /\ BlockSize \in 0 .. BlockSize
  BY BlocksFinite, Sizes, ByteAssumption DEF SendInv, TypeOK
<1>3. receivedBlocks # {}
  <2>1. Cardinality({}) = 0
    BY FS_EmptySet
  <2> QED BY <1>2, <2>1
<1>4. Reading \in DOMAIN sent /\ receivedBlocks \subseteq Due(Reading)
  BY <1>1, <1>3 DEF Found, Posted
<1>5. Reading \in Nat /\ Reading > 0 /\ Open = Reading
  BY <1>1, RingAhead DEF Open, Settled
<1>6. receivedBlocks = Due(Reading) /\ Cardinality(Due(Reading)) = K
  <2>1. IsFiniteSet(Due(Reading)) /\ Cardinality(Due(Reading)) <= K
    BY <1>5, DueSize
  <2>2. Cardinality(receivedBlocks) <= Cardinality(Due(Reading)) /\ Cardinality(Due(Reading)) \in Nat
    BY <1>4, <2>1, FS_Subset, FS_CardinalityType
  <2>3. Cardinality(Due(Reading)) = K /\ Cardinality(receivedBlocks) = K
    BY <1>2, <2>1, <2>2
  <2>4. receivedBlocks = Due(Reading)
    BY <1>4, <2>1, <2>3, FS_Subset
  <2> QED BY <2>3, <2>4
<1>7. sent[Reading].at = readPos
  BY <1>1, <1>4 DEF SendInv, Stripes
<1>8. ASSUME NEW b \in receivedBlocks PROVE Posted(Reading, b) /\ Complete(Reading, b)
  <2>1. Posted(Reading, b) /\ receiveBuffer[At(readPos, b, BlockSize)] = Validity
    BY <1>1 DEF Found
  <2>2. InRing(Reading, b, BlockSize) # 0
    BY <1>2, <1>7, <2>1 DEF InRing
  <2>3. Reading >= Open
    BY <1>5
  <2> QED BY <1>1, <1>2, <1>4, <2>1, <2>2, <2>3 DEF Whole
<1>9. Done(Reading)
  BY <1>4, <1>6, <1>8 DEF Done
<1> QED BY <1>1, <1>4, <1>6, <1>7, <1>8, <1>9 DEF Found

LEMMA EnoughBlocksRing ==
  ASSUME NoSpare, SendInv, RingPart, EnoughBlocks
  PROVE  RingPart'
<1>1. /\ UNCHANGED senderVars /\ UNCHANGED sq /\ rPc = "poll" /\ Cardinality(receivedBlocks) >= K
      /\ rPc' = IF Data \subseteq receivedBlocks THEN "size" ELSE "decode"
      /\ UNCHANGED <<readPos, received, undecoded, receiveBuffer, receivedBlocks, survived>>
  BY DEF EnoughBlocks, nicVars
<1>2. PICK r : r = Reading
  OBVIOUS
<1>3. /\ r \in DOMAIN sent /\ sent[r].at = readPos /\ Done(r)
      /\ receivedBlocks = Due(r) /\ survived = receivedBlocks
      /\ \A b \in receivedBlocks : Posted(r, b) /\ Complete(r, b)
  BY <1>1, <1>2, StripeThere
<1>4. /\ Slices /\ Nonzero /\ readPos = StripeAt(r - 1) /\ (\A s \in 1 .. Open - 1 : Done(s))
      /\ undecoded \subseteq 1 .. Open - 1 /\ Returned
  BY <1>2 DEF RingPart, Receiving
<1>5. r \in Nat /\ r > 0 /\ Open = r /\ Reading' = r /\ Open' = r + 1
  <2>1. r \in Nat /\ r > 0
    BY <1>2, <1>4, RingAhead
  <2>2. Open = r /\ Reading' = r /\ Open' = r + 1
    BY <1>1, <1>2 DEF Open, Settled, Reading
  <2> QED BY <2>1, <2>2
<1>6. /\ sent' = sent /\ unencoded' = unencoded /\ \A s : Done(s)' <=> Done(s)
      /\ \A s : Due(s)' = Due(s)
      /\ \A s, b : Posted(s, b)' <=> Posted(s, b)
      /\ \A s, b, o : BlockByte(s, b, o)' = BlockByte(s, b, o)
  BY <1>1, SenderStill
<1>7. \A q \in Block : \A i \in DOMAIN sq[q] : sq[q][i].stripe >= Open'
  <2> SUFFICES ASSUME NEW q \in Block, NEW i \in DOMAIN sq[q] PROVE sq[q][i].stripe >= r + 1
    BY <1>5
  <2>1. PICK w \in WriteRequest : w = sq[q][i]
    BY DEF SendInv, TypeOK
  <2>2. w.stripe >= r /\ Posted(w.stripe, q) /\ w.stripe \in Nat
    BY <1>4, <1>5, <2>1 DEF Slices, Carries, WriteRequest
  <2>3. w.stripe # r
    <3> SUFFICES ASSUME w.stripe = r PROVE FALSE
      OBVIOUS
    <3>1. q \in receivedBlocks
      BY <1>3, <2>2 DEF Posted
    <3> QED BY <1>3, <2>1, <3>1 DEF Complete
  <2> QED BY <1>5, <2>1, <2>2, <2>3
<1>8. \A s \in Nat : s >= Open' => s >= Open
  BY <1>5
<1>9. Slices' /\ Order' /\ Whole'
  BY <1>1, <1>7, <1>8, BufferSame, ReceiverQueues
<1>10. Nonzero'
  <2> SUFFICES ASSUME NEW c \in Cells PROVE receiveBuffer'[c] = 0 \/ Taking(c)' \/ Holds(c)'
    BY DEF Nonzero, Cells
  <2>1. receiveBuffer[c] = 0 \/ Holds(c)
    <3>1. ~Taking(c)
      BY <1>1 DEF Taking
    <3> QED BY <1>4, <3>1 DEF Nonzero
  <2>2. ASSUME Holds(c) PROVE Taking(c)' \/ Holds(c)'
    <3>1. PICK s \in DOMAIN sent, b \in Block, o \in 0 .. BlockSize :
              /\ s >= Open /\ Posted(s, b)
              /\ c = At(sent[s].at, b, o) /\ receiveBuffer[c] = BlockByte(s, b, o)
      BY <2>2 DEF Holds
    <3>2. CASE s = r
      <4>1. c = At(readPos, b, o)'
        BY <1>1, <1>3, <3>1, <3>2 DEF At, Cell, Unit
      <4>2. rPc' \in {"decode", "size"}
        BY <1>1
      <4> QED BY <4>1, <4>2 DEF Taking, Block
    <3>3. CASE s # r
      <4>1. s \in Nat
        BY LenProperties DEF SendInv, TypeOK
      <4>2. s >= Open'
        BY <1>5, <3>1, <3>3, <4>1
      <4>3. s \in DOMAIN sent' /\ Posted(s, b)' /\ receiveBuffer'[c] = BlockByte(s, b, o)'
        BY <1>1, <1>6, <3>1
      <4>4. c = At(sent[s].at, b, o)'
        BY <1>6, <3>1 DEF At, Cell, Unit
      <4> QED BY <4>2, <4>3, <4>4 DEF Holds, Block
    <3> QED BY <3>2, <3>3
  <2> QED BY <1>1, <2>1, <2>2
<1>11. readPos' = StripeAt(Reading - 1)' /\ Returned'
  <2>1. readPos' = StripeAt(Reading - 1)'
    BY <1>1, <1>4, <1>5 DEF StripeAt, Stripe, Unit
  <2>2. Returned'
    BY <1>1, <1>4, <1>6 DEF Returned, Miscalculated
  <2> QED BY <2>1, <2>2
<1>12. (\A s \in 1 .. Open' - 1 : Done(s)') /\ undecoded' \subseteq 1 .. Open' - 1
  <2>1. Open' - 1 = r /\ Open - 1 = r - 1
    BY <1>5
  <2>2. \A s \in 1 .. r : s = r \/ s \in 1 .. r - 1
    BY <1>5
  <2>3. 1 .. r - 1 \subseteq 1 .. r
    BY <1>5
  <2> QED BY <1>1, <1>3, <1>4, <1>6, <2>1, <2>2, <2>3
<1>13. ASSUME NEW b \in receivedBlocks, NEW o \in 0 .. BlockSize
       PROVE  receiveBuffer[At(readPos, b, o)] = BlockByte(r, b, o)
  BY <1>3 DEF Complete, InRing
<1>14. \A b, o : At(readPos, b, o)' = At(readPos, b, o)
  BY <1>1 DEF At, Cell, Unit
<1>15. rPc' = "decode" => Enough'
  <2>1. \A b \in Block : receiveBuffer[At(readPos, b, BlockSize)] # 0 => b \in receivedBlocks
    <3> SUFFICES ASSUME NEW b \in Block, receiveBuffer[At(readPos, b, BlockSize)] # 0
                 PROVE  b \in receivedBlocks
      OBVIOUS
    <3>1. BlockSize \in 0 .. BlockSize
      BY Sizes
    <3>2. Posted(r, b)
      BY <1>1, <1>2, <3>1, FoundByte
    <3> QED BY <1>3, <3>2 DEF Posted
  <2>2. \A b \in Block : receiveBuffer'[At(readPos, b, BlockSize)'] # 0 => b \in receivedBlocks'
    BY <1>1, <1>14, <2>1
  <2>3. survived' = receivedBlocks' /\ receivedBlocks' = Due(Reading)'
    <3>1. Due(Reading)' = Due(r)'
      BY <1>5 DEF Due, Coding
    <3> QED BY <1>1, <1>3, <1>6, <3>1
  <2>4. ASSUME NEW b \in receivedBlocks', NEW o \in 0 .. BlockSize
        PROVE  receiveBuffer'[At(readPos, b, o)'] = BlockByte(Reading, b, o)'
    <3>1. receiveBuffer[At(readPos, b, o)] = BlockByte(r, b, o)
      BY <1>1, <1>13
    <3>2. BlockByte(r, b, o)' = BlockByte(r, b, o)
      BY <1>6
    <3>3. BlockByte(Reading, b, o)' = BlockByte(r, b, o)'
      BY <1>5 DEF BlockByte
    <3> QED BY <1>1, <1>14, <3>1, <3>2, <3>3
  <2> QED BY <2>2, <2>3, <2>4 DEF Enough, Block
<1>16. rPc' \in {"size", "copy"} => Restored'
  <2> SUFFICES ASSUME Data \subseteq receivedBlocks PROVE Restored'
    BY <1>1
  <2>1. ASSUME NEW b \in Data, NEW o \in 0 .. BlockSize - 1
        PROVE  receiveBuffer'[At(readPos, b, o)'] = BlockByte(Reading, b, o)'
    <3>1. o \in 0 .. BlockSize
      BY Sizes
    <3>2. receiveBuffer[At(readPos, b, o)] = BlockByte(r, b, o)
      BY <1>13, <3>1
    <3>3. BlockByte(r, b, o)' = BlockByte(r, b, o)
      BY <1>6
    <3>4. BlockByte(Reading, b, o)' = BlockByte(r, b, o)'
      BY <1>5 DEF BlockByte
    <3> QED BY <1>1, <1>14, <3>2, <3>3, <3>4
  <2> QED BY <2>1 DEF Restored, Data
<1>17. rPc' # "copy" /\ rPc' # "poll"
  BY <1>1
<1>18. Receiving'
  BY <1>11, <1>12, <1>15, <1>16, <1>17 DEF Receiving
<1> QED BY <1>9, <1>10, <1>18 DEF RingPart

(* What receive() writes into its stripe leaves the others as they are, *)
LEMMA OverlayOpen ==
  ASSUME SendInv, RingPart, Settled, UNCHANGED senderVars, NEW bytes, Len(bytes) \in Nat,
         Len(bytes) <= Stripe, receiveBuffer' = Overlay(receiveBuffer, readPos, bytes)
  PROVE  OpenKept
<1>1. readPos = StripeAt(Reading - 1) /\ sent' = sent
  BY SenderStill DEF RingPart, Receiving
<1> SUFFICES ASSUME NEW s \in DOMAIN sent, NEW b \in Block, NEW o \in 0 .. BlockSize, s >= Open, Posted(s, b)
             PROVE  InRing(s, b, o)' = InRing(s, b, o)
  BY DEF OpenKept
<1> DEFINE p == Pos(s, b, o)
<1>2. /\ p \in Nat /\ readPos \in Nat /\ Size \in Nat /\ readPos + Stripe <= p /\ p < readPos + Size
      /\ At(sent[s].at, b, o) = Cell(p)
  BY <1>1, Window
<1>3. Stripe \in Nat
  BY Sizes
<1>4. p \in Int /\ readPos \in Int /\ readPos + Len(bytes) <= p /\ p < readPos + Size
  <2> HIDE DEF p
  <2> QED BY <1>2, <1>3
<1>5. receiveBuffer'[Cell(p)] = receiveBuffer[Cell(p)]
  <2> HIDE DEF p
  <2> QED BY <1>4, OverlayOutside
<1>6. InRing(s, b, o)' = receiveBuffer'[At(sent[s].at, b, o)]
  BY <1>1 DEF InRing, At, Cell, Unit
<1> QED BY <1>2, <1>5, <1>6 DEF InRing

(* and a cell it writes is one of that stripe. *)
LEMMA StripeCell ==
  ASSUME NEW pos \in Nat, NEW c \in Cells, Cell(c - pos) < Stripe
  PROVE  \E b \in Block, o \in 0 .. BlockSize : c = At(pos, b, o)
<1>1. c \in Int /\ c - pos \in Int
  BY Sizes DEF Cells
<1>2. PICK j \in Int : j = c - pos
  BY <1>1
<1>3. PICK k \in Int : j = (Size * k) + Cell(j) /\ Cell(j) \in Cells
  BY Division
<1>4. PICK r \in Nat : r = Cell(j)
  BY <1>2, CellType
<1>5. K + M \in Nat /\ Stripe = (K + M) * Unit
  BY Sizes DEF Stripe
<1>6. r + 1 \in 1 .. Stripe /\ (r + 1) - 1 = r
  <2>1. r < Stripe /\ Stripe \in Nat
    BY <1>2, <1>4, Sizes
  <2> QED BY <2>1
<1>7. PICK b \in 0 .. (K + M) - 1 : b = r \div Unit
  BY <1>5, <1>6, Split
<1>8. PICK o \in 0 .. BlockSize : o = r % Unit
  BY <1>5, <1>6, Split
<1>9. r = b * Unit + o
  <2>1. Unit \in Nat /\ Unit > 0 /\ b \in Int /\ o \in Int
    BY Sizes
  <2>2. PICK u \in Nat : u = Unit /\ u > 0
    BY <2>1
  <2>3. r = (u * (r \div u)) + (r % u)
    BY <2>2
  <2> QED BY <1>7, <1>8, <2>1, <2>2, <2>3
<1>10. pos + r = (Size * (-k)) + c
  <2>1. Size * (-k) = -(Size * k) /\ Size * k \in Int
    BY <1>3, <1>4, Multiples, Sizes
  <2> QED BY <1>1, <1>2, <1>3, <1>4, <2>1
<1>11. Cell(pos + r) = c
  <2>1. -k \in Int
    OBVIOUS
  <2> QED BY <1>10, <2>1, Remainder
<1>12. At(pos, b, o) = Cell(pos + r)
  <2>1. PICK e \in Nat : e = b * Unit
    BY Sizes
  <2>2. pos + e + o = pos + r
    BY <1>9, <2>1
  <2>3. At(pos, b, o) = Cell(pos + e + o)
    BY <2>1 DEF At
  <2> QED BY <2>2, <2>3, Zenon
<1>13. b \in Block
  <2>1. K \in Nat /\ M \in Nat
    BY Sizes
  <2> QED BY <1>7, <2>1 DEF Block
<1>14. c = At(pos, b, o)
  BY <1>11, <1>12, Zenon
<1> QED BY <1>13, <1>14

LEMMA DataRoom == BlockAt(K) \in Nat /\ BlockAt(K) <= Stripe
<1> DEFINE n == BlockAt(K)
<1>0. K \in Nat /\ M \in Nat /\ K + M \in Nat /\ Unit \in Nat /\ Stripe \in Nat
  <2>1. K \in Nat /\ M \in Nat /\ Unit \in Nat /\ Stripe \in Nat
    BY Sizes
  <2> QED BY <2>1
<1>1. K \in Nat /\ M \in Nat /\ K + M \in Nat /\ n \in Nat /\ Unit \in Nat /\ Stripe \in Nat
  <2>1. n \in Nat
    BY <1>0, BlockRoom
  <2> QED BY <1>0, <2>1
<1>2. CASE M = 0
  <2>1. K + M = K
    BY <1>1, <1>2
  <2>2. n = Stripe
    BY <2>1, BlockRoom
  <2> QED BY <1>1, <2>2
<1>3. CASE M # 0
  <2>1. K < K + M
    BY <1>1, <1>3
  <2>2. n + Unit <= Stripe
    BY <1>1, <2>1, BlockRoom
  <2> HIDE DEF n
  <2>3. n <= Stripe
    BY <1>1, <2>2
  <2> QED BY <1>1, <2>3 DEF n
<1> QED BY <1>2, <1>3

(* What decode makes of a byte of the stripe *)
LEMMA DecodedByte ==
  ASSUME ReceiverTypes, Cardinality(survived) = K, NEW b \in Data, NEW o \in 0 .. BlockSize
  PROVE  Overlay(receiveBuffer, readPos, DecodedRegion)[At(readPos, b, o)]
             = IF b \in survived \/ o = BlockSize THEN receiveBuffer[At(readPos, b, o)]
                                                  ELSE DecodedColumn(o)[b]
<1> DEFINE region == DecodedRegion
           y == BlockAt(b)
           p == readPos + y + o
<1>1. /\ Unit \in Nat /\ Unit = BlockSize + 1 /\ BlockSize \in Nat /\ K \in Nat /\ M \in Nat
      /\ Size \in Nat /\ Stripe <= Size /\ Stripe \in Nat /\ o \in Nat /\ o < Unit /\ readPos \in Nat
  BY Sizes DEF ReceiverTypes
<1>2. b \in 0 .. K - 1 /\ b \in Nat /\ b < K
  BY <1>1 DEF Data
<1>3. y \in Nat /\ y + Unit <= BlockAt(K) /\ BlockAt(K) \in Nat /\ BlockAt(K) <= Stripe
  <2>1. y \in Nat /\ y + Unit <= BlockAt(K) /\ BlockAt(K) \in Nat
    BY <1>1, <1>2, BlockRoom
  <2>2. BlockAt(K) <= Stripe
    BY DataRoom
  <2> QED BY <2>1, <2>2
<1>4. region \in Seq(Byte) /\ Len(region) = BlockAt(K)
  BY DecodedType DEF BlockAt
<1>5. /\ p \in Int /\ readPos \in Int /\ Len(region) \in Nat /\ readPos <= p
      /\ p < readPos + Len(region) /\ Len(region) <= Size /\ p - readPos = y + o
  <2> DEFINE n == BlockAt(K)
  <2>1. n \in Nat /\ y + Unit <= n /\ n <= Stripe /\ Len(region) = n
    BY <1>3, <1>4
  <2>2. y \in Nat /\ p = readPos + y + o
    BY <1>3
  <2> HIDE DEF n, y, p, region
  <2> QED BY <1>1, <2>1, <2>2
<1>6. At(readPos, b, o) = Cell(p)
  BY DEF At, BlockAt
<1>7. Overlay(receiveBuffer, readPos, region)[Cell(p)] = region[p - readPos + 1]
  <2> HIDE DEF p, region
  <2> QED BY <1>5, OverlayInside
<1>8. PICK i : i = p - readPos + 1
  OBVIOUS
<1>9. i \in 1 .. K * Unit /\ i - 1 = b * Unit + o
  <2> DEFINE n == BlockAt(K)
  <2>1. n \in Nat /\ y + Unit <= n /\ y \in Nat /\ p - readPos = y + o
    BY <1>3, <1>5
  <2>2. i \in 1 .. n /\ i - 1 = y + o
    <3> HIDE DEF n, y, p
    <3> QED BY <1>1, <1>8, <2>1
  <2> QED BY <2>2 DEF BlockAt
<1>10. (i - 1) \div Unit = b /\ (i - 1) % Unit = o
  BY <1>2, <1>9, Joined
<1>11. region[i] = IF b \in survived \/ o = BlockSize THEN receiveBuffer[At(readPos, b, o)]
                                                     ELSE DecodedColumn(o)[b]
  <2>1. region[i] = LET c == (i - 1) \div Unit
                        offset == (i - 1) % Unit
                    IN  IF c \in survived \/ offset = BlockSize
                        THEN receiveBuffer[At(readPos, c, offset)]
                        ELSE DecodedColumn(offset)[c]
    BY <1>9 DEF DecodedRegion
  <2> HIDE DEF region
  <2> QED BY <1>10, <2>1, Zenon
<1>12. Overlay(receiveBuffer, readPos, region)[At(readPos, b, o)] = region[i]
  <2> HIDE DEF p, region
  <2> QED BY <1>6, <1>7, <1>8
<1> QED BY <1>11, <1>12

(* K blocks give back the column the message was coded from. *)
LEMMA ColumnBack ==
  ASSUME SendInv, Enough, Cardinality(survived) = K, Reading \in DOMAIN sent, Reading \notin unencoded,
         NEW b \in Data, NEW o \in 0 .. BlockSize - 1
  PROVE  DecodedColumn(o)[b] = BlockByte(Reading, b, o)
<1> DEFINE column == [d \in Data |-> StreamByte(sent[Reading].data, d * BlockSize + o)]
<1>1. SenderTypes /\ Stripes
  BY Parts DEF SenderPart
<1>2. BlockSize \in Nat /\ BlockSize > 0 /\ K \in Nat /\ o \in 0 .. BlockSize /\ o # BlockSize /\ o \in Nat
  BY Sizes
<1>3. column \in Column
  <2>1. ASSUME NEW d \in Data PROVE StreamByte(sent[Reading].data, d * BlockSize + o) \in Byte
    <3>1. d \in Nat
      BY DEF Data
    <3>2. d * BlockSize + o \in Nat
      BY <1>2, <3>1
    <3> QED BY <1>1, <3>2, StreamType
  <2> QED BY <2>1 DEF Column
<1>4. ASSUME NEW c \in Block PROVE BlockByte(Reading, c, o) = CodeWord(column)[c]
  <2>1. ~(o = BlockSize) /\ ~(c >= K /\ Reading \in unencoded)
    BY <1>2
  <2> QED BY <2>1, Zenon DEF BlockByte
<1>5. survived \in SUBSET Block /\ survived = receivedBlocks
  BY DEF SendInv, TypeOK, Enough
<1> HIDE DEF column
<1>6. ASSUME NEW c \in survived PROVE receiveBuffer[At(readPos, c, o)] = CodeWord(column)[c]
  <2>1. receiveBuffer[At(readPos, c, o)] = BlockByte(Reading, c, o)
    BY <1>2, <1>5 DEF Enough
  <2> QED BY <1>4, <1>5, <2>1
<1>7. [c \in survived |-> receiveBuffer[At(readPos, c, o)]] = [c \in survived |-> CodeWord(column)[c]]
  BY <1>6, Zenon
<1>8. Recover([c \in survived |-> CodeWord(column)[c]]) = column
  BY <1>3, <1>5, CodeAssumption, Zenon
<1>9. DecodedColumn(o) = column
  BY <1>7, <1>8, Zenon DEF DecodedColumn
<1>10. CodeWord(column)[b] = column[b]
  <2>1. b \in Block /\ b < K
    BY Sizes DEF Data, Block
  <2> QED BY <2>1 DEF CodeWord
<1>11. b \in Block
  BY Sizes DEF Data, Block
<1> QED BY <1>4, <1>9, <1>10, <1>11

LEMMA DecodeRing ==
  ASSUME SendInv, RingPart, Decode
  PROVE  RingPart'
<1>1. /\ UNCHANGED senderVars /\ UNCHANGED sq /\ rPc = "decode" /\ rPc' = "size"
      /\ UNCHANGED <<readPos, received, receivedBlocks, survived>>
      /\ \/ receiveBuffer' = Overlay(receiveBuffer, readPos, DecodedRegion) /\ undecoded' = undecoded
         \/ receiveBuffer' = receiveBuffer /\ undecoded' = undecoded \union {Len(received) + 1}
  BY DEF Decode, nicVars
<1>2. /\ Nonzero /\ Enough /\ readPos = StripeAt(Reading - 1) /\ (\A s \in 1 .. Open - 1 : Done(s))
      /\ undecoded \subseteq 1 .. Open - 1 /\ Returned
  BY <1>1 DEF RingPart, Receiving
<1>3. Settled /\ Settled' /\ Reading' = Reading /\ Open' = Open /\ Reading = Len(received) + 1
  BY <1>1 DEF Settled, Reading, Open
<1>4. Reading \in DOMAIN sent /\ Reading \in Nat /\ Reading > 0 /\ Open = Reading + 1
  <2>1. Reading \in DOMAIN sent
    BY <1>3, ReadingDone DEF RingPart
  <2>2. Reading \in Nat /\ Reading > 0
    BY <1>2, RingAhead
  <2> QED BY <1>3, <2>1, <2>2 DEF Open
<1>5. /\ sent' = sent /\ unencoded' = unencoded /\ \A s : Done(s)' <=> Done(s)
      /\ \A s, b : Posted(s, b)' <=> Posted(s, b)
      /\ \A s, b, o : BlockByte(s, b, o)' = BlockByte(s, b, o)
  BY <1>1, SenderStill
<1>6. ReceiverTypes /\ Cardinality(survived) = K
  BY <1>1, Parts DEF ReceiverPart, SendInv, Survivors
<1>7. DecodedRegion \in Seq(Byte) /\ Len(DecodedRegion) \in Nat /\ Len(DecodedRegion) <= Stripe
  <2>1. DecodedRegion \in Seq(Byte) /\ Len(DecodedRegion) = BlockAt(K)
    BY <1>6, DecodedType DEF BlockAt
  <2> QED BY <2>1, DataRoom
<1>8. OpenKept
  <2>1. CASE receiveBuffer' = receiveBuffer
    BY <1>1, <2>1, BufferSame
  <2>2. CASE receiveBuffer' = Overlay(receiveBuffer, readPos, DecodedRegion)
    <3>1. PICK bytes : bytes = DecodedRegion
      OBVIOUS
    <3> QED BY <1>1, <1>3, <1>7, <2>2, <3>1, OverlayOpen
  <2> QED BY <1>1, <2>1, <2>2
<1>9. Slices' /\ Order' /\ Whole'
  BY <1>1, <1>3, <1>8, OpenSlices, ReceiverQueues
<1>10. Nonzero'
  <2> SUFFICES ASSUME NEW c \in Cells PROVE receiveBuffer'[c] = 0 \/ Taking(c)' \/ Holds(c)'
    BY DEF Nonzero, Cells
  <2>1. CASE Taking(c)
    BY <1>1, <2>1 DEF Taking, At, Cell, Unit, Block
  <2>2. CASE Holds(c)
    <3>1. PICK s \in DOMAIN sent, b \in Block, o \in 0 .. BlockSize :
              /\ s >= Open /\ Posted(s, b)
              /\ c = At(sent[s].at, b, o) /\ receiveBuffer[c] = BlockByte(s, b, o)
      BY <2>2 DEF Holds
    <3>2. c = At(sent[s].at, b, o)'
      BY <1>5, <3>1 DEF At, Cell, Unit
    <3>3. receiveBuffer'[c] = receiveBuffer[c]
      <4>1. InRing(s, b, o)' = InRing(s, b, o)
        BY <1>8, <3>1 DEF OpenKept
      <4>2. InRing(s, b, o)' = receiveBuffer'[c]
        BY <3>2 DEF InRing
      <4> QED BY <3>1, <4>1, <4>2 DEF InRing
    <3>4. s \in DOMAIN sent' /\ s >= Open' /\ Posted(s, b)' /\ receiveBuffer'[c] = BlockByte(s, b, o)'
      BY <1>3, <1>5, <3>1, <3>3
    <3> QED BY <3>2, <3>4 DEF Holds, Block
  <2>3. CASE receiveBuffer[c] = 0 /\ ~Taking(c)
    <3>1. ~(Cell(c - readPos) < Stripe)
      <4>1. readPos \in Nat
        BY <1>6 DEF ReceiverTypes
      <4> QED BY <1>1, <2>3, <4>1, StripeCell DEF Taking
    <3>2. ~(Cell(c - readPos) < Len(DecodedRegion))
      <4>1. c - readPos \in Int
        BY <1>6, Sizes DEF ReceiverTypes, Cells
      <4>2. Cell(c - readPos) \in Nat /\ Stripe \in Nat
        BY <4>1, CellType, Sizes
      <4> QED BY <1>7, <3>1, <4>2
    <3>3. Overlay(receiveBuffer, readPos, DecodedRegion)[c] = receiveBuffer[c]
      <4>1. PICK bytes : bytes = DecodedRegion
        OBVIOUS
      <4>2. Overlay(receiveBuffer, readPos, bytes)[c] = receiveBuffer[c]
        BY <3>2, <4>1 DEF Overlay
      <4> QED BY <4>1, <4>2
    <3> QED BY <1>1, <2>3, <3>3
  <2> QED BY <1>2, <2>1, <2>2, <2>3 DEF Nonzero
<1>11. readPos' = StripeAt(Reading - 1)' /\ (\A s \in 1 .. Open' - 1 : Done(s)')
  BY <1>1, <1>2, <1>3, <1>5 DEF StripeAt, Stripe, Unit
<1>12. undecoded' \subseteq 1 .. Open' - 1 /\ undecoded \subseteq undecoded'
  <2>1. Len(received) + 1 \in 1 .. Open - 1
    BY <1>3, <1>4
  <2> QED BY <1>1, <1>2, <1>3, <2>1
<1>13. Returned'
  BY <1>1, <1>2, <1>5, <1>12 DEF Returned, Miscalculated
<1>14. Restored'
  <2>1. PICK r : r = Reading
    OBVIOUS
  <2> SUFFICES ASSUME r \notin Miscalculated', NEW b \in Data, NEW o \in 0 .. BlockSize - 1
               PROVE  receiveBuffer'[At(readPos, b, o)] = BlockByte(r, b, o)'
    <3>1. Reading' = r
      BY <1>3, <2>1
    <3>2. \A b \in Data, o \in 0 .. BlockSize - 1 : At(readPos, b, o)' = At(readPos, b, o)
      BY <1>1 DEF At, Cell, Unit
    <3> QED BY <3>1, <3>2 DEF Restored, Data, BlockByte
  <2>2. r \notin unencoded /\ undecoded' = undecoded
    BY <1>1, <1>3, <1>5, <2>1 DEF Miscalculated
  <2>3. receiveBuffer' = Overlay(receiveBuffer, readPos, DecodedRegion)
    <3>1. ~(undecoded' = undecoded \union {Len(received) + 1})
      BY <1>3, <2>1 DEF Miscalculated
    <3> QED BY <1>1, <3>1
  <2>4. o \in 0 .. BlockSize /\ o # BlockSize
    BY Sizes
  <2>5. receiveBuffer'[At(readPos, b, o)]
            = IF b \in survived THEN receiveBuffer[At(readPos, b, o)] ELSE DecodedColumn(o)[b]
    BY <1>6, <2>3, <2>4, DecodedByte
  <2>6. b \in survived => receiveBuffer[At(readPos, b, o)] = BlockByte(r, b, o)
    BY <1>2, <2>1, <2>4 DEF Enough
  <2>7. DecodedColumn(o)[b] = BlockByte(r, b, o)
    BY <1>2, <1>4, <1>6, <2>1, <2>2, ColumnBack
  <2> QED BY <1>5, <2>5, <2>6, <2>7
<1>15. Receiving'
  BY <1>1, <1>11, <1>12, <1>13, <1>14 DEF Receiving
<1> QED BY <1>9, <1>10, <1>15 DEF RingPart

LEMMA ReadSizeRing ==
  ASSUME SendInv, RingPart, ReadSize
  PROVE  RingPart'
<1>1. /\ UNCHANGED senderVars /\ UNCHANGED sq /\ rPc = "size" /\ rPc' = "copy"
      /\ UNCHANGED <<readPos, received, undecoded, receiveBuffer>>
      /\ receiveSize' = receiveBuffer[At(readPos, 0, 0)]
  BY DEF ReadSize, nicVars
<1>2. Reading' = Reading /\ Open' = Open /\ Settled
  BY <1>1 DEF Reading, Open, Settled
<1>3. Taken /\ Nonzero /\ Restored
  BY <1>1 DEF RingPart, Receiving, Taken
<1>4. Slices' /\ Order' /\ Whole'
  BY <1>1, <1>2, BufferSame, OpenSlices, ReceiverQueues
<1>5. Nonzero' /\ Taken'
  BY <1>1, <1>2, <1>3, NonzeroSame, TakenKept
<1>6. PICK r : r = Reading
  OBVIOUS
<1>7. Reading' = r /\ Miscalculated' = Miscalculated /\ sent' = sent
      /\ \A s, b, o : BlockByte(s, b, o)' = BlockByte(s, b, o)
  BY <1>1, <1>2, <1>6, SenderStill DEF Miscalculated
<1>8. Restored'
  <2>1. \A b \in Data, o \in 0 .. BlockSize - 1 : At(readPos, b, o)' = At(readPos, b, o)
    BY <1>1 DEF At, Cell, Unit
  <2>2. ASSUME r \notin Miscalculated, NEW b \in Data, NEW o \in 0 .. BlockSize - 1
        PROVE  receiveBuffer'[At(readPos, b, o)] = BlockByte(r, b, o)'
    BY <1>1, <1>3, <1>6, <1>7, <2>2 DEF Restored
  <2> QED BY <1>7, <2>1, <2>2 DEF Restored, Data, BlockByte
<1>9. Reading' \notin Miscalculated' => receiveSize' = Len(sent'[Reading'].data)
  <2> SUFFICES ASSUME r \notin Miscalculated PROVE receiveBuffer[At(readPos, 0, 0)] = Len(sent[r].data)
    BY <1>1, <1>7
  <2>1. 0 \in Data /\ 0 \in Block /\ 0 \in 0 .. BlockSize - 1 /\ 0 \in 0 .. BlockSize /\ 0 # BlockSize /\ 0 < K
        /\ 0 * BlockSize + 0 = 0
    BY Sizes DEF Data, Block
  <2>2. receiveBuffer[At(readPos, 0, 0)] = BlockByte(r, 0, 0)
    BY <1>3, <1>6, <2>1 DEF Restored
  <2>3. BlockByte(r, 0, 0) = StreamByte(sent[r].data, 0 * BlockSize + 0)
    BY <2>1, PlainByte
  <2>4. StreamByte(sent[r].data, 0) = Len(sent[r].data)
    BY DEF StreamByte
  <2> QED BY <2>1, <2>2, <2>3, <2>4
<1>10. Receiving'
  BY <1>1, <1>5, <1>8, <1>9 DEF Receiving, Taken
<1> QED BY <1>4, <1>5, <1>10 DEF RingPart

(* An allocation that throws leaves the stripe where it is. *)
LEMMA AllocateRing ==
  ASSUME SendInv, RingPart, AllocateResult
  PROVE  RingPart'
<1>1. /\ UNCHANGED senderVars /\ UNCHANGED sq /\ rPc = "copy" /\ rPc' = "failed"
      /\ UNCHANGED <<readPos, received, undecoded, receiveBuffer>>
  BY DEF AllocateResult, nicVars
<1>2. Reading' = Reading /\ Open' = Open
  BY <1>1 DEF Reading, Open, Settled
<1>3. Taken /\ Nonzero
  BY DEF RingPart, Receiving, Taken
<1>4. Slices' /\ Order' /\ Whole'
  BY <1>1, <1>2, BufferSame, OpenSlices, ReceiverQueues
<1>5. Nonzero' /\ Taken'
  BY <1>1, <1>2, <1>3, NonzeroSame, TakenKept
<1>6. Receiving'
  BY <1>1, <1>5 DEF Receiving, Taken
<1> QED BY <1>4, <1>5, <1>6 DEF RingPart

(* A message that nothing spoilt is copied out as it was sent. *)
LEMMA PayloadRight ==
  ASSUME SendInv, RingPart, rPc = "copy", Reading \notin Miscalculated
  PROVE  [i \in 1 .. receiveSize |-> receiveBuffer[At(readPos, i \div BlockSize, i % BlockSize)]]
             = sent[Reading].data
<1>1. /\ Restored /\ receiveSize = Len(sent[Reading].data) /\ Reading \in DOMAIN sent
  BY ReadingDone DEF RingPart, Receiving, Settled
<1>2. SenderTypes /\ Stripes
  BY Parts DEF SendInv, SenderPart
<1>3. PICK m \in Seq(Byte) : m = sent[Reading].data
  BY <1>1, <1>2, Messages
<1>4. PICK n \in Nat : n = Len(m)
  BY LenProperties
<1>5. 1 + n <= BlockSize * K /\ receiveSize = n
  BY <1>1, <1>2, <1>3, <1>4 DEF Stripes
<1>6. PICK u \in Nat : u = BlockSize /\ u > 0
  BY Sizes
<1>7. ASSUME NEW i \in 1 .. n
      PROVE  receiveBuffer[At(readPos, i \div BlockSize, i % BlockSize)] = m[i]
  <2>1. PICK b \in Int, o \in 0 .. u - 1 : b = i \div u /\ o = i % u /\ i = (u * b) + o
    BY <1>6
  <2>2. K \in Nat
    BY Sizes
  <2>3. b >= 0
    <3> SUFFICES ASSUME b <= -1 PROVE FALSE
      OBVIOUS
    <3>1. u * b <= -u /\ u * b \in Int
      BY <2>1
    <3> QED BY <2>1, <3>1
  <2>4. b < K
    <3> SUFFICES ASSUME K <= b PROVE FALSE
      BY <2>2
    <3>1. u * K <= u * b /\ u * b \in Int /\ u * K \in Int
      BY <2>2, <2>3
    <3>2. 1 + n <= u * K
      BY <1>5, <1>6
    <3> QED BY <2>1, <3>1, <3>2
  <2>5. b \in Data /\ b \in Block /\ o \in 0 .. BlockSize - 1 /\ o \in 0 .. BlockSize /\ o # BlockSize
    <3>1. b \in Data /\ b \in Block
      BY <2>3, <2>4, Sizes DEF Data, Block
    <3> QED BY <1>6, <2>1, <3>1
  <2>6. receiveBuffer[At(readPos, b, o)] = BlockByte(Reading, b, o)
    BY <1>1, <2>5 DEF Restored
  <2>7. BlockByte(Reading, b, o) = StreamByte(m, b * BlockSize + o)
    BY <1>3, <2>4, <2>5, PlainByte
  <2>8. b * BlockSize + o = i
    <3>1. b * u + o = i
      BY <2>1
    <3> QED BY <1>6, <3>1
  <2>9. StreamByte(m, i) = m[i]
    <3>1. i # 0 /\ i \in 1 .. Len(m)
      BY <1>4
    <3> QED BY <3>1 DEF StreamByte
  <2> QED BY <1>6, <2>1, <2>6, <2>7, <2>8, <2>9
<1>8. [i \in 1 .. n |-> receiveBuffer[At(readPos, i \div BlockSize, i % BlockSize)]] = [i \in 1 .. n |-> m[i]]
  BY <1>7, Zenon
<1>9. m = [i \in 1 .. n |-> m[i]]
  BY <1>4, LenProperties
<1> QED BY <1>3, <1>5, <1>8, <1>9, Zenon

LEMMA CopyPayloadRing ==
  ASSUME SendInv, RingPart, CopyPayload
  PROVE  RingPart'
<1> DEFINE payload == [i \in 1 .. receiveSize |->
                          receiveBuffer[At(readPos, i \div BlockSize, i % BlockSize)]]
<1>1. /\ UNCHANGED senderVars /\ UNCHANGED sq /\ rPc = "copy" /\ rPc' = "zero"
      /\ UNCHANGED <<readPos, undecoded, receiveBuffer>>
      /\ received' = Append(received, payload)
  BY DEF CopyPayload, nicVars
<1>2. received \in Seq(Seq(Byte))
  BY DEF SendInv, TypeOK
<1>3. PICK r : r = Reading
  OBVIOUS
<1>4. r \notin Miscalculated => payload = sent[r].data
  BY <1>1, <1>3, PayloadRight
<1> HIDE DEF payload
<1>5. PICK n \in Nat : n = Len(received)
  BY <1>2, LenProperties
<1>6. r = n + 1 /\ Settled /\ Settled'
  BY <1>1, <1>3, <1>5 DEF Reading, Settled
<1>7. /\ Len(received') = n + 1 /\ DOMAIN received' = 1 .. n + 1 /\ received'[n + 1] = payload
      /\ DOMAIN received = 1 .. n /\ \A i \in 1 .. n : received'[i] = received[i]
  <2>1. received' \in Seq(Seq(Byte) \union {payload})
    BY <1>1, <1>2
  <2>2. Len(received') = n + 1
    BY <1>1, <1>2, <1>5
  <2>3. received'[n + 1] = payload /\ \A i \in 1 .. n : received'[i] = received[i]
    BY <1>1, <1>2, <1>5
  <2> QED BY <1>2, <1>5, <2>1, <2>2, <2>3, LenProperties
<1>8. Reading' = r /\ Open' = Open
  BY <1>1, <1>3, <1>6, <1>7 DEF Reading, Open
<1>9. Taken /\ Nonzero
  BY DEF RingPart, Receiving, Taken
<1>10. Slices' /\ Order' /\ Whole'
  BY <1>1, <1>8, BufferSame, OpenSlices, ReceiverQueues
<1>11. Nonzero'
  BY <1>1, <1>8, <1>9, NonzeroSame
<1>12. sent' = sent /\ Miscalculated' = Miscalculated /\ \A s : Done(s)' <=> Done(s)
  BY <1>1, SenderStill DEF Miscalculated
<1>13. readPos' = StripeAt(Reading - 1)' /\ (\A s \in 1 .. Open' - 1 : Done(s)') /\ undecoded' \subseteq 1 .. Open' - 1
  BY <1>1, <1>3, <1>8, <1>9, <1>12 DEF Taken, StripeAt, Stripe, Unit
<1>14. Returned'
  <2> SUFFICES ASSUME NEW i \in 1 .. n + 1, i \notin Miscalculated PROVE received'[i] = sent[i].data
    BY <1>7, <1>12 DEF Returned
  <2>1. CASE i = n + 1
    BY <1>4, <1>6, <1>7, <2>1
  <2>2. CASE i # n + 1
    <3>1. i \in 1 .. n
      BY <2>2
    <3> QED BY <1>7, <1>9, <3>1 DEF Taken, Returned
  <2> QED BY <2>1, <2>2
<1>15. Receiving'
  BY <1>1, <1>13, <1>14 DEF Receiving
<1> QED BY <1>10, <1>11, <1>15 DEF RingPart

LEMMA ZeroRing ==
  ASSUME SendInv, RingPart, ZeroReceiveBuffer
  PROVE  RingPart'
<1>1. PICK bytes : bytes = [i \in 1 .. Stripe |-> 0]
  OBVIOUS
<1>2. /\ UNCHANGED senderVars /\ UNCHANGED sq /\ rPc = "zero" /\ rPc' = "advance"
      /\ UNCHANGED <<readPos, received, undecoded>>
      /\ receiveBuffer' = Overlay(receiveBuffer, readPos, bytes)
  BY <1>1 DEF ZeroReceiveBuffer, nicVars
<1>3. Reading' = Reading /\ Open' = Open /\ Settled
  BY <1>2 DEF Reading, Open, Settled
<1>4. Taken /\ Nonzero /\ readPos \in Nat
  BY RingAhead DEF RingPart, Receiving, Taken
<1>5. /\ Len(bytes) = Stripe /\ Len(bytes) \in Nat /\ Len(bytes) <= Stripe /\ Stripe \in Nat
      /\ \A i \in 1 .. Stripe : bytes[i] = 0
  <2>1. Len(bytes) = Stripe
    BY <1>1, ZeroesType
  <2>2. Stripe \in Nat
    BY Sizes
  <2> QED BY <1>1, <2>1, <2>2
<1>6. OpenKept
  BY <1>2, <1>3, <1>5, OverlayOpen
<1>7. Slices' /\ Order' /\ Whole'
  BY <1>2, <1>3, <1>6, OpenSlices, ReceiverQueues
<1>8. /\ sent' = sent /\ \A s, b : Posted(s, b)' <=> Posted(s, b)
      /\ \A s, b, o : BlockByte(s, b, o)' = BlockByte(s, b, o)
  BY <1>2, SenderStill
<1>9. Nonzero'
  <2> SUFFICES ASSUME NEW c \in Cells PROVE receiveBuffer'[c] = 0 \/ Holds(c)'
    BY DEF Nonzero, Cells
  <2>1. PICK x \in Nat : x = Cell(c - readPos)
    <3>1. c - readPos \in Int
      BY <1>4, Sizes DEF Cells
    <3> QED BY <3>1, CellType
  <2>2. receiveBuffer'[c] = IF x < Stripe THEN bytes[x + 1] ELSE receiveBuffer[c]
    BY <1>2, <1>5, <2>1 DEF Overlay
  <2>3. CASE x < Stripe
    <3>1. x + 1 \in 1 .. Stripe
      BY <1>5, <2>3
    <3> QED BY <1>5, <2>2, <2>3, <3>1
  <2>4. CASE ~(x < Stripe)
    <3>1. receiveBuffer'[c] = receiveBuffer[c]
      BY <2>2, <2>4
    <3>2. ~Taking(c)
      <4> SUFFICES ASSUME NEW b \in Block, NEW o \in 0 .. BlockSize, c = At(readPos, b, o) PROVE FALSE
        BY DEF Taking
      <4> DEFINE p == readPos + BlockAt(b) + o
      <4>1. p \in Nat /\ readPos <= p /\ p < readPos + Stripe /\ At(readPos, b, o) = Cell(p)
        BY <1>4, ReaderPlace DEF Taken
      <4>2. Stripe <= Size /\ Size \in Nat
        BY Sizes
      <4> HIDE DEF p
      <4>3. Cell(Cell(p) - readPos) = p - readPos
        BY <1>4, <1>5, <4>1, <4>2, CellDistance
      <4>4. x = p - readPos
        BY <2>1, <4>1, <4>3
      <4> QED BY <1>4, <1>5, <2>4, <4>1, <4>4
    <3>3. receiveBuffer[c] = 0 \/ Holds(c)
      BY <1>4, <3>2 DEF Nonzero
    <3>4. ASSUME Holds(c) PROVE Holds(c)'
      <4>1. PICK s \in DOMAIN sent, b \in Block, o \in 0 .. BlockSize :
                /\ s >= Open /\ Posted(s, b)
                /\ c = At(sent[s].at, b, o) /\ receiveBuffer[c] = BlockByte(s, b, o)
        BY <3>4 DEF Holds
      <4>2. s \in DOMAIN sent' /\ s >= Open' /\ Posted(s, b)' /\ receiveBuffer'[c] = BlockByte(s, b, o)'
        BY <1>3, <1>8, <3>1, <4>1
      <4>3. c = At(sent[s].at, b, o)'
        BY <1>8, <4>1 DEF At, Cell, Unit
      <4> QED BY <4>2, <4>3 DEF Holds, Block
    <3> QED BY <3>1, <3>3, <3>4
  <2> QED BY <2>3, <2>4
<1>10. Taken'
  BY <1>2, <1>3, <1>4, TakenKept
<1>11. Receiving'
  BY <1>2, <1>10 DEF Receiving, Taken
<1> QED BY <1>7, <1>9, <1>11 DEF RingPart

LEMMA AdvanceRing ==
  ASSUME SendInv, RingPart, AdvanceReadPos
  PROVE  RingPart'
<1>1. /\ UNCHANGED senderVars /\ UNCHANGED sq /\ rPc = "advance" /\ rPc' = "idle"
      /\ UNCHANGED <<received, undecoded, receiveBuffer>> /\ readPos' = readPos + Stripe
  BY DEF AdvanceReadPos, nicVars
<1>2. /\ Nonzero /\ readPos = StripeAt(Reading - 1) /\ (\A s \in 1 .. Open - 1 : Done(s))
      /\ undecoded \subseteq 1 .. Open - 1 /\ Returned
  BY DEF RingPart, Receiving
<1>3. PICK r \in Nat : r = Reading /\ r > 0 /\ r - 1 \in Nat
  BY <1>2, RingAhead
<1>4. Reading' = r + 1 /\ Open = r + 1 /\ Open' = Open
  <2>1. r = Len(received) /\ Open = r + 1
    BY <1>1, <1>3 DEF Reading, Open, Settled
  <2>2. Reading' = r + 1
    BY <1>1, <2>1 DEF Reading
  <2>3. ~Settled'
    BY <1>1 DEF Settled
  <2> QED BY <2>1, <2>2, <2>3 DEF Open
<1>5. Slices' /\ Order' /\ Whole'
  BY <1>1, <1>4, BufferSame, OpenSlices, ReceiverQueues
<1>6. /\ sent' = sent /\ Miscalculated' = Miscalculated /\ \A s : Done(s)' <=> Done(s)
      /\ \A s, b : Posted(s, b)' <=> Posted(s, b)
      /\ \A s, b, o : BlockByte(s, b, o)' = BlockByte(s, b, o)
  BY <1>1, SenderStill DEF Miscalculated
<1>7. Nonzero'
  <2> SUFFICES ASSUME NEW c \in Cells PROVE receiveBuffer'[c] = 0 \/ Holds(c)'
    BY DEF Nonzero, Cells
  <2>1. receiveBuffer[c] = 0 \/ Holds(c)
    BY <1>1, <1>2 DEF Nonzero, Taking
  <2>2. ASSUME Holds(c) PROVE Holds(c)'
    <3>1. PICK s \in DOMAIN sent, b \in Block, o \in 0 .. BlockSize :
              /\ s >= Open /\ Posted(s, b)
              /\ c = At(sent[s].at, b, o) /\ receiveBuffer[c] = BlockByte(s, b, o)
      BY <2>2 DEF Holds
    <3>2. s \in DOMAIN sent' /\ s >= Open' /\ Posted(s, b)' /\ receiveBuffer'[c] = BlockByte(s, b, o)'
      BY <1>1, <1>4, <1>6, <3>1
    <3>3. c = At(sent[s].at, b, o)'
      BY <1>6, <3>1 DEF At, Cell, Unit
    <3> QED BY <3>2, <3>3 DEF Holds, Block
  <2> QED BY <1>1, <2>1, <2>2
<1>8. readPos' = StripeAt(Reading - 1)'
  <2>1. StripeAt((r - 1) + 1) = StripeAt(r - 1) + Stripe
    BY <1>3, StripeRoom
  <2>2. (r - 1) + 1 = r /\ (r + 1) - 1 = r
    OBVIOUS
  <2>3. StripeAt(Reading - 1)' = StripeAt(r)
    BY <1>4, <2>2 DEF StripeAt, Stripe, Unit
  <2> QED BY <1>1, <1>2, <1>3, <2>1, <2>2, <2>3
<1>9. (\A s \in 1 .. Open' - 1 : Done(s)') /\ undecoded' \subseteq 1 .. Open' - 1 /\ Returned'
  BY <1>1, <1>2, <1>4, <1>6 DEF Returned
<1>10. Receiving'
  BY <1>1, <1>8, <1>9 DEF Receiving
<1> QED BY <1>5, <1>7, <1>10 DEF RingPart

LEMMA ReceiverRing ==
  ASSUME NoSpare, SendInv, RingPart, Receiver
  PROVE  RingPart'
BY StartReceiveRing, PollBlockRing, PollAgainRing, EnoughBlocksRing, DecodeRing, ReadSizeRing,
   AllocateRing, CopyPayloadRing, ZeroRing, AdvanceRing DEF Receiver

-----------------------------------------------------------------------------
LEMMA RingInit == Init => RingPart
<1> SUFFICES ASSUME Init PROVE RingPart
  OBVIOUS
<1>1. Slices /\ Order
  <2>1. \A q \in Block : sq[q] = <<>>
    BY DEF Init
  <2> QED BY <2>1 DEF Slices, Order, InOrder
<1>2. Nonzero
  BY DEF Init, Nonzero
<1>3. DOMAIN sent = {} /\ Len(received) = 0 /\ DOMAIN received = {}
  BY DEF Init
<1>4. Whole
  BY <1>3 DEF Whole
<1>5. Reading = 1 /\ Open = 1
  BY <1>3 DEF Init, Reading, Open, Settled
<1>6. Receiving
  <2>1. StripeAt(0) = 0
    BY StripeRoom
  <2> QED BY <1>3, <1>5, <2>1 DEF Init, Receiving, Returned
<1> QED BY <1>1, <1>2, <1>4, <1>6 DEF RingPart

LEMMA RingNext == NoSpare /\ RingInv /\ [Next]_vars => RingInv'
<1> SUFFICES ASSUME NoSpare, SendInv, RingPart, [Next]_vars PROVE SendInv' /\ RingPart'
  BY DEF RingInv
<1>1. SendInv'
  BY SendNext
<1>2. CASE (\E m \in Message : StartSend(m)) \/ Sender \/ ExecuteRead \/ LandRead
  BY <1>1, <1>2, SenderRing
<1>3. CASE \E q \in Block : PlaceByte(q) \/ Break(q)
  BY <1>1, <1>3, PlaceRing, BreakRing
<1>4. CASE Receiver
  BY <1>1, <1>4, ReceiverRing
<1>5. CASE UNCHANGED vars
  <2>1. UNCHANGED <<sPc, sBlock, sent, sendBuffer, sendPos, unencoded, sq>> /\ ReceiverStays
    BY <1>5 DEF vars, senderVars, nicVars, ReceiverStays
  <2> QED BY <1>1, <2>1, QuietStep
<1> QED BY <1>2, <1>3, <1>4, <1>5 DEF Next

LEMMA RingKept == NoSpare => (Spec => []RingInv)
<1> SUFFICES ASSUME NoSpare PROVE Spec => []RingInv
  OBVIOUS
<1>1. Init => RingInv
  BY SendInit, RingInit DEF RingInv
<1>2. RingInv /\ [Next]_vars => RingInv'
  BY RingNext
<1> QED BY <1>1, <1>2, PTL DEF Spec

-----------------------------------------------------------------------------
(* What is with the card, and what receive() finds *)

(* A cell some write is to fill, and the byte it is to fill it with *)
LEMMA PendingByte ==
  ASSUME RingInv, NEW q \in Block, NEW c \in PendingCells(q)
  PROVE  \E s \in DOMAIN sent, o \in 0 .. BlockSize :
            /\ s >= Open /\ Posted(s, q) /\ At(sent[s].at, q, o) = c
            /\ sendBuffer[c] = BlockByte(s, q, o)
<1>1. SendInv /\ TypeOK /\ Stripes /\ Slices
  BY DEF RingInv, RingPart, SendInv
<1>2. PICK i \in DOMAIN sq[q] : c \in sq[q][i].begin .. sq[q][i].begin + sq[q][i].len - 1
  BY DEF PendingCells
<1>3. PICK w \in WriteRequest : w = sq[q][i]
  BY <1>1 DEF TypeOK
<1>4. w.begin + w.len <= Size /\ w.from + w.len <= Unit /\ Carries(w, q)
  BY <1>1, <1>3 DEF TypeOK, Slices
<1>5. PICK x \in 0 .. w.len - 1 : c = w.begin + x
  <2>1. w.begin \in Nat /\ w.len \in Nat /\ c \in w.begin .. w.begin + w.len - 1
    BY <1>2, <1>3, Sizes DEF WriteRequest, Cells
  <2> DEFINE b == w.begin
             n == w.len
  <2>2. b \in Nat /\ n \in Nat /\ c \in b .. b + n - 1
    BY <2>1
  <2> HIDE DEF b, n
  <2>3. c - b \in 0 .. n - 1 /\ c = b + (c - b)
    BY <2>2
  <2> QED BY <2>3 DEF b, n
<1>6. /\ w.stripe \in DOMAIN sent /\ Posted(w.stripe, q) /\ w.stripe >= Open
      /\ w.begin = At(sent[w.stripe].at, q, w.from)
      /\ sendBuffer[w.begin + x] = BlockByte(w.stripe, q, w.from + x)
  BY <1>4, <1>5 DEF Carries
<1>7. w.from + x \in 0 .. BlockSize /\ w.begin + x = Cell(Pos(w.stripe, q, w.from + x))
  BY <1>1, <1>4, <1>5, <1>6, SliceCell
<1>8. At(sent[w.stripe].at, q, w.from + x) = Cell(Pos(w.stripe, q, w.from + x))
  BY <1>1, <1>6, <1>7, Position
<1> QED BY <1>5, <1>6, <1>7, <1>8

LEMMA RingPending == RingInv => PendingKept
<1> SUFFICES ASSUME RingInv PROVE PendingKept
  OBVIOUS
<1>1. SendInv /\ readPos = StripeAt(Reading - 1)
  BY DEF RingInv, RingPart, Receiving
<1>2. ASSUME NEW q \in Block, NEW c \in PendingCells(q)
      PROVE  \E s \in DOMAIN sent, offset \in 0 .. BlockSize :
                /\ sent[s].at >= readPos
                /\ At(sent[s].at, q, offset) = c
                /\ sendBuffer[c] = BlockByte(s, q, offset)
  <2>1. PICK s \in DOMAIN sent, o \in 0 .. BlockSize :
            /\ s >= Open /\ Posted(s, q) /\ At(sent[s].at, q, o) = c
            /\ sendBuffer[c] = BlockByte(s, q, o)
    BY <1>2, PendingByte
  <2>2. readPos <= sent[s].at /\ readPos \in Nat
    BY <1>1, <2>1, Window
  <2>3. sent[s].at \in Nat
    BY <1>1, Parts, Messages DEF SenderPart
  <2>4. sent[s].at >= readPos
    BY <2>2, <2>3
  <2> QED BY <2>1, <2>4
<1>3. ASSUME NEW p \in Block, NEW q \in Block, p # q, NEW c \in PendingCells(p), c \in PendingCells(q)
      PROVE  FALSE
  <2>1. PICK s \in DOMAIN sent, o \in 0 .. BlockSize :
            s >= Open /\ Posted(s, p) /\ At(sent[s].at, p, o) = c
    BY <1>3, PendingByte
  <2>2. PICK t \in DOMAIN sent, u \in 0 .. BlockSize :
            t >= Open /\ Posted(t, q) /\ At(sent[t].at, q, u) = c
    BY <1>3, PendingByte
  <2> QED BY <1>1, <1>3, <2>1, <2>2, SameSpot
<1> QED BY <1>2, <1>3 DEF PendingKept

(* For every ring, payload and schedule a write that is with the card      *)
(* finds in the sendBuffer the bytes it was posted for, and no two queue   *)
(* pairs write to the same cell: the space send() waits for is enough.     *)
THEOREM PendingIsKept == NoSpare => (Spec => []PendingKept)
<1> SUFFICES ASSUME NoSpare PROVE Spec => []PendingKept
  OBVIOUS
<1>1. Spec => []RingInv
  BY RingKept
<1> QED BY <1>1, RingPending, PTL

LEMMA RingValid == RingInv => ValidIsCurrent
<1> SUFFICES ASSUME RingInv, rPc \in {"poll", "decode"}, NEW b \in Block,
                    receiveBuffer[At(readPos, b, BlockSize)] = Validity
             PROVE  /\ Len(received) < Len(sent)
                    /\ \A offset \in 0 .. BlockSize - 1 :
                          receiveBuffer[At(readPos, b, offset)] = BlockByte(Len(received) + 1, b, offset)
  BY DEF ValidIsCurrent
<1>1. SendInv /\ RingPart /\ Receiving /\ TypeOK /\ readPos = StripeAt(Reading - 1)
  BY DEF RingInv, RingPart, Receiving, SendInv
<1>2. Validity # 0 /\ BlockSize \in 0 .. BlockSize /\ BlockSize \in Nat
  BY ByteAssumption, Sizes
<1>3. PICK n \in Nat : n = Len(received)
  BY <1>1, LenProperties DEF TypeOK
<1>4. Reading = n + 1
  BY <1>3 DEF Reading
<1>5. /\ Reading \in DOMAIN sent
      /\ \A offset \in 0 .. BlockSize - 1 :
            receiveBuffer[At(readPos, b, offset)] = BlockByte(Reading, b, offset)
  <2>1. CASE rPc = "poll"
    <3>1. Reading \in DOMAIN sent /\ Posted(Reading, b)
      BY <1>1, <1>2, <2>1, FoundByte
    <3>2. sent[Reading].at = readPos /\ Open = Reading /\ Reading >= Open
      <4>1. sent[Reading].at = readPos
        BY <1>1, <3>1 DEF SendInv, Stripes
      <4>2. Open = Reading
        BY <2>1 DEF Open, Settled
      <4>3. Reading >= Reading
        BY <1>3, <1>4
      <4> QED BY <4>1, <4>2, <4>3
    <3>3. InRing(Reading, b, BlockSize) # 0
      BY <1>2, <3>2 DEF InRing
    <3>4. Complete(Reading, b)
      BY <1>1, <3>1, <3>2, <3>3 DEF RingPart, Whole
    <3>5. \A o \in 0 .. BlockSize - 1 : o \in 0 .. BlockSize
      BY <1>2
    <3> QED BY <3>1, <3>2, <3>4, <3>5 DEF Complete, InRing
  <2>2. CASE rPc = "decode"
    <3>1. Enough /\ Settled
      BY <1>1, <2>2 DEF Receiving, Settled
    <3>2. Reading \in DOMAIN sent
      BY <1>1, <3>1, ReadingDone
    <3>3. b \in receivedBlocks
      BY <1>2, <3>1 DEF Enough
    <3>4. \A o \in 0 .. BlockSize - 1 : o \in 0 .. BlockSize
      BY <1>2
    <3> QED BY <3>1, <3>2, <3>3, <3>4 DEF Enough
  <2> QED BY <2>1, <2>2
<1>6. Len(received) < Len(sent)
  <2>1. PICK m \in Nat : m = Len(sent) /\ DOMAIN sent = 1 .. m
    BY <1>1, LenProperties DEF TypeOK
  <2> QED BY <1>3, <1>4, <1>5, <2>1
<1> QED BY <1>3, <1>4, <1>5, <1>6

(* For every ring, payload and schedule a validity word that receive()     *)
(* finds in the stripe it waits for stands behind a block of that stripe,  *)
(* all of which has arrived.                                               *)
THEOREM ValidBelongs == NoSpare => (Spec => []ValidIsCurrent)
<1> SUFFICES ASSUME NoSpare PROVE Spec => []ValidIsCurrent
  OBVIOUS
<1>1. Spec => []RingInv
  BY RingKept
<1> QED BY <1>1, RingValid, PTL

-----------------------------------------------------------------------------
(* The refinement *)

Payloads == [i \in DOMAIN sent |-> sent[i].data]
Answers == [i \in DOMAIN received |-> IF i \in Miscalculated THEN sent[i].data ELSE received[i]]
Answered == [i \in DOMAIN received |-> sent[i].data]

LEMMA AsFunction ==
  ASSUME NEW T, NEW s \in Seq(T)
  PROVE  s = [i \in 1 .. Len(s) |-> s[i]]
  OBVIOUS

(* A message whose calculation failed aside, what was returned was sent. *)
LEMMA AnswersRight == Returned => Answers = Answered
BY Zenon DEF Returned, Answers, Answered

LEMMA ChannelTypes ==
  ASSUME RingInv
  PROVE  /\ Len(sent) \in Nat /\ DOMAIN sent = 1 .. Len(sent) /\ sent \in Seq(SentStripe)
         /\ Len(received) \in Nat /\ DOMAIN received = 1 .. Len(received)
         /\ Payloads \in Seq(Message) /\ Len(Payloads) = Len(sent)
         /\ Answered \in Seq(Message) /\ Len(Answered) = Len(received)
         /\ Answers = Answered
         /\ DOMAIN received \subseteq DOMAIN sent
<1>1. SendInv /\ TypeOK /\ Receiving
  BY DEF RingInv, RingPart, SendInv
<1>2. PICK n \in Nat : n = Len(sent) /\ DOMAIN sent = 1 .. n
  BY <1>1, LenProperties DEF TypeOK
<1>3. PICK r \in Nat : r = Len(received) /\ DOMAIN received = 1 .. r
  BY <1>1, LenProperties DEF TypeOK
<1>4. DOMAIN received \subseteq DOMAIN sent
  BY <1>1, ReceivedSent
<1>5. \A i \in DOMAIN sent : sent[i].data \in Message
  <2>1. \A i \in DOMAIN sent : sent[i] \in SentStripe
    BY <1>1, Parts, Messages DEF SenderPart
  <2> QED BY <2>1 DEF SentStripe
<1>6. Payloads = [i \in 1 .. n |-> sent[i].data] /\ \A i \in 1 .. n : sent[i].data \in Message
  BY <1>2, <1>5 DEF Payloads
<1>7. Payloads \in Seq(Message) /\ Len(Payloads) = n
  BY <1>6
<1>8. Answered = [i \in 1 .. r |-> sent[i].data] /\ \A i \in 1 .. r : sent[i].data \in Message
  BY <1>3, <1>4, <1>5 DEF Answered
<1>9. Answered \in Seq(Message) /\ Len(Answered) = r
  BY <1>8
<1>10. Answers = Answered
  BY <1>1, AnswersRight DEF Receiving
<1>11. sent \in Seq(SentStripe)
  BY <1>1 DEF TypeOK
<1> QED BY <1>2, <1>3, <1>4, <1>7, <1>9, <1>10, <1>11

LEMMA ChannelInit == Init => Channel!ChanInit
<1> SUFFICES ASSUME Init PROVE Channel!ChanInit
  OBVIOUS
<1>1. sent = <<>> /\ received = <<>> /\ DOMAIN sent = {} /\ DOMAIN received = {}
  BY DEF Init
<1>2. Payloads = <<>>
  BY <1>1 DEF Payloads
<1>3. Answers = <<>>
  BY <1>1 DEF Answers
<1> QED BY <1>2, <1>3 DEF Channel!ChanInit, Payloads, Answers

(* Stripes between the receiver and the sender fit the ring. *)
LEMMA FitsStripes ==
  ASSUME NEW a \in Nat, NEW n \in Nat, StripeAt(n) <= StripeAt(a) + Size
  PROVE  n - a < (Size \div Stripe) + 1
<1> DEFINE c == Stripe
           q == Size \div c
<1>1. c \in Nat /\ c > 0 /\ Size \in Nat
  BY StripePositive, Sizes
<1>2. /\ q \in Int /\ Size = (c * q) + (Size % c) /\ Size % c \in 0 .. c - 1
  <2> HIDE DEF c
  <2> QED BY <1>1
<1>3. n * c <= (a * c) + Size
  BY DEF StripeAt
<1> HIDE DEF c, q
<1>4. SUFFICES ASSUME a + (q + 1) <= n PROVE FALSE
  BY <1>2 DEF c, q
<1>5. PICK d \in Nat : n = (a + (q + 1)) + d
  <2>1. n - (a + (q + 1)) \in Nat /\ n = (a + (q + 1)) + (n - (a + (q + 1)))
    BY <1>2, <1>4
  <2> QED BY <2>1
<1>6. n * c = (a * c) + (((c * q) + c) + (d * c)) /\ d * c \in Nat /\ c * q \in Int /\ a * c \in Nat
  <2>1. \A v \in Nat : \A x, y \in Int : \A z \in Nat :
            ((v + (x + 1)) + z) * y = (v * y) + (((y * x) + y) + (z * y))
    OBVIOUS
  <2>2. d * c \in Nat /\ c * q \in Int /\ a * c \in Nat
    BY <1>1, <1>2
  <2>3. c \in Int
    BY <1>1
  <2> QED BY <1>2, <1>5, <2>1, <2>2, <2>3
<1> QED BY <1>1, <1>2, <1>3, <1>6

LEMMA RoomInChannel ==
  ASSUME RingInv, sPc = "idle"
  PROVE  Len(sent) - Len(received) < (Size \div Stripe) + 1
<1>1. SendInv /\ readPos = StripeAt(Reading - 1)
  BY DEF RingInv, RingPart, Receiving
<1>2. PICK n \in Nat : n = Len(sent)
  BY ChannelTypes
<1>3. PICK r \in Nat : r = Len(received)
  BY ChannelTypes
<1>4. PICK a \in Nat : a = Reading - 1 /\ a <= r
  <2>1. Reading - 1 \in Nat
    BY <1>1, RingAhead
  <2>2. Reading = r \/ Reading = r + 1
    BY <1>3 DEF Reading
  <2>3. Reading - 1 <= r
    BY <1>3, <2>2
  <2> QED BY <2>1, <2>3
<1>5. sendPos = StripeAt(n) /\ sendPos <= readPos + Size
  BY <1>1, <1>2, RingAhead DEF SendInv, Progress
<1>6. StripeAt(n) <= StripeAt(a) + Size
  BY <1>1, <1>4, <1>5
<1>7. n - a < (Size \div Stripe) + 1
  BY <1>6, FitsStripes
<1>8. Size \div Stripe \in Int
  <2>1. Stripe \in Nat /\ Stripe > 0 /\ Size \in Nat
    BY StripePositive, Sizes
  <2> DEFINE c == Stripe
  <2> HIDE DEF c
  <2>2. Size \div c \in Int
    BY <2>1 DEF c
  <2> QED BY <2>2 DEF c
<1>9. n - r < (Size \div Stripe) + 1
  <2> DEFINE q == Size \div Stripe
  <2>1. q \in Int /\ n - a < q + 1
    BY <1>7, <1>8
  <2> HIDE DEF q
  <2>2. n - r < q + 1
    BY <1>4, <2>1
  <2> QED BY <2>2 DEF q
<1> QED BY <1>2, <1>3, <1>9

(* send() starts a message of its own, with room left in the channel. *)
LEMMA SendIsSend ==
  ASSUME RingInv, NEW m \in Message, StartSend(m)
  PROVE  Channel!Send(m)
<1> DEFINE n == Len(sent)
           record == [data |-> m, at |-> sendPos]
<1>1. /\ sPc = "idle" /\ sent' = Append(sent, record)
      /\ received' = received /\ Miscalculated' = Miscalculated
  BY DEF StartSend, receiverVars, Miscalculated
<1>2. /\ n \in Nat /\ DOMAIN sent = 1 .. n /\ sent \in Seq(SentStripe)
      /\ DOMAIN received \subseteq DOMAIN sent
      /\ Payloads \in Seq(Message) /\ Len(Payloads) = n
      /\ Len(Answers) = Len(received) /\ Answers = Answered
  BY ChannelTypes
<1>3. record \in SentStripe /\ record.data = m
  <2>1. sendPos \in Nat
    BY RingAhead DEF RingInv
  <2> QED BY <2>1 DEF SentStripe
<1> HIDE DEF record
<1>4. /\ DOMAIN sent' = 1 .. (n + 1) /\ sent'[n + 1] = record
      /\ \A i \in 1 .. n : sent'[i] = sent[i]
  <2>1. /\ Append(sent, record) \in Seq(SentStripe) /\ Len(Append(sent, record)) = n + 1
        /\ Append(sent, record)[n + 1] = record
        /\ \A i \in 1 .. n : Append(sent, record)[i] = sent[i]
    BY <1>2, <1>3, AppendProperties
  <2>2. DOMAIN Append(sent, record) = 1 .. (n + 1)
    BY <2>1, LenProperties
  <2> QED BY <1>1, <2>1, <2>2
<1>5. Payloads' = Append(Payloads, m)
  <2>1. /\ Len(Append(Payloads, m)) = n + 1 /\ Append(Payloads, m) \in Seq(Message)
        /\ Append(Payloads, m)[n + 1] = m
        /\ \A i \in 1 .. n : Append(Payloads, m)[i] = Payloads[i]
    BY <1>2, AppendProperties
  <2>2. /\ Payloads' = [i \in 1 .. (n + 1) |-> sent'[i].data]
        /\ \A i \in 1 .. n : Payloads[i] = sent[i].data
    BY <1>2, <1>4 DEF Payloads
  <2>3. \A i \in 1 .. (n + 1) : sent'[i].data = Append(Payloads, m)[i]
    <3> SUFFICES ASSUME NEW i \in 1 .. (n + 1) PROVE sent'[i].data = Append(Payloads, m)[i]
      OBVIOUS
    <3>1. i \in 1 .. n \/ i = n + 1
      BY <1>2
    <3> QED BY <1>3, <1>4, <2>1, <2>2, <3>1
  <2>4. Append(Payloads, m) = [i \in 1 .. (n + 1) |-> Append(Payloads, m)[i]]
    BY <2>1, AsFunction
  <2> HIDE DEF n
  <2> QED BY <2>2, <2>3, <2>4
<1>6. Answers' = Answers
  <2>1. \A i \in DOMAIN received : sent'[i] = sent[i]
    BY <1>2, <1>4
  <2> QED BY <1>1, <2>1, Zenon DEF Answers
<1>7. Len(Payloads) - Len(Answers) < (Size \div Stripe) + 1
  BY <1>1, <1>2, RoomInChannel
<1> QED BY <1>5, <1>6, <1>7, Zenon DEF Payloads, Answers, Channel!Send, Channel!InFlight

(* receive() copies out the oldest message not yet received. *)
LEMMA CopyIsReceive ==
  ASSUME RingInv, RingInv', CopyPayload
  PROVE  Channel!Receive
<1>1. rPc = "copy" /\ rPc' = "zero" /\ sent' = sent
  BY DEF CopyPayload, senderVars
<1>2. PICK r \in Nat : /\ r = Len(received) /\ DOMAIN received = 1 .. r
                       /\ Answered \in Seq(Message) /\ Len(Answered) = r /\ Answers = Answered
  BY ChannelTypes
<1>3. PICK n \in Nat : n = Len(sent) /\ DOMAIN sent = 1 .. n /\ Len(Payloads) = n
  BY ChannelTypes
<1>4. r + 1 \in 1 .. n
  <2>1. Reading = r + 1 /\ Settled
    BY <1>1, <1>2 DEF Reading, Settled
  <2>2. Reading \in DOMAIN sent
    BY <2>1, ReadingDone DEF RingInv, RingPart
  <2> QED BY <1>3, <2>1, <2>2
<1>5. Answers' = Answered' /\ DOMAIN received' = 1 .. (r + 1)
  <2>1. Returned'
    BY DEF RingInv, RingPart, Receiving
  <2>2. Answers' = Answered'
    BY <1>1, <2>1, Zenon DEF Returned, Answers, Answered
  <2>3. received \in Seq(Seq(Byte))
    BY DEF RingInv, SendInv, TypeOK
  <2>4. DOMAIN received' = 1 .. (r + 1)
    <3> DEFINE payload == [i \in 1 .. receiveSize |->
                              receiveBuffer[At(readPos, i \div BlockSize, i % BlockSize)]]
    <3>1. received' = Append(received, payload)
      BY DEF CopyPayload
    <3> HIDE DEF payload
    <3>2. received \in Seq(Seq(Byte) \union {payload})
      BY <2>3
    <3> QED BY <1>2, <3>1, <3>2
  <2> QED BY <2>2, <2>4
<1>6. Answered' = Append(Answered, Payloads[r + 1])
  <2> DEFINE m == Payloads[r + 1]
  <2>1. m = sent[r + 1].data /\ m \in Message
    BY <1>3, <1>4, ChannelTypes DEF Payloads
  <2> HIDE DEF m
  <2>2. /\ Append(Answered, m) \in Seq(Message) /\ Len(Append(Answered, m)) = r + 1
        /\ Append(Answered, m)[r + 1] = m
        /\ \A i \in 1 .. r : Append(Answered, m)[i] = Answered[i]
    BY <1>2, <2>1, AppendProperties
  <2>3. /\ Answered' = [i \in 1 .. (r + 1) |-> sent[i].data]
        /\ \A i \in 1 .. r : Answered[i] = sent[i].data
    BY <1>1, <1>2, <1>5 DEF Answered
  <2>4. \A i \in 1 .. (r + 1) : sent[i].data = Append(Answered, m)[i]
    <3> SUFFICES ASSUME NEW i \in 1 .. (r + 1) PROVE sent[i].data = Append(Answered, m)[i]
      OBVIOUS
    <3>1. i \in 1 .. r \/ i = r + 1
      BY <1>2
    <3> QED BY <2>1, <2>2, <2>3, <3>1
  <2>5. Append(Answered, m) = [i \in 1 .. (r + 1) |-> Append(Answered, m)[i]]
    BY <2>2, AsFunction
  <2> QED BY <2>3, <2>4, <2>5 DEF m
<1>7. Payloads' = Payloads
  BY <1>1 DEF Payloads
<1>8. /\ Answers' = Append(Answers, Payloads[Len(Answers) + 1])
      /\ Len(Payloads) - Len(Answers) > 0
  <2>1. Answers' = Append(Answers, Payloads[Len(Answers) + 1])
    BY <1>2, <1>5, <1>6
  <2>2. n - r > 0
    BY <1>4
  <2> QED BY <1>2, <1>3, <2>1, <2>2
<1> QED BY <1>7, <1>8, Zenon DEF Payloads, Answers, Channel!Receive, Channel!InFlight

LEMMA ChannelStep == RingInv /\ RingInv' /\ [Next]_vars => [Channel!ChanNext]_(Channel!chanVars)
<1> SUFFICES ASSUME RingInv, RingInv', [Next]_vars PROVE [Channel!ChanNext]_(Channel!chanVars)
  OBVIOUS
<1>1. CASE UNCHANGED <<sent, received>>
  <2>1. Payloads' = Payloads
    BY <1>1 DEF Payloads
  <2>2. Returned /\ Returned'
    BY DEF RingInv, RingPart, Receiving
  <2>3. Answers = Answered /\ Answers' = Answered'
    BY <2>2, Zenon DEF Returned, Answers, Answered
  <2>4. Answered' = Answered
    BY <1>1 DEF Answered
  <2>5. Answers' = Answers
    BY <2>3, <2>4
  <2> QED BY <2>1, <2>5, Zenon DEF Payloads, Answers, Channel!chanVars
<1>2. CASE CopyPayload
  BY <1>2, CopyIsReceive DEF Channel!ChanNext
<1>3. ASSUME NEW m \in Message, StartSend(m) PROVE Channel!ChanNext
  BY <1>3, SendIsSend DEF Channel!ChanNext
<1>4. \/ UNCHANGED <<sent, received>> \/ CopyPayload \/ \E m \in Message : StartSend(m)
  BY DEF Next, Sender, Receiver, WriteToSendBuffer, PostRead, PollRead, PollError, PostData,
         Encode, PostParity, PostFull, PlaceByte, ExecuteRead, LandRead, Break, StartReceive,
         PollBlock, PollAgain, EnoughBlocks, Decode, ReadSize, AllocateResult,
         ZeroReceiveBuffer, AdvanceReadPos, vars, senderVars, nicVars, receiverVars
<1> QED BY <1>1, <1>2, <1>3, <1>4

(* For every ring of stripes, code, payload and schedule, what receive()   *)
(* returns is what send() was given, whole, in order and once, a message   *)
(* whose encode or decode failed excepted, and never more messages are     *)
(* under way than stripes fit the ring, and one.                           *)
THEOREM StripesAreChannel == NoSpare => (Spec => ImplementsChannel)
<1> SUFFICES ASSUME NoSpare PROVE Spec => ImplementsChannel
  OBVIOUS
<1>1. Spec => []RingInv
  BY RingKept
<1> QED BY <1>1, ChannelInit, ChannelStep, PTL DEF Spec, ImplementsChannel, Channel!ChanSpec

-----------------------------------------------------------------------------
(* The send queues *)

(* The stripes that queue pair b has been given its block of, or never will *)
Pending(b) == b \in Due(Len(sent)) /\ Ahead(b)
Last(b) == IF Pending(b) THEN Len(sent) - 1 ELSE Len(sent)

(* The slots one queue pair's blocks of stripes f + 1 to n take: one each, *)
(* and one more for a block that the end of the ring divides               *)
Laps(f, n) == StripeAt(n) \div Size - StripeAt(f) \div Size
Slots(f, n) == (n - f) + (IF Size % Unit = 0 THEN 0 ELSE Laps(f, n))
ReadOn(b) == IF reading # "none" /\ readQp = b THEN 1 ELSE 0

(* The reads that have landed since queue pair b had its slots back *)
Turns(b) == ((readQp - 1) - b) + (IF b < readQp THEN 0 ELSE K + M)
                + (IF reading = "landed" THEN 1 ELSE 0)

(* Queue pair b had its slots back when receive() was known to have taken  *)
(* f stripes; each read since has granted ReadStripes more.                *)
Since(b, f) == /\ sqUsed[b] <= Slots(f, Last(b)) + ReadOn(b)
               /\ currentRemoteReceive <= StripeAt(f + (Turns(b) * ReadStripes))

Reclaimed == /\ \E c \in Nat : currentRemoteReceive = StripeAt(c)
             /\ \E v \in Nat : readValue = StripeAt(v)
             /\ \A b \in Block : \E f \in Nat : Since(b, f)

ErrorsMeanBroken == \A i \in DOMAIN cq : cq[i] = "error" => broken # {}

SlotInv == ErrorsMeanBroken /\ QueuesSuffice /\ (sPc = "failed" \/ Reclaimed)

LEMMA StripeOrder == \A n, m \in Nat : StripeAt(n) <= StripeAt(m) <=> n <= m
<1> SUFFICES ASSUME NEW n \in Nat, NEW m \in Nat PROVE StripeAt(n) <= StripeAt(m) <=> n <= m
  OBVIOUS
<1> DEFINE x == StripeAt(n)
           y == StripeAt(m)
<1>1. x \in Nat /\ y \in Nat /\ Stripe \in Nat /\ Stripe > 0
  BY StripeRoom, StripePositive, Sizes
<1>2. (n < m => x + Stripe <= y) /\ (m < n => y + Stripe <= x) /\ (n = m => x = y)
  BY StripeRoom
<1> HIDE DEF x, y
<1>3. x <= y <=> n <= m
  BY <1>1, <1>2
<1> QED BY <1>3 DEF x, y

(* The stripes of one ring, and of one read *)
LEMMA ReadRoom ==
  \E d \in Nat : \E r \in 0 .. Stripe - 1 :
      /\ d = Size \div Stripe /\ r = Size % Stripe /\ Size = (Stripe * d) + r /\ d >= 1
      /\ ReadStripes = d + (IF r >= BlockAt(K) THEN 1 ELSE 0)
      /\ ReadStripes \in Nat /\ d <= ReadStripes /\ ReadStripes >= 1
<1> DEFINE c == Stripe
           d == Size \div c
           r == Size % c
<1>1. c \in Nat /\ c > 0 /\ Size \in Nat /\ c <= Size
  BY StripePositive, Sizes
<1>2. d \in Int /\ Size = (c * d) + r /\ r \in 0 .. c - 1 /\ d >= 1
  <2> HIDE DEF c
  <2> QED BY <1>1
<1>3. ReadStripes = d + (IF r >= BlockAt(K) THEN 1 ELSE 0)
  BY DEF ReadStripes, BlockAt
<1> HIDE DEF d, r
<1>4. ReadStripes = d \/ ReadStripes = d + 1
  BY <1>2, <1>3
<1>5. d \in Nat /\ ReadStripes \in Nat /\ d <= ReadStripes /\ ReadStripes >= 1
  BY <1>2, <1>4
<1> QED BY <1>2, <1>3, <1>5 DEF d, r

(* A read grants ReadStripes stripes: as many fit behind the position it   *)
(* brings, the parity blocks of the last one perhaps not.                  *)
LEMMA Granting ==
  ASSUME NEW a \in Nat, NEW n \in Nat, StripeAt(n) + BlockAt(K) <= StripeAt(a) + Size
  PROVE  n + 1 <= a + ReadStripes
<1>1. PICK d \in Nat, r \in 0 .. Stripe - 1 :
          /\ d = Size \div Stripe /\ Size = (Stripe * d) + r
          /\ ReadStripes = d + (IF r >= BlockAt(K) THEN 1 ELSE 0)
  BY ReadRoom
<1> DEFINE x == StripeAt(n)
           y == StripeAt(a)
           e == BlockAt(K)
<1>2. x \in Nat /\ y \in Nat /\ e \in Nat /\ Size \in Nat /\ x + e <= y + Size
  BY StripeRoom, BlockRoom, Sizes
<1>3. x <= y + Size
  <2> HIDE DEF x, y, e
  <2> QED BY <1>2
<1>4. n - a < d + 1
  BY <1>1, <1>3, FitsStripes
<1>5. CASE n = a + d
  <2>1. x = y + (Stripe * d)
    <3>1. Stripe \in Nat
      BY Sizes
    <3> DEFINE c == Stripe
    <3>2. x = (a + d) * c /\ y = a * c /\ c \in Nat
      BY <1>5, <3>1 DEF StripeAt
    <3> HIDE DEF c, x, y
    <3>3. x = y + (c * d)
      BY <3>2
    <3> QED BY <3>3 DEF c
  <2> DEFINE z == Stripe * d
  <2>2. z \in Nat /\ r \in Nat /\ x = y + z /\ Size = z + r
    BY <1>1, <2>1, Sizes
  <2> HIDE DEF x, y, e, z
  <2>3. r >= e
    BY <1>2, <2>2
  <2>4. ReadStripes = d + 1
    BY <1>1, <2>3 DEF e
  <2> QED BY <1>5, <2>4
<1>6. CASE n # a + d
  <2>1. ReadStripes \in Nat /\ d <= ReadStripes
    BY <1>1, ReadRoom
  <2> QED BY <1>4, <1>6, <2>1
<1> QED BY <1>5, <1>6

LEMMA RingDivision ==
  ASSUME NEW x \in Nat
  PROVE  x \div Size \in Nat /\ x = (Size * (x \div Size)) + Cell(x) /\ Cell(x) \in 0 .. Size - 1
BY Sizes DEF Cell

LEMMA LapOrder ==
  ASSUME NEW x \in Nat, NEW y \in Nat, NEW k \in Nat
  PROVE  /\ x <= y => x \div Size <= y \div Size
         /\ y <= x + (k * Size) => y \div Size <= (x \div Size) + k
         /\ Size * k <= y => k <= y \div Size
<1> DEFINE p == x \div Size
           q == y \div Size
           u == Cell(x)
           v == Cell(y)
<1>1. /\ p \in Nat /\ x = (Size * p) + u /\ u \in 0 .. Size - 1
      /\ q \in Nat /\ y = (Size * q) + v /\ v \in 0 .. Size - 1
      /\ Size \in Nat /\ Size > 0
  BY RingDivision, Sizes
<1> HIDE DEF p, q, u, v
<1>2. \A i, j \in Nat : i < j => (Size * i) + Size <= Size * j
  <2> SUFFICES ASSUME NEW i \in Nat, NEW j \in Nat, i < j PROVE (Size * i) + Size <= Size * j
    OBVIOUS
  <2>1. (i * Size) + Size <= j * Size
    BY <1>1, Apart
  <2> QED BY <1>1, <2>1
<1>3. x <= y => p <= q
  <2> SUFFICES ASSUME x <= y, q < p PROVE FALSE
    BY <1>1
  <2>1. (Size * q) + Size <= Size * p
    BY <1>1, <1>2
  <2> DEFINE f == Size * q
             g == Size * p
  <2>2. f \in Nat /\ g \in Nat /\ f + Size <= g /\ x = g + u /\ y = f + v
    BY <1>1, <2>1
  <2> HIDE DEF f, g
  <2> QED BY <1>1, <2>2
<1>4. y <= x + (k * Size) => q <= p + k
  <2> SUFFICES ASSUME y <= x + (k * Size), p + k < q PROVE FALSE
    BY <1>1
  <2>1. (Size * (p + k)) + Size <= Size * q
    BY <1>1, <1>2
  <2>2. Size * (p + k) = (Size * p) + (k * Size)
    BY <1>1
  <2> DEFINE f == Size * q
             g == Size * p
             h == k * Size
  <2>3. f \in Nat /\ g \in Nat /\ h \in Nat /\ g + h + Size <= f /\ x = g + u /\ y = f + v /\ y <= x + h
    BY <1>1, <2>1, <2>2
  <2> HIDE DEF f, g, h
  <2> QED BY <1>1, <2>3
<1>5. Size * k <= y => k <= q
  <2> SUFFICES ASSUME Size * k <= y, q < k PROVE FALSE
    BY <1>1
  <2>1. (Size * q) + Size <= Size * k
    BY <1>1, <1>2
  <2> DEFINE f == Size * q
             g == Size * k
  <2>2. f \in Nat /\ g \in Nat /\ f + Size <= g /\ y = f + v /\ g <= y
    BY <1>1, <2>1
  <2> HIDE DEF f, g
  <2> QED BY <1>1, <2>2
<1> QED BY <1>3, <1>4, <1>5 DEF p, q

(* More stripes take more slots. *)
LEMMA SlotsGrow ==
  ASSUME NEW f \in Nat, NEW n \in Nat, NEW m \in Nat, n <= m
  PROVE  /\ Slots(f, n) \in Int /\ Slots(f, m) \in Int /\ Slots(f, n) <= Slots(f, m)
         /\ f <= n => Slots(f, n) >= 0
         /\ Laps(n, m) \in Nat /\ Laps(f, n) + Laps(n, m) = Laps(f, m)
<1> DEFINE p == StripeAt(f) \div Size
           q == StripeAt(n) \div Size
           r == StripeAt(m) \div Size
<1>1. StripeAt(f) \in Nat /\ StripeAt(n) \in Nat /\ StripeAt(m) \in Nat
  BY StripeRoom
<1>2. p \in Nat /\ q \in Nat /\ r \in Nat
  BY <1>1, RingDivision
<1>3. q <= r
  BY <1>1, StripeOrder, LapOrder
<1>4. f <= n => p <= q
  BY <1>1, StripeOrder, LapOrder
<1>5. Laps(f, n) = q - p /\ Laps(n, m) = r - q /\ Laps(f, m) = r - p
  BY DEF Laps
<1> HIDE DEF p, q, r
<1>6. /\ Slots(f, n) = (n - f) + (IF Size % Unit = 0 THEN 0 ELSE q - p)
      /\ Slots(f, m) = (m - f) + (IF Size % Unit = 0 THEN 0 ELSE r - p)
  BY <1>5 DEF Slots
<1>7. CASE Size % Unit = 0
  BY <1>2, <1>3, <1>4, <1>5, <1>6, <1>7
<1>8. CASE Size % Unit # 0
  BY <1>2, <1>3, <1>4, <1>5, <1>6, <1>8
<1> QED BY <1>7, <1>8

LEMMA Times == \A i, j, k \in Nat : i * j \in Nat /\ (j <= k => i * j <= i * k)
<1> SUFFICES ASSUME NEW i \in Nat, NEW j \in Nat, NEW k \in Nat, j <= k PROVE i * j <= i * k
  OBVIOUS
<1>1. PICK d \in Nat : k = j + d
  <2>1. k - j \in Nat /\ k = j + (k - j)
    OBVIOUS
  <2> QED BY <2>1
<1>2. i * k = (i * j) + (i * d) /\ i * d \in Nat /\ i * j \in Nat
  BY <1>1
<1> QED BY <1>2

(* What one read grants is little longer than the ring. *)
LEMMA ReadLength == ReadStripes * Stripe <= Size + (M * Unit)
<1>1. PICK d \in Nat, r \in 0 .. Stripe - 1 :
          /\ Size = (Stripe * d) + r
          /\ ReadStripes = d + (IF r >= BlockAt(K) THEN 1 ELSE 0)
          /\ ReadStripes \in Nat
  BY ReadRoom
<1> DEFINE c == Stripe
           e == BlockAt(K)
           h == M * Unit
           z == c * d
<1>2. c \in Nat /\ e \in Nat /\ h \in Nat /\ Size \in Nat /\ c = e + h
  <2>1. Unit \in Nat /\ K \in Nat /\ M \in Nat /\ Stripe \in Nat /\ Size \in Nat
    BY Sizes
  <2> DEFINE u == Unit
  <2>2. u \in Nat
    BY <2>1
  <2>3. e = K * u /\ h = M * u /\ c = (K + M) * u
    BY DEF BlockAt, Stripe
  <2> HIDE DEF u, c, e, h
  <2>4. c = e + h /\ e \in Nat /\ h \in Nat
    BY <2>1, <2>2, <2>3
  <2> QED BY <2>1, <2>4 DEF c
<1>3. z \in Nat /\ Size = z + r /\ r \in Nat
  BY <1>1, <1>2
<1> HIDE DEF c, e, h
<1>4. CASE r >= e
  <2>1. ReadStripes = d + 1
    BY <1>1, <1>4 DEF e
  <2>2. ReadStripes * c = z + c
    BY <1>2, <2>1
  <2> HIDE DEF z
  <2>3. z + c <= Size + h
    BY <1>2, <1>3, <1>4
  <2> QED BY <2>2, <2>3 DEF c, h
<1>5. CASE ~(r >= e)
  <2>1. ReadStripes = d
    BY <1>1, <1>5 DEF e
  <2>2. ReadStripes * c = z
    BY <1>2, <2>1
  <2> HIDE DEF z
  <2>3. z <= Size + h
    BY <1>2, <1>3
  <2> QED BY <2>2, <2>3 DEF c, h
<1> QED BY <1>4, <1>5

LEMMA ProductSum ==
  ASSUME NEW v \in Nat, NEW w \in Nat, NEW x \in Nat, NEW y \in Nat
  PROVE  ((v * w) + (x + 1)) * y = (v * (w * y)) + ((y * x) + y)
OBVIOUS

(* From one read on a queue pair to its next, the ring ends so often. *)
LEMMA LapsBound ==
  ASSUME NEW f \in Nat, NEW n \in Nat, NEW d \in Nat, d = Size \div Stripe,
         n <= f + (((K + M - 1) * ReadStripes) + (d + 1))
  PROVE  Laps(f, n) <= K + M + M + 1
<1> DEFINE i == K + M - 1
           c == Stripe
           R == ReadStripes
           g == R * c
           h == M * Unit
           X == (i * R) + (d + 1)
           k == i + M + 2
<1>1. i \in Nat /\ c \in Nat /\ R \in Nat /\ g \in Nat /\ h \in Nat /\ M \in Nat /\ Size \in Nat
      /\ c <= Size /\ Unit \in Nat /\ K \in Nat
  <2>1. c \in Nat /\ c <= Size /\ Size \in Nat /\ K \in Nat /\ K > 0 /\ M \in Nat /\ Unit \in Nat
    BY Sizes
  <2>2. R \in Nat
    BY ReadRoom
  <2>3. i \in Nat
    BY <2>1
  <2>4. g \in Nat /\ h \in Nat
    <3> HIDE DEF c, R
    <3> QED BY <2>1, <2>2
  <2> QED BY <2>1, <2>2, <2>3, <2>4
<1>2. g <= Size + h
  BY ReadLength
<1>3. c * d <= Size
  <2>1. PICK r \in 0 .. Stripe - 1 : Size = (Stripe * d) + r
    BY ReadRoom
  <2> DEFINE z == c * d
  <2>2. z \in Nat /\ Size = z + r /\ r \in Nat
    BY <1>1, <2>1
  <2> HIDE DEF z
  <2>3. z <= Size
    BY <2>2
  <2> QED BY <2>3 DEF z
<1>4. i * h <= M * Size
  <2>1. i * Unit <= Size
    <3> DEFINE u == Unit
    <3>1. u \in Nat /\ c = (K + M) * u
      BY <1>1 DEF Stripe
    <3>2. (K + M) * u = (i * u) + u /\ i * u \in Nat
      <4> HIDE DEF u, c
      <4> QED BY <1>1, <3>1
    <3> DEFINE w == i * u
    <3>3. w \in Nat /\ c = w + u
      BY <3>1, <3>2
    <3> HIDE DEF u, c, w
    <3>4. w <= Size
      BY <1>1, <3>1, <3>3
    <3> QED BY <3>4 DEF w, u
  <2>2. i * h = M * (i * Unit) /\ i * Unit \in Nat
    <3> DEFINE u == Unit
    <3>1. u \in Nat /\ h = M * u
      BY <1>1
    <3> HIDE DEF u, h, i
    <3>2. i * h = M * (i * u) /\ i * u \in Nat
      BY <1>1, <3>1
    <3> QED BY <3>2 DEF u
  <2> HIDE DEF i, h
  <2> QED BY <1>1, <2>1, <2>2, Times
<1>5. X \in Nat /\ X * c = (i * g) + ((c * d) + c)
  <2> HIDE DEF i, c, R
  <2>1. (i * R) + (d + 1) \in Nat
    BY <1>1
  <2>2. ((i * R) + (d + 1)) * c = (i * (R * c)) + ((c * d) + c)
    BY ProductSum, <1>1
  <2> QED BY <2>1, <2>2, Zenon
<1>6. i * g <= (i * Size) + (i * h)
  <2> HIDE DEF i, h, g
  <2>1. i * g <= i * (Size + h) /\ i * (Size + h) = (i * Size) + (i * h)
    BY <1>1, <1>2, Times
  <2> QED BY <2>1
<1>7. X * c <= k * Size
  <2> DEFINE p == i * g
             q == i * Size
             s == i * h
             t == M * Size
             z == c * d
             w == X * c
  <2>1. /\ p \in Nat /\ q \in Nat /\ s \in Nat /\ t \in Nat /\ z \in Nat
        /\ p <= q + s /\ s <= t /\ z <= Size /\ w = p + (z + c)
    <3> HIDE DEF i, c, g, h, w
    <3>1. p \in Nat /\ q \in Nat /\ s \in Nat /\ t \in Nat /\ z \in Nat
      BY <1>1
    <3> QED BY <1>3, <1>4, <1>5, <1>6, <3>1 DEF w
  <2>2. k * Size = q + t + Size + Size
    <3> HIDE DEF i
    <3> QED BY <1>1
  <2> HIDE DEF i, c, g, h, p, q, s, t, z, w, k, X
  <2>3. w <= q + t + Size + Size
    BY <1>1, <2>1
  <2> QED BY <2>2, <2>3 DEF w
<1>8. StripeAt(n) <= StripeAt(f) + (k * Size)
  <2>1. n <= f + X
    OBVIOUS
  <2> DEFINE x == StripeAt(n)
             y == StripeAt(f)
             w == X * c
             z == k * Size
  <2>2. x <= StripeAt(f + X)
    <3> HIDE DEF X, x
    <3> QED BY <1>5, <2>1, StripeOrder DEF x
  <2>3. StripeAt(f + X) = y + w
    <3>1. StripeAt(f + X) = (f + X) * c /\ y = f * c
      BY DEF StripeAt
    <3> HIDE DEF X, c, y
    <3> QED BY <1>1, <1>5, <3>1
  <2>4. x \in Nat /\ y \in Nat /\ w \in Nat /\ z \in Nat /\ w <= z
    <3>1. x \in Nat /\ y \in Nat
      BY StripeRoom
    <3>2. w \in Nat /\ z \in Nat
      <4> HIDE DEF X, c, i
      <4> QED BY <1>1, <1>5
    <3> QED BY <1>7, <3>1, <3>2
  <2> HIDE DEF x, y, w, z
  <2>5. x <= y + z
    BY <2>2, <2>3, <2>4
  <2> QED BY <2>5 DEF x, y, z
<1>9. k \in Nat /\ StripeAt(n) \in Nat /\ StripeAt(f) \in Nat
  BY <1>1, StripeRoom
<1> DEFINE p == StripeAt(f) \div Size
           q == StripeAt(n) \div Size
<1>10. p \in Nat /\ q \in Nat /\ q <= p + k
  <2> HIDE DEF k
  <2> QED BY <1>8, <1>9, LapOrder, RingDivision
<1>11. k = K + M + M + 1
  BY <1>1
<1>12. Laps(f, n) = q - p
  BY DEF Laps
<1> HIDE DEF p, q, k
<1> QED BY <1>1, <1>9, <1>10, <1>11, <1>12

LEMMA BlocksSum ==
  ASSUME NEW t \in Nat, NEW s \in Nat, NEW u \in Nat, NEW b \in Nat
  PROVE  (t * (s * u)) + (b * u) = u * ((t * s) + b)
OBVIOUS

(* A block divided by the end of the ring takes its stripe over the end. *)
LEMMA Divided ==
  ASSUME SenderPart, sent # <<>>, NEW b \in Block
  PROVE  /\ Len(Requests(b)) \in Nat
         /\ Len(Requests(b)) <= 1 + (IF Size % Unit = 0 THEN 0 ELSE Laps(Len(sent) - 1, Len(sent)))
<1> DEFINE x == Current.at
           y == BlockAt(b)
           pos == x + y
           c == Cell(pos)
<1>1. PICK t \in Nat : /\ t = Len(sent) - 1 /\ t + 1 = Len(sent) /\ x = StripeAt(t)
                       /\ x \in Nat /\ StripeAt(t + 1) = x + Stripe /\ x + Stripe \in Nat
  <2>1. Len(sent) \in DOMAIN sent /\ Current = sent[Len(sent)] /\ Current.at \in Nat
    BY LastStripe
  <2>2. Len(sent) - 1 \in Nat /\ Current.at = StripeAt(Len(sent) - 1) /\ Len(sent) \in Nat
    BY <2>1, Messages DEF SenderPart, Stripes
  <2>3. PICK t \in Nat : t = Len(sent) - 1
    BY <2>2
  <2>4. t + 1 = Len(sent)
    BY <2>2, <2>3
  <2>5. x = StripeAt(t) /\ x \in Nat
    BY <2>1, <2>2, <2>3
  <2>6. StripeAt(t + 1) = x + Stripe /\ StripeAt(t + 1) \in Nat
    BY <2>3, <2>5, StripeRoom
  <2> QED BY <2>3, <2>4, <2>5, <2>6
<1>2. /\ y \in Nat /\ y + Unit <= Stripe /\ Unit \in Nat /\ Unit > 0 /\ Stripe \in Nat
      /\ Size \in Nat /\ Size > 0
  BY BlockType, Sizes, StripePositive
<1>3. pos \in Nat /\ x <= pos /\ pos + Unit <= x + Stripe
  <2> HIDE DEF x, y
  <2> QED BY <1>1, <1>2
<1>4. PICK k \in Nat : k = pos \div Size /\ pos = (Size * k) + c /\ c \in 0 .. Size - 1
  <2> HIDE DEF pos
  <2> QED BY <1>3, RingDivision
<1>5. Requests(b) = Wraparound(pos, Unit)
  BY DEF Requests, BlockAt
<1>6. CASE Size - c >= Unit
  <2>1. Len(Requests(b)) = 1
    BY <1>5, <1>6 DEF Wraparound
  <2>2. Laps(t, t + 1) \in Nat
    BY SlotsGrow
  <2>3. Laps(Len(sent) - 1, Len(sent)) \in Nat
    BY <1>1, <2>2
  <2> QED BY <2>1, <2>3
<1>7. CASE ~(Size - c >= Unit)
  <2>1. Len(Requests(b)) = 2
    BY <1>5, <1>7 DEF Wraparound
  <2>2. Size * (k + 1) <= x + Stripe
    <3> DEFINE z == Size * k
    <3>1. Size * (k + 1) = z + Size /\ z \in Nat
      BY <1>2
    <3>2. pos = z + c /\ c \in Int /\ x \in Nat
      BY <1>1, <1>4
    <3> HIDE DEF x, y, pos, c, z
    <3>3. z + Size <= x + Stripe
      BY <1>2, <1>3, <1>7, <3>1, <3>2
    <3> QED BY <3>1, <3>3
  <2>3. k + 1 <= (x + Stripe) \div Size
    <3> DEFINE e == x + Stripe
    <3>1. e \in Nat /\ Size * (k + 1) <= e
      BY <1>1, <2>2
    <3> HIDE DEF e
    <3>2. k + 1 <= e \div Size
      BY <3>1, LapOrder
    <3> QED BY <3>2 DEF e
  <2>4. x \div Size <= k
    <3> HIDE DEF x, pos
    <3> QED BY <1>1, <1>3, <1>4, LapOrder
  <2>5. Laps(t, t + 1) >= 1
    <3> DEFINE p == x \div Size
               q == (x + Stripe) \div Size
    <3>1. p \in Nat /\ q \in Nat /\ p <= k /\ k + 1 <= q
      <4>1. x \in Nat /\ x + Stripe \in Nat
        BY <1>1
      <4> QED BY <2>3, <2>4, <4>1, RingDivision
    <3>2. Laps(t, t + 1) = q - p
      BY <1>1 DEF Laps
    <3> HIDE DEF p, q
    <3> QED BY <3>1, <3>2
  <2>6. Size % Unit # 0
    <3> SUFFICES ASSUME Size % Unit = 0 PROVE FALSE
      OBVIOUS
    <3> DEFINE u == Unit
               w == Size \div u
    <3>1. u \in Nat /\ u > 0 /\ w \in Int /\ Size = u * w
      <4>1. u \in Nat /\ u > 0 /\ Size % u = 0
        BY <1>2
      <4> HIDE DEF u
      <4> QED BY <1>2, <4>1
    <3>2. PICK j \in Nat : pos = u * j
      <4>1. K + M \in Nat /\ b \in Nat
        BY BlockType
      <4>2. x = t * ((K + M) * u) /\ y = b * u
        BY <1>1 DEF StripeAt, Stripe, BlockAt
      <4> DEFINE j == (t * (K + M)) + b
      <4>3. j \in Nat
        BY <4>1
      <4>4. pos = u * j
        <5> DEFINE s == K + M
        <5>1. s \in Nat /\ x = t * (s * u)
          BY <4>1, <4>2
        <5> HIDE DEF x, y, u, s
        <5>2. u \in Nat
          BY <3>1
        <5>3. x + y = u * ((t * s) + b)
          BY <4>1, <4>2, <5>1, <5>2, BlocksSum
        <5> QED BY <5>3 DEF s
      <4> QED BY <4>3, <4>4
    <3> DEFINE i == j - (w * k)
    <3>3. c = i * u /\ i \in Int /\ w * u = Size
      <4>1. pos = (Size * k) + c
        BY <1>4
      <4>2. c \in Int
        BY <1>4
      <4> HIDE DEF u, w, c, pos
      <4>3. c = (u * j) - ((u * w) * k)
        BY <3>1, <3>2, <4>1, <4>2
      <4> QED BY <3>1, <4>3
    <3> HIDE DEF u, w, c, i
    <3>4. i \in Nat
      <4> SUFFICES ASSUME i < 0 PROVE FALSE
        BY <3>3
      <4>1. i * u < 0
        BY <3>1, <3>3
      <4> QED BY <1>4, <3>3, <4>1
    <3>5. w \in Nat
      <4> SUFFICES ASSUME w < 0 PROVE FALSE
        BY <3>1
      <4>1. w * u < 0
        BY <3>1
      <4> QED BY <1>2, <3>3, <4>1
    <3>6. i < w
      <4> SUFFICES ASSUME w <= i PROVE FALSE
        BY <3>4, <3>5
      <4>1. u * w <= u * i
        BY <3>1, <3>4, <3>5, Times
      <4>2. u * i = c
        BY <3>1, <3>3, <3>4
      <4> QED BY <1>2, <1>4, <3>1, <4>1, <4>2
    <3>7. (i * u) + u <= w * u
      BY <3>1, <3>4, <3>5, <3>6, Apart
    <3>8. c + u <= Size
      BY <3>3, <3>7
    <3> QED BY <1>2, <1>4, <1>7, <3>8 DEF u
  <2>7. Laps(Len(sent) - 1, Len(sent)) >= 1 /\ Laps(Len(sent) - 1, Len(sent)) \in Nat
    <3>1. Laps(t, t + 1) \in Nat
      BY SlotsGrow
    <3> QED BY <1>1, <2>5, <3>1
  <2> QED BY <2>1, <2>6, <2>7
<1> QED BY <1>6, <1>7

LEMMA LastType ==
  ASSUME SenderPart, NEW b \in Block
  PROVE  /\ Len(sent) \in Nat /\ Last(b) \in Nat /\ Last(b) <= Len(sent) /\ Len(sent) <= Last(b) + 1
         /\ Pending(b) => sent # <<>> /\ Last(b) = Len(sent) - 1
<1>1. Len(sent) \in Nat
  BY Messages DEF SenderPart
<1>2. ASSUME Pending(b) PROVE sent # <<>> /\ Len(sent) - 1 \in Nat
  <2>1. sPc # "idle"
    BY <1>2 DEF Pending, Ahead, Writing
  <2>2. sent # <<>>
    BY <2>1 DEF SenderPart, Progress
  <2>3. Len(sent) \in DOMAIN sent
    BY <2>2, LastStripe
  <2> QED BY <2>2, <2>3, Messages DEF SenderPart
<1> QED BY <1>1, <1>2 DEF Last

LEMMA TurnsType ==
  ASSUME SendInv, NEW b \in Block
  PROVE  /\ Turns(b) \in Nat
         /\ reading # "landed" => Turns(b) <= K + M - 1
         /\ sqUsed[b] \in Nat /\ sqUsed[b] <= MaxSendWr /\ MaxSendWr \in Nat
<1>1. readQp \in Block /\ sqUsed[b] \in 0 .. MaxSendWr /\ MaxSendWr \in Nat
  BY BoundAssumption DEF SendInv, TypeOK
<1>2. readQp \in Nat /\ readQp < K + M /\ b \in Nat /\ b < K + M /\ K \in Nat /\ M \in Nat
  BY <1>1, BlockType, Sizes
<1>3. CASE b < readQp
  <2>1. Turns(b) = ((readQp - 1) - b) + (IF reading = "landed" THEN 1 ELSE 0)
    BY <1>2, <1>3 DEF Turns
  <2> QED BY <1>1, <1>2, <1>3, <2>1
<1>4. CASE ~(b < readQp)
  <2>1. Turns(b) = ((readQp - 1) - b) + (K + M) + (IF reading = "landed" THEN 1 ELSE 0)
    BY <1>4 DEF Turns
  <2> QED BY <1>1, <1>2, <1>4, <2>1
<1> QED BY <1>3, <1>4

(* Before its next read a queue pair has only so many blocks to send. *)
LEMMA SlotsBound ==
  ASSUME SendInv, sPc # "idle", reading # "landed", NEW b \in Block, NEW f \in Nat,
         currentRemoteReceive <= StripeAt(f + (Turns(b) * ReadStripes))
  PROVE  Slots(f, Len(sent)) <= ((K + M) * ReadStripes) + Splits + 1
<1> DEFINE R == ReadStripes
           p == (K + M - 1) * R
           c == currentRemoteReceive
<1>1. SenderPart /\ sent # <<>>
  BY Parts DEF SendInv, Progress
<1>2. PICK t \in Nat : t = Len(sent) - 1 /\ t + 1 = Len(sent) /\ Current.at = StripeAt(t)
  <2>1. Len(sent) \in DOMAIN sent /\ Current = sent[Len(sent)]
    BY <1>1, LastStripe
  <2>2. Len(sent) - 1 \in Nat /\ Current.at = StripeAt(Len(sent) - 1) /\ Len(sent) \in Nat
    BY <1>1, <2>1, Messages DEF SenderPart, Stripes
  <2>3. PICK t \in Nat : t = Len(sent) - 1
    BY <2>2
  <2> QED BY <2>2, <2>3
<1>3. PICK d \in Nat : d = Size \div Stripe /\ R \in Nat /\ d <= R
  BY ReadRoom
<1>4. K \in Nat /\ K > 0 /\ M \in Nat /\ Size \in Nat /\ p \in Nat
  <2>1. K \in Nat /\ K > 0 /\ M \in Nat /\ Size \in Nat
    BY Sizes
  <2>2. K + M - 1 \in Nat
    BY <2>1
  <2> HIDE DEF R
  <2> QED BY <1>3, <2>1, <2>2
<1>5. c <= StripeAt(f + p)
  <2>1. Turns(b) \in Nat /\ Turns(b) <= K + M - 1 /\ K + M - 1 \in Nat
    BY <1>4, TurnsType
  <2> DEFINE m == Turns(b) * R
  <2>2. m \in Nat /\ m <= p
    <3>1. R * Turns(b) <= R * (K + M - 1) /\ R * Turns(b) \in Nat
      BY <1>3, <2>1, Times
    <3>2. R * Turns(b) = m /\ R * (K + M - 1) = p
      <4> DEFINE i == Turns(b)
                 j == K + M - 1
      <4>1. i \in Nat /\ j \in Nat /\ R \in Nat
        BY <1>3, <2>1
      <4> HIDE DEF i, j, R
      <4>2. R * i = i * R /\ R * j = j * R
        BY <4>1
      <4> QED BY <4>2 DEF i, j
    <3> QED BY <3>1, <3>2
  <2>3. c <= StripeAt(f + m) /\ c \in Nat
    BY DEF SendInv, TypeOK
  <2> HIDE DEF m, p
  <2>4. f + m \in Nat /\ f + p \in Nat /\ f + m <= f + p
    BY <1>4, <2>2
  <2>5. StripeAt(f + m) <= StripeAt(f + p) /\ StripeAt(f + m) \in Nat /\ StripeAt(f + p) \in Nat
    BY <2>4, StripeOrder, StripeRoom
  <2> HIDE DEF c
  <2> QED BY <2>3, <2>5
<1>6. StripeAt(t) <= StripeAt(f + p) + Size
  <2> DEFINE x == StripeAt(t)
             y == StripeAt(f + p)
  <2>1. x \in Nat /\ y \in Nat /\ c \in Nat /\ c <= y
    <3>1. c \in Nat
      BY DEF SendInv, TypeOK
    <3>2. f + p \in Nat
      BY <1>4
    <3> HIDE DEF p, c
    <3> QED BY <1>5, <3>1, <3>2, StripeRoom
  <2>2. sendPos \in Nat /\ x <= sendPos /\ sendPos - c <= Size
    BY <1>1, <1>2, LastStripe DEF SendInv, Granted
  <2> HIDE DEF x, y, c, p
  <2>3. x <= y + Size
    BY <1>4, <2>1, <2>2
  <2> QED BY <2>3 DEF x, y
<1>7. t - (f + p) < d + 1
  <2>1. f + p \in Nat
    BY <1>4
  <2> HIDE DEF p
  <2> QED BY <1>3, <1>6, <2>1, FitsStripes
<1>8. t + 1 <= f + (p + (d + 1))
  <2> HIDE DEF p
  <2> QED BY <1>3, <1>4, <1>7
<1>9. Laps(f, t + 1) <= K + M + M + 1
  <2>1. t + 1 \in Nat
    OBVIOUS
  <2> QED BY <1>3, <1>8, <2>1, LapsBound
<1>10. Slots(f, t + 1) <= (p + (d + 1)) + Splits
  <2> DEFINE l == Laps(f, t + 1)
             s == Slots(f, t + 1)
  <2>1. s = ((t + 1) - f) + (IF Size % Unit = 0 THEN 0 ELSE l) /\ l <= K + M + M + 1
    BY <1>9 DEF Slots
  <2>2. l \in Int
    <3>1. StripeAt(f) \in Nat /\ StripeAt(t + 1) \in Nat
      BY StripeRoom
    <3>2. StripeAt(f) \div Size \in Nat /\ StripeAt(t + 1) \div Size \in Nat
      BY <3>1, RingDivision
    <3> QED BY <3>2 DEF Laps
  <2> HIDE DEF p, l, s
  <2>3. s <= (p + (d + 1)) + Splits
    <3>1. CASE Size % Unit = 0
      BY <1>3, <1>4, <1>8, <2>1, <2>2, <3>1 DEF Splits
    <3>2. CASE Size % Unit # 0
      BY <1>3, <1>4, <1>8, <2>1, <2>2, <3>2 DEF Splits
    <3> QED BY <3>1, <3>2
  <2> QED BY <2>3 DEF s
<1>11. (K + M) * R = p + R
  <2> HIDE DEF R
  <2> QED BY <1>3, <1>4
<1>12. Splits \in Nat
  BY <1>4 DEF Splits
<1> DEFINE s == Slots(f, t + 1)
<1>13. s \in Int
  BY SlotsGrow
<1>14. s <= (p + R) + Splits + 1
  <2> HIDE DEF p, s, R
  <2>1. s <= (p + (d + 1)) + Splits
    BY <1>10 DEF s
  <2> QED BY <1>3, <1>4, <1>12, <1>13, <2>1
<1> QED BY <1>2, <1>11, <1>14

(* With enough slots no request finds its queue full. *)
LEMMA NeverFull ==
  ASSUME SendInv, Reclaimed, PostFull, MaxSendWr >= ((K + M) * ReadStripes) + Splits + 2
  PROVE  FALSE
<1>1. SenderPart /\ MaxSendWr \in Nat
  BY Parts, BoundAssumption
<1> DEFINE B == ((K + M) * ReadStripes) + Splits
<1>2. B \in Nat /\ MaxSendWr >= B + 2
  <2>1. K \in Nat /\ M \in Nat /\ ReadStripes \in Nat
    BY Sizes, ReadRoom
  <2>2. Splits \in Nat
    BY <2>1 DEF Splits
  <2> DEFINE R == ReadStripes
             w == (K + M) * R
             s == Splits
  <2>3. w \in Nat /\ s \in Nat /\ MaxSendWr >= w + s + 2 /\ B = w + s
    <3>1. R \in Nat
      BY <2>1
    <3> HIDE DEF R
    <3>2. w \in Nat
      BY <2>1, <3>1
    <3> QED BY <2>2, <3>2 DEF R
  <2> HIDE DEF w, s, B, R
  <2> QED BY <1>1, <2>3
<1>3. CASE /\ sPc = "post" /\ ~Unposted(sBlock)
           /\ Len(Requests(sBlock)) > Room(sBlock)
  <2>1. PICK b \in Block : b = sBlock
    <3>1. sBlock \in 0 .. K + M /\ sBlock < K + M
      BY <1>3 DEF SendInv, TypeOK, Progress
    <3> QED BY <3>1, Sizes DEF Block
  <2>2. b \in Due(Len(sent))
    <3>1. CASE b < K
      <4>1. b \in Data
        BY <2>1, <3>1, BlockType, Sizes DEF Data
      <4> QED BY <1>3, <2>1, <4>1 DEF Due, Coding, Unposted, IsCoded
    <3>2. CASE ~(b < K)
      <4>1. sPc = "post" /\ b = sBlock /\ b \in Nat /\ K \in Nat /\ K > 0
        BY <1>3, <2>1, BlockType, Sizes
      <4>2. b >= K /\ b # 0
        BY <3>2, <4>1
      <4>3. IsCoded
        BY <4>1, <4>2 DEF SendInv, Progress
      <4> QED BY <4>2, <4>3 DEF Due, Coding, IsCoded
    <3> QED BY <3>1, <3>2
  <2>3. Pending(b)
    <3>1. b >= sBlock
      BY <2>1, BlockType
    <3> QED BY <1>3, <2>2, <3>1 DEF Pending, Ahead
  <2>4. sent # <<>> /\ Last(b) = Len(sent) - 1 /\ Last(b) \in Nat /\ Len(sent) \in Nat
    BY <1>1, <2>3, LastType
  <2>5. reading = "none"
    BY <1>3 DEF SendInv, Granted, Writing
  <2>6. PICK f \in Nat : Since(b, f)
    BY DEF Reclaimed
  <2>7. Slots(f, Len(sent)) <= B + 1
    BY <1>3, <2>5, <2>6, SlotsBound DEF Since
  <2>8. PICK t \in Nat : t = Last(b) /\ t + 1 = Len(sent)
    BY <2>4
  <2> DEFINE n == Len(Requests(b))
             l == Laps(t, t + 1)
             u == Laps(f, t)
             v == Laps(f, t + 1)
  <2>9. n \in Nat /\ n <= 1 + (IF Size % Unit = 0 THEN 0 ELSE l)
    BY <1>1, <2>4, <2>8, Divided
  <2>10. l \in Nat /\ u + l = v /\ u \in Int
    <3>1. l \in Nat /\ u + l = v
      <4>1. t + 1 \in Nat /\ t <= t + 1
        OBVIOUS
      <4> QED BY <4>1, SlotsGrow
    <3>2. StripeAt(f) \in Nat /\ StripeAt(t) \in Nat
      BY StripeRoom
    <3>3. StripeAt(f) \div Size \in Nat /\ StripeAt(t) \div Size \in Nat
      BY <3>2, RingDivision
    <3>4. u \in Int
      BY <3>3 DEF Laps
    <3> QED BY <3>1, <3>4
  <2>11. sqUsed[b] <= (t - f) + (IF Size % Unit = 0 THEN 0 ELSE u) /\ sqUsed[b] \in Nat
    <3>1. ReadOn(b) = 0
      BY <2>5 DEF ReadOn
    <3>2. sqUsed[b] <= Slots(f, t) + 0
      BY <2>6, <2>8, <3>1 DEF Since
    <3>3. Slots(f, t) \in Int
      BY SlotsGrow
    <3>4. sqUsed[b] <= Slots(f, t)
      BY <3>2, <3>3
    <3> QED BY <3>4, TurnsType DEF Slots
  <2>12. ((t + 1) - f) + (IF Size % Unit = 0 THEN 0 ELSE v) <= B + 1
    BY <2>7, <2>8 DEF Slots
  <2>13. n > MaxSendWr - sqUsed[b]
    BY <1>3, <2>1 DEF Room
  <2> DEFINE s == sqUsed[b]
  <2> HIDE DEF n, l, u, v, B, s
  <2>14. CASE Size % Unit = 0
    <3>1. n <= 1 /\ s <= t - f /\ (t + 1) - f <= B + 1
      BY <2>9, <2>11, <2>12, <2>14 DEF s
    <3> QED BY <1>1, <1>2, <2>9, <2>11, <2>13, <3>1 DEF s
  <2>15. CASE Size % Unit # 0
    <3>1. n <= 1 + l /\ s <= (t - f) + u /\ ((t + 1) - f) + v <= B + 1
      BY <2>9, <2>11, <2>12, <2>15 DEF s
    <3> QED BY <1>1, <1>2, <2>9, <2>10, <2>11, <2>13, <3>1 DEF s
  <2> QED BY <2>14, <2>15
<1>4. CASE Writing /\ reading = "none" /\ Room(readQp) <= 0
  <2>1. PICK b \in Block : b = readQp
    BY DEF SendInv, TypeOK
  <2>2. PICK f \in Nat : Since(b, f)
    BY DEF Reclaimed
  <2>3. sPc # "idle"
    BY <1>4 DEF Writing
  <2>4. Slots(f, Len(sent)) <= B + 1
    BY <1>4, <2>2, <2>3, SlotsBound DEF Since
  <2>5. /\ Last(b) \in Nat /\ Len(sent) \in Nat /\ Last(b) <= Len(sent)
    BY <1>1, LastType
  <2>6. ReadOn(b) = 0
    BY <1>4 DEF ReadOn
  <2> DEFINE x == Slots(f, Last(b))
             y == Slots(f, Len(sent))
             s == sqUsed[b]
  <2>7. x \in Int /\ y \in Int /\ x <= y
    BY <2>5, SlotsGrow
  <2>8. s <= x + 0 /\ s \in Nat
    BY <2>2, <2>6, TurnsType DEF Since
  <2>9. MaxSendWr - s <= 0
    BY <1>4, <2>1 DEF Room
  <2>10. y <= B + 1
    BY <2>4
  <2> HIDE DEF x, y, s, B
  <2> QED BY <1>1, <1>2, <2>7, <2>8, <2>9, <2>10
<1> QED BY <1>3, <1>4 DEF PostFull

-----------------------------------------------------------------------------
(* The slots of a queue pair from step to step *)

LEMMA SinceKept ==
  ASSUME SendInv, SendInv', NEW b \in Block, NEW f \in Nat, Since(b, f), Last(b) <= Last(b)',
         UNCHANGED <<readQp, currentRemoteReceive>>, sqUsed'[b] = sqUsed[b],
         reading' = reading \/ (reading \in {"posted", "executed"} /\ reading' \in {"posted", "executed"})
  PROVE  Since(b, f)'
<1>1. Last(b) \in Nat /\ Last(b)' \in Nat /\ sqUsed[b] \in Nat
  <2>1. SenderPart /\ SenderPart'
    BY Parts, PartsPrimed
  <2>2. \A c \in Block : Last(c)' \in Nat
    <3>1. ASSUME NEW c \in Block PROVE Len(sent') \in Nat /\ (Pending(c)' => Len(sent') - 1 \in Nat)
      <4>1. sent' \in Seq(SentStripe) /\ Len(sent') \in Nat
        BY <2>1, LenProperties DEF SenderPart, SenderTypes, SentStripe
      <4>2. ASSUME Pending(c)' PROVE Len(sent') # 0
        <5>1. sPc' # "idle"
          BY <4>2 DEF Pending, Ahead, Writing
        <5>2. sent' # <<>>
          BY <2>1, <5>1 DEF SenderPart, Progress
        <5> QED BY <4>1, <5>2, EmptySeq
      <4> QED BY <4>1, <4>2
    <3> QED BY <3>1 DEF Last
  <2> QED BY <2>1, <2>2, LastType, TurnsType
<1>2. Turns(b)' = Turns(b) /\ ReadOn(b)' = ReadOn(b) /\ ReadOn(b) \in 0 .. 1
  BY DEF Turns, ReadOn
<1>3. PICK m \in Nat, n \in Nat : m = Last(b) /\ n = Last(b)'
  BY <1>1
<1>4. Slots(f, m) \in Int /\ Slots(f, n) \in Int /\ Slots(f, m) <= Slots(f, n)
  BY <1>3, SlotsGrow
<1>5. sqUsed[b] <= Slots(f, m) + ReadOn(b)
  BY <1>3 DEF Since
<1>6. sqUsed'[b] <= Slots(f, n) + ReadOn(b)'
  <2> DEFINE x == Slots(f, m)
             y == Slots(f, n)
             r == ReadOn(b)
  <2>1. sqUsed[b] <= x + r /\ x \in Int /\ y \in Int /\ x <= y /\ r \in 0 .. 1 /\ sqUsed[b] \in Nat
    BY <1>1, <1>2, <1>4, <1>5
  <2> HIDE DEF x, y, r
  <2>2. sqUsed[b] <= y + r
    BY <2>1
  <2> QED BY <1>2, <2>2 DEF y, r
<1>7. sqUsed'[b] <= Slots(f, Last(b))' + ReadOn(b)'
  BY <1>3, <1>6 DEF Slots, Laps, StripeAt, Stripe, Unit
<1>8. currentRemoteReceive' <= StripeAt(f + (Turns(b) * ReadStripes))'
  BY <1>2 DEF Since, StripeAt, Stripe, Unit, ReadStripes
<1> QED BY <1>7, <1>8 DEF Since

LEMMA ReclaimedKept ==
  ASSUME SendInv, SendInv', Reclaimed, \A b \in Block : Last(b) <= Last(b)',
         UNCHANGED <<readQp, currentRemoteReceive, sqUsed, readValue, reading>>
  PROVE  Reclaimed'
<1>1. ASSUME NEW b \in Block PROVE \E f \in Nat : Since(b, f)'
  <2>1. PICK f \in Nat : Since(b, f)
    BY DEF Reclaimed
  <2>2. Since(b, f)'
    BY <2>1, SinceKept
  <2> QED BY <2>2
<1>2. (\E c \in Nat : currentRemoteReceive' = StripeAt(c)) /\ (\E v \in Nat : readValue' = StripeAt(v))
  BY DEF Reclaimed
<1>3. Block' = Block
  BY DEF Block
<1> QED BY <1>1, <1>2, <1>3 DEF Reclaimed, StripeAt, Stripe, Unit

LEMMA LastSame ==
  ASSUME SendInv, UNCHANGED sent, \A b \in Due(Len(sent)) : Ahead(b)' => Ahead(b)
  PROVE  \A b \in Block : Last(b) <= Last(b)'
<1> SUFFICES ASSUME NEW b \in Block PROVE Last(b) <= Last(b)'
  OBVIOUS
<1>1. SenderPart
  BY Parts
<1>2. Last(b) \in Nat /\ Len(sent) \in Nat /\ Last(b) <= Len(sent)
  BY <1>1, LastType
<1>3. Due(Len(sent))' = Due(Len(sent))
  BY DEF Due, Coding, Data, Block
<1>4. Pending(b)' => Pending(b)
  BY <1>3 DEF Pending
<1>5. CASE Pending(b)
  <2>1. Last(b) = Len(sent) - 1
    BY <1>5 DEF Last
  <2>2. Last(b)' = Len(sent) - 1 \/ Last(b)' = Len(sent)
    BY DEF Last
  <2> QED BY <1>2, <2>1, <2>2
<1>6. CASE ~Pending(b)
  <2>1. Last(b)' = Len(sent)
    BY <1>4, <1>6 DEF Last
  <2> QED BY <1>2, <2>1
<1> QED BY <1>5, <1>6

(* Steps that move neither the reads nor the slots *)
LEMMA StillSlots ==
  ASSUME SendInv, SendInv', Reclaimed, UNCHANGED senderVars,
         UNCHANGED <<currentRemoteReceive, sqUsed, readValue, reading>>
  PROVE  Reclaimed'
<1>1. UNCHANGED <<sent, sPc, sBlock, sendPos, readQp>>
  BY DEF senderVars
<1>2. \A b \in Due(Len(sent)) : Ahead(b)' => Ahead(b)
  BY <1>1 DEF Ahead, Writing, BlockEnd, Current, BlockAt, Unit
<1>3. \A b \in Block : Last(b) <= Last(b)'
  BY <1>1, <1>2, LastSame
<1> QED BY <1>1, <1>3, ReclaimedKept

LEMMA StartSendSlots ==
  ASSUME SendInv, SendInv', Reclaimed, NEW m \in Message, StartSend(m)
  PROVE  Reclaimed'
<1>1. UNCHANGED <<readQp, currentRemoteReceive, sqUsed, readValue, reading>>
  BY DEF StartSend, nicVars
<1>2. SenderPart /\ sPc = "idle" /\ sent' = Append(sent, [data |-> m, at |-> sendPos])
  BY Parts DEF StartSend
<1>3. Len(sent) \in Nat /\ Len(sent') = Len(sent) + 1
  <2>1. sent \in Seq(SentStripe) /\ [data |-> m, at |-> sendPos] \in SentStripe
    BY DEF SendInv, TypeOK, SentStripe
  <2> QED BY <1>2, <2>1, LenProperties, AppendProperties
<1>4. ASSUME NEW b \in Block PROVE Last(b) <= Last(b)'
  <2>1. ~Pending(b)
    BY <1>2 DEF Pending, Ahead, Writing
  <2>2. Last(b) = Len(sent)
    BY <2>1 DEF Last
  <2>3. Last(b)' = Len(sent') - 1 \/ Last(b)' = Len(sent')
    BY DEF Last
  <2> QED BY <1>3, <2>2, <2>3
<1> QED BY <1>1, <1>4, ReclaimedKept

LEMMA WriteSlots ==
  ASSUME SendInv, SendInv', Reclaimed, WriteToSendBuffer \/ Encode
  PROVE  Reclaimed'
<1>1. UNCHANGED <<sent, readQp, currentRemoteReceive, sqUsed, readValue, reading>>
  BY DEF WriteToSendBuffer, Encode, nicVars
<1>2. \A b \in Due(Len(sent)) : Ahead(b)' => Ahead(b)
  BY WriteAhead, EncodeAhead
<1>3. \A b \in Block : Last(b) <= Last(b)'
  BY <1>1, <1>2, LastSame
<1> QED BY <1>1, <1>3, ReclaimedKept

(* The block in hand takes the slots that its stripe adds. *)
LEMMA PostSlots ==
  ASSUME SendInv, SendInv', Reclaimed, PostData \/ PostParity
  PROVE  Reclaimed'
<1>1. PICK b \in Block : NowPosted(b)
  BY DataPosted, ParityPosted
<1>2. /\ sPc = "post" /\ sBlock = b
      /\ UNCHANGED <<sent, readQp, reading, readValue, currentRemoteReceive>>
      /\ \A c \in Block : Ahead(c)' <=> c >= b + 1
      /\ SenderPart /\ b \in Nat
  BY <1>1, Parts, BlockType DEF NowPosted
<1>3. \A c \in Block : c \in Nat /\ (Ahead(c) <=> c >= b)
  BY <1>2, BlockType DEF Ahead, Writing
<1>4. \A c \in Due(Len(sent)) : Ahead(c)' => Ahead(c)
  <2> SUFFICES ASSUME NEW c \in Due(Len(sent)), Ahead(c)' PROVE Ahead(c)
    OBVIOUS
  <2>1. c \in Block
    BY DueBlocks
  <2>2. c >= b + 1 /\ c \in Nat
    BY <1>2, <1>3, <2>1
  <2> QED BY <1>2, <1>3, <2>1, <2>2
<1>5. \A c \in Block : Last(c) <= Last(c)'
  BY <1>2, <1>4, LastSame
<1>6. CASE sqUsed' = sqUsed
  BY <1>2, <1>5, <1>6, ReclaimedKept
<1>7. CASE b \in Due(Len(sent))
  <2> DEFINE n == Len(Requests(b))
  <2>1. sqUsed' = [sqUsed EXCEPT ![b] = @ + n] /\ sqUsed \in [Block -> 0 .. MaxSendWr]
    BY <1>1, <1>7 DEF NowPosted, Post, SendInv, TypeOK
  <2>2. sent # <<>> /\ reading = "none"
    BY <1>2 DEF SendInv, Progress, Granted, Writing
  <2>3. n \in Nat /\ n <= 1 + (IF Size % Unit = 0 THEN 0 ELSE Laps(Len(sent) - 1, Len(sent)))
    BY <1>2, <2>2, Divided
  <2>4. Pending(b) /\ ~Pending(b)'
    <3>1. Ahead(b) /\ ~Ahead(b)'
      BY <1>2, <1>3
    <3> QED BY <1>7, <3>1 DEF Pending
  <2>5. PICK t \in Nat : t = Last(b) /\ t = Len(sent) - 1 /\ t + 1 = Len(sent) /\ t + 1 = Last(b)'
    <3>1. Last(b) \in Nat /\ Last(b) = Len(sent) - 1 /\ Len(sent) \in Nat
      BY <1>2, <2>4, LastType
    <3>2. Last(b)' = Len(sent)
      BY <1>2, <2>4 DEF Last
    <3>3. PICK t \in Nat : t = Last(b)
      BY <3>1
    <3> QED BY <3>1, <3>2, <3>3
  <2>6. ASSUME NEW c \in Block PROVE \E f \in Nat : Since(c, f)'
    <3>1. PICK f \in Nat : Since(c, f)
      BY DEF Reclaimed
    <3>2. CASE c # b
      <4>1. sqUsed'[c] = sqUsed[c]
        BY <2>1, <3>2
      <4> QED BY <1>2, <1>5, <3>1, <4>1, SinceKept
    <3>3. CASE c = b
      <4>1. sqUsed'[b] = sqUsed[b] + n /\ sqUsed[b] \in Nat
        BY <2>1, TurnsType
      <4>2. sqUsed[b] <= Slots(f, t) + ReadOn(b)
        BY <2>5, <3>1, <3>3 DEF Since
      <4>3. ReadOn(b) = 0 /\ ReadOn(b)' = 0 /\ Turns(b)' = Turns(b)
        BY <1>2, <2>2 DEF ReadOn, Turns
      <4> DEFINE l == Laps(t, t + 1)
                 u == Laps(f, t)
                 v == Laps(f, t + 1)
                 s == sqUsed[b]
      <4>4. l \in Nat /\ u + l = v /\ u \in Int
        <5>1. t + 1 \in Nat /\ t <= t + 1
          OBVIOUS
        <5>2. l \in Nat /\ u + l = v
          BY <5>1, SlotsGrow
        <5>3. StripeAt(f) \in Nat /\ StripeAt(t) \in Nat
          BY StripeRoom
        <5>4. StripeAt(f) \div Size \in Nat /\ StripeAt(t) \div Size \in Nat
          BY <5>3, RingDivision
        <5>5. u \in Int
          BY <5>4 DEF Laps
        <5> QED BY <5>2, <5>5
      <4>5. Slots(f, t) = (t - f) + (IF Size % Unit = 0 THEN 0 ELSE u)
        BY DEF Slots
      <4>6. Slots(f, t + 1) = ((t + 1) - f) + (IF Size % Unit = 0 THEN 0 ELSE v)
        BY DEF Slots
      <4>7. n <= 1 + (IF Size % Unit = 0 THEN 0 ELSE l)
        BY <2>3, <2>5
      <4> DEFINE x == Slots(f, t)
                 y == Slots(f, t + 1)
      <4>8. s + n <= y + 0
        <5>1. s \in Nat /\ s <= x + 0 /\ n \in Nat
          BY <2>3, <4>1, <4>2, <4>3
        <5>2. /\ x = (t - f) + (IF Size % Unit = 0 THEN 0 ELSE u)
              /\ y = ((t + 1) - f) + (IF Size % Unit = 0 THEN 0 ELSE v)
              /\ n <= 1 + (IF Size % Unit = 0 THEN 0 ELSE l)
          BY <4>5, <4>6, <4>7
        <5> HIDE DEF l, u, v, s, n, x, y
        <5>3. CASE Size % Unit = 0
          <6>1. x = t - f /\ y = (t + 1) - f /\ n <= 1
            BY <5>2, <5>3
          <6> QED BY <5>1, <6>1
        <5>4. CASE Size % Unit # 0
          <6>1. x = (t - f) + u /\ y = ((t + 1) - f) + v /\ n <= 1 + l
            BY <5>2, <5>4
          <6> QED BY <4>4, <5>1, <6>1
        <5> QED BY <5>3, <5>4
      <4>9. sqUsed'[b] <= Slots(f, t + 1) + ReadOn(b)'
        BY <4>1, <4>3, <4>8
      <4>10. sqUsed'[b] <= Slots(f, Last(b))' + ReadOn(b)'
        BY <2>5, <4>9 DEF Slots, Laps, StripeAt, Stripe, Unit
      <4>11. currentRemoteReceive' <= StripeAt(f + (Turns(b) * ReadStripes))'
        BY <1>2, <3>1, <3>3, <4>3 DEF Since, StripeAt, Stripe, Unit, ReadStripes
      <4> QED BY <3>3, <4>10, <4>11 DEF Since
    <3> QED BY <3>2, <3>3
  <2>7. (\E c \in Nat : currentRemoteReceive' = StripeAt(c)) /\ (\E v \in Nat : readValue' = StripeAt(v))
    BY <1>2 DEF Reclaimed
  <2>8. Block' = Block
    BY DEF Block
  <2> QED BY <2>6, <2>7, <2>8 DEF Reclaimed, StripeAt, Stripe, Unit
<1>8. b \notin Due(Len(sent)) => sqUsed' = sqUsed
  BY <1>1 DEF NowPosted
<1> QED BY <1>6, <1>7, <1>8

-----------------------------------------------------------------------------
(* A read from step to step *)

LEMMA SlotTypes ==
  ASSUME SendInv
  PROVE  /\ SenderPart /\ sqUsed \in [Block -> 0 .. MaxSendWr] /\ MaxSendWr \in Nat
         /\ readQp \in Block /\ broken \subseteq Block /\ cq \in Seq({"read", "error"})
         /\ \A b \in Block : Last(b) \in Nat /\ Slots(0, Last(b)) \in Int
BY Parts, BoundAssumption, LastType, SlotsGrow DEF SendInv, TypeOK

LEMMA AheadSame ==
  ASSUME UNCHANGED <<sPc, sBlock, sent, sendPos>>
  PROVE  /\ \A b \in Block : Last(b)' = Last(b)
         /\ Block' = Block
<1>1. \A b \in Block : Ahead(b)' <=> Ahead(b)
  BY DEF Ahead, Writing, BlockEnd, Current, BlockAt, Unit
<1>2. Block' = Block /\ Due(Len(sent))' = Due(Len(sent))
  BY DEF Block, Due, Coding, Data
<1>3. \A b \in Block : Pending(b)' <=> Pending(b)
  BY <1>1, <1>2 DEF Pending
<1> QED BY <1>2, <1>3 DEF Last

(* The read itself takes a slot. *)
LEMMA PostReadSlots ==
  ASSUME SendInv, SendInv', Reclaimed, PostRead
  PROVE  Reclaimed'
<1>1. /\ reading = "none" /\ reading' = "posted" /\ sqUsed' = [sqUsed EXCEPT ![readQp] = @ + 1]
      /\ UNCHANGED <<sPc, sBlock, sent, sendPos, readQp, readValue, currentRemoteReceive>>
  BY DEF PostRead, senderVars
<1>2. Block' = Block /\ \A b \in Block : Last(b)' = Last(b)
  BY <1>1, AheadSame
<1>3. ASSUME NEW b \in Block PROVE \E f \in Nat : Since(b, f)'
  <2>1. PICK f \in Nat : Since(b, f)
    BY DEF Reclaimed
  <2>2. Turns(b)' = Turns(b) /\ ReadOn(b) = 0 /\ ReadOn(b)' = (IF readQp = b THEN 1 ELSE 0)
    BY <1>1 DEF Turns, ReadOn
  <2>3. sqUsed'[b] = sqUsed[b] + ReadOn(b)' /\ sqUsed[b] \in Nat
    <3>1. sqUsed \in [Block -> 0 .. MaxSendWr] /\ sqUsed[b] \in Nat
      BY SlotTypes, TurnsType
    <3>2. CASE readQp = b
      BY <1>1, <2>2, <3>1, <3>2
    <3>3. CASE readQp # b
      BY <1>1, <2>2, <3>1, <3>3
    <3> QED BY <3>2, <3>3
  <2>4. PICK m \in Nat : m = Last(b)
    BY SlotTypes
  <2>5. Slots(f, m) \in Int /\ sqUsed[b] <= Slots(f, m) + 0
    BY <2>1, <2>2, <2>4, SlotsGrow DEF Since
  <2>6. sqUsed'[b] <= Slots(f, m) + ReadOn(b)'
    <3> DEFINE x == Slots(f, m)
               r == IF readQp = b THEN 1 ELSE 0
               s == sqUsed[b]
    <3>1. x \in Int /\ s <= x + 0 /\ s \in Nat /\ r \in 0 .. 1
      BY <2>3, <2>5
    <3>2. sqUsed'[b] = s + r /\ ReadOn(b)' = r
      BY <2>2, <2>3
    <3> HIDE DEF x, r, s
    <3>3. s + r <= x + r
      BY <3>1
    <3> QED BY <3>2, <3>3 DEF x
  <2>7. sqUsed'[b] <= Slots(f, Last(b))' + ReadOn(b)'
    BY <1>2, <2>4, <2>6 DEF Slots, Laps, StripeAt, Stripe, Unit
  <2>8. currentRemoteReceive' <= StripeAt(f + (Turns(b) * ReadStripes))'
    BY <1>1, <2>1, <2>2 DEF Since, StripeAt, Stripe, Unit, ReadStripes
  <2> QED BY <2>7, <2>8 DEF Since
<1>4. (\E c \in Nat : currentRemoteReceive' = StripeAt(c)) /\ (\E v \in Nat : readValue' = StripeAt(v))
  BY <1>1 DEF Reclaimed
<1> QED BY <1>2, <1>3, <1>4 DEF Reclaimed, StripeAt, Stripe, Unit

LEMMA ExecuteReadSlots ==
  ASSUME RingInv, SendInv', Reclaimed, ExecuteRead
  PROVE  Reclaimed'
<1>1. /\ reading = "posted" /\ reading' = "executed" /\ readValue' = readPos
      /\ UNCHANGED <<sPc, sBlock, sent, sendPos, readQp, currentRemoteReceive, sqUsed>>
  BY DEF ExecuteRead, senderVars
<1>2. Block' = Block /\ \A b \in Block : Last(b)' = Last(b)
  BY <1>1, AheadSame
<1>3. SendInv /\ readPos = StripeAt(Reading - 1) /\ Reading - 1 \in Nat
  BY RingAhead DEF RingInv, RingPart, Receiving
<1>4. ASSUME NEW b \in Block PROVE \E f \in Nat : Since(b, f)'
  <2>1. PICK f \in Nat : Since(b, f)
    BY DEF Reclaimed
  <2>2. Last(b) <= Last(b)'
    <3>1. Last(b) \in Nat /\ Last(b)' = Last(b)
      BY <1>2, <1>3, SlotTypes
    <3> QED BY <3>1
  <2>3. Since(b, f)'
    BY <1>1, <1>3, <2>1, <2>2, SinceKept
  <2> QED BY <2>3
<1>5. (\E c \in Nat : currentRemoteReceive' = StripeAt(c)) /\ (\E v \in Nat : readValue' = StripeAt(v))
  BY <1>1, <1>3 DEF Reclaimed
<1> QED BY <1>2, <1>4, <1>5 DEF Reclaimed, StripeAt, Stripe, Unit

(* What a read brings is no more than ReadStripes beyond what was known:   *)
(* when it was posted the stripes before were not known to be received.    *)
LEMMA ReadGrants ==
  ASSUME RingInv, NEW c \in Nat, NEW v \in Nat, currentRemoteReceive = StripeAt(c), readValue = StripeAt(v)
  PROVE  v <= c + ReadStripes
<1>1. SendInv /\ SenderPart /\ Receiving /\ readPos = StripeAt(Reading - 1)
  BY Parts DEF RingInv, RingPart, Receiving
<1>2. Reading - 1 \in Nat /\ Reading \in Nat /\ Open \in Nat /\ (Open = Reading \/ Open = Reading + 1)
  BY <1>1, RingAhead DEF Open
<1>3. readValue <= readPos /\ sendPos - currentRemoteReceive <= Size
  BY <1>1 DEF SendInv, Granted
<1>4. v <= Reading - 1
  BY <1>1, <1>2, <1>3, StripeOrder
<1>5. CASE v = 0
  <2>1. ReadStripes \in Nat
    BY ReadRoom
  <2> QED BY <1>5, <2>1
<1>6. CASE v # 0
  <2>1. Done(v)
    <3>1. v \in 1 .. Open - 1
      BY <1>2, <1>4, <1>6
    <3> QED BY <1>1, <3>1 DEF Receiving
  <2>2. v \in DOMAIN sent /\ Cardinality(Due(v)) = K /\ \A b \in Due(v) : Posted(v, b)
    BY <2>1 DEF Done
  <2>3. K \in Nat /\ K > 0 /\ M \in Nat
    BY Sizes
  <2>4. PICK b \in Due(v) : b + 1 >= K
    <3>1. CASE ~Coding(v)
      <4>1. K - 1 \in Due(v)
        BY <2>3, <3>1 DEF Due, Data
      <4> QED BY <2>3, <4>1
    <3>2. CASE Coding(v)
      <4>1. Due(v) = (0 .. K + M - 1) \ {0}
        BY <3>2 DEF Due, Block
      <4>2. K + M # 1
        <5> SUFFICES ASSUME K + M = 1 PROVE FALSE
          OBVIOUS
        <5>1. Due(v) = {}
          BY <2>3, <4>1
        <5>2. Cardinality(Due(v)) = 0
          BY <5>1, FS_EmptySet
        <5> QED BY <2>2, <2>3, <5>2
      <4>3. K + M - 1 \in Due(v) /\ (K + M - 1) + 1 >= K
        BY <2>3, <4>1, <4>2
      <4> QED BY <4>3
    <3> QED BY <3>1, <3>2
  <2>5. b \in Block /\ b \in Nat /\ sent[v].at + BlockAt(b) + Unit <= sendPos
    <3>1. b \in Block
      BY DueBlocks
    <3> QED BY <1>1, <2>2, <3>1, PostedBehind, BlockType
  <2>6. PICK t \in Nat : t = v - 1 /\ t + 1 = v
    <3>1. v - 1 \in Nat
      BY <1>6
    <3> QED BY <3>1
  <2>7. sent[v].at = StripeAt(t) /\ StripeAt(t) \in Nat /\ StripeAt(c) \in Nat
    BY <1>1, <2>2, <2>6, StripeRoom DEF SenderPart, Stripes
  <2>8. BlockAt(K) <= BlockAt(b) + Unit /\ BlockAt(K) \in Nat /\ BlockAt(b) \in Nat /\ Unit \in Nat
    <3>1. Unit \in Nat /\ Unit > 0
      BY StripePositive, Sizes
    <3>2. BlockAt(b) \in Nat /\ BlockAt(K) \in Nat
      BY <2>3, <2>5, BlockRoom
    <3>3. Unit * K <= Unit * (b + 1)
      BY <2>3, <2>4, <2>5, <3>1, Times
    <3>4. Unit * K = BlockAt(K) /\ Unit * (b + 1) = BlockAt(b) + Unit
      <4> DEFINE u == Unit
      <4>1. u \in Nat
        BY <3>1
      <4> HIDE DEF u
      <4>2. u * K = K * u /\ u * (b + 1) = (b * u) + u
        BY <2>3, <2>5, <4>1
      <4> QED BY <4>2 DEF u, BlockAt
    <3> QED BY <3>1, <3>2, <3>3, <3>4
  <2>9. StripeAt(t) + BlockAt(K) <= StripeAt(c) + Size
    <3> DEFINE x == StripeAt(t)
               y == StripeAt(c)
               k == BlockAt(K)
               z == BlockAt(b)
               u == Unit
    <3>1. /\ x \in Nat /\ y \in Nat /\ k \in Nat /\ z \in Nat /\ u \in Nat /\ k <= z + u
          /\ x + z + u <= sendPos /\ sendPos - y <= Size /\ sendPos \in Nat /\ Size \in Nat
      BY <1>1, <1>3, <2>5, <2>7, <2>8, RingAhead
    <3> HIDE DEF x, y, k, z, u
    <3>2. x + k <= y + Size
      BY <3>1
    <3> QED BY <3>2 DEF x, y, k
  <2> QED BY <2>6, <2>9, Granting
<1> QED BY <1>5, <1>6

LEMMA LandReadSlots ==
  ASSUME RingInv, SendInv', Reclaimed, LandRead
  PROVE  Reclaimed'
<1>1. /\ reading = "executed" /\ reading' = "landed" /\ currentRemoteReceive' = readValue
      /\ UNCHANGED <<sPc, sBlock, sent, sendPos, readQp, readValue, sqUsed>>
  BY DEF LandRead, senderVars
<1>2. Block' = Block /\ \A b \in Block : Last(b)' = Last(b)
  BY <1>1, AheadSame
<1>3. SendInv
  BY DEF RingInv
<1>4. PICK c \in Nat : currentRemoteReceive = StripeAt(c)
  BY DEF Reclaimed
<1>5. PICK v \in Nat : readValue = StripeAt(v)
  BY DEF Reclaimed
<1>6. v <= c + ReadStripes /\ ReadStripes \in Nat
  BY <1>4, <1>5, ReadGrants, ReadRoom
<1>7. ASSUME NEW b \in Block PROVE \E f \in Nat : Since(b, f)'
  <2>1. PICK f \in Nat : Since(b, f)
    BY DEF Reclaimed
  <2> DEFINE t == Turns(b)
             R == ReadStripes
  <2>2. t \in Nat /\ R \in Nat
    BY <1>3, <1>6, TurnsType
  <2>3. Turns(b)' = t + 1 /\ ReadOn(b)' = ReadOn(b)
    <3>1. ReadOn(b)' = ReadOn(b)
      BY <1>1 DEF ReadOn
    <3>2. readQp \in Nat /\ b \in Nat /\ K \in Nat /\ M \in Nat
      BY <1>3, SlotTypes, BlockType, Sizes
    <3>3. CASE b < readQp
      <4>1. Turns(b) = ((readQp - 1) - b) + 0 + 0 /\ Turns(b)' = ((readQp - 1) - b) + 0 + 1
        BY <1>1, <3>3 DEF Turns
      <4> QED BY <3>1, <3>2, <4>1
    <3>4. CASE ~(b < readQp)
      <4>1. Turns(b) = ((readQp - 1) - b) + (K + M) + 0 /\ Turns(b)' = ((readQp - 1) - b) + (K + M) + 1
        BY <1>1, <3>4 DEF Turns
      <4> QED BY <3>1, <3>2, <4>1
    <3> QED BY <3>3, <3>4
  <2> DEFINE p == t * R
             q == (t + 1) * R
  <2>4. p \in Nat /\ q \in Nat /\ q = p + R
    <3> HIDE DEF t, R
    <3>1. t * R \in Nat /\ (t + 1) * R = (t * R) + R
      BY <2>2
    <3> QED BY <2>2, <3>1
  <2>5. c <= f + p
    <3>1. StripeAt(c) <= StripeAt(f + p)
      BY <1>4, <2>1 DEF Since
    <3>2. f + p \in Nat
      BY <2>4
    <3> HIDE DEF p
    <3> QED BY <3>1, <3>2, StripeOrder
  <2>6. StripeAt(v) <= StripeAt(f + q)
    <3>1. v <= f + q /\ f + q \in Nat
      <4>1. v <= c + R
        BY <1>6
      <4> HIDE DEF p, q, R
      <4> QED BY <2>2, <2>4, <2>5, <4>1
    <3> HIDE DEF q
    <3> QED BY <3>1, StripeOrder
  <2>7. currentRemoteReceive' <= StripeAt(f + (Turns(b) * ReadStripes))'
    BY <1>1, <1>5, <2>3, <2>6 DEF StripeAt, Stripe, Unit, ReadStripes
  <2>8. sqUsed'[b] <= Slots(f, Last(b))' + ReadOn(b)'
    BY <1>1, <1>2, <2>1, <2>3 DEF Since, Slots, Laps, StripeAt, Stripe, Unit
  <2> QED BY <2>7, <2>8 DEF Since
<1>8. (\E d \in Nat : currentRemoteReceive' = StripeAt(d)) /\ (\E d \in Nat : readValue' = StripeAt(d))
  BY <1>1, <1>5
<1> QED BY <1>2, <1>7, <1>8 DEF Reclaimed, StripeAt, Stripe, Unit

(* The queue pair that carried the read has its slots back, the others wait *)
(* for their turn.                                                         *)
LEMMA PollReadTurns ==
  ASSUME SendInv, PollRead, NEW b \in Block
  PROVE  Turns(b)' = IF b = readQp THEN 0 ELSE Turns(b)
<1> DEFINE N == K + M
           q == readQp
<1>1. q \in Nat /\ q < N /\ b \in Nat /\ b < N /\ N \in Nat
  BY SlotTypes, BlockType, Sizes
<1>2. readQp' = (q + 1) % N /\ reading = "landed" /\ reading' = "none"
  BY DEF PollRead
<1>3. readQp' = IF q + 1 < N THEN q + 1 ELSE 0
  <2> HIDE DEF N, q
  <2>1. CASE q + 1 < N
    <3>1. (q + 1) % N = q + 1
      BY <1>1, <2>1
    <3> QED BY <1>2, <2>1, <3>1
  <2>2. CASE ~(q + 1 < N)
    <3>1. q + 1 = N
      BY <1>1, <2>2
    <3>2. N % N = 0
      BY <1>1
    <3> QED BY <1>2, <2>2, <3>1, <3>2
  <2> QED BY <2>1, <2>2
<1> DEFINE p == readQp'
<1>4. Turns(b) = ((q - 1) - b) + (IF b < q THEN 0 ELSE N) + 1
  BY <1>2 DEF Turns
<1>5. Turns(b)' = ((p - 1) - b) + (IF b < p THEN 0 ELSE N) + 0
  BY <1>2 DEF Turns
<1>6. p = IF q + 1 < N THEN q + 1 ELSE 0
  BY <1>3
<1> DEFINE x == ((q - 1) - b) + (IF b < q THEN 0 ELSE N) + 1
           y == ((p - 1) - b) + (IF b < p THEN 0 ELSE N) + 0
<1>7. y = IF b = q THEN 0 ELSE x
  <2> HIDE DEF N, q, p
  <2>1. CASE q + 1 < N
    <3>1. p = q + 1
      BY <1>6, <2>1
    <3>2. CASE b = q
      BY <1>1, <3>1, <3>2
    <3>3. CASE b < q
      BY <1>1, <3>1, <3>3
    <3>4. CASE q < b
      BY <1>1, <3>1, <3>4
    <3> QED BY <1>1, <3>2, <3>3, <3>4
  <2>2. CASE ~(q + 1 < N)
    <3>1. p = 0 /\ q + 1 = N
      BY <1>1, <1>6, <2>2
    <3>2. CASE b = q
      BY <1>1, <3>1, <3>2
    <3>3. CASE b # q
      <4>1. b < q
        BY <1>1, <3>1, <3>3
      <4> QED BY <1>1, <3>1, <3>3, <4>1
    <3> QED BY <3>2, <3>3
  <2> QED BY <2>1, <2>2
<1> HIDE DEF x, y
<1>8. Turns(b) = x /\ Turns(b)' = y
  BY <1>4, <1>5 DEF x, y
<1> QED BY <1>7, <1>8

(* What the receiver is known to have taken was posted entirely. *)
LEMMA TakenIsSent ==
  ASSUME RingInv, NEW c \in Nat, currentRemoteReceive = StripeAt(c), NEW b \in Block
  PROVE  c <= Last(b)
<1>1. SendInv /\ SenderPart /\ Receiving /\ readPos = StripeAt(Reading - 1)
  BY Parts DEF RingInv, RingPart, Receiving
<1>2. Reading - 1 \in Nat /\ Reading \in Nat /\ Open \in Nat /\ (Open = Reading \/ Open = Reading + 1)
  BY <1>1, RingAhead DEF Open
<1>3. c <= Reading - 1
  <2>1. /\ currentRemoteReceive <= readValue /\ readValue <= readPos
        /\ currentRemoteReceive \in Nat /\ readValue \in Nat /\ readPos \in Nat
    BY <1>1 DEF SendInv, TypeOK, Granted
  <2>2. currentRemoteReceive <= readPos
    BY <2>1
  <2> QED BY <1>1, <1>2, <2>2, StripeOrder
<1>4. /\ Len(sent) \in Nat /\ Last(b) \in Nat /\ Last(b) <= Len(sent) /\ Len(sent) <= Last(b) + 1
      /\ DOMAIN sent = 1 .. Len(sent)
  BY <1>1, LastType, Messages DEF SenderPart
<1>5. CASE c = 0
  BY <1>4, <1>5
<1>6. CASE c # 0
  <2>1. Done(c)
    <3>1. c \in 1 .. Open - 1
      BY <1>2, <1>3, <1>6
    <3> QED BY <1>1, <3>1 DEF Receiving
  <2>2. c <= Len(sent)
    BY <1>4, <2>1 DEF Done
  <2>3. CASE c = Len(sent)
    <3>1. ~Pending(b)
      BY <2>1, <2>3 DEF Done, Posted, Pending
    <3>2. Last(b) = Len(sent)
      BY <3>1 DEF Last
    <3> QED BY <1>4, <2>3, <3>2
  <2>4. CASE c # Len(sent)
    <3>1. PICK n \in Nat, m \in Nat : n = Len(sent) /\ m = Last(b) /\ n <= m + 1
      BY <1>4
    <3>2. c <= n /\ c # n
      BY <2>2, <2>4, <3>1
    <3>3. c <= m
      BY <3>1, <3>2
    <3> QED BY <3>1, <3>3
  <2> QED BY <2>3, <2>4
<1> QED BY <1>5, <1>6

LEMMA PollReadSlots ==
  ASSUME RingInv, SendInv', Reclaimed, PollRead
  PROVE  Reclaimed'
<1>1. /\ reading = "landed" /\ reading' = "none" /\ sqUsed' = [sqUsed EXCEPT ![readQp] = 0]
      /\ UNCHANGED <<sPc, sBlock, sent, sendPos, readValue, currentRemoteReceive>>
  BY DEF PollRead
<1>2. Block' = Block /\ \A b \in Block : Last(b)' = Last(b)
  BY <1>1, AheadSame
<1>3. SendInv
  BY DEF RingInv
<1>4. ASSUME NEW b \in Block PROVE \E f \in Nat : Since(b, f)'
  <2>1. sqUsed \in [Block -> 0 .. MaxSendWr] /\ sqUsed[b] \in Nat /\ readQp \in Block
    BY <1>3, SlotTypes, TurnsType
  <2>2. ReadOn(b)' = 0
    BY <1>1 DEF ReadOn
  <2>3. Turns(b)' = IF b = readQp THEN 0 ELSE Turns(b)
    BY <1>3, PollReadTurns
  <2>4. CASE b = readQp
    <3>1. PICK c \in Nat : currentRemoteReceive = StripeAt(c)
      BY DEF Reclaimed
    <3>2. PICK m \in Nat : m = Last(b) /\ c <= m
      BY <1>3, <3>1, SlotTypes, TakenIsSent
    <3>3. Slots(c, m) \in Int /\ Slots(c, m) >= 0
      BY <3>2, SlotsGrow
    <3>4. sqUsed'[b] = 0
      BY <1>1, <2>1, <2>4
    <3>5. sqUsed'[b] <= Slots(c, m) + ReadOn(b)'
      <4> DEFINE x == Slots(c, m)
      <4>1. x \in Int /\ x >= 0
        BY <3>3
      <4> HIDE DEF x
      <4>2. 0 <= x + 0
        BY <4>1
      <4> QED BY <2>2, <3>4, <4>2 DEF x
    <3>6. sqUsed'[b] <= Slots(c, Last(b))' + ReadOn(b)'
      BY <1>2, <3>2, <3>5 DEF Slots, Laps, StripeAt, Stripe, Unit
    <3>7. StripeAt(c) <= StripeAt(c + (0 * ReadStripes))
      <4> DEFINE R == ReadStripes
      <4>1. R \in Nat
        BY ReadRoom
      <4> HIDE DEF R
      <4>2. c + (0 * R) = c
        BY <4>1
      <4>3. StripeAt(c) <= StripeAt(c)
        BY StripeOrder
      <4> QED BY <4>2, <4>3 DEF R
    <3>8. currentRemoteReceive' <= StripeAt(c + (Turns(b) * ReadStripes))'
      BY <1>1, <2>3, <2>4, <3>1, <3>7 DEF StripeAt, Stripe, Unit, ReadStripes
    <3> QED BY <3>6, <3>8 DEF Since
  <2>5. CASE b # readQp
    <3>1. PICK f \in Nat : Since(b, f)
      BY DEF Reclaimed
    <3>2. ReadOn(b) = 0 /\ sqUsed'[b] = sqUsed[b]
      BY <1>1, <2>1, <2>5 DEF ReadOn
    <3>3. sqUsed'[b] <= Slots(f, Last(b))' + ReadOn(b)'
      BY <1>2, <2>2, <3>1, <3>2 DEF Since, Slots, Laps, StripeAt, Stripe, Unit
    <3>4. currentRemoteReceive' <= StripeAt(f + (Turns(b) * ReadStripes))'
      BY <1>1, <2>3, <2>5, <3>1 DEF Since, StripeAt, Stripe, Unit, ReadStripes
    <3> QED BY <3>3, <3>4 DEF Since
  <2> QED BY <2>4, <2>5
<1>5. (\E c \in Nat : currentRemoteReceive' = StripeAt(c)) /\ (\E v \in Nat : readValue' = StripeAt(v))
  BY <1>1 DEF Reclaimed
<1> QED BY <1>2, <1>4, <1>5 DEF Reclaimed, StripeAt, Stripe, Unit

(* A completion with an error is of a queue pair that broke. *)
LEMMA BrokenStays ==
  ASSUME SendInv, [Next]_vars
  PROVE  broken \subseteq broken'
<1>1. CASE \E m \in Message : StartSend(m)
  BY <1>1 DEF StartSend, nicVars
<1>2. CASE Sender
  BY <1>2 DEF Sender, WriteToSendBuffer, PostRead, PollRead, PollError, PostData, Encode, PostParity,
              PostFull, nicVars
<1>3. CASE \E q \in Block : PlaceByte(q) \/ Break(q)
  BY <1>3 DEF PlaceByte, Break
<1>4. CASE ExecuteRead \/ LandRead
  BY <1>4 DEF ExecuteRead, LandRead
<1>5. CASE Receiver
  BY <1>5 DEF Receiver, StartReceive, PollBlock, PollAgain, EnoughBlocks, Decode, ReadSize,
              AllocateResult, CopyPayload, ZeroReceiveBuffer, AdvanceReadPos, nicVars
<1>6. CASE UNCHANGED vars
  BY <1>6 DEF vars, nicVars
<1> QED BY <1>1, <1>2, <1>3, <1>4, <1>5, <1>6 DEF Next

(* While no connection is broken only reads complete. *)
LEMMA Completions ==
  ASSUME SendInv, [Next]_vars, broken' = {}
  PROVE  cq' = cq \/ (cq # <<>> /\ cq' = Tail(cq)) \/ cq' = Append(cq, "read")
<1>1. CASE \E m \in Message : StartSend(m)
  BY <1>1 DEF StartSend, nicVars
<1>2. CASE Sender
  <2>1. broken = {}
    BY BrokenStays
  <2>2. CASE WriteToSendBuffer \/ Encode
    BY <2>2 DEF WriteToSendBuffer, Encode, nicVars
  <2>3. CASE PostRead
    BY <2>1, <2>3 DEF PostRead
  <2>4. CASE PollRead \/ PollError
    BY <2>4 DEF PollRead, PollError
  <2>5. CASE PostData
    BY <2>1, <2>5 DEF PostData, Post
  <2>6. CASE PostParity
    BY <2>1, <2>6 DEF PostParity, Post
  <2>7. CASE PostFull
    BY <2>1, <2>7 DEF PostFull, Post
  <2> QED BY <1>2, <2>2, <2>3, <2>4, <2>5, <2>6, <2>7 DEF Sender
<1>3. CASE \E q \in Block : PlaceByte(q) \/ Break(q)
  BY <1>3 DEF PlaceByte, Break
<1>4. CASE ExecuteRead \/ LandRead
  BY <1>4 DEF ExecuteRead, LandRead
<1>5. CASE Receiver
  BY <1>5 DEF Receiver, StartReceive, PollBlock, PollAgain, EnoughBlocks, Decode, ReadSize,
              AllocateResult, CopyPayload, ZeroReceiveBuffer, AdvanceReadPos, nicVars
<1>6. CASE UNCHANGED vars
  BY <1>6 DEF vars, nicVars
<1> QED BY <1>1, <1>2, <1>3, <1>4, <1>5, <1>6 DEF Next

LEMMA ErrorsKept ==
  ASSUME SendInv, ErrorsMeanBroken, [Next]_vars
  PROVE  ErrorsMeanBroken'
<1> SUFFICES ASSUME broken' = {}, NEW i \in DOMAIN cq', cq'[i] = "error" PROVE FALSE
  BY DEF ErrorsMeanBroken
<1>1. broken = {}
  BY BrokenStays
<1>2. \A j \in DOMAIN cq : cq[j] # "error"
  BY <1>1 DEF ErrorsMeanBroken
<1>3. cq \in Seq({"read", "error"})
  BY SlotTypes
<1>4. CASE cq' = cq
  BY <1>2, <1>4
<1>5. CASE cq # <<>> /\ cq' = Tail(cq)
  <2>1. DOMAIN cq = 1 .. Len(cq) /\ Len(cq) \in Nat
    BY <1>3, LenProperties
  <2>2. Len(cq') = Len(cq) - 1 /\ cq' \in Seq({"read", "error"})
    BY <1>3, <1>5, HeadTailProperties
  <2>3. i \in 1 .. Len(cq) - 1
    BY <2>2, LenProperties
  <2>4. cq'[i] = cq[i + 1]
    BY <1>3, <1>5, <2>1, <2>2, <2>3, HeadTailProperties
  <2>5. i + 1 \in DOMAIN cq
    BY <2>1, <2>3
  <2> QED BY <1>2, <2>4, <2>5
<1>6. CASE cq' = Append(cq, "read")
  <2>1. /\ DOMAIN cq = 1 .. Len(cq) /\ Len(cq) \in Nat /\ Len(cq') = Len(cq) + 1
        /\ cq' \in Seq({"read", "error"})
        /\ \A j \in 1 .. Len(cq) : cq'[j] = cq[j]
        /\ cq'[Len(cq) + 1] = "read"
    BY <1>3, <1>6, AppendProperties, LenProperties
  <2>2. i \in 1 .. Len(cq) + 1
    BY <2>1, LenProperties
  <2>3. CASE i = Len(cq) + 1
    BY <2>1, <2>3
  <2>4. CASE i # Len(cq) + 1
    <3>1. i \in 1 .. Len(cq)
      BY <2>1, <2>2, <2>4
    <3> QED BY <1>2, <2>1, <3>1
  <2> QED BY <2>3, <2>4
<1> QED BY <1>4, <1>5, <1>6, Completions

LEMMA FailedStays ==
  ASSUME SendInv, [Next]_vars
  PROVE  /\ sPc = "failed" => sPc' = "failed"
         /\ sPc' = "failed" => sPc = "failed" \/ PollError \/ PostFull
<1>1. CASE \E m \in Message : StartSend(m)
  BY <1>1 DEF StartSend
<1>2. CASE Sender
  <2>1. reading # "none" => Writing
    BY DEF SendInv, Granted
  <2>2. CASE WriteToSendBuffer
    BY <2>2 DEF WriteToSendBuffer, NextBlock, Writing
  <2>3. CASE PostRead \/ PollRead
    BY <2>1, <2>3 DEF PostRead, PollRead, senderVars, Writing
  <2>4. CASE PollError
    BY <2>4 DEF PollError
  <2>5. CASE PostData \/ PostParity
    BY <2>5 DEF PostData, PostParity, NextBlock
  <2>6. CASE Encode
    BY <2>6 DEF Encode
  <2>7. CASE PostFull
    BY <2>7 DEF PostFull
  <2> QED BY <1>2, <2>2, <2>3, <2>4, <2>5, <2>6, <2>7 DEF Sender
<1>3. CASE \E q \in Block : PlaceByte(q) \/ Break(q)
  BY <1>3 DEF PlaceByte, Break, senderVars
<1>4. CASE ExecuteRead \/ LandRead
  BY <1>4 DEF ExecuteRead, LandRead, senderVars
<1>5. CASE Receiver
  BY <1>5 DEF Receiver, StartReceive, PollBlock, PollAgain, EnoughBlocks, Decode, ReadSize,
              AllocateResult, CopyPayload, ZeroReceiveBuffer, AdvanceReadPos, senderVars
<1>6. CASE UNCHANGED vars
  BY <1>6 DEF vars, senderVars
<1> QED BY <1>1, <1>2, <1>3, <1>4, <1>5, <1>6 DEF Next

LEMMA ReclaimedStep ==
  ASSUME RingInv, SendInv', Reclaimed, [Next]_vars, sPc' # "failed"
  PROVE  Reclaimed'
<1>1. SendInv
  BY DEF RingInv
<1>2. CASE \E m \in Message : StartSend(m)
  BY <1>1, <1>2, StartSendSlots
<1>3. CASE Sender
  <2>1. ~PollError /\ ~PostFull
    BY DEF PollError, PostFull
  <2> QED BY <1>1, <1>3, <2>1, WriteSlots, PostReadSlots, PollReadSlots, PostSlots DEF Sender
<1>4. CASE ExecuteRead \/ LandRead
  BY <1>4, ExecuteReadSlots, LandReadSlots
<1>5. CASE \E q \in Block : PlaceByte(q) \/ Break(q)
  <2>1. UNCHANGED senderVars /\ UNCHANGED <<currentRemoteReceive, sqUsed, readValue, reading>>
    BY <1>5 DEF PlaceByte, Break
  <2> QED BY <1>1, <2>1, StillSlots
<1>6. CASE Receiver
  <2>1. UNCHANGED senderVars /\ UNCHANGED nicVars
    BY <1>6 DEF Receiver, StartReceive, PollBlock, PollAgain, EnoughBlocks, Decode, ReadSize,
                AllocateResult, CopyPayload, ZeroReceiveBuffer, AdvanceReadPos
  <2> QED BY <1>1, <2>1, StillSlots DEF nicVars
<1>7. CASE UNCHANGED vars
  BY <1>1, <1>7, StillSlots DEF vars, nicVars
<1> QED BY <1>2, <1>3, <1>4, <1>5, <1>6, <1>7 DEF Next

LEMMA SlotInit == Init => SlotInv
<1> SUFFICES ASSUME Init PROVE SlotInv
  OBVIOUS
<1>1. SendInv
  BY SendInit
<1>2. ErrorsMeanBroken /\ QueuesSuffice
  BY DEF Init, ErrorsMeanBroken, QueuesSuffice
<1>3. (\E c \in Nat : currentRemoteReceive = StripeAt(c)) /\ (\E v \in Nat : readValue = StripeAt(v))
  BY StripeRoom DEF Init
<1>4. ASSUME NEW b \in Block PROVE \E f \in Nat : Since(b, f)
  <2>1. sqUsed[b] = 0 /\ ReadOn(b) = 0 /\ currentRemoteReceive = 0
    BY DEF Init, ReadOn
  <2>2. PICK m \in Nat : m = Last(b)
    BY <1>1, SlotTypes
  <2>3. Slots(0, m) \in Int /\ Slots(0, m) >= 0
    BY <2>2, SlotsGrow
  <2>4. sqUsed[b] <= Slots(0, Last(b)) + ReadOn(b)
    <3> DEFINE x == Slots(0, m)
    <3>1. x \in Int /\ x >= 0
      BY <2>3
    <3> HIDE DEF x
    <3>2. 0 <= x + 0
      BY <3>1
    <3> QED BY <2>1, <2>2, <3>2 DEF x
  <2>5. currentRemoteReceive <= StripeAt(0 + (Turns(b) * ReadStripes))
    <3> DEFINE p == Turns(b) * ReadStripes
    <3>1. p \in Nat
      BY <1>1, TurnsType, ReadRoom, Times
    <3> HIDE DEF p
    <3>2. StripeAt(0 + p) \in Nat
      BY <3>1, StripeRoom
    <3> QED BY <2>1, <3>2 DEF p
  <2> QED BY <2>4, <2>5 DEF Since
<1> QED BY <1>2, <1>3, <1>4 DEF SlotInv, Reclaimed

LEMMA SlotNext == RingInv /\ RingInv' /\ SlotInv /\ [Next]_vars => SlotInv'
<1> SUFFICES ASSUME RingInv, RingInv', SlotInv, [Next]_vars PROVE SlotInv'
  OBVIOUS
<1>1. SendInv /\ SendInv' /\ ErrorsMeanBroken /\ QueuesSuffice
  BY DEF RingInv, SlotInv
<1>2. ErrorsMeanBroken'
  BY <1>1, ErrorsKept
<1>3. sPc' = "failed" \/ Reclaimed'
  BY <1>1, FailedStays, ReclaimedStep DEF SlotInv
<1>4. QueuesSuffice'
  <2> SUFFICES ASSUME MaxSendWr >= ((K + M) * ReadStripes) + Splits + 2, sPc' = "failed"
               PROVE  broken' # {}
    BY DEF QueuesSuffice, ReadStripes, Splits, Stripe, Unit
  <2>1. broken # {}
    <3>1. CASE sPc = "failed"
      BY <1>1, <3>1 DEF QueuesSuffice
    <3>2. CASE PollError
      <4>1. cq # <<>> /\ cq[1] = "error"
        BY <3>2, SlotTypes, <1>1, HeadTailProperties DEF PollError
      <4>2. 1 \in DOMAIN cq
        <5>1. DOMAIN cq = 1 .. Len(cq) /\ Len(cq) \in Nat
          BY <1>1, SlotTypes, LenProperties
        <5>2. Len(cq) # 0
          BY <1>1, <4>1, SlotTypes, EmptySeq
        <5> QED BY <5>1, <5>2
      <4> QED BY <1>1, <4>1, <4>2 DEF ErrorsMeanBroken
    <3>3. CASE PostFull /\ sPc # "failed"
      BY <1>1, <3>3, NeverFull DEF SlotInv
    <3> QED BY <1>1, <3>1, <3>2, <3>3, FailedStays
  <2> QED BY <1>1, <2>1, BrokenStays
<1> QED BY <1>2, <1>3, <1>4 DEF SlotInv

(* With the send queues as long as QueuesSuffice asks, no send() finds one *)
(* full: it fails only when a connection does.  The slots of a queue pair  *)
(* come back only when its own read completes, one read in K + M.          *)
THEOREM SlotsAreEnough == NoSpare => (Spec => []QueuesSuffice)
<1> SUFFICES ASSUME NoSpare PROVE Spec => []QueuesSuffice
  OBVIOUS
<1>1. Spec => []RingInv
  BY RingKept
<1>2. Init => SlotInv
  BY SlotInit
<1>3. RingInv /\ RingInv' /\ SlotInv /\ [Next]_vars => SlotInv'
  BY SlotNext
<1>4. SlotInv => QueuesSuffice
  BY DEF SlotInv
<1> QED BY <1>1, <1>2, <1>3, <1>4, PTL DEF Spec

=============================================================================
