----------------------- MODULE RDMAMessageBufferRing ------------------------
(***************************************************************************)
(* The receiving half of RDMAMessageBuffer: what lies in the ring, what    *)
(* the receiver has made of it, and that it takes a frame for complete     *)
(* only when it is.  From it follow flow control, hasData() and that the   *)
(* ring implements the bounded first-in first-out channel of               *)
(* MessageChannel, for payloads that do not collide with the validity      *)
(* word: send() appends the message when it begins its frame, receive()    *)
(* returns the oldest one when it copies it out, and every other step      *)
(* leaves the channel alone.  That every frame takes the room of its two   *)
(* words also bounds how many slots of the send queue are taken before     *)
(* send() must wait for a read, which gives them back.                     *)
(***************************************************************************)
EXTENDS RDMAMessageBufferSender

(* Where the next frame will begin, unless one is being sent *)
StreamEnd == IF sent = <<>> THEN 0 ELSE FrameEnd(Len(sent))

(* A frame ends before any later one begins. *)
Disjoint == \A i, k \in DOMAIN sent : i < k => FrameEnd(i) <= sent[k].at

(* readPos is where the frame being read begins, or the next one will, and *)
(* what was received is what was sent.                                     *)
Position ==
    /\ Len(received) <= Len(sent)
    /\ Reading \in 1 .. Len(sent) + 1
    /\ readPos = IF Reading \in DOMAIN sent THEN sent[Reading].at ELSE StreamEnd
    /\ readPos <= placed
    /\ \A i \in DOMAIN received : received[i] = sent[i].data

(* From readPos to placed the ring holds the frames, the first of them     *)
(* zeroed while receive() has yet to advance readPos past it.              *)
Arrived ==
    \A i \in DOMAIN sent : \A j \in 1 .. FrameLen(sent[i].data) :
        LET p == sent[i].at + j - 1
        IN  readPos <= p /\ p < placed
                => receiveBuffer[Cell(p)] = IF rPc = "advance" /\ i = Reading
                                            THEN 0 ELSE FrameBytes(sent[i].data)[j]

(* The payload of the frame being read, and the k-th byte of that frame as *)
(* the receiver may have read it, before or after the card placed it       *)
Payload == sent[Reading].data
Seen(k, b) ==
    b = 0 \/ (/\ Reading \in DOMAIN sent
              /\ k <= FrameLen(Payload) /\ readPos + k <= placed
              /\ b = FrameBytes(Payload)[k])

(* receiveSize is the length word of a payload of n bytes, read in part. *)
TornSize(n) == \E S \in SUBSET (1 .. WordLen) : receiveSize = Decode(Torn(Encode(n), S))

(* What receive() and hasData() know of the frame *)
Words ==
    /\ rPc = "idle" => rWord = <<>>
    /\ rPc = "size" => \A x \in 1 .. Len(rWord) : Seen(x, rWord[x])
    /\ rPc = "validity" =>
          /\ receiveSize = 0 \/ (Reading \in DOMAIN sent /\ TornSize(Len(Payload)))
          /\ \A x \in 1 .. Len(rWord) : Seen(WordLen + receiveSize + x, rWord[x])
    /\ rPc \in {"copy", "zero", "advance"} =>
          /\ rWord = <<>> /\ Reading \in DOMAIN sent
          /\ receiveSize = Len(Payload) /\ FrameEnd(Reading) <= placed

(* What the steps of the receiver and of the card that places bytes keep *)
RingState == Disjoint /\ Position /\ Arrived /\ AheadIsZero /\ Words /\ HasDataSound

RingInv == KeptInv /\ RingState

ringVars == <<sent, placed, receiverVars, receiveBuffer>>

-----------------------------------------------------------------------------
(* Facts about the invariant *)

LEMMA RingTypes ==
  ASSUME RingInv
  PROVE  /\ SenderInv /\ TypeOK /\ Frames /\ SendState /\ Queue /\ Granted /\ UnacknowledgedKept
         /\ Disjoint /\ Position /\ Arrived /\ AheadIsZero /\ Words /\ HasDataSound
         /\ readPos \in Nat /\ placed \in Nat /\ sendPos \in Nat /\ receiveSize \in Nat
         /\ currentRemoteReceive \in Nat /\ readValue \in Nat
         /\ sent \in Seq(SentFrame) /\ Len(sent) \in Nat /\ DOMAIN sent = 1 .. Len(sent)
         /\ received \in Seq(Seq(Byte)) /\ Len(received) \in Nat
         /\ DOMAIN received = 1 .. Len(received)
         /\ rWord \in Seq(Byte) /\ Len(rWord) \in Nat /\ Len(rWord) <= WordLen
         /\ Size \in Nat /\ Size > 0 /\ WordLen \in Nat /\ WordLen > 0 /\ WordLen + WordLen <= Size
<1>1. SenderInv /\ TypeOK /\ Granted /\ UnacknowledgedKept /\ Frames /\ SendState /\ Queue
  BY DEF RingInv, KeptInv, SenderInv
<1>2. Disjoint /\ Position /\ Arrived /\ AheadIsZero /\ Words /\ HasDataSound
  BY DEF RingInv, RingState
<1>3. /\ readPos \in Nat /\ placed \in Nat /\ sendPos \in Nat /\ receiveSize \in Nat
      /\ currentRemoteReceive \in Nat /\ readValue \in Nat
      /\ sent \in Seq(SentFrame) /\ received \in Seq(Seq(Byte)) /\ rWord \in Seq(Byte)
      /\ Len(rWord) <= WordLen
  BY <1>1 DEF TypeOK
<1> QED BY <1>1, <1>2, <1>3, LenProperties, Sizes

LEMMA FrameFacts ==
  ASSUME TypeOK, Frames, NEW i \in DOMAIN sent
  PROVE  /\ sent[i].data \in Message /\ sent[i].at \in Nat
         /\ sent[i].data \in Seq(Byte) /\ Len(sent[i].data) \in 0 .. Size
         /\ FrameLen(sent[i].data) = WordLen + Len(sent[i].data) + WordLen
         /\ FrameLen(sent[i].data) \in 1 .. Size
         /\ FrameEnd(i) = sent[i].at + FrameLen(sent[i].data) /\ FrameEnd(i) \in Nat
         /\ i \in 1 .. Len(sent)
<1>1. sent \in Seq(SentFrame)
  BY DEF TypeOK
<1>2. sent[i] \in SentFrame /\ i \in 1 .. Len(sent)
  BY <1>1, LenProperties, ElementOfSeq
<1>3. sent[i].data \in Message /\ sent[i].at \in Nat /\ FrameLen(sent[i].data) <= Size
  BY <1>2 DEF SentFrame, Frames
<1>4. /\ sent[i].data \in Seq(Byte) /\ Len(sent[i].data) \in 0 .. Size
      /\ FrameLen(sent[i].data) \in 1 .. Size
  BY <1>3, FrameParts
<1>5. FrameEnd(i) = sent[i].at + FrameLen(sent[i].data)
  BY DEF FrameEnd
<1>6. FrameLen(sent[i].data) = WordLen + Len(sent[i].data) + WordLen
  BY DEF FrameLen
<1>7. FrameEnd(i) \in Nat
  BY <1>3, <1>4, <1>5, Sizes
<1> QED BY <1>2, <1>3, <1>4, <1>5, <1>6, <1>7

(* send() never gets past the frames it was given. *)
LEMMA SendWithinStream ==
  ASSUME SenderInv
  PROVE  /\ StreamEnd \in Nat /\ sendPos <= StreamEnd
         /\ sPc = "idle" => sendPos = StreamEnd
<1>1. TypeOK /\ Frames /\ SendState /\ sendPos \in Nat /\ sent \in Seq(SentFrame)
  BY DEF SenderInv, TypeOK
<1>2. CASE sent = <<>>
  BY <1>1, <1>2 DEF SendState, StreamEnd
<1>3. CASE sent # <<>>
  <2>1. Len(sent) \in DOMAIN sent
    BY <1>1, <1>3, EmptySeq, LenProperties
  <2>2. /\ Current.at \in Nat /\ Len(Current.data) \in Nat
        /\ FrameEnd(Len(sent)) = Current.at + FrameLen(Current.data)
        /\ FrameLen(Current.data) = WordLen + Len(Current.data) + WordLen
        /\ FrameEnd(Len(sent)) \in Nat
    BY <1>1, <2>1, FrameFacts DEF Current
  <2>3. StreamEnd = FrameEnd(Len(sent))
    BY <1>3 DEF StreamEnd
  <2>4. sPc \in {"idle", "length", "payload", "validity", "post", "failed"}
    BY <1>1 DEF TypeOK
  <2> QED BY <1>1, <1>3, <2>2, <2>3, <2>4, Sizes DEF SendState
<1> QED BY <1>2, <1>3

(* No further than a ring behind readPos does anything lie in the ring. *)
LEMMA PlacedWithinRing ==
  ASSUME RingInv
  PROVE  placed <= sendPos /\ sendPos <= readPos + Size /\ placed <= StreamEnd
<1>1. /\ placed \in Nat /\ sendPos \in Nat /\ readPos \in Nat /\ currentRemoteReceive \in Nat
      /\ readValue \in Nat /\ Size \in Nat
  BY RingTypes
<1>2. placed <= sendPos
  BY RingTypes DEF Queue
<1>3. sendPos - currentRemoteReceive <= Size /\ currentRemoteReceive <= readValue /\ readValue <= readPos
  BY RingTypes DEF Granted
<1>4. sendPos <= StreamEnd /\ StreamEnd \in Nat
  BY RingTypes, SendWithinStream
<1> QED BY <1>1, <1>2, <1>3, <1>4

(* A byte read from the ring is zero or already the frame's. *)
LEMMA ByteSeen ==
  ASSUME RingInv, rPc \in {"size", "validity"}, NEW k \in Nat, k >= 1,
         k <= (IF Reading \in DOMAIN sent THEN FrameLen(Payload) ELSE WordLen + WordLen)
  PROVE  Seen(k, receiveBuffer[Cell(readPos + k - 1)])
<1> DEFINE p == readPos + k - 1
<1>1. /\ readPos \in Nat /\ placed \in Nat /\ Size \in Nat /\ p \in Nat
      /\ readPos <= p /\ WordLen + WordLen <= Size /\ WordLen \in Nat
      /\ TypeOK /\ Frames /\ Position /\ Arrived /\ AheadIsZero
  BY RingTypes
<1>2. Reading \in DOMAIN sent => FrameLen(Payload) \in 1 .. Size
  BY <1>1, FrameFacts DEF Payload
<1>3. k <= Size
  BY <1>1, <1>2
<1>4. CASE placed <= p
  <2>1. k - 1 \in Cells /\ readPos + (k - 1) = p
    BY <1>1, <1>3 DEF Cells
  <2>2. receiveBuffer[Cell(p)] = 0
    BY <1>1, <1>4, <2>1 DEF AheadIsZero
  <2> QED BY <2>2 DEF Seen
<1>5. CASE p < placed
  <2>1. Reading \in DOMAIN sent
    <3>1. SUFFICES ASSUME Reading \notin DOMAIN sent PROVE FALSE
      OBVIOUS
    <3>2. readPos = StreamEnd
      BY <1>1, <3>1 DEF Position
    <3> QED BY <1>1, <1>5, <3>2, PlacedWithinRing
  <2>2. readPos = sent[Reading].at
    BY <1>1, <2>1 DEF Position
  <2>3. k \in 1 .. FrameLen(sent[Reading].data) /\ p = sent[Reading].at + k - 1
    BY <1>1, <1>2, <2>1, <2>2 DEF Payload
  <2>4. receiveBuffer[Cell(p)] = FrameBytes(Payload)[k]
    <3>1. receiveBuffer[Cell(p)] = IF rPc = "advance" /\ Reading = Reading
                                   THEN 0 ELSE FrameBytes(sent[Reading].data)[k]
      BY <1>1, <1>5, <2>1, <2>3 DEF Arrived
    <3> QED BY <3>1 DEF Payload
  <2>5. readPos + k <= placed
    BY <1>1, <1>5
  <2> QED BY <2>1, <2>3, <2>4, <2>5 DEF Seen, Payload
<1> QED BY <1>1, <1>4, <1>5

-----------------------------------------------------------------------------
(* The sender and the card *)

(* What the receiver has read stays true while the stream grows. *)
LEMMA WordsKept ==
  ASSUME RingInv, placed' \in Nat, placed <= placed',
         UNCHANGED <<rPc, rWord, receiveSize, readPos, received>>,
         Reading \in DOMAIN sent => Reading \in DOMAIN sent' /\ sent'[Reading] = sent[Reading]
  PROVE  Words'
<1>1. /\ Words /\ TypeOK /\ Frames /\ readPos \in Nat /\ placed \in Nat
      /\ Len(rWord) \in Nat /\ WordLen \in Nat /\ receiveSize \in Nat
  BY RingTypes
<1>2. Reading' = Reading
  BY DEF Reading
<1>3. Reading \in DOMAIN sent => /\ Reading \in DOMAIN sent' /\ Payload' = Payload
                                 /\ FrameEnd(Reading)' = FrameEnd(Reading)
                                 /\ FrameEnd(Reading) \in Nat
  BY <1>1, <1>2, FrameFacts DEF Payload, FrameEnd
<1>4. ASSUME NEW k \in Nat, NEW b, Seen(k, b)
      PROVE  b = 0 \/ (/\ Reading' \in DOMAIN sent'
                       /\ k <= FrameLen(Payload') /\ readPos' + k <= placed'
                       /\ b = FrameBytes(Payload')[k])
  BY <1>1, <1>2, <1>3, <1>4 DEF Seen
<1>5. CASE rPc = "idle"
  BY <1>1, <1>5 DEF Words
<1>6. CASE rPc = "size"
  <2>1. SUFFICES ASSUME NEW x \in 1 .. Len(rWord) PROVE Seen(x, rWord[x])'
    BY <1>6 DEF Words
  <2>2. Seen(x, rWord[x]) /\ x \in Nat
    BY <1>1, <1>6, <2>1 DEF Words
  <2> QED BY <1>4, <2>2 DEF Seen
<1>7. CASE rPc = "validity"
  <2>1. receiveSize' = 0 \/ (Reading' \in DOMAIN sent' /\ TornSize(Len(Payload))')
    BY <1>1, <1>2, <1>3, <1>7 DEF Words, TornSize
  <2>2. ASSUME NEW x \in 1 .. Len(rWord)
        PROVE  Seen(WordLen + receiveSize + x, rWord[x])'
    <3>1. Seen(WordLen + receiveSize + x, rWord[x]) /\ WordLen + receiveSize + x \in Nat
      BY <1>1, <1>7, <2>2 DEF Words
    <3> QED BY <1>4, <3>1 DEF Seen
  <2> QED BY <1>7, <2>1, <2>2 DEF Words
<1>8. CASE rPc \in {"copy", "zero", "advance"}
  <2>1. /\ rWord' = <<>> /\ Reading' \in DOMAIN sent' /\ receiveSize' = Len(Payload')
        /\ FrameEnd(Reading)' <= placed'
    BY <1>1, <1>2, <1>3, <1>8 DEF Words
  <2> QED BY <1>8, <2>1 DEF Words
<1> QED BY <1>1, <1>5, <1>6, <1>7, <1>8 DEF TypeOK

(* A new frame lies behind everything that was placed. *)
LEMMA RingAtStart ==
  ASSUME RingInv, NEW m \in Message, StartSend(m)
  PROVE  RingState'
<1> DEFINE n == Len(sent)
<1>1. /\ n \in Nat /\ Len(sent') = n + 1 /\ sent'[n + 1] = [data |-> m, at |-> sendPos]
      /\ \A i \in 1 .. n : sent'[i] = sent[i]
      /\ DOMAIN sent = 1 .. n /\ DOMAIN sent' = 1 .. (n + 1)
  BY NewFrame, RingTypes
<1>2. /\ UNCHANGED <<placed, rPc, rWord, receiveSize, readPos, received, receiveBuffer, dataSeen>>
      /\ sPc = "idle"
  BY DEF StartSend, nicVars, receiverVars
<1>3. /\ sendPos = StreamEnd /\ placed <= sendPos /\ sendPos \in Nat /\ placed \in Nat
      /\ TypeOK /\ Frames /\ sent \in Seq(SentFrame)
  BY <1>2, RingTypes, PlacedWithinRing, SendWithinStream
<1>4. \A i \in 1 .. n : FrameEnd(i)' = FrameEnd(i)
  BY <1>1 DEF FrameEnd
<1>5. Reading' = Reading
  BY <1>2 DEF Reading
<1>6. /\ Disjoint /\ Position /\ Arrived /\ AheadIsZero /\ Words /\ HasDataSound
      /\ Len(received) \in Nat /\ Len(rWord) \in Nat /\ receiveSize \in Nat /\ readPos \in Nat
  BY RingTypes
<1>7. Disjoint'
  <2>1. SUFFICES ASSUME NEW i \in 1 .. (n + 1), NEW k \in 1 .. (n + 1), i < k
                 PROVE  FrameEnd(i)' <= sent'[k].at
    BY <1>1 DEF Disjoint
  <2>2. i \in 1 .. n /\ FrameEnd(i)' = FrameEnd(i)
    BY <1>1, <1>4, <2>1
  <2>3. CASE k \in 1 .. n
    BY <1>1, <1>6, <2>1, <2>2, <2>3 DEF Disjoint
  <2>4. CASE k = n + 1
    <3>1. sent # <<>> /\ n \in DOMAIN sent
      BY <1>1, <1>3, <2>2, EmptySeq
    <3>2. sent'[k].at = FrameEnd(n)
      BY <1>1, <1>3, <2>4, <3>1 DEF StreamEnd
    <3>3. i = n \/ FrameEnd(i) <= sent[n].at
      <4>1. i \in DOMAIN sent /\ n \in Nat
        BY <1>1, <2>2
      <4>2. i = n \/ i < n
        BY <2>2, <4>1
      <4> QED BY <1>6, <3>1, <4>1, <4>2 DEF Disjoint
    <3>4. /\ FrameEnd(n) = sent[n].at + FrameLen(sent[n].data) /\ FrameEnd(n) \in Nat
          /\ FrameLen(sent[n].data) \in 1 .. Size /\ sent[n].at \in Nat
      BY <1>3, <3>1, FrameFacts
    <3>5. FrameEnd(i) \in Nat /\ Size \in Nat
      BY <1>1, <1>3, <2>2, FrameFacts, Sizes
    <3> QED BY <2>2, <3>2, <3>3, <3>4, <3>5
  <2> QED BY <1>1, <2>3, <2>4
<1>8. Position'
  <2>1. Len(received)' <= Len(sent') /\ Reading' \in 1 .. Len(sent') + 1
    BY <1>1, <1>2, <1>5, <1>6 DEF Position
  <2>2. readPos' = IF Reading' \in DOMAIN sent' THEN sent'[Reading'].at ELSE StreamEnd'
    <3>1. CASE Reading \in 1 .. n
      BY <1>1, <1>2, <1>5, <1>6, <3>1 DEF Position
    <3>2. CASE Reading = n + 1
      <4>1. readPos = sendPos
        BY <1>1, <1>3, <1>6, <3>2 DEF Position
      <4> QED BY <1>1, <1>2, <1>5, <3>2, <4>1
    <3> QED BY <1>1, <1>6, <3>1, <3>2 DEF Position
  <2>3. \A i \in DOMAIN received' : received'[i] = sent'[i].data
    <3>1. DOMAIN received \subseteq 1 .. n
      BY <1>1, <1>6, RingTypes DEF Position
    <3> QED BY <1>1, <1>2, <1>6, <3>1 DEF Position
  <2>4. readPos' <= placed'
    BY <1>2, <1>6 DEF Position
  <2> QED BY <2>1, <2>2, <2>3, <2>4 DEF Position
<1>9. Arrived'
  <2>1. SUFFICES ASSUME NEW i \in 1 .. (n + 1), NEW j \in 1 .. FrameLen(sent'[i].data),
                        readPos <= sent'[i].at + j - 1, sent'[i].at + j - 1 < placed
                 PROVE  receiveBuffer[Cell(sent'[i].at + j - 1)] =
                            IF rPc = "advance" /\ i = Reading THEN 0 ELSE FrameBytes(sent'[i].data)[j]
    BY <1>1, <1>2, <1>5 DEF Arrived
  <2>2. CASE i \in 1 .. n
    BY <1>1, <1>6, <2>1, <2>2 DEF Arrived
  <2>3. CASE i = n + 1
    <3>1. sent'[i].at = sendPos /\ j \in Nat /\ j >= 1
      <4>1. FrameLen(m) \in Nat
        BY PayloadType, Sizes DEF FrameLen
      <4> QED BY <1>1, <2>3, <4>1
    <3> QED BY <1>3, <2>1, <3>1
  <2> QED BY <1>1, <2>2, <2>3
<1>10. AheadIsZero'
  BY <1>2, <1>6 DEF AheadIsZero
<1>11. Words'
  <2>1. Reading \in DOMAIN sent => Reading \in DOMAIN sent' /\ sent'[Reading] = sent[Reading]
    BY <1>1
  <2> QED BY <1>2, <1>3, <2>1, WordsKept
<1>12. HasDataSound'
  <2>1. Len(received) < Len(sent) => Len(received) + 1 \in 1 .. n
    BY <1>1, <1>6
  <2> QED BY <1>1, <1>2, <1>4, <1>6, <2>1 DEF HasDataSound
<1> QED BY <1>7, <1>8, <1>9, <1>10, <1>11, <1>12 DEF RingState

(* The cells from readPos on are those of one ring, each position its own. *)
LEMMA RingCells ==
  ASSUME NEW r \in Int, NEW p \in Int, NEW q \in Int,
         r <= p, p < r + Size, r <= q, q < r + Size, p # q
  PROVE  Cell(p) # Cell(q)
<1>1. p < q + Size /\ q < p + Size
  BY Sizes
<1> QED BY <1>1, CellInjective

(* The card places the next byte of the stream, as send() copied it. *)
LEMMA RingAtPlace ==
  ASSUME RingInv, PlaceByte
  PROVE  RingState'
<1>1. /\ Disjoint /\ Position /\ Arrived /\ AheadIsZero /\ Words /\ HasDataSound
      /\ TypeOK /\ Frames /\ Queue /\ Granted /\ UnacknowledgedKept
      /\ readPos \in Nat /\ placed \in Nat /\ sendPos \in Nat /\ Size \in Nat
      /\ currentRemoteReceive \in Nat /\ readValue \in Nat
  BY RingTypes
<1>2. /\ sq # <<>> /\ Head(sq).begin = Cell(placed) /\ placed + 1 <= sendPos
  <2>1. sq # <<>>
    BY DEF PlaceByte
  <2>2. /\ Head(sq) = sq[1] /\ sq[1].begin = Cell(placed) /\ sq[1].len \in 1 .. Size
        /\ placed + sq[1].len <= sendPos
    BY <1>1, <2>1, HeadOfQueue
  <2>3. placed + 1 <= sendPos
    BY <1>1, <2>2
  <2> QED BY <2>1, <2>2, <2>3
<1>3. /\ placed' = placed + 1
      /\ receiveBuffer' = [receiveBuffer EXCEPT ![Cell(placed)] = sendBuffer[Cell(placed)]]
      /\ UNCHANGED <<sent, rPc, rWord, receiveSize, readPos, received, dataSeen>>
  BY <1>2 DEF PlaceByte, senderVars, receiverVars
<1>4. /\ readPos <= placed /\ placed < readPos + Size /\ currentRemoteReceive <= placed
      /\ sendPos <= readPos + Size
  BY <1>1, <1>2, PlacedWithinRing DEF Position, Granted
<1>5. Reading' = Reading
  BY <1>3 DEF Reading
<1>6. /\ Cell(placed) \in Cells /\ receiveBuffer \in [Cells -> Byte]
      /\ receiveBuffer'[Cell(placed)] = sendBuffer[Cell(placed)]
  <2>1. Cell(placed) \in Cells
    BY <1>1, CellType
  <2>2. receiveBuffer \in [Cells -> Byte]
    BY <1>1 DEF TypeOK
  <2> QED BY <1>3, <2>1, <2>2
<1>7. ASSUME NEW p \in Int, readPos <= p, p < readPos + Size, p # placed
      PROVE  receiveBuffer'[Cell(p)] = receiveBuffer[Cell(p)]
  <2>1. Cell(p) # Cell(placed)
    BY <1>1, <1>4, <1>7, RingCells
  <2>2. Cell(p) \in Cells
    BY CellType
  <2> QED BY <1>3, <1>6, <2>1, <2>2
<1>8. Disjoint'
  BY <1>1, <1>3 DEF Disjoint, FrameEnd
<1>9. Position'
  <2>1. readPos <= placed'
    BY <1>1, <1>3, <1>4
  <2> QED BY <1>1, <1>3, <1>5, <2>1 DEF Position, StreamEnd, FrameEnd
<1>10. Arrived'
  <2>1. SUFFICES ASSUME NEW i \in DOMAIN sent, NEW j \in 1 .. FrameLen(sent[i].data),
                        readPos <= sent[i].at + j - 1, sent[i].at + j - 1 < placed + 1
                 PROVE  receiveBuffer'[Cell(sent[i].at + j - 1)] =
                            IF rPc = "advance" /\ i = Reading THEN 0 ELSE FrameBytes(sent[i].data)[j]
    BY <1>3, <1>5 DEF Arrived
  <2> DEFINE p == sent[i].at + j - 1
  <2>2. p \in Int /\ p < FrameEnd(i) /\ FrameEnd(i) \in Nat
    BY <1>1, FrameFacts
  <2>3. CASE p = placed
    <3>1. sendBuffer[Cell(p)] = FrameBytes(sent[i].data)[j]
      BY <1>1, <1>2, <1>4, <2>3 DEF UnacknowledgedKept
    <3>2. ~(rPc = "advance" /\ i = Reading)
      <4>1. SUFFICES ASSUME rPc = "advance", i = Reading PROVE FALSE
        OBVIOUS
      <4>2. FrameEnd(i) <= placed
        BY <1>1, <4>1 DEF Words
      <4> QED BY <1>1, <2>2, <2>3, <4>2
    <3>3. receiveBuffer'[Cell(p)] = sendBuffer[Cell(p)]
      BY <1>6, <2>3
    <3> QED BY <3>1, <3>2, <3>3
  <2>4. CASE p # placed
    <3>1. p < placed /\ p < readPos + Size
      BY <1>1, <1>4, <2>1, <2>2, <2>4
    <3>2. receiveBuffer[Cell(p)] = IF rPc = "advance" /\ i = Reading
                                   THEN 0 ELSE FrameBytes(sent[i].data)[j]
      BY <1>1, <2>1, <3>1 DEF Arrived
    <3>3. receiveBuffer'[Cell(p)] = receiveBuffer[Cell(p)]
      BY <1>7, <2>1, <2>2, <2>4, <3>1
    <3> QED BY <3>2, <3>3
  <2> QED BY <2>3, <2>4
<1>11. AheadIsZero'
  <2>1. SUFFICES ASSUME NEW k \in Cells, placed + 1 <= readPos + k
                 PROVE  receiveBuffer'[Cell(readPos + k)] = 0
    BY <1>3 DEF AheadIsZero
  <2>2. /\ readPos + k \in Int /\ placed <= readPos + k /\ readPos + k # placed
        /\ readPos <= readPos + k /\ readPos + k < readPos + Size
    BY <1>1, <2>1 DEF Cells
  <2>3. receiveBuffer[Cell(readPos + k)] = 0
    BY <1>1, <2>2 DEF AheadIsZero
  <2> QED BY <1>7, <2>2, <2>3
<1>12. Words'
  <2>1. placed' \in Nat /\ placed <= placed'
    BY <1>1, <1>3
  <2> QED BY <1>3, <2>1, WordsKept
<1>13. HasDataSound'
  <2>1. CASE dataSeen
    <3>1. Len(received) < Len(sent) /\ FrameEnd(Len(received) + 1) <= placed
      BY <1>1, <2>1 DEF HasDataSound
    <3>2. Len(received) + 1 \in DOMAIN sent
      BY <3>1, RingTypes
    <3>3. FrameEnd(Len(received) + 1) \in Nat
      BY <1>1, <3>2, FrameFacts
    <3>4. FrameEnd(Len(received) + 1) <= placed'
      BY <1>1, <1>3, <3>1, <3>3
    <3> QED BY <1>3, <3>1, <3>4 DEF HasDataSound, FrameEnd
  <2> QED BY <1>3, <2>1 DEF HasDataSound
<1> QED BY <1>8, <1>9, <1>10, <1>11, <1>12, <1>13 DEF RingState

-----------------------------------------------------------------------------
(* receive() and hasData() before they touch the ring *)

(* While the receiver only reads, the ring and the stream stay as they are. *)
LEMMA ReaderLooks ==
  ASSUME RingInv, UNCHANGED <<sent, placed, receiveBuffer, readPos, received>>,
         rPc \notin {"zero", "advance"}, rPc' \notin {"zero", "advance"}
  PROVE  Reading' = Reading /\ Disjoint' /\ Position' /\ Arrived' /\ AheadIsZero'
<1>1. Disjoint /\ Position /\ Arrived /\ AheadIsZero
  BY RingTypes
<1>2. Reading' = Reading
  BY DEF Reading
<1> QED BY <1>1, <1>2 DEF Disjoint, Position, StreamEnd, FrameEnd, Arrived, AheadIsZero

(* Starting over, with nothing read *)
LEMMA RingAtRestart ==
  ASSUME RingInv, UNCHANGED <<sent, placed, receiveBuffer, readPos, received, dataSeen>>,
         rPc \notin {"zero", "advance"}, rPc' \in {"idle", "size"}, rWord' = <<>>
  PROVE  RingState'
<1>1. Disjoint' /\ Position' /\ Arrived' /\ AheadIsZero'
  BY ReaderLooks
<1>2. HasDataSound'
  BY RingTypes DEF HasDataSound, FrameEnd
<1>3. Words'
  BY EmptySeq DEF Words
<1> QED BY <1>1, <1>2, <1>3 DEF RingState

(* The length that receive() has read is no larger than the payload's. *)
LEMMA ReceiveSizeBounded ==
  ASSUME RingInv, rPc = "validity"
  PROVE  receiveSize <= (IF Reading \in DOMAIN sent THEN Len(Payload) ELSE 0)
<1>1. Words /\ TypeOK /\ Frames /\ receiveSize \in Nat
  BY RingTypes
<1>2. CASE receiveSize = 0
  BY <1>1, <1>2, FrameFacts DEF Payload
<1>3. CASE Reading \in DOMAIN sent /\ TornSize(Len(Payload))
  <2>1. Len(Payload) \in 0 .. Size
    BY <1>1, <1>3, FrameFacts DEF Payload
  <2>2. receiveSize \in 0 .. Len(Payload)
    BY <1>3, <2>1, EncodingAssumption DEF TornSize
  <2> QED BY <1>3, <2>1, <2>2
<1> QED BY <1>1, <1>2, <1>3 DEF Words

LEMMA RingAtReadByte ==
  ASSUME RingInv, ReadByte
  PROVE  RingState'
<1>1. /\ rPc \in {"size", "validity"} /\ Len(rWord) < WordLen
      /\ rWord' = Append(rWord, receiveBuffer[Cell(WordPos + Len(rWord))])
      /\ UNCHANGED <<sent, placed, receiveBuffer, rPc, readPos, received, dataSeen, receiveSize>>
  BY DEF ReadByte, senderVars, nicVars
<1>2. Reading' = Reading /\ Disjoint' /\ Position' /\ Arrived' /\ AheadIsZero'
  BY <1>1, ReaderLooks
<1>3. HasDataSound'
  BY <1>1, RingTypes DEF HasDataSound, FrameEnd
<1> DEFINE l == Len(rWord)
           b == receiveBuffer[Cell(WordPos + l)]
           off == IF rPc = "size" THEN 0 ELSE WordLen + receiveSize
<1>4. /\ Words /\ TypeOK /\ Frames /\ l \in Nat /\ receiveSize \in Nat /\ readPos \in Nat
      /\ WordLen \in Nat /\ WordLen > 0 /\ off \in Nat
  BY RingTypes
<1>5. /\ rWord \in Seq(Byte) /\ b \in Byte
  <2>1. WordPos + l \in Int
    BY <1>4 DEF WordPos
  <2> QED BY <1>4, <2>1, CellType DEF TypeOK
<1>6. /\ Len(rWord') = l + 1 /\ rWord'[l + 1] = b
      /\ \A x \in 1 .. l : rWord'[x] = rWord[x]
  BY <1>1, <1>5, AppendProperties
<1>7. Seen(off + (l + 1), b)
  <2> DEFINE k == off + (l + 1)
  <2>1. k \in Nat /\ k >= 1 /\ WordPos + l = readPos + k - 1
    BY <1>1, <1>4 DEF WordPos
  <2>2. k <= (IF Reading \in DOMAIN sent THEN FrameLen(Payload) ELSE WordLen + WordLen)
    <3>1. off <= WordLen + (IF Reading \in DOMAIN sent THEN Len(Payload) ELSE 0)
      <4>1. CASE rPc = "size"
        BY <1>4, <4>1, FrameFacts DEF Payload
      <4>2. CASE rPc = "validity"
        <5>1. Reading \in DOMAIN sent => Len(Payload) \in Nat
          BY <1>4, FrameFacts DEF Payload
        <5> QED BY <1>4, <4>2, <5>1, ReceiveSizeBounded
      <4> QED BY <1>1, <4>1, <4>2
    <3>2. CASE Reading \in DOMAIN sent
      <4>1. FrameLen(Payload) = WordLen + Len(Payload) + WordLen /\ Len(Payload) \in Nat
        BY <1>4, <3>2, FrameFacts DEF Payload
      <4> QED BY <1>1, <1>4, <3>1, <3>2, <4>1
    <3>3. CASE Reading \notin DOMAIN sent
      BY <1>1, <1>4, <3>1, <3>3
    <3> QED BY <3>2, <3>3
  <2> HIDE DEF k
  <2>3. Seen(k, receiveBuffer[Cell(readPos + k - 1)])
    BY <1>1, <2>1, <2>2, ByteSeen
  <2> QED BY <2>1, <2>3 DEF k
<1>8. \A x \in 1 .. l : Seen(off + x, rWord[x])
  BY <1>1, <1>4 DEF Words
<1>9. \A x \in 1 .. (l + 1) : Seen(off + x, rWord'[x])
  <2> SUFFICES ASSUME NEW x \in 1 .. (l + 1) PROVE Seen(off + x, rWord'[x])
    OBVIOUS
  <2>1. x \in 1 .. l \/ x = l + 1
    BY <1>4
  <2> QED BY <1>6, <1>7, <1>8, <2>1
<1>10. Words'
  <2>1. /\ placed' = placed /\ readPos' = readPos /\ receiveSize' = receiveSize
        /\ Reading \in DOMAIN sent' <=> Reading \in DOMAIN sent
        /\ Payload' = Payload
    BY <1>1, <1>2 DEF Payload
  <2>2. CASE rPc = "size"
    <3>1. SUFFICES ASSUME NEW x \in 1 .. (l + 1) PROVE Seen(x, rWord[x])'
      BY <1>1, <1>6, <2>2 DEF Words
    <3>2. off + x = x
      BY <1>4, <2>2
    <3>3. Seen(x, rWord'[x])
      BY <1>9, <3>2
    <3> QED BY <1>2, <2>1, <3>3 DEF Seen
  <2>3. CASE rPc = "validity"
    <3>1. receiveSize' = 0 \/ (Reading' \in DOMAIN sent' /\ TornSize(Len(Payload))')
      BY <1>1, <1>2, <1>4, <2>3 DEF Words, TornSize, Payload
    <3>2. ASSUME NEW x \in 1 .. (l + 1)
          PROVE  Seen(WordLen + receiveSize + x, rWord[x])'
      <4>1. Seen(WordLen + receiveSize + x, rWord'[x])
        BY <1>9, <2>3
      <4> QED BY <1>2, <2>1, <4>1 DEF Seen
    <3> QED BY <1>1, <1>6, <2>3, <3>1, <3>2 DEF Words
  <2> QED BY <1>1, <2>2, <2>3
<1> QED BY <1>2, <1>3, <1>10 DEF RingState

(* A length word of which nothing had arrived *)
LEMMA NothingTorn ==
  ASSUME NEW n \in 0 .. Size
  PROVE  Decode(Torn(Encode(n), {})) = 0
<1>1. Torn(Encode(n), {}) = Torn(Encode(0), {})
  BY DEF Torn
<1>2. 0 \in 0 .. Size /\ {} \in SUBSET (1 .. WordLen)
  BY Sizes
<1>3. Decode(Torn(Encode(0), {})) \in 0 .. 0
  BY <1>2, EncodingAssumption
<1> QED BY <1>1, <1>3

(* The word read for the length is the frame's, torn, or zero. *)
LEMMA RingAtSizeRead ==
  ASSUME RingInv, SizeRead
  PROVE  RingState'
<1>1. /\ rPc = "size" /\ Len(rWord) = WordLen /\ rPc' = "validity"
      /\ receiveSize' = Decode(rWord) /\ rWord' = <<>>
      /\ UNCHANGED <<sent, placed, receiveBuffer, readPos, received, dataSeen>>
  BY DEF SizeRead, senderVars, nicVars
<1>2. Reading' = Reading /\ Disjoint' /\ Position' /\ Arrived' /\ AheadIsZero'
  BY <1>1, ReaderLooks
<1>3. HasDataSound'
  BY <1>1, RingTypes DEF HasDataSound, FrameEnd
<1>4. /\ Words /\ TypeOK /\ Frames /\ rWord \in Seq(Byte) /\ WordLen \in Nat
  BY RingTypes
<1> DEFINE S == {x \in 1 .. WordLen : rWord[x] # 0}
<1>5. \A x \in 1 .. WordLen : Seen(x, rWord[x])
  BY <1>1, <1>4 DEF Words
<1>6. /\ S \in SUBSET (1 .. WordLen)
      /\ \A x \in 1 .. WordLen : x \notin S => rWord[x] = 0
  OBVIOUS
<1>7. rWord = [x \in 1 .. WordLen |-> rWord[x]]
  BY <1>1, <1>4
<1>8. receiveSize' = 0 \/ (Reading \in DOMAIN sent /\ receiveSize' = Decode(Torn(Encode(Len(Payload)), S)))
  <2>1. CASE Reading \in DOMAIN sent
    <3>1. Payload \in Message /\ FrameLen(Payload) <= Size
      BY <1>4, <2>1, FrameFacts DEF Payload, Frames
    <3>2. \A x \in 1 .. WordLen : FrameBytes(Payload)[x] = Encode(Len(Payload))[x]
      BY <3>1, FrameParts
    <3>3. \A x \in S : rWord[x] = Encode(Len(Payload))[x]
      BY <1>5, <3>2 DEF Seen
    <3> HIDE DEF S
    <3>4. rWord = Torn(Encode(Len(Payload)), S)
      BY <1>6, <1>7, <3>3 DEF Torn
    <3> QED BY <1>1, <2>1, <3>4
  <2>2. CASE Reading \notin DOMAIN sent
    <3>1. \A x \in 1 .. WordLen : rWord[x] = 0
      BY <1>5, <2>2 DEF Seen
    <3>2. rWord = Torn(Encode(0), {})
      BY <1>7, <3>1 DEF Torn
    <3>3. Decode(Torn(Encode(0), {})) = 0
      BY NothingTorn, Sizes
    <3> QED BY <1>1, <3>2, <3>3
  <2> QED BY <2>1, <2>2
<1>9. Words'
  <2> HIDE DEF S
  <2>1. receiveSize' = 0 \/ (Reading' \in DOMAIN sent' /\ TornSize(Len(Payload))')
    BY <1>1, <1>2, <1>6, <1>8 DEF TornSize, Payload
  <2>2. 1 .. Len(rWord') = {}
    BY <1>1, EmptySeq
  <2> QED BY <1>1, <2>1, <2>2 DEF Words
<1> QED BY <1>2, <1>3, <1>9 DEF RingState

(* CollisionFree holds at least of payloads without the validity word's    *)
(* first byte.                                                             *)
LEMMA PlainPayloads ==
  ASSUME \A m \in Message : \A x \in 1 .. Len(m) : m[x] # Validity[1]
  PROVE  CollisionFree
<1> SUFFICES ASSUME NEW m \in Message, NEW S \in SUBSET (1 .. WordLen),
                    NEW r, r = Decode(Torn(Encode(Len(m)), S)),
                    FrameLen(m) <= Size, r < Len(m)
             PROVE  \E i \in 1 .. WordLen : FrameBytes(m)[WordLen + r + i] # Validity[i]
  BY DEF CollisionFree
<1>1. /\ Len(m) \in 0 .. Size /\ \A x \in 1 .. Len(m) : FrameBytes(m)[WordLen + x] = m[x]
  BY FrameParts
<1>2. r \in Nat
  <2>1. r \in 0 .. Len(m)
    BY <1>1, EncodingAssumption
  <2> QED BY <1>1, <2>1
<1>3. r + 1 \in 1 .. Len(m) /\ WordLen + r + 1 = WordLen + (r + 1) /\ 1 \in 1 .. WordLen
  BY <1>1, <1>2, Sizes
<1>4. FrameBytes(m)[WordLen + (r + 1)] # Validity[1]
  BY <1>1, <1>3
<1> QED BY <1>3, <1>4

(* Where no payload collides with it, the validity word is seen only when  *)
(* the frame is complete and its length was read whole.                    *)
LEMMA WordComplete ==
  ASSUME RingInv, CollisionFree, rPc = "validity", rWord = Validity
  PROVE  /\ Reading \in DOMAIN sent /\ Reading = Len(received) + 1
         /\ receiveSize = Len(Payload) /\ FrameEnd(Reading) <= placed
<1>1. /\ Words /\ Position /\ TypeOK /\ Frames /\ receiveSize \in Nat /\ readPos \in Nat
      /\ placed \in Nat /\ WordLen \in Nat /\ WordLen > 0
  BY RingTypes
<1>2. Len(rWord) = WordLen /\ \A x \in 1 .. WordLen : rWord[x] = Validity[x] /\ rWord[x] # 0
  BY ValidityWord
<1>3. ASSUME NEW x \in 1 .. WordLen
      PROVE  /\ Reading \in DOMAIN sent
             /\ WordLen + receiveSize + x <= FrameLen(Payload)
             /\ readPos + (WordLen + receiveSize + x) <= placed
             /\ Validity[x] = FrameBytes(Payload)[WordLen + receiveSize + x]
  <2>1. Seen(WordLen + receiveSize + x, rWord[x])
    BY <1>1, <1>2 DEF Words
  <2> QED BY <1>2, <2>1 DEF Seen
<1>4. 1 \in 1 .. WordLen /\ WordLen \in 1 .. WordLen
  BY <1>1
<1>5. Reading \in DOMAIN sent
  BY <1>3, <1>4
<1>6. /\ Payload \in Message /\ Len(Payload) \in 0 .. Size
      /\ FrameLen(Payload) = WordLen + Len(Payload) + WordLen
      /\ FrameEnd(Reading) = readPos + FrameLen(Payload)
  BY <1>1, <1>5, FrameFacts DEF Payload, Position
<1>7. receiveSize <= Len(Payload)
  BY <1>5, ReceiveSizeBounded
<1>8. ~(receiveSize < Len(Payload))
  <2>1. SUFFICES ASSUME receiveSize < Len(Payload) PROVE FALSE
    OBVIOUS
  <2>2. PICK S \in SUBSET (1 .. WordLen) : receiveSize = Decode(Torn(Encode(Len(Payload)), S))
    <3>1. CASE receiveSize = 0
      BY <1>6, <3>1, NothingTorn
    <3>2. CASE receiveSize # 0
      BY <1>1, <3>2 DEF Words, TornSize
    <3> QED BY <3>1, <3>2
  <2>3. FrameLen(Payload) <= Size
    BY <1>1, <1>5 DEF Frames, Payload
  <2>4. \E x \in 1 .. WordLen : FrameBytes(Payload)[WordLen + receiveSize + x] # Validity[x]
    BY <1>6, <2>1, <2>2, <2>3 DEF CollisionFree
  <2> QED BY <1>3, <2>4
<1>9. receiveSize = Len(Payload)
  BY <1>1, <1>6, <1>7, <1>8
<1>10. FrameEnd(Reading) <= placed
  <2>1. readPos + (WordLen + receiveSize + WordLen) <= placed
    BY <1>3, <1>4
  <2> QED BY <1>6, <1>9, <2>1
<1> QED BY <1>5, <1>9, <1>10 DEF Reading

LEMMA RingAtAccept ==
  ASSUME RingInv, CollisionFree, Accept
  PROVE  RingState'
<1>1. /\ rPc = "validity" /\ rWord = Validity /\ rPc' = "copy" /\ rWord' = <<>>
      /\ UNCHANGED <<sent, placed, receiveBuffer, readPos, received, dataSeen, receiveSize>>
  BY DEF Accept, ValidityRead, senderVars, nicVars
<1>2. Reading' = Reading /\ Disjoint' /\ Position' /\ Arrived' /\ AheadIsZero'
  BY <1>1, ReaderLooks
<1>3. HasDataSound'
  BY <1>1, RingTypes DEF HasDataSound, FrameEnd
<1>4. Words'
  BY <1>1, <1>2, WordComplete DEF Words, Payload, FrameEnd
<1> QED BY <1>2, <1>3, <1>4 DEF RingState

LEMMA RingAtHasData ==
  ASSUME RingInv, CollisionFree, HasDataReturn
  PROVE  RingState'
<1>1. /\ rPc = "validity" /\ rPc' = "idle" /\ rWord' = <<>> /\ dataSeen' = (rWord = Validity)
      /\ UNCHANGED <<sent, placed, receiveBuffer, readPos, received>>
  BY DEF HasDataReturn, ValidityRead, senderVars, nicVars
<1>2. Reading' = Reading /\ Disjoint' /\ Position' /\ Arrived' /\ AheadIsZero'
  BY <1>1, ReaderLooks
<1>3. HasDataSound'
  <2>1. SUFFICES ASSUME rWord = Validity
                 PROVE  Len(received) < Len(sent) /\ FrameEnd(Len(received) + 1) <= placed
    BY <1>1 DEF HasDataSound, FrameEnd
  <2>2. /\ Reading \in DOMAIN sent /\ Reading = Len(received) + 1
        /\ FrameEnd(Reading) <= placed
    BY <1>1, <2>1, WordComplete
  <2>3. DOMAIN sent = 1 .. Len(sent) /\ Len(sent) \in Nat /\ Len(received) \in Nat
    BY RingTypes
  <2>4. Len(received) < Len(sent)
    BY <2>2, <2>3
  <2> QED BY <2>2, <2>4
<1>4. Words'
  BY <1>1 DEF Words
<1> QED BY <1>2, <1>3, <1>4 DEF RingState

-----------------------------------------------------------------------------
(* receive() once the frame is complete *)

(* The bytes of the frame being read, while none is zeroed *)
LEMMA FrameArrived ==
  ASSUME RingInv, rPc \in {"copy", "zero"}
  PROVE  /\ Reading \in DOMAIN sent /\ Payload \in Message /\ receiveSize = Len(Payload)
         /\ FrameEnd(Reading) = readPos + (WordLen + receiveSize + WordLen)
         /\ FrameEnd(Reading) <= placed /\ FrameLen(Payload) <= Size
         /\ FrameLen(Payload) = WordLen + receiveSize + WordLen
         /\ \A k \in 1 .. FrameLen(Payload) :
                receiveBuffer[Cell(readPos + k - 1)] = FrameBytes(Payload)[k]
<1>1. /\ Words /\ Position /\ Arrived /\ TypeOK /\ Frames /\ readPos \in Nat /\ placed \in Nat
      /\ receiveSize \in Nat /\ WordLen \in Nat
  BY RingTypes
<1>2. Reading \in DOMAIN sent /\ receiveSize = Len(Payload) /\ FrameEnd(Reading) <= placed
  BY <1>1 DEF Words
<1>3. /\ Payload \in Message /\ FrameLen(Payload) = WordLen + Len(Payload) + WordLen
      /\ FrameLen(Payload) \in 1 .. Size
      /\ FrameEnd(Reading) = sent[Reading].at + FrameLen(Payload)
      /\ sent[Reading].at = readPos
  BY <1>1, <1>2, FrameFacts DEF Payload, Position
<1>4. ASSUME NEW k \in 1 .. FrameLen(Payload)
      PROVE  receiveBuffer[Cell(readPos + k - 1)] = FrameBytes(Payload)[k]
  <2>1. readPos <= readPos + k - 1 /\ readPos + k - 1 < placed
    BY <1>1, <1>2, <1>3
  <2>2. receiveBuffer[Cell(readPos + k - 1)]
            = IF rPc = "advance" /\ Reading = Reading THEN 0 ELSE FrameBytes(sent[Reading].data)[k]
    BY <1>1, <1>2, <1>3, <2>1 DEF Arrived, Payload
  <2> QED BY <2>2 DEF Payload
<1>5. FrameLen(Payload) <= Size
  BY <1>3, Sizes
<1> QED BY <1>1, <1>2, <1>3, <1>4, <1>5

(* What receive() copies out is the payload of the frame. *)
LEMMA CopiedIsPayload ==
  ASSUME RingInv, rPc = "copy"
  PROVE  [i \in 1 .. receiveSize |-> receiveBuffer[Cell(readPos + WordLen + i - 1)]] = Payload
<1>1. /\ readPos \in Nat /\ WordLen \in Nat /\ Payload \in Message /\ receiveSize = Len(Payload)
      /\ FrameLen(Payload) = WordLen + receiveSize + WordLen /\ FrameLen(Payload) <= Size
      /\ receiveSize \in Nat
  BY FrameArrived, RingTypes
<1>2. Payload \in Seq(Byte) /\ \A x \in 1 .. receiveSize : FrameBytes(Payload)[WordLen + x] = Payload[x]
  BY <1>1, FrameParts
<1>3. ASSUME NEW x \in 1 .. receiveSize
      PROVE  receiveBuffer[Cell(readPos + WordLen + x - 1)] = Payload[x]
  <2>1. WordLen + x \in 1 .. FrameLen(Payload)
    BY <1>1
  <2>2. receiveBuffer[Cell(readPos + (WordLen + x) - 1)] = FrameBytes(Payload)[WordLen + x]
    BY <2>1, FrameArrived
  <2>3. readPos + (WordLen + x) - 1 = readPos + WordLen + x - 1
    BY <1>1
  <2> QED BY <1>2, <2>2, <2>3
<1>4. Payload = [i \in 1 .. receiveSize |-> Payload[i]]
  BY <1>1, <1>2
<1> HIDE DEF Payload
<1> QED BY <1>3, <1>4

LEMMA RingAtCopy ==
  ASSUME RingInv, CopyPayload
  PROVE  RingState'
<1>1. /\ rPc = "copy" /\ rPc' = "zero" /\ dataSeen' = FALSE
      /\ UNCHANGED <<sent, placed, receiveBuffer, readPos, receiveSize, rWord>>
      /\ received' = Append(received, Payload)
  BY CopiedIsPayload DEF CopyPayload, senderVars, nicVars
<1>2. /\ Disjoint /\ Position /\ Arrived /\ AheadIsZero /\ Words
      /\ received \in Seq(Seq(Byte)) /\ Len(received) \in Nat /\ Len(sent) \in Nat
      /\ DOMAIN sent = 1 .. Len(sent) /\ DOMAIN received = 1 .. Len(received)
      /\ TypeOK /\ Frames
  BY RingTypes
<1>3. Reading \in DOMAIN sent /\ Reading = Len(received) + 1
  BY <1>1, FrameArrived DEF Reading
<1>4. Payload \in Seq(Byte)
  BY <1>2, <1>3, FrameFacts DEF Payload
<1>5. /\ Len(received') = Reading /\ DOMAIN received' = 1 .. Reading
      /\ received'[Reading] = Payload
      /\ \A x \in 1 .. Len(received) : received'[x] = received[x]
  <2> HIDE DEF Reading, Payload
  <2> QED BY <1>1, <1>2, <1>3, <1>4, AppendProperties, LenProperties
<1>6. Reading' = Reading
  BY <1>1, <1>5 DEF Reading
<1>7. Disjoint' /\ AheadIsZero' /\ HasDataSound'
  BY <1>1, <1>2 DEF Disjoint, FrameEnd, AheadIsZero, HasDataSound
<1>8. Arrived'
  BY <1>1, <1>2, <1>6 DEF Arrived
<1>9. Position'
  <2>1. Len(received') <= Len(sent)
    BY <1>2, <1>3, <1>5
  <2>2. \A x \in DOMAIN received' : received'[x] = sent[x].data
    <3>1. SUFFICES ASSUME NEW x \in 1 .. Reading PROVE received'[x] = sent[x].data
      BY <1>5
    <3>2. x \in 1 .. Len(received) \/ x = Reading
      BY <1>2, <1>3
    <3> QED BY <1>2, <1>5, <3>2 DEF Position, Payload
  <2> QED BY <1>1, <1>2, <1>6, <2>1, <2>2 DEF Position, StreamEnd, FrameEnd
<1>10. Words'
  BY <1>1, <1>2, <1>6 DEF Words, Payload, FrameEnd
<1> QED BY <1>7, <1>8, <1>9, <1>10 DEF RingState

(* zeroReceiveBuffer clears the cells of the frame and no others. *)
LEMMA RingAtZero ==
  ASSUME RingInv, ZeroReceiveBuffer
  PROVE  RingState'
<1> DEFINE n == WordLen + receiveSize + WordLen
<1>1. /\ rPc = "zero" /\ rPc' = "advance"
      /\ receiveBuffer' = Overlay(receiveBuffer, readPos, Zeros(n))
      /\ UNCHANGED <<sent, placed, readPos, receiveSize, rWord, received, dataSeen>>
  BY DEF ZeroReceiveBuffer, senderVars, nicVars
<1>2. /\ Disjoint /\ Position /\ Arrived /\ AheadIsZero /\ Words /\ HasDataSound
      /\ TypeOK /\ Frames /\ readPos \in Nat /\ placed \in Nat /\ receiveSize \in Nat
      /\ WordLen \in Nat /\ Size \in Nat /\ sendPos \in Nat
      /\ DOMAIN sent = 1 .. Len(sent) /\ Len(sent) \in Nat
  BY RingTypes
<1>3. /\ Reading \in DOMAIN sent /\ FrameEnd(Reading) = readPos + n
      /\ FrameEnd(Reading) <= placed /\ n <= Size /\ n \in Nat
      /\ sent[Reading].at = readPos
  BY <1>1, <1>2, FrameArrived DEF Position
<1>4. Reading' = Reading
  BY <1>1 DEF Reading
<1>5. Len(Zeros(n)) = n /\ \A x \in 1 .. n : Zeros(n)[x] = 0
  BY <1>3 DEF Zeros
<1> HIDE DEF n
<1>6. ASSUME NEW p \in Int, readPos <= p, p < readPos + n
      PROVE  receiveBuffer'[Cell(p)] = 0
  <2>1. p - readPos + 1 \in 1 .. n
    BY <1>2, <1>3, <1>6
  <2>2. receiveBuffer'[Cell(p)] = Zeros(n)[p - readPos + 1]
    <3> DEFINE z == Zeros(n)
    <3>1. /\ Len(z) \in Nat /\ p < readPos + Len(z) /\ Len(z) <= Size /\ readPos \in Int
      BY <1>2, <1>3, <1>5, <1>6
    <3>2. receiveBuffer' = Overlay(receiveBuffer, readPos, z)
      BY <1>1
    <3> HIDE DEF z
    <3>3. Overlay(receiveBuffer, readPos, z)[Cell(p)] = z[p - readPos + 1]
      BY <1>6, <3>1, OverlayInside
    <3> QED BY <3>2, <3>3 DEF z
  <2> QED BY <1>5, <2>1, <2>2
<1>7. ASSUME NEW p \in Int, readPos + n <= p, p < readPos + Size
      PROVE  receiveBuffer'[Cell(p)] = receiveBuffer[Cell(p)]
  BY <1>1, <1>2, <1>3, <1>5, <1>7, OverlayOutside
<1>8. Arrived'
  <2>1. SUFFICES ASSUME NEW i \in DOMAIN sent, NEW j \in 1 .. FrameLen(sent[i].data),
                        readPos <= sent[i].at + j - 1, sent[i].at + j - 1 < placed
                 PROVE  receiveBuffer'[Cell(sent[i].at + j - 1)] =
                            IF i = Reading THEN 0 ELSE FrameBytes(sent[i].data)[j]
    BY <1>1, <1>4 DEF Arrived
  <2> DEFINE p == sent[i].at + j - 1
  <2>2. /\ p \in Int /\ p < FrameEnd(i) /\ FrameEnd(i) \in Nat /\ sent[i].at \in Nat
        /\ sent[i].at <= p
    BY <1>2, FrameFacts
  <2>3. p < readPos + Size
    BY <1>2, <2>1, <2>2, PlacedWithinRing
  <2>4. CASE i = Reading
    BY <1>3, <1>6, <2>1, <2>2, <2>4
  <2>5. CASE i # Reading
    <3>1. receiveBuffer[Cell(p)] = FrameBytes(sent[i].data)[j]
      BY <1>1, <1>2, <2>1 DEF Arrived
    <3>2. readPos + n <= p
      <4>1. ~(i < Reading)
        <5>1. SUFFICES ASSUME i < Reading PROVE FALSE
          OBVIOUS
        <5>2. FrameEnd(i) <= readPos
          BY <1>2, <1>3, <5>1 DEF Disjoint
        <5> QED BY <1>2, <2>1, <2>2, <5>2
      <4>2. Reading < i
        BY <1>2, <1>3, <2>5, <4>1
      <4>3. readPos + n <= sent[i].at
        BY <1>2, <1>3, <4>2 DEF Disjoint
      <4> QED BY <1>2, <1>3, <2>2, <4>3
    <3> QED BY <1>7, <2>2, <2>3, <2>5, <3>1, <3>2
  <2> QED BY <2>4, <2>5
<1>9. AheadIsZero'
  <2>1. SUFFICES ASSUME NEW k \in Cells, placed <= readPos + k
                 PROVE  receiveBuffer'[Cell(readPos + k)] = 0
    BY <1>1 DEF AheadIsZero
  <2>2. readPos + k \in Int /\ readPos + n <= readPos + k /\ readPos + k < readPos + Size
    BY <1>2, <1>3, <2>1 DEF Cells
  <2>3. receiveBuffer[Cell(readPos + k)] = 0
    BY <1>2, <2>1 DEF AheadIsZero
  <2> QED BY <1>7, <2>2, <2>3
<1>10. Disjoint' /\ HasDataSound'
  BY <1>1, <1>2 DEF Disjoint, FrameEnd, HasDataSound
<1>11. Position'
  BY <1>1, <1>2, <1>4 DEF Position, StreamEnd, FrameEnd
<1>12. Words'
  BY <1>1, <1>2, <1>4 DEF Words, Payload, FrameEnd
<1> QED BY <1>8, <1>9, <1>10, <1>11, <1>12 DEF RingState

(* readPos moves past the zeroed frame, to where the next one begins. *)
LEMMA RingAtAdvance ==
  ASSUME RingInv, AdvanceReadPos
  PROVE  RingState'
<1>1. /\ rPc = "advance" /\ rPc' = "idle" /\ readPos' = readPos + WordLen + receiveSize + WordLen
      /\ UNCHANGED <<sent, placed, receiveBuffer, rWord, received, dataSeen>>
  BY DEF AdvanceReadPos, senderVars, nicVars
<1>2. /\ Disjoint /\ Position /\ Arrived /\ AheadIsZero /\ Words /\ HasDataSound
      /\ TypeOK /\ Frames /\ readPos \in Nat /\ placed \in Nat /\ receiveSize \in Nat
      /\ WordLen \in Nat /\ Size \in Nat /\ Size > 0 /\ sent \in Seq(SentFrame)
      /\ DOMAIN sent = 1 .. Len(sent) /\ Len(sent) \in Nat /\ Len(received) \in Nat
  BY RingTypes
<1>3. /\ Reading \in DOMAIN sent /\ receiveSize = Len(Payload) /\ FrameEnd(Reading) <= placed
      /\ rWord = <<>>
  BY <1>1, <1>2 DEF Words
<1>4. /\ Reading = Len(received) /\ Reading' = Reading + 1
  BY <1>1 DEF Reading
<1>5. /\ sent[Reading].at = readPos /\ FrameLen(Payload) \in 1 .. Size
      /\ FrameEnd(Reading) = readPos + FrameLen(Payload)
      /\ FrameLen(Payload) = WordLen + receiveSize + WordLen /\ FrameEnd(Reading) \in Nat
  BY <1>2, <1>3, FrameFacts DEF Payload, Position
<1>6. readPos' = FrameEnd(Reading)
  BY <1>1, <1>2, <1>5
<1>7. Disjoint' /\ HasDataSound'
  BY <1>1, <1>2 DEF Disjoint, FrameEnd, HasDataSound
<1>8. Position'
  <2>1. CASE Reading + 1 \in DOMAIN sent
    <3>1. sent[Reading + 1].at = FrameEnd(Reading)
      BY <1>2, <1>3, <2>1 DEF Frames
    <3> QED BY <1>1, <1>2, <1>3, <1>4, <1>6, <2>1, <3>1 DEF Position
  <2>2. CASE Reading + 1 \notin DOMAIN sent
    <3>1. Reading = Len(sent) /\ sent # <<>>
      BY <1>2, <1>3, <2>2, EmptySeq
    <3>2. readPos' = StreamEnd'
      BY <1>1, <1>6, <3>1 DEF StreamEnd, FrameEnd
    <3>3. Reading' \in 1 .. Len(sent) + 1
      BY <1>2, <1>3, <1>4
    <3> QED BY <1>1, <1>2, <1>3, <1>4, <1>6, <2>2, <3>2, <3>3 DEF Position
  <2> QED BY <2>1, <2>2
<1>9. Arrived'
  <2>1. SUFFICES ASSUME NEW i \in DOMAIN sent, NEW j \in 1 .. FrameLen(sent[i].data),
                        FrameEnd(Reading) <= sent[i].at + j - 1, sent[i].at + j - 1 < placed
                 PROVE  receiveBuffer[Cell(sent[i].at + j - 1)] = FrameBytes(sent[i].data)[j]
    BY <1>1, <1>6 DEF Arrived
  <2> DEFINE p == sent[i].at + j - 1
  <2>2. p \in Int /\ p < FrameEnd(i) /\ FrameEnd(i) \in Nat
    BY <1>2, FrameFacts
  <2>3. i # Reading /\ readPos <= p
    BY <1>2, <1>5, <2>1, <2>2
  <2>4. receiveBuffer[Cell(p)] = IF rPc = "advance" /\ i = Reading
                                 THEN 0 ELSE FrameBytes(sent[i].data)[j]
    BY <1>2, <2>1, <2>3 DEF Arrived
  <2> QED BY <2>3, <2>4
<1>10. AheadIsZero'
  <2>1. SUFFICES ASSUME NEW k \in Cells, placed <= FrameEnd(Reading) + k
                 PROVE  receiveBuffer[Cell(FrameEnd(Reading) + k)] = 0
    BY <1>1, <1>6 DEF AheadIsZero
  <2> DEFINE p == FrameEnd(Reading) + k
  <2>2. p \in Int /\ readPos <= p /\ p < FrameEnd(Reading) + Size
    BY <1>2, <1>5, <2>1 DEF Cells
  <2>3. CASE p < readPos + Size
    <3>1. p - readPos \in Cells /\ readPos + (p - readPos) = p
      BY <1>2, <2>2, <2>3 DEF Cells
    <3> QED BY <1>2, <2>1, <3>1 DEF AheadIsZero
  <2>4. CASE readPos + Size <= p
    <3> DEFINE q == p - Size
               j == q - readPos + 1
    <3>1. /\ q \in Int /\ readPos <= q /\ q < FrameEnd(Reading) /\ q + Size = p
          /\ j \in 1 .. FrameLen(Payload) /\ sent[Reading].at + j - 1 = q /\ q < placed
      BY <1>2, <1>3, <1>5, <2>2, <2>4
    <3>2. receiveBuffer[Cell(q)] = 0
      <4>1. receiveBuffer[Cell(sent[Reading].at + j - 1)]
                = IF rPc = "advance" /\ Reading = Reading THEN 0 ELSE FrameBytes(sent[Reading].data)[j]
        BY <1>2, <1>3, <3>1 DEF Arrived, Payload
      <4> QED BY <1>1, <3>1, <4>1
    <3>3. Cell(p) = Cell(q)
      BY <3>1, CellShift
    <3> QED BY <3>2, <3>3
  <2> QED BY <1>2, <2>2, <2>3, <2>4
<1>11. Words'
  BY <1>1, <1>3 DEF Words
<1> QED BY <1>7, <1>8, <1>9, <1>10, <1>11 DEF RingState

-----------------------------------------------------------------------------
(* The invariant, and what follows from it *)

LEMMA RingInit == Init => RingInv
<1> SUFFICES ASSUME Init PROVE RingInv
  OBVIOUS
<1>1. /\ sent = <<>> /\ received = <<>> /\ placed = 0 /\ readPos = 0 /\ rPc = "idle"
      /\ rWord = <<>> /\ dataSeen = FALSE /\ receiveBuffer = [c \in Cells |-> 0]
      /\ DOMAIN sent = {} /\ DOMAIN received = {} /\ Len(sent) = 0 /\ Len(received) = 0
  BY DEF Init
<1>2. Disjoint /\ Arrived /\ Words /\ HasDataSound
  BY <1>1 DEF Disjoint, Arrived, Words, HasDataSound
<1>3. Position
  <2>1. Reading = 1
    BY <1>1 DEF Reading
  <2> QED BY <1>1, <2>1 DEF Position, StreamEnd
<1>4. AheadIsZero
  <2> SUFFICES ASSUME NEW k \in Cells PROVE receiveBuffer[Cell(readPos + k)] = 0
    BY DEF AheadIsZero
  <2>1. readPos + k \in Int
    BY <1>1, Sizes DEF Cells
  <2> QED BY <1>1, <2>1, CellType
<1> QED BY <1>2, <1>3, <1>4, KeptInit DEF RingInv, RingState

(* What a step does to the ring and to the receiver *)
LEMMA RingSteps ==
  ASSUME [Next]_vars
  PROVE  \/ \E m \in Message : StartSend(m)
         \/ PlaceByte
         \/ \E max \in MaxSizes \union {Size} : StartReceive(max)
         \/ StartHasData \/ Retry \/ TooLong
         \/ ReadByte \/ SizeRead \/ Accept \/ HasDataReturn
         \/ CopyPayload \/ ZeroReceiveBuffer \/ AdvanceReadPos
         \/ UNCHANGED ringVars
  BY DEF Next, Sender, Nic, Receiver, WriteToSendBuffer, PostRead, PollRead, PollError, PostWrite,
         SendQueueFull, ExecuteRead, LandRead, Break, vars, senderVars, nicVars, receiverVars,
         ringVars

LEMMA RingStep == CollisionFree /\ RingInv /\ [Next]_vars => RingState'
<1> SUFFICES ASSUME CollisionFree, RingInv, [Next]_vars PROVE RingState'
  OBVIOUS
<1>1. Words
  BY RingTypes
<1>2. CASE (\E max \in MaxSizes \union {Size} : StartReceive(max)) \/ StartHasData
  <2>1. /\ rPc = "idle" /\ rPc' = "size"
        /\ UNCHANGED <<sent, placed, receiveBuffer, readPos, received, dataSeen, rWord>>
    BY <1>2 DEF StartReceive, StartHasData, senderVars, nicVars
  <2> QED BY <1>1, <2>1, RingAtRestart DEF Words
<1>3. CASE Retry
  <2>1. /\ rPc = "validity" /\ rPc' = "size" /\ rWord' = <<>>
        /\ UNCHANGED <<sent, placed, receiveBuffer, readPos, received, dataSeen>>
    BY <1>3 DEF Retry, ValidityRead, senderVars, nicVars
  <2> QED BY <2>1, RingAtRestart
<1>4. CASE TooLong
  <2>1. /\ rPc = "copy" /\ rPc' = "idle"
        /\ UNCHANGED <<sent, placed, receiveBuffer, readPos, received, dataSeen, rWord>>
    BY <1>4 DEF TooLong, senderVars, nicVars
  <2> QED BY <1>1, <2>1, RingAtRestart DEF Words
<1>5. CASE UNCHANGED ringVars
  <2>1. RingState
    BY DEF RingInv
  <2>2. Reading' = Reading /\ StreamEnd' = StreamEnd
    BY <1>5 DEF ringVars, receiverVars, Reading, StreamEnd, FrameEnd
  <2>3. Disjoint' /\ Position' /\ Arrived' /\ AheadIsZero' /\ HasDataSound'
    BY <1>5, <2>1, <2>2 DEF ringVars, receiverVars, RingState, Disjoint, Position, Arrived,
       AheadIsZero, HasDataSound, FrameEnd
  <2>4. Words'
    <3>1. sent' = sent /\ placed' = placed
          /\ UNCHANGED <<rPc, rWord, receiveSize, readPos, received>>
      BY <1>5 DEF ringVars, receiverVars
    <3>2. placed \in Nat
      BY RingTypes
    <3>3. placed' \in Nat /\ placed <= placed'
      BY <3>1, <3>2
    <3> QED BY <3>1, <3>3, WordsKept
  <2> QED BY <2>3, <2>4 DEF RingState
<1> QED BY <1>2, <1>3, <1>4, <1>5, RingSteps, RingAtStart, RingAtPlace, RingAtReadByte,
           RingAtSizeRead, RingAtAccept, RingAtHasData, RingAtCopy, RingAtZero, RingAtAdvance

LEMMA RingInvariant == CollisionFree => (Spec => []RingInv)
<1> SUFFICES ASSUME CollisionFree PROVE Spec => []RingInv
  OBVIOUS
<1>1. RingInv /\ [Next]_vars => RingInv'
  <2> SUFFICES ASSUME RingInv, [Next]_vars PROVE RingInv'
    OBVIOUS
  <2>1. KeptInv /\ SenderInv
    BY DEF RingInv, KeptInv
  <2>2. KeptInv'
    BY <2>1, TypeStep, FramesStep, SendStateStep, QueueStep, GrantedStep, OrderedStep, KeptStep
       DEF KeptInv, SenderInv
  <2> QED BY <2>2, RingStep DEF RingInv
<1> QED BY <1>1, RingInit, PTL DEF Spec

(* Flow control and framing together, for every ring, word width and       *)
(* schedule: the sender's idea of readPos is never ahead of it, the        *)
(* receiver never gets ahead of the bytes that have arrived, and no more   *)
(* than a ring of bytes is ever outstanding.                               *)
THEOREM OverrunFree == CollisionFree => (Spec => []NoOverrun)
<1>1. RingInv => NoOverrun
  <2> SUFFICES ASSUME RingInv PROVE NoOverrun
    OBVIOUS
  <2>1. Granted /\ Position
    BY RingTypes
  <2> QED BY <2>1, PlacedWithinRing DEF Granted, Position, NoOverrun
<1> QED BY <1>1, RingInvariant, PTL

(* Whatever part of the ring the sender may still be granted is zero until *)
(* the card places a byte there.                                           *)
THEOREM ZeroAhead == CollisionFree => (Spec => []AheadIsZero)
<1>1. RingInv => AheadIsZero
  BY DEF RingInv, RingState
<1> QED BY <1>1, RingInvariant, PTL

(* Once hasData() has answered true the next frame has been placed whole.  *)
THEOREM HasDataTrue == CollisionFree => (Spec => []HasDataSound)
<1>1. RingInv => HasDataSound
  BY DEF RingInv, RingState
<1> QED BY <1>1, RingInvariant, PTL

-----------------------------------------------------------------------------
(* The channel *)

(* Every frame takes at least the room of its two words. *)
Least(n) == n * (WordLen + WordLen)
Spread == \A i, k \in DOMAIN sent : i <= k => sent[i].at + Least(k - i) <= sent[k].at

ChannelInv == RingInv /\ Spread

-----------------------------------------------------------------------------
(* Arithmetic *)

LEMMA LeastRoom ==
  /\ \A n \in Int : Least(n) \in Int
  /\ Least(0) = 0
  /\ \A n \in Int : Least(n + 1) = Least(n) + WordLen + WordLen
<1> DEFINE c == WordLen + WordLen
<1>1. c \in Int
  BY Sizes
<1>2. \A n \in Int : n * c \in Int /\ 0 * c = 0 /\ (n + 1) * c = (n * c) + c
  <2> HIDE DEF c
  <2> QED BY <1>1
<1>3. \A n \in Int : Least(n) = n * c
  BY DEF Least
<1>4. 0 \in Int /\ \A n \in Int : n + 1 \in Int
  OBVIOUS
<1>5. \A n \in Int : Least(n) \in Int /\ Least(0) = 0 /\ Least(n + 1) = Least(n) + c
  BY <1>2, <1>3, <1>4, Zenon
<1>6. \A n \in Int : Least(n + 1) = Least(n) + WordLen + WordLen
  <2> SUFFICES ASSUME NEW n \in Int PROVE Least(n + 1) = Least(n) + WordLen + WordLen
    OBVIOUS
  <2>1. Least(n + 1) = Least(n) + c /\ Least(n) \in Int
    BY <1>5
  <2> QED BY <2>1, Sizes
<1> QED BY <1>4, <1>5, <1>6

(* A number of frames that fits the ring is within the channel's capacity. *)
LEMMA FitsCapacity ==
  ASSUME NEW a \in Nat, Least(a) <= Size
  PROVE  a < (Size \div (2 * WordLen)) + 1
<1> DEFINE c == 2 * WordLen
           q == Size \div c
<1>1. /\ c \in Nat /\ c > 0 /\ c = WordLen + WordLen
  BY Sizes
<1>2. /\ q \in Int /\ Size = (c * q) + (Size % c) /\ Size % c \in 0 .. c - 1
  <2> HIDE DEF c
  <2> QED BY <1>1, Sizes
<1>3. a * c <= Size
  BY <1>1 DEF Least
<1> HIDE DEF c, q
<1>4. SUFFICES ASSUME q + 1 <= a PROVE FALSE
  BY <1>1, <1>2 DEF c, q
<1>5. PICK d \in Nat : a = (q + 1) + d
  <2>1. a - (q + 1) \in Nat /\ a = (q + 1) + (a - (q + 1))
    BY <1>2, <1>4
  <2> QED BY <2>1
<1>6. a * c = ((c * q) + c) + (d * c) /\ d * c \in Nat /\ c * q \in Int
  <2>1. \A x, y \in Int : \A z \in Nat : ((x + 1) + z) * y = ((y * x) + y) + (z * y)
    OBVIOUS
  <2>2. d * c \in Nat /\ c * q \in Int
    BY <1>1, <1>2
  <2>3. c \in Int
    BY <1>1
  <2> QED BY <1>2, <1>5, <2>1, <2>2, <2>3
<1>7. Size \in Nat
  BY Sizes
<1> QED BY <1>1, <1>2, <1>3, <1>6, <1>7

-----------------------------------------------------------------------------
LEMMA SpreadStep == SenderInv /\ Spread /\ [Next]_vars => Spread'
<1> SUFFICES ASSUME SenderInv, Spread, [Next]_vars PROVE Spread'
  OBVIOUS
<1>1. ASSUME NEW m \in Message, StartSend(m) PROVE Spread'
  <2> DEFINE n == Len(sent)
  <2>1. /\ n \in Nat /\ sent'[n + 1] = [data |-> m, at |-> sendPos]
        /\ \A i \in 1 .. n : sent'[i] = sent[i]
        /\ DOMAIN sent = 1 .. n /\ DOMAIN sent' = 1 .. (n + 1)
        /\ sendPos = IF sent = <<>> THEN 0 ELSE FrameEnd(n)
        /\ sent \in Seq(SentFrame)
    BY <1>1, NewFrame
  <2>2. sendPos \in Nat /\ TypeOK /\ Frames /\ sent'[n + 1].at = sendPos
    BY <2>1 DEF SenderInv, TypeOK
  <2> HIDE DEF n
  <2>3. SUFFICES ASSUME NEW i \in 1 .. (n + 1), NEW k \in 1 .. (n + 1), i <= k
                 PROVE  sent'[i].at + Least(k - i) <= sent'[k].at
    BY <2>1 DEF Spread
  <2>4. CASE k \in 1 .. n
    <3>1. i \in 1 .. n
      BY <2>1, <2>3, <2>4
    <3>2. sent'[i] = sent[i] /\ sent'[k] = sent[k] /\ i \in DOMAIN sent /\ k \in DOMAIN sent
      BY <2>1, <2>4, <3>1
    <3> QED BY <2>3, <3>2 DEF Spread
  <2>5. CASE k = n + 1 /\ i = n + 1
    <3>1. k - i = 0
      BY <2>1, <2>5
    <3> QED BY <2>2, <2>5, <3>1, LeastRoom
  <2>6. CASE k = n + 1 /\ i \in 1 .. n
    <3>1. sent # <<>> /\ n \in DOMAIN sent /\ i <= n /\ i \in DOMAIN sent
      BY <2>1, <2>6, EmptySeq DEF n
    <3>2. sent[i].at + Least(n - i) <= sent[n].at
      BY <3>1 DEF Spread
    <3>3. /\ sent[n].at \in Nat /\ FrameEnd(n) = sent[n].at + FrameLen(sent[n].data)
          /\ FrameLen(sent[n].data) = WordLen + Len(sent[n].data) + WordLen
          /\ Len(sent[n].data) \in 0 .. Size
      BY <2>2, <3>1, FrameFacts
    <3>4. sent[i].at \in Nat
      BY <2>2, <3>1, FrameFacts
    <3>5. sent[n].at + WordLen + WordLen <= sendPos
      BY <2>1, <3>1, <3>3, Sizes
    <3>6. /\ k - i = (n - i) + 1 /\ n - i \in Int
      BY <2>1, <2>6
    <3>7. Least(k - i) = Least(n - i) + WordLen + WordLen /\ Least(n - i) \in Int
      BY <3>6, LeastRoom
    <3>8. sent[i].at + Least(k - i) <= sendPos
      <4>1. \A a, b, l, w, e \in Int : a + l <= b /\ b + w + w <= e => a + (l + w + w) <= e
        OBVIOUS
      <4>2. sent[i].at \in Int /\ sent[n].at \in Int /\ WordLen \in Int /\ sendPos \in Int
        BY <2>2, <3>3, <3>4, Sizes
      <4>3. sent[i].at + (Least(n - i) + WordLen + WordLen) <= sendPos
        BY <3>2, <3>5, <3>7, <4>1, <4>2
      <4> QED BY <3>7, <4>3
    <3> QED BY <2>1, <2>2, <2>6, <3>8
  <2> QED BY <2>1, <2>4, <2>5, <2>6
<1>2. CASE UNCHANGED sent
  BY <1>2 DEF Spread
<1> QED BY <1>1, <1>2, SentOrNot DEF WriteToSendBuffer, LandRead, senderVars

LEMMA ChannelInvariant == CollisionFree => (Spec => []ChannelInv)
<1> SUFFICES ASSUME CollisionFree PROVE Spec => []ChannelInv
  OBVIOUS
<1>1. Init => Spread
  BY DEF Init, Spread
<1>2. RingInv => SenderInv
  BY RingTypes
<1>3. SenderInv /\ Spread /\ [Next]_vars => Spread'
  BY SpreadStep
<1> QED BY <1>1, <1>2, <1>3, RingInvariant, PTL DEF Spec, ChannelInv

-----------------------------------------------------------------------------
(* The refinement *)

(* When send() begins a frame, those not yet received fit the ring. *)
LEMMA RoomInChannel ==
  ASSUME ChannelInv, sPc = "idle"
  PROVE  Len(sent) - Len(received) < (Size \div (2 * WordLen)) + 1
<1> DEFINE n == Len(sent)
           r == Len(received)
<1>1. RingInv /\ Spread
  BY DEF ChannelInv
<1>2. /\ n \in Nat /\ r \in Nat /\ DOMAIN sent = 1 .. n /\ sent \in Seq(SentFrame)
      /\ TypeOK /\ Frames /\ Position /\ SenderInv /\ readPos \in Nat /\ sendPos \in Nat
      /\ Size \in Nat /\ WordLen \in Nat
  BY <1>1, RingTypes
<1> HIDE DEF n, r
<1>3. r <= n
  BY <1>2 DEF Position, n, r
<1>4. CASE r = n
  <2>1. n - r = 0
    BY <1>2, <1>4
  <2>2. Least(0) <= Size
    BY <1>2, LeastRoom
  <2> QED BY <2>1, <2>2, FitsCapacity DEF n, r
<1>5. CASE r < n
  <2>1. Reading \in 1 .. n /\ Reading <= r + 1
    BY <1>2, <1>5 DEF Position, Reading, n, r
  <2>2. sent # <<>> /\ n \in DOMAIN sent
    BY <1>2, <1>5, EmptySeq DEF n
  <2>3. sendPos = FrameEnd(n) /\ readPos = sent[Reading].at
    BY <1>2, <2>1, <2>2, SendWithinStream DEF StreamEnd, Position, n
  <2>4. r + 1 \in 1 .. n /\ readPos <= sent[r + 1].at
    <3>1. r + 1 \in 1 .. n
      BY <1>2, <1>5
    <3>2. CASE Reading = r + 1
      BY <2>3, <3>1, <3>2, <1>2
    <3>3. CASE Reading < r + 1
      <4>1. FrameEnd(Reading) <= sent[r + 1].at
        BY <1>1, <1>2, <2>1, <3>1, <3>3, RingTypes DEF Disjoint
      <4>2. /\ FrameEnd(Reading) = sent[Reading].at + FrameLen(sent[Reading].data)
            /\ FrameLen(sent[Reading].data) \in 1 .. Size /\ sent[Reading].at \in Nat
        BY <1>2, <2>1, FrameFacts
      <4>3. sent[r + 1].at \in Nat
        BY <1>2, <3>1, FrameFacts
      <4> QED BY <1>2, <2>3, <3>1, <4>1, <4>2, <4>3
    <3> QED BY <1>2, <2>1, <3>1, <3>2, <3>3
  <2>5. sent[r + 1].at + Least(n - (r + 1)) <= sent[n].at
    <3>1. r + 1 \in DOMAIN sent /\ r + 1 <= n
      BY <1>2, <2>4
    <3> QED BY <1>1, <2>2, <3>1 DEF Spread
  <2>6. /\ sent[n].at \in Nat /\ FrameEnd(n) = sent[n].at + FrameLen(sent[n].data)
        /\ FrameLen(sent[n].data) = WordLen + Len(sent[n].data) + WordLen
        /\ Len(sent[n].data) \in 0 .. Size
    BY <1>2, <2>2, FrameFacts
  <2>7. sent[r + 1].at \in Nat
    BY <1>2, <2>4, FrameFacts
  <2>8. sent[n].at + WordLen + WordLen <= sendPos
    BY <1>2, <2>3, <2>6
  <2>9. sendPos <= readPos + Size
    BY <1>1, PlacedWithinRing
  <2>10. Least(n - r) = Least(n - (r + 1)) + WordLen + WordLen /\ Least(n - (r + 1)) \in Int
    <3>1. n - (r + 1) \in Int /\ n - r = (n - (r + 1)) + 1
      BY <1>2
    <3> QED BY <3>1, LeastRoom
  <2>11. Least(n - r) <= Size
    <3> DEFINE a == sent[r + 1].at
               b == sent[n].at
               l == Least(n - (r + 1))
    <3>1. /\ readPos <= a /\ a + l <= b /\ b + WordLen + WordLen <= sendPos
          /\ sendPos <= readPos + Size /\ a \in Int /\ b \in Int /\ l \in Int
      BY <2>4, <2>5, <2>6, <2>7, <2>8, <2>9, <2>10
    <3>2. Least(n - r) = l + WordLen + WordLen
      BY <2>10
    <3> HIDE DEF a, b, l
    <3>3. l + WordLen + WordLen <= Size
      BY <1>2, <3>1
    <3> QED BY <3>2, <3>3
  <2>12. n - r \in Nat
    BY <1>2, <1>5
  <2> QED BY <2>11, <2>12, FitsCapacity DEF n, r
<1> QED BY <1>2, <1>3, <1>4, <1>5

LEMMA AsFunction ==
  ASSUME NEW T, NEW s \in Seq(T)
  PROVE  s = [i \in 1 .. Len(s) |-> s[i]]
  OBVIOUS

Payloads == [i \in DOMAIN sent |-> sent[i].data]

LEMMA PayloadsType ==
  ASSUME RingInv
  PROVE  Payloads \in Seq(Message) /\ Len(Payloads) = Len(sent)
<1>1. /\ DOMAIN sent = 1 .. Len(sent) /\ Len(sent) \in Nat /\ TypeOK /\ Frames
  BY RingTypes
<1>2. \A i \in 1 .. Len(sent) : sent[i].data \in Message
  BY <1>1, FrameFacts
<1> QED BY <1>1, <1>2 DEF Payloads

LEMMA ChannelInit == Init => Channel!ChanInit
<1> SUFFICES ASSUME Init PROVE Channel!ChanInit
  OBVIOUS
<1>1. sent = <<>> /\ received = <<>> /\ DOMAIN sent = {}
  BY DEF Init
<1>2. [i \in DOMAIN sent |-> sent[i].data] = <<>>
  BY <1>1
<1> QED BY <1>1, <1>2 DEF Channel!ChanInit

(* send() starts a message of its own, with room left in the channel. *)
LEMMA SendIsSend ==
  ASSUME ChannelInv, NEW m \in Message, StartSend(m)
  PROVE  Channel!Send(m)
<1> DEFINE n == Len(sent)
<1>1. /\ RingInv /\ sPc = "idle" /\ received' = received
  BY DEF ChannelInv, StartSend, receiverVars
<1>2. /\ n \in Nat /\ sent'[n + 1].data = m
      /\ \A i \in 1 .. n : sent'[i] = sent[i]
      /\ DOMAIN sent = 1 .. n /\ DOMAIN sent' = 1 .. (n + 1)
  <2>1. SenderInv
    BY <1>1, RingTypes
  <2>2. /\ n \in Nat /\ sent'[n + 1] = [data |-> m, at |-> sendPos]
        /\ \A i \in 1 .. n : sent'[i] = sent[i]
        /\ DOMAIN sent = 1 .. n /\ DOMAIN sent' = 1 .. (n + 1)
    BY <2>1, NewFrame
  <2>3. sent'[n + 1].data = m
    BY <2>2
  <2> QED BY <2>2, <2>3
<1>3. Payloads \in Seq(Message) /\ Len(Payloads) = n
  BY <1>1, PayloadsType
<1>4. Payloads' = Append(Payloads, m)
  <2>1. /\ Len(Append(Payloads, m)) = n + 1 /\ Append(Payloads, m) \in Seq(Message)
        /\ Append(Payloads, m)[n + 1] = m
        /\ \A i \in 1 .. n : Append(Payloads, m)[i] = Payloads[i]
    BY <1>3, AppendProperties
  <2>2. DOMAIN Append(Payloads, m) = 1 .. (n + 1)
    BY <2>1, LenProperties
  <2>3. /\ Payloads' = [i \in 1 .. (n + 1) |-> sent'[i].data]
        /\ \A i \in 1 .. n : Payloads[i] = sent[i].data
    BY <1>2 DEF Payloads
  <2>4. \A i \in 1 .. (n + 1) : sent'[i].data = Append(Payloads, m)[i]
    <3> SUFFICES ASSUME NEW i \in 1 .. (n + 1) PROVE sent'[i].data = Append(Payloads, m)[i]
      OBVIOUS
    <3>1. i \in 1 .. n \/ i = n + 1
      BY <1>2
    <3> QED BY <1>2, <2>1, <2>3, <3>1
  <2>5. Append(Payloads, m) = [i \in 1 .. (n + 1) |-> Append(Payloads, m)[i]]
    BY <2>1, AsFunction
  <2> HIDE DEF n
  <2> QED BY <2>3, <2>4, <2>5
<1>5. Len(Payloads) - Len(received) < (Size \div (2 * WordLen)) + 1
  BY <1>1, <1>3, RoomInChannel
<1> QED BY <1>1, <1>4, <1>5 DEF Payloads, Channel!Send, Channel!InFlight

(* receive() copies out the oldest message not yet received. *)
LEMMA CopyIsReceive ==
  ASSUME ChannelInv, CopyPayload
  PROVE  Channel!Receive
<1>1. /\ RingInv /\ rPc = "copy" /\ sent' = sent
  BY DEF ChannelInv, CopyPayload, senderVars
<1>2. received' = Append(received, Payload)
  BY <1>1, CopiedIsPayload DEF CopyPayload
<1>3. /\ Reading \in DOMAIN sent /\ Reading = Len(received) + 1
      /\ DOMAIN sent = 1 .. Len(sent) /\ Len(sent) \in Nat /\ Len(received) \in Nat
  BY <1>1, FrameArrived, RingTypes DEF Reading
<1>4. Len(Payloads) = Len(sent) /\ Payloads[Len(received) + 1] = Payload
  BY <1>1, <1>3, PayloadsType DEF Payloads, Payload
<1>5. Len(Payloads) - Len(received) > 0
  BY <1>3, <1>4
<1>6. Payloads' = Payloads
  BY <1>1 DEF Payloads
<1> QED BY <1>2, <1>4, <1>5, <1>6 DEF Payloads, Channel!Receive, Channel!InFlight

LEMMA ChannelStep == ChannelInv /\ [Next]_vars => [Channel!ChanNext]_(Channel!chanVars)
<1> SUFFICES ASSUME ChannelInv, [Next]_vars PROVE [Channel!ChanNext]_(Channel!chanVars)
  OBVIOUS
<1>1. CASE UNCHANGED <<sent, received>>
  BY <1>1 DEF Channel!chanVars
<1>2. CASE CopyPayload
  BY <1>2, CopyIsReceive DEF Channel!ChanNext
<1>3. ASSUME NEW m \in Message, StartSend(m) PROVE Channel!ChanNext
  BY <1>3, SendIsSend DEF Channel!ChanNext
<1>4. \/ UNCHANGED <<sent, received>> \/ CopyPayload \/ \E m \in Message : StartSend(m)
  BY DEF Next, Sender, Nic, Receiver, WriteToSendBuffer, PostRead, PollRead, PollError, PostWrite,
         SendQueueFull, PlaceByte, ExecuteRead, LandRead, Break, StartReceive, StartHasData,
         ReadByte, SizeRead, Retry, Accept, HasDataReturn, TooLong, ZeroReceiveBuffer,
         AdvanceReadPos, vars, senderVars, nicVars, receiverVars
<1> QED BY <1>1, <1>2, <1>3, <1>4

(* For every ring, word width and schedule, what receive() returns is what *)
(* send() was given, whole, in order and once, and never more messages are *)
(* under way than empty frames fit the ring.                               *)
THEOREM RingIsChannel == CollisionFree => (Spec => ImplementsChannel)
<1> SUFFICES ASSUME CollisionFree PROVE Spec => ImplementsChannel
  OBVIOUS
<1>1. Spec => []ChannelInv
  BY ChannelInvariant
<1> QED BY <1>1, ChannelInit, ChannelStep, PTL DEF Spec, ImplementsChannel, Channel!ChanSpec

-----------------------------------------------------------------------------
(* The send queue *)

(* Whether the stream from frame f to p goes on at the start of the ring   *)
Wrapped(f, p) == IF p - sent[f].at > Size - Cell(sent[f].at) THEN 1 ELSE 0

(* The slots the frames from f on have taken, and the running read: one    *)
(* each, and one more for the only frame that is split.                    *)
Taken(f) ==
    CASE sPc = "idle" -> (Len(sent) - f) + 1 + Wrapped(f, sendPos)
      [] Writing -> (Len(sent) - f) + Wrapped(f, Current.at) + (IF reading = "none" THEN 0 ELSE 1)
      [] sPc = "post" -> (Len(sent) - f) + Wrapped(f, Current.at) + posted

(* Frame f is the first posted since a read last gave the slots back: all  *)
(* of it is ahead of the readPos that read fetched.                        *)
Since(f) ==
    /\ sqUsed <= Taken(f)
    /\ sendPos <= sent[f].at + Size
    /\ reading = "landed" \/ currentRemoteReceive <= sent[f].at

Reclaimed == IF sent = <<>> THEN sqUsed = 0 ELSE \E f \in DOMAIN sent : Since(f)

(* send() is at the read it posted, and the read is the last of the queue. *)
ReadLast ==
    /\ reading # "none" => Writing
    /\ reading \in {"executed", "landed"} => sq = <<>>

ErrorsMeanBroken == \A i \in DOMAIN cq : cq[i] = "error" => broken

SlotInv ==
    /\ ReadLast /\ ErrorsMeanBroken /\ SendQueueSuffices
    /\ broken \/ sPc = "failed" \/ Reclaimed

LEMMA WrappedType ==
  ASSUME NEW f \in DOMAIN sent, TypeOK, Frames, NEW p \in Nat
  PROVE  Wrapped(f, p) \in 0 .. 1
  BY DEF Wrapped

(* Between b and a ring further on the stream passes the ring's end once.  *)
LEMMA WrapsOnce ==
  ASSUME NEW b \in Nat, NEW p \in Nat, NEW e \in Nat,
         b <= p, e <= b + Size, Size - Cell(p) < e - p
  PROVE  ~(p - b > Size - Cell(b)) /\ e - b > Size - Cell(b)
<1> DEFINE w == Size - Cell(b)
<1>1. /\ Size \in Nat /\ Cell(b) \in Nat /\ Cell(p) \in Nat /\ Cell(b) < Size /\ Cell(p) < Size
  BY CellType, Sizes
<1>2. w \in 1 .. Size /\ Cell(b + w) = 0 /\ w = Size - Cell(b)
  BY <1>1, CellWrap
<1> HIDE DEF w
<1>3. ASSUME p - b >= w PROVE FALSE
  <2> DEFINE d == p - (b + w)
  <2>1. d \in Nat /\ d < Size /\ p = (b + w) + d /\ b + w \in Int
    BY <1>1, <1>2, <1>3
  <2>2. Cell(p) = d
    <3> HIDE DEF d
    <3>1. Cell(b + w) + d < Size /\ 0 + d = d
      BY <1>2, <2>1
    <3>2. Cell((b + w) + d) = Cell(b + w) + d
      BY <2>1, <3>1, CellNext
    <3> QED BY <1>2, <2>1, <3>1, <3>2
  <2> HIDE DEF d
  <2> QED BY <1>1, <1>2, <2>1, <2>2
<1>4. p - b \in Nat /\ Cell(b) + (p - b) < Size /\ b + (p - b) = p
  BY <1>1, <1>2, <1>3
<1>5. Cell(b + (p - b)) = Cell(b) + (p - b)
  BY <1>4, CellNext
<1>6. Cell(p) = Cell(b) + (p - b)
  BY <1>4, <1>5
<1> QED BY <1>1, <1>2, <1>3, <1>4, <1>6

(* A frame in two slices is the one that goes on at the start of the ring. *)
LEMMA SplitWraps ==
  ASSUME SenderInv, sPc = "post", Len(Slices) = 2,
         NEW f \in DOMAIN sent, sent[f].at <= Current.at, sendPos <= sent[f].at + Size
  PROVE  Wrapped(f, Current.at) = 0 /\ Wrapped(f, sendPos) = 1
<1>1. TypeOK /\ Frames /\ SendState /\ sendPos \in Nat
  BY DEF SenderInv, TypeOK
<1>2. /\ Len(sent) \in DOMAIN sent /\ sent[f].at \in Nat /\ Current.at \in Nat
      /\ FrameLen(Current.data) \in Nat
      /\ sendPos = Current.at + FrameLen(Current.data)
  <2>1. Len(sent) \in DOMAIN sent
    BY <1>1, SlicesOfCurrent
  <2> QED BY <1>1, <2>1, FrameFacts DEF Current, SendState
<1>3. Size - Cell(Current.at) < FrameLen(Current.data)
  <2> DEFINE a == Current.at
             n == FrameLen(Current.data)
             first == Size - Cell(a)
  <2>1. first \in Int /\ n \in Int
    BY <1>2, CellType, Sizes
  <2>2. ASSUME first >= n PROVE FALSE
    <3>1. Slices = <<Slice(Cell(a), n, a)>>
      BY <2>2 DEF Slices, Wraparound
    <3>2. Len(Slices) = 1
      BY <3>1
    <3> QED BY <3>2
  <2> HIDE DEF a, n, first
  <2>3. first < n
    BY <2>1, <2>2
  <2> QED BY <2>3 DEF a, n, first
<1>4. sendPos - Current.at = FrameLen(Current.data)
  BY <1>2
<1>5. /\ ~(Current.at - sent[f].at > Size - Cell(sent[f].at))
      /\ sendPos - sent[f].at > Size - Cell(sent[f].at)
  BY <1>1, <1>2, <1>3, <1>4, WrapsOnce
<1> QED BY <1>5 DEF Wrapped

(* Where the frame being sent stands: behind the frames before it. *)
LEMMA FramesSince ==
  ASSUME ChannelInv, sPc \in {"length", "payload", "validity", "post"}, NEW f \in DOMAIN sent
  PROVE  /\ Len(sent) \in DOMAIN sent /\ Len(sent) - f \in Nat /\ sent[f].at \in Nat
         /\ Current.at \in Nat /\ sent[f].at <= Current.at /\ Current.at <= sendPos
         /\ sendPos <= Current.at + Size
         /\ sPc = "post" => Current.at + WordLen + WordLen <= sendPos
         /\ sent[f].at + Least(Len(sent) - f) <= Current.at
<1>1. SenderInv /\ TypeOK /\ Frames /\ SendState /\ Spread /\ DOMAIN sent = 1 .. Len(sent)
      /\ Len(sent) \in Nat /\ sent \in Seq(SentFrame) /\ sendPos \in Nat
  BY RingTypes DEF ChannelInv
<1>2. sent # <<>> /\ Len(sent) \in DOMAIN sent /\ f <= Len(sent) /\ Len(sent) - f \in Nat
  <2>1. sent # <<>> /\ f \in 1 .. Len(sent)
    BY <1>1 DEF SendState
  <2> QED BY <1>1, <2>1
<1>3. /\ sent[f].at \in Nat /\ Current.at \in Nat /\ Len(Current.data) \in 0 .. Size
      /\ FrameLen(Current.data) = WordLen + Len(Current.data) + WordLen
      /\ FrameLen(Current.data) \in 1 .. Size
      /\ FrameEnd(Len(sent)) = Current.at + FrameLen(Current.data)
  BY <1>1, <1>2, FrameFacts DEF Current
<1>4. sent[f].at + Least(Len(sent) - f) <= Current.at
  BY <1>1, <1>2 DEF Spread, Current
<1>5. \A n \in Nat : Least(n) \in Nat
  BY Sizes DEF Least
<1>6. sent[f].at <= Current.at
  <2>1. Least(Len(sent) - f) \in Nat
    BY <1>2, <1>5
  <2> QED BY <1>3, <1>4, <2>1
<1>7. /\ Current.at <= sendPos /\ sendPos <= Current.at + Size
      /\ sPc = "post" => Current.at + WordLen + WordLen <= sendPos
  <2>1. /\ sPc = "length" => sendPos = Current.at
        /\ sPc = "payload" => sendPos = Current.at + WordLen
        /\ sPc = "validity" => sendPos = Current.at + WordLen + Len(Current.data)
        /\ sPc = "post" => sendPos = FrameEnd(Len(sent))
    BY <1>1 DEF SendState
  <2> DEFINE a == Current.at
             l == Len(Current.data)
             e == FrameEnd(Len(sent))
             k == FrameLen(Current.data)
  <2>2. a \in Nat /\ l \in 0 .. Size /\ e = a + k /\ k = WordLen + l + WordLen /\ k \in 1 .. Size
    BY <1>3, Zenon
  <2>3. /\ sPc = "length" => sendPos = a
        /\ sPc = "payload" => sendPos = a + WordLen
        /\ sPc = "validity" => sendPos = a + WordLen + l
        /\ sPc = "post" => sendPos = e
    BY <2>1
  <2> HIDE DEF a, l, e, k
  <2>4. CASE sPc = "post"
    <3>1. sendPos = e
      BY <2>3, <2>4
    <3> QED BY <2>2, <2>4, <3>1, Sizes DEF a
  <2>5. CASE sPc # "post"
    <3>1. sendPos = a \/ sendPos = a + WordLen \/ sendPos = a + WordLen + l
      BY <2>3, <2>5, Zenon
    <3> QED BY <2>2, <2>5, <3>1, Sizes DEF a
  <2> QED BY <2>4, <2>5
<1> QED BY <1>2, <1>3, <1>4, <1>6, <1>7

(* The frames since the slots were given back, and the read, fit the queue. *)
LEMMA SlotsLeft ==
  ASSUME ChannelInv, NEW f \in DOMAIN sent, Since(f), MaxSendWr >= Size \div (2 * WordLen) + 2,
         \/ sPc = "post"
         \/ Writing /\ reading = "none"
  PROVE  sqUsed < MaxSendWr
<1> DEFINE n == Len(sent)
           q == Size \div (2 * WordLen)
<1>1. /\ TypeOK /\ Frames /\ sendPos \in Nat /\ sqUsed \in Int /\ posted \in 0 .. 1
      /\ Size \in Nat /\ WordLen \in Nat /\ MaxSendWr \in Nat
  <2>1. TypeOK /\ Frames /\ sendPos \in Nat /\ Size \in Nat /\ WordLen \in Nat
    BY RingTypes DEF ChannelInv
  <2>2. sqUsed \in Int /\ posted \in 0 .. 1
    BY <2>1, BoundAssumption DEF TypeOK
  <2> QED BY <2>1, <2>2, BoundAssumption
<1>2. q \in Int
  BY Sizes
<1>3. sPc \in {"length", "payload", "validity", "post"}
  BY DEF Writing
<1>4. /\ n - f \in Nat /\ sent[f].at \in Nat /\ Current.at \in Nat /\ Current.at <= sendPos
      /\ sPc = "post" => Current.at + WordLen + WordLen <= sendPos
      /\ sent[f].at + Least(n - f) <= Current.at
  BY <1>3, FramesSince
<1>5. sendPos <= sent[f].at + Size /\ sqUsed <= Taken(f)
  BY DEF Since
<1>6. Wrapped(f, Current.at) \in 0 .. 1
  BY <1>1, <1>4, WrappedType
<1>7. /\ Least(n - f) \in Int /\ Least((n - f) + 1) = Least(n - f) + WordLen + WordLen
  BY <1>4, LeastRoom
<1>8. CASE sPc = "post"
  <2>1. Least((n - f) + 1) <= Size
    <3> DEFINE a == sent[f].at
               c == Current.at
               l == Least(n - f)
    <3>1. /\ a + l <= c /\ c + WordLen + WordLen <= sendPos /\ sendPos <= a + Size
          /\ a \in Int /\ c \in Int /\ l \in Int
      BY <1>4, <1>5, <1>7, <1>8
    <3>2. Least((n - f) + 1) = l + WordLen + WordLen
      BY <1>7
    <3> HIDE DEF a, c, l
    <3>3. l + WordLen + WordLen <= Size
      BY <1>1, <3>1
    <3> QED BY <3>2, <3>3
  <2>2. (n - f) + 1 < q + 1
    <3>1. (n - f) + 1 \in Nat
      BY <1>4
    <3> QED BY <2>1, <3>1, FitsCapacity
  <2>3. Taken(f) = (n - f) + Wrapped(f, Current.at) + posted
    BY <1>8 DEF Taken, Writing
  <2> HIDE DEF n, q
  <2>4. MaxSendWr >= q + 2
    BY DEF q
  <2> QED BY <1>1, <1>2, <1>4, <1>5, <1>6, <2>2, <2>3, <2>4
<1>9. CASE Writing /\ reading = "none"
  <2>1. Least(n - f) <= Size
    <3> DEFINE a == sent[f].at
               c == Current.at
               l == Least(n - f)
    <3>1. /\ a + l <= c /\ c <= sendPos /\ sendPos <= a + Size
          /\ a \in Int /\ c \in Int /\ l \in Int
      BY <1>4, <1>5, <1>7
    <3> HIDE DEF a, c, l
    <3>2. l <= Size
      BY <1>1, <3>1
    <3> QED BY <3>2 DEF l
  <2>2. n - f < q + 1
    BY <1>4, <2>1, FitsCapacity
  <2>3. Taken(f) = (n - f) + Wrapped(f, Current.at) + 0
    BY <1>9 DEF Taken, Writing
  <2> HIDE DEF n, q
  <2>4. MaxSendWr >= q + 2
    BY DEF q
  <2> QED BY <1>1, <1>2, <1>4, <1>5, <1>6, <2>2, <2>3, <2>4
<1> QED BY <1>8, <1>9

(* Once the read has landed nothing of the frame being sent was received.  *)
LEMMA NothingOfItReceived ==
  ASSUME ChannelInv, ReadLast, ~broken, reading = "landed"
  PROVE  currentRemoteReceive <= Current.at
<1>1. /\ Queue /\ Granted /\ Position /\ currentRemoteReceive \in Nat /\ readValue \in Nat
      /\ readPos \in Nat /\ placed \in Nat
  BY RingTypes DEF ChannelInv
<1>2. Writing /\ sq = <<>>
  BY DEF ReadLast
<1>3. QueueEnd = placed /\ PostedEnd = Current.at /\ sPc # "failed"
  BY <1>2 DEF QueueEnd, PostedEnd, Writing
<1>4. placed = Current.at
  BY <1>1, <1>3 DEF Queue
<1> QED BY <1>1, <1>4 DEF Granted, Position

-----------------------------------------------------------------------------
(* The steps *)

LEMMA ReadLastStep == ReadLast /\ [Next]_vars => ReadLast'
<1> SUFFICES ASSUME ReadLast, [Next]_vars PROVE ReadLast'
  OBVIOUS
<1>1. CASE \E m \in Message : StartSend(m)
  BY <1>1 DEF StartSend, nicVars, ReadLast, Writing
<1>2. CASE WriteToSendBuffer
  BY <1>2 DEF WriteToSendBuffer, nicVars, ReadLast, Writing
<1>3. CASE PostRead
  BY <1>3 DEF PostRead, senderVars, ReadLast, Writing
<1>4. CASE PollRead
  BY <1>4 DEF PollRead, ReadLast
<1>5. CASE PollError
  BY <1>5 DEF PollError, ReadLast
<1>6. CASE PostWrite
  BY <1>6 DEF PostWrite, ReadLast, Writing
<1>7. CASE SendQueueFull
  BY <1>7 DEF SendQueueFull, nicVars, ReadLast, Writing
<1>8. CASE PlaceByte
  BY <1>8 DEF PlaceByte, senderVars, ReadLast, Writing
<1>9. CASE ExecuteRead
  BY <1>9 DEF ExecuteRead, senderVars, ReadLast, Writing
<1>10. CASE LandRead
  BY <1>10 DEF LandRead, senderVars, ReadLast, Writing
<1>11. CASE Break
  BY <1>11 DEF Break, senderVars, ReadLast, Writing
<1>12. CASE UNCHANGED <<senderVars, sq, reading>>
  BY <1>12 DEF senderVars, ReadLast, Writing
<1>13. CASE \/ Receiver \/ StartHasData \/ UNCHANGED vars
           \/ \E max \in MaxSizes \union {Size} : StartReceive(max)
  <2>1. UNCHANGED <<senderVars, sq, reading>>
    BY <1>13 DEF Receiver, StartReceive, StartHasData, ReadByte, SizeRead, Retry, Accept,
                 HasDataReturn, TooLong, CopyPayload, ZeroReceiveBuffer, AdvanceReadPos, vars,
                 nicVars
  <2> QED BY <1>12, <2>1
<1> QED BY <1>1, <1>2, <1>3, <1>4, <1>5, <1>6, <1>7, <1>8, <1>9, <1>10, <1>11, <1>13
        DEF Next, Sender, Nic

(* What the steps of the receiver, and a byte that is placed, leave alone  *)
LEMMA SlotSteps ==
  ASSUME [Next]_vars
  PROVE  \/ \E m \in Message : StartSend(m)
         \/ WriteToSendBuffer \/ PostRead \/ PollRead \/ PollError \/ PostWrite \/ SendQueueFull
         \/ ExecuteRead \/ LandRead \/ Break
         \/ UNCHANGED <<senderVars, sqUsed, reading, currentRemoteReceive, cq, broken>>
<1>1. CASE \/ Receiver \/ StartHasData \/ UNCHANGED vars
           \/ \E max \in MaxSizes \union {Size} : StartReceive(max)
  BY <1>1 DEF Receiver, StartReceive, StartHasData, ReadByte, SizeRead, Retry, Accept,
              HasDataReturn, TooLong, CopyPayload, ZeroReceiveBuffer, AdvanceReadPos, vars,
              nicVars
<1>2. CASE PlaceByte
  BY <1>2 DEF PlaceByte
<1> QED BY <1>1, <1>2 DEF Next, Sender, Nic

LEMMA ErrorsStep == TypeOK /\ ErrorsMeanBroken /\ [Next]_vars => ErrorsMeanBroken'
<1> SUFFICES ASSUME TypeOK, ErrorsMeanBroken, [Next]_vars PROVE ErrorsMeanBroken'
  OBVIOUS
<1>0. cq \in Seq({"read", "error"}) /\ Len(cq) \in Nat /\ DOMAIN cq = 1 .. Len(cq)
  BY LenProperties DEF TypeOK
<1>1. CASE cq' = cq /\ broken' = broken
  BY <1>1 DEF ErrorsMeanBroken
<1>2. ASSUME NEW e \in {"read", "error"}, cq' = Append(cq, e), broken' = broken,
             e = "error" => broken
      PROVE  ErrorsMeanBroken'
  <2>1. /\ Len(cq') = Len(cq) + 1 /\ cq' \in Seq({"read", "error"}) /\ cq'[Len(cq) + 1] = e
        /\ \A i \in 1 .. Len(cq) : cq'[i] = cq[i]
    BY <1>0, <1>2, AppendProperties
  <2>2. DOMAIN cq' = 1 .. (Len(cq) + 1)
    BY <2>1, LenProperties
  <2>3. ASSUME NEW i \in 1 .. (Len(cq) + 1), cq'[i] = "error" PROVE broken
    <3>1. CASE i = Len(cq) + 1
      BY <1>2, <2>1, <2>3, <3>1
    <3>2. CASE i \in 1 .. Len(cq)
      BY <1>0, <2>1, <2>3, <3>2 DEF ErrorsMeanBroken
    <3> QED BY <1>0, <3>1, <3>2
  <2> QED BY <1>2, <2>2, <2>3 DEF ErrorsMeanBroken
<1>3. ASSUME cq # <<>>, cq' = Tail(cq), broken' = broken PROVE ErrorsMeanBroken'
  <2>1. /\ Len(cq') = Len(cq) - 1 /\ cq' \in Seq({"read", "error"})
        /\ \A i \in 1 .. Len(cq) - 1 : cq'[i] = cq[i + 1]
    BY <1>0, <1>3
  <2>2. DOMAIN cq' = 1 .. Len(cq) - 1
    BY <2>1, LenProperties
  <2>3. \A i \in 1 .. Len(cq) - 1 : cq'[i] = "error" => broken
    BY <1>0, <2>1 DEF ErrorsMeanBroken
  <2> QED BY <1>3, <2>2, <2>3 DEF ErrorsMeanBroken
<1>4. CASE PostRead \/ PostWrite
  BY <1>1, <1>2, <1>4 DEF PostRead, PostWrite
<1>5. CASE PollRead \/ PollError
  BY <1>3, <1>5 DEF PollRead, PollError
<1>6. CASE LandRead
  BY <1>2, <1>6 DEF LandRead
<1>7. CASE Break
  BY <1>7 DEF Break, ErrorsMeanBroken
<1>8. CASE \/ \E m \in Message : StartSend(m)
           \/ WriteToSendBuffer \/ SendQueueFull \/ ExecuteRead
  BY <1>1, <1>8 DEF StartSend, WriteToSendBuffer, SendQueueFull, ExecuteRead, nicVars
<1> QED BY <1>1, <1>4, <1>5, <1>6, <1>7, <1>8, SlotSteps

(* A running send() and its slots *)
LEMMA SinceStays ==
  ASSUME ChannelInv, ReadLast, NEW f \in DOMAIN sent, Since(f), [Next]_vars,
         ~broken', sPc' # "failed", ~PollRead, sPc # "idle"
  PROVE  Since(f)'
<1>0. /\ SenderInv /\ TypeOK /\ Frames /\ SendState /\ Size \in Nat
      /\ sqUsed \in Nat /\ sendPos \in Nat /\ currentRemoteReceive \in Nat /\ posted \in 0 .. 1
      /\ sPc \in {"idle", "length", "payload", "validity", "post", "failed"}
      /\ Len(sent) \in Nat /\ DOMAIN sent = 1 .. Len(sent)
  <2>1. /\ SenderInv /\ TypeOK /\ Frames /\ SendState /\ Size \in Nat
        /\ sendPos \in Nat /\ currentRemoteReceive \in Nat
        /\ Len(sent) \in Nat /\ DOMAIN sent = 1 .. Len(sent)
    BY RingTypes DEF ChannelInv
  <2>2. /\ sPc \in {"idle", "length", "payload", "validity", "post", "failed"}
        /\ posted \in 0 .. 1 /\ sqUsed \in 0 .. MaxSendWr
    BY <2>1 DEF TypeOK
  <2>3. MaxSendWr \in Nat
    BY BoundAssumption
  <2>4. sqUsed \in Nat
    BY <2>2, <2>3
  <2> QED BY <2>1, <2>2, <2>4
<1>1. /\ sqUsed <= Taken(f) /\ sendPos <= sent[f].at + Size
      /\ reading = "landed" \/ currentRemoteReceive <= sent[f].at
  BY DEF Since
<1>2. sPc # "failed"
  <2>1. \/ SendQueueFull \/ PollError \/ PollRead
        \/ sPc' = sPc
        \/ sPc \in {"idle", "length", "payload", "validity", "post"}
    BY SlotSteps DEF StartSend, WriteToSendBuffer, PostRead, PostWrite, ExecuteRead, LandRead,
                     Break, senderVars, Writing
  <2> QED BY <2>1 DEF SendQueueFull, PollError
<1>3. sPc \in {"length", "payload", "validity", "post"}
  BY <1>0, <1>2
<1>4. /\ Len(sent) \in DOMAIN sent /\ Len(sent) - f \in Nat /\ sent[f].at \in Nat
      /\ Current.at \in Nat /\ sent[f].at <= Current.at /\ Current.at <= sendPos
  BY <1>3, FramesSince
<1>5. Wrapped(f, Current.at) \in 0 .. 1 /\ Wrapped(f, sendPos) \in 0 .. 1
  BY <1>0, <1>4, WrappedType
<1>6. CASE WriteToSendBuffer
  <2>1. /\ Writing /\ reading = "none" /\ posted' = posted /\ sent' = sent
        /\ UNCHANGED <<sqUsed, reading, currentRemoteReceive>>
        /\ sendPos' = sendPos + Len(Part) /\ Len(Part) <= SafeToWrite
    BY <1>6 DEF WriteToSendBuffer, nicVars
  <2>2. sPc' \in {"payload", "validity", "post"}
    BY <1>6, <1>0, WriteMoves
  <2>3. posted = 0
    BY <1>0, <2>1 DEF SendState, Writing
  <2>4. Taken(f) = (Len(sent) - f) + Wrapped(f, Current.at) + 0
    BY <2>1 DEF Taken, Writing
  <2>5. Taken(f)' = (Len(sent) - f) + Wrapped(f, Current.at) + 0
    BY <2>1, <2>2, <2>3 DEF Taken, Writing, Wrapped, Current
  <2>6. sendPos' <= sent[f].at + Size
    <3>1. Len(Part) \in Nat /\ Len(Part) <= Size - (sendPos - currentRemoteReceive)
      BY <1>0, <2>1, PartInFrame DEF SafeToWrite
    <3>2. currentRemoteReceive <= sent[f].at
      BY <1>1, <2>1
    <3> QED BY <1>0, <1>4, <2>1, <3>1, <3>2
  <2> QED BY <1>1, <2>1, <2>4, <2>5, <2>6 DEF Since
<1>7. CASE PostRead
  <2>1. /\ Writing /\ reading = "none" /\ reading' = "posted" /\ sqUsed' = sqUsed + 1
        /\ UNCHANGED <<sPc, posted, sent, sendPos, currentRemoteReceive>>
    BY <1>7 DEF PostRead, senderVars
  <2>2. Taken(f) = (Len(sent) - f) + Wrapped(f, Current.at) + 0
    BY <2>1 DEF Taken, Writing
  <2>3. Taken(f)' = (Len(sent) - f) + Wrapped(f, Current.at) + 1
    BY <2>1 DEF Taken, Writing, Wrapped, Current
  <2>4. sqUsed' <= Taken(f)'
    BY <1>0, <1>1, <1>4, <1>5, <2>1, <2>2, <2>3
  <2> QED BY <1>1, <2>1, <2>4 DEF Since
<1>8. CASE PostWrite
  <2>1. /\ sPc = "post" /\ sqUsed' = sqUsed + 1
        /\ UNCHANGED <<sent, sendPos, reading, currentRemoteReceive>>
        /\ IF posted + 1 = Len(Slices) THEN posted' = 0 /\ sPc' = "idle"
                                       ELSE posted' = posted + 1 /\ UNCHANGED sPc
    BY <1>8 DEF PostWrite
  <2>2. Len(Slices) \in 1 .. 2 /\ posted + 1 \in 1 .. Len(Slices)
    BY <1>0, <2>1, SlicesOfCurrent
  <2>3. Taken(f) = (Len(sent) - f) + Wrapped(f, Current.at) + posted
    BY <2>1 DEF Taken, Writing
  <2>4. CASE posted + 1 = Len(Slices) /\ posted = 0
    <3>1. Wrapped(f, Current.at) <= Wrapped(f, sendPos)
      <4>1. Size - Cell(sent[f].at) \in Int
        <5>1. sent[f].at \in Int
          BY <1>4
        <5>2. Cell(sent[f].at) \in Nat
          BY <5>1, CellType
        <5> QED BY <5>2, Sizes
      <4>2. \A a, c, e, x \in Int : c <= e /\ c - a > x => e - a > x
        OBVIOUS
      <4>3. Current.at - sent[f].at > Size - Cell(sent[f].at)
               => sendPos - sent[f].at > Size - Cell(sent[f].at)
        BY <1>0, <1>4, <4>1, <4>2
      <4> QED BY <4>3 DEF Wrapped
    <3>2. Taken(f)' = (Len(sent) - f) + 1 + Wrapped(f, sendPos)
      BY <2>1, <2>4 DEF Taken, Writing, Wrapped
    <3>3. sqUsed' <= Taken(f)'
      BY <1>0, <1>1, <1>4, <1>5, <2>1, <2>3, <2>4, <3>1, <3>2
    <3> QED BY <1>1, <2>1, <3>3 DEF Since
  <2>5. CASE posted + 1 = Len(Slices) /\ posted = 1
    <3>1. Wrapped(f, Current.at) = 0 /\ Wrapped(f, sendPos) = 1
      <4>1. Len(Slices) = 2
        BY <2>5
      <4> QED BY <1>0, <1>1, <1>4, <2>1, <4>1, SplitWraps
    <3>2. Taken(f)' = (Len(sent) - f) + 1 + Wrapped(f, sendPos)
      BY <2>1, <2>5 DEF Taken, Writing, Wrapped
    <3>3. sqUsed' <= Taken(f)'
      BY <1>0, <1>1, <1>4, <2>1, <2>3, <2>5, <3>1, <3>2
    <3> QED BY <1>1, <2>1, <3>3 DEF Since
  <2>6. CASE posted + 1 # Len(Slices)
    <3>1. posted' = posted + 1 /\ sPc' = "post"
      BY <2>1, <2>6
    <3>2. Taken(f)' = (Len(sent) - f) + Wrapped(f, Current.at) + (posted + 1)
      BY <2>1, <3>1 DEF Taken, Writing, Wrapped, Current
    <3>3. sqUsed' <= Taken(f)'
      BY <1>0, <1>1, <1>4, <1>5, <2>1, <2>3, <3>2
    <3> QED BY <1>1, <2>1, <3>3 DEF Since
  <2> QED BY <1>0, <2>4, <2>5, <2>6
<1>9. CASE UNCHANGED <<senderVars, sqUsed>> /\ (reading = "none" <=> reading' = "none")
  <2>1. UNCHANGED <<sPc, sent, sendPos, posted, sqUsed>>
    BY <1>9 DEF senderVars
  <2>2. Taken(f)' = Taken(f)
    BY <1>9, <2>1 DEF Taken, Writing, Wrapped, Current
  <2>3. \/ reading' = "landed"
        \/ UNCHANGED <<reading, currentRemoteReceive>>
        \/ ExecuteRead
    BY <1>9, SlotSteps DEF StartSend, WriteToSendBuffer, PostRead, PollRead, PollError, PostWrite,
           SendQueueFull, LandRead, Break, nicVars
  <2>4. reading' = "landed" \/ currentRemoteReceive' <= sent[f].at
    BY <1>1, <2>3 DEF ExecuteRead
  <2> QED BY <1>1, <2>1, <2>2, <2>4 DEF Since
<1>10. CASE \/ ExecuteRead \/ LandRead
            \/ UNCHANGED <<senderVars, sqUsed, reading, currentRemoteReceive, cq, broken>>
  BY <1>9, <1>10 DEF ExecuteRead, LandRead
<1> QED BY <1>3, <1>6, <1>7, <1>8, <1>10, SlotSteps DEF StartSend, PollError, SendQueueFull, Break

(* The next send() takes up where the last one left the slots. *)
LEMMA SinceAtStart ==
  ASSUME ChannelInv, ReadLast, Reclaimed, NEW m \in Message, StartSend(m)
  PROVE  Reclaimed'
<1> DEFINE n == Len(sent)
<1>1. /\ SenderInv /\ TypeOK /\ Frames /\ Size \in Nat /\ sendPos \in Nat
      /\ currentRemoteReceive \in Nat /\ readValue \in Nat /\ readPos \in Nat /\ placed \in Nat
      /\ Granted /\ readPos <= placed /\ placed <= sendPos
  BY RingTypes, PlacedWithinRing DEF ChannelInv, Position
<1>2. /\ n \in Nat /\ Len(sent') = n + 1 /\ sent'[n + 1] = [data |-> m, at |-> sendPos]
      /\ \A i \in 1 .. n : sent'[i] = sent[i]
      /\ DOMAIN sent = 1 .. n /\ DOMAIN sent' = 1 .. (n + 1)
      /\ sent \in Seq(SentFrame)
  BY <1>1, NewFrame
<1>3. /\ sPc = "idle" /\ sPc' = "length" /\ reading = "none"
      /\ UNCHANGED <<sendPos, posted, sqUsed, reading, currentRemoteReceive>>
  BY DEF StartSend, nicVars, ReadLast, Writing
<1> HIDE DEF n
<1>4. sent' # <<>> /\ Current'.at = sendPos
  BY <1>2 DEF Current
<1>5. currentRemoteReceive <= sendPos
  BY <1>1 DEF Granted
<1>6. ASSUME NEW f \in 1 .. (n + 1)
      PROVE  /\ Taken(f)' = ((n + 1) - f) + Wrapped(f, sendPos)' + 0
             /\ Wrapped(f, sendPos)' = IF sendPos - sent'[f].at > Size - Cell(sent'[f].at)
                                       THEN 1 ELSE 0
  BY <1>2, <1>3, <1>4 DEF Taken, Writing, Wrapped
<1>7. CASE sent = <<>>
  <2>1. n = 0 /\ sqUsed = 0
    BY <1>2, <1>7, EmptySeq DEF Reclaimed, n
  <2>2. sent'[1].at = sendPos /\ 1 \in 1 .. (n + 1) /\ 1 \in DOMAIN sent'
    BY <1>2, <2>1
  <2>3. Taken(1)' = 0 + Wrapped(1, sendPos)' + 0 /\ Wrapped(1, sendPos)' \in 0 .. 1
    BY <1>6, <2>1, <2>2
  <2>4. Since(1)'
    BY <1>1, <1>3, <1>5, <2>1, <2>2, <2>3 DEF Since
  <2> QED BY <1>4, <2>2, <2>4 DEF Reclaimed
<1>8. CASE sent # <<>>
  <2>1. PICK f \in DOMAIN sent : Since(f)
    BY <1>8 DEF Reclaimed
  <2>2. f \in 1 .. n /\ f \in 1 .. (n + 1) /\ sent'[f] = sent[f] /\ f \in DOMAIN sent'
    BY <1>2, <2>1
  <2>3. Taken(f) = (n - f) + 1 + Wrapped(f, sendPos)
    BY <1>3 DEF Taken, Writing, n
  <2>4. Wrapped(f, sendPos)' = Wrapped(f, sendPos) /\ Wrapped(f, sendPos) \in 0 .. 1
    BY <1>6, <2>2 DEF Wrapped
  <2>5. Taken(f)' = Taken(f)
    BY <1>2, <1>6, <2>2, <2>3, <2>4
  <2>6. Since(f)'
    BY <1>3, <2>1, <2>2, <2>5 DEF Since
  <2> QED BY <1>4, <2>2, <2>6 DEF Reclaimed
<1> QED BY <1>7, <1>8

(* The read's completion gives all slots back, also those of its frame. *)
LEMMA SinceAtRead ==
  ASSUME ChannelInv, ReadLast, ~broken, PollRead
  PROVE  Reclaimed'
<1> DEFINE n == Len(sent)
<1>1. /\ Writing /\ reading = "landed" /\ reading' = "none" /\ sqUsed' = 0
      /\ UNCHANGED <<sPc, posted, sent, sendPos, currentRemoteReceive>>
  BY DEF PollRead, senderVars
<1>2. sPc \in {"length", "payload", "validity", "post"}
  BY <1>1 DEF Writing
<1>3. TypeOK /\ SendState /\ Frames /\ sent # <<>> /\ DOMAIN sent = 1 .. n /\ n \in Nat
      /\ sent \in Seq(SentFrame)
  BY <1>2, RingTypes DEF ChannelInv, SendState
<1>4. n \in DOMAIN sent
  BY <1>3, EmptySeq
<1>5. /\ n - n = 0 /\ Current.at \in Nat /\ sendPos <= Current.at + Size /\ sent[n] = Current
  BY <1>2, <1>3, <1>4, FramesSince DEF Current
<1>6. Wrapped(n, Current.at) \in 0 .. 1
  BY <1>3, <1>4, <1>5, WrappedType
<1>7. Taken(n)' = (n - n) + Wrapped(n, Current.at) + 0
  BY <1>1 DEF Taken, Writing, Wrapped, Current
<1>8. currentRemoteReceive <= Current.at
  BY <1>1, NothingOfItReceived
<1>9. Since(n)'
  BY <1>1, <1>5, <1>6, <1>7, <1>8 DEF Since
<1> QED BY <1>1, <1>3, <1>4, <1>9 DEF Reclaimed

LEMMA SlotStep == ChannelInv /\ SlotInv /\ [Next]_vars => SlotInv'
<1> SUFFICES ASSUME ChannelInv, SlotInv, [Next]_vars PROVE SlotInv'
  OBVIOUS
<1>1. TypeOK /\ SenderInv /\ SendState /\ Len(sent) \in Nat /\ DOMAIN sent = 1 .. Len(sent)
      /\ sqUsed \in Int /\ MaxSendWr \in Nat
  <2>1. TypeOK /\ SenderInv /\ SendState /\ Len(sent) \in Nat /\ DOMAIN sent = 1 .. Len(sent)
    BY RingTypes DEF ChannelInv
  <2>2. MaxSendWr \in Nat
    BY BoundAssumption
  <2>3. sqUsed \in Int
    BY <2>1, <2>2 DEF TypeOK
  <2> QED BY <2>1, <2>2, <2>3
<1>2. /\ ReadLast /\ ErrorsMeanBroken /\ SendQueueSuffices
      /\ broken \/ sPc = "failed" \/ Reclaimed
  BY DEF SlotInv
<1>3. ReadLast' /\ ErrorsMeanBroken'
  BY <1>1, <1>2, ReadLastStep, ErrorsStep
<1>4. broken => broken'
  BY SlotSteps DEF StartSend, WriteToSendBuffer, PostRead, PollRead, PollError, PostWrite,
                   SendQueueFull, ExecuteRead, LandRead, Break, nicVars
<1>5. SendQueueSuffices'
  <2> SUFFICES ASSUME MaxSendWr >= Size \div (2 * WordLen) + 2, sPc' = "failed" PROVE broken'
    BY DEF SendQueueSuffices
  <2>1. CASE sPc = "failed"
    BY <1>2, <1>4, <2>1 DEF SendQueueSuffices
  <2>2. CASE PollError
    <3>1. cq \in Seq({"read", "error"}) /\ cq # <<>> /\ Head(cq) = "error"
      BY <1>1, <2>2 DEF PollError, TypeOK
    <3>2. 1 \in DOMAIN cq /\ cq[1] = "error"
      BY <3>1, EmptySeq, LenProperties
    <3> QED BY <1>2, <1>4, <3>2 DEF ErrorsMeanBroken
  <2>3. CASE SendQueueFull /\ sPc # "failed" /\ ~broken
    <3>1. /\ sqUsed >= MaxSendWr
          /\ sPc = "post" \/ (Writing /\ reading = "none")
      BY <2>3 DEF SendQueueFull
    <3>2. Reclaimed /\ sent # <<>>
      BY <1>1, <1>2, <2>3, <3>1 DEF SendState, Writing
    <3>3. PICK f \in DOMAIN sent : Since(f)
      BY <3>2 DEF Reclaimed
    <3>4. sqUsed < MaxSendWr
      BY <3>1, <3>3, SlotsLeft
    <3> QED BY <1>1, <3>1, <3>4
  <2>4. sPc = "failed" \/ PollError \/ SendQueueFull
    BY SlotSteps, <1>1 DEF StartSend, WriteToSendBuffer, PostRead, PollRead, PostWrite, ExecuteRead,
                     LandRead, Break, senderVars, AfterPart, Writing
  <2> QED BY <1>4, <2>1, <2>2, <2>3, <2>4
<1>6. broken' \/ sPc' = "failed" \/ Reclaimed'
  <2> SUFFICES ASSUME ~broken', sPc' # "failed" PROVE Reclaimed'
    OBVIOUS
  <2>1. ~broken
    BY <1>4
  <2>2. CASE sPc = "idle" /\ \E m \in Message : StartSend(m)
    <3>1. Reclaimed
      BY <1>2, <2>1, <2>2
    <3> QED BY <1>2, <2>2, <3>1, SinceAtStart
  <2>3. CASE sPc = "idle" /\ UNCHANGED <<senderVars, sqUsed, reading, currentRemoteReceive>>
    <3>1. Reclaimed
      BY <1>2, <2>1, <2>3
    <3>2. \A f \in DOMAIN sent : Since(f)' <=> Since(f)
      BY <2>3 DEF senderVars, Since, Taken, Writing, Wrapped, Current
    <3> QED BY <2>3, <3>1, <3>2 DEF senderVars, Reclaimed
  <2>4. CASE sPc # "idle" /\ ~PollRead
    <3>1. sent # <<>> /\ sent' = sent
      BY <1>1, <2>4, SlotSteps DEF SendState, StartSend, WriteToSendBuffer, PostRead, PollError,
             PostWrite, SendQueueFull, ExecuteRead, LandRead, Break, senderVars
    <3>2. sPc # "failed"
      BY <2>4, SlotSteps DEF StartSend, WriteToSendBuffer, PostRead, PollError, PostWrite,
             SendQueueFull, ExecuteRead, LandRead, Break, senderVars, Writing
    <3>3. PICK f \in DOMAIN sent : Since(f)
      BY <1>2, <2>1, <3>1, <3>2 DEF Reclaimed
    <3>4. Since(f)'
      BY <1>2, <2>4, <3>3, SinceStays
    <3> QED BY <3>1, <3>4 DEF Reclaimed
  <2>5. CASE PollRead
    BY <1>2, <2>1, <2>5, SinceAtRead
  <2>6. sPc = "idle" => \/ \E m \in Message : StartSend(m)
                        \/ UNCHANGED <<senderVars, sqUsed, reading, currentRemoteReceive>>
    BY <1>2, SlotSteps DEF WriteToSendBuffer, PostRead, PollRead, PollError, PostWrite,
           SendQueueFull, ExecuteRead, LandRead, Break, ReadLast, Writing
  <2> QED BY <2>2, <2>3, <2>4, <2>5, <2>6
<1> QED BY <1>3, <1>5, <1>6 DEF SlotInv

(* send() never runs out of slots on a connection that works, whatever the *)
(* ring and the message sizes, if the send queue has one slot for each of  *)
(* the empty frames that fit the ring and two more.                        *)
THEOREM SlotsSuffice == CollisionFree => (Spec => []SendQueueSuffices)
<1> SUFFICES ASSUME CollisionFree PROVE Spec => []SendQueueSuffices
  OBVIOUS
<1>1. Init => SlotInv
  BY DEF Init, SlotInv, ReadLast, ErrorsMeanBroken, SendQueueSuffices, Reclaimed
<1>2. ChannelInv /\ SlotInv /\ [Next]_vars => SlotInv'
  BY SlotStep
<1>3. SlotInv => SendQueueSuffices
  BY DEF SlotInv
<1> QED BY <1>1, <1>2, <1>3, ChannelInvariant, PTL DEF Spec

=============================================================================
