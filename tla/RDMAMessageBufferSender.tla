---------------------- MODULE RDMAMessageBufferSender -----------------------
(***************************************************************************)
(* Ring arithmetic, and the part of the inductive invariant of             *)
(* RDMAMessageBuffer that does not depend on what the receiver does: the   *)
(* types, how the frames lie in the stream, where send() stands in its     *)
(* frame, which bytes the posted writes cover, and flow control as send()  *)
(* lives by it.  It needs no assumption on payloads.                       *)
(***************************************************************************)
EXTENDS RDMAMessageBuffer, SequenceTheorems, TLAPS

(* A frame starts where the previous one ends and fits the ring. *)
Frames ==
    /\ \A i \in DOMAIN sent : FrameLen(sent[i].data) <= Size
    /\ sent # <<>> => sent[1].at = 0
    /\ \A i \in DOMAIN sent : i + 1 \in DOMAIN sent => sent[i + 1].at = FrameEnd(i)

(* sendPos advances through the frame of the running send(). *)
SendState ==
    /\ sPc # "idle" => sent # <<>>
    /\ sPc = "idle" => sendPos = IF sent = <<>> THEN 0 ELSE FrameEnd(Len(sent))
    /\ sPc = "length" => sendPos = Current.at
    /\ sPc = "payload" => sendPos = Current.at + WordLen
    /\ sPc = "validity" => sendPos = Current.at + WordLen + Len(Current.data)
    /\ sPc = "post" => sendPos = FrameEnd(Len(sent))
    /\ sPc = "failed" => Current.at <= sendPos /\ sendPos <= FrameEnd(Len(sent))
    /\ posted = 1 => sPc \in {"post", "failed"}
    /\ posted = 1 /\ sPc = "post" => Len(Slices) = 2

(* How far the posted writes reach, and how far they should. *)
QueueEnd == IF sq = <<>> THEN placed ELSE sq[Len(sq)].at + sq[Len(sq)].len
PostedEnd == CASE Writing -> Current.at
               [] sPc = "post" -> Current.at + (IF posted = 0 THEN 0 ELSE Slices[1].len)
               [] sPc = "idle" -> sendPos

(* The posted writes cover the stream from placed on without gaps. *)
Queue ==
    /\ placed <= sendPos
    /\ broken => sq = <<>>
    /\ \A k \in DOMAIN sq : /\ sq[k].begin = Cell(sq[k].at)
                            /\ sq[k].begin + sq[k].len <= Size
                            /\ sq[k].at + sq[k].len <= sendPos
    /\ sq # <<>> => sq[1].at = placed
    /\ \A k \in DOMAIN sq : k + 1 \in DOMAIN sq => sq[k + 1].at = sq[k].at + sq[k].len
    /\ ~broken /\ sPc # "failed" => QueueEnd = PostedEnd

SenderInv == TypeOK /\ Frames /\ SendState /\ Queue

-----------------------------------------------------------------------------
(* Positions and cells *)

LEMMA Sizes == /\ Size \in Nat /\ Size > 0
               /\ WordLen \in Nat /\ WordLen > 0
               /\ WordLen + WordLen <= Size
  BY SizeAssumption

(* Every position is a multiple of the ring's size and a cell. *)
LEMMA Division ==
  ASSUME NEW p \in Int
  PROVE  \E k \in Int : p = (Size * k) + Cell(p) /\ Cell(p) \in Cells
<1>1. /\ p = (Size * (p \div Size)) + (p % Size)
      /\ p % Size \in 0 .. Size - 1 /\ p \div Size \in Int
  BY Sizes
<1> QED BY <1>1 DEF Cell, Cells

LEMMA CellType == \A p \in Int : Cell(p) \in Cells /\ Cell(p) \in Nat /\ Cell(p) < Size
  BY Division, Sizes DEF Cells

LEMMA Remainder ==
  ASSUME NEW k \in Int, NEW r \in Cells
  PROVE  Cell((Size * k) + r) = r
  BY Sizes DEF Cell, Cells

LEMMA Multiples ==
  ASSUME NEW k \in Int, NEW p \in Int, NEW r \in Int, p = (Size * k) + r
  PROVE  /\ p + Size = (Size * (k + 1)) + r
         /\ Size * (-k) = -(Size * k)
  BY Sizes

(* One ring further on is the same cell. *)
LEMMA CellShift ==
  ASSUME NEW p \in Int
  PROVE  Cell(p + Size) = Cell(p)
<1>1. PICK k \in Int : p = (Size * k) + Cell(p) /\ Cell(p) \in Cells
  BY Division
<1>2. p + Size = (Size * (k + 1)) + Cell(p)
  BY <1>1, CellType, Multiples
<1> QED BY <1>1, <1>2, Remainder

(* Inside the ring, positions and cells advance together. *)
LEMMA CellNext ==
  ASSUME NEW p \in Int, NEW n \in Nat, Cell(p) + n < Size
  PROVE  Cell(p + n) = Cell(p) + n
<1>1. PICK k \in Int : p = (Size * k) + Cell(p) /\ Cell(p) \in Cells
  BY Division
<1>2. p + n = (Size * k) + (Cell(p) + n) /\ Cell(p) + n \in Cells
  BY <1>1, Sizes DEF Cells
<1>3. Cell((Size * k) + (Cell(p) + n)) = Cell(p) + n
  BY <1>2, Remainder
<1> QED BY <1>2, <1>3

(* The position behind the last cell is at cell 0 again. *)
LEMMA CellWrap ==
  ASSUME NEW p \in Int
  PROVE  Cell(p + (Size - Cell(p))) = 0
<1>1. PICK k \in Int : p = (Size * k) + Cell(p) /\ Cell(p) \in Cells
  BY Division
<1>2. p + (Size - Cell(p)) = (Size * (k + 1)) + 0
  BY <1>1, Sizes DEF Cells
<1>3. 0 \in Cells
  BY Sizes DEF Cells
<1> QED BY <1>2, <1>3, Remainder

(* Less than one ring ahead of q, the distance is that of the cells. *)
LEMMA CellDistance ==
  ASSUME NEW p \in Int, NEW q \in Int, q <= p, p < q + Size
  PROVE  Cell(Cell(p) - q) = p - q
<1>1. PICK k \in Int : p = (Size * k) + Cell(p) /\ Cell(p) \in Cells
  BY Division
<1>2. p - q \in Cells /\ -k \in Int
  BY Sizes DEF Cells
<1>3. Cell(p) - q = (Size * (-k)) + (p - q)
  <2>1. Size * k \in Int /\ Cell(p) \in Int
    BY CellType, Sizes
  <2> QED BY <1>1, <2>1, Multiples
<1>4. Cell((Size * (-k)) + (p - q)) = p - q
  BY <1>2, Remainder
<1> QED BY <1>3, <1>4

(* Two positions less than one ring apart do not share a cell. *)
LEMMA CellInjective ==
  ASSUME NEW p \in Int, NEW q \in Int, Cell(p) = Cell(q), p < q + Size, q < p + Size
  PROVE  p = q
<1>1. CASE q <= p
  <2>1. Cell(Cell(p) - q) = p - q BY <1>1, CellDistance
  <2>2. Cell(Cell(q) - q) = 0 BY CellDistance, Sizes
  <2> QED BY <2>1, <2>2
<1>2. CASE p <= q
  <2>1. Cell(Cell(q) - p) = q - p BY <1>2, CellDistance
  <2>2. Cell(Cell(p) - p) = 0 BY CellDistance, Sizes
  <2> QED BY <2>1, <2>2
<1> QED BY <1>1, <1>2

-----------------------------------------------------------------------------
(* The helpers of the ring *)

(* Copying n bytes to position pos changes the n cells from pos on ... *)
LEMMA OverlayInside ==
  ASSUME NEW buffer, NEW pos \in Int, NEW bytes, Len(bytes) \in Nat,
         NEW p \in Int, pos <= p, p < pos + Len(bytes), Len(bytes) <= Size
  PROVE  Overlay(buffer, pos, bytes)[Cell(p)] = bytes[p - pos + 1]
<1>1. Cell(Cell(p) - pos) = p - pos
  BY CellDistance, Sizes
<1>2. Overlay(buffer, pos, bytes)[Cell(p)]
          = IF p - pos < Len(bytes) THEN bytes[p - pos + 1] ELSE buffer[Cell(p)]
  BY <1>1, CellType DEF Overlay
<1> QED BY <1>2

(* ... and no other cell of the ring that ends at pos + Size. *)
LEMMA OverlayOutside ==
  ASSUME NEW buffer, NEW pos \in Int, NEW bytes, Len(bytes) \in Nat,
         NEW p \in Int, pos + Len(bytes) <= p, p < pos + Size
  PROVE  Overlay(buffer, pos, bytes)[Cell(p)] = buffer[Cell(p)]
<1>1. Cell(Cell(p) - pos) = p - pos
  BY CellDistance, Sizes
<1> QED BY <1>1, CellType DEF Overlay

LEMMA OverlayType ==
  ASSUME NEW buffer \in [Cells -> Byte], NEW pos \in Int, NEW bytes \in Seq(Byte)
  PROVE  Overlay(buffer, pos, bytes) \in [Cells -> Byte]
<1> SUFFICES ASSUME NEW c \in Cells
             PROVE  (IF Cell(c - pos) < Len(bytes) THEN bytes[Cell(c - pos) + 1] ELSE buffer[c]) \in Byte
  BY DEF Overlay
<1>1. Cell(c - pos) \in Nat
  <2>1. c - pos \in Int BY Sizes DEF Cells
  <2> QED BY <2>1, CellType
<1>2. CASE Cell(c - pos) < Len(bytes)
  <2>1. Cell(c - pos) + 1 \in 1 .. Len(bytes)
    BY <1>1, <1>2
  <2> QED BY <2>1, <1>2, ElementOfSeq
<1>3. CASE ~(Cell(c - pos) < Len(bytes))
  BY <1>3
<1> QED BY <1>2, <1>3

(* wraparound() cuts n bytes into one or two non-empty contiguous slices. *)
LEMMA WraparoundSlices ==
  ASSUME NEW pos \in Nat, NEW n \in 1 .. Size, NEW s, s = Wraparound(pos, n)
  PROVE  /\ s \in Seq(WriteRequest)
         /\ Len(s) \in 1 .. 2
         /\ \A k \in 1 .. Len(s) : s[k].begin = Cell(s[k].at) /\ s[k].begin + s[k].len <= Size
         /\ s[1].at = pos
         /\ Len(s) = 1 => s[1].len = n
         /\ Len(s) = 2 => s[2].at = pos + s[1].len /\ s[1].len + s[2].len = n
<1> DEFINE first == Size - Cell(pos)
<1>1. first \in 1 .. Size /\ Cell(pos) \in Cells /\ 0 \in Cells
  BY CellType, Sizes DEF Cells
<1>2. CASE first >= n
  <2>1. Wraparound(pos, n) = <<Slice(Cell(pos), n, pos)>>
    BY <1>2 DEF Wraparound
  <2> QED BY <2>1, <1>1, <1>2, Sizes DEF Slice, Cells, WriteRequest
<1>3. CASE first < n
  <2>1. Wraparound(pos, n) = <<Slice(Cell(pos), first, pos), Slice(0, n - first, pos + first)>>
    BY <1>1, <1>3 DEF Wraparound
  <2>2. Cell(pos + first) = 0
    BY CellWrap
  <2>3. /\ Slice(Cell(pos), first, pos) \in WriteRequest
        /\ Slice(0, n - first, pos + first) \in WriteRequest
    BY <1>1, <1>3, Sizes DEF Slice, WriteRequest
  <2>4. Wraparound(pos, n) \in Seq(WriteRequest)
    BY <2>1, <2>3
  <2>5. Cell(pos) + first <= Size /\ 0 + (n - first) <= Size
    BY <1>1, <1>3, Sizes DEF Cells
  <2> QED BY <2>1, <2>2, <2>4, <2>5, <1>1, <1>3, Sizes DEF Slice
<1> QED BY <1>1, <1>2, <1>3

-----------------------------------------------------------------------------
(* Frames *)

LEMMA WordIsSeq ==
  ASSUME NEW w \in Word
  PROVE  w \in Seq(Byte) /\ Len(w) = WordLen
  BY Sizes DEF Word

LEMMA ValidityWord ==
  /\ Validity \in Seq(Byte) /\ Len(Validity) = WordLen
  /\ \A x \in 1 .. WordLen : Validity[x] \in Byte /\ Validity[x] # 0
<1>1. Validity \in Word
  BY ByteAssumption DEF Word
<1> QED BY <1>1, WordIsSeq, ByteAssumption

LEMMA PayloadType ==
  ASSUME NEW m \in Message
  PROVE  m \in Seq(Byte) /\ Len(m) \in Nat
  BY ByteAssumption

LEMMA Concatenation ==
  ASSUME NEW s \in Seq(Byte), NEW t \in Seq(Byte)
  PROVE  /\ s \o t \in Seq(Byte) /\ Len(s \o t) = Len(s) + Len(t)
         /\ \A x \in 1 .. Len(s) : (s \o t)[x] = s[x]
         /\ \A x \in 1 .. Len(t) : (s \o t)[Len(s) + x] = t[x]
  BY ConcatProperties, LenProperties

(* The three parts of a frame that fits the ring, and where they are. *)
LEMMA FrameParts ==
  ASSUME NEW m \in Message, FrameLen(m) <= Size
  PROVE  /\ m \in Seq(Byte) /\ Len(m) \in 0 .. Size
         /\ Encode(Len(m)) \in Seq(Byte) /\ Len(Encode(Len(m))) = WordLen
         /\ FrameLen(m) \in 1 .. Size
         /\ FrameBytes(m) \in Seq(Byte) /\ Len(FrameBytes(m)) = FrameLen(m)
         /\ \A x \in 1 .. WordLen : FrameBytes(m)[x] = Encode(Len(m))[x]
         /\ \A x \in 1 .. Len(m) : FrameBytes(m)[WordLen + x] = m[x]
         /\ \A x \in 1 .. WordLen : FrameBytes(m)[WordLen + Len(m) + x] = Validity[x]
<1>1. m \in Seq(Byte) /\ Len(m) \in Nat
  BY PayloadType
<1>2. Len(m) \in 0 .. Size /\ FrameLen(m) \in 1 .. Size
  BY <1>1, Sizes DEF FrameLen
<1>3. Encode(Len(m)) \in Seq(Byte) /\ Len(Encode(Len(m))) = WordLen
  BY <1>2, EncodingAssumption, WordIsSeq
<1>4. Validity \in Seq(Byte) /\ Len(Validity) = WordLen
  BY ValidityWord
<1>5. /\ Encode(Len(m)) \o m \in Seq(Byte)
      /\ Len(Encode(Len(m)) \o m) = WordLen + Len(m)
      /\ \A x \in 1 .. WordLen : (Encode(Len(m)) \o m)[x] = Encode(Len(m))[x]
      /\ \A x \in 1 .. Len(m) : (Encode(Len(m)) \o m)[WordLen + x] = m[x]
  BY <1>1, <1>3, Sizes
<1> DEFINE front == Encode(Len(m)) \o m
<1>6. FrameBytes(m) = front \o Validity
  BY <1>1, <1>3, <1>4, ConcatAssociative DEF FrameBytes
<1> HIDE DEF front
<1>7. /\ front \o Validity \in Seq(Byte)
      /\ Len(front \o Validity) = WordLen + Len(m) + WordLen
      /\ \A x \in 1 .. WordLen + Len(m) : (front \o Validity)[x] = front[x]
      /\ \A x \in 1 .. WordLen : (front \o Validity)[WordLen + Len(m) + x] = Validity[x]
  <2>1. front \in Seq(Byte) /\ Len(front) = WordLen + Len(m)
    BY <1>5 DEF front
  <2>2. /\ front \o Validity \in Seq(Byte) /\ Len(front \o Validity) = Len(front) + Len(Validity)
        /\ \A x \in 1 .. Len(front) : (front \o Validity)[x] = front[x]
        /\ \A x \in 1 .. Len(Validity) : (front \o Validity)[Len(front) + x] = Validity[x]
    BY <1>4, <2>1, Concatenation
  <2> QED BY <1>4, <2>1, <2>2
<1> QED BY <1>1, <1>2, <1>3, <1>5, <1>6, <1>7, Sizes DEF front, FrameLen

(* What send() copies next is a piece of the current frame. *)
LEMMA PartInFrame ==
  ASSUME TypeOK, Frames, SendState, Writing
  PROVE  /\ Current \in SentFrame /\ Len(sent) \in DOMAIN sent
         /\ FrameLen(Current.data) <= Size
         /\ Part \in Seq(Byte) /\ Len(Part) \in 0 .. Size
         /\ Current.at <= sendPos
         /\ sendPos + Len(Part) <= FrameEnd(Len(sent))
         /\ \A x \in 1 .. Len(Part) :
               Part[x] = FrameBytes(Current.data)[sendPos - Current.at + x]
<1>1. Current \in SentFrame /\ Len(sent) \in DOMAIN sent
  <2>1. sent \in Seq(SentFrame) /\ sent # <<>>
    BY DEF TypeOK, SendState, Writing
  <2>2. Len(sent) \in Nat \ {0}
    BY <2>1, EmptySeq
  <2> QED BY <2>1, <2>2, ElementOfSeq, LenProperties DEF Current
<1>2. FrameLen(Current.data) <= Size /\ FrameEnd(Len(sent)) = Current.at + FrameLen(Current.data)
  BY <1>1 DEF Frames, Current, FrameEnd
<1> DEFINE m == Current.data
<1> HIDE DEF m
<1>3. m \in Message /\ FrameLen(m) <= Size /\ Current.at \in Nat
  BY <1>1, <1>2 DEF m, SentFrame
<1>4. CASE sPc = "length"
  <2>1. Part = Encode(Len(m)) /\ sendPos = Current.at
    BY <1>4 DEF Part, SendState, m
  <2>2. /\ Part \in Seq(Byte) /\ Len(Part) = WordLen
        /\ Len(m) \in Nat /\ FrameLen(m) = WordLen + Len(m) + WordLen
        /\ \A x \in 1 .. WordLen : FrameBytes(m)[x] = Part[x]
    BY <1>3, <2>1, FrameParts DEF FrameLen
  <2>3. \A x \in 1 .. WordLen : sendPos - Current.at + x = x
    BY <1>3, <2>1, Sizes
  <2> QED BY <1>1, <1>2, <1>3, <2>1, <2>2, <2>3, Sizes DEF m
<1>5. CASE sPc = "payload"
  <2>1. Part = m /\ sendPos = Current.at + WordLen
    BY <1>5 DEF Part, SendState, m
  <2>2. /\ Part \in Seq(Byte) /\ Len(Part) \in 0 .. Size
        /\ Len(m) = Len(Part) /\ FrameLen(m) = WordLen + Len(m) + WordLen
        /\ \A x \in 1 .. Len(Part) : FrameBytes(m)[WordLen + x] = Part[x]
    BY <1>3, <2>1, FrameParts DEF FrameLen
  <2>3. \A x \in 1 .. Len(Part) : sendPos - Current.at + x = WordLen + x
    BY <1>3, <2>1, Sizes
  <2> QED BY <1>1, <1>2, <1>3, <2>1, <2>2, <2>3, Sizes DEF m
<1>6. CASE sPc = "validity"
  <2>1. Part = Validity /\ sendPos = Current.at + WordLen + Len(m)
    BY <1>6 DEF Part, SendState, m
  <2>2. Part \in Seq(Byte) /\ Len(Part) = WordLen
    BY <2>1, ValidityWord
  <2>3. /\ Len(m) \in Nat /\ FrameLen(m) = WordLen + Len(m) + WordLen
        /\ \A x \in 1 .. WordLen : FrameBytes(m)[WordLen + Len(m) + x] = Validity[x]
    BY <1>3, FrameParts DEF FrameLen
  <2>4. /\ Current.at \in Nat /\ sendPos - Current.at = WordLen + Len(m)
        /\ Len(Part) \in 0 .. Size
    BY <1>3, <2>1, <2>2, <2>3, Sizes
  <2>5. Current.at <= sendPos /\ sendPos + Len(Part) <= FrameEnd(Len(sent))
    BY <1>2, <1>3, <2>1, <2>2, <2>3, Sizes DEF m
  <2> QED BY <1>1, <1>2, <2>1, <2>2, <2>3, <2>4, <2>5 DEF m
<1> QED BY <1>4, <1>5, <1>6 DEF Writing

-----------------------------------------------------------------------------
(* Type correctness *)

LEMMA SenderInit == Init => SenderInv
<1> SUFFICES ASSUME Init PROVE SenderInv
  OBVIOUS
<1>1. 0 \in Byte
  BY ByteAssumption
<1>2. 0 \in 0 .. MaxSendWr
  BY BoundAssumption
<1>3. TypeOK
  <2>1. /\ sent \in Seq(SentFrame) /\ sq \in Seq(WriteRequest) /\ cq \in Seq({"read", "error"})
        /\ rWord \in Seq(Byte) /\ Len(rWord) <= WordLen /\ received \in Seq(Seq(Byte))
    BY EmptySeq, Sizes DEF Init
  <2>2. sendBuffer \in [Cells -> Byte] /\ receiveBuffer \in [Cells -> Byte]
    BY <1>1 DEF Init
  <2>3. broken \in BOOLEAN /\ dataSeen \in BOOLEAN
    BY DEF Init
  <2> QED BY <1>2, <2>1, <2>2, <2>3 DEF Init, TypeOK
<1>4. Frames /\ SendState
  BY DEF Init, Frames, SendState
<1>5. Queue
  BY DEF Init, Queue, QueueEnd, PostedEnd, Writing
<1> QED BY <1>3, <1>4, <1>5 DEF SenderInv

(* The two slices of a frame that is complete and not yet posted whole *)
LEMMA SlicesOfCurrent ==
  ASSUME TypeOK, Frames, SendState, sPc = "post"
  PROVE  /\ Current \in SentFrame /\ Len(sent) \in DOMAIN sent
         /\ Slices \in Seq(WriteRequest) /\ Len(Slices) \in 1 .. 2
         /\ \A k \in 1 .. Len(Slices) : /\ Slices[k] \in WriteRequest
                                        /\ Slices[k].begin = Cell(Slices[k].at)
                                        /\ Slices[k].begin + Slices[k].len <= Size
                                        /\ Slices[k].at + Slices[k].len <= sendPos
         /\ Slices[1].at = Current.at
         /\ Len(Slices) = 1 => Current.at + Slices[1].len = sendPos
         /\ Len(Slices) = 2 => /\ Slices[2].at = Current.at + Slices[1].len
                               /\ Slices[2].at + Slices[2].len = sendPos
         /\ posted + 1 \in 1 .. Len(Slices)
<1>1. Current \in SentFrame /\ Len(sent) \in DOMAIN sent
  <2>1. sent \in Seq(SentFrame) /\ sent # <<>>
    BY DEF TypeOK, SendState
  <2>2. Len(sent) \in Nat \ {0}
    BY <2>1, EmptySeq
  <2> QED BY <2>1, <2>2, ElementOfSeq, LenProperties DEF Current
<1> DEFINE n == FrameLen(Current.data)
<1>2. Current.at \in Nat /\ Current.data \in Message
  BY <1>1 DEF SentFrame
<1>3. n <= Size /\ sendPos = Current.at + n
  BY <1>1 DEF Frames, SendState, FrameEnd, Current
<1>4. n \in 1 .. Size
  BY <1>2, <1>3, FrameParts
<1>5. Slices = Wraparound(Current.at, n)
  BY DEF Slices
<1> HIDE DEF n
<1>6. /\ Slices \in Seq(WriteRequest)
      /\ Len(Slices) \in 1 .. 2
      /\ \A k \in 1 .. Len(Slices) : Slices[k].begin = Cell(Slices[k].at) /\ Slices[k].begin + Slices[k].len <= Size
      /\ Slices[1].at = Current.at
      /\ Len(Slices) = 1 => Slices[1].len = n
      /\ Len(Slices) = 2 => Slices[2].at = Current.at + Slices[1].len /\ Slices[1].len + Slices[2].len = n
  <2>1. \A s : s = Wraparound(Current.at, n) =>
           /\ s \in Seq(WriteRequest)
           /\ Len(s) \in 1 .. 2
           /\ \A k \in 1 .. Len(s) : s[k].begin = Cell(s[k].at) /\ s[k].begin + s[k].len <= Size
           /\ s[1].at = Current.at
           /\ Len(s) = 1 => s[1].len = n
           /\ Len(s) = 2 => s[2].at = Current.at + s[1].len /\ s[1].len + s[2].len = n
    BY <1>2, <1>4, WraparoundSlices
  <2> QED BY <1>5, <2>1
<1>7. \A k \in 1 .. Len(Slices) : Slices[k] \in WriteRequest
  BY <1>6, ElementOfSeq
<1>8. \A k \in 1 .. Len(Slices) : Slices[k].at \in Nat /\ Slices[k].len \in 1 .. Size
  BY <1>7 DEF WriteRequest
<1>9. Len(Slices) = 2 => Slices[2].at + Slices[2].len = sendPos
  BY <1>2, <1>3, <1>4, <1>6, <1>8
<1>10. posted + 1 \in 1 .. Len(Slices)
  BY <1>6 DEF TypeOK, SendState
<1>11. \A k \in 1 .. Len(Slices) : Slices[k].at + Slices[k].len <= sendPos
  <2>1. CASE Len(Slices) = 1
    BY <1>2, <1>3, <1>4, <1>6, <2>1
  <2>2. CASE Len(Slices) = 2
    <3>1. /\ Slices[1].at \in Nat /\ Slices[1].len \in Nat
          /\ Slices[2].at \in Nat /\ Slices[2].len \in Nat
      BY <1>8, <2>2
    <3>2. Slices[2].at = Slices[1].at + Slices[1].len /\ Slices[2].at + Slices[2].len = sendPos
      BY <1>6, <1>9, <2>2
    <3>3. \A k \in 1 .. Len(Slices) : k = 1 \/ k = 2
      BY <2>2
    <3> QED BY <3>1, <3>2, <3>3
  <2> QED BY <1>6, <2>1, <2>2
<1> QED BY <1>1, <1>3, <1>6, <1>7, <1>9, <1>10, <1>11

LEMMA HeadOfQueue ==
  ASSUME TypeOK, Queue, sq # <<>>
  PROVE  /\ Len(sq) \in Nat \ {0} /\ Head(sq) = sq[1] /\ sq[1] \in WriteRequest
         /\ sq[1].begin = Cell(placed) /\ sq[1].at = placed
         /\ sq[1].begin \in Cells /\ sq[1].len \in 1 .. Size
         /\ sq[1].begin + sq[1].len <= Size /\ placed + sq[1].len <= sendPos
<1>1. sq \in Seq(WriteRequest)
  BY DEF TypeOK
<1>2. Len(sq) \in Nat \ {0}
  BY <1>1, EmptySeq
<1>3. sq[1] \in WriteRequest /\ 1 \in DOMAIN sq
  BY <1>1, <1>2, ElementOfSeq, LenProperties
<1>4. Head(sq) = sq[1]
  BY <1>1, <1>2
<1> QED BY <1>2, <1>3, <1>4 DEF Queue, WriteRequest

LEMMA TypeStep == SenderInv /\ [Next]_vars => TypeOK'
<1> SUFFICES ASSUME SenderInv, [Next]_vars PROVE TypeOK'
  OBVIOUS
<1> USE DEF SenderInv
<1>0. TypeOK
  OBVIOUS
<1>1. ASSUME NEW m \in Message, StartSend(m) PROVE TypeOK'
  <2>1. sent' \in Seq(SentFrame)
    BY <1>1, <1>0 DEF StartSend, TypeOK, SentFrame
  <2> QED BY <1>0, <1>1, <2>1 DEF StartSend, TypeOK, nicVars, receiverVars
<1>2. CASE WriteToSendBuffer
  <2>1. Part \in Seq(Byte) /\ Len(Part) \in Nat
    BY <1>2, PartInFrame DEF WriteToSendBuffer
  <2>2. sendBuffer' \in [Cells -> Byte]
    <3>1. sendBuffer \in [Cells -> Byte] /\ sendPos \in Int
      BY <1>0 DEF TypeOK
    <3> QED BY <1>2, <2>1, <3>1, OverlayType DEF WriteToSendBuffer
  <2>3. sendPos' \in Nat
    BY <1>0, <1>2, <2>1 DEF WriteToSendBuffer, TypeOK
  <2>4. sPc' \in {"payload", "validity", "post"}
    BY <1>2 DEF WriteToSendBuffer, AfterPart, Writing
  <2> QED BY <1>0, <1>2, <2>2, <2>3, <2>4 DEF WriteToSendBuffer, TypeOK, nicVars, receiverVars
<1>3. CASE PostRead
  <2>1. cq' \in Seq({"read", "error"})
    <3>1. CASE broken
      <4>1. cq' = Append(cq, "error")
        BY <1>3, <3>1, Zenon DEF PostRead
      <4> QED BY <1>0, <4>1 DEF TypeOK
    <3>2. CASE ~broken
      <4>1. cq' = cq
        BY <1>3, <3>2, Zenon DEF PostRead
      <4> QED BY <1>0, <4>1 DEF TypeOK
    <3> QED BY <3>1, <3>2
  <2>2. sqUsed' \in 0 .. MaxSendWr
    BY <1>0, <1>3, BoundAssumption DEF PostRead, TypeOK
  <2> QED BY <1>0, <1>3, <2>1, <2>2 DEF PostRead, TypeOK, senderVars, receiverVars
<1>4. CASE PollRead
  <2>1. cq' \in Seq({"read", "error"})
    BY <1>0, <1>4 DEF PollRead, TypeOK
  <2>2. sqUsed' \in 0 .. MaxSendWr
    BY <1>0, <1>4, BoundAssumption DEF PollRead, TypeOK
  <2> QED BY <1>0, <1>4, <2>1, <2>2 DEF PollRead, TypeOK, senderVars, receiverVars
<1>5. CASE PollError
  <2>1. cq' \in Seq({"read", "error"})
    BY <1>0, <1>5 DEF PollError, TypeOK
  <2> QED BY <1>0, <1>5, <2>1 DEF PollError, TypeOK, receiverVars
<1>6. CASE PostWrite
  <2>1. Slices[posted + 1] \in WriteRequest /\ posted' \in 0 .. 1 /\ sPc' \in {"idle", "post"}
    <3>1. sPc = "post"
      BY <1>6 DEF PostWrite
    <3>2. posted + 1 \in 1 .. Len(Slices) /\ Len(Slices) \in 1 .. 2
      BY <3>1, <1>0, SlicesOfCurrent
    <3>3. Slices[posted + 1] \in WriteRequest
      BY <3>1, <3>2, <1>0, SlicesOfCurrent
    <3>4. CASE posted + 1 = Len(Slices)
      <4>1. posted' = 0 /\ sPc' = "idle"
        BY <1>6, <3>4, Zenon DEF PostWrite
      <4> QED BY <3>3, <4>1
    <3>5. CASE posted + 1 # Len(Slices)
      <4>1. posted' = posted + 1 /\ sPc' = sPc
        BY <1>6, <3>5, Zenon DEF PostWrite
      <4>2. posted \in 0 .. 1
        BY <1>0 DEF TypeOK
      <4>3. posted = 0
        <5>1. posted \in {0, 1} /\ Len(Slices) \in {1, 2}
          BY <3>2, <4>2
        <5>2. ~(posted = 1 /\ Len(Slices) = 1) /\ ~(posted = 1 /\ Len(Slices) = 2)
          <6>1. ASSUME posted = 1, Len(Slices) = 1 PROVE FALSE
            BY <3>2, <6>1
          <6>2. ASSUME posted = 1, Len(Slices) = 2 PROVE FALSE
            BY <3>5, <6>2
          <6> QED BY <6>1, <6>2
        <5> QED BY <5>1, <5>2
      <4> QED BY <3>1, <3>3, <4>1, <4>3
    <3> QED BY <3>4, <3>5
  <2>2. sq' \in Seq(WriteRequest) /\ cq' \in Seq({"read", "error"})
    <3>1. CASE broken
      <4>1. cq' = Append(cq, "error") /\ sq' = sq
        BY <1>6, <3>1, Zenon DEF PostWrite
      <4> QED BY <1>0, <4>1 DEF TypeOK
    <3>2. CASE ~broken
      <4>1. sq' = Append(sq, Slices[posted + 1]) /\ cq' = cq
        BY <1>6, <3>2, Zenon DEF PostWrite
      <4> QED BY <1>0, <2>1, <4>1 DEF TypeOK
    <3> QED BY <3>1, <3>2
  <2>3. sqUsed' \in 0 .. MaxSendWr
    BY <1>0, <1>6, BoundAssumption DEF PostWrite, TypeOK
  <2> QED BY <1>0, <1>6, <2>1, <2>2, <2>3 DEF PostWrite, TypeOK, receiverVars
<1>7. CASE SendQueueFull
  BY <1>0, <1>7 DEF SendQueueFull, TypeOK, nicVars, receiverVars
<1>8. CASE PlaceByte
  <2>1. /\ sq \in Seq(WriteRequest) /\ Len(sq) \in Nat \ {0} /\ Head(sq) = sq[1]
        /\ sq[1].begin \in Cells /\ sq[1].len \in 1 .. Size /\ sq[1].at \in Nat
        /\ sq[1].begin + sq[1].len <= Size
    BY <1>0, <1>8, HeadOfQueue DEF PlaceByte, TypeOK, WriteRequest
  <2>2. receiveBuffer' \in [Cells -> Byte]
    BY <1>0, <1>8, <2>1 DEF PlaceByte, TypeOK
  <2>3. sq' \in Seq(WriteRequest)
    <3>1. CASE sq[1].len = 1
      BY <1>8, <2>1, <3>1 DEF PlaceByte
    <3>2. CASE sq[1].len # 1
      <4>1. Slice(sq[1].begin + 1, sq[1].len - 1, sq[1].at + 1) \in WriteRequest
        <5>1. sq[1].len - 1 \in 1 .. Size /\ sq[1].at + 1 \in Nat
          BY <2>1, <3>2, Sizes
        <5>2. sq[1].begin + 1 \in Cells
          BY <2>1, <5>1, Sizes DEF Cells
        <5> QED BY <5>1, <5>2 DEF Slice, WriteRequest
      <4>2. sq' = [sq EXCEPT ![1] = Slice(sq[1].begin + 1, sq[1].len - 1, sq[1].at + 1)]
        BY <1>8, <2>1, <3>2 DEF PlaceByte
      <4> QED BY <2>1, <4>1, <4>2, ExceptSeq
    <3> QED BY <3>1, <3>2
  <2>4. placed' \in Nat
    BY <1>0, <1>8 DEF PlaceByte, TypeOK
  <2> QED BY <1>0, <1>8, <2>2, <2>3, <2>4 DEF PlaceByte, TypeOK, senderVars, receiverVars
<1>9. CASE ExecuteRead
  BY <1>0, <1>9 DEF ExecuteRead, TypeOK, senderVars, receiverVars
<1>10. CASE LandRead
  <2>1. cq' \in Seq({"read", "error"})
    BY <1>0, <1>10 DEF LandRead, TypeOK
  <2> QED BY <1>0, <1>10, <2>1 DEF LandRead, TypeOK, senderVars, receiverVars
<1>11. CASE Break
  <2>1. cq' \in Seq({"read", "error"})
    <3> DEFINE n == Len(sq) + (IF reading \in {"posted", "executed"} THEN 1 ELSE 0)
    <3>1. n \in Nat
      BY <1>0 DEF TypeOK
    <3> HIDE DEF n
    <3>2. [i \in 1 .. n |-> "error"] \in Seq({"read", "error"})
      BY <3>1
    <3> QED BY <1>0, <1>11, <3>2, ConcatProperties DEF Break, TypeOK, n
  <2>2. sq' \in Seq(WriteRequest)
    BY <1>11 DEF Break
  <2> QED BY <1>0, <1>11, <2>1, <2>2 DEF Break, TypeOK, senderVars, receiverVars
<1>12. ASSUME NEW max \in MaxSizes \union {Size}, StartReceive(max) PROVE TypeOK'
  <2>1. max \in Nat
    BY BoundAssumption, Sizes
  <2> QED BY <1>0, <1>12, <2>1 DEF StartReceive, TypeOK, senderVars, nicVars
<1>13. CASE StartHasData
  BY <1>0, <1>13 DEF StartHasData, TypeOK, senderVars, nicVars
<1>14. CASE ReadByte
  <2>1. WordPos + Len(rWord) \in Int
    BY <1>0, Sizes DEF TypeOK, WordPos
  <2>2. receiveBuffer[Cell(WordPos + Len(rWord))] \in Byte
    BY <1>0, <2>1, CellType DEF TypeOK
  <2>3. rWord' \in Seq(Byte) /\ Len(rWord') <= WordLen
    BY <1>0, <1>14, <2>2, Sizes DEF ReadByte, TypeOK
  <2> QED BY <1>0, <1>14, <2>3 DEF ReadByte, TypeOK, senderVars, nicVars
<1>15. CASE SizeRead
  <2>1. rWord \in Word
    BY <1>0, <1>15 DEF SizeRead, TypeOK, Word
  <2>2. receiveSize' \in Nat
    BY <1>15, <2>1, EncodingAssumption DEF SizeRead
  <2>3. rWord' \in Seq(Byte) /\ Len(rWord') <= WordLen
    BY <1>15, Sizes DEF SizeRead
  <2> QED BY <1>0, <1>15, <2>2, <2>3 DEF SizeRead, TypeOK, senderVars, nicVars
<1>16. CASE Retry \/ Accept \/ HasDataReturn
  <2>1. rWord' \in Seq(Byte) /\ Len(rWord') <= WordLen
    <3>1. rWord' = <<>>
      BY <1>16 DEF Retry, Accept, HasDataReturn
    <3> QED BY <3>1, EmptySeq, Sizes
  <2>2. dataSeen' \in BOOLEAN
    BY <1>0, <1>16, Zenon DEF Retry, Accept, HasDataReturn, TypeOK
  <2>3. CASE Retry
    BY <1>0, <2>1, <2>3 DEF Retry, TypeOK, senderVars, nicVars
  <2>5. CASE Accept
    BY <1>0, <2>1, <2>5 DEF Accept, TypeOK, senderVars, nicVars
  <2>4. CASE HasDataReturn
    <3>1. rPc' = "idle" /\ receiveSize' = 0 /\ UNCHANGED <<rOp, rMax, readPos, received, receiveBuffer>>
      BY <2>4 DEF HasDataReturn
    <3>2. UNCHANGED <<senderVars, nicVars>>
      BY <2>4 DEF HasDataReturn
    <3> QED BY <1>0, <2>1, <2>2, <3>1, <3>2 DEF TypeOK, senderVars, nicVars
  <2> QED BY <1>16, <2>3, <2>4, <2>5
<1>17. CASE TooLong
  BY <1>0, <1>17 DEF TooLong, TypeOK, senderVars, nicVars
<1>18. CASE CopyPayload
  <2> DEFINE payload == [i \in 1 .. receiveSize |-> receiveBuffer[Cell(readPos + WordLen + i - 1)]]
  <2>1. \A i \in 1 .. receiveSize : receiveBuffer[Cell(readPos + WordLen + i - 1)] \in Byte
    <3> SUFFICES ASSUME NEW i \in 1 .. receiveSize
                 PROVE  receiveBuffer[Cell(readPos + WordLen + i - 1)] \in Byte
      OBVIOUS
    <3>1. readPos + WordLen + i - 1 \in Int
      BY <1>0, Sizes DEF TypeOK
    <3> QED BY <1>0, <3>1, CellType DEF TypeOK
  <2>2. receiveSize \in Nat
    BY <1>0 DEF TypeOK
  <2>3. payload \in Seq(Byte)
    BY <2>1, <2>2
  <2> HIDE DEF payload
  <2>4. received' = Append(received, payload)
    BY <1>18 DEF CopyPayload, payload
  <2>5. received' \in Seq(Seq(Byte))
    BY <1>0, <2>3, <2>4 DEF TypeOK
  <2> QED BY <1>0, <1>18, <2>5 DEF CopyPayload, TypeOK, senderVars, nicVars
<1>19. CASE ZeroReceiveBuffer
  <2> DEFINE n == WordLen + receiveSize + WordLen
  <2>1. n \in Nat
    BY <1>0, Sizes DEF TypeOK
  <2> HIDE DEF n
  <2>2. Zeros(n) \in Seq(Byte)
    BY <2>1, ByteAssumption DEF Zeros
  <2>3. receiveBuffer' \in [Cells -> Byte]
    <3>1. receiveBuffer \in [Cells -> Byte] /\ readPos \in Int
      BY <1>0 DEF TypeOK
    <3> QED BY <1>19, <2>2, <3>1, OverlayType DEF ZeroReceiveBuffer, n
  <2> QED BY <1>0, <1>19, <2>3 DEF ZeroReceiveBuffer, TypeOK, senderVars, nicVars
<1>20. CASE AdvanceReadPos
  <2>1. readPos' \in Nat
    BY <1>0, <1>20, Sizes DEF AdvanceReadPos, TypeOK
  <2> QED BY <1>0, <1>20, <2>1 DEF AdvanceReadPos, TypeOK, senderVars, nicVars
<1>21. CASE UNCHANGED vars
  BY <1>0, <1>21 DEF vars, senderVars, nicVars, receiverVars, TypeOK
<1> QED BY <1>1, <1>2, <1>3, <1>4, <1>5, <1>6, <1>7, <1>8, <1>9, <1>10, <1>11, <1>12, <1>13,
           <1>14, <1>15, <1>16, <1>17, <1>18, <1>19, <1>20, <1>21 DEF Next, Sender, Nic, Receiver

-----------------------------------------------------------------------------
(* Frames, the progress of send(), and the queue *)

(* The steps that do not move send() or the queue disturb nothing here. *)
LEMMA SenderIdle ==
  ASSUME SenderInv, UNCHANGED <<senderVars, sq, placed, broken>>
  PROVE  (Frames /\ SendState /\ Queue)'
<1>1. Frames' /\ SendState'
  BY DEF SenderInv, senderVars, Frames, SendState, FrameEnd, Current, Slices
<1>2. Queue'
  BY DEF SenderInv, senderVars, Queue, QueueEnd, PostedEnd, Writing, Current, Slices
<1> QED BY <1>1, <1>2

(* A new frame begins where the stream ends. *)
LEMMA NewFrame ==
  ASSUME SenderInv, NEW m \in Message, StartSend(m)
  PROVE  /\ sent \in Seq(SentFrame) /\ sent' \in Seq(SentFrame)
         /\ Len(sent) \in Nat /\ Len(sent') = Len(sent) + 1
         /\ sent'[Len(sent) + 1] = [data |-> m, at |-> sendPos]
         /\ \A i \in 1 .. Len(sent) : sent'[i] = sent[i]
         /\ DOMAIN sent = 1 .. Len(sent) /\ DOMAIN sent' = 1 .. (Len(sent) + 1)
         /\ FrameLen(m) <= Size
         /\ sendPos = IF sent = <<>> THEN 0 ELSE FrameEnd(Len(sent))
<1>1. sent \in Seq(SentFrame) /\ sendPos \in Nat /\ sPc = "idle"
  BY DEF SenderInv, TypeOK, StartSend
<1>2. [data |-> m, at |-> sendPos] \in SentFrame
  BY <1>1 DEF SentFrame
<1>3. sent' = Append(sent, [data |-> m, at |-> sendPos]) /\ FrameLen(m) <= Size
  BY DEF StartSend
<1>4. sendPos = IF sent = <<>> THEN 0 ELSE FrameEnd(Len(sent))
  BY <1>1 DEF SenderInv, SendState
<1> QED BY <1>1, <1>2, <1>3, <1>4, AppendProperties, LenProperties

LEMMA FramesStep == SenderInv /\ [Next]_vars => Frames'
<1> SUFFICES ASSUME SenderInv, [Next]_vars PROVE Frames'
  OBVIOUS
<1>1. ASSUME NEW m \in Message, StartSend(m) PROVE Frames'
  <2> DEFINE n == Len(sent)
  <2>1. /\ n \in Nat /\ sent'[n + 1] = [data |-> m, at |-> sendPos]
        /\ \A i \in 1 .. n : sent'[i] = sent[i]
        /\ DOMAIN sent = 1 .. n /\ DOMAIN sent' = 1 .. (n + 1)
        /\ FrameLen(m) <= Size
        /\ sendPos = IF sent = <<>> THEN 0 ELSE FrameEnd(n)
        /\ sent \in Seq(SentFrame)
    BY <1>1, NewFrame
  <2> HIDE DEF n
  <2>2. (sent = <<>>) <=> n = 0
    BY <2>1, EmptySeq DEF n
  <2>3. \A i \in DOMAIN sent' : FrameLen(sent'[i].data) <= Size
    BY <2>1 DEF SenderInv, Frames
  <2>4. sent'[1].at = 0
    BY <2>1, <2>2 DEF SenderInv, Frames
  <2>5. ASSUME NEW i \in DOMAIN sent', i + 1 \in DOMAIN sent'
        PROVE  sent'[i + 1].at = FrameEnd(i)'
    <3>1. i \in 1 .. n /\ sent'[i] = sent[i]
      BY <2>1, <2>5
    <3>2. FrameEnd(i)' = FrameEnd(i)
      BY <3>1 DEF FrameEnd
    <3>3. CASE i = n
      BY <2>1, <2>2, <3>1, <3>2, <3>3
    <3>4. CASE i # n
      <4>1. i + 1 \in 1 .. n
        BY <2>1, <3>1, <3>4
      <4> QED BY <2>1, <3>1, <3>2, <4>1 DEF SenderInv, Frames
    <3> QED BY <3>3, <3>4
  <2> QED BY <2>3, <2>4, <2>5 DEF Frames
<1>2. CASE UNCHANGED sent
  BY <1>2 DEF SenderInv, Frames, FrameEnd
<1>3. UNCHANGED sent \/ \E m \in Message : StartSend(m)
  BY DEF Next, Sender, Nic, Receiver, WriteToSendBuffer, PostRead, PollRead, PollError, PostWrite,
         SendQueueFull, PlaceByte, ExecuteRead, LandRead, Break, StartReceive, StartHasData, ReadByte,
         SizeRead, Retry, Accept, HasDataReturn, TooLong, CopyPayload, ZeroReceiveBuffer,
         AdvanceReadPos, vars, senderVars
<1> QED BY <1>1, <1>2, <1>3

(* How far one call of writeToSendBuffer takes send() *)
LEMMA WriteMoves ==
  ASSUME SenderInv, WriteToSendBuffer
  PROVE  /\ UNCHANGED <<sent, posted>> /\ Current \in SentFrame /\ Len(sent) \in Nat \ {0}
         /\ FrameEnd(Len(sent)) = Current.at + WordLen + Len(Current.data) + WordLen
         /\ Len(Current.data) \in Nat /\ sendPos' \in Nat
         /\ \/ sPc = "length" /\ sPc' = "payload" /\ sendPos' = Current.at + WordLen
            \/ sPc = "payload" /\ sPc' = "validity"
               /\ sendPos' = Current.at + WordLen + Len(Current.data)
            \/ sPc = "validity" /\ sPc' = "post" /\ sendPos' = FrameEnd(Len(sent))
<1>1. Writing /\ TypeOK /\ Frames /\ SendState
  BY DEF WriteToSendBuffer, SenderInv
<1>2. Current \in SentFrame /\ Len(sent) \in DOMAIN sent /\ FrameLen(Current.data) <= Size
  BY <1>1, PartInFrame
<1>3. Current.at \in Nat /\ Current.data \in Message
  BY <1>2 DEF SentFrame
<1>4. /\ Len(Current.data) \in Nat /\ Len(Encode(Len(Current.data))) = WordLen
      /\ Len(Validity) = WordLen
  BY <1>2, <1>3, FrameParts, ValidityWord
<1>5. FrameEnd(Len(sent)) = Current.at + WordLen + Len(Current.data) + WordLen
  BY <1>3, <1>4, Sizes DEF FrameEnd, FrameLen, Current
<1>6. Len(sent) \in Nat \ {0}
  BY <1>1, <1>2, LenProperties DEF TypeOK
<1>7. UNCHANGED <<sent, posted>> /\ sendPos' = sendPos + Len(Part) /\ sPc' = AfterPart
  BY DEF WriteToSendBuffer
<1>8. CASE sPc = "length"
  <2>1. sendPos = Current.at /\ Len(Part) = WordLen
    BY <1>1, <1>4, <1>8 DEF SendState, Part
  <2>2. sPc' = "payload" /\ sendPos' = Current.at + WordLen
    BY <1>7, <1>8, <2>1 DEF AfterPart
  <2> QED BY <1>2, <1>3, <1>4, <1>5, <1>6, <1>7, <1>8, <2>2, Sizes
<1>9. CASE sPc = "payload"
  <2>1. sendPos = Current.at + WordLen /\ Part = Current.data
    BY <1>1, <1>9 DEF SendState, Part
  <2>2. sPc' = "validity" /\ sendPos' = Current.at + WordLen + Len(Current.data)
    BY <1>7, <1>9, <2>1 DEF AfterPart
  <2> QED BY <1>2, <1>3, <1>4, <1>5, <1>6, <1>7, <1>9, <2>2, Sizes
<1>10. CASE sPc = "validity"
  <2>1. sendPos = Current.at + WordLen + Len(Current.data) /\ Part = Validity
    BY <1>1, <1>10 DEF SendState, Part
  <2>2. sPc' = "post" /\ sendPos' = FrameEnd(Len(sent))
    BY <1>4, <1>5, <1>7, <1>10, <2>1 DEF AfterPart
  <2> QED BY <1>2, <1>3, <1>4, <1>5, <1>6, <1>7, <1>10, <2>2, Sizes
<1> QED BY <1>1, <1>8, <1>9, <1>10 DEF Writing

LEMMA SendStateStep == SenderInv /\ [Next]_vars => SendState'
<1> SUFFICES ASSUME SenderInv, [Next]_vars PROVE SendState'
  OBVIOUS
<1>0. TypeOK /\ Frames /\ SendState
  BY DEF SenderInv
<1>1. ASSUME NEW m \in Message, StartSend(m) PROVE SendState'
  <2>1. /\ Len(sent') = Len(sent) + 1 /\ Len(sent) \in Nat
        /\ sent'[Len(sent) + 1] = [data |-> m, at |-> sendPos]
    BY <1>1, NewFrame
  <2>2. Current'.at = sendPos /\ sent' # <<>>
    BY <2>1 DEF Current
  <2>3. sPc' = "length" /\ sendPos' = sendPos /\ posted' = posted /\ sPc = "idle"
    BY <1>1 DEF StartSend
  <2>4. posted # 1
    BY <1>0, <2>3 DEF SendState
  <2> QED BY <2>2, <2>3, <2>4 DEF SendState
<1>2. CASE WriteToSendBuffer
  <2>1. /\ UNCHANGED <<sent, posted>> /\ Current' = Current /\ FrameEnd(Len(sent))' = FrameEnd(Len(sent))
    BY <1>2 DEF WriteToSendBuffer, Current, FrameEnd
  <2>2. posted # 1 /\ sent # <<>>
    BY <1>0, <1>2 DEF SendState, WriteToSendBuffer, Writing
  <2>3. \/ sPc' = "payload" /\ sendPos' = Current.at + WordLen
        \/ sPc' = "validity" /\ sendPos' = Current.at + WordLen + Len(Current.data)
        \/ sPc' = "post" /\ sendPos' = FrameEnd(Len(sent))
    BY <1>2, WriteMoves
  <2> QED BY <2>1, <2>2, <2>3 DEF SendState
<1>3. ASSUME PollError \/ SendQueueFull PROVE SendState'
  <2>1. /\ UNCHANGED <<sent, posted, sendPos>> /\ sPc' = "failed"
        /\ Writing \/ sPc = "post"
    BY <1>3 DEF PollError, SendQueueFull
  <2>2. Current.at <= sendPos /\ sendPos <= FrameEnd(Len(sent)) /\ sent # <<>>
    <3>1. CASE Writing
      <4>1. /\ Current.at <= sendPos /\ sendPos + Len(Part) <= FrameEnd(Len(sent))
            /\ Len(Part) \in Nat
        BY <1>0, <3>1, PartInFrame
      <4>2. Current \in SentFrame /\ Len(sent) \in DOMAIN sent /\ FrameLen(Current.data) <= Size
        BY <1>0, <3>1, PartInFrame
      <4>3. FrameEnd(Len(sent)) \in Int /\ sendPos \in Int
        BY <1>0, <4>2, FrameParts DEF FrameEnd, SentFrame, Current, TypeOK
      <4>4. sent # <<>>
        BY <1>0, <3>1 DEF SendState, Writing
      <4> QED BY <4>1, <4>3, <4>4
    <3>2. CASE sPc = "post"
      <4>1. Current \in SentFrame /\ Len(sent) \in DOMAIN sent
        BY <1>0, <3>2, SlicesOfCurrent
      <4>2. FrameLen(Current.data) \in 1 .. Size /\ Current.at \in Nat
        BY <1>0, <4>1, FrameParts DEF Frames, SentFrame, Current
      <4>3. sendPos = Current.at + FrameLen(Current.data) /\ sendPos = FrameEnd(Len(sent)) /\ sent # <<>>
        BY <1>0, <3>2 DEF SendState, FrameEnd, Current
      <4> QED BY <4>2, <4>3
    <3> QED BY <2>1, <3>1, <3>2
  <2>3. Current' = Current /\ FrameEnd(Len(sent))' = FrameEnd(Len(sent))
    BY <2>1 DEF Current, FrameEnd
  <2> QED BY <2>1, <2>2, <2>3 DEF SendState
<1>4. CASE PostWrite
  <2>1. sPc = "post" /\ UNCHANGED <<sent, sendPos>>
    BY <1>4 DEF PostWrite
  <2>2. Current' = Current /\ Slices' = Slices /\ FrameEnd(Len(sent))' = FrameEnd(Len(sent))
    BY <2>1 DEF Current, Slices, FrameEnd
  <2>3. posted + 1 \in 1 .. Len(Slices) /\ Len(Slices) \in 1 .. 2
    BY <1>0, <2>1, SlicesOfCurrent
  <2>4. sendPos = FrameEnd(Len(sent)) /\ sent # <<>>
    BY <1>0, <2>1 DEF SendState
  <2>5. CASE posted + 1 = Len(Slices)
    <3>1. posted' = 0 /\ sPc' = "idle"
      BY <1>4, <2>5, Zenon DEF PostWrite
    <3> QED BY <2>1, <2>2, <2>4, <3>1 DEF SendState
  <2>6. CASE posted + 1 # Len(Slices)
    <3>1. posted' = posted + 1 /\ sPc' = "post"
      BY <1>4, <2>1, <2>6, Zenon DEF PostWrite
    <3>2. Len(Slices) = 2
      <4>1. CASE Len(Slices) = 1
        <5>1. posted + 1 = 1
          BY <2>3, <4>1
        <5> QED BY <2>6, <4>1, <5>1
      <4> QED BY <2>3, <4>1
    <3> QED BY <2>1, <2>2, <2>4, <3>1, <3>2 DEF SendState
  <2> QED BY <2>5, <2>6
<1>5. CASE UNCHANGED senderVars
  BY <1>0, <1>5 DEF SendState, senderVars, Current, Slices, FrameEnd
<1>6. \/ UNCHANGED senderVars \/ WriteToSendBuffer \/ PollError \/ SendQueueFull \/ PostWrite
      \/ \E m \in Message : StartSend(m)
  BY DEF Next, Sender, Nic, Receiver, PostRead, PollRead, PlaceByte, ExecuteRead, LandRead, Break,
         StartReceive, StartHasData, ReadByte, SizeRead, Retry, Accept, HasDataReturn, TooLong,
         CopyPayload, ZeroReceiveBuffer, AdvanceReadPos, vars
<1> QED BY <1>1, <1>2, <1>3, <1>4, <1>5, <1>6

(* The write that is posted next continues the queue. *)
LEMMA PostExtends ==
  ASSUME SenderInv, PostWrite, ~broken
  PROVE  Queue'
<1> DEFINE s == Slices[posted + 1]
           n == Len(sq)
<1>0. TypeOK /\ Frames /\ SendState /\ Queue /\ sPc = "post"
  BY DEF SenderInv, PostWrite
<1>1. /\ Len(Slices) \in 1 .. 2 /\ posted + 1 \in 1 .. Len(Slices) /\ posted \in 0 .. 1
      /\ s \in WriteRequest /\ s.begin = Cell(s.at) /\ s.begin + s.len <= Size
      /\ s.at + s.len <= sendPos
      /\ Slices[1] \in WriteRequest /\ Slices[1].at = Current.at
      /\ Len(Slices) = 1 => Current.at + Slices[1].len = sendPos
      /\ Len(Slices) = 2 => /\ Slices[2].at = Current.at + Slices[1].len
                            /\ Slices[2].at + Slices[2].len = sendPos
  BY <1>0, SlicesOfCurrent DEF TypeOK
<1>2. s.at = PostedEnd
  <2>1. CASE posted = 0
    <3>1. Current.at \in Nat
      BY <1>1 DEF WriteRequest
    <3> QED BY <1>0, <1>1, <2>1, <3>1 DEF PostedEnd, Writing
  <2>2. CASE posted = 1
    <3>1. Len(Slices) = 2
      BY <1>0, <2>2 DEF SendState
    <3> QED BY <1>0, <1>1, <2>2, <3>1 DEF PostedEnd, Writing
  <2> QED BY <1>1, <2>1, <2>2
<1>3. s.at = QueueEnd
  BY <1>0, <1>2 DEF Queue
<1>4. sq' = Append(sq, s) /\ UNCHANGED <<sent, sendPos, placed, broken>>
  BY Zenon DEF PostWrite
<1> HIDE DEF s
<1>5. /\ n \in Nat /\ Len(sq') = n + 1 /\ sq'[n + 1] = s
      /\ \A k \in 1 .. n : sq'[k] = sq[k]
      /\ DOMAIN sq = 1 .. n /\ DOMAIN sq' = 1 .. (n + 1)
      /\ (sq = <<>>) <=> n = 0
  <2>1. sq \in Seq(WriteRequest)
    BY <1>0 DEF TypeOK
  <2> QED BY <1>1, <1>4, <2>1, AppendProperties, LenProperties, EmptySeq
<1>6. s.at \in Nat /\ s.len \in Nat /\ sendPos \in Nat
  BY <1>0, <1>1 DEF WriteRequest, TypeOK
<1>7. QueueEnd' = s.at + s.len
  BY <1>5 DEF QueueEnd
<1>8. s.at + s.len = PostedEnd'
  <2>1. CASE posted + 1 = Len(Slices)
    <3>1. sPc' = "idle"
      BY <2>1, Zenon DEF PostWrite
    <3>2. PostedEnd' = sendPos
      BY <1>4, <3>1 DEF PostedEnd, Writing
    <3>3. CASE Len(Slices) = 1
      <4>1. posted + 1 = 1
        BY <2>1, <3>3
      <4> QED BY <1>1, <3>2, <3>3, <4>1 DEF s
    <3>4. CASE Len(Slices) = 2
      <4>1. posted + 1 = 2
        BY <2>1, <3>4
      <4> QED BY <1>1, <3>2, <3>4, <4>1 DEF s
    <3> QED BY <1>1, <3>3, <3>4
  <2>2. CASE posted + 1 # Len(Slices)
    <3>1. sPc' = "post" /\ posted' = posted + 1
      BY <1>0, <2>2, Zenon DEF PostWrite
    <3>2. Len(Slices) # 1
      <4>1. CASE Len(Slices) = 1
        <5>1. posted + 1 = 1
          BY <1>1, <4>1
        <5> QED BY <2>2, <4>1, <5>1
      <4> QED BY <4>1
    <3>3. posted = 0
      <4>1. CASE posted = 1
        <5>1. Len(Slices) = 2
          BY <1>0, <4>1 DEF SendState
        <5> QED BY <2>2, <4>1, <5>1
      <4> QED BY <1>1, <4>1
    <3>4. PostedEnd' = Current.at + Slices[1].len
      <4>1. Current' = Current /\ Slices' = Slices
        BY <1>4 DEF Current, Slices
      <4> QED BY <3>1, <3>3, <4>1 DEF PostedEnd, Writing
    <3> QED BY <1>1, <3>3, <3>4 DEF s
  <2> QED BY <2>1, <2>2
<1>9. sq' # <<>> => sq'[1].at = placed
  <2>1. CASE n = 0
    BY <1>3, <1>5, <2>1 DEF QueueEnd
  <2>2. CASE n # 0
    BY <1>0, <1>5, <2>2 DEF Queue
  <2> QED BY <2>1, <2>2
<1>10. ASSUME NEW k \in DOMAIN sq', k + 1 \in DOMAIN sq'
       PROVE  sq'[k + 1].at = sq'[k].at + sq'[k].len
  <2>1. k \in 1 .. n /\ sq'[k] = sq[k] /\ n # 0
    BY <1>5, <1>10
  <2>2. CASE k = n
    BY <1>3, <1>5, <2>1, <2>2 DEF QueueEnd
  <2>3. CASE k # n
    <3>1. k + 1 \in 1 .. n
      BY <1>5, <2>1, <2>3
    <3> QED BY <1>0, <1>5, <2>1, <3>1 DEF Queue
  <2> QED BY <2>2, <2>3
<1>11. \A k \in DOMAIN sq' : /\ sq'[k].begin = Cell(sq'[k].at)
                             /\ sq'[k].begin + sq'[k].len <= Size
                             /\ sq'[k].at + sq'[k].len <= sendPos
  <2> SUFFICES ASSUME NEW k \in DOMAIN sq'
               PROVE  /\ sq'[k].begin = Cell(sq'[k].at)
                      /\ sq'[k].begin + sq'[k].len <= Size
                      /\ sq'[k].at + sq'[k].len <= sendPos
    OBVIOUS
  <2>1. CASE k = n + 1
    BY <1>1, <1>5, <2>1 DEF s
  <2>2. CASE k # n + 1
    <3>1. k \in 1 .. n
      BY <1>5, <2>2
    <3> QED BY <1>0, <1>5, <3>1 DEF Queue
  <2> QED BY <2>1, <2>2
<1>12. placed <= sendPos
  BY <1>0 DEF Queue
<1> QED BY <1>4, <1>7, <1>8, <1>9, <1>10, <1>11, <1>12 DEF Queue

(* The card takes the first byte off the queue. *)
LEMMA PlaceShortens ==
  ASSUME SenderInv, PlaceByte
  PROVE  Queue'
<1> DEFINE n == Len(sq)
<1>0. TypeOK /\ Queue /\ sq # <<>>
  BY DEF SenderInv, PlaceByte
<1>1. /\ n \in Nat \ {0} /\ Head(sq) = sq[1] /\ sq[1] \in WriteRequest
      /\ sq[1].begin = Cell(placed) /\ sq[1].at = placed
      /\ sq[1].begin \in Cells /\ sq[1].len \in 1 .. Size
      /\ sq[1].begin + sq[1].len <= Size /\ placed + sq[1].len <= sendPos
  BY <1>0, HeadOfQueue
<1>2. placed' = placed + 1 /\ UNCHANGED <<sent, sendPos, sPc, posted, broken>>
  BY DEF PlaceByte, senderVars
<1>3. PostedEnd' = PostedEnd
  BY <1>2 DEF PostedEnd, Writing, Current, Slices
<1>4. placed \in Nat /\ sendPos \in Nat /\ placed + 1 <= sendPos /\ DOMAIN sq = 1 .. n
      /\ sq \in Seq(WriteRequest)
  BY <1>0, <1>1, LenProperties DEF TypeOK
<1>5. CASE sq[1].len = 1
  <2>1. sq' = Tail(sq)
    BY <1>1, <1>5 DEF PlaceByte
  <2>2. Len(sq') = n - 1 /\ DOMAIN sq' = 1 .. (n - 1) /\ \A k \in 1 .. (n - 1) : sq'[k] = sq[k + 1]
    BY <1>1, <1>4, <2>1, HeadTailProperties, LenProperties
  <2>3. \A k \in 1 .. (n - 1) : k + 1 \in 1 .. n
    BY <1>1
  <2>4. sq' # <<>> => n > 1
    BY <1>1, <2>1, <2>2, EmptySeq, HeadTailProperties, <1>4
  <2>5. sq' # <<>> => sq'[1].at = placed'
    <3>1. ASSUME n > 1 PROVE sq'[1].at = placed'
      <4>1. 1 \in DOMAIN sq /\ 1 + 1 \in DOMAIN sq /\ 1 \in 1 .. (n - 1)
        BY <1>1, <1>4, <3>1
      <4>2. sq[1 + 1].at = sq[1].at + sq[1].len
        BY <1>0, <4>1 DEF Queue
      <4> QED BY <1>1, <1>2, <1>5, <2>2, <4>1, <4>2
    <3> QED BY <2>4, <3>1
  <2>6. QueueEnd' = QueueEnd
    <3>1. CASE n = 1
      <4>1. sq' = <<>>
        BY <2>4, <3>1
      <4> QED BY <1>0, <1>1, <1>2, <1>5, <3>1, <4>1 DEF QueueEnd
    <3>2. CASE n > 1
      <4>1. n - 1 \in 1 .. (n - 1) /\ (n - 1) + 1 = n
        BY <1>1, <3>2
      <4>2. sq' # <<>> /\ sq'[Len(sq')] = sq[n]
        BY <2>2, <4>1
      <4> QED BY <1>0, <4>2 DEF QueueEnd
    <3>3. n = 1 \/ n > 1
      <4>1. \A x \in Nat \ {0} : x = 1 \/ x > 1
        OBVIOUS
      <4>2. n \in Nat \ {0}
        BY <1>1
      <4> QED BY <4>1, <4>2
    <3> QED BY <3>1, <3>2, <3>3
  <2>7. \A k \in DOMAIN sq' : /\ sq'[k].begin = Cell(sq'[k].at)
                              /\ sq'[k].begin + sq'[k].len <= Size
                              /\ sq'[k].at + sq'[k].len <= sendPos
    BY <1>0, <1>4, <2>2, <2>3 DEF Queue
  <2>8. \A k \in DOMAIN sq' : k + 1 \in DOMAIN sq' => sq'[k + 1].at = sq'[k].at + sq'[k].len
    BY <1>0, <1>4, <2>2, <2>3 DEF Queue
  <2>9. broken' => sq' = <<>>
    BY <1>0, <1>2 DEF Queue
  <2> QED BY <1>0, <1>2, <1>3, <1>4, <2>5, <2>6, <2>7, <2>8, <2>9 DEF Queue
<1>6. CASE sq[1].len # 1
  <2> DEFINE s == Slice(sq[1].begin + 1, sq[1].len - 1, sq[1].at + 1)
  <2>1. sq' = [sq EXCEPT ![1] = s]
    BY <1>1, <1>6 DEF PlaceByte
  <2>2. /\ s.begin = Cell(placed) + 1 /\ s.len = sq[1].len - 1 /\ s.at = placed + 1
        /\ s.len \in Nat /\ sq[1].len > 1
    <3>1. sq[1].len > 1
      BY <1>1, <1>6
    <3> QED BY <1>1, <3>1 DEF Slice
  <2>3. Cell(placed + 1) = Cell(placed) + 1
    <3>0. placed \in Int
      BY <1>4
    <3>1. placed \in Int /\ Cell(placed) \in Nat
      BY <3>0, CellType
    <3>2. Cell(placed) + 1 < Size
      BY <1>1, <2>2, <3>1, Sizes
    <3> QED BY <3>1, <3>2, CellNext
  <2> HIDE DEF s
  <2>4. /\ DOMAIN sq' = 1 .. n /\ sq'[1] = s
        /\ \A k \in 1 .. n : k # 1 => sq'[k] = sq[k]
    BY <1>1, <1>4, <2>1
  <2>5. Len(sq') = n /\ sq' # <<>>
    <3>1. sq'[1] = s /\ 1 \in DOMAIN sq'
      BY <1>1, <2>4
    <3>2. s \in WriteRequest
      <4>1. sq[1].len - 1 \in 1 .. Size /\ sq[1].len > 1
        BY <1>1, <2>2, Sizes
      <4>2. sq[1].begin + 1 \in Cells
        BY <1>1, <4>1, Sizes DEF Cells
      <4>3. sq[1].at + 1 \in Nat
        BY <1>1, <1>4
      <4> QED BY <4>1, <4>2, <4>3 DEF s, Slice, WriteRequest
    <3>3. sq' \in Seq(WriteRequest) /\ Len(sq') = n
      BY <1>1, <1>4, <2>1, <3>2, ExceptSeq
    <3> QED BY <1>1, <3>3, EmptySeq
  <2>6. QueueEnd' = QueueEnd
    <3>1. CASE n = 1
      BY <1>0, <1>1, <1>4, <2>2, <2>4, <2>5, <3>1 DEF QueueEnd
    <3>2. CASE n # 1
      BY <1>0, <1>1, <2>4, <2>5, <3>2 DEF QueueEnd
    <3> QED BY <3>1, <3>2
  <2>7. \A k \in DOMAIN sq' : /\ sq'[k].begin = Cell(sq'[k].at)
                              /\ sq'[k].begin + sq'[k].len <= Size
                              /\ sq'[k].at + sq'[k].len <= sendPos
    <3> SUFFICES ASSUME NEW k \in 1 .. n
                 PROVE  /\ sq'[k].begin = Cell(sq'[k].at)
                        /\ sq'[k].begin + sq'[k].len <= Size
                        /\ sq'[k].at + sq'[k].len <= sendPos
      BY <2>4
    <3>1. CASE k = 1
      <4>0. placed \in Int
        BY <1>4
      <4>1. Cell(placed) \in Nat /\ placed \in Int
        BY <4>0, CellType
      <4>2. s.begin + s.len <= Size /\ s.at + s.len <= sendPos /\ s.begin = Cell(s.at)
        BY <1>1, <1>4, <2>2, <2>3, <4>1, Sizes
      <4> QED BY <2>4, <3>1, <4>2
    <3>2. CASE k # 1
      BY <1>0, <1>4, <2>4, <3>2 DEF Queue
    <3> QED BY <3>1, <3>2
  <2>8. ASSUME NEW k \in DOMAIN sq', k + 1 \in DOMAIN sq'
        PROVE  sq'[k + 1].at = sq'[k].at + sq'[k].len
    <3>1. k \in 1 .. n /\ k + 1 \in 1 .. n /\ sq'[k + 1] = sq[k + 1]
      BY <1>1, <2>4, <2>8
    <3>2. sq[k + 1].at = sq[k].at + sq[k].len
      BY <1>0, <1>4, <3>1 DEF Queue
    <3>3. CASE k = 1
      <4>1. sq[k + 1].at = placed + sq[1].len
        BY <1>1, <3>2, <3>3
      <4>2. sq'[k].at + sq'[k].len = placed + sq[1].len
        <5>1. sq'[k] = s /\ sq[1].len \in Int /\ placed \in Int
          BY <1>1, <1>4, <2>4, <3>3
        <5> QED BY <2>2, <5>1
      <4> QED BY <3>1, <4>1, <4>2
    <3>4. CASE k # 1
      BY <2>4, <3>1, <3>2, <3>4
    <3> QED BY <3>3, <3>4
  <2>9. broken' => sq' = <<>>
    BY <1>0, <1>2 DEF Queue
  <2>10. sq'[1].at = placed'
    BY <1>2, <2>2, <2>4
  <2> QED BY <1>0, <1>2, <1>3, <1>4, <2>6, <2>7, <2>8, <2>9, <2>10 DEF Queue
<1> QED BY <1>5, <1>6

LEMMA QueueStep == SenderInv /\ [Next]_vars => Queue'
<1> SUFFICES ASSUME SenderInv, [Next]_vars PROVE Queue'
  OBVIOUS
<1>0. TypeOK /\ Frames /\ SendState /\ Queue
  BY DEF SenderInv
<1>1. ASSUME NEW m \in Message, StartSend(m) PROVE Queue'
  <2>1. /\ UNCHANGED <<sq, placed, broken, sendPos>> /\ sPc = "idle" /\ sPc' = "length"
    BY <1>1 DEF StartSend, nicVars
  <2>2. Current'.at = sendPos
    <3>1. /\ Len(sent') = Len(sent) + 1
          /\ sent'[Len(sent) + 1] = [data |-> m, at |-> sendPos]
      BY <1>1, NewFrame
    <3> QED BY <3>1 DEF Current
  <2>3. PostedEnd' = PostedEnd
    BY <2>1, <2>2 DEF PostedEnd, Writing
  <2>4. QueueEnd' = QueueEnd
    BY <2>1 DEF QueueEnd
  <2> QED BY <1>0, <2>1, <2>3, <2>4 DEF Queue
<1>2. CASE WriteToSendBuffer
  <2>1. UNCHANGED <<sq, placed, broken, sent, posted>> /\ Writing
    BY <1>2 DEF WriteToSendBuffer, nicVars
  <2>2. sendPos <= sendPos'
    BY <1>0, <1>2, PartInFrame DEF WriteToSendBuffer, TypeOK
  <2>3. sPc' \in {"payload", "validity", "post"} /\ posted # 1
    BY <1>0, <2>1, <1>2 DEF WriteToSendBuffer, AfterPart, Writing, SendState
  <2>4. PostedEnd' = PostedEnd
    <3>1. posted = 0 /\ Current' = Current
      BY <1>0, <2>1, <2>3 DEF Current, TypeOK
    <3>2. Current.at \in Nat
      BY <1>0, <2>1, PartInFrame DEF SentFrame
    <3>3. PostedEnd = Current.at
      BY <2>1, <3>2 DEF PostedEnd, Writing
    <3>4. PostedEnd' = Current.at
      BY <2>1, <2>3, <3>1, <3>2 DEF PostedEnd, Writing
    <3> QED BY <3>3, <3>4
  <2>5. QueueEnd' = QueueEnd
    BY <2>1 DEF QueueEnd
  <2>6. \A k \in DOMAIN sq : sq[k].at + sq[k].len <= sendPos'
    <3> SUFFICES ASSUME NEW k \in DOMAIN sq PROVE sq[k].at + sq[k].len <= sendPos'
      OBVIOUS
    <3>1. sq[k] \in WriteRequest
      BY <1>0, LenProperties, ElementOfSeq DEF TypeOK
    <3>2. sq[k].at + sq[k].len \in Int /\ sq[k].at + sq[k].len <= sendPos
      BY <1>0, <3>1 DEF Queue, WriteRequest
    <3>3. sendPos \in Int /\ sendPos' \in Int
      BY <1>0, <1>2, PartInFrame DEF WriteToSendBuffer, TypeOK
    <3> QED BY <2>2, <3>2, <3>3
  <2>7. placed <= sendPos'
    <3>1. placed \in Int /\ sendPos \in Int /\ sendPos' \in Int /\ placed <= sendPos
      BY <1>0, <1>2, PartInFrame DEF WriteToSendBuffer, TypeOK, Queue
    <3> QED BY <2>2, <3>1
  <2>8. sPc # "failed" /\ sPc' # "failed"
    BY <2>1, <2>3 DEF Writing
  <2> QED BY <1>0, <2>1, <2>4, <2>5, <2>6, <2>7, <2>8 DEF Queue
<1>3. ASSUME PollError \/ SendQueueFull PROVE Queue'
  <2>1. UNCHANGED <<sq, placed, broken, sendPos>> /\ sPc' = "failed"
    BY <1>3 DEF PollError, SendQueueFull, nicVars
  <2> QED BY <1>0, <2>1 DEF Queue
<1>4. CASE PostWrite /\ broken
  <2>1. UNCHANGED <<sq, placed, broken, sendPos>>
    BY <1>4, Zenon DEF PostWrite
  <2> QED BY <1>0, <1>4, <2>1 DEF Queue
<1>5. CASE Break
  <2>1. sq' = <<>> /\ broken' /\ placed' = placed /\ sendPos' = sendPos
    BY <1>5 DEF Break, senderVars
  <2> QED BY <1>0, <2>1 DEF Queue
<1>6. \/ UNCHANGED <<senderVars, sq, placed, broken>>
      \/ WriteToSendBuffer \/ PollError \/ SendQueueFull \/ PostWrite \/ PlaceByte \/ Break
      \/ \E m \in Message : StartSend(m)
  BY DEF Next, Sender, Nic, Receiver, PostRead, PollRead, ExecuteRead, LandRead,
         StartReceive, StartHasData, ReadByte, SizeRead, Retry, Accept, HasDataReturn, TooLong,
         CopyPayload, ZeroReceiveBuffer, AdvanceReadPos, vars, nicVars
<1> QED BY <1>1, <1>2, <1>3, <1>4, <1>5, <1>6, PostExtends, PlaceShortens, SenderIdle

LEMMA SenderInvariant == Spec => []SenderInv
<1>1. SenderInv /\ [Next]_vars => SenderInv'
  BY TypeStep, FramesStep, SendStateStep, QueueStep DEF SenderInv
<1> QED BY <1>1, SenderInit, PTL DEF Spec

(* Type correctness, for every ring, word width, payload set and send queue *)
(* depth, with or without failures of the connection.                      *)
THEOREM TypeCorrect == Spec => []TypeOK
<1>1. SenderInv => TypeOK
  BY DEF SenderInv
<1> QED BY <1>1, SenderInvariant, PTL

-----------------------------------------------------------------------------
(* Flow control: send() never writes more than a ring past the readPos it  *)
(* last fetched, and so every byte of a frame stays in the sendBuffer      *)
(* until the peer is known to have read it.  Of the receiver this needs    *)
(* only that readPos never moves back.                                     *)


(* The part of NoOverrun that does not say how far the receiver may get *)
Granted ==
    /\ currentRemoteReceive <= readValue /\ readValue <= readPos
    /\ sendPos - currentRemoteReceive <= Size

(* Every frame but the last ends before the last one begins. *)
Ordered == \A i \in DOMAIN sent : i # Len(sent) => FrameEnd(i) <= Current.at

KeptInv == SenderInv /\ Granted /\ Ordered /\ UnacknowledgedKept

LEMMA KeptInit == Init => KeptInv
<1> SUFFICES ASSUME Init PROVE KeptInv
  OBVIOUS
<1>1. sent = <<>> /\ DOMAIN sent = {}
  BY DEF Init
<1>2. Granted
  BY Sizes DEF Init, Granted
<1> QED BY <1>1, <1>2, SenderInit DEF KeptInv, Ordered, UnacknowledgedKept

-----------------------------------------------------------------------------
(* readPos only grows, the read fetches it, and send() copies no more than *)
(* the room it computed from what was fetched.                             *)
LEMMA GrantedStep == KeptInv /\ [Next]_vars => Granted'
<1> SUFFICES ASSUME KeptInv, [Next]_vars PROVE Granted'
  OBVIOUS
<1>0. /\ SenderInv /\ Granted /\ TypeOK /\ Frames /\ SendState
      /\ sendPos \in Nat /\ currentRemoteReceive \in Nat /\ readValue \in Nat /\ readPos \in Nat
      /\ receiveSize \in Nat
  BY DEF KeptInv, SenderInv, TypeOK
<1>1. CASE WriteToSendBuffer
  <2>1. /\ sendPos' = sendPos + Len(Part) /\ Len(Part) <= SafeToWrite /\ Writing
        /\ UNCHANGED <<currentRemoteReceive, readValue, readPos>>
    BY <1>1 DEF WriteToSendBuffer, nicVars, receiverVars
  <2>2. Len(Part) \in Nat
    BY <1>0, <2>1, PartInFrame
  <2> QED BY <1>0, <2>1, <2>2, Sizes DEF Granted, SafeToWrite
<1>2. CASE ExecuteRead
  <2>1. readValue' = readPos /\ UNCHANGED <<currentRemoteReceive, readPos, sendPos>>
    BY <1>2 DEF ExecuteRead, senderVars, receiverVars
  <2> QED BY <1>0, <2>1, Sizes DEF Granted
<1>3. CASE LandRead
  <2>1. currentRemoteReceive' = readValue /\ UNCHANGED <<readValue, readPos, sendPos>>
    BY <1>3 DEF LandRead, senderVars, receiverVars
  <2> QED BY <1>0, <2>1, Sizes DEF Granted
<1>4. CASE AdvanceReadPos
  <2>1. /\ readPos' = readPos + WordLen + receiveSize + WordLen
        /\ UNCHANGED <<currentRemoteReceive, readValue, sendPos>>
    BY <1>4 DEF AdvanceReadPos, senderVars, nicVars
  <2> QED BY <1>0, <2>1, Sizes DEF Granted
<1>5. CASE UNCHANGED <<currentRemoteReceive, readValue, readPos, sendPos>>
  BY <1>0, <1>5 DEF Granted
<1>6. \/ UNCHANGED <<currentRemoteReceive, readValue, readPos, sendPos>>
      \/ WriteToSendBuffer \/ ExecuteRead \/ LandRead \/ AdvanceReadPos
  BY DEF Next, Sender, Nic, Receiver, StartSend, PostRead, PollRead, PollError, PostWrite,
         SendQueueFull, PlaceByte, Break, StartReceive, StartHasData, ReadByte, SizeRead, Retry,
         Accept, HasDataReturn, TooLong, CopyPayload, ZeroReceiveBuffer, vars, senderVars, nicVars,
         receiverVars
<1> QED BY <1>1, <1>2, <1>3, <1>4, <1>5, <1>6

(* What a send() leaves alone in the bytes that count as unacknowledged *)
LEMMA SentOrNot ==
  ASSUME [Next]_vars
  PROVE  \/ \E m \in Message : StartSend(m)
         \/ WriteToSendBuffer
         \/ LandRead
         \/ UNCHANGED <<sent, sendBuffer, sendPos, currentRemoteReceive>>
  BY DEF Next, Sender, Nic, Receiver, PostRead, PollRead, PollError, PostWrite, SendQueueFull,
         PlaceByte, ExecuteRead, Break, StartReceive, StartHasData, ReadByte, SizeRead, Retry,
         Accept, HasDataReturn, TooLong, CopyPayload, ZeroReceiveBuffer, AdvanceReadPos, vars,
         senderVars, nicVars

LEMMA OrderedStep == KeptInv /\ [Next]_vars => Ordered'
<1> SUFFICES ASSUME KeptInv, [Next]_vars PROVE Ordered'
  OBVIOUS
<1>0. SenderInv /\ Ordered /\ TypeOK
  BY DEF KeptInv, SenderInv
<1>1. ASSUME NEW m \in Message, StartSend(m) PROVE Ordered'
  <2> DEFINE n == Len(sent)
  <2>1. /\ n \in Nat /\ Len(sent') = n + 1 /\ sent'[n + 1] = [data |-> m, at |-> sendPos]
        /\ \A i \in 1 .. n : sent'[i] = sent[i]
        /\ DOMAIN sent = 1 .. n /\ DOMAIN sent' = 1 .. (n + 1)
        /\ sendPos = IF sent = <<>> THEN 0 ELSE FrameEnd(n)
        /\ sent \in Seq(SentFrame)
    BY <1>0, <1>1, NewFrame
  <2> SUFFICES ASSUME NEW i \in 1 .. n PROVE FrameEnd(i)' <= Current'.at
    BY <2>1 DEF Ordered
  <2>2. Current'.at = sendPos
    BY <2>1 DEF Current
  <2>3. FrameEnd(i)' = FrameEnd(i)
    BY <2>1 DEF FrameEnd
  <2>4. sent # <<>> /\ sendPos = FrameEnd(n) /\ sendPos \in Nat
    BY <1>0, <2>1, EmptySeq DEF TypeOK
  <2>5. CASE i = n
    BY <2>2, <2>3, <2>4, <2>5
  <2>6. CASE i # n
    <3>1. FrameEnd(i) <= Current.at
      BY <1>0, <2>1, <2>6 DEF Ordered
    <3>2. sent[n] \in SentFrame /\ sent[i] \in SentFrame
      BY <2>1, ElementOfSeq
    <3>3. /\ Current.at \in Nat /\ FrameEnd(i) \in Nat
          /\ FrameLen(Current.data) \in Nat
      BY <3>2, PayloadType, Sizes DEF Current, SentFrame, FrameEnd, FrameLen
    <3>4. FrameEnd(n) = Current.at + FrameLen(Current.data)
      BY DEF FrameEnd, Current
    <3> QED BY <2>2, <2>3, <2>4, <3>1, <3>3, <3>4
  <2> QED BY <2>5, <2>6
<1>2. CASE UNCHANGED sent
  BY <1>0, <1>2 DEF Ordered, FrameEnd, Current
<1>3. UNCHANGED sent \/ \E m \in Message : StartSend(m)
  BY SentOrNot DEF WriteToSendBuffer, LandRead, senderVars
<1> QED BY <1>1, <1>2, <1>3

-----------------------------------------------------------------------------
(* The sendBuffer *)

(* Byte j of frame i, if it is unacknowledged, is where send() copied it. *)
KeptByte(i, j) ==
    LET p == sent[i].at + j - 1
    IN  currentRemoteReceive <= p /\ p < sendPos
            => sendBuffer[Cell(p)] = FrameBytes(sent[i].data)[j]

LEMMA KeptByteWise ==
  UnacknowledgedKept <=> \A i \in DOMAIN sent : \A j \in 1 .. FrameLen(sent[i].data) : KeptByte(i, j)
  BY DEF UnacknowledgedKept, KeptByte

(* A new frame has not been copied anywhere yet. *)
LEMMA KeptAtStart ==
  ASSUME KeptInv, NEW m \in Message, StartSend(m)
  PROVE  UnacknowledgedKept'
<1> DEFINE n == Len(sent)
<1>1. /\ n \in Nat /\ sent'[n + 1] = [data |-> m, at |-> sendPos]
      /\ \A i \in 1 .. n : sent'[i] = sent[i]
      /\ DOMAIN sent = 1 .. n /\ DOMAIN sent' = 1 .. (n + 1)
  BY NewFrame DEF KeptInv
<1>2. UNCHANGED <<sendBuffer, sendPos, currentRemoteReceive>> /\ sendPos \in Nat
  BY DEF StartSend, nicVars, KeptInv, SenderInv, TypeOK
<1>3. FrameLen(m) \in Nat
  BY PayloadType, Sizes DEF FrameLen
<1> SUFFICES ASSUME NEW i \in 1 .. (n + 1), NEW j \in 1 .. FrameLen(sent'[i].data)
             PROVE  KeptByte(i, j)'
  BY <1>1 DEF UnacknowledgedKept, KeptByte
<1>4. CASE i = n + 1
  <2>1. sent'[i].at = sendPos /\ j \in Nat /\ j >= 1
    BY <1>1, <1>3, <1>4
  <2>2. ~(sendPos + j - 1 < sendPos)
    BY <1>2, <2>1
  <2> QED BY <1>2, <2>1, <2>2 DEF KeptByte
<1>5. CASE i # n + 1
  <2>1. i \in 1 .. n /\ sent'[i] = sent[i]
    BY <1>1, <1>5
  <2>2. KeptByte(i, j)
    BY <1>1, <2>1, KeptByteWise DEF KeptInv
  <2> QED BY <1>2, <2>1, <2>2 DEF KeptByte
<1> QED BY <1>4, <1>5

(* What send() copies is the frame's, and the cells it reuses held only    *)
(* bytes the peer is known to have read.                                   *)
LEMMA KeptAtWrite ==
  ASSUME KeptInv, WriteToSendBuffer
  PROVE  UnacknowledgedKept'
<1>0. SenderInv /\ Granted /\ Ordered /\ UnacknowledgedKept /\ TypeOK /\ Frames /\ SendState
  BY DEF KeptInv, SenderInv
<1>1. /\ Writing /\ Len(Part) <= SafeToWrite
      /\ sendBuffer' = Overlay(sendBuffer, sendPos, Part) /\ sendPos' = sendPos + Len(Part)
      /\ UNCHANGED <<sent, currentRemoteReceive>>
  BY DEF WriteToSendBuffer, nicVars
<1>2. /\ Current \in SentFrame /\ Len(sent) \in DOMAIN sent
      /\ Part \in Seq(Byte) /\ Len(Part) \in 0 .. Size
      /\ Current.at <= sendPos /\ sendPos + Len(Part) <= FrameEnd(Len(sent))
      /\ \A x \in 1 .. Len(Part) : Part[x] = FrameBytes(Current.data)[sendPos - Current.at + x]
  BY <1>0, <1>1, PartInFrame
<1>3. /\ sendPos \in Nat /\ currentRemoteReceive \in Nat /\ Len(Part) \in Nat /\ Current.at \in Nat
      /\ sent \in Seq(SentFrame)
  BY <1>0, <1>2 DEF TypeOK, SentFrame
<1>4. sendPos + Len(Part) <= currentRemoteReceive + Size
  BY <1>1, <1>3, Sizes DEF SafeToWrite
<1> SUFFICES ASSUME NEW i \in DOMAIN sent, NEW j \in 1 .. FrameLen(sent[i].data),
                    NEW p, p = sent[i].at + j - 1,
                    currentRemoteReceive <= p, p < sendPos + Len(Part)
             PROVE  Overlay(sendBuffer, sendPos, Part)[Cell(p)] = FrameBytes(sent[i].data)[j]
  BY <1>1 DEF UnacknowledgedKept
<1>5. sent[i] \in SentFrame
  BY <1>3, LenProperties, ElementOfSeq
<1>6. /\ sent[i].at \in Nat /\ FrameLen(sent[i].data) \in Nat /\ j \in Nat /\ j >= 1
      /\ j <= FrameLen(sent[i].data)
  BY <1>5, PayloadType, Sizes DEF SentFrame, FrameLen
<1>7. p \in Int /\ p < FrameEnd(i) /\ FrameEnd(i) \in Int
  BY <1>6 DEF FrameEnd
<1>8. CASE p < sendPos
  <2>1. sendBuffer[Cell(p)] = FrameBytes(sent[i].data)[j]
    BY <1>0, <1>8 DEF UnacknowledgedKept
  <2>2. Cell(p + Size) = Cell(p)
    BY <1>7, CellShift
  <2>3. p + Size \in Int /\ sendPos + Len(Part) <= p + Size /\ p + Size < sendPos + Size
    BY <1>3, <1>4, <1>7, <1>8, Sizes
  <2>4. Overlay(sendBuffer, sendPos, Part)[Cell(p + Size)] = sendBuffer[Cell(p + Size)]
    BY <1>3, <2>3, OverlayOutside
  <2> QED BY <2>1, <2>2, <2>4
<1>9. CASE sendPos <= p
  <2>1. i = Len(sent)
    <3>1. SUFFICES ASSUME i # Len(sent) PROVE FALSE
      OBVIOUS
    <3>2. FrameEnd(i) <= Current.at
      BY <1>0, <3>1 DEF Ordered
    <3> QED BY <1>2, <1>3, <1>7, <1>9, <3>2
  <2>2. sent[i] = Current
    BY <2>1 DEF Current
  <2>3. Overlay(sendBuffer, sendPos, Part)[Cell(p)] = Part[p - sendPos + 1]
    BY <1>2, <1>3, <1>7, <1>9, OverlayInside
  <2>4. /\ p - sendPos + 1 \in 1 .. Len(Part)
        /\ sendPos - Current.at + (p - sendPos + 1) = j
    <3>1. sent[i].at = Current.at
      BY <2>2
    <3>2. p - sendPos + 1 \in 1 .. Len(Part)
      BY <1>3, <1>7, <1>9
    <3>3. sendPos - Current.at + (p - sendPos + 1) = j
      <4>1. p = Current.at + j - 1
        BY <3>1
      <4>2. \A a, b, s \in Int : s - a + ((a + b - 1) - s + 1) = b
        OBVIOUS
      <4>3. sendPos \in Int /\ Current.at \in Int /\ j \in Int
        BY <1>3, <1>6
      <4>4. sendPos - Current.at + ((Current.at + j - 1) - sendPos + 1) = j
        BY <4>2, <4>3, Zenon
      <4> QED BY <4>1, <4>4, Zenon
    <3> QED BY <3>2, <3>3
  <2>5. Part[p - sendPos + 1] = FrameBytes(Current.data)[sendPos - Current.at + (p - sendPos + 1)]
    BY <1>2, <2>4
  <2> QED BY <2>2, <2>3, <2>4, <2>5
<1> QED BY <1>3, <1>7, <1>8, <1>9

(* An answer of the peer only acknowledges more. *)
LEMMA KeptAtLanding ==
  ASSUME KeptInv, LandRead
  PROVE  UnacknowledgedKept'
<1>1. /\ currentRemoteReceive' = readValue /\ currentRemoteReceive <= readValue
      /\ UNCHANGED <<sent, sendBuffer, sendPos>>
      /\ currentRemoteReceive \in Nat /\ readValue \in Nat /\ sent \in Seq(SentFrame)
  BY DEF LandRead, senderVars, KeptInv, Granted, SenderInv, TypeOK
<1> SUFFICES ASSUME NEW i \in DOMAIN sent, NEW j \in 1 .. FrameLen(sent[i].data),
                    readValue <= sent[i].at + j - 1, sent[i].at + j - 1 < sendPos
             PROVE  sendBuffer[Cell(sent[i].at + j - 1)] = FrameBytes(sent[i].data)[j]
  BY <1>1 DEF UnacknowledgedKept
<1>2. sent[i] \in SentFrame
  BY <1>1, LenProperties, ElementOfSeq
<1>3. sent[i].at + j - 1 \in Int
  BY <1>2, PayloadType, Sizes DEF SentFrame, FrameLen
<1>4. currentRemoteReceive <= sent[i].at + j - 1
  BY <1>1, <1>3
<1> QED BY <1>4 DEF KeptInv, UnacknowledgedKept

LEMMA KeptStep == KeptInv /\ [Next]_vars => UnacknowledgedKept'
<1> SUFFICES ASSUME KeptInv, [Next]_vars PROVE UnacknowledgedKept'
  OBVIOUS
<1>1. CASE UNCHANGED <<sent, sendBuffer, sendPos, currentRemoteReceive>>
  BY <1>1 DEF KeptInv, UnacknowledgedKept
<1> QED BY <1>1, SentOrNot, KeptAtStart, KeptAtWrite, KeptAtLanding

LEMMA KeptInvariant == Spec => []KeptInv
<1>1. KeptInv /\ [Next]_vars => KeptInv'
  <2> SUFFICES ASSUME KeptInv, [Next]_vars PROVE KeptInv'
    OBVIOUS
  <2>1. SenderInv'
    BY TypeStep, FramesStep, SendStateStep, QueueStep DEF KeptInv, SenderInv
  <2> QED BY <2>1, GrantedStep, OrderedStep, KeptStep DEF KeptInv
<1> QED BY <1>1, KeptInit, PTL DEF Spec

(* The card reads the sendBuffer long after send() has returned.  For every *)
(* ring, payload set and schedule, with or without failures, a byte it may *)
(* still read is the byte send() copied: no later send() reuses its cell   *)
(* before the peer's readPos is known to have passed it.                   *)
THEOREM Kept == Spec => []UnacknowledgedKept
<1>1. KeptInv => UnacknowledgedKept
  BY DEF KeptInv
<1> QED BY <1>1, KeptInvariant, PTL

(* Flow control: what the sender takes for readPos is never ahead of it,   *)
(* and the sender never runs more than one ring past it, however late its  *)
(* RDMA read of readPos is answered.                                       *)
THEOREM FlowControl == Spec => [](Granted /\ sendPos - readPos <= Size)
<1>1. KeptInv => Granted /\ sendPos - readPos <= Size
  BY Sizes DEF KeptInv, Granted, SenderInv, TypeOK
<1> QED BY <1>1, KeptInvariant, PTL

=============================================================================
