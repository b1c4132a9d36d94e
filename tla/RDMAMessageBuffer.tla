------------------------- MODULE RDMAMessageBuffer --------------------------
(***************************************************************************)
(* One direction of an RDMAMessageBuffer pair: the sending side of one     *)
(* endpoint, the receiving side of its peer, and the reliable-connection   *)
(* queue pair between them.  The opposite direction is a second copy that  *)
(* shares no variable with this one.                                       *)
(*                                                                         *)
(* The sender lays a frame  length | payload | validity  into its          *)
(* sendBuffer and posts one or two RDMA writes that copy it to the same    *)
(* offsets of the peer's receiveBuffer.  The receiver spins on the         *)
(* validity word, copies the payload out, zeroes the frame and advances    *)
(* readPos.  The sender learns readPos only through an RDMA read into      *)
(* currentRemoteReceive, issued when the ring looks full.                  *)
(*                                                                         *)
(* The network card copies a posted write byte by byte at its own pace,    *)
(* reading the sendBuffer at that time: writes are neither inlined         *)
(* (maxInlineSize = 0) nor signalled.                                      *)
(***************************************************************************)
EXTENDS Integers, Sequences

CONSTANTS
    Size,         \* bytes in sendBuffer and in receiveBuffer
    WordLen,      \* sizeof(size_t), the width of the length and validity words
    Byte,         \* byte values
    Encode(_),    \* the bytes of a size_t, as an object representation
    Decode(_),    \* the size_t an object representation holds
    Validity,     \* the bytes of the constant `validity'
    Message,      \* payloads the application sends
    MaxSizes,     \* maxSize arguments the application gives receive()
    MaxMessages,  \* bound: number of send() calls
    MaxSendWr,    \* capacity of the queue pair's send queue
    Breakable     \* whether the connection may fail

Word == [1 .. WordLen -> Byte]

(* w with the bytes outside S still zero: what a reader sees of a word     *)
(* while it is being placed.                                               *)
Torn(w, S) == [i \in 1 .. WordLen |-> IF i \in S THEN w[i] ELSE 0]

(* The ring holds at least the frame of the empty payload. *)
ASSUME SizeAssumption ==
    /\ Size \in Nat \ {0}
    /\ \E e \in 0 .. Size : Size = 2 ^ e
    /\ WordLen \in Nat \ {0}
    /\ 2 * WordLen <= Size

ASSUME ByteAssumption ==
    /\ Byte \subseteq Nat
    /\ 0 \in Byte
    /\ Message \subseteq Seq(Byte)
    /\ Validity \in [1 .. WordLen -> Byte \ {0}]

ASSUME EncodingAssumption ==
    /\ \A n \in 0 .. Size : /\ Encode(n) \in Word
                            /\ Decode(Encode(n)) = n
                            /\ \A S \in SUBSET (1 .. WordLen) :
                                   Decode(Torn(Encode(n), S)) \in 0 .. n
    /\ \A w \in Word : Decode(w) \in Nat

ASSUME BoundAssumption ==
    /\ MaxSizes \subseteq Nat
    /\ MaxMessages \in Nat
    /\ MaxSendWr \in Nat
    /\ Breakable \in BOOLEAN

VARIABLES
    \* the sending endpoint
    sPc,                   \* the statement send() is at
    sent,                  \* history: the payloads accepted, each with startOfWrite
    sendBuffer,
    sendPos,
    currentRemoteReceive,
    posted,                \* how many of the frame's slices have been posted
    \* the queue pair and its completion queue
    sq,                    \* writes posted and not yet placed completely
    sqUsed,                \* send queue slots not yet reclaimed
    placed,                \* history: number of stream bytes placed remotely
    reading,               \* the RDMA read of the peer's readPos
    readValue,             \* what that read fetched
    cq,                    \* completions not yet polled
    broken,                \* the connection has failed
    \* the receiving endpoint
    rPc,                   \* the statement receive() or hasData() is at
    rOp,                   \* which of the two is running
    rMax,                  \* receive()'s maxSize
    rWord,                 \* bytes of the word being copied
    receiveSize,
    receiveBuffer,
    readPos,
    dataSeen,              \* what hasData() last returned, until a receive()
    received               \* history: the payloads receive() returned

senderVars == <<sPc, sent, sendBuffer, sendPos, posted>>
nicVars == <<sq, sqUsed, placed, reading, readValue, currentRemoteReceive, cq, broken>>
receiverVars == <<rPc, rOp, rMax, rWord, receiveSize, readPos, dataSeen, received>>
vars == <<senderVars, nicVars, receiverVars, receiveBuffer>>

-----------------------------------------------------------------------------
(* Ring arithmetic *)

Cells == 0 .. Size - 1

(* pos & (totalSize - 1), for a power of two *)
Cell(pos) == pos % Size

(* buffer after bytes have been copied into it from stream position pos on *)
Overlay(buffer, pos, bytes) ==
    [c \in Cells |-> LET i == Cell(c - pos)
                     IN  IF i < Len(bytes) THEN bytes[i + 1] ELSE buffer[c]]

Zeros(n) == [i \in 1 .. n |-> 0]

Slice(first, n, pos) == [begin |-> first, len |-> n, at |-> pos]

(* Mutant: a slice that ends at the end of the buffer is split as well. *)
SplitAtTheEnd(pos, n) ==
    LET first == Size - Cell(pos)
    IN  IF first > n
        THEN <<Slice(Cell(pos), n, pos)>>
        ELSE <<Slice(Cell(pos), first, pos), Slice(0, n - first, pos + first)>>

(* The one or two contiguous slices of n bytes that start at pos.  `at' is *)
(* the stream position of a slice, kept for the invariants only.           *)
Wraparound(pos, n) ==
    LET first == Size - Cell(pos)
    IN  IF first >= n
        THEN <<Slice(Cell(pos), n, pos)>>
        ELSE <<Slice(Cell(pos), first, pos), Slice(0, n - first, pos + first)>>

FrameLen(m) == WordLen + Len(m) + WordLen

-----------------------------------------------------------------------------
(* send() *)

Current == sent[Len(sent)]
Slices == Wraparound(Current.at, FrameLen(Current.data))

(* What the next call of writeToSendBuffer copies, and the statement after *)
Part == CASE sPc = "length"   -> Encode(Len(Current.data))
          [] sPc = "payload"  -> Current.data
          [] sPc = "validity" -> Validity
AfterPart == CASE sPc = "length"   -> "payload"
               [] sPc = "payload"  -> "validity"
               [] sPc = "validity" -> "post"

Writing == sPc \in {"length", "payload", "validity"}
(* Mutant: the room is computed once per send(), from the frame's start. *)
RoomAtFrameStart == Size - (Current.at - currentRemoteReceive)
SafeToWrite == Size - (sendPos - currentRemoteReceive)

(* send(): a frame larger than the ring throws before anything changes. *)
StartSend(m) ==
    /\ sPc = "idle"
    /\ Len(sent) < MaxMessages
    /\ FrameLen(m) <= Size
    /\ sent' = Append(sent, [data |-> m, at |-> sendPos])
    /\ sPc' = "length"
    /\ UNCHANGED <<sendBuffer, sendPos, posted, nicVars, receiverVars, receiveBuffer>>

WriteToSendBuffer ==
    /\ Writing
    /\ reading = "none"
    /\ Len(Part) <= SafeToWrite
    /\ sendBuffer' = Overlay(sendBuffer, sendPos, Part)
    /\ sendPos' = sendPos + Len(Part)
    /\ sPc' = AfterPart
    /\ UNCHANGED <<sent, posted, nicVars, receiverVars, receiveBuffer>>

(* A work request posted to a failed queue pair is flushed with an error. *)
PostRead ==
    /\ Writing
    /\ reading = "none"
    /\ Len(Part) > SafeToWrite
    /\ sqUsed < MaxSendWr
    /\ sqUsed' = sqUsed + 1
    /\ IF broken THEN cq' = Append(cq, "error") ELSE UNCHANGED cq
    /\ reading' = "posted"
    /\ UNCHANGED <<senderVars, sq, placed, readValue, currentRemoteReceive, broken,
                   receiverVars, receiveBuffer>>

(* Mutant: the read's completion does not give the slots back. *)
PollReadKeepingSlots ==
    /\ Writing
    /\ reading = "landed"
    /\ cq # <<>> /\ Head(cq) = "read"
    /\ cq' = Tail(cq)
    /\ reading' = "none"
    /\ UNCHANGED <<senderVars, sq, sqUsed, placed, readValue, currentRemoteReceive, broken,
                   receiverVars, receiveBuffer>>

(* The poll that finds the read's completion ends the inner loop; the      *)
(* driver then reclaims every slot posted before it.                       *)
PollRead ==
    /\ Writing
    /\ reading = "landed"
    /\ cq # <<>> /\ Head(cq) = "read"
    /\ cq' = Tail(cq)
    /\ reading' = "none"
    /\ sqUsed' = 0
    /\ UNCHANGED <<senderVars, sq, placed, readValue, currentRemoteReceive, broken,
                   receiverVars, receiveBuffer>>

(* A completion with an error status makes the poll throw out of send(). *)
PollError ==
    /\ Writing
    /\ reading # "none"
    /\ cq # <<>> /\ Head(cq) = "error"
    /\ cq' = Tail(cq)
    /\ reading' = "none"
    /\ sPc' = "failed"
    /\ UNCHANGED <<sent, sendBuffer, sendPos, posted, sq, sqUsed, placed, readValue,
                   currentRemoteReceive, broken, receiverVars, receiveBuffer>>

PostWrite ==
    /\ sPc = "post"
    /\ sqUsed < MaxSendWr
    /\ sqUsed' = sqUsed + 1
    /\ IF broken THEN cq' = Append(cq, "error") /\ UNCHANGED sq
                 ELSE sq' = Append(sq, Slices[posted + 1]) /\ UNCHANGED cq
    /\ IF posted + 1 = Len(Slices) THEN posted' = 0 /\ sPc' = "idle"
                                   ELSE posted' = posted + 1 /\ UNCHANGED sPc
    /\ UNCHANGED <<sent, sendBuffer, sendPos, placed, reading, readValue,
                   currentRemoteReceive, broken, receiverVars, receiveBuffer>>

(* ibv_post_send refuses a work request when the send queue has no slot:   *)
(* postWorkRequest throws out of send().                                   *)
SendQueueFull ==
    /\ \/ sPc = "post"
       \/ Writing /\ reading = "none" /\ Len(Part) > SafeToWrite
    /\ sqUsed >= MaxSendWr
    /\ sPc' = "failed"
    /\ UNCHANGED <<sent, sendBuffer, sendPos, posted, nicVars, receiverVars, receiveBuffer>>

Sender == \/ WriteToSendBuffer \/ PostRead \/ PollRead \/ PollError
          \/ PostWrite \/ SendQueueFull

-----------------------------------------------------------------------------
(* The network card (external): work requests of one queue pair execute in *)
(* the order they were posted.  The RDMA read is always the last of them,  *)
(* because send() waits for it before it posts anything else.              *)

PlaceByte ==
    /\ sq # <<>>
    /\ LET wr == Head(sq)
       IN  /\ receiveBuffer' = [receiveBuffer EXCEPT ![wr.begin] = sendBuffer[wr.begin]]
           /\ sq' = IF wr.len = 1
                    THEN Tail(sq)
                    ELSE [sq EXCEPT ![1] = Slice(wr.begin + 1, wr.len - 1, wr.at + 1)]
    /\ placed' = placed + 1
    /\ UNCHANGED <<senderVars, sqUsed, reading, readValue, currentRemoteReceive, cq, broken,
                   receiverVars>>

ExecuteRead ==
    /\ reading = "posted"
    /\ sq = <<>> /\ ~broken
    /\ reading' = "executed"
    /\ readValue' = readPos
    /\ UNCHANGED <<senderVars, sq, sqUsed, placed, currentRemoteReceive, cq, broken,
                   receiverVars, receiveBuffer>>

(* Mutant: the read's bytes go elsewhere. *)
LandReadElsewhere ==
    /\ reading = "executed"
    /\ ~broken
    /\ reading' = "landed"
    /\ cq' = Append(cq, "read")
    /\ UNCHANGED <<senderVars, sq, sqUsed, placed, readValue, currentRemoteReceive, broken,
                   receiverVars, receiveBuffer>>

LandRead ==
    /\ reading = "executed"
    /\ ~broken
    /\ reading' = "landed"
    /\ currentRemoteReceive' = readValue
    /\ cq' = Append(cq, "read")
    /\ UNCHANGED <<senderVars, sq, sqUsed, placed, readValue, broken,
                   receiverVars, receiveBuffer>>

(* The connection fails (the retry counts are 0): what is outstanding is   *)
(* flushed with errors, wherever in a frame that is.                       *)
Break ==
    /\ Breakable /\ ~broken
    /\ broken' = TRUE
    /\ LET flushed == Len(sq) + (IF reading \in {"posted", "executed"} THEN 1 ELSE 0)
       IN  cq' = cq \o [i \in 1 .. flushed |-> "error"]
    /\ sq' = <<>>
    /\ UNCHANGED <<senderVars, sqUsed, placed, reading, readValue, currentRemoteReceive,
                   receiverVars, receiveBuffer>>

Nic == PlaceByte \/ ExecuteRead \/ LandRead

-----------------------------------------------------------------------------
(* receive() and hasData() *)

StartReceive(max) ==
    /\ rPc = "idle"
    /\ rPc' = "size" /\ rOp' = "receive" /\ rMax' = max
    /\ UNCHANGED <<senderVars, nicVars, rWord, receiveSize, readPos, dataSeen, received,
                   receiveBuffer>>

StartHasData ==
    /\ rPc = "idle"
    /\ rPc' = "size" /\ rOp' = "hasData"
    /\ UNCHANGED <<senderVars, nicVars, rMax, rWord, receiveSize, readPos, dataSeen, received,
                   receiveBuffer>>

(* Where the word being copied starts *)
WordPos == IF rPc = "size" THEN readPos ELSE readPos + WordLen + receiveSize

(* readFromReceiveBuffer copies from a volatile buffer, byte after byte,   *)
(* while the card may be placing those very bytes.                         *)
ReadByte ==
    /\ rPc \in {"size", "validity"}
    /\ Len(rWord) < WordLen
    /\ rWord' = Append(rWord, receiveBuffer[Cell(WordPos + Len(rWord))])
    /\ UNCHANGED <<senderVars, nicVars, rPc, rOp, rMax, receiveSize, readPos, dataSeen, received,
                   receiveBuffer>>

SizeRead ==
    /\ rPc = "size" /\ Len(rWord) = WordLen
    /\ receiveSize' = Decode(rWord)
    /\ rWord' = <<>>
    /\ rPc' = "validity"
    /\ UNCHANGED <<senderVars, nicVars, rOp, rMax, readPos, dataSeen, received, receiveBuffer>>

ValidityRead == rPc = "validity" /\ Len(rWord) = WordLen

(* The spin loop: read both words again until the validity word is there.  *)
Retry ==
    /\ ValidityRead /\ rOp = "receive" /\ rWord # Validity
    /\ rPc' = "size" /\ rWord' = <<>> /\ receiveSize' = 0
    /\ UNCHANGED <<senderVars, nicVars, rOp, rMax, readPos, dataSeen, received, receiveBuffer>>

(* Mutant: a validity word that is partly there is enough. *)
AcceptTorn ==
    /\ ValidityRead /\ rOp = "receive" /\ rWord # Zeros(WordLen)
    /\ rPc' = "copy" /\ rWord' = <<>>
    /\ UNCHANGED <<senderVars, nicVars, rOp, rMax, receiveSize, readPos, dataSeen, received,
                   receiveBuffer>>

Accept ==
    /\ ValidityRead /\ rOp = "receive" /\ rWord = Validity
    /\ rPc' = "copy" /\ rWord' = <<>>
    /\ UNCHANGED <<senderVars, nicVars, rOp, rMax, receiveSize, readPos, dataSeen, received,
                   receiveBuffer>>

(* Mutant: the same mistake in hasData(). *)
HasDataTorn ==
    /\ ValidityRead /\ rOp = "hasData"
    /\ dataSeen' = (rWord # Zeros(WordLen))
    /\ rPc' = "idle" /\ rWord' = <<>> /\ receiveSize' = 0
    /\ UNCHANGED <<senderVars, nicVars, rOp, rMax, readPos, received, receiveBuffer>>

HasDataReturn ==
    /\ ValidityRead /\ rOp = "hasData"
    /\ dataSeen' = (rWord = Validity)
    /\ rPc' = "idle" /\ rWord' = <<>> /\ receiveSize' = 0
    /\ UNCHANGED <<senderVars, nicVars, rOp, rMax, readPos, received, receiveBuffer>>

(* receive(whereTo, maxSize) throws and leaves the message where it is.    *)
TooLong ==
    /\ rPc = "copy" /\ receiveSize > rMax
    /\ rPc' = "idle" /\ receiveSize' = 0
    /\ UNCHANGED <<senderVars, nicVars, rOp, rMax, rWord, readPos, dataSeen, received,
                   receiveBuffer>>

CopyPayload ==
    /\ rPc = "copy" /\ receiveSize <= rMax
    /\ received' = Append(received, [i \in 1 .. receiveSize |->
                              receiveBuffer[Cell(readPos + WordLen + i - 1)]])
    /\ dataSeen' = FALSE
    /\ rPc' = "zero"
    /\ UNCHANGED <<senderVars, nicVars, rOp, rMax, rWord, receiveSize, readPos, receiveBuffer>>

(* Mutant: the validity word is left in the ring. *)
ZeroWithoutValidity ==
    /\ rPc = "zero"
    /\ receiveBuffer' = Overlay(receiveBuffer, readPos, Zeros(WordLen + receiveSize))
    /\ rPc' = "advance"
    /\ UNCHANGED <<senderVars, nicVars, rOp, rMax, rWord, receiveSize, readPos, dataSeen, received>>

ZeroReceiveBuffer ==
    /\ rPc = "zero"
    /\ receiveBuffer' = Overlay(receiveBuffer, readPos, Zeros(WordLen + receiveSize + WordLen))
    /\ rPc' = "advance"
    /\ UNCHANGED <<senderVars, nicVars, rOp, rMax, rWord, receiveSize, readPos, dataSeen, received>>

(* Mutant: readPos stops before the validity word. *)
AdvanceToValidity ==
    /\ rPc = "advance"
    /\ readPos' = readPos + WordLen + receiveSize
    /\ rPc' = "idle" /\ receiveSize' = 0
    /\ UNCHANGED <<senderVars, nicVars, rOp, rMax, rWord, dataSeen, received, receiveBuffer>>

AdvanceReadPos ==
    /\ rPc = "advance"
    /\ readPos' = readPos + WordLen + receiveSize + WordLen
    /\ rPc' = "idle" /\ receiveSize' = 0
    /\ UNCHANGED <<senderVars, nicVars, rOp, rMax, rWord, dataSeen, received, receiveBuffer>>

Receiver == \/ ReadByte \/ SizeRead \/ Retry \/ Accept \/ HasDataReturn
            \/ TooLong \/ CopyPayload \/ ZeroReceiveBuffer \/ AdvanceReadPos

-----------------------------------------------------------------------------
(* The constructor leaves both buffers value-initialised. *)
Init ==
    /\ sPc = "idle" /\ sent = <<>> /\ sendPos = 0 /\ posted = 0
    /\ sendBuffer = [c \in Cells |-> 0]
    /\ sq = <<>> /\ sqUsed = 0 /\ placed = 0 /\ cq = <<>> /\ broken = FALSE
    /\ reading = "none" /\ readValue = 0 /\ currentRemoteReceive = 0
    /\ rPc = "idle" /\ rOp = "receive" /\ rMax = 0 /\ rWord = <<>> /\ receiveSize = 0
    /\ receiveBuffer = [c \in Cells |-> 0]
    /\ readPos = 0 /\ dataSeen = FALSE /\ received = <<>>

(* The overload that returns a vector has no maximum: Size is never exceeded. *)
Next ==
    \/ \E m \in Message : StartSend(m)
    \/ Sender
    \/ Nic
    \/ Break
    \/ \E max \in MaxSizes \union {Size} : StartReceive(max)
    \/ StartHasData
    \/ Receiver

Spec == Init /\ [][Next]_vars

(* Both threads run and so does the card; the receiving application calls  *)
(* receive() again and again, as the ping-pong programs do.                *)
FairSpec ==
    /\ Spec
    /\ WF_vars(Sender)
    /\ WF_vars(Nic)
    /\ WF_vars(Receiver)
    /\ SF_vars(StartReceive(Size))

-----------------------------------------------------------------------------
(* Properties *)

(* The bytes send() lays into the ring for payload m *)
FrameBytes(m) == Encode(Len(m)) \o m \o Validity

FrameEnd(i) == sent[i].at + FrameLen(sent[i].data)

(* The index in sent of the frame that starts at readPos *)
Reading == IF rPc \in {"zero", "advance"} THEN Len(received) ELSE Len(received) + 1

(* What the validity word relies on.  A reader may see the length word of  *)
(* m torn, and then takes W bytes of the frame for the validity word too   *)
(* early.  No payload that send() accepts may carry the validity word at   *)
(* such a place.                                                           *)
CollisionFree ==
    \A m \in Message : \A S \in SUBSET (1 .. WordLen) :
        LET r == Decode(Torn(Encode(Len(m)), S))
        IN  FrameLen(m) <= Size /\ r < Len(m) =>
                \E i \in 1 .. WordLen : FrameBytes(m)[WordLen + r + i] # Validity[i]

SentFrame == [data : Message, at : Nat]
WriteRequest == [begin : Cells, len : 1 .. Size, at : Nat]

(* The type invariant: every variable stays in the domain its declaration  *)
(* in RDMAMessageBuffer.h gives it, ring offsets inside the ring.          *)
TypeOK ==
    /\ sPc \in {"idle", "length", "payload", "validity", "post", "failed"}
    /\ sent \in Seq(SentFrame)
    /\ sendBuffer \in [Cells -> Byte]
    /\ sendPos \in Nat /\ currentRemoteReceive \in Nat /\ readValue \in Nat
    /\ posted \in 0 .. 1
    /\ sq \in Seq(WriteRequest)
    /\ sqUsed \in 0 .. MaxSendWr
    /\ placed \in Nat
    /\ reading \in {"none", "posted", "executed", "landed"}
    /\ cq \in Seq({"read", "error"})
    /\ broken \in BOOLEAN
    /\ rPc \in {"idle", "size", "validity", "copy", "zero", "advance"}
    /\ rOp \in {"receive", "hasData"}
    /\ rMax \in Nat
    /\ rWord \in Seq(Byte) /\ Len(rWord) <= WordLen
    /\ receiveSize \in Nat
    /\ receiveBuffer \in [Cells -> Byte]
    /\ readPos \in Nat
    /\ dataSeen \in BOOLEAN
    /\ received \in Seq(Seq(Byte))

(* Flow control: the sender's idea of the reader's position is never ahead *)
(* of it, so the sender never runs more than one ring ahead of the reader, *)
(* however late its RDMA read of readPos is answered.                      *)
NoOverrun ==
    /\ currentRemoteReceive <= readValue /\ readValue <= readPos
    /\ readPos <= placed /\ placed <= sendPos
    /\ sendPos - currentRemoteReceive <= Size

(* The card reads the sendBuffer long after send() has returned: until the *)
(* peer's readPos is known to have passed a byte of a frame, that byte is  *)
(* still what send() copied there, and no other send() has reused its cell.*)
UnacknowledgedKept ==
    \A i \in DOMAIN sent : \A j \in 1 .. FrameLen(sent[i].data) :
        LET p == sent[i].at + j - 1
        IN  currentRemoteReceive <= p /\ p < sendPos
                => sendBuffer[Cell(p)] = FrameBytes(sent[i].data)[j]

(* The receiver tells a frame that has arrived from one that has not by    *)
(* the zeroes zeroReceiveBuffer left: whatever part of the ring the sender *)
(* may still be granted is zero until the card places a byte there.        *)
AheadIsZero ==
    \A k \in Cells :
        LET p == readPos + k
        IN  placed <= p => receiveBuffer[Cell(p)] = 0

(* hasData() (RDMAMessageBuffer.h:37): once it has answered true the next  *)
(* receive() does not wait, because the whole frame has been placed.       *)
HasDataSound ==
    dataSeen => /\ Len(received) < Len(sent)
                /\ FrameEnd(Len(received) + 1) <= placed

(* Slots of the send queue come back only when a signalled read completes. *)
(* With room for the frames of one ring, one of them split, and the read,  *)
(* send() never fails on a connection that works.                          *)
SendQueueSuffices ==
    MaxSendWr >= Size \div (2 * WordLen) + 2 => (sPc = "failed" => broken)

(* The ring implements a bounded first-in first-out channel of payloads:   *)
(* what receive() returns is what send() was given, whole, in order, once. *)
Channel == INSTANCE MessageChannel WITH
               sent <- [i \in DOMAIN sent |-> sent[i].data],
               Capacity <- Size \div (2 * WordLen) + 1

ImplementsChannel == Channel!ChanSpec

(* On a connection that works, everything sent is eventually received.     *)
ImplementsFairChannel == Channel!ChanFairSpec

(* On a connection that works, a send() that waits for room in the ring    *)
(* returns as long as the peer keeps receiving.                            *)
EverySendReturns == sPc \notin {"idle", "failed"} ~> sPc = "idle"

=============================================================================
