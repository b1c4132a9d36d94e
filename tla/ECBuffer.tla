------------------------------ MODULE ECBuffer -------------------------------
(***************************************************************************)
(* One direction of an ECBuffer pair: a ring of stripes, each of K data    *)
(* blocks and M parity blocks, every block followed by a validity word and *)
(* written by a queue pair of its own.                                     *)
(*                                                                         *)
(* Of every Period messages the first Coded are sent without data block 0  *)
(* but with their parity blocks, the others with their data blocks only.   *)
(* The receiver waits for any K blocks of the stripe, decodes when a data  *)
(* block is not among what it saw, copies the payload out, zeroes the      *)
(* stripe and advances readPos.  Flow control is that of RDMAMessageBuffer *)
(* with the RDMA read posted to the queue pairs in turn; only the read's   *)
(* completion gives the slots of that queue pair's send queue back.        *)
(*                                                                         *)
(* send() and receive() ignore whether encode and decode succeeded.  They  *)
(* go on after a failure with the blocks as they are, but a calculation    *)
(* that could not be started stays locked, and the endpoint's next one     *)
(* waits for it for ever.  (An endpoint encodes and decodes with one       *)
(* ECCalc; here is one direction, whose two ends have one each.)           *)
(*                                                                         *)
(* A byte of the model stands for a word of the code's: the length and the *)
(* validity word take one byte each.                                       *)
(***************************************************************************)
EXTENDS Integers, Sequences, FiniteSets

CONSTANTS
    Size,          \* bytes in sendBuffer and in receiveBuffer
    K, M,          \* data blocks and parity blocks of a stripe
    BlockSize,     \* block_size
    Period, Coded, \* 100 and 5 in the code
    Byte,          \* byte values, all of which a length can take
    Pad, Validity, \* what zeroSendBuffer fills in; the validity word
    Parity(_, _),  \* parity byte i of a column of K data bytes
    Recover(_),    \* the column for the bytes of K of its blocks
    Message,       \* payloads the application sends
    MaxMessages,   \* bound: number of send() calls
    MaxSendWr,     \* capacity of each queue pair's send queue
    MaxCalcErrors, \* bound: how many encodes and decodes may fail
    Breakable      \* the queue pairs whose connection may fail

Data == 0 .. K - 1
Block == 0 .. K + M - 1     \* also the indices of the queue pairs
Column == [Data -> Byte]

Unit == BlockSize + 1       \* a block and its validity word
Stripe == (K + M) * Unit

(* All K + M bytes of the code word of a column *)
CodeWord(column) == [b \in Block |-> IF b < K THEN column[b] ELSE Parity(b - K, column)]

(* The constructor checks only the first conjunct; a stripe longer than    *)
(* the ring could never be sent.                                           *)
ASSUME SizeAssumption ==
    /\ Size \in Nat \ {0} /\ \E e \in 0 .. Size : Size = 2 ^ e
    /\ K \in Nat \ {0} /\ M \in Nat /\ BlockSize \in Nat \ {0}
    /\ Stripe <= Size

ASSUME ByteAssumption ==
    /\ Byte \subseteq Nat /\ 0 \in Byte /\ 0 .. K * BlockSize - 1 \subseteq Byte
    /\ Pad \in Byte /\ Validity \in Byte \ {0}
    /\ Message \subseteq Seq(Byte)

(* The code is maximum distance separable: K blocks give back the column,  *)
(* and Recover answers with some column whatever it is given.              *)
ASSUME CodeAssumption ==
    /\ \A column \in Column, i \in 0 .. M - 1 : Parity(i, column) \in Byte
    /\ \A B \in SUBSET Block : Cardinality(B) = K =>
          /\ \A column \in Column : Recover([b \in B |-> CodeWord(column)[b]]) = column
          /\ \A known \in [B -> Byte] : Recover(known) \in Column

ASSUME BoundAssumption ==
    /\ Period \in Nat \ {0} /\ Coded \in Nat
    /\ MaxMessages \in Nat /\ MaxSendWr \in Nat
    /\ MaxCalcErrors \in Nat /\ Breakable \subseteq Block

VARIABLES
    \* the sending endpoint
    sPc,                   \* the statement send() is at
    sBlock,                \* the block it is at
    sent,                  \* history: the payloads accepted, each with startOfWrite
    sendBuffer,
    sendPos,
    currentRemoteReceive,
    readQp,                \* read_qp
    unencoded,             \* the messages whose encode could not be started
    \* the queue pairs and their common completion queue
    sq,                    \* per queue pair, writes posted and not placed completely
    sqUsed,                \* per queue pair, send queue slots not yet reclaimed
    reading,               \* the RDMA read of the peer's readPos
    readValue,             \* what that read fetched
    cq,                    \* completions not yet polled
    broken,                \* the queue pairs whose connection has failed
    \* the receiving endpoint
    rPc,                   \* the statement receive() is at
    rBlock,                \* the block whose validity word it reads next
    receivedBlocks,        \* received_blocks
    survived,              \* the blocks that failed_blocks does not name
    receiveSize,
    receiveBuffer,
    readPos,
    received,              \* history: the payloads receive() returned
    undecoded,             \* the messages whose decode failed
    unstarted              \* those of them whose decode could not be started

senderVars == <<sPc, sBlock, sent, sendBuffer, sendPos, readQp, unencoded>>
nicVars == <<sq, sqUsed, reading, readValue, currentRemoteReceive, cq, broken>>
receiverVars == <<rPc, rBlock, receivedBlocks, survived, receiveSize, readPos, received, undecoded,
                  unstarted>>
vars == <<senderVars, nicVars, receiverVars, receiveBuffer>>

-----------------------------------------------------------------------------
(* Ring arithmetic *)

Cells == 0 .. Size - 1
Cell(pos) == pos % Size

Overlay(buffer, pos, bytes) ==
    [c \in Cells |-> LET i == Cell(c - pos)
                     IN  IF i < Len(bytes) THEN bytes[i + 1] ELSE buffer[c]]

(* `stripe' and `from' say which bytes of whose block a slice carries; they *)
(* are kept for the invariants only.                                       *)
Slice(first, n, from) == [begin |-> first, len |-> n, stripe |-> Len(sent), from |-> from]

(* Mutant: a block that crosses the end of the ring is not split. *)
NoWraparound(pos, n) == <<Slice(Cell(pos), n, 0)>>

(* Mutant: the slice at the beginning of the ring is posted first. *)
WraparoundReversed(pos, n) ==
    LET first == Size - Cell(pos)
    IN  IF first >= n THEN <<Slice(Cell(pos), n, 0)>>
                      ELSE <<Slice(0, n - first, first), Slice(Cell(pos), first, 0)>>

Wraparound(pos, n) ==
    LET first == Size - Cell(pos)
    IN  IF first >= n THEN <<Slice(Cell(pos), n, 0)>>
                      ELSE <<Slice(Cell(pos), first, 0), Slice(0, n - first, first)>>

(* Where byte `offset' of block b of the stripe that starts at pos lies *)
At(pos, b, offset) == Cell(pos + b * Unit + offset)

(* A matrix may not be made, a calculation not be started. *)
MayFail == Cardinality(unencoded) + Cardinality(undecoded) < MaxCalcErrors

-----------------------------------------------------------------------------
(* send() *)

Current == sent[Len(sent)]
IsCoded == (Len(sent) - 1) % Period < Coded

(* The stream of bytes the data blocks carry: length, payload, padding *)
StreamByte(m, x) == CASE x = 0                -> Len(m)
                      [] x \in 1 .. Len(m)    -> m[x]
                      [] OTHER                -> Pad

(* How many bytes of length and payload fall into block b *)
Filled(m, b) ==
    LET left == 1 + Len(m) - b * BlockSize
    IN  IF b >= K \/ left <= 0 THEN 0 ELSE IF left > BlockSize THEN BlockSize ELSE left

(* The offsets in its block of what the next call writes or pads *)
PartBegin == CASE sPc = "length"   -> 0
               [] sPc = "data"     -> IF sBlock = 0 THEN 1 ELSE 0
               [] sPc = "pad"      -> Filled(Current.data, sBlock)
               [] sPc = "validity" -> BlockSize
PartEnd == CASE sPc = "length"   -> 1
             [] sPc = "data"     -> Filled(Current.data, sBlock)
             [] sPc = "pad"      -> BlockSize
             [] sPc = "validity" -> Unit
PartLen == PartEnd - PartBegin

Part == [i \in 1 .. PartLen |->
            IF sPc = "validity" THEN Validity
            ELSE StreamByte(Current.data, sBlock * BlockSize + PartBegin + i - 1)]

Writing == sPc \in {"length", "data", "pad", "validity"}
SafeToWrite == Size - (sendPos - currentRemoteReceive)

(* From one block to the next: parity blocks are only padded in the first  *)
(* place; once all are, a coded message encodes and posts them.            *)
NextBlock(b) ==
    IF b + 1 < K + M
    THEN sBlock' = b + 1 /\ sPc' = IF b + 1 < K THEN "data" ELSE "pad"
    ELSE IF IsCoded THEN sBlock' = K /\ sPc' = "encode" ELSE sBlock' = 0 /\ sPc' = "idle"

(* send(): a message longer than the data blocks throws. *)
StartSend(m) ==
    /\ sPc = "idle"
    /\ Len(sent) < MaxMessages
    /\ 1 + Len(m) <= BlockSize * K
    /\ sent' = Append(sent, [data |-> m, at |-> sendPos])
    /\ sPc' = "length" /\ sBlock' = 0
    /\ UNCHANGED <<sendBuffer, sendPos, readQp, unencoded, nicVars, receiverVars, receiveBuffer>>

(* A call of writeToSendBuffer or zeroSendBuffer that has the space *)
WriteToSendBuffer ==
    /\ Writing
    /\ reading = "none"
    /\ PartLen <= SafeToWrite
    /\ sendBuffer' = Overlay(sendBuffer, sendPos, Part)
    /\ sendPos' = sendPos + PartLen
    /\ CASE sPc = "length"   -> sPc' = "data" /\ UNCHANGED sBlock
         [] sPc = "data"     -> sPc' = "pad" /\ UNCHANGED sBlock
         [] sPc = "pad"      -> sPc' = "validity" /\ UNCHANGED sBlock
         [] sPc = "validity" -> IF sBlock < K THEN sPc' = "post" /\ UNCHANGED sBlock
                                              ELSE NextBlock(sBlock)
    /\ UNCHANGED <<sent, readQp, unencoded, nicVars, receiverVars, receiveBuffer>>

(* One that has not posts a read on the next queue pair and polls until it *)
(* completes.  A request posted to a failed queue pair is flushed.         *)
PostRead ==
    /\ Writing
    /\ reading = "none"
    /\ PartLen > SafeToWrite
    /\ sqUsed[readQp] < MaxSendWr
    /\ sqUsed' = [sqUsed EXCEPT ![readQp] = @ + 1]
    /\ reading' = "posted"
    /\ cq' = IF readQp \in broken THEN Append(cq, "error") ELSE cq
    /\ UNCHANGED <<senderVars, sq, readValue, currentRemoteReceive, broken, receiverVars,
                   receiveBuffer>>

(* Mutant: every read goes to the same queue pair. *)
PollReadStaying ==
    /\ reading = "landed"
    /\ cq # <<>> /\ Head(cq) = "read"
    /\ cq' = Tail(cq)
    /\ reading' = "none"
    /\ sqUsed' = [sqUsed EXCEPT ![readQp] = 0]
    /\ UNCHANGED <<senderVars, sq, readValue, currentRemoteReceive, broken, receiverVars,
                   receiveBuffer>>

(* Nothing was posted to the queue pair after the read. *)
PollRead ==
    /\ reading = "landed"
    /\ cq # <<>> /\ Head(cq) = "read"
    /\ cq' = Tail(cq)
    /\ reading' = "none"
    /\ sqUsed' = [sqUsed EXCEPT ![readQp] = 0]
    /\ readQp' = (readQp + 1) % (K + M)
    /\ UNCHANGED <<sPc, sBlock, sent, sendBuffer, sendPos, unencoded, sq, readValue,
                   currentRemoteReceive, broken, receiverVars, receiveBuffer>>

PollError ==
    /\ reading # "none"
    /\ cq # <<>> /\ Head(cq) = "error"
    /\ cq' = Tail(cq)
    /\ reading' = "none"
    /\ sPc' = "failed"
    /\ UNCHANGED <<sBlock, sent, sendBuffer, sendPos, readQp, unencoded, sq, sqUsed, readValue,
                   currentRemoteReceive, broken, receiverVars, receiveBuffer>>

Requests(b) == Wraparound(Current.at + b * Unit, Unit)
Room(b) == MaxSendWr - sqUsed[b]

(* A request posted to a failed queue pair is flushed. *)
Post(b, requests) ==
    /\ sqUsed' = [sqUsed EXCEPT ![b] = @ + Len(requests)]
    /\ IF b \in broken
       THEN cq' = cq \o [i \in DOMAIN requests |-> "error"] /\ UNCHANGED sq
       ELSE sq' = [sq EXCEPT ![b] = @ \o requests] /\ UNCHANGED cq

(* Mutant: block 0 is never posted. *)
PostDataButFirst ==
    /\ sPc = "post" /\ sBlock < K
    /\ Len(Requests(sBlock)) <= Room(sBlock)
    /\ IF sBlock = 0 THEN UNCHANGED <<sq, sqUsed, cq>> ELSE Post(sBlock, Requests(sBlock))
    /\ NextBlock(sBlock)
    /\ UNCHANGED <<sent, sendBuffer, sendPos, readQp, unencoded, reading, readValue,
                   currentRemoteReceive, broken, receiverVars, receiveBuffer>>

(* A data block is posted as soon as it is written, block 0 of a coded     *)
(* message not at all.                                                     *)
Unposted(b) == b = 0 /\ IsCoded

PostData ==
    /\ sPc = "post" /\ sBlock < K
    /\ IF Unposted(sBlock) THEN UNCHANGED <<sq, sqUsed, cq>>
       ELSE Len(Requests(sBlock)) <= Room(sBlock) /\ Post(sBlock, Requests(sBlock))
    /\ NextBlock(sBlock)
    /\ UNCHANGED <<sent, sendBuffer, sendPos, readQp, unencoded, reading, readValue,
                   currentRemoteReceive, broken, receiverVars, receiveBuffer>>

(* ibv_post_send refuses a request that finds the send queue full: the     *)
(* ones before it are posted, and send() throws.                           *)
PostFull ==
    /\ \/ /\ sPc = "post" /\ ~Unposted(sBlock)
          /\ Len(Requests(sBlock)) > Room(sBlock)
          /\ Post(sBlock, SubSeq(Requests(sBlock), 1, Room(sBlock)))
       \/ /\ Writing /\ reading = "none" /\ PartLen > SafeToWrite
          /\ Room(readQp) <= 0
          /\ UNCHANGED <<sq, sqUsed, cq>>
    /\ sPc' = "failed"
    /\ UNCHANGED <<sBlock, sent, sendBuffer, sendPos, readQp, unencoded, reading, readValue,
                   currentRemoteReceive, broken, receiverVars, receiveBuffer>>

(* calc->encode over the data blocks as they lie in the sendBuffer, and    *)
(* the copy of a parity block that crosses the end of the ring back into it *)
EncodedByte(b, offset) ==
    Parity(b - K, [d \in Data |-> sendBuffer[At(Current.at, d, offset)]])

EncodedRegion ==
    [i \in 1 .. M * Unit |->
        LET b == K + (i - 1) \div Unit
            offset == (i - 1) % Unit
        IN  IF offset = BlockSize THEN Validity ELSE EncodedByte(b, offset)]

(* When encode fails the parity blocks keep their padding and are posted.  *)
(* The calculation that could not be started is the first of the list and  *)
(* locked, so that no encode after it returns.  (The callback of the one   *)
(* before it, if late, may put another in front, which delays the wait for *)
(* the mutex by a message or more: this is left out.)                      *)
Encode ==
    /\ sPc = "encode" /\ unencoded = {}
    /\ \/ /\ sendBuffer' = Overlay(sendBuffer, Current.at + K * Unit, EncodedRegion)
          /\ UNCHANGED unencoded
       \/ /\ MayFail
          /\ unencoded' = unencoded \union {Len(sent)}
          /\ UNCHANGED sendBuffer
    /\ IF M = 0 THEN sPc' = "idle" /\ sBlock' = 0 ELSE sPc' = "post" /\ UNCHANGED sBlock
    /\ UNCHANGED <<sent, sendPos, readQp, nicVars, receiverVars, receiveBuffer>>

PostParity ==
    /\ sPc = "post" /\ sBlock >= K
    /\ Len(Requests(sBlock)) <= Room(sBlock)
    /\ Post(sBlock, Requests(sBlock))
    /\ IF sBlock + 1 < K + M THEN sBlock' = sBlock + 1 /\ UNCHANGED sPc
                             ELSE sBlock' = 0 /\ sPc' = "idle"
    /\ UNCHANGED <<sent, sendBuffer, sendPos, readQp, unencoded, reading, readValue,
                   currentRemoteReceive, broken, receiverVars, receiveBuffer>>

Sender == \/ WriteToSendBuffer \/ PostRead \/ PollRead \/ PollError
          \/ PostData \/ Encode \/ PostParity \/ PostFull

-----------------------------------------------------------------------------
(* The network card (external): each queue pair executes its own requests  *)
(* in order, and nothing orders one queue pair after another.              *)

Shorter(wr) == [wr EXCEPT !.begin = @ + 1, !.len = @ - 1, !.from = @ + 1]

PlaceByte(q) ==
    /\ sq[q] # <<>>
    /\ LET wr == Head(sq[q])
       IN  /\ receiveBuffer' = [receiveBuffer EXCEPT ![wr.begin] = sendBuffer[wr.begin]]
           /\ sq' = [sq EXCEPT ![q] = IF wr.len = 1 THEN Tail(@)
                                                    ELSE [@ EXCEPT ![1] = Shorter(wr)]]
    /\ UNCHANGED <<senderVars, sqUsed, reading, readValue, currentRemoteReceive, cq, broken,
                   receiverVars>>

ExecuteRead ==
    /\ reading = "posted"
    /\ sq[readQp] = <<>> /\ readQp \notin broken
    /\ reading' = "executed"
    /\ readValue' = readPos
    /\ UNCHANGED <<senderVars, sq, sqUsed, currentRemoteReceive, cq, broken, receiverVars, receiveBuffer>>

(* Mutant: the read's bytes go elsewhere. *)
LandReadElsewhere ==
    /\ reading = "executed"
    /\ readQp \notin broken
    /\ reading' = "landed"
    /\ cq' = Append(cq, "read")
    /\ UNCHANGED <<senderVars, sq, sqUsed, readValue, currentRemoteReceive, broken, receiverVars,
                   receiveBuffer>>

(* Mutant: the answer is taken to acknowledge all that was written. *)
LandReadOfAll ==
    /\ reading = "executed"
    /\ readQp \notin broken
    /\ reading' = "landed"
    /\ currentRemoteReceive' = sendPos
    /\ cq' = Append(cq, "read")
    /\ UNCHANGED <<senderVars, sq, sqUsed, readValue, broken, receiverVars, receiveBuffer>>

LandRead ==
    /\ reading = "executed"
    /\ readQp \notin broken
    /\ reading' = "landed"
    /\ currentRemoteReceive' = readValue
    /\ cq' = Append(cq, "read")
    /\ UNCHANGED <<senderVars, sq, sqUsed, readValue, broken, receiverVars, receiveBuffer>>

Break(q) ==
    /\ q \in Breakable \ broken
    /\ broken' = broken \union {q}
    /\ LET read == IF readQp = q /\ reading \in {"posted", "executed"} THEN 1 ELSE 0
       IN  cq' = cq \o [i \in 1 .. Len(sq[q]) + read |-> "error"]
    /\ sq' = [sq EXCEPT ![q] = <<>>]
    /\ UNCHANGED <<senderVars, sqUsed, reading, readValue, currentRemoteReceive, receiverVars,
                   receiveBuffer>>

-----------------------------------------------------------------------------
(* receive() *)

StartReceive ==
    /\ rPc = "idle"
    /\ rPc' = "poll" /\ rBlock' = 0 /\ receivedBlocks' = {} /\ survived' = {}
    /\ UNCHANGED <<senderVars, nicVars, receiveSize, readPos, received, undecoded, unstarted,
                   receiveBuffer>>

(* One turn of the for loop: a block counts once, and only the first K are *)
(* taken off failed_blocks.                                                *)
PollBlock ==
    /\ rPc = "poll" /\ rBlock < K + M
    /\ LET new == /\ receiveBuffer[At(readPos, rBlock, BlockSize)] = Validity
                  /\ rBlock \notin receivedBlocks
       IN  /\ receivedBlocks' = IF new THEN receivedBlocks \union {rBlock} ELSE receivedBlocks
           /\ survived' = IF new /\ Cardinality(receivedBlocks) < K
                          THEN survived \union {rBlock} ELSE survived
    /\ rBlock' = rBlock + 1
    /\ UNCHANGED <<senderVars, nicVars, rPc, receiveSize, readPos, received, undecoded, unstarted,
                   receiveBuffer>>

PollAgain ==
    /\ rPc = "poll" /\ rBlock = K + M
    /\ Cardinality(receivedBlocks) < K
    /\ rBlock' = 0
    /\ UNCHANGED <<senderVars, nicVars, rPc, receivedBlocks, survived, receiveSize, readPos,
                   received, undecoded, unstarted, receiveBuffer>>

(* Mutant: K blocks of any sort are taken for the data. *)
EnoughBlocksNoDecode ==
    /\ rPc = "poll" /\ rBlock = K + M
    /\ Cardinality(receivedBlocks) >= K
    /\ rPc' = "size"
    /\ UNCHANGED <<senderVars, nicVars, rBlock, receivedBlocks, survived, receiveSize, readPos,
                   received, undecoded, unstarted, receiveBuffer>>

EnoughBlocks ==
    /\ rPc = "poll" /\ rBlock = K + M
    /\ Cardinality(receivedBlocks) >= K
    /\ rPc' = IF Data \subseteq receivedBlocks THEN "size" ELSE "decode"
    /\ UNCHANGED <<senderVars, nicVars, rBlock, receivedBlocks, survived, receiveSize, readPos,
                   received, undecoded, unstarted, receiveBuffer>>

(* calc->decode rebuilds the data blocks that failed_blocks names, in the  *)
(* ring or, for one that crosses its end, in decode_extra_buffer, which is *)
(* then copied back.                                                       *)
DecodedColumn(offset) ==
    Recover([b \in survived |-> receiveBuffer[At(readPos, b, offset)]])

DecodedRegion ==
    [i \in 1 .. K * Unit |->
        LET b == (i - 1) \div Unit
            offset == (i - 1) % Unit
        IN  IF b \in survived \/ offset = BlockSize
            THEN receiveBuffer[At(readPos, b, offset)]
            ELSE DecodedColumn(offset)[b]]

(* When decode fails receive() goes on with the blocks as they are.  The   *)
(* calculation is locked if it could not be started, and not if its matrix *)
(* could not be made: no decode returns after the former.                  *)
Decode ==
    /\ rPc = "decode" /\ unstarted = {}
    /\ \/ /\ receiveBuffer' = Overlay(receiveBuffer, readPos, DecodedRegion)
          /\ UNCHANGED <<undecoded, unstarted>>
       \/ /\ MayFail
          /\ undecoded' = undecoded \union {Len(received) + 1}
          /\ unstarted' \in {unstarted, {Len(received) + 1}}
          /\ UNCHANGED receiveBuffer
    /\ rPc' = "size"
    /\ UNCHANGED <<senderVars, nicVars, rBlock, receivedBlocks, survived, receiveSize, readPos,
                   received>>

ReadSize ==
    /\ rPc = "size"
    /\ receiveSize' = receiveBuffer[At(readPos, 0, 0)]
    /\ rPc' = "copy"
    /\ UNCHANGED <<senderVars, nicVars, rBlock, receivedBlocks, survived, readPos, received,
                   undecoded, unstarted, receiveBuffer>>

(* vector(receiveSize): nothing says that a length which was not encoded,  *)
(* or is beyond what a stripe carries, is one there is memory for.  The    *)
(* exception leaves the stripe as it is, and ends the program.             *)
AllocateResult ==
    /\ rPc = "copy"
    /\ receiveSize > K * BlockSize - 1
    /\ rPc' = "failed"
    /\ UNCHANGED <<senderVars, nicVars, rBlock, receivedBlocks, survived, receiveSize, readPos,
                   received, undecoded, unstarted, receiveBuffer>>

(* The payload's bytes follow the length, skipping the validity words. *)
CopyPayload ==
    /\ rPc = "copy"
    /\ received' = Append(received, [i \in 1 .. receiveSize |->
                              receiveBuffer[At(readPos, i \div BlockSize, i % BlockSize)]])
    /\ rPc' = "zero"
    /\ UNCHANGED <<senderVars, nicVars, rBlock, receivedBlocks, survived, receiveSize, readPos,
                   undecoded, unstarted, receiveBuffer>>

ZeroReceiveBuffer ==
    /\ rPc = "zero"
    /\ receiveBuffer' = Overlay(receiveBuffer, readPos, [i \in 1 .. Stripe |-> 0])
    /\ rPc' = "advance"
    /\ UNCHANGED <<senderVars, nicVars, rBlock, receivedBlocks, survived, receiveSize, readPos,
                   received, undecoded, unstarted>>

AdvanceReadPos ==
    /\ rPc = "advance"
    /\ readPos' = readPos + Stripe
    /\ rPc' = "idle" /\ rBlock' = 0 /\ receivedBlocks' = {} /\ survived' = {} /\ receiveSize' = 0
    /\ UNCHANGED <<senderVars, nicVars, received, undecoded, unstarted, receiveBuffer>>

Receiver == \/ StartReceive \/ PollBlock \/ PollAgain \/ EnoughBlocks \/ Decode
            \/ ReadSize \/ AllocateResult \/ CopyPayload \/ ZeroReceiveBuffer \/ AdvanceReadPos

-----------------------------------------------------------------------------
Init ==
    /\ sPc = "idle" /\ sBlock = 0 /\ sent = <<>> /\ sendPos = 0 /\ readQp = 0 /\ unencoded = {}
    /\ sendBuffer = [c \in Cells |-> 0]
    /\ sq = [q \in Block |-> <<>>] /\ sqUsed = [q \in Block |-> 0] /\ cq = <<>> /\ broken = {}
    /\ reading = "none" /\ readValue = 0 /\ currentRemoteReceive = 0
    /\ rPc = "idle" /\ rBlock = 0 /\ receivedBlocks = {} /\ survived = {} /\ receiveSize = 0
    /\ receiveBuffer = [c \in Cells |-> 0]
    /\ readPos = 0 /\ received = <<>> /\ undecoded = {} /\ unstarted = {}

Next ==
    \/ \E m \in Message : StartSend(m)
    \/ Sender
    \/ \E q \in Block : PlaceByte(q) \/ Break(q)
    \/ ExecuteRead
    \/ LandRead
    \/ Receiver

Spec == Init /\ [][Next]_vars

(* Both threads run, the receiving one calling receive() again and again,  *)
(* and the card executes what each queue pair was given.                   *)
FairSpec ==
    /\ Spec
    /\ WF_vars(Sender) /\ WF_vars(Receiver)
    /\ WF_vars(ExecuteRead) /\ WF_vars(LandRead)
    /\ \A q \in Block : WF_vars(PlaceByte(q))

-----------------------------------------------------------------------------
(* Properties *)

SentStripe == [data : Message, at : Nat]
WriteRequest == [begin : Cells, len : 1 .. Size, stripe : Nat, from : 0 .. BlockSize]

(* The type invariant. *)
TypeOK ==
    /\ sPc \in {"idle", "length", "data", "pad", "validity", "post", "encode", "failed"}
    /\ sBlock \in 0 .. K + M
    /\ sent \in Seq(SentStripe)
    /\ sendBuffer \in [Cells -> Byte] /\ receiveBuffer \in [Cells -> Byte]
    /\ sendPos \in Nat /\ currentRemoteReceive \in Nat /\ readValue \in Nat /\ readPos \in Nat
    /\ readQp \in Block
    /\ sq \in [Block -> Seq(WriteRequest)]
    /\ sqUsed \in [Block -> 0 .. MaxSendWr]
    /\ \A q \in Block : \A i \in DOMAIN sq[q] : /\ sq[q][i].begin + sq[q][i].len <= Size
                                                /\ sq[q][i].from + sq[q][i].len <= Unit
    /\ reading \in {"none", "posted", "executed", "landed"}
    /\ cq \in Seq({"read", "error"})
    /\ broken \subseteq Block
    /\ rPc \in {"idle", "poll", "decode", "size", "copy", "zero", "advance", "failed"}
    /\ rBlock \in 0 .. K + M
    /\ survived \subseteq receivedBlocks /\ receivedBlocks \subseteq Block
    /\ receiveSize \in Nat
    /\ received \in Seq(Seq(Byte))
    /\ unencoded \subseteq DOMAIN sent /\ undecoded \subseteq Nat \ {0} /\ unstarted \subseteq undecoded

(* The bytes block b of stripe s is meant to carry *)
BlockByte(s, b, offset) ==
    IF offset = BlockSize THEN Validity
    ELSE IF b >= K /\ s \in unencoded THEN Pad
    ELSE CodeWord([d \in Data |-> StreamByte(sent[s].data, d * BlockSize + offset)])[b]

(* A write still with the card, on whichever queue pair, finds in the      *)
(* sendBuffer the bytes it was posted for: no later send() has reached     *)
(* them, although send() waits only for what the receiver has consumed.    *)
(* A cell of the ring is the target of at most one such write.             *)
PendingCells(q) ==
    UNION {sq[q][i].begin .. sq[q][i].begin + sq[q][i].len - 1 : i \in DOMAIN sq[q]}

PendingKept ==
    /\ \A q \in Block : \A c \in PendingCells(q) :
          \E s \in DOMAIN sent, offset \in 0 .. BlockSize :
              /\ sent[s].at >= readPos
              /\ At(sent[s].at, q, offset) = c
              /\ sendBuffer[c] = BlockByte(s, q, offset)
    /\ \A p, q \in Block : p # q => PendingCells(p) \intersect PendingCells(q) = {}

(* A validity word the receiver finds in its stripe belongs to that        *)
(* stripe: K blocks, any K, are enough to decode.                          *)
ValidIsCurrent ==
    rPc \in {"poll", "decode"} =>
        \A b \in Block : receiveBuffer[At(readPos, b, BlockSize)] = Validity =>
            /\ Len(received) < Len(sent)
            /\ \A offset \in 0 .. BlockSize - 1 :
                  receiveBuffer[At(readPos, b, offset)] = BlockByte(Len(received) + 1, b, offset)

(* What rdmaPingPong.cpp:58 checks of every answer *)
RightSize == \A i \in DOMAIN received : Len(received[i]) = Len(sent[i].data)

(* With enough slots no send() finds a send queue full, although each      *)
(* queue pair gets its slots back only at one read in K + M.  From one     *)
(* read to the next as many stripes pass as fit the ring, and one more if  *)
(* the data blocks of a last one do: its message may be received before    *)
(* send() has padded the parity blocks.  Each stripe takes a slot, and a   *)
(* second one for a block that crosses the end of the ring; the block in   *)
(* hand and the read itself take one more each.                            *)
ReadStripes == Size \div Stripe + (IF Size % Stripe >= K * Unit THEN 1 ELSE 0)
Splits == IF Size % Unit = 0 THEN 0 ELSE K + M + M + 1
QueuesSuffice ==
    MaxSendWr >= (K + M) * ReadStripes + Splits + 2 => (sPc = "failed" => broken # {})

(* The ring of stripes implements a bounded first-in first-out channel,    *)
(* whether a message travelled as data or had to be decoded.  Of the       *)
(* messages received only those are spoilt whose own encode or decode      *)
(* failed.                                                                 *)
Miscalculated == unencoded \union undecoded
Channel == INSTANCE MessageChannel WITH
               sent <- [i \in DOMAIN sent |-> sent[i].data],
               received <- [i \in DOMAIN received |->
                               IF i \in Miscalculated THEN sent[i].data ELSE received[i]],
               Capacity <- Size \div Stripe + 1

ImplementsChannel == Channel!ChanSpec

(* An endpoint waits for a locked calculation, or its receive() threw *)
Stalled ==
    \/ sPc = "encode" /\ unencoded # {}
    \/ rPc = "decode" /\ unstarted # {}
    \/ rPc = "failed"

(* With working connections everything sent is received: the blocks of a   *)
(* coded message that are sent suffice.  A calculation that fails costs    *)
(* one message, until an endpoint calculates again after a failed start or *)
(* receive() cannot allocate what a spoilt length asks for.                *)
ImplementsFairChannel == ImplementsChannel /\ (<>Stalled \/ Channel!ChanFairness)

(* No send() blocks for ever, unless an endpoint has stalled. *)
EverySendReturns == sPc \notin {"idle", "failed"} ~> sPc = "idle" \/ Stalled

=============================================================================
