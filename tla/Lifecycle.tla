----------------------------- MODULE Lifecycle ------------------------------
(***************************************************************************)
(* What an endpoint acquires while the program sets up its connection and  *)
(* constructs a buffer, call by call, and what the destructors give back.  *)
(*                                                                         *)
(* A constructor is a sequence of steps.  What a step acquires is in the   *)
(* hands of a raw pointer until an object that frees it is complete: the   *)
(* step that completes an object carries the sequence of calls its         *)
(* destructor makes.  An exception runs the destructors of the objects     *)
(* that are complete and of no other.                                      *)
(***************************************************************************)
EXTENDS Naturals, Sequences, FiniteSets

CONSTANT QueuePairs   \* k + m

ASSUME LifecycleAssumption == QueuePairs \in Nat \ {0}

Class == {"RDMAMessageBuffer", "ECBuffer"}
Endpoint == {"client", "server"}

(* The Network owns a completion queue pair, 0, and the buffer another, 1. *)
The(name) == <<name, 0>>
Own(name) == <<name, 1>>
QueuePair(i) == <<"queuePair", i>>
QueuePairsOf(c) == IF c = "ECBuffer" THEN QueuePairs ELSE 1
Each(names) == [i \in DOMAIN names |-> The(names[i])]

Elements(s) == {s[i] : i \in DOMAIN s}

Call(call, resource) == [call |-> call, res |-> resource, frees |-> <<>>]
Raw(resource) == Call("acquire", resource)
Completing(step, frees) == [step EXCEPT !.frees = frees]
Member(name) == Completing(Raw(The(name)), <<The(name)>>)

-----------------------------------------------------------------------------
(* Destructors *)

DestroyCompletionQueuePair(i) == <<<<"sendQueue", i>>, <<"receiveQueue", i>>, <<"channel", i>>>>

DestroyReceiveQueue == <<The("srq")>>

DestroyNetwork ==
    DestroyReceiveQueue \o DestroyCompletionQueuePair(0) \o Each(<<"pd", "context", "devices">>)

(* ~RDMANetworking deletes the queue pairs and the array they are held in. *)
DestroyQueuePairs(c) ==
    [i \in 1 .. QueuePairsOf(c) |-> QueuePair(i)]
        \o IF c = "ECBuffer" THEN <<The("queuePairs")>> ELSE <<>>

(* Mutant: the matrix is freed while the calculation still uses it. *)
DestroyECCalcLast == Each(<<"encode_matrix", "en_mat", "calc", "sges", "comp">>)

(* The arrays of the calculations are not among what ~ECCalc frees. *)
DestroyECCalc == Each(<<"calc", "encode_matrix", "en_mat", "sges", "comp">>)

-----------------------------------------------------------------------------
(* Constructors *)

CompletionQueuePairSteps(i) == <<Raw(<<"channel", i>>), Raw(<<"sendQueue", i>>), Raw(<<"receiveQueue", i>>)>>

ReceiveQueueSteps == <<Completing(Raw(The("srq")), DestroyReceiveQueue)>>

NetworkSteps ==
    <<Raw(The("devices")), Raw(The("context")), Raw(The("pd"))>>
        \o ReceiveQueueSteps \o CompletionQueuePairSteps(0)
        \o <<Completing(Call("notify", The("sendQueue")), DestroyNetwork)>>

(* QueuePair's constructor, exchangeQPNAndConnect and connect: of the      *)
(* classes, RDMAMessageBuffer's queue pair is a member, and ECBuffer's     *)
(* have an owner only when all of them are connected.                      *)
ExchangeCalls == <<"acquire", "query", "write", "read", "INIT", "RTR", "RTS">>

QueuePairStep(c, i, call) ==
    IF \/ c = "ECBuffer" /\ call = "RTS" /\ i = QueuePairs
       \/ c = "RDMAMessageBuffer" /\ call = "acquire"
    THEN Completing(Call(call, QueuePair(i)), DestroyQueuePairs(c))
    ELSE Call(call, QueuePair(i))

QueuePairSteps(c) ==
    [j \in 1 .. 7 * QueuePairsOf(c) |->
        QueuePairStep(c, ((j - 1) \div 7) + 1, ExchangeCalls[((j - 1) % 7) + 1])]

RDMANetworkingSteps(c) ==
    NetworkSteps \o CompletionQueuePairSteps(1)
        \o <<Completing(Call("notify", Own("sendQueue")), DestroyCompletionQueuePair(1))>>
        \o (IF c = "ECBuffer" THEN <<Raw(The("queuePairs"))>> ELSE <<>>)
        \o QueuePairSteps(c)

Memory(c) ==
    IF c = "ECBuffer" THEN <<"receiveBuffer", "sendBuffer", "encode_extra_buffer", "decode_extra_buffer">>
                      ELSE <<"receiveBuffer", "sendBuffer">>
Regions(c) ==
    IF c = "ECBuffer" THEN <<"localSend", "localReceive", "encodeExtra", "decodeExtra",
                             "localReadPos", "localCurrentRemoteReceive">>
                      ELSE <<"localSend", "localReceive", "localReadPos", "localCurrentRemoteReceive">>

ECCalcSteps ==
    <<Call("query device", The("context"))>>
        \o [i \in 1 .. 5 |-> Raw(Each(<<"comp", "arrays", "sges", "en_mat", "encode_matrix">>)[i])]
        \o <<Completing(Raw(The("calc")), DestroyECCalc)>>

BufferSteps(c) ==
    RDMANetworkingSteps(c)
        \o [i \in DOMAIN Memory(c) |-> Member(Memory(c)[i])]
        \o [i \in DOMAIN Regions(c) |-> Member(Regions(c)[i])]
        \o <<Call("check size", The("receiveBuffer")),
             Call("sendRmr", The("localReceive")), Call("receiveRmr", The("localReceive"))>>
        \o IF c = "ECBuffer" THEN ECCalcSteps ELSE <<>>

SocketSteps(e) ==
    IF e = "client" THEN <<Call("connect", The("socket"))>>
                    ELSE <<Call("listen", The("socket")), Call("accept", The("socket"))>>

(* What the program of endpoint e does before its loop *)
Plan == [c \in Class |-> [e \in Endpoint |-> SocketSteps(e) \o BufferSteps(c)]]

-----------------------------------------------------------------------------
(* What remains to be freed once a step is done: the object it completes   *)
(* takes over what its members held, the youngest of what is to be freed,  *)
(* and is destroyed before everything that is older.  ~ECBuffer resets     *)
(* calc, declared before what it uses, so that this holds for the          *)
(* calculations as well.                                                   *)
Older(step, cleanup) ==
    LET members == {i \in DOMAIN cleanup : cleanup[i] \in Elements(step.frees)}
    IN  SubSeq(cleanup, Cardinality(members) + 1, Len(cleanup))

(* Mutant: calc is destroyed where it is declared, after net. *)
TakeoverNoReset(step, cleanup) ==
    IF step.res = The("calc") THEN cleanup \o step.frees
    ELSE step.frees \o Older(step, cleanup)

(* Mutant: a completed object replaces what was to be freed. *)
TakeoverAll(step, cleanup) == IF step.frees = <<>> THEN cleanup ELSE step.frees

Takeover(step, cleanup) == step.frees \o Older(step, cleanup)

(* What has been acquired before step n of a plan, and what of it an object *)
(* owns *)
Steps(c, e) == 1 .. Len(Plan[c][e]) + 1
Owned ==
    [c \in Class |-> [e \in Endpoint |-> [n \in Steps(c, e) |->
        UNION {Elements(Plan[c][e][i].frees) : i \in 1 .. n - 1}]]]
Acquired ==
    [c \in Class |-> [e \in Endpoint |-> [n \in Steps(c, e) |->
        {Plan[c][e][i].res : i \in {j \in 1 .. n - 1 : Plan[c][e][j].call = "acquire"}}]]]

-----------------------------------------------------------------------------
(* The driver and the card *)

Buffer == [localSend |-> "sendBuffer", localReceive |-> "receiveBuffer",
           encodeExtra |-> "encode_extra_buffer", decodeExtra |-> "decode_extra_buffer"]

(* What a resource uses as long as it lives *)
Uses(r) ==
    CASE r[1] = "pd" -> {The("context")}
      [] r[1] = "channel" -> {The("context")}
      [] r[1] \in {"sendQueue", "receiveQueue"} -> {<<"channel", r[2]>>}
      [] r[1] = "srq" -> {The("pd")}
      [] r[1] = "queuePair" -> {The("pd"), The("srq"), Own("sendQueue"), Own("receiveQueue")}
      [] r[1] \in DOMAIN Buffer -> {The("pd"), The(Buffer[r[1]])}
      [] r[1] \in {"localReadPos", "localCurrentRemoteReceive"} -> {The("pd")}
      [] r[1] = "calc" -> {The("pd"), The("en_mat")}
      [] OTHER -> {}

(* The driver does not destroy what is in use; the other calls succeed. *)
Refuses(r, live) ==
    /\ r[1] \in {"pd", "channel", "sendQueue", "receiveQueue", "srq"}
    /\ \E u \in live : r \in Uses(u)

(* The permissions each region is registered with, and what they allow *)
Permissions(c, region) ==
    CASE region = "localReceive" -> {"LocalWrite", "RemoteWrite"}
      [] region = "localReadPos" -> {"RemoteRead"}
      [] region = "localSend" /\ c = "RDMAMessageBuffer" -> {}
      [] OTHER -> {"LocalWrite"}

Flag == [LocalWrite |-> "IBV_ACCESS_LOCAL_WRITE", RemoteWrite |-> "IBV_ACCESS_REMOTE_WRITE",
         RemoteRead |-> "IBV_ACCESS_REMOTE_READ"]

(* Mutant: the flag of RemoteWrite is not set. *)
convertLocalPermissions(permissions) == {Flag[p] : p \in permissions \ {"RemoteWrite"}}

convertPermissions(permissions) == {Flag[p] : p \in permissions}

(* What the peer may do through a queue pair that is at least in INIT *)
qp_access_flags ==
    {"IBV_ACCESS_REMOTE_WRITE", "IBV_ACCESS_REMOTE_READ", "IBV_ACCESS_REMOTE_ATOMIC"}

=============================================================================
