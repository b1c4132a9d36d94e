----------------------------- MODULE Bootstrap ------------------------------
(***************************************************************************)
(* How the two endpoints of a pair of buffers find each other and part.    *)
(* Over one TCP connection they exchange the address of every queue pair,  *)
(* each of which they connect as soon as they have the peer's, and then    *)
(* the descriptors of the memory the peer may write and read.  The calls   *)
(* each of them makes, and what these acquire, are in Lifecycle.           *)
(*                                                                         *)
(* A failure throws.  If nobody catches the exception the process ends and *)
(* the kernel takes back what it held; otherwise the destructors of what   *)
(* was complete run, and the caller closes the connection.  A destructor   *)
(* that throws ends the process.  tcp_read does not look at how much recv  *)
(* returned: at the end of the stream it leaves the record as it was, and  *)
(* the endpoint goes on; of a record that arrives in pieces it reads the   *)
(* first, and every later read is out of step.                             *)
(***************************************************************************)
EXTENDS Lifecycle, Gid

CONSTANTS
    MaxFaults, \* how many calls to the card or the kernel may fail, or reads be short
    PortGid    \* the gid of the port of each endpoint

ASSUME BootstrapAssumption ==
    /\ MaxFaults \in Nat
    /\ PortGid \in [Endpoint -> [1 .. 16 -> 0 .. 255]]

Peer(e) == IF e = "client" THEN "server" ELSE "client"
Index == 1 .. QueuePairs

(* A record is a sequence of words of 8 bytes: 5 of an Address, the first  *)
(* of which holds the qpn, and 3 of an RmrInfo.                            *)
Word(e, i, n) == <<e, i, n>>
AddressOf(e, i) == [n \in 1 .. 5 |-> Word(e, i, n)]
RmrInfoOf(e) == <<<<e, "keys">>, <<e, "localReceive">>, <<e, "localReadPos">>>>
Zero(size) == [n \in 1 .. size |-> <<"zero">>]

AddressWord == {Word(e, i, n) : e \in Endpoint, i \in Index, n \in 1 .. 5}
RmrInfoWord == UNION {Elements(RmrInfoOf(e)) : e \in Endpoint}

WireGid == [e \in Endpoint |-> gid_to_wire_gid(PortGid[e])]
ParsedGid == [e \in Endpoint |-> wire_gid_to_gid(WireGid[e])]

(* What connect() makes of an address; of one pieced together from several *)
(* it makes a destination that is nobody's.                                *)
Unconnected == [of |-> "nobody", qpn |-> 0, gid |-> <<>>]
DestinationOf(address) ==
    IF \E e \in Endpoint, i \in Index : address = AddressOf(e, i)
    THEN LET e == address[1][1]
         IN  [of |-> e, qpn |-> address[1][2], gid |-> ParsedGid[e]]
    ELSE Unconnected
Destination(e, i) == [of |-> e, qpn |-> i, gid |-> PortGid[e]]

VARIABLES
    class,     \* the class of the two buffers
    phase,     \* per endpoint, what it is doing
    at,        \* the step of its plan it is at
    live,      \* the resources it holds
    faults,    \* how many calls to the card or the kernel have failed
    cleanup,   \* the calls that the destructors would make now
    addr,      \* the record exchangeQPNAndConnect writes and reads into
    stream,    \* what it wrote to the connection and its peer has not read
    misread,   \* history: whether it has read a record in part
    qpState,   \* the state of each of its queue pairs
    dest,      \* the address each of them was connected to
    remote     \* remoteReceive and remoteReadPos

holdings == <<live, cleanup>>
exchange == <<addr, stream, misread, dest, remote>>
bootVars == <<class, phase, at, faults, holdings, exchange, qpState>>

Step(e) == Plan[class][e][at[e]]
At(e, call) == phase[e] = "constructing" /\ Step(e).call = call
Current(e) == Step(e).res[2]
Faults == faults + Cardinality({e \in Endpoint : misread[e]})
Phase(e, p) == phase' = [phase EXCEPT ![e] = p]
Closed(e) == phase[e] \in {"dead", "aborted", "unwound", "closed"}
EndOfStream(e) == stream[Peer(e)] = <<>> /\ Closed(Peer(e))

(* The step is done, and may have completed an object. *)
Proceed(e) ==
    /\ live' = [live EXCEPT ![e] = IF Step(e).call = "acquire" THEN @ \union {Step(e).res} ELSE @]
    /\ cleanup' = [cleanup EXCEPT ![e] = Takeover(Step(e), @)]
    /\ at' = [at EXCEPT ![e] = @ + 1]
    /\ IF at[e] = Len(Plan[class][e]) THEN Phase(e, "ready") ELSE UNCHANGED phase
    /\ UNCHANGED <<class, faults>>

-----------------------------------------------------------------------------
(* The connection *)

(* The socket is made, bound and listened on.  The first two throw; the    *)
(* result of listen() is not looked at, and a failure shows at accept.     *)
Listen(e) ==
    /\ At(e, "listen")
    /\ Proceed(e)
    /\ UNCHANGED <<exchange, qpState>>

Listening(e) == at[e] > 1 /\ ~Closed(e)

TcpConnect(e) ==
    /\ At(e, "connect")
    /\ Listening(Peer(e))
    /\ Proceed(e)
    /\ UNCHANGED <<exchange, qpState>>

(* A connection can be accepted after its client has gone. *)
Accept(e) ==
    /\ At(e, "accept")
    /\ at[Peer(e)] > 1
    /\ Proceed(e)
    /\ UNCHANGED <<exchange, qpState>>

-----------------------------------------------------------------------------
(* Calls to the card and to the allocator *)

Acquire(e) ==
    /\ At(e, "acquire")
    /\ qpState' = IF Step(e).res = QueuePair(Current(e))
                  THEN [qpState EXCEPT ![e][Current(e)] = "RESET"] ELSE qpState
    /\ Proceed(e)
    /\ UNCHANGED exchange

Check(e) ==
    /\ At(e, "notify") \/ At(e, "check size") \/ At(e, "query device")
    /\ Proceed(e)
    /\ UNCHANGED <<exchange, qpState>>

-----------------------------------------------------------------------------
(* exchangeQPNAndConnect *)

(* getLID, getQPN and getsgid *)
Query(e) ==
    /\ At(e, "query")
    /\ addr' = [addr EXCEPT ![e] = AddressOf(e, Current(e))]
    /\ Proceed(e)
    /\ UNCHANGED <<stream, misread, dest, remote, qpState>>

TcpWrite(e, record) == stream' = [stream EXCEPT ![e] = @ \o record] /\ UNCHANGED misread

SendAddress(e) ==
    /\ At(e, "write")
    /\ TcpWrite(e, addr[e])
    /\ Proceed(e)
    /\ UNCHANGED <<addr, dest, remote, qpState>>

(* recv returns what is there, up to the size asked for, or less if that   *)
(* came in several segments; tcp_read puts it over the beginning of the    *)
(* record, whose rest stays as it is.                                      *)
Received(e, size) ==
    LET there == Len(stream[Peer(e)])
        most == IF there < size THEN there ELSE size
    IN  {n \in 1 .. most : n = most \/ Faults < MaxFaults}
Over(e, record, n) == SubSeq(stream[Peer(e)], 1, n) \o SubSeq(record, n + 1, Len(record))

TcpRead(e, n, size) ==
    /\ stream' = [stream EXCEPT ![Peer(e)] = SubSeq(@, n + 1, Len(@))]
    /\ misread' = [misread EXCEPT ![e] = @ \/ n < size]

(* Mutant: the address of the peer's latest queue pair is taken. *)
ReceiveLatestAddress(e) ==
    /\ At(e, "read")
    /\ LET words == stream[Peer(e)]
       IN  \/ /\ words # <<>>
              /\ addr' = [addr EXCEPT ![e] = SubSeq(words, Len(words) - 4, Len(words))]
              /\ TcpRead(e, Len(words), 5)
           \/ EndOfStream(e) /\ UNCHANGED <<addr, stream, misread>>
    /\ Proceed(e)
    /\ UNCHANGED <<dest, remote, qpState>>

(* Mutant: without data, tcp_read waits for ever, closed or not. *)
ReceiveAddressBlocking(e) ==
    /\ At(e, "read")
    /\ \E n \in Received(e, 5) :
          addr' = [addr EXCEPT ![e] = Over(e, @, n)] /\ TcpRead(e, n, 5)
    /\ Proceed(e)
    /\ UNCHANGED <<dest, remote, qpState>>

(* The record that is read into holds the endpoint's own address, and      *)
(* still does when the stream has ended.                                   *)
ReceiveAddress(e) ==
    /\ At(e, "read")
    /\ \/ \E n \in Received(e, 5) :
              addr' = [addr EXCEPT ![e] = Over(e, @, n)] /\ TcpRead(e, n, 5)
       \/ EndOfStream(e) /\ UNCHANGED <<addr, stream, misread>>
    /\ Proceed(e)
    /\ UNCHANGED <<dest, remote, qpState>>

(* QueuePair::connect: to INIT, to RTR with the peer's address, to RTS *)
Connect(e) ==
    /\ \E state \in {"INIT", "RTR", "RTS"} :
          /\ At(e, state)
          /\ qpState' = [qpState EXCEPT ![e][Current(e)] = state]
          /\ dest' = IF state = "RTR"
                     THEN [dest EXCEPT ![e][Current(e)] = DestinationOf(addr[e])]
                     ELSE dest
    /\ Proceed(e)
    /\ UNCHANGED <<addr, stream, misread, remote>>

-----------------------------------------------------------------------------
(* The end of the buffer's constructor *)

SendRmrInfo(e) ==
    /\ At(e, "sendRmr")
    /\ TcpWrite(e, RmrInfoOf(e))
    /\ Proceed(e)
    /\ UNCHANGED <<addr, dest, remote, qpState>>

(* Mutant: the descriptor is not waited for. *)
ReceiveAndSetupRmrEarly(e) ==
    /\ At(e, "receiveRmr")
    /\ IF stream[Peer(e)] # <<>>
       THEN \E n \in Received(e, 3) :
              remote' = [remote EXCEPT ![e] = Over(e, @, n)] /\ TcpRead(e, n, 3)
       ELSE UNCHANGED <<remote, stream, misread>>
    /\ Proceed(e)
    /\ UNCHANGED <<addr, dest, qpState>>

(* At the end of the stream the descriptor stays all zero. *)
ReceiveAndSetupRmr(e) ==
    /\ At(e, "receiveRmr")
    /\ \/ \E n \in Received(e, 3) :
              remote' = [remote EXCEPT ![e] = Over(e, @, n)] /\ TcpRead(e, n, 3)
       \/ EndOfStream(e) /\ UNCHANGED <<remote, stream, misread>>
    /\ Proceed(e)
    /\ UNCHANGED <<addr, dest, qpState>>

-----------------------------------------------------------------------------
(* Exceptions and destructors *)

(* Nobody catches the exception, or the caller of the constructor does. *)
Raise(e) ==
    /\ \/ /\ Phase(e, "dead")
          /\ live' = [live EXCEPT ![e] = {}]
          /\ cleanup' = [cleanup EXCEPT ![e] = <<>>]
          /\ qpState' = [qpState EXCEPT ![e] = [i \in Index |-> "none"]]
       \/ Phase(e, "unwinding") /\ UNCHANGED <<holdings, qpState>>
    /\ UNCHANGED <<class, at, exchange>>

TcpCalls == {"write", "read", "sendRmr", "receiveRmr"}

(* Any call to the card or the kernel may fail, so may anything written to *)
(* or read from a connection the peer has closed, and the size may be bad. *)
(* The arrays of a calculation are the exception: the constructor goes on  *)
(* without them, and only what ECCalc lists depends on the error.          *)
Throw(e) ==
    /\ phase[e] = "constructing" /\ Step(e).res # The("arrays")
    /\ IF Step(e).call \in TcpCalls
       THEN Closed(Peer(e)) /\ UNCHANGED faults
       ELSE Faults < MaxFaults /\ faults' = faults + 1
    /\ Raise(e)

(* Nobody listens at the port. *)
Refused(e) ==
    /\ At(e, "connect")
    /\ ~Listening(Peer(e))
    /\ Raise(e)
    /\ UNCHANGED faults

(* The buffer goes out of scope at the end of the program. *)
LeaveScope(e) ==
    /\ Phase(e, "closing")
    /\ UNCHANGED <<class, at, faults, holdings, exchange, qpState>>

(* The next call of the destructors.  They do not throw but terminate.     *)
Release(e) ==
    /\ phase[e] \in {"unwinding", "closing"} /\ cleanup[e] # <<>>
    /\ LET r == Head(cleanup[e])
       IN  IF Refuses(r, live[e])
           THEN Phase(e, "aborted") /\ UNCHANGED <<holdings, qpState>>
           ELSE /\ live' = [live EXCEPT ![e] = @ \ {r}]
                /\ cleanup' = [cleanup EXCEPT ![e] = Tail(@)]
                /\ qpState' = IF r = QueuePair(r[2])
                              THEN [qpState EXCEPT ![e][r[2]] = "none"] ELSE qpState
                /\ UNCHANGED phase
    /\ UNCHANGED <<class, at, faults, exchange>>

Destroyed(e) ==
    /\ phase[e] \in {"unwinding", "closing"} /\ cleanup[e] = <<>>
    /\ Phase(e, IF phase[e] = "unwinding" THEN "unwound" ELSE "closed")
    /\ UNCHANGED <<class, at, faults, holdings, exchange, qpState>>

Construct(e) ==
    \/ Listen(e) \/ TcpConnect(e) \/ Accept(e) \/ Acquire(e) \/ Check(e)
    \/ Query(e) \/ SendAddress(e) \/ ReceiveAddress(e) \/ Connect(e)
    \/ SendRmrInfo(e) \/ ReceiveAndSetupRmr(e) \/ Refused(e)

BootInit ==
    /\ class \in Class
    /\ phase = [e \in Endpoint |-> "constructing"]
    /\ at = [e \in Endpoint |-> 1]
    /\ faults = 0
    /\ live = [e \in Endpoint |-> {}]
    /\ cleanup = [e \in Endpoint |-> <<>>]
    /\ addr = [e \in Endpoint |-> Zero(5)]
    /\ stream = [e \in Endpoint |-> <<>>]
    /\ misread = [e \in Endpoint |-> FALSE]
    /\ qpState = [e \in Endpoint |-> [i \in Index |-> "none"]]
    /\ dest = [e \in Endpoint |-> [i \in Index |-> Unconnected]]
    /\ remote = [e \in Endpoint |-> Zero(3)]

-----------------------------------------------------------------------------
(* Properties *)

BootTypeOK ==
    /\ class \in Class
    /\ phase \in [Endpoint -> {"constructing", "ready", "unwinding", "closing",
                               "dead", "aborted", "unwound", "closed"}]
    /\ \A e \in Endpoint :
          /\ at[e] \in Steps(class, e)
          /\ live[e] \subseteq Acquired[class][e][at[e]]
          /\ Elements(cleanup[e]) \subseteq live[e]
          /\ Len(addr[e]) = 5 /\ Elements(addr[e]) \subseteq AddressWord \union Elements(Zero(5))
          /\ Elements(stream[e]) \subseteq AddressWord \union RmrInfoWord
          /\ Len(remote[e]) = 3
          /\ misread[e] \in BOOLEAN
    /\ faults \in 0 .. MaxFaults
    /\ qpState \in [Endpoint -> [Index -> {"none", "RESET", "INIT", "RTR", "RTS"}]]

(* Queue pair i of one side is connected to queue pair i of the other, at  *)
(* the gid of the other's port: the two constructors stay in step although *)
(* each writes before it reads and may be one record ahead.  Only the end  *)
(* of the stream breaks this, when the peer is gone, and a record that     *)
(* came in pieces, which harms the side that reads it and no other.        *)
Paired ==
    \A e \in Endpoint, i \in Index :
        qpState[e][i] \in {"RTR", "RTS"} =>
            dest[e][i] = Destination(Peer(e), i) \/ Closed(Peer(e)) \/ misread[e]

(* What ECBuffer.cpp:49 says of tcp_read: "receive qpn".  Whoever has read *)
(* an address from a peer that is there has the peer's.                    *)
QpnReceived ==
    \A e \in Endpoint : At(e, "INIT") =>
        addr[e] = AddressOf(Peer(e), Current(e)) \/ Closed(Peer(e))

Registered(e, region, flags) ==
    The(region) \in live[e] /\ flags \subseteq convertPermissions(Permissions(class, region))

(* A region the peer may write must be writable locally as well. *)
PeerMayWrite(e, region) ==
    /\ "IBV_ACCESS_REMOTE_WRITE" \in qp_access_flags
    /\ Registered(e, region, {"IBV_ACCESS_LOCAL_WRITE", "IBV_ACCESS_REMOTE_WRITE"})

PeerMayRead(e, region) ==
    /\ "IBV_ACCESS_REMOTE_READ" \in qp_access_flags
    /\ Registered(e, region, {"IBV_ACCESS_REMOTE_READ"})

(* Connections are made with a retry count of 0, so the first request must *)
(* find the peer prepared: once the constructor has its descriptor, every  *)
(* queue pair of the peer that still runs takes requests, the memory that  *)
(* the descriptor names is registered for what is done to it, and so is    *)
(* the endpoint's own for what the answers do to it; unless the endpoint   *)
(* read a record in part.                                                  *)
PeerReady ==
    \A e \in Endpoint : phase[e] = "ready" \/ At(e, "query device") =>
        /\ Registered(e, "localCurrentRemoteReceive", {"IBV_ACCESS_LOCAL_WRITE"})
        /\ \/ misread[e] \/ phase[Peer(e)] \notin {"constructing", "ready"}
           \/ /\ \A i \in 1 .. QueuePairsOf(class) : qpState[Peer(e)][i] \in {"RTR", "RTS"}
              /\ remote[e] = RmrInfoOf(Peer(e))
              /\ PeerMayWrite(Peer(e), remote[e][2][2])
              /\ PeerMayRead(Peer(e), remote[e][3][2])

(* Whatever fails and wherever, nothing is freed or destroyed before what  *)
(* uses it and has an owner: no registered memory, no matrix of a          *)
(* calculation, no context.  What an exception orphans is not used again.  *)
NothingUsedIsFreed ==
    \A e \in Endpoint :
        \A r \in live[e] \intersect Owned[class][e][at[e]] : Uses(r) \subseteq live[e]

(* A destructor that throws, which ends the process, does so only when     *)
(* connecting one of ECBuffer's queue pairs has failed: those made so far  *)
(* have no owner yet, and the completion queues they use cannot go.        *)
AbortsOnlyHalfConnected ==
    \A e \in Endpoint : phase[e] = "aborted" =>
        /\ class = "ECBuffer" /\ at[e] <= Len(Plan[class][e])
        /\ Step(e).res = QueuePair(Current(e))
        /\ \E i \in Index : QueuePair(i) \in live[e]

(* When destructors have run to their end, what they leave behind is what  *)
(* no object had taken over when the exception was thrown; at the end of a *)
(* program that is, if anything, the arrays of the calculations.           *)
OnlyOrphansLeft ==
    \A e \in Endpoint : phase[e] \in {"unwound", "closed"} =>
        live[e] = Acquired[class][e][at[e]] \ Owned[class][e][at[e]]

(* Neither side waits for ever in its constructor, not even for a peer     *)
(* that is gone; only accept() waits for a client that never connects.     *)
Constructed ==
    \A e \in Endpoint :
        <>(phase[e] = "ready" \/ Closed(e) \/ (At(e, "accept") /\ Closed(Peer(e)) /\ at[Peer(e)] = 1))

=============================================================================
