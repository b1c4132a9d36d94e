------------------------------ MODULE PingPong ------------------------------
(***************************************************************************)
(* The two ping-pong programs over one pair of buffers: the bootstrap, the *)
(* loop in which the client sends and waits for the answer, and the ends   *)
(* of the programs.  Each direction of the pair is a MessageChannel, what  *)
(* RDMAMessageBuffer and ECBuffer are shown to implement.                  *)
(*                                                                         *)
(* send() returns before the card has read the message.  The server leaves *)
(* its loop when its last send() returns and destroys its buffer: the last *)
(* answer may never leave the card.                                        *)
(***************************************************************************)
EXTENDS Bootstrap

CONSTANTS
    MessageNum,   \* message_num
    RingMessages  \* how many messages a ring holds

ASSUME PingPongAssumption == MessageNum \in Nat \ {0} /\ RingMessages \in Nat \ {0}

VARIABLES
    turn,          \* per endpoint, the call of its loop that comes next
    pings, heard,  \* what the client sent and the server received
    pongs, answers,\* what the server sent and the client received
    lost           \* the last answer went with the sendBuffer

loopVars == <<turn, pings, heard, pongs, answers>>
vars == <<bootVars, loopVars, lost>>

Ping == INSTANCE MessageChannel WITH
            sent <- pings, received <- heard, Message <- 1 .. MessageNum, Capacity <- RingMessages
Pong == INSTANCE MessageChannel WITH
            sent <- pongs, received <- answers, Message <- 1 .. MessageNum, Capacity <- RingMessages

Turn(e, label) == turn' = [turn EXCEPT ![e] = label]

(* Mutant: the client does not wait for the answer. *)
ClientSendOn ==
    /\ phase["client"] = "ready" /\ Len(pings) < MessageNum
    /\ Ping!Send(Len(pings) + 1)
    /\ UNCHANGED <<turn, pongs, answers, lost, bootVars>>

ClientSend ==
    /\ phase["client"] = "ready" /\ turn["client"] = "send"
    /\ Len(answers) < MessageNum
    /\ Ping!Send(Len(pings) + 1)
    /\ Turn("client", "receive")
    /\ UNCHANGED <<pongs, answers, lost, bootVars>>

ClientReceive ==
    /\ phase["client"] = "ready" /\ turn["client"] = "receive"
    /\ ~lost
    /\ Pong!Receive
    /\ Turn("client", "send")
    /\ UNCHANGED <<pings, heard, lost, bootVars>>

ServerReceive ==
    /\ phase["server"] = "ready" /\ turn["server"] = "receive"
    /\ Len(pongs) < MessageNum
    /\ Ping!Receive
    /\ Turn("server", "send")
    /\ UNCHANGED <<pongs, answers, lost, bootVars>>

ServerSend ==
    /\ phase["server"] = "ready" /\ turn["server"] = "send"
    /\ Pong!Send(heard[Len(heard)])
    /\ Turn("server", "receive")
    /\ UNCHANGED <<pings, heard, lost, bootVars>>

ClientExit ==
    /\ phase["client"] = "ready" /\ turn["client"] = "send"
    /\ Len(answers) = MessageNum
    /\ LeaveScope("client")
    /\ UNCHANGED <<loopVars, lost>>

(* Mutant: the server leaves its loop one answer early. *)
ServerExitEarly ==
    /\ phase["server"] = "ready" /\ turn["server"] = "receive"
    /\ Len(pongs) >= MessageNum - 1
    /\ LeaveScope("server")
    /\ UNCHANGED <<loopVars, lost>>

ServerExit ==
    /\ phase["server"] = "ready" /\ turn["server"] = "receive"
    /\ Len(pongs) = MessageNum
    /\ LeaveScope("server")
    /\ UNCHANGED <<loopVars, lost>>

(* Once the sendBuffer is no longer registered the card cannot read it:    *)
(* an answer that has not left by then is lost.                            *)
Destroy(e) ==
    /\ Release(e) \/ Destroyed(e)
    /\ lost' \in IF e = "server" /\ The("localSend") \in live[e] \ live'[e]
                THEN {FALSE, Pong!InFlight > 0} ELSE {lost}
    /\ UNCHANGED loopVars

Run(e) ==
    \/ Construct(e) /\ UNCHANGED <<loopVars, lost>>
    \/ Destroy(e)
    \/ e = "client" /\ (ClientSend \/ ClientReceive \/ ClientExit)
    \/ e = "server" /\ (ServerReceive \/ ServerSend \/ ServerExit)

Init ==
    /\ BootInit
    /\ turn = [e \in Endpoint |-> IF e = "client" THEN "send" ELSE "receive"]
    /\ pings = <<>> /\ heard = <<>> /\ pongs = <<>> /\ answers = <<>> /\ lost = FALSE

(* A send() that finds no room in the ring of a peer that is gone polls an *)
(* error and throws.                                                       *)
SendFails(e) ==
    /\ phase[e] = "ready" /\ turn[e] = "send"
    /\ e = "client" => Len(answers) < MessageNum
    /\ Closed(Peer(e))
    /\ Raise(e) /\ UNCHANGED faults

Next ==
    \E e \in Endpoint :
        Run(e) \/ ((Throw(e) \/ SendFails(e)) /\ UNCHANGED <<loopVars, lost>>)

Spec == Init /\ [][Next]_vars

(* Both programs run, and the buffers deliver what working connections can. *)
FairSpec == Spec /\ \A e \in Endpoint : WF_vars(Run(e))

-----------------------------------------------------------------------------
(* Properties *)

TypeOK ==
    /\ BootTypeOK
    /\ turn \in [Endpoint -> {"send", "receive"}]
    /\ \A s \in {pings, heard, pongs, answers} : s \in Seq(1 .. MessageNum)
    /\ lost \in BOOLEAN

(* One message is under way at a time, in one direction or the other: a    *)
(* ring that holds one message never makes a send() wait.                  *)
LockStep == Ping!InFlight + Pong!InFlight <= 1

(* Only the last answer can get lost; every earlier one is the echo of its *)
(* message.                                                                *)
OnlyLastLost ==
    /\ lost => Len(answers) = MessageNum - 1 /\ Len(heard) = MessageNum
    /\ \A i \in DOMAIN answers : answers[i] = pings[i]

(* A client whose server lives ends, unless the last answer was lost or    *)
(* the connection was made from a record read in part.                     *)
ClientEnds ==
    phase["client"] = "ready" ~>
        \/ phase["client"] = "closed"
        \/ phase["server"] \in {"dead", "aborted", "unwound"}
        \/ lost
        \/ \E e \in Endpoint : misread[e]

=============================================================================
