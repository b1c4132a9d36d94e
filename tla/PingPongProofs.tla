--------------------------- MODULE PingPongProofs ---------------------------
(***************************************************************************)
(* Proofs about the ping-pong programs: whatever fails and whenever either *)
(* of them ends, one message is under way at a time, every answer is the   *)
(* echo of its message, and only the last answer can get lost.  With the   *)
(* invariants of BootstrapProofs, every variable keeps its type.           *)
(***************************************************************************)
EXTENDS BootstrapProofs

-----------------------------------------------------------------------------
(* The loops *)

Number == 1 .. MessageNum

PhaseType == phase \in [Endpoint -> Phases]
LoopType == /\ turn \in [Endpoint -> {"send", "receive"}]
            /\ pings \in Seq(Number) /\ heard \in Seq(Number)
            /\ pongs \in Seq(Number) /\ answers \in Seq(Number)

(* Each program is at most one call ahead of the other. *)
Rounds ==
    /\ Len(pings) = Len(answers) + IF turn["client"] = "receive" THEN 1 ELSE 0
    /\ Len(heard) = Len(pongs) + IF turn["server"] = "send" THEN 1 ELSE 0
    /\ Len(answers) <= Len(pongs) /\ Len(heard) <= Len(pings) /\ Len(pings) <= MessageNum

Echoes ==
    /\ \A i \in 1 .. Len(heard) : heard[i] = pings[i]
    /\ \A i \in 1 .. Len(pongs) : pongs[i] = heard[i]
    /\ \A i \in 1 .. Len(answers) : answers[i] = pongs[i]

(* How far the server had come when it began to give back its buffer *)
Ends ==
    /\ phase["server"] = "constructing" => Len(heard) = 0
    /\ phase["server"] = "unwinding" => Len(pongs) = Len(answers)
    /\ phase["server"] = "closing" => Len(pongs) = MessageNum
    /\ lost => Len(pongs) = MessageNum /\ Len(answers) = MessageNum - 1

LoopInv == PhaseType /\ LoopType /\ Rounds /\ Echoes /\ Ends

LEMMA Lengths ==
  ASSUME LoopType
  PROVE  /\ Len(pings) \in Nat /\ Len(heard) \in Nat /\ Len(pongs) \in Nat /\ Len(answers) \in Nat
         /\ MessageNum \in Nat /\ MessageNum > 0
         /\ turn["client"] \in {"send", "receive"} /\ turn["server"] \in {"send", "receive"}
BY LenProperties, PingPongAssumption DEF LoopType, Endpoint

LEMMA LoopInit == Init => LoopInv
<1> SUFFICES ASSUME Init PROVE LoopInv
  OBVIOUS
<1>1. /\ phase = [e \in Endpoint |-> "constructing"]
      /\ turn = [e \in Endpoint |-> IF e = "client" THEN "send" ELSE "receive"]
      /\ pings = <<>> /\ heard = <<>> /\ pongs = <<>> /\ answers = <<>> /\ lost = FALSE
  BY DEF Init, BootInit
<1>2. PhaseType /\ LoopType
  BY <1>1, EmptySeq DEF PhaseType, LoopType, Phases
<1>3. turn["client"] = "send" /\ turn["server"] = "receive" /\ phase["server"] = "constructing"
  BY <1>1 DEF Endpoint
<1> QED BY <1>1, <1>2, <1>3, PingPongAssumption DEF LoopInv, Rounds, Echoes, Ends

-----------------------------------------------------------------------------
(* Steps outside the loops *)

(* Endpoint e changes its phase from one of F to one of T, or not at all. *)
Moves(e, F, T) == phase' = phase \/ \E p \in T : phase[e] \in F /\ Phase(e, p)

LEMMA ProceedMoves ==
  ASSUME NEW e \in Endpoint, phase[e] = "constructing", Proceed(e)
  PROVE  Moves(e, {"constructing"}, {"ready"})
BY DEF Proceed, Moves

LEMMA RaiseMoves ==
  ASSUME NEW e \in Endpoint, NEW p, phase[e] = p, Raise(e)
  PROVE  Moves(e, {p}, {"dead", "unwinding"})
BY DEF Raise, Moves

LEMMA ConstructMoves ==
  ASSUME NEW e \in Endpoint, Construct(e)
  PROVE  Moves(e, {"constructing"}, {"ready", "dead", "unwinding"})
<1>1. phase[e] = "constructing" /\ (Proceed(e) \/ Raise(e))
  BY DEF Construct, Listen, TcpConnect, Accept, Acquire, Check, Query, SendAddress, ReceiveAddress,
         Connect, SendRmrInfo, ReceiveAndSetupRmr, Refused, At
<1> QED BY <1>1, ProceedMoves, RaiseMoves DEF Moves

LEMMA DestroyMoves ==
  ASSUME NEW e \in Endpoint, Destroy(e)
  PROVE  Moves(e, {"unwinding", "closing"}, {"aborted", "unwound", "closed"})
<1>1. CASE Release(e)
  <2>1. phase[e] \in {"unwinding", "closing"} /\ (phase' = phase \/ Phase(e, "aborted"))
    BY <1>1 DEF Release
  <2> QED BY <2>1 DEF Moves
<1>2. CASE Destroyed(e)
  <2>1. phase[e] \in {"unwinding", "closing"} /\ (Phase(e, "unwound") \/ Phase(e, "closed"))
    BY <1>2 DEF Destroyed
  <2> QED BY <2>1 DEF Moves
<1> QED BY <1>1, <1>2 DEF Destroy

(* Such a step preserves the invariant if it leaves the loops alone and    *)
(* loses no answer but the last one.                                       *)
LEMMA OutsideLoop ==
  ASSUME LoopInv, NEW e \in Endpoint, UNCHANGED loopVars,
         \/ Moves(e, {"constructing"}, {"ready", "dead", "unwinding"})
         \/ Moves(e, {"ready"}, {"dead", "unwinding"}) /\ turn[e] = "send"
         \/ Moves(e, {"unwinding", "closing"}, {"aborted", "unwound", "closed"}),
         lost' => lost \/ (Len(answers) < Len(pongs) /\ phase["server"] \in {"unwinding", "closing"})
  PROVE  LoopInv'
<1>1. /\ turn' = turn /\ pings' = pings /\ heard' = heard /\ pongs' = pongs /\ answers' = answers
  BY DEF loopVars
<1>2. LoopType' /\ Rounds' /\ Echoes'
  BY <1>1 DEF LoopInv, LoopType, Rounds, Echoes
<1>3. PhaseType'
  BY DEF LoopInv, PhaseType, Moves, Phase, Phases
<1>4. /\ phase'["server"] = "constructing" => phase["server"] = "constructing"
      /\ phase'["server"] = "closing" => phase["server"] = "closing"
      /\ phase'["server"] = "unwinding" =>
             \/ phase["server"] \in {"unwinding", "constructing"}
             \/ phase["server"] = "ready" /\ turn["server"] = "send"
  BY DEF LoopInv, PhaseType, Moves, Phase, Endpoint
<1>5. Ends'
  <2>1. /\ Len(pings) = Len(answers) + IF turn["client"] = "receive" THEN 1 ELSE 0
        /\ Len(heard) = Len(pongs) + IF turn["server"] = "send" THEN 1 ELSE 0
        /\ Len(answers) <= Len(pongs) /\ Len(heard) <= Len(pings) /\ Len(pings) <= MessageNum
    BY DEF LoopInv, Rounds
  <2>2. phase'["server"] = "constructing" => Len(heard) = 0
    BY <1>4 DEF LoopInv, Ends
  <2>3. phase'["server"] = "unwinding" => Len(pongs) = Len(answers)
    BY <1>4, <2>1, Lengths DEF LoopInv, Ends
  <2>4. phase'["server"] = "closing" => Len(pongs) = MessageNum
    BY <1>4 DEF LoopInv, Ends
  <2>5. lost' => Len(pongs) = MessageNum /\ Len(answers) = MessageNum - 1
    BY <2>1, Lengths DEF LoopInv, Ends
  <2> QED BY <1>1, <2>2, <2>3, <2>4, <2>5 DEF Ends
<1> QED BY <1>2, <1>3, <1>5 DEF LoopInv

LEMMA DestroyLoses ==
  ASSUME LoopInv, NEW e \in Endpoint, Destroy(e)
  PROVE  lost' => lost \/ (Len(answers) < Len(pongs) /\ phase["server"] \in {"unwinding", "closing"})
<1>1. phase[e] \in {"unwinding", "closing"}
  BY DEF Destroy, Release, Destroyed
<1>2. CASE e = "server"
  <2>1. lost' \in {FALSE, Pong!InFlight > 0} \/ lost' \in {lost}
    BY DEF Destroy
  <2>2. lost' => lost \/ Pong!InFlight > 0
    BY <2>1
  <2>3. Pong!InFlight > 0 => Len(answers) < Len(pongs)
    BY Lengths DEF LoopInv, Pong!InFlight
  <2> QED BY <1>1, <1>2, <2>2, <2>3
<1>3. CASE e # "server"
  BY <1>3 DEF Destroy
<1> QED BY <1>2, <1>3

-----------------------------------------------------------------------------
(* Steps of the loops *)

LEMMA ClientSendStep == ASSUME LoopInv, ClientSend PROVE LoopInv'
<1>1. /\ turn' = [turn EXCEPT !["client"] = "receive"] /\ pings' = Append(pings, Len(pings) + 1)
      /\ heard' = heard /\ pongs' = pongs /\ answers' = answers /\ lost' = lost /\ phase' = phase
      /\ turn["client"] = "send" /\ Len(answers) < MessageNum
  BY DEF ClientSend, Ping!Send, Turn, bootVars
<1>2. Len(pings) = Len(answers) /\ Len(pings) + 1 \in Number
  BY <1>1, Lengths DEF LoopInv, Rounds, Number
<1>3. /\ pings' \in Seq(Number) /\ Len(pings') = Len(pings) + 1
      /\ \A i \in 1 .. Len(pings) : pings'[i] = pings[i]
  BY <1>1, <1>2, AppendProperties DEF LoopInv, LoopType
<1>4. PhaseType' /\ LoopType'
  BY <1>1, <1>3 DEF LoopInv, PhaseType, LoopType
<1>5. turn'["client"] = "receive" /\ turn'["server"] = turn["server"]
  BY <1>1 DEF LoopInv, LoopType, Endpoint
<1>6. Rounds'
  BY <1>1, <1>2, <1>3, <1>5, Lengths DEF LoopInv, Rounds
<1>7. Echoes'
  <2>1. \A i \in 1 .. Len(heard) : i \in 1 .. Len(pings)
    BY Lengths DEF LoopInv, Rounds
  <2> QED BY <1>1, <1>3, <2>1 DEF LoopInv, Echoes
<1>8. Ends'
  BY <1>1 DEF LoopInv, Ends
<1> QED BY <1>4, <1>6, <1>7, <1>8 DEF LoopInv

LEMMA ClientReceiveStep == ASSUME LoopInv, ClientReceive PROVE LoopInv'
<1>1. /\ turn' = [turn EXCEPT !["client"] = "send"] /\ answers' = Append(answers, pongs[Len(answers) + 1])
      /\ pings' = pings /\ heard' = heard /\ pongs' = pongs /\ lost' = lost /\ phase' = phase
      /\ turn["client"] = "receive" /\ ~lost /\ Len(pongs) - Len(answers) > 0
  BY DEF ClientReceive, Pong!Receive, Pong!InFlight, Turn, bootVars
<1>2. Len(answers) + 1 \in 1 .. Len(pongs) /\ Len(answers) < Len(pongs)
  BY <1>1, Lengths DEF LoopInv
<1>3. pongs[Len(answers) + 1] \in Number
  BY <1>2, ElementOfSeq DEF LoopInv, LoopType
<1>4. /\ answers' \in Seq(Number) /\ Len(answers') = Len(answers) + 1
      /\ \A i \in 1 .. Len(answers) : answers'[i] = answers[i]
      /\ answers'[Len(answers) + 1] = pongs[Len(answers) + 1]
  BY <1>1, <1>3, AppendProperties DEF LoopInv, LoopType
<1>5. PhaseType' /\ LoopType'
  BY <1>1, <1>4 DEF LoopInv, PhaseType, LoopType
<1>6. turn'["client"] = "send" /\ turn'["server"] = turn["server"]
  BY <1>1 DEF LoopInv, LoopType, Endpoint
<1>7. Rounds'
  BY <1>1, <1>2, <1>4, <1>6, Lengths DEF LoopInv, Rounds
<1>8. Echoes'
  <2>1. \A i \in 1 .. Len(answers') : i \in 1 .. Len(answers) \/ i = Len(answers) + 1
    BY <1>4, Lengths DEF LoopInv
  <2>2. \A i \in 1 .. Len(answers') : answers'[i] = pongs[i]
    BY <1>4, <2>1 DEF LoopInv, Echoes
  <2> QED BY <1>1, <2>2 DEF LoopInv, Echoes
<1>9. Ends'
  <2>1. phase["server"] # "unwinding"
    BY <1>2, Lengths DEF LoopInv, Ends
  <2> QED BY <1>1, <2>1 DEF LoopInv, Ends
<1> QED BY <1>5, <1>7, <1>8, <1>9 DEF LoopInv

LEMMA ServerReceiveStep == ASSUME LoopInv, ServerReceive PROVE LoopInv'
<1>1. /\ turn' = [turn EXCEPT !["server"] = "send"] /\ heard' = Append(heard, pings[Len(heard) + 1])
      /\ pings' = pings /\ pongs' = pongs /\ answers' = answers /\ lost' = lost /\ phase' = phase
      /\ turn["server"] = "receive" /\ phase["server"] = "ready" /\ Len(pings) - Len(heard) > 0
  BY DEF ServerReceive, Ping!Receive, Ping!InFlight, Turn, bootVars
<1>2. Len(heard) + 1 \in 1 .. Len(pings) /\ Len(heard) < Len(pings)
  BY <1>1, Lengths DEF LoopInv
<1>3. pings[Len(heard) + 1] \in Number
  BY <1>2, ElementOfSeq DEF LoopInv, LoopType
<1>4. /\ heard' \in Seq(Number) /\ Len(heard') = Len(heard) + 1
      /\ \A i \in 1 .. Len(heard) : heard'[i] = heard[i]
      /\ heard'[Len(heard) + 1] = pings[Len(heard) + 1]
  BY <1>1, <1>3, AppendProperties DEF LoopInv, LoopType
<1>5. PhaseType' /\ LoopType'
  BY <1>1, <1>4 DEF LoopInv, PhaseType, LoopType
<1>6. turn'["server"] = "send" /\ turn'["client"] = turn["client"]
  BY <1>1 DEF LoopInv, LoopType, Endpoint
<1>7. Rounds'
  BY <1>1, <1>2, <1>4, <1>6, Lengths DEF LoopInv, Rounds
<1>8. Echoes'
  <2>1. \A i \in 1 .. Len(heard') : i \in 1 .. Len(heard) \/ i = Len(heard) + 1
    BY <1>4, Lengths DEF LoopInv
  <2>2. \A i \in 1 .. Len(heard') : heard'[i] = pings[i]
    BY <1>4, <2>1 DEF LoopInv, Echoes
  <2>3. \A i \in 1 .. Len(pongs) : i \in 1 .. Len(heard)
    BY Lengths DEF LoopInv, Rounds
  <2>4. \A i \in 1 .. Len(pongs) : pongs[i] = heard'[i]
    BY <1>4, <2>3 DEF LoopInv, Echoes
  <2> QED BY <1>1, <2>2, <2>4 DEF LoopInv, Echoes
<1>9. Ends'
  BY <1>1 DEF LoopInv, Ends
<1> QED BY <1>5, <1>7, <1>8, <1>9 DEF LoopInv

LEMMA ServerSendStep == ASSUME LoopInv, ServerSend PROVE LoopInv'
<1>1. /\ turn' = [turn EXCEPT !["server"] = "receive"] /\ pongs' = Append(pongs, heard[Len(heard)])
      /\ pings' = pings /\ heard' = heard /\ answers' = answers /\ lost' = lost /\ phase' = phase
      /\ turn["server"] = "send" /\ phase["server"] = "ready"
  BY DEF ServerSend, Pong!Send, Turn, bootVars
<1>2. Len(heard) = Len(pongs) + 1 /\ Len(heard) \in 1 .. Len(heard)
  BY <1>1, Lengths DEF LoopInv, Rounds
<1>3. heard[Len(heard)] \in Number
  BY <1>2, ElementOfSeq DEF LoopInv, LoopType
<1>4. /\ pongs' \in Seq(Number) /\ Len(pongs') = Len(pongs) + 1
      /\ \A i \in 1 .. Len(pongs) : pongs'[i] = pongs[i]
      /\ pongs'[Len(pongs) + 1] = heard[Len(pongs) + 1]
  BY <1>1, <1>2, <1>3, AppendProperties DEF LoopInv, LoopType
<1>5. PhaseType' /\ LoopType'
  BY <1>1, <1>4 DEF LoopInv, PhaseType, LoopType
<1>6. turn'["server"] = "receive" /\ turn'["client"] = turn["client"]
  BY <1>1 DEF LoopInv, LoopType, Endpoint
<1>7. Rounds'
  BY <1>1, <1>2, <1>4, <1>6, Lengths DEF LoopInv, Rounds
<1>8. Echoes'
  <2>1. \A i \in 1 .. Len(pongs') : i \in 1 .. Len(pongs) \/ i = Len(pongs) + 1
    BY <1>4, Lengths DEF LoopInv
  <2>2. \A i \in 1 .. Len(pongs') : pongs'[i] = heard[i]
    BY <1>4, <2>1 DEF LoopInv, Echoes
  <2>3. \A i \in 1 .. Len(answers) : i \in 1 .. Len(pongs)
    BY Lengths DEF LoopInv, Rounds
  <2>4. \A i \in 1 .. Len(answers) : answers[i] = pongs'[i]
    BY <1>4, <2>3 DEF LoopInv, Echoes
  <2> QED BY <1>1, <2>2, <2>4 DEF LoopInv, Echoes
<1>9. Ends'
  <2>1. ~lost
    BY <1>2, Lengths DEF LoopInv, Rounds, Ends
  <2> QED BY <1>1, <2>1 DEF LoopInv, Ends
<1> QED BY <1>5, <1>7, <1>8, <1>9 DEF LoopInv

LEMMA ExitStep == ASSUME LoopInv, ClientExit \/ ServerExit PROVE LoopInv'
<1>1. /\ turn' = turn /\ pings' = pings /\ heard' = heard /\ pongs' = pongs /\ answers' = answers /\ lost' = lost
      /\ \/ phase' = [phase EXCEPT !["client"] = "closing"]
         \/ phase' = [phase EXCEPT !["server"] = "closing"] /\ Len(pongs) = MessageNum
  BY DEF ClientExit, ServerExit, LeaveScope, Phase, loopVars
<1>2. LoopType' /\ Rounds' /\ Echoes'
  BY <1>1 DEF LoopInv, LoopType, Rounds, Echoes
<1>3. PhaseType'
  BY <1>1 DEF LoopInv, PhaseType, Phases
<1>4. phase'["server"] = phase["server"] \/ (phase'["server"] = "closing" /\ Len(pongs) = MessageNum)
  BY <1>1 DEF LoopInv, PhaseType, Endpoint
<1>5. Ends'
  BY <1>1, <1>4 DEF LoopInv, Ends
<1> QED BY <1>2, <1>3, <1>5 DEF LoopInv

LEMMA LoopStep == LoopInv /\ [Next]_vars => LoopInv'
<1> SUFFICES ASSUME LoopInv, [Next]_vars PROVE LoopInv'
  OBVIOUS
<1>1. CASE UNCHANGED vars
  <2>1. /\ turn' = turn /\ pings' = pings /\ heard' = heard /\ pongs' = pongs
        /\ answers' = answers /\ lost' = lost /\ phase' = phase
    BY <1>1 DEF vars, bootVars, loopVars
  <2> QED BY <2>1 DEF LoopInv, PhaseType, LoopType, Rounds, Echoes, Ends
<1>2. CASE Next
  <2> PICK e \in Endpoint : Run(e) \/ ((Throw(e) \/ SendFails(e)) /\ UNCHANGED <<loopVars, lost>>)
    BY <1>2 DEF Next
  <2>1. CASE Construct(e) /\ UNCHANGED <<loopVars, lost>>
    BY <2>1, ConstructMoves, OutsideLoop
  <2>2. CASE Destroy(e)
    <3>1. UNCHANGED loopVars
      BY <2>2 DEF Destroy
    <3> QED BY <2>2, <3>1, DestroyMoves, DestroyLoses, OutsideLoop
  <2>3. CASE ClientSend
    BY <2>3, ClientSendStep
  <2>4. CASE ClientReceive
    BY <2>4, ClientReceiveStep
  <2>5. CASE ServerReceive
    BY <2>5, ServerReceiveStep
  <2>6. CASE ServerSend
    BY <2>6, ServerSendStep
  <2>7. CASE ClientExit \/ ServerExit
    BY <2>7, ExitStep
  <2>8. CASE Throw(e) /\ UNCHANGED <<loopVars, lost>>
    <3>1. Moves(e, {"constructing"}, {"dead", "unwinding"})
      BY <2>8, RaiseMoves DEF Throw
    <3>2. Moves(e, {"constructing"}, {"ready", "dead", "unwinding"})
      BY <3>1 DEF Moves
    <3> QED BY <2>8, <3>2, OutsideLoop
  <2>9. CASE SendFails(e) /\ UNCHANGED <<loopVars, lost>>
    <3>1. Moves(e, {"ready"}, {"dead", "unwinding"}) /\ turn[e] = "send"
      BY <2>9, RaiseMoves DEF SendFails
    <3> QED BY <2>9, <3>1, OutsideLoop
  <2> QED BY <2>1, <2>2, <2>3, <2>4, <2>5, <2>6, <2>7, <2>8, <2>9 DEF Run
<1> QED BY <1>1, <1>2

LEMMA LoopInvariant == Spec => []LoopInv
BY LoopInit, LoopStep, PTL DEF Spec

(* One message is under way at a time, whichever way the programs end, so  *)
(* that a ring that holds one message never makes their send() wait.       *)
THEOREM InLockStep == Spec => []LockStep
<1>1. LoopInv => LockStep
  BY Lengths DEF LoopInv, Rounds, LockStep, Ping!InFlight, Pong!InFlight
<1> QED BY <1>1, LoopInvariant, PTL

(* The server destroys its queue pairs when its last send() has returned:  *)
(* of all answers only that one can get lost, and then every message was   *)
(* heard; all earlier answers are what the client sent.                    *)
THEOREM OnlyTheLastIsLost == Spec => []OnlyLastLost
<1>1. LoopInv => OnlyLastLost
  <2> SUFFICES ASSUME LoopInv PROVE OnlyLastLost
    OBVIOUS
  <2>1. lost => Len(answers) = MessageNum - 1 /\ Len(heard) = MessageNum
    BY Lengths DEF LoopInv, Rounds, Ends
  <2>2. ASSUME NEW i \in DOMAIN answers PROVE answers[i] = pings[i]
    <3>1. i \in 1 .. Len(answers)
      BY <2>2, LenProperties DEF LoopInv, LoopType
    <3>2. i \in 1 .. Len(pongs) /\ i \in 1 .. Len(heard)
      BY <3>1, Lengths DEF LoopInv, Rounds
    <3> QED BY <3>1, <3>2 DEF LoopInv, Echoes
  <2> QED BY <2>1, <2>2 DEF OnlyLastLost
<1> QED BY <1>1, LoopInvariant, PTL

LostType == lost \in BOOLEAN

LEMMA LostStep == LoopInv /\ LostType /\ [Next]_vars => LostType'
<1> SUFFICES ASSUME LoopInv, LostType, [Next]_vars PROVE lost' \in BOOLEAN
  BY DEF LostType
<1>1. CASE lost' = lost
  BY <1>1 DEF LostType
<1>2. ASSUME NEW e \in Endpoint, Destroy(e) PROVE lost' \in BOOLEAN
  <2> DEFINE n == Pong!InFlight
  <2>1. n \in Int
    BY Lengths DEF LoopInv, Pong!InFlight
  <2> HIDE DEF n
  <2>2. n > 0 => (n > 0) = TRUE
    BY <2>1
  <2>3. ~(n > 0) => (n > 0) = FALSE
    BY <2>1
  <2>4. lost' \in {FALSE, n > 0} \/ lost' \in {lost}
    BY <1>2 DEF Destroy, n
  <2> QED BY <2>2, <2>3, <2>4, Zenon DEF LostType
<1>3. lost' = lost \/ \E e \in Endpoint : Destroy(e)
  BY DEF Next, Run, vars, ClientSend, ClientReceive, ClientExit, ServerReceive, ServerSend, ServerExit
<1> QED BY <1>1, <1>2, <1>3

LEMMA LostBoolean == Spec => []LostType
<1>1. Init => LostType
  BY DEF Init, LostType
<1>2. LoopInv /\ LostType /\ [Next]_vars => LostType'
  BY LostStep
<1> QED BY <1>1, <1>2, LoopInvariant, PTL DEF Spec

(* Every variable has its type, whatever fails.  That a record being read  *)
(* never holds a word of a descriptor, nor a stream anything but whole     *)
(* words in the order of the records, needs WordInv; that an endpoint has  *)
(* acquired all it holds, and frees nothing it does not, HoldInv.          *)
THEOREM TypesHold == Spec => []TypeOK
<1>1. BootInv /\ HoldInv /\ WordInv /\ LoopInv /\ LostType => TypeOK
  <2> SUFFICES ASSUME BootInv, HoldInv, WordInv, LoopInv, LostType PROVE TypeOK
    OBVIOUS
  <2>1. BootTypeOK
    BY BootTypes
  <2>2. /\ turn \in [Endpoint -> {"send", "receive"}]
        /\ \A s \in {pings, heard, pongs, answers} : s \in Seq(1 .. MessageNum)
    BY DEF LoopInv, LoopType, Number
  <2> QED BY <2>1, <2>2 DEF TypeOK, LostType
<1> QED BY <1>1, BootInvariant, HoldInvariant, WordInvariant, LoopInvariant, LostBoolean, PTL

=============================================================================
