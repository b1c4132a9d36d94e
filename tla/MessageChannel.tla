--------------------------- MODULE MessageChannel ---------------------------
(***************************************************************************)
(* What one direction of a message buffer promises its two applications:   *)
(* every message passed to send() is returned by receive() exactly once,   *)
(* whole and in the order of the sends, and the number of messages that    *)
(* have been accepted and not yet returned is bounded.  Nothing here knows *)
(* of rings, queue pairs or validity words: RDMAMessageBuffer and ECBuffer *)
(* are checked to implement this module.                                   *)
(***************************************************************************)
EXTENDS Naturals, Sequences

CONSTANTS
    Message,    \* the messages that may be sent
    Capacity    \* bound on the messages accepted and not yet returned

VARIABLES
    sent,       \* every message send() accepted, oldest first
    received    \* every message receive() returned, oldest first

chanVars == <<sent, received>>

InFlight == Len(sent) - Len(received)

ChanInit ==
    /\ sent = <<>>
    /\ received = <<>>

Send(m) ==
    /\ InFlight < Capacity
    /\ sent' = Append(sent, m)
    /\ UNCHANGED received

Receive ==
    /\ InFlight > 0
    /\ received' = Append(received, sent[Len(received) + 1])
    /\ UNCHANGED sent

ChanNext == Receive \/ \E m \in Message : Send(m)

ChanSpec == ChanInit /\ [][ChanNext]_chanVars

(* With an application that keeps receiving, nothing stays in the channel. *)
ChanFairness == WF_chanVars(Receive)
ChanFairSpec == ChanSpec /\ ChanFairness

=============================================================================
