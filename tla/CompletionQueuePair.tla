------------------------ MODULE CompletionQueuePair -------------------------
(***************************************************************************)
(* A CompletionQueuePair shared by threads: two completion queues, the     *)
(* event channel both report to, the completions cached by waits, and the  *)
(* mutex `guard' that a wait holds from its first look at the cache until  *)
(* it returns or throws.  The polling functions take no lock.              *)
(*                                                                         *)
(* The card adds completions at any time.  A queue that is armed turns the *)
(* next completion into one event on the channel and is then disarmed.     *)
(***************************************************************************)
EXTENDS Naturals, Sequences, FiniteSets

CONSTANTS
    Thread,         \* threads that call the functions of one pair
    Nobody,         \* the value of guard when no thread holds it
    Waits,          \* which waits they call: a subset of {"any", "send", "receive"}
    Polls,          \* which polls: a subset of {"plain", "typed", "blocking"}
    CallsFail,      \* whether the verbs calls of a wait may fail
    MaxFaults,      \* bound: how many calls fail, and work requests complete with
                    \* an error or with an opcode that no typed poll expects
    CQ_SIZE,        \* capacity of a completion queue
    MaxCompletions  \* bound: number of work requests that complete

Queue == {"send", "receive"}

(* How a request completes: with the opcode that the typed polls of its    *)
(* queue expect, with another, or with an error                            *)
Status == {"expected", "other", "error"}

Completion == [queue : Queue, id : 1 .. MaxCompletions, status : Status]

ASSUME CallAssumption ==
    /\ Nobody \notin Thread
    /\ Waits \subseteq Queue \union {"any"}
    /\ Polls \subseteq {"plain", "typed", "blocking"}
    /\ CallsFail \in BOOLEAN
    /\ CQ_SIZE \in Nat
    /\ MaxCompletions \in Nat /\ MaxFaults \in Nat

VARIABLES
    cq,         \* per queue, the completions the card added and nobody took
    armed,      \* per queue, whether the next completion raises an event
    channel,    \* events raised and not yet received
    cached,     \* cachedCompletions
    guard,      \* the thread holding the mutex
    pc,         \* per thread, the statement it is at
    call,       \* per thread, which wait, or which queue it polls blocking
    event,      \* per thread, the queue whose event it received
    found,      \* per thread, workCompletion once found, as <<completion>>
    completed,  \* history: how many work requests completed
    faults,     \* history: how much has gone wrong
    handed,     \* history: how often each was returned
    lost,       \* and how often an exception consumed it
    latest,     \* history: per queue, the last one that a wait returned
    abandoned   \* history: the queues a wait left by an exception, not emptied since

counters == <<completed, faults>>
cardVars == <<cq, armed, channel, counters>>
waitVars == <<cached, guard, found, event>>
threadVars == <<pc, call>>
historyVars == <<handed, lost, latest, abandoned>>
vars == <<cardVars, waitVars, threadVars, historyVars>>

Matches(w, q) == w = "any" \/ w = q

(* The counts with each completion of s counted once more *)
Count(counts, s) ==
    [id \in DOMAIN counts |-> counts[id] + Cardinality({i \in DOMAIN s : s[i].id = id})]

Without(s, i) == SubSeq(s, 1, i - 1) \o SubSeq(s, i + 1, Len(s))

-----------------------------------------------------------------------------
(* The card (external) *)

Complete(q, status) ==
    /\ completed < MaxCompletions
    /\ status # "expected" => faults < MaxFaults
    /\ Len(cq[q]) < CQ_SIZE
    /\ LET c == [queue |-> q, id |-> completed + 1, status |-> status]
       IN  cq' = [cq EXCEPT ![q] = Append(@, c)]
    /\ completed' = completed + 1
    /\ faults' = IF status = "expected" THEN faults ELSE faults + 1
    /\ IF armed[q] THEN armed' = [armed EXCEPT ![q] = FALSE] /\ channel' = Append(channel, q)
                   ELSE UNCHANGED <<armed, channel>>
    /\ UNCHANGED <<waitVars, threadVars, historyVars>>

-----------------------------------------------------------------------------
(* waitForCompletion, waitForCompletionSend, waitForCompletionReceive *)

Goto(t, label) == pc' = [pc EXCEPT ![t] = label]

(* The call is over; its variables go back to their initial values. *)
Leave(t) ==
    /\ Goto(t, "idle")
    /\ call' = [call EXCEPT ![t] = "any"]
    /\ event' = [event EXCEPT ![t] = "send"]
    /\ found' = [found EXCEPT ![t] = <<>>]

StartWait(t, w) ==
    /\ pc[t] = "idle"
    /\ Goto(t, "lock")
    /\ call' = [call EXCEPT ![t] = w]
    /\ UNCHANGED <<cardVars, waitVars, historyVars>>

Lock(t) ==
    /\ pc[t] = "lock" /\ guard = Nobody
    /\ guard' = t
    /\ Goto(t, "scan")
    /\ UNCHANGED <<cardVars, cached, found, event, call, historyVars>>

(* Mutant: the completion found in the cache stays there. *)
FromCacheKeeping(t) ==
    /\ pc[t] = "scan"
    /\ \E c \in DOMAIN cached :
          /\ Matches(call[t], cached[c].queue)
          /\ found' = [found EXCEPT ![t] = <<cached[c]>>]
    /\ Goto(t, "return")
    /\ UNCHANGED <<cardVars, cached, guard, event, call, historyVars>>

(* Mutant: the newest cached completion is taken. *)
FromCacheNewest(t) ==
    /\ pc[t] = "scan"
    /\ \E c \in DOMAIN cached :
          /\ Matches(call[t], cached[c].queue)
          /\ \A d \in c + 1 .. Len(cached) : ~Matches(call[t], cached[d].queue)
          /\ found' = [found EXCEPT ![t] = <<cached[c]>>]
          /\ cached' = Without(cached, c)
    /\ Goto(t, "return")
    /\ UNCHANGED <<cardVars, guard, event, call, historyVars>>

(* The oldest cached completion of the wanted kind *)
FromCache(t) ==
    /\ pc[t] = "scan"
    /\ \E c \in DOMAIN cached :
          /\ Matches(call[t], cached[c].queue)
          /\ \A d \in 1 .. c - 1 : ~Matches(call[t], cached[d].queue)
          /\ found' = [found EXCEPT ![t] = <<cached[c]>>]
          /\ cached' = Without(cached, c)
    /\ Goto(t, "return")
    /\ UNCHANGED <<cardVars, guard, event, call, historyVars>>

NothingCached(t) ==
    /\ pc[t] = "scan"
    /\ \A c \in DOMAIN cached : ~Matches(call[t], cached[c].queue)
    /\ Goto(t, "event")
    /\ UNCHANGED <<cardVars, waitVars, call, historyVars>>

GetEvent(t) ==
    /\ pc[t] = "event" /\ channel # <<>>
    /\ event' = [event EXCEPT ![t] = Head(channel)]
    /\ channel' = Tail(channel)
    /\ Goto(t, "arm")
    /\ UNCHANGED <<cq, armed, counters, cached, guard, found, call, historyVars>>

(* Mutant: the send queue is armed whichever queue the event was for. *)
RequestNotifySend(t) ==
    /\ pc[t] = "arm"
    /\ armed' = [armed EXCEPT !["send"] = TRUE]
    /\ Goto(t, "drain")
    /\ UNCHANGED <<cq, channel, counters, waitVars, call, historyVars>>

RequestNotify(t) ==
    /\ pc[t] = "arm"
    /\ armed' = [armed EXCEPT ![event[t]] = TRUE]
    /\ Goto(t, "drain")
    /\ UNCHANGED <<cq, channel, counters, waitVars, call, historyVars>>

(* One turn of the inner loop: the first completion of the wanted kind is  *)
(* kept, every other one is cached.                                        *)
Drain(t) ==
    /\ pc[t] = "drain"
    /\ cq[event[t]] # <<>>
    /\ LET c == Head(cq[event[t]])
       IN  /\ c.status # "error"
           /\ IF found[t] = <<>> /\ Matches(call[t], event[t])
              THEN found' = [found EXCEPT ![t] = <<c>>] /\ UNCHANGED cached
              ELSE cached' = Append(cached, c) /\ UNCHANGED found
    /\ cq' = [cq EXCEPT ![event[t]] = Tail(@)]
    /\ UNCHANGED <<armed, channel, counters, guard, event, threadVars, historyVars>>

(* A completion with an error throws: the lock is released, and what had   *)
(* been found in this call goes with it.                                   *)
DrainError(t) ==
    /\ pc[t] = "drain"
    /\ cq[event[t]] # <<>> /\ Head(cq[event[t]]).status = "error"
    /\ cq' = [cq EXCEPT ![event[t]] = Tail(@)]
    /\ lost' = Count(lost, <<Head(cq[event[t]])>> \o found[t])
    /\ abandoned' = abandoned \union {event[t]}
    /\ guard' = Nobody
    /\ Leave(t)
    /\ UNCHANGED <<armed, channel, counters, cached, handed, latest>>

(* ibv_get_cq_event, ibv_req_notify_cq or ibv_poll_cq fails: the event has *)
(* been consumed by then, and the queue may not have been armed again.     *)
WaitError(t) ==
    /\ CallsFail
    /\ pc[t] \in {"event", "arm", "drain"}
    /\ faults < MaxFaults
    /\ faults' = faults + 1
    /\ lost' = Count(lost, found[t])
    /\ abandoned' = IF pc[t] = "event" THEN abandoned ELSE abandoned \union {event[t]}
    /\ guard' = Nobody
    /\ Leave(t)
    /\ UNCHANGED <<cq, armed, channel, completed, cached, handed, latest>>

(* Mutant: the queue is left as soon as something was found. *)
DrainedEarly(t) ==
    /\ pc[t] = "drain" /\ (cq[event[t]] = <<>> \/ found[t] # <<>>)
    /\ Goto(t, IF found[t] = <<>> THEN "event" ELSE "return")
    /\ UNCHANGED <<cardVars, waitVars, call, historyVars>>

Drained(t) ==
    /\ pc[t] = "drain" /\ cq[event[t]] = <<>>
    /\ abandoned' = abandoned \ {event[t]}
    /\ Goto(t, IF found[t] = <<>> THEN "event" ELSE "return")
    /\ UNCHANGED <<cardVars, waitVars, call, handed, lost, latest>>

(* Mutant: the mutex is not released. *)
ReturnLocked(t) ==
    /\ pc[t] = "return"
    /\ handed' = Count(handed, found[t])
    /\ latest' = [latest EXCEPT ![found[t][1].queue] = found[t][1].id]
    /\ Leave(t)
    /\ UNCHANGED <<cardVars, cached, guard, lost, abandoned>>

Return(t) ==
    /\ pc[t] = "return"
    /\ handed' = Count(handed, found[t])
    /\ latest' = [latest EXCEPT ![found[t][1].queue] = found[t][1].id]
    /\ guard' = Nobody
    /\ Leave(t)
    /\ UNCHANGED <<cardVars, cached, lost, abandoned>>

-----------------------------------------------------------------------------
(* The polling functions.  A poll that finds the queue empty changes       *)
(* nothing; one that finds an error or another opcode consumes and throws. *)

Take(q, typed) ==
    LET c == Head(cq[q])
    IN  /\ cq[q] # <<>>
        /\ cq' = [cq EXCEPT ![q] = Tail(@)]
        /\ IF c.status \in {"expected"} \union (IF typed THEN {} ELSE {"other"})
           THEN handed' = Count(handed, <<c>>) /\ UNCHANGED lost
           ELSE lost' = Count(lost, <<c>>) /\ UNCHANGED handed

(* pollSendCompletionQueue(), with any opcode *)
PollSend(t) ==
    /\ "plain" \in Polls
    /\ pc[t] = "idle"
    /\ Take("send", FALSE)
    /\ UNCHANGED <<armed, channel, counters, waitVars, threadVars, latest, abandoned>>

(* pollSendCompletionQueue(type), pollRecvCompletionQueue() *)
PollTyped(t, q) ==
    /\ "typed" \in Polls
    /\ pc[t] = "idle"
    /\ Take(q, TRUE)
    /\ UNCHANGED <<armed, channel, counters, waitVars, threadVars, latest, abandoned>>

StartPollBlocking(t, q) ==
    /\ "blocking" \in Polls
    /\ pc[t] = "idle"
    /\ Goto(t, "spin")
    /\ call' = [call EXCEPT ![t] = q]
    /\ UNCHANGED <<cardVars, waitVars, historyVars>>

PollBlocking(t) ==
    /\ pc[t] = "spin"
    /\ Take(call[t], TRUE)
    /\ Leave(t)
    /\ UNCHANGED <<armed, channel, counters, cached, guard, latest, abandoned>>

-----------------------------------------------------------------------------
(* The constructor requests a notification from both queues. *)
Init ==
    /\ cq = [q \in Queue |-> <<>>]
    /\ armed = [q \in Queue |-> TRUE]
    /\ channel = <<>> /\ cached = <<>> /\ guard = Nobody
    /\ pc = [t \in Thread |-> "idle"]
    /\ call = [t \in Thread |-> "any"]
    /\ event = [t \in Thread |-> "send"]
    /\ found = [t \in Thread |-> <<>>]
    /\ completed = 0 /\ faults = 0
    /\ handed = [id \in 1 .. MaxCompletions |-> 0] /\ lost = handed
    /\ latest = [q \in Queue |-> 0] /\ abandoned = {}

(* What a thread inside a wait does next *)
WaitStep(t) ==
    \/ Lock(t) \/ FromCache(t) \/ NothingCached(t) \/ GetEvent(t) \/ RequestNotify(t)
    \/ Drain(t) \/ DrainError(t) \/ Drained(t) \/ Return(t)

Card ==
    \E q \in Queue, status \in Status : Complete(q, status)

Next ==
    \/ Card
    \/ \E t \in Thread :
          \/ \E w \in Waits : StartWait(t, w)
          \/ WaitStep(t)
          \/ WaitError(t)
          \/ PollSend(t)
          \/ \E q \in Queue : PollTyped(t, q) \/ StartPollBlocking(t, q)
          \/ PollBlocking(t)

Spec == Init /\ [][Next]_vars

(* Every thread that is not blocked runs; nothing says when the card       *)
(* completes a request or that the mutex is handed out fairly.             *)
FairSpec == Spec /\ \A t \in Thread : WF_vars(WaitStep(t)) /\ WF_vars(PollBlocking(t))

-----------------------------------------------------------------------------
(* Properties *)

Waiting(t) == pc[t] \in {"lock", "scan", "event", "arm", "drain", "return"}

(* The type invariant: the mutex is held exactly by the thread that is     *)
(* inside the critical section of waitForCompletion.                       *)
TypeOK ==
    /\ cq \in [Queue -> Seq(Completion)] /\ \A q \in Queue : Len(cq[q]) <= CQ_SIZE
    /\ armed \in [Queue -> BOOLEAN]
    /\ channel \in Seq(Queue)
    /\ cached \in Seq(Completion)
    /\ guard \in Thread \union {Nobody}
    /\ pc \in [Thread -> {"idle", "lock", "scan", "event", "arm", "drain", "return", "spin"}]
    /\ call \in [Thread -> Queue \union {"any"}]
    /\ event \in [Thread -> Queue]
    /\ found \in [Thread -> Seq(Completion)] /\ \A t \in Thread : Len(found[t]) <= 1
    /\ completed \in 0 .. MaxCompletions
    /\ faults \in 0 .. MaxFaults
    /\ handed \in [1 .. MaxCompletions -> Nat] /\ lost \in [1 .. MaxCompletions -> Nat]
    /\ latest \in [Queue -> 0 .. MaxCompletions] /\ abandoned \subseteq Queue
    /\ \A t \in Thread : guard = t <=> pc[t] \in {"scan", "event", "arm", "drain", "return"}

(* No completion is handed out twice and none disappears, whichever        *)
(* threads wait and poll at once: each is in one queue, in the cache, in   *)
(* the hands of a wait, returned or consumed by an exception, once.        *)
Occurrences(s, id) == Cardinality({i \in DOMAIN s : s[i].id = id})
Holders(id) == {t \in Thread : Occurrences(found[t], id) > 0}

ExactlyOnce ==
    \A id \in 1 .. MaxCompletions :
        Occurrences(cq["send"], id) + Occurrences(cq["receive"], id) + Occurrences(cached, id)
          + Cardinality(Holders(id)) + handed[id] + lost[id] = IF id <= completed THEN 1 ELSE 0

(* A queue is disarmed only while its event is on the channel or in the    *)
(* hands of a thread about to arm it again, and it never has two events    *)
(* pending: between ibv_get_cq_event and ibv_req_notify_cq nothing else    *)
(* may arm it, whatever the other threads do and however a wait ends,      *)
(* unless ibv_req_notify_cq itself failed: that leaves the queue deaf.     *)
Notified(q) == {i \in DOMAIN channel : channel[i] = q}
Arming(q) == {t \in Thread : pc[t] = "arm" /\ event[t] = q}

EventDiscipline ==
    \A q \in Queue :
        LET pending == Cardinality(Notified(q)) + Cardinality(Arming(q))
        IN  IF armed[q] THEN pending = 0 ELSE pending = 1 \/ (pending = 0 /\ q \in abandoned)

(* What the comment in waitForCompletion asks for: a queue is emptied      *)
(* after its event, "as events are only generated when new work            *)
(* completions are enqueued".  So a queue that holds completions has its   *)
(* event pending or is being drained, and no thread sleeps beside it,      *)
(* unless a failure has made a wait leave it.                              *)
NoLostWakeup ==
    \A q \in Queue : cq[q] # <<>> =>
        \/ q \in abandoned
        \/ Notified(q) # {}
        \/ \E t \in Thread : pc[t] \in {"arm", "drain"} /\ event[t] = q

(* The waits hand out the completions of one queue in the order of the     *)
(* queue, although some pass through the cache, some do not, and different *)
(* threads take them.                                                      *)
WaitOrder == [][\A q \in Queue : latest'[q] >= latest[q]]_vars

(* The same where it hurts: no thread sleeps in ibv_get_cq_event with an   *)
(* empty channel while a completion it waits for lies in its queue.        *)
SleepJustified ==
    \A t \in Thread : pc[t] = "event" /\ channel = <<>> =>
        \A q \in Queue : Matches(call[t], q) => cq[q] = <<>>

(* Whoever waits while a completion of the wanted kind is there gets one,  *)
(* or another call takes it first, or the mutex is held by a wait          *)
(* for the other kind that nothing wakes, or a failure has left a queue    *)
(* behind that nothing tells of.                                           *)
Available(t) ==
    \/ \E q \in Queue : cq[q] # <<>> /\ Matches(call[t], q)
    \/ \E c \in DOMAIN cached : Matches(call[t], cached[c].queue)
HeldUp(t) ==
    \E u \in Thread \ {t} : pc[u] = "event" /\ channel = <<>> /\ call[u] # "any"

Served ==
    \A t \in Thread :
        Waiting(t) /\ Available(t) ~>
            ~Waiting(t) \/ ~Available(t) \/ HeldUp(t) \/ abandoned # {}

=============================================================================
