--------------------- MODULE CompletionQueuePairProofs ----------------------
(***************************************************************************)
(* Proofs about a CompletionQueuePair shared by threads: the types, with   *)
(* the mutex; that a queue is disarmed only while its event is pending and *)
(* never holds completions nobody was told of; that no completion is lost  *)
(* or handed out twice; and that waits hand them out in order.             *)
(***************************************************************************)
EXTENDS CompletionQueuePair, FiniteSetTheorems, SequenceTheorems, TLAPS

-----------------------------------------------------------------------------
(* Sequences, and how often one has an element of a set *)

Hits(s, T) == {i \in DOMAIN s : s[i] \in T}
Is(x, T) == IF x \in T THEN 1 ELSE 0

LEMMA SeqFacts ==
  ASSUME NEW S, NEW s \in Seq(S)
  PROVE  Len(s) \in Nat /\ DOMAIN s = 1 .. Len(s) /\ \A i \in DOMAIN s : s[i] \in S
BY LenProperties, ElementOfSeq

LEMMA HitsFinite ==
  ASSUME NEW S, NEW s \in Seq(S), NEW T
  PROVE  IsFiniteSet(Hits(s, T)) /\ Cardinality(Hits(s, T)) \in Nat
<1>1. Len(s) \in Nat /\ Hits(s, T) \subseteq 1 .. Len(s)
  BY SeqFacts DEF Hits
<1>2. IsFiniteSet(1 .. Len(s))
  BY <1>1, FS_Interval
<1> QED BY <1>1, <1>2, FS_Subset, FS_CardinalityType

LEMMA HitsEmpty == \A T : Cardinality(Hits(<<>>, T)) = 0
BY FS_EmptySet DEF Hits

LEMMA HitsOne ==
  ASSUME NEW x, NEW T
  PROVE  Cardinality(Hits(<<x>>, T)) = Is(x, T)
<1>1. Hits(<<x>>, T) = IF x \in T THEN {1} ELSE {}
  BY DEF Hits
<1> QED BY <1>1, FS_EmptySet, FS_Singleton DEF Is

LEMMA HitsAppend ==
  ASSUME NEW S, NEW s \in Seq(S), NEW x \in S, NEW T
  PROVE  Cardinality(Hits(Append(s, x), T)) = Cardinality(Hits(s, T)) + Is(x, T)
<1> DEFINE n == Len(s)
           p == Append(s, x)
<1>1. /\ n \in Nat /\ DOMAIN s = 1 .. n /\ p \in Seq(S) /\ Len(p) = n + 1
      /\ \A i \in 1 .. n : p[i] = s[i]
  BY SeqFacts, AppendProperties
<1>2. DOMAIN p = 1 .. (n + 1) /\ p[n + 1] = x
  BY <1>1, SeqFacts, AppendProperties
<1> HIDE DEF p, n
<1>3. \A i : i \in 1 .. (n + 1) <=> i \in 1 .. n \/ i = n + 1
  BY <1>1
<1>4. n + 1 \notin Hits(s, T)
  BY <1>1 DEF Hits
<1>5. Hits(p, T) = IF x \in T THEN Hits(s, T) \union {n + 1} ELSE Hits(s, T)
  BY <1>1, <1>2, <1>3 DEF Hits
<1>6. IsFiniteSet(Hits(s, T)) /\ Cardinality(Hits(s, T)) \in Nat
  BY HitsFinite
<1>7. Cardinality(Hits(p, T)) = Cardinality(Hits(s, T)) + Is(x, T)
  <2>1. CASE x \in T
    BY <1>4, <1>5, <1>6, <2>1, FS_AddElement DEF Is
  <2>2. CASE x \notin T
    BY <1>5, <1>6, <2>2 DEF Is
  <2> QED BY <2>1, <2>2
<1> QED BY <1>7 DEF p

(* r is s without its k-th element. *)
Skip(i, k) == IF i < k THEN i ELSE i + 1
IsWithout(r, s, k) == Len(r) = Len(s) - 1 /\ \A i \in 1 .. Len(s) - 1 : r[i] = s[Skip(i, k)]

LEMMA SkipFacts ==
  ASSUME NEW n \in Nat, NEW k \in 1 .. n
  PROVE  /\ n - 1 \in Nat
         /\ \A i \in 1 .. (n - 1) : Skip(i, k) \in 1 .. n /\ Skip(i, k) # k
         /\ \A i, j \in 1 .. (n - 1) : i < j <=> Skip(i, k) < Skip(j, k)
         /\ \A i, j \in 1 .. (n - 1) : Skip(i, k) = Skip(j, k) => i = j
         /\ \A m \in 1 .. n : m # k => \E i \in 1 .. (n - 1) : Skip(i, k) = m
<1>1. ASSUME NEW m \in 1 .. n, m # k PROVE \E i \in 1 .. (n - 1) : Skip(i, k) = m
  <2>1. CASE m < k
    <3>1. m \in 1 .. (n - 1) /\ Skip(m, k) = m
      BY <2>1 DEF Skip
    <3> QED BY <3>1
  <2>2. CASE ~(m < k)
    <3>1. m - 1 \in 1 .. (n - 1) /\ Skip(m - 1, k) = m
      BY <1>1, <2>2 DEF Skip
    <3> QED BY <3>1
  <2> QED BY <2>1, <2>2
<1> QED BY <1>1 DEF Skip

LEMMA HitsWithout ==
  ASSUME NEW S, NEW s \in Seq(S), NEW r \in Seq(S), NEW k \in 1 .. Len(s), IsWithout(r, s, k), NEW T
  PROVE  Cardinality(Hits(r, T)) = Cardinality(Hits(s, T)) - Is(s[k], T)
<1> DEFINE n == Len(s)
           f == [i \in Hits(r, T) |-> Skip(i, k)]
<1>1. /\ n \in Nat /\ DOMAIN s = 1 .. n /\ DOMAIN r = 1 .. (n - 1)
      /\ \A i \in 1 .. (n - 1) : r[i] = s[Skip(i, k)]
  BY SeqFacts DEF IsWithout
<1>2. /\ \A i \in 1 .. (n - 1) : Skip(i, k) \in 1 .. n /\ Skip(i, k) # k
      /\ \A i, j \in 1 .. (n - 1) : Skip(i, k) = Skip(j, k) => i = j
      /\ \A m \in 1 .. n : m # k => \E i \in 1 .. (n - 1) : Skip(i, k) = m
  BY <1>1, SkipFacts
<1> HIDE DEF n
<1>3. f \in [Hits(r, T) -> Hits(s, T) \ {k}]
  BY <1>1, <1>2 DEF Hits
<1>4. \A i, j \in Hits(r, T) : f[i] = f[j] => i = j
  BY <1>1, <1>2 DEF Hits
<1>5. \A m \in Hits(s, T) \ {k} : \E i \in Hits(r, T) : f[i] = m
  BY <1>1, <1>2 DEF Hits
<1>6. IsFiniteSet(Hits(r, T)) /\ IsFiniteSet(Hits(s, T)) /\ Cardinality(Hits(s, T)) \in Nat
  BY HitsFinite
<1>7. Cardinality(Hits(s, T) \ {k}) = Cardinality(Hits(r, T))
  <2>1. f \in Bijection(Hits(r, T), Hits(s, T) \ {k})
    BY <1>3, <1>4, <1>5 DEF Bijection, Injection, Surjection, IsInjective
  <2> QED BY <1>6, <2>1, FS_Bijection DEF ExistsBijection
<1>8. k \in Hits(s, T) <=> s[k] \in T
  BY <1>1 DEF Hits, n
<1>9. Cardinality(Hits(s, T) \ {k})
        = IF k \in Hits(s, T) THEN Cardinality(Hits(s, T)) - 1 ELSE Cardinality(Hits(s, T))
  BY <1>6, FS_RemoveElement
<1> HIDE DEF f
<1>10. CASE s[k] \in T
  BY <1>6, <1>7, <1>8, <1>9, <1>10 DEF Is
<1>11. CASE s[k] \notin T
  BY <1>6, <1>7, <1>8, <1>9, <1>11 DEF Is
<1> QED BY <1>10, <1>11

LEMMA TailIsWithout ==
  ASSUME NEW S, NEW s \in Seq(S), s # <<>>
  PROVE  Tail(s) \in Seq(S) /\ IsWithout(Tail(s), s, 1) /\ 1 \in 1 .. Len(s) /\ Head(s) = s[1] /\ Head(s) \in S
<1>1. /\ Len(s) \in Nat /\ Len(s) > 0 /\ Tail(s) \in Seq(S) /\ Len(Tail(s)) = Len(s) - 1
      /\ \A i \in 1 .. Len(Tail(s)) : Tail(s)[i] = s[i + 1]
  BY EmptySeq, LenProperties, HeadTailProperties
<1>2. \A i \in 1 .. (Len(s) - 1) : Skip(i, 1) = i + 1
  BY <1>1 DEF Skip
<1> QED BY <1>1, <1>2, HeadTailProperties DEF IsWithout

LEMMA WithoutIsWithout ==
  ASSUME NEW S, NEW s \in Seq(S), NEW k \in 1 .. Len(s)
  PROVE  Without(s, k) \in Seq(S) /\ IsWithout(Without(s, k), s, k)
<1> DEFINE n == Len(s)
           a == SubSeq(s, 1, k - 1)
           b == SubSeq(s, k + 1, n)
<1>1. n \in Nat /\ k \in Int /\ 1 <= k /\ k <= n /\ \A i \in 1 .. n : s[i] \in S
  BY SeqFacts
<1>2. a \in Seq(S) /\ Len(a) = k - 1 /\ \A i \in 1 .. (k - 1) : a[i] = s[i]
  <2>1. 1 \in Int /\ k - 1 \in Int /\ \A i \in 1 .. (k - 1) : s[i] \in S
    BY <1>1
  <2>2. /\ a \in Seq(S) /\ Len(a) = (IF 1 <= k - 1 THEN (k - 1) - 1 + 1 ELSE 0)
        /\ \A i \in 1 .. (k - 1) - 1 + 1 : a[i] = s[1 + i - 1]
    BY <2>1, SubSeqProperties
  <2> HIDE DEF a
  <2> QED BY <1>1, <2>2
<1>3. b \in Seq(S) /\ Len(b) = n - k /\ \A i \in 1 .. (n - k) : b[i] = s[k + i]
  <2>1. k + 1 \in Int /\ n \in Int /\ \A i \in (k + 1) .. n : s[i] \in S
    BY <1>1
  <2>2. /\ b \in Seq(S) /\ Len(b) = (IF k + 1 <= n THEN n - (k + 1) + 1 ELSE 0)
        /\ \A i \in 1 .. n - (k + 1) + 1 : b[i] = s[(k + 1) + i - 1]
    BY <2>1, SubSeqProperties
  <2> HIDE DEF b, n
  <2>3. \A i \in 1 .. (n - k) : i \in 1 .. n - (k + 1) + 1 /\ (k + 1) + i - 1 = k + i
    BY <1>1
  <2>4. Len(b) = n - k
    BY <1>1, <2>2
  <2> QED BY <2>2, <2>3, <2>4
<1>4. /\ a \o b \in Seq(S) /\ Len(a \o b) = Len(a) + Len(b)
      /\ \A i \in 1 .. Len(a) + Len(b) : (a \o b)[i] = IF i <= Len(a) THEN a[i] ELSE b[i - Len(a)]
  BY <1>2, <1>3, ConcatProperties
<1>5. Without(s, k) = a \o b
  BY DEF Without
<1> HIDE DEF a, b, n
<1>6. ASSUME NEW i \in 1 .. (n - 1) PROVE (a \o b)[i] = s[Skip(i, k)]
  <2>1. i \in 1 .. Len(a) + Len(b)
    BY <1>1, <1>2, <1>3
  <2>2. CASE i < k
    <3>1. i <= Len(a) /\ i \in 1 .. (k - 1)
      BY <1>1, <1>2, <2>2
    <3> QED BY <1>2, <1>4, <2>1, <2>2, <3>1 DEF Skip
  <2>3. CASE ~(i < k)
    <3>1. ~(i <= Len(a)) /\ i - Len(a) = i - (k - 1) /\ i - (k - 1) \in 1 .. (n - k)
      BY <1>1, <1>2, <2>3
    <3>2. (a \o b)[i] = s[k + (i - (k - 1))]
      BY <1>3, <1>4, <2>1, <3>1
    <3>3. k + (i - (k - 1)) = i + 1
      BY <1>1
    <3> QED BY <2>3, <3>2, <3>3 DEF Skip
  <2> QED BY <2>2, <2>3
<1>7. Len(a \o b) = n - 1
  BY <1>1, <1>2, <1>3, <1>4
<1> QED BY <1>4, <1>5, <1>6, <1>7 DEF IsWithout, n


-----------------------------------------------------------------------------
(* Types *)

Statement == {"idle", "lock", "scan", "event", "arm", "drain", "return", "spin"}
Inside == {"scan", "event", "arm", "drain", "return"}
Ids == 1 .. MaxCompletions

CardType == /\ cq \in [Queue -> Seq(Completion)] /\ \A q \in Queue : Len(cq[q]) <= CQ_SIZE
            /\ armed \in [Queue -> BOOLEAN] /\ channel \in Seq(Queue)
CounterType == completed \in 0 .. MaxCompletions /\ faults \in 0 .. MaxFaults
CacheType == cached \in Seq(Completion)
ThreadType == /\ pc \in [Thread -> Statement] /\ call \in [Thread -> Queue \union {"any"}]
              /\ event \in [Thread -> Queue]
              /\ \A t \in Thread : pc[t] = "spin" => call[t] \in Queue
GuardType == /\ guard \in Thread \union {Nobody}
             /\ \A t \in Thread : guard = t <=> pc[t] \in Inside
(* A wait holds a completion from finding it until it returns. *)
FoundType == /\ found \in [Thread -> Seq(Completion)] /\ \A t \in Thread : Len(found[t]) <= 1
             /\ \A t \in Thread : found[t] # <<>> => pc[t] \in {"drain", "return"}
             /\ \A t \in Thread : pc[t] = "return" => found[t] # <<>>
HistoryType == /\ handed \in [Ids -> Nat] /\ lost \in [Ids -> Nat]
               /\ latest \in [Queue -> 0 .. MaxCompletions] /\ abandoned \subseteq Queue

TypeInv == /\ CardType /\ CounterType /\ CacheType /\ ThreadType /\ GuardType /\ FoundType
           /\ HistoryType

LEMMA TypeParts == TypeInv => TypeOK
<1> SUFFICES ASSUME TypeInv PROVE TypeOK
  OBVIOUS
<1>1. /\ cq \in [Queue -> Seq(Completion)] /\ \A q \in Queue : Len(cq[q]) <= CQ_SIZE
      /\ armed \in [Queue -> BOOLEAN] /\ channel \in Seq(Queue)
  BY DEF TypeInv, CardType
<1>2. /\ pc \in [Thread -> {"idle", "lock", "scan", "event", "arm", "drain", "return", "spin"}]
      /\ call \in [Thread -> Queue \union {"any"}] /\ event \in [Thread -> Queue]
  BY DEF TypeInv, ThreadType, Statement
<1>3. /\ guard \in Thread \union {Nobody}
      /\ \A t \in Thread : guard = t <=> pc[t] \in {"scan", "event", "arm", "drain", "return"}
  BY DEF TypeInv, GuardType, Inside
<1>4. /\ found \in [Thread -> Seq(Completion)] /\ \A t \in Thread : Len(found[t]) <= 1
      /\ cached \in Seq(Completion) /\ completed \in 0 .. MaxCompletions /\ faults \in 0 .. MaxFaults
  BY DEF TypeInv, FoundType, CacheType, CounterType
<1>5. /\ handed \in [1 .. MaxCompletions -> Nat] /\ lost \in [1 .. MaxCompletions -> Nat]
      /\ latest \in [Queue -> 0 .. MaxCompletions] /\ abandoned \subseteq Queue
  BY DEF TypeInv, HistoryType, Ids
<1> QED BY <1>1, <1>2, <1>3, <1>4, <1>5 DEF TypeOK

LEMMA Bounds == MaxCompletions \in Nat /\ MaxFaults \in Nat /\ CQ_SIZE \in Nat
BY CallAssumption

LEMMA TypeInit == Init => TypeInv
<1> SUFFICES ASSUME Init PROVE TypeInv
  OBVIOUS
<1>1. \A S : <<>> \in Seq(S) /\ Len(<<>>) = 0
  BY EmptySeq
<1>2. CardType
  BY <1>1, Bounds DEF Init, CardType
<1>3. CounterType /\ CacheType /\ HistoryType
  BY <1>1, Bounds DEF Init, CounterType, CacheType, HistoryType, Ids
<1>4. ThreadType
  BY DEF Init, ThreadType, Statement, Queue
<1>5. GuardType
  BY CallAssumption DEF Init, GuardType, Inside
<1>6. FoundType
  BY <1>1 DEF Init, FoundType
<1> QED BY <1>2, <1>3, <1>4, <1>5, <1>6 DEF TypeInv

(* The mutex admits one thread. *)
LEMMA OneInside ==
  ASSUME GuardType, NEW t \in Thread, NEW u \in Thread, pc[t] \in Inside, pc[u] \in Inside
  PROVE  t = u
BY DEF GuardType

(* Taking the first completion of a queue *)
LEMMA QueueTail ==
  ASSUME CardType, NEW q \in Queue, cq[q] # <<>>
  PROVE  /\ Head(cq[q]) \in Completion
         /\ Tail(cq[q]) \in Seq(Completion) /\ Len(Tail(cq[q])) <= CQ_SIZE
<1>1. cq[q] \in Seq(Completion) /\ Len(cq[q]) <= CQ_SIZE
  BY DEF CardType
<1>2. /\ Head(cq[q]) \in Completion /\ Tail(cq[q]) \in Seq(Completion)
      /\ Len(Tail(cq[q])) = Len(cq[q]) - 1 /\ Len(cq[q]) \in Nat
  BY <1>1, HeadTailProperties, LenProperties
<1> QED BY <1>1, <1>2, Bounds

LEMMA CardTypeStep == TypeInv /\ [Next]_vars => CardType'
<1> SUFFICES ASSUME TypeInv, [Next]_vars PROVE CardType'
  OBVIOUS
<1>1. CardType /\ ThreadType /\ CounterType
  BY DEF TypeInv
<1>2. ASSUME NEW q \in Queue, cq[q] # <<>>, cq' = [cq EXCEPT ![q] = Tail(@)], UNCHANGED <<armed, channel>>
      PROVE  CardType'
  BY <1>1, <1>2, QueueTail DEF CardType
<1>3. ASSUME NEW q \in Queue, NEW status \in Status, Complete(q, status) PROVE CardType'
  <2> DEFINE c == [queue |-> q, id |-> completed + 1, status |-> status]
  <2>1. c \in Completion
    BY <1>1, <1>3, Bounds DEF Complete, Completion, CounterType
  <2>2. cq' = [cq EXCEPT ![q] = Append(@, c)] /\ Len(cq[q]) < CQ_SIZE
    BY <1>3 DEF Complete
  <2> HIDE DEF c
  <2>3. cq[q] \in Seq(Completion)
    BY <1>1 DEF CardType
  <2>4. Append(cq[q], c) \in Seq(Completion) /\ Len(Append(cq[q], c)) <= CQ_SIZE
    <3>1. Append(cq[q], c) \in Seq(Completion) /\ Len(Append(cq[q], c)) = Len(cq[q]) + 1
      BY <2>1, <2>3, AppendProperties
    <3>2. Len(cq[q]) \in Nat
      BY <2>3, LenProperties
    <3> QED BY <2>2, <3>1, <3>2, Bounds
  <2>5. cq' \in [Queue -> Seq(Completion)] /\ \A r \in Queue : Len(cq'[r]) <= CQ_SIZE
    BY <1>1, <2>2, <2>4 DEF CardType
  <2>6. armed' \in [Queue -> BOOLEAN]
    BY <1>1, <1>3 DEF CardType, Complete
  <2>7. channel' \in Seq(Queue)
    <3>1. channel' = channel \/ channel' = Append(channel, q)
      BY <1>3 DEF Complete
    <3>2. channel \in Seq(Queue)
      BY <1>1 DEF CardType
    <3> QED BY <3>1, <3>2, AppendProperties
  <2> QED BY <2>5, <2>6, <2>7 DEF CardType
<1>4. ASSUME NEW t \in Thread, GetEvent(t) PROVE CardType'
  <2>1. channel # <<>> /\ channel' = Tail(channel) /\ cq' = cq /\ armed' = armed
    BY <1>4 DEF GetEvent
  <2> QED BY <1>1, <2>1, HeadTailProperties DEF CardType
<1>5. ASSUME NEW t \in Thread, RequestNotify(t) PROVE CardType'
  BY <1>1, <1>5 DEF RequestNotify, CardType
<1>6. ASSUME NEW t \in Thread, Drain(t) \/ DrainError(t) PROVE CardType'
  BY <1>1, <1>2, <1>6 DEF Drain, DrainError, ThreadType
<1>7. ASSUME NEW t \in Thread, PollSend(t) \/ (\E q \in Queue : PollTyped(t, q)) \/ PollBlocking(t)
      PROVE  CardType'
  <2>1. PICK q \in Queue : cq[q] # <<>> /\ cq' = [cq EXCEPT ![q] = Tail(@)]
    BY <1>1, <1>7 DEF PollSend, PollTyped, PollBlocking, Take, ThreadType, Queue
  <2>2. UNCHANGED <<armed, channel>>
    BY <1>7 DEF PollSend, PollTyped, PollBlocking
  <2> QED BY <2>1, <2>2, <1>2
<1>8. CASE UNCHANGED <<cq, armed, channel>>
  BY <1>1, <1>8 DEF CardType
<1> QED
  BY <1>3, <1>4, <1>5, <1>6, <1>7, <1>8 DEF Next, Card, WaitStep, StartWait, Lock, FromCache, NothingCached,
     Drained, Return, WaitError, StartPollBlocking, cardVars, vars

LEMMA CounterTypeStep == TypeInv /\ [Next]_vars => CounterType'
<1> SUFFICES ASSUME TypeInv, [Next]_vars PROVE CounterType'
  OBVIOUS
<1>1. CounterType
  BY DEF TypeInv
<1>2. ASSUME NEW q \in Queue, NEW status \in Status, Complete(q, status) PROVE CounterType'
  <2>1. completed < MaxCompletions /\ completed' = completed + 1
        /\ (faults' = faults \/ (faults < MaxFaults /\ faults' = faults + 1))
    BY <1>2 DEF Complete
  <2> QED BY <1>1, <2>1, Bounds DEF CounterType
<1>3. ASSUME NEW t \in Thread, WaitError(t) PROVE CounterType'
  <2>1. completed' = completed /\ faults < MaxFaults /\ faults' = faults + 1
    BY <1>3 DEF WaitError
  <2> QED BY <1>1, <2>1, Bounds DEF CounterType
<1>4. CASE UNCHANGED counters
  BY <1>1, <1>4 DEF CounterType, counters
<1> QED
  BY <1>2, <1>3, <1>4 DEF Next, Card, WaitStep, StartWait, Lock, FromCache, NothingCached, GetEvent,
     RequestNotify, Drain, DrainError, Drained, Return, PollSend, PollTyped, StartPollBlocking, PollBlocking,
     cardVars, vars

LEMMA CacheTypeStep == TypeInv /\ [Next]_vars => CacheType'
<1> SUFFICES ASSUME TypeInv, [Next]_vars PROVE CacheType'
  OBVIOUS
<1>1. CacheType /\ CardType /\ ThreadType
  BY DEF TypeInv
<1>2. ASSUME NEW t \in Thread, FromCache(t) PROVE CacheType'
  <2>1. PICK c \in DOMAIN cached : cached' = Without(cached, c)
    BY <1>2 DEF FromCache
  <2>2. c \in 1 .. Len(cached)
    BY <1>1, SeqFacts DEF CacheType
  <2> QED BY <1>1, <2>1, <2>2, WithoutIsWithout DEF CacheType
<1>3. ASSUME NEW t \in Thread, Drain(t) PROVE CacheType'
  <2>1. Head(cq[event[t]]) \in Completion
    BY <1>1, <1>3, QueueTail DEF Drain, ThreadType
  <2>2. cached' = cached \/ cached' = Append(cached, Head(cq[event[t]]))
    BY <1>3 DEF Drain
  <2> QED BY <1>1, <2>1, <2>2, AppendProperties DEF CacheType
<1>4. CASE UNCHANGED cached
  BY <1>1, <1>4 DEF CacheType
<1> QED
  BY <1>2, <1>3, <1>4 DEF Next, Card, Complete, WaitStep, StartWait, Lock, NothingCached, GetEvent,
     RequestNotify, DrainError, Drained, Return, WaitError, PollSend, PollTyped, StartPollBlocking,
     PollBlocking, waitVars, vars

LEMMA ThreadTypeStep == TypeInv /\ [Next]_vars => ThreadType'
<1> SUFFICES ASSUME TypeInv, [Next]_vars PROVE ThreadType'
  OBVIOUS
<1>1. ThreadType /\ CardType
  BY DEF TypeInv
<1>2. ASSUME NEW t \in Thread, NEW l \in Statement \ {"spin"}, Goto(t, l), UNCHANGED <<call, event>>
      PROVE  ThreadType'
  BY <1>1, <1>2 DEF ThreadType, Goto
<1>3. ASSUME NEW t \in Thread, Leave(t) PROVE ThreadType'
  BY <1>1, <1>3 DEF ThreadType, Leave, Goto, Statement, Queue
<1>4. ASSUME NEW t \in Thread, NEW w \in Waits, StartWait(t, w) PROVE ThreadType'
  <2>1. w \in Queue \union {"any"}
    BY CallAssumption
  <2> QED BY <1>1, <1>4, <2>1 DEF StartWait, ThreadType, Goto, Statement, waitVars
<1>5. ASSUME NEW t \in Thread, NEW q \in Queue, StartPollBlocking(t, q) PROVE ThreadType'
  BY <1>1, <1>5 DEF StartPollBlocking, ThreadType, Goto, Statement, waitVars
<1>6. ASSUME NEW t \in Thread, GetEvent(t) PROVE ThreadType'
  <2>1. Head(channel) \in Queue
    BY <1>1, <1>6, HeadTailProperties DEF GetEvent, CardType
  <2> QED BY <1>1, <1>6, <2>1 DEF GetEvent, ThreadType, Goto, Statement
<1>7. ASSUME NEW t \in Thread, Lock(t) \/ FromCache(t) \/ NothingCached(t) \/ RequestNotify(t) \/ Drained(t)
      PROVE  ThreadType'
  <2>1. UNCHANGED <<call, event>>
    BY <1>7 DEF Lock, FromCache, NothingCached, RequestNotify, Drained, waitVars
  <2>2. \E l \in Statement \ {"spin"} : Goto(t, l)
    BY <1>7 DEF Lock, FromCache, NothingCached, RequestNotify, Drained, Statement
  <2> QED BY <1>2, <2>1, <2>2
<1>8. CASE UNCHANGED <<pc, call, event>>
  BY <1>1, <1>8 DEF ThreadType
<1> QED
  BY <1>3, <1>4, <1>5, <1>6, <1>7, <1>8 DEF Next, Card, Complete, WaitStep, Drain, DrainError, Return, WaitError,
     PollSend, PollTyped, PollBlocking, threadVars, waitVars, vars

LEMMA GuardTypeStep == TypeInv /\ [Next]_vars => GuardType'
<1> SUFFICES ASSUME TypeInv, [Next]_vars PROVE GuardType'
  OBVIOUS
<1>1. ThreadType /\ GuardType /\ \A t \in Thread : t # Nobody
  BY CallAssumption DEF TypeInv
<1>2. ASSUME NEW t \in Thread, NEW l, Goto(t, l), guard' = guard, pc[t] \in Inside <=> l \in Inside
      PROVE  GuardType'
  BY <1>1, <1>2 DEF GuardType, Goto, ThreadType
<1>3. ASSUME NEW t \in Thread, pc[t] \in Inside, guard' = Nobody, Leave(t) PROVE GuardType'
  <2>1. "idle" \notin Inside
    BY DEF Inside
  <2> QED BY <1>1, <1>3, <2>1 DEF GuardType, Leave, Goto, ThreadType
<1>4. ASSUME NEW t \in Thread, Lock(t) PROVE GuardType'
  <2>1. "scan" \in Inside /\ "lock" \notin Inside
    BY DEF Inside
  <2> QED BY <1>1, <1>4, <2>1 DEF Lock, GuardType, Goto, ThreadType
<1>5. ASSUME NEW t \in Thread, DrainError(t) \/ Return(t) \/ WaitError(t) PROVE GuardType'
  BY <1>3, <1>5 DEF DrainError, Return, WaitError, Inside
<1>6. ASSUME NEW t \in Thread,
             \/ FromCache(t) \/ NothingCached(t) \/ GetEvent(t) \/ RequestNotify(t) \/ Drained(t)
             \/ (\E w \in Waits : StartWait(t, w)) \/ (\E q \in Queue : StartPollBlocking(t, q))
             \/ PollBlocking(t)
      PROVE  GuardType'
  <2>1. guard' = guard
    BY <1>6 DEF FromCache, NothingCached, GetEvent, RequestNotify, Drained, StartWait, StartPollBlocking,
       PollBlocking, waitVars
  <2>2. \E l : Goto(t, l) /\ (pc[t] \in Inside <=> l \in Inside)
    <3>1. CASE FromCache(t) \/ NothingCached(t) \/ GetEvent(t) \/ RequestNotify(t) \/ Drained(t)
      <4>1. pc[t] \in Inside /\ \E l \in Inside : Goto(t, l)
        BY <3>1 DEF FromCache, NothingCached, GetEvent, RequestNotify, Drained, Inside
      <4> QED BY <4>1
    <3>2. CASE (\E w \in Waits : StartWait(t, w)) \/ (\E q \in Queue : StartPollBlocking(t, q)) \/ PollBlocking(t)
      <4>1. pc[t] \notin Inside /\ \E l \in Statement \ Inside : Goto(t, l)
        BY <3>2 DEF StartWait, StartPollBlocking, PollBlocking, Leave, Inside, Statement
      <4> QED BY <4>1
    <3> QED BY <1>6, <3>1, <3>2
  <2> QED BY <1>2, <2>1, <2>2
<1>7. CASE UNCHANGED <<guard, pc>>
  BY <1>1, <1>7 DEF GuardType
<1> QED
  BY <1>4, <1>5, <1>6, <1>7 DEF Next, Card, Complete, WaitStep, Drain, PollSend, PollTyped,
     threadVars, waitVars, vars

LEMMA FoundTypeStep == TypeInv /\ [Next]_vars => FoundType'
<1> SUFFICES ASSUME TypeInv, [Next]_vars PROVE FoundType'
  OBVIOUS
<1>1. FoundType /\ ThreadType /\ CardType /\ CacheType
  BY DEF TypeInv
<1>2. ASSUME NEW t \in Thread, NEW c \in Completion, NEW l \in {"drain", "return"},
             found' = [found EXCEPT ![t] = <<c>>], Goto(t, l) PROVE FoundType'
  <2>1. <<c>> \in Seq(Completion) /\ Len(<<c>>) <= 1 /\ <<c>> # <<>>
    OBVIOUS
  <2> QED BY <1>1, <1>2, <2>1 DEF FoundType, ThreadType, Goto
<1>3. ASSUME NEW t \in Thread, FromCache(t) PROVE FoundType'
  <2>1. PICK c \in DOMAIN cached : found' = [found EXCEPT ![t] = <<cached[c]>>]
    BY <1>3 DEF FromCache
  <2>2. cached[c] \in Completion
    BY <1>1, SeqFacts DEF CacheType
  <2> QED BY <1>2, <1>3, <2>1, <2>2 DEF FromCache
<1>4. ASSUME NEW t \in Thread, Drain(t) PROVE FoundType'
  <2>1. Head(cq[event[t]]) \in Completion
    BY <1>1, <1>4, QueueTail DEF Drain, ThreadType
  <2>2. pc' = pc /\ (found' = found \/ found' = [found EXCEPT ![t] = <<Head(cq[event[t]])>>])
        /\ Goto(t, "drain")
    BY <1>1, <1>4 DEF Drain, threadVars, Goto, ThreadType
  <2>3. CASE found' = found
    BY <1>1, <2>2, <2>3 DEF FoundType
  <2> QED BY <1>2, <2>1, <2>2, <2>3
<1>5. ASSUME NEW t \in Thread, Leave(t) PROVE FoundType'
  <2>1. <<>> \in Seq(Completion) /\ Len(<<>>) = 0
    BY EmptySeq
  <2> QED BY <1>1, <1>5, <2>1 DEF Leave, Goto, FoundType, ThreadType
<1>6. ASSUME NEW t \in Thread, NEW l, Goto(t, l), found' = found,
             found[t] # <<>> => l \in {"drain", "return"}, l = "return" => found[t] # <<>> PROVE FoundType'
  BY <1>1, <1>6 DEF FoundType, ThreadType, Goto
<1>7. ASSUME NEW t \in Thread,
             \/ (\E w \in Waits : StartWait(t, w)) \/ (\E q \in Queue : StartPollBlocking(t, q))
             \/ Lock(t) \/ NothingCached(t) \/ GetEvent(t) \/ RequestNotify(t) \/ Drained(t)
      PROVE  FoundType'
  <2>1. found' = found
    BY <1>7 DEF StartWait, StartPollBlocking, Lock, NothingCached, GetEvent, RequestNotify, Drained, waitVars
  <2>2. found[t] # <<>> => pc[t] \in {"drain", "return"}
    BY <1>1 DEF FoundType
  <2>3. \E l : Goto(t, l) /\ (found[t] # <<>> => l \in {"drain", "return"}) /\ (l = "return" => found[t] # <<>>)
    BY <1>7, <2>2 DEF StartWait, StartPollBlocking, Lock, NothingCached, GetEvent, RequestNotify, Drained
  <2> QED BY <1>6, <2>1, <2>3
<1>8. CASE UNCHANGED <<found, pc>>
  BY <1>1, <1>8 DEF FoundType
<1> QED
  BY <1>3, <1>4, <1>5, <1>7, <1>8 DEF Next, Card, Complete, WaitStep, DrainError, Return, WaitError,
     PollSend, PollTyped, PollBlocking, threadVars, waitVars, vars

-----------------------------------------------------------------------------
(* Counting completions *)

WithId(id) == {c \in Completion : c.id = id}

LEMMA OccHits ==
  ASSUME NEW s \in Seq(Completion), NEW id
  PROVE  /\ Occurrences(s, id) = Cardinality(Hits(s, WithId(id)))
         /\ Occurrences(s, id) \in Nat
<1>1. {i \in DOMAIN s : s[i].id = id} = Hits(s, WithId(id))
  BY SeqFacts DEF Hits, WithId
<1> QED BY <1>1, HitsFinite DEF Occurrences

Same(c, id) == IF c.id = id THEN 1 ELSE 0

LEMMA OccAppend ==
  ASSUME NEW s \in Seq(Completion), NEW c \in Completion, NEW id
  PROVE  Occurrences(Append(s, c), id) = Occurrences(s, id) + Same(c, id)
<1>1. Append(s, c) \in Seq(Completion)
  BY AppendProperties
<1>2. Is(c, WithId(id)) = Same(c, id)
  BY DEF Is, WithId, Same
<1>3. Occurrences(s, id) = Cardinality(Hits(s, WithId(id)))
      /\ Occurrences(Append(s, c), id) = Cardinality(Hits(Append(s, c), WithId(id)))
  BY <1>1, OccHits
<1>4. Cardinality(Hits(Append(s, c), WithId(id))) = Cardinality(Hits(s, WithId(id))) + Is(c, WithId(id))
  BY HitsAppend
<1> QED BY <1>2, <1>3, <1>4

LEMMA OccWithout ==
  ASSUME NEW s \in Seq(Completion), NEW r \in Seq(Completion), NEW k \in 1 .. Len(s), IsWithout(r, s, k), NEW id
  PROVE  Occurrences(r, id) = Occurrences(s, id) - Same(s[k], id)
<1>1. Is(s[k], WithId(id)) = Same(s[k], id)
  BY ElementOfSeq DEF Is, WithId, Same
<1> QED BY <1>1, OccHits, HitsWithout

LEMMA OccTail ==
  ASSUME NEW s \in Seq(Completion), s # <<>>, NEW id
  PROVE  Occurrences(Tail(s), id) = Occurrences(s, id) - Same(Head(s), id)
<1>1. Tail(s) \in Seq(Completion) /\ IsWithout(Tail(s), s, 1) /\ 1 \in 1 .. Len(s) /\ Head(s) = s[1]
  BY TailIsWithout
<1>2. Occurrences(Tail(s), id) = Occurrences(s, id) - Same(s[1], id)
  BY <1>1, OccWithout
<1> QED BY <1>1, <1>2

LEMMA OccFew ==
  ASSUME NEW id
  PROVE  /\ Occurrences(<<>>, id) = 0
         /\ \A c \in Completion : Occurrences(<<c>>, id) = Same(c, id)
<1>1. Occurrences(<<>>, id) = 0
  BY FS_EmptySet DEF Occurrences
<1>2. ASSUME NEW c \in Completion PROVE Occurrences(<<c>>, id) = Same(c, id)
  <2>1. <<c>> \in Seq(Completion) /\ Is(c, WithId(id)) = Same(c, id)
    BY DEF Is, WithId, Same
  <2> QED BY <2>1, OccHits, HitsOne
<1> QED BY <1>1, <1>2

LEMMA Single ==
  ASSUME NEW s \in Seq(Completion), Len(s) <= 1, s # <<>>
  PROVE  \E c \in Completion : s = <<c>>
<1>1. Len(s) \in Nat \ {0} /\ Len(s) <= 1
  BY EmptySeq
<1>2. \A n \in Nat \ {0} : n <= 1 => n = 1
  OBVIOUS
<1>3. Len(s) = 1
  BY <1>1, <1>2
<1>4. s[1] \in Completion
  BY <1>3, ElementOfSeq
<1>5. s = <<s[1]>>
  BY <1>3
<1> QED BY <1>4, <1>5

LEMMA OccPair ==
  ASSUME NEW c \in Completion, NEW s \in Seq(Completion), Len(s) <= 1, NEW id
  PROVE  /\ <<c>> \o s \in Seq(Completion)
         /\ Occurrences(<<c>> \o s, id) = Same(c, id) + Occurrences(s, id)
<1>1. <<c>> \in Seq(Completion)
  OBVIOUS
<1>2. CASE s = <<>>
  <2>1. <<c>> \o s = <<c>>
    BY <1>1, <1>2, ConcatEmptySeq
  <2>2. Same(c, id) \in Nat
    BY DEF Same
  <2> QED BY <1>1, <1>2, <2>1, <2>2, OccFew
<1>3. CASE s # <<>>
  <2>2. PICK d \in Completion : s = <<d>>
    BY <1>3, Single
  <2>3. <<c>> \o s = Append(<<c>>, d)
    BY <1>1, <2>2, AppendIsConcat
  <2>4. Occurrences(<<c>> \o s, id) = Occurrences(<<c>>, id) + Same(d, id)
    BY <1>1, <2>3, OccAppend
  <2>5. Occurrences(s, id) = Same(d, id) /\ Occurrences(<<c>>, id) = Same(c, id)
    BY <2>2, OccFew
  <2>6. <<c>> \o s \in Seq(Completion)
    BY <1>1, ConcatProperties
  <2> QED BY <2>4, <2>5, <2>6
<1> QED BY <1>2, <1>3

LEMMA CountFacts ==
  ASSUME NEW counts \in [Ids -> Nat], NEW s \in Seq(Completion)
  PROVE  /\ Count(counts, s) \in [Ids -> Nat]
         /\ \A id \in Ids : Count(counts, s)[id] = counts[id] + Occurrences(s, id)
<1>1. Count(counts, s) = [id \in Ids |-> counts[id] + Occurrences(s, id)]
  BY DEF Count, Occurrences
<1>2. \A id \in Ids : Occurrences(s, id) \in Nat
  BY OccHits
<1> QED BY <1>1, <1>2

LEMMA LostTypes ==
  ASSUME TypeInv, NEW t \in Thread
  PROVE  /\ found[t] \in Seq(Completion) /\ Len(found[t]) <= 1
         /\ DrainError(t) => /\ Head(cq[event[t]]) \in Completion
                             /\ <<Head(cq[event[t]])>> \o found[t] \in Seq(Completion)
<1>1. found[t] \in Seq(Completion) /\ Len(found[t]) <= 1 /\ event[t] \in Queue
  BY DEF TypeInv, FoundType, ThreadType
<1>2. ASSUME DrainError(t) PROVE Head(cq[event[t]]) \in Completion
  BY <1>1, <1>2, QueueTail DEF DrainError, TypeInv
<1> QED BY <1>1, <1>2, OccPair

LEMMA HistoryTypeStep == TypeInv /\ [Next]_vars => HistoryType'
<1> SUFFICES ASSUME TypeInv, [Next]_vars PROVE HistoryType'
  OBVIOUS
<1>1. HistoryType /\ ThreadType /\ FoundType /\ CardType
  BY DEF TypeInv
<1>2. handed' = handed \/ \E s \in Seq(Completion) : handed' = Count(handed, s)
  <2>1. ASSUME NEW q \in Queue, NEW typed \in BOOLEAN, Take(q, typed)
        PROVE  handed' = handed \/ \E s \in Seq(Completion) : handed' = Count(handed, s)
    <3>1. Head(cq[q]) \in Completion
      BY <1>1, <2>1, QueueTail DEF Take
    <3>2. <<Head(cq[q])>> \in Seq(Completion)
      BY <3>1
    <3> QED BY <2>1, <3>2 DEF Take
  <2>2. ASSUME NEW t \in Thread, PollSend(t) \/ (\E q \in Queue : PollTyped(t, q)) \/ PollBlocking(t)
        PROVE  \E q \in Queue, typed \in BOOLEAN : Take(q, typed)
    BY <1>1, <2>2 DEF PollSend, PollTyped, PollBlocking, ThreadType, Queue
  <2>3. ASSUME NEW t \in Thread, Return(t) PROVE handed' = Count(handed, found[t]) /\ found[t] \in Seq(Completion)
    BY <1>1, <2>3 DEF Return, FoundType
  <2>4. \/ handed' = handed
        \/ \E t \in Thread : Return(t)
        \/ \E t \in Thread : PollSend(t) \/ (\E q \in Queue : PollTyped(t, q)) \/ PollBlocking(t)
    BY DEF Next, Card, Complete, WaitStep, StartWait, Lock, FromCache, NothingCached, GetEvent, RequestNotify,
       Drain, DrainError, Drained, WaitError, StartPollBlocking, historyVars, vars
  <2> QED BY <2>1, <2>2, <2>3, <2>4
<1>3. lost' = lost \/ \E s \in Seq(Completion) : lost' = Count(lost, s)
  <2>1. ASSUME NEW q \in Queue, NEW typed \in BOOLEAN, Take(q, typed)
        PROVE  lost' = lost \/ \E s \in Seq(Completion) : lost' = Count(lost, s)
    <3>1. Head(cq[q]) \in Completion
      BY <1>1, <2>1, QueueTail DEF Take
    <3>2. <<Head(cq[q])>> \in Seq(Completion)
      BY <3>1
    <3> QED BY <2>1, <3>2 DEF Take
  <2>2. ASSUME NEW t \in Thread, PollSend(t) \/ (\E q \in Queue : PollTyped(t, q)) \/ PollBlocking(t)
        PROVE  \E q \in Queue, typed \in BOOLEAN : Take(q, typed)
    BY <1>1, <2>2 DEF PollSend, PollTyped, PollBlocking, ThreadType, Queue
  <2>3. ASSUME NEW t \in Thread, DrainError(t) \/ WaitError(t)
        PROVE  \E s \in Seq(Completion) : lost' = Count(lost, s)
    BY <2>3, LostTypes DEF DrainError, WaitError
  <2>4. \/ lost' = lost
        \/ \E t \in Thread : DrainError(t) \/ WaitError(t)
        \/ \E t \in Thread : PollSend(t) \/ (\E q \in Queue : PollTyped(t, q)) \/ PollBlocking(t)
    BY DEF Next, Card, Complete, WaitStep, StartWait, Lock, FromCache, NothingCached, GetEvent, RequestNotify,
       Drain, Drained, Return, StartPollBlocking, historyVars, vars
  <2> QED BY <2>1, <2>2, <2>3, <2>4
<1>4. latest' \in [Queue -> 0 .. MaxCompletions]
  <2>1. ASSUME NEW t \in Thread, Return(t) PROVE latest' \in [Queue -> 0 .. MaxCompletions]
    <3>1. found[t] \in Seq(Completion) /\ found[t] # <<>>
      BY <1>1, <2>1 DEF Return, FoundType
    <3>2. found[t][1] \in Completion
      BY <3>1, TailIsWithout, ElementOfSeq
    <3>3. found[t][1].id \in 0 .. MaxCompletions
      BY <3>2, Bounds DEF Completion
    <3> QED BY <1>1, <2>1, <3>3 DEF Return, HistoryType
  <2>2. latest' = latest \/ \E t \in Thread : Return(t)
    BY DEF Next, Card, Complete, WaitStep, StartWait, Lock, FromCache, NothingCached, GetEvent, RequestNotify,
       Drain, DrainError, Drained, WaitError, PollSend, PollTyped, StartPollBlocking, PollBlocking, historyVars, vars
  <2> QED BY <1>1, <2>1, <2>2 DEF HistoryType
<1>5. abandoned' \subseteq Queue
  <2>1. abandoned' \subseteq abandoned \/ \E t \in Thread : abandoned' = abandoned \union {event[t]}
    BY DEF Next, Card, Complete, WaitStep, StartWait, Lock, FromCache, NothingCached, GetEvent, RequestNotify,
       Drain, DrainError, Drained, Return, WaitError, PollSend, PollTyped, StartPollBlocking, PollBlocking,
       historyVars, vars
  <2> QED BY <1>1, <2>1 DEF HistoryType, ThreadType
<1>6. handed' \in [Ids -> Nat] /\ lost' \in [Ids -> Nat]
  <2>1. handed \in [Ids -> Nat] /\ lost \in [Ids -> Nat]
    BY <1>1 DEF HistoryType
  <2>2. handed' \in [Ids -> Nat]
    BY <1>2, <2>1, CountFacts
  <2>3. lost' \in [Ids -> Nat]
    BY <1>3, <2>1, CountFacts
  <2> QED BY <2>2, <2>3
<1> QED BY <1>4, <1>5, <1>6 DEF HistoryType

LEMMA TypeStep == TypeInv /\ [Next]_vars => TypeInv'
BY CardTypeStep, CounterTypeStep, CacheTypeStep, ThreadTypeStep, GuardTypeStep, FoundTypeStep,
   HistoryTypeStep DEF TypeInv

LEMMA TypeInvariant == Spec => []TypeInv
BY TypeInit, TypeStep, PTL DEF Spec

(* Every variable has its type, and the mutex `guard' is held exactly by   *)
(* the thread between the lock and the end of a wait, however it ends.     *)
THEOREM TypesHold == Spec => []TypeOK
BY TypeInvariant, TypeParts, PTL

-----------------------------------------------------------------------------
(* Exactly once *)

(* Among threads at most one of which has found something, as many hold a  *)
(* completion as there are occurrences with that one.                      *)
LEMMA HoldersAre ==
  ASSUME NEW f \in [Thread -> Seq(Completion)], NEW t \in Thread, Len(f[t]) <= 1,
         \A u \in Thread \ {t} : f[u] = <<>>, NEW id
  PROVE  Cardinality({u \in Thread : Occurrences(f[u], id) > 0}) = Occurrences(f[t], id)
<1>1. \A u \in Thread \ {t} : ~(Occurrences(f[u], id) > 0)
  <2>1. Occurrences(<<>>, id) = 0
    BY OccFew
  <2> QED BY <2>1
<1>2. Occurrences(f[t], id) \in {0, 1}
  <2>1. CASE f[t] = <<>>
    BY <2>1, OccFew
  <2>2. CASE f[t] # <<>>
    <3>1. PICK c \in Completion : f[t] = <<c>>
      <4>1. f[t] \in Seq(Completion) /\ Len(f[t]) <= 1
        OBVIOUS
      <4> QED BY <2>2, <4>1, Single
    <3> QED BY <3>1, OccFew DEF Same
  <2> QED BY <2>1, <2>2
<1>3. CASE Occurrences(f[t], id) = 0
  <2>1. {u \in Thread : Occurrences(f[u], id) > 0} = {}
    BY <1>1, <1>3
  <2> QED BY <1>3, <2>1, FS_EmptySet
<1>4. CASE Occurrences(f[t], id) = 1
  <2>1. {u \in Thread : Occurrences(f[u], id) > 0} = {t}
    BY <1>1, <1>4
  <2> QED BY <1>4, <2>1, FS_Singleton
<1> QED BY <1>2, <1>3, <1>4

HeldBy(f, id) == Cardinality({u \in Thread : Occurrences(f[u], id) > 0})
Queued(id) == Occurrences(cq["send"], id) + Occurrences(cq["receive"], id)
Accounted(id) ==
    Queued(id) + Occurrences(cached, id) + HeldBy(found, id) + handed[id] + lost[id]
        = IF id <= completed THEN 1 ELSE 0

LEMMA ExactlyOnceIs == ExactlyOnce <=> \A id \in Ids : Accounted(id)
BY DEF ExactlyOnce, Accounted, Queued, HeldBy, Holders, Ids

(* The wait that is inside is the only one that holds anything. *)
LEMMA HeldInside ==
  ASSUME TypeInv, NEW t \in Thread, pc[t] \in Inside, NEW id
  PROVE  /\ \A u \in Thread \ {t} : found[u] = <<>>
         /\ HeldBy(found, id) = Occurrences(found[t], id)
<1>1. FoundType /\ GuardType
  BY DEF TypeInv
<1>2. \A u \in Thread \ {t} : found[u] = <<>>
  BY <1>1, OneInside DEF FoundType, Inside
<1>3. HeldBy(found, id) = Occurrences(found[t], id)
  BY <1>1, <1>2, HoldersAre DEF HeldBy, FoundType
<1> QED BY <1>2, <1>3

(* What the wait that is inside finds, and nobody else *)
LEMMA HeldAfter ==
  ASSUME TypeInv, NEW t \in Thread, pc[t] \in Inside, NEW s \in Seq(Completion), Len(s) <= 1,
         found' = [found EXCEPT ![t] = s], NEW id
  PROVE  HeldBy(found', id) = Occurrences(s, id)
<1>1. found \in [Thread -> Seq(Completion)]
  BY DEF TypeInv, FoundType
<1>2. \A u \in Thread \ {t} : found[u] = <<>>
  BY HeldInside
<1>3. found' \in [Thread -> Seq(Completion)] /\ found'[t] = s /\ \A u \in Thread \ {t} : found'[u] = <<>>
  BY <1>1, <1>2
<1> QED BY <1>3, HoldersAre DEF HeldBy

LEMMA Counts ==
  ASSUME TypeInv, NEW id \in Ids
  PROVE  /\ Occurrences(cq["send"], id) \in Nat /\ Occurrences(cq["receive"], id) \in Nat
         /\ Queued(id) \in Nat /\ Occurrences(cached, id) \in Nat
         /\ handed[id] \in Nat /\ lost[id] \in Nat /\ completed \in Nat
         /\ \A t \in Thread : Occurrences(found[t], id) \in Nat
<1>1. cq["send"] \in Seq(Completion) /\ cq["receive"] \in Seq(Completion) /\ cached \in Seq(Completion)
  BY DEF TypeInv, CardType, CacheType, Queue
<1>2. /\ handed[id] \in Nat /\ lost[id] \in Nat /\ completed \in Nat
      /\ \A t \in Thread : found[t] \in Seq(Completion)
  BY DEF TypeInv, HistoryType, CounterType, FoundType
<1>3. Occurrences(cq["send"], id) \in Nat /\ Occurrences(cq["receive"], id) \in Nat
      /\ Occurrences(cached, id) \in Nat /\ \A t \in Thread : Occurrences(found[t], id) \in Nat
  BY <1>1, <1>2, OccHits
<1> QED BY <1>2, <1>3 DEF Queued

LEMMA QueuedTail ==
  ASSUME TypeInv, NEW q \in Queue, cq[q] # <<>>, cq' = [cq EXCEPT ![q] = Tail(@)], NEW id \in Ids
  PROVE  Queued(id)' = Queued(id) - Same(Head(cq[q]), id)
<1>1. cq \in [Queue -> Seq(Completion)]
  BY DEF TypeInv, CardType
<1>2. cq[q] \in Seq(Completion)
  BY <1>1
<1>3. Occurrences(Tail(cq[q]), id) = Occurrences(cq[q], id) - Same(Head(cq[q]), id)
  BY <1>2, OccTail
<1>4. cq'["send"] = (IF q = "send" THEN Tail(cq[q]) ELSE cq["send"])
      /\ cq'["receive"] = (IF q = "receive" THEN Tail(cq[q]) ELSE cq["receive"]) /\ q \in {"send", "receive"}
  BY <1>1 DEF Queue
<1>5. Queued(id)' = Occurrences(cq'["send"], id) + Occurrences(cq'["receive"], id)
  BY DEF Queued
<1>6. Occurrences(cq["send"], id) \in Nat /\ Occurrences(cq["receive"], id) \in Nat
      /\ Same(Head(cq[q]), id) \in {0, 1}
  BY Counts DEF Same
<1>7. CASE q = "send"
  BY <1>3, <1>4, <1>5, <1>6, <1>7 DEF Queued
<1>8. CASE q = "receive"
  BY <1>3, <1>4, <1>5, <1>6, <1>8 DEF Queued
<1> QED BY <1>4, <1>7, <1>8

LEMMA AccountedInit == Init => \A id \in Ids : Accounted(id)
<1> SUFFICES ASSUME Init, NEW id \in Ids PROVE Accounted(id)
  OBVIOUS
<1>1. Occurrences(<<>>, id) = 0
  BY OccFew
<1>2. cq["send"] = <<>> /\ cq["receive"] = <<>> /\ cached = <<>> /\ handed[id] = 0 /\ lost[id] = 0 /\ completed = 0
  BY DEF Init, Queue, Ids
<1>3. \A t \in Thread : found[t] = <<>>
  BY DEF Init
<1>4. {u \in Thread : Occurrences(found[u], id) > 0} = {}
  BY <1>1, <1>3
<1>5. HeldBy(found, id) = 0
  BY <1>4, FS_EmptySet DEF HeldBy
<1>6. Queued(id) = 0
  BY <1>1, <1>2 DEF Queued
<1>7. ~(id <= completed)
  BY <1>2, Bounds DEF Ids
<1> QED BY <1>1, <1>2, <1>5, <1>6, <1>7 DEF Accounted

LEMMA HeldNat ==
  ASSUME TypeInv, NEW id
  PROVE  HeldBy(found, id) \in Nat
<1>1. CASE \E t \in Thread : pc[t] \in Inside
  <2>1. PICK t \in Thread : pc[t] \in Inside
    BY <1>1
  <2>2. found[t] \in Seq(Completion)
    BY DEF TypeInv, FoundType
  <2> QED BY <2>1, <2>2, HeldInside, OccHits
<1>2. CASE \A t \in Thread : pc[t] \notin Inside
  <2>1. \A t \in Thread : found[t] = <<>>
    BY <1>2 DEF TypeInv, FoundType, Inside
  <2>2. Occurrences(<<>>, id) = 0
    BY OccFew
  <2>3. {t \in Thread : Occurrences(found[t], id) > 0} = {}
    BY <2>1, <2>2
  <2> QED BY <2>3, FS_EmptySet DEF HeldBy
<1> QED BY <1>1, <1>2

LEMMA AccountedSame ==
  ASSUME NEW id \in Ids, Accounted(id), UNCHANGED <<cq, cached, handed, lost, completed>>,
         HeldBy(found', id) = HeldBy(found, id)
  PROVE  Accounted(id)'
BY DEF Accounted, Queued

LEMMA AccountedComplete ==
  ASSUME TypeInv, NEW q \in Queue, NEW status \in Status, Complete(q, status), NEW id \in Ids, Accounted(id)
  PROVE  Accounted(id)'
<1> DEFINE c == [queue |-> q, id |-> completed + 1, status |-> status]
<1>1. /\ cq' = [cq EXCEPT ![q] = Append(@, c)] /\ completed' = completed + 1
      /\ cached' = cached /\ found' = found /\ handed' = handed /\ lost' = lost /\ completed < MaxCompletions
  BY DEF Complete, waitVars, historyVars
<1>2. c \in Completion /\ cq \in [Queue -> Seq(Completion)] /\ completed \in Nat
  <2>1. completed \in Nat /\ completed + 1 \in 1 .. MaxCompletions
    BY <1>1, Bounds DEF TypeInv, CounterType
  <2>2. c \in Completion
    BY <2>1 DEF Completion
  <2> QED BY <2>1, <2>2 DEF TypeInv, CardType
<1>3. Same(c, id) = IF id = completed + 1 THEN 1 ELSE 0
  BY DEF Same
<1> HIDE DEF c
<1>4. Occurrences(Append(cq[q], c), id) = Occurrences(cq[q], id) + Same(c, id)
  <2>1. cq[q] \in Seq(Completion)
    BY <1>2
  <2> QED BY <1>2, <2>1, OccAppend
<1>5. cq'["send"] = (IF q = "send" THEN Append(cq[q], c) ELSE cq["send"])
      /\ cq'["receive"] = (IF q = "receive" THEN Append(cq[q], c) ELSE cq["receive"])
      /\ q \in {"send", "receive"}
  BY <1>1, <1>2 DEF Queue
<1>6. Queued(id)' = Queued(id) + Same(c, id)
  <2>1. Queued(id)' = Occurrences(cq'["send"], id) + Occurrences(cq'["receive"], id)
    BY DEF Queued
  <2>2. Occurrences(cq["send"], id) \in Nat /\ Occurrences(cq["receive"], id) \in Nat /\ Same(c, id) \in {0, 1}
    BY Counts DEF Same
  <2>3. CASE q = "send"
    BY <1>4, <1>5, <2>1, <2>2, <2>3 DEF Queued
  <2>4. CASE q = "receive"
    BY <1>4, <1>5, <2>1, <2>2, <2>4 DEF Queued
  <2> QED BY <1>5, <2>3, <2>4
<1>7. /\ Queued(id) \in Nat /\ Occurrences(cached, id) \in Nat /\ handed[id] \in Nat /\ lost[id] \in Nat
      /\ id \in Nat
  BY Counts DEF Ids
<1>8. HeldBy(found, id) \in Nat
  BY HeldNat
<1> QED BY <1>1, <1>2, <1>3, <1>6, <1>7, <1>8 DEF Accounted

(* A completion is taken from a queue, and counted elsewhere once more. *)
LEMMA AccountedTake ==
  ASSUME TypeInv, NEW id \in Ids, Accounted(id), NEW q \in Queue, cq[q] # <<>>,
         cq' = [cq EXCEPT ![q] = Tail(@)], completed' = completed,
         Occurrences(cached', id) \in Nat, HeldBy(found', id) \in Nat, handed'[id] \in Nat, lost'[id] \in Nat,
         Occurrences(cached', id) + HeldBy(found', id) + handed'[id] + lost'[id]
             = Occurrences(cached, id) + HeldBy(found, id) + handed[id] + lost[id] + Same(Head(cq[q]), id)
  PROVE  Accounted(id)'
<1> DEFINE now == Occurrences(cached, id) + HeldBy(found, id) + handed[id] + lost[id]
           next == Occurrences(cached', id) + HeldBy(found', id) + handed'[id] + lost'[id]
           taken == Same(Head(cq[q]), id)
<1>1. Queued(id)' = Queued(id) - taken
  BY QueuedTail
<1>2. /\ Occurrences(cached, id) \in Nat /\ handed[id] \in Nat /\ lost[id] \in Nat
      /\ HeldBy(found, id) \in Nat
  BY Counts, HeldNat
<1>3. Queued(id) \in Nat /\ taken \in Nat
  BY Counts DEF Same
<1>4. Queued(id) + Occurrences(cached, id) + HeldBy(found, id) + handed[id] + lost[id]
        = IF id <= completed THEN 1 ELSE 0
  BY DEF Accounted
<1>5. next = now + taken
  OBVIOUS
<1> HIDE DEF taken
<1>6. now \in Nat
  BY <1>2
<1>7. \A m \in Int : m + Occurrences(cached, id) + HeldBy(found, id) + handed[id] + lost[id] = m + now
  BY <1>2
<1>8. \A m \in Int : m + Occurrences(cached', id) + HeldBy(found', id) + handed'[id] + lost'[id] = m + next
  OBVIOUS
<1> HIDE DEF now, next
<1>9. Queued(id)' \in Int /\ Queued(id)' + next = Queued(id) + now
  BY <1>1, <1>3, <1>5, <1>6
<1>10. Queued(id)' + Occurrences(cached', id) + HeldBy(found', id) + handed'[id] + lost'[id]
        = IF id <= completed THEN 1 ELSE 0
  BY <1>3, <1>4, <1>7, <1>8, <1>9
<1> QED BY <1>10 DEF Accounted

LEMMA AccountedPoll ==
  ASSUME TypeInv, NEW id \in Ids, Accounted(id), NEW q \in Queue, NEW typed \in BOOLEAN, Take(q, typed),
         found' = found, cached' = cached, completed' = completed
  PROVE  Accounted(id)'
<1> DEFINE c == Head(cq[q])
<1>1. /\ cq[q] # <<>> /\ cq' = [cq EXCEPT ![q] = Tail(@)]
      /\ \/ handed' = Count(handed, <<c>>) /\ lost' = lost
         \/ lost' = Count(lost, <<c>>) /\ handed' = handed
  BY DEF Take
<1>2. c \in Completion /\ <<c>> \in Seq(Completion)
  <2>1. c \in Completion
    BY <1>1, QueueTail DEF TypeInv
  <2> QED BY <2>1
<1>3. /\ Occurrences(cached, id) \in Nat /\ handed[id] \in Nat /\ lost[id] \in Nat
      /\ HeldBy(found, id) \in Nat /\ Same(c, id) \in Nat
      /\ handed \in [Ids -> Nat] /\ lost \in [Ids -> Nat]
  BY Counts, HeldNat DEF Same, TypeInv, HistoryType
<1> HIDE DEF c
<1>4. Occurrences(<<c>>, id) = Same(c, id)
  BY <1>2, OccFew
<1>5. /\ Count(handed, <<c>>)[id] = handed[id] + Same(c, id)
      /\ Count(lost, <<c>>)[id] = lost[id] + Same(c, id)
  <2>1. Count(handed, <<c>>)[id] = handed[id] + Occurrences(<<c>>, id)
    BY <1>2, <1>3, CountFacts
  <2>2. Count(lost, <<c>>)[id] = lost[id] + Occurrences(<<c>>, id)
    BY <1>2, <1>3, CountFacts
  <2> QED BY <1>4, <2>1, <2>2
<1>6. handed'[id] \in Nat /\ lost'[id] \in Nat
      /\ Occurrences(cached', id) + HeldBy(found', id) + handed'[id] + lost'[id]
             = Occurrences(cached, id) + HeldBy(found, id) + handed[id] + lost[id] + Same(c, id)
  <2>1. CASE handed' = Count(handed, <<c>>) /\ lost' = lost
    BY <1>3, <1>5, <2>1
  <2>2. CASE lost' = Count(lost, <<c>>) /\ handed' = handed
    BY <1>3, <1>5, <2>2
  <2> QED BY <1>1, <2>1, <2>2
<1> QED BY <1>1, <1>3, <1>6, AccountedTake DEF c

LEMMA AccountedFromCache ==
  ASSUME TypeInv, NEW id \in Ids, Accounted(id), NEW t \in Thread, FromCache(t)
  PROVE  Accounted(id)'
<1>1. PICK k \in DOMAIN cached : found' = [found EXCEPT ![t] = <<cached[k]>>] /\ cached' = Without(cached, k)
  BY DEF FromCache
<1>2. /\ pc[t] \in Inside /\ found[t] = <<>> /\ cached \in Seq(Completion) /\ k \in 1 .. Len(cached)
      /\ UNCHANGED <<cq, handed, lost, completed>>
  BY <1>1, SeqFacts
     DEF FromCache, Inside, TypeInv, FoundType, CacheType, cardVars, counters, historyVars
<1>3. cached[k] \in Completion /\ <<cached[k]>> \in Seq(Completion) /\ Len(<<cached[k]>>) <= 1
  <2>1. cached[k] \in Completion
    BY <1>2, ElementOfSeq
  <2> QED BY <2>1
<1>4. HeldBy(found, id) = 0 /\ HeldBy(found', id) = Same(cached[k], id)
  <2>1. HeldBy(found, id) = 0
    BY <1>2, HeldInside, OccFew
  <2>2. HeldBy(found', id) = Occurrences(<<cached[k]>>, id)
    BY <1>1, <1>2, <1>3, HeldAfter
  <2> QED BY <1>3, <2>1, <2>2, OccFew
<1>5. Occurrences(cached', id) = Occurrences(cached, id) - Same(cached[k], id)
  <2>1. Without(cached, k) \in Seq(Completion) /\ IsWithout(Without(cached, k), cached, k)
    BY <1>2, WithoutIsWithout
  <2> QED BY <1>1, <1>2, <2>1, OccWithout
<1>6. /\ Queued(id) \in Nat /\ Occurrences(cached, id) \in Nat /\ handed[id] \in Nat /\ lost[id] \in Nat
      /\ Same(cached[k], id) \in Nat
  BY Counts DEF Same
<1>7. Queued(id)' = Queued(id)
  BY <1>2 DEF Queued
<1>8. Queued(id)' + Occurrences(cached', id) + HeldBy(found', id) + handed[id] + lost[id]
        = Queued(id) + Occurrences(cached, id) + HeldBy(found, id) + handed[id] + lost[id]
  BY <1>4, <1>5, <1>6, <1>7
<1> QED BY <1>2, <1>8 DEF Accounted

LEMMA AccountedDrain ==
  ASSUME TypeInv, NEW id \in Ids, Accounted(id), NEW t \in Thread, Drain(t)
  PROVE  Accounted(id)'
<1> DEFINE q == event[t]
           c == Head(cq[q])
<1>1. /\ pc[t] \in Inside /\ q \in Queue /\ cq[q] # <<>> /\ cq' = [cq EXCEPT ![q] = Tail(@)]
      /\ UNCHANGED <<handed, lost, completed>> /\ cached \in Seq(Completion)
  BY DEF Drain, Inside, TypeInv, ThreadType, CacheType, counters, historyVars
<1>2. \/ found[t] = <<>> /\ found' = [found EXCEPT ![t] = <<c>>] /\ cached' = cached
      \/ found' = found /\ cached' = Append(cached, c)
  BY DEF Drain
<1>3. c \in Completion /\ <<c>> \in Seq(Completion) /\ Len(<<c>>) <= 1
  <2>1. c \in Completion
    BY <1>1, QueueTail DEF TypeInv
  <2> QED BY <2>1
<1> HIDE DEF c, q
<1>4. /\ Occurrences(cached, id) \in Nat /\ handed[id] \in Nat /\ lost[id] \in Nat
      /\ HeldBy(found, id) \in Nat /\ Same(c, id) \in Nat
  BY Counts, HeldNat DEF Same
<1>5. CASE found[t] = <<>> /\ found' = [found EXCEPT ![t] = <<c>>] /\ cached' = cached
  <2>1. HeldBy(found, id) = 0
    BY <1>1, <1>5, HeldInside, OccFew
  <2>2. HeldBy(found', id) = Occurrences(<<c>>, id)
    BY <1>1, <1>3, <1>5, HeldAfter
  <2>3. HeldBy(found', id) = Same(c, id)
    BY <1>3, <2>2, OccFew
  <2>4. Occurrences(cached', id) + HeldBy(found', id) + handed'[id] + lost'[id]
             = Occurrences(cached, id) + HeldBy(found, id) + handed[id] + lost[id] + Same(c, id)
    BY <1>1, <1>4, <1>5, <2>1, <2>3
  <2> QED BY <1>1, <1>4, <1>5, <2>3, <2>4, AccountedTake DEF c
<1>6. CASE found' = found /\ cached' = Append(cached, c)
  <2>1. Occurrences(cached', id) = Occurrences(cached, id) + Same(c, id)
    BY <1>1, <1>3, <1>6, OccAppend
  <2>2. Occurrences(cached', id) + HeldBy(found', id) + handed'[id] + lost'[id]
             = Occurrences(cached, id) + HeldBy(found, id) + handed[id] + lost[id] + Same(c, id)
    BY <1>1, <1>4, <1>6, <2>1
  <2>3. Occurrences(cached', id) \in Nat /\ HeldBy(found', id) \in Nat /\ handed'[id] \in Nat /\ lost'[id] \in Nat
    BY <1>1, <1>4, <1>6, <2>1
  <2> QED BY <1>1, <2>2, <2>3, AccountedTake DEF c
<1> QED BY <1>2, <1>5, <1>6

LEMMA HeldNone ==
  ASSUME TypeInv, NEW t \in Thread, pc[t] \in Inside, Leave(t), NEW id
  PROVE  HeldBy(found', id) = 0
<1>1. <<>> \in Seq(Completion) /\ Len(<<>>) <= 1
  BY EmptySeq
<1> QED BY <1>1, HeldAfter, OccFew DEF Leave

LEMMA AccountedDrainError ==
  ASSUME TypeInv, NEW id \in Ids, Accounted(id), NEW t \in Thread, DrainError(t)
  PROVE  Accounted(id)'
<1> DEFINE q == event[t]
           c == Head(cq[q])
<1>1. /\ pc[t] \in Inside /\ q \in Queue /\ cq[q] # <<>> /\ cq' = [cq EXCEPT ![q] = Tail(@)]
      /\ UNCHANGED <<cached, handed, completed>> /\ lost' = Count(lost, <<c>> \o found[t]) /\ Leave(t)
  BY DEF DrainError, Inside, TypeInv, ThreadType, counters
<1>2. c \in Completion /\ found[t] \in Seq(Completion) /\ Len(found[t]) <= 1 /\ <<c>> \o found[t] \in Seq(Completion)
  BY LostTypes
<1> HIDE DEF c, q
<1>3. /\ Occurrences(cached, id) \in Nat /\ handed[id] \in Nat /\ lost[id] \in Nat
      /\ Occurrences(found[t], id) \in Nat /\ Same(c, id) \in Nat
  BY Counts DEF Same
<1>4. HeldBy(found, id) = Occurrences(found[t], id) /\ HeldBy(found', id) = 0
  BY <1>1, HeldInside, HeldNone
<1>5. lost'[id] = lost[id] + (Same(c, id) + Occurrences(found[t], id))
  <2>1. Occurrences(<<c>> \o found[t], id) = Same(c, id) + Occurrences(found[t], id)
    BY <1>2, OccPair
  <2>2. lost \in [Ids -> Nat]
    BY DEF TypeInv, HistoryType
  <2>3. Count(lost, <<c>> \o found[t])[id] = lost[id] + Occurrences(<<c>> \o found[t], id)
    BY <1>2, <2>2, CountFacts
  <2> QED BY <1>1, <2>1, <2>3 DEF c
<1>6. /\ HeldBy(found', id) \in Nat /\ lost'[id] \in Nat
      /\ Occurrences(cached', id) + HeldBy(found', id) + handed'[id] + lost'[id]
             = Occurrences(cached, id) + HeldBy(found, id) + handed[id] + lost[id] + Same(c, id)
  BY <1>1, <1>3, <1>4, <1>5
<1> QED BY <1>1, <1>3, <1>6, AccountedTake DEF c

(* A wait ends, and what it found is counted. *)
LEMMA AccountedEnd ==
  ASSUME TypeInv, NEW id \in Ids, Accounted(id), NEW t \in Thread, WaitError(t) \/ Return(t)
  PROVE  Accounted(id)'
<1>1. /\ pc[t] \in Inside /\ UNCHANGED <<cq, cached, completed>> /\ Leave(t)
      /\ \/ handed' = Count(handed, found[t]) /\ lost' = lost
         \/ lost' = Count(lost, found[t]) /\ handed' = handed
  BY DEF WaitError, Return, Inside, cardVars, counters
<1>2. /\ Queued(id) \in Nat /\ Occurrences(cached, id) \in Nat /\ handed[id] \in Nat /\ lost[id] \in Nat
      /\ Occurrences(found[t], id) \in Nat
  BY Counts
<1>3. HeldBy(found, id) = Occurrences(found[t], id) /\ HeldBy(found', id) = 0
  BY <1>1, HeldInside, HeldNone
<1>4. /\ Count(handed, found[t])[id] = handed[id] + Occurrences(found[t], id)
      /\ Count(lost, found[t])[id] = lost[id] + Occurrences(found[t], id)
  <2>1. lost \in [Ids -> Nat] /\ handed \in [Ids -> Nat] /\ found[t] \in Seq(Completion)
    BY DEF TypeInv, HistoryType, FoundType
  <2> QED BY <2>1, CountFacts
<1>5. Queued(id)' = Queued(id)
  BY <1>1 DEF Queued
<1>6. Queued(id)' + Occurrences(cached', id) + HeldBy(found', id) + handed'[id] + lost'[id]
        = Queued(id) + Occurrences(cached, id) + HeldBy(found, id) + handed[id] + lost[id]
  BY <1>1, <1>2, <1>3, <1>4, <1>5
<1> QED BY <1>1, <1>6 DEF Accounted

LEMMA AccountedStep ==
  ASSUME TypeInv, [Next]_vars, NEW id \in Ids, Accounted(id)
  PROVE  Accounted(id)'
<1>1. ASSUME NEW t \in Thread, PollSend(t) \/ (\E q \in Queue : PollTyped(t, q)) \/ PollBlocking(t)
      PROVE  Accounted(id)'
  <2>1. PICK q \in Queue, typed \in BOOLEAN : Take(q, typed)
    BY <1>1 DEF PollSend, PollTyped, PollBlocking, TypeInv, ThreadType, Queue
  <2>2. cached' = cached /\ completed' = completed
    BY <1>1 DEF PollSend, PollTyped, PollBlocking, waitVars, counters
  <2>3. found' = found
    <3>1. CASE PollBlocking(t)
      <4>1. found[t] = <<>> /\ found' = [found EXCEPT ![t] = <<>>]
        BY <3>1 DEF PollBlocking, Leave, TypeInv, FoundType
      <4>2. found \in [Thread -> Seq(Completion)]
        BY DEF TypeInv, FoundType
      <4> QED BY <4>1, <4>2
    <3>2. CASE ~PollBlocking(t)
      BY <1>1, <3>2 DEF PollSend, PollTyped, waitVars
    <3> QED BY <3>1, <3>2
  <2> QED BY <2>1, <2>2, <2>3, AccountedPoll
<1>2. CASE UNCHANGED <<cq, cached, handed, lost, completed, found>>
  BY <1>2, AccountedSame
<1> QED
  BY <1>1, <1>2, AccountedComplete, AccountedFromCache, AccountedDrain, AccountedDrainError, AccountedEnd
     DEF Next, Card, WaitStep, StartWait, Lock, NothingCached, GetEvent, RequestNotify, Drained,
     StartPollBlocking, counters, cardVars, waitVars, historyVars, vars

(* Whichever threads wait and poll at once, no completion is handed out    *)
(* twice, none disappears, and none comes from nowhere.                    *)
THEOREM EachExactlyOnce == Spec => []ExactlyOnce
<1> DEFINE Inv == TypeInv /\ \A id \in Ids : Accounted(id)
<1>1. Init => Inv
  BY TypeInit, AccountedInit
<1>2. Inv /\ [Next]_vars => Inv'
  <2> SUFFICES ASSUME Inv, [Next]_vars PROVE Inv'
    OBVIOUS
  <2>1. \A id \in Ids : Accounted(id)'
    BY AccountedStep
  <2>2. TypeInv'
    BY TypeStep
  <2> QED BY <2>1, <2>2
<1>3. Inv => ExactlyOnce
  BY ExactlyOnceIs
<1> QED BY <1>1, <1>2, <1>3, PTL DEF Spec

-----------------------------------------------------------------------------
(* Events *)

NotifiedIn(ch, q) == {i \in DOMAIN ch : ch[i] = q}
ArmingIn(p, e, q) == {t \in Thread : p[t] = "arm" /\ e[t] = q}
Told(ch, q) == Cardinality(NotifiedIn(ch, q))
Arms(p, e, q) == Cardinality(ArmingIn(p, e, q))

LEMMA ToldFacts ==
  ASSUME NEW ch \in Seq(Queue), NEW q \in Queue
  PROVE  /\ Told(ch, q) \in Nat /\ (Told(ch, q) = 0 <=> NotifiedIn(ch, q) = {})
         /\ \A r \in Queue : Told(Append(ch, r), q) = Told(ch, q) + Is(r, {q})
         /\ ch # <<>> => /\ Tail(ch) \in Seq(Queue) /\ Head(ch) \in Queue
                         /\ Told(Tail(ch), q) = Told(ch, q) - Is(Head(ch), {q})
<1>1. ASSUME NEW c \in Seq(Queue)
      PROVE  NotifiedIn(c, q) = Hits(c, {q}) /\ Told(c, q) = Cardinality(Hits(c, {q}))
  BY DEF NotifiedIn, Hits, Told
<1>2. IsFiniteSet(NotifiedIn(ch, q)) /\ Told(ch, q) \in Nat
  BY <1>1, HitsFinite
<1>3. Told(ch, q) = 0 <=> NotifiedIn(ch, q) = {}
  BY <1>2, FS_EmptySet DEF Told
<1>4. ASSUME NEW r \in Queue PROVE Told(Append(ch, r), q) = Told(ch, q) + Is(r, {q})
  <2>1. Append(ch, r) \in Seq(Queue)
    BY AppendProperties
  <2>2. Cardinality(Hits(Append(ch, r), {q})) = Cardinality(Hits(ch, {q})) + Is(r, {q})
    BY HitsAppend
  <2> QED BY <1>1, <2>1, <2>2
<1>5. ASSUME ch # <<>>
      PROVE  /\ Tail(ch) \in Seq(Queue) /\ Head(ch) \in Queue
             /\ Told(Tail(ch), q) = Told(ch, q) - Is(Head(ch), {q})
  <2>1. /\ Tail(ch) \in Seq(Queue) /\ IsWithout(Tail(ch), ch, 1) /\ 1 \in 1 .. Len(ch)
        /\ Head(ch) = ch[1] /\ Head(ch) \in Queue
    BY <1>5, TailIsWithout
  <2>2. Cardinality(Hits(Tail(ch), {q})) = Cardinality(Hits(ch, {q})) - Is(ch[1], {q})
    BY <2>1, HitsWithout
  <2> QED BY <1>1, <2>1, <2>2
<1> QED BY <1>2, <1>3, <1>4, <1>5

(* Among threads of which none but t is about to arm a queue *)
LEMMA ArmsOne ==
  ASSUME NEW p, NEW e, NEW t \in Thread, \A u \in Thread \ {t} : p[u] # "arm", NEW q
  PROVE  Arms(p, e, q) = IF p[t] = "arm" /\ e[t] = q THEN 1 ELSE 0
<1>1. ArmingIn(p, e, q) = IF p[t] = "arm" /\ e[t] = q THEN {t} ELSE {}
  BY DEF ArmingIn
<1> QED BY <1>1, FS_EmptySet, FS_Singleton DEF Arms

LEMMA ArmsNat ==
  ASSUME TypeInv, NEW q
  PROVE  Arms(pc, event, q) \in {0, 1}
<1>1. CASE \E t \in Thread : pc[t] = "arm"
  <2>1. PICK t \in Thread : pc[t] = "arm"
    BY <1>1
  <2>2. \A u \in Thread \ {t} : pc[u] # "arm"
    BY <2>1, OneInside DEF TypeInv, Inside
  <2> QED BY <2>2, ArmsOne
<1>2. CASE \A t \in Thread : pc[t] # "arm"
  <2>1. ArmingIn(pc, event, q) = {}
    BY <1>2 DEF ArmingIn
  <2> QED BY <2>1, FS_EmptySet DEF Arms
<1> QED BY <1>1, <1>2

Heeded(ready, pending, left) == IF ready THEN pending = 0 ELSE pending = 1 \/ (pending = 0 /\ left)

Disciplined(q) == Heeded(armed[q], Told(channel, q) + Arms(pc, event, q), q \in abandoned)
Attended(q) == \E t \in Thread : pc[t] \in {"arm", "drain"} /\ event[t] = q
Awake(q) == cq[q] # <<>> => q \in abandoned \/ NotifiedIn(channel, q) # {} \/ Attended(q)
(* A wait that empties a queue has armed it again: what completes          *)
(* meanwhile has raised an event.                                          *)
DrainsArmed == \A t \in Thread : pc[t] = "drain" => armed[event[t]] \/ NotifiedIn(channel, event[t]) # {}

EventInv == /\ \A q \in Queue : Disciplined(q) /\ Awake(q)
            /\ DrainsArmed

LEMMA EventInvIs == EventInv => EventDiscipline /\ NoLostWakeup
<1>1. EventInv => NoLostWakeup
  BY DEF EventInv, NoLostWakeup, Awake, Attended, Notified, NotifiedIn
<1>2. EventInv => EventDiscipline
  BY DEF EventInv, EventDiscipline, Disciplined, Heeded, Told, Arms, Notified, NotifiedIn, Arming, ArmingIn
<1> QED BY <1>1, <1>2

LEMMA EventInit == Init => EventInv
<1> SUFFICES ASSUME Init PROVE EventInv
  OBVIOUS
<1>1. \A q \in Queue : cq[q] = <<>> /\ armed[q] = TRUE
  BY DEF Init
<1>2. \A t \in Thread : pc[t] = "idle"
  BY DEF Init
<1>3. ASSUME NEW q \in Queue PROVE Told(channel, q) = 0 /\ Arms(pc, event, q) = 0
  <2>1. NotifiedIn(channel, q) = {} /\ ArmingIn(pc, event, q) = {}
    BY <1>2 DEF Init, NotifiedIn, ArmingIn
  <2> QED BY <2>1, FS_EmptySet DEF Told, Arms
<1>4. \A q \in Queue : Disciplined(q) /\ Awake(q)
  BY <1>1, <1>3 DEF Disciplined, Heeded, Awake
<1> QED BY <1>2, <1>4 DEF EventInv, DrainsArmed

(* A thread does something that no queue's events depend on. *)
LEMMA EventQuiet ==
  ASSUME TypeInv, EventInv, NEW t \in Thread, UNCHANGED <<armed, channel, abandoned>>,
         \A u \in Thread \ {t} : pc'[u] = pc[u] /\ event'[u] = event[u],
         \/ pc'[t] = pc[t] /\ event'[t] = event[t]
         \/ pc[t] \notin {"arm", "drain"} /\ pc'[t] \notin {"arm", "drain"},
         \A q \in Queue : cq'[q] # <<>> => cq[q] # <<>>
  PROVE  EventInv'
<1>1. ASSUME NEW q \in Queue PROVE Disciplined(q)'
  <2>1. ArmingIn(pc', event', q) = ArmingIn(pc, event, q)
    BY DEF ArmingIn
  <2> QED BY <2>1 DEF EventInv, Disciplined, Arms
<1>2. ASSUME NEW q \in Queue PROVE Awake(q)'
  BY DEF EventInv, Awake, Attended
<1>3. DrainsArmed'
  BY DEF EventInv, DrainsArmed
<1> QED BY <1>1, <1>2, <1>3 DEF EventInv

LEMMA EventComplete ==
  ASSUME TypeInv, EventInv, NEW r \in Queue, NEW status \in Status, Complete(r, status)
  PROVE  EventInv'
<1>1. /\ UNCHANGED <<pc, event, abandoned>> /\ \A q \in Queue : q # r => cq'[q] = cq[q]
      /\ IF armed[r] THEN armed' = [armed EXCEPT ![r] = FALSE] /\ channel' = Append(channel, r)
                     ELSE UNCHANGED <<armed, channel>>
  BY DEF Complete, waitVars, threadVars, historyVars, TypeInv, CardType
<1>2. channel \in Seq(Queue) /\ armed \in [Queue -> BOOLEAN] /\ \A t \in Thread : event[t] \in Queue
  BY DEF TypeInv, CardType, ThreadType
<1>3. \A q \in Queue : Told(channel, q) \in Nat /\ Disciplined(q) /\ Awake(q)
  BY <1>2, ToldFacts DEF EventInv
<1>4. \A q \in Queue : NotifiedIn(channel, q) # {} => NotifiedIn(channel', q) # {}
  <2> SUFFICES ASSUME NEW q \in Queue, NotifiedIn(channel, q) # {}, channel' = Append(channel, r)
               PROVE  NotifiedIn(channel', q) # {}
    BY <1>1
  <2>1. Append(channel, r) \in Seq(Queue)
    BY <1>2, AppendProperties
  <2>2. Told(Append(channel, r), q) = Told(channel, q) + Is(r, {q}) /\ Told(channel, q) # 0
    BY <1>2, ToldFacts
  <2>3. Told(Append(channel, r), q) # 0
    BY <1>3, <2>2 DEF Is
  <2> QED BY <2>1, <2>3, ToldFacts
<1>5. CASE armed[r]
  <2>1. ASSUME NEW q \in Queue PROVE Disciplined(q)'
    <3>1. Told(channel', q) = Told(channel, q) + Is(r, {q}) /\ (armed'[q] <=> armed[q] /\ q # r)
      <4>1. Told(Append(channel, r), q) = Told(channel, q) + Is(r, {q})
        BY <1>2, ToldFacts
      <4>2. armed' = [armed EXCEPT ![r] = FALSE] /\ channel' = Append(channel, r)
        BY <1>1, <1>5
      <4> QED BY <1>2, <4>1, <4>2
    <3>2. CASE q = r
      <4>1. Told(channel, q) + Arms(pc, event, q) = 0
        BY <1>3, <1>5, <3>2 DEF Disciplined, Heeded
      <4>2. Arms(pc, event, q) = 0
        <5>1. Arms(pc, event, q) \in {0, 1} /\ Told(channel, q) \in Nat
          BY <1>3, ArmsNat
        <5> QED BY <4>1, <5>1
      <4>3. Told(channel', q) + Arms(pc, event, q) = 1
        BY <1>3, <3>1, <3>2, <4>1, <4>2 DEF Is
      <4> QED BY <1>1, <3>1, <3>2, <4>3 DEF Disciplined, Heeded
    <3>3. CASE q # r
      <4>1. Told(channel', q) = Told(channel, q)
        BY <1>3, <3>1, <3>3 DEF Is
      <4>2. Heeded(armed[q], Told(channel, q) + Arms(pc, event, q), q \in abandoned)
        BY <1>3 DEF Disciplined
      <4>3. Heeded(armed'[q], Told(channel', q) + Arms(pc', event', q), q \in abandoned')
        BY <1>1, <3>1, <3>3, <4>1, <4>2 DEF Heeded
      <4> QED BY <4>3 DEF Disciplined
    <3> QED BY <3>2, <3>3
  <2>2. NotifiedIn(channel', r) # {}
    <3>1. channel' = Append(channel, r) /\ channel' \in Seq(Queue)
      BY <1>1, <1>2, <1>5, AppendProperties
    <3>2. Told(channel', r) = Told(channel, r) + 1
      BY <1>2, <3>1, ToldFacts DEF Is
    <3>3. Told(channel', r) # 0
      BY <1>3, <3>2
    <3> QED BY <3>1, <3>3, ToldFacts
  <2>3. ASSUME NEW q \in Queue PROVE Awake(q)'
    BY <1>1, <1>3, <1>4, <2>2 DEF Awake, Attended
  <2>4. DrainsArmed'
    BY <1>1, <1>2, <1>4, <2>2 DEF EventInv, DrainsArmed
  <2> QED BY <2>1, <2>3, <2>4 DEF EventInv
<1>6. CASE ~armed[r]
  <2>1. UNCHANGED <<armed, channel>>
    BY <1>1, <1>6
  <2>2. ASSUME NEW q \in Queue PROVE Disciplined(q)'
    BY <1>1, <1>3, <2>1 DEF Disciplined
  <2>3. r \in abandoned \/ NotifiedIn(channel, r) # {} \/ Attended(r)
    <3>1. CASE r \in abandoned
      BY <3>1
    <3>2. CASE Told(channel, r) + Arms(pc, event, r) = 1 /\ Told(channel, r) # 0
      BY <1>2, <3>2, ToldFacts
    <3>3. CASE Told(channel, r) + Arms(pc, event, r) = 1 /\ Told(channel, r) = 0
      <4>1. Arms(pc, event, r) # 0
        BY <3>3
      <4>2. ArmingIn(pc, event, r) # {}
        BY <4>1, FS_EmptySet DEF Arms
      <4> QED BY <4>2 DEF ArmingIn, Attended
    <3> QED BY <1>3, <1>6, <3>1, <3>2, <3>3 DEF Disciplined, Heeded
  <2>4. ASSUME NEW q \in Queue PROVE Awake(q)'
    BY <1>1, <1>3, <2>1, <2>3 DEF Awake, Attended
  <2>5. DrainsArmed'
    BY <1>1, <2>1 DEF EventInv, DrainsArmed
  <2> QED BY <2>2, <2>4, <2>5 DEF EventInv
<1> QED BY <1>5, <1>6

LEMMA EventGet ==
  ASSUME TypeInv, EventInv, NEW t \in Thread, GetEvent(t)
  PROVE  EventInv'
<1> DEFINE r == Head(channel)
<1>1. /\ pc[t] = "event" /\ channel # <<>> /\ channel' = Tail(channel)
      /\ UNCHANGED <<armed, abandoned, cq>> /\ pc' = [pc EXCEPT ![t] = "arm"] /\ event' = [event EXCEPT ![t] = r]
  BY DEF GetEvent, Goto, historyVars
<1>2. channel \in Seq(Queue) /\ pc \in [Thread -> Statement] /\ event \in [Thread -> Queue]
  BY DEF TypeInv, CardType, ThreadType
<1>3. \A u \in Thread \ {t} : pc[u] \notin Inside
  BY <1>1, OneInside DEF TypeInv, Inside
<1>4. /\ \A u \in Thread \ {t} : pc[u] # "arm" /\ pc'[u] # "arm" /\ pc[u] # "drain" /\ pc'[u] # "drain"
      /\ pc'[t] = "arm" /\ event'[t] = r
  BY <1>1, <1>2, <1>3 DEF Inside
<1>5. ASSUME NEW q \in Queue
      PROVE  /\ Told(channel, q) \in Nat /\ Told(channel', q) = Told(channel, q) - Is(r, {q})
             /\ Arms(pc, event, q) = 0 /\ Arms(pc', event', q) = Is(r, {q})
             /\ NotifiedIn(channel, q) # {} <=> Told(channel, q) # 0
             /\ NotifiedIn(channel', q) # {} <=> Told(channel', q) # 0
  <2>1. /\ Told(channel, q) \in Nat /\ Told(channel', q) = Told(channel, q) - Is(r, {q})
        /\ (NotifiedIn(channel, q) # {} <=> Told(channel, q) # 0) /\ channel' \in Seq(Queue)
    BY <1>1, <1>2, ToldFacts
  <2>2. Arms(pc, event, q) = 0
    BY <1>1, <1>4, ArmsOne
  <2>3. Arms(pc', event', q) = IF pc'[t] = "arm" /\ event'[t] = q THEN 1 ELSE 0
    BY <1>4, ArmsOne
  <2>4. NotifiedIn(channel', q) # {} <=> Told(channel', q) # 0
    BY <2>1, ToldFacts
  <2> QED BY <1>4, <2>1, <2>2, <2>3, <2>4 DEF Is
<1> HIDE DEF r
<1>6. ASSUME NEW q \in Queue PROVE Disciplined(q)'
  <2>1. Told(channel', q) + Arms(pc', event', q) = Told(channel, q) + Arms(pc, event, q)
    BY <1>5 DEF Is
  <2> QED BY <1>1, <2>1 DEF EventInv, Disciplined
<1>7. ASSUME NEW q \in Queue PROVE Awake(q)'
  <2>1. CASE q = r
    BY <1>4, <2>1 DEF Awake, Attended
  <2>2. CASE q # r
    <3>1. Told(channel', q) = Told(channel, q)
      BY <1>5, <2>2 DEF Is
    <3>2. ~Attended(q)
      BY <1>1, <1>4 DEF Attended
    <3> QED BY <1>1, <1>5, <3>1, <3>2 DEF EventInv, Awake
  <2> QED BY <2>1, <2>2
<1>8. DrainsArmed'
  BY <1>4 DEF DrainsArmed
<1> QED BY <1>6, <1>7, <1>8 DEF EventInv

LEMMA EventRequest ==
  ASSUME TypeInv, EventInv, NEW t \in Thread, RequestNotify(t)
  PROVE  EventInv'
<1> DEFINE r == event[t]
<1>1. /\ pc[t] = "arm" /\ UNCHANGED <<cq, channel, abandoned, event>>
      /\ armed' = [armed EXCEPT ![r] = TRUE] /\ pc' = [pc EXCEPT ![t] = "drain"]
  BY DEF RequestNotify, Goto, historyVars, waitVars
<1>2. /\ channel \in Seq(Queue) /\ pc \in [Thread -> Statement] /\ armed \in [Queue -> BOOLEAN] /\ r \in Queue
  BY DEF TypeInv, CardType, ThreadType
<1>3. \A u \in Thread \ {t} : pc[u] \notin Inside
  BY <1>1, OneInside DEF TypeInv, Inside
<1>4. /\ \A u \in Thread \ {t} : pc[u] # "arm" /\ pc'[u] # "arm" /\ pc[u] # "drain" /\ pc'[u] # "drain"
      /\ pc'[t] = "drain"
  BY <1>1, <1>2, <1>3 DEF Inside
<1>5. ASSUME NEW q \in Queue
      PROVE  /\ Told(channel, q) \in Nat /\ Arms(pc, event, q) = (IF r = q THEN 1 ELSE 0)
             /\ Arms(pc', event', q) = 0
             /\ Heeded(armed[q], Told(channel, q) + Arms(pc, event, q), q \in abandoned)
  <2>1. Told(channel, q) \in Nat
    BY <1>2, ToldFacts
  <2>2. Arms(pc, event, q) = IF r = q THEN 1 ELSE 0
    <3>1. Arms(pc, event, q) = IF pc[t] = "arm" /\ event[t] = q THEN 1 ELSE 0
      BY <1>4, ArmsOne
    <3> QED BY <1>1, <3>1
  <2>3. Arms(pc', event', q) = 0
    BY <1>4, ArmsOne
  <2> QED BY <2>1, <2>2, <2>3 DEF EventInv, Disciplined
<1> HIDE DEF r
<1>6. ASSUME NEW q \in Queue PROVE Disciplined(q)'
  <2>1. Heeded(armed'[q], Told(channel', q) + Arms(pc', event', q), q \in abandoned')
    <3>1. CASE q = r
      <4>1. Told(channel, q) = 0
        BY <1>5, <3>1 DEF Heeded
      <4>2. Told(channel', q) + Arms(pc', event', q) = 0
        <5>1. Told(channel', q) = 0
          BY <1>1, <4>1
        <5>2. Arms(pc', event', q) = 0
          BY <1>5
        <5> QED BY <5>1, <5>2
      <4>3. armed'[q]
        BY <1>1, <1>2, <3>1
      <4> QED BY <4>2, <4>3 DEF Heeded
    <3>2. CASE q # r
      BY <1>1, <1>2, <1>5, <3>2 DEF Heeded
    <3> QED BY <3>1, <3>2
  <2> QED BY <2>1 DEF Disciplined
<1>7. ASSUME NEW q \in Queue PROVE Awake(q)'
  BY <1>1, <1>4 DEF EventInv, Awake, Attended
<1>8. DrainsArmed'
  BY <1>1, <1>2, <1>4 DEF DrainsArmed, r
<1> QED BY <1>6, <1>7, <1>8 DEF EventInv

(* A wait ends by an exception, with a queue it had the event of. *)
LEMMA EventThrow ==
  ASSUME TypeInv, EventInv, NEW t \in Thread, DrainError(t) \/ WaitError(t)
  PROVE  EventInv'
<1> DEFINE r == event[t]
<1>1. /\ pc[t] \in {"event", "arm", "drain"} /\ UNCHANGED <<armed, channel>>
      /\ abandoned' = (IF pc[t] = "event" THEN abandoned ELSE abandoned \union {r})
      /\ pc' = [pc EXCEPT ![t] = "idle"]
      /\ \A q \in Queue : q \notin abandoned' => cq'[q] = cq[q]
  BY DEF DrainError, WaitError, Leave, Goto, TypeInv, CardType
<1>2. /\ channel \in Seq(Queue) /\ pc \in [Thread -> Statement] /\ armed \in [Queue -> BOOLEAN] /\ r \in Queue
      /\ event' = [event EXCEPT ![t] = "send"] /\ event \in [Thread -> Queue]
  BY DEF TypeInv, CardType, ThreadType, DrainError, WaitError, Leave
<1>3. \A u \in Thread \ {t} : pc[u] \notin Inside
  BY <1>1, OneInside DEF TypeInv, Inside
<1>4. /\ \A u \in Thread \ {t} : pc[u] # "arm" /\ pc'[u] # "arm" /\ pc[u] # "drain" /\ pc'[u] # "drain"
      /\ pc'[t] = "idle"
  BY <1>1, <1>2, <1>3 DEF Inside
<1>5. ASSUME NEW q \in Queue
      PROVE  /\ Told(channel, q) \in Nat
             /\ Arms(pc, event, q) = (IF pc[t] = "arm" /\ r = q THEN 1 ELSE 0)
             /\ Arms(pc', event', q) = 0
             /\ Heeded(armed[q], Told(channel, q) + Arms(pc, event, q), q \in abandoned)
  <2>1. Told(channel, q) \in Nat
    BY <1>2, ToldFacts
  <2>2. Arms(pc, event, q) = IF pc[t] = "arm" /\ r = q THEN 1 ELSE 0
    BY <1>4, ArmsOne
  <2>3. Arms(pc', event', q) = 0
    BY <1>4, ArmsOne
  <2> QED BY <2>1, <2>2, <2>3 DEF EventInv, Disciplined
<1>6. ASSUME NEW q \in Queue PROVE Disciplined(q)'
  <2>1. Heeded(armed'[q], Told(channel', q) + Arms(pc', event', q), q \in abandoned')
    <3>1. CASE pc[t] = "arm" /\ r = q
      <4>1. Arms(pc, event, q) = 1 /\ Told(channel, q) \in Nat
        BY <1>5, <3>1
      <4>2. Told(channel, q) + 1 # 0 /\ (Told(channel, q) + 1 = 1 => Told(channel, q) + 0 = 0)
        BY <4>1
      <4>3. ~armed[q] /\ Told(channel, q) + 0 = 0
        BY <1>5, <4>1, <4>2 DEF Heeded
      <4>4. q \in abandoned' /\ channel' = channel /\ armed' = armed
        BY <1>1, <3>1
      <4> QED BY <1>5, <4>3, <4>4 DEF Heeded
    <3>2. CASE ~(pc[t] = "arm" /\ r = q)
      <4>1. Arms(pc, event, q) = 0 /\ (q \in abandoned => q \in abandoned')
        BY <1>1, <1>5, <3>2
      <4> QED BY <1>1, <1>2, <1>5, <4>1 DEF Heeded
    <3> QED BY <3>1, <3>2
  <2> QED BY <2>1 DEF Disciplined
<1>7. ASSUME NEW q \in Queue PROVE Awake(q)'
  <2>1. Attended(q) => q \in abandoned'
    BY <1>1, <1>4 DEF Attended
  <2>2. q \in abandoned => q \in abandoned'
    BY <1>1
  <2> QED BY <1>1, <2>1, <2>2 DEF EventInv, Awake
<1>8. DrainsArmed'
  BY <1>4 DEF DrainsArmed
<1> QED BY <1>6, <1>7, <1>8 DEF EventInv

LEMMA EventDrained ==
  ASSUME TypeInv, EventInv, NEW t \in Thread, Drained(t)
  PROVE  EventInv'
<1> DEFINE r == event[t]
<1>1. /\ pc[t] = "drain" /\ cq[r] = <<>> /\ UNCHANGED <<armed, channel, event, cq>>
      /\ abandoned' = abandoned \ {r}
      /\ \E l \in {"event", "return"} : pc' = [pc EXCEPT ![t] = l]
  BY DEF Drained, Goto, cardVars, waitVars
<1>2. /\ channel \in Seq(Queue) /\ pc \in [Thread -> Statement] /\ armed \in [Queue -> BOOLEAN] /\ r \in Queue
  BY DEF TypeInv, CardType, ThreadType
<1>3. \A u \in Thread \ {t} : pc[u] \notin Inside
  BY <1>1, OneInside DEF TypeInv, Inside
<1>4. /\ \A u \in Thread \ {t} : pc[u] # "arm" /\ pc'[u] # "arm" /\ pc[u] # "drain" /\ pc'[u] # "drain"
      /\ pc'[t] \in {"event", "return"}
  BY <1>1, <1>2, <1>3 DEF Inside
<1>5. ASSUME NEW q \in Queue
      PROVE  /\ Told(channel, q) \in Nat
             /\ Arms(pc, event, q) = 0 /\ Arms(pc', event', q) = 0
             /\ Heeded(armed[q], Told(channel, q) + Arms(pc, event, q), q \in abandoned)
             /\ NotifiedIn(channel, q) # {} => Told(channel, q) # 0
  <2>1. Told(channel, q) \in Nat /\ (NotifiedIn(channel, q) # {} => Told(channel, q) # 0)
    BY <1>2, ToldFacts
  <2>2. Arms(pc, event, q) = 0
    <3>1. Arms(pc, event, q) = IF pc[t] = "arm" /\ event[t] = q THEN 1 ELSE 0
      BY <1>4, ArmsOne
    <3> QED BY <1>1, <3>1
  <2>3. Arms(pc', event', q) = 0
    BY <1>4, ArmsOne
  <2> QED BY <2>1, <2>2, <2>3 DEF EventInv, Disciplined
<1>6. armed[r] \/ NotifiedIn(channel, r) # {}
  BY <1>1 DEF EventInv, DrainsArmed
<1>7. ASSUME NEW q \in Queue PROVE Disciplined(q)'
  <2>1. Heeded(armed'[q], Told(channel', q) + Arms(pc', event', q), q \in abandoned')
    <3>1. CASE q = r
      <4>1. IF armed[q] THEN Told(channel, q) + 0 = 0 ELSE Told(channel, q) # 0 /\ Told(channel, q) + 0 \in {0, 1}
        BY <1>5, <1>6, <3>1 DEF Heeded
      <4>2. Told(channel, q) # 0 => Told(channel, q) + 0 # 0
        BY <1>5
      <4> QED BY <1>1, <1>5, <4>1, <4>2 DEF Heeded
    <3>2. CASE q # r
      BY <1>1, <1>2, <1>5, <3>2 DEF Heeded
    <3> QED BY <3>1, <3>2
  <2> QED BY <2>1 DEF Disciplined
<1>8. ASSUME NEW q \in Queue PROVE Awake(q)'
  <2>1. CASE q = r
    BY <1>1, <2>1 DEF Awake
  <2>2. CASE q # r
    <3>1. ~Attended(q)
      BY <1>1, <1>4, <2>2 DEF Attended
    <3> QED BY <1>1, <2>2, <3>1 DEF EventInv, Awake
  <2> QED BY <2>1, <2>2
<1>9. DrainsArmed'
  BY <1>4 DEF DrainsArmed
<1> QED BY <1>7, <1>8, <1>9 DEF EventInv

LEMMA EventStep ==
  ASSUME TypeInv, EventInv, [Next]_vars
  PROVE  EventInv'
<1>1. /\ pc \in [Thread -> Statement] /\ event \in [Thread -> Queue] /\ cq \in [Queue -> Seq(Completion)]
      /\ \A t \in Thread : pc[t] = "spin" => call[t] \in Queue
  BY DEF TypeInv, ThreadType, CardType
<1>2. ASSUME NEW t \in Thread, (\E w \in Waits : StartWait(t, w)) \/ (\E q \in Queue : StartPollBlocking(t, q))
             \/ Lock(t) \/ FromCache(t) \/ NothingCached(t)
      PROVE  EventInv'
  <2>1. \E l \in {"lock", "spin", "scan", "return", "event"} : Goto(t, l)
    BY <1>2 DEF StartWait, StartPollBlocking, Lock, FromCache, NothingCached
  <2>2. pc[t] \in {"idle", "lock", "scan"}
    BY <1>2 DEF StartWait, StartPollBlocking, Lock, FromCache, NothingCached
  <2>3. UNCHANGED <<armed, channel, abandoned, event, cq>>
    BY <1>2 DEF StartWait, StartPollBlocking, Lock, FromCache, NothingCached, cardVars, waitVars, historyVars
  <2>4. pc[t] \notin {"arm", "drain"} /\ pc'[t] \notin {"arm", "drain"}
        /\ \A u \in Thread \ {t} : pc'[u] = pc[u] /\ event'[u] = event[u]
    BY <1>1, <2>1, <2>2, <2>3 DEF Goto
  <2> QED BY <2>3, <2>4, EventQuiet
<1>3. ASSUME NEW t \in Thread, Return(t) \/ PollBlocking(t)
      PROVE  EventInv'
  <2>1. pc[t] \in {"return", "spin"} /\ pc' = [pc EXCEPT ![t] = "idle"] /\ event' = [event EXCEPT ![t] = "send"]
    BY <1>3 DEF Return, PollBlocking, Leave, Goto
  <2>2. UNCHANGED <<armed, channel, abandoned>>
    BY <1>3 DEF Return, PollBlocking, cardVars
  <2>3. \A q \in Queue : cq'[q] # <<>> => cq[q] # <<>>
    BY <1>1, <1>3 DEF Return, PollBlocking, cardVars, Take
  <2>4. pc[t] \notin {"arm", "drain"} /\ pc'[t] \notin {"arm", "drain"}
        /\ \A u \in Thread \ {t} : pc'[u] = pc[u] /\ event'[u] = event[u]
    BY <1>1, <2>1
  <2> QED BY <2>2, <2>3, <2>4, EventQuiet
<1>4. ASSUME NEW t \in Thread, Drain(t) \/ PollSend(t) \/ (\E q \in Queue : PollTyped(t, q))
      PROVE  EventInv'
  <2>1. UNCHANGED <<armed, channel, abandoned, event, pc>>
    BY <1>4 DEF Drain, PollSend, PollTyped, waitVars, threadVars, historyVars
  <2>2. \A q \in Queue : cq'[q] # <<>> => cq[q] # <<>>
    BY <1>1, <1>4 DEF Drain, PollSend, PollTyped, Take, Queue
  <2> QED BY <2>1, <2>2, EventQuiet
<1>5. CASE UNCHANGED vars
  BY <1>5 DEF vars, cardVars, waitVars, threadVars, historyVars, EventInv, Disciplined, Awake, Attended, DrainsArmed
<1> QED
  BY <1>2, <1>3, <1>4, <1>5, EventComplete, EventGet, EventRequest, EventThrow, EventDrained
     DEF Next, Card, WaitStep

LEMMA EventInvariant == Spec => []EventInv
<1>1. Init => TypeInv /\ EventInv
  BY TypeInit, EventInit
<1>2. TypeInv /\ EventInv /\ [Next]_vars => (TypeInv /\ EventInv)'
  BY TypeStep, EventStep
<1> QED BY <1>1, <1>2, PTL DEF Spec

(* A queue is armed, or exactly one event of it is pending: on the channel *)
(* or in the hands of the wait that is about to arm it.  Only a queue that *)
(* a failed ibv_req_notify_cq left may be neither.                         *)
THEOREM EventsAreDisciplined == Spec => []EventDiscipline
BY EventInvariant, EventInvIs, PTL

(* No queue holds completions that no event tells of, unless an exception  *)
(* made a wait leave it.                                                   *)
THEOREM WakeupsAreKept == Spec => []NoLostWakeup
BY EventInvariant, EventInvIs, PTL

-----------------------------------------------------------------------------
(* The order of what the waits hand out *)

(* Within a sequence the completions of one queue are in the order in      *)
(* which they were added; n is older than all of queue q in s; s has       *)
(* completions of q only, none newer than n.                               *)
Increasing(s) == \A i, j \in 1 .. Len(s) : i < j /\ s[i].queue = s[j].queue => s[i].id < s[j].id
Below(n, q, s) == \A i \in 1 .. Len(s) : s[i].queue = q => n < s[i].id
Own(s, q, n) == \A i \in 1 .. Len(s) : s[i].queue = q /\ s[i].id <= n

LEMMA OrderEmpty == /\ Increasing(<<>>)
                    /\ \A n, q : Below(n, q, <<>>) /\ Own(<<>>, q, n)
<1>1. Len(<<>>) = 0
  BY EmptySeq
<1>2. \A i : ~(i \in 1 .. Len(<<>>))
  BY <1>1
<1> QED BY <1>2 DEF Increasing, Below, Own

LEMMA OrderAppend ==
  ASSUME NEW s \in Seq(Completion), NEW c \in Completion
  PROVE  /\ \A n, q : Below(n, q, Append(s, c)) <=> Below(n, q, s) /\ (c.queue = q => n < c.id)
         /\ \A n, q : Own(Append(s, c), q, n) <=> Own(s, q, n) /\ c.queue = q /\ c.id <= n
         /\ Increasing(s) /\ (\A i \in 1 .. Len(s) : s[i].queue = c.queue => s[i].id < c.id)
              => Increasing(Append(s, c))
<1> DEFINE p == Append(s, c)
           l == Len(s)
<1>1. l \in Nat /\ Len(p) = l + 1 /\ p[l + 1] = c /\ \A i \in 1 .. l : p[i] = s[i]
  BY LenProperties, AppendProperties
<1> HIDE DEF p, l
<1>2. \A i : i \in 1 .. l + 1 <=> i \in 1 .. l \/ i = l + 1
  BY <1>1
<1>3. \A i : i \in 1 .. Len(p) <=> i \in 1 .. l \/ i = l + 1
  BY <1>1, <1>2
<1>4. ASSUME NEW n, NEW q PROVE Below(n, q, p) <=> Below(n, q, s) /\ (c.queue = q => n < c.id)
  BY <1>1, <1>3 DEF Below, l
<1>5. ASSUME NEW n, NEW q PROVE Own(p, q, n) <=> Own(s, q, n) /\ c.queue = q /\ c.id <= n
  BY <1>1, <1>3 DEF Own, l
<1>6. ASSUME Increasing(s), \A i \in 1 .. l : s[i].queue = c.queue => s[i].id < c.id
      PROVE  Increasing(p)
  <2> SUFFICES ASSUME NEW i \in 1 .. Len(p), NEW j \in 1 .. Len(p), i < j, p[i].queue = p[j].queue
               PROVE  p[i].id < p[j].id
    BY DEF Increasing
  <2>1. i \in 1 .. l
    BY <1>1
  <2>2. j \in 1 .. l \/ j = l + 1
    BY <1>3
  <2>3. CASE j \in 1 .. l
    BY <1>1, <1>6, <2>1, <2>3 DEF Increasing, l
  <2>4. CASE j = l + 1
    BY <1>1, <1>6, <2>1, <2>4
  <2> QED BY <2>2, <2>3, <2>4
<1> QED BY <1>4, <1>5, <1>6 DEF p, l

LEMMA OrderWithout ==
  ASSUME NEW s \in Seq(Completion), NEW r \in Seq(Completion), NEW k \in 1 .. Len(s), IsWithout(r, s, k)
  PROVE  /\ \A n, q : Below(n, q, s) => Below(n, q, r)
         /\ \A n, q : Own(s, q, n) => Own(r, q, n)
         /\ Increasing(s) => Increasing(r)
         /\ \A i \in 1 .. Len(r) : \E j \in 1 .. Len(s) : j # k /\ r[i] = s[j]
<1> DEFINE l == Len(s)
<1>1. l \in Nat
  BY LenProperties
<1>2. /\ \A i \in 1 .. (l - 1) : Skip(i, k) \in 1 .. l /\ Skip(i, k) # k
      /\ \A i, j \in 1 .. (l - 1) : i < j <=> Skip(i, k) < Skip(j, k)
  BY <1>1, SkipFacts
<1>3. Len(r) = l - 1 /\ \A i \in 1 .. l - 1 : r[i] = s[Skip(i, k)]
  BY DEF IsWithout
<1> HIDE DEF l
<1>4. ASSUME NEW n, NEW q PROVE (Below(n, q, s) => Below(n, q, r)) /\ (Own(s, q, n) => Own(r, q, n))
  BY <1>2, <1>3 DEF Below, Own, l
<1>5. Increasing(s) => Increasing(r)
  <2> SUFFICES ASSUME Increasing(s), NEW i \in 1 .. Len(r), NEW j \in 1 .. Len(r), i < j, r[i].queue = r[j].queue
               PROVE  r[i].id < r[j].id
    BY DEF Increasing
  <2>1. i \in 1 .. (l - 1) /\ j \in 1 .. (l - 1)
    BY <1>3
  <2>2. Skip(i, k) \in 1 .. l /\ Skip(j, k) \in 1 .. l /\ Skip(i, k) < Skip(j, k)
    BY <1>2, <2>1
  <2>3. r[i] = s[Skip(i, k)] /\ r[j] = s[Skip(j, k)]
    BY <1>3, <2>1
  <2> QED BY <2>2, <2>3 DEF Increasing, l
<1>6. ASSUME NEW i \in 1 .. Len(r) PROVE \E j \in 1 .. l : j # k /\ r[i] = s[j]
  BY <1>2, <1>3
<1> QED BY <1>4, <1>5, <1>6 DEF l

(* The oldest of those a wait wants is older than the rest of its queue. *)
LEMMA OldestFirst ==
  ASSUME NEW s \in Seq(Completion), NEW r \in Seq(Completion), NEW k \in 1 .. Len(s), IsWithout(r, s, k),
         Increasing(s), NEW w, Matches(w, s[k].queue), \A d \in 1 .. k - 1 : ~Matches(w, s[d].queue)
  PROVE  Below(s[k].id, s[k].queue, r)
<1> SUFFICES ASSUME NEW i \in 1 .. Len(r), r[i].queue = s[k].queue PROVE s[k].id < r[i].id
  BY DEF Below
<1>1. PICK j \in 1 .. Len(s) : j # k /\ r[i] = s[j]
  BY OrderWithout
<1>2. Len(s) \in Nat /\ ~(j \in 1 .. k - 1)
  BY <1>1, LenProperties
<1>3. k < j
  BY <1>1, <1>2
<1> QED BY <1>1, <1>3 DEF Increasing

LEMMA HeadFirst ==
  ASSUME NEW s \in Seq(Completion), s # <<>>, Increasing(s)
  PROVE  /\ Below(Head(s).id, Head(s).queue, Tail(s))
         /\ \A n, q : Below(n, q, s) => Below(n, q, Tail(s)) /\ (Head(s).queue = q => n < Head(s).id)
         /\ \A n, q : Own(s, q, n) => Own(Tail(s), q, n) /\ Head(s).queue = q /\ Head(s).id <= n
         /\ Increasing(Tail(s))
<1>1. /\ Tail(s) \in Seq(Completion) /\ IsWithout(Tail(s), s, 1) /\ 1 \in 1 .. Len(s) /\ Head(s) = s[1]
  BY TailIsWithout
<1>2. /\ \A n, q : Below(n, q, s) => Below(n, q, Tail(s))
      /\ \A n, q : Own(s, q, n) => Own(Tail(s), q, n)
      /\ Increasing(Tail(s))
  BY <1>1, OrderWithout
<1>3. Matches("any", s[1].queue) /\ \A d : ~(d \in 1 .. 1 - 1)
  BY DEF Matches
<1>4. Below(s[1].id, s[1].queue, Tail(s))
  BY <1>1, <1>3, OldestFirst
<1>5. /\ \A n, q : Below(n, q, s) => (s[1].queue = q => n < s[1].id)
      /\ \A n, q : Own(s, q, n) => s[1].queue = q /\ s[1].id <= n
  BY <1>1 DEF Below, Own
<1> QED BY <1>1, <1>2, <1>4, <1>5

(* c, which left its queue, is older than all that is still in the queue   *)
(* and in the cache, and newer than what a wait last returned.             *)
Foremost(c, n, ca, qs, last) ==
    c.id <= n /\ Below(c.id, c.queue, ca) /\ Below(c.id, c.queue, qs[c.queue]) /\ last[c.queue] < c.id

QueueOrder == \A q \in Queue : Own(cq[q], q, completed) /\ Increasing(cq[q])
CacheOrder == /\ Increasing(cached)
              /\ \A i \in 1 .. Len(cached) : /\ cached[i].id <= completed
                                             /\ Below(cached[i].id, cached[i].queue, cq[cached[i].queue])
FoundOrder == \A t \in Thread : found[t] # <<>> => Foremost(found[t][1], completed, cached, cq, latest)
(* A wait that goes on looking for a completion has none in the cache. *)
NoneCached == \A t \in Thread : pc[t] \in {"event", "arm", "drain"} /\ found[t] = <<>> =>
                  \A i \in 1 .. Len(cached) : ~Matches(call[t], cached[i].queue)
LatestOrder == \A q \in Queue :
    latest[q] <= completed /\ Below(latest[q], q, cq[q]) /\ Below(latest[q], q, cached)

OrderInv == QueueOrder /\ CacheOrder /\ FoundOrder /\ NoneCached /\ LatestOrder

LEMMA OrderInit == Init => OrderInv
<1> SUFFICES ASSUME Init PROVE OrderInv
  OBVIOUS
<1>1. /\ \A q \in Queue : cq[q] = <<>> /\ latest[q] = 0
      /\ cached = <<>> /\ completed = 0 /\ \A t \in Thread : pc[t] = "idle" /\ found[t] = <<>>
  BY DEF Init
<1>2. \A i : ~(i \in 1 .. Len(<<>>))
  <2>1. Len(<<>>) = 0
    BY EmptySeq
  <2> QED BY <2>1
<1> QED BY <1>1, <1>2, OrderEmpty DEF OrderInv, QueueOrder, CacheOrder, FoundOrder, NoneCached, LatestOrder

LEMMA OrderTypes ==
  ASSUME TypeInv
  PROVE  /\ cq \in [Queue -> Seq(Completion)] /\ cached \in Seq(Completion)
         /\ found \in [Thread -> Seq(Completion)] /\ completed \in Nat
         /\ latest \in [Queue -> 0 .. MaxCompletions]
         /\ pc \in [Thread -> Statement] /\ call \in [Thread -> Queue \union {"any"}]
         /\ event \in [Thread -> Queue]
         /\ \A i \in 1 .. Len(cached) : cached[i] \in Completion
         /\ \A t \in Thread : found[t] # <<>> => found[t][1] \in Completion
         /\ \A c \in Completion : c.queue \in Queue /\ c.id \in Nat
<1>1. /\ cq \in [Queue -> Seq(Completion)] /\ cached \in Seq(Completion)
      /\ found \in [Thread -> Seq(Completion)] /\ completed \in Nat
      /\ latest \in [Queue -> 0 .. MaxCompletions]
  BY DEF TypeInv, CardType, CacheType, FoundType, CounterType, HistoryType
<1>2. pc \in [Thread -> Statement] /\ call \in [Thread -> Queue \union {"any"}] /\ event \in [Thread -> Queue]
  BY DEF TypeInv, ThreadType
<1>3. \A i \in 1 .. Len(cached) : cached[i] \in Completion
  BY <1>1, ElementOfSeq
<1>4. ASSUME NEW t \in Thread, found[t] # <<>> PROVE found[t][1] \in Completion
  <2>1. found[t] \in Seq(Completion)
    BY <1>1
  <2>2. Head(found[t]) = found[t][1] /\ Head(found[t]) \in Completion
    BY <1>4, <2>1, TailIsWithout
  <2> QED BY <2>2
<1>5. \A c \in Completion : c.queue \in Queue /\ c.id \in Nat
  BY DEF Completion
<1> QED BY <1>1, <1>2, <1>3, <1>4, <1>5

(* The queues lose at most their first completions. *)
LEMMA Shrinks ==
  ASSUME TypeInv, QueueOrder, completed' = completed,
         \A q \in Queue : cq'[q] = cq[q] \/ (cq[q] # <<>> /\ cq'[q] = Tail(cq[q]))
  PROVE  QueueOrder' /\ \A q \in Queue : \A n : Below(n, q, cq[q]) => Below(n, q, cq'[q])
<1>1. \A q \in Queue : cq[q] \in Seq(Completion)
  BY OrderTypes
<1>2. ASSUME NEW q \in Queue
      PROVE  /\ Own(cq'[q], q, completed) /\ Increasing(cq'[q])
             /\ \A n : Below(n, q, cq[q]) => Below(n, q, cq'[q])
  <2>1. Own(cq[q], q, completed) /\ Increasing(cq[q])
    BY DEF QueueOrder
  <2>2. CASE cq'[q] = cq[q]
    BY <2>1, <2>2
  <2>3. CASE cq[q] # <<>> /\ cq'[q] = Tail(cq[q])
    BY <1>1, <2>1, <2>3, HeadFirst
  <2> QED BY <2>2, <2>3
<1> QED BY <1>2 DEF QueueOrder

(* Completions leave the queues or the hands of waits, nothing else. *)
LEMMA OrderKept ==
  ASSUME TypeInv, OrderInv, UNCHANGED <<completed, latest, cached>>,
         \A q \in Queue : cq'[q] = cq[q] \/ (cq[q] # <<>> /\ cq'[q] = Tail(cq[q])),
         \A t \in Thread : found'[t] \in {found[t], <<>>}, NoneCached'
  PROVE  OrderInv'
<1>1. QueueOrder' /\ \A q \in Queue : \A n : Below(n, q, cq[q]) => Below(n, q, cq'[q])
  BY Shrinks DEF OrderInv
<1>2. CacheOrder'
  BY <1>1, OrderTypes DEF OrderInv, CacheOrder
<1>3. FoundOrder'
  BY <1>1, OrderTypes DEF OrderInv, FoundOrder, Foremost
<1>4. LatestOrder'
  BY <1>1 DEF OrderInv, LatestOrder
<1> QED BY <1>1, <1>2, <1>3, <1>4 DEF OrderInv

LEMMA OrderComplete ==
  ASSUME TypeInv, OrderInv, NEW r \in Queue, NEW status \in Status, Complete(r, status)
  PROVE  OrderInv'
<1> DEFINE c == [queue |-> r, id |-> completed + 1, status |-> status]
<1>1. /\ cq' = [cq EXCEPT ![r] = Append(@, c)] /\ completed' = completed + 1
      /\ UNCHANGED <<cached, found, pc, call, latest>> /\ completed < MaxCompletions
  BY DEF Complete, waitVars, threadVars, historyVars
<1>2. completed \in Nat /\ c.queue = r /\ c.id = completed + 1
  BY OrderTypes
<1>3. c \in Completion
  <2>1. completed + 1 \in 1 .. MaxCompletions
    BY <1>1, <1>2, Bounds
  <2> QED BY <2>1 DEF Completion
<1> HIDE DEF c
<1>4. cq[r] \in Seq(Completion) /\ cq'[r] = Append(cq[r], c) /\ \A q \in Queue : q # r => cq'[q] = cq[q]
  BY <1>1, OrderTypes
<1>5. \A x \in Completion : x.id <= completed => x.id <= completed' /\ x.id < c.id
  BY <1>1, <1>2, OrderTypes
<1>6. \A q \in Queue : Own(cq[q], q, completed) /\ Increasing(cq[q])
  BY DEF OrderInv, QueueOrder
<1>7. \A q \in Queue : \A i \in 1 .. Len(cq[q]) : cq[q][i] \in Completion
  BY OrderTypes, ElementOfSeq
<1>8. \A q \in Queue : Own(cq[q], q, completed')
  BY <1>5, <1>6, <1>7 DEF Own
<1>9. Own(cq'[r], r, completed') /\ Increasing(cq'[r])
  <2>1. \A i \in 1 .. Len(cq[r]) : cq[r][i].id < c.id
    BY <1>5, <1>6, <1>7 DEF Own
  <2>2. Increasing(Append(cq[r], c))
    BY <1>3, <1>4, <1>6, <2>1, OrderAppend
  <2>3. Own(Append(cq[r], c), r, completed')
    <3>1. c.id <= completed'
      BY <1>1, <1>2
    <3>2. Own(cq[r], r, completed') /\ cq[r] \in Seq(Completion)
      BY <1>4, <1>8
    <3> QED BY <1>2, <1>3, <3>1, <3>2, OrderAppend
  <2> QED BY <1>4, <2>2, <2>3
<1>10. QueueOrder'
  BY <1>4, <1>6, <1>8, <1>9 DEF QueueOrder
<1>11. ASSUME NEW q \in Queue, NEW n, n < c.id, Below(n, q, cq[q]) PROVE Below(n, q, cq'[q])
  <2>1. CASE q = r
    <3>1. Below(n, q, Append(cq[r], c))
      BY <1>3, <1>4, <1>11, <2>1, OrderAppend
    <3> QED BY <1>4, <2>1, <3>1
  <2>2. CASE q # r
    BY <1>4, <1>11, <2>2
  <2> QED BY <2>1, <2>2
<1>12. CacheOrder'
  BY <1>1, <1>5, <1>11, OrderTypes DEF OrderInv, CacheOrder
<1>13. FoundOrder'
  BY <1>1, <1>5, <1>11, OrderTypes DEF OrderInv, FoundOrder, Foremost
<1>14. NoneCached'
  BY <1>1 DEF OrderInv, NoneCached
<1>15. LatestOrder'
  <2>1. ASSUME NEW q \in Queue PROVE latest[q] <= completed' /\ latest[q] < c.id
    <3>1. latest[q] \in Nat /\ latest[q] <= completed
      BY OrderTypes DEF OrderInv, LatestOrder
    <3> QED BY <1>1, <1>2, <3>1
  <2> QED BY <1>1, <1>11, <2>1 DEF OrderInv, LatestOrder
<1> QED BY <1>10, <1>12, <1>13, <1>14, <1>15 DEF OrderInv

LEMMA OrderFromCache ==
  ASSUME TypeInv, OrderInv, NEW t \in Thread, FromCache(t)
  PROVE  OrderInv'
<1>1. PICK k \in DOMAIN cached : /\ Matches(call[t], cached[k].queue)
                                 /\ \A d \in 1 .. k - 1 : ~Matches(call[t], cached[d].queue)
                                 /\ found' = [found EXCEPT ![t] = <<cached[k]>>]
                                 /\ cached' = Without(cached, k)
  BY DEF FromCache
<1>2. /\ UNCHANGED <<cq, completed, latest, call>> /\ pc[t] = "scan" /\ pc' = [pc EXCEPT ![t] = "return"]
  BY DEF FromCache, Goto, cardVars, counters, historyVars
<1>3. cached \in Seq(Completion) /\ k \in 1 .. Len(cached) /\ cached[k] \in Completion
  BY <1>1, OrderTypes, SeqFacts
<1>4. cached' \in Seq(Completion) /\ IsWithout(cached', cached, k)
  BY <1>1, <1>3, WithoutIsWithout
<1>5. /\ \A n, q : Below(n, q, cached) => Below(n, q, cached')
      /\ Increasing(cached) => Increasing(cached')
      /\ \A i \in 1 .. Len(cached') : \E j \in 1 .. Len(cached) : j # k /\ cached'[i] = cached[j]
  BY <1>3, <1>4, OrderWithout
<1>6. Below(cached[k].id, cached[k].queue, cached')
  BY <1>1, <1>3, <1>4, OldestFirst DEF OrderInv, CacheOrder
<1>7. Foremost(cached[k], completed', cached', cq', latest')
  <2>1. cached[k].id <= completed /\ Below(cached[k].id, cached[k].queue, cq[cached[k].queue])
    BY <1>3 DEF OrderInv, CacheOrder
  <2>2. latest[cached[k].queue] < cached[k].id
    BY <1>3, OrderTypes DEF OrderInv, LatestOrder, Below
  <2> QED BY <1>2, <1>6, <2>1, <2>2 DEF Foremost
<1>8. \A u \in Thread \ {t} : pc[u] \notin Inside /\ pc'[u] = pc[u] /\ found[u] = <<>> /\ found'[u] = found[u]
  BY <1>1, <1>2, OneInside, HeldInside, OrderTypes DEF TypeInv, Inside
<1>9. found'[t] = <<cached[k]>> /\ pc'[t] = "return"
  BY <1>1, <1>2, OrderTypes
<1>10. QueueOrder'
  BY <1>2 DEF OrderInv, QueueOrder
<1>11. CacheOrder'
  BY <1>2, <1>5 DEF OrderInv, CacheOrder
<1>12. FoundOrder'
  BY <1>7, <1>8, <1>9 DEF FoundOrder
<1>13. NoneCached'
  BY <1>8, <1>9 DEF NoneCached, Inside
<1>14. LatestOrder'
  BY <1>2, <1>5 DEF OrderInv, LatestOrder
<1> QED BY <1>10, <1>11, <1>12, <1>13, <1>14 DEF OrderInv

LEMMA OrderDrain ==
  ASSUME TypeInv, OrderInv, NEW t \in Thread, Drain(t)
  PROVE  OrderInv'
<1> DEFINE e == event[t]
           c == Head(cq[e])
<1>1. /\ pc[t] = "drain" /\ cq[e] # <<>> /\ cq' = [cq EXCEPT ![e] = Tail(@)]
      /\ UNCHANGED <<completed, latest, pc, call>>
      /\ IF found[t] = <<>> /\ Matches(call[t], e)
         THEN found' = [found EXCEPT ![t] = <<c>>] /\ cached' = cached
         ELSE cached' = Append(cached, c) /\ found' = found
  BY DEF Drain, counters, threadVars, historyVars
<1>2. e \in Queue /\ cq[e] \in Seq(Completion) /\ cached \in Seq(Completion) /\ completed \in Nat
  BY OrderTypes
<1> HIDE DEF e
<1>3. /\ Own(cq[e], e, completed) /\ Increasing(cq[e])
      /\ Below(latest[e], e, cq[e])
  BY <1>2 DEF OrderInv, QueueOrder, LatestOrder
<1>4. cq'[e] = Tail(cq[e]) /\ \A q \in Queue : cq'[q] = cq[q] \/ (cq[q] # <<>> /\ cq'[q] = Tail(cq[q]))
  BY <1>1, <1>2, OrderTypes
<1>5. /\ c.queue = e /\ c.id <= completed /\ Below(c.id, e, cq'[e])
      /\ \A n : Below(n, e, cq[e]) => n < c.id
  BY <1>1, <1>2, <1>3, <1>4, HeadFirst
<1>6. QueueOrder' /\ \A q \in Queue : \A n : Below(n, q, cq[q]) => Below(n, q, cq'[q])
  BY <1>1, <1>4, Shrinks DEF OrderInv
<1>7. c \in Completion
  BY <1>1, <1>2, QueueTail DEF TypeInv
<1> HIDE DEF c
<1>8. \A u \in Thread \ {t} : pc[u] \notin Inside /\ pc'[u] = pc[u] /\ found[u] = <<>> /\ found'[u] = found[u]
  BY <1>1, OneInside, HeldInside, OrderTypes DEF TypeInv, Inside
<1>9. CASE found[t] = <<>> /\ Matches(call[t], e)
  <2>1. cached' = cached /\ found'[t] = <<c>>
    BY <1>1, <1>9, OrderTypes
  <2>2. \A i \in 1 .. Len(cached) : cached[i].queue # e
    BY <1>1, <1>9 DEF OrderInv, NoneCached
  <2>3. Foremost(c, completed', cached', cq', latest')
    BY <1>1, <1>3, <1>5, <2>1, <2>2 DEF Foremost, Below
  <2>4. CacheOrder'
    BY <1>1, <1>6, <2>1, OrderTypes DEF OrderInv, CacheOrder
  <2>5. FoundOrder'
    BY <1>8, <2>1, <2>3 DEF FoundOrder
  <2>6. NoneCached'
    BY <1>8, <2>1 DEF NoneCached, Inside
  <2>7. LatestOrder'
    BY <1>1, <1>6, <2>1 DEF OrderInv, LatestOrder
  <2> QED BY <1>6, <2>4, <2>5, <2>6, <2>7 DEF OrderInv
<1>10. CASE ~(found[t] = <<>> /\ Matches(call[t], e))
  <2>1. cached' = Append(cached, c) /\ found' = found
    BY <1>1, <1>10
  <2>2. /\ \A n, q : Below(n, q, cached') <=> Below(n, q, cached) /\ (e = q => n < c.id)
        /\ Increasing(cached) /\ (\A i \in 1 .. Len(cached) : cached[i].queue = e => cached[i].id < c.id)
              => Increasing(cached')
    BY <1>2, <1>5, <1>7, <2>1, OrderAppend
  <2>3. \A i \in 1 .. Len(cached) : cached[i].queue = e => cached[i].id < c.id
    BY <1>5 DEF OrderInv, CacheOrder
  <2>4. \A i \in 1 .. Len(cached') : cached'[i] = c \/ \E j \in 1 .. Len(cached) : cached'[i] = cached[j]
    <3>1. /\ Len(cached') = Len(cached) + 1 /\ Len(cached) \in Nat /\ cached'[Len(cached) + 1] = c
          /\ \A i \in 1 .. Len(cached) : cached'[i] = cached[i]
      BY <1>2, <1>7, <2>1, LenProperties, AppendProperties
    <3>2. \A n \in Nat : \A i \in 1 .. n + 1 : i \in 1 .. n \/ i = n + 1
      OBVIOUS
    <3> QED BY <3>1, <3>2
  <2>5. CacheOrder'
    <3>1. Increasing(cached')
      BY <2>2, <2>3 DEF OrderInv, CacheOrder
    <3>2. ASSUME NEW i \in 1 .. Len(cached')
          PROVE  cached'[i].id <= completed /\ Below(cached'[i].id, cached'[i].queue, cq'[cached'[i].queue])
      <4>1. CASE cached'[i] = c
        BY <1>5, <4>1
      <4>2. ASSUME NEW j \in 1 .. Len(cached), cached'[i] = cached[j]
            PROVE  cached'[i].id <= completed /\ Below(cached'[i].id, cached'[i].queue, cq'[cached'[i].queue])
        BY <1>6, <4>2, OrderTypes DEF OrderInv, CacheOrder
      <4> QED BY <2>4, <4>1, <4>2
    <3> QED BY <1>1, <3>1, <3>2 DEF CacheOrder
  <2>6. FoundOrder'
    <3> SUFFICES ASSUME NEW u \in Thread, found[u] # <<>> PROVE Foremost(found[u][1], completed', cached', cq', latest')
      BY <2>1 DEF FoundOrder
    <3>1. Foremost(found[u][1], completed, cached, cq, latest) /\ found[u][1].queue \in Queue
      BY OrderTypes DEF OrderInv, FoundOrder
    <3>2. Below(found[u][1].id, found[u][1].queue, cached')
      BY <1>5, <2>2, <3>1 DEF Foremost
    <3>3. Below(found[u][1].id, found[u][1].queue, cq'[found[u][1].queue])
      BY <1>6, <3>1 DEF Foremost
    <3> QED BY <1>1, <3>1, <3>2, <3>3 DEF Foremost
  <2>7. NoneCached'
    <3>1. ASSUME found[t] = <<>> PROVE \A i \in 1 .. Len(cached') : ~Matches(call[t], cached'[i].queue)
      <4>1. ~Matches(call[t], e)
        BY <1>10, <3>1
      <4>2. \A j \in 1 .. Len(cached) : ~Matches(call[t], cached[j].queue)
        BY <1>1, <3>1 DEF OrderInv, NoneCached
      <4> QED BY <1>5, <2>4, <4>1, <4>2
    <3> QED BY <1>1, <1>8, <2>1, <3>1 DEF NoneCached, Inside
  <2>8. LatestOrder'
    <3>1. ASSUME NEW q \in Queue PROVE Below(latest[q], q, cached')
      BY <1>3, <1>5, <2>2, <3>1 DEF OrderInv, LatestOrder
    <3> QED BY <1>1, <1>6, <3>1 DEF OrderInv, LatestOrder
  <2> QED BY <1>6, <2>5, <2>6, <2>7, <2>8 DEF OrderInv
<1> QED BY <1>9, <1>10

LEMMA OrderReturn ==
  ASSUME TypeInv, OrderInv, NEW t \in Thread, Return(t)
  PROVE  OrderInv' /\ \A q \in Queue : latest'[q] >= latest[q]
<1> DEFINE c == found[t][1]
<1>1. /\ pc[t] = "return" /\ UNCHANGED <<cq, completed, cached>>
      /\ latest' = [latest EXCEPT ![c.queue] = c.id]
      /\ pc' = [pc EXCEPT ![t] = "idle"] /\ call' = [call EXCEPT ![t] = "any"] /\ found' = [found EXCEPT ![t] = <<>>]
  BY DEF Return, Leave, Goto, cardVars, counters
<1>2. found[t] # <<>>
  BY <1>1 DEF TypeInv, FoundType
<1>3. c \in Completion /\ c.queue \in Queue /\ c.id \in Nat /\ Foremost(c, completed, cached, cq, latest)
  BY <1>2, OrderTypes DEF OrderInv, FoundOrder
<1> HIDE DEF c
<1>4. latest \in [Queue -> 0 .. MaxCompletions]
  BY OrderTypes
<1>5. latest'[c.queue] = c.id /\ \A q \in Queue : q # c.queue => latest'[q] = latest[q]
  BY <1>1, <1>3, <1>4
<1>6. \A u \in Thread \ {t} : pc[u] \notin Inside /\ pc'[u] = pc[u] /\ found[u] = <<>> /\ found'[u] = found[u]
  BY <1>1, OneInside, HeldInside, OrderTypes DEF TypeInv, Inside
<1>7. found'[t] = <<>> /\ pc'[t] = "idle"
  BY <1>1, OrderTypes
<1>8. QueueOrder' /\ CacheOrder'
  BY <1>1 DEF OrderInv, QueueOrder, CacheOrder
<1>9. FoundOrder'
  BY <1>6, <1>7 DEF FoundOrder
<1>10. NoneCached'
  BY <1>6, <1>7 DEF NoneCached, Inside
<1>11. LatestOrder'
  BY <1>1, <1>3, <1>5 DEF OrderInv, LatestOrder, Foremost
<1>12. ASSUME NEW q \in Queue PROVE latest'[q] >= latest[q]
  <2>1. latest[q] \in Nat /\ (q = c.queue => latest[q] < c.id)
    BY <1>3, <1>4 DEF Foremost
  <2> QED BY <1>3, <1>5, <2>1
<1> QED BY <1>8, <1>9, <1>10, <1>11, <1>12 DEF OrderInv

LEMMA OrderStep ==
  ASSUME TypeInv, OrderInv, [Next]_vars
  PROVE  OrderInv' /\ \A q \in Queue : latest'[q] >= latest[q]
<1> DEFINE Looking == {"event", "arm", "drain"}
<1>1. ASSUME NEW t \in Thread, cached' = cached, found'[t] \in {found[t], <<>>},
             \A u \in Thread \ {t} : pc'[u] = pc[u] /\ call'[u] = call[u] /\ found'[u] = found[u],
             \/ pc'[t] \notin Looking
             \/ \A i \in 1 .. Len(cached) : ~Matches(call'[t], cached[i].queue)
             \/ pc[t] \in Looking /\ call'[t] = call[t] /\ found'[t] = found[t],
             UNCHANGED <<completed, latest>>,
             \A q \in Queue : cq'[q] = cq[q] \/ (cq[q] # <<>> /\ cq'[q] = Tail(cq[q]))
      PROVE  OrderInv'
  <2>1. NoneCached'
    BY <1>1 DEF OrderInv, NoneCached
  <2>2. \A u \in Thread : found'[u] \in {found[u], <<>>}
    BY <1>1
  <2> QED BY <1>1, <2>1, <2>2, OrderKept
<1>2. /\ pc \in [Thread -> Statement] /\ call \in [Thread -> Queue \union {"any"}]
      /\ found \in [Thread -> Seq(Completion)] /\ cq \in [Queue -> Seq(Completion)]
  BY OrderTypes
<1>3. ASSUME NEW t \in Thread,
             \/ (\E w \in Waits : StartWait(t, w)) \/ (\E q \in Queue : StartPollBlocking(t, q)) \/ Lock(t)
      PROVE  OrderInv' /\ latest' = latest
  <2>1. UNCHANGED <<cached, completed, latest, cq, found>> /\ pc'[t] \notin Looking
        /\ \A u \in Thread \ {t} : pc'[u] = pc[u] /\ call'[u] = call[u]
    BY <1>2, <1>3 DEF StartWait, StartPollBlocking, Lock, Goto, cardVars, counters, waitVars, historyVars
  <2> QED BY <1>1, <2>1
<1>4. ASSUME NEW t \in Thread, NothingCached(t) \/ GetEvent(t) \/ RequestNotify(t) \/ Drained(t)
      PROVE  OrderInv' /\ latest' = latest
  <2>1. UNCHANGED <<cached, completed, latest, cq, found, call>> /\ \A u \in Thread \ {t} : pc'[u] = pc[u]
    BY <1>2, <1>4 DEF NothingCached, GetEvent, RequestNotify, Drained, Goto, cardVars, counters, waitVars, historyVars
  <2>2. \/ \A i \in 1 .. Len(cached) : ~Matches(call[t], cached[i].queue)
        \/ pc[t] \in Looking
    BY <1>4, OrderTypes, SeqFacts DEF NothingCached, GetEvent, RequestNotify, Drained
  <2> QED BY <1>1, <2>1, <2>2
<1>5. ASSUME NEW t \in Thread, DrainError(t) \/ WaitError(t) \/ PollBlocking(t)
      PROVE  OrderInv' /\ latest' = latest
  <2>1. UNCHANGED <<cached, completed, latest>> /\ Leave(t)
    BY <1>5 DEF DrainError, WaitError, PollBlocking, counters
  <2>2. found'[t] = <<>> /\ pc'[t] = "idle"
        /\ \A u \in Thread \ {t} : pc'[u] = pc[u] /\ call'[u] = call[u] /\ found'[u] = found[u]
    BY <1>2, <2>1 DEF Leave, Goto
  <2>3. \A q \in Queue : cq'[q] = cq[q] \/ (cq[q] # <<>> /\ cq'[q] = Tail(cq[q]))
    BY <1>2, <1>5 DEF DrainError, WaitError, PollBlocking, Take
  <2> QED BY <1>1, <2>1, <2>2, <2>3
<1>6. ASSUME NEW t \in Thread, PollSend(t) \/ (\E q \in Queue : PollTyped(t, q))
      PROVE  OrderInv' /\ latest' = latest
  <2>1. UNCHANGED <<cached, completed, latest, found, pc, call>> /\ pc[t] = "idle"
    BY <1>6 DEF PollSend, PollTyped, waitVars, threadVars, counters
  <2>2. \A q \in Queue : cq'[q] = cq[q] \/ (cq[q] # <<>> /\ cq'[q] = Tail(cq[q]))
    BY <1>2, <1>6 DEF PollSend, PollTyped, Take
  <2> QED BY <1>1, <2>1, <2>2
<1>7. ASSUME NEW t \in Thread, FromCache(t) \/ Drain(t) PROVE OrderInv' /\ latest' = latest
  BY <1>7, OrderFromCache, OrderDrain DEF FromCache, Drain, historyVars
<1>8. ASSUME NEW q \in Queue, NEW status \in Status, Complete(q, status) PROVE OrderInv' /\ latest' = latest
  BY <1>8, OrderComplete DEF Complete, historyVars
<1>9. ASSUME UNCHANGED vars PROVE OrderInv'
  <2>1. UNCHANGED <<cq, completed, cached, found, latest, pc, call>>
    BY <1>9 DEF vars, cardVars, counters, waitVars, threadVars, historyVars
  <2>2. NoneCached'
    BY <2>1 DEF OrderInv, NoneCached
  <2> QED BY <2>1, <2>2, OrderKept
<1>10. \A q \in Queue : latest[q] >= latest[q]
  <2>1. \A q \in Queue : latest[q] \in Nat
    BY OrderTypes
  <2> QED BY <2>1
<1>11. ASSUME NEW t \in Thread, Return(t) PROVE OrderInv' /\ \A q \in Queue : latest'[q] >= latest[q]
  BY <1>11, OrderReturn
<1> HIDE DEF Looking
<1>12. (latest' = latest /\ OrderInv') \/ (OrderInv' /\ \A q \in Queue : latest'[q] >= latest[q])
  <2>1. CASE UNCHANGED vars
    BY <1>9, <2>1 DEF vars, historyVars
  <2>2. CASE Next
    BY <1>3, <1>4, <1>5, <1>6, <1>7, <1>8, <1>11, <2>2 DEF Next, Card, WaitStep
  <2> QED BY <2>1, <2>2
<1> QED BY <1>10, <1>12

(* The waits hand out the completions of one queue in the order in which   *)
(* the card added them, whichever threads take them and whether they pass  *)
(* through the cache or not.                                               *)
THEOREM WaitsKeepOrder == Spec => WaitOrder
<1>1. Init => TypeInv /\ OrderInv
  BY TypeInit, OrderInit
<1>2. TypeInv /\ OrderInv /\ [Next]_vars => (TypeInv /\ OrderInv)'
  BY TypeStep, OrderStep
<1>3. TypeInv /\ OrderInv /\ [Next]_vars => [\A q \in Queue : latest'[q] >= latest[q]]_vars
  BY OrderStep
<1> QED BY <1>1, <1>2, <1>3, PTL DEF Spec, WaitOrder
=============================================================================
