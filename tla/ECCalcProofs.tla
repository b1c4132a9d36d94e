---------------------------- MODULE ECCalcProofs ----------------------------
(***************************************************************************)
(* Proofs about the pool of calculations: its types, that a calculation is *)
(* always in exactly one place, and that the library calculates with what  *)
(* the call asked for; and, as long as condition variables wake no thread  *)
(* unasked (~Spurious), that the list is empty for a call only while as    *)
(* many calls as calculations are under way, that signals reach their      *)
(* calls, and that encode() and decode() are synchronous.                  *)
(***************************************************************************)
EXTENDS ECCalc, FiniteSetTheorems, SequenceTheorems, TLAPS

(* The parts of the type invariant *)
Digits == {0, 1}
Statement == {"idle", "get", "pop", "erasures", "matrix", "filled", "start", "wait", "asleep",
              "woken", "putback", "post", "crashed"}
StartedJob == [comp : Comp, job : 1 .. MaxJobs]
MatrixColumn == [row : 0 .. K + M, missing : SUBSET Block]

ListType == list \in Seq(Comp)
SyncType == mutex \in [Comp -> Thread \union {Library, Nobody}] /\ sleeping \in [Comp -> SUBSET Thread]
StartedType == started \subseteq StartedJob
ThreadType == pc \in [Thread -> Statement] /\ comp \in [Thread -> Comp] /\ job \in [Thread -> 0 .. MaxJobs]
ScanType == /\ scan.of \in Thread \union {Nobody} /\ scan.rest \in Seq(Digits)
            /\ index \in [Thread -> 0 .. K + M] /\ tot \in [Thread -> 0 .. M]
MarksType == erasures \in [Comp -> [Block -> Digits]]
MatrixType == deMat \in [Comp -> [1 .. M -> MatrixColumn]]
RequestType == /\ request \in [Thread -> Seq(Digits)]
               /\ \A t \in Thread : request[t] \in Requests[t] \union {Encode} /\ tangled \subseteq Thread
LibraryType == /\ cbPc \in {"idle", "lock", "signal", "unlock", "put", "post"} /\ cbComp \in Comp
               /\ jobs \in 0 .. MaxJobs /\ finished \subseteq 1 .. jobs /\ abandoned \subseteq Comp

(* Every wait for the semaphore that has not been undone by a post is a    *)
(* call's, a started calculation's or the callback's.                      *)
Holding == {t \in Thread : pc[t] \in {"pop", "erasures", "matrix", "filled", "start", "putback", "post"}}
Carried == IF cbPc = "idle" THEN 0 ELSE 1
Counted ==
    /\ IsFiniteSet(started) /\ sem \in Nat
    /\ sem + Cardinality(Holding) + Cardinality(started) + Carried <= MaxInflight + Cardinality(Listed)

(* Every call has a job of its own. *)
OwnJobs ==
    /\ \A s \in started : s.job \in 1 .. jobs
    /\ \A t \in Thread : pc[t] # "idle" => job[t] \in 1 .. jobs
    /\ \A t, u \in Thread : pc[t] # "idle" /\ pc[u] # "idle" /\ job[t] = job[u] => t = u

TypeInv == /\ ListType /\ SyncType /\ StartedType /\ ThreadType /\ ScanType /\ MarksType
           /\ MatrixType /\ RequestType /\ LibraryType /\ Counted /\ OwnJobs

-----------------------------------------------------------------------------
(* Constants *)

LEMMA Pool ==
  /\ MaxInflight \in Nat /\ MaxInflight > 0 /\ 1 \in Comp /\ Listed \subseteq Comp /\ IsFiniteSet(Listed)
  /\ Cardinality(Listed) \in Nat
  /\ IsFiniteSet(Thread) /\ Cardinality(Thread) \in Nat
<1>1. MaxInflight \in Nat /\ MaxInflight > 0 /\ Listed \subseteq Comp /\ IsFiniteSet(Thread)
  BY PoolAssumption
<1>2. IsFiniteSet(Comp)
  BY <1>1, FS_Interval DEF Comp
<1>3. IsFiniteSet(Listed)
  BY <1>1, <1>2, FS_Subset
<1>4. Cardinality(Thread) \in Nat /\ Cardinality(Listed) \in Nat
  BY <1>1, <1>3, FS_CardinalityType
<1> QED BY <1>1, <1>3, <1>4 DEF Comp

LEMMA Blocks ==
  /\ K \in Nat /\ M \in Nat /\ K > 0 /\ M > 0
  /\ \A t \in Thread : \A r \in Requests[t] \union {Encode} : r \in Seq(Digits)
<1>1. Encode \in Seq(Digits)
  BY EmptySeq DEF Encode
<1> QED BY <1>1, RequestAssumption DEF Digits

-----------------------------------------------------------------------------
(* Data *)

(* The least element of a set of natural numbers *)
LEMMA LeastElement ==
  ASSUME NEW T \in SUBSET Nat, T # {}
  PROVE  \E x \in T : \A y \in T : x <= y
<1> DEFINE R == StrictSubsetOrdering(Nat)
           S == FiniteSubsetsOf(Nat)
           F == {0 .. x : x \in T}
<1>1. IsWellFoundedOn(R, S)
  BY FS_StrictSubsetOrderingWellFounded
<1>2. F \subseteq S
  <2> SUFFICES ASSUME NEW x \in T PROVE 0 .. x \in S
    OBVIOUS
  <2>1. x \in Int /\ 0 \in Int
    OBVIOUS
  <2>2. IsFiniteSet(0 .. x)
    BY <2>1, FS_Interval
  <2>3. 0 .. x \subseteq Nat
    OBVIOUS
  <2> QED BY <2>2, <2>3 DEF FiniteSubsetsOf
<1>3. F # {}
  OBVIOUS
<1>4. \E a \in F : \A b \in F : <<b, a>> \notin R
  <2> HIDE DEF F, R, S
  <2> QED BY <1>1, <1>2, <1>3, WFMin
<1>5. PICK x \in T : \A y \in T : <<0 .. y, 0 .. x>> \notin R
  BY <1>4
<1>6. ASSUME NEW y \in T, ~(x <= y) PROVE FALSE
  <2>1. 0 .. y \subseteq 0 .. x /\ x \in 0 .. x /\ x \notin 0 .. y
    BY <1>6
  <2>2. 0 .. y \in SUBSET Nat /\ 0 .. x \in SUBSET Nat /\ 0 .. y # 0 .. x
    BY <2>1
  <2>3. <<0 .. y, 0 .. x>> \in R
    BY <2>1, <2>2 DEF StrictSubsetOrdering
  <2> QED BY <1>5, <2>3
<1> QED BY <1>6

(* A set of blocks has an n-th block. *)
LEMMA NthExists ==
  ASSUME NEW S \in SUBSET Block, NEW n \in Nat, 1 <= n, n <= Cardinality(S)
  PROVE  Nth(S, n) \in S /\ Cardinality({j \in S : j <= Nth(S, n)}) = n
<1> DEFINE Upto(i) == {j \in S : j <= i}
           T == {i \in Nat : Cardinality(Upto(i)) >= n}
<1>1. S \subseteq Nat /\ IsFiniteSet(S) /\ \A j \in S : 1 <= j /\ j <= K + M
  <2>1. IsFiniteSet(Block)
    BY Blocks, FS_Interval DEF Block
  <2>2. IsFiniteSet(S)
    BY <2>1, FS_Subset
  <2>3. \A j \in Block : j \in Nat /\ 1 <= j /\ j <= K + M
    BY Blocks DEF Block
  <2> QED BY <2>2, <2>3
<1>2. \A i \in Nat : IsFiniteSet(Upto(i)) /\ Cardinality(Upto(i)) \in Nat
  BY <1>1, FS_Subset, FS_CardinalityType
<1>3. Upto(K + M) = S
  BY <1>1
<1>4. K + M \in T /\ T \in SUBSET Nat
  BY <1>3, Blocks
<1> HIDE DEF T
<1>5. PICK i \in T : \A y \in T : i <= y
  BY <1>4, LeastElement
<1>6. i \in Nat /\ Cardinality(Upto(i)) >= n
  BY <1>5 DEF T
<1>7. i # 0
  <2>1. Upto(0) = {}
    <3>1. \A j \in S : ~(j <= 0)
      BY <1>1
    <3> QED BY <3>1, Zenon
  <2> QED BY <1>6, <2>1, FS_EmptySet
<1>8. i - 1 \in Nat /\ ~(Cardinality(Upto(i - 1)) >= n)
  <2>1. i - 1 \in Nat /\ i - 1 \notin T
    BY <1>5, <1>6, <1>7
  <2> QED BY <2>1 DEF T
<1>9. i \in S
  <2>1. SUFFICES ASSUME i \notin S PROVE FALSE
    OBVIOUS
  <2>2. Upto(i - 1) = Upto(i)
    <3>1. \A j \in S : j <= i <=> j <= i - 1
      BY <1>1, <1>6, <2>1
    <3> QED BY <3>1, Zenon
  <2> QED BY <1>6, <1>8, <2>2
<1>10. Upto(i) = Upto(i - 1) \cup {i}
  <2>1. \A j \in S : j <= i <=> j <= i - 1 \/ j = i
    BY <1>1, <1>6
  <2> QED BY <1>9, <2>1, Zenon
<1>11. Cardinality(Upto(i)) <= Cardinality(Upto(i - 1)) + 1
  <2>1. IsFiniteSet(Upto(i - 1)) /\ Cardinality(Upto(i - 1)) \in Nat
    BY <1>2, <1>8
  <2> HIDE DEF Upto
  <2> QED BY <1>10, <2>1, FS_AddElement
<1>12. Cardinality(Upto(i)) = n
  <2>1. Cardinality(Upto(i)) \in Nat /\ Cardinality(Upto(i - 1)) \in Nat
    BY <1>2, <1>6, <1>8
  <2> QED BY <1>6, <1>8, <1>11, <2>1
<1> QED BY <1>9, <1>12 DEF Nth

(* Taking the first element off a list without repetitions, and adding one *)
NoTwice(s) == \A i, j \in DOMAIN s : s[i] = s[j] => i = j

LEMMA ListTail ==
  ASSUME NEW s \in Seq(Comp), s # <<>>, NoTwice(s)
  PROVE  /\ Head(s) \in Comp /\ Tail(s) \in Seq(Comp) /\ NoTwice(Tail(s))
         /\ Head(s) \in RangeOf(s) /\ RangeOf(Tail(s)) = RangeOf(s) \ {Head(s)}
<1>1. /\ Len(s) \in Nat /\ Len(s) > 0 /\ Head(s) = s[1] /\ Tail(s) \in Seq(Comp)
      /\ Len(Tail(s)) = Len(s) - 1 /\ \A i \in 1 .. Len(s) - 1 : Tail(s)[i] = s[i + 1]
      /\ DOMAIN s = 1 .. Len(s)
  BY EmptySeq, LenProperties, HeadTailProperties
<1>2. DOMAIN Tail(s) = 1 .. (Len(s) - 1)
  BY <1>1, LenProperties
<1>3. NoTwice(Tail(s))
  <2> SUFFICES ASSUME NEW i \in 1 .. (Len(s) - 1), NEW j \in 1 .. (Len(s) - 1), s[i + 1] = s[j + 1]
               PROVE  i = j
    BY <1>1, <1>2 DEF NoTwice
  <2>1. i + 1 \in DOMAIN s /\ j + 1 \in DOMAIN s
    BY <1>1
  <2>2. i + 1 = j + 1
    BY <2>1 DEF NoTwice
  <2> QED BY <2>2
<1>4. 1 \in DOMAIN s /\ s[1] \in Comp
  BY <1>1, ElementOfSeq
<1>5. RangeOf(Tail(s)) \subseteq RangeOf(s) \ {s[1]}
  <2> SUFFICES ASSUME NEW i \in 1 .. (Len(s) - 1) PROVE s[i + 1] \in RangeOf(s) /\ s[i + 1] # s[1]
    BY <1>1, <1>2 DEF RangeOf
  <2>1. i + 1 \in DOMAIN s /\ i + 1 # 1
    BY <1>1
  <2> QED BY <1>4, <2>1 DEF RangeOf, NoTwice
<1>6. RangeOf(s) \ {s[1]} \subseteq RangeOf(Tail(s))
  <2> SUFFICES ASSUME NEW i \in DOMAIN s, s[i] # s[1] PROVE s[i] \in RangeOf(Tail(s))
    BY DEF RangeOf
  <2>1. i - 1 \in 1 .. (Len(s) - 1) /\ (i - 1) + 1 = i
    BY <1>1
  <2>2. Tail(s)[i - 1] = s[i]
    BY <1>1, <2>1
  <2> QED BY <1>2, <2>1, <2>2 DEF RangeOf
<1> QED BY <1>1, <1>3, <1>4, <1>5, <1>6 DEF RangeOf

LEMMA ListPush ==
  ASSUME NEW s \in Seq(Comp), NEW c \in Comp, NoTwice(s), c \notin RangeOf(s)
  PROVE  /\ <<c>> \o s \in Seq(Comp) /\ NoTwice(<<c>> \o s)
         /\ RangeOf(<<c>> \o s) = RangeOf(s) \cup {c}
<1> DEFINE p == <<c>> \o s
<1>1. /\ p \in Seq(Comp) /\ Len(s) \in Nat /\ Len(p) = Len(s) + 1 /\ p[1] = c
      /\ \A i \in 1 .. Len(s) : p[1 + i] = s[i]
      /\ DOMAIN s = 1 .. Len(s)
  <2>1. <<c>> \in Seq(Comp) /\ Len(<<c>>) = 1 /\ <<c>>[1] = c
    OBVIOUS
  <2> QED BY <2>1, ConcatProperties, LenProperties
<1>2. DOMAIN p = 1 .. (Len(s) + 1)
  BY <1>1, LenProperties
<1> HIDE DEF p
<1>3. \A i \in DOMAIN p : i = 1 \/ (i - 1 \in DOMAIN s /\ p[i] = s[i - 1])
  <2> SUFFICES ASSUME NEW i \in 1 .. (Len(s) + 1), i # 1 PROVE i - 1 \in DOMAIN s /\ p[i] = s[i - 1]
    BY <1>2
  <2>1. i - 1 \in 1 .. Len(s) /\ 1 + (i - 1) = i
    BY <1>1
  <2> QED BY <1>1, <2>1
<1>4. NoTwice(p)
  <2> SUFFICES ASSUME NEW i \in DOMAIN p, NEW j \in DOMAIN p, p[i] = p[j] PROVE i = j
    BY DEF NoTwice
  <2>1. i \in Nat /\ j \in Nat
    BY <1>1, <1>2
  <2>2. CASE i = 1 \/ j = 1
    BY <1>1, <1>3, <2>2 DEF RangeOf
  <2>3. CASE i # 1 /\ j # 1
    <3>1. i - 1 = j - 1
      BY <1>3, <2>3 DEF NoTwice
    <3> QED BY <2>1, <3>1
  <2> QED BY <2>2, <2>3
<1>5. RangeOf(p) \subseteq RangeOf(s) \cup {c}
  BY <1>1, <1>3 DEF RangeOf
<1>6. RangeOf(s) \cup {c} \subseteq RangeOf(p)
  <2>1. c \in RangeOf(p)
    BY <1>1, <1>2 DEF RangeOf
  <2>2. ASSUME NEW i \in DOMAIN s PROVE s[i] \in RangeOf(p)
    <3>1. 1 + i \in DOMAIN p /\ p[1 + i] = s[i]
      BY <1>1, <1>2
    <3> QED BY <3>1 DEF RangeOf
  <2> QED BY <2>1, <2>2 DEF RangeOf
<1> QED BY <1>1, <1>4, <1>5, <1>6 DEF p

-----------------------------------------------------------------------------
(* Types *)

LEMMA TypeParts == TypeInv => TypeOK
<1> SUFFICES ASSUME TypeInv PROVE TypeOK
  OBVIOUS
<1>1. sem \in 0 .. MaxInflight + Cardinality(Listed)
  <2>1. /\ sem \in Nat /\ IsFiniteSet(started)
        /\ sem + Cardinality(Holding) + Cardinality(started) + Carried <= MaxInflight + Cardinality(Listed)
    BY DEF TypeInv, Counted
  <2>2. Cardinality(started) \in Nat
    BY <2>1, FS_CardinalityType
  <2>3. Cardinality(Holding) \in Nat
    BY Pool, FS_Subset, FS_CardinalityType DEF Holding
  <2>4. Carried \in Nat
    BY DEF Carried
  <2> QED BY <2>1, <2>2, <2>3, <2>4, Pool
<1>2. list \in Seq(Comp) /\ started \subseteq [comp : Comp, job : 1 .. MaxJobs]
  BY DEF TypeInv, ListType, StartedType, StartedJob
<1>3. mutex \in [Comp -> Thread \union {Library, Nobody}] /\ sleeping \in [Comp -> SUBSET Thread]
  BY DEF TypeInv, SyncType
<1>4. /\ pc \in [Thread -> {"idle", "get", "pop", "erasures", "matrix", "filled", "start", "wait", "asleep",
                            "woken", "putback", "post", "crashed"}]
      /\ comp \in [Thread -> Comp] /\ job \in [Thread -> 0 .. MaxJobs]
  BY DEF TypeInv, ThreadType, Statement
<1>5. /\ scan.of \in Thread \union {Nobody} /\ scan.rest \in Seq({0, 1})
      /\ index \in [Thread -> 0 .. K + M] /\ tot \in [Thread -> 0 .. M]
  BY DEF TypeInv, ScanType, Digits
<1>6. /\ erasures \in [Comp -> [Block -> {0, 1}]]
      /\ deMat \in [Comp -> [1 .. M -> [row : 0 .. K + M, missing : SUBSET Block]]]
  BY DEF TypeInv, MarksType, MatrixType, MatrixColumn, Digits
<1>7. /\ \A t \in Thread : request[t] \in Requests[t] \union {Encode} /\ tangled \subseteq Thread
      /\ cbPc \in {"idle", "lock", "signal", "unlock", "put", "post"} /\ cbComp \in Comp
      /\ jobs \in 0 .. MaxJobs /\ finished \subseteq 1 .. jobs /\ abandoned \subseteq Comp
  BY DEF TypeInv, RequestType, LibraryType
<1> QED BY <1>1, <1>2, <1>3, <1>4, <1>5, <1>6, <1>7 DEF TypeOK

LEMMA TypeInit == Init => TypeInv
<1> SUFFICES ASSUME Init PROVE TypeInv
  OBVIOUS
<1>1. ListType
  <2>1. list \in [1 .. Cardinality(Listed) -> Listed]
    BY DEF Init, InitialLists, Descending
  <2>2. list \in [1 .. Cardinality(Listed) -> Comp]
    BY <2>1, Pool
  <2> QED BY <2>2, Pool DEF ListType
<1>2. SyncType /\ ThreadType /\ StartedType
  <2>1. 0 \in 0 .. MaxJobs
    BY PoolAssumption
  <2> QED BY <2>1, Pool DEF Init, SyncType, ThreadType, StartedType, Statement
<1>3. ScanType
  <2>1. 0 \in 0 .. K + M /\ 0 \in 0 .. M /\ <<>> \in Seq(Digits)
    BY Blocks, EmptySeq
  <2> QED BY <2>1 DEF Init, ScanType
<1>4. MarksType
  BY DEF Init, MarksType, Digits
<1>5. MatrixType
  <2>1. [row |-> 0, missing |-> {}] \in MatrixColumn
    BY Blocks DEF MatrixColumn
  <2> QED BY <2>1 DEF Init, MatrixType
<1>6. RequestType
  <2>1. Encode \in Seq(Digits)
    BY EmptySeq DEF Encode
  <2> QED BY <2>1 DEF Init, RequestType
<1>7. LibraryType
  BY Pool, PoolAssumption DEF Init, LibraryType
<1>8. Counted
  <2>1. Holding = {} /\ Carried = 0 /\ started = {} /\ sem = MaxInflight + Cardinality(Listed)
    BY DEF Init, Holding, Carried
  <2> QED BY <2>1, FS_EmptySet, Pool DEF Counted
<1>9. OwnJobs
  BY DEF Init, OwnJobs
<1> QED BY <1>1, <1>2, <1>3, <1>4, <1>5, <1>6, <1>7, <1>8, <1>9 DEF TypeInv

LEMMA ListTypeStep == TypeInv /\ [Next]_vars => ListType'
<1> SUFFICES ASSUME TypeInv, [Next]_vars PROVE ListType'
  OBVIOUS
<1>1. ListType /\ ThreadType /\ LibraryType
  BY DEF TypeInv
<1>2. ASSUME NEW t \in Thread, Pop(t) PROVE ListType'
  <2>1. list' = list \/ (list # <<>> /\ list' = Tail(list))
    BY <1>2 DEF Pop
  <2> QED BY <1>1, <2>1, HeadTailProperties DEF ListType
<1>3. ASSUME NEW c \in Comp, list' = <<c>> \o list PROVE ListType'
  BY <1>1, <1>3, ConcatProperties DEF ListType
<1>4. ASSUME NEW t \in Thread, PutBack(t) PROVE ListType'
  BY <1>1, <1>3, <1>4 DEF PutBack, ThreadType
<1>5. CASE DonePut
  BY <1>1, <1>3, <1>5 DEF DonePut, LibraryType
<1>6. CASE UNCHANGED list
  BY <1>1, <1>6 DEF ListType
<1> QED
  BY <1>2, <1>4, <1>5, <1>6 DEF Next, ThreadStep, LibraryStep, Call, SemWait, Token, Matrix, LockComp,
     Start, StartError, PostBack, CondWait, Wake, Return, Finish, DoneLock, DoneSignal, DoneUnlock,
     DonePost, poolVars, vars

LEMMA SyncTypeStep == TypeInv /\ [Next]_vars => SyncType'
<1> SUFFICES ASSUME TypeInv, [Next]_vars PROVE SyncType'
  OBVIOUS
<1>1. SyncType /\ ThreadType /\ LibraryType
  BY DEF TypeInv
<1>2. ASSUME NEW t \in Thread, LockComp(t) \/ CondWait(t) \/ Wake(t) \/ Return(t) PROVE SyncType'
  <2>1. comp[t] \in Comp
    BY <1>1 DEF ThreadType
  <2> QED BY <1>1, <1>2, <2>1 DEF SyncType, LockComp, CondWait, Wake, Return
<1>3. CASE DoneLock \/ DoneUnlock \/ DoneSignal
  <2>1. cbComp \in Comp
    BY <1>1 DEF LibraryType
  <2> QED BY <1>1, <1>3, <2>1 DEF SyncType, DoneLock, DoneUnlock, DoneSignal
<1>4. CASE UNCHANGED syncVars
  BY <1>1, <1>4 DEF SyncType, syncVars
<1> QED
  BY <1>2, <1>3, <1>4 DEF Next, ThreadStep, LibraryStep, Call, SemWait, Pop, Token, Matrix,
     Start, StartError, PutBack, PostBack, Finish, DonePut, DonePost, vars

(* What a step of a thread leaves to the others, and the statement it goes to *)
LEMMA ThreadTypeStep == TypeInv /\ [Next]_vars => ThreadType'
<1> SUFFICES ASSUME TypeInv, [Next]_vars PROVE ThreadType'
  OBVIOUS
<1>1. ThreadType /\ ListType /\ LibraryType /\ 1 \in Comp /\ 0 \in 0 .. MaxJobs
  BY Pool, PoolAssumption DEF TypeInv
<1>2. ASSUME NEW t \in Thread, NEW l \in Statement, Goto(t, l), UNCHANGED <<comp, job>>
      PROVE  ThreadType'
  BY <1>1, <1>2 DEF ThreadType, Goto
<1>3. ASSUME NEW t \in Thread, Call(t) PROVE ThreadType'
  <2>1. jobs + 1 \in 0 .. MaxJobs
    BY <1>1, <1>3, PoolAssumption DEF Call, LibraryType
  <2> QED BY <1>1, <1>3, <2>1 DEF Call, Goto, ThreadType, Statement
<1>4. ASSUME NEW t \in Thread, Pop(t) PROVE ThreadType'
  <2>1. CASE list = <<>>
    BY <1>2, <1>4, <2>1 DEF Pop, Statement
  <2>2. CASE list # <<>>
    <3>1. Head(list) \in Comp
      BY <1>1, <2>2, HeadTailProperties DEF ListType
    <3> QED BY <1>1, <1>4, <2>2, <3>1 DEF Pop, Goto, ThreadType, Statement
  <2> QED BY <2>1, <2>2
<1>5. ASSUME NEW t \in Thread, Leave(t) PROVE ThreadType'
  BY <1>1, <1>5 DEF Leave, Goto, ThreadType, Statement
<1>6. ASSUME NEW t \in Thread, Token(t) PROVE ThreadType'
  <2>1. comp' = comp /\ job' = job /\ (pc' = pc \/ \E l \in Statement : Goto(t, l))
    BY <1>6 DEF Token, Statement
  <2>2. CASE pc' = pc
    BY <1>1, <2>1, <2>2 DEF ThreadType
  <2> QED BY <1>2, <2>1, <2>2
<1>7. ASSUME NEW t \in Thread,
             SemWait(t) \/ Matrix(t) \/ LockComp(t) \/ Start(t) \/ StartError(t) \/ PutBack(t)
             \/ CondWait(t) \/ Wake(t)
      PROVE  ThreadType'
  <2>1. comp' = comp /\ job' = job /\ \E l \in Statement : Goto(t, l)
    BY <1>7 DEF SemWait, Matrix, LockComp, Start, StartError, PutBack, CondWait, Wake, Statement
  <2> QED BY <1>2, <2>1
<1>8. CASE UNCHANGED threadVars
  BY <1>1, <1>8 DEF ThreadType, threadVars
<1>9. \/ UNCHANGED threadVars
      \/ \E t \in Thread : \/ Call(t) \/ Pop(t) \/ Leave(t) \/ Token(t)
                           \/ SemWait(t) \/ Matrix(t) \/ LockComp(t) \/ Start(t) \/ StartError(t)
                           \/ PutBack(t) \/ CondWait(t) \/ Wake(t)
  BY DEF Next, ThreadStep, LibraryStep, PostBack, Return, Finish, DoneLock, DoneSignal, DoneUnlock,
     DonePut, DonePost, vars
<1> QED BY <1>3, <1>4, <1>5, <1>6, <1>7, <1>8, <1>9

LEMMA StartedTypeStep == TypeInv /\ [Next]_vars => StartedType'
<1> SUFFICES ASSUME TypeInv, [Next]_vars PROVE StartedType'
  OBVIOUS
<1>1. ThreadType /\ StartedType /\ OwnJobs /\ LibraryType
  BY DEF TypeInv
<1>2. ASSUME NEW t \in Thread, Start(t) PROVE StartedType'
  <2>1. pc[t] # "idle" /\ started' = started \union {[comp |-> comp[t], job |-> job[t]]}
    BY <1>2 DEF Start
  <2>2. job[t] \in 1 .. MaxJobs /\ comp[t] \in Comp
    BY <1>1, <2>1, PoolAssumption DEF OwnJobs, LibraryType, ThreadType
  <2> QED BY <1>1, <2>1, <2>2 DEF StartedType, StartedJob
<1>3. started' \subseteq started \/ \E t \in Thread : Start(t)
  BY DEF Next, ThreadStep, LibraryStep, Call, SemWait, Pop, Token, Matrix, LockComp, StartError,
     PutBack, PostBack, Leave, CondWait, Wake, Return, Finish, DoneLock, DoneSignal, DoneUnlock,
     DonePut, DonePost, libraryVars, vars
<1> QED BY <1>1, <1>2, <1>3 DEF StartedType

(* The texts strtok may read are made of digits. *)
LEMMA TextDigits ==
  ASSUME RequestType, ScanType, NEW t \in Thread, NEW text \in Texts(t)
  PROVE  /\ text \in Seq(Digits)
         /\ text # <<>> => Head(text) \in Digits /\ Tail(text) \in Seq(Digits)
<1>1. text \in Seq(Digits)
  <2>1. <<>> \in Seq(Digits) /\ <<0>> \in Seq(Digits) /\ <<1>> \in Seq(Digits)
    BY DEF Digits
  <2>2. request[t] \in Seq(Digits) /\ scan.rest \in Seq(Digits)
    BY DEF RequestType, ScanType
  <2> QED BY <2>1, <2>2 DEF Texts
<1> QED BY <1>1, HeadTailProperties

(* One round of the loop either ends it or marks a block. *)
LEMMA TokenCases ==
  ASSUME TypeInv, NEW t \in Thread, Token(t)
  PROVE  \E text \in Texts(t) :
           /\ pc[t] = "erasures"
           /\ scan' = [of |-> IF index[t] = 0 THEN t ELSE scan.of,
                       rest |-> IF text = <<>> THEN <<>> ELSE Tail(text)]
           /\ \/ /\ text = <<>> \/ index[t] = K + M
                 /\ Goto(t, IF text = <<>> THEN "matrix" ELSE "putback")
                 /\ index' = [index EXCEPT ![t] = 0] /\ tot' = [tot EXCEPT ![t] = 0]
                 /\ UNCHANGED erasures
              \/ /\ text # <<>> /\ index[t] # K + M
                 /\ erasures' = [erasures EXCEPT ![comp[t]] = Mark(@, index[t] + 1, Head(text))]
                 /\ \/ /\ tot[t] + Head(text) > M /\ Goto(t, "putback")
                       /\ index' = [index EXCEPT ![t] = 0] /\ tot' = [tot EXCEPT ![t] = 0]
                    \/ /\ ~(tot[t] + Head(text) > M) /\ UNCHANGED pc
                       /\ index' = [index EXCEPT ![t] = @ + 1]
                       /\ tot' = [tot EXCEPT ![t] = @ + Head(text)]
  BY DEF Token

LEMMA ScanTypeStep == TypeInv /\ [Next]_vars => ScanType'
<1> SUFFICES ASSUME TypeInv, [Next]_vars PROVE ScanType'
  OBVIOUS
<1>1. ScanType /\ RequestType /\ 0 \in 0 .. K + M /\ 0 \in 0 .. M /\ <<>> \in Seq(Digits)
  BY Blocks, EmptySeq DEF TypeInv
<1>2. ASSUME NEW t \in Thread, Token(t) PROVE ScanType'
  <2>1. PICK text \in Texts(t) :
           /\ scan' = [of |-> IF index[t] = 0 THEN t ELSE scan.of,
                       rest |-> IF text = <<>> THEN <<>> ELSE Tail(text)]
           /\ \/ index' = [index EXCEPT ![t] = 0] /\ tot' = [tot EXCEPT ![t] = 0]
              \/ /\ text # <<>> /\ index[t] # K + M /\ ~(tot[t] + Head(text) > M)
                 /\ index' = [index EXCEPT ![t] = @ + 1]
                 /\ tot' = [tot EXCEPT ![t] = @ + Head(text)]
    BY <1>2, TokenCases
  <2>2. text # <<>> => Head(text) \in Digits /\ Tail(text) \in Seq(Digits)
    BY <1>1, TextDigits
  <2>3. scan'.of \in Thread \union {Nobody} /\ scan'.rest \in Seq(Digits)
    BY <1>1, <2>1, <2>2 DEF ScanType
  <2>4. index' \in [Thread -> 0 .. K + M]
    <3>1. index[t] \in 0 .. K + M
      BY <1>1 DEF ScanType
    <3>2. index[t] # K + M => index[t] + 1 \in 0 .. K + M
      BY <3>1, Blocks
    <3>3. index' = [index EXCEPT ![t] = 0] \/ (index[t] # K + M /\ index' = [index EXCEPT ![t] = @ + 1])
      BY <2>1
    <3> QED BY <1>1, <3>2, <3>3 DEF ScanType
  <2>5. tot' \in [Thread -> 0 .. M]
    <3>1. text # <<>> /\ ~(tot[t] + Head(text) > M) => tot[t] + Head(text) \in 0 .. M
      BY <1>1, <2>2, Blocks DEF ScanType, Digits
    <3> QED BY <1>1, <2>1, <3>1 DEF ScanType
  <2> QED BY <2>3, <2>4, <2>5 DEF ScanType
<1>3. ASSUME NEW t \in Thread, Leave(t) PROVE ScanType'
  BY <1>1, <1>3 DEF Leave, ScanType
<1>4. CASE UNCHANGED <<scan, index, tot>>
  BY <1>1, <1>4 DEF ScanType
<1> QED
  BY <1>2, <1>3, <1>4 DEF Next, ThreadStep, LibraryStep, Call, SemWait, Pop, Matrix, LockComp, Start,
     StartError, PutBack, PostBack, CondWait, Wake, Return, Finish, DoneLock, DoneSignal, DoneUnlock,
     DonePut, DonePost, decodeVars, vars

LEMMA MarksTypeStep == TypeInv /\ [Next]_vars => MarksType'
<1> SUFFICES ASSUME TypeInv, [Next]_vars PROVE MarksType'
  OBVIOUS
<1>1. MarksType /\ ScanType /\ RequestType /\ ThreadType
  BY DEF TypeInv
<1>2. ASSUME NEW t \in Thread, Token(t) PROVE MarksType'
  <2>1. PICK text \in Texts(t) :
           \/ UNCHANGED erasures
           \/ /\ text # <<>> /\ index[t] # K + M
              /\ erasures' = [erasures EXCEPT ![comp[t]] = Mark(@, index[t] + 1, Head(text))]
    BY <1>2, TokenCases
  <2>2. CASE UNCHANGED erasures
    BY <1>1, <2>2 DEF MarksType
  <2>3. CASE text # <<>> /\ index[t] # K + M
             /\ erasures' = [erasures EXCEPT ![comp[t]] = Mark(@, index[t] + 1, Head(text))]
    <3>1. Head(text) \in Digits /\ comp[t] \in Comp
      BY <1>1, <2>3, TextDigits DEF ThreadType
    <3>2. Mark(erasures[comp[t]], index[t] + 1, Head(text)) \in [Block -> Digits]
      BY <1>1, <3>1 DEF MarksType, Mark
    <3> QED BY <1>1, <2>3, <3>1, <3>2 DEF MarksType
  <2> QED BY <2>1, <2>2, <2>3
<1>3. UNCHANGED erasures \/ \E t \in Thread : Token(t)
  BY DEF Next, ThreadStep, LibraryStep, Call, SemWait, Pop, Matrix, LockComp, Start, StartError,
     PutBack, PostBack, Leave, CondWait, Wake, Return, Finish, DoneLock, DoneSignal, DoneUnlock,
     DonePut, DonePost, decodeVars, vars
<1> QED BY <1>1, <1>2, <1>3 DEF MarksType

(* Columns are made for the blocks that are marked, and only for those. *)
LEMMA ColumnsType ==
  ASSUME NEW old \in [1 .. M -> MatrixColumn], NEW S \in SUBSET Block
  PROVE  Columns(old, S) \in [1 .. M -> MatrixColumn]
<1> SUFFICES ASSUME NEW l \in 1 .. M, l <= Cardinality(S) PROVE Column(Nth(S, l), S) \in MatrixColumn
  BY DEF Columns
<1>1. Nth(S, l) \in Block
  <2>1. l \in Nat /\ 1 <= l
    BY Blocks
  <2> QED BY <2>1, NthExists
<1>2. Nth(S, l) \in 0 .. K + M
  BY <1>1, Blocks DEF Block
<1> QED BY <1>2 DEF Column, MatrixColumn

LEMMA MatrixTypeStep == TypeInv /\ [Next]_vars => MatrixType'
<1> SUFFICES ASSUME TypeInv, [Next]_vars PROVE MatrixType'
  OBVIOUS
<1>1. MatrixType /\ ThreadType
  BY DEF TypeInv
<1>2. ASSUME NEW t \in Thread, Matrix(t) PROVE MatrixType'
  <2>1. \/ UNCHANGED deMat
        \/ deMat' = [deMat EXCEPT ![comp[t]] = Columns(@, Erased(erasures[comp[t]]))]
    BY <1>2 DEF Matrix
  <2>2. comp[t] \in Comp /\ Erased(erasures[comp[t]]) \in SUBSET Block
    BY <1>1 DEF ThreadType, Erased
  <2>3. Columns(deMat[comp[t]], Erased(erasures[comp[t]])) \in [1 .. M -> MatrixColumn]
    BY <1>1, <2>2, ColumnsType DEF MatrixType
  <2> QED BY <1>1, <2>1, <2>2, <2>3 DEF MatrixType
<1>3. UNCHANGED deMat \/ \E t \in Thread : Matrix(t)
  BY DEF Next, ThreadStep, LibraryStep, Call, SemWait, Pop, Token, LockComp, Start, StartError,
     PutBack, PostBack, Leave, CondWait, Wake, Return, Finish, DoneLock, DoneSignal, DoneUnlock,
     DonePut, DonePost, decodeVars, vars
<1> QED BY <1>1, <1>2, <1>3 DEF MatrixType

LEMMA RequestTypeStep == TypeInv /\ [Next]_vars => RequestType'
<1> SUFFICES ASSUME TypeInv, [Next]_vars PROVE RequestType'
  OBVIOUS
<1>1. RequestType /\ ThreadType
  BY DEF TypeInv
<1>2. ASSUME NEW t \in Thread, NEW r \in Requests[t] \union {Encode},
             request' = [request EXCEPT ![t] = r], tangled' \subseteq Thread
      PROVE  RequestType'
  BY <1>1, <1>2, Blocks DEF RequestType
<1>3. ASSUME NEW t \in Thread, Call(t) PROVE RequestType'
  <2>1. tangled' = tangled /\ tangled \subseteq Thread
    BY <1>1, <1>3 DEF Call, decodeVars, RequestType
  <2> QED BY <1>2, <1>3, <2>1 DEF Call
<1>4. ASSUME NEW t \in Thread, Leave(t) PROVE RequestType'
  <2>1. tangled' \subseteq Thread
    BY <1>1, <1>4 DEF Leave, RequestType
  <2> QED BY <1>2, <1>4, <2>1 DEF Leave
<1>5. ASSUME NEW t \in Thread, Token(t) PROVE RequestType'
  <2>1. request' = request /\ (tangled' = tangled \/ tangled' = tangled \union {t} \union {u \in Thread \ {t} : Extracting(u)})
    BY <1>5 DEF Token, callVars
  <2> QED BY <1>1, <2>1 DEF RequestType
<1>6. CASE UNCHANGED <<request, tangled>>
  BY <1>1, <1>6 DEF RequestType
<1> QED
  BY <1>3, <1>4, <1>5, <1>6 DEF Next, ThreadStep, LibraryStep, SemWait, Pop, Matrix, LockComp, Start,
     StartError, PutBack, PostBack, CondWait, Wake, Return, Finish, DoneLock, DoneSignal, DoneUnlock,
     DonePut, DonePost, decodeVars, callVars, vars

LEMMA LibraryTypeStep == TypeInv /\ [Next]_vars => LibraryType'
<1> SUFFICES ASSUME TypeInv, [Next]_vars PROVE LibraryType'
  OBVIOUS
<1>1. LibraryType /\ ThreadType /\ StartedType /\ OwnJobs /\ 1 \in Comp
  BY Pool DEF TypeInv
<1>2. cbPc' \in {"idle", "lock", "signal", "unlock", "put", "post"} /\ cbComp' \in Comp
  <2>1. \/ UNCHANGED cbPc
        \/ cbPc' \in {"idle", "lock", "signal", "unlock", "put", "post"}
    BY DEF Next, ThreadStep, LibraryStep, Call, SemWait, Pop, Token, Matrix, LockComp, Start, StartError,
       PutBack, PostBack, Leave, CondWait, Wake, Return, Finish, DoneLock, DoneSignal, DoneUnlock,
       DonePut, DonePost, libraryVars, vars
  <2>2. UNCHANGED cbComp \/ cbComp' = 1 \/ \E s \in started : cbComp' = s.comp
    BY DEF Next, ThreadStep, LibraryStep, Call, SemWait, Pop, Token, Matrix, LockComp, Start, StartError,
       PutBack, PostBack, Leave, CondWait, Wake, Return, Finish, DoneLock, DoneSignal, DoneUnlock,
       DonePut, DonePost, libraryVars, vars
  <2> QED BY <1>1, <2>1, <2>2 DEF LibraryType, StartedType, StartedJob
<1>3. abandoned' \subseteq Comp
  <2>1. UNCHANGED abandoned \/ \E t \in Thread : abandoned' = abandoned \union {comp[t]}
    BY DEF Next, ThreadStep, LibraryStep, Call, SemWait, Pop, Token, Matrix, LockComp, Start, StartError,
       PutBack, PostBack, Leave, CondWait, Wake, Return, Finish, DoneLock, DoneSignal, DoneUnlock,
       DonePut, DonePost, vars
  <2> QED BY <1>1, <2>1 DEF LibraryType, ThreadType
<1>4. jobs' \in 0 .. MaxJobs /\ finished' \subseteq 1 .. jobs'
  <2>1. CASE Finish
    BY <1>1, <2>1 DEF Finish, callVars, LibraryType, OwnJobs
  <2>2. CASE \E t \in Thread : Call(t)
    <3>1. jobs' = jobs + 1 /\ jobs < MaxJobs /\ finished' = finished
      BY <2>2 DEF Call, libraryVars
    <3> QED BY <1>1, <3>1, PoolAssumption DEF LibraryType
  <2>3. CASE jobs' = jobs /\ finished' \subseteq finished
    BY <1>1, <2>3 DEF LibraryType
  <2> QED
    BY <2>1, <2>2, <2>3 DEF Next, ThreadStep, LibraryStep, SemWait, Pop, Token, Matrix, LockComp, Start,
       StartError, PutBack, PostBack, Leave, CondWait, Wake, Return, DoneLock, DoneSignal, DoneUnlock,
       DonePut, DonePost, libraryVars, callVars, vars
<1> QED BY <1>2, <1>3, <1>4 DEF LibraryType


-----------------------------------------------------------------------------
(* The semaphore *)

(* Where a thread holds what it took from the semaphore *)
HoldAt == {"pop", "erasures", "matrix", "filled", "start", "putback", "post"}

LEMMA HoldingMoves ==
  ASSUME ThreadType, NEW t \in Thread, NEW l, Goto(t, l)
  PROVE  Holding' = IF l \in HoldAt THEN Holding \union {t} ELSE Holding \ {t}
<1>1. \A u \in Thread : pc'[u] = IF u = t THEN l ELSE pc[u]
  BY DEF ThreadType, Goto
<1>2. Holding = {u \in Thread : pc[u] \in HoldAt} /\ Holding' = {u \in Thread : pc'[u] \in HoldAt}
  BY DEF Holding, HoldAt
<1> QED BY <1>1, <1>2

LEMMA HoldingFinite ==
  ThreadType => IsFiniteSet(Holding) /\ Cardinality(Holding) \in Nat
BY Pool, FS_Subset, FS_CardinalityType DEF Holding

LEMMA FewerHolding ==
  ASSUME ThreadType, NEW S, S \subseteq Holding
  PROVE  Cardinality(S) \in Nat /\ Cardinality(S) <= Cardinality(Holding)
BY HoldingFinite, FS_Subset, FS_CardinalityType

LEMMA CountedStep == TypeInv /\ [Next]_vars => Counted'
<1> SUFFICES ASSUME TypeInv, [Next]_vars PROVE Counted'
  OBVIOUS
<1> DEFINE H == Cardinality(Holding)
           W == Cardinality(started)
           Total == MaxInflight + Cardinality(Listed)
<1>1. /\ ThreadType /\ IsFiniteSet(started) /\ IsFiniteSet(Holding)
      /\ sem \in Nat /\ H \in Nat /\ W \in Nat /\ Total \in Nat /\ Carried \in {0, 1}
      /\ sem + H + W + Carried <= Total
  BY Pool, HoldingFinite, FS_CardinalityType DEF TypeInv, Counted, Carried
<1>2. ASSUME NEW t \in Thread, SemWait(t) PROVE Counted'
  <2>1. /\ sem' = sem - 1 /\ sem > 0 /\ Goto(t, "pop") /\ started' = started /\ Carried' = Carried
        /\ t \notin Holding
    BY <1>2 DEF SemWait, libraryVars, Carried, Holding
  <2>2. Holding' = Holding \union {t}
    BY <1>1, <2>1, HoldingMoves DEF HoldAt
  <2>3. Cardinality(Holding') = H + 1
    BY <1>1, <2>1, <2>2, FS_AddElement
  <2>4. sem' \in Nat /\ sem' + Cardinality(Holding') + W + Carried <= Total
    BY <1>1, <2>1, <2>3
  <2> QED BY <1>1, <2>1, <2>4 DEF Counted
<1>3. ASSUME NEW t \in Thread, Start(t) PROVE Counted'
  <2>1. /\ sem' = sem /\ Goto(t, "wait") /\ Carried' = Carried /\ t \in Holding
        /\ started' = started \union {[comp |-> comp[t], job |-> job[t]]}
    BY <1>3 DEF Start, poolVars, Carried, Holding
  <2>2. Holding' = Holding \ {t}
    BY <1>1, <2>1, HoldingMoves DEF HoldAt
  <2>3. Cardinality(Holding') = H - 1
    BY <1>1, <2>1, <2>2, FS_RemoveElement
  <2>4. IsFiniteSet(started') /\ (Cardinality(started') = W \/ Cardinality(started') = W + 1)
    BY <1>1, <2>1, FS_AddElement
  <2>5. sem' + Cardinality(Holding') + Cardinality(started') + Carried <= Total
    BY <1>1, <2>1, <2>3, <2>4
  <2> QED BY <1>1, <2>1, <2>4, <2>5 DEF Counted
<1>4. ASSUME NEW t \in Thread, PostBack(t) PROVE Counted'
  <2>1. /\ sem' = sem + 1 /\ Goto(t, "idle") /\ Carried' = Carried /\ t \in Holding /\ started' = started
    BY <1>4 DEF PostBack, Leave, Carried, Holding
  <2>2. Holding' = Holding \ {t}
    BY <1>1, <2>1, HoldingMoves DEF HoldAt
  <2>3. Cardinality(Holding') = H - 1
    BY <1>1, <2>1, <2>2, FS_RemoveElement
  <2>4. sem' \in Nat /\ sem' + Cardinality(Holding') + W + Carried <= Total
    BY <1>1, <2>1, <2>3
  <2> QED BY <1>1, <2>1, <2>4 DEF Counted
<1>5. CASE Finish
  <2>1. sem' = sem /\ pc' = pc /\ Carried = 0 /\ Carried' = 1
    BY <1>5 DEF Finish, poolVars, threadVars, Carried
  <2>2. PICK s \in started : started' = started \ {s}
    BY <1>5 DEF Finish
  <2>3. Holding' = Holding
    BY <2>1 DEF Holding
  <2>4. IsFiniteSet(started') /\ Cardinality(started') = W - 1
    BY <1>1, <2>2, FS_RemoveElement
  <2>5. sem' + H + Cardinality(started') + Carried' <= Total
    BY <1>1, <2>1, <2>4
  <2> QED BY <1>1, <2>1, <2>3, <2>4, <2>5 DEF Counted
<1>6. CASE DonePost
  <2>1. sem' = sem + 1 /\ pc' = pc /\ started' = started /\ Carried = 1 /\ Carried' = 0
    BY <1>6 DEF DonePost, threadVars, Carried
  <2>2. Holding' = Holding
    BY <2>1 DEF Holding
  <2>3. sem' \in Nat /\ sem' + H + W + Carried' <= Total
    BY <1>1, <2>1
  <2> QED BY <1>1, <2>1, <2>2, <2>3 DEF Counted
<1>7. ASSUME sem' = sem, started' = started, Carried' = Carried, Holding' \subseteq Holding PROVE Counted'
  <2>1. Cardinality(Holding') \in Nat /\ Cardinality(Holding') <= H
    BY <1>1, <1>7, FewerHolding
  <2>2. sem' + Cardinality(Holding') + W + Carried' <= Total
    BY <1>1, <1>7, <2>1
  <2> QED BY <1>1, <1>7, <2>2 DEF Counted
<1>8. ASSUME NEW t \in Thread, NEW l, Goto(t, l), l \in HoldAt => t \in Holding PROVE Holding' \subseteq Holding
  BY <1>1, <1>8, HoldingMoves
<1>9. ASSUME NEW t \in Thread,
             Call(t) \/ Pop(t) \/ Token(t) \/ Matrix(t) \/ LockComp(t) \/ StartError(t)
             \/ PutBack(t) \/ CondWait(t) \/ Wake(t) \/ Return(t)
      PROVE  Counted'
  <2>1. sem' = sem /\ started' = started /\ cbPc' = cbPc
    BY <1>9 DEF Call, Pop, Token, Matrix, LockComp, StartError, PutBack, CondWait, Wake, Return, Leave,
       poolVars, libraryVars
  <2>2. Carried' = Carried
    BY <2>1 DEF Carried
  <2>3. UNCHANGED pc \/ \E l : Goto(t, l) /\ (l \in HoldAt => t \in Holding)
    BY <1>9 DEF Call, Pop, Token, Matrix, LockComp, StartError, PutBack, CondWait, Wake, Return, Leave,
       Holding, HoldAt
  <2>4. Holding' \subseteq Holding
    <3>1. CASE UNCHANGED pc
      BY <3>1 DEF Holding
    <3> QED BY <2>3, <3>1, <1>8
  <2> QED BY <2>1, <2>2, <2>4, <1>7
<1>10. CASE DoneLock \/ DoneSignal \/ DoneUnlock \/ DonePut
  <2>1. sem' = sem /\ started' = started /\ pc' = pc /\ Carried' = Carried
    BY <1>10 DEF DoneLock, DoneSignal, DoneUnlock, DonePut, poolVars, threadVars, Carried
  <2>2. Holding' = Holding
    BY <2>1 DEF Holding
  <2> QED BY <2>1, <2>2, <1>7
<1>11. CASE UNCHANGED vars
  <2>1. sem' = sem /\ started' = started /\ pc' = pc /\ cbPc' = cbPc
    BY <1>11 DEF vars, poolVars, libraryVars, threadVars
  <2>2. Holding' = Holding /\ Carried' = Carried
    BY <2>1 DEF Holding, Carried
  <2> QED BY <2>1, <2>2, <1>7
<1> QED
  BY <1>2, <1>3, <1>4, <1>5, <1>6, <1>9, <1>10, <1>11 DEF Next, ThreadStep, LibraryStep

(* A call's number is new when it is made, and nobody else's later. *)
LEMMA OwnJobsStep == TypeInv /\ [Next]_vars => OwnJobs'
<1> SUFFICES ASSUME TypeInv, [Next]_vars PROVE OwnJobs'
  OBVIOUS
<1>1. OwnJobs /\ ThreadType /\ LibraryType
  BY DEF TypeInv
<1>2. ASSUME NEW t \in Thread, Call(t) PROVE OwnJobs'
  <2>1. /\ jobs' = jobs + 1 /\ jobs \in Nat /\ started' = started
        /\ job' = [job EXCEPT ![t] = jobs + 1] /\ Goto(t, "get")
    BY <1>1, <1>2, PoolAssumption DEF Call, libraryVars, LibraryType
  <2>2. \A u \in Thread : /\ job'[u] = IF u = t THEN jobs + 1 ELSE job[u]
                          /\ pc'[u] = IF u = t THEN "get" ELSE pc[u]
    BY <1>1, <2>1 DEF ThreadType, Goto
  <2>3. \A n \in 1 .. jobs : n \in 1 .. jobs' /\ n # jobs + 1
    BY <2>1
  <2>4. jobs + 1 \in 1 .. jobs'
    BY <2>1
  <2> QED BY <1>1, <2>1, <2>2, <2>3, <2>4 DEF OwnJobs
<1>3. ASSUME NEW t \in Thread, Leave(t), started' = started PROVE OwnJobs'
  <2>1. \A u \in Thread : pc'[u] # "idle" => pc[u] # "idle" /\ job'[u] = job[u]
    BY <1>1, <1>3 DEF Leave, Goto, ThreadType
  <2> QED BY <1>1, <1>3, <2>1 DEF OwnJobs, Leave
<1>4. ASSUME NEW t \in Thread, Start(t) PROVE OwnJobs'
  <2>1. /\ pc[t] # "idle" /\ started' = started \union {[comp |-> comp[t], job |-> job[t]]}
        /\ job' = job /\ jobs' = jobs /\ Goto(t, "wait")
    BY <1>4 DEF Start, callVars
  <2>2. \A u \in Thread : pc'[u] # "idle" => pc[u] # "idle"
    BY <1>1, <2>1 DEF ThreadType, Goto
  <2> QED BY <1>1, <2>1, <2>2 DEF OwnJobs
<1>5. ASSUME started' \subseteq started, job' = job, jobs' = jobs,
             \A u \in Thread : pc'[u] # "idle" => pc[u] # "idle"
      PROVE  OwnJobs'
  BY <1>1, <1>5 DEF OwnJobs
<1>6. ASSUME NEW t \in Thread,
             SemWait(t) \/ Pop(t) \/ Token(t) \/ Matrix(t) \/ LockComp(t) \/ StartError(t)
             \/ PutBack(t) \/ CondWait(t) \/ Wake(t)
      PROVE  OwnJobs'
  <2>1. started' = started /\ job' = job /\ jobs' = jobs
    BY <1>6 DEF SemWait, Pop, Token, Matrix, LockComp, StartError, PutBack, CondWait, Wake,
       libraryVars, callVars
  <2>2. pc[t] # "idle" /\ (UNCHANGED pc \/ \E l : Goto(t, l))
    BY <1>6 DEF SemWait, Pop, Token, Matrix, LockComp, StartError, PutBack, CondWait, Wake
  <2>3. \A u \in Thread : pc'[u] # "idle" => pc[u] # "idle"
    BY <1>1, <2>2 DEF ThreadType, Goto
  <2> QED BY <2>1, <2>3, <1>5
<1>7. CASE LibraryStep \/ UNCHANGED vars
  <2>1. started' \subseteq started /\ job' = job /\ jobs' = jobs /\ pc' = pc
    BY <1>7 DEF LibraryStep, Finish, DoneLock, DoneSignal, DoneUnlock, DonePut, DonePost,
       libraryVars, callVars, threadVars, vars
  <2> QED BY <2>1, <1>5
<1>8. ASSUME NEW t \in Thread, PostBack(t) \/ Return(t) PROVE OwnJobs'
  BY <1>3, <1>8 DEF PostBack, Return, Leave
<1> QED
  BY <1>2, <1>4, <1>6, <1>7, <1>8 DEF Next, ThreadStep

LEMMA TypeStep == TypeInv /\ [Next]_vars => TypeInv'
BY ListTypeStep, SyncTypeStep, StartedTypeStep, ThreadTypeStep, ScanTypeStep, MarksTypeStep,
   MatrixTypeStep, RequestTypeStep, LibraryTypeStep, CountedStep, OwnJobsStep DEF TypeInv

(* TypeInv is an inductive invariant. *)
LEMMA TypeInvariant == Spec => []TypeInv
BY TypeInit, TypeStep, PTL DEF Spec

(* Every variable has the type TypeOK gives it; in particular the          *)
(* semaphore never exceeds what it starts with, although two parties post  *)
(* it (put_ec_comp() for a call that failed, and the callback).            *)
THEOREM TypesHold == Spec => []TypeOK
BY TypeInvariant, TypeParts, PTL

-----------------------------------------------------------------------------
(* A calculation is in one place *)

OnList == RangeOf(list)
CallbackHas == cbPc \in {"lock", "signal", "unlock", "put"}

(* No two places hold the same calculation. *)
Distinct ==
    /\ NoTwice(list) /\ OnList \subseteq Listed
    /\ \A t \in Taken : comp[t] \in Listed \ OnList
    /\ \A t, u \in Taken : comp[t] = comp[u] => t = u
    /\ \A s \in started : s.comp \in Listed \ OnList /\ \A t \in Taken : comp[t] # s.comp
    /\ \A s, r \in started : s.comp = r.comp => s = r
    /\ CallbackHas => /\ cbComp \in Listed \ OnList
                      /\ \A t \in Taken : comp[t] # cbComp
                      /\ \A s \in started : s.comp # cbComp

(* None is lost. *)
Covered ==
    \A c \in Listed : \/ c \in OnList
                      \/ \E t \in Taken : comp[t] = c
                      \/ \E s \in started : s.comp = c
                      \/ CallbackHas /\ cbComp = c

PoolInv == Distinct /\ Covered

TakeAt == {"erasures", "matrix", "filled", "start", "putback"}

LEMMA TakenMoves ==
  ASSUME ThreadType, NEW t \in Thread, NEW l, Goto(t, l)
  PROVE  Taken' = IF l \in TakeAt THEN Taken \union {t} ELSE Taken \ {t}
<1>1. \A u \in Thread : pc'[u] = IF u = t THEN l ELSE pc[u]
  BY DEF ThreadType, Goto
<1>2. Taken = {u \in Thread : pc[u] \in TakeAt} /\ Taken' = {u \in Thread : pc'[u] \in TakeAt}
  BY DEF Taken, TakeAt
<1> QED BY <1>1, <1>2

LEMMA PoolInit == Init => PoolInv
<1> SUFFICES ASSUME Init PROVE PoolInv
  OBVIOUS
<1> DEFINE n == Cardinality(Listed)
<1>1. list \in [1 .. n -> Listed] /\ \A i, j \in DOMAIN list : i < j => list[i] > list[j]
  BY DEF Init, InitialLists, Descending
<1>2. n \in Nat /\ Listed \subseteq Nat /\ IsFiniteSet(Listed)
  BY Pool DEF Comp
<1> HIDE DEF n
<1>3. NoTwice(list)
  <2> SUFFICES ASSUME NEW i \in 1 .. n, NEW j \in 1 .. n, list[i] = list[j], i # j PROVE FALSE
    BY <1>1 DEF NoTwice
  <2>1. list[i] \in Nat /\ list[j] \in Nat
    BY <1>1, <1>2
  <2>2. i < j \/ j < i
    BY <1>2
  <2> QED BY <1>1, <2>1, <2>2
<1>4. OnList \subseteq Listed
  BY <1>1 DEF OnList, RangeOf
<1>5. Listed \subseteq OnList
  <2>1. IsFiniteSet(1 .. n) /\ Cardinality(1 .. n) = n
    BY <1>2, FS_Interval
  <2>2. list \in Surjection(1 .. n, OnList) /\ list \in Injection(1 .. n, OnList)
    <3>1. list \in [1 .. n -> OnList] /\ \A c \in OnList : \E i \in 1 .. n : list[i] = c
      BY <1>1 DEF OnList, RangeOf
    <3>2. \A i, j \in 1 .. n : list[i] = list[j] => i = j
      BY <1>1, <1>3 DEF NoTwice
    <3> QED BY <3>1, <3>2 DEF Surjection, Injection, IsInjective
  <2>3. IsFiniteSet(OnList) /\ Cardinality(OnList) = n
    BY <2>1, <2>2, FS_Surjection
  <2> QED BY <1>2, <1>4, <2>3, FS_Subset DEF n
<1>6. Taken = {} /\ started = {} /\ ~CallbackHas
  BY DEF Init, Taken, CallbackHas
<1> QED BY <1>3, <1>4, <1>5, <1>6 DEF PoolInv, Distinct, Covered

LEMMA PoolPop ==
  ASSUME TypeInv, PoolInv, NEW t \in Thread, Pop(t)
  PROVE  PoolInv'
<1>1. /\ ThreadType /\ list \in Seq(Comp) /\ started' = started /\ cbPc' = cbPc /\ cbComp' = cbComp
      /\ pc[t] = "pop" /\ t \notin Taken
  BY DEF TypeInv, ListType, Pop, libraryVars, Taken
<1>2. CASE list = <<>>
  <2>1. Taken' = Taken \ {t} /\ list' = list /\ comp' = comp
    BY <1>1, <1>2, TakenMoves DEF Pop, TakeAt
  <2>2. Taken' = Taken
    BY <1>1, <2>1
  <2> QED BY <1>1, <2>1, <2>2 DEF PoolInv, Distinct, Covered, OnList, CallbackHas, NoTwice, RangeOf
<1>3. CASE list # <<>>
  <2> DEFINE c == Head(list)
  <2>1. comp' = [comp EXCEPT ![t] = c] /\ list' = Tail(list) /\ Taken' = Taken \union {t}
    <3>1. Goto(t, "filled") \/ Goto(t, "erasures")
      BY <1>3 DEF Pop
    <3> QED BY <1>1, <1>3, <3>1, TakenMoves DEF Pop, TakeAt
  <2>2. c \in OnList /\ NoTwice(list') /\ OnList' = OnList \ {c}
    BY <1>1, <1>3, <2>1, ListTail DEF PoolInv, Distinct, OnList
  <2>3. \A u \in Taken' : comp'[u] = IF u = t THEN c ELSE comp[u]
    BY <1>1, <2>1 DEF ThreadType, Taken
  <2>4. CallbackHas' = CallbackHas
    BY <1>1 DEF CallbackHas
  <2> HIDE DEF c
  <2>5. Distinct'
    BY <1>1, <2>1, <2>2, <2>3, <2>4 DEF PoolInv, Distinct
  <2>6. Covered'
    BY <1>1, <2>1, <2>2, <2>3, <2>4 DEF PoolInv, Covered
  <2> QED BY <2>5, <2>6 DEF PoolInv
<1> QED BY <1>2, <1>3

LEMMA PoolStart ==
  ASSUME TypeInv, PoolInv, NEW t \in Thread, Start(t)
  PROVE  PoolInv'
<1>1. /\ ThreadType /\ Goto(t, "wait") /\ list' = list /\ comp' = comp /\ cbPc' = cbPc /\ cbComp' = cbComp
      /\ t \in Taken
  BY DEF TypeInv, Start, poolVars, Taken
<1>2. PICK s : s.comp = comp[t] /\ started' = started \union {s}
  BY DEF Start
<1>3. Taken' = Taken \ {t}
  BY <1>1, TakenMoves DEF TakeAt
<1>4. OnList' = OnList /\ NoTwice(list') = NoTwice(list) /\ CallbackHas' = CallbackHas
  BY <1>1 DEF OnList, CallbackHas
<1>5. Distinct'
  BY <1>1, <1>2, <1>3, <1>4 DEF PoolInv, Distinct
<1>6. Covered'
  BY <1>1, <1>2, <1>3, <1>4 DEF PoolInv, Covered
<1> QED BY <1>5, <1>6 DEF PoolInv

LEMMA PoolPutBack ==
  ASSUME TypeInv, PoolInv, NEW t \in Thread, PutBack(t)
  PROVE  PoolInv'
<1>1. /\ ThreadType /\ list \in Seq(Comp) /\ Goto(t, "post") /\ list' = <<comp[t]>> \o list /\ comp' = comp
      /\ started' = started /\ cbPc' = cbPc /\ cbComp' = cbComp /\ t \in Taken
  BY DEF TypeInv, ListType, PutBack, libraryVars, Taken
<1>2. Taken' = Taken \ {t}
  BY <1>1, TakenMoves DEF TakeAt
<1>3. NoTwice(list') /\ OnList' = OnList \union {comp[t]}
  <2>1. comp[t] \in Comp /\ comp[t] \notin OnList /\ NoTwice(list)
    BY <1>1, Pool DEF PoolInv, Distinct
  <2> QED BY <1>1, <2>1, ListPush DEF OnList
<1>4. CallbackHas' = CallbackHas
  BY <1>1 DEF CallbackHas
<1>5. Distinct'
  BY <1>1, <1>2, <1>3, <1>4 DEF PoolInv, Distinct
<1>6. Covered'
  BY <1>1, <1>2, <1>3, <1>4 DEF PoolInv, Covered
<1> QED BY <1>5, <1>6 DEF PoolInv

LEMMA PoolFinish ==
  ASSUME TypeInv, PoolInv, Finish
  PROVE  PoolInv'
<1>1. list' = list /\ comp' = comp /\ pc' = pc /\ ~CallbackHas /\ CallbackHas'
  BY DEF Finish, poolVars, threadVars, CallbackHas
<1>2. PICK s \in started : started' = started \ {s} /\ cbComp' = s.comp
  BY DEF Finish
<1>3. Taken' = Taken /\ OnList' = OnList /\ NoTwice(list') = NoTwice(list)
  BY <1>1 DEF Taken, OnList
<1>4. Distinct'
  BY <1>1, <1>2, <1>3 DEF PoolInv, Distinct
<1>5. Covered'
  BY <1>1, <1>2, <1>3 DEF PoolInv, Covered
<1> QED BY <1>4, <1>5 DEF PoolInv

LEMMA PoolDonePut ==
  ASSUME TypeInv, PoolInv, DonePut
  PROVE  PoolInv'
<1>1. /\ list \in Seq(Comp) /\ list' = <<cbComp>> \o list /\ comp' = comp /\ pc' = pc /\ started' = started
      /\ CallbackHas /\ ~CallbackHas'
  BY DEF TypeInv, ListType, DonePut, threadVars, CallbackHas
<1>2. Taken' = Taken
  BY <1>1 DEF Taken
<1>3. NoTwice(list') /\ OnList' = OnList \union {cbComp}
  <2>1. cbComp \in Comp /\ cbComp \notin OnList /\ NoTwice(list)
    BY <1>1, Pool DEF PoolInv, Distinct
  <2> QED BY <1>1, <2>1, ListPush DEF OnList
<1>4. Distinct'
  BY <1>1, <1>2, <1>3 DEF PoolInv, Distinct
<1>5. Covered'
  BY <1>1, <1>2, <1>3 DEF PoolInv, Covered
<1> QED BY <1>4, <1>5 DEF PoolInv

(* Steps that move no calculation *)
LEMMA PoolSame ==
  ASSUME PoolInv, list' = list, started' = started, Taken' = Taken, CallbackHas' = CallbackHas,
         \A t \in Taken : comp'[t] = comp[t], CallbackHas => cbComp' = cbComp
  PROVE  PoolInv'
<1>1. OnList' = OnList /\ NoTwice(list') = NoTwice(list)
  BY DEF OnList
<1>2. Distinct'
  BY <1>1 DEF PoolInv, Distinct
<1>3. Covered'
  BY <1>1 DEF PoolInv, Covered
<1> QED BY <1>2, <1>3 DEF PoolInv

LEMMA PoolStep == TypeInv /\ PoolInv /\ [Next]_vars => PoolInv'
<1> SUFFICES ASSUME TypeInv, PoolInv, [Next]_vars PROVE PoolInv'
  OBVIOUS
<1>1. ThreadType
  BY DEF TypeInv
<1>2. ASSUME NEW t \in Thread,
             Call(t) \/ SemWait(t) \/ Token(t) \/ Matrix(t) \/ LockComp(t) \/ StartError(t)
             \/ PostBack(t) \/ CondWait(t) \/ Wake(t) \/ Return(t)
      PROVE  PoolInv'
  <2>1. list' = list /\ started' = started /\ cbPc' = cbPc /\ cbComp' = cbComp
    BY <1>2 DEF Call, SemWait, Token, Matrix, LockComp, StartError, PostBack, CondWait, Wake, Return, Leave,
       poolVars, libraryVars
  <2>2. UNCHANGED pc \/ \E l : Goto(t, l) /\ (l \in TakeAt <=> t \in Taken)
    BY <1>2 DEF Call, SemWait, Token, Matrix, LockComp, StartError, PostBack, CondWait, Wake, Return, Leave,
       Taken, TakeAt
  <2>3. Taken' = Taken
    <3>1. CASE UNCHANGED pc
      BY <3>1 DEF Taken
    <3>2. ASSUME NEW l, Goto(t, l), l \in TakeAt <=> t \in Taken PROVE Taken' = Taken
      BY <1>1, <3>2, TakenMoves
    <3> QED BY <2>2, <3>1, <3>2
  <2>4. comp' = comp \/ (t \notin Taken /\ \A u \in Thread \ {t} : comp'[u] = comp[u])
    <3>1. CASE Leave(t)
      <4>1. comp' = [comp EXCEPT ![t] = 1]
        BY <3>1 DEF Leave
      <4>2. pc'[t] = "idle"
        BY <1>1, <3>1 DEF Leave, Goto, ThreadType
      <4>3. t \notin Taken
        BY <2>3, <4>2 DEF Taken
      <4> QED BY <1>1, <4>1, <4>3 DEF ThreadType
    <3>2. CASE ~Leave(t)
      BY <1>2, <3>2 DEF Call, SemWait, Token, Matrix, LockComp, StartError, PostBack, CondWait, Wake, Return
    <3> QED BY <3>1, <3>2
  <2>5. \A u \in Taken : comp'[u] = comp[u]
    BY <2>4 DEF Taken
  <2>6. CallbackHas' = CallbackHas
    BY <2>1 DEF CallbackHas
  <2> QED BY <2>1, <2>3, <2>5, <2>6, PoolSame
<1>3. CASE DoneLock \/ DoneSignal \/ DoneUnlock \/ DonePost \/ UNCHANGED vars
  <2>1. list' = list /\ started' = started /\ pc' = pc /\ comp' = comp
    BY <1>3 DEF DoneLock, DoneSignal, DoneUnlock, DonePost, poolVars, threadVars, libraryVars, vars
  <2>2. CallbackHas' = CallbackHas /\ (CallbackHas => cbComp' = cbComp)
    BY <1>3 DEF DoneLock, DoneSignal, DoneUnlock, DonePost, libraryVars, vars, CallbackHas
  <2>3. Taken' = Taken
    BY <2>1 DEF Taken
  <2> QED BY <2>1, <2>2, <2>3, PoolSame
<1> QED
  BY <1>2, <1>3, PoolPop, PoolStart, PoolPutBack, PoolFinish, PoolDonePut DEF Next, ThreadStep, LibraryStep

LEMMA PoolInvariant == Spec => [](TypeInv /\ PoolInv)
<1>1. Init => TypeInv /\ PoolInv
  BY TypeInit, PoolInit
<1>2. TypeInv /\ PoolInv /\ [Next]_vars => (TypeInv /\ PoolInv)'
  BY TypeStep, PoolStep
<1> QED BY <1>1, <1>2, PTL DEF Spec

LEMMA AtMostOne ==
  ASSUME NEW S, \A x, y \in S : x = y
  PROVE  Cardinality(S) = IF S = {} THEN 0 ELSE 1
<1>1. CASE S = {}
  BY <1>1, FS_EmptySet
<1>2. CASE S # {}
  <2>1. PICK x : x \in S
    BY <1>2
  <2>2. S = {x}
    BY <2>1
  <2> QED BY <1>2, <2>2, FS_Singleton
<1> QED BY <1>1, <1>2

LEMMA OnePlace == PoolInv => PoolIntact
<1> SUFFICES ASSUME PoolInv, NEW c \in Listed PROVE Places(c) = 1
  BY DEF PoolIntact
<1> DEFINE A == {i \in DOMAIN list : list[i] = c}
           B == {t \in Taken : comp[t] = c}
           C == {s \in started : s.comp = c}
           D == CallbackHas /\ cbComp = c
<1>1. Cardinality(A) = IF A = {} THEN 0 ELSE 1
  <2>1. \A x, y \in A : x = y
    BY DEF PoolInv, Distinct, NoTwice
  <2> QED BY <2>1, AtMostOne
<1>2. Cardinality(B) = IF B = {} THEN 0 ELSE 1
  <2>1. \A x, y \in B : x = y
    BY DEF PoolInv, Distinct
  <2> QED BY <2>1, AtMostOne
<1>3. Cardinality(C) = IF C = {} THEN 0 ELSE 1
  <2>1. \A x, y \in C : x = y
    BY DEF PoolInv, Distinct
  <2> QED BY <2>1, AtMostOne
<1>4. (A # {} <=> c \in OnList) /\ (B # {} <=> \E t \in Taken : comp[t] = c)
      /\ (C # {} <=> \E s \in started : s.comp = c)
  BY DEF OnList, RangeOf
<1>5. Places(c) = Cardinality(A) + Cardinality(B) + Cardinality(C) + (IF D THEN 1 ELSE 0)
  BY DEF Places, CallbackHas
<1> HIDE DEF A, B, C
<1>6. A # {} \/ B # {} \/ C # {} \/ D
  BY <1>4 DEF PoolInv, Covered
<1>7. /\ ~(A # {} /\ B # {}) /\ ~(A # {} /\ C # {}) /\ ~(A # {} /\ D)
      /\ ~(B # {} /\ C # {}) /\ ~(B # {} /\ D) /\ ~(C # {} /\ D)
  BY <1>4 DEF PoolInv, Distinct
<1> HIDE DEF D
<1> QED BY <1>1, <1>2, <1>3, <1>5, <1>6, <1>7

(* A calculation of the pool is always in exactly one place: no sequence   *)
(* of refused, failed and finished jobs loses one or hands it out twice,   *)
(* although encode(), decode() and the callback put it back from different *)
(* threads, and even if condition variables wake threads unasked.          *)
THEOREM PoolStaysIntact == Spec => []PoolIntact
BY PoolInvariant, OnePlace, PTL

-----------------------------------------------------------------------------
(* Mutexes, condition variables and signals, when no thread wakes unasked *)

(* The mutex is with the thread that is between taking and releasing it. *)
Locked ==
    /\ \A t \in Thread : pc[t] \in {"start", "wait", "woken"} => mutex[comp[t]] = t
    /\ cbPc \in {"signal", "unlock"} => mutex[cbComp] = Library

Sleepers == \A c \in Comp : \A t \in sleeping[c] : pc[t] = "asleep" /\ comp[t] = c

(* A started calculation, or one whose callback has yet to signal, has one *)
(* call that waits for it, and no other call waits.                        *)
Waiting(t) == pc[t] = "wait" \/ Asleep(t)
Calling == cbPc \in {"lock", "signal"}
Answered ==
    /\ \A t \in Thread : Waiting(t) =>
          \/ [comp |-> comp[t], job |-> job[t]] \in started
          \/ Calling /\ cbComp = comp[t] /\ job[t] \in finished
    /\ \A t, u \in Thread : Waiting(t) /\ Waiting(u) /\ comp[t] = comp[u] => t = u
    /\ \A s \in started : \E t \in Thread : Waiting(t) /\ comp[t] = s.comp /\ job[t] = s.job
    /\ Calling => \E t \in Thread : Waiting(t) /\ comp[t] = cbComp
    /\ \A t \in Thread : pc[t] = "woken" \/ (pc[t] = "asleep" /\ ~Asleep(t)) => job[t] \in finished

SyncInv == Locked /\ Sleepers /\ Answered

LEMMA SyncInit == Init => SyncInv
BY DEF Init, SyncInv, Locked, Sleepers, Answered, Waiting, Asleep, Calling

LEMMA Holders == \A t \in Thread : t # Nobody /\ t # Library /\ Library # Nobody
BY PoolAssumption

(* A step that changes nothing for the calls that wait, and takes no mutex *)
(* from its holder.                                                        *)
LEMMA SyncSame ==
  ASSUME TypeInv, SyncInv, NEW t \in Thread, NEW l, Goto(t, l), l \notin {"start", "wait", "asleep", "woken"},
         pc[t] \notin {"wait", "asleep"}, UNCHANGED <<sleeping, started, cbPc, cbComp>>,
         \A u \in Thread \ {t} : comp'[u] = comp[u] /\ job'[u] = job[u],
         finished' = finished \/ (pc[t] # "idle" /\ finished' = finished \ {job[t]}),
         mutex' = mutex \/ (mutex[comp[t]] = t /\ mutex' = [mutex EXCEPT ![comp[t]] = Nobody])
  PROVE  SyncInv'
<1>1. /\ ThreadType /\ SyncType /\ LibraryType /\ cbPc' = cbPc /\ cbComp' = cbComp /\ started' = started
      /\ sleeping' = sleeping /\ OwnJobs
  BY DEF TypeInv
<1>2. \A u \in Thread : pc'[u] = IF u = t THEN l ELSE pc[u]
  BY <1>1 DEF ThreadType, Goto
<1>3. Locked'
  <2>1. comp[t] \in Comp /\ cbComp \in Comp /\ \A u \in Thread : comp[u] \in Comp
    BY <1>1 DEF ThreadType, LibraryType
  <2>2. \A c \in Comp : mutex'[c] = mutex[c] \/ mutex[c] = t
    BY <1>1, <2>1 DEF SyncType
  <2>3. \A u \in Thread \ {t} : mutex[comp[u]] = u => mutex'[comp[u]] = u
    BY <2>1, <2>2
  <2>4. mutex[cbComp] = Library => mutex'[cbComp] = Library
    BY <2>1, <2>2, Holders
  <2> QED BY <1>1, <1>2, <2>3, <2>4 DEF SyncInv, Locked
<1>4. Sleepers'
  BY <1>1, <1>2 DEF SyncInv, Sleepers, SyncType
<1>5. ~Waiting(t) /\ ~Waiting(t)' /\ \A u \in Thread \ {t} : Waiting(u)' <=> Waiting(u)
  BY <1>1, <1>2 DEF Waiting, Asleep
<1>6. \A u \in Thread \ {t} : pc[u] # "idle" /\ job[u] \in finished => job[u] \in finished'
  BY <1>1 DEF OwnJobs
<1>7. \A u \in Thread \ {t} : Waiting(u) => pc[u] # "idle"
  BY DEF Waiting, Asleep
<1>8. \A u \in Thread \ {t} : pc'[u] = pc[u] /\ (Asleep(u)' <=> Asleep(u))
  BY <1>1, <1>2 DEF Asleep
<1>9. Calling' = Calling
  BY <1>1 DEF Calling
<1>10. \A u \in Thread : Waiting(u)' =>
          \/ [comp |-> comp'[u], job |-> job'[u]] \in started
          \/ Calling /\ cbComp = comp'[u] /\ job'[u] \in finished'
  BY <1>5, <1>6, <1>7 DEF SyncInv, Answered
<1>11. \A u, v \in Thread : Waiting(u)' /\ Waiting(v)' /\ comp'[u] = comp'[v] => u = v
  BY <1>5 DEF SyncInv, Answered
<1>12. \A s \in started : \E u \in Thread : Waiting(u)' /\ comp'[u] = s.comp /\ job'[u] = s.job
  BY <1>5 DEF SyncInv, Answered
<1>13. Calling => \E u \in Thread : Waiting(u)' /\ comp'[u] = cbComp
  BY <1>5 DEF SyncInv, Answered
<1>14. \A u \in Thread : pc'[u] = "woken" \/ (pc'[u] = "asleep" /\ ~Asleep(u)') => job'[u] \in finished'
  BY <1>2, <1>6, <1>8 DEF SyncInv, Answered
<1>15. Answered'
  BY <1>1, <1>9, <1>10, <1>11, <1>12, <1>13, <1>14 DEF Answered
<1> QED BY <1>3, <1>4, <1>15 DEF SyncInv

LEMMA SyncThread ==
  ASSUME TypeInv, SyncInv, NEW t \in Thread,
         Call(t) \/ SemWait(t) \/ Pop(t) \/ Token(t) \/ Matrix(t) \/ StartError(t) \/ PutBack(t)
         \/ PostBack(t) \/ Return(t)
  PROVE  SyncInv'
<1>1. ThreadType
  BY DEF TypeInv
<1>2. UNCHANGED <<sleeping, started, cbPc, cbComp>>
  BY DEF Call, SemWait, Pop, Token, Matrix, StartError, PutBack, PostBack, Return, Leave,
     syncVars, libraryVars
<1>3. \A u \in Thread \ {t} : comp'[u] = comp[u] /\ job'[u] = job[u]
  BY <1>1 DEF Call, SemWait, Pop, Token, Matrix, StartError, PutBack, PostBack, Return, Leave, ThreadType
<1>4. pc[t] \notin {"wait", "asleep"}
  BY DEF Call, SemWait, Pop, Token, Matrix, StartError, PutBack, PostBack, Return
<1>5. \E l : Goto(t, l) /\ l \notin {"start", "wait", "asleep", "woken"}
  <2>1. CASE UNCHANGED pc
    <3>1. Goto(t, pc[t]) /\ pc[t] \notin {"start", "wait", "asleep", "woken"}
      <4>1. pc[t] \notin {"start", "wait", "asleep", "woken"}
        <5>1. Token(t) => pc[t] = "erasures"
          BY DEF Token
        <5>2. ~Token(t) => pc'[t] \notin {"start", "wait", "asleep", "woken"}
          BY <1>1 DEF Call, SemWait, Pop, Token, Matrix, StartError, PutBack, PostBack, Return, Leave,
             Goto, ThreadType
        <5> QED BY <5>1, <5>2, <2>1
      <4> QED BY <1>1, <2>1, <4>1 DEF Goto, ThreadType
    <3> QED BY <3>1
  <2>2. CASE ~UNCHANGED pc
    BY <2>2 DEF Call, SemWait, Pop, Token, Matrix, StartError, PutBack, PostBack, Return, Leave
  <2> QED BY <2>1, <2>2
<1>6. finished' = finished \/ (pc[t] # "idle" /\ finished' = finished \ {job[t]})
  BY DEF Call, SemWait, Pop, Token, Matrix, StartError, PutBack, PostBack, Return, Leave, libraryVars
<1>7. mutex' = mutex \/ (mutex[comp[t]] = t /\ mutex' = [mutex EXCEPT ![comp[t]] = Nobody])
  <2>1. CASE Return(t)
    BY <2>1 DEF Return, SyncInv, Locked
  <2>2. CASE ~Return(t)
    BY <2>2 DEF Call, SemWait, Pop, Token, Matrix, StartError, PutBack, PostBack, syncVars
  <2> QED BY <2>1, <2>2
<1> QED BY <1>2, <1>3, <1>4, <1>5, <1>6, <1>7, SyncSame

LEMMA SyncLock ==
  ASSUME TypeInv, SyncInv, NEW t \in Thread, LockComp(t)
  PROVE  SyncInv'
<1>1. /\ ThreadType /\ SyncType /\ LibraryType /\ cbPc' = cbPc /\ cbComp' = cbComp /\ started' = started
      /\ sleeping' = sleeping /\ comp' = comp /\ job' = job /\ finished' = finished /\ Goto(t, "start")
      /\ pc[t] = "filled" /\ mutex[comp[t]] = Nobody /\ mutex' = [mutex EXCEPT ![comp[t]] = t]
  BY DEF TypeInv, LockComp, libraryVars
<1>2. \A u \in Thread : pc'[u] = (IF u = t THEN "start" ELSE pc[u]) /\ comp[u] \in Comp
  BY <1>1 DEF ThreadType, Goto
<1>3. \A c \in Comp : mutex'[c] = IF c = comp[t] THEN t ELSE mutex[c]
  BY <1>1, <1>2 DEF SyncType
<1>4. Locked'
  <2>1. cbComp \in Comp
    BY <1>1 DEF LibraryType
  <2> QED BY <1>1, <1>2, <1>3, <2>1, Holders DEF SyncInv, Locked
<1>5. Sleepers'
  BY <1>1, <1>2 DEF SyncInv, Sleepers, SyncType
<1>6. \A u \in Thread : (Waiting(u)' <=> Waiting(u)) /\ (Asleep(u)' <=> Asleep(u))
  BY <1>1, <1>2 DEF Waiting, Asleep
<1>7. Answered'
  BY <1>1, <1>2, <1>6 DEF SyncInv, Answered, Calling
<1> QED BY <1>4, <1>5, <1>7 DEF SyncInv

LEMMA SyncStart ==
  ASSUME TypeInv, PoolInv, SyncInv, NEW t \in Thread, Start(t)
  PROVE  SyncInv'
<1> DEFINE new == [comp |-> comp[t], job |-> job[t]]
<1>1. /\ ThreadType /\ SyncType /\ LibraryType /\ cbPc' = cbPc /\ cbComp' = cbComp
      /\ started' = started \union {new}
      /\ sleeping' = sleeping /\ comp' = comp /\ job' = job /\ finished' = finished /\ Goto(t, "wait")
      /\ pc[t] = "start" /\ mutex' = mutex
  BY DEF TypeInv, Start, syncVars
<1>2. \A u \in Thread : pc'[u] = (IF u = t THEN "wait" ELSE pc[u]) /\ comp[u] \in Comp
  BY <1>1 DEF ThreadType, Goto
<1>3. Locked'
  BY <1>1, <1>2 DEF SyncInv, Locked
<1>4. Sleepers'
  BY <1>1, <1>2 DEF SyncInv, Sleepers, SyncType
<1>5. ~Waiting(t) /\ Waiting(t)'
  BY <1>1, <1>2 DEF Waiting, Asleep
<1>6. \A u \in Thread \ {t} : (Waiting(u)' <=> Waiting(u)) /\ (Asleep(u)' <=> Asleep(u)) /\ pc'[u] = pc[u]
  BY <1>1, <1>2 DEF Waiting, Asleep
<1>7. new.comp = comp[t] /\ new.job = job[t]
  OBVIOUS
<1>8. \A u \in Thread : Waiting(u) => comp[u] # comp[t]
  <2>1. \A s \in started : s.comp # comp[t]
    BY <1>1 DEF PoolInv, Distinct, Taken
  <2>2. Calling => cbComp # comp[t]
    BY <1>1 DEF PoolInv, Distinct, Taken, CallbackHas, Calling
  <2>3. ASSUME NEW u \in Thread, Waiting(u), comp[u] = comp[t] PROVE FALSE
    <3>1. [comp |-> comp[u], job |-> job[u]] \in started \/ (Calling /\ cbComp = comp[u])
      BY <2>3 DEF SyncInv, Answered
    <3>2. [comp |-> comp[u], job |-> job[u]].comp = comp[u]
      OBVIOUS
    <3> QED BY <2>1, <2>2, <2>3, <3>1, <3>2
  <2> QED BY <2>3
<1>9. Calling' = Calling
  BY <1>1 DEF Calling
<1>10. \A u \in Thread : Waiting(u)' =>
          \/ [comp |-> comp[u], job |-> job[u]] \in started'
          \/ Calling /\ cbComp = comp[u] /\ job[u] \in finished
  BY <1>1, <1>6 DEF SyncInv, Answered
<1>11. \A u, v \in Thread : Waiting(u)' /\ Waiting(v)' /\ comp[u] = comp[v] => u = v
  BY <1>6, <1>8 DEF SyncInv, Answered
<1>12. \A s \in started' : \E u \in Thread : Waiting(u)' /\ comp[u] = s.comp /\ job[u] = s.job
  <2>1. ASSUME NEW s \in started PROVE \E u \in Thread : Waiting(u)' /\ comp[u] = s.comp /\ job[u] = s.job
    BY <1>5, <1>6 DEF SyncInv, Answered
  <2> HIDE DEF new
  <2> QED BY <1>1, <1>5, <1>7, <2>1
<1>13. Calling => \E u \in Thread : Waiting(u)' /\ comp[u] = cbComp
  BY <1>5, <1>6 DEF SyncInv, Answered
<1>14. \A u \in Thread : pc'[u] = "woken" \/ (pc'[u] = "asleep" /\ ~Asleep(u)') => job[u] \in finished
  BY <1>2, <1>6 DEF SyncInv, Answered
<1>15. Answered'
  BY <1>1, <1>9, <1>10, <1>11, <1>12, <1>13, <1>14 DEF Answered
<1> QED BY <1>3, <1>4, <1>15 DEF SyncInv

LEMMA SyncCondWait ==
  ASSUME TypeInv, SyncInv, NEW t \in Thread, CondWait(t)
  PROVE  SyncInv'
<1>1. /\ ThreadType /\ SyncType /\ LibraryType /\ cbPc' = cbPc /\ cbComp' = cbComp /\ started' = started
      /\ comp' = comp /\ job' = job /\ finished' = finished /\ Goto(t, "asleep") /\ pc[t] = "wait"
      /\ mutex' = [mutex EXCEPT ![comp[t]] = Nobody]
      /\ sleeping' = [sleeping EXCEPT ![comp[t]] = @ \union {t}]
  BY DEF TypeInv, CondWait, libraryVars
<1>2. \A u \in Thread : pc'[u] = (IF u = t THEN "asleep" ELSE pc[u]) /\ comp[u] \in Comp
  BY <1>1 DEF ThreadType, Goto
<1>3. \A c \in Comp : /\ mutex'[c] = IF c = comp[t] THEN Nobody ELSE mutex[c]
                      /\ sleeping'[c] = IF c = comp[t] THEN sleeping[c] \union {t} ELSE sleeping[c]
  BY <1>1, <1>2 DEF SyncType
<1>4. Locked'
  <2>1. cbComp \in Comp /\ mutex[comp[t]] = t
    BY <1>1 DEF LibraryType, SyncInv, Locked
  <2> QED BY <1>1, <1>2, <1>3, <2>1, Holders DEF SyncInv, Locked
<1>5. Sleepers'
  <2>1. \A c \in Comp : sleeping[c] \subseteq Thread
    BY <1>1 DEF SyncType
  <2> QED BY <1>1, <1>2, <1>3, <2>1 DEF SyncInv, Sleepers
<1>6. \A u \in Thread : (Waiting(u)' <=> Waiting(u)) /\ (u # t => pc'[u] = pc[u] /\ (Asleep(u)' <=> Asleep(u)))
                        /\ (u = t => Asleep(u)')
  BY <1>1, <1>2, <1>3 DEF Waiting, Asleep
<1>7. Answered'
  BY <1>1, <1>2, <1>6 DEF SyncInv, Answered, Calling
<1> QED BY <1>4, <1>5, <1>7 DEF SyncInv

LEMMA SyncWake ==
  ASSUME ~Spurious, TypeInv, SyncInv, NEW t \in Thread, Wake(t)
  PROVE  SyncInv'
<1>1. /\ ThreadType /\ SyncType /\ LibraryType /\ cbPc' = cbPc /\ cbComp' = cbComp /\ started' = started
      /\ comp' = comp /\ job' = job /\ finished' = finished /\ Goto(t, "woken") /\ pc[t] = "asleep"
      /\ mutex[comp[t]] = Nobody /\ mutex' = [mutex EXCEPT ![comp[t]] = t]
      /\ sleeping' = [sleeping EXCEPT ![comp[t]] = @ \ {t}] /\ t \notin sleeping[comp[t]]
  BY DEF TypeInv, Wake, libraryVars
<1>2. \A u \in Thread : pc'[u] = (IF u = t THEN "woken" ELSE pc[u]) /\ comp[u] \in Comp
  BY <1>1 DEF ThreadType, Goto
<1>3. \A c \in Comp : mutex'[c] = (IF c = comp[t] THEN t ELSE mutex[c]) /\ sleeping'[c] = sleeping[c]
  BY <1>1, <1>2 DEF SyncType
<1>4. Locked'
  <2>1. cbComp \in Comp
    BY <1>1 DEF LibraryType
  <2> QED BY <1>1, <1>2, <1>3, <2>1, Holders DEF SyncInv, Locked
<1>5. Sleepers'
  <2>1. \A c \in Comp : sleeping[c] \subseteq Thread
    BY <1>1 DEF SyncType
  <2> QED BY <1>1, <1>2, <1>3, <2>1 DEF SyncInv, Sleepers
<1>6. \A u \in Thread : /\ Waiting(u)' <=> Waiting(u)
                        /\ u # t => pc'[u] = pc[u] /\ (Asleep(u)' <=> Asleep(u))
  BY <1>1, <1>2, <1>3 DEF Waiting, Asleep
<1>7. job[t] \in finished
  BY <1>1 DEF SyncInv, Answered, Asleep
<1>8. Answered'
  BY <1>1, <1>2, <1>6, <1>7 DEF SyncInv, Answered, Calling
<1> QED BY <1>4, <1>5, <1>8 DEF SyncInv

LEMMA SyncFinish ==
  ASSUME TypeInv, PoolInv, SyncInv, Finish
  PROVE  SyncInv'
<1>1. /\ ThreadType /\ SyncType /\ StartedType /\ cbPc = "idle" /\ cbPc' = "lock"
      /\ mutex' = mutex /\ sleeping' = sleeping /\ pc' = pc /\ comp' = comp /\ job' = job
  BY DEF TypeInv, Finish, syncVars, threadVars
<1>2. PICK s \in started : /\ started' = started \ {s} /\ cbComp' = s.comp
                           /\ finished' = finished \union {s.job}
  BY DEF Finish
<1>3. Locked' /\ Sleepers'
  BY <1>1 DEF SyncInv, Locked, Sleepers
<1>4. \A u \in Thread : (Waiting(u)' <=> Waiting(u)) /\ (Asleep(u)' <=> Asleep(u))
  BY <1>1 DEF Waiting, Asleep
<1>5. Calling' /\ ~Calling
  BY <1>1 DEF Calling
<1>6. \A u \in Thread : Waiting(u) =>
          \/ [comp |-> comp[u], job |-> job[u]] \in started'
          \/ cbComp' = comp[u] /\ job[u] \in finished'
  <2>1. ASSUME NEW u \in Thread, Waiting(u), [comp |-> comp[u], job |-> job[u]] \notin started'
        PROVE  cbComp' = comp[u] /\ job[u] \in finished'
    <3>1. [comp |-> comp[u], job |-> job[u]] = s
      BY <1>2, <1>5, <2>1 DEF SyncInv, Answered
    <3>2. s.comp = comp[u] /\ s.job = job[u]
      BY <3>1
    <3> QED BY <1>2, <3>2
  <2> QED BY <2>1
<1>7. \E u \in Thread : Waiting(u) /\ comp[u] = s.comp
  BY DEF SyncInv, Answered
<1>8. Answered'
  BY <1>1, <1>2, <1>4, <1>5, <1>6, <1>7 DEF SyncInv, Answered
<1> QED BY <1>3, <1>8 DEF SyncInv

LEMMA SyncDoneMutex ==
  ASSUME TypeInv, SyncInv, DoneLock \/ DoneUnlock
  PROVE  SyncInv'
<1>1. /\ ThreadType /\ SyncType /\ LibraryType /\ sleeping' = sleeping /\ pc' = pc /\ comp' = comp
      /\ job' = job /\ started' = started /\ cbComp' = cbComp /\ finished' = finished
  BY DEF TypeInv, DoneLock, DoneUnlock, threadVars
<1>2. \/ cbPc = "lock" /\ cbPc' = "signal" /\ mutex[cbComp] = Nobody
         /\ mutex' = [mutex EXCEPT ![cbComp] = Library]
      \/ cbPc = "unlock" /\ cbPc' = "put" /\ mutex' = [mutex EXCEPT ![cbComp] = Nobody]
  BY DEF DoneLock, DoneUnlock
<1>3. Locked'
  <2>1. cbComp \in Comp /\ \A u \in Thread : comp[u] \in Comp
    BY <1>1 DEF LibraryType, ThreadType
  <2>2. \A c \in Comp : mutex'[c] = mutex[c] \/ (c = cbComp /\ mutex[c] \in {Nobody, Library})
    BY <1>1, <1>2, <2>1 DEF SyncInv, Locked, SyncType
  <2>3. cbPc' = "signal" => mutex'[cbComp] = Library
    BY <1>1, <1>2, <2>1 DEF SyncType
  <2> QED BY <1>1, <1>2, <2>1, <2>2, <2>3, Holders DEF SyncInv, Locked
<1>4. Sleepers'
  BY <1>1 DEF SyncInv, Sleepers
<1>5. \A u \in Thread : (Waiting(u)' <=> Waiting(u)) /\ (Asleep(u)' <=> Asleep(u))
  BY <1>1 DEF Waiting, Asleep
<1>6. Calling' = Calling
  BY <1>2 DEF Calling
<1>7. Answered'
  BY <1>1, <1>5, <1>6 DEF SyncInv, Answered
<1> QED BY <1>3, <1>4, <1>7 DEF SyncInv

(* The signal reaches the one call that waits: the callback has the mutex, *)
(* so that call is asleep and not on its way there.                        *)
LEMMA SyncDoneSignal ==
  ASSUME TypeInv, PoolInv, SyncInv, DoneSignal
  PROVE  SyncInv'
<1>1. /\ ThreadType /\ SyncType /\ LibraryType /\ mutex' = mutex /\ pc' = pc /\ comp' = comp
      /\ job' = job /\ started' = started /\ cbComp' = cbComp /\ finished' = finished
      /\ cbPc = "signal" /\ cbPc' = "unlock" /\ Calling /\ ~Calling'
  BY DEF TypeInv, DoneSignal, threadVars, Calling
<1>2. cbComp \in Comp /\ \A u \in Thread : comp[u] \in Comp
  BY <1>1 DEF LibraryType, ThreadType
<1>3. PICK w \in Thread : Waiting(w) /\ comp[w] = cbComp
  BY <1>1 DEF SyncInv, Answered
<1>4. pc[w] = "asleep" /\ w \in sleeping[cbComp]
  <2>1. mutex[cbComp] = Library
    BY <1>1 DEF SyncInv, Locked
  <2>2. pc[w] # "wait"
    BY <1>3, <2>1, Holders DEF SyncInv, Locked
  <2> QED BY <1>3, <2>2 DEF Waiting, Asleep
<1>5. \A t \in sleeping[cbComp] : t = w
  <2> SUFFICES ASSUME NEW t \in sleeping[cbComp] PROVE t = w
    OBVIOUS
  <2>1. t \in Thread /\ pc[t] = "asleep" /\ comp[t] = cbComp
    BY <1>1, <1>2 DEF SyncType, SyncInv, Sleepers
  <2>2. Waiting(t)
    BY <2>1 DEF Waiting, Asleep
  <2> QED BY <1>3, <2>1, <2>2 DEF SyncInv, Answered
<1>6. sleeping' = [sleeping EXCEPT ![cbComp] = @ \ {w}]
  BY <1>4, <1>5 DEF DoneSignal
<1>7. \A c \in Comp : sleeping'[c] = IF c = cbComp THEN sleeping[c] \ {w} ELSE sleeping[c]
  BY <1>1, <1>2, <1>6 DEF SyncType
<1>8. Locked' /\ Sleepers'
  BY <1>1, <1>7 DEF SyncInv, Locked, Sleepers
<1>9. /\ ~Waiting(w)' /\ ~Asleep(w)'
      /\ \A u \in Thread \ {w} : (Waiting(u)' <=> Waiting(u)) /\ (Asleep(u)' <=> Asleep(u))
  BY <1>1, <1>2, <1>3, <1>4, <1>7 DEF Waiting, Asleep
<1>10. \A s \in started : s.comp # cbComp
  BY <1>1 DEF PoolInv, Distinct, CallbackHas
<1>11. job[w] \in finished
  <2>1. [comp |-> comp[w], job |-> job[w]].comp = cbComp
    BY <1>3
  <2>2. [comp |-> comp[w], job |-> job[w]] \notin started
    BY <1>10, <2>1
  <2> QED BY <1>3, <2>2 DEF SyncInv, Answered
<1>12. \A u \in Thread \ {w} : Waiting(u) => comp[u] # cbComp
  BY <1>3 DEF SyncInv, Answered
<1>13. \A u \in Thread : Waiting(u)' => [comp |-> comp[u], job |-> job[u]] \in started
  BY <1>9, <1>12 DEF SyncInv, Answered
<1>14. \A u, v \in Thread : Waiting(u)' /\ Waiting(v)' /\ comp[u] = comp[v] => u = v
  BY <1>9 DEF SyncInv, Answered
<1>15. \A s \in started : \E u \in Thread : Waiting(u)' /\ comp[u] = s.comp /\ job[u] = s.job
  BY <1>3, <1>9, <1>10 DEF SyncInv, Answered
<1>16. \A u \in Thread : pc[u] = "woken" \/ (pc[u] = "asleep" /\ ~Asleep(u)') => job[u] \in finished
  BY <1>9, <1>11 DEF SyncInv, Answered
<1>17. Answered'
  BY <1>1, <1>13, <1>14, <1>15, <1>16 DEF Answered
<1> QED BY <1>8, <1>17 DEF SyncInv

LEMMA SyncRest ==
  ASSUME TypeInv, SyncInv, DonePut \/ DonePost \/ UNCHANGED vars
  PROVE  SyncInv'
<1>1. /\ mutex' = mutex /\ sleeping' = sleeping /\ pc' = pc /\ comp' = comp /\ job' = job
      /\ started' = started /\ finished' = finished
  BY DEF DonePut, DonePost, syncVars, threadVars, libraryVars, vars
<1>2. (cbPc' = cbPc /\ cbComp' = cbComp) \/ (~Calling /\ ~Calling' /\ cbPc' \notin {"signal", "unlock"})
  BY DEF DonePut, DonePost, libraryVars, vars, Calling
<1>3. Locked' /\ Sleepers'
  BY <1>1, <1>2 DEF SyncInv, Locked, Sleepers
<1>4. \A u \in Thread : (Waiting(u)' <=> Waiting(u)) /\ (Asleep(u)' <=> Asleep(u))
  BY <1>1 DEF Waiting, Asleep
<1>5. (Calling' <=> Calling) /\ (Calling => cbComp' = cbComp)
  BY <1>2 DEF Calling
<1>6. Answered'
  BY <1>1, <1>4, <1>5 DEF SyncInv, Answered
<1> QED BY <1>3, <1>6 DEF SyncInv

LEMMA SyncStep == ~Spurious /\ TypeInv /\ PoolInv /\ SyncInv /\ [Next]_vars => SyncInv'
BY SyncThread, SyncLock, SyncStart, SyncCondWait, SyncWake, SyncFinish, SyncDoneMutex, SyncDoneSignal,
   SyncRest DEF Next, ThreadStep, LibraryStep

LEMMA SyncInvariant == ~Spurious => (Spec => [](PoolInv /\ SyncInv))
<1> SUFFICES ASSUME ~Spurious PROVE Spec => [](PoolInv /\ SyncInv)
  OBVIOUS
<1> DEFINE Inv == TypeInv /\ PoolInv /\ SyncInv
<1>1. Init => Inv
  BY TypeInit, PoolInit, SyncInit
<1>2. Inv /\ [Next]_vars => Inv'
  BY TypeStep, PoolStep, SyncStep
<1> QED BY <1>1, <1>2, PTL DEF Spec

(* When a call finds the list empty, every calculation of the pool is with *)
(* another call under way or, at most one, with the callback of a call     *)
(* that has returned: the call itself makes up for that one.               *)
LEMMA EmptyMeansCalls ==
  ASSUME PoolInv, SyncInv, NEW t \in Thread, pc[t] = "pop", list = <<>>
  PROVE  Cardinality({u \in Thread : InCall(u)}) >= Cardinality(Listed)
<1> DEFINE Calls == {u \in Thread : InCall(u)}
           f == [u \in Calls |-> IF u = t THEN cbComp ELSE comp[u]]
           S == {f[u] : u \in Calls}
<1>1. OnList = {}
  BY DEF OnList, RangeOf
<1>2. IsFiniteSet(Calls) /\ t \in Calls
  <2>1. Calls \subseteq Thread
    OBVIOUS
  <2>2. IsFiniteSet(Calls)
    BY <2>1, Pool, FS_Subset
  <2> QED BY <2>2 DEF InCall
<1>3. ASSUME NEW c \in Listed PROVE c \in S
  <2>1. CASE \E u \in Taken : comp[u] = c
    <3>1. PICK u \in Taken : comp[u] = c
      BY <2>1
    <3>2. u \in Calls /\ u # t
      BY <3>1 DEF Taken, InCall
    <3> QED BY <3>1, <3>2
  <2>2. CASE \E s \in started : s.comp = c
    <3>1. PICK u \in Thread : Waiting(u) /\ comp[u] = c
      BY <2>2 DEF SyncInv, Answered
    <3>2. u \in Calls /\ u # t
      BY <3>1 DEF Waiting, Asleep, InCall
    <3> QED BY <3>1, <3>2
  <2>3. CASE CallbackHas /\ cbComp = c
    BY <1>2, <2>3
  <2> QED BY <1>1, <1>3, <2>1, <2>2, <2>3 DEF PoolInv, Covered
<1>4. IsFiniteSet(S) /\ Cardinality(S) <= Cardinality(Calls)
  <2>1. f \in Surjection(Calls, S)
    BY DEF Surjection
  <2> HIDE DEF f, S, Calls
  <2> QED BY <1>2, <2>1, FS_Surjection
<1>5. Cardinality(Listed) <= Cardinality(S)
  BY <1>3, <1>4, FS_Subset
<1>6. Cardinality(S) \in Nat /\ Cardinality(Calls) \in Nat
  BY <1>2, <1>4, FS_CardinalityType
<1> HIDE DEF S, Calls
<1>7. Cardinality(Calls) >= Cardinality(Listed)
  BY <1>4, <1>5, <1>6, Pool
<1> QED BY <1>7 DEF Calls

(* A call takes the first element of an empty list, which dereferences a   *)
(* null pointer, only while at least as many calls are under way as there  *)
(* are calculations on the list at the start: no call, however it fails,   *)
(* and no callback keeps or loses a calculation.  With fewer threads than  *)
(* calculations it never happens.  (A thread that wakes unasked leaves its *)
(* calculation with the library and may come back for another one.)        *)
THEOREM EmptyListTakesCalls == ~Spurious => (Spec => []EmptyTakesAsManyCalls)
<1>1. PoolInv /\ SyncInv => EmptyTakesAsManyCalls
  BY EmptyMeansCalls DEF EmptyTakesAsManyCalls
<1> QED BY <1>1, SyncInvariant, PTL

(* encode() and decode() are synchronous: a call that has been woken finds *)
(* its own job done, even when its calculation is already another call's.  *)
THEOREM CallsAreSynchronous == ~Spurious => (Spec => []Synchronous)
<1>1. SyncInv => Synchronous
  BY DEF SyncInv, Answered, Synchronous
<1> QED BY <1>1, SyncInvariant, PTL

(* While a call sleeps its job is with the library, or its callback has    *)
(* yet to signal: no signal is given before the call sleeps.               *)
THEOREM SignalsReachSleepers == ~Spurious => (Spec => []SignalToCome)
<1>1. SyncInv => SignalToCome
  BY DEF SyncInv, Answered, SignalToCome, Waiting, Calling
<1> QED BY <1>1, SyncInvariant, PTL

-----------------------------------------------------------------------------
(* What the library calculates with *)

Given(t) == [comp |-> comp[t], job |-> job[t]]

(* A call that takes apart its text has gone through its first index[t]    *)
(* digits, and strtok stands before the others.                            *)
Scanned(t) ==
    /\ index[t] > 0 => /\ scan.of = t /\ Len(scan.rest) = Len(request[t]) - index[t]
                       /\ \A i \in 1 .. Len(scan.rest) : scan.rest[i] = request[t][index[t] + i]
    /\ index[t] <= Len(request[t])
    /\ \A i \in 1 .. index[t] : erasures[comp[t]][i] = request[t][i]
    /\ tot[t] = Cardinality({i \in 1 .. index[t] : request[t][i] = 1})

MarksKept(t) == Erased(erasures[comp[t]]) = Erased(request[t]) /\ Cardinality(Erased(request[t])) <= M

Outside(t) == /\ index[t] > 0 => pc[t] = "erasures"
              /\ index[t] = 0 => tot[t] = 0
              /\ pc[t] = "idle" => request[t] = Encode
              /\ pc[t] \in {"erasures", "matrix"} => request[t] # Encode

Ready(t) == request[t] # Encode /\ (pc[t] \in {"filled", "start"} \/ Given(t) \in started)

Kept(t) == /\ pc[t] = "erasures" => Scanned(t)
           /\ pc[t] = "matrix" => MarksKept(t)
           /\ Ready(t) => MarksKept(t) /\ MatrixFits(deMat[comp[t]], Erased(request[t]))

JobFor(t) == Outside(t) /\ (t \notin tangled => Kept(t))
JobInv == \A t \in Thread : JobFor(t)

LEMMA JobInit == Init => JobInv
BY DEF Init, JobInv, JobFor, Outside, Kept, Ready

(* The types of what a call sees *)
LEMMA CallTypes ==
  ASSUME TypeInv, NEW t \in Thread
  PROVE  /\ index[t] \in Nat /\ index[t] <= K + M /\ tot[t] \in Nat /\ tot[t] <= M
         /\ comp[t] \in Comp /\ request[t] \in Seq(Digits) /\ Len(request[t]) \in Nat
         /\ request[t] # Encode => Len(request[t]) >= K + M
<1>1. index[t] \in 0 .. K + M /\ tot[t] \in 0 .. M /\ comp[t] \in Comp /\ request[t] \in Seq(Digits)
      /\ request[t] \in Requests[t] \union {Encode}
  BY DEF TypeInv, ScanType, ThreadType, RequestType
<1>2. Len(request[t]) \in Nat
  BY <1>1, LenProperties
<1>3. request[t] # Encode => Len(request[t]) >= K + M
  BY <1>1, RequestAssumption
<1> QED BY <1>1, <1>2, <1>3, Blocks

(* A step after which t is as far as before, its calculation untouched *)
LEMMA JobFrame ==
  ASSUME TypeInv, NEW t \in Thread, JobFor(t),
         index'[t] = index[t], tot'[t] = tot[t], comp'[t] = comp[t], job'[t] = job[t],
         request'[t] = request[t],
         \/ pc'[t] = pc[t]
         \/ index[t] = 0 /\ pc'[t] \notin {"idle", "erasures", "matrix", "filled", "start"}
         \/ pc[t] = "filled" /\ pc'[t] = "start",
         t \in Taken \/ Given(t) \in started =>
             erasures'[comp[t]] = erasures[comp[t]] /\ deMat'[comp[t]] = deMat[comp[t]],
         Given(t) \in started' => Given(t) \in started \/ request[t] = Encode \/ pc[t] = "start",
         t \notin tangled' => t \notin tangled /\ (Extracting(t) => scan' = scan)
  PROVE  JobFor(t)'
<1>1. Given(t)' = Given(t)
  BY DEF Given
<1>2. Outside(t)'
  BY DEF JobFor, Outside
<1>3. ASSUME t \notin tangled' PROVE Kept(t)'
  <2>1. Kept(t)
    BY <1>3 DEF JobFor
  <2>2. ASSUME pc'[t] = "erasures" PROVE Scanned(t)'
    <3>1. pc[t] = "erasures" /\ Scanned(t) /\ t \in Taken
      BY <2>1, <2>2 DEF Kept, Taken
    <3>2. erasures'[comp[t]] = erasures[comp[t]]
      BY <3>1
    <3>3. index[t] > 0 => scan' = scan
      BY <1>3, <3>1 DEF Extracting
    <3>4. {i \in 1 .. index'[t] : request'[t][i] = 1} = {i \in 1 .. index[t] : request[t][i] = 1}
      OBVIOUS
    <3> QED BY <3>1, <3>2, <3>3, <3>4 DEF Scanned
  <2>3. ASSUME pc'[t] = "matrix" PROVE MarksKept(t)'
    <3>1. pc[t] = "matrix" /\ MarksKept(t) /\ t \in Taken
      BY <2>1, <2>3 DEF Kept, Taken
    <3> QED BY <3>1 DEF MarksKept
  <2>4. ASSUME Ready(t)' PROVE MarksKept(t)' /\ MatrixFits(deMat'[comp'[t]], Erased(request'[t]))
    <3>1. Ready(t) /\ (t \in Taken \/ Given(t) \in started)
      BY <1>1, <2>4 DEF Ready, Taken
    <3>2. MarksKept(t) /\ MatrixFits(deMat[comp[t]], Erased(request[t]))
      BY <2>1, <3>1 DEF Kept
    <3>3. MarksKept(t)'
      BY <3>1, <3>2 DEF MarksKept
    <3> QED BY <3>1, <3>2, <3>3
  <2> QED BY <2>2, <2>3, <2>4 DEF Kept
<1> QED BY <1>2, <1>3 DEF JobFor

(* What the other calls do *)
LEMMA JobOthers ==
  ASSUME TypeInv, PoolInv, JobInv, NEW u \in Thread, Call(u) \/ ThreadStep(u), NEW t \in Thread, t # u
  PROVE  JobFor(t)'
<1>1. ThreadType /\ ScanType /\ RequestType /\ OwnJobs /\ MarksType /\ MatrixType /\ JobFor(t)
  BY DEF TypeInv, JobInv
<1>2. index'[t] = index[t] /\ tot'[t] = tot[t]
  BY <1>1 DEF ScanType, ThreadStep, Call, SemWait, Pop, Token, Matrix, LockComp, Start, StartError, PutBack,
     PostBack, CondWait, Wake, Return, Leave, decodeVars
<1>3. comp'[t] = comp[t] /\ job'[t] = job[t]
  BY <1>1 DEF ThreadType, ThreadStep, Call, SemWait, Pop, Token, Matrix, LockComp, Start, StartError, PutBack,
     PostBack, CondWait, Wake, Return, Leave
<1>4. pc'[t] = pc[t]
  BY <1>1 DEF ThreadType, Goto, ThreadStep, Call, SemWait, Pop, Token, Matrix, LockComp, Start, StartError,
     PutBack, PostBack, CondWait, Wake, Return, Leave
<1>5. request'[t] = request[t]
  BY <1>1 DEF RequestType, ThreadStep, Call, SemWait, Pop, Token, Matrix, LockComp, Start, StartError,
     PutBack, PostBack, CondWait, Wake, Return, Leave, callVars
<1>6. ASSUME t \in Taken \/ Given(t) \in started
      PROVE  erasures'[comp[t]] = erasures[comp[t]] /\ deMat'[comp[t]] = deMat[comp[t]]
  <2>1. CASE Token(u) \/ Matrix(u)
    <3>1. u \in Taken
      BY <2>1 DEF Token, Matrix, Taken
    <3>2. comp[u] # comp[t]
      <4>1. Given(t).comp = comp[t]
        BY DEF Given
      <4> QED BY <1>6, <3>1, <4>1 DEF PoolInv, Distinct
    <3>3. comp[u] \in Comp /\ comp[t] \in Comp
      BY <1>1 DEF ThreadType
    <3>4. erasures' = erasures \/ \E x : erasures' = [erasures EXCEPT ![comp[u]] = x]
      BY <2>1 DEF Token, Matrix
    <3>5. deMat' = deMat \/ \E x : deMat' = [deMat EXCEPT ![comp[u]] = x]
      BY <2>1 DEF Token, Matrix
    <3> QED BY <1>1, <3>2, <3>3, <3>4, <3>5 DEF MarksType, MatrixType
  <2>2. CASE ~(Token(u) \/ Matrix(u))
    BY <2>2 DEF ThreadStep, Call, SemWait, Pop, LockComp, Start, StartError, PutBack, PostBack, CondWait, Wake,
       Return, Leave, decodeVars
  <2> QED BY <2>1, <2>2
<1>7. ASSUME Given(t) \in started', Given(t) \notin started PROVE request[t] = Encode
  <2>1. started' = started \union {Given(u)} /\ pc[u] # "idle"
    BY <1>7 DEF ThreadStep, Call, SemWait, Pop, Token, Matrix, LockComp, Start, StartError, PutBack, PostBack,
       CondWait, Wake, Return, Leave, libraryVars, Given
  <2>2. job[t] = job[u]
    BY <1>7, <2>1 DEF Given
  <2> QED BY <1>1, <2>1, <2>2 DEF OwnJobs, JobFor, Outside
<1>8. ASSUME t \notin tangled' PROVE t \notin tangled /\ (Extracting(t) => scan' = scan)
  <2>1. CASE Token(u)
    BY <1>8, <2>1 DEF Token
  <2>2. CASE Leave(u)
    <3>1. t \notin tangled
      BY <1>8, <2>2 DEF Leave
    <3>2. Extracting(t) => scan.of = t
      BY <1>1, <3>1 DEF JobFor, Kept, Scanned, Extracting
    <3> QED BY <2>2, <3>1, <3>2 DEF Leave
  <2>3. CASE ~Token(u) /\ ~Leave(u)
    BY <1>8, <2>3 DEF ThreadStep, Call, SemWait, Pop, Matrix, LockComp, Start, StartError, PutBack, PostBack,
       CondWait, Wake, Return, decodeVars
  <2> QED BY <2>1, <2>2, <2>3
<1> QED BY <1>1, <1>2, <1>3, <1>4, <1>5, <1>6, <1>7, <1>8, JobFrame

(* What strtok gives an untangled call is what it has left of its text. *)
LEMMA TextIsRest ==
  ASSUME TypeInv, NEW t \in Thread, Scanned(t), NEW text \in Texts(t)
  PROVE  /\ text \in Seq(Digits) /\ Len(text) = Len(request[t]) - index[t]
         /\ \A i \in 1 .. Len(text) : text[i] = request[t][index[t] + i]
<1>1. text \in Seq(Digits)
  BY TextDigits DEF TypeInv
<1>2. CASE index[t] = 0
  <2>1. text = request[t]
    BY <1>2 DEF Texts
  <2>2. \A i \in 1 .. Len(text) : index[t] + i = i
    BY <1>2
  <2> QED BY <1>1, <1>2, <2>1, <2>2, CallTypes
<1>3. CASE index[t] # 0
  <2>1. index[t] > 0
    BY <1>3, CallTypes
  <2>2. t # Nobody
    BY PoolAssumption
  <2>3. text = scan.rest
    BY <1>3, <2>1, <2>2 DEF Texts, Scanned
  <2> QED BY <1>1, <2>1, <2>3 DEF Scanned
<1> QED BY <1>2, <1>3

(* The text is at its end: every block has been given its mark. *)
LEMMA MarksComplete ==
  ASSUME TypeInv, NEW t \in Thread, Scanned(t), <<>> \in Texts(t), request[t] # Encode
  PROVE  MarksKept(t)
<1>1. index[t] = K + M
  <2>1. Len(request[t]) - index[t] = 0
    BY TextIsRest, EmptySeq
  <2> QED BY <2>1, CallTypes, Blocks
<1>2. Block = 1 .. index[t]
  BY <1>1 DEF Block
<1>3. Erased(erasures[comp[t]]) = Erased(request[t])
  BY <1>2 DEF Scanned, Erased
<1>4. Cardinality(Erased(request[t])) = tot[t]
  BY <1>2 DEF Scanned, Erased
<1> QED BY <1>3, <1>4, CallTypes DEF MarksKept

(* One more digit *)
LEMMA ScannedNext ==
  ASSUME TypeInv, NEW t \in Thread, Scanned(t), NEW text \in Texts(t), text # <<>>, index[t] # K + M,
         index'[t] = index[t] + 1, tot'[t] = tot[t] + Head(text), comp'[t] = comp[t], request'[t] = request[t],
         index[t] = 0 => tot[t] = 0,
         scan' = [of |-> IF index[t] = 0 THEN t ELSE scan.of, rest |-> IF text = <<>> THEN <<>> ELSE Tail(text)],
         erasures'[comp[t]] = Mark(erasures[comp[t]], index[t] + 1, Head(text))
  PROVE  Scanned(t)'
<1> DEFINE n == index[t]
           q == request[t]
<1>1. /\ text \in Seq(Digits) /\ Len(text) = Len(q) - n /\ \A i \in 1 .. Len(text) : text[i] = q[n + i]
      /\ n \in Nat /\ n < K + M /\ Len(q) \in Nat /\ n <= Len(q) /\ K + M \in Nat
  <2>1. text \in Seq(Digits) /\ Len(text) = Len(q) - n /\ \A i \in 1 .. Len(text) : text[i] = q[n + i]
    BY TextIsRest
  <2>2. n \in Nat /\ n <= K + M /\ Len(q) \in Nat /\ K + M \in Nat
    BY CallTypes, Blocks
  <2>3. n < K + M /\ n <= Len(q)
    BY <2>2 DEF Scanned
  <2> QED BY <2>1, <2>2, <2>3
<1>2. /\ Len(text) \in Nat /\ Len(text) > 0 /\ Head(text) = text[1] /\ Tail(text) \in Seq(Digits)
      /\ Len(Tail(text)) = Len(text) - 1 /\ \A i \in 1 .. Len(text) - 1 : Tail(text)[i] = text[i + 1]
      /\ Head(text) \in Digits
  BY <1>1, EmptySeq, LenProperties, HeadTailProperties, TextDigits
<1>3. Head(text) = q[n + 1]
  <2>1. 1 \in 1 .. Len(text)
    BY <1>2
  <2> QED BY <1>1, <1>2, <2>1
<1>4. scan'.of = t /\ scan'.rest = Tail(text)
  BY <1>1 DEF Scanned
<1>5. Len(Tail(text)) = Len(q) - (n + 1) /\ \A i \in 1 .. Len(Tail(text)) : Tail(text)[i] = q[(n + 1) + i]
  <2>1. Len(Tail(text)) = Len(q) - (n + 1)
    BY <1>1, <1>2
  <2>2. ASSUME NEW i \in 1 .. Len(Tail(text)) PROVE Tail(text)[i] = q[(n + 1) + i]
    <3>1. i \in 1 .. Len(text) - 1 /\ i \in Nat
      BY <1>2
    <3>2. i + 1 \in 1 .. Len(text) /\ n + (i + 1) = (n + 1) + i
      <4>1. n \in Nat /\ Len(text) \in Nat
        BY <1>1, <1>2
      <4> HIDE DEF n
      <4> QED BY <3>1, <4>1
    <3>3. Tail(text)[i] = text[i + 1]
      BY <1>2, <3>1
    <3>4. text[i + 1] = q[n + (i + 1)]
      BY <1>1, <3>2
    <3> QED BY <3>2, <3>3, <3>4
  <2> QED BY <2>1, <2>2
<1>6. n + 1 <= Len(q)
  BY <1>1, <1>2
<1>7. ASSUME NEW i \in 1 .. n + 1 PROVE erasures'[comp[t]][i] = q[i]
  <2>1. MarksType /\ comp[t] \in Comp
    BY CallTypes DEF TypeInv
  <2>2. i \in Block /\ n + 1 \in Block
    BY <1>1 DEF Block
  <2>3. erasures'[comp[t]][i] = IF i = n + 1 THEN Head(text) ELSE erasures[comp[t]][i]
    BY <2>1, <2>2 DEF MarksType, Mark
  <2>4. i = n + 1 \/ i \in 1 .. n
    BY <1>1
  <2> QED BY <1>3, <2>3, <2>4 DEF Scanned
<1>8. tot'[t] = Cardinality({i \in 1 .. n + 1 : q[i] = 1})
  <2> DEFINE S == {i \in 1 .. n : q[i] = 1}
  <2>1. IsFiniteSet(S) /\ Cardinality(S) = tot[t] /\ n + 1 \notin S
    <3>1. IsFiniteSet(1 .. n) /\ n + 1 \notin 1 .. n
      <4>1. n \in Int /\ 1 \in Int
        BY <1>1
      <4> HIDE DEF n
      <4> QED BY <4>1, FS_Interval
    <3>2. S \in SUBSET (1 .. n) /\ Cardinality(S) = tot[t]
      BY DEF Scanned
    <3> QED BY <3>1, <3>2, FS_Subset
  <2>2. \A i : i \in 1 .. n + 1 <=> i \in 1 .. n \/ i = n + 1
    BY <1>1
  <2>3. CASE Head(text) = 1
    <3>1. {i \in 1 .. n + 1 : q[i] = 1} = S \union {n + 1}
      BY <1>3, <2>2, <2>3
    <3> QED BY <2>1, <2>3, <3>1, FS_AddElement
  <2>4. CASE Head(text) = 0
    <3>1. {i \in 1 .. n + 1 : q[i] = 1} = S
      BY <1>3, <2>2, <2>4
    <3>2. tot[t] \in Nat
      BY CallTypes
    <3>3. tot'[t] = tot[t]
      BY <2>4, <3>2
    <3> QED BY <2>1, <3>1, <3>3
  <2> QED BY <1>2, <2>3, <2>4 DEF Digits
<1> QED BY <1>4, <1>5, <1>6, <1>7, <1>8 DEF Scanned

LEMMA JobToken ==
  ASSUME TypeInv, PoolInv, NEW t \in Thread, JobFor(t), Token(t)
  PROVE  JobFor(t)'
<1>1. /\ ThreadType /\ ScanType /\ MarksType /\ pc[t] = "erasures" /\ t \in Taken
      /\ comp' = comp /\ job' = job /\ request' = request /\ started' = started
      /\ request[t] # Encode /\ (t \notin tangled' => t \notin tangled /\ Scanned(t))
  BY DEF TypeInv, Token, Taken, JobFor, Outside, Kept, callVars, libraryVars
<1>2. Given(t)' \notin started'
  <2>1. Given(t)' = Given(t) /\ Given(t).comp = comp[t]
    BY <1>1 DEF Given
  <2> QED BY <1>1, <2>1 DEF PoolInv, Distinct
<1>3. PICK text \in Texts(t) :
        /\ scan' = [of |-> IF index[t] = 0 THEN t ELSE scan.of,
                    rest |-> IF text = <<>> THEN <<>> ELSE Tail(text)]
        /\ \/ /\ text = <<>> \/ index[t] = K + M
              /\ Goto(t, IF text = <<>> THEN "matrix" ELSE "putback")
              /\ index' = [index EXCEPT ![t] = 0] /\ tot' = [tot EXCEPT ![t] = 0]
              /\ UNCHANGED erasures
           \/ /\ text # <<>> /\ index[t] # K + M
              /\ erasures' = [erasures EXCEPT ![comp[t]] = Mark(@, index[t] + 1, Head(text))]
              /\ \/ /\ tot[t] + Head(text) > M /\ Goto(t, "putback")
                    /\ index' = [index EXCEPT ![t] = 0] /\ tot' = [tot EXCEPT ![t] = 0]
                 \/ /\ ~(tot[t] + Head(text) > M) /\ UNCHANGED pc
                    /\ index' = [index EXCEPT ![t] = @ + 1]
                    /\ tot' = [tot EXCEPT ![t] = @ + Head(text)]
  BY TokenCases
<1>4. CASE pc'[t] = "putback" /\ index'[t] = 0 /\ tot'[t] = 0
  BY <1>1, <1>2, <1>4 DEF JobFor, Outside, Kept, Ready
<1>5. CASE text = <<>> /\ pc'[t] = "matrix" /\ index'[t] = 0 /\ tot'[t] = 0 /\ UNCHANGED erasures
  <2>1. t \notin tangled' => MarksKept(t)
    BY <1>1, <1>5, MarksComplete
  <2>2. t \notin tangled' => MarksKept(t)'
    BY <1>1, <1>5, <2>1 DEF MarksKept
  <2> QED BY <1>1, <1>2, <1>5, <2>2 DEF JobFor, Outside, Kept, Ready
<1>6. CASE /\ text # <<>> /\ index[t] # K + M /\ UNCHANGED pc
           /\ erasures' = [erasures EXCEPT ![comp[t]] = Mark(@, index[t] + 1, Head(text))]
           /\ index' = [index EXCEPT ![t] = @ + 1]
           /\ tot' = [tot EXCEPT ![t] = @ + Head(text)]
  <2>1. index'[t] = index[t] + 1 /\ tot'[t] = tot[t] + Head(text)
    BY <1>1, <1>6 DEF ScanType
  <2>2. erasures'[comp[t]] = Mark(erasures[comp[t]], index[t] + 1, Head(text))
    BY <1>1, <1>6 DEF MarksType, ThreadType
  <2>3. t \notin tangled' => Scanned(t)'
    BY <1>1, <1>3, <1>6, <2>1, <2>2, ScannedNext DEF JobFor, Outside
  <2>4. index'[t] # 0 /\ index'[t] > 0
    BY <2>1, CallTypes
  <2> QED BY <1>1, <1>2, <1>6, <2>3, <2>4 DEF JobFor, Outside, Kept, Ready
<1>7. \A l : Goto(t, l) => pc'[t] = l
  BY <1>1 DEF Goto, ThreadType
<1>8. index' = [index EXCEPT ![t] = 0] /\ tot' = [tot EXCEPT ![t] = 0] => index'[t] = 0 /\ tot'[t] = 0
  BY <1>1 DEF ScanType
<1> QED BY <1>3, <1>4, <1>5, <1>6, <1>7, <1>8

LEMMA JobMatrix ==
  ASSUME TypeInv, PoolInv, NEW t \in Thread, JobFor(t), Matrix(t)
  PROVE  JobFor(t)'
<1>1. /\ ThreadType /\ MatrixType /\ pc[t] = "matrix" /\ t \in Taken /\ comp' = comp /\ job' = job
      /\ request' = request /\ started' = started /\ index' = index /\ tot' = tot
      /\ erasures' = erasures /\ tangled' = tangled /\ comp[t] \in Comp
  BY DEF TypeInv, Matrix, Taken, callVars, libraryVars, ThreadType
<1>2. Given(t)' \notin started'
  <2>1. Given(t)' = Given(t) /\ Given(t).comp = comp[t]
    BY <1>1 DEF Given
  <2> QED BY <1>1, <2>1 DEF PoolInv, Distinct
<1>3. index[t] = 0
  BY <1>1, CallTypes DEF JobFor, Outside
<1>4. CASE Goto(t, "putback")
  <2>1. pc'[t] = "putback"
    BY <1>1, <1>4 DEF Goto, ThreadType
  <2> QED BY <1>1, <1>2, <1>3, <2>1 DEF JobFor, Outside, Kept, Ready
<1>5. CASE Goto(t, "filled") /\ deMat' = [deMat EXCEPT ![comp[t]] = Columns(@, Erased(erasures[comp[t]]))]
  <2>1. pc'[t] = "filled"
    BY <1>1, <1>5 DEF Goto, ThreadType
  <2>2. deMat'[comp[t]] = Columns(deMat[comp[t]], Erased(erasures[comp[t]]))
    BY <1>1, <1>5 DEF MatrixType
  <2>3. ASSUME t \notin tangled
        PROVE  MarksKept(t) /\ MatrixFits(deMat'[comp[t]], Erased(request[t]))
    <3> DEFINE E == Erased(request[t])
    <3>1. MarksKept(t)
      BY <1>1, <2>3 DEF JobFor, Kept
    <3>2. deMat'[comp[t]] = Columns(deMat[comp[t]], E) /\ Cardinality(E) <= M
      BY <2>2, <3>1 DEF MarksKept
    <3>3. Cardinality(E) \in Nat
      <4>1. IsFiniteSet(Block)
        BY Blocks, FS_Interval DEF Block
      <4> QED BY <4>1, FS_Subset, FS_CardinalityType DEF Erased
    <3> HIDE DEF E
    <3>4. ASSUME NEW l \in 1 .. Cardinality(E), Nth(E, l) <= K
          PROVE  Columns(deMat[comp[t]], E)[l] = [row |-> Nth(E, l), missing |-> E]
      <4>1. l \in 1 .. M /\ l <= Cardinality(E)
        BY <3>2, <3>3, Blocks
      <4> QED BY <3>4, <4>1 DEF Columns, Column
    <3>5. MatrixFits(deMat'[comp[t]], E)
      BY <3>2, <3>4 DEF MatrixFits
    <3> QED BY <3>1, <3>5 DEF E
  <2>4. t \notin tangled => MarksKept(t)'
    BY <1>1, <2>3 DEF MarksKept
  <2>5. Outside(t)'
    BY <1>1, <1>3, <2>1 DEF JobFor, Outside
  <2>6. t \notin tangled' => Kept(t)'
    BY <1>1, <2>1, <2>3, <2>4 DEF Kept
  <2> QED BY <2>5, <2>6 DEF JobFor
<1> QED BY <1>4, <1>5 DEF Matrix

LEMMA JobPop ==
  ASSUME TypeInv, PoolInv, NEW t \in Thread, JobFor(t), Pop(t), list # <<>>
  PROVE  JobFor(t)'
<1>1. /\ ThreadType /\ pc[t] = "pop" /\ comp' = [comp EXCEPT ![t] = Head(list)] /\ job' = job
      /\ request' = request /\ started' = started /\ index' = index /\ tot' = tot /\ tangled' = tangled
      /\ Goto(t, IF request[t] = Encode THEN "filled" ELSE "erasures") /\ list \in Seq(Comp)
  BY DEF TypeInv, ListType, Pop, callVars, decodeVars, libraryVars
<1>2. pc'[t] = (IF request[t] = Encode THEN "filled" ELSE "erasures") /\ comp'[t] = Head(list)
  BY <1>1 DEF Goto, ThreadType
<1>3. index[t] = 0 /\ tot[t] = 0
  BY <1>1, CallTypes DEF JobFor, Outside
<1>4. Given(t)' \notin started'
  <2>1. Given(t)'.comp = Head(list)
    BY <1>2 DEF Given
  <2>2. Head(list) \in OnList
    BY <1>1, ListTail DEF PoolInv, Distinct, OnList
  <2> QED BY <1>1, <2>1, <2>2 DEF PoolInv, Distinct
<1>5. Scanned(t)'
  <2>1. {i \in 1 .. 0 : request[t][i] = 1} = {} /\ \A i : i \notin 1 .. 0
    OBVIOUS
  <2>2. 0 <= Len(request[t])
    BY CallTypes
  <2> QED BY <1>1, <1>3, <2>1, <2>2, FS_EmptySet DEF Scanned
<1> QED BY <1>1, <1>2, <1>3, <1>4, <1>5 DEF JobFor, Outside, Kept, Ready

LEMMA JobCallLeave ==
  ASSUME TypeInv, NEW t \in Thread, JobFor(t), Call(t) \/ Leave(t), pc[t] # "erasures"
  PROVE  JobFor(t)'
<1>1. /\ ThreadType /\ RequestType /\ LibraryType /\ OwnJobs /\ index' = index /\ tot' = tot
  BY DEF TypeInv, Call, Leave, decodeVars
<1>2. index[t] = 0 /\ tot[t] = 0
  BY CallTypes DEF JobFor, Outside
<1>3. CASE Call(t)
  <2>1. pc'[t] = "get" /\ job'[t] = jobs + 1 /\ started' = started
    BY <1>1, <1>3 DEF Call, Goto, ThreadType, libraryVars
  <2>2. Given(t)' \notin started'
    <3>1. Given(t)'.job = jobs + 1
      BY <2>1 DEF Given
    <3>2. jobs + 1 \notin 1 .. jobs
      BY <1>1, PoolAssumption DEF LibraryType
    <3> QED BY <1>1, <2>1, <3>1, <3>2 DEF OwnJobs
  <2> QED BY <1>1, <1>2, <2>1, <2>2 DEF JobFor, Outside, Kept, Ready
<1>4. CASE Leave(t)
  <2>1. pc'[t] = "idle" /\ request'[t] = Encode
    BY <1>1, <1>4 DEF Leave, Goto, ThreadType, RequestType
  <2> QED BY <1>1, <1>2, <2>1 DEF JobFor, Outside, Kept, Ready
<1> QED BY <1>3, <1>4

LEMMA JobOwn ==
  ASSUME TypeInv, PoolInv, NEW t \in Thread, JobFor(t), Call(t) \/ ThreadStep(t)
  PROVE  JobFor(t)'
<1>1. ASSUME \/ SemWait(t) \/ (Pop(t) /\ list = <<>>) \/ LockComp(t) \/ Start(t) \/ StartError(t) \/ PutBack(t)
             \/ CondWait(t) \/ Wake(t)
      PROVE  JobFor(t)'
  <2>1. ThreadType
    BY DEF TypeInv
  <2>2. /\ index' = index /\ tot' = tot /\ scan' = scan /\ erasures' = erasures /\ deMat' = deMat
        /\ tangled' = tangled /\ request' = request
    BY <1>1 DEF SemWait, Pop, LockComp, Start, StartError, PutBack, CondWait, Wake, decodeVars, callVars
  <2>3. comp' = comp /\ job' = job
    BY <1>1 DEF SemWait, Pop, LockComp, Start, StartError, PutBack, CondWait, Wake
  <2>4. started' = started \/ (started' = started \union {Given(t)} /\ pc[t] = "start")
    BY <1>1 DEF SemWait, Pop, LockComp, Start, StartError, PutBack, CondWait, Wake, libraryVars, Given
  <2>5. pc[t] # "erasures" /\ \E l : /\ Goto(t, l)
                                     /\ \/ l \notin {"idle", "erasures", "matrix", "filled", "start"}
                                        \/ l = "start" /\ pc[t] = "filled"
    BY <1>1 DEF SemWait, Pop, LockComp, Start, StartError, PutBack, CondWait, Wake
  <2>6. index[t] = 0
    BY <2>5, CallTypes DEF JobFor, Outside
  <2>7. \/ index[t] = 0 /\ pc'[t] \notin {"idle", "erasures", "matrix", "filled", "start"}
        \/ pc[t] = "filled" /\ pc'[t] = "start"
    BY <2>1, <2>5, <2>6 DEF Goto, ThreadType
  <2> QED BY <2>2, <2>3, <2>4, <2>7, JobFrame
<1>2. ASSUME PostBack(t) \/ Return(t) PROVE JobFor(t)'
  <2>1. Leave(t) /\ pc[t] # "erasures"
    BY <1>2 DEF PostBack, Return
  <2> QED BY <2>1, JobCallLeave
<1>3. ASSUME Call(t) PROVE JobFor(t)'
  <2>1. pc[t] # "erasures"
    BY <1>3 DEF Call
  <2> QED BY <1>3, <2>1, JobCallLeave
<1> QED BY <1>1, <1>2, <1>3, JobToken, JobMatrix, JobPop DEF ThreadStep

LEMMA JobStep == TypeInv /\ PoolInv /\ JobInv /\ [Next]_vars => JobInv'
<1> SUFFICES ASSUME TypeInv, PoolInv, JobInv, [Next]_vars, NEW t \in Thread PROVE JobFor(t)'
  BY DEF JobInv
<1>1. JobFor(t)
  BY DEF JobInv
<1>2. CASE LibraryStep \/ UNCHANGED vars
  <2>1. /\ index' = index /\ tot' = tot /\ scan' = scan /\ erasures' = erasures /\ deMat' = deMat
        /\ tangled' = tangled /\ request' = request
    BY <1>2 DEF LibraryStep, Finish, DoneLock, DoneSignal, DoneUnlock, DonePut, DonePost, decodeVars,
       callVars, vars
  <2>2. comp' = comp /\ job' = job /\ pc' = pc /\ started' \subseteq started
    BY <1>2 DEF LibraryStep, Finish, DoneLock, DoneSignal, DoneUnlock, DonePut, DonePost, threadVars,
       libraryVars, vars
  <2> QED BY <1>1, <2>1, <2>2, JobFrame
<1>3. ASSUME NEW u \in Thread, Call(u) \/ ThreadStep(u) PROVE JobFor(t)'
  BY <1>1, <1>3, JobOthers, JobOwn
<1> QED BY <1>2, <1>3 DEF Next

LEMMA JobInvariant == Spec => [](TypeInv /\ PoolInv /\ JobInv)
<1>1. Init => TypeInv /\ PoolInv /\ JobInv
  BY TypeInit, PoolInit, JobInit
<1>2. TypeInv /\ PoolInv /\ JobInv /\ [Next]_vars => (TypeInv /\ PoolInv /\ JobInv)'
  BY TypeStep, PoolStep, JobStep
<1> QED BY <1>1, <1>2, PTL DEF Spec

(* While the library works for a call that no other call took its text     *)
(* apart with, it works with that call's marks and columns: nobody else    *)
(* has the calculation, and nothing is left there of earlier jobs, not     *)
(* even of those that were refused halfway.                                *)
THEOREM JobsAreKept == Spec => []JobKept
<1>1. JobInv => JobKept
  <2> SUFFICES ASSUME JobInv, NEW t \in Thread \ tangled, Given(t) \in started, request[t] # Encode
               PROVE  /\ Erased(erasures[comp[t]]) = Erased(request[t])
                      /\ MatrixFits(deMat[comp[t]], Erased(erasures[comp[t]]))
    BY DEF JobKept, Given
  <2>1. MarksKept(t) /\ MatrixFits(deMat[comp[t]], Erased(request[t]))
    BY DEF JobInv, JobFor, Kept, Ready
  <2> QED BY <2>1 DEF MarksKept
<1> QED BY <1>1, JobInvariant, PTL
=============================================================================
