------------------------------- MODULE ECCalc -------------------------------
(***************************************************************************)
(* The pool of calculations of an ECCalc, shared by the threads that call  *)
(* encode and decode and by the callbacks of the offload library.          *)
(*                                                                         *)
(* A call takes a calculation off the free list, fills it in, starts it    *)
(* with its mutex held and sleeps on its condition variable.  The callback *)
(* signals and then, itself, returns the calculation to the list: the call *)
(* may still be on its way out of the condition variable when another call *)
(* takes the same calculation.  A semaphore is meant to count the list.    *)
(*                                                                         *)
(* decode() is told which blocks are missing by a text with a 0 or a 1 for *)
(* each block.  It takes it apart with strtok, whose position is shared by *)
(* all threads, and sets the erasure arrays and the decoding matrix of the *)
(* calculation, which keep what the previous job left there.  What is      *)
(* calculated is not modelled: a job is a number, and stands for the       *)
(* addresses of the blocks it was given.                                   *)
(***************************************************************************)
EXTENDS Naturals, Sequences, FiniteSets

CONSTANTS
    Thread,        \* threads that call encode() and decode()
    Nobody,        \* the value of a mutex that is free
    Library,       \* the thread of the library that runs the callbacks
    MaxInflight,   \* max_inflight_calcs
    Listed,        \* the calculations the constructor puts on the list
    K, M,          \* how many data and parity blocks there are
    Requests,      \* what each thread asks for: Encode, or a text for decode()
    AsyncErrors,   \* whether making a matrix or starting a calculation may fail
    Spurious,      \* whether a condition variable may wake a thread unasked
    MaxJobs        \* bound: number of calls

Comp == 1 .. MaxInflight
Block == 1 .. K + M
Encode == <<>>

(* The constructor puts a calculation on the list if alloc_comp_ec_mrs     *)
(* returned an error, and that function returns nothing: which             *)
(* calculations get there depends on the build.  Nothing relates them to   *)
(* the number of threads.                                                  *)
ASSUME PoolAssumption ==
    /\ MaxInflight \in Nat \ {0}
    /\ Listed \subseteq Comp
    /\ IsFiniteSet(Thread)
    /\ Nobody \notin Thread \union {Library} /\ Library \notin Thread
    /\ AsyncErrors \in BOOLEAN /\ Spurious \in BOOLEAN
    /\ MaxJobs \in Nat

(* ECBuffer::receive writes a digit for every block.  A shorter text would *)
(* leave the rest of the arrays as the previous job set it.                *)
ASSUME RequestAssumption ==
    /\ K \in Nat \ {0} /\ M \in Nat \ {0}
    /\ \A t \in Thread : \A r \in Requests[t] : r = Encode \/ (r \in Seq({0, 1}) /\ Len(r) >= K + M)

VARIABLES
    list,       \* comps_list, first element first
    sem,        \* the semaphore
    mutex,      \* per calculation, who holds its mutex
    sleeping,   \* per calculation, the threads waiting on its condition
    started,    \* calculations the library works on, each with its job
    pc,         \* per thread, the statement it is at
    comp,       \* per thread, the calculation it took
    job,        \* per thread, the number of its call
    request,    \* per thread, what its call asks for
    scan,       \* where strtok stands: in the text of which thread, and what is left
    index, tot, \* per thread, how many tokens it has seen, and how many of them are 1
    erasures,   \* per calculation, the blocks erasures and erasures_arr mark
    deMat,      \* per calculation, the columns of its decoding matrix
    cbPc,       \* the statement the callback is at
    cbComp,     \* the calculation it was called for
    jobs,       \* history: how many calls there were
    tangled,    \* history: the threads whose call took apart its text while another did
    finished,   \* history: the jobs the library finished for calls still on
    abandoned   \* history: calculations returned with their mutex locked

poolVars == <<list, sem>>
syncVars == <<mutex, sleeping>>
threadVars == <<pc, comp, job>>
decodeVars == <<scan, index, tot, erasures, deMat, tangled>>
callVars == <<jobs, request>>
libraryVars == <<started, cbPc, cbComp, finished>>
vars == <<poolVars, syncVars, threadVars, libraryVars, decodeVars, callVars, abandoned>>

Goto(t, label) == pc' = [pc EXCEPT ![t] = label]

-----------------------------------------------------------------------------
(* encode() and decode(), and get_ec_comp() *)

Call(t) ==
    /\ pc[t] = "idle"
    /\ jobs < MaxJobs
    /\ jobs' = jobs + 1
    /\ \E r \in Requests[t] : request' = [request EXCEPT ![t] = r]
    /\ job' = [job EXCEPT ![t] = jobs + 1]
    /\ Goto(t, "get")
    /\ UNCHANGED <<poolVars, syncVars, comp, libraryVars, decodeVars, abandoned>>

SemWait(t) ==
    /\ pc[t] = "get"
    /\ sem > 0
    /\ sem' = sem - 1
    /\ Goto(t, "pop")
    /\ UNCHANGED <<list, syncVars, comp, job, libraryVars, decodeVars, callVars, abandoned>>

(* Under the spinlock.  Removing the first element of an empty list        *)
(* dereferences a null pointer, which ends the program; here the other     *)
(* threads go on.  The calculation is then given the call's blocks.        *)
Pop(t) ==
    /\ pc[t] = "pop"
    /\ IF list = <<>>
       THEN Goto(t, "crashed") /\ UNCHANGED <<list, comp>>
       ELSE /\ comp' = [comp EXCEPT ![t] = Head(list)]
            /\ list' = Tail(list)
            /\ Goto(t, IF request[t] = Encode THEN "filled" ELSE "erasures")
    /\ UNCHANGED <<sem, syncVars, job, libraryVars, decodeVars, callVars, abandoned>>

(* Mutant: a block that is there stays marked if the last job marked it. *)
MarkOnly(marks, i, digit) == [marks EXCEPT ![i] = IF digit = 1 THEN 1 ELSE @]

Mark(marks, i, digit) == [marks EXCEPT ![i] = digit]
Erased(marks) == {i \in Block : marks[i] = 1}

(* What strtok has before it: the text it is given at the first call, then *)
(* what is left of the text it was given last, by whichever thread.  When  *)
(* that one's call has returned its text was freed and may hold anything.  *)
Extracting(u) == pc[u] = "erasures" /\ index[u] > 0
Texts(t) ==
    IF index[t] = 0 THEN {request[t]}
    ELSE IF scan.of # Nobody THEN {scan.rest}
    ELSE {<<>>, <<0>>, <<1>>}

(* The call returns: its variables are gone, and ECBuffer::receive frees   *)
(* the text.                                                               *)
Leave(t) ==
    /\ Goto(t, "idle")
    /\ comp' = [comp EXCEPT ![t] = 1] /\ job' = [job EXCEPT ![t] = 0]
    /\ request' = [request EXCEPT ![t] = Encode]
    /\ scan' = IF scan.of = t THEN [of |-> Nobody, rest |-> <<>>] ELSE scan
    /\ tangled' = tangled \ {t} /\ finished' = finished \ {job[t]}
    /\ UNCHANGED <<index, tot, erasures, deMat, jobs, started, cbPc, cbComp>>

(* One round of the loop in extract_erasures.  Too many tokens or erasures *)
(* are refused, with the arrays half written.                              *)
Token(t) ==
    /\ pc[t] = "erasures"
    /\ LET others == {u \in Thread \ {t} : Extracting(u)}
       IN  tangled' = IF others = {} THEN tangled ELSE tangled \union {t} \union others
    /\ \E text \in Texts(t) :
          /\ scan' = [of |-> IF index[t] = 0 THEN t ELSE scan.of,
                      rest |-> IF text = <<>> THEN <<>> ELSE Tail(text)]
          /\ IF text = <<>> \/ index[t] = K + M
             THEN /\ Goto(t, IF text = <<>> THEN "matrix" ELSE "putback")
                  /\ index' = [index EXCEPT ![t] = 0] /\ tot' = [tot EXCEPT ![t] = 0]
                  /\ UNCHANGED erasures
             ELSE /\ erasures' = [erasures EXCEPT ![comp[t]] = Mark(@, index[t] + 1, Head(text))]
                  /\ IF tot[t] + Head(text) > M
                     THEN /\ Goto(t, "putback")
                          /\ index' = [index EXCEPT ![t] = 0] /\ tot' = [tot EXCEPT ![t] = 0]
                     ELSE /\ index' = [index EXCEPT ![t] = @ + 1] /\ tot' = [tot EXCEPT ![t] = @ + Head(text)]
                          /\ UNCHANGED pc
    /\ UNCHANGED <<poolVars, syncVars, comp, job, libraryVars, deMat, callVars, abandoned>>

Nth(S, n) == CHOOSE i \in S : Cardinality({j \in S : j <= i}) = n
Column(i, erased) == IF i <= K THEN [row |-> i, missing |-> erased] ELSE [row |-> i, missing |-> {}]

(* A column of the decoding matrix for each missing block.  The rows that  *)
(* make_decoding_matrix calculates are those of data blocks: for a parity  *)
(* block what follows them in memory is copied.  (Calls that got each      *)
(* other's digits may have more than M blocks marked; what is then read    *)
(* and written outside the arrays is left out.)                            *)
Columns(old, erased) ==
    [l \in 1 .. M |-> IF l <= Cardinality(erased) THEN Column(Nth(erased, l), erased) ELSE old[l]]

(* alloc_decode_matrix *)
Matrix(t) ==
    /\ pc[t] = "matrix"
    /\ \/ /\ deMat' = [deMat EXCEPT ![comp[t]] = Columns(@, Erased(erasures[comp[t]]))]
          /\ Goto(t, "filled")
       \/ AsyncErrors /\ Goto(t, "putback") /\ UNCHANGED deMat
    /\ UNCHANGED <<poolVars, syncVars, comp, job, libraryVars, scan, index, tot, erasures, tangled,
                   callVars, abandoned>>

LockComp(t) ==
    /\ pc[t] = "filled"
    /\ mutex[comp[t]] = Nobody
    /\ mutex' = [mutex EXCEPT ![comp[t]] = t]
    /\ Goto(t, "start")
    /\ UNCHANGED <<poolVars, sleeping, comp, job, libraryVars, decodeVars, callVars, abandoned>>

(* Mutant: the mutex is released before the wait. *)
StartUnlocked(t) ==
    /\ pc[t] = "start"
    /\ started' = started \union {[comp |-> comp[t], job |-> job[t]]}
    /\ mutex' = [mutex EXCEPT ![comp[t]] = Nobody]
    /\ Goto(t, "wait")
    /\ UNCHANGED <<poolVars, sleeping, comp, job, cbPc, cbComp, finished, decodeVars, callVars, abandoned>>

Start(t) ==
    /\ pc[t] = "start"
    /\ started' = started \union {[comp |-> comp[t], job |-> job[t]]}
    /\ Goto(t, "wait")
    /\ UNCHANGED <<poolVars, syncVars, comp, job, cbPc, cbComp, finished, decodeVars, callVars, abandoned>>

(* The calculation goes back with its mutex locked. *)
StartError(t) ==
    /\ AsyncErrors
    /\ pc[t] = "start"
    /\ Goto(t, "putback")
    /\ abandoned' = abandoned \union {comp[t]}
    /\ UNCHANGED <<poolVars, syncVars, comp, job, libraryVars, decodeVars, callVars>>

(* put_ec_comp(): the list, then the semaphore; the call returns -1. *)
PutBack(t) ==
    /\ pc[t] = "putback"
    /\ list' = <<comp[t]>> \o list
    /\ Goto(t, "post")
    /\ UNCHANGED <<sem, syncVars, comp, job, libraryVars, decodeVars, callVars, abandoned>>

PostBack(t) ==
    /\ pc[t] = "post"
    /\ sem' = sem + 1
    /\ Leave(t)
    /\ UNCHANGED <<list, syncVars, abandoned>>

(* Mutant: the call returns without waiting. *)
CondWaitNot(t) ==
    /\ pc[t] = "wait"
    /\ Goto(t, "woken")
    /\ UNCHANGED <<poolVars, syncVars, comp, job, libraryVars, decodeVars, callVars, abandoned>>

(* pthread_cond_wait releases the mutex and takes it again once woken. *)
CondWait(t) ==
    /\ pc[t] = "wait"
    /\ mutex' = [mutex EXCEPT ![comp[t]] = Nobody]
    /\ sleeping' = [sleeping EXCEPT ![comp[t]] = @ \union {t}]
    /\ Goto(t, "asleep")
    /\ UNCHANGED <<poolVars, comp, job, libraryVars, decodeVars, callVars, abandoned>>

(* Woken by a signal or, as POSIX allows, unasked: no predicate is tested  *)
(* afterwards.                                                             *)
Wake(t) ==
    /\ pc[t] = "asleep"
    /\ Spurious \/ t \notin sleeping[comp[t]]
    /\ mutex[comp[t]] = Nobody
    /\ mutex' = [mutex EXCEPT ![comp[t]] = t]
    /\ sleeping' = [sleeping EXCEPT ![comp[t]] = @ \ {t}]
    /\ Goto(t, "woken")
    /\ UNCHANGED <<poolVars, comp, job, libraryVars, decodeVars, callVars, abandoned>>

(* Mutant: the call that is woken puts the calculation back as well. *)
ReturnPutting(t) ==
    /\ pc[t] = "woken"
    /\ mutex' = [mutex EXCEPT ![comp[t]] = Nobody]
    /\ Goto(t, "putback")
    /\ UNCHANGED <<poolVars, sleeping, comp, job, libraryVars, decodeVars, callVars, abandoned>>

Return(t) ==
    /\ pc[t] = "woken"
    /\ mutex' = [mutex EXCEPT ![comp[t]] = Nobody]
    /\ Leave(t)
    /\ UNCHANGED <<poolVars, sleeping, abandoned>>

-----------------------------------------------------------------------------
(* ec_encode_done() and ec_decode_done(), run by the library one at a time *)

(* The library finishes a calculation and calls back (external). *)
Finish ==
    /\ cbPc = "idle"
    /\ \E s \in started :
          /\ started' = started \ {s}
          /\ finished' = finished \union {s.job}
          /\ cbComp' = s.comp
    /\ cbPc' = "lock"
    /\ UNCHANGED <<poolVars, syncVars, threadVars, decodeVars, callVars, abandoned>>

DoneLock ==
    /\ cbPc = "lock"
    /\ mutex[cbComp] = Nobody
    /\ mutex' = [mutex EXCEPT ![cbComp] = Library]
    /\ cbPc' = "signal"
    /\ UNCHANGED <<poolVars, sleeping, threadVars, started, cbComp, finished, decodeVars, callVars, abandoned>>

(* pthread_cond_signal wakes one of the threads, if there is one. *)
DoneSignal ==
    /\ cbPc = "signal"
    /\ \/ sleeping[cbComp] = {} /\ UNCHANGED sleeping
       \/ \E t \in sleeping[cbComp] : sleeping' = [sleeping EXCEPT ![cbComp] = @ \ {t}]
    /\ cbPc' = "unlock"
    /\ UNCHANGED <<poolVars, mutex, threadVars, started, cbComp, finished, decodeVars, callVars, abandoned>>

(* Mutant: the library's thread leaves the mutex locked. *)
DoneUnlockNot ==
    /\ cbPc = "unlock"
    /\ cbPc' = "put"
    /\ UNCHANGED <<poolVars, syncVars, threadVars, started, cbComp, finished, decodeVars, callVars, abandoned>>

DoneUnlock ==
    /\ cbPc = "unlock"
    /\ mutex' = [mutex EXCEPT ![cbComp] = Nobody]
    /\ cbPc' = "put"
    /\ UNCHANGED <<poolVars, sleeping, threadVars, started, cbComp, finished, decodeVars, callVars, abandoned>>

DonePut ==
    /\ cbPc = "put"
    /\ list' = <<cbComp>> \o list
    /\ cbPc' = "post"
    /\ UNCHANGED <<sem, syncVars, threadVars, started, cbComp, finished, decodeVars, callVars, abandoned>>

DonePost ==
    /\ cbPc = "post"
    /\ sem' = sem + 1
    /\ cbPc' = "idle" /\ cbComp' = 1
    /\ UNCHANGED <<list, syncVars, threadVars, started, finished, decodeVars, callVars, abandoned>>

-----------------------------------------------------------------------------
(* The constructor posts the semaphore for every calculation it puts on    *)
(* the list, on top of the value the semaphore was initialised with.       *)
Descending(S) == {s \in [1 .. Cardinality(S) -> S] : \A i, j \in DOMAIN s : i < j => s[i] > s[j]}
(* Mutant: the loop begins one too late. *)
InitialListsButOne == Descending(Listed \ {1})
InitialLists == Descending(Listed)

Init ==
    /\ list \in InitialLists
    /\ sem = MaxInflight + Cardinality(Listed)
    /\ mutex = [c \in Comp |-> Nobody] /\ sleeping = [c \in Comp |-> {}]
    /\ started = {} /\ cbPc = "idle" /\ cbComp = 1 /\ finished = {}
    /\ pc = [t \in Thread |-> "idle"]
    /\ comp = [t \in Thread |-> 1] /\ job = [t \in Thread |-> 0]
    /\ scan = [of |-> Nobody, rest |-> <<>>] /\ index = [t \in Thread |-> 0] /\ tot = [t \in Thread |-> 0]
    /\ erasures = [c \in Comp |-> [i \in Block |-> 0]]
    /\ deMat = [c \in Comp |-> [l \in 1 .. M |-> [row |-> 0, missing |-> {}]]]
    /\ jobs = 0 /\ request = [t \in Thread |-> Encode]
    /\ tangled = {} /\ abandoned = {}

ThreadStep(t) ==
    \/ SemWait(t) \/ Pop(t) \/ Token(t) \/ Matrix(t) \/ LockComp(t) \/ Start(t) \/ StartError(t)
    \/ PutBack(t) \/ PostBack(t) \/ CondWait(t) \/ Wake(t) \/ Return(t)

LibraryStep ==
    Finish \/ DoneLock \/ DoneSignal \/ DoneUnlock \/ DonePut \/ DonePost

Next == LibraryStep \/ \E t \in Thread : Call(t) \/ ThreadStep(t)

Spec == Init /\ [][Next]_vars

(* Threads run, and the library finishes what it was given. *)
FairSpec == Spec /\ WF_vars(LibraryStep) /\ \A t \in Thread : WF_vars(ThreadStep(t))

-----------------------------------------------------------------------------
(* Properties *)

RangeOf(s) == {s[i] : i \in DOMAIN s}
InCall(t) == pc[t] \notin {"idle", "crashed"}
Asleep(t) == pc[t] = "asleep" /\ t \in sleeping[comp[t]]

(* The type invariant. *)
TypeOK ==
    /\ list \in Seq(Comp) /\ sem \in 0 .. MaxInflight + Cardinality(Listed)
    /\ mutex \in [Comp -> Thread \union {Library, Nobody}]
    /\ sleeping \in [Comp -> SUBSET Thread]
    /\ started \subseteq [comp : Comp, job : 1 .. MaxJobs]
    /\ pc \in [Thread -> {"idle", "get", "pop", "erasures", "matrix", "filled", "start", "wait", "asleep",
                          "woken", "putback", "post", "crashed"}]
    /\ comp \in [Thread -> Comp] /\ job \in [Thread -> 0 .. MaxJobs]
    /\ scan.of \in Thread \union {Nobody} /\ scan.rest \in Seq({0, 1})
    /\ index \in [Thread -> 0 .. K + M] /\ tot \in [Thread -> 0 .. M]
    /\ erasures \in [Comp -> [Block -> {0, 1}]]
    /\ deMat \in [Comp -> [1 .. M -> [row : 0 .. K + M, missing : SUBSET Block]]]
    /\ \A t \in Thread : request[t] \in Requests[t] \union {Encode} /\ tangled \subseteq Thread
    /\ cbPc \in {"idle", "lock", "signal", "unlock", "put", "post"} /\ cbComp \in Comp
    /\ jobs \in 0 .. MaxJobs /\ finished \subseteq 1 .. jobs /\ abandoned \subseteq Comp

(* A calculation is in one place: on the list, with the call that took it  *)
(* and has not started it, with the library, or with its callback.  The    *)
(* list never holds one twice, although two parties put them back.         *)
Taken == {t \in Thread : pc[t] \in {"erasures", "matrix", "filled", "start", "putback"}}
Places(c) ==
    Cardinality({i \in DOMAIN list : list[i] = c})
    + Cardinality({t \in Taken : comp[t] = c})
    + Cardinality({s \in started : s.comp = c})
    + (IF cbPc \in {"lock", "signal", "unlock", "put"} /\ cbComp = c THEN 1 ELSE 0)

PoolIntact == \A c \in Listed : Places(c) = 1

(* encode() calculates "in a synchronous way" (the comment at              *)
(* ECCalc.cpp:310): a call that returns success finds its job done, even   *)
(* when its calculation has already been taken by another call.            *)
Synchronous == \A t \in Thread : pc[t] = "woken" => job[t] \in finished

(* The library works on what it was given: while it calculates for a call  *)
(* of decode(), the arrays mark the blocks which that call said were       *)
(* missing, whatever earlier jobs and refused calls left in them, and each *)
(* missing data block has the column that recovers it.  Only calls that    *)
(* take apart their texts at the same time get each other's digits,        *)
(* through strtok.                                                         *)
MatrixFits(columns, missing) ==
    \A l \in 1 .. Cardinality(missing) :
        Nth(missing, l) <= K => columns[l] = [row |-> Nth(missing, l), missing |-> missing]

JobKept ==
    \A t \in Thread \ tangled :
        [comp |-> comp[t], job |-> job[t]] \in started /\ request[t] # Encode =>
            /\ Erased(erasures[comp[t]]) = Erased(request[t])
            /\ MatrixFits(deMat[comp[t]], Erased(erasures[comp[t]]))

(* The semaphore admits twice as many calls as there are calculations, and *)
(* the one too many takes the first element of an empty list.  But that    *)
(* happens only while at least as many calls are under way as there are    *)
(* calculations: none is lost, however calls fail, and the callback holds  *)
(* up no more than the one of a call that has returned.                    *)
EmptyTakesAsManyCalls ==
    \A t \in Thread :
        pc[t] = "pop" /\ list = <<>> => Cardinality({u \in Thread : InCall(u)}) >= Cardinality(Listed)

(* Nobody sleeps through its signal: while a call sleeps its job is with   *)
(* the library or in a callback that has yet to signal.                    *)
SignalToCome ==
    \A t \in Thread : Asleep(t) =>
        \/ [comp |-> comp[t], job |-> job[t]] \in started
        \/ cbComp = comp[t] /\ cbPc \in {"lock", "signal"} /\ job[t] \in finished

(* Every call ends: it returns or, finding the list empty, crashes.  The   *)
(* exception are calls held up by a failed start that left a calculation   *)
(* locked: they took that one, or have yet to leave its condition variable *)
(* when another call took it and failed.                                   *)
HeldUp(t) == pc[t] \in {"filled", "asleep"} /\ comp[t] \in abandoned

EveryCallReturns == \A t \in Thread : InCall(t) ~> ~InCall(t) \/ HeldUp(t)

=============================================================================
