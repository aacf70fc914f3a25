---------------------------- MODULE MemoryFence ----------------------------
(***************************************************************************)
(* TestMemoryFence of cppFriendsThread.cpp: one producer increments every  *)
(* element of a data set, round after round, while readers walk through    *)
(* the set and count the inversions they meet. Both work under a spin lock *)
(* made of an atomic exchange, or under a std::mutex. Every access is a    *)
(* sequentially consistent atomic, so threads interleave element by        *)
(* element. The mode ASYNC, in which exec is never called, is left out.    *)
(***************************************************************************)
EXTENDS Integers

CONSTANTS
  Readers,   \* the consumers; exec makes three
  Producer,  \* the producer
  Size,      \* the number of elements in dataSet; exec has 16
  LoopCount, \* rounds of the producer and checks of each reader
  Highest,   \* std::numeric_limits<DataElement>::max()
  Spin,      \* MODE::SPIN
  Mutex,     \* MODE::MUTEX
  None       \* nobody holds the mutex

Threads == Readers \cup {Producer}

ASSUME FenceAssumption ==
  /\ Size \in Nat
  /\ LoopCount \in Nat
  /\ Highest \in Nat
  /\ LoopCount <= Highest
  /\ Producer \notin Readers
  /\ None \notin Threads
  /\ Spin # Mutex

VARIABLES
  mode,    \* the mode of this call of exec
  ready,   \* ready_.element
  writer,  \* writer_.element, the spin lock: 1 is WriteLocked
  mutex,   \* the thread that holds mutex_, or None
  element, \* dataSet_: position -> DataElement
  pc,      \* thread -> its program counter
  round,   \* thread -> the rounds it has finished
  at,      \* thread -> its position in the walk through the data set
  prev,    \* reader -> prev of checkConsistency
  count    \* reader -> count_, the inversions it has seen

locks == <<writer, mutex>>
vars == <<mode, ready, writer, mutex, element, pc, round, at, prev, count>>

Goto(t, to) == pc' = [pc EXCEPT ![t] = to]
Step(t, from, to) == pc[t] = from /\ Goto(t, to)

Init ==
  /\ mode \in {Spin, Mutex}
  /\ ready = 0
  /\ writer = 0
  /\ mutex = None
  /\ element = [k \in 1..Size |-> 0]
  /\ pc = [t \in Threads |-> "start"]
  /\ round = [t \in Threads |-> 0]
  /\ at = [t \in Threads |-> 1]
  /\ prev = [r \in Readers |-> Highest]
  /\ count = [r \in Readers |-> 0]

-----------------------------------------------------------------------------
\* The start of Run.

\* The producer lets the readers go after a while; they spin until it does.
Start(t) ==
  /\ Step(t, "start", "loop")
  /\ \/ t = Producer /\ ready' = 1
     \/ t # Producer /\ ready # 0 /\ UNCHANGED ready
  /\ UNCHANGED <<mode, locks, element, round, at, prev, count>>

-----------------------------------------------------------------------------
\* The loops of runInSpinning and runInMutex.

\* Mutated MoreRounds: one round too many.
MoreRoundsInclusive(t) == round[t] <= LoopCount

\* The condition of both loops.
MoreRounds(t) == round[t] < LoopCount

\* Mutated Exchange: the value found in the lock is not looked at.
ExchangeUnread(t) == writer' = 1 /\ Goto(t, "walk") /\ UNCHANGED mutex

\* One try to take the spin lock: it succeeds if the lock was not WriteLocked.
Exchange(t) ==
  /\ writer' = 1
  /\ Goto(t, IF writer = 1 THEN "loop" ELSE "walk")
  /\ UNCHANGED mutex

\* Mutated LockMutex: a reader does not lock.
ReadersDoNotLock(t) ==
  /\ t = Producer => mutex = None
  /\ mutex' = (IF t = Producer THEN t ELSE mutex)
  /\ Goto(t, "walk")
  /\ UNCHANGED writer

LockMutex(t) == mutex = None /\ mutex' = t /\ Goto(t, "walk") /\ UNCHANGED writer

\* A round begins with the lock, and a reader's walk with the highest prev.
TakeLock(t) ==
  /\ pc[t] = "loop" /\ MoreRounds(t)
  /\ \/ mode = Spin /\ Exchange(t)
     \/ mode = Mutex /\ LockMutex(t)
  /\ at' = [at EXCEPT ![t] = 1]
  /\ prev' = [r \in Readers |-> IF r = t THEN Highest ELSE prev[r]]
  /\ UNCHANGED <<mode, ready, element, round, count>>

\* Mutated Release: the lock is kept at the end of the round.
ReleaseNothing == UNCHANGED locks

Release ==
  /\ writer' = (IF mode = Spin THEN 0 ELSE writer)
  /\ mutex' = (IF mode = Mutex THEN None ELSE mutex)

LeaveLock(t) ==
  /\ Step(t, "unlock", "loop")
  /\ Release
  /\ round' = [round EXCEPT ![t] = @ + 1]
  /\ UNCHANGED <<mode, ready, element, at, prev, count>>

Return(t) ==
  /\ Step(t, "loop", "returned") /\ ~MoreRounds(t)
  /\ UNCHANGED <<mode, ready, locks, element, round, at, prev, count>>

-----------------------------------------------------------------------------
\* The walk through the data set.

\* Mutated MoreElements: the walk ends before the last element.
AllButOneElement(t) == at[t] < Size

MoreElements(t) == at[t] <= Size

EndWalk(t) ==
  /\ Step(t, "walk", "unlock") /\ ~MoreElements(t)
  /\ UNCHANGED <<mode, ready, locks, element, round, at, prev, count>>

\* The producer's ++d.element.
Increment ==
  /\ pc[Producer] = "walk" /\ MoreElements(Producer)
  /\ element' = [element EXCEPT ![at[Producer]] = @ + 1]
  /\ at' = [at EXCEPT ![Producer] = @ + 1]
  /\ UNCHANGED <<mode, ready, locks, pc, round, prev, count>>

\* checkConsistency looks at one element; an inversion ends the walk.
Check(r) ==
  /\ pc[r] = "walk" /\ MoreElements(r)
  /\ LET e == element[at[r]] IN
       \/ /\ prev[r] < e
          /\ count' = [count EXCEPT ![r] = @ + 1]
          /\ Goto(r, "unlock")
          /\ UNCHANGED <<at, prev>>
       \/ /\ prev[r] >= e
          /\ prev' = [prev EXCEPT ![r] = e]
          /\ at' = [at EXCEPT ![r] = @ + 1]
          /\ UNCHANGED <<pc, count>>
  /\ UNCHANGED <<mode, ready, locks, element, round>>

-----------------------------------------------------------------------------

ThreadNext(t) == Start(t) \/ TakeLock(t) \/ LeaveLock(t) \/ Return(t) \/ EndWalk(t)

Ended == \A t \in Threads : pc[t] = "returned"

\* exec has got every future.
Done == Ended /\ UNCHANGED vars

Next ==
  \/ \E t \in Threads : ThreadNext(t)
  \/ Increment
  \/ \E r \in Readers : Check(r)
  \/ Done

Spec == Init /\ [][Next]_vars

\* std::async with launch::async gives each thread its own processor time. The
\* locks promise nothing about who gets them, so a thread may starve as long as
\* the others have rounds left.
FairSpec ==
  /\ Spec
  /\ \A t \in Threads : WF_vars(ThreadNext(t))
  /\ WF_vars(Increment)
  /\ \A r \in Readers : WF_vars(Check(r))

-----------------------------------------------------------------------------
\* Properties

\* Every variable stays within its type, no element beyond the rounds of the producer.
TypeOK ==
  /\ mode \in {Spin, Mutex}
  /\ ready \in {0, 1}
  /\ writer \in {0, 1}
  /\ mutex \in Threads \cup {None}
  /\ element \in [1..Size -> 0..LoopCount]
  /\ pc \in [Threads -> {"start", "loop", "walk", "unlock", "returned"}]
  /\ round \in [Threads -> 0..LoopCount]
  /\ at \in [Threads -> 1..(Size + 1)]
  /\ prev \in [Readers -> 0..Highest]
  /\ count \in [Readers -> 0..LoopCount]

Inside(t) == pc[t] \in {"walk", "unlock"}

\* The spin lock and the mutex let one thread in at a time, readers included.
Exclusive == \A t, u \in Threads : Inside(t) /\ Inside(u) => t = u

\* A reader that walks sees a whole round: from where it stands to the end and
\* back to the beginning, every element and what it remembers of the last one
\* are the number of rounds the producer has finished, so it finds no inversion.
ReadsOneRound ==
  \A r \in Readers :
    /\ Inside(r) => \A k \in 1..Size : element[k] = round[Producer]
    /\ Inside(r) /\ at[r] > 1 => prev[r] = round[Producer]
    /\ count[r] = 0

\* What exec and the two tests expect: every element has been incremented in each
\* round, and every reader has made all its checks without meeting an inversion.
ResultExact ==
  Ended =>
    /\ \A k \in 1..Size : element[k] = LoopCount
    /\ \A t \in Threads : round[t] = LoopCount
    /\ \A r \in Readers : count[r] = 0

\* Every thread comes to its end: every future of exec becomes ready.
AllThreadsEnd == <>Ended
=============================================================================
