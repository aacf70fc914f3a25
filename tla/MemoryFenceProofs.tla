------------------------- MODULE MemoryFenceProofs -------------------------
(***************************************************************************)
(* Theorems about MemoryFence, for every set of readers, data set and      *)
(* number of rounds.                                                       *)
(***************************************************************************)
EXTENDS MemoryFence, TLAPS

\* The lock of the mode tells who is inside: whether anybody is, or who.
LockInv ==
  /\ mode = Spin => mutex = None /\ (writer = 1 <=> \E t \in Threads : Inside(t))
  /\ mode = Mutex => \A t \in Threads : mutex = t <=> Inside(t)

\* A thread is inside only for a round that is left.
RoundInv ==
  \A t \in Threads :
    /\ Inside(t) => round[t] < LoopCount
    /\ pc[t] = "returned" => round[t] = LoopCount

\* The elements follow the rounds of the producer: those it has passed in its walk
\* are one ahead.
Stairs ==
  /\ pc[Producer] = "unlock" => at[Producer] = Size + 1
  /\ \A k \in 1..Size :
       element[k] = IF Inside(Producer) /\ k < at[Producer]
                      THEN round[Producer] + 1 ELSE round[Producer]

\* A walk begins with the highest prev, which no element exceeds.
FreshWalk == \A r \in Readers : Inside(r) /\ at[r] = 1 => prev[r] = Highest

\* The inductive invariant: readers see whole rounds because nobody moves the
\* elements while they are inside.
Inv == TypeOK /\ LockInv /\ Exclusive /\ RoundInv /\ Stairs /\ FreshWalk
       /\ ReadsOneRound

LEMMA InvInit == Init => Inv
<1> SUFFICES ASSUME Init PROVE Inv
  OBVIOUS
<1> USE FenceAssumption DEF Init, Inside
<1>1. TypeOK
  BY DEF TypeOK
<1>2. LockInv /\ Exclusive /\ RoundInv
  BY DEF LockInv, Exclusive, RoundInv, Threads
<1>3. Stairs /\ FreshWalk /\ ReadsOneRound
  BY DEF Stairs, FreshWalk, ReadsOneRound, Threads
<1> QED BY <1>1, <1>2, <1>3 DEF Inv

-----------------------------------------------------------------------------
\* Steps of the loops.

LEMMA StartStep ==
  ASSUME Inv, NEW t \in Threads, Start(t)
  PROVE  Inv'
<1> USE FenceAssumption DEF Start, Step, Goto, Inv, Inside, Threads
<1>1. TypeOK'
  BY DEF TypeOK, locks
<1>2. \A u \in Threads : Inside(u)' <=> Inside(u)
  BY DEF TypeOK
<1>3. LockInv' /\ Exclusive' /\ RoundInv'
  BY <1>2 DEF TypeOK, LockInv, Exclusive, RoundInv, locks
<1>4. Stairs' /\ FreshWalk' /\ ReadsOneRound'
  BY <1>2 DEF TypeOK, Stairs, FreshWalk, ReadsOneRound
<1> QED BY <1>1, <1>3, <1>4

LEMMA ReturnStep ==
  ASSUME Inv, NEW t \in Threads, Return(t)
  PROVE  Inv'
<1> USE FenceAssumption DEF Return, Step, Goto, Inv, Inside, Threads, MoreRounds
<1>1. TypeOK'
  BY DEF TypeOK, locks
<1>2. \A u \in Threads : Inside(u)' <=> Inside(u)
  BY DEF TypeOK
<1>3. LockInv' /\ Exclusive' /\ RoundInv'
  BY <1>2 DEF TypeOK, LockInv, Exclusive, RoundInv, locks
<1>4. Stairs' /\ FreshWalk' /\ ReadsOneRound'
  BY <1>2 DEF TypeOK, Stairs, FreshWalk, ReadsOneRound
<1> QED BY <1>1, <1>3, <1>4

\* A try to take the spin lock that finds it taken changes nothing that matters.
LEMMA SpinStep ==
  ASSUME Inv, NEW t \in Threads, TakeLock(t), mode = Spin, writer = 1
  PROVE  Inv'
<1> USE FenceAssumption DEF Inv
<1>1. /\ pc[t] = "loop" /\ UNCHANGED <<mode, ready, writer, mutex, element, round, count>>
      /\ pc' = pc
      /\ at' = [at EXCEPT ![t] = 1]
      /\ prev' = [r \in Readers |-> IF r = t THEN Highest ELSE prev[r]]
  BY DEF TakeLock, Exchange, LockMutex, Goto, TypeOK
<1>2. TypeOK'
  BY <1>1 DEF TypeOK
<1>3. LockInv' /\ Exclusive' /\ RoundInv'
  BY <1>1 DEF LockInv, Exclusive, RoundInv, Inside
<1>4. Stairs'
  BY <1>1 DEF Stairs, Inside, TypeOK, Threads
<1>5. FreshWalk' /\ ReadsOneRound'
  BY <1>1 DEF FreshWalk, ReadsOneRound, Inside, TypeOK, Threads
<1> QED BY <1>2, <1>3, <1>4, <1>5

\* A thread takes its lock: nobody was inside.
LEMMA EnterStep ==
  ASSUME Inv, NEW t \in Threads, TakeLock(t), ~(mode = Spin /\ writer = 1)
  PROVE  Inv'
<1> USE FenceAssumption DEF Inv
<1>1. /\ pc[t] = "loop" /\ round[t] < LoopCount
      /\ UNCHANGED <<mode, ready, element, round, count>>
      /\ pc' = [pc EXCEPT ![t] = "walk"]
      /\ at' = [at EXCEPT ![t] = 1]
      /\ prev' = [r \in Readers |-> IF r = t THEN Highest ELSE prev[r]]
  BY DEF TakeLock, Exchange, LockMutex, Goto, MoreRounds
<1>2. /\ mode = Spin => writer = 0 /\ writer' = 1 /\ mutex' = mutex
      /\ mode = Mutex => mutex = None /\ mutex' = t /\ writer' = writer
  BY DEF TakeLock, Exchange, LockMutex, TypeOK
<1>3. \A u \in Threads : ~Inside(u)
  BY <1>2 DEF LockInv, TypeOK
<1>4. \A u \in Threads : Inside(u)' <=> u = t
  BY <1>1, <1>3 DEF Inside, TypeOK
<1>5. TypeOK'
  BY <1>1, <1>2 DEF TypeOK
<1>6. LockInv' /\ Exclusive'
  BY <1>1, <1>2, <1>4 DEF LockInv, Exclusive, TypeOK
<1>7. RoundInv'
  BY <1>1, <1>4 DEF RoundInv, TypeOK
<1>8. \A k \in 1..Size : element[k] = round[Producer]
  BY <1>3 DEF Stairs, Threads
<1>9. Stairs'
  BY <1>1, <1>4, <1>8 DEF Stairs, TypeOK, Threads
<1>10. FreshWalk' /\ ReadsOneRound'
  BY <1>1, <1>4, <1>8 DEF FreshWalk, ReadsOneRound, TypeOK, Threads
<1> QED BY <1>5, <1>6, <1>7, <1>9, <1>10

\* A thread leaves its lock and finishes its round.
LEMMA LeaveStep ==
  ASSUME Inv, NEW t \in Threads, LeaveLock(t)
  PROVE  Inv'
<1> USE FenceAssumption DEF Inv
<1>1. /\ pc[t] = "unlock" /\ Inside(t) /\ round[t] < LoopCount
      /\ UNCHANGED <<mode, ready, element, at, prev, count>>
      /\ pc' = [pc EXCEPT ![t] = "loop"]
      /\ round' = [round EXCEPT ![t] = @ + 1]
      /\ mode = Spin => writer' = 0 /\ mutex' = mutex
      /\ mode = Mutex => mutex' = None /\ writer' = writer
  BY DEF LeaveLock, Step, Goto, Release, RoundInv, Inside
<1>2. \A u \in Threads : Inside(u) => u = t
  BY <1>1 DEF Exclusive
<1>3. \A u \in Threads : ~Inside(u)'
  BY <1>1, <1>2 DEF Inside, TypeOK
<1>4. TypeOK'
  <2>1. round[t] + 1 \in 0..LoopCount /\ round' \in [Threads -> 0..LoopCount]
    BY <1>1 DEF TypeOK
  <2>2. writer' \in {0, 1} /\ mutex' \in Threads \cup {None}
    BY <1>1 DEF TypeOK
  <2> QED BY <1>1, <2>1, <2>2 DEF TypeOK
<1>5. LockInv' /\ Exclusive'
  BY <1>1, <1>3 DEF LockInv, Exclusive, TypeOK
<1>6. RoundInv'
  <2>1. ASSUME NEW u \in Threads, pc'[u] = "returned"
        PROVE  round'[u] = LoopCount
    BY <1>1, <2>1 DEF RoundInv, TypeOK
  <2> QED BY <1>3, <2>1 DEF RoundInv
<1>7. \A k \in 1..Size : element[k] = round'[Producer]
  <2>1. CASE t = Producer
    BY <1>1, <2>1 DEF Stairs, TypeOK, Threads
  <2>2. CASE t # Producer
    BY <1>1, <1>2, <2>2 DEF Stairs, TypeOK, Threads
  <2> QED BY <2>1, <2>2
<1>8. Stairs'
  BY <1>1, <1>3, <1>7 DEF Stairs, TypeOK, Threads, Inside
<1>9. FreshWalk' /\ ReadsOneRound'
  BY <1>1, <1>3 DEF FreshWalk, ReadsOneRound, TypeOK, Threads
<1> QED BY <1>4, <1>5, <1>6, <1>8, <1>9

-----------------------------------------------------------------------------
\* Steps of the walk.

LEMMA EndWalkStep ==
  ASSUME Inv, NEW t \in Threads, EndWalk(t)
  PROVE  Inv'
<1> USE FenceAssumption DEF EndWalk, Step, Goto, MoreElements, Inv
<1>1. TypeOK'
  BY DEF TypeOK, locks
<1>2. \A u \in Threads : Inside(u)' <=> Inside(u)
  BY DEF TypeOK, Inside
<1>3. LockInv' /\ Exclusive'
  BY <1>2 DEF LockInv, Exclusive, locks
<1>4. RoundInv'
  BY <1>2 DEF RoundInv, TypeOK
<1>5. Stairs'
  BY <1>2 DEF Stairs, TypeOK, Threads
<1>6. FreshWalk' /\ ReadsOneRound'
  BY <1>2 DEF FreshWalk, ReadsOneRound, Threads
<1> QED BY <1>1, <1>3, <1>4, <1>5, <1>6

\* The producer moves one element, while no reader is inside.
LEMMA IncrementStep ==
  ASSUME Inv, Increment
  PROVE  Inv'
<1> USE FenceAssumption DEF Inv
<1> DEFINE k0 == at[Producer]
<1>1. /\ Inside(Producer) /\ pc[Producer] = "walk" /\ k0 \in 1..Size
      /\ Producer \in Threads
      /\ UNCHANGED <<mode, ready, writer, mutex, pc, round, prev, count>>
      /\ element' = [element EXCEPT ![k0] = @ + 1]
      /\ at' = [at EXCEPT ![Producer] = k0 + 1]
  BY DEF Increment, MoreElements, locks, TypeOK, Threads, Inside
<1>2. element[k0] = round[Producer] /\ round[Producer] < LoopCount
  BY <1>1 DEF Stairs, RoundInv, TypeOK, Threads
<1>3. \A r \in Readers : ~Inside(r)
  BY <1>1 DEF Exclusive, Threads
<1>4. TypeOK'
  <2>1. element[k0] + 1 \in 0..LoopCount /\ k0 + 1 \in 1..(Size + 1)
    BY <1>1, <1>2 DEF TypeOK
  <2>2. element' \in [1..Size -> 0..LoopCount] /\ at' \in [Threads -> 1..(Size + 1)]
    BY <1>1, <2>1 DEF TypeOK
  <2> QED BY <1>1, <2>2 DEF TypeOK
<1>5. \A u \in Threads : Inside(u)' <=> Inside(u)
  BY <1>1 DEF Inside
<1>6. LockInv' /\ Exclusive'
  BY <1>1, <1>5 DEF LockInv, Exclusive
<1>7. RoundInv'
  BY <1>1, <1>5 DEF RoundInv
<1>8. Stairs'
  <2>1. ASSUME NEW k \in 1..Size
        PROVE  element'[k] = IF k < at'[Producer]
                               THEN round[Producer] + 1 ELSE round[Producer]
    <3>1. CASE k = k0
      BY <1>1, <1>2, <3>1 DEF TypeOK
    <3>2. CASE k # k0
      BY <1>1, <3>2 DEF Stairs, TypeOK
    <3> QED BY <3>1, <3>2
  <2> QED BY <1>1, <1>5, <2>1 DEF Stairs
<1>9. FreshWalk' /\ ReadsOneRound'
  BY <1>1, <1>3, <1>5 DEF FreshWalk, ReadsOneRound, Threads
<1> QED BY <1>4, <1>6, <1>7, <1>8, <1>9

\* A reader looks at one element and finds no inversion.
LEMMA CheckStep ==
  ASSUME Inv, NEW r \in Readers, Check(r)
  PROVE  Inv'
<1> USE FenceAssumption DEF Inv
<1>1. /\ r \in Threads /\ Inside(r) /\ at[r] \in 1..Size /\ r # Producer
      /\ element[at[r]] = round[Producer]
  BY DEF Check, MoreElements, TypeOK, Threads, Inside, ReadsOneRound
<1>2. round[Producer] \in 0..LoopCount /\ prev[r] \in 0..Highest
  BY DEF TypeOK, Threads
<1>3. prev[r] >= round[Producer]
  <2>1. CASE at[r] > 1
    BY <1>1, <1>2, <2>1 DEF ReadsOneRound
  <2>2. CASE at[r] = 1
    BY <1>1, <1>2, <2>2 DEF FreshWalk
  <2> QED BY <1>1, <2>1, <2>2
<1>4. /\ UNCHANGED <<mode, ready, writer, mutex, element, pc, round, count>>
      /\ prev' = [prev EXCEPT ![r] = round[Producer]]
      /\ at' = [at EXCEPT ![r] = @ + 1]
  BY <1>1, <1>2, <1>3 DEF Check, locks
<1>5. TypeOK'
  <2>1. round[Producer] \in 0..Highest /\ at[r] + 1 \in 1..(Size + 1)
    BY <1>1, <1>2
  <2>2. prev' \in [Readers -> 0..Highest] /\ at' \in [Threads -> 1..(Size + 1)]
    BY <1>4, <2>1 DEF TypeOK
  <2> QED BY <1>4, <2>2 DEF TypeOK
<1>6. LockInv' /\ Exclusive' /\ RoundInv'
  BY <1>4 DEF LockInv, Exclusive, RoundInv, Inside
<1>7. Stairs'
  BY <1>1, <1>4 DEF Stairs, Inside, TypeOK
<1>8. FreshWalk' /\ ReadsOneRound'
  <2>1. /\ \A q \in Readers : Inside(q)' <=> Inside(q)
        /\ at'[r] > 1 /\ prev'[r] = round[Producer]
        /\ \A q \in Readers \ {r} : at'[q] = at[q] /\ prev'[q] = prev[q]
    BY <1>1, <1>4 DEF Inside, TypeOK, Threads
  <2>2. FreshWalk'
    BY <2>1 DEF FreshWalk
  <2>3. ReadsOneRound'
    BY <1>4, <2>1 DEF ReadsOneRound
  <2> QED BY <2>2, <2>3
<1> QED BY <1>5, <1>6, <1>7, <1>8

-----------------------------------------------------------------------------

LEMMA InvStep == Inv /\ [Next]_vars => Inv'
<1> SUFFICES ASSUME Inv, [Next]_vars PROVE Inv'
  OBVIOUS
<1>1. CASE UNCHANGED vars
  BY <1>1 DEF vars, locks, Inv, TypeOK, LockInv, Exclusive, RoundInv, Stairs,
              FreshWalk, ReadsOneRound, Inside
<1>2. CASE Done
  BY <1>1, <1>2 DEF Done
<1>3. ASSUME NEW t \in Threads, ThreadNext(t)
      PROVE  Inv'
  BY <1>3, StartStep, SpinStep, EnterStep, LeaveStep, ReturnStep, EndWalkStep
     DEF ThreadNext
<1> QED BY <1>1, <1>2, <1>3, IncrementStep, CheckStep DEF Next

LEMMA Invariance == Spec => []Inv
<1> QED BY InvInit, InvStep, PTL DEF Spec

\* Every reachable state is type correct: the locks, the elements and the counts stay within
\* their ranges.
THEOREM TypeCorrect == Spec => []TypeOK
<1>1. Inv => TypeOK
  BY DEF Inv
<1> QED BY <1>1, Invariance, PTL

\* No two threads are inside at the same time, with either lock.
THEOREM MutualExclusion == Spec => []Exclusive
<1>1. Inv => Exclusive
  BY DEF Inv
<1> QED BY <1>1, Invariance, PTL

\* A reader never meets elements of two different rounds.
THEOREM WholeRoundsRead == Spec => []ReadsOneRound
<1>1. Inv => ReadsOneRound
  BY DEF Inv
<1> QED BY <1>1, Invariance, PTL

\* Whenever all the threads have returned, every element has been incremented in
\* every round and every reader has made its checks and seen no inversion.
THEOREM AllRoundsDone == Spec => []ResultExact
<1>1. Inv => ResultExact
  BY DEF Inv, RoundInv, Stairs, ReadsOneRound, ResultExact, Ended, Threads, Inside
<1> QED BY <1>1, Invariance, PTL
=============================================================================
