-------------------------- MODULE WordCountProofs --------------------------
(***************************************************************************)
(* Theorems about WordCount, for every number of threads, words and        *)
(* trials.                                                                 *)
(***************************************************************************)
EXTENDS WordCount, FiniteSetTheorems, TLAPS

Holding == {"test", "sleep", "leave"}
Waiting == {"start", "test", "sleep", "wait"}
MidWord == {"cas", "lookup", "load", "store"}

\* The mutex is held by the thread that stands in a critical section.
LockInv ==
  /\ \A c \in Consumers : mtx = c <=> pc[c] \in Holding
  /\ mtx = Main <=> main \in {"prepare", "publish"}

\* What the main thread has done so far to the shared state.
PhaseInv ==
  /\ main \in {"swap", "spawn", "check", "lock", "prepare", "publish"} => ready = 0
  /\ Published => ready = 1
  /\ main \in {"spawn", "check", "lock", "prepare", "publish"} => counts = Zeroes
  /\ main \in {"publish", "notify", "join"} => doc \in [Positions -> Words]
  /\ Atomic /\ main \in {"publish", "notify", "join"} => keys = Words
  /\ main # "terminated"
  /\ main # "end" => trial < Trials

\* Where a consumer can be, given where the main thread is.
ThreadInv ==
  \A c \in Consumers :
    /\ main \in {"reset", "swap", "end"} => pc[c] \in {"none", "done"}
    /\ main = "spawn" => pc[c] \in Waiting \cup {"none"}
    /\ main \in {"check", "lock", "prepare", "publish"} => pc[c] \in Waiting
    /\ Published => pc[c] \notin {"none", "sleep"}
    /\ pc[c] \in Waiting \cup {"leave"} => it[c] = 0
    /\ pc[c] = "leave" => ready = 1
    /\ Published /\ pc[c] = "done" => it[c] = DocSize
    /\ pc[c] \in MidWord => it[c] < DocSize
    /\ pc[c] = "cas" => strategy = CompareAndSwap
    /\ pc[c] \in {"lookup", "load", "store"} => strategy = Relaxed

\* The inductive invariant.
Inv == TypeOK /\ LockInv /\ PhaseInv /\ ThreadInv /\ NoLostWakeup /\ CountsExact

-----------------------------------------------------------------------------
\* The slices of the consumers lie side by side in the document.

\* A consumer's slice lies within the document.
LEMMA SliceInText ==
  ASSUME NEW c \in Consumers
  PROVE  Left(c) \in Nat /\ TextLength \in Nat /\ Left(c) + DocSize <= TextLength
<1>1. c \in Nat /\ NThreads \in Nat /\ DocSize \in Nat /\ 1 <= c /\ c <= NThreads
  BY SettingAssumption DEF Consumers
<1>2. DocSize * (c - 1) \in Nat /\ DocSize * (c - 1) + DocSize = DocSize * c
  BY <1>1
<1>3. DocSize * c <= NThreads * DocSize /\ NThreads * DocSize \in Nat
  BY <1>1
<1> QED BY <1>2, <1>3 DEF Left, TextLength

\* The slice of an earlier consumer ends before that of a later one begins.
LEMMA SlicesOrdered ==
  ASSUME NEW c \in Consumers, NEW d \in Consumers, c < d
  PROVE  Left(c) + DocSize <= Left(d)
<1>1. c \in Nat /\ d \in Nat /\ DocSize \in Nat /\ 1 <= c /\ c <= d - 1
  BY SettingAssumption DEF Consumers
<1>2. DocSize * (c - 1) + DocSize = DocSize * c
  BY <1>1
<1>3. DocSize * c <= DocSize * (d - 1)
  BY <1>1
<1> QED BY <1>2, <1>3 DEF Left

\* The word at which a consumer stands lies in the document and has not been
\* counted by anybody.
LEMMA NextPosition ==
  ASSUME it \in [Consumers -> 0..DocSize], NEW c \in Consumers, it[c] < DocSize
  PROVE  /\ Left(c) + it[c] + 1 \in Positions
         /\ Left(c) + it[c] + 1 \notin Counted
<1> DEFINE p == Left(c) + it[c] + 1
<1>1. DocSize \in Nat /\ it[c] \in Nat
  BY SettingAssumption
<1>2. p \in Positions
  BY <1>1, SliceInText DEF Positions
<1>3. ASSUME NEW d \in Consumers, p \in CountedBy(d)
      PROVE  FALSE
  <2>1. /\ Left(d) \in Nat /\ Left(c) \in Nat /\ it[d] \in Nat /\ it[d] <= DocSize
        /\ Left(d) + 1 <= p /\ p <= Left(d) + it[d]
    BY <1>1, <1>3, SliceInText DEF CountedBy
  <2>2. CASE c = d
    BY <1>1, <2>1, <2>2
  <2>3. CASE c < d
    BY <1>1, <2>1, <2>3, SlicesOrdered
  <2>4. CASE d < c
    BY <1>1, <2>1, <2>4, SlicesOrdered
  <2> QED BY <2>2, <2>3, <2>4, SettingAssumption DEF Consumers
<1> QED BY <1>2, <1>3 DEF Counted

\* What consumers have counted is part of the document.
LEMMA CountedInText ==
  ASSUME it \in [Consumers -> 0..DocSize]
  PROVE  Counted \subseteq Positions /\ IsFiniteSet(Counted)
<1>1. ASSUME NEW c \in Consumers
      PROVE  CountedBy(c) \subseteq Positions
  BY SliceInText, SettingAssumption DEF CountedBy, Positions
<1>2. Counted \subseteq Positions
  BY <1>1 DEF Counted
<1>3. IsFiniteSet(Positions)
  BY FS_Interval, SettingAssumption DEF Positions, TextLength
<1> QED BY <1>2, <1>3, FS_Subset

-----------------------------------------------------------------------------
\* The state a counting consumer finds.

\* A consumer counts only while the document is complete, its loop ends exactly
\* with its slice, and the word it stands at is in the dictionary.
LEMMA CurrentWord ==
  ASSUME TypeOK, PhaseInv, ThreadInv, Alive, NEW c \in Consumers, Counting(c)
  PROVE  /\ Published
         /\ MoreWords(c) <=> it[c] < DocSize
         /\ it[c] < DocSize => WordAt(c) \in Words
<1>1. Published
  BY DEF Alive, Counting, TypeOK, ThreadInv, Published, Waiting
<1>2. doc \in [Positions -> Words]
  BY <1>1 DEF Published, PhaseInv
<1>3. Len(doc) = TextLength
  BY <1>2, SliceInText DEF Positions
<1>4. DocSize \in Nat /\ it[c] \in Nat
  BY SettingAssumption DEF TypeOK
<1>5. MoreWords(c) <=> it[c] < DocSize
  BY <1>3, <1>4, SliceInText DEF MoreWords
<1>6. it[c] < DocSize => WordAt(c) \in Words
  BY <1>2, <1>4, SliceInText DEF WordAt, Positions
<1> QED BY <1>1, <1>5, <1>6

-----------------------------------------------------------------------------
\* Type correctness is preserved, given the control invariants.

LEMMA TypeStep ==
  ASSUME TypeOK, PhaseInv, ThreadInv, [Next]_vars
  PROVE  TypeOK'
<1> USE SettingAssumption DEF TypeOK, sync, map, threads, run
<1>1. CASE Reset
  BY <1>1 DEF Reset, MainStep
<1>2. CASE Swap
  BY <1>2 DEF Swap, Zeroes, MainStep
<1>3. CASE CheckReady
  BY <1>3 DEF CheckReady, MainStep
<1>4. CASE ProducerLock
  BY <1>4 DEF ProducerLock, Main, MainStep
<1>5. CASE Prepare
  BY <1>5 DEF Prepare, PresetZero, Zeroes, MainStep
<1>6. CASE PublishReady
  BY <1>6 DEF PublishReady, Main, MainStep
<1>7. CASE NotifyAll
  BY <1>7 DEF NotifyAll, WakeSet, MainStep
<1>8. CASE JoinAndTotal
  BY <1>8 DEF JoinAndTotal, Joinable, MainStep, PhaseInv
<1>9. ASSUME NEW c \in Consumers, Spawn(c) PROVE TypeOK'
  BY <1>9 DEF Spawn, Goto, MainStep
<1>10. ASSUME NEW c \in Consumers, Acquire(c) PROVE TypeOK'
  BY <1>10 DEF Acquire, Step, Goto
<1>11. ASSUME NEW c \in Consumers, TestReady(c) PROVE TypeOK'
  BY <1>11 DEF TestReady, Step, Goto
<1>12. ASSUME NEW c \in Consumers, Release(c) PROVE TypeOK'
  BY <1>12 DEF Release, Step, Goto
<1>13. ASSUME NEW c \in Consumers, FinishSlice(c) PROVE TypeOK'
  BY <1>13, CurrentWord DEF FinishSlice, Step, Goto, Counting
<1>14. ASSUME NEW c \in Consumers, IncrementFetchAdd(c) PROVE TypeOK'
  BY <1>14, CurrentWord
  DEF IncrementFetchAdd, Step, Goto, BeginWord, Touch, Add, Advance,
      Counting
<1>15. ASSUME NEW c \in Consumers, LoadExpected(c) PROVE TypeOK'
  BY <1>15, CurrentWord
  DEF LoadExpected, Step, Goto, BeginWord, Touch, Load, Counting
<1>16. ASSUME NEW c \in Consumers, ExchangeSucceeds(c) PROVE TypeOK'
  BY <1>16, CurrentWord
  DEF ExchangeSucceeds, Step, Goto, Add, Advance, Counting, ThreadInv,
      MidWord
<1>17. ASSUME NEW c \in Consumers, ExchangeFails(c) PROVE TypeOK'
  BY <1>17, CurrentWord
  DEF ExchangeFails, Step, Goto, Load, Counting, ThreadInv, MidWord
<1>18. ASSUME NEW c \in Consumers, BeginLookup(c) PROVE TypeOK'
  BY <1>18, CurrentWord DEF BeginLookup, Step, Goto, BeginWord, Counting
<1>19. ASSUME NEW c \in Consumers, EndLookup(c) PROVE TypeOK'
  BY <1>19, CurrentWord
  DEF EndLookup, Step, Goto, Touch, Counting, ThreadInv, MidWord
<1>20. ASSUME NEW c \in Consumers, LoadPlain(c) PROVE TypeOK'
  BY <1>20, CurrentWord
  DEF LoadPlain, Step, Goto, Load, Counting, ThreadInv, MidWord
<1>21. ASSUME NEW c \in Consumers, StorePlain(c) PROVE TypeOK'
  <2>1. Alive /\ pc[c] = "store" /\ pc' = [pc EXCEPT ![c] = "count"]
    BY <1>21 DEF StorePlain, Step, Goto
  <2>2. it[c] < DocSize /\ WordAt(c) \in Words
    BY <2>1, CurrentWord DEF Counting, ThreadInv, MidWord
  <2>3. it' \in [Consumers -> 0..DocSize]
    BY <1>21, <2>2 DEF StorePlain, Advance
  <2>4. counts' \in [Words -> Nat]
    <3>1. CASE WordAt(c) \in keys
      <4>1. counts' = [counts EXCEPT ![WordAt(c)] = expected[c] + 1]
        BY <1>21, <3>1 DEF StorePlain, Add
      <4>2. counts \in [Words -> Nat] /\ expected[c] + 1 \in Nat
        OBVIOUS
      <4> HIDE DEF TypeOK
      <4> QED BY <4>1, <4>2
    <3>2. CASE WordAt(c) \notin keys
      BY <1>21, <3>2 DEF StorePlain
    <3> QED BY <3>1, <3>2
  <2> QED BY <1>21, <2>1, <2>3, <2>4 DEF StorePlain
<1>22. ASSUME NEW c \in Consumers, WakeSpuriously(c) PROVE TypeOK'
  BY <1>22 DEF WakeSpuriously, Step, Goto
<1>23. ASSUME NEW c \in Consumers, ExchangeFailsSpuriously(c) PROVE TypeOK'
  BY <1>23, CurrentWord DEF ExchangeFailsSpuriously, Step, Goto, Counting
<1>24. ASSUME NEW c \in Consumers, LoseNodes(c) PROVE TypeOK'
  BY <1>24, CurrentWord DEF LoseNodes, Step, Goto, Counting, ThreadInv, MidWord
<1>25. ASSUME NEW c \in Consumers, Crash(c) PROVE TypeOK'
  BY <1>25, CurrentWord DEF Crash, Step, Goto, Counting
<1>26. CASE UNCHANGED vars
  BY <1>26 DEF vars
<1> QED BY <1>1, <1>2, <1>3, <1>4, <1>5, <1>6, <1>7, <1>8, <1>9, <1>10, <1>11,
      <1>12, <1>13, <1>14, <1>15, <1>16, <1>17, <1>18, <1>19, <1>20, <1>21,
      <1>22, <1>23, <1>24, <1>25, <1>26
  DEF Next, MainNext, ConsumerNext, Misfortune, Stopped

-----------------------------------------------------------------------------
\* The control invariants are preserved.

LEMMA LockStep ==
  ASSUME TypeOK, PhaseInv, ThreadInv, LockInv, [Next]_vars
  PROVE  LockInv'
<1> USE SettingAssumption DEF TypeOK, LockInv, Holding, sync, map, threads, run
<1>1. CASE Reset
  BY <1>1 DEF Reset, MainStep, ThreadInv, Waiting, Main, Consumers
<1>2. CASE Swap
  BY <1>2 DEF Swap, Zeroes, MainStep, ThreadInv, Waiting, Main, Consumers
<1>3. CASE CheckReady
  BY <1>3 DEF CheckReady, MainStep, ThreadInv, Waiting, Main, Consumers
<1>4. CASE ProducerLock
  BY <1>4 DEF ProducerLock, Main, MainStep, ThreadInv, Waiting, Consumers
<1>5. CASE Prepare
  BY <1>5
  DEF Prepare, PresetZero, Zeroes, MainStep, ThreadInv, Waiting, Main,
      Consumers
<1>6. CASE PublishReady
  BY <1>6 DEF PublishReady, Main, MainStep, ThreadInv, Waiting, Consumers
<1>7. CASE NotifyAll
  BY <1>7 DEF NotifyAll, WakeSet, MainStep, ThreadInv, Waiting, Main, Consumers
<1>8. CASE JoinAndTotal
  BY <1>8
  DEF JoinAndTotal, Joinable, MainStep, ThreadInv, Waiting, Main, Consumers
<1>9. ASSUME NEW c \in Consumers, Spawn(c) PROVE LockInv'
  BY <1>9 DEF Spawn, Goto, MainStep, ThreadInv, Waiting, Main, Consumers
<1>10. ASSUME NEW c \in Consumers, Acquire(c) PROVE LockInv'
  BY <1>10 DEF Acquire, Step, Goto, Main, Consumers
<1>11. ASSUME NEW c \in Consumers, TestReady(c) PROVE LockInv'
  BY <1>11 DEF TestReady, Step, Goto, Main, Consumers
<1>12. ASSUME NEW c \in Consumers, Release(c) PROVE LockInv'
  <2>1. mtx = c /\ mtx' = None /\ c # Main /\ c # None
    BY <1>12 DEF Release, Step, Main, Consumers
  <2>2. \E to \in {"wait", "count"} : pc' = [pc EXCEPT ![c] = to]
    BY <1>12 DEF Release, Step, Goto
  <2>3. main \notin {"prepare", "publish"} /\ main' = main
    BY <1>12, <2>1 DEF Release
  <2> QED BY <2>1, <2>2, <2>3 DEF Main, Consumers
<1>13. ASSUME NEW c \in Consumers, FinishSlice(c) PROVE LockInv'
  BY <1>13 DEF FinishSlice, Step, Goto, Main, Consumers
<1>14. ASSUME NEW c \in Consumers, IncrementFetchAdd(c) PROVE LockInv'
  BY <1>14
  DEF IncrementFetchAdd, Step, Goto, BeginWord, Touch, Add, Advance, Main,
      Consumers
<1>15. ASSUME NEW c \in Consumers, LoadExpected(c) PROVE LockInv'
  BY <1>15 DEF LoadExpected, Step, Goto, BeginWord, Touch, Load, Main, Consumers
<1>16. ASSUME NEW c \in Consumers, ExchangeSucceeds(c) PROVE LockInv'
  BY <1>16 DEF ExchangeSucceeds, Step, Goto, Add, Advance, Main, Consumers
<1>17. ASSUME NEW c \in Consumers, ExchangeFails(c) PROVE LockInv'
  BY <1>17 DEF ExchangeFails, Step, Goto, Load, Main, Consumers
<1>18. ASSUME NEW c \in Consumers, BeginLookup(c) PROVE LockInv'
  BY <1>18 DEF BeginLookup, Step, Goto, BeginWord, Main, Consumers
<1>19. ASSUME NEW c \in Consumers, EndLookup(c) PROVE LockInv'
  BY <1>19 DEF EndLookup, Step, Goto, Touch, Main, Consumers
<1>20. ASSUME NEW c \in Consumers, LoadPlain(c) PROVE LockInv'
  BY <1>20 DEF LoadPlain, Step, Goto, Load, Main, Consumers
<1>21. ASSUME NEW c \in Consumers, StorePlain(c) PROVE LockInv'
  BY <1>21 DEF StorePlain, Step, Goto, Add, Advance, Main, Consumers
<1>22. ASSUME NEW c \in Consumers, WakeSpuriously(c) PROVE LockInv'
  BY <1>22 DEF WakeSpuriously, Step, Goto, Main, Consumers
<1>23. ASSUME NEW c \in Consumers, ExchangeFailsSpuriously(c) PROVE LockInv'
  BY <1>23 DEF ExchangeFailsSpuriously, Step, Goto, Main, Consumers
<1>24. ASSUME NEW c \in Consumers, LoseNodes(c) PROVE LockInv'
  BY <1>24 DEF LoseNodes, Step, Goto, Main, Consumers
<1>25. ASSUME NEW c \in Consumers, Crash(c) PROVE LockInv'
  BY <1>25, CurrentWord
  DEF Crash, Step, Goto, Main, Consumers, Counting, Published
<1>26. CASE UNCHANGED vars
  BY <1>26 DEF vars, Main, Consumers
<1> QED BY <1>1, <1>2, <1>3, <1>4, <1>5, <1>6, <1>7, <1>8, <1>9, <1>10, <1>11,
      <1>12, <1>13, <1>14, <1>15, <1>16, <1>17, <1>18, <1>19, <1>20, <1>21,
      <1>22, <1>23, <1>24, <1>25, <1>26
  DEF Next, MainNext, ConsumerNext, Misfortune, Stopped

LEMMA PhaseStep ==
  ASSUME TypeOK, PhaseInv, ThreadInv, LockInv, [Next]_vars
  PROVE  PhaseInv'
<1> USE SettingAssumption DEF TypeOK, PhaseInv, Published, Atomic, sync, map, threads, run
<1>1. CASE Reset
  BY <1>1 DEF Reset, MainStep
<1>2. CASE Swap
  BY <1>2 DEF Swap, Zeroes, MainStep
<1>3. CASE CheckReady
  BY <1>3 DEF CheckReady, MainStep
<1>4. CASE ProducerLock
  BY <1>4 DEF ProducerLock, Main, MainStep
<1>5. CASE Prepare
  BY <1>5 DEF Prepare, PresetZero, Zeroes, MainStep
<1>6. CASE PublishReady
  BY <1>6 DEF PublishReady, Main, MainStep
<1>7. CASE NotifyAll
  BY <1>7 DEF NotifyAll, WakeSet, MainStep
<1>8. CASE JoinAndTotal
  BY <1>8 DEF JoinAndTotal, Joinable, MainStep
<1>9. ASSUME NEW c \in Consumers, Spawn(c) PROVE PhaseInv'
  BY <1>9 DEF Spawn, Goto, MainStep
<1>10. ASSUME NEW c \in Consumers, Acquire(c) PROVE PhaseInv'
  BY <1>10 DEF Acquire, Step, Goto
<1>11. ASSUME NEW c \in Consumers, TestReady(c) PROVE PhaseInv'
  BY <1>11 DEF TestReady, Step, Goto
<1>12. ASSUME NEW c \in Consumers, Release(c) PROVE PhaseInv'
  BY <1>12 DEF Release, Step, Goto
<1>13. ASSUME NEW c \in Consumers, FinishSlice(c) PROVE PhaseInv'
  BY <1>13, CurrentWord DEF FinishSlice, Step, Goto, Counting
<1>14. ASSUME NEW c \in Consumers, IncrementFetchAdd(c) PROVE PhaseInv'
  BY <1>14, CurrentWord
  DEF IncrementFetchAdd, Step, Goto, BeginWord, Touch, Add, Advance,
      Counting
<1>15. ASSUME NEW c \in Consumers, LoadExpected(c) PROVE PhaseInv'
  BY <1>15, CurrentWord
  DEF LoadExpected, Step, Goto, BeginWord, Touch, Load, Counting
<1>16. ASSUME NEW c \in Consumers, ExchangeSucceeds(c) PROVE PhaseInv'
  BY <1>16, CurrentWord
  DEF ExchangeSucceeds, Step, Goto, Add, Advance, Counting, ThreadInv,
      MidWord
<1>17. ASSUME NEW c \in Consumers, ExchangeFails(c) PROVE PhaseInv'
  BY <1>17, CurrentWord
  DEF ExchangeFails, Step, Goto, Load, Counting, ThreadInv, MidWord
<1>18. ASSUME NEW c \in Consumers, BeginLookup(c) PROVE PhaseInv'
  BY <1>18, CurrentWord DEF BeginLookup, Step, Goto, BeginWord, Counting
<1>19. ASSUME NEW c \in Consumers, EndLookup(c) PROVE PhaseInv'
  BY <1>19, CurrentWord
  DEF EndLookup, Step, Goto, Touch, Counting, ThreadInv, MidWord
<1>20. ASSUME NEW c \in Consumers, LoadPlain(c) PROVE PhaseInv'
  BY <1>20, CurrentWord
  DEF LoadPlain, Step, Goto, Load, Counting, ThreadInv, MidWord
<1>21. ASSUME NEW c \in Consumers, StorePlain(c) PROVE PhaseInv'
  BY <1>21, CurrentWord
  DEF StorePlain, Step, Goto, Add, Advance, Counting, ThreadInv, MidWord
<1>22. ASSUME NEW c \in Consumers, WakeSpuriously(c) PROVE PhaseInv'
  BY <1>22 DEF WakeSpuriously, Step, Goto
<1>23. ASSUME NEW c \in Consumers, ExchangeFailsSpuriously(c) PROVE PhaseInv'
  BY <1>23, CurrentWord DEF ExchangeFailsSpuriously, Step, Goto, Counting
<1>24. ASSUME NEW c \in Consumers, LoseNodes(c) PROVE PhaseInv'
  BY <1>24, CurrentWord DEF LoseNodes, Step, Goto, Counting, ThreadInv, MidWord
<1>25. ASSUME NEW c \in Consumers, Crash(c) PROVE PhaseInv'
  BY <1>25, CurrentWord DEF Crash, Step, Goto, Counting
<1>26. CASE UNCHANGED vars
  BY <1>26 DEF vars
<1> QED BY <1>1, <1>2, <1>3, <1>4, <1>5, <1>6, <1>7, <1>8, <1>9, <1>10, <1>11,
      <1>12, <1>13, <1>14, <1>15, <1>16, <1>17, <1>18, <1>19, <1>20, <1>21,
      <1>22, <1>23, <1>24, <1>25, <1>26
  DEF Next, MainNext, ConsumerNext, Misfortune, Stopped

LEMMA ThreadStep ==
  ASSUME TypeOK, PhaseInv, ThreadInv, LockInv, [Next]_vars
  PROVE  ThreadInv'
<1> USE SettingAssumption DEF TypeOK, ThreadInv, Published, Waiting, MidWord,
        sync, map, threads, run
<1>1. CASE Reset
  BY <1>1 DEF Reset, MainStep, PhaseInv
<1>2. CASE Swap
  BY <1>2 DEF Swap, Zeroes, MainStep, PhaseInv
<1>3. CASE CheckReady
  BY <1>3 DEF CheckReady, MainStep, PhaseInv
<1>4. CASE ProducerLock
  BY <1>4 DEF ProducerLock, Main, MainStep, PhaseInv
<1>5. CASE Prepare
  BY <1>5 DEF Prepare, PresetZero, Zeroes, MainStep, PhaseInv
<1>6. CASE PublishReady
  <2>1. /\ main = "publish" /\ main' = "notify" /\ ready' = 1
        /\ UNCHANGED <<doc, pc, it, strategy>>
    BY <1>6 DEF PublishReady, MainStep
  <2>2. ASSUME NEW c \in Consumers PROVE pc[c] \in {"start", "wait"}
    BY <2>1 DEF LockInv, Holding, Main, Consumers
  <2> QED BY <2>1, <2>2
<1>7. CASE NotifyAll
  BY <1>7 DEF NotifyAll, WakeSet, MainStep, PhaseInv
<1>8. CASE JoinAndTotal
  BY <1>8 DEF JoinAndTotal, Joinable, MainStep, PhaseInv
<1>9. ASSUME NEW c \in Consumers, Spawn(c) PROVE ThreadInv'
  BY <1>9 DEF Spawn, Goto, MainStep, Consumers
<1>10. ASSUME NEW c \in Consumers, Acquire(c) PROVE ThreadInv'
  BY <1>10 DEF Acquire, Step, Goto
<1>11. ASSUME NEW c \in Consumers, TestReady(c) PROVE ThreadInv'
  BY <1>11 DEF TestReady, Step, Goto, PhaseInv
<1>12. ASSUME NEW c \in Consumers, Release(c) PROVE ThreadInv'
  BY <1>12 DEF Release, Step, Goto
<1>13. ASSUME NEW c \in Consumers, FinishSlice(c) PROVE ThreadInv'
  BY <1>13, CurrentWord DEF FinishSlice, Step, Goto, Counting
<1>14. ASSUME NEW c \in Consumers, IncrementFetchAdd(c) PROVE ThreadInv'
  BY <1>14, CurrentWord
  DEF IncrementFetchAdd, Step, Goto, BeginWord, Touch, Add, Advance,
      Counting
<1>15. ASSUME NEW c \in Consumers, LoadExpected(c) PROVE ThreadInv'
  BY <1>15, CurrentWord
  DEF LoadExpected, Step, Goto, BeginWord, Touch, Load, Counting
<1>16. ASSUME NEW c \in Consumers, ExchangeSucceeds(c) PROVE ThreadInv'
  BY <1>16, CurrentWord DEF ExchangeSucceeds, Step, Goto, Add, Advance, Counting
<1>17. ASSUME NEW c \in Consumers, ExchangeFails(c) PROVE ThreadInv'
  BY <1>17, CurrentWord DEF ExchangeFails, Step, Goto, Load, Counting
<1>18. ASSUME NEW c \in Consumers, BeginLookup(c) PROVE ThreadInv'
  BY <1>18, CurrentWord DEF BeginLookup, Step, Goto, BeginWord, Counting
<1>19. ASSUME NEW c \in Consumers, EndLookup(c) PROVE ThreadInv'
  BY <1>19, CurrentWord DEF EndLookup, Step, Goto, Touch, Counting
<1>20. ASSUME NEW c \in Consumers, LoadPlain(c) PROVE ThreadInv'
  BY <1>20, CurrentWord DEF LoadPlain, Step, Goto, Load, Counting
<1>21. ASSUME NEW c \in Consumers, StorePlain(c) PROVE ThreadInv'
  BY <1>21, CurrentWord DEF StorePlain, Step, Goto, Add, Advance, Counting
<1>22. ASSUME NEW c \in Consumers, WakeSpuriously(c) PROVE ThreadInv'
  BY <1>22 DEF WakeSpuriously, Step, Goto
<1>23. ASSUME NEW c \in Consumers, ExchangeFailsSpuriously(c) PROVE ThreadInv'
  BY <1>23, CurrentWord DEF ExchangeFailsSpuriously, Step, Goto, Counting
<1>24. ASSUME NEW c \in Consumers, LoseNodes(c) PROVE ThreadInv'
  BY <1>24, CurrentWord DEF LoseNodes, Step, Goto, Counting
<1>25. ASSUME NEW c \in Consumers, Crash(c) PROVE ThreadInv'
  BY <1>25, CurrentWord DEF Crash, Step, Goto, Counting
<1>26. CASE UNCHANGED vars
  BY <1>26 DEF vars
<1> QED BY <1>1, <1>2, <1>3, <1>4, <1>5, <1>6, <1>7, <1>8, <1>9, <1>10, <1>11,
      <1>12, <1>13, <1>14, <1>15, <1>16, <1>17, <1>18, <1>19, <1>20, <1>21,
      <1>22, <1>23, <1>24, <1>25, <1>26
  DEF Next, MainNext, ConsumerNext, Misfortune, Stopped

LEMMA WakeupStep ==
  ASSUME TypeOK, PhaseInv, ThreadInv, LockInv, NoLostWakeup, [Next]_vars
  PROVE  NoLostWakeup'
<1> USE SettingAssumption DEF TypeOK, NoLostWakeup, PhaseInv, Published, LockInv, Holding, sync, map, threads, run
<1>1. CASE Reset
  BY <1>1 DEF Reset, MainStep
<1>2. CASE Swap
  BY <1>2 DEF Swap, Zeroes, MainStep
<1>3. CASE CheckReady
  BY <1>3 DEF CheckReady, MainStep
<1>4. CASE ProducerLock
  BY <1>4 DEF ProducerLock, Main, MainStep
<1>5. CASE Prepare
  BY <1>5 DEF Prepare, PresetZero, Zeroes, MainStep
<1>6. CASE PublishReady
  BY <1>6 DEF PublishReady, Main, MainStep
<1>7. CASE NotifyAll
  BY <1>7 DEF NotifyAll, WakeSet, MainStep, ThreadInv
<1>8. CASE JoinAndTotal
  BY <1>8 DEF JoinAndTotal, Joinable, MainStep
<1>9. ASSUME NEW c \in Consumers, Spawn(c) PROVE NoLostWakeup'
  BY <1>9 DEF Spawn, Goto, MainStep
<1>10. ASSUME NEW c \in Consumers, Acquire(c) PROVE NoLostWakeup'
  BY <1>10 DEF Acquire, Step, Goto
<1>11. ASSUME NEW c \in Consumers, TestReady(c) PROVE NoLostWakeup'
  BY <1>11 DEF TestReady, Step, Goto
<1>12. ASSUME NEW c \in Consumers, Release(c) PROVE NoLostWakeup'
  BY <1>12 DEF Release, Step, Goto
<1>13. ASSUME NEW c \in Consumers, FinishSlice(c) PROVE NoLostWakeup'
  BY <1>13 DEF FinishSlice, Step, Goto
<1>14. ASSUME NEW c \in Consumers, IncrementFetchAdd(c) PROVE NoLostWakeup'
  BY <1>14 DEF IncrementFetchAdd, Step, Goto, BeginWord, Touch, Add, Advance
<1>15. ASSUME NEW c \in Consumers, LoadExpected(c) PROVE NoLostWakeup'
  BY <1>15 DEF LoadExpected, Step, Goto, BeginWord, Touch, Load
<1>16. ASSUME NEW c \in Consumers, ExchangeSucceeds(c) PROVE NoLostWakeup'
  BY <1>16 DEF ExchangeSucceeds, Step, Goto, Add, Advance
<1>17. ASSUME NEW c \in Consumers, ExchangeFails(c) PROVE NoLostWakeup'
  BY <1>17 DEF ExchangeFails, Step, Goto, Load
<1>18. ASSUME NEW c \in Consumers, BeginLookup(c) PROVE NoLostWakeup'
  BY <1>18 DEF BeginLookup, Step, Goto, BeginWord
<1>19. ASSUME NEW c \in Consumers, EndLookup(c) PROVE NoLostWakeup'
  BY <1>19 DEF EndLookup, Step, Goto, Touch
<1>20. ASSUME NEW c \in Consumers, LoadPlain(c) PROVE NoLostWakeup'
  BY <1>20 DEF LoadPlain, Step, Goto, Load
<1>21. ASSUME NEW c \in Consumers, StorePlain(c) PROVE NoLostWakeup'
  BY <1>21 DEF StorePlain, Step, Goto, Add, Advance
<1>22. ASSUME NEW c \in Consumers, WakeSpuriously(c) PROVE NoLostWakeup'
  BY <1>22 DEF WakeSpuriously, Step, Goto
<1>23. ASSUME NEW c \in Consumers, ExchangeFailsSpuriously(c) PROVE NoLostWakeup'
  BY <1>23 DEF ExchangeFailsSpuriously, Step, Goto
<1>24. ASSUME NEW c \in Consumers, LoseNodes(c) PROVE NoLostWakeup'
  BY <1>24 DEF LoseNodes, Step, Goto
<1>25. ASSUME NEW c \in Consumers, Crash(c) PROVE NoLostWakeup'
  BY <1>25 DEF Crash, Step, Goto
<1>26. CASE UNCHANGED vars
  BY <1>26 DEF vars
<1> QED BY <1>1, <1>2, <1>3, <1>4, <1>5, <1>6, <1>7, <1>8, <1>9, <1>10, <1>11,
      <1>12, <1>13, <1>14, <1>15, <1>16, <1>17, <1>18, <1>19, <1>20, <1>21,
      <1>22, <1>23, <1>24, <1>25, <1>26
  DEF Next, MainNext, ConsumerNext, Misfortune, Stopped

-----------------------------------------------------------------------------
\* The counts stay exact.

\* A consumer passing its next word adds that one position to Counted.
LEMMA CountedGrows ==
  ASSUME TypeOK, NEW c \in Consumers, it[c] < DocSize, Advance(c)
  PROVE  Counted' = Counted \cup {Left(c) + it[c] + 1}
<1> DEFINE p == Left(c) + it[c] + 1
<1>1. Left(c) \in Nat /\ it[c] \in Nat /\ DocSize \in Nat
  BY SliceInText, SettingAssumption DEF TypeOK
<1>2. it'[c] = it[c] + 1 /\ \A d \in Consumers \ {c} : it'[d] = it[d]
  BY DEF Advance, TypeOK
<1>3. CountedBy(c)' = CountedBy(c) \cup {p}
  BY <1>1, <1>2 DEF CountedBy, Left
<1>4. \A d \in Consumers \ {c} : CountedBy(d)' = CountedBy(d)
  BY <1>2 DEF CountedBy, Left
<1> QED BY <1>3, <1>4 DEF Counted

\* One word counted once: the count of that word, and of no other, grows by one,
\* like the set of positions it stands for.
LEMMA CountOneWord ==
  ASSUME TypeOK, CountsExact, Atomic, Published, NEW c \in Consumers,
         it[c] < DocSize, WordAt(c) \in Words,
         Add(c, counts[WordAt(c)]), Advance(c), doc' = doc
  PROVE  \A w \in Words : counts'[w] = Cardinality(CountedAs(w)')
<1> DEFINE p == Left(c) + it[c] + 1
<1>1. Counted' = Counted \cup {p} /\ p \notin Counted
  BY CountedGrows, NextPosition DEF TypeOK
<1>2. IsFiniteSet(Counted)
  BY CountedInText DEF TypeOK
<1>3. ASSUME NEW w \in Words
      PROVE  counts'[w] = Cardinality(CountedAs(w)')
  <2>1. /\ counts[w] = Cardinality(CountedAs(w)) /\ counts[w] \in Nat
        /\ IsFiniteSet(CountedAs(w)) /\ p \notin CountedAs(w)
    BY <1>1, <1>2, FS_Subset DEF CountsExact, CountedAs, TypeOK
  <2>2. CASE w = doc[p]
    <3>1. CountedAs(w)' = CountedAs(w) \cup {p}
      BY <1>1, <2>2 DEF CountedAs
    <3>2. counts'[w] = counts[w] + 1
      BY <2>2 DEF Add, WordAt, TypeOK
    <3> QED BY <2>1, <3>1, <3>2, FS_AddElement
  <2>3. CASE w # doc[p]
    <3>1. CountedAs(w)' = CountedAs(w)
      BY <1>1, <2>3 DEF CountedAs
    <3>2. counts'[w] = counts[w]
      BY <2>3 DEF Add, WordAt, TypeOK
    <3> QED BY <2>1, <3>1, <3>2
  <2> QED BY <2>2, <2>3
<1> QED BY <1>3

\* When the producer publishes, nothing is counted and every count is zero.
LEMMA NothingCounted ==
  ASSUME TypeOK, PhaseInv, ThreadInv, PublishReady
  PROVE  \A w \in Words : counts'[w] = Cardinality(CountedAs(w)')
<1>1. /\ main = "publish" /\ counts = Zeroes
      /\ UNCHANGED <<doc, it, counts>>
  BY DEF PublishReady, MainStep, map, threads, PhaseInv
<1>2. \A c \in Consumers : it[c] = 0
  BY <1>1 DEF ThreadInv
<1>3. Counted' = {}
  BY <1>1, <1>2, SliceInText DEF Counted, CountedBy, Left
<1>4. \A w \in Words : CountedAs(w)' = {}
  BY <1>3 DEF CountedAs
<1> QED BY <1>1, <1>4, FS_EmptySet DEF Zeroes

LEMMA CountsStep ==
  ASSUME TypeOK, PhaseInv, ThreadInv, CountsExact, [Next]_vars
  PROVE  CountsExact'
<1> SUFFICES ASSUME Atomic', Published'
             PROVE  \A w \in Words : counts'[w] = Cardinality(CountedAs(w)')
  BY DEF CountsExact
<1> USE DEF sync, map, threads, run
<1>1. strategy' = strategy /\ Atomic
  BY DEF Next, MainNext, Reset, Swap, Spawn, CheckReady, ProducerLock, Prepare,
      PublishReady, NotifyAll, JoinAndTotal, ConsumerNext, Acquire, TestReady,
      Release, FinishSlice, IncrementFetchAdd, LoadExpected, ExchangeSucceeds,
      ExchangeFails, BeginLookup, EndLookup, LoadPlain, StorePlain, Misfortune,
      WakeSpuriously, ExchangeFailsSpuriously, LoseNodes, Crash, Stopped, vars,
      Atomic
<1>2. ASSUME Published, UNCHANGED <<doc, it, counts>>
      PROVE  \A w \in Words : counts'[w] = Cardinality(CountedAs(w)')
  BY <1>1, <1>2 DEF CountsExact, CountedAs, Counted, CountedBy, Left
<1>3. CASE MainNext
  <2>1. CASE PublishReady
    BY <2>1, NothingCounted
  <2>2. CASE ~PublishReady
    <3>1. Published /\ UNCHANGED <<doc, it, counts>>
      BY <1>3, <2>2 DEF MainNext, Reset, Swap, Spawn, CheckReady, ProducerLock,
          Prepare, NotifyAll, JoinAndTotal, MainStep, Published
    <3> QED BY <1>2, <3>1
  <2> QED BY <2>1, <2>2
<1>4. ASSUME NEW c \in Consumers, IncrementFetchAdd(c) \/ ExchangeSucceeds(c)
      PROVE  \A w \in Words : counts'[w] = Cardinality(CountedAs(w)')
  <2>1. Alive /\ Counting(c)
    BY <1>4 DEF IncrementFetchAdd, ExchangeSucceeds, BeginWord, Step, Counting
  <2>2. it[c] < DocSize
    BY <1>4, <2>1, CurrentWord
    DEF IncrementFetchAdd, ExchangeSucceeds, BeginWord, Step, ThreadInv, MidWord
  <2>3. Published /\ WordAt(c) \in Words
    BY <2>1, <2>2, CurrentWord
  <2>4. Add(c, counts[WordAt(c)]) /\ Advance(c) /\ doc' = doc
    BY <1>4 DEF IncrementFetchAdd, ExchangeSucceeds, Unchanged
  <2> QED BY <1>1, <2>2, <2>3, <2>4, CountOneWord
<1>5. ASSUME NEW c \in Consumers, ConsumerNext(c) \/ Misfortune(c),
             ~IncrementFetchAdd(c), ~ExchangeSucceeds(c)
      PROVE  \A w \in Words : counts'[w] = Cardinality(CountedAs(w)')
  <2>1. ~LoseNodes(c) /\ ~StorePlain(c) /\ ~Crash(c)
    BY <1>1 DEF LoseNodes, StorePlain, Crash, Step, ThreadInv, Atomic
  <2>2. main' = main /\ UNCHANGED <<doc, it, counts>>
    BY <1>5, <2>1 DEF ConsumerNext, Acquire, TestReady, Release, FinishSlice,
        LoadExpected, ExchangeFails, BeginLookup, EndLookup, LoadPlain,
        Misfortune, WakeSpuriously, ExchangeFailsSpuriously
  <2> QED BY <1>2, <2>2 DEF Published
<1>6. CASE Stopped \/ UNCHANGED vars
  BY <1>2, <1>6 DEF Stopped, vars, Published
<1> QED BY <1>3, <1>4, <1>5, <1>6 DEF Next

-----------------------------------------------------------------------------
\* The theorems.

LEMMA InvInit == Init => Inv
<1> SUFFICES ASSUME Init PROVE Inv
  OBVIOUS
<1>1. TypeOK
  BY SettingAssumption DEF Init, TypeOK, Zeroes, Consumers
<1>2. LockInv
  BY SettingAssumption DEF Init, LockInv, Holding, Consumers, Main
<1>3. PhaseInv /\ ThreadInv /\ NoLostWakeup /\ CountsExact
  BY SettingAssumption DEF Init, PhaseInv, ThreadInv, NoLostWakeup, CountsExact,
      Published, Waiting, MidWord
<1> QED BY <1>1, <1>2, <1>3 DEF Inv

LEMMA InvStep == Inv /\ [Next]_vars => Inv'
BY TypeStep, LockStep, PhaseStep, ThreadStep, WakeupStep, CountsStep DEF Inv

LEMMA Invariance == Spec => []Inv
BY InvInit, InvStep, PTL DEF Spec

\* Every variable stays within its type.
THEOREM TypeCorrect == Spec => []TypeOK
<1>1. Inv => TypeOK
  BY DEF Inv
<1> QED BY <1>1, Invariance, PTL

\* Once the producer has notified, no consumer is asleep or about to sleep: the
\* test of the predicate and the wait happen under the mutex that the store of
\* `ready` needs.
THEOREM WakeupNeverLost == Spec => []NoLostWakeup
<1>1. Inv => NoLostWakeup
  BY DEF Inv
<1> QED BY <1>1, Invariance, PTL

\* No call of producer ends the process: execute_all has reset `ready`.
THEOREM ProducerNeverTerminates == Spec => []NeverTerminated
<1>1. Inv => NeverTerminated
  BY DEF Inv, PhaseInv, NeverTerminated
<1> QED BY <1>1, Invariance, PTL

\* fetch_add and the compare-exchange loop lose and double no increment.
THEOREM NoIncrementLost == Spec => []CountsExact
<1>1. Inv => CountsExact
  BY DEF Inv
<1> QED BY <1>1, Invariance, PTL

\* What holds of the plain map, on which threads overwrite each other's counts: a count,
\* and a count that a thread has loaded and not yet stored, is at most the number of the
\* positions that have been counted.
NotOver ==
  ~Atomic /\ Published =>
    /\ \A w \in Words : counts[w] <= Cardinality(CountedAs(w))
    /\ \A c \in Consumers :
         pc[c] = "store" => expected[c] <= Cardinality(CountedAs(WordAt(c)))

\* A consumer that passes a word adds its position to those counted as this word.
LEMMA CountedAsGrows ==
  ASSUME TypeOK, NEW c \in Consumers, it[c] < DocSize, Advance(c), doc' = doc,
         NEW w \in Words
  PROVE  Cardinality(CountedAs(w)') =
           Cardinality(CountedAs(w)) + (IF w = WordAt(c) THEN 1 ELSE 0)
         /\ Cardinality(CountedAs(w)) \in Nat
<1> DEFINE p == Left(c) + it[c] + 1
<1>1. Counted' = Counted \cup {p} /\ p \notin Counted
  BY CountedGrows, NextPosition DEF TypeOK
<1>2. IsFiniteSet(CountedAs(w)) /\ p \notin CountedAs(w)
  BY <1>1, CountedInText, FS_Subset DEF CountedAs, TypeOK
<1>3. Cardinality(CountedAs(w)) \in Nat
  BY <1>2, FS_CardinalityType
<1>4. CASE w = WordAt(c)
  <2>1. CountedAs(w)' = CountedAs(w) \cup {p}
    BY <1>1, <1>4 DEF CountedAs, WordAt
  <2> QED BY <1>2, <1>3, <1>4, <2>1, FS_AddElement
<1>5. CASE w # WordAt(c)
  <2>1. CountedAs(w)' = CountedAs(w)
    BY <1>1, <1>5 DEF CountedAs, WordAt
  <2> QED BY <1>3, <1>5, <2>1
<1> QED BY <1>4, <1>5

\* A store of a stale count overwrites, and never overcounts.
LEMMA StoreNotOver ==
  ASSUME Inv, NotOver, ~Atomic, NEW c \in Consumers, StorePlain(c)
  PROVE  NotOver'
<1> DEFINE word == WordAt(c)
<1>1. /\ Alive /\ pc[c] = "store" /\ pc' = [pc EXCEPT ![c] = "count"] /\ Advance(c)
      /\ UNCHANGED <<doc, expected, main>>
      /\ IF word \in keys THEN counts' = [counts EXCEPT ![word] = expected[c] + 1]
         ELSE counts' = counts
  BY DEF StorePlain, Step, Goto, Add
<1>2. Published /\ it[c] < DocSize /\ word \in Words
  BY <1>1, CurrentWord DEF Counting, Inv, ThreadInv, MidWord
<1>3. /\ TypeOK
      /\ \A w \in Words : counts[w] <= Cardinality(CountedAs(w)) /\ counts[w] \in Nat
      /\ expected[c] <= Cardinality(CountedAs(word)) /\ expected[c] \in Nat
      /\ \A d \in Consumers : expected[d] \in Nat
      /\ \A d \in Consumers :
           pc[d] = "store" => expected[d] <= Cardinality(CountedAs(WordAt(d)))
  BY <1>1, <1>2 DEF Inv, NotOver, TypeOK
<1>4. \A w \in Words :
        /\ Cardinality(CountedAs(w)') = Cardinality(CountedAs(w)) + (IF w = word THEN 1 ELSE 0)
        /\ Cardinality(CountedAs(w)) \in Nat
  BY <1>1, <1>2, <1>3, CountedAsGrows
<1>5. ASSUME NEW w \in Words PROVE counts'[w] <= Cardinality(CountedAs(w)')
  <2>1. counts'[w] = counts[w] \/ (w = word /\ counts'[w] = expected[c] + 1)
    BY <1>1, <1>2 DEF Inv, TypeOK
  <2> HIDE DEF word
  <2> QED BY <1>3, <1>4, <2>1
<1>6. ASSUME NEW d \in Consumers, pc'[d] = "store"
      PROVE  expected'[d] <= Cardinality(CountedAs(WordAt(d)))'
  <2>1. d # c /\ pc[d] = "store"
    BY <1>1, <1>6 DEF Inv, TypeOK
  <2>2. WordAt(d)' = WordAt(d) /\ WordAt(d) \in Words
    <3>1. it'[d] = it[d] /\ doc' = doc
      BY <1>1, <2>1 DEF Inv, TypeOK, Advance
    <3>2. WordAt(d) \in Words
      BY <1>1, <2>1, CurrentWord DEF Counting, Inv, ThreadInv, MidWord
    <3> QED BY <3>1, <3>2 DEF WordAt, Left
  <2>3. expected'[d] = expected[d]
    BY <1>1
  <2>4. Cardinality(CountedAs(WordAt(d)))' >= Cardinality(CountedAs(WordAt(d)))
    <3>1. CountedAs(WordAt(d))' = {q \in Counted' : doc[q] = WordAt(d)}
      BY <1>1, <2>2 DEF CountedAs
    <3>2. ASSUME NEW w \in Words
          PROVE  Cardinality({q \in Counted' : doc[q] = w}) >= Cardinality(CountedAs(w))
      <4>1. CountedAs(w)' = {q \in Counted' : doc[q] = w}
        BY <1>1 DEF CountedAs
      <4>2. Cardinality(CountedAs(w)') >= Cardinality(CountedAs(w))
        BY <1>4
      <4> QED BY <4>1, <4>2
    <3> QED BY <2>2, <3>1, <3>2
  <2>5. expected[d] <= Cardinality(CountedAs(WordAt(d))) /\ expected[d] \in Nat
    BY <1>3, <2>1
  <2> QED BY <1>4, <2>2, <2>3, <2>4, <2>5
<1> QED BY <1>5, <1>6 DEF NotOver

LEMMA NotOverStep ==
  ASSUME Inv, NotOver, [Next]_vars
  PROVE  NotOver'
<1> SUFFICES ASSUME ~Atomic', Published' PROVE NotOver'
  BY DEF NotOver
<1> USE DEF sync, map, threads, run
<1>1. strategy' = strategy /\ ~Atomic
  BY DEF Next, MainNext, Reset, Swap, Spawn, CheckReady, ProducerLock, Prepare,
      PublishReady, NotifyAll, JoinAndTotal, ConsumerNext, Acquire, TestReady,
      Release, FinishSlice, IncrementFetchAdd, LoadExpected, ExchangeSucceeds,
      ExchangeFails, BeginLookup, EndLookup, LoadPlain, StorePlain, Misfortune,
      WakeSpuriously, ExchangeFailsSpuriously, LoseNodes, Crash, Stopped, vars,
      Atomic
<1>2. TypeOK /\ PhaseInv /\ ThreadInv
  BY DEF Inv
<1>3. \A w \in Words : counts[w] \in Nat
  BY <1>2 DEF TypeOK
<1>4. ASSUME Published, UNCHANGED <<doc, it>>,
             \A w \in Words : counts'[w] <= counts[w] /\ counts'[w] \in Nat,
             \A d \in Consumers :
               pc'[d] = "store" => expected'[d] <= Cardinality(CountedAs(WordAt(d)))
      PROVE  NotOver'
  <2>1. \A w : CountedAs(w)' = CountedAs(w)
    BY <1>4 DEF CountedAs, Counted, CountedBy, Left
  <2>2. \A d : CountedAs(WordAt(d))' = CountedAs(WordAt(d))
    BY <1>4 DEF CountedAs, Counted, CountedBy, WordAt, Left
  <2>3. ASSUME NEW w \in Words PROVE counts'[w] <= Cardinality(CountedAs(w)')
    <3>1. IsFiniteSet(CountedAs(w))
      BY <1>2, CountedInText, FS_Subset DEF CountedAs, TypeOK
    <3>2. Cardinality(CountedAs(w)) \in Nat
      BY <3>1, FS_CardinalityType
    <3>3. counts[w] <= Cardinality(CountedAs(w))
      BY <1>1, <1>4 DEF NotOver
    <3> QED BY <1>3, <1>4, <2>1, <3>2, <3>3
  <2> QED BY <1>4, <2>2, <2>3 DEF NotOver
<1>5. ASSUME Published
      PROVE  \A d \in Consumers :
               pc[d] = "store" => expected[d] <= Cardinality(CountedAs(WordAt(d)))
  BY <1>1, <1>5 DEF NotOver
<1>6. CASE MainNext
  <2>1. CASE PublishReady
    <3>1. \A w \in Words : counts'[w] = Cardinality(CountedAs(w)') /\ counts'[w] \in Nat
      BY <1>2, <1>3, <2>1, NothingCounted DEF PublishReady
    <3>2. \A c \in Consumers : pc'[c] # "store"
      BY <1>2, <2>1 DEF PublishReady, MainStep, ThreadInv, Waiting
    <3> QED BY <3>1, <3>2 DEF NotOver
  <2>2. CASE ~PublishReady
    <3>1. NotifyAll
      BY <1>6, <2>2 DEF MainNext, Reset, Swap, Spawn, CheckReady, ProducerLock,
          Prepare, JoinAndTotal, MainStep, Published
    <3>2. Published /\ UNCHANGED <<doc, it, counts, expected>>
      BY <3>1 DEF NotifyAll, MainStep, Published
    <3>3. \A d \in Consumers : pc'[d] = "store" => pc[d] = "store"
      BY <3>1 DEF NotifyAll
    <3> QED BY <1>3, <1>4, <1>5, <3>2, <3>3
  <2> QED BY <2>1, <2>2
<1>7. ASSUME NEW c \in Consumers, ConsumerNext(c) \/ Misfortune(c)
      PROVE  NotOver'
  <2>1. Published
    BY <1>7 DEF ConsumerNext, Acquire, TestReady, Release, FinishSlice, IncrementFetchAdd,
        LoadExpected, ExchangeSucceeds, ExchangeFails, BeginLookup, EndLookup, LoadPlain,
        StorePlain, Misfortune, WakeSpuriously, ExchangeFailsSpuriously, LoseNodes, Crash,
        Published
  <2>2. DOMAIN pc = Consumers
    BY <1>2 DEF TypeOK
  <2>3. CASE StorePlain(c)
    BY <1>1, <2>3, StoreNotOver
  <2>4. CASE LoadPlain(c)
    <3>1. /\ pc[c] = "load" /\ Alive /\ pc' = [pc EXCEPT ![c] = "store"]
          /\ expected' = [expected EXCEPT ![c] = counts[WordAt(c)]]
          /\ UNCHANGED <<doc, it, counts>>
      BY <2>4 DEF LoadPlain, Step, Goto, Load
    <3>2. WordAt(c) \in Words
      BY <1>2, <3>1, CurrentWord DEF Counting, ThreadInv, MidWord
    <3>3. \A w \in Words : counts[w] <= Cardinality(CountedAs(w))
      BY <1>1, <2>1 DEF NotOver
    <3>4. \A d \in Consumers :
            pc'[d] = "store" => expected'[d] <= Cardinality(CountedAs(WordAt(d)))
      BY <1>2, <1>5, <2>1, <2>2, <3>1, <3>2, <3>3 DEF TypeOK
    <3> QED BY <1>3, <1>4, <2>1, <3>1, <3>4
  <2>5. CASE LoseNodes(c)
    <3>1. /\ pc' = [pc EXCEPT ![c] = "load"] /\ UNCHANGED <<doc, it, expected>>
          /\ counts' = [w \in Words |-> IF w \in keys' THEN counts[w] ELSE 0]
      BY <2>5 DEF LoseNodes, Step, Goto
    <3>2. \A w \in Words : counts'[w] <= counts[w] /\ counts'[w] \in Nat
      BY <1>3, <3>1
    <3> QED BY <1>4, <1>5, <2>1, <2>2, <3>1, <3>2
  <2>6. CASE ~StorePlain(c) /\ ~LoadPlain(c) /\ ~LoseNodes(c)
    <3>1. ~IncrementFetchAdd(c) /\ ~ExchangeSucceeds(c) /\ ~LoadExpected(c) /\ ~ExchangeFails(c)
          /\ ~ExchangeFailsSpuriously(c) /\ ~Crash(c)
      BY <1>1, <1>2 DEF IncrementFetchAdd, ExchangeSucceeds, LoadExpected, ExchangeFails,
          ExchangeFailsSpuriously, BeginWord, Step, ThreadInv, Atomic, FetchAdd,
          CompareAndSwap, Relaxed, Crash, Published
    <3>2. UNCHANGED <<doc, it, counts, expected>>
      BY <1>7, <2>6, <3>1 DEF ConsumerNext, Acquire, TestReady, Release, FinishSlice,
          BeginLookup, EndLookup, Misfortune, WakeSpuriously
    <3>3. \E to \in {"test", "sleep", "leave", "wait", "start", "count", "done", "lookup", "load"} :
            pc' = [pc EXCEPT ![c] = to]
      BY <1>7, <2>6, <3>1 DEF ConsumerNext, Acquire, TestReady, Release, FinishSlice,
          BeginLookup, EndLookup, Misfortune, WakeSpuriously, BeginWord, Step, Goto
    <3>4. \A d \in Consumers : pc'[d] = "store" => pc[d] = "store"
      BY <2>2, <3>3
    <3> QED BY <1>3, <1>4, <1>5, <2>1, <3>2, <3>4
  <2> QED BY <2>3, <2>4, <2>5, <2>6
<1>8. CASE Stopped \/ UNCHANGED vars
  <2>1. Published /\ UNCHANGED <<doc, it, counts, expected, pc>>
    BY <1>8 DEF Stopped, vars, Published
  <2> QED BY <1>3, <1>4, <1>5, <2>1
<1> QED BY <1>6, <1>7, <1>8 DEF Next

\* The plain map may lose counts, and never invents one, even when the tree is corrupted.
THEOREM CountsAreNotInvented == Spec => []NeverOvercounts
<1>1. Init => NotOver
  BY DEF Init, NotOver, Published
<1>2. ASSUME Inv, NotOver PROVE NeverOvercounts
  <2>1. CASE ~Atomic
    BY <1>2, <2>1 DEF NotOver, NeverOvercounts
  <2>2. CASE Atomic
    BY <1>2, <2>2 DEF Inv, TypeOK, CountsExact, NeverOvercounts
  <2> QED BY <2>1, <2>2
<1> QED BY <1>1, <1>2, Invariance, NotOverStep, PTL DEF Spec

\* The document and the nodes of the map stay put while a consumer counts.
THEOREM MapIsStable == Spec => StableWhileCounting
<1> DEFINE Stable == (\E c \in Consumers : Counting(c)) =>
                       doc' = doc /\ (Atomic => keys' = keys)
<1>1. ASSUME Inv, [Next]_vars, NEW e \in Consumers, Counting(e)
      PROVE  doc' = doc /\ (Atomic => keys' = keys)
  <2> USE <1>1 DEF sync, map, threads, run
  <2>1. main \in {"notify", "join", "crashed", "terminated"}
    BY CurrentWord DEF Inv, Alive, Published
  <2>2. CASE MainNext
    BY <2>1, <2>2 DEF MainNext, Reset, Swap, Spawn, CheckReady, ProducerLock,
        Prepare, PublishReady, NotifyAll, JoinAndTotal, MainStep
  <2>3. ASSUME NEW c \in Consumers, ConsumerNext(c) \/ Misfortune(c)
        PROVE  doc' = doc /\ (Atomic => keys' = keys)
    <3>1. doc' = doc
      BY <2>3 DEF ConsumerNext, Acquire, TestReady, Release, FinishSlice,
          IncrementFetchAdd, LoadExpected, ExchangeSucceeds, ExchangeFails,
          BeginLookup, EndLookup, LoadPlain, StorePlain, Misfortune,
          WakeSpuriously, ExchangeFailsSpuriously, LoseNodes, Crash
    <3>2. ASSUME Atomic, IncrementFetchAdd(c) \/ LoadExpected(c)
          PROVE  keys' = keys
      <4>1. keys' = keys \cup {WordAt(c)} /\ Alive /\ Counting(c) /\ MoreWords(c)
        BY <3>2 DEF IncrementFetchAdd, LoadExpected, BeginWord, Step, Touch, Counting
      <4>2. Published /\ WordAt(c) \in Words
        BY <4>1, CurrentWord DEF Inv
      <4>3. keys = Words
        BY <3>2, <4>2 DEF Inv, PhaseInv, Published
      <4> QED BY <4>1, <4>2, <4>3
    <3>3. ASSUME Atomic, ~IncrementFetchAdd(c), ~LoadExpected(c)
          PROVE  keys' = keys
      <4>1. ~EndLookup(c) /\ ~LoseNodes(c)
        BY <3>3 DEF EndLookup, LoseNodes, Step, Inv, ThreadInv, Atomic
      <4> QED BY <2>3, <3>3, <4>1 DEF ConsumerNext, Acquire, TestReady, Release,
              FinishSlice, ExchangeSucceeds, ExchangeFails, BeginLookup,
              LoadPlain, StorePlain, Misfortune, WakeSpuriously,
              ExchangeFailsSpuriously, Crash
    <3> QED BY <3>1, <3>2, <3>3
  <2>4. CASE Stopped \/ UNCHANGED vars
    BY <2>4 DEF Stopped, vars
  <2> QED BY <2>2, <2>3, <2>4 DEF Next
<1>2. Inv /\ [Next]_vars => [Stable]_vars
  BY <1>1
<1> QED BY <1>2, Invariance, PTL DEF Spec, StableWhileCounting

-----------------------------------------------------------------------------
\* Every word of the document is counted once all consumers have finished.

\* Division with remainder by the slice size.
LEMMA DivisionWithRemainder ==
  ASSUME NEW a \in Nat, NEW d \in Nat, 0 < d
  PROVE  \E q \in Nat, r \in 0..d - 1 : a = d * q + r
<1>1. a % d \in 0..d - 1
  BY Z3
<1>2. a = d * (a \div d) + (a % d)
  BY Z3
<1>3. a \div d \in Int
  BY Z3
<1>4. a \div d \in Nat
  BY <1>1, <1>2, <1>3, Z3
<1> QED BY <1>1, <1>2, <1>4

\* Every position of the document lies in the slice of a consumer.
LEMMA SlicesCover ==
  ASSUME NEW p \in Positions
  PROVE  \E c \in Consumers : p \in Left(c) + 1 .. Left(c) + DocSize
<1>1. /\ NThreads \in Nat /\ DocSize \in Nat /\ 0 < DocSize
      /\ p \in Nat /\ p - 1 \in Nat /\ p <= NThreads * DocSize
  BY SettingAssumption DEF Positions, TextLength
<1>2. PICK q \in Nat, r \in 0..DocSize - 1 : p - 1 = DocSize * q + r
  BY <1>1, DivisionWithRemainder
<1>3. q < NThreads
  <2>1. SUFFICES ASSUME NThreads <= q PROVE FALSE
    BY <1>1
  <2>2. NThreads * DocSize <= DocSize * q
    BY <1>1, <2>1
  <2>3. DocSize * q \in Nat /\ NThreads * DocSize \in Nat
    BY <1>1
  <2> QED BY <1>1, <1>2, <2>2, <2>3
<1>4. q + 1 \in Consumers /\ Left(q + 1) = DocSize * q
  BY <1>1, <1>3 DEF Consumers, Left
<1>5. DocSize * q \in Nat
  BY <1>1
<1>6. p \in DocSize * q + 1 .. DocSize * q + DocSize
  BY <1>1, <1>2, <1>5
<1> QED BY <1>4, <1>6

\* Consumers that have finished have counted every position.
LEMMA AllCounted ==
  ASSUME Inv, main = "join", Joinable
  PROVE  Counted = Positions
<1>1. \A c \in Consumers : it[c] = DocSize
  BY DEF Inv, ThreadInv, Published, Joinable
<1>2. Positions \subseteq Counted
  BY <1>1, SlicesCover DEF Counted, CountedBy
<1>3. Counted \subseteq Positions
  BY CountedInText DEF Inv, TypeOK
<1> QED BY <1>2, <1>3

\* What execute_all sums up: for each word its number of occurrences in the
\* whole document, n_threads slices of doc_size words.
WholeTextCounted ==
  Atomic /\ main = "join" /\ Joinable =>
    \A w \in Words : counts[w] = Cardinality({p \in Positions : doc[p] = w})

THEOREM EveryWordCounted == Spec => []WholeTextCounted
<1>1. Inv => WholeTextCounted
  BY AllCounted DEF Inv, CountsExact, Published, CountedAs, WholeTextCounted
<1> QED BY <1>1, Invariance, PTL

-----------------------------------------------------------------------------
\* Refinement.

LEMMA SequentialInit == Init => Sequential!Init
BY DEF Init, Open, Sequential!Init, Zeroes, Sequential!NoTally, Published

\* A consumer that passes a word takes one pending position.
LEMMA SequentialCount ==
  ASSUME Inv, Atomic, NEW c \in Consumers, it[c] < DocSize, Published,
         Add(c, counts[WordAt(c)]), Advance(c),
         UNCHANGED <<strategy, sync, doc, main, result>>
  PROVE  \E p \in Positions \ Counted : Sequential!CountOne(p)
<1> DEFINE p == Left(c) + it[c] + 1
<1>1. p \in Positions \ Counted /\ Counted' = Counted \cup {p}
  BY NextPosition, CountedGrows DEF Inv, TypeOK
<1>2. Open /\ Open' /\ Atomic' /\ Published'
  BY DEF sync, Inv, PhaseInv, Published, Open, Atomic
<1>3. counts' = [counts EXCEPT ![doc[p]] = @ + 1]
  BY DEF Add, WordAt
<1> QED BY <1>1, <1>2, <1>3 DEF Sequential!CountOne

\* The store of `ready` publishes the text with all its positions pending.
LEMMA SequentialPublish ==
  ASSUME Inv, Atomic, PublishReady
  PROVE  Sequential!Publish
<1>1. /\ main = "publish" /\ main' = "notify" /\ ready' = 1 /\ ready = 0
      /\ counts = Zeroes /\ doc \in [Positions -> Words]
      /\ UNCHANGED <<doc, it, counts, result>> /\ Atomic'
  BY DEF PublishReady, MainStep, map, threads, run, Inv, PhaseInv, Atomic
<1>2. \A e \in Consumers : it[e] = 0
  BY <1>1 DEF Inv, ThreadInv
<1>3. Counted' = {}
  BY <1>1, <1>2, SliceInText DEF Counted, CountedBy, Left
<1> QED BY <1>1, <1>3
        DEF Sequential!Publish, Sequential!NoTally, Open, Zeroes, Published, Positions

\* The joins and the sum report when nothing is pending.
LEMMA SequentialReport ==
  ASSUME Inv, Atomic, JoinAndTotal
  PROVE  Sequential!Report
<1>1. /\ main = "join" /\ Joinable /\ main' \notin {"notify", "join"}
      /\ ready = 1 /\ ready' = 1 /\ result' = TotalOf(counts)
      /\ UNCHANGED <<doc, counts>> /\ Atomic'
  BY DEF JoinAndTotal, MainStep, sync, map, Inv, PhaseInv, Published, Atomic
<1>2. Counted = Positions
  BY <1>1, AllCounted
<1> QED BY <1>1, <1>2 DEF Sequential!Report, Open, Published

\* The reset of `ready` withdraws the text.
LEMMA SequentialWithdraw ==
  ASSUME Inv, Atomic, Reset
  PROVE  Sequential!Withdraw
BY DEF Reset, MainStep, run, Sequential!Withdraw, Sequential!NoTally, Open, Zeroes, Published,
    Atomic

\* The strategy of a run never changes.
LEMMA StrategyStays ==
  ASSUME [Next]_vars
  PROVE  strategy' = strategy
BY DEF Next, MainNext, Reset, Swap, Spawn, CheckReady, ProducerLock, Prepare, PublishReady,
    NotifyAll, JoinAndTotal, ConsumerNext, Acquire, TestReady, Release, FinishSlice,
    IncrementFetchAdd, LoadExpected, ExchangeSucceeds, ExchangeFails, BeginLookup, EndLookup,
    LoadPlain, StorePlain, Misfortune, WakeSpuriously, ExchangeFailsSpuriously, LoseNodes,
    Crash, Stopped, vars, run

\* Of the racing strategy the sequential count sees nothing.
LEMMA SequentialRelaxed ==
  ASSUME ~Atomic, [Next]_vars
  PROVE  UNCHANGED Sequential!tallyVars
<1>1. ~Atomic'
  BY StrategyStays DEF Atomic
<1> QED BY <1>1 DEF Sequential!tallyVars, Open, Zeroes

LEMMA SequentialAtomic ==
  ASSUME Inv, [Next]_vars, Atomic
  PROVE  [Sequential!Next]_(Sequential!tallyVars)
<1> USE DEF sync, map, threads, run
<1>1. Atomic /\ Atomic' /\ strategy' = strategy
  BY StrategyStays DEF Atomic
<1>2. ASSUME UNCHANGED <<ready, result>>, Published' <=> Published,
             ready = 1 => UNCHANGED <<doc, counts>>, Published => it' = it
      PROVE  UNCHANGED Sequential!tallyVars
  BY <1>1, <1>2 DEF Sequential!tallyVars, Open, Counted, CountedBy, Left
<1>3. CASE MainNext
  <2>1. CASE Reset
    BY <1>1, <2>1, SequentialWithdraw DEF Sequential!Next
  <2>2. CASE PublishReady
    BY <1>1, <2>2, SequentialPublish DEF Sequential!Next
  <2>3. CASE JoinAndTotal
    BY <1>1, <2>3, SequentialReport DEF Sequential!Next
  <2>4. CASE ~Reset /\ ~PublishReady /\ ~JoinAndTotal
    <3> USE <1>3, <2>4 DEF MainNext, Swap, Spawn, CheckReady, ProducerLock,
            Prepare, NotifyAll, MainStep
    <3>1. UNCHANGED <<ready, result>>
      OBVIOUS
    <3>2. Published' <=> Published
      BY DEF Published
    <3>3. ready = 1 => UNCHANGED <<doc, counts>>
      BY DEF Inv, PhaseInv
    <3>4. Published => it' = it
      BY DEF Published
    <3> QED BY <1>2, <3>1, <3>2, <3>3, <3>4
  <2> QED BY <2>1, <2>2, <2>3, <2>4
<1>4. ASSUME NEW c \in Consumers, IncrementFetchAdd(c) \/ ExchangeSucceeds(c)
      PROVE  [Sequential!Next]_(Sequential!tallyVars)
  <2>1. Alive /\ Counting(c)
    BY <1>4 DEF IncrementFetchAdd, ExchangeSucceeds, BeginWord, Step, Counting
  <2>2. it[c] < DocSize /\ Published
    BY <1>4, <2>1, CurrentWord
    DEF IncrementFetchAdd, ExchangeSucceeds, BeginWord, Step, Inv, ThreadInv, MidWord
  <2>3. /\ Add(c, counts[WordAt(c)]) /\ Advance(c)
        /\ UNCHANGED <<sync, doc, main, result>>
    BY <1>4 DEF IncrementFetchAdd, ExchangeSucceeds, Unchanged
  <2>4. \E p \in Positions \ Counted : Sequential!CountOne(p)
    BY <1>1, <2>2, <2>3, SequentialCount
  <2> QED BY <1>1, <2>2, <2>4 DEF Sequential!Next
<1>5. ASSUME NEW c \in Consumers, ConsumerNext(c) \/ Misfortune(c),
             ~IncrementFetchAdd(c), ~ExchangeSucceeds(c)
      PROVE  UNCHANGED Sequential!tallyVars
  <2>1. ~LoseNodes(c) /\ ~StorePlain(c) /\ ~Crash(c)
    BY <1>1 DEF LoseNodes, StorePlain, Crash, Step, Inv, ThreadInv, Atomic
  <2>2. main' = main /\ UNCHANGED <<ready, result, doc, it, counts>>
    BY <1>5, <2>1 DEF ConsumerNext, Acquire, TestReady, Release, FinishSlice,
        LoadExpected, ExchangeFails, BeginLookup, EndLookup, LoadPlain,
        Misfortune, WakeSpuriously, ExchangeFailsSpuriously
  <2> QED BY <1>2, <2>2 DEF Published
<1>6. CASE Stopped \/ UNCHANGED vars
  BY <1>2, <1>6 DEF Stopped, vars, Published
<1> QED BY <1>3, <1>4, <1>5, <1>6 DEF Next

LEMMA SequentialStep ==
  ASSUME Inv, [Next]_vars
  PROVE  [Sequential!Next]_(Sequential!tallyVars)
BY SequentialAtomic, SequentialRelaxed

\* Whatever strategies the program may run with, a run with an atomic one is a sequential
\* count of each trial's text, and reports its sum (execute_all, count_words).
THEOREM ThreadsCountLikeOne == Spec => CountsLikeOneThread
<1> QED BY SequentialInit, SequentialStep, Invariance, PTL
        DEF Spec, CountsLikeOneThread, Sequential!Spec
=============================================================================
