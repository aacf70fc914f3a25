---------------------------- MODULE ThreadByRef ----------------------------
(***************************************************************************)
(* thread_by_ref/thread_by_ref.cpp: dispatch starts a thread for each      *)
(* processor with a lambda that knows where its result goes, joins them    *)
(* and collects the results. A thread may begin to run when the loop that  *)
(* has started it is long over.                                            *)
(***************************************************************************)
EXTENDS Integers

CONSTANTS
  MaxConcurrency,   \* hardware_concurrency() is up to this, or 0
  LoopCount,        \* setting.loop_count
  LowerRand, UpperRand,
  Unknown           \* a thread has not begun, dispatch has not returned

VARIABLES
  nThreads,
  results,  \* the array, which has an element more than there are threads
  i,        \* the loop variable of dispatch
  pc,       \* of dispatch
  result,   \* for each thread that is started the element it writes to
  loop,     \* and the iterations that are done
  counted,  \* it has counted an iteration, but not yet added its number
  returned

vars == <<nThreads, results, i, pc, result, loop, counted, returned>>

Indexes == 0 .. nThreads - 1

Init ==
  /\ nThreads \in 1 .. MaxConcurrency
  /\ results = [k \in 0 .. nThreads |-> [count |-> 0, sum |-> 0]]
  /\ i = 0
  /\ pc = "start"
  /\ result = [k \in Indexes |-> Unknown]
  /\ loop = [k \in Indexes |-> 0]
  /\ counted = [k \in Indexes |-> FALSE]
  /\ returned = Unknown

threads == <<result, loop, counted>>

Started(k) == k < i \/ pc # "start"
Finished(k) == loop[k] = LoopCount

StartThread ==
  /\ pc = "start"
  /\ i' = IF i + 1 < nThreads THEN i + 1 ELSE 0
  /\ pc' = IF i + 1 < nThreads THEN "start" ELSE "join"
  /\ UNCHANGED <<nThreads, results, threads, returned>>

\* Mutated Captured: the lambda captures the loop variable by reference.
CapturedByReference(k) == i

\* A reference to the element, which outlives the name it is captured by, or the array and
\* a copy of the loop variable: either names the element of the iteration.
Captured(k) == k

Begin(k) ==
  /\ Started(k)
  /\ result[k] = Unknown
  /\ result' = [result EXCEPT ![k] = Captured(k)]
  /\ UNCHANGED <<nThreads, results, i, pc, loop, counted, returned>>

\* ++result.count
CountLoop(k) ==
  /\ result[k] # Unknown
  /\ ~Finished(k)
  /\ ~counted[k]
  /\ results' = [results EXCEPT ![result[k]].count = @ + 1]
  /\ counted' = [counted EXCEPT ![k] = TRUE]
  /\ UNCHANGED <<nThreads, i, pc, result, loop, returned>>

\* result.sum += dist(engine)
AddRandom(k) ==
  /\ counted[k]
  /\ \E number \in LowerRand .. UpperRand :
       results' = [results EXCEPT ![result[k]].sum = @ + number]
  /\ counted' = [counted EXCEPT ![k] = FALSE]
  /\ loop' = [loop EXCEPT ![k] = @ + 1]
  /\ UNCHANGED <<nThreads, i, pc, result, returned>>

Join ==
  /\ pc = "join"
  /\ i < nThreads
  /\ Finished(i)
  /\ i' = i + 1
  /\ UNCHANGED <<nThreads, results, pc, threads, returned>>

Collect ==
  /\ pc = "join"
  /\ i = nThreads
  /\ returned' = [k \in Indexes |-> results[k]]
  /\ pc' = "returned"
  /\ UNCHANGED <<nThreads, results, i, threads>>

Step ==
  \/ StartThread \/ Join \/ Collect
  \/ \E k \in Indexes : Begin(k) \/ CountLoop(k) \/ AddRandom(k)

Ended == pc = "returned"

-----------------------------------------------------------------------------
\* However late a thread begins, dispatch returns the result of each one whole (test Ref of
\* TestDispatch, bounds of TestRunInThread), and no thread has written to another's.
OwnResults ==
  Ended =>
    /\ \A k \in Indexes :
         /\ returned[k].count = LoopCount
         /\ returned[k].sum \in LoopCount * LowerRand .. LoopCount * UpperRand
    /\ results[nThreads] = [count |-> 0, sum |-> 0]
=============================================================================
