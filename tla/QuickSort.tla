----------------------------- MODULE QuickSort -----------------------------
(***************************************************************************)
(* QuickSort (src/cppFriendsSort.cpp): partition around the value in the   *)
(* middle with two scans from both ends, then the left part, then the      *)
(* right part, recursively. todo is the call stack: the call that runs,    *)
(* and behind it the calls its callers have still to make. Array accesses  *)
(* use at(), which throws outside of the array.                            *)
(***************************************************************************)
EXTENDS Integers, Sequences

CONSTANTS
  MaxSize,  \* arrays have up to this many elements
  Values,   \* their elements
  NotYet    \* the result of a call that has not returned

ASSUME MaxSizeAssumption == MaxSize \in Nat
ASSUME ValuesAssumption == Values \subseteq Int
ASSUME NotYetAssumption == \A n \in 0 .. MaxSize : NotYet \notin [0 .. n - 1 -> Values]

VARIABLES
  size,   \* array.size()
  given,  \* the array before the call
  array,
  todo,   \* calls of quickSort, the running one first
  pivot,  \* of the running call, as l and r
  l, r,   \* the scanning positions
  depth,  \* the greatest depth returned so far
  pc      \* "call", "left" or "right" while scanning, "returned"

vars == <<size, given, array, todo, pivot, l, r, depth, pc>>

Positions == 0 .. size - 1
Calls == [left : Int, right : Int, depth : Int]

Larger(a, b) == IF a > b THEN a ELSE b
Smaller(a, b) == IF a < b THEN a ELSE b

-----------------------------------------------------------------------------
\* Mutated WholeArray: one position too many.
WholeArrayInclusive == [left |-> 0, right |-> size, depth |-> 1]

WholeArray == [left |-> 0, right |-> size - 1, depth |-> 1]

Init ==
  /\ size \in 0 .. MaxSize
  /\ given \in [Positions -> Values]
  /\ array = given
  /\ todo = IF size < 2 THEN <<>> ELSE <<WholeArray>>
  /\ pivot = NotYet
  /\ l = 0
  /\ r = 0
  /\ depth = 0
  /\ pc = "call"

Running == Head(todo)

\* A part of one element or none: the call returns its depth.
ReturnDepth ==
  /\ pc = "call"
  /\ todo # <<>>
  /\ Running.left >= Running.right
  /\ depth' = Larger(depth, Running.depth)
  /\ todo' = Tail(todo)
  /\ UNCHANGED <<size, given, array, pivot, l, r, pc>>

\* The pivot is copied: a swap may move it.
StartPartition ==
  /\ pc = "call"
  /\ todo # <<>>
  /\ Running.left < Running.right
  /\ pivot' = array[(Running.left + Running.right) \div 2]
  /\ l' = Running.left
  /\ r' = Running.right
  /\ pc' = "left"
  /\ UNCHANGED <<size, given, array, todo, depth>>

BelowPivot == l <= Running.right /\ array[l] < pivot
AbovePivot == Running.left <= r /\ array[r] > pivot

ScanLeft ==
  /\ pc = "left"
  /\ IF BelowPivot THEN l' = l + 1 /\ pc' = pc
                   ELSE l' = l /\ pc' = "right"
  /\ UNCHANGED <<size, given, array, todo, pivot, r, depth>>

ScanRight ==
  /\ pc = "right"
  /\ AbovePivot
  /\ r' = r - 1
  /\ UNCHANGED <<size, given, array, todo, pivot, l, depth, pc>>

\* Mutated Swap: two elements equal to the pivot are swapped for ever.
SwapAndStay ==
  /\ pc = "right"
  /\ ~AbovePivot
  /\ l < r
  /\ array' = [array EXCEPT ![l] = array[r], ![r] = array[l]]
  /\ pc' = "left"
  /\ UNCHANGED <<size, given, todo, pivot, l, r, depth>>

Swap ==
  /\ pc = "right"
  /\ ~AbovePivot
  /\ l < r
  /\ array' = [array EXCEPT ![l] = array[r], ![r] = array[l]]
  /\ l' = l + 1
  /\ r' = r - 1
  /\ pc' = "left"
  /\ UNCHANGED <<size, given, todo, pivot, depth>>

LeftPart ==
  [left |-> Running.left, right |-> Smaller(Running.right - 1, l - 1),
   depth |-> Running.depth + 1]

RightPart ==
  [left |-> Larger(Running.left + 1, r + 1), right |-> Running.right,
   depth |-> Running.depth + 1]

\* l and r have met: the call goes on with the left part, then the right one.
Recurse ==
  /\ pc = "right"
  /\ ~AbovePivot
  /\ l >= r
  /\ todo' = <<LeftPart, RightPart>> \o Tail(todo)
  /\ pc' = "call"
  /\ UNCHANGED <<size, given, array, pivot, l, r, depth>>

ReturnToCaller ==
  /\ pc = "call"
  /\ todo = <<>>
  /\ pc' = "returned"
  /\ UNCHANGED <<size, given, array, todo, pivot, l, r, depth>>

QuickSortStep ==
  \/ ReturnDepth
  \/ StartPartition
  \/ ScanLeft
  \/ ScanRight
  \/ Swap
  \/ Recurse
  \/ ReturnToCaller

Done == pc = "returned" /\ UNCHANGED vars

Next == QuickSortStep \/ Done

Spec == Init /\ [][Next]_vars

\* One thread, which the operating system runs.
FairSpec == Spec /\ WF_vars(QuickSortStep)

-----------------------------------------------------------------------------
\* Every access is within the array: a part is, and the scans run at most one position
\* beyond it. The call stack is never deeper than the array is long.
TypeOK ==
  /\ size \in 0 .. MaxSize
  /\ given \in [Positions -> Values]
  /\ array \in [Positions -> Values]
  /\ todo \in Seq(Calls)
  /\ \A i \in DOMAIN todo : todo[i].left \in 0 .. size /\ todo[i].right \in -1 .. size - 1
  /\ pc \in {"call", "left", "right", "returned"}
  /\ pc \in {"left", "right"} =>
       /\ todo # <<>>
       /\ Running.left < Running.right
       /\ pivot \in Values
       /\ l \in Running.left .. Running.right + 1
       /\ r \in Running.left - 1 .. Running.right
  /\ depth \in 0 .. size

\* quickSort puts the array in order, whatever it holds and however many of its elements
\* are equal, and it returns: neither a part nor a swap repeats itself for ever.
Sorted == INSTANCE Sorting WITH
  input <- given,
  output <- IF pc = "returned" THEN array ELSE NotYet

Sorts == Sorted!Spec /\ <>(pc = "returned")
=============================================================================
