-------------------------- MODULE SmallProgramsProofs --------------------------
(***************************************************************************)
(* The programs that fit in one module each. QuickSort stays within every  *)
(* array and sorts it, whatever its size and its elements. Then those that *)
(* MCSmallPrograms runs: the Julia set, the checker for ASCII, the chains  *)
(* of elements, the counters, the threads by reference and the river, for  *)
(* every number of rows, files, lines, searches, threads and iterations.   *)
(***************************************************************************)
EXTENDS QuickSort, MCSmallPrograms, SequenceTheorems, FunctionTheorems, FiniteSetTheorems,
        WellFoundedInduction, TLAPS

\* Where quickSort takes its pivot.
LEMMA Middle ==
  ASSUME NEW a \in Int, NEW b \in Int, a < b
  PROVE  (a + b) \div 2 \in a .. b
OBVIOUS

\* The call stack after Recurse: the two parts before the rest.
LEMMA TwoBeforeTail ==
  ASSUME NEW S, NEW s \in Seq(S), s # <<>>, NEW a \in S, NEW b \in S
  PROVE  LET t == <<a, b>> \o Tail(s)
         IN  /\ t \in Seq(S)
             /\ Len(t) = Len(s) + 1
             /\ t[1] = a
             /\ t[2] = b
             /\ \A i \in 3 .. Len(t) : i - 1 \in 2 .. Len(s) /\ t[i] = s[i - 1]
<1> DEFINE h == <<a, b>>
           u == Tail(s)
<1>1. h \in Seq(S) /\ Len(h) = 2 /\ h[1] = a /\ h[2] = b
  OBVIOUS
<1>2. u \in Seq(S) /\ Len(u) = Len(s) - 1 /\ Len(s) \in Nat \ {0}
  BY EmptySeq
<1>3. \A i \in 1 .. Len(u) : u[i] = s[i + 1]
  BY <1>2
<1>4. /\ h \o u \in Seq(S)
      /\ Len(h \o u) = Len(h) + Len(u)
      /\ \A i \in 1 .. Len(h) + Len(u) :
           (h \o u)[i] = IF i <= Len(h) THEN h[i] ELSE u[i - Len(h)]
  <2> HIDE DEF h, u
  <2> QED BY <1>1, <1>2, ConcatProperties
<1>5. /\ (h \o u)[1] = a
      /\ (h \o u)[2] = b
      /\ \A i \in 3 .. Len(s) + 1 : (h \o u)[i] = s[i - 1]
  <2> HIDE DEF h, u
  <2> QED BY <1>1, <1>2, <1>3, <1>4
<1> QED BY <1>1, <1>2, <1>4, <1>5

\* What is left of the stack when the running call returns.
LEMMA TailOfCalls ==
  ASSUME NEW S, NEW s \in Seq(S), s # <<>>
  PROVE  /\ Tail(s) \in Seq(S)
         /\ Len(s) \in Nat \ {0}
         /\ Head(s) = s[1]
         /\ Head(s) \in S
         /\ Len(Tail(s)) = Len(s) - 1
         /\ \A i \in 1 .. Len(s) - 1 : Tail(s)[i] = s[i + 1]
OBVIOUS

-----------------------------------------------------------------------------
\* A call on a part of n elements at depth d leaves room for n - 1 calls below it.
DepthLeft ==
  \A i \in DOMAIN todo :
    /\ todo[i].depth \in 1 .. size
    /\ todo[i].depth + (todo[i].right - todo[i].left) <= size

BoundInv == TypeOK /\ DepthLeft

LEMMA BoundInvInit == Init => BoundInv
<1> SUFFICES ASSUME Init PROVE BoundInv
  OBVIOUS
<1>0. size \in Nat /\ size \in 0 .. MaxSize
  BY MaxSizeAssumption DEF Init
<1>1. CASE size < 2
  BY <1>0, <1>1 DEF Init, BoundInv, TypeOK, DepthLeft, Positions, Running
<1>2. CASE ~(size < 2)
  <2>1. WholeArray \in Calls /\ todo = <<WholeArray>>
    BY <1>0, <1>2 DEF Init, WholeArray, Calls
  <2>2. todo \in Seq(Calls) /\ DOMAIN todo = {1} /\ todo[1] = WholeArray
    BY <2>1
  <2> QED
    BY <1>0, <1>2, <2>2 DEF Init, BoundInv, TypeOK, DepthLeft, Positions, WholeArray
<1> QED BY <1>1, <1>2

\* The calls of a nonempty stack, as the actions use them.
LEMMA RunningCall ==
  ASSUME BoundInv, todo # <<>>
  PROVE  /\ Len(todo) \in Nat \ {0}
         /\ DOMAIN todo = 1 .. Len(todo)
         /\ Running = todo[1]
         /\ Running \in Calls
         /\ Running.left \in 0 .. size
         /\ Running.right \in -1 .. size - 1
         /\ Running.depth \in 1 .. size
         /\ Running.depth + (Running.right - Running.left) <= size
         /\ size \in Nat
<1>1. todo \in Seq(Calls) /\ size \in Nat
  BY MaxSizeAssumption DEF BoundInv, TypeOK
<1>2. Len(todo) \in Nat \ {0} /\ DOMAIN todo = 1 .. Len(todo) /\ Running = todo[1] /\ Running \in Calls
  BY <1>1, TailOfCalls DEF Running
<1> QED BY <1>1, <1>2 DEF BoundInv, TypeOK, DepthLeft

\* Where a running partition stands.
LEMMA Scanning ==
  ASSUME BoundInv, pc \in {"left", "right"}
  PROVE  /\ todo # <<>>
         /\ Running.left < Running.right
         /\ pivot \in Values
         /\ l \in Running.left .. Running.right + 1
         /\ r \in Running.left - 1 .. Running.right
         /\ Running.left \in 0 .. size
         /\ Running.right \in -1 .. size - 1
         /\ size \in Nat
<1>1. /\ todo # <<>>
      /\ Running.left < Running.right
      /\ pivot \in Values
      /\ l \in Running.left .. Running.right + 1
      /\ r \in Running.left - 1 .. Running.right
  BY DEF BoundInv, TypeOK
<1> QED BY <1>1, RunningCall

\* The parts are shorter than what they are parts of, and within it.
LEMMA PartsWithin ==
  ASSUME BoundInv, pc = "right"
  PROVE  /\ LeftPart \in Calls /\ RightPart \in Calls
         /\ LeftPart.left \in 0 .. size /\ LeftPart.right \in -1 .. size - 1
         /\ RightPart.left \in 0 .. size /\ RightPart.right \in -1 .. size - 1
         /\ LeftPart.depth \in 1 .. size /\ RightPart.depth \in 1 .. size
         /\ LeftPart.depth + (LeftPart.right - LeftPart.left) <= size
         /\ RightPart.depth + (RightPart.right - RightPart.left) <= size
<1> DEFINE L == Running.left
           R == Running.right
           d == Running.depth
           a == Smaller(R - 1, l - 1)
           b == Larger(L + 1, r + 1)
<1>1. /\ L < R /\ l \in L .. R + 1 /\ r \in L - 1 .. R
      /\ L \in 0 .. size /\ R \in -1 .. size - 1
      /\ d \in 1 .. size /\ d + (R - L) <= size
      /\ size \in Nat
  BY Scanning, RunningCall
<1>2. a \in L - 1 .. R - 1 /\ b \in L + 1 .. R + 1
  <2> HIDE DEF L, R
  <2> QED BY <1>1 DEF Smaller, Larger
<1>3. /\ LeftPart = [left |-> L, right |-> a, depth |-> d + 1]
      /\ RightPart = [left |-> b, right |-> R, depth |-> d + 1]
  BY DEF LeftPart, RightPart
<1> HIDE DEF L, R, d, a, b
<1> QED BY <1>1, <1>2, <1>3 DEF Calls

\* A step of the partition leaves the stack alone.
LEMMA SameCalls ==
  ASSUME BoundInv, todo # <<>>, Running.left < Running.right,
         UNCHANGED <<size, given, todo, depth>>,
         array' \in [Positions -> Values],
         pc' \in {"left", "right"},
         pivot' \in Values,
         l' \in Running.left .. Running.right + 1,
         r' \in Running.left - 1 .. Running.right
  PROVE  BoundInv'
<1>1. Running' = Running /\ Positions' = Positions /\ DepthLeft'
  BY DEF Running, Positions, BoundInv, DepthLeft
<1>2. /\ size' \in 0 .. MaxSize
      /\ given' \in [Positions -> Values]
      /\ todo' \in Seq(Calls)
      /\ depth' \in 0 .. size'
  BY DEF BoundInv, TypeOK
<1>3. \A i \in DOMAIN todo' : todo'[i].left \in 0 .. size' /\ todo'[i].right \in -1 .. size' - 1
  BY DEF BoundInv, TypeOK
<1>4. todo' # <<>> /\ Running'.left < Running'.right
  BY <1>1
<1> QED BY <1>1, <1>2, <1>3, <1>4 DEF BoundInv, TypeOK

LEMMA BoundInvStep == BoundInv /\ [Next]_vars => BoundInv'
<1> SUFFICES ASSUME BoundInv, [Next]_vars PROVE BoundInv'
  OBVIOUS
<1> USE MaxSizeAssumption, ValuesAssumption
<1>0. size \in Nat /\ Positions = 0 .. size - 1
  BY DEF BoundInv, TypeOK, Positions
<1>1. CASE ReturnDepth
  <2>1. /\ todo' \in Seq(Calls)
        /\ DOMAIN todo' = 1 .. Len(todo) - 1
        /\ \A i \in 1 .. Len(todo) - 1 : todo'[i] = todo[i + 1] /\ i + 1 \in DOMAIN todo
    BY <1>1, TailOfCalls, RunningCall DEF ReturnDepth, BoundInv, TypeOK
  <2>2. depth' \in 0 .. size
    BY <1>1, RunningCall, <1>0 DEF ReturnDepth, Larger, BoundInv, TypeOK
  <2>3. DepthLeft'
    BY <1>1, <2>1 DEF ReturnDepth, BoundInv, DepthLeft
  <2> QED BY <1>1, <2>1, <2>2, <2>3 DEF ReturnDepth, BoundInv, TypeOK, Positions
<1>2. CASE StartPartition
  <2>0. /\ Running.left \in 0 .. size /\ Running.right \in -1 .. size - 1
        /\ Running.left < Running.right
    BY <1>2, RunningCall DEF StartPartition
  <2>1. (Running.left + Running.right) \div 2 \in Positions
    <3>1. (Running.left + Running.right) \div 2 \in Running.left .. Running.right
      BY <2>0, Middle
    <3> QED BY <1>0, <2>0, <3>1
  <2>2. pivot' \in Values
    BY <1>2, <2>1 DEF StartPartition, BoundInv, TypeOK
  <2>3. l' \in Running.left .. Running.right + 1 /\ r' \in Running.left - 1 .. Running.right
    BY <1>2, RunningCall DEF StartPartition, Calls
  <2> QED BY <1>2, <2>2, <2>3, SameCalls DEF StartPartition, BoundInv, TypeOK
<1>3. CASE ScanLeft
  <2>1. l' \in Running.left .. Running.right + 1 /\ r' \in Running.left - 1 .. Running.right
    <3>1. /\ l \in Running.left .. Running.right + 1 /\ r \in Running.left - 1 .. Running.right
          /\ Running.left \in Int /\ Running.right \in Int
      BY <1>3, Scanning DEF ScanLeft
    <3> QED BY <1>3, <3>1 DEF ScanLeft, BelowPivot
  <2> QED BY <1>3, <2>1, Scanning, SameCalls DEF ScanLeft, BoundInv, TypeOK
<1>4. CASE ScanRight
  <2>1. l' \in Running.left .. Running.right + 1 /\ r' \in Running.left - 1 .. Running.right
    <3>1. /\ l \in Running.left .. Running.right + 1 /\ r \in Running.left - 1 .. Running.right
          /\ Running.left \in Int /\ Running.right \in Int
      BY <1>4, Scanning DEF ScanRight
    <3> QED BY <1>4, <3>1 DEF ScanRight, AbovePivot
  <2> QED BY <1>4, <2>1, Scanning, SameCalls DEF ScanRight, BoundInv, TypeOK
<1>5. CASE Swap
  <2>1. l' \in Running.left .. Running.right + 1 /\ r' \in Running.left - 1 .. Running.right
    <3>1. /\ l \in Running.left .. Running.right + 1 /\ r \in Running.left - 1 .. Running.right
          /\ Running.left \in Int /\ Running.right \in Int
      BY <1>5, Scanning DEF Swap
    <3> QED BY <1>5, <3>1 DEF Swap
  <2>2. l \in Positions /\ r \in Positions
    <3>1. /\ l \in Running.left .. Running.right + 1 /\ r \in Running.left - 1 .. Running.right
          /\ Running.left \in 0 .. size /\ Running.right \in -1 .. size - 1 /\ l < r
      BY <1>5, Scanning DEF Swap
    <3> QED BY <1>0, <3>1
  <2>3. array' \in [Positions -> Values]
    BY <1>5, <2>2 DEF Swap, BoundInv, TypeOK
  <2> QED BY <1>5, <2>1, <2>3, Scanning, SameCalls DEF Swap, BoundInv, TypeOK
<1>6. CASE Recurse
  <2>1. LeftPart \in Calls /\ RightPart \in Calls
    BY <1>6, PartsWithin DEF Recurse
  <2>2. /\ todo' \in Seq(Calls)
        /\ Len(todo') = Len(todo) + 1
        /\ todo'[1] = LeftPart
        /\ todo'[2] = RightPart
        /\ \A i \in 3 .. Len(todo') : i - 1 \in 2 .. Len(todo) /\ todo'[i] = todo[i - 1]
    <3>1. todo' = <<LeftPart, RightPart>> \o Tail(todo) /\ todo \in Seq(Calls) /\ todo # <<>>
      BY <1>6, Scanning DEF Recurse, BoundInv, TypeOK
    <3> HIDE DEF LeftPart, RightPart
    <3> QED BY <2>1, <3>1, TwoBeforeTail
  <2>3. /\ LeftPart.left \in 0 .. size /\ LeftPart.right \in -1 .. size - 1
        /\ RightPart.left \in 0 .. size /\ RightPart.right \in -1 .. size - 1
        /\ LeftPart.depth \in 1 .. size /\ RightPart.depth \in 1 .. size
        /\ LeftPart.depth + (LeftPart.right - LeftPart.left) <= size
        /\ RightPart.depth + (RightPart.right - RightPart.left) <= size
    BY <1>6, PartsWithin DEF Recurse
  <2>4. /\ DOMAIN todo' = 1 .. Len(todo) + 1
        /\ DOMAIN todo = 1 .. Len(todo)
        /\ Len(todo) \in Nat \ {0}
    BY <1>6, <2>2, Scanning, RunningCall DEF Recurse
  <2>5. ASSUME NEW i \in DOMAIN todo'
        PROVE  \/ i = 1
               \/ i = 2
               \/ i - 1 \in DOMAIN todo /\ todo'[i] = todo[i - 1]
    BY <2>2, <2>4
  <2>6. DepthLeft'
    BY <1>6, <2>2, <2>3, <2>5 DEF Recurse, BoundInv, DepthLeft
  <2>7. \A i \in DOMAIN todo' : todo'[i].left \in 0 .. size' /\ todo'[i].right \in -1 .. size' - 1
    BY <1>6, <2>2, <2>3, <2>5 DEF Recurse, BoundInv, TypeOK
  <2> QED BY <1>6, <2>2, <2>6, <2>7 DEF Recurse, BoundInv, TypeOK, Positions
<1>7. CASE ReturnToCaller
  BY <1>7 DEF ReturnToCaller, BoundInv, TypeOK, DepthLeft, Positions, Running
<1>8. CASE UNCHANGED vars
  BY <1>8 DEF vars, BoundInv, TypeOK, DepthLeft, Positions, Running
<1> QED BY <1>1, <1>2, <1>3, <1>4, <1>5, <1>6, <1>7, <1>8 DEF Next, QuickSortStep, Done

\* Every array access of quickSort is within the array, and the stack is no deeper
\* than the array is long (src/cppFriendsSort.cpp, quickSort).
THEOREM TypeCorrect == Spec => []TypeOK
<1>1. BoundInv => TypeOK
  BY DEF BoundInv
<1> QED BY <1>1, BoundInvInit, BoundInvStep, PTL DEF Spec

-----------------------------------------------------------------------------
\* Calls further down the stack are for parts further right.
PartsInOrder ==
  \A i, j \in DOMAIN todo : i < j => todo[i].right < todo[j].left

\* Two positions are in order unless a call has still to sort them, both.
Settled ==
  \A x, y \in Positions :
    x < y => \/ array[x] <= array[y]
             \/ \E i \in DOMAIN todo : todo[i].left <= x /\ y <= todo[i].right

\* The scans leave small values behind them on the left and great ones on the right, and
\* each has a value ahead that stops it before it leaves the part or what the other has
\* passed.
Partitioned ==
  pc \in {"left", "right"} =>
    /\ \A k \in Running.left .. l - 1 : array[k] <= pivot
    /\ \A k \in r + 1 .. Running.right : array[k] >= pivot
    /\ \E k \in Running.left .. r : k >= l - 1 /\ array[k] <= pivot
    /\ pc = "left" => \E k \in l .. Running.right : k <= r + 1 /\ array[k] >= pivot
    /\ pc = "right" => l <= Running.right /\ array[l] >= pivot

Permuted == Sorted!IsPermutation(array, given)

OrderInv ==
  /\ PartsInOrder
  /\ Settled
  /\ Partitioned
  /\ Permuted
  /\ pc = "returned" => todo = <<>>

-----------------------------------------------------------------------------
LEMMA IdentityPermutes ==
  ASSUME NEW D, NEW S, NEW a \in [D -> S]
  PROVE  Sorted!IsPermutation(a, a)
<1> DEFINE id == [k \in D |-> k]
<1>1. id \in Sorted!Permutations(D)
  BY DEF Sorted!Permutations
<1>2. a = [k \in D |-> a[id[k]]] /\ DOMAIN a = D
  OBVIOUS
<1> QED BY <1>1, <1>2 DEF Sorted!IsPermutation

LEMMA SwapPermutes ==
  ASSUME NEW D, NEW S, NEW a \in [D -> S], NEW b \in [D -> S], NEW i \in D, NEW j \in D,
         Sorted!IsPermutation(a, b)
  PROVE  Sorted!IsPermutation([a EXCEPT ![i] = a[j], ![j] = a[i]], b)
<1> DEFINE c == [a EXCEPT ![i] = a[j], ![j] = a[i]]
<1>0. DOMAIN b = D
  OBVIOUS
<1>1. PICK p \in Sorted!Permutations(D) : a = [k \in D |-> b[p[k]]]
  BY <1>0 DEF Sorted!IsPermutation
<1> DEFINE q == [p EXCEPT ![i] = p[j], ![j] = p[i]]
<1>2. p \in [D -> D] /\ \A x, y \in D : p[x] = p[y] => x = y
  BY DEF Sorted!Permutations
<1>3. q \in [D -> D]
  BY <1>2
<1>4. \A x, y \in D : q[x] = q[y] => x = y
  BY <1>2
<1>5. q \in Sorted!Permutations(D)
  BY <1>3, <1>4 DEF Sorted!Permutations
<1>6. c = [k \in D |-> b[q[k]]]
  BY <1>1, <1>2
<1> HIDE DEF c, q
<1>7. Sorted!IsPermutation(c, b)
  BY <1>0, <1>5, <1>6 DEF Sorted!IsPermutation
<1> QED BY <1>7 DEF c

LEMMA OrderInvInit == Init => OrderInv
<1> SUFFICES ASSUME Init PROVE OrderInv
  OBVIOUS
<1>0. size \in Nat /\ array = given /\ given \in [Positions -> Values] /\ pc = "call"
  BY MaxSizeAssumption DEF Init
<1>1. Permuted
  BY <1>0, IdentityPermutes DEF Permuted
<1>2. CASE size < 2
  BY <1>0, <1>1, <1>2 DEF Init, OrderInv, PartsInOrder, Settled, Partitioned, Positions
<1>3. CASE ~(size < 2)
  <2>1. todo = <<WholeArray>>
    BY <1>3 DEF Init
  <2>2. DOMAIN todo = {1} /\ todo[1].left = 0 /\ todo[1].right = size - 1
    BY <2>1 DEF WholeArray
  <2> QED
    BY <1>0, <1>1, <2>2 DEF OrderInv, PartsInOrder, Settled, Partitioned, Positions
<1> QED BY <1>2, <1>3

\* A step that leaves array and stack alone has only to keep the partition going.
LEMMA SameOrder ==
  ASSUME OrderInv, UNCHANGED <<size, given, array, todo>>, Partitioned',
         pc' = "returned" => todo = <<>>
  PROVE  OrderInv'
<1>1. PartsInOrder' /\ Settled' /\ Permuted'
  BY DEF OrderInv, PartsInOrder, Settled, Permuted, Positions
<1> QED BY <1>1 DEF OrderInv

\* The values of the array are integers.
LEMMA IntegerArrays ==
  ASSUME BoundInv
  PROVE  array \in [Positions -> Int] /\ given \in [Positions -> Int]
BY ValuesAssumption DEF BoundInv, TypeOK

LEMMA PartOfArray ==
  ASSUME BoundInv, todo # <<>>
  PROVE  \A k \in Running.left .. Running.right : k \in Positions /\ array[k] \in Int
<1>1. \A k \in Running.left .. Running.right : k \in Positions
  BY RunningCall DEF Positions
<1> QED BY <1>1, IntegerArrays

LEMMA ReturnKeepsOrder == BoundInv /\ OrderInv /\ ReturnDepth => OrderInv'
<1> SUFFICES ASSUME BoundInv, OrderInv, ReturnDepth PROVE OrderInv'
  OBVIOUS
<1>1. /\ DOMAIN todo' = 1 .. Len(todo) - 1
      /\ DOMAIN todo = 1 .. Len(todo)
      /\ Len(todo) \in Nat \ {0}
      /\ \A i \in 1 .. Len(todo) - 1 : todo'[i] = todo[i + 1]
      /\ Running = todo[1]
      /\ Running.left \in Int /\ Running.right \in Int
  BY TailOfCalls, RunningCall DEF ReturnDepth, BoundInv, TypeOK
<1>2. PartsInOrder'
  <2> SUFFICES ASSUME NEW i \in DOMAIN todo', NEW j \in DOMAIN todo', i < j
               PROVE  todo'[i].right < todo'[j].left
    BY DEF PartsInOrder
  <2>1. /\ i + 1 \in DOMAIN todo /\ j + 1 \in DOMAIN todo /\ i + 1 < j + 1
        /\ todo'[i] = todo[i + 1] /\ todo'[j] = todo[j + 1]
    BY <1>1
  <2> QED BY <2>1 DEF OrderInv, PartsInOrder
<1>3. ASSUME NEW x \in Positions, NEW y \in Positions, x < y, ~(array[x] <= array[y])
      PROVE  \E i \in DOMAIN todo' : todo'[i].left <= x /\ y <= todo'[i].right
  <2>1. PICK i \in DOMAIN todo : todo[i].left <= x /\ y <= todo[i].right
    BY <1>3 DEF OrderInv, Settled
  <2>2. i # 1
    BY <1>1, <1>3, <2>1 DEF ReturnDepth, Positions
  <2>3. i - 1 \in DOMAIN todo' /\ todo'[i - 1] = todo[i]
    BY <1>1, <2>2
  <2> QED BY <2>1, <2>3
<1>4. Settled'
  BY <1>3 DEF ReturnDepth, Settled, Positions
<1> QED BY <1>2, <1>4 DEF ReturnDepth, OrderInv, Partitioned, Permuted

LEMMA StartKeepsOrder == BoundInv /\ OrderInv /\ StartPartition => OrderInv'
<1> SUFFICES ASSUME BoundInv, OrderInv, StartPartition PROVE OrderInv'
  OBVIOUS
<1> DEFINE middle == (Running.left + Running.right) \div 2
<1>1. /\ Running.left \in 0 .. size /\ Running.right \in -1 .. size - 1
      /\ Running.left < Running.right /\ size \in Nat
  BY RunningCall DEF StartPartition
<1>2. middle \in Running.left .. Running.right
  BY <1>1, Middle
<1>3. array[middle] \in Int
  BY <1>2, PartOfArray DEF StartPartition
<1>4. /\ Running' = Running /\ array' = array /\ pc' = "left"
      /\ l' = Running.left /\ r' = Running.right /\ pivot' = array[middle]
  BY DEF StartPartition, Running
<1>5. Partitioned'
  <2> HIDE DEF middle
  <2>1. middle >= l' - 1 /\ middle <= r' + 1 /\ array'[middle] <= pivot' /\ array'[middle] >= pivot'
    BY <1>1, <1>2, <1>3, <1>4
  <2> QED BY <1>1, <1>2, <1>4, <2>1 DEF Partitioned
<1> QED BY <1>5, SameOrder DEF StartPartition

LEMMA ScanLeftKeepsOrder == BoundInv /\ OrderInv /\ ScanLeft => OrderInv'
<1> SUFFICES ASSUME BoundInv, OrderInv, ScanLeft PROVE OrderInv'
  OBVIOUS
<1> DEFINE L == Running.left
           R == Running.right
<1>1. /\ L \in Int /\ R \in Int /\ L < R /\ l \in L .. R + 1 /\ r \in L - 1 .. R
      /\ pivot \in Int /\ pc = "left"
      /\ \A k \in L .. R : k \in Positions /\ array[k] \in Int
  <2>1. pc = "left"
    BY DEF ScanLeft
  <2>2. pivot \in Int /\ \A k \in L .. R : k \in Positions /\ array[k] \in Int
    BY <2>1, Scanning, PartOfArray, ValuesAssumption
  <2> QED BY <2>1, <2>2, Scanning
<1>2. Running' = Running /\ array' = array /\ r' = r /\ pivot' = pivot
  BY DEF ScanLeft, Running
<1>3. /\ \A k \in L .. l - 1 : array[k] <= pivot
      /\ \A k \in r + 1 .. R : array[k] >= pivot
  BY <1>1 DEF OrderInv, Partitioned
<1>4. PICK small \in L .. r : small >= l - 1 /\ array[small] <= pivot
  BY <1>1 DEF OrderInv, Partitioned
<1>5. PICK great \in l .. R : great <= r + 1 /\ array[great] >= pivot
  BY <1>1 DEF OrderInv, Partitioned
<1>6. CASE BelowPivot
  <2>1. l' = l + 1 /\ pc' = "left" /\ array[l] < pivot /\ l <= R
    BY <1>1, <1>6 DEF ScanLeft, BelowPivot
  <2>2. great \in l + 1 .. R /\ l <= r
    BY <1>1, <1>3, <1>5, <2>1
  <2>3. \A k \in L .. l : array[k] <= pivot
    BY <1>1, <1>3, <2>1
  <2>4. l \in L .. r /\ l >= l' - 1 /\ array[l] <= pivot
    BY <1>1, <2>1, <2>2
  <2>5. Partitioned'
    BY <1>1, <1>2, <1>3, <1>5, <2>1, <2>2, <2>3, <2>4 DEF Partitioned
  <2> QED BY <2>1, <2>5, SameOrder DEF ScanLeft
<1>7. CASE ~BelowPivot
  <2>1. l' = l /\ pc' = "right" /\ ~(l <= R /\ array[l] < pivot)
    BY <1>7 DEF ScanLeft, BelowPivot
  <2>2. l <= R /\ array[l] >= pivot
    BY <1>1, <1>5, <2>1
  <2>3. Partitioned'
    BY <1>1, <1>2, <1>3, <1>4, <2>1, <2>2 DEF Partitioned
  <2> QED BY <2>1, <2>3, SameOrder DEF ScanLeft
<1> QED BY <1>6, <1>7

LEMMA ScanRightKeepsOrder == BoundInv /\ OrderInv /\ ScanRight => OrderInv'
<1> SUFFICES ASSUME BoundInv, OrderInv, ScanRight PROVE OrderInv'
  OBVIOUS
<1> DEFINE L == Running.left
           R == Running.right
<1>1. /\ L \in Int /\ R \in Int /\ L < R /\ l \in L .. R + 1 /\ r \in L - 1 .. R
      /\ pivot \in Int /\ pc = "right" /\ pc' = "right" /\ l' = l /\ r' = r - 1
      /\ \A k \in L .. R : k \in Positions /\ array[k] \in Int
  <2>1. pc = "right" /\ pc' = "right" /\ l' = l /\ r' = r - 1
    BY DEF ScanRight
  <2>2. pivot \in Int /\ \A k \in L .. R : k \in Positions /\ array[k] \in Int
    BY <2>1, Scanning, PartOfArray, ValuesAssumption
  <2> QED BY <2>1, <2>2, Scanning
<1>2. Running' = Running /\ array' = array /\ pivot' = pivot /\ L <= r /\ array[r] > pivot
  BY DEF ScanRight, AbovePivot, Running
<1>3. /\ \A k \in L .. l - 1 : array[k] <= pivot
      /\ \A k \in r + 1 .. R : array[k] >= pivot
      /\ l <= R /\ array[l] >= pivot
  BY <1>1 DEF OrderInv, Partitioned
<1>4. PICK small \in L .. r : small >= l - 1 /\ array[small] <= pivot
  BY <1>1 DEF OrderInv, Partitioned
<1>5. small \in L .. r - 1
  BY <1>1, <1>2, <1>4
<1>6. \A k \in r .. R : array[k] >= pivot
  BY <1>1, <1>2, <1>3
<1>7. Partitioned'
  BY <1>1, <1>2, <1>3, <1>4, <1>5, <1>6 DEF Partitioned
<1> QED BY <1>1, <1>7, SameOrder DEF ScanRight

LEMMA SwapKeepsOrder == BoundInv /\ OrderInv /\ Swap => OrderInv'
<1> SUFFICES ASSUME BoundInv, OrderInv, Swap PROVE OrderInv'
  OBVIOUS
<1> DEFINE L == Running.left
           R == Running.right
<1>1. /\ L \in Int /\ R \in Int /\ L < R /\ l \in L .. R + 1 /\ r \in L - 1 .. R
      /\ pivot \in Int /\ pc = "right" /\ l < r
      /\ \A k \in L .. R : k \in Positions /\ array[k] \in Int
      /\ size \in Nat
  BY Scanning, PartOfArray, ValuesAssumption DEF Swap
<1>2. /\ Running' = Running /\ pivot' = pivot /\ pc' = "left" /\ l' = l + 1 /\ r' = r - 1
      /\ todo' = todo /\ Positions' = Positions
  BY DEF Swap, Running, Positions
<1>3. /\ \A k \in L .. l - 1 : array[k] <= pivot
      /\ \A k \in r + 1 .. R : array[k] >= pivot
      /\ l <= R /\ array[l] >= pivot
      /\ L <= r /\ array[r] <= pivot
  <2>1. /\ \A k \in L .. l - 1 : array[k] <= pivot
        /\ \A k \in r + 1 .. R : array[k] >= pivot
        /\ l <= R /\ array[l] >= pivot
        /\ \E k \in L .. r : k >= l - 1 /\ array[k] <= pivot
    BY <1>1 DEF OrderInv, Partitioned
  <2>2. L <= r /\ array[r] \in Int
    BY <1>1, <2>1
  <2> QED BY <1>1, <2>1, <2>2 DEF Swap, AbovePivot
<1>4. /\ l \in L .. R /\ r \in L .. R /\ l # r
      /\ array' = [array EXCEPT ![l] = array[r], ![r] = array[l]]
      /\ array \in [Positions -> Int] /\ given \in [Positions -> Int]
  BY <1>1, <1>3, IntegerArrays DEF Swap
<1>5. /\ array'[l] = array[r] /\ array'[r] = array[l]
      /\ \A k \in Positions : k # l /\ k # r => array'[k] = array[k]
      /\ l \in Positions /\ r \in Positions
  BY <1>1, <1>4
<1>6. Permuted'
  <2>1. Sorted!IsPermutation(array, given) /\ given' = given
    BY DEF OrderInv, Permuted, Swap
  <2>2. Sorted!IsPermutation([array EXCEPT ![l] = array[r], ![r] = array[l]], given)
    BY <1>4, <1>5, <2>1, SwapPermutes
  <2> QED BY <1>4, <2>1, <2>2 DEF Permuted
<1>7. Partitioned'
  <2>1. \A k \in L .. l : array'[k] <= pivot
    BY <1>1, <1>3, <1>4, <1>5
  <2>2. \A k \in r .. R : array'[k] >= pivot
    BY <1>1, <1>3, <1>4, <1>5
  <2>3. l \in L .. r - 1 /\ l >= l' - 1 /\ array'[l] <= pivot
    BY <1>1, <1>2, <2>1
  <2>4. r \in l + 1 .. R /\ r <= r' + 1 /\ array'[r] >= pivot
    BY <1>1, <1>2, <2>2
  <2> QED BY <1>1, <1>2, <2>1, <2>2, <2>3, <2>4 DEF Partitioned
<1>8. Settled'
  <2> SUFFICES ASSUME NEW x \in Positions, NEW y \in Positions, x < y,
                      ~\E i \in DOMAIN todo : todo[i].left <= x /\ y <= todo[i].right
               PROVE  array'[x] <= array'[y]
    BY <1>2 DEF Settled
  <2>0. /\ x \in Int /\ y \in Int
        /\ 1 \in DOMAIN todo /\ todo[1] = Running
        /\ \A i \in DOMAIN todo : todo[i].left \in Int /\ todo[i].right \in Int
        /\ \A i \in DOMAIN todo : i # 1 => R < todo[i].left
    <3>1. 1 \in DOMAIN todo /\ todo[1] = Running /\ DOMAIN todo = 1 .. Len(todo) /\ Len(todo) \in Nat
      BY Scanning, RunningCall DEF Swap
    <3>2. \A i \in DOMAIN todo : todo[i].left \in Int /\ todo[i].right \in Int
      BY <1>1 DEF BoundInv, TypeOK
    <3>3. \A i \in DOMAIN todo : i # 1 => R < todo[i].left
      BY <3>1 DEF OrderInv, PartsInOrder
    <3> QED BY <1>1, <3>1, <3>2, <3>3 DEF Positions
  \* Whatever the swap brings to a position of the part was in the part before.
  <2>1. \A k \in L .. R : \E m \in L .. R : array'[k] = array[m]
    BY <1>1, <1>4, <1>5
  <2>2. CASE x \in L .. R
    <3>1. y > R
      BY <1>1, <2>0, <2>2
    <3>2. PICK m \in L .. R : array'[x] = array[m]
      BY <2>1, <2>2
    <3>3. m \in Positions /\ m < y
      BY <1>1, <2>0, <3>1
    <3>4. ~\E i \in DOMAIN todo : todo[i].left <= m /\ y <= todo[i].right
      BY <1>1, <2>0, <3>1
    <3>5. array[m] <= array[y]
      BY <3>3, <3>4 DEF OrderInv, Settled
    <3>6. array'[y] = array[y]
      BY <1>1, <1>4, <1>5, <2>0, <3>1
    <3> QED BY <3>2, <3>5, <3>6
  <2>3. CASE x \notin L .. R /\ y \in L .. R
    <3>1. x < L
      BY <1>1, <2>0, <2>3
    <3>2. PICK m \in L .. R : array'[y] = array[m]
      BY <2>1, <2>3
    <3>3. m \in Positions /\ x < m
      BY <1>1, <2>0, <3>1
    <3>4. ~\E i \in DOMAIN todo : todo[i].left <= x /\ m <= todo[i].right
      BY <1>1, <2>0, <3>1
    <3>5. array[x] <= array[m]
      BY <3>3, <3>4 DEF OrderInv, Settled
    <3>6. array'[x] = array[x]
      BY <1>1, <1>4, <1>5, <2>0, <3>1
    <3> QED BY <3>2, <3>5, <3>6
  <2>4. CASE x \notin L .. R /\ y \notin L .. R
    <3>1. array'[x] = array[x] /\ array'[y] = array[y]
      BY <1>4, <1>5, <2>4
    <3> QED BY <3>1 DEF OrderInv, Settled
  <2> QED BY <2>2, <2>3, <2>4
<1> QED BY <1>2, <1>6, <1>7, <1>8 DEF OrderInv, PartsInOrder

LEMMA RecurseKeepsOrder == BoundInv /\ OrderInv /\ Recurse => OrderInv'
<1> SUFFICES ASSUME BoundInv, OrderInv, Recurse PROVE OrderInv'
  OBVIOUS
<1> DEFINE L == Running.left
           R == Running.right
<1>1. /\ L \in Int /\ R \in Int /\ L < R /\ l \in L .. R + 1 /\ r \in L - 1 .. R
      /\ pivot \in Int /\ pc = "right" /\ l >= r
      /\ \A k \in L .. R : k \in Positions /\ array[k] \in Int
  <2>1. pc = "right" /\ l >= r
    BY DEF Recurse
  <2>2. pivot \in Int /\ \A k \in L .. R : k \in Positions /\ array[k] \in Int
    BY <2>1, Scanning, PartOfArray, ValuesAssumption
  <2> QED BY <2>1, <2>2, Scanning
\* The scans have met: all values up to r are small, all from l on are great.
<1>2. /\ \A k \in L .. l - 1 : array[k] <= pivot
      /\ \A k \in r + 1 .. R : array[k] >= pivot
      /\ l <= R /\ array[l] >= pivot
      /\ L <= r /\ array[r] <= pivot
      /\ l <= r + 1
  <2>1. /\ \A k \in L .. l - 1 : array[k] <= pivot
        /\ \A k \in r + 1 .. R : array[k] >= pivot
        /\ l <= R /\ array[l] >= pivot
        /\ \E k \in L .. r : k >= l - 1 /\ array[k] <= pivot
    BY <1>1 DEF OrderInv, Partitioned
  <2>2. L <= r /\ l <= r + 1 /\ array[r] \in Int
    BY <1>1, <2>1
  <2> QED BY <1>1, <2>1, <2>2 DEF Recurse, AbovePivot
<1>3. /\ LeftPart.left = L /\ LeftPart.right = l - 1
      /\ RightPart.left = r + 1 /\ RightPart.right = R
  BY <1>1, <1>2 DEF LeftPart, RightPart, Smaller, Larger
<1>4. /\ todo \in Seq(Calls) /\ todo # <<>>
      /\ todo[1] = Running
      /\ DOMAIN todo = 1 .. Len(todo)
      /\ Len(todo) \in Nat \ {0}
      /\ \A i \in DOMAIN todo : todo[i].left \in Int /\ todo[i].right \in Int
  <2>1. todo # <<>>
    BY <1>1, Scanning
  <2> QED BY <2>1, RunningCall DEF BoundInv, TypeOK
<1>5. /\ todo'[1] = LeftPart
      /\ todo'[2] = RightPart
      /\ DOMAIN todo' = 1 .. Len(todo) + 1
      /\ \A i \in 3 .. Len(todo) + 1 : i - 1 \in DOMAIN todo /\ todo'[i] = todo[i - 1]
  <2>1. LeftPart \in Calls /\ RightPart \in Calls
    BY <1>1, PartsWithin
  <2>2. todo' = <<LeftPart, RightPart>> \o Tail(todo)
    BY DEF Recurse
  <2> HIDE DEF LeftPart, RightPart
  <2> QED BY <1>4, <2>1, <2>2, TwoBeforeTail
<1> HIDE DEF LeftPart, RightPart
<1>6. \A i \in DOMAIN todo : i > 1 => R < todo[i].left
  BY <1>4 DEF OrderInv, PartsInOrder
<1>7. PartsInOrder'
  <2> SUFFICES ASSUME NEW i \in DOMAIN todo', NEW j \in DOMAIN todo', i < j
               PROVE  todo'[i].right < todo'[j].left
    BY DEF PartsInOrder
  <2>1. CASE i = 1 /\ j = 2
    BY <1>1, <1>2, <1>3, <1>5, <2>1
  <2>2. CASE i \in {1, 2} /\ j > 2
    <3>1. j - 1 \in DOMAIN todo /\ todo'[j] = todo[j - 1] /\ j - 1 > 1
      BY <1>4, <1>5, <2>2
    <3>2. todo'[i].right \in Int /\ todo'[i].right <= R
      BY <1>1, <1>2, <1>3, <1>5, <2>2
    <3> QED BY <1>1, <1>4, <1>6, <3>1, <3>2
  <2>3. CASE i > 2 /\ j > 2
    <3>1. /\ i - 1 \in DOMAIN todo /\ todo'[i] = todo[i - 1]
          /\ j - 1 \in DOMAIN todo /\ todo'[j] = todo[j - 1]
          /\ i - 1 < j - 1
      BY <1>4, <1>5, <2>3
    <3> QED BY <3>1 DEF OrderInv, PartsInOrder
  <2> QED BY <1>4, <1>5, <2>1, <2>2, <2>3
<1>8. Settled'
  <2> SUFFICES ASSUME NEW x \in Positions, NEW y \in Positions, x < y, ~(array[x] <= array[y])
               PROVE  \E i \in DOMAIN todo' : todo'[i].left <= x /\ y <= todo'[i].right
    BY DEF Settled, Recurse, Positions
  <2>0. x \in Int /\ y \in Int
    BY DEF Positions
  <2>1. PICK i \in DOMAIN todo : todo[i].left <= x /\ y <= todo[i].right
    BY DEF OrderInv, Settled
  <2>2. CASE i > 1
    <3>1. i + 1 \in DOMAIN todo' /\ todo'[i + 1] = todo[i]
      BY <1>4, <1>5, <2>2
    <3> QED BY <2>1, <3>1
  <2>3. CASE i = 1
    <3>1. L <= x /\ y <= R
      BY <1>4, <2>1, <2>3
    <3>2. ~(x <= r /\ y >= l)
      <4> SUFFICES ASSUME x <= r, y >= l PROVE FALSE
        OBVIOUS
      <4>1. array[x] <= pivot
        <5>1. x = r \/ x \in L .. l - 1
          BY <1>1, <2>0, <3>1
        <5> QED BY <1>2, <5>1
      <4>2. array[y] >= pivot
        <5>1. y = l \/ y \in r + 1 .. R
          BY <1>1, <1>2, <2>0, <3>1
        <5> QED BY <1>2, <5>1
      <4>3. array[x] \in Int /\ array[y] \in Int
        BY <1>1, <2>0, <3>1
      <4> QED BY <1>1, <4>1, <4>2, <4>3
    <3>3. 1 \in DOMAIN todo' /\ 2 \in DOMAIN todo'
      BY <1>4, <1>5
    <3>4. CASE y < l
      <4>1. todo'[1].left <= x /\ y <= todo'[1].right
        BY <1>1, <1>3, <1>5, <2>0, <3>1, <3>4
      <4> QED BY <3>3, <4>1
    <3>5. CASE x > r
      <4>1. todo'[2].left <= x /\ y <= todo'[2].right
        BY <1>1, <1>3, <1>5, <2>0, <3>1, <3>5
      <4> QED BY <3>3, <4>1
    <3> QED BY <1>1, <2>0, <3>2, <3>4, <3>5
  <2> QED BY <1>4, <2>1, <2>2, <2>3
<1> QED BY <1>7, <1>8 DEF Recurse, OrderInv, Partitioned, Permuted

LEMMA OrderInvStep == BoundInv /\ OrderInv /\ [Next]_vars => OrderInv'
<1> SUFFICES ASSUME BoundInv, OrderInv, [Next]_vars PROVE OrderInv'
  OBVIOUS
<1>1. CASE ReturnToCaller
  BY <1>1, SameOrder DEF ReturnToCaller, Partitioned
<1>2. CASE UNCHANGED vars
  <2>1. Partitioned'
    BY <1>2 DEF vars, OrderInv, Partitioned, Running
  <2> QED BY <1>2, <2>1, SameOrder DEF vars, OrderInv
<1> QED
  BY <1>1, <1>2, ReturnKeepsOrder, StartKeepsOrder, ScanLeftKeepsOrder, ScanRightKeepsOrder,
     SwapKeepsOrder, RecurseKeepsOrder DEF Next, QuickSortStep, Done

LEMMA Invariance == Spec => [](BoundInv /\ OrderInv)
<1> QED BY BoundInvInit, BoundInvStep, OrderInvInit, OrderInvStep, PTL DEF Spec

\* What a return shows: the array given, in order.
LEMMA SortedAtReturn ==
  ASSUME BoundInv, OrderInv, todo = <<>>
  PROVE  Sorted!IsPermutation(array, given) /\ Sorted!IsSorted(array)
<1>1. \A x, y \in Positions : x < y => array[x] <= array[y]
  BY DEF OrderInv, Settled
<1>2. DOMAIN array = Positions /\ \A i \in Positions : i \in Int
  BY DEF BoundInv, TypeOK, Positions
<1>3. Sorted!IsSorted(array)
  BY <1>1, <1>2 DEF Sorted!IsSorted
<1> QED BY <1>3 DEF OrderInv, Permuted

\* When quickSort has returned, the array holds what was given, in ascending order
\* (src/cppFriendsSort.cpp, TestQuickSort).
THEOREM SortsTheArray ==
  Spec => [](pc = "returned" => Sorted!IsPermutation(array, given) /\ Sorted!IsSorted(array))
<1>1. BoundInv /\ OrderInv =>
        (pc = "returned" => Sorted!IsPermutation(array, given) /\ Sorted!IsSorted(array))
  BY SortedAtReturn DEF OrderInv
<1> QED BY <1>1, Invariance, PTL

\* QuickSort implements Sorting: every step leaves the output unset or sorts at once.
THEOREM ImplementsSorting == Spec => Sorted!Spec
<1>1. Init => Sorted!Init
  BY DEF Init, Sorted!Init
<1>2. BoundInv /\ OrderInv /\ [Next]_vars => [Sorted!Sort]_(Sorted!vars)
  <2> SUFFICES ASSUME BoundInv, OrderInv, [Next]_vars PROVE [Sorted!Sort]_(Sorted!vars)
    OBVIOUS
  <2>1. CASE ReturnToCaller
    <3>1. /\ pc # "returned" /\ pc' = "returned"
          /\ given' = given /\ array' = array /\ todo = <<>>
      BY <2>1 DEF ReturnToCaller
    <3>2. array # NotYet
      <4>1. size \in 0 .. MaxSize /\ array \in [0 .. size - 1 -> Values]
        BY DEF BoundInv, TypeOK, Positions
      <4>2. NotYet \notin [0 .. size - 1 -> Values]
        BY <4>1, NotYetAssumption
      <4> QED BY <4>1, <4>2
    <3>3. Sorted!IsPermutation(array, given) /\ Sorted!IsSorted(array)
      BY <3>1, SortedAtReturn
    <3> QED BY <3>1, <3>2, <3>3 DEF Sorted!Sort
  <2>2. CASE UNCHANGED vars
    BY <2>2 DEF vars, Sorted!vars
  <2>3. ASSUME given' = given, pc # "returned", pc' # "returned"
        PROVE  UNCHANGED Sorted!vars
    BY <2>3 DEF Sorted!vars
  <2> QED
    BY <2>1, <2>2, <2>3 DEF Next, QuickSortStep, Done, ReturnDepth, StartPartition, ScanLeft,
       ScanRight, Swap, Recurse
<1> QED BY <1>1, <1>2, Invariance, PTL DEF Spec, Sorted!Spec

-----------------------------------------------------------------------------
\* Numbers.
LEMMA Quotient ==
  ASSUME NEW a \in Nat, NEW c \in Nat \ {0}
  PROVE  /\ a \div c \in Nat
         /\ (a \div c) * c <= a
         /\ a < (a \div c) * c + c
OBVIOUS

LEMMA TimesMonotone ==
  ASSUME NEW m \in Nat, NEW k \in Nat, m <= k, NEW s \in Nat
  PROVE  m * s \in Nat /\ k * s \in Nat /\ m * s <= k * s
OBVIOUS

\* A set of numbers below a bound has a greatest one.
LEMMA GreatestExists ==
  ASSUME NEW bound \in Nat, NEW S, S # {}, S \subseteq 0 .. bound
  PROVE  \E x \in S : \A y \in S : x >= y
<1> DEFINE above == {x .. bound : x \in S}
<1>1. above \subseteq FiniteSubsetsOf(Nat) /\ above # {}
  <2>1. \A x \in S : IsFiniteSet(x .. bound) /\ x .. bound \subseteq Nat
    BY FS_Interval
  <2> QED BY <2>1 DEF FiniteSubsetsOf
<1>2. PICK least \in above : \A other \in above : ~(<<other, least>> \in StrictSubsetOrdering(Nat))
  BY <1>1, FS_StrictSubsetOrderingWellFounded, WFMin
<1>3. PICK x \in S : least = x .. bound
  OBVIOUS
<1>4. ASSUME NEW y \in S PROVE x >= y
  <2>1. SUFFICES ASSUME y > x PROVE FALSE
    OBVIOUS
  <2>2. y .. bound \subseteq least /\ x \in least /\ x \notin y .. bound
    BY <1>3, <2>1
  <2>3. y .. bound \subseteq Nat /\ least \subseteq Nat
    BY <1>3
  <2>4. <<y .. bound, least>> \in StrictSubsetOrdering(Nat)
    BY <2>2, <2>3 DEF StrictSubsetOrdering
  <2> QED BY <1>2, <2>4
<1> QED BY <1>4

-----------------------------------------------------------------------------
\* juliaset_impl.cpp.
\* The variables of JuliaSet under their own names: v1 nCpus, v2 converging, v3 csvPath,
\* v4 imagePath, v5 matCounts, v6 maxCount, v7 img, v8 jobs, v9 indexStart, v10 csv, v11 png,
\* v12 status, v13 pc.

\* Where the part of the rows ends that n jobs take.
Cut(rows, span, n) == IF n * span < rows THEN n * span ELSE rows

\* The job of the part of number n, which has threw = FALSE whatever it meets.
IsJob(rows, span, job, n) ==
  /\ job.start = Cut(rows, span, n - 1)
  /\ job.end = Cut(rows, span, n)
  /\ job.next \in job.start .. job.end
  /\ job.threw = FALSE

JobRecords == [start : Nat, next : Nat, end : Nat, threw : BOOLEAN]

JuliaTypes ==
  /\ v1 \in Nat
  /\ Julia!NYs \in Nat
  /\ v2 \in [0 .. Julia!NYs - 1 -> 0 .. MaxIter]
  /\ v5 \in [0 .. Julia!NYs - 1 -> 0 .. MaxIter]
  /\ v7 = [y \in 0 .. Julia!NYs - 1 |-> v7[y]]
  /\ v8 \in Seq(JobRecords) /\ Len(v8) <= v1

\* The jobs have the parts one after the other.
PartsCut ==
  v1 > 0 =>
    /\ v9 = Cut(Julia!NYs, Julia!IndexSpan, Len(v8))
    /\ \A j \in 1 .. Len(v8) : IsJob(Julia!NYs, Julia!IndexSpan, v8[j], j)

\* The rows that a job has been through.
RowsGone(job) == job.start .. job.next - 1

\* What the jobs have gone through is done.
RowsDone ==
  /\ v13 = "scan" => \A j \in 1 .. Len(v8) : \A y \in RowsGone(v8[j]) : v5[y] = v2[y]
  /\ v13 = "draw" => \A j \in 1 .. Len(v8) : \A y \in RowsGone(v8[j]) : v7[y] = <<v5[y], v6>>

\* After the rows have been scanned, their counts are there, and the scale of the colors
\* when they are drawn.
Counted ==
  /\ v13 # "scan" /\ v1 > 0 => v5 = v2
  /\ v13 = "draw" => v6 = Julia!MaxOver(v5)

\* The counts are in their file from where it is due, and success means the picture too.
FilesWritten ==
  /\ v13 \in {"scan", "write_csv"} => v10 = None
  /\ v10 \in {None, v5}
  /\ v13 \in {"draw_image", "draw"} \/ (v13 = "ended" /\ v12 = "SUCCESS") => (v3 => v10 = v5)
  /\ v13 = "ended" /\ v12 = "SUCCESS" /\ v4 /\ v1 > 0 =>
       v11 = [y \in Julia!Rows |-> <<v2[y], Julia!Max({v2[z] : z \in Julia!Rows})>>]

JuliaInv == JuliaTypes /\ PartsCut /\ RowsDone /\ Counted /\ FilesWritten

LEMMA JuliaConstants == MaxIter \in Nat /\ MaxRows \in Nat /\ MaxCpus \in Nat
BY SmallProgramsAssumption

\* The rows are those of the picture.
LEMMA RowsAre ==
  ASSUME NEW n \in Nat, NEW S, v2 \in [0 .. n - 1 -> S]
  PROVE  Julia!Rows = 0 .. n - 1 /\ Julia!NYs = n
<1>1. Julia!Rows = 0 .. n - 1
  BY DEF Julia!Rows
<1>2. Cardinality(0 .. n - 1) = n
  BY FS_Interval
<1>3. Julia!Cardinality(Julia!Rows) = Cardinality(Julia!Rows)
  BY DEF Julia!Cardinality, Cardinality
<1> QED BY <1>1, <1>2, <1>3 DEF Julia!NYs

LEMMA JuliaInit == Julia!Init => JuliaInv
<1> SUFFICES ASSUME Julia!Init PROVE JuliaInv
  OBVIOUS
<1>1. PICK n \in 0 .. MaxRows : v2 \in [0 .. n - 1 -> 0 .. MaxIter]
  BY DEF Julia!Init
<1>2. Julia!Rows = 0 .. n - 1 /\ Julia!NYs = n /\ n \in Nat
  <2>1. n \in Nat
    BY JuliaConstants
  <2> QED BY <1>1, <2>1, RowsAre
<1>3. /\ v1 \in Nat /\ v5 = [y \in Julia!Rows |-> 0] /\ v7 = [y \in Julia!Rows |-> None]
      /\ v8 = <<>> /\ v9 = 0 /\ v10 = None /\ v13 = "scan"
  BY JuliaConstants DEF Julia!Init
<1>4. JuliaTypes
  <2>1. v8 \in Seq(JobRecords) /\ Len(v8) = 0
    BY <1>3
  <2>2. v5 \in [0 .. n - 1 -> 0 .. MaxIter] /\ v7 = [y \in 0 .. n - 1 |-> v7[y]]
    BY <1>2, <1>3, JuliaConstants
  <2> QED BY <1>1, <1>2, <1>3, <2>1, <2>2 DEF JuliaTypes
<1>5. PartsCut
  <2>1. ASSUME v1 > 0 PROVE Julia!IndexSpan \in Nat
    <3>1. n + v1 - 1 \in Nat /\ v1 \in Nat \ {0}
      BY <1>2, <1>3, <2>1
    <3> QED BY <1>2, <3>1, Quotient DEF Julia!IndexSpan
  <2>2. v1 > 0 => 0 = Cut(Julia!NYs, Julia!IndexSpan, 0)
    BY <1>2, <2>1 DEF Cut
  <2> QED BY <1>3, <2>2 DEF PartsCut
<1>6. RowsDone /\ Counted /\ FilesWritten
  BY <1>3 DEF RowsDone, Counted, FilesWritten
<1> QED BY <1>4, <1>5, <1>6 DEF JuliaInv

\* The parts of n processors reach to the last row.
LEMMA SpanCovers ==
  ASSUME JuliaTypes, v1 > 0
  PROVE  /\ Julia!IndexSpan \in Nat
         /\ v1 * Julia!IndexSpan >= Julia!NYs
<1>1. Julia!NYs + v1 - 1 \in Nat /\ v1 \in Nat \ {0} /\ Julia!NYs \in Nat
  BY DEF JuliaTypes
<1>2. Julia!IndexSpan = (Julia!NYs + v1 - 1) \div v1
  BY DEF Julia!IndexSpan
<1>3. /\ Julia!IndexSpan \in Nat
      /\ Julia!NYs + v1 - 1 < Julia!IndexSpan * v1 + v1
  BY <1>1, <1>2, Quotient
<1>4. Julia!IndexSpan * v1 = v1 * Julia!IndexSpan /\ v1 * Julia!IndexSpan \in Nat
  BY <1>1, <1>3
<1> QED BY <1>1, <1>3, <1>4

\* One part ends where the next one begins, or before.
LEMMA CutsOrdered ==
  ASSUME NEW rows \in Nat, NEW span \in Nat, NEW m \in Nat, NEW k \in Nat, m <= k
  PROVE  /\ Cut(rows, span, m) \in 0 .. rows /\ Cut(rows, span, k) \in 0 .. rows
         /\ Cut(rows, span, m) <= Cut(rows, span, k)
BY TimesMonotone DEF Cut

\* Each row is in a part.
LEMMA RowInPart ==
  ASSUME NEW rows \in Nat, NEW span \in Nat, NEW n \in Nat, n * span >= rows, NEW y \in 0 .. rows - 1
  PROVE  \E j \in 1 .. n : Cut(rows, span, j - 1) <= y /\ y < Cut(rows, span, j)
<1>1. span # 0
  BY DEF Cut
<1> DEFINE q == y \div span
<1>2. q \in Nat /\ q * span \in Nat /\ q * span <= y /\ y < q * span + span
  <2>1. y \in Nat /\ span \in Nat \ {0}
    BY <1>1
  <2>2. q \in Nat /\ q * span <= y /\ y < q * span + span
    BY <2>1, Quotient
  <2> HIDE DEF q
  <2> QED BY <2>2
<1> HIDE DEF q
<1>3. (q + 1) * span = q * span + span
  BY <1>2
<1>4. q < n
  <2>1. SUFFICES ASSUME n <= q PROVE FALSE
    BY <1>2
  <2>2. n * span <= q * span /\ n * span \in Nat
    BY <1>2, <2>1, TimesMonotone
  <2> QED BY <1>2, <2>2
<1>5. q + 1 \in 1 .. n /\ (q + 1) - 1 = q
  BY <1>2, <1>4
<1>6. Cut(rows, span, q) <= y
  BY <1>2 DEF Cut
<1>7. y < Cut(rows, span, q + 1)
  BY <1>2, <1>3 DEF Cut
<1> QED BY <1>5, <1>6, <1>7

\* The greatest of the counts of some rows.
LEMMA MaxIs ==
  ASSUME NEW S, S # {}, S \subseteq 0 .. MaxIter
  PROVE  Julia!Max(S) \in S /\ \A x \in S : Julia!Max(S) >= x
<1>1. \E x \in S : \A y \in S : x >= y
  BY JuliaConstants, GreatestExists
<1> QED BY <1>1 DEF Julia!Max

LEMMA ScaleIs ==
  ASSUME JuliaTypes, Julia!Rows = 0 .. Julia!NYs - 1
  PROVE  /\ Julia!MaxOver(v5) \in 0 .. MaxIter
         /\ \A y \in Julia!Rows : v5[y] <= Julia!MaxOver(v5)
         /\ Julia!Rows # {} => Julia!MaxOver(v5) = Julia!Max({v5[y] : y \in Julia!Rows})
<1> DEFINE all == {v5[y] : y \in Julia!Rows}
<1>1. all \subseteq 0 .. MaxIter /\ {0} \union all \subseteq 0 .. MaxIter
  BY JuliaConstants DEF JuliaTypes
<1>2. /\ Julia!Max({0} \union all) \in {0} \union all
      /\ \A x \in {0} \union all : Julia!Max({0} \union all) >= x
  <2>1. {0} \union all # {}
    OBVIOUS
  <2> QED BY <1>1, <2>1, MaxIs
<1>3. Julia!MaxOver(v5) = Julia!Max({0} \union all)
  BY DEF Julia!MaxOver
<1>4. \A y \in Julia!Rows : v5[y] \in all /\ v5[y] \in 0 .. MaxIter
  BY <1>1
<1>5. ASSUME Julia!Rows # {} PROVE Julia!Max({0} \union all) = Julia!Max(all)
  <2>1. all # {}
    BY <1>5
  <2>2. Julia!Max(all) \in all /\ \A x \in all : Julia!Max(all) >= x
    BY <1>1, <2>1, MaxIs
  <2> HIDE DEF all
  <2>3. Julia!Max(all) \in Nat /\ Julia!Max({0} \union all) \in Nat
    <3>1. 0 .. MaxIter \subseteq Nat
      BY JuliaConstants
    <3>2. {0} \union all \subseteq Nat
      BY <1>1, <3>1 DEF all
    <3> QED BY <1>2, <2>2, <3>2
  <2>4. Julia!Max({0} \union all) >= Julia!Max(all)
    BY <1>2, <2>2
  <2>5. Julia!Max({0} \union all) = 0 \/ Julia!Max(all) >= Julia!Max({0} \union all)
    BY <1>2, <2>2
  <2> QED BY <2>3, <2>4, <2>5
<1>6. Julia!Max({0} \union all) \in 0 .. MaxIter
  BY <1>1, <1>2
<1> HIDE DEF all
<1>7. \A y \in Julia!Rows : v5[y] <= Julia!Max({0} \union all)
  BY <1>2, <1>4, <1>6, JuliaConstants
<1> QED BY <1>3, <1>5, <1>6, <1>7 DEF all

\* A step leaves the picture's size and the division into parts.
LEMMA SamePicture ==
  ASSUME UNCHANGED <<v1, v2>>
  PROVE  /\ Julia!NYs' = Julia!NYs /\ Julia!Rows' = Julia!Rows
         /\ Julia!IndexSpan' = Julia!IndexSpan
<1>1. Julia!Rows' = Julia!Rows
  BY DEF Julia!Rows
<1>2. Julia!NYs' = Julia!NYs
  BY <1>1 DEF Julia!NYs, Julia!Cardinality
<1> QED BY <1>1, <1>2 DEF Julia!IndexSpan

LEMMA LaunchStep ==
  ASSUME JuliaInv, Julia!Launch
  PROVE  JuliaInv'
<1>1. /\ v13 \in {"scan", "draw"} /\ Len(v8) < v1
      /\ v9' = Julia!Min({v9 + Julia!IndexSpan, Julia!NYs})
      /\ v8' = Append(v8, [start |-> v9, next |-> v9, end |-> v9', threw |-> FALSE])
      /\ UNCHANGED <<v1, v2, v3, v4, v5, v6, v7, v10, v11, v12, v13>>
  BY DEF Julia!Launch, Julia!wanted
<1>2. JuliaTypes /\ v1 > 0 /\ v1 \in Nat /\ Julia!NYs \in Nat /\ Len(v8) \in Nat
      /\ v8 \in Seq(JobRecords)
  BY <1>1 DEF JuliaInv, JuliaTypes
<1>3. Julia!IndexSpan \in Nat
  BY <1>2, SpanCovers
<1>4. Julia!NYs' = Julia!NYs /\ Julia!Rows' = Julia!Rows /\ Julia!IndexSpan' = Julia!IndexSpan
  BY <1>1, SamePicture
<1>5. /\ v9 = Cut(Julia!NYs, Julia!IndexSpan, Len(v8))
      /\ \A j \in 1 .. Len(v8) : IsJob(Julia!NYs, Julia!IndexSpan, v8[j], j)
  BY <1>2 DEF JuliaInv, PartsCut
<1>6. v9 \in Nat /\ v9' = Cut(Julia!NYs, Julia!IndexSpan, Len(v8) + 1) /\ v9' \in Nat /\ v9 <= v9'
  <2>1. (Len(v8) + 1) * Julia!IndexSpan = Len(v8) * Julia!IndexSpan + Julia!IndexSpan
        /\ Len(v8) * Julia!IndexSpan \in Nat
    BY <1>2, <1>3
  <2>2. \A a, b \in Nat : Julia!Min({a, b}) = IF a < b THEN a ELSE b
    BY DEF Julia!Min
  <2>3. v9 \in Nat
    BY <1>2, <1>5, <2>1 DEF Cut
  <2>4. v9' = IF v9 + Julia!IndexSpan < Julia!NYs THEN v9 + Julia!IndexSpan ELSE Julia!NYs
    BY <1>1, <1>2, <1>3, <2>2, <2>3
  <2> QED BY <1>2, <1>3, <1>5, <2>1, <2>3, <2>4 DEF Cut
<1> DEFINE job == [start |-> v9, next |-> v9, end |-> v9', threw |-> FALSE]
<1>7. job \in JobRecords /\ IsJob(Julia!NYs, Julia!IndexSpan, job, Len(v8) + 1)
  <2>1. (Len(v8) + 1) - 1 = Len(v8) /\ v9 \in v9 .. v9'
    BY <1>2, <1>6
  <2> QED BY <1>5, <1>6, <2>1 DEF JobRecords, IsJob
<1>8. /\ v8' \in Seq(JobRecords) /\ Len(v8') = Len(v8) + 1
      /\ v8'[Len(v8) + 1] = job /\ \A j \in 1 .. Len(v8) : v8'[j] = v8[j]
  <2> HIDE DEF job
  <2>1. v8' = Append(v8, job)
    BY <1>1 DEF job
  <2> QED BY <1>2, <1>7, <2>1
<1>9. job.start = v9 /\ job.next = v9
  OBVIOUS
<1> HIDE DEF job
<1>10. \A j \in 1 .. Len(v8') : j \in 1 .. Len(v8) \/ j = Len(v8) + 1
  BY <1>2, <1>8
<1>11. JuliaTypes'
  BY <1>1, <1>2, <1>4, <1>8 DEF JuliaTypes
<1>12. PartsCut'
  <2>1. \A j \in 1 .. Len(v8') : IsJob(Julia!NYs, Julia!IndexSpan, v8'[j], j)
    BY <1>5, <1>7, <1>8, <1>10
  <2> QED BY <1>4, <1>6, <1>8, <2>1 DEF PartsCut
<1>13. RowsDone'
  <2>1. RowsGone(v8'[Len(v8) + 1]) = {}
    BY <1>6, <1>8, <1>9 DEF RowsGone
  <2>2. \A j \in 1 .. Len(v8) : RowsGone(v8'[j]) = RowsGone(v8[j])
    BY <1>8 DEF RowsGone
  <2>3. ASSUME v13 = "scan", NEW j \in 1 .. Len(v8'), NEW y \in RowsGone(v8'[j])
        PROVE  v5[y] = v2[y]
    BY <1>10, <2>1, <2>2, <2>3 DEF JuliaInv, RowsDone
  <2>4. ASSUME v13 = "draw", NEW j \in 1 .. Len(v8'), NEW y \in RowsGone(v8'[j])
        PROVE  v7[y] = <<v5[y], v6>>
    BY <1>10, <2>1, <2>2, <2>4 DEF JuliaInv, RowsDone
  <2> QED BY <1>1, <2>3, <2>4 DEF RowsDone
<1>14. Counted' /\ FilesWritten'
  BY <1>1, <1>4 DEF JuliaInv, Counted, FilesWritten, Julia!MaxOver, Julia!Max, Julia!Rows
<1> QED BY <1>11, <1>12, <1>13, <1>14 DEF JuliaInv

\* What is said of the rows and of the jobs in a state in which there are jobs.
LEMMA JobFacts ==
  ASSUME JuliaInv, NEW j \in 1 .. Len(v8)
  PROVE  /\ v1 > 0 /\ v8[j] \in JobRecords
         /\ IsJob(Julia!NYs, Julia!IndexSpan, v8[j], j)
         /\ v8[j].end \in 0 .. Julia!NYs
<1>1. v8 \in Seq(JobRecords) /\ Len(v8) \in Nat /\ v1 \in Nat /\ Len(v8) <= v1 /\ v1 > 0
      /\ Julia!NYs \in Nat /\ JuliaTypes /\ v8[j] \in JobRecords
  BY DEF JuliaInv, JuliaTypes
<1>2. IsJob(Julia!NYs, Julia!IndexSpan, v8[j], j)
  BY <1>1 DEF JuliaInv, PartsCut
<1>3. Julia!IndexSpan \in Nat /\ j \in Nat
  BY <1>1, SpanCovers
<1>4. v8[j].end = Cut(Julia!NYs, Julia!IndexSpan, j)
  BY <1>2 DEF IsJob
<1>5. v8[j].end \in 0 .. Julia!NYs
  <2>1. Cut(Julia!NYs, Julia!IndexSpan, j) \in 0 .. Julia!NYs
    <3>1. j <= j
      BY <1>3
    <3> QED BY <1>1, <1>3, <3>1, CutsOrdered
  <2> QED BY <1>4, <2>1
<1> QED BY <1>1, <1>2, <1>5

LEMMA GoneAreRows ==
  ASSUME JuliaInv, NEW j \in 1 .. Len(v8), NEW y \in RowsGone(v8[j])
  PROVE  y \in 0 .. Julia!NYs - 1
<1>1. v8[j] \in JobRecords /\ v8[j].end \in 0 .. Julia!NYs /\ Julia!NYs \in Nat
  BY JobFacts DEF JuliaInv, JuliaTypes
<1>2. v8[j].next <= v8[j].end /\ v8[j].next \in Nat /\ v8[j].start \in Nat
  <2>1. v8[j].next \in v8[j].start .. v8[j].end
    BY JobFacts DEF IsJob
  <2>2. v8[j].start \in Nat /\ v8[j].end \in Nat /\ v8[j].next \in Nat
    BY <1>1 DEF JobRecords
  <2> QED BY <2>1, <2>2
<1> QED BY <1>1, <1>2 DEF RowsGone

LEMMA RunningRow ==
  ASSUME JuliaInv, NEW j \in 1 .. Len(v8), Julia!Running(j)
  PROVE  v8[j].next \in 0 .. Julia!NYs - 1
<1>1. v8[j] \in JobRecords /\ v8[j].end \in 0 .. Julia!NYs /\ Julia!NYs \in Nat
  BY JobFacts DEF JuliaInv, JuliaTypes
<1>2. v8[j].next \in Nat
  BY <1>1 DEF JobRecords
<1> QED BY <1>1, <1>2 DEF Julia!Running

\* A job that runs goes on by a row of its part.
LEMMA JobGoesOn ==
  ASSUME JuliaInv, NEW j \in 1 .. Len(v8), v1' = v1, v2' = v2, v9' = v9,
         Julia!Running(j), v8' = [v8 EXCEPT ![j].next = @ + 1]
  PROVE  /\ v8[j].next \in 0 .. Julia!NYs - 1
         /\ v8' \in Seq(JobRecords) /\ Len(v8') = Len(v8)
         /\ RowsGone(v8'[j]) = RowsGone(v8[j]) \union {v8[j].next}
         /\ \A k \in 1 .. Len(v8) : k # j => RowsGone(v8'[k]) = RowsGone(v8[k])
         /\ PartsCut'
<1>1. v8 \in Seq(JobRecords) /\ Len(v8) \in Nat /\ v1 \in Nat /\ Len(v8) <= v1 /\ v1 > 0
      /\ Julia!NYs \in Nat /\ JuliaTypes
  BY DEF JuliaInv, JuliaTypes
<1>2. v8[j] \in JobRecords
  BY <1>1
<1>3. v8' \in Seq(JobRecords) /\ Len(v8') = Len(v8)
      /\ v8'[j] = [v8[j] EXCEPT !.next = @ + 1]
      /\ \A k \in 1 .. Len(v8) : k # j => v8'[k] = v8[k]
  <2>1. [v8[j] EXCEPT !.next = @ + 1] \in JobRecords
    BY <1>2 DEF JobRecords
  <2> DEFINE job == [v8[j] EXCEPT !.next = @ + 1]
  <2>2. v8' = [v8 EXCEPT ![j] = job]
    OBVIOUS
  <2> HIDE DEF job
  <2>3. job \in JobRecords
    BY <2>1 DEF job
  <2>4. v8' \in Seq(JobRecords) /\ Len(v8') = Len(v8) /\ v8'[j] = job
        /\ \A k \in 1 .. Len(v8) : k # j => v8'[k] = v8[k]
    BY <1>1, <2>2, <2>3
  <2> QED BY <2>4 DEF job
<1>4. /\ v8'[j].start = v8[j].start /\ v8'[j].end = v8[j].end /\ v8'[j].threw = v8[j].threw
      /\ v8'[j].next = v8[j].next + 1
      /\ v8[j].start \in Nat /\ v8[j].end \in Nat /\ v8[j].next \in Nat
  BY <1>2, <1>3 DEF JobRecords
<1>5. \A k \in 1 .. Len(v8) : IsJob(Julia!NYs, Julia!IndexSpan, v8[k], k)
  BY <1>1 DEF JuliaInv, PartsCut
<1>6. v8[j].start <= v8[j].next /\ v8[j].next < v8[j].end
  BY <1>4, <1>5 DEF IsJob, Julia!Running
<1>7. IsJob(Julia!NYs, Julia!IndexSpan, v8'[j], j)
  <2>1. v8[j].next + 1 \in v8[j].start .. v8[j].end
    BY <1>4, <1>6
  <2> QED BY <1>4, <1>5, <2>1 DEF IsJob
<1>8. Julia!NYs' = Julia!NYs /\ Julia!IndexSpan' = Julia!IndexSpan
  BY SamePicture
<1>9. PartsCut'
  <2>1. \A k \in 1 .. Len(v8) : IsJob(Julia!NYs, Julia!IndexSpan, v8'[k], k)
    BY <1>3, <1>5, <1>7
  <2> QED BY <1>3, <1>8, <2>1 DEF JuliaInv, PartsCut
<1>10. v8[j].end \in 0 .. Julia!NYs
  BY JobFacts
<1>11. RowsGone(v8'[j]) = RowsGone(v8[j]) \union {v8[j].next}
  <2>1. v8[j].start .. (v8[j].next + 1) - 1 = (v8[j].start .. v8[j].next - 1) \union {v8[j].next}
    BY <1>4, <1>6
  <2> QED BY <1>4, <2>1 DEF RowsGone
<1>12. \A k \in 1 .. Len(v8) : k # j => RowsGone(v8'[k]) = RowsGone(v8[k])
  BY <1>3 DEF RowsGone
<1>13. v8[j].next \in 0 .. Julia!NYs - 1
  BY <1>1, <1>4, <1>6, <1>10
<1> QED BY <1>3, <1>9, <1>11, <1>12, <1>13

LEMMA CopyRowStep ==
  ASSUME JuliaInv, NEW j \in 1 .. Len(v8), Julia!CopyRow(j)
  PROVE  JuliaInv'
<1> DEFINE row == v8[j].next
<1>1. /\ v13 = "scan" /\ Julia!Running(j)
      /\ v5' = [v5 EXCEPT ![row] = v2[row]]
      /\ v8' = [v8 EXCEPT ![j].next = @ + 1]
      /\ UNCHANGED <<v1, v2, v3, v4, v6, v7, v9, v10, v11, v12, v13>>
  BY DEF Julia!CopyRow, Julia!wanted
<1>2. JuliaTypes
  BY DEF JuliaInv
<1>3. /\ row \in 0 .. Julia!NYs - 1
      /\ v8' \in Seq(JobRecords) /\ Len(v8') = Len(v8)
      /\ RowsGone(v8'[j]) = RowsGone(v8[j]) \union {row}
      /\ \A k \in 1 .. Len(v8) : k # j => RowsGone(v8'[k]) = RowsGone(v8[k])
      /\ PartsCut'
  BY <1>1, JobGoesOn
<1> HIDE DEF row
<1>4. Julia!NYs' = Julia!NYs
  BY <1>1, SamePicture
<1>5. v5'[row] = v2[row] /\ v2[row] \in 0 .. MaxIter
      /\ \A y \in 0 .. Julia!NYs - 1 : y # row => v5'[y] = v5[y]
  BY <1>1, <1>2, <1>3 DEF JuliaTypes
<1>6. JuliaTypes'
  <2>1. v5' \in [0 .. Julia!NYs - 1 -> 0 .. MaxIter]
    BY <1>1, <1>2, <1>5 DEF JuliaTypes
  <2> QED BY <1>1, <1>2, <1>3, <1>4, <2>1 DEF JuliaTypes
<1>8. RowsDone'
  <2>1. ASSUME NEW k \in 1 .. Len(v8), NEW y \in RowsGone(v8'[k]) PROVE v5'[y] = v2[y]
    <3>1. CASE y = row
      BY <1>5, <3>1
    <3>2. CASE y # row
      <4>1. y \in RowsGone(v8[k])
        BY <1>3, <2>1, <3>2
      <4>2. v5[y] = v2[y]
        BY <1>1, <4>1 DEF JuliaInv, RowsDone
      <4>3. v5'[y] = v5[y]
        <5>1. y \in 0 .. Julia!NYs - 1
          BY <1>2, <4>1, GoneAreRows DEF JuliaInv
        <5> QED BY <1>5, <3>2, <5>1
      <4> QED BY <4>2, <4>3
    <3> QED BY <3>1, <3>2
  <2> QED BY <1>1, <1>3, <2>1 DEF RowsDone
<1>9. Counted' /\ FilesWritten'
  BY <1>1 DEF JuliaInv, Counted, FilesWritten
<1> QED BY <1>3, <1>6, <1>8, <1>9 DEF JuliaInv

LEMMA ColorRowStep ==
  ASSUME JuliaInv, NEW j \in 1 .. Len(v8), Julia!ColorRow(j)
  PROVE  JuliaInv'
<1> DEFINE row == v8[j].next
<1>1. /\ v13 = "draw" /\ Julia!Running(j)
      /\ UNCHANGED <<v1, v2, v3, v4, v5, v6, v9, v10, v11, v12, v13>>
  BY DEF Julia!ColorRow, Julia!wanted
<1>2. JuliaTypes /\ Julia!NYs \in Nat
  BY DEF JuliaInv, JuliaTypes
<1>3. Julia!Rows = 0 .. Julia!NYs - 1
  BY <1>2, RowsAre DEF JuliaTypes
<1>4. row \in 0 .. Julia!NYs - 1
  BY <1>1, RunningRow
<1>5. v5[row] <= v6
  BY <1>1, <1>2, <1>3, <1>4, ScaleIs DEF JuliaInv, Counted
<1>6. v7' = [v7 EXCEPT ![row] = <<v5[row], v6>>] /\ v8' = [v8 EXCEPT ![j].next = @ + 1]
  BY <1>5 DEF Julia!ColorRow
<1>7. /\ v8' \in Seq(JobRecords) /\ Len(v8') = Len(v8)
      /\ RowsGone(v8'[j]) = RowsGone(v8[j]) \union {row}
      /\ \A k \in 1 .. Len(v8) : k # j => RowsGone(v8'[k]) = RowsGone(v8[k])
      /\ PartsCut'
  BY <1>1, <1>6, JobGoesOn
<1> HIDE DEF row
<1>8. Julia!NYs' = Julia!NYs /\ Julia!Rows' = Julia!Rows
  BY <1>1, SamePicture
<1>9. /\ DOMAIN v7 = 0 .. Julia!NYs - 1 /\ v7'[row] = <<v5[row], v6>>
      /\ \A y \in 0 .. Julia!NYs - 1 : y # row => v7'[y] = v7[y]
  <2>1. DOMAIN v7 = 0 .. Julia!NYs - 1
    BY <1>2 DEF JuliaTypes
  <2> QED BY <1>4, <1>6, <2>1
<1>10. v7' = [y \in 0 .. Julia!NYs - 1 |-> v7'[y]]
  BY <1>6, <1>9
<1>11. JuliaTypes'
  BY <1>1, <1>2, <1>7, <1>8, <1>10 DEF JuliaTypes
<1>12. RowsDone'
  <2>1. ASSUME NEW k \in 1 .. Len(v8), NEW y \in RowsGone(v8'[k]) PROVE v7'[y] = <<v5[y], v6>>
    <3>1. CASE y = row
      BY <1>9, <3>1
    <3>2. CASE y # row
      <4>1. y \in RowsGone(v8[k])
        BY <1>7, <2>1, <3>2
      <4>2. v7[y] = <<v5[y], v6>>
        BY <1>1, <4>1 DEF JuliaInv, RowsDone
      <4>3. y \in 0 .. Julia!NYs - 1
        BY <4>1, GoneAreRows
      <4> QED BY <1>9, <3>2, <4>2, <4>3
    <3> QED BY <3>1, <3>2
  <2> QED BY <1>1, <1>7, <2>1 DEF RowsDone
<1>13. Counted'
  BY <1>1, <1>8 DEF JuliaInv, Counted, Julia!MaxOver, Julia!Max
<1>14. FilesWritten'
  BY <1>1 DEF JuliaInv, FilesWritten
<1> QED BY <1>7, <1>11, <1>12, <1>13, <1>14 DEF JuliaInv

\* When all jobs are joined no row is left.
LEMMA AllRowsGone ==
  ASSUME JuliaInv, v1 > 0, Julia!AllJoined, NEW y \in 0 .. Julia!NYs - 1
  PROVE  \E j \in 1 .. Len(v8) : y \in RowsGone(v8[j])
<1>1. JuliaTypes /\ v8 \in Seq(JobRecords) /\ v1 \in Nat /\ Julia!NYs \in Nat
  BY DEF JuliaInv, JuliaTypes
<1>2. Len(v8) = v1 /\ \A j \in 1 .. Len(v8) : ~Julia!Running(j)
  BY <1>1 DEF Julia!AllJoined
<1>3. Julia!IndexSpan \in Nat /\ v1 * Julia!IndexSpan >= Julia!NYs
  BY <1>1, SpanCovers
<1>4. PICK j \in 1 .. v1 :
        Cut(Julia!NYs, Julia!IndexSpan, j - 1) <= y /\ y < Cut(Julia!NYs, Julia!IndexSpan, j)
  BY <1>1, <1>3, RowInPart
<1>5. v8[j] \in JobRecords /\ IsJob(Julia!NYs, Julia!IndexSpan, v8[j], j)
  BY <1>2, JobFacts
<1>6. v8[j].start <= y /\ y < v8[j].end /\ v8[j].threw = FALSE
      /\ v8[j].next \in v8[j].start .. v8[j].end
  BY <1>4, <1>5 DEF IsJob
<1>7. v8[j].start \in Nat /\ v8[j].end \in Nat /\ v8[j].next \in Nat
  BY <1>5 DEF JobRecords
<1>8. v8[j].next = v8[j].end
  <2>1. ~(v8[j].next < v8[j].end)
    BY <1>2, <1>6 DEF Julia!Running
  <2> QED BY <1>6, <1>7, <2>1
<1>9. y \in RowsGone(v8[j])
  BY <1>6, <1>7, <1>8 DEF RowsGone
<1> QED BY <1>2, <1>9

LEMMA JoinScanStep ==
  ASSUME JuliaInv, Julia!JoinScan
  PROVE  JuliaInv'
<1>1. /\ v13 = "scan" /\ Julia!AllJoined /\ v13' = "write_csv"
      /\ UNCHANGED <<v1, v2, v3, v4, v5, v6, v7, v8, v9, v10, v11, v12>>
  BY DEF Julia!JoinScan, Julia!wanted
<1>2. Julia!NYs' = Julia!NYs /\ Julia!Rows' = Julia!Rows /\ Julia!IndexSpan' = Julia!IndexSpan
  BY <1>1, SamePicture
<1>3. ASSUME v1 > 0 PROVE v5 = v2
  <2>1. ASSUME NEW y \in 0 .. Julia!NYs - 1 PROVE v5[y] = v2[y]
    <3>1. PICK j \in 1 .. Len(v8) : y \in RowsGone(v8[j])
      BY <1>1, <1>3, AllRowsGone
    <3> QED BY <1>1, <3>1 DEF JuliaInv, RowsDone
  <2> QED BY <2>1 DEF JuliaInv, JuliaTypes
<1>4. JuliaTypes' /\ PartsCut'
  BY <1>1, <1>2 DEF JuliaInv, JuliaTypes, PartsCut
<1>5. RowsDone' /\ Counted' /\ FilesWritten'
  BY <1>1, <1>3 DEF JuliaInv, RowsDone, Counted, FilesWritten
<1> QED BY <1>4, <1>5 DEF JuliaInv

\* The steps of draw between the two divisions of the rows.
LEMMA FileStep ==
  ASSUME JuliaInv, Julia!WriteCsv \/ Julia!SkipCsv \/ Julia!SkipImage
  PROVE  JuliaInv'
<1>1. /\ v13 \in {"write_csv", "draw_image"} /\ v13' \in {"draw_image", "ended"}
      /\ UNCHANGED <<v1, v2, v3, v4, v5, v6, v7, v8, v9, v11>>
  BY DEF Julia!WriteCsv, Julia!SkipCsv, Julia!SkipImage, Julia!wanted
<1>2. Julia!NYs' = Julia!NYs /\ Julia!Rows' = Julia!Rows /\ Julia!IndexSpan' = Julia!IndexSpan
  BY <1>1, SamePicture
<1>3. JuliaTypes' /\ PartsCut'
  BY <1>1, <1>2 DEF JuliaInv, JuliaTypes, PartsCut
<1>4. RowsDone' /\ Counted'
  BY <1>1 DEF JuliaInv, RowsDone, Counted
<1>5. FilesWritten'
  <2>1. CASE Julia!WriteCsv
    <3>1. \/ v10' = v5 /\ v13' = "draw_image"
          \/ v12' = "FILE_ERROR" /\ v13' = "ended" /\ v10' = v10
      BY <2>1 DEF Julia!WriteCsv
    <3> QED BY <1>1, <3>1 DEF JuliaInv, FilesWritten
  <2>2. CASE Julia!SkipCsv
    <3>1. v10' = v10 /\ ~v3 /\ v13' = "draw_image"
      BY <2>2 DEF Julia!SkipCsv
    <3> QED BY <1>1, <3>1 DEF JuliaInv, FilesWritten
  <2>3. CASE Julia!SkipImage
    <3>1. v10' = v10 /\ ~v4 /\ v13 = "draw_image" /\ v13' = "ended" /\ v12' = v12
      BY <2>3 DEF Julia!SkipImage
    <3> QED BY <1>1, <3>1 DEF JuliaInv, FilesWritten
  <2> QED BY <2>1, <2>2, <2>3
<1> QED BY <1>3, <1>4, <1>5 DEF JuliaInv

LEMMA BeginDrawStep ==
  ASSUME JuliaInv, Julia!BeginDraw
  PROVE  JuliaInv'
<1>1. /\ v13 = "draw_image" /\ v13' = "draw" /\ v6' = Julia!MaxOver(v5)
      /\ v8' = <<>> /\ v9' = 0
      /\ UNCHANGED <<v1, v2, v3, v4, v5, v7, v10, v11, v12>>
  BY DEF Julia!BeginDraw, Julia!wanted
<1>2. Julia!NYs' = Julia!NYs /\ Julia!Rows' = Julia!Rows /\ Julia!IndexSpan' = Julia!IndexSpan
  BY <1>1, SamePicture
<1>3. JuliaTypes /\ v1 \in Nat
  BY DEF JuliaInv, JuliaTypes
<1>4. v8' \in Seq(JobRecords) /\ Len(v8') = 0
  BY <1>1
<1>5. JuliaTypes'
  BY <1>1, <1>2, <1>3, <1>4 DEF JuliaTypes
<1>6. PartsCut'
  <2>1. ASSUME v1 > 0 PROVE 0 = Cut(Julia!NYs, Julia!IndexSpan, 0)
    <3>1. Julia!IndexSpan \in Nat /\ Julia!NYs \in Nat
      BY <1>3, <2>1, SpanCovers DEF JuliaTypes
    <3> QED BY <3>1 DEF Cut
  <2> QED BY <1>1, <1>2, <1>4, <2>1 DEF PartsCut
<1>7. Julia!MaxOver(v5)' = Julia!MaxOver(v5)
  BY <1>1, <1>2 DEF Julia!MaxOver, Julia!Max
<1>8. RowsDone' /\ Counted'
  BY <1>1, <1>4, <1>7 DEF JuliaInv, RowsDone, Counted
<1>9. FilesWritten'
  BY <1>1 DEF JuliaInv, FilesWritten
<1> QED BY <1>5, <1>6, <1>8, <1>9 DEF JuliaInv

LEMMA WriteImageStep ==
  ASSUME JuliaInv, Julia!WriteImage
  PROVE  JuliaInv'
<1>1. /\ v13 = "draw" /\ Julia!AllJoined /\ v13' = "ended"
      /\ (v11' = v7 /\ v12' = v12) \/ v12' = "FILE_ERROR"
      /\ UNCHANGED <<v1, v2, v3, v4, v5, v6, v7, v8, v9, v10>>
  BY DEF Julia!WriteImage, Julia!wanted
<1>2. Julia!NYs' = Julia!NYs /\ Julia!Rows' = Julia!Rows /\ Julia!IndexSpan' = Julia!IndexSpan
  BY <1>1, SamePicture
<1>3. JuliaTypes /\ Julia!NYs \in Nat
  BY DEF JuliaInv, JuliaTypes
<1>4. Julia!Rows = 0 .. Julia!NYs - 1
  BY <1>3, RowsAre DEF JuliaTypes
<1>5. ASSUME v1 > 0
      PROVE  v7 = [y \in Julia!Rows |-> <<v2[y], Julia!Max({v2[z] : z \in Julia!Rows})>>]
  <2>1. v5 = v2
    BY <1>1, <1>5 DEF JuliaInv, Counted
  <2>2. ASSUME NEW y \in Julia!Rows
        PROVE  v7[y] = <<v2[y], Julia!Max({v2[z] : z \in Julia!Rows})>>
    <3>1. PICK j \in 1 .. Len(v8) : y \in RowsGone(v8[j])
      BY <1>1, <1>4, <1>5, AllRowsGone
    <3>2. v7[y] = <<v5[y], v6>>
      BY <1>1, <3>1 DEF JuliaInv, RowsDone
    <3>3. v6 = Julia!Max({v5[z] : z \in Julia!Rows})
      BY <1>1, <1>3, <1>4, ScaleIs DEF JuliaInv, Counted
    <3> QED BY <2>1, <3>2, <3>3
  <2>3. v7 = [y \in Julia!Rows |-> v7[y]]
    BY <1>3, <1>4 DEF JuliaTypes
  <2> QED BY <2>2, <2>3
<1>6. JuliaTypes' /\ PartsCut'
  BY <1>1, <1>2 DEF JuliaInv, JuliaTypes, PartsCut
<1>7. RowsDone' /\ Counted'
  BY <1>1 DEF JuliaInv, RowsDone, Counted
<1>8. FilesWritten'
  <2>1. CASE v12' = "FILE_ERROR"
    BY <1>1, <2>1 DEF JuliaInv, FilesWritten
  <2>2. CASE v11' = v7 /\ v12' = v12
    <3>1. Julia!Max({v2[z] : z \in Julia!Rows})' = Julia!Max({v2[z] : z \in Julia!Rows})
      BY <1>1, <1>2 DEF Julia!Max
    <3>2. v1 > 0 =>
            v11' = [y \in Julia!Rows |-> <<v2[y], Julia!Max({v2[z] : z \in Julia!Rows})>>]'
      BY <1>1, <1>2, <1>5, <2>2, <3>1
    <3> QED BY <1>1, <3>2 DEF JuliaInv, FilesWritten
  <2> QED BY <1>1, <2>1, <2>2
<1> QED BY <1>6, <1>7, <1>8 DEF JuliaInv

LEMMA JuliaStep == JuliaInv /\ Julia!Step => JuliaInv'
<1> SUFFICES ASSUME JuliaInv, Julia!Step PROVE JuliaInv'
  OBVIOUS
<1>1. DOMAIN v8 = 1 .. Len(v8)
  BY DEF JuliaInv, JuliaTypes
<1> QED BY <1>1, LaunchStep, CopyRowStep, ColorRowStep, JoinScanStep, FileStep, BeginDrawStep,
           WriteImageStep DEF Julia!Step

LEMMA JuliaResults == JuliaInv => Julia!EachRowOnce
<1> SUFFICES ASSUME JuliaInv PROVE Julia!EachRowOnce
  OBVIOUS
<1>1. DOMAIN v8 = 1 .. Len(v8) /\ JuliaTypes /\ Julia!NYs \in Nat
  BY DEF JuliaInv, JuliaTypes
<1>2. ASSUME NEW j \in 1 .. Len(v8), NEW k \in 1 .. Len(v8), j < k
      PROVE  Julia!RowsOf(v8[j]) \intersect Julia!RowsOf(v8[k]) = {}
  <2>1. /\ IsJob(Julia!NYs, Julia!IndexSpan, v8[j], j) /\ IsJob(Julia!NYs, Julia!IndexSpan, v8[k], k)
        /\ v8[j] \in JobRecords /\ v8[k] \in JobRecords /\ v1 > 0
    BY JobFacts
  <2>2. Julia!IndexSpan \in Nat /\ j \in Nat /\ k - 1 \in Nat /\ j <= k - 1
    BY <1>1, <1>2, <2>1, SpanCovers
  <2>3. Cut(Julia!NYs, Julia!IndexSpan, j) <= Cut(Julia!NYs, Julia!IndexSpan, k - 1)
    BY <1>1, <2>2, CutsOrdered
  <2>4. v8[j].end <= v8[k].start /\ v8[j].end \in Nat /\ v8[k].start \in Nat
    BY <2>1, <2>3 DEF IsJob, JobRecords
  <2>5. v8[j].start \in Nat /\ v8[k].end \in Nat
    BY <2>1 DEF JobRecords
  <2>6. \A y \in Julia!RowsOf(v8[j]) : y \in Int /\ y < v8[j].end
    BY <2>4, <2>5 DEF Julia!RowsOf
  <2>7. \A y \in Julia!RowsOf(v8[k]) : y \in Int /\ y >= v8[k].start
    BY <2>4, <2>5 DEF Julia!RowsOf
  <2>8. \A y \in Julia!RowsOf(v8[j]) : y \notin Julia!RowsOf(v8[k])
    BY <2>4, <2>6, <2>7
  <2> QED BY <2>8
<1>3. Julia!JobsDisjoint
  <2>1. ASSUME NEW j \in 1 .. Len(v8), NEW k \in 1 .. Len(v8), j # k
        PROVE  Julia!RowsOf(v8[j]) \intersect Julia!RowsOf(v8[k]) = {}
    <3>1. j < k \/ k < j
      BY <2>1
    <3> QED BY <1>2, <3>1
  <2> QED BY <1>1, <2>1 DEF Julia!JobsDisjoint
<1>4. \A j \in 1 .. Len(v8) : ~v8[j].threw
  BY JobFacts DEF IsJob
<1> QED BY <1>1, <1>3, <1>4 DEF JuliaInv, Counted, FilesWritten, Julia!EachRowOnce, Julia!Ended

-----------------------------------------------------------------------------
\* asciiOnlyCheckerImpl.rb.
\* The variables of AsciiChecker under their own names: v1 files, v2 file, v3 line, v4 texts,
\* v5 paragraph, v6 result, v7 failed, v8 exitStatus, v9 pc.
File == v1[v2]
FileLines == File.lines

AsciiTypes ==
  /\ v1 \in Seq(Ascii!Files)
  /\ v2 \in Nat \ {0}
  /\ v4 \in Seq(Ascii!Texts) /\ v5 \in Ascii!Texts /\ v6 \in BOOLEAN
  /\ v9 = "parse" => v2 <= Len(v1) /\ ~File.skipped /\ v3 \in 1 .. Len(FileLines) + 1

\* What makes a file fail, if it is printed.
Fails(f, text) == text = "other" \/ (text # "none" /\ f.name = "other")

\* Whatever has been read and makes the file fail has made it fail, or waits in the paragraph
\* or in the texts of the line.
ReadSoFar ==
  v9 = "parse" =>
    (\E n \in 1 .. v3 - 1 : Fails(File, Ascii!TextOf(File, FileLines[n])))
      <=> v6 \/ Fails(File, v5) \/ \E k \in 1 .. Len(v4) : Fails(File, v4[k])

AsciiInv == AsciiTypes /\ ReadSoFar

LEMMA AsciiConstants == MaxFiles \in Nat /\ MaxTextLines \in Nat
BY SmallProgramsAssumption

LEMMA NoTexts == <<>> \in Seq(Ascii!Texts) /\ "none" \in Ascii!Texts
<1>1. \A S : <<>> \in Seq(S)
  OBVIOUS
<1> QED BY <1>1 DEF Ascii!Texts

LEMMA AsciiInit == Ascii!Init => AsciiInv
<1> SUFFICES ASSUME Ascii!Init PROVE AsciiInv
  OBVIOUS
<1>1. v1 \in Seq(Ascii!Files)
  <2>1. v1 \in Ascii!SeqOf(Ascii!Files, MaxFiles)
    <3>1. v1 \in Ascii!ArgumentLists
      BY DEF Ascii!Init
    <3> QED BY <3>1, Zenon DEF Ascii!ArgumentLists
  <2>2. PICK n \in 0 .. MaxFiles : v1 \in [1 .. n -> Ascii!Files]
    BY <2>1 DEF Ascii!SeqOf
  <2> QED BY <2>2
<1>2. /\ v2 = 1 /\ v4 = <<>> /\ v5 = "none" /\ v6 = FALSE /\ v9 = "file"
  BY DEF Ascii!Init
<1>3. v4 \in Seq(Ascii!Texts) /\ v5 \in Ascii!Texts /\ v6 \in BOOLEAN
  BY <1>2, NoTexts
<1> QED BY <1>1, <1>2, <1>3 DEF AsciiInv, AsciiTypes, ReadSoFar

\* A file of the arguments that is not skipped.
LEMMA FileType ==
  ASSUME AsciiTypes, v2 <= Len(v1)
  PROVE  /\ File.code \in BOOLEAN
         /\ FileLines \in Seq(Ascii!Lines)
<1>1. File \in Ascii!Files
  BY DEF AsciiTypes, File
<1>2. CASE File = Ascii!Skipped
  BY <1>2 DEF FileLines, Ascii!Skipped
<1>3. CASE File # Ascii!Skipped
  <2>1. File.code \in BOOLEAN /\ File.lines \in Ascii!SeqOf(Ascii!Lines, MaxTextLines)
    BY <1>1, <1>3 DEF Ascii!Files
  <2>2. PICK n \in 0 .. MaxTextLines : File.lines \in [1 .. n -> Ascii!Lines]
    BY <2>1 DEF Ascii!SeqOf
  <2> QED BY <2>1, <2>2, AsciiConstants DEF FileLines
<1> QED BY <1>2, <1>3

LEMMA BothFails ==
  ASSUME NEW f, NEW a \in Ascii!Texts, NEW b \in Ascii!Texts
  PROVE  /\ Ascii!Both(a, b) \in Ascii!Texts
         /\ Fails(f, Ascii!Both(a, b)) <=> Fails(f, a) \/ Fails(f, b)
BY DEF Ascii!Both, Ascii!Texts, Fails

\* The texts of a line fail exactly if what the program looks at does.
LEMMA ExtractFails ==
  ASSUME NEW f, f.code \in BOOLEAN, NEW line \in Ascii!Lines
  PROVE  /\ Ascii!Extract(f.code, line) \in Seq(Ascii!Texts)
         /\ Fails(f, Ascii!TextOf(f, line))
              <=> \E k \in 1 .. Len(Ascii!Extract(f.code, line)) : Fails(f, Ascii!Extract(f.code, line)[k])
<1>1. line.code \in Ascii!Texts /\ line.comment \in Ascii!Texts /\ "none" \in Ascii!Texts
  BY DEF Ascii!Lines, Ascii!Texts
<1>2. ~Fails(f, "none")
  BY DEF Fails
<1>3. CASE ~f.code
  <2>1. Ascii!Extract(f.code, line) = <<Ascii!Both(line.code, line.comment)>>
    BY <1>3 DEF Ascii!Extract
  <2>2. Ascii!TextOf(f, line) = Ascii!Both(line.code, line.comment)
    BY <1>3 DEF Ascii!TextOf
  <2>3. Ascii!Both(line.code, line.comment) \in Ascii!Texts
    BY <1>1, BothFails
  <2> QED BY <2>1, <2>2, <2>3
<1>4. CASE f.code
  <2>1. Ascii!TextOf(f, line) = line.comment
    BY <1>4 DEF Ascii!TextOf
  <2>2. CASE line.comment = "none"
    <3>1. Ascii!Extract(f.code, line) = <<"none">>
      BY <1>4, <2>2 DEF Ascii!Extract
    <3> QED BY <1>1, <1>2, <2>1, <2>2, <3>1
  <2>3. CASE line.comment # "none" /\ line.code = "none"
    <3>1. Ascii!Extract(f.code, line) = <<line.comment>>
      BY <1>4, <2>3 DEF Ascii!Extract
    <3> QED BY <1>1, <1>2, <2>1, <3>1
  <2>4. CASE line.comment # "none" /\ line.code # "none"
    <3>1. Ascii!Extract(f.code, line) = <<"none", line.comment>>
      BY <1>4, <2>4 DEF Ascii!Extract
    <3> QED BY <1>1, <1>2, <2>1, <3>1
  <2> QED BY <2>2, <2>3, <2>4
<1> QED BY <1>3, <1>4

LEMMA PrintedFails ==
  ASSUME AsciiTypes
  PROVE  Ascii!Printed <=> Fails(File, v5)
BY DEF AsciiTypes, Ascii!Printed, Ascii!Both, Ascii!Texts, Fails, File

LEMMA ReadLineStep ==
  ASSUME AsciiInv, Ascii!ReadLine
  PROVE  AsciiInv'
<1>1. /\ v9 = "parse" /\ v4 = <<>> /\ v3 <= Len(FileLines) /\ v3' = v3 + 1
      /\ v4' = Ascii!Extract(File.code, FileLines[v3])
      /\ UNCHANGED <<v1, v2, v5, v6, v9>>
  BY DEF Ascii!ReadLine, File, FileLines
<1>2. AsciiTypes /\ v2 <= Len(v1) /\ ~File.skipped /\ v3 \in 1 .. Len(FileLines) + 1
  BY <1>1 DEF AsciiInv, AsciiTypes
<1>3. File.code \in BOOLEAN /\ FileLines \in Seq(Ascii!Lines)
  BY <1>2, FileType
<1>4. FileLines[v3] \in Ascii!Lines /\ v3 \in Nat /\ v3 + 1 \in 1 .. Len(FileLines) + 1
  BY <1>1, <1>2, <1>3
<1>5. /\ v4' \in Seq(Ascii!Texts)
      /\ Fails(File, Ascii!TextOf(File, FileLines[v3]))
           <=> \E k \in 1 .. Len(v4') : Fails(File, v4'[k])
  BY <1>1, <1>3, <1>4, ExtractFails
<1>6. File' = File /\ FileLines' = FileLines
  BY <1>1 DEF File, FileLines
<1>7. AsciiTypes'
  BY <1>1, <1>2, <1>4, <1>5, <1>6 DEF AsciiTypes
<1>8. ReadSoFar'
  <2>1. \A n : n \in 1 .. (v3 + 1) - 1 <=> n \in 1 .. v3 - 1 \/ n = v3
    BY <1>2
  <2>2. ~ \E k \in 1 .. Len(v4) : Fails(File, v4[k])
    BY <1>1
  <2>3. (\E n \in 1 .. v3 - 1 : Fails(File, Ascii!TextOf(File, FileLines[n])))
          <=> v6 \/ Fails(File, v5)
    BY <1>1, <2>2 DEF AsciiInv, ReadSoFar
  <2>4. (\E n \in 1 .. v3' - 1 : Fails(File, Ascii!TextOf(File, FileLines[n])))
          <=> v6 \/ Fails(File, v5) \/ \E k \in 1 .. Len(v4') : Fails(File, v4'[k])
    BY <1>1, <1>5, <2>1, <2>3
  <2> QED BY <1>1, <1>6, <2>4 DEF ReadSoFar, Ascii!TextOf, Ascii!Both
<1> QED BY <1>7, <1>8 DEF AsciiInv

LEMMA CheckTextStep ==
  ASSUME AsciiInv, Ascii!CheckText
  PROVE  AsciiInv'
<1>1. /\ v9 = "parse" /\ v4 # <<>> /\ v4' = Tail(v4)
      /\ UNCHANGED <<v1, v2, v3, v9>>
  BY DEF Ascii!CheckText
<1>2. AsciiTypes /\ v4 \in Seq(Ascii!Texts) /\ v5 \in Ascii!Texts /\ v6 \in BOOLEAN
  BY DEF AsciiInv, AsciiTypes
<1>3. Head(v4) = v4[1] /\ Head(v4) \in Ascii!Texts /\ Tail(v4) \in Seq(Ascii!Texts)
  BY <1>1, <1>2
<1>4. File' = File /\ FileLines' = FileLines
  BY <1>1 DEF File, FileLines
<1>5. (\E k \in 1 .. Len(v4) : Fails(File, v4[k]))
        <=> Fails(File, Head(v4)) \/ \E k \in 1 .. Len(Tail(v4)) : Fails(File, Tail(v4)[k])
  <2>1. Len(v4) \in Nat \ {0} /\ Len(Tail(v4)) = Len(v4) - 1
        /\ \A k \in 1 .. Len(v4) - 1 : Tail(v4)[k] = v4[k + 1]
    BY <1>1, <1>2
  <2>2. ASSUME NEW k \in 1 .. Len(v4), Fails(File, v4[k]), k # 1
        PROVE  \E n \in 1 .. Len(Tail(v4)) : Fails(File, Tail(v4)[n])
    <3>1. k - 1 \in 1 .. Len(Tail(v4)) /\ Tail(v4)[k - 1] = v4[k]
      BY <2>1, <2>2
    <3> QED BY <2>2, <3>1
  <2>3. ASSUME NEW k \in 1 .. Len(Tail(v4)), Fails(File, Tail(v4)[k])
        PROVE  \E n \in 1 .. Len(v4) : Fails(File, v4[n])
    <3>1. k + 1 \in 1 .. Len(v4) /\ Tail(v4)[k] = v4[k + 1]
      BY <2>1
    <3> QED BY <2>3, <3>1
  <2>4. 1 \in 1 .. Len(v4)
    BY <2>1
  <2> QED BY <1>3, <2>2, <2>3, <2>4
<1>6. v5' \in Ascii!Texts /\ v6' \in BOOLEAN
      /\ (v6' \/ Fails(File, v5') <=> v6 \/ Fails(File, v5) \/ Fails(File, Head(v4)))
  <2>1. CASE Head(v4) = "none"
    <3>1. v6' = (v6 \/ Ascii!Printed) /\ v5' = "none"
      BY <2>1 DEF Ascii!CheckText
    <3>2. ~Fails(File, "none") /\ "none" \in Ascii!Texts
      BY DEF Fails, Ascii!Texts
    <3>3. Ascii!Printed <=> Fails(File, v5)
      BY <1>2, PrintedFails
    <3>4. v6' <=> v6 \/ Fails(File, v5)
      BY <3>1, <3>3, Zenon
    <3>5. v6' \in BOOLEAN
      BY <3>1
    <3> QED BY <2>1, <3>1, <3>2, <3>4, <3>5
  <2>2. CASE Head(v4) # "none"
    <3>1. v6' = v6 /\ v5' = Ascii!Both(v5, Head(v4))
      BY <2>2 DEF Ascii!CheckText
    <3>2. /\ Ascii!Both(v5, Head(v4)) \in Ascii!Texts
          /\ Fails(File, Ascii!Both(v5, Head(v4))) <=> Fails(File, v5) \/ Fails(File, Head(v4))
      BY <1>2, <1>3, BothFails
    <3> QED BY <1>2, <3>1, <3>2
  <2> QED BY <2>1, <2>2
<1>7. AsciiTypes'
  BY <1>1, <1>2, <1>3, <1>4, <1>6 DEF AsciiTypes
<1>8. ReadSoFar'
  <2>1. (\E n \in 1 .. v3 - 1 : Fails(File, Ascii!TextOf(File, FileLines[n])))
          <=> v6' \/ Fails(File, v5') \/ \E k \in 1 .. Len(v4') : Fails(File, v4'[k])
    BY <1>1, <1>5, <1>6 DEF AsciiInv, ReadSoFar
  <2> QED BY <1>1, <1>4, <2>1 DEF ReadSoFar, Ascii!TextOf, Ascii!Both
<1> QED BY <1>7, <1>8 DEF AsciiInv

\* The end of a file gives the verdict.
LEMMA EndFileVerdict ==
  ASSUME AsciiInv, Ascii!EndFile
  PROVE  v6' <=> Ascii!HoldsOther(File)
<1>1. /\ v9 = "parse" /\ v4 = <<>> /\ v3 > Len(FileLines)
      /\ v6' = (v6 \/ Ascii!Printed)
  BY DEF Ascii!EndFile, File, FileLines
<1>2. AsciiTypes /\ v2 <= Len(v1) /\ ~File.skipped /\ v3 \in 1 .. Len(FileLines) + 1
  BY <1>1 DEF AsciiInv, AsciiTypes
<1>3. FileLines \in Seq(Ascii!Lines)
  BY <1>2, FileType
<1>4. Len(FileLines) \in Nat /\ v3 - 1 = Len(FileLines) /\ DOMAIN FileLines = 1 .. v3 - 1
  <2>1. Len(FileLines) \in Nat /\ DOMAIN FileLines = 1 .. Len(FileLines)
    BY <1>3
  <2> QED BY <1>1, <1>2, <2>1
<1>5. ~ \E k \in 1 .. Len(v4) : Fails(File, v4[k])
  BY <1>1
<1>6. v6' <=> \E n \in 1 .. v3 - 1 : Fails(File, Ascii!TextOf(File, FileLines[n]))
  BY <1>1, <1>2, <1>5, PrintedFails DEF AsciiInv, ReadSoFar
<1> QED BY <1>2, <1>4, <1>6 DEF Ascii!HoldsOther, Fails, FileLines

LEMMA AsciiStep == AsciiInv /\ Ascii!Step => AsciiInv'
<1> SUFFICES ASSUME AsciiInv, Ascii!Step PROVE AsciiInv'
  OBVIOUS
<1>1. CASE Ascii!SkipFile
  <2>1. v9' = "file" /\ v2' = v2 + 1 /\ UNCHANGED <<v1, v4, v5, v6>>
    BY <1>1 DEF Ascii!SkipFile
  <2> QED BY <2>1 DEF AsciiInv, AsciiTypes, ReadSoFar
<1>2. CASE Ascii!OpenFile
  <2>1. /\ v9' = "parse" /\ v3' = 1 /\ v4' = <<>> /\ v5' = "none" /\ v6' = FALSE
        /\ v2 <= Len(v1) /\ ~File.skipped /\ UNCHANGED <<v1, v2>>
    BY <1>2 DEF Ascii!OpenFile, File
  <2>2. File' = File /\ FileLines' = FileLines
    BY <2>1 DEF File, FileLines
  <2>3. FileLines \in Seq(Ascii!Lines)
    BY <2>1, FileType DEF AsciiInv
  <2>4. 1 \in 1 .. Len(FileLines) + 1
    BY <2>3
  <2>5. AsciiTypes'
    <3>1. v4' \in Seq(Ascii!Texts) /\ v5' \in Ascii!Texts /\ v6' \in BOOLEAN
      BY <2>1, NoTexts
    <3> QED BY <2>1, <2>2, <2>4, <3>1 DEF AsciiInv, AsciiTypes
  <2>6. ReadSoFar'
    BY <2>1 DEF ReadSoFar, Fails
  <2> QED BY <2>5, <2>6 DEF AsciiInv
<1>3. CASE Ascii!ReadLine
  BY <1>3, ReadLineStep
<1>4. CASE Ascii!CheckText
  BY <1>4, CheckTextStep
<1>5. CASE Ascii!EndFile
  <2>1. /\ v9' = "file" /\ v2' = v2 + 1 /\ v5' = "none" /\ v6' = (v6 \/ Ascii!Printed)
        /\ UNCHANGED <<v1, v4>>
    BY <1>5 DEF Ascii!EndFile
  <2>2. v6' \in BOOLEAN
    BY <2>1
  <2> QED BY <2>1, <2>2 DEF AsciiInv, AsciiTypes, ReadSoFar, Ascii!Texts
<1>6. CASE Ascii!Exit
  <2>1. v9' = "exited" /\ UNCHANGED <<v1, v2, v4, v5, v6>>
    BY <1>6 DEF Ascii!Exit
  <2> QED BY <2>1 DEF AsciiInv, AsciiTypes, ReadSoFar
<1> QED BY <1>1, <1>2, <1>3, <1>4, <1>5, <1>6 DEF Ascii!Step

\* No other step gives a verdict.
LEMMA AsciiVerdict ==
  ASSUME AsciiInv, Ascii!Step
  PROVE  Ascii!VerdictOfFile
<1> SUFFICES ASSUME v9 = "parse", v9' = "file" PROVE v6' <=> Ascii!HoldsOther(v1[v2])
  BY DEF Ascii!VerdictOfFile
<1>1. Ascii!EndFile
  BY DEF Ascii!Step, Ascii!SkipFile, Ascii!OpenFile, Ascii!ReadLine, Ascii!CheckText, Ascii!Exit
<1> QED BY <1>1, EndFileVerdict DEF File

-----------------------------------------------------------------------------
\* element_chain.cpp.
\* The variables of ElementChain under their own names: v1 limitEveryCase, v2 selectOne,
\* v3 count, v4 used, v5 chain, v6 longestChain, v7 calls, v8 returned, v9 searches.

Distinct(c) == \A a, b \in 1 .. Len(c) : c[a] = c[b] => a = b
MembersOf(c) == {c[a] : a \in 1 .. Len(c)}

LEMMA MembersAre ==
  ASSUME NEW S, NEW c \in Seq(S)
  PROVE  Chain!ToSet(c) = MembersOf(c)
BY DEF Chain!ToSet, MembersOf

\* A sequence without its last element.
LEMMA FrontIs ==
  ASSUME NEW S, NEW s \in Seq(S), s # <<>>
  PROVE  /\ Chain!Front(s) \in Seq(S) /\ Len(Chain!Front(s)) = Len(s) - 1
         /\ Len(s) \in Nat \ {0}
         /\ \A a \in 1 .. Len(s) - 1 : Chain!Front(s)[a] = s[a]
<1>1. Len(s) \in Nat \ {0}
  OBVIOUS
<1>2. \A a \in 1 .. Len(s) - 1 : s[a] \in S
  BY <1>1
<1>3. Chain!Front(s) \in Seq(S)
  BY <1>1, <1>2 DEF Chain!Front
<1>4. Len(Chain!Front(s)) = Len(s) - 1
  <2> DEFINE n == Len(s) - 1
  <2>1. n \in Nat
    BY <1>1
  <2>2. 1 \in Int /\ \A a \in 1 .. n : s[a] \in S
    BY <1>1, <1>2
  <2> HIDE DEF n
  <2>3. Len(SubSeq(s, 1, n)) = IF 1 <= n THEN n - 1 + 1 ELSE 0
    BY <2>1, <2>2, SubSeqProperties
  <2>4. Len(SubSeq(s, 1, n)) = n
    BY <2>1, <2>3
  <2> QED BY <2>4 DEF n, Chain!Front
<1>5. \A a \in 1 .. Len(s) - 1 : Chain!Front(s)[a] = s[a]
  BY <1>1 DEF Chain!Front
<1> QED BY <1>1, <1>3, <1>4, <1>5

\* A chain that grows at its end.
LEMMA ChainGrows ==
  ASSUME NEW S, NEW c \in Seq(S), NEW e \in S, Distinct(c), Chain!Linked(c),
         e \notin MembersOf(c), c # <<>> => c[Len(c)].last = e.first
  PROVE  /\ Append(c, e) \in Seq(S) /\ Len(Append(c, e)) = Len(c) + 1
         /\ Distinct(Append(c, e)) /\ Chain!Linked(Append(c, e))
         /\ MembersOf(Append(c, e)) = MembersOf(c) \union {e}
<1> DEFINE d == Append(c, e)
<1>1. /\ d \in Seq(S) /\ Len(d) = Len(c) + 1 /\ Len(c) \in Nat
      /\ d[Len(c) + 1] = e /\ \A a \in 1 .. Len(c) : d[a] = c[a]
  OBVIOUS
<1>2. \A a \in 1 .. Len(d) : a \in 1 .. Len(c) \/ a = Len(c) + 1
  BY <1>1
<1> HIDE DEF d
<1>3. MembersOf(d) = MembersOf(c) \union {e}
  <2>1. Len(c) + 1 \in 1 .. Len(d) /\ 1 .. Len(c) \subseteq 1 .. Len(d)
    BY <1>1
  <2> QED BY <1>1, <1>2, <2>1 DEF MembersOf
<1>4. Distinct(d)
  <2>1. \A a \in 1 .. Len(c) : c[a] # e
    BY DEF MembersOf
  <2>2. ASSUME NEW a \in 1 .. Len(d), NEW b \in 1 .. Len(d), d[a] = d[b] PROVE a = b
    <3>1. CASE a \in 1 .. Len(c) /\ b \in 1 .. Len(c)
      BY <1>1, <2>2, <3>1 DEF Distinct
    <3>2. CASE a = Len(c) + 1 \/ b = Len(c) + 1
      BY <1>1, <1>2, <2>1, <2>2, <3>2
    <3> QED BY <1>2, <3>1, <3>2
  <2> QED BY <2>2 DEF Distinct
<1>5. Chain!Linked(d)
  <2>1. ASSUME NEW a \in 1 .. Len(d) - 1 PROVE d[a].last = d[a + 1].first
    <3>1. a \in 1 .. Len(c)
      BY <1>1
    <3>2. CASE a = Len(c)
      <4>1. c # <<>>
        BY <3>1, <3>2
      <4> QED BY <1>1, <3>1, <3>2, <4>1
    <3>3. CASE a # Len(c)
      <4>1. a \in 1 .. Len(c) - 1 /\ a + 1 \in 1 .. Len(c)
        BY <1>1, <3>1, <3>3
      <4> QED BY <1>1, <3>1, <4>1 DEF Chain!Linked
    <3> QED BY <3>2, <3>3
  <2> QED BY <2>1 DEF Chain!Linked
<1> QED BY <1>1, <1>3, <1>4, <1>5 DEF d

\* A chain whose last element is taken.
LEMMA ChainShrinks ==
  ASSUME NEW S, NEW c \in Seq(S), c # <<>>, Distinct(c), Chain!Linked(c)
  PROVE  /\ Chain!Front(c) \in Seq(S) /\ Len(Chain!Front(c)) = Len(c) - 1
         /\ Distinct(Chain!Front(c)) /\ Chain!Linked(Chain!Front(c))
         /\ MembersOf(Chain!Front(c)) = MembersOf(c) \ {Chain!Last(c)}
<1> DEFINE d == Chain!Front(c)
<1>1. /\ d \in Seq(S) /\ Len(d) = Len(c) - 1 /\ Len(c) \in Nat \ {0}
      /\ \A a \in 1 .. Len(c) - 1 : d[a] = c[a]
  BY FrontIs
<1> HIDE DEF d
<1>2. MembersOf(d) = MembersOf(c) \ {c[Len(c)]}
  <2>1. \A a \in 1 .. Len(c) : a \in 1 .. Len(c) - 1 \/ a = Len(c)
    BY <1>1
  <2>2. Len(c) \in 1 .. Len(c) /\ Len(c) \notin 1 .. Len(c) - 1 /\ 1 .. Len(c) - 1 \subseteq 1 .. Len(c)
    BY <1>1
  <2>3. \A a \in 1 .. Len(c) - 1 : c[a] # c[Len(c)]
    BY <2>2 DEF Distinct
  <2>4. MembersOf(d) = {c[a] : a \in 1 .. Len(c) - 1}
    BY <1>1 DEF MembersOf
  <2> QED BY <2>1, <2>2, <2>3, <2>4 DEF MembersOf
<1>3. Distinct(d)
  BY <1>1 DEF Distinct
<1>4. Chain!Linked(d)
  <2>1. \A a \in 1 .. Len(d) - 1 : a \in 1 .. Len(c) - 1 /\ a + 1 \in 1 .. Len(c) - 1
    BY <1>1
  <2> QED BY <1>1, <2>1 DEF Chain!Linked
<1> QED BY <1>1, <1>2, <1>3, <1>4 DEF d, Chain!Last

LEMMA DistinctNoneTwice ==
  ASSUME NEW S, NEW c \in Seq(S), Distinct(c)
  PROVE  Chain!NoneTwice(c)
<1>1. Len(c) \in Nat /\ c \in [1 .. Len(c) -> MembersOf(c)]
  BY DEF MembersOf
<1>2. c \in Bijection(1 .. Len(c), MembersOf(c))
  <2>1. \A a, b \in 1 .. Len(c) : c[a] = c[b] => a = b
    BY DEF Distinct
  <2>2. \A e \in MembersOf(c) : \E a \in 1 .. Len(c) : c[a] = e
    BY DEF MembersOf
  <2> QED BY <1>1, <2>1, <2>2, Fun_IsBij
<1>3. ExistsBijection(1 .. Len(c), MembersOf(c))
  BY <1>2 DEF ExistsBijection
<1>4. Cardinality(MembersOf(c)) = Len(c)
  BY <1>1, <1>3, FS_CountingElements
<1>5. Chain!Cardinality(MembersOf(c)) = Cardinality(MembersOf(c))
  BY DEF Chain!Cardinality, Cardinality
<1> QED BY <1>4, <1>5, MembersAre DEF Chain!NoneTwice

-----------------------------------------------------------------------------
Frames == [at : {"enter", "one", "loop"}, tried : Nat, aborted : BOOLEAN]

\* There is a frame for each element, and an element more when a call has just returned: its
\* destructor has still to run.
ChainTypes ==
  /\ v5 \in Seq(Symbols) /\ v6 \in Seq(Symbols)
  /\ v7 \in Seq(Frames)
  /\ v8 \in BOOLEAN \union {None}
  /\ Len(v5) = Len(v7) + (IF v8 = None THEN 0 ELSE 1)

\* No element comes twice, each links to the next, and used_ marks those of the chain.
ChainMarked == Distinct(v5) /\ Chain!Linked(v5) /\ v4 = MembersOf(v5)

\* What would follow the longest chain is in it.
LongestEnds ==
  /\ Distinct(v6) /\ Chain!Linked(v6)
  /\ v6 # <<>> => Chain!Successors(Chain!Last(v6)) \subseteq MembersOf(v6)

ChainInv == ChainTypes /\ ChainMarked /\ LongestEnds

LEMMA ChainConstants == None \notin BOOLEAN
BY SmallProgramsAssumption

LEMMA NoChain == <<>> \in Seq(Symbols) /\ Distinct(<<>>) /\ Chain!Linked(<<>>) /\ MembersOf(<<>>) = {}
<1>1. \A S : <<>> \in Seq(S)
  OBVIOUS
<1>2. Len(<<>>) = 0 /\ 1 .. 0 = {} /\ 1 .. 0 - 1 = {}
  OBVIOUS
<1> QED BY <1>1, <1>2 DEF Distinct, Chain!Linked, MembersOf

LEMMA EntryFrame == Chain!Entry \in Frames
BY DEF Chain!Entry, Frames

\* The stack grows by a call, with the frame of its caller replaced.
LEMMA StackGrows ==
  ASSUME NEW s \in Seq(Frames), s # <<>>, NEW frame \in Frames
  PROVE  /\ Chain!Front(s) \o <<frame, Chain!Entry>> \in Seq(Frames)
         /\ Len(Chain!Front(s) \o <<frame, Chain!Entry>>) = Len(s) + 1
<1>1. Chain!Front(s) \in Seq(Frames) /\ Len(Chain!Front(s)) = Len(s) - 1 /\ Len(s) \in Nat \ {0}
  BY FrontIs
<1> DEFINE e == Chain!Entry
<1>2. e \in Frames
  BY EntryFrame
<1> HIDE DEF e
<1>3. <<frame, e>> \in Seq(Frames) /\ Len(<<frame, e>>) = 2
  BY <1>2
<1>4. Chain!Front(s) \o <<frame, e>> \in Seq(Frames)
      /\ Len(Chain!Front(s) \o <<frame, e>>) = Len(s) + 1
  BY <1>1, <1>3
<1> QED BY <1>4 DEF e

LEMMA StackShrinks ==
  ASSUME NEW s \in Seq(Frames), s # <<>>
  PROVE  Chain!Front(s) \in Seq(Frames) /\ Len(Chain!Front(s)) = Len(s) - 1
BY FrontIs

LEMMA TopFrame ==
  ASSUME ChainTypes, v7 # <<>>
  PROVE  Chain!Top \in Frames /\ Len(v7) \in Nat \ {0} /\ Chain!Top = v7[Len(v7)]
<1>1. Len(v7) \in Nat \ {0} /\ v7[Len(v7)] \in Frames
  BY DEF ChainTypes
<1> QED BY <1>1 DEF Chain!Top, Chain!Last

LEMMA ChainInit == Chain!Init => ChainInv
<1> SUFFICES ASSUME Chain!Init PROVE ChainInv
  OBVIOUS
<1>1. v4 = {} /\ v5 = <<>> /\ v6 = <<>> /\ v7 = <<>> /\ v8 = None
  BY DEF Chain!Init
<1>2. v7 \in Seq(Frames) /\ Len(v7) = 0 /\ Len(v5) = 0
  BY <1>1
<1> QED BY <1>1, <1>2, NoChain DEF ChainInv, ChainTypes, ChainMarked, LongestEnds

LEMMA SearchStep ==
  ASSUME ChainInv, Chain!Search
  PROVE  ChainInv'
<1>1. PICK e \in Symbols : v4' = v4 \union {e} /\ v5' = Append(v5, e)
  BY DEF Chain!Search
<1>2. v7 = <<>> /\ v8 = None /\ v7' = <<Chain!Entry>> /\ v6' = v6 /\ v8' = v8
  BY DEF Chain!Search
<1>3. v5 = <<>>
  BY <1>2 DEF ChainInv, ChainTypes
<1>4. /\ v5' \in Seq(Symbols) /\ Len(v5') = Len(v5) + 1
      /\ Distinct(v5') /\ Chain!Linked(v5') /\ MembersOf(v5') = MembersOf(v5) \union {e}
  <2>1. /\ v5 \in Seq(Symbols) /\ Distinct(v5) /\ Chain!Linked(v5) /\ e \notin MembersOf(v5)
        /\ (v5 # <<>> => v5[Len(v5)].last = e.first)
    BY <1>3, NoChain
  <2> QED BY <1>1, <2>1, ChainGrows
<1>5. v7' \in Seq(Frames) /\ Len(v7') = 1
  <2> DEFINE first == Chain!Entry
  <2>1. first \in Frames /\ v7' = <<first>>
    BY <1>2, EntryFrame
  <2> HIDE DEF first
  <2> QED BY <2>1
<1>6. ChainTypes'
  <2>1. Len(v5) = 0
    BY <1>3
  <2> QED BY <1>2, <1>4, <1>5, <2>1 DEF ChainInv, ChainTypes
<1>7. ChainMarked' /\ LongestEnds'
  <2>1. ChainMarked'
    BY <1>1, <1>4 DEF ChainInv, ChainMarked, Chain!Linked
  <2>2. LongestEnds'
    BY <1>2 DEF ChainInv, LongestEnds, Chain!Linked, Chain!Successors, Chain!Last
  <2> QED BY <2>1, <2>2
<1> QED BY <1>6, <1>7 DEF ChainInv

LEMMA EndSearchStep ==
  ASSUME ChainInv, Chain!EndSearch
  PROVE  ChainInv'
<1>1. v7 = <<>> /\ v7' = v7 /\ v8' = None /\ v4' = {} /\ v5' = <<>> /\ v6' = v6
  BY DEF Chain!EndSearch
<1>2. Len(v7') = 0 /\ Len(v5') = 0
  BY <1>1
<1>3. ChainTypes'
  BY <1>1, <1>2, NoChain DEF ChainInv, ChainTypes
<1>4. ChainMarked'
  BY <1>1, NoChain DEF ChainMarked, Chain!Linked
<1>5. LongestEnds'
  BY <1>1 DEF ChainInv, LongestEnds, Chain!Linked, Chain!Successors, Chain!Last
<1> QED BY <1>3, <1>4, <1>5 DEF ChainInv

\* A call returns and leaves the chain to the destructor.
LEMMA ReturnStep ==
  ASSUME ChainInv, v7 # <<>>, v8 = None, NEW aborted \in BOOLEAN, Chain!Return(aborted),
         v4' = v4, v5' = v5, v6' = v6
  PROVE  ChainInv'
<1>1. v7' = Chain!Front(v7) /\ v8' = aborted
  BY DEF Chain!Return
<1>2. v7' \in Seq(Frames) /\ Len(v7') = Len(v7) - 1 /\ Len(v7) \in Nat
  BY <1>1, StackShrinks DEF ChainInv, ChainTypes
<1>3. ChainTypes'
  BY <1>1, <1>2, ChainConstants DEF ChainInv, ChainTypes
<1>4. ChainMarked' /\ LongestEnds'
  BY DEF ChainInv, ChainMarked, LongestEnds, Chain!Linked, Chain!Successors, Chain!Last
<1> QED BY <1>3, <1>4 DEF ChainInv

\* A call is made for an element that is not in the chain and can come next.
LEMMA AddStep ==
  ASSUME ChainInv, v7 # <<>>, v8 = None, NEW e \in Symbols,
         e \in Chain!Successors(Chain!Last(v5)), e \notin v4,
         NEW frame \in Frames, Chain!Add(e, frame), v6' = v6, v8' = v8
  PROVE  ChainInv'
<1>1. /\ v4' = v4 \union {e} /\ v5' = Append(v5, e)
      /\ v7' = Chain!Front(v7) \o <<frame, Chain!Entry>>
  BY DEF Chain!Add
<1>2. v5[Len(v5)].last = e.first
  BY DEF Chain!Successors, Chain!Last
<1>3. /\ v5' \in Seq(Symbols) /\ Len(v5') = Len(v5) + 1
      /\ Distinct(v5') /\ Chain!Linked(v5') /\ MembersOf(v5') = MembersOf(v5) \union {e}
  BY <1>1, <1>2, ChainGrows DEF ChainInv, ChainTypes, ChainMarked
<1>4. v7' \in Seq(Frames) /\ Len(v7') = Len(v7) + 1 /\ Len(v7) \in Nat
  BY <1>1, StackGrows DEF ChainInv, ChainTypes
<1>5. ChainTypes'
  BY <1>3, <1>4 DEF ChainInv, ChainTypes
<1>6. ChainMarked'
  BY <1>1, <1>3 DEF ChainInv, ChainMarked, Chain!Linked
<1>7. LongestEnds'
  BY DEF ChainInv, LongestEnds, Chain!Linked, Chain!Successors, Chain!Last
<1> QED BY <1>5, <1>6, <1>7 DEF ChainInv

LEMMA AddOneLetterStep ==
  ASSUME ChainInv, Chain!AddOneLetter
  PROVE  ChainInv'
<1>1. v7 # <<>> /\ v8 = None /\ v6' = v6 /\ v8' = v8
  BY DEF Chain!AddOneLetter, Chain!Running
<1>2. PICK e \in Chain!NextOne \ v4 : Chain!Add(e, [Chain!Top EXCEPT !.at = "one"])
  BY DEF Chain!AddOneLetter
<1>3. e \in Chain!Successors(Chain!Last(v5)) /\ e \in Symbols /\ e \notin v4
  BY <1>2 DEF Chain!NextOne, Chain!Successors
<1>4. [Chain!Top EXCEPT !.at = "one"] \in Frames
  <2>1. Chain!Top \in Frames
    BY <1>1, TopFrame DEF ChainInv
  <2> QED BY <2>1 DEF Frames
<1> QED BY <1>1, <1>2, <1>3, <1>4, AddStep

\* The frame of the call that runs is replaced.
LEMMA FrameStep ==
  ASSUME ChainInv, v7 # <<>>, v7' \in Seq(Frames), Len(v7') = Len(v7),
         v4' = v4, v5' = v5, v6' = v6, v8' = v8
  PROVE  ChainInv'
<1>1. ChainTypes'
  BY DEF ChainInv, ChainTypes
<1>2. ChainMarked' /\ LongestEnds'
  BY DEF ChainInv, ChainMarked, LongestEnds, Chain!Linked, Chain!Successors, Chain!Last
<1> QED BY <1>1, <1>2 DEF ChainInv

LEMMA FrameReplaced ==
  ASSUME NEW s \in Seq(Frames), s # <<>>, NEW frame \in Frames
  PROVE  /\ [s EXCEPT ![Len(s)] = frame] \in Seq(Frames)
         /\ Len([s EXCEPT ![Len(s)] = frame]) = Len(s)
         /\ Append(Chain!Front(s), frame) \in Seq(Frames)
         /\ Len(Append(Chain!Front(s), frame)) = Len(s)
<1>1. Chain!Front(s) \in Seq(Frames) /\ Len(Chain!Front(s)) = Len(s) - 1 /\ Len(s) \in Nat \ {0}
  BY FrontIs
<1>2. Append(Chain!Front(s), frame) \in Seq(Frames) /\ Len(Append(Chain!Front(s), frame)) = Len(s)
  BY <1>1
<1> QED BY <1>2

LEMMA StartLoopStep ==
  ASSUME ChainInv, Chain!StartLoop
  PROVE  ChainInv'
<1>1. /\ v7 # <<>> /\ v8 = None /\ v7' = [v7 EXCEPT ![Len(v7)].at = "loop"]
      /\ v4' = v4 /\ v5' = v5 /\ v6' = v6 /\ v8' = v8
  BY DEF Chain!StartLoop, Chain!Running
<1>2. v7[Len(v7)] \in Frames
  BY <1>1, TopFrame DEF ChainInv
<1> DEFINE frame == [v7[Len(v7)] EXCEPT !.at = "loop"]
<1>3. frame \in Frames
  BY <1>2 DEF Frames
<1>4. v7' = [v7 EXCEPT ![Len(v7)] = frame]
  BY <1>1
<1> HIDE DEF frame
<1>5. v7' \in Seq(Frames) /\ Len(v7') = Len(v7)
  <2>1. v7 \in Seq(Frames)
    BY DEF ChainInv, ChainTypes
  <2> QED BY <1>1, <1>3, <1>4, <2>1, FrameReplaced
<1> QED BY <1>1, <1>5, FrameStep

LEMMA IterateStep ==
  ASSUME ChainInv, Chain!Iterate
  PROVE  ChainInv'
<1>1. v7 # <<>> /\ v8 = None /\ v6' = v6 /\ v8' = v8
  BY DEF Chain!Iterate, Chain!Running
<1> DEFINE frame == [Chain!Top EXCEPT !.tried = @ + 1]
<1>2. frame \in Frames
  <2>1. Chain!Top \in Frames
    BY <1>1, TopFrame DEF ChainInv
  <2> QED BY <2>1 DEF Frames
<1>3. PICK e \in Chain!NextTwo :
        IF e \in v4
        THEN v7' = Append(Chain!Front(v7), frame) /\ UNCHANGED <<v4, v5>>
        ELSE Chain!Add(e, frame)
  BY DEF Chain!Iterate
<1>4. e \in Chain!Successors(Chain!Last(v5)) /\ e \in Symbols
  BY <1>3 DEF Chain!NextTwo, Chain!Successors
<1> HIDE DEF frame
<1>5. CASE e \in v4
  <2>1. v7' \in Seq(Frames) /\ Len(v7') = Len(v7) /\ v4' = v4 /\ v5' = v5
    BY <1>1, <1>2, <1>3, <1>5, FrameReplaced DEF ChainInv, ChainTypes
  <2> QED BY <1>1, <2>1, FrameStep
<1>6. CASE e \notin v4
  BY <1>1, <1>2, <1>3, <1>4, <1>6, AddStep
<1> QED BY <1>5, <1>6

\* The chain is judged where none can come next but those that are in it.
LEMMA DeadEndStep ==
  ASSUME ChainInv, Chain!DeadEnd
  PROVE  ChainInv'
<1>1. /\ v7 # <<>> /\ v8 = None /\ v4' = v4 /\ v5' = v5 /\ Chain!Return(FALSE)
      /\ Chain!NextOne \subseteq v4 /\ Chain!NextTwo = {}
      /\ v6' = v5 \/ v6' = v6
  BY DEF Chain!DeadEnd, Chain!Running
<1>2. CASE v6' = v6
  BY <1>1, <1>2, ReturnStep
<1>3. CASE v6' = v5
  <2>1. v7' = Chain!Front(v7) /\ v8' = FALSE
    BY <1>1 DEF Chain!Return
  <2>2. v7' \in Seq(Frames) /\ Len(v7') = Len(v7) - 1 /\ Len(v7) \in Nat
    BY <1>1, <2>1, StackShrinks DEF ChainInv, ChainTypes
  <2>3. ChainTypes'
    <3>1. v8' # None /\ v8' \in BOOLEAN
      BY <2>1, ChainConstants
    <3> QED BY <1>1, <1>3, <2>2, <3>1 DEF ChainInv, ChainTypes
  <2>4. ChainMarked'
    BY <1>1 DEF ChainInv, ChainMarked, Chain!Linked
  <2>5. Chain!Successors(Chain!Last(v5)) \subseteq MembersOf(v5)
    BY <1>1 DEF ChainInv, ChainMarked, Chain!NextOne, Chain!NextTwo
  <2>6. LongestEnds'
    BY <1>3, <2>5 DEF ChainInv, ChainMarked, LongestEnds, Chain!Linked, Chain!Successors, Chain!Last
  <2> QED BY <2>3, <2>4, <2>6 DEF ChainInv
<1> QED BY <1>1, <1>2, <1>3

\* The destructor takes the last element.
LEMMA ResumeStep ==
  ASSUME ChainInv, Chain!Resume
  PROVE  ChainInv'
<1>1. /\ v7 # <<>> /\ v8 # None /\ v6' = v6
      /\ v4' = v4 \ {Chain!Last(v5)} /\ v5' = Chain!Front(v5)
  BY DEF Chain!Resume, Chain!Undo
<1>2. /\ v8 \in BOOLEAN /\ Len(v5) = Len(v7) + 1 /\ v7 \in Seq(Frames) /\ Len(v7) \in Nat
      /\ v5 \in Seq(Symbols) /\ v5 # <<>>
  BY <1>1 DEF ChainInv, ChainTypes
<1>3. /\ v5' \in Seq(Symbols) /\ Len(v5') = Len(v5) - 1
      /\ Distinct(v5') /\ Chain!Linked(v5') /\ MembersOf(v5') = MembersOf(v5) \ {Chain!Last(v5)}
  BY <1>1, <1>2, ChainShrinks DEF ChainInv, ChainMarked
<1> DEFINE aborted == Chain!Top.aborted \/ v8
<1>4. v7[Len(v7)] \in Frames /\ Chain!Top \in Frames
  BY <1>1, TopFrame DEF ChainInv
<1>5. aborted \in BOOLEAN
  OBVIOUS
<1>6. \/ v7' = Chain!Front(v7) /\ v8' = aborted
      \/ v7' = [v7 EXCEPT ![Len(v7)].aborted = aborted] /\ v8' = None
  BY DEF Chain!Resume, Chain!Return
<1> HIDE DEF aborted
<1>7. v7' \in Seq(Frames) /\ v8' \in BOOLEAN \union {None}
      /\ Len(v7') + (IF v8' = None THEN 0 ELSE 1) = Len(v7)
  <2>1. CASE v7' = Chain!Front(v7) /\ v8' = aborted
    <3>1. v7' \in Seq(Frames) /\ Len(v7') = Len(v7) - 1
      BY <1>1, <1>2, <2>1, StackShrinks
    <3> QED BY <1>2, <1>5, <2>1, <3>1, ChainConstants
  <2>2. CASE v7' = [v7 EXCEPT ![Len(v7)].aborted = aborted] /\ v8' = None
    <3> DEFINE frame == [v7[Len(v7)] EXCEPT !.aborted = aborted]
    <3>1. frame \in Frames
      BY <1>4, <1>5 DEF Frames
    <3>2. v7' = [v7 EXCEPT ![Len(v7)] = frame]
      BY <2>2
    <3> HIDE DEF frame
    <3>3. v7' \in Seq(Frames) /\ Len(v7') = Len(v7)
      BY <1>1, <1>2, <3>1, <3>2, FrameReplaced
    <3> QED BY <1>2, <2>2, <3>3
  <2> QED BY <1>6, <2>1, <2>2
<1>8. ChainTypes'
  <2>1. Len(v5') = Len(v7)
    BY <1>2, <1>3
  <2> QED BY <1>1, <1>3, <1>7, <2>1 DEF ChainInv, ChainTypes
<1>9. ChainMarked'
  BY <1>1, <1>3 DEF ChainInv, ChainMarked, Chain!Linked
<1>10. LongestEnds'
  BY <1>1 DEF ChainInv, LongestEnds, Chain!Linked, Chain!Successors, Chain!Last
<1> QED BY <1>8, <1>9, <1>10 DEF ChainInv

LEMMA ChainStep == ChainInv /\ Chain!Step => ChainInv'
<1> SUFFICES ASSUME ChainInv, Chain!Step PROVE ChainInv'
  OBVIOUS
<1>1. CASE Chain!Search
  BY <1>1, SearchStep
<1>2. CASE Chain!EndSearch
  BY <1>2, EndSearchStep
<1>3. CASE Chain!Abort
  <2>1. /\ v7 # <<>> /\ v8 = None /\ v4' = v4 /\ v5' = v5 /\ v6' = v6 /\ Chain!Return(TRUE)
    BY <1>3 DEF Chain!Abort, Chain!Running
  <2> QED BY <2>1, ReturnStep
<1>4. CASE Chain!AddOneLetter
  BY <1>4, AddOneLetterStep
<1>5. CASE Chain!StartLoop
  BY <1>5, StartLoopStep
<1>6. CASE Chain!DeadEnd
  BY <1>6, DeadEndStep
<1>7. CASE Chain!Iterate
  BY <1>7, IterateStep
<1>8. CASE Chain!EndLoop
  <2>1. /\ v7 # <<>> /\ v8 = None /\ v4' = v4 /\ v5' = v5 /\ v6' = v6
        /\ Chain!Return(Chain!Top.aborted)
    BY <1>8 DEF Chain!EndLoop, Chain!Running
  <2>2. Chain!Top \in Frames
    BY <2>1, TopFrame DEF ChainInv
  <2>3. Chain!Top.aborted \in BOOLEAN
    BY <2>2 DEF Frames
  <2> QED BY <2>1, <2>3, ReturnStep
<1>9. CASE Chain!Resume
  BY <1>9, ResumeStep
<1> QED BY <1>1, <1>2, <1>3, <1>4, <1>5, <1>6, <1>7, <1>8, <1>9 DEF Chain!Step

LEMMA ChainResults == ChainInv => Chain!ChainsLinked
<1> SUFFICES ASSUME ChainInv PROVE Chain!ChainsLinked
  OBVIOUS
<1>1. v5 \in Seq(Symbols) /\ v6 \in Seq(Symbols)
  BY DEF ChainInv, ChainTypes
<1>2. Chain!ToSet(v5) = MembersOf(v5) /\ Chain!ToSet(v6) = MembersOf(v6)
  BY <1>1, MembersAre
<1>3. Chain!NoneTwice(v5) /\ Chain!NoneTwice(v6)
  BY <1>1, DistinctNoneTwice DEF ChainInv, ChainMarked, LongestEnds
<1>4. v7 = <<>> /\ v8 = None => v5 = <<>>
  BY <1>1 DEF ChainInv, ChainTypes
<1> QED BY <1>2, <1>3, <1>4 DEF ChainInv, ChainMarked, LongestEnds, Chain!ChainsLinked

-----------------------------------------------------------------------------
\* The increments that have been made, as pairs of a thread and a number.
Made(threads, count, done) == {p \in threads \X (1 .. count) : p[2] <= done[p[1]]}

LEMMA MadeFinite ==
  ASSUME NEW threads, IsFiniteSet(threads), NEW count \in Nat, NEW done
  PROVE  /\ IsFiniteSet(Made(threads, count, done))
         /\ Cardinality(Made(threads, count, done)) \in Nat
<1>1. IsFiniteSet(1 .. count)
  BY FS_Interval
<1>2. IsFiniteSet(threads \X (1 .. count))
  BY <1>1, FS_Product
<1>3. Made(threads, count, done) \subseteq threads \X (1 .. count)
  BY DEF Made
<1> QED BY <1>2, <1>3, FS_Subset, FS_CardinalityType

\* A thread makes one more.
OneMore(threads, done, t, next) ==
  next = [u \in threads |-> IF u = t THEN done[t] + 1 ELSE done[u]]

LEMMA MadeOneMore ==
  ASSUME NEW threads, IsFiniteSet(threads), NEW count \in Nat,
         NEW done \in [threads -> 0 .. count], NEW t \in threads, done[t] < count,
         NEW next, OneMore(threads, done, t, next)
  PROVE  /\ next \in [threads -> 0 .. count]
         /\ Cardinality(Made(threads, count, next)) = Cardinality(Made(threads, count, done)) + 1
<1> DEFINE new == <<t, done[t] + 1>>
<1>1. next \in [threads -> 0 .. count]
  BY DEF OneMore
<1>2. new \in threads \X (1 .. count) /\ new \notin Made(threads, count, done)
  BY DEF Made
<1>3. Made(threads, count, next) = Made(threads, count, done) \union {new}
  <2>1. ASSUME NEW u \in threads, NEW k \in 1 .. count
        PROVE  k <= next[u] <=> k <= done[u] \/ (u = t /\ k = done[t] + 1)
    BY DEF OneMore
  <2>2. ASSUME NEW p \in threads \X (1 .. count)
        PROVE  p[2] <= next[p[1]] <=> p[2] <= done[p[1]] \/ p = new
    <3>1. p = <<p[1], p[2]>> /\ p[1] \in threads /\ p[2] \in 1 .. count
      OBVIOUS
    <3>2. p = new <=> p[1] = t /\ p[2] = done[t] + 1
      BY <3>1
    <3> HIDE DEF new
    <3> QED BY <2>1, <3>1, <3>2
  <2> HIDE DEF new
  <2> QED BY <1>2, <2>2 DEF Made
<1>4. Cardinality(Made(threads, count, done) \union {new}) = Cardinality(Made(threads, count, done)) + 1
  BY <1>2, MadeFinite, FS_AddElement
<1> QED BY <1>1, <1>3, <1>4

LEMMA MadeNone ==
  ASSUME NEW threads, NEW count \in Nat, NEW done, \A t \in threads : done[t] = 0
  PROVE  Cardinality(Made(threads, count, done)) = 0
<1>1. Made(threads, count, done) = {}
  BY DEF Made
<1> QED BY <1>1, FS_EmptySet

LEMMA MadeAll ==
  ASSUME NEW threads, IsFiniteSet(threads), NEW count \in Nat, NEW done,
         \A t \in threads : done[t] = count
  PROVE  Cardinality(Made(threads, count, done)) = Cardinality(threads) * count
<1>1. Made(threads, count, done) = threads \X (1 .. count)
  BY DEF Made
<1>2. IsFiniteSet(1 .. count) /\ Cardinality(1 .. count) = count
  BY FS_Interval
<1> QED BY <1>1, <1>2, FS_Product

-----------------------------------------------------------------------------
\* A counter that threads increment by a load and a store. done are the increments that each
\* has made, loaded are the threads between load and store.
Lossy(threads, count, counter, done, loaded, register) ==
  LET made == Cardinality(Made(threads, count, done))
  IN  /\ counter \in 0 .. made
      /\ \A t \in loaded : register[t] \in 0 .. made /\ done[t] < count
      \* Who has made an increment has left a one at least, and so has whoever overwrote it.
      /\ (\E t \in threads : done[t] > 0) => counter >= 1
      /\ \A t \in loaded : done[t] > 0 => register[t] >= 1
      /\ count >= 2 /\ (\A t \in threads : done[t] = count) => counter >= 2
      \* One thread alone loses nothing.
      /\ \A t : threads = {t} => counter = done[t] /\ (t \in loaded => register[t] = counter)

LEMMA LossyStart ==
  ASSUME NEW threads, IsFiniteSet(threads), threads # {}, NEW count \in Nat \ {0}, NEW register,
         NEW done, \A t \in threads : done[t] = 0
  PROVE  Lossy(threads, count, 0, done, {}, register)
<1>1. Cardinality(Made(threads, count, done)) = 0
  BY MadeNone
<1> QED BY <1>1 DEF Lossy

\* A load, which has the value of the counter, and whatever else happens to registers that
\* hold nothing of this counter.
LEMMA LossyLoad ==
  ASSUME NEW threads, IsFiniteSet(threads), NEW count \in Nat \ {0}, NEW counter,
         NEW done \in [threads -> 0 .. count], NEW loaded, NEW register, NEW t \in threads,
         Lossy(threads, count, counter, done, loaded, register), done[t] < count,
         NEW registers, registers[t] = counter, \A u \in loaded \ {t} : registers[u] = register[u]
  PROVE  Lossy(threads, count, counter, done, loaded \union {t}, registers)
BY DEF Lossy

LEMMA LossyKept ==
  ASSUME NEW threads, NEW count, NEW counter, NEW done, NEW loaded, NEW register,
         Lossy(threads, count, counter, done, loaded, register),
         NEW registers, \A u \in loaded : registers[u] = register[u]
  PROVE  Lossy(threads, count, counter, done, loaded, registers)
BY DEF Lossy

LEMMA LossyStore ==
  ASSUME NEW threads, IsFiniteSet(threads), NEW count \in Nat \ {0}, NEW counter,
         NEW done \in [threads -> 0 .. count], NEW loaded, NEW register, NEW t \in threads,
         Lossy(threads, count, counter, done, loaded, register), t \in loaded,
         loaded \subseteq threads,
         NEW next, OneMore(threads, done, t, next)
  PROVE  Lossy(threads, count, register[t] + 1, next, loaded \ {t}, register)
<1> DEFINE made == Cardinality(Made(threads, count, done))
<1>1. done[t] < count /\ made \in Nat /\ register[t] \in 0 .. made
  BY MadeFinite DEF Lossy
<1>2. next \in [threads -> 0 .. count] /\ Cardinality(Made(threads, count, next)) = made + 1
  BY <1>1, MadeOneMore
<1>3. next[t] = done[t] + 1 /\ \A u \in threads : u # t => next[u] = done[u]
  BY DEF OneMore
<1>4. \A u \in loaded : register[u] \in 0 .. made /\ done[u] < count
  BY DEF Lossy
<1>5. \A u \in loaded : done[u] > 0 => register[u] >= 1
  BY DEF Lossy
<1>6. threads = {t} => register[t] = done[t]
  BY DEF Lossy
<1> HIDE DEF made
<1>7. count >= 2 /\ (\A u \in threads : next[u] = count) => register[t] + 1 >= 2
  BY <1>1, <1>3, <1>5
<1>8. \A u \in loaded \ {t} : next[u] = done[u] /\ register[u] \in 0 .. made + 1
  BY <1>1, <1>3, <1>4
<1>9. \A u : threads = {u} => register[t] + 1 = next[u] /\ u \notin loaded \ {t}
  BY <1>3, <1>6
<1>10. register[t] + 1 \in 0 .. made + 1 /\ register[t] + 1 >= 1
  BY <1>1
<1> QED BY <1>2, <1>4, <1>5, <1>7, <1>8, <1>9, <1>10 DEF Lossy

-----------------------------------------------------------------------------
\* What the proofs need to know of the constants.
LEMMA CountersConstants == IsFiniteSet(Threads) /\ MaxCount \in Nat
BY SmallProgramsAssumption

PlainLoop == {"load", "store"}
VolatileLoop == {"load_volatile", "store_volatile", "add_atomic"}

CountersTypes ==
  /\ v1 \subseteq Threads /\ v1 # {} /\ IsFiniteSet(v1)
  /\ v2 \in Nat \ {0}
  /\ v3 \in BOOLEAN
  /\ v7 \in [v1 -> 0 .. v2]
  /\ v9 \in [v1 -> PlainLoop \union VolatileLoop \union {"done"}]
  /\ \A t \in v1 : IF v9[t] = "done" THEN v7[t] = v2 ELSE v7[t] < v2
  /\ DOMAIN v8 = v1

\* What each thread has done of each counter.
PlainMade == [t \in v1 |-> IF v9[t] \in PlainLoop THEN v7[t] ELSE v2]
AtomicMade == [t \in v1 |-> IF v9[t] \in PlainLoop THEN 0 ELSE v7[t]]
VolatileMade ==
  [t \in v1 |-> IF v9[t] \in PlainLoop THEN 0
                ELSE IF v9[t] = "add_atomic" THEN v7[t] + 1 ELSE v7[t]]

PlainLoaded == {t \in v1 : v9[t] = "store"}
VolatileLoaded == {t \in v1 : v9[t] = "store_volatile"}

\* Threads that have added all their increments of the plain counter at once.
Gathered == {t \in v1 : v9[t] \notin PlainLoop}
Multiple(from, to, x) == \E k \in from .. to : x = k * v2

PlainCounter ==
  IF v3
  THEN /\ Multiple(IF Gathered = {} THEN 0 ELSE 1, Cardinality(Gathered), v4)
       /\ \A t \in PlainLoaded : Multiple(0, Cardinality(Gathered), v8[t])
  ELSE Lossy(v1, v2, v4, PlainMade, PlainLoaded, v8)

VolatileCounter == Lossy(v1, v2, v5, VolatileMade, VolatileLoaded, v8)
AtomicCounter == v6 = Cardinality(Made(v1, v2, AtomicMade))

CountersInv == CountersTypes /\ PlainCounter /\ VolatileCounter /\ AtomicCounter

LEMMA CountersInit == Counter!Init => CountersInv
<1> SUFFICES ASSUME Counter!Init PROVE CountersInv
  OBVIOUS
<1>1. CountersTypes
  <2>1. v1 \subseteq Threads /\ v1 # {} /\ IsFiniteSet(v1)
    BY CountersConstants, FS_Subset DEF Counter!Init
  <2>2. v2 \in Nat \ {0}
    BY CountersConstants DEF Counter!Init
  <2> QED BY <2>1, <2>2 DEF Counter!Init, CountersTypes, PlainLoop
<1>2. /\ v1 # {} /\ IsFiniteSet(v1) /\ v2 \in Nat \ {0} /\ v4 = 0 /\ v5 = 0 /\ v6 = 0
      /\ \A t \in v1 : v9[t] = "load" /\ v7[t] = 0
  BY <1>1 DEF Counter!Init, CountersTypes
<1>3. /\ \A t \in v1 : PlainMade[t] = 0 /\ AtomicMade[t] = 0 /\ VolatileMade[t] = 0
      /\ PlainLoaded = {} /\ VolatileLoaded = {} /\ Gathered = {}
  BY <1>2 DEF PlainMade, AtomicMade, VolatileMade, PlainLoaded, VolatileLoaded, Gathered, PlainLoop
<1>4. AtomicCounter
  BY <1>2, <1>3, MadeNone DEF AtomicCounter
<1>5. VolatileCounter
  BY <1>2, <1>3, LossyStart DEF VolatileCounter
<1>6. PlainCounter
  <2>1. Multiple(0, Cardinality(Gathered), 0)
    <3>1. Cardinality(Gathered) = 0 /\ 0 = 0 * v2
      BY <1>2, <1>3, FS_EmptySet
    <3> QED BY <3>1 DEF Multiple
  <2>2. Lossy(v1, v2, v4, PlainMade, PlainLoaded, v8)
    BY <1>2, <1>3, LossyStart
  <2> QED BY <1>2, <1>3, <2>1, <2>2 DEF PlainCounter
<1> QED BY <1>1, <1>4, <1>5, <1>6 DEF CountersInv

LEMMA MadeTypes ==
  ASSUME CountersTypes
  PROVE  /\ PlainMade \in [v1 -> 0 .. v2]
         /\ AtomicMade \in [v1 -> 0 .. v2]
         /\ VolatileMade \in [v1 -> 0 .. v2]
         /\ \A t \in v1 : VolatileMade[t] = v2 => v9[t] \in {"add_atomic", "done"}
BY DEF CountersTypes, PlainMade, AtomicMade, VolatileMade, PlainLoop, VolatileLoop


\* What a step of a thread leaves of a function of the threads.
LEMMA OthersAt ==
  ASSUME CountersTypes, NEW t \in v1, NEW label, v9' = [v9 EXCEPT ![t] = label]
  PROVE  v9'[t] = label /\ \A u \in v1 : u # t => v9'[u] = v9[u]
BY DEF CountersTypes

LEMMA OthersLoaded ==
  ASSUME CountersTypes, NEW t \in v1, NEW x, v8' = [v8 EXCEPT ![t] = x]
  PROVE  v8'[t] = x /\ \A u \in v1 : u # t => v8'[u] = v8[u]
BY DEF CountersTypes

\* A thread loads the plain counter.
LEMMA LoadStep ==
  ASSUME CountersInv, NEW t \in v1, Counter!Load(t)
  PROVE  CountersInv'
<1>1. /\ v9[t] = "load"
      /\ v8' = [v8 EXCEPT ![t] = v4] /\ v9' = [v9 EXCEPT ![t] = "store"]
      /\ UNCHANGED <<v1, v2, v3, v4, v5, v6, v7>>
  BY DEF Counter!Load, Counter!Go, Counter!parameters, Counter!counters
<1>2. CountersTypes
  BY DEF CountersInv
<1>3. v9'[t] = "store" /\ \A u \in v1 : u # t => v9'[u] = v9[u]
  BY <1>1, <1>2, OthersAt
<1>4. v8'[t] = v4 /\ \A u \in v1 : u # t => v8'[u] = v8[u]
  BY <1>1, <1>2, OthersLoaded
<1>5. CountersTypes'
  <2>1. v9' \in [v1 -> PlainLoop \union VolatileLoop \union {"done"}] /\ DOMAIN v8' = v1
    BY <1>1, <1>2 DEF CountersTypes, PlainLoop
  <2>2. \A u \in v1 : IF v9'[u] = "done" THEN v7[u] = v2 ELSE v7[u] < v2
    BY <1>1, <1>2, <1>3 DEF CountersTypes
  <2> QED BY <1>1, <1>2, <2>1, <2>2 DEF CountersTypes
<1>6. PlainMade' = PlainMade /\ AtomicMade' = AtomicMade /\ Gathered' = Gathered
  BY <1>1, <1>3 DEF PlainMade, AtomicMade, Gathered, PlainLoop
<1>7. VolatileMade' = VolatileMade /\ VolatileLoaded' = VolatileLoaded /\ t \notin VolatileLoaded
  BY <1>1, <1>3 DEF VolatileMade, VolatileLoaded, PlainLoop
<1>8. PlainLoaded' = PlainLoaded \union {t}
  BY <1>1, <1>3 DEF PlainLoaded
<1>9. PlainMade[t] < v2
  BY <1>1, <1>2 DEF PlainMade, CountersTypes, PlainLoop
<1>10. PlainCounter'
  <2>1. CASE v3
    <3>1. Cardinality(Gathered) \in Nat
      BY <1>2, FS_Subset, FS_CardinalityType DEF CountersTypes, Gathered
    <3>2. Multiple(IF Gathered = {} THEN 0 ELSE 1, Cardinality(Gathered), v4)
      BY <2>1 DEF CountersInv, PlainCounter
    <3>3. Multiple(0, Cardinality(Gathered), v4)
      BY <3>1, <3>2 DEF Multiple
    <3>4. \A u \in PlainLoaded \union {t} : Multiple(0, Cardinality(Gathered), v8'[u])
      BY <1>4, <2>1, <3>3 DEF CountersInv, PlainCounter, PlainLoaded
    <3> QED BY <1>1, <1>6, <1>8, <2>1, <3>2, <3>4 DEF PlainCounter, Multiple
  <2>2. CASE ~v3
    <3>1. Lossy(v1, v2, v4, PlainMade, PlainLoaded, v8)
      BY <2>2 DEF CountersInv, PlainCounter
    <3>2. \A u \in PlainLoaded \ {t} : v8'[u] = v8[u]
      BY <1>4 DEF PlainLoaded
    <3>3. Lossy(v1, v2, v4, PlainMade, PlainLoaded \union {t}, v8')
      BY <1>2, <1>4, <1>9, <3>1, <3>2, LossyLoad, MadeTypes DEF CountersTypes
    <3> QED BY <1>1, <1>6, <1>8, <2>2, <3>3 DEF PlainCounter
  <2> QED BY <2>1, <2>2
<1>11. VolatileCounter'
  <2>1. \A u \in VolatileLoaded : v8'[u] = v8[u]
    BY <1>4, <1>7 DEF VolatileLoaded
  <2>2. Lossy(v1, v2, v5, VolatileMade, VolatileLoaded, v8')
    BY <2>1, LossyKept DEF CountersInv, VolatileCounter
  <2> QED BY <1>1, <1>7, <2>2 DEF VolatileCounter
<1>12. AtomicCounter'
  BY <1>1, <1>6 DEF CountersInv, AtomicCounter
<1> QED BY <1>5, <1>10, <1>11, <1>12 DEF CountersInv

\* A thread stores the plain counter: one increment, or all of them.
LEMMA StoreStep ==
  ASSUME CountersInv, NEW t \in v1, Counter!Store(t)
  PROVE  CountersInv'
<1>1. v9[t] = "store" /\ UNCHANGED <<v1, v2, v3, v5, v6, v8>>
  BY DEF Counter!Store, Counter!parameters
<1>2. CountersTypes
  BY DEF CountersInv
<1>3. v2 \in Nat \ {0} /\ v7[t] \in 0 .. v2 - 1
  BY <1>1, <1>2 DEF CountersTypes
<1> DEFINE last == v3 \/ v7[t] + 1 = v2
<1>4. /\ v4' = v8[t] + (IF v3 THEN v2 ELSE 1)
      /\ v9' = [v9 EXCEPT ![t] = IF last THEN "load_volatile" ELSE "load"]
      /\ v7' = [v7 EXCEPT ![t] = IF last THEN 0 ELSE v7[t] + 1]
  <2>1. CASE v3
    <3>1. Counter!Gathered = v2 /\ ~(v7[t] + v2 < v2)
      BY <1>3, <2>1 DEF Counter!Gathered
    <3> QED BY <2>1, <3>1 DEF Counter!Store, Counter!Go
  <2>2. CASE ~v3
    <3>1. Counter!Gathered = 1 /\ (v7[t] + 1 < v2 <=> ~last)
      BY <1>3, <2>2 DEF Counter!Gathered
    <3>2. CASE last
      BY <2>2, <3>1, <3>2 DEF Counter!Store, Counter!Go
    <3>3. CASE ~last
      BY <2>2, <3>1, <3>3 DEF Counter!Store, Counter!Go
    <3> QED BY <3>2, <3>3
  <2> QED BY <2>1, <2>2
<1>5. /\ v9'[t] = IF last THEN "load_volatile" ELSE "load"
      /\ \A u \in v1 : u # t => v9'[u] = v9[u]
  BY <1>2, <1>4, OthersAt
<1>6. /\ v7'[t] = IF last THEN 0 ELSE v7[t] + 1
      /\ \A u \in v1 : u # t => v7'[u] = v7[u]
  BY <1>2, <1>4 DEF CountersTypes
<1>7. v7'[t] \in 0 .. v2 - 1
  BY <1>3, <1>6
<1>8. CountersTypes'
  <2>1. v9' \in [v1 -> PlainLoop \union VolatileLoop \union {"done"}]
    BY <1>2, <1>4 DEF CountersTypes, PlainLoop, VolatileLoop
  <2>2. v7' \in [v1 -> 0 .. v2]
    BY <1>2, <1>4, <1>6, <1>7 DEF CountersTypes
  <2>3. \A u \in v1 : IF v9'[u] = "done" THEN v7'[u] = v2 ELSE v7'[u] < v2
    BY <1>2, <1>3, <1>5, <1>6, <1>7 DEF CountersTypes
  <2> QED BY <1>1, <1>2, <2>1, <2>2, <2>3 DEF CountersTypes
<1>9. AtomicMade' = AtomicMade /\ VolatileMade' = VolatileMade /\ VolatileLoaded' = VolatileLoaded
  BY <1>1, <1>5, <1>6 DEF AtomicMade, VolatileMade, VolatileLoaded, PlainLoop
<1>10. PlainLoaded' = PlainLoaded \ {t} /\ t \in PlainLoaded /\ PlainLoaded \subseteq v1
  BY <1>1, <1>5 DEF PlainLoaded
<1>11. CASE v3
  <2>1. Gathered' = Gathered \union {t} /\ t \notin Gathered
    BY <1>1, <1>5, <1>11 DEF Gathered, PlainLoop
  <2>2. IsFiniteSet(Gathered) /\ Cardinality(Gathered) \in Nat
    BY <1>2, FS_Subset, FS_CardinalityType DEF CountersTypes, Gathered
  <2>3. Cardinality(Gathered') = Cardinality(Gathered) + 1
    BY <2>1, <2>2, FS_AddElement
  <2>4. \A u \in PlainLoaded : Multiple(0, Cardinality(Gathered), v8[u])
    BY <1>11 DEF CountersInv, PlainCounter
  <2>5. PICK k \in 0 .. Cardinality(Gathered) : v8[t] = k * v2
    BY <1>10, <2>4 DEF Multiple
  <2>6. k + 1 \in 1 .. Cardinality(Gathered') /\ v4' = (k + 1) * v2
    BY <1>3, <1>4, <1>11, <2>2, <2>3, <2>5
  <2>7. \A u \in PlainLoaded' : Multiple(0, Cardinality(Gathered'), v8[u])
    <3> TAKE u \in PlainLoaded'
    <3>1. PICK m \in 0 .. Cardinality(Gathered) : v8[u] = m * v2
      BY <1>10, <2>4 DEF Multiple
    <3>2. m \in 0 .. Cardinality(Gathered')
      BY <2>2, <2>3
    <3> QED BY <3>1, <3>2 DEF Multiple
  <2>8. Gathered' # {} /\ Multiple(1, Cardinality(Gathered'), v4')
    BY <2>1, <2>6 DEF Multiple
  <2>9. PlainCounter'
    BY <1>1, <1>11, <2>7, <2>8 DEF PlainCounter, Multiple
  <2>10. VolatileCounter' /\ AtomicCounter'
    BY <1>1, <1>9 DEF CountersInv, VolatileCounter, AtomicCounter
  <2> QED BY <1>8, <2>9, <2>10 DEF CountersInv
<1>12. CASE ~v3
  <2>1. OneMore(v1, PlainMade, t, PlainMade')
    <3>1. \A u \in v1 : PlainMade[u] = IF v9[u] \in PlainLoop THEN v7[u] ELSE v2
      BY DEF PlainMade
    <3>2. PlainMade' = [u \in v1 |-> IF v9'[u] \in PlainLoop THEN v7'[u] ELSE v2]
      BY <1>1 DEF PlainMade
    <3>3. \A u \in v1 : u # t => PlainMade'[u] = PlainMade[u]
      BY <1>5, <1>6, <3>1, <3>2
    <3>4. PlainMade[t] = v7[t]
      BY <1>1, <3>1 DEF PlainLoop
    <3>5. PlainMade'[t] = v7[t] + 1
      BY <1>5, <1>6, <1>12, <3>2 DEF PlainLoop
    <3> HIDE DEF last
    <3> QED BY <3>2, <3>3, <3>4, <3>5 DEF OneMore
  <2>2. Lossy(v1, v2, v4, PlainMade, PlainLoaded, v8)
    BY <1>12 DEF CountersInv, PlainCounter
  <2>3. v4' = v8[t] + 1
    BY <1>4, <1>12
  <2>4. Lossy(v1, v2, v8[t] + 1, PlainMade', PlainLoaded \ {t}, v8)
    BY <1>2, <1>10, <2>1, <2>2, LossyStore, MadeTypes DEF CountersTypes
  <2>5. PlainCounter'
    BY <1>1, <1>10, <1>12, <2>3, <2>4 DEF PlainCounter
  <2>6. VolatileCounter' /\ AtomicCounter'
    BY <1>1, <1>9 DEF CountersInv, VolatileCounter, AtomicCounter
  <2> QED BY <1>8, <2>5, <2>6 DEF CountersInv
<1> QED BY <1>11, <1>12

\* What becomes of the plain counter when a thread goes on in its second loop: nothing.
LEMMA PlainCounterKept ==
  ASSUME CountersInv, UNCHANGED <<v1, v2, v3, v4>>, NEW t \in v1,
         v9[t] \notin PlainLoop, v9'[t] \notin PlainLoop,
         \A u \in v1 : u # t => v9'[u] = v9[u] /\ v7'[u] = v7[u] /\ v8'[u] = v8[u]
  PROVE  PlainCounter'
<1>1. PlainMade' = PlainMade
  BY DEF PlainMade
<1>2. PlainLoaded' = PlainLoaded /\ t \notin PlainLoaded /\ PlainLoaded \subseteq v1
  BY DEF PlainLoaded, PlainLoop
<1>3. Gathered' = Gathered
  BY DEF Gathered
<1>4. \A u \in PlainLoaded : v8'[u] = v8[u]
  BY <1>2
<1>5. CASE v3
  BY <1>2, <1>3, <1>4, <1>5 DEF CountersInv, PlainCounter, Multiple
<1>6. CASE ~v3
  BY <1>1, <1>2, <1>4, <1>6, LossyKept DEF CountersInv, PlainCounter
<1> QED BY <1>5, <1>6

LEMMA LoadVolatileStep ==
  ASSUME CountersInv, NEW t \in v1, Counter!LoadVolatile(t)
  PROVE  CountersInv'
<1>1. /\ v9[t] = "load_volatile"
      /\ v8' = [v8 EXCEPT ![t] = v5] /\ v9' = [v9 EXCEPT ![t] = "store_volatile"]
      /\ UNCHANGED <<v1, v2, v3, v4, v5, v6, v7>>
  BY DEF Counter!LoadVolatile, Counter!Go, Counter!parameters, Counter!counters
<1>2. CountersTypes
  BY DEF CountersInv
<1>3. v9'[t] = "store_volatile" /\ \A u \in v1 : u # t => v9'[u] = v9[u]
  BY <1>1, <1>2, OthersAt
<1>4. v8'[t] = v5 /\ \A u \in v1 : u # t => v8'[u] = v8[u]
  BY <1>1, <1>2, OthersLoaded
<1>5. CountersTypes'
  <2>1. v9' \in [v1 -> PlainLoop \union VolatileLoop \union {"done"}] /\ DOMAIN v8' = v1
    BY <1>1, <1>2 DEF CountersTypes, VolatileLoop
  <2>2. \A u \in v1 : IF v9'[u] = "done" THEN v7[u] = v2 ELSE v7[u] < v2
    BY <1>1, <1>2, <1>3 DEF CountersTypes
  <2> QED BY <1>1, <1>2, <2>1, <2>2 DEF CountersTypes
<1>6. AtomicMade' = AtomicMade /\ VolatileMade' = VolatileMade
  BY <1>1, <1>3 DEF AtomicMade, VolatileMade, PlainLoop
<1>7. VolatileLoaded' = VolatileLoaded \union {t} /\ VolatileLoaded \subseteq v1
  BY <1>1, <1>3 DEF VolatileLoaded
<1>8. VolatileMade[t] < v2
  BY <1>1, <1>2 DEF VolatileMade, CountersTypes, PlainLoop
<1>9. PlainCounter'
  BY <1>1, <1>3, <1>4, PlainCounterKept DEF PlainLoop
<1>10. VolatileCounter'
  <2>1. Lossy(v1, v2, v5, VolatileMade, VolatileLoaded, v8)
    BY DEF CountersInv, VolatileCounter
  <2>2. \A u \in VolatileLoaded \ {t} : v8'[u] = v8[u]
    BY <1>4, <1>7
  <2>3. Lossy(v1, v2, v5, VolatileMade, VolatileLoaded \union {t}, v8')
    BY <1>2, <1>4, <1>8, <2>1, <2>2, LossyLoad, MadeTypes DEF CountersTypes
  <2> QED BY <1>1, <1>6, <1>7, <2>3 DEF VolatileCounter
<1>11. AtomicCounter'
  BY <1>1, <1>6 DEF CountersInv, AtomicCounter
<1> QED BY <1>5, <1>9, <1>10, <1>11 DEF CountersInv

LEMMA StoreVolatileStep ==
  ASSUME CountersInv, NEW t \in v1, Counter!StoreVolatile(t)
  PROVE  CountersInv'
<1>1. /\ v9[t] = "store_volatile"
      /\ v5' = v8[t] + 1 /\ v9' = [v9 EXCEPT ![t] = "add_atomic"]
      /\ UNCHANGED <<v1, v2, v3, v4, v6, v7, v8>>
  BY DEF Counter!StoreVolatile, Counter!Go, Counter!parameters
<1>2. CountersTypes
  BY DEF CountersInv
<1>3. v9'[t] = "add_atomic" /\ \A u \in v1 : u # t => v9'[u] = v9[u]
  BY <1>1, <1>2, OthersAt
<1>4. CountersTypes'
  <2>1. v9' \in [v1 -> PlainLoop \union VolatileLoop \union {"done"}]
    BY <1>1, <1>2 DEF CountersTypes, VolatileLoop
  <2>2. \A u \in v1 : IF v9'[u] = "done" THEN v7[u] = v2 ELSE v7[u] < v2
    BY <1>1, <1>2, <1>3 DEF CountersTypes
  <2> QED BY <1>1, <1>2, <2>1, <2>2 DEF CountersTypes
<1>5. AtomicMade' = AtomicMade
  BY <1>1, <1>3 DEF AtomicMade, PlainLoop
<1>6. OneMore(v1, VolatileMade, t, VolatileMade')
  BY <1>1, <1>3 DEF OneMore, VolatileMade, PlainLoop
<1>7. VolatileLoaded' = VolatileLoaded \ {t} /\ t \in VolatileLoaded /\ VolatileLoaded \subseteq v1
  BY <1>1, <1>3 DEF VolatileLoaded
<1>8. PlainCounter'
  BY <1>1, <1>3, PlainCounterKept DEF PlainLoop
<1>9. VolatileCounter'
  <2>1. Lossy(v1, v2, v5, VolatileMade, VolatileLoaded, v8)
    BY DEF CountersInv, VolatileCounter
  <2>2. Lossy(v1, v2, v8[t] + 1, VolatileMade', VolatileLoaded \ {t}, v8)
    BY <1>2, <1>6, <1>7, <2>1, LossyStore, MadeTypes DEF CountersTypes
  <2> QED BY <1>1, <1>7, <2>2 DEF VolatileCounter
<1>10. AtomicCounter'
  BY <1>1, <1>5 DEF CountersInv, AtomicCounter
<1> QED BY <1>4, <1>8, <1>9, <1>10 DEF CountersInv

LEMMA AddAtomicStep ==
  ASSUME CountersInv, NEW t \in v1, Counter!AddAtomic(t)
  PROVE  CountersInv'
<1> DEFINE label == IF v7[t] + 1 < v2 THEN "load_volatile" ELSE "done"
<1>1. /\ v9[t] = "add_atomic" /\ v6' = v6 + 1 /\ v7' = [v7 EXCEPT ![t] = v7[t] + 1]
      /\ v9' = [v9 EXCEPT ![t] = label]
      /\ UNCHANGED <<v1, v2, v3, v4, v5, v8>>
  BY DEF Counter!AddAtomic, Counter!Go, Counter!parameters
<1>2. CountersTypes
  BY DEF CountersInv
<1>3. v9'[t] = label /\ \A u \in v1 : u # t => v9'[u] = v9[u]
  BY <1>1, <1>2, OthersAt
<1>4. v7'[t] = v7[t] + 1 /\ \A u \in v1 : u # t => v7'[u] = v7[u]
  BY <1>1, <1>2 DEF CountersTypes
<1>5. v2 \in Nat \ {0} /\ v7[t] \in 0 .. v2 - 1
  BY <1>1, <1>2 DEF CountersTypes
<1>6. CountersTypes'
  <2>1. v9' \in [v1 -> PlainLoop \union VolatileLoop \union {"done"}]
    BY <1>1, <1>2 DEF CountersTypes, VolatileLoop
  <2>2. v7' \in [v1 -> 0 .. v2]
    BY <1>1, <1>2, <1>5 DEF CountersTypes
  <2>3. \A u \in v1 : IF v9'[u] = "done" THEN v7'[u] = v2 ELSE v7'[u] < v2
    <3>1. ASSUME NEW u \in v1, u # t
          PROVE  IF v9'[u] = "done" THEN v7'[u] = v2 ELSE v7'[u] < v2
      BY <1>2, <1>3, <1>4, <3>1 DEF CountersTypes
    <3>2. IF v9'[t] = "done" THEN v7'[t] = v2 ELSE v7'[t] < v2
      BY <1>3, <1>4, <1>5
    <3> QED BY <3>1, <3>2
  <2> QED BY <1>1, <1>2, <2>1, <2>2, <2>3 DEF CountersTypes
<1>7. label \notin PlainLoop /\ label # "store_volatile" /\ label # "add_atomic"
  BY DEF PlainLoop
<1> HIDE DEF label
<1>8. VolatileMade' = VolatileMade /\ VolatileLoaded' = VolatileLoaded
  <2>1. VolatileLoaded' = VolatileLoaded
    BY <1>1, <1>3, <1>7 DEF VolatileLoaded
  <2>2. \A u \in v1 : VolatileMade'[u] = VolatileMade[u]
    BY <1>1, <1>3, <1>4, <1>7 DEF VolatileMade, PlainLoop
  <2> QED BY <1>1, <2>1, <2>2 DEF VolatileMade
<1>9. OneMore(v1, AtomicMade, t, AtomicMade') /\ AtomicMade[t] = v7[t]
  <2>1. AtomicMade[t] = v7[t] /\ AtomicMade'[t] = v7[t] + 1
    BY <1>1, <1>3, <1>4, <1>7 DEF AtomicMade, PlainLoop
  <2>2. \A u \in v1 : u # t => AtomicMade'[u] = AtomicMade[u]
    BY <1>1, <1>3, <1>4 DEF AtomicMade
  <2>3. AtomicMade' = [u \in v1 |-> AtomicMade'[u]]
    BY <1>1 DEF AtomicMade
  <2> QED BY <2>1, <2>2, <2>3 DEF OneMore
<1>10. PlainCounter'
  <2>1. v9[t] \notin PlainLoop /\ v9'[t] \notin PlainLoop
    BY <1>1, <1>3, <1>7 DEF PlainLoop
  <2> QED BY <1>1, <1>3, <1>4, <2>1, PlainCounterKept
<1>11. VolatileCounter'
  BY <1>1, <1>8 DEF CountersInv, VolatileCounter
<1>12. AtomicCounter'
  <2>1. Cardinality(Made(v1, v2, AtomicMade')) = Cardinality(Made(v1, v2, AtomicMade)) + 1
    BY <1>2, <1>5, <1>9, MadeOneMore, MadeTypes DEF CountersTypes
  <2> QED BY <1>1, <2>1 DEF CountersInv, AtomicCounter
<1> QED BY <1>6, <1>10, <1>11, <1>12 DEF CountersInv

LEMMA CountersStep == CountersInv /\ Counter!Step => CountersInv'
BY LoadStep, StoreStep, LoadVolatileStep, StoreVolatileStep, AddAtomicStep DEF Counter!Step

\* A lossy counter whose threads have made all their increments.
LEMMA LossyEnd ==
  ASSUME NEW threads, IsFiniteSet(threads), threads # {}, NEW n \in Nat \ {0}, NEW counter,
         NEW done, \A t \in threads : done[t] = n, NEW register,
         Lossy(threads, n, counter, done, {}, register)
  PROVE  IF Cardinality(threads) = 1 \/ n = 1
         THEN counter \in n .. Cardinality(threads) * n
         ELSE counter \in 2 .. Cardinality(threads) * n
<1>1. Cardinality(Made(threads, n, done)) = Cardinality(threads) * n
  BY MadeAll
<1>2. Cardinality(threads) \in Nat /\ Cardinality(threads) * n \in Nat
  BY FS_CardinalityType
<1>3. counter \in 0 .. Cardinality(threads) * n
  BY <1>1 DEF Lossy
<1>4. counter >= 1 /\ (n >= 2 => counter >= 2)
  BY DEF Lossy
<1>5. Cardinality(threads) = 1 => counter = n
  <2>1. ASSUME Cardinality(threads) = 1 PROVE counter = n
    <3>1. PICK t : threads = {t}
      BY <2>1, FS_Singleton
    <3> QED BY <3>1 DEF Lossy
  <2> QED BY <2>1
<1> QED BY <1>2, <1>3, <1>4, <1>5

LEMMA CountersResults == CountersInv => Counter!AtomicCountsAll
<1> SUFFICES ASSUME CountersInv, Counter!Ended PROVE Counter!AtomicCountsAll
  BY DEF Counter!AtomicCountsAll
<1>1. /\ v1 # {} /\ IsFiniteSet(v1) /\ v2 \in Nat \ {0}
      /\ \A t \in v1 : v9[t] = "done" /\ v7[t] = v2
  BY DEF CountersInv, CountersTypes, Counter!Ended
<1>2. /\ \A t \in v1 : PlainMade[t] = v2 /\ AtomicMade[t] = v2 /\ VolatileMade[t] = v2
      /\ PlainLoaded = {} /\ VolatileLoaded = {} /\ Gathered = v1
  BY <1>1 DEF PlainMade, AtomicMade, VolatileMade, PlainLoaded, VolatileLoaded, Gathered, PlainLoop
<1>3. Counter!Cardinality(v1) = Cardinality(v1) /\ Counter!Expected = Cardinality(v1) * v2
  BY DEF Counter!Cardinality, Cardinality, Counter!Expected
<1>4. v6 = Counter!Expected
  BY <1>1, <1>2, <1>3, MadeAll DEF CountersInv, AtomicCounter
<1>5. Counter!Survives(v5)
  BY <1>1, <1>2, <1>3, LossyEnd DEF CountersInv, VolatileCounter, Counter!Survives
<1>6. v3 => v4 \in {k * v2 : k \in 1 .. Counter!Cardinality(v1)}
  BY <1>1, <1>2, <1>3 DEF CountersInv, PlainCounter, Multiple
<1>7. ~v3 => Counter!Survives(v4)
  BY <1>1, <1>2, <1>3, LossyEnd DEF CountersInv, PlainCounter, Counter!Survives
<1> QED BY <1>4, <1>5, <1>6, <1>7 DEF Counter!AtomicCountsAll

-----------------------------------------------------------------------------
\* thread_by_ref.cpp.
\* The variables of ThreadByRef under their own names.
ByRefTypes ==
  /\ v1 \in Nat \ {0}
  /\ v2 \in [0 .. v1 -> [count : Nat, sum : Int]]
  /\ v3 \in 0 .. v1
  /\ v4 \in {"start", "join", "returned"}
  /\ v5 \in [0 .. v1 - 1 -> Nat \union {None}]
  /\ v6 \in [0 .. v1 - 1 -> 0 .. LoopCount]
  /\ v7 \in [0 .. v1 - 1 -> BOOLEAN]

\* A thread writes to its own element, which is as far as the thread: whoever has not begun
\* has counted nothing, and a number is added after it was counted.
OwnElements ==
  /\ \A k \in 0 .. v1 - 1 :
       /\ v5[k] \in {None, k}
       /\ v5[k] = None => v6[k] = 0 /\ ~v7[k]
       /\ v7[k] => v6[k] < LoopCount
       /\ v2[k].count = v6[k] + (IF v7[k] THEN 1 ELSE 0)
       /\ v6[k] * LowerRand <= v2[k].sum
       /\ v2[k].sum <= v6[k] * UpperRand
  /\ v2[v1] = [count |-> 0, sum |-> 0]

\* The threads that dispatch has joined have ended, all of them when it collects.
Collected ==
  /\ v4 = "start" => v3 < v1
  /\ v4 = "join" => \A k \in 0 .. v3 - 1 : v6[k] = LoopCount
  /\ v4 = "returned" =>
       /\ \A k \in 0 .. v1 - 1 : v6[k] = LoopCount
       /\ v8 = [k \in 0 .. v1 - 1 |-> v2[k]]

ByRefInv == ByRefTypes /\ OwnElements /\ Collected

\* What the proofs need to know of the constants.
LEMMA ByRefConstants ==
  /\ LoopCount \in Nat /\ LowerRand \in Int /\ UpperRand \in Int
  /\ MaxConcurrency \in Nat /\ None \notin Nat
BY SmallProgramsAssumption

LEMMA ByRefInit == ByRef!Init => ByRefInv
<1> SUFFICES ASSUME ByRef!Init PROVE ByRefInv
  OBVIOUS
<1> USE ByRefConstants DEF ByRef!Init, ByRef!Indexes
<1>1. ByRefTypes
  BY DEF ByRefTypes
<1>2. OwnElements
  BY DEF OwnElements
<1>3. Collected
  BY DEF Collected
<1> QED BY <1>1, <1>2, <1>3 DEF ByRefInv

\* Numbers that are added one by one.
LEMMA OneMoreTimes ==
  ASSUME NEW n \in Int, NEW x \in Int
  PROVE  n * x \in Int /\ (n + 1) * x = n * x + x
OBVIOUS

\* An element of a thread is one of the array.
LEMMA OwnPlace ==
  ASSUME ByRefInv, NEW k \in 0 .. v1 - 1
  PROVE  k \in 0 .. v1 /\ k \in Nat /\ k # v1
BY DEF ByRefInv, ByRefTypes

LEMMA DispatchStep ==
  ASSUME ByRefInv, ByRef!StartThread \/ ByRef!Join \/ ByRef!Collect
  PROVE  ByRefInv'
<1> USE ByRefConstants DEF ByRefInv, ByRef!threads, ByRef!Indexes, ByRef!Finished
<1>1. UNCHANGED <<v1, v2, v5, v6, v7>>
  BY DEF ByRef!StartThread, ByRef!Join, ByRef!Collect
<1>2. ByRefTypes'
  <2>1. v3' \in 0 .. v1 /\ v4' \in {"start", "join", "returned"}
    <3>1. CASE ByRef!StartThread
      BY <3>1 DEF ByRefTypes, ByRef!StartThread
    <3>2. CASE ByRef!Join
      BY <3>2 DEF ByRefTypes, ByRef!Join
    <3>3. CASE ByRef!Collect
      BY <3>3 DEF ByRefTypes, ByRef!Collect
    <3> QED BY <3>1, <3>2, <3>3
  <2> QED BY <1>1, <2>1 DEF ByRefTypes
<1>3. OwnElements'
  BY <1>1 DEF OwnElements
<1>4. Collected'
  <2>1. CASE ByRef!StartThread
    <3>1. CASE v3 + 1 < v1
      BY <1>1, <2>1, <3>1 DEF Collected, ByRefTypes, ByRef!StartThread
    <3>2. CASE ~(v3 + 1 < v1)
      <4>1. v3' = 0 /\ v4' = "join"
        BY <2>1, <3>2 DEF ByRef!StartThread
      <4> QED BY <4>1 DEF Collected
    <3> QED BY <3>1, <3>2
  <2>2. CASE ByRef!Join
    <3>1. v3 \in Int /\ v3' = v3 + 1 /\ v4 = "join" /\ v4' = "join" /\ v6[v3] = LoopCount
      BY <2>2 DEF ByRefTypes, ByRef!Join
    <3>2. \A k \in 0 .. v3 - 1 : v6[k] = LoopCount
      BY <3>1 DEF Collected
    <3>3. \A k \in 0 .. (v3 + 1) - 1 : k \in 0 .. v3 - 1 \/ k = v3
      BY <3>1
    <3>4. \A k \in 0 .. v3' - 1 : v6'[k] = LoopCount
      BY <1>1, <3>1, <3>2, <3>3
    <3> QED BY <3>1, <3>4 DEF Collected
  <2>3. CASE ByRef!Collect
    BY <1>1, <2>3 DEF Collected, ByRefTypes, ByRef!Collect
  <2> QED BY <2>1, <2>2, <2>3
<1> QED BY <1>2, <1>3, <1>4 DEF ByRefInv

LEMMA BeginStep ==
  ASSUME ByRefInv, NEW k \in 0 .. v1 - 1, ByRef!Begin(k)
  PROVE  ByRefInv'
<1> USE ByRefConstants DEF ByRefInv, ByRef!Begin, ByRef!Captured
<1>1. ByRefTypes'
  BY DEF ByRefTypes
<1>2. OwnElements'
  BY DEF OwnElements, ByRefTypes
<1>3. Collected'
  BY DEF Collected
<1> QED BY <1>1, <1>2, <1>3 DEF ByRefInv

LEMMA CountLoopStep ==
  ASSUME ByRefInv, NEW k \in 0 .. v1 - 1, ByRef!CountLoop(k)
  PROVE  ByRefInv'
<1> USE ByRefConstants DEF ByRefInv, ByRef!Finished
<1>1. v5[k] = k /\ v6[k] < LoopCount /\ ~v7[k]
  BY DEF ByRef!CountLoop, OwnElements, ByRefTypes
<1>2. /\ v2' = [v2 EXCEPT ![k].count = @ + 1]
      /\ v7' = [v7 EXCEPT ![k] = TRUE]
      /\ UNCHANGED <<v1, v3, v4, v5, v6, v8>>
  BY <1>1 DEF ByRef!CountLoop
<1>3. v2'[k] = [v2[k] EXCEPT !.count = @ + 1] /\ v2[k] \in [count : Nat, sum : Int]
  BY <1>2, OwnPlace DEF ByRefTypes
<1>4. /\ v2'[k] \in [count : Nat, sum : Int]
      /\ v2'[k].count = v2[k].count + 1 /\ v2'[k].sum = v2[k].sum
  BY <1>3
<1>5. ByRefTypes'
  BY <1>2, <1>4 DEF ByRefTypes
<1>6. OwnElements'
  <2>1. v1 \in Nat \ {0} /\ \A j \in 0 .. v1 : j # k => v2'[j] = v2[j]
    BY <1>2 DEF ByRefTypes
  <2>2. v7'[k] = TRUE /\ \A j \in 0 .. v1 - 1 : j # k => v7'[j] = v7[j]
    BY <1>2 DEF ByRefTypes
  <2>3. \A j \in 0 .. v1 - 1 :
          /\ v5[j] \in {None, j}
          /\ v5[j] = None => v6[j] = 0 /\ ~v7'[j]
          /\ v7'[j] => v6[j] < LoopCount
          /\ v2'[j].count = v6[j] + (IF v7'[j] THEN 1 ELSE 0)
          /\ v6[j] * LowerRand <= v2'[j].sum
          /\ v2'[j].sum <= v6[j] * UpperRand
    <3> TAKE j \in 0 .. v1 - 1
    <3>1. CASE j = k
      <4>1. v2[k].count = v6[k] /\ v6[k] * LowerRand <= v2[k].sum /\ v2[k].sum <= v6[k] * UpperRand
        <5>1. v6[k] \in 0 .. LoopCount
          BY DEF ByRefTypes
        <5> QED BY <1>1, <5>1 DEF OwnElements
      <4>2. v5[k] # None
        BY <1>1
      <4> QED BY <1>1, <1>4, <2>2, <3>1, <4>1, <4>2
    <3>2. CASE j # k
      <4>1. v2'[j] = v2[j] /\ v7'[j] = v7[j]
        BY <2>1, <2>2, <3>2, OwnPlace
      <4> QED BY <4>1 DEF OwnElements
    <3> QED BY <3>1, <3>2
  <2>4. v2'[v1] = v2[v1]
    BY <2>1
  <2> QED BY <1>2, <2>3, <2>4 DEF OwnElements
<1>7. Collected'
  BY <1>1, <1>2 DEF Collected
<1> QED BY <1>5, <1>6, <1>7 DEF ByRefInv

LEMMA AddRandomStep ==
  ASSUME ByRefInv, NEW k \in 0 .. v1 - 1, ByRef!AddRandom(k)
  PROVE  ByRefInv'
<1> USE ByRefConstants DEF ByRefInv
<1>1. v5[k] = k /\ v6[k] < LoopCount /\ v7[k]
  BY DEF ByRef!AddRandom, OwnElements, ByRefTypes
<1>2. PICK number \in LowerRand .. UpperRand :
        /\ v2' = [v2 EXCEPT ![k].sum = @ + number]
        /\ v7' = [v7 EXCEPT ![k] = FALSE]
        /\ v6' = [v6 EXCEPT ![k] = @ + 1]
        /\ UNCHANGED <<v1, v3, v4, v5, v8>>
  BY <1>1 DEF ByRef!AddRandom
<1>3. ByRefTypes'
  <2>1. v2'[k] = [v2[k] EXCEPT !.sum = @ + number] /\ v2[k] \in [count : Nat, sum : Int]
    BY <1>2, OwnPlace DEF ByRefTypes
  <2>2. v2'[k] \in [count : Nat, sum : Int]
    BY <2>1
  <2>3. v6[k] + 1 \in 0 .. LoopCount
    <3>1. v6[k] \in 0 .. LoopCount
      BY DEF ByRefTypes
    <3> QED BY <1>1, <3>1
  <2> QED BY <1>2, <2>2, <2>3 DEF ByRefTypes
<1>4. OwnElements'
  <2>1. v6[k] \in Int /\ v2[k].sum \in Int /\ v2[k].count \in Int
    BY DEF ByRefTypes
  <2>2. /\ (v6[k] + 1) * LowerRand = v6[k] * LowerRand + LowerRand
        /\ (v6[k] + 1) * UpperRand = v6[k] * UpperRand + UpperRand
        /\ v6[k] * LowerRand \in Int /\ v6[k] * UpperRand \in Int
    BY <2>1, OneMoreTimes
  <2>3. /\ v2'[k].sum = v2[k].sum + number /\ v2'[k].count = v2[k].count
        /\ v6'[k] = v6[k] + 1 /\ v7'[k] = FALSE
        /\ \A j \in 0 .. v1 : j # k => v2'[j] = v2[j]
        /\ \A j \in 0 .. v1 - 1 : j # k => v6'[j] = v6[j] /\ v7'[j] = v7[j]
    BY <1>2 DEF ByRefTypes
  <2>4. /\ (v6[k] + 1) * LowerRand <= v2[k].sum + number
        /\ v2[k].sum + number <= (v6[k] + 1) * UpperRand
    BY <2>1, <2>2 DEF OwnElements
  <2>5. v2'[k].count = v6'[k]
    BY <1>1, <2>1, <2>3 DEF OwnElements
  <2>6. \A j \in 0 .. v1 - 1 :
          /\ v5[j] \in {None, j}
          /\ v5[j] = None => v6'[j] = 0 /\ ~v7'[j]
          /\ v7'[j] => v6'[j] < LoopCount
          /\ v2'[j].count = v6'[j] + (IF v7'[j] THEN 1 ELSE 0)
          /\ v6'[j] * LowerRand <= v2'[j].sum
          /\ v2'[j].sum <= v6'[j] * UpperRand
    <3> TAKE j \in 0 .. v1 - 1
    <3>1. CASE j = k
      BY <1>1, <2>1, <2>3, <2>4, <2>5, <3>1
    <3>2. CASE j # k
      <4>1. v2'[j] = v2[j] /\ v6'[j] = v6[j] /\ v7'[j] = v7[j]
        BY <2>3, <3>2, OwnPlace
      <4> QED BY <4>1 DEF OwnElements
    <3> QED BY <3>1, <3>2
  <2>7. v2'[v1] = v2[v1] /\ v1 \in Nat
    BY <2>3 DEF ByRefTypes
  <2> QED BY <1>2, <2>6, <2>7 DEF OwnElements
<1>5. Collected'
  BY <1>1, <1>2 DEF Collected
<1> QED BY <1>3, <1>4, <1>5 DEF ByRefInv

LEMMA ByRefStep == ByRefInv /\ ByRef!Step => ByRefInv'
BY DispatchStep, BeginStep, CountLoopStep, AddRandomStep DEF ByRef!Step, ByRef!Indexes

\* When dispatch returns, every element is whole.
LEMMA ByRefResults == ByRefInv => ByRef!OwnResults
<1> SUFFICES ASSUME ByRefInv, v4 = "returned" PROVE ByRef!OwnResults
  BY DEF ByRef!OwnResults, ByRef!Ended
<1> USE ByRefConstants DEF ByRefInv
<1>1. \A k \in 0 .. v1 - 1 :
        /\ v8[k].count = LoopCount
        /\ LoopCount * LowerRand <= v8[k].sum
        /\ v8[k].sum <= LoopCount * UpperRand
        /\ v8[k].sum \in Int
  <2> TAKE k \in 0 .. v1 - 1
  <2>1. v8[k] = v2[k] /\ v6[k] = LoopCount /\ v2[k].sum \in Int
    BY DEF Collected, ByRefTypes
  <2>2. ~v7[k]
    BY <2>1 DEF OwnElements
  <2>3. v2[k].count = v6[k]
    BY <2>1, <2>2 DEF OwnElements
  <2> QED BY <2>1, <2>3 DEF OwnElements
<1>2. LoopCount * LowerRand \in Int /\ LoopCount * UpperRand \in Int
  BY OneMoreTimes
<1>3. \A k \in 0 .. v1 - 1 : v8[k].sum \in LoopCount * LowerRand .. LoopCount * UpperRand
  BY <1>1, <1>2
<1> QED BY <1>1, <1>3 DEF ByRef!OwnResults, ByRef!Indexes, OwnElements

-----------------------------------------------------------------------------
\* river/river.cpp.
\* The variables of River under their own names: v1 bank, v2 right, v3 m, v4 path.

Animals == {"wolf", "goat", "cabbage"}

RiverTypes ==
  /\ v1 \in [Animals -> BOOLEAN]
  /\ v2 \in BOOLEAN
  /\ v3 \in {0, 1}
  /\ v4 \in Seq(Animals \union {"nothing"})

\* Where the wolf, the goat, the cabbage and the farmer are.
At(wolf, goat, cabbage, farmer) ==
  /\ v1["wolf"] <=> wolf
  /\ v1["goat"] <=> goat
  /\ v1["cabbage"] <=> cabbage
  /\ v2 <=> farmer

\* There are ten positions in which nobody is eaten, and how many moves each takes at least.
FarEnough ==
  \/ At(FALSE, FALSE, FALSE, FALSE)
  \/ At(FALSE, TRUE, FALSE, TRUE) /\ Len(v4) >= 1
  \/ At(FALSE, TRUE, FALSE, FALSE) /\ Len(v4) >= 2
  \/ At(TRUE, TRUE, FALSE, TRUE) /\ Len(v4) >= 3
  \/ At(FALSE, TRUE, TRUE, TRUE) /\ Len(v4) >= 3
  \/ At(TRUE, FALSE, FALSE, FALSE) /\ Len(v4) >= 4
  \/ At(FALSE, FALSE, TRUE, FALSE) /\ Len(v4) >= 4
  \/ At(TRUE, FALSE, TRUE, TRUE) /\ Len(v4) >= 5
  \/ At(TRUE, FALSE, TRUE, FALSE) /\ Len(v4) >= 6
  \/ At(TRUE, TRUE, TRUE, TRUE) /\ Len(v4) >= 7

\* The moves so far are the first n of main's.
First(n) == Len(v4) = n /\ \A k \in 1 .. n : v4[k] = Crossing!Solution[k]

\* Where they lead.
OnTheWay ==
  /\ First(0) => At(FALSE, FALSE, FALSE, FALSE)
  /\ First(1) => At(FALSE, TRUE, FALSE, TRUE)
  /\ First(2) => At(FALSE, TRUE, FALSE, FALSE)
  /\ First(3) => At(TRUE, TRUE, FALSE, TRUE)
  /\ First(4) => At(TRUE, FALSE, FALSE, FALSE)
  /\ First(5) => At(TRUE, FALSE, TRUE, TRUE)
  /\ First(6) => At(TRUE, FALSE, TRUE, FALSE)
  /\ First(7) => At(TRUE, TRUE, TRUE, TRUE)

RiverInv == RiverTypes /\ FarEnough /\ OnTheWay

LEMMA AnimalsAre ==
  /\ Crossing!Things = Animals
  /\ \A thing \in Animals : Crossing!Number[thing] \in {10, 20, 30}
BY DEF Crossing!Things, Crossing!Number, Animals

LEMMA RiverInit == Crossing!Init => RiverInv
<1> SUFFICES ASSUME Crossing!Init PROVE RiverInv
  OBVIOUS
<1>1. v1 = [thing \in Animals |-> FALSE] /\ v2 = FALSE /\ v3 = 0 /\ v4 = <<>>
  BY AnimalsAre DEF Crossing!Init
<1>2. At(FALSE, FALSE, FALSE, FALSE)
  BY <1>1 DEF At, Animals
<1>3. RiverTypes /\ Len(v4) = 0
  <2>1. \A S : <<>> \in Seq(S)
    OBVIOUS
  <2> QED BY <1>1, <2>1 DEF RiverTypes
<1>4. OnTheWay
  <2>1. \A n : First(n) => n = 0
    BY <1>3 DEF First
  <2>2. /\ ~First(1) /\ ~First(2) /\ ~First(3) /\ ~First(4) /\ ~First(5) /\ ~First(6)
        /\ ~First(7)
    BY <2>1
  <2> QED BY <1>2, <2>2 DEF OnTheWay
<1> QED BY <1>2, <1>3, <1>4 DEF RiverInv, FarEnough

-----------------------------------------------------------------------------
\* One alone on a bank with what it eats.
Alone(a, b, side) == (a <=> b) /\ ~(a <=> side)

LEMMA EatsIs ==
  ASSUME NEW banks \in [Animals -> BOOLEAN], NEW side \in BOOLEAN
  PROVE  Crossing!Eats(banks, side)
           <=> \/ Alone(banks["wolf"], banks["goat"], side)
               \/ Alone(banks["goat"], banks["cabbage"], side)
<1>1. banks["wolf"] \in BOOLEAN /\ banks["goat"] \in BOOLEAN /\ banks["cabbage"] \in BOOLEAN
  BY DEF Animals
<1>2. Crossing!Eats(banks, side)
        <=> \/ banks["wolf"] = banks["goat"] /\ banks["wolf"] # side
            \/ banks["goat"] = banks["cabbage"] /\ banks["goat"] # side
  BY DEF Crossing!Eats
<1> QED BY <1>1, <1>2 DEF Alone

\* The farmer goes to the other side, and the thing with him.
Flipped(thing) ==
  /\ (v1["wolf"]' <=> v1["wolf"]) <=> thing # "wolf"
  /\ (v1["goat"]' <=> v1["goat"]) <=> thing # "goat"
  /\ (v1["cabbage"]' <=> v1["cabbage"]) <=> thing # "cabbage"
  /\ v2' <=> ~v2
  /\ thing = "wolf" => (v1["wolf"] <=> v2)
  /\ thing = "goat" => (v1["goat"] <=> v2)
  /\ thing = "cabbage" => (v1["cabbage"] <=> v2)

NobodyEaten ==
  ~Alone(v1["wolf"], v1["goat"], v2) /\ ~Alone(v1["goat"], v1["cabbage"], v2)

LEMMA AfterIs ==
  ASSUME RiverTypes, NEW thing \in Animals
  PROVE  /\ Crossing!After(thing) \in [Animals -> BOOLEAN]
         /\ Crossing!After(thing)[thing] = ~v1[thing]
         /\ \A other \in Animals : other # thing => Crossing!After(thing)[other] = v1[other]
BY DEF RiverTypes, Crossing!After

LEMMA MoveFlips ==
  ASSUME RiverTypes, NEW thing \in Animals, Crossing!Move(thing)
  PROVE  RiverTypes' /\ v4' = Append(v4, thing) /\ Flipped(thing) /\ NobodyEaten'
<1>1. /\ v1' = Crossing!After(thing) /\ v2' = ~v2 /\ v4' = Append(v4, thing)
      /\ v1[thing] = v2 /\ ~Crossing!Eats(Crossing!After(thing), ~v2)
      /\ v3' = Crossing!ToBool(Crossing!Number[thing] + Crossing!Bit(v2))
  BY DEF Crossing!Move, Crossing!CanMove
<1>2. /\ v1' \in [Animals -> BOOLEAN] /\ v1'[thing] = ~v1[thing]
      /\ \A other \in Animals : other # thing => v1'[other] = v1[other]
  BY <1>1, AfterIs
<1>3. v1 \in [Animals -> BOOLEAN] /\ v2 \in BOOLEAN /\ v2' \in BOOLEAN
  BY <1>1 DEF RiverTypes
<1>4. v3' \in {0, 1}
  BY <1>1 DEF Crossing!ToBool, Crossing!Bit
<1>5. RiverTypes'
  <2>1. v4' \in Seq(Animals \union {"nothing"})
    BY <1>1 DEF RiverTypes
  <2> QED BY <1>2, <1>3, <1>4, <2>1 DEF RiverTypes
<1>6. NobodyEaten'
  <2>1. ~Crossing!Eats(v1', v2')
    BY <1>1
  <2> QED BY <1>2, <1>3, <2>1, EatsIs DEF NobodyEaten, Alone
<1>7. Flipped(thing)
  <2>1. \A other \in Animals : v1[other] \in BOOLEAN /\ v1'[other] \in BOOLEAN
    BY <1>2, <1>3
  <2>2. \A other \in Animals : (v1'[other] <=> v1[other]) <=> other # thing
    BY <1>2, <2>1
  <2>3. v1[thing] <=> v2
    BY <1>1
  <2>4. v2' <=> ~v2
    BY <1>1
  <2> QED BY <2>2, <2>3, <2>4 DEF Flipped, Animals
<1> QED BY <1>1, <1>5, <1>6, <1>7

LEMMA NothingFlips ==
  ASSUME RiverTypes, Crossing!MoveNothing
  PROVE  RiverTypes' /\ v4' = Append(v4, "nothing") /\ Flipped("nothing") /\ NobodyEaten'
<1>1. /\ v1' = v1 /\ v2' = ~v2 /\ v4' = Append(v4, "nothing")
      /\ ~Crossing!Eats(v1, ~v2) /\ v3' = Crossing!ToBool(0)
  BY DEF Crossing!MoveNothing, Crossing!CanMoveNothing
<1>2. v1 \in [Animals -> BOOLEAN] /\ v2' \in BOOLEAN
  BY <1>1 DEF RiverTypes
<1>3. v3' \in {0, 1}
  BY <1>1 DEF Crossing!ToBool, Crossing!Bit
<1>4. RiverTypes'
  <2>1. v4' \in Seq(Animals \union {"nothing"})
    BY <1>1 DEF RiverTypes
  <2> QED BY <1>1, <1>2, <1>3, <2>1 DEF RiverTypes
<1>5. NobodyEaten'
  <2>1. ~Crossing!Eats(v1', v2')
    BY <1>1
  <2> QED BY <1>1, <1>2, <2>1, EatsIs DEF NobodyEaten, Alone
<1>6. Flipped("nothing")
  BY <1>1 DEF Flipped
<1> QED BY <1>1, <1>4, <1>5, <1>6

\* From each position nobody is eaten in those that are next to it only.
LEMMA NextPositions ==
  ASSUME NEW thing \in Animals \union {"nothing"}, Flipped(thing), NobodyEaten'
  PROVE  /\ At(FALSE, FALSE, FALSE, FALSE) => At(FALSE, TRUE, FALSE, TRUE)'
         /\ At(FALSE, TRUE, FALSE, TRUE) =>
              At(FALSE, FALSE, FALSE, FALSE)' \/ At(FALSE, TRUE, FALSE, FALSE)'
         /\ At(FALSE, TRUE, FALSE, FALSE) =>
              \/ At(FALSE, TRUE, FALSE, TRUE)'
              \/ At(TRUE, TRUE, FALSE, TRUE)' \/ At(FALSE, TRUE, TRUE, TRUE)'
         /\ At(TRUE, TRUE, FALSE, TRUE) =>
              At(FALSE, TRUE, FALSE, FALSE)' \/ At(TRUE, FALSE, FALSE, FALSE)'
         /\ At(FALSE, TRUE, TRUE, TRUE) =>
              At(FALSE, TRUE, FALSE, FALSE)' \/ At(FALSE, FALSE, TRUE, FALSE)'
         /\ At(TRUE, FALSE, FALSE, FALSE) =>
              At(TRUE, TRUE, FALSE, TRUE)' \/ At(TRUE, FALSE, TRUE, TRUE)'
         /\ At(FALSE, FALSE, TRUE, FALSE) =>
              At(FALSE, TRUE, TRUE, TRUE)' \/ At(TRUE, FALSE, TRUE, TRUE)'
         /\ At(TRUE, FALSE, TRUE, TRUE) =>
              \/ At(TRUE, FALSE, FALSE, FALSE)' \/ At(FALSE, FALSE, TRUE, FALSE)'
              \/ At(TRUE, FALSE, TRUE, FALSE)'
         /\ At(TRUE, FALSE, TRUE, FALSE) =>
              At(TRUE, FALSE, TRUE, TRUE)' \/ At(TRUE, TRUE, TRUE, TRUE)'
BY DEF Flipped, NobodyEaten, Alone, At, Animals

\* Where the moves of the solution lead from the positions on its way.
LEMMA SolutionMoves ==
  ASSUME NEW thing, Flipped(thing)
  PROVE  /\ At(FALSE, FALSE, FALSE, FALSE) /\ thing = "goat" => At(FALSE, TRUE, FALSE, TRUE)'
         /\ At(FALSE, TRUE, FALSE, TRUE) /\ thing = "nothing" => At(FALSE, TRUE, FALSE, FALSE)'
         /\ At(FALSE, TRUE, FALSE, FALSE) /\ thing = "wolf" => At(TRUE, TRUE, FALSE, TRUE)'
         /\ At(TRUE, TRUE, FALSE, TRUE) /\ thing = "goat" => At(TRUE, FALSE, FALSE, FALSE)'
         /\ At(TRUE, FALSE, FALSE, FALSE) /\ thing = "cabbage" => At(TRUE, FALSE, TRUE, TRUE)'
         /\ At(TRUE, FALSE, TRUE, TRUE) /\ thing = "nothing" => At(TRUE, FALSE, TRUE, FALSE)'
         /\ At(TRUE, FALSE, TRUE, FALSE) /\ thing = "goat" => At(TRUE, TRUE, TRUE, TRUE)'
BY DEF Flipped, At

\* The seven moves of main.
LEMMA SolutionIs ==
  /\ Crossing!Solution \in Seq(Animals \union {"nothing"}) /\ Len(Crossing!Solution) = 7
  /\ Crossing!Solution[1] = "goat" /\ Crossing!Solution[2] = "nothing"
  /\ Crossing!Solution[3] = "wolf" /\ Crossing!Solution[4] = "goat"
  /\ Crossing!Solution[5] = "cabbage" /\ Crossing!Solution[6] = "nothing"
  /\ Crossing!Solution[7] = "goat"
<1> DEFINE S == Animals \union {"nothing"}
<1>1. "goat" \in S /\ "wolf" \in S /\ "cabbage" \in S /\ "nothing" \in S
  BY DEF Animals
<1> HIDE DEF S
<1>2. \A a, b, c, d \in S : <<a, b, c, a, d, b, a>> \in Seq(S)
  OBVIOUS
<1>3. Crossing!Solution \in Seq(S)
  BY <1>1, <1>2 DEF Crossing!Solution
<1>4. Crossing!Solution \in Seq(Animals \union {"nothing"})
  BY <1>3 DEF S
<1> QED BY <1>4 DEF Crossing!Solution

\* A path that is longer by a move is one of the solution only if it was before.
LEMMA FirstMoves ==
  ASSUME RiverTypes, NEW thing, v4' = Append(v4, thing), NEW n \in 0 .. 7, First(n)'
  PROVE  /\ n # 0 /\ First(n - 1) /\ thing = Crossing!Solution[n]
<1>1. Len(v4) \in Nat /\ Len(v4') = Len(v4) + 1 /\ v4'[Len(v4) + 1] = thing
      /\ \A k \in 1 .. Len(v4) : v4'[k] = v4[k]
  BY DEF RiverTypes
<1>2. Len(v4') = n /\ \A k \in 1 .. n : v4'[k] = Crossing!Solution[k]
  BY DEF First, Crossing!Solution
<1>3. n # 0 /\ Len(v4) = n - 1 /\ n \in 1 .. n /\ \A k \in 1 .. n - 1 : k \in 1 .. n
  BY <1>1, <1>2
<1> QED BY <1>1, <1>2, <1>3 DEF First

LEMMA RiverStep == RiverInv /\ Crossing!Step => RiverInv'
<1> SUFFICES ASSUME RiverInv, Crossing!Step PROVE RiverInv'
  OBVIOUS
<1>1. PICK thing \in Animals \union {"nothing"} :
        RiverTypes' /\ v4' = Append(v4, thing) /\ Flipped(thing) /\ NobodyEaten'
  BY AnimalsAre, MoveFlips, NothingFlips DEF RiverInv, Crossing!Step
<1>2. Len(v4) \in Nat /\ Len(v4') = Len(v4) + 1
  BY <1>1 DEF RiverInv, RiverTypes
<1>3. ~At(TRUE, TRUE, TRUE, TRUE)
  BY AnimalsAre DEF Crossing!Step, Crossing!Move, Crossing!MoveNothing, Crossing!CanMove,
     Crossing!CanMoveNothing, Crossing!Goal, At, Animals
<1>4. FarEnough'
  <2>1. ASSUME FarEnough PROVE FarEnough'
    BY <1>1, <1>2, <1>3, <2>1, NextPositions DEF FarEnough, At
  <2> QED BY <2>1 DEF RiverInv
<1>5. OnTheWay'
  <2>1. ASSUME NEW n \in 0 .. 7, First(n)'
        PROVE  n # 0 /\ First(n - 1) /\ thing = Crossing!Solution[n]
    BY <1>1, <2>1, FirstMoves DEF RiverInv
  <2>2. ~First(0)'
    BY <2>1
  <2>3. First(1)' => First(0) /\ thing = "goat"
    BY <2>1, SolutionIs
  <2>4. First(2)' => First(1) /\ thing = "nothing"
    BY <2>1, SolutionIs
  <2>5. First(3)' => First(2) /\ thing = "wolf"
    BY <2>1, SolutionIs
  <2>6. First(4)' => First(3) /\ thing = "goat"
    BY <2>1, SolutionIs
  <2>7. First(5)' => First(4) /\ thing = "cabbage"
    BY <2>1, SolutionIs
  <2>8. First(6)' => First(5) /\ thing = "nothing"
    BY <2>1, SolutionIs
  <2>9. First(7)' => First(6) /\ thing = "goat"
    BY <2>1, SolutionIs
  <2> QED BY <1>1, <2>2, <2>3, <2>4, <2>5, <2>6, <2>7, <2>8, <2>9, SolutionMoves
          DEF RiverInv, OnTheWay
<1> QED BY <1>1, <1>4, <1>5 DEF RiverInv

\* A template can be instantiated where nobody is eaten afterwards. Its condition on the last
\* move does not matter, for m is 0 or 1.
LEMMA MoveCan ==
  ASSUME RiverTypes, NEW thing \in Animals, v1[thing] <=> v2, ~At(TRUE, TRUE, TRUE, TRUE),
         ~Alone(Crossing!After(thing)["wolf"], Crossing!After(thing)["goat"], ~v2),
         ~Alone(Crossing!After(thing)["goat"], Crossing!After(thing)["cabbage"], ~v2)
  PROVE  Crossing!CanMove(thing)
<1>1. v1[thing] = v2 /\ (~v2) \in BOOLEAN
  <2>1. v1[thing] \in BOOLEAN /\ v2 \in BOOLEAN
    BY DEF RiverTypes
  <2> QED BY <2>1
<1>2. v3 # Crossing!Number[thing] + Crossing!Bit(~v2)
  <2>1. Crossing!Bit(~v2) \in {0, 1}
    BY DEF Crossing!Bit
  <2> QED BY <2>1, AnimalsAre DEF RiverTypes
<1>3. ~Crossing!Goal
  BY AnimalsAre DEF Crossing!Goal, At, Animals
<1>4. ~Crossing!Eats(Crossing!After(thing), ~v2)
  BY <1>1, AfterIs, EatsIs
<1> QED BY <1>1, <1>2, <1>3, <1>4 DEF Crossing!CanMove

LEMMA NothingCan ==
  ASSUME RiverTypes, At(FALSE, TRUE, FALSE, TRUE) \/ At(TRUE, FALSE, TRUE, TRUE)
  PROVE  Crossing!CanMoveNothing
<1>1. v1 \in [Animals -> BOOLEAN] /\ (~v2) \in BOOLEAN
  BY DEF RiverTypes
<1>2. ~Alone(v1["wolf"], v1["goat"], ~v2) /\ ~Alone(v1["goat"], v1["cabbage"], ~v2)
  BY DEF At, Alone
<1>3. ~Crossing!Eats(v1, ~v2)
  BY <1>1, <1>2, EatsIs
<1>4. ~Crossing!Goal
  BY AnimalsAre DEF Crossing!Goal, At, Animals
<1> QED BY <1>3, <1>4 DEF Crossing!CanMoveNothing

LEMMA GoatCan ==
  ASSUME RiverTypes,
         \/ At(FALSE, FALSE, FALSE, FALSE)
         \/ At(TRUE, TRUE, FALSE, TRUE)
         \/ At(TRUE, FALSE, TRUE, FALSE)
  PROVE  Crossing!CanMove("goat")
<1> DEFINE after == Crossing!After("goat")
<1>1. /\ "goat" \in Animals /\ after["goat"] = ~v1["goat"]
      /\ after["wolf"] = v1["wolf"] /\ after["cabbage"] = v1["cabbage"]
  BY AfterIs DEF Animals
<1> HIDE DEF after
<1>2. v1["goat"] <=> v2
  BY DEF At
<1>3. ~At(TRUE, TRUE, TRUE, TRUE)
  BY DEF At
<1>4. ~Alone(after["wolf"], after["goat"], ~v2) /\ ~Alone(after["goat"], after["cabbage"], ~v2)
  BY <1>1 DEF At, Alone
<1> QED BY <1>1, <1>2, <1>3, <1>4, MoveCan DEF after

LEMMA WolfCan ==
  ASSUME RiverTypes, At(FALSE, TRUE, FALSE, FALSE)
  PROVE  Crossing!CanMove("wolf")
<1> DEFINE after == Crossing!After("wolf")
<1>1. /\ "wolf" \in Animals /\ after["wolf"] = ~v1["wolf"]
      /\ after["goat"] = v1["goat"] /\ after["cabbage"] = v1["cabbage"]
  BY AfterIs DEF Animals
<1> HIDE DEF after
<1>2. (v1["wolf"] <=> v2) /\ ~At(TRUE, TRUE, TRUE, TRUE)
  BY DEF At
<1>3. ~Alone(after["wolf"], after["goat"], ~v2) /\ ~Alone(after["goat"], after["cabbage"], ~v2)
  BY <1>1 DEF At, Alone
<1> QED BY <1>1, <1>2, <1>3, MoveCan DEF after

LEMMA CabbageCan ==
  ASSUME RiverTypes, At(TRUE, FALSE, FALSE, FALSE)
  PROVE  Crossing!CanMove("cabbage")
<1> DEFINE after == Crossing!After("cabbage")
<1>1. /\ "cabbage" \in Animals /\ after["cabbage"] = ~v1["cabbage"]
      /\ after["goat"] = v1["goat"] /\ after["wolf"] = v1["wolf"]
  BY AfterIs DEF Animals
<1> HIDE DEF after
<1>2. (v1["cabbage"] <=> v2) /\ ~At(TRUE, TRUE, TRUE, TRUE)
  BY DEF At
<1>3. ~Alone(after["wolf"], after["goat"], ~v2) /\ ~Alone(after["goat"], after["cabbage"], ~v2)
  BY <1>1 DEF At, Alone
<1> QED BY <1>1, <1>2, <1>3, MoveCan DEF after

\* The next move of the solution can be made.
LEMMA NextCan ==
  ASSUME RiverInv, NEW n \in 0 .. 6, First(n)
  PROVE  IF Crossing!Solution[n + 1] = "nothing"
         THEN Crossing!CanMoveNothing
         ELSE Crossing!CanMove(Crossing!Solution[n + 1])
<1> USE DEF RiverInv, OnTheWay
<1>1. CASE n = 0
  BY <1>1, SolutionIs, GoatCan
<1>2. CASE n = 1
  BY <1>2, SolutionIs, NothingCan
<1>3. CASE n = 2
  BY <1>3, SolutionIs, WolfCan
<1>4. CASE n = 3
  BY <1>4, SolutionIs, GoatCan
<1>5. CASE n = 4
  BY <1>5, SolutionIs, CabbageCan
<1>6. CASE n = 5
  BY <1>6, SolutionIs, NothingCan
<1>7. CASE n = 6
  BY <1>7, SolutionIs, GoatCan
<1> QED BY <1>1, <1>2, <1>3, <1>4, <1>5, <1>6, <1>7

\* A prefix has the elements of the whole.
LEMMA PrefixAgrees ==
  ASSUME NEW S, NEW s \in Seq(S), NEW t \in Seq(S), Len(s) <= Len(t),
         s = SubSeq(t, 1, Len(s))
  PROVE  \A k \in 1 .. Len(s) : s[k] = t[k]
<1> DEFINE n == Len(s)
<1>1. n \in Nat /\ n <= Len(t) /\ Len(t) \in Nat
  BY LenProperties
<1>2. (\A k \in 1 .. n : s[k] \in S) /\ \A k \in 1 .. Len(t) : t[k] \in S
  BY ElementOfSeq
<1>3. s = SubSeq(t, 1, n)
  OBVIOUS
<1> HIDE DEF n
<1>4. n \in Int /\ 1 \in Int /\ \A k \in 1 .. n : t[k] \in S
  BY <1>1, <1>2
<1>5. \A k \in 1 .. n - 1 + 1 : SubSeq(t, 1, n)[k] = t[1 + k - 1]
  BY <1>4, SubSeqProperties
<1>6. \A k \in 1 .. n : k \in 1 .. n - 1 + 1 /\ 1 + k - 1 = k
  BY <1>4
<1>7. \A k \in 1 .. n : s[k] = t[k]
  BY <1>3, <1>5, <1>6
<1> QED BY <1>7 DEF n

LEMMA RiverResults == RiverInv => Crossing!CrossedSafely
<1> SUFFICES ASSUME RiverInv PROVE Crossing!CrossedSafely
  OBVIOUS
<1>1. RiverTypes /\ v1 \in [Animals -> BOOLEAN] /\ v2 \in BOOLEAN /\ v4 \in Seq(Animals \union {"nothing"})
  BY DEF RiverInv, RiverTypes
<1>2. NobodyEaten
  BY DEF RiverInv, FarEnough, At, NobodyEaten, Alone
<1>3. ~Crossing!Eats(v1, v2)
  BY <1>1, <1>2, EatsIs DEF NobodyEaten
<1>4. Crossing!Goal <=> At(TRUE, TRUE, TRUE, TRUE)
  BY AnimalsAre DEF Crossing!Goal, At, Animals
<1>5. Crossing!Goal => Len(v4) >= 7
  BY <1>4 DEF RiverInv, FarEnough, At
<1>6. Len(Crossing!Solution) = 7
  BY SolutionIs
<1>7. v4 = Crossing!Solution => Crossing!Goal
  <2>1. v4 = Crossing!Solution => First(7)
    BY <1>6 DEF First
  <2> QED BY <1>4, <2>1 DEF RiverInv, OnTheWay
<1>8. ASSUME Len(v4) < Len(Crossing!Solution), v4 = SubSeq(Crossing!Solution, 1, Len(v4))
      PROVE  Len(v4) \in 0 .. 6 /\ First(Len(v4))
  <2> DEFINE n == Len(v4)
  <2>1. n \in Nat /\ n < 7
    BY <1>1, <1>6, <1>8, LenProperties
  <2>2. n <= Len(Crossing!Solution)
    BY <1>6, <2>1
  <2>3. \A k \in 1 .. n : v4[k] = Crossing!Solution[k]
    BY <1>1, <1>8, <2>2, SolutionIs, PrefixAgrees
  <2> HIDE DEF n
  <2>4. n \in 0 .. 6
    BY <2>1
  <2> QED BY <2>3, <2>4 DEF First, n
<1>9. Len(v4) < Len(Crossing!Solution) /\ v4 = SubSeq(Crossing!Solution, 1, Len(v4)) =>
        LET following == Crossing!Solution[Len(v4) + 1]
        IN IF following = "nothing" THEN Crossing!CanMoveNothing ELSE Crossing!CanMove(following)
  BY <1>8, NextCan
<1> QED BY <1>3, <1>5, <1>6, <1>7, <1>9 DEF Crossing!CrossedSafely

-----------------------------------------------------------------------------
\* The programs together: each keeps its invariant while it runs.
ProgramsInv ==
  /\ program = "julia" => JuliaInv
  /\ program = "ascii" => AsciiInv
  /\ program = "chain" => ChainInv
  /\ program = "counters" => CountersInv
  /\ program = "by_ref" => ByRefInv
  /\ program = "river" => RiverInv

LEMMA ProgramsBegin == Begin => ProgramsInv
BY JuliaInit, AsciiInit, ChainInit, CountersInit, ByRefInit, RiverInit DEF Begin, ProgramsInv

\* Whatever does not change keeps the invariants.
LEMMA JuliaStays == JuliaInv /\ UNCHANGED places => JuliaInv'
<1> SUFFICES ASSUME JuliaInv, UNCHANGED places PROVE JuliaInv'
  OBVIOUS
<1>1. UNCHANGED <<v1, v2, v3, v4, v5, v6, v7, v8, v9, v10, v11, v12, v13>>
  BY DEF places
<1>2. Julia!NYs' = Julia!NYs /\ Julia!Rows' = Julia!Rows /\ Julia!IndexSpan' = Julia!IndexSpan
  BY <1>1, SamePicture
<1>3. JuliaTypes' /\ PartsCut' /\ RowsDone'
  BY <1>1, <1>2 DEF JuliaInv, JuliaTypes, PartsCut, RowsDone
<1>4. Julia!MaxOver(v5)' = Julia!MaxOver(v5)
  BY <1>1, <1>2 DEF Julia!MaxOver, Julia!Max
<1>5. Counted'
  BY <1>1, <1>4 DEF JuliaInv, Counted
<1>6. Julia!Max({v2[z] : z \in Julia!Rows})' = Julia!Max({v2[z] : z \in Julia!Rows})
  BY <1>1, <1>2 DEF Julia!Max
<1>7. FilesWritten'
  BY <1>1, <1>2, <1>6 DEF JuliaInv, FilesWritten
<1> QED BY <1>3, <1>5, <1>7 DEF JuliaInv

LEMMA AsciiStays == AsciiInv /\ UNCHANGED places => AsciiInv'
<1> SUFFICES ASSUME AsciiInv, UNCHANGED places PROVE AsciiInv'
  OBVIOUS
<1>1. UNCHANGED <<v1, v2, v3, v4, v5, v6, v7, v8, v9>>
  BY DEF places
<1>2. UNCHANGED <<File, FileLines>>
  BY <1>1 DEF File, FileLines
<1>3. AsciiTypes'
  BY <1>1, <1>2, Zenon DEF AsciiInv, AsciiTypes
<1>4. ReadSoFar'
  BY <1>1, <1>2, Zenon DEF AsciiInv, ReadSoFar
<1> QED BY <1>3, <1>4 DEF AsciiInv

LEMMA ChainStays == ChainInv /\ UNCHANGED places => ChainInv'
BY DEF places, ChainInv, ChainTypes, ChainMarked, LongestEnds, Chain!Linked, Chain!Successors,
   Chain!Last

LEMMA CountersStay == CountersInv /\ UNCHANGED places => CountersInv'
BY DEF places, CountersInv, CountersTypes, PlainCounter, VolatileCounter, AtomicCounter,
   PlainMade, VolatileMade, AtomicMade, PlainLoaded, VolatileLoaded, Gathered, Multiple

LEMMA ByRefStays == ByRefInv /\ UNCHANGED places => ByRefInv'
BY DEF places, ByRefInv, ByRefTypes, OwnElements, Collected

LEMMA RiverStays == RiverInv /\ UNCHANGED places => RiverInv'
BY DEF places, RiverInv, RiverTypes, FarEnough, OnTheWay, At, First, Crossing!Solution

LEMMA ProgramsGoOn == ProgramsInv /\ [StepOrEnd]_places => ProgramsInv'
<1> SUFFICES ASSUME ProgramsInv, [StepOrEnd]_places PROVE ProgramsInv'
  OBVIOUS
<1>1. CASE Step
  <2>1. program' = program
    BY <1>1 DEF Step
  <2>2. /\ program = "julia" => Julia!Step
        /\ program = "ascii" => Ascii!Step
        /\ program = "chain" => Chain!Step
        /\ program = "counters" => Counter!Step
        /\ program = "by_ref" => ByRef!Step
        /\ program = "river" => Crossing!Step
    BY <1>1 DEF Step
  <2> QED BY <2>1, <2>2, JuliaStep, AsciiStep, ChainStep, CountersStep, ByRefStep, RiverStep
          DEF ProgramsInv
<1>2. CASE UNCHANGED places
  <2>1. program' = program
    BY <1>2 DEF places
  <2> QED BY <1>2, <2>1, JuliaStays, AsciiStays, ChainStays, CountersStay, ByRefStays, RiverStays
          DEF ProgramsInv
<1> QED BY <1>1, <1>2 DEF StepOrEnd

LEMMA ProgramsInvariance == Programs => []ProgramsInv
BY ProgramsBegin, ProgramsGoOn, PTL DEF Programs

\* Every row of the picture belongs to one job, is counted and colored once, and the program
\* succeeds only with the files that were asked for (scan_points, draw_image and draw of
\* juliaset_impl.cpp), for pictures of every size; of counts and colors it speaks for any
\* number of processors from one on.
THEOREM RowsDivided == Programs => []EachRowOnce
<1>1. ProgramsInv => EachRowOnce
  BY JuliaResults DEF ProgramsInv, EachRowOnce
<1> QED BY <1>1, ProgramsInvariance, PTL

\* The checker (asciiOnlyCheckerImpl.rb) fails a file exactly if it holds a character that is
\* not ASCII in what the program looks at, whatever the paragraphs and however many lines.
THEOREM FilesJudged == Programs => VerdictOfFile
<1>1. ProgramsInv /\ [StepOrEnd]_places => [program = "ascii" => Ascii!VerdictOfFile]_places
  <2> SUFFICES ASSUME ProgramsInv, Step PROVE program = "ascii" => Ascii!VerdictOfFile
    BY DEF StepOrEnd
  <2>1. program = "ascii" => Ascii!Step
    BY DEF Step
  <2> QED BY <2>1, AsciiVerdict DEF ProgramsInv
<1> QED BY <1>1, ProgramsInvariance, PTL DEF Programs, VerdictOfFile

\* The marks of element_chain.cpp are those of its chain whichever way the calls return, and
\* its longest chain cannot go on, for every budget. The templates of river.cpp let nobody be
\* eaten, accept the seven moves of main, and reach the goal with no fewer.
THEOREM RulesKept == Programs => []PuzzlesKeepRules
<1>1. ProgramsInv => PuzzlesKeepRules
  BY ChainResults, RiverResults DEF ProgramsInv, PuzzlesKeepRules
<1> QED BY <1>1, ProgramsInvariance, PTL

\* When the threads of cppFriendsOpt.cpp are joined the atomic counter has counted every
\* increment, a plain one has lost some at most, down to two, and what is gathered comes in
\* multiples of the count. Each thread of thread_by_ref.cpp has counted for itself.
THEOREM CountsAreWhole == Programs => []ThreadsCountAll
<1>1. ProgramsInv => ThreadsCountAll
  BY CountersResults, ByRefResults DEF ProgramsInv, ThreadsCountAll
<1> QED BY <1>1, ProgramsInvariance, PTL
==============================================================================
