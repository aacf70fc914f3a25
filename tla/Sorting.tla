------------------------------ MODULE Sorting ------------------------------
(***************************************************************************)
(* What QuickSort (src/cppFriendsSort.cpp) promises, and what its tests    *)
(* compare it to: the array it is given, permuted into ascending order.    *)
(* Arrays are functions from the positions 0 .. size - 1, as in the code.  *)
(***************************************************************************)
EXTENDS Integers

CONSTANT NotYet  \* the output while QuickSort runs

VARIABLES
  input,   \* the array as it was given
  output   \* the array as it is returned

vars == <<input, output>>

Permutations(D) ==
  {p \in [D -> D] : \A x, y \in D : p[x] = p[y] => x = y}

IsPermutation(a, b) ==
  \E p \in Permutations(DOMAIN b) : a = [i \in DOMAIN b |-> b[p[i]]]

\* IsSorted: no element is greater than its successor.
IsSorted(a) == \A i \in DOMAIN a : i + 1 \in DOMAIN a => a[i] <= a[i + 1]

Init == output = NotYet

Sort ==
  /\ output = NotYet
  /\ output' # NotYet
  /\ IsPermutation(output', input)
  /\ IsSorted(output')
  /\ input' = input

Spec == Init /\ [][Sort]_vars
=============================================================================
