---------------------------- MODULE ElementChain ----------------------------
(***************************************************************************)
(* element_chain.cpp: chains of chemical elements in which each begins     *)
(* with the letter the one before ends with. findLongestPath searches with *)
(* random choices and a budget, and undoes its steps in destructors.       *)
(*                                                                         *)
(* calls is the call stack of findLongestPath, with one frame for each     *)
(* element of the chain: where the call is ("enter", "one" in the call for *)
(* an element of one letter, "loop"), how many iterations of its loop have *)
(* begun, and whether a call they made was aborted.                        *)
(***************************************************************************)
EXTENDS Integers, Sequences, FiniteSets, SequencesExt

CONSTANTS
  Elements,      \* the elements, [first, last]; those of one letter end as they begin
  InitialCount,  \* the budget of a search
  BaseChainSize, \* chains from this size on earn a larger budget
  MaxSearches,   \* bound: main searches for ever
  None           \* no call has just returned

VARIABLES
  limitEveryCase, selectOne,  \* the parameters of State
  count,     \* count_
  used,      \* used_, as a set
  chain, longestChain,
  calls,
  returned,  \* what a call has just returned: it was aborted
  searches

parameters == <<limitEveryCase, selectOne>>
vars == <<parameters, count, used, chain, longestChain, calls, returned, searches>>

Entry == [at |-> "enter", tried |-> 0, aborted |-> FALSE]

Init ==
  /\ limitEveryCase \in BOOLEAN
  /\ selectOne \in BOOLEAN
  /\ count = InitialCount
  /\ used = {}
  /\ chain = <<>>
  /\ longestChain = <<>>
  /\ calls = <<>>
  /\ returned = None
  /\ searches = 0

\* SetAllAndFind: a search that begins with a random element.
Search ==
  /\ calls = <<>>
  /\ returned = None
  /\ searches < MaxSearches
  /\ \E e \in Elements : used' = used \union {e} /\ chain' = Append(chain, e)
  /\ calls' = <<Entry>>
  /\ searches' = searches + 1
  /\ UNCHANGED <<parameters, count, longestChain, returned>>

\* Reset, in the destructor of SetAllAndFind. The longest chain is kept.
EndSearch ==
  /\ calls = <<>>
  /\ returned # None
  /\ count' = InitialCount
  /\ used' = {}
  /\ chain' = <<>>
  /\ returned' = None
  /\ UNCHANGED <<parameters, longestChain, calls, searches>>

-----------------------------------------------------------------------------
Top == Last(calls)
Running(at) == calls # <<>> /\ returned = None /\ Top.at = at

Successors(e) == {f \in Elements : f.first = e.last}
OneLetter(e) == e.first = e.last
NextOne == {e \in Successors(Last(chain)) : OneLetter(e)}
NextTwo == {e \in Successors(Last(chain)) : ~OneLetter(e)}

Return(aborted) == calls' = Front(calls) /\ returned' = aborted

\* AddToChainAndFind: the chain grows, and the call is made from frame.
Add(e, frame) ==
  /\ used' = used \union {e}
  /\ chain' = Append(chain, e)
  /\ calls' = Front(calls) \o <<frame, Entry>>

\* The budget is spent.
Abort ==
  /\ Running("enter")
  /\ count <= 0
  /\ Return(TRUE)
  /\ UNCHANGED <<parameters, count, used, chain, longestChain, searches>>

AddOneLetter ==
  /\ Running("enter")
  /\ count > 0
  /\ \E e \in NextOne \ used : Add(e, [Top EXCEPT !.at = "one"])
  /\ UNCHANGED <<parameters, count, longestChain, returned, searches>>

StartLoop ==
  /\ Running("enter")
  /\ count > 0
  /\ NextOne \subseteq used
  /\ NextTwo # {}
  /\ calls' = [calls EXCEPT ![Len(calls)].at = "loop"]
  /\ UNCHANGED <<parameters, count, used, chain, longestChain, returned, searches>>

\* What is left of the budget after a chain of this size, which may be the longest.
CountAfter(size, updated) ==
  LET surplus == (size - BaseChainSize) * 2
      shift == IF surplus < 6 THEN surplus ELSE 6
  IN IF ~limitEveryCase /\ updated /\ size >= BaseChainSize
     THEN InitialCount * 2 ^ shift
     ELSE count - 1

\* No element of two letters can come next, used or not: the chain is judged.
DeadEnd ==
  /\ Running("enter")
  /\ count > 0
  /\ NextOne \subseteq used
  /\ NextTwo = {}
  /\ LET updated == Len(longestChain) < Len(chain)
     IN /\ longestChain' = IF updated THEN chain ELSE longestChain
        /\ count' = CountAfter(Len(chain), updated)
  /\ Return(FALSE)
  /\ UNCHANGED <<parameters, used, chain, searches>>

\* Mutated Iterate: the iterations are not counted.
IterateForEver ==
  /\ Running("loop")
  /\ Top.tried < Cardinality(NextTwo)
  /\ \E e \in NextTwo :
       IF e \in used THEN UNCHANGED <<calls, used, chain>> ELSE Add(e, Top)
  /\ UNCHANGED <<parameters, count, longestChain, returned, searches>>

\* One iteration picks any element, again and again perhaps, and skips a used one.
Iterate ==
  /\ Running("loop")
  /\ Top.tried < Cardinality(NextTwo)
  /\ LET frame == [Top EXCEPT !.tried = @ + 1]
     IN \E e \in NextTwo :
          IF e \in used
          THEN calls' = Append(Front(calls), frame) /\ UNCHANGED <<used, chain>>
          ELSE Add(e, frame)
  /\ UNCHANGED <<parameters, count, longestChain, returned, searches>>

EndLoop ==
  /\ Running("loop")
  /\ Top.tried = Cardinality(NextTwo)
  /\ Return(Top.aborted)
  /\ UNCHANGED <<parameters, count, used, chain, longestChain, searches>>

\* Mutated Undo: the element may be used again, but stays in the chain.
UndoUsed == used' = used \ {Last(chain)} /\ chain' = chain

\* The destructor of AddToChainAndFind.
Undo == used' = used \ {Last(chain)} /\ chain' = Front(chain)

\* A call returns to its caller, which returns too or goes on with its loop.
Resume ==
  /\ calls # <<>>
  /\ returned # None
  /\ Undo
  /\ LET aborted == Top.aborted \/ returned
     IN IF Top.at = "one" \/ (limitEveryCase /\ selectOne)
        THEN Return(aborted)
        ELSE /\ calls' = [calls EXCEPT ![Len(calls)].aborted = aborted]
             /\ returned' = None
  /\ UNCHANGED <<parameters, count, longestChain, searches>>

Step ==
  \/ Search \/ EndSearch
  \/ Abort \/ AddOneLetter \/ StartLoop \/ DeadEnd
  \/ Iterate \/ EndLoop \/ Resume

Ended == searches = MaxSearches /\ calls = <<>> /\ returned = None

-----------------------------------------------------------------------------
Linked(c) == \A i \in 1 .. Len(c) - 1 : c[i].last = c[i + 1].first
NoneTwice(c) == Cardinality(ToSet(c)) = Len(c)

\* The marks are those of the chain, whichever way the calls have returned: an element is
\* in a chain once, neighbours share a letter, the longest chain cannot go on, and
\* between two searches nothing is left of the first.
ChainsLinked ==
  /\ used = ToSet(chain) /\ NoneTwice(chain) /\ Linked(chain)
  /\ NoneTwice(longestChain) /\ Linked(longestChain)
  /\ longestChain # <<>> => Successors(Last(longestChain)) \subseteq ToSet(longestChain)
  /\ calls = <<>> /\ returned = None => chain = <<>>
=============================================================================
