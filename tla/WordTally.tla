----------------------------- MODULE WordTally -----------------------------
(***************************************************************************)
(* What one call of execute_all (thread_safety/cpp/thread_safety.cpp)      *)
(* promises, with no threads in it: a text is published, every position of *)
(* the text is counted exactly once, in any order, and the sum of the      *)
(* counts is reported when no position is left.                            *)
(***************************************************************************)
EXTENDS Naturals, FiniteSets

CONSTANTS
  Words,      \* the words a text is made of
  TextLength, \* the number of words of a text
  TotalOf(_), \* the sum of a tally over the words
  None        \* no report yet

VARIABLES
  open,       \* TRUE while a text is published and not yet withdrawn
  text,       \* the published text, an empty sequence when there is none
  tally,      \* word -> how many times it has been counted
  pending,    \* the positions of the text that remain to be counted
  report      \* the last reported total

tallyVars == <<open, text, tally, pending, report>>

NoTally == [w \in Words |-> 0]

Init ==
  /\ open = FALSE
  /\ text = <<>>
  /\ tally = NoTally
  /\ pending = {}
  /\ report = None

Publish ==
  /\ ~open
  /\ open' = TRUE
  /\ text' \in [1..TextLength -> Words]
  /\ tally' = NoTally
  /\ pending' = 1..TextLength
  /\ UNCHANGED report

CountOne(p) ==
  /\ p \in pending
  /\ tally' = [tally EXCEPT ![text[p]] = @ + 1]
  /\ pending' = pending \ {p}
  /\ UNCHANGED <<open, text, report>>

Report ==
  /\ open
  /\ pending = {}
  /\ report' = TotalOf(tally)
  /\ UNCHANGED <<open, text, tally, pending>>

Withdraw ==
  /\ pending = {}
  /\ open' = FALSE
  /\ text' = <<>>
  /\ tally' = NoTally
  /\ UNCHANGED <<pending, report>>

Next == Publish \/ (\E p \in pending : CountOne(p)) \/ Report \/ Withdraw

Spec == Init /\ [][Next]_tallyVars
=============================================================================
