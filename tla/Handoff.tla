------------------------------ MODULE Handoff ------------------------------
(***************************************************************************)
(* What the handshake of TestConditionVariable (cppFriendsThread.cpp)      *)
(* promises: values are handed over one at a time, the next one being sent *)
(* only after the last one has been taken.                                 *)
(***************************************************************************)
EXTENDS Naturals

CONSTANT Count \* how many values are handed over

VARIABLES
  sent,        \* how many values have been sent
  taken        \* how many of them have been taken

Init == sent = 0 /\ taken = 0

Send == sent = taken /\ sent < Count /\ sent' = sent + 1 /\ UNCHANGED taken

Take == taken < sent /\ taken' = sent /\ UNCHANGED sent

Next == Send \/ Take

Spec == Init /\ [][Next]_<<sent, taken>>

FairSpec == Spec /\ WF_<<sent, taken>>(Next)
=============================================================================
