----------------------------- MODULE Handshake -----------------------------
(***************************************************************************)
(* TestConditionVariable of cppFriendsThread.cpp: a Sender and a Receiver  *)
(* hand Count values over through one mutex and two condition variables,   *)
(* cvReceived on which the sender waits and cvSent on which the receiver   *)
(* waits. Both notify while they hold the mutex.                           *)
(***************************************************************************)
EXTENDS Integers

CONSTANTS
  Count,       \* the argument of exec: how many values to hand over
  MaxSpurious, \* bound: how many spurious wakeups may happen
  None         \* nobody holds the mutex

Sender == "Sender"
Receiver == "Receiver"
Threads == {Sender, Receiver}

ASSUME HandshakeAssumption ==
  /\ Count \in Nat
  /\ MaxSpurious \in Nat
  /\ None \notin Threads

VARIABLES
  value,         \* the shared value_
  received,      \* the shared received_, an int
  previousValue, \* previousValue_ of the receiver
  mutex,         \* the thread that holds mutex_, or None
  pc,            \* thread -> its program counter
  count,         \* thread -> its local count, which Exec returns
  spurious       \* how many spurious wakeups have happened

vars == <<value, received, previousValue, mutex, pc, count, spurious>>

Goto(t, to) == pc' = [pc EXCEPT ![t] = to]
Step(t, from, to) == pc[t] = from /\ Goto(t, to)

\* The constructor of Receiver makes the first round look received.
Init ==
  /\ value = 0
  /\ received = 1
  /\ previousValue = 0
  /\ mutex = None
  /\ pc = [t \in Threads |-> "loop"]
  /\ count = [t \in Threads |-> 0]
  /\ spurious = 0

\* Mutated MoreRounds: one round too many.
MoreRoundsInclusive(t) == count[t] <= Count

\* The condition of the loop of Exec.
MoreRounds(t) == count[t] < Count

\* Mutated Lock: the mutex is not taken.
LockNothing(t) ==
  /\ MoreRounds(t)
  /\ mutex = None
  /\ Step(t, "loop", "test") \/ Step(t, "woken", "test")
  /\ UNCHANGED <<value, received, previousValue, mutex, count, spurious>>

\* The loop takes the mutex for the next value, and a woken thread for its wait.
Lock(t) ==
  /\ MoreRounds(t)
  /\ mutex = None
  /\ mutex' = t
  /\ Step(t, "loop", "test") \/ Step(t, "woken", "test")
  /\ UNCHANGED <<value, received, previousValue, count, spurious>>

\* Exec returns after Count rounds.
Return(t) ==
  /\ ~MoreRounds(t)
  /\ Step(t, "loop", "returned")
  /\ UNCHANGED <<value, received, previousValue, mutex, count, spurious>>

\* Mutated Ready: the receiver believes any wakeup.
ReadyWhenWoken(t) == IF t = Sender THEN received # 0 ELSE value >= previousValue

\* The predicates of the two waits.
Ready(t) == IF t = Sender THEN received # 0 ELSE value > previousValue

Test(t) ==
  /\ Step(t, "test", IF Ready(t) THEN "work" ELSE "sleep")
  /\ UNCHANGED <<value, received, previousValue, mutex, count, spurious>>

\* Waiting releases the mutex in the step that enters the wait set.
Sleep(t) ==
  /\ Step(t, "sleep", "wait")
  /\ mutex' = None
  /\ UNCHANGED <<value, received, previousValue, count, spurious>>

WakeSpuriously(t) ==
  /\ Step(t, "wait", "woken")
  /\ spurious < MaxSpurious
  /\ spurious' = spurious + 1
  /\ UNCHANGED <<value, received, previousValue, mutex, count>>

\* Mutated NotifyAll: nobody is woken.
NotifyNobody(t, other) == Goto(t, "unlock")

\* t leaves its work with notify_all on the condition variable of the other.
NotifyAll(t, other) ==
  pc' = [pc EXCEPT ![t] = "unlock", ![other] = IF @ = "wait" THEN "woken" ELSE @]

\* Mutated ClearReceived: the flag of the last round stays.
KeepReceived == UNCHANGED received

ClearReceived == received' = 0

Send ==
  /\ pc[Sender] = "work"
  /\ ClearReceived
  /\ value' = value + 1
  /\ count' = [count EXCEPT ![Sender] = @ + 1]
  /\ NotifyAll(Sender, Receiver)
  /\ UNCHANGED <<previousValue, mutex, spurious>>

Receive ==
  /\ pc[Receiver] = "work"
  /\ previousValue' = value
  /\ count' = [count EXCEPT ![Receiver] = @ + 1]
  /\ received' = 1
  /\ NotifyAll(Receiver, Sender)
  /\ UNCHANGED <<value, mutex, spurious>>

\* The end of the scope of the lock.
Unlock(t) ==
  /\ Step(t, "unlock", "loop")
  /\ mutex' = None
  /\ UNCHANGED <<value, received, previousValue, count, spurious>>

ThreadNext(t) ==
  Lock(t) \/ Return(t) \/ Test(t) \/ Sleep(t) \/ Unlock(t)

\* exec has got both results.
Done ==
  /\ \A t \in Threads : pc[t] = "returned"
  /\ UNCHANGED vars

Next ==
  \/ \E t \in Threads : ThreadNext(t) \/ WakeSpuriously(t)
  \/ Send \/ Receive \/ Done

\* Each thread keeps running while it can. Weak fairness is enough for the mutex:
\* between two rounds a thread blocks until the other one has had its turn, and
\* spurious wakeups are finitely many.
Fairness ==
  /\ \A t \in Threads : WF_vars(ThreadNext(t))
  /\ WF_vars(Send) /\ WF_vars(Receive)

Spec == Init /\ [][Next]_vars
FairSpec == Spec /\ Fairness

-----------------------------------------------------------------------------
\* Properties

\* Every variable stays within its type, the counts within the rounds.
TypeOK ==
  /\ value \in 0..Count
  /\ received \in {0, 1}
  /\ previousValue \in 0..Count
  /\ mutex \in Threads \cup {None}
  /\ pc \in [Threads -> {"loop", "test", "sleep", "wait", "woken", "work",
                         "unlock", "returned"}]
  /\ count \in [Threads -> 0..Count]
  /\ spurious \in 0..MaxSpurious

\* No value is skipped, overwritten before it is taken or taken twice: the flag
\* says exactly whether the last value is still on its way.
OneInFlight ==
  /\ value = previousValue + (1 - received)
  /\ count[Sender] = value
  /\ count[Receiver] = previousValue

\* A thread that sleeps, or has decided to, waits for something the other one
\* has still to do: its predicate is false, so they never sleep both.
SleepsForAReason == \A t \in Threads : pc[t] \in {"sleep", "wait"} => ~Ready(t)

\* The threads implement the hand-over of one value at a time and, with fair
\* scheduling, keep handing over until Count values have been taken.
Handing == INSTANCE Handoff WITH sent <- value, taken <- previousValue
HandsOver == Handing!FairSpec

\* Both calls of Exec return, with Count rounds each and value at Count, which is
\* what exec asserts.
BothReturn ==
  <>(/\ \A t \in Threads : pc[t] = "returned" /\ count[t] = Count
     /\ value = Count)
=============================================================================
