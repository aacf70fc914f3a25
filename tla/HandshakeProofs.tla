-------------------------- MODULE HandshakeProofs --------------------------
(***************************************************************************)
(* Theorems about Handshake, for every number of values and of spurious    *)
(* wakeups.                                                                *)
(***************************************************************************)
EXTENDS Handshake, TLAPS

\* The mutex is held by the thread that stands in its critical section.
MutexInv ==
  \A t \in Threads : mutex = t <=> pc[t] \in {"test", "sleep", "work", "unlock"}

\* A thread works only when it is its turn, and only before its last round is over.
WorkInv ==
  \A t \in Threads :
    /\ pc[t] = "work" => Ready(t)
    /\ pc[t] \in {"test", "sleep", "wait", "woken", "work"} => count[t] < Count

\* The inductive invariant: who sleeps is right because only the holder of the
\* mutex, who notifies the other thread, changes what the predicates read.
Inv == TypeOK /\ MutexInv /\ WorkInv /\ OneInFlight /\ SleepsForAReason

LEMMA TwoThreads == Sender # Receiver /\ Sender # None /\ Receiver # None
BY HandshakeAssumption DEF Threads, Sender, Receiver

LEMMA InvInit == Init => Inv
<1> SUFFICES ASSUME Init PROVE Inv
  OBVIOUS
<1> USE TwoThreads, HandshakeAssumption DEF Init
<1>1. TypeOK
  BY DEF TypeOK
<1>2. MutexInv /\ WorkInv /\ SleepsForAReason
  BY DEF MutexInv, WorkInv, SleepsForAReason, Threads
<1>3. OneInFlight
  BY DEF OneInFlight, Threads
<1> QED BY <1>1, <1>2, <1>3 DEF Inv

\* A step that only takes or gives back the mutex, or moves to sleep and back.
LEMMA WaitStep ==
  ASSUME Inv, NEW t \in Threads, ThreadNext(t) \/ WakeSpuriously(t)
  PROVE  Inv'
<1> USE TwoThreads, HandshakeAssumption DEF Step, Goto, Ready, MoreRounds
<1>1. UNCHANGED <<value, received, previousValue, count>>
  BY DEF ThreadNext, Lock, Return, Test, Sleep, Unlock, WakeSpuriously
<1>2. TypeOK'
  BY DEF Inv, TypeOK, ThreadNext, Lock, Return, Test, Sleep, Unlock, WakeSpuriously
<1>3. MutexInv'
  BY DEF Inv, TypeOK, MutexInv, ThreadNext, Lock, Return, Test, Sleep, Unlock,
         WakeSpuriously
<1>4. WorkInv'
  BY <1>1 DEF Inv, TypeOK, WorkInv, ThreadNext, Lock, Return, Test, Sleep, Unlock,
         WakeSpuriously
<1>5. OneInFlight'
  BY <1>1 DEF Inv, OneInFlight
<1>6. SleepsForAReason'
  BY <1>1 DEF Inv, TypeOK, SleepsForAReason, ThreadNext, Lock, Return, Test, Sleep,
         Unlock, WakeSpuriously
<1> QED BY <1>2, <1>3, <1>4, <1>5, <1>6 DEF Inv

\* The sender's work: the last value has been taken, so the next one is sent, and
\* the receiver cannot stay asleep.
LEMMA SendStep ==
  ASSUME Inv, Send
  PROVE  Inv'
<1> USE TwoThreads, HandshakeAssumption DEF Threads
<1>1. Ready(Sender) /\ count[Sender] < Count /\ mutex = Sender
  BY DEF Inv, WorkInv, MutexInv, Send
<1>2. received = 1 /\ value = previousValue /\ count[Sender] = value
  BY <1>1 DEF Inv, TypeOK, OneInFlight, Ready
<1>3. /\ received' = 0 /\ value' = value + 1 /\ previousValue' = previousValue
      /\ count' = [count EXCEPT ![Sender] = @ + 1] /\ mutex' = mutex
      /\ spurious' = spurious
      /\ pc' = [pc EXCEPT ![Sender] = "unlock",
                          ![Receiver] = IF @ = "wait" THEN "woken" ELSE @]
  BY DEF Send, ClearReceived, NotifyAll
<1>4. TypeOK'
  BY <1>1, <1>2, <1>3 DEF Inv, TypeOK
<1>5. pc[Receiver] \notin {"test", "sleep", "work", "unlock"}
  BY <1>1 DEF Inv, MutexInv
<1>6. MutexInv'
  BY <1>1, <1>3, <1>5 DEF Inv, TypeOK, MutexInv
<1>7. WorkInv'
  BY <1>3, <1>5 DEF Inv, TypeOK, WorkInv
<1>8. OneInFlight'
  BY <1>2, <1>3 DEF Inv, TypeOK, OneInFlight
<1>9. SleepsForAReason'
  BY <1>3, <1>5 DEF Inv, TypeOK, SleepsForAReason
<1> QED BY <1>4, <1>6, <1>7, <1>8, <1>9 DEF Inv

\* The receiver's work: exactly one value is on its way, and the sender cannot
\* stay asleep.
LEMMA ReceiveStep ==
  ASSUME Inv, Receive
  PROVE  Inv'
<1> USE TwoThreads, HandshakeAssumption DEF Threads
<1>1. Ready(Receiver) /\ count[Receiver] < Count /\ mutex = Receiver
  BY DEF Inv, WorkInv, MutexInv, Receive
<1>2. received = 0 /\ value = previousValue + 1 /\ count[Receiver] = previousValue
  BY <1>1 DEF Inv, TypeOK, OneInFlight, Ready
<1>3. /\ received' = 1 /\ value' = value /\ previousValue' = value
      /\ count' = [count EXCEPT ![Receiver] = @ + 1] /\ mutex' = mutex
      /\ spurious' = spurious
      /\ pc' = [pc EXCEPT ![Receiver] = "unlock",
                          ![Sender] = IF @ = "wait" THEN "woken" ELSE @]
  BY DEF Receive, NotifyAll
<1>4. TypeOK'
  BY <1>1, <1>2, <1>3 DEF Inv, TypeOK
<1>5. pc[Sender] \notin {"test", "sleep", "work", "unlock"}
  BY <1>1 DEF Inv, MutexInv
<1>6. MutexInv'
  BY <1>1, <1>3, <1>5 DEF Inv, TypeOK, MutexInv
<1>7. WorkInv'
  BY <1>3, <1>5 DEF Inv, TypeOK, WorkInv
<1>8. OneInFlight'
  BY <1>2, <1>3 DEF Inv, TypeOK, OneInFlight
<1>9. SleepsForAReason'
  BY <1>3, <1>5 DEF Inv, TypeOK, SleepsForAReason
<1> QED BY <1>4, <1>6, <1>7, <1>8, <1>9 DEF Inv

LEMMA InvStep == Inv /\ [Next]_vars => Inv'
<1> SUFFICES ASSUME Inv, [Next]_vars PROVE Inv'
  OBVIOUS
<1>1. CASE UNCHANGED vars
  BY <1>1 DEF vars, Inv, TypeOK, MutexInv, WorkInv, OneInFlight, SleepsForAReason,
              Ready
<1>2. CASE Done
  BY <1>1, <1>2 DEF Done
<1> QED BY <1>1, <1>2, WaitStep, SendStep, ReceiveStep DEF Next

LEMMA Invariance == Spec => []Inv
<1> QED BY InvInit, InvStep, PTL DEF Spec

\* Every reachable state is type correct: the flag, the mutex and the counts stay within
\* their ranges.
THEOREM TypeCorrect == Spec => []TypeOK
<1>1. Inv => TypeOK
  BY DEF Inv
<1> QED BY <1>1, Invariance, PTL

\* No value is lost, overwritten or taken twice, whatever the interleaving.
THEOREM ValuesHandedOver == Spec => []OneInFlight
<1>1. Inv => OneInFlight
  BY DEF Inv
<1> QED BY <1>1, Invariance, PTL

\* A thread that sleeps has something to wait for: no wakeup is lost, and the two
\* threads never sleep both.
THEOREM NobodySleepsInVain == Spec => []SleepsForAReason
<1>1. Inv => SleepsForAReason
  BY DEF Inv
<1> QED BY <1>1, Invariance, PTL

-----------------------------------------------------------------------------
\* The steps of the threads are steps of the abstract hand-over.

LEMMA HandingStep == Inv /\ [Next]_vars => [Handing!Next]_<<value, previousValue>>
<1> SUFFICES ASSUME Inv, Next
             PROVE  Handing!Next \/ UNCHANGED <<value, previousValue>>
  BY DEF vars
<1> USE TwoThreads DEF Threads, Inv
<1>1. CASE Send
  <2>1. Ready(Sender) /\ count[Sender] < Count
    BY <1>1 DEF Send, WorkInv
  <2>2. value = previousValue /\ value < Count
    BY <2>1 DEF Ready, TypeOK, OneInFlight
  <2> QED BY <1>1, <2>2 DEF Send, Handing!Next, Handing!Send
<1>2. CASE Receive
  <2>1. previousValue < value
    BY <1>2 DEF Receive, WorkInv, Ready, TypeOK
  <2> QED BY <1>2, <2>1 DEF Receive, Handing!Next, Handing!Take
<1>3. ASSUME NEW t \in Threads, ThreadNext(t) \/ WakeSpuriously(t)
      PROVE  UNCHANGED <<value, previousValue>>
  BY <1>3 DEF ThreadNext, Lock, Return, Test, Sleep, Unlock, WakeSpuriously
<1>4. CASE Done
  BY <1>4 DEF Done, vars
<1> QED BY <1>1, <1>2, <1>3, <1>4 DEF Next

\* The two threads hand the values over one at a time, each only after the one
\* before it has been taken: the safety part of HandsOver.
THEOREM ImplementsHandoff == Spec => Handing!Spec
<1>1. Init => Handing!Init
  BY DEF Init, Handing!Init
<1> QED BY <1>1, HandingStep, Invariance, PTL DEF Spec, Handing!Spec
=============================================================================
