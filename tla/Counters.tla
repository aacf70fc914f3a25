------------------------------ MODULE Counters ------------------------------
(***************************************************************************)
(* cppFriendsOpt.cpp: threads increment three shared counters, a plain, a  *)
(* volatile and an atomic one. An increment of the first two is a load and *)
(* a store. An optimizing compiler may make one addition of all increments *)
(* of the plain counter in a thread (the comment of MyCounter::Run).       *)
(*                                                                         *)
(* Threads are preempted between any two steps, on one processor as well.  *)
(***************************************************************************)
EXTENDS Integers, FiniteSets

CONSTANTS
  Threads,
  MaxCount  \* count_ is from 1 to this

VARIABLES
  threads,     \* those that run
  count,       \* count_
  optimized,
  nonVolatileCounter, volatileCounter, atomicCounter,
  i,           \* for each thread: the iterations of its loop that are done,
  register,    \* what it has loaded,
  at           \* and where it is in Run

parameters == <<threads, count, optimized>>
counters == <<nonVolatileCounter, volatileCounter, atomicCounter>>
vars == <<parameters, counters, i, register, at>>

\* Reset, and the threads are started: they begin with their first step.
Init ==
  /\ threads \in (SUBSET Threads) \ {{}}
  /\ count \in 1 .. MaxCount
  /\ optimized \in BOOLEAN
  /\ nonVolatileCounter = 0
  /\ volatileCounter = 0
  /\ atomicCounter = 0
  /\ i = [t \in threads |-> 0]
  /\ register = [t \in threads |-> 0]
  /\ at = [t \in threads |-> "load"]

Go(t, label) == at' = [at EXCEPT ![t] = label]

Load(t) ==
  /\ at[t] = "load"
  /\ register' = [register EXCEPT ![t] = nonVolatileCounter]
  /\ Go(t, "store")
  /\ UNCHANGED <<parameters, counters, i>>

Gathered == IF optimized THEN count ELSE 1

Store(t) ==
  /\ at[t] = "store"
  /\ nonVolatileCounter' = register[t] + Gathered
  /\ IF i[t] + Gathered < count
     THEN Go(t, "load") /\ i' = [i EXCEPT ![t] = @ + Gathered]
     ELSE Go(t, "load_volatile") /\ i' = [i EXCEPT ![t] = 0]
  /\ UNCHANGED <<parameters, volatileCounter, atomicCounter, register>>

LoadVolatile(t) ==
  /\ at[t] = "load_volatile"
  /\ register' = [register EXCEPT ![t] = volatileCounter]
  /\ Go(t, "store_volatile")
  /\ UNCHANGED <<parameters, counters, i>>

StoreVolatile(t) ==
  /\ at[t] = "store_volatile"
  /\ volatileCounter' = register[t] + 1
  /\ Go(t, "add_atomic")
  /\ UNCHANGED <<parameters, nonVolatileCounter, atomicCounter, i, register>>

\* Mutated AddAtomic: what was loaded for the volatile counter is stored.
AddAtomicLoaded(t) ==
  /\ at[t] = "add_atomic"
  /\ atomicCounter' = register[t] + 1
  /\ i' = [i EXCEPT ![t] = @ + 1]
  /\ Go(t, IF i[t] + 1 < count THEN "load_volatile" ELSE "done")
  /\ UNCHANGED <<parameters, nonVolatileCounter, volatileCounter, register>>

AddAtomic(t) ==
  /\ at[t] = "add_atomic"
  /\ atomicCounter' = atomicCounter + 1
  /\ i' = [i EXCEPT ![t] = @ + 1]
  /\ Go(t, IF i[t] + 1 < count THEN "load_volatile" ELSE "done")
  /\ UNCHANGED <<parameters, nonVolatileCounter, volatileCounter, register>>

Step ==
  \E t \in threads :
    Load(t) \/ Store(t) \/ LoadVolatile(t) \/ StoreVolatile(t) \/ AddAtomic(t)

\* runCounters has joined all threads.
Ended == \A t \in threads : at[t] = "done"

-----------------------------------------------------------------------------
Expected == Cardinality(threads) * count

\* Increments of several threads are lost down to two, however many there are; but none is
\* invented, and one thread alone loses none.
Survives(counter) ==
  IF Cardinality(threads) = 1 \/ count = 1
  THEN counter \in count .. Expected
  ELSE counter \in 2 .. Expected

\* When the threads are joined the atomic counter has counted everything, the plain counter
\* is a multiple of the count if it is optimized (test MultiCore), and nobody has counted
\* what was not there.
AtomicCountsAll ==
  Ended =>
    /\ atomicCounter = Expected
    /\ Survives(volatileCounter)
    /\ IF optimized
       THEN nonVolatileCounter \in {k * count : k \in 1 .. Cardinality(threads)}
       ELSE Survives(nonVolatileCounter)
=============================================================================
