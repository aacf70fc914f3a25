----------------------------- MODULE WordCount -----------------------------
(***************************************************************************)
(* The multi-threaded word counter of thread_safety/cpp/thread_safety.cpp. *)
(*                                                                         *)
(* The main thread runs execute_all Trials times over one shared_state. In *)
(* each trial it resets `ready`, replaces the document and the counters,   *)
(* spawns NThreads consumers, acts as the producer (writes the document    *)
(* and presets the counters under `mtx`, stores `ready`, notifies), joins  *)
(* the consumers and returns the total.  Consumer c waits for `ready` on   *)
(* the condition variable and then counts, with no lock, the DocSize words *)
(* that follow position Left(c), in the way the strategy prescribes.       *)
(***************************************************************************)
EXTENDS Naturals, Sequences, FiniteSets, FiniteSetsExt

CONSTANTS
  NThreads,    \* Setting::n_threads
  DocSize,     \* Setting::doc_size, the words one consumer counts
  Words,       \* the dictionary of generate_words
  Strategies,  \* the strategies a behaviour may run with
  Trials,      \* Setting::n_trials
  MaxSpurious, \* bound: spurious wakeups and spurious CAS failures in total
  None         \* no owner, no result

Relaxed == "RELAXED"
FetchAdd == "FETCH_ADD"
CompareAndSwap == "COMPARE_AND_SWAP"
Main == 0
Consumers == 1..NThreads
TextLength == NThreads * DocSize
Positions == 1..TextLength

ASSUME SettingAssumption ==
  /\ NThreads \in Nat \ {0}
  /\ DocSize \in Nat \ {0}
  /\ Trials \in Nat \ {0}
  /\ MaxSpurious \in Nat
  /\ IsFiniteSet(Words) /\ Words # {}
  /\ Strategies \subseteq {Relaxed, FetchAdd, CompareAndSwap}
  /\ None \notin 0..NThreads

VARIABLES
  strategy,  \* the strategy of the run, never changed
  ready,     \* shared_state.ready
  mtx,       \* the thread that holds shared_state.mtx, or None
  doc,       \* shared_state.doc
  keys,      \* the words that have a node in counts_
  counts,    \* word -> its count in counts_, 0 when it has no node
  main,      \* the program counter of the main thread
  pc,        \* consumer -> its program counter
  it,        \* consumer -> how many words it has counted
  expected,  \* consumer -> the value it last loaded
  spurious,  \* how many spurious events have happened
  result,    \* what the last execute_all returned
  trial      \* how many calls of execute_all have returned

sync == <<ready, mtx>>
map == <<keys, counts>>
threads == <<pc, it, expected>>
run == <<strategy, spurious, result, trial>>
vars == <<sync, doc, map, main, threads, run>>

Zeroes == [w \in Words |-> 0]
TotalOf(count) == MapThenSumSet(LAMBDA w : count[w], Words)

\* Mutated Left: neighbouring slices share a word.
LeftOverlapping(c) == (DocSize - 1) * (c - 1)

\* The argument `left` execute_all gives to consumer c, and the word at which
\* the iterator of its loop stands.
Left(c) == DocSize * (c - 1)
WordAt(c) == doc[Left(c) + it[c] + 1]

\* Mutated MoreWords: one word too many.
MoreWordsInclusive(c) == it[c] <= DocSize /\ Left(c) + it[c] < Len(doc)

\* The loop of count_words stops at the end of the slice or of the document.
MoreWords(c) == it[c] < DocSize /\ Left(c) + it[c] < Len(doc)

\* The process is gone after std::terminate or a crash.
Alive == main \notin {"terminated", "crashed"}

MainStep(from, to) == main = from /\ main' = to
Goto(c, to) == pc' = [pc EXCEPT ![c] = to]
Step(c, from, to) == Alive /\ pc[c] = from /\ Goto(c, to)

-----------------------------------------------------------------------------
\* execute_all and producer: the main thread

Reset ==
  /\ MainStep("reset", "swap")
  /\ mtx = None
  /\ ready' = 0
  /\ UNCHANGED <<mtx, doc, map, threads, run>>

\* A new document, new counters and an empty vector of threads.
Swap ==
  /\ MainStep("swap", "spawn")
  /\ doc' = <<>>
  /\ keys' = {} /\ counts' = Zeroes
  /\ pc' = [c \in Consumers |-> "none"]
  /\ UNCHANGED <<sync, it, expected, run>>

Spawn(c) ==
  /\ MainStep("spawn", IF c = NThreads THEN "check" ELSE "spawn")
  /\ pc[c] = "none" /\ \A d \in 1..c - 1 : pc[d] # "none"
  /\ Goto(c, "start")
  /\ it' = [it EXCEPT ![c] = 0]
  /\ UNCHANGED <<sync, doc, map, expected, run>>

CheckReady ==
  /\ MainStep("check", IF ready # 0 THEN "terminated" ELSE "lock")
  /\ UNCHANGED <<sync, doc, map, threads, run>>

ProducerLock ==
  /\ MainStep("lock", "prepare")
  /\ mtx = None
  /\ mtx' = Main
  /\ UNCHANGED <<ready, doc, map, threads, run>>

\* Mutated PresetZero: no counter is preset.
PresetNothing == UNCHANGED map

\* The loop over the dictionary. WordCountPlain::preset_zero does nothing.
PresetZero ==
  IF strategy = Relaxed THEN UNCHANGED map ELSE keys' = Words /\ counts' = Zeroes

\* A random document, then the presets, inside the critical section.
Prepare ==
  /\ MainStep("prepare", "publish")
  /\ doc' \in [Positions -> Words]
  /\ PresetZero
  /\ UNCHANGED <<sync, threads, run>>

\* The store and the end of the block: whoever else reads `ready` holds the mutex.
PublishReady ==
  /\ MainStep("publish", "notify")
  /\ ready' = 1
  /\ mtx' = None
  /\ UNCHANGED <<doc, map, threads, run>>

\* Mutated WakeSet: notify_one.
WakeOne == {c \in Consumers : pc[c] = "wait" /\ \A d \in 1..c - 1 : pc[d] # "wait"}

\* The consumers notify_all wakes.
WakeSet == {c \in Consumers : pc[c] = "wait"}

NotifyAll ==
  /\ MainStep("notify", "join")
  /\ pc' = [c \in Consumers |-> IF c \in WakeSet THEN "start" ELSE pc[c]]
  /\ UNCHANGED <<sync, doc, map, it, expected, run>>

\* Mutated Joinable: only the first thread is joined.
FirstJoinable == pc[1] = "done"

Joinable == \A c \in Consumers : pc[c] = "done"

\* The joins, WordCount::total of the shared counters, and the loop of main().
JoinAndTotal ==
  /\ MainStep("join", IF trial + 1 < Trials THEN "reset" ELSE "end")
  /\ Joinable
  /\ result' = TotalOf(counts)
  /\ trial' = trial + 1
  /\ UNCHANGED <<sync, doc, map, threads, strategy, spurious>>

MainNext ==
  \/ Reset \/ Swap \/ (\E c \in Consumers : Spawn(c))
  \/ CheckReady \/ ProducerLock \/ Prepare \/ PublishReady \/ NotifyAll
  \/ JoinAndTotal

-----------------------------------------------------------------------------
\* consumer: std::condition_variable::wait with a predicate

\* Mutated Acquire: the predicate is tested without the lock.
AcquireNothing(c) ==
  /\ Step(c, "start", "test")
  /\ mtx = None
  /\ UNCHANGED <<sync, doc, map, main, it, expected, run>>

Acquire(c) ==
  /\ Step(c, "start", "test")
  /\ mtx = None
  /\ mtx' = c
  /\ UNCHANGED <<ready, doc, map, main, it, expected, run>>

TestReady(c) ==
  /\ Step(c, "test", IF ready # 0 THEN "leave" ELSE "sleep")
  /\ UNCHANGED <<sync, doc, map, main, it, expected, run>>

\* Waiting releases the mutex and enters the wait set in one step; the end of
\* the block in consumer releases it too.
Release(c) ==
  /\ Step(c, "sleep", "wait") \/ Step(c, "leave", "count")
  /\ mtx' = None
  /\ UNCHANGED <<ready, doc, map, main, it, expected, run>>

WakeSpuriously(c) ==
  /\ Step(c, "wait", "start")
  /\ spurious < MaxSpurious
  /\ spurious' = spurious + 1
  /\ UNCHANGED <<sync, doc, map, main, it, expected, strategy, result, trial>>

-----------------------------------------------------------------------------
\* count_words: one increment per word, per strategy

BeginWord(c, s, to) == strategy = s /\ Step(c, "count", to) /\ MoreWords(c)

\* counts_[s] inserts a node with a zero when there is none.
Touch(c) == keys' = keys \cup {WordAt(c)}
Load(c) == expected' = [expected EXCEPT ![c] = counts[WordAt(c)]]
Add(c, value) == counts' = [counts EXCEPT ![WordAt(c)] = value + 1]
Advance(c) == it' = [it EXCEPT ![c] = @ + 1]

FinishSlice(c) ==
  /\ Step(c, "count", "done")
  /\ ~MoreWords(c)
  /\ UNCHANGED <<sync, doc, map, main, it, expected, run>>

IncrementFetchAdd(c) ==
  /\ BeginWord(c, FetchAdd, "count")
  /\ Touch(c) /\ Add(c, counts[WordAt(c)]) /\ Advance(c)
  /\ UNCHANGED <<sync, doc, main, expected, run>>

LoadExpected(c) ==
  /\ BeginWord(c, CompareAndSwap, "cas")
  /\ Touch(c) /\ Load(c)
  /\ UNCHANGED <<sync, doc, counts, main, it, run>>

\* Mutated Unchanged: a store that compares nothing.
NeverChanged(c) == TRUE

\* The comparison of compare_exchange_weak.
Unchanged(c) == counts[WordAt(c)] = expected[c]

ExchangeSucceeds(c) ==
  /\ Step(c, "cas", "count")
  /\ Unchanged(c)
  /\ Add(c, expected[c]) /\ Advance(c)
  /\ UNCHANGED <<sync, doc, keys, main, expected, run>>

\* A failed exchange loads the current value and the loop tries again.
ExchangeFails(c) ==
  /\ Step(c, "cas", "cas")
  /\ ~Unchanged(c)
  /\ Load(c)
  /\ UNCHANGED <<sync, doc, map, main, it, run>>

\* compare_exchange_weak may also fail on an equal value, which it reloads.
ExchangeFailsSpuriously(c) ==
  /\ Step(c, "cas", "cas")
  /\ Unchanged(c)
  /\ spurious < MaxSpurious
  /\ spurious' = spurious + 1
  /\ UNCHANGED <<sync, doc, map, main, it, expected, strategy, result, trial>>

\* RELAXED: counts_[s] += 1 on a std::map<std::string, Size>.
BeginLookup(c) ==
  /\ BeginWord(c, Relaxed, "lookup")
  /\ UNCHANGED <<sync, doc, map, main, it, expected, run>>

EndLookup(c) ==
  /\ Step(c, "lookup", "load")
  /\ Touch(c)
  /\ UNCHANGED <<sync, doc, counts, main, it, expected, run>>

\* Two threads are in the tree and at least one of them inserts: undefined.
TreeRace(c) ==
  \E d \in Consumers \ {c} :
    pc[d] = "lookup" /\ ~({WordAt(c), WordAt(d)} \subseteq keys)

\* What a build can make of the race, the first thread to leave taking it for
\* both: rebalancing loses nodes with their counts, ...
LoseNodes(c) ==
  /\ Step(c, "lookup", "load")
  /\ TreeRace(c)
  /\ keys' \in SUBSET (keys \cup {WordAt(c)})
  /\ counts' = [w \in Words |-> IF w \in keys' THEN counts[w] ELSE 0]
  /\ UNCHANGED <<sync, doc, main, it, expected, run>>

\* ... or the thread faults, or loops for ever in the broken tree.
Crash(c) ==
  /\ Step(c, "lookup", "lookup")
  /\ TreeRace(c)
  /\ main' = "crashed"
  /\ UNCHANGED <<sync, doc, map, it, expected, run>>

LoadPlain(c) ==
  /\ Step(c, "load", "store")
  /\ Load(c)
  /\ UNCHANGED <<sync, doc, map, main, it, run>>

\* A store into a node the tree has lost is lost with it.
StorePlain(c) ==
  /\ Step(c, "store", "count")
  /\ IF WordAt(c) \in keys THEN Add(c, expected[c]) ELSE UNCHANGED counts
  /\ Advance(c)
  /\ UNCHANGED <<sync, doc, keys, main, expected, run>>

-----------------------------------------------------------------------------
ConsumerNext(c) ==
  \/ Acquire(c) \/ TestReady(c) \/ Release(c)
  \/ FinishSlice(c) \/ IncrementFetchAdd(c)
  \/ LoadExpected(c) \/ ExchangeSucceeds(c) \/ ExchangeFails(c)
  \/ BeginLookup(c) \/ EndLookup(c) \/ LoadPlain(c) \/ StorePlain(c)

\* What the scheduler or the platform may do to a consumer and never owes it.
Misfortune(c) ==
  \/ WakeSpuriously(c) \/ ExchangeFailsSpuriously(c) \/ LoseNodes(c) \/ Crash(c)

\* The process has ended, one way or another.
Stopped ==
  /\ main \in {"end", "terminated", "crashed"}
  /\ UNCHANGED vars

Init ==
  /\ strategy \in Strategies
  /\ ready = 0 /\ mtx = None
  /\ doc = <<>> /\ keys = {} /\ counts = Zeroes
  /\ main = "reset" /\ trial = 0 /\ result = None /\ spurious = 0
  /\ pc = [c \in Consumers |-> "none"]
  /\ it = [c \in Consumers |-> 0]
  /\ expected = [c \in Consumers |-> 0]

Next ==
  \/ MainNext
  \/ \E c \in Consumers : ConsumerNext(c) \/ Misfortune(c)
  \/ Stopped

\* The operating system keeps running every thread that can move. A thread that
\* wants the mutex gets it: it is released after finitely many critical sections,
\* because spurious wakeups are finitely many.
Fairness ==
  /\ WF_vars(MainNext)
  /\ \A c \in Consumers : WF_vars(ConsumerNext(c))

Spec == Init /\ [][Next]_vars
FairSpec == Spec /\ Fairness

-----------------------------------------------------------------------------
\* Properties

Counting(c) == pc[c] \in {"count", "cas", "lookup", "load", "store"}
Atomic == strategy # Relaxed

\* The document of the trial is complete and the consumers may be at it.
Published == main \in {"notify", "join"}

\* The positions consumers have counted so far, and those among them with word w.
CountedBy(c) == Left(c) + 1 .. Left(c) + it[c]
Counted == UNION {CountedBy(c) : c \in Consumers}
CountedAs(w) == {p \in Counted : doc[p] = w}

\* Every variable stays within its type; CountsLikeOneThread speaks of `result`.
TypeOK ==
  /\ strategy \in Strategies
  /\ ready \in {0, 1}
  /\ mtx \in Consumers \cup {Main, None}
  /\ doc \in [Positions -> Words] \cup {<<>>}
  /\ keys \subseteq Words
  /\ counts \in [Words -> Nat]
  /\ main \in {"reset", "swap", "spawn", "check", "lock", "prepare", "publish",
               "notify", "join", "end", "terminated", "crashed"}
  /\ pc \in [Consumers -> {"none", "start", "test", "sleep", "wait", "leave",
                           "count", "cas", "lookup", "load", "store", "done"}]
  /\ it \in [Consumers -> 0..DocSize]
  /\ expected \in [Consumers -> Nat]
  /\ spurious \in 0..MaxSpurious
  /\ trial \in 0..Trials

\* At every moment of a trial an atomic strategy has counted each word exactly
\* as often as the consumers have passed it: no increment is lost or doubled,
\* whatever the interleaving of loads, exchanges and their failures.
CountsExact ==
  Atomic /\ Published => \A w \in Words : counts[w] = Cardinality(CountedAs(w))

\* The plain map may lose counts, and never invents one (the ASSERT_GT side of
\* the MultiThread test), even when the tree is corrupted.
NeverOvercounts ==
  Published => \A w \in Words : counts[w] <= Cardinality(CountedAs(w))

\* Once the producer has notified, no consumer is asleep or about to sleep.
NoLostWakeup == main = "join" => \A c \in Consumers : pc[c] \notin {"sleep", "wait"}

\* The second call of producer never finds `ready` still set by the first, which
\* would end the process in std::terminate.
NeverTerminated == main # "terminated"

\* While a consumer counts without the lock, nobody replaces the document, and
\* with an atomic strategy nobody changes the shape of the map: all its nodes
\* were there before.
StableWhileCounting ==
  [][(\E c \in Consumers : Counting(c)) =>
       /\ doc' = doc
       /\ Atomic => keys' = keys]_vars

\* A text is open for a sequential count from the store of `ready` to its reset. The
\* racing strategy opens none: it promises no count.
Open == Atomic /\ ready = 1

Sequential ==
  INSTANCE WordTally WITH
    open <- Open,
    text <- IF Open THEN doc ELSE <<>>,
    tally <- IF Open THEN counts ELSE Zeroes,
    pending <- IF Atomic /\ Published THEN Positions \ Counted ELSE {},
    report <- IF Atomic THEN result ELSE None

\* Seen from outside, the threads of an atomic strategy count the positions of each
\* trial's text one after the other, and report the sum when none is left
\* (execute_all, count_words).
CountsLikeOneThread == Sequential!Spec

\* All trials end, with the mutex, the condition variable and the weak exchange.
AllTrialsEnd == Atomic => <>(main = "end")
=============================================================================
