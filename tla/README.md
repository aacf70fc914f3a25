# Verification of cPlusPlusFriend

TLA+ models, TLC runs and TLAPS proofs for the programs in this repository
that have behaviour worth specifying: threads that share state, a game and the
search tree of its engine, a learning loop, and a number of small programs that
divide work, search, or give a verdict.

- [Inventory](#inventory): what the repository consists of
- [Models](#models): which module stands for which code, and how
- [Runs](#runs): what TLC checks, with which bounds and which fairness
- [Proofs](#proofs): what holds for every value of the constants, and why
- [Findings](#findings): where the code does not do what it says
- [Limits](#limits): what is abstracted, only model-checked, or not modelled
- [Plan](#plan): what comes next

## Inventory

The repository is a collection of small programs that do not call each other. Most
of them demonstrate a feature of a language, a compiler or a processor and keep
no state between two lines. These have logic of their own:

| Component | State | Operations | What is hard | What makes it correct |
|---|---|---|---|---|
| Word counter, `thread_safety/cpp/thread_safety.cpp` | `shared_state`: mutex, condition variable, `ready`, document, counters; a thread per consumer | `execute_all`, `producer`, `consumer`, `count_words`, three increments | a wakeup lost between test and sleep; a weak compare-and-swap; a map used without a lock; state left over from the trial before | exact counts with the atomic strategies, no lost wakeup, no resize during counting, termination |
| Condition variables, `TestConditionVariable` in `cppFriendsThread.cpp` | `value_`, `received_`, mutex, two condition variables | `Sender::Exec`, `Receiver::Exec`, `exec` | two threads wait for each other; spurious wakeups | each value taken exactly once, both return |
| Memory fence, `TestMemoryFence` in `cppFriendsThread.cpp` | data set of atomics, `ready_`, `writer_`, mutex | `Producer::Run`, `Consumer::Run`, `checkConsistency`, `SpinLock` | readers walk while the producer increments; a spin lock without fairness | exclusion, no inversion seen, every round counted |
| Connect four, `connect4/connect4.cpp` | `Board` bitsets and digest, `Stage` with two boards and the turn | `place`, `check`, `merge`, `get_legal_actions`, `advance`, `main` | lines found by shifting bit masks across margins; XOR bookkeeping; calls after the end | the bitboards play the rules of the game |
| Its Monte Carlo engine | `NodeSet`: nodes shared by transpositions, with children and parents | `visit`, `select`, `expand`, `play`, `playout`, `advance`, matches | two callers grow one graph; credits must reach each ancestor once; ratios of zero by zero | edges are moves, credits are exact, expansion complete, the best child is chosen |
| Optimal action, `optimal_action/optimal_action.cpp` | `value_` per player, state and target; one round | `initialize`, `getActionResult`, `aimAndShoot`, `backpropagate`, `exec` | zero by zero, infinity less infinity, a walk that ends at NaN | rows of the living stay distributions; rounds end |
| Quick sort, `cppFriendsSort.cpp` | an array | recursive partition | bounds of the scans, equal elements | a sorted permutation, termination |
| Line shuffler, `shuffleLinesImpl.rb` | queues of lines, a string per line set | split at a phrase, shuffle, interleave, write, compare | which occurrence of the phrase splits; a last line without newline | no line is lost, order of the parts, lines of a class apart |
| ASCII checker, `asciiOnlyCheckerImpl.rb` | paragraph, result of a file, accumulated verdict | per file, per line, per extracted text | the last paragraph; a file that is skipped | a file fails exactly for what is in it; no failure is forgotten |
| Element chains, `element_chain/element_chain.cpp` | `used_`, `chain_`, a budget | randomised search with undo in destructors | undo on every return; the search's end | chains are valid, state is restored |
| Tower of Hanoi, `tower_of_hanoi.py` | rods of disks | two move generators, a check | bit tricks on the number of the move | no disk on a smaller one, the tower arrives |
| Julia set, `scripts/juliaset/cpp/juliaset_impl.cpp` | counts and an image shared by jobs | rows divided among jobs, twice; files written in between | no processor, empty parts, exceptions of jobs | each row computed once, success only with the files |
| Counters without synchronisation, `cppFriendsOpt.cpp` | a plain, a volatile and an atomic counter | increments of many threads | lost updates, merged updates | the atomic one exact, the others never too high |
| River crossing, `river/river.cpp` | banks as template arguments | moves as templates | conditions on types, checked by the compiler | nobody is eaten; the solution is a solution |
| Threads by reference, `thread_by_ref/thread_by_ref.cpp` | an array of results | a thread per element, through a lambda | the loop variable is gone when a thread begins | each thread writes its own element |
| Pattern counter, `count_patterns/count_patterns.cpp` | a text as a type | two mutually recursive templates | each syllable taken or left | each place counted once |
| Population count, `popcount/popcount_asm.s` | four vector registers, a sum | fields added side by side, loop over blocks | a field that is too narrow | the number of ones |

Within a component the parts interact as follows. In the word counter the main
thread is the producer: it hands the document to the consumers through `ready`,
`mtx` and `cv`, and gets their work back through `join` and the counters. The sender
and the receiver of the handshake, and the producer and readers of the memory fence
test, share memory only. The engine of connect four is called by the matches with a
`Stage` and owns the nodes; `Stage` owns its boards. Everything in
`optimal_action.cpp` runs in one thread: `exec` calls `aimAndShoot`, which calls
itself for the next player and `backpropagate` at the end of a round. The jobs of the
Julia set, the threads that count and those that work by reference share memory with the
thread that starts them, which joins them before it reads. The other small programs are
sequential, and what is hard about them is in their inputs and loops.

The rest of the repository (samples of C, C++ and Rust, Ruby and Python
converters, R packages and analyses, Markdown) is listed in `PROJECT.json` with the
reason why it is not modelled.

## Models

| Module | Stands for | Uses |
|---|---|---|
| `WordTally` | the promise of one `execute_all`, without threads | - |
| `WordCount` | `execute_all`, `producer`, `consumer` and the counters | instantiates `WordTally` |
| `Handoff` | one value at a time, taken before the next is sent | - |
| `Handshake` | `TestConditionVariable` | instantiates `Handoff` |
| `MemoryFence` | `TestMemoryFence` | - |
| `Board` | the classes `Board` and `Stage`, as operators | - |
| `FourInARow` | the rules of the game, on columns of stones | - |
| `Connect4` | the interactive `main` | extends `Board`, instantiates `FourInARow` |
| `Mcts` | `NodeSet`, `Node`, `MctsEngine`, `match` | extends `Board` |
| `OptimalAction` | one setting of `optimal_action.cpp`, round after round | - |
| `Sorting` | the promise of a sort: the array given, permuted in order | - |
| `QuickSort` | `QuickSort` of `cppFriendsSort.cpp` | instantiates `Sorting` |
| `AsciiChecker`, `LineShuffler` | the two Ruby programs | - |
| `ElementChain`, `TowerOfHanoi`, `River` | three puzzles | - |
| `JuliaSet`, `Counters`, `ThreadByRef` | three ways to divide work among threads | - |
| `CountPatterns`, `Popcount` | two algorithms | - |
| `MCSmallPrograms` | the ten programs of the four lines above, side by side | instantiates each |
| `BoardProofs` | lemmas about the board, for the next two | `Board` |
| `WordCountProofs`, `HandshakeProofs`, `MemoryFenceProofs`, `Connect4Proofs`, `MctsProofs`, `OptimalActionProofs` | the theorems | the module they are named after |
| `SmallProgramsProofs` | the theorems about the quick sort, the Julia set, the checker for ASCII, the chains, the counters, the threads by reference and the river | `QuickSort`, `MCSmallPrograms` |

`PROJECT.json` maps each definition to the lines it translates. A definition whose
comment begins with *Mutated* is not part of a model: it is the form a plausible
bug would give to the definition after it, and shows that a property notices.

### WordCount

One behaviour is one run of the program with one strategy: `Trials` calls of
`execute_all` over the same `shared_state`. `main` is the program counter of the
main thread and `pc[c]` that of consumer `c`; `mtx` holds its owner, and a thread in
`"wait"` is in the wait set of `cv`. `std::condition_variable::wait` with a predicate
is the cycle `Acquire`, `TestReady`, `Release`, and back through `NotifyAll` or
`WakeSpuriously`: test and sleep are separate steps, releasing the mutex and falling
asleep are one, as the standard says. The store of `ready` and the end of its block
are one step (`PublishReady`), because everyone else who reads `ready` holds the
mutex. Each access to the shared counters is a step:

- `FETCH_ADD`: one atomic increment;
- `COMPARE_AND_SWAP`: load, then exchanges that succeed, fail, or fail spuriously;
- `RELAXED`: lookup in the tree, load, store. Two lookups of which one inserts race on
  the tree, which is undefined: the model lets the tree lose nodes with their counts,
  or the process crash (`LoseNodes`, `Crash`).

`counts_` is the set `keys` of words with a node and the function `counts`, which is
zero outside of `keys`. The iterator of the loop is `it[c]`, the words counted so far.

### Handshake and MemoryFence

Both are translated thread by thread, one step per access that others can see.
`Handshake` has one `Lock`, `Test`, `Sleep`, `Unlock` for both threads and the bodies
`Send` and `Receive`; a body is one step because it runs under the mutex. In
`MemoryFence` every element is a sequentially consistent atomic, so readers and
producer interleave element by element; `TakeLock` is one exchange of the spin lock
(which may fail and be tried again) or one locking of the mutex.

### Board, FourInARow, Connect4, Mcts

A bitset is the set of its indices, so the shifts of `check_line` are additions and the
margins of the bitboard are the cells outside of `Mask`. `Stage::advance` is
`LegalActions`, `ResultOf` and `After`: `Connect4` calls them with any pair of numbers
an input can be, `Mcts` with legal ones, as the engine does. `FourInARow` knows no
bits: it has the stones of each column and looks for lines everywhere.

In `Mcts` a node is found under its digest, `children` and `parents` are sequences
with repetitions, as the matches append the same edge again. A playout is `StartPlayout`,
alternating `VisitInner`, `ExpandMove` and `Select`, `PlayRandom` moves, `Credit` per element
of the queue, and `EndPlayout`. The single thread could run a playout in one step; the steps
are apart so that a loop of the code is a loop of the model, whose end has to be shown.
`VisitInner` marks the node as expanded and fixes the moves to register, `todo`: the first
winning one or all. `ExpandMove` links one of them, from left to right, as the loop does.
A match moves by one of two strategies: at random, or with the record of the tree
(`Learned`), the first registered move whose ratio of won to decided games is the largest;
`Learned` goes through the columns as the loop does and keeps the best so far (`Improved`).
The ratios are compared as fractions by cross multiplication, where zero by zero is never
the larger one (`Exceeds`).

### OptimalAction

`aimAndShoot` is `Aim`, which chooses a target and appends to the chain, and `Shoot`,
which hits or misses, and then ends the round, gives it up, or passes the turn. The
doubles of `value_` are classes: zero or positive for linear values, minus infinity or
finite for logarithms, and NaN for both; the operators say what each formula of the
code makes of the classes. The comparison `rand_value >= 0.0`, false for NaN, is in
`Reached`. The chain is a set: the classes after learning do not depend on the order or
number of equal elements.

### Sorting, QuickSort

The recursion is a stack of calls, `todo`, with the running one first: `StartPartition`
copies the pivot, the scans and the swap are steps, and `Recurse` replaces a call that has done
its part by those for its left and its right part. Positions are any integers; the array is accessed with `at`,
so that a position outside of it is an exception in the code and a violation here.
`Sorting` leaves its output unset until it holds the array given, permuted in order.

### The small programs

Each of the ten modules is a machine of its own, with `Init`, `Step` and `Ended`.
`MCSmallPrograms` puts them side by side: its variable `program` says which one runs, and
`v1` to `v13` are the variables of that one. Their inputs (files, towers, texts, how many threads, what
converges) are chosen in `Init`.

- `AsciiChecker`: a line is the text before its first comment sign and the text after it, each
  without characters, ASCII, or with others. A text ends the paragraph or is added to it, and
  the verdict of a file is or-ed to the accumulator, or to nil after a skipped file.
- `LineShuffler`: a line is its class, whether it has the phrase, and whether it has its newline.
  The shuffles are arbitrary permutations within the classes, the interleaving is the random
  choice of columns in `makeIndexSequence`. A line without newline runs into the one written
  after it, and the comparison that follows is the program's own.
- `ElementChain`: `calls` is the stack of `findLongestPath`, with the destructors that undo a step
  (`Undo`, `EndSearch`) on each way back. Choices are arbitrary, the budget is the code's.
- `TowerOfHanoi`: rods are arrays, as in the script, with `argmax` as it answers for an
  array without the element it looks for. `count & (count - 1)` and `count | (count - 1)` are
  said by the lowest bit of the number of the move, which they take away and fill up below.
- `JuliaSet`: `Launch` starts a job for the next part of the rows, the jobs copy or color row by
  row in any interleaving, and the steps between the two passes and the files are those of `draw`.
- `Counters`: the increments of the plain and the volatile counter are a load and a store, and an
  optimizer may have gathered those of the plain counter into one addition.
- `ThreadByRef`: threads begin at any time after they were started, and then evaluate what
  they have captured.
- `River`: the four templates with their conditions; a state is whatever can be instantiated.
- `CountPatterns`: the templates as one recursive function of the syllable they look for and the
  place in the text.
- `Popcount`: words of 16 bits in two lanes of four registers; masks, shifts, carries of the
  doubleword and `vphaddw` do what the instructions do, with their widths.

## Runs

| Run | Module, cfg | Properties | Bounds | Distinct states |
|---|---|---|---|---|
| `wordcount` | `WordCount` | `TypeOK`, `CountsExact`, `NeverOvercounts`, `NoLostWakeup`, `StableWhileCounting`, `CountsLikeOneThread`, `AllTrialsEnd` | all 3 strategies, 2 consumers, 2 words each, dictionary of 2, 2 trials, 1 spurious event | 367,263 |
| `handshake` | `Handshake` | `TypeOK`, `OneInFlight`, `SleepsForAReason`, `HandsOver`, `BothReturn` | 4 values, 3 spurious wakeups | 498 |
| `memory_fence` | `MemoryFence` | `TypeOK`, `Exclusive`, `ReadsOneRound`, `ResultExact`, `AllThreadsEnd` | 3 readers, 3 elements, 2 rounds | 40,616 |
| `connect4` | `Connect4` | `TypeOK`, `MergedIsBoth`, `PlaysFourInARow` | 4 columns of 3, margins of 1, 3 in a line | 11,788 |
| `mcts` | `Mcts` | `TypeOK`, `EdgesAreMoves`, `CountedOnceInRoot`, `CreditedUpward`, `ExpandedOffersMoves`, `SelectsBest`, `PlayoutsEnd` | 4 columns of 1, 2 in a line, 5 playouts, 5 moves, 6 of both, expansion after 1 try | 42,800 |
| `mcts_won_is_won` | `Mcts`, `MctsWonIsWon.cfg` | `WonIsWon`, violated | 5 columns of 1 | - |
| `optimal_action` | `OptimalAction` | `TypeOK`, `LiveRowsSound`, `LivingAimWell`, `RoundsEnd` | 3 players, depth 9 | 49,272 |
| `optimal_action_dead` | `OptimalAction`, `OptimalActionDead.cfg` | `DeadDoNotShoot`, violated | 3 players, depth 15 | - |
| `quick_sort` | `QuickSort` | `TypeOK`, `Sorts` | every array of up to 6 elements of 3 values | 32,025 |
| `small_programs` | `MCSmallPrograms` | `EachRowOnce`, `ShuffledWhole`, `PuzzlesKeepRules`, `ThreadsCountAll`, `AlgorithmsCount`, `VerdictOfFile`, `ProgramsEnd` | see below | 102,732 |
| `ascii_exit_status` | `AsciiChecker` | `FoundMeansFailure`, violated | 2 files, 2 lines | - |
| `shuffler_last_phrase` | `MCSmallPrograms`, `ShufflerLastPhrase.cfg` | `LastPhraseSplits`, violated | files of up to 3 lines | - |

Three properties of `small_programs` have one part for each program they are about:
`PuzzlesKeepRules` for `ElementChain` and `River`, `ThreadsCountAll` for `Counters` and
`ThreadByRef`, `AlgorithmsCount` for `TowerOfHanoi`, `CountPatterns` and `Popcount`. The first two
are proved as well, the third is about numbers and recursion and is only checked.

Why the bounds are enough for the interesting cases:

- *wordcount*: two consumers race for one counter, a second trial meets what the first
  left behind, one spurious wakeup or one spurious failure of the exchange happens in
  every place it can. Equal and different words occur in every arrangement. A notification
  to more than one sleeper needs two consumers. `NeverOvercounts` and the types are about every
  strategy; what depends on atomic counters speaks of the atomic ones (`Atomic`): of a run with
  `RELAXED` the sequential tally sees nothing, and nobody promises that it ends.
- *handshake*: four rounds take each thread from its first round, where nobody waits, into
  the periodic part. Three spurious wakeups hit both threads.
- *memory_fence*: with three elements a reader has a first, an inner and a last one; with
  two rounds it can come before, between and after them; readers compete among themselves.
- *connect4*: on 4x3 with three in a line every direction has lines that touch each
  border, ends of lines that fall into the margin, and wins that complete two lines.
  The grid can fill up without a winner. Inputs reach one cell beyond the grid on
  either side, the code's own bound being an `int`.
- *mcts*: one row of four cells has transpositions, wins, draws and a won node that
  a match registers; five moves make more than one match, so edges are appended twice;
  five playouts descend three levels below the root and meet nodes with and without decided
  games, equal ratios and ratios of zero by zero. The violation needs five columns.
- *optimal_action*: a round of nine shots passes the turn three times to everyone, dead
  ones included, and kills in every order; learning has reached its fixed point
  of classes by then. The program's depth is 15.

- *quick_sort*: six elements of three values have runs of equal ones of each length, at every place
  relative to the pivot, and are partitioned three levels deep.
- *small_programs*: 4 rows for 0 to 3 processors, with even, uneven and empty parts, each row
  converging or not; files of up to 3 lines with the phrase anywhere, and with or without a last
  newline; 2 searches over 6 elements with loops, choices and a dead end, with a budget of 2 at first
  that chains of 3 and more enlarge; the towers that the script shows, with 9 disks on 3
  and on 10 rods, smaller ones of up to 6 disks on 3, and 3 disks on 4;
  2 files with 2 lines of any kind between them, a skipped one anywhere; 1 or 2 threads with up to 3
  increments each; up to 3 threads by reference that add 2 random numbers each; 8 crossings, one more than
  the solution has; all texts of up to 6 syllables, which may hold the word twice; words with no bit,
  the lowest, the highest, every other and all, in 2 blocks.

Fairness is weak and per thread: the operating system keeps running a thread that can
move (`WordCount`, `Handshake`, `MemoryFence`), and the single thread of the others runs
on. A mutex need not be fair: between two rounds a thread of the handshake has to
wait for the other, consumers take the mutex a bounded number of times, and in the
memory fence test a thread may starve only as long as the others have rounds left. Weak
fairness on the whole of a thread promises nothing for a spurious wakeup, a failing
exchange or a race: these are in no fairness condition, and the first two are bounded
by `MaxSpurious`. A playout that has been started runs to its end; nobody has to start
the next one, nor to make a move. A small program runs on as long as it can, which is all
that is assumed of those with threads: each of their steps brings a thread nearer to its end,
so that no single thread need be favoured.

Deadlock is checked in all runs: the states in which a program has ended have an explicit
stuttering action (`Stopped`, `Done`, `Over`, `Idle`).

## Proofs

The theorems hold for all constants that satisfy the assumption named in the module
(`SettingAssumption`, `HandshakeAssumption`, `FenceAssumption`, `BoardAssumption`,
`OptimalActionAssumption`, `MctsAssumption`, `SmallProgramsAssumption`; `MaxSizeAssumption`,
`ValuesAssumption` and `NotYetAssumption` of `QuickSort`). They say no more than the types of the settings, one consumer,
word and trial at least, for the memory fence that a counter does not overflow
(`LoopCount <= Highest`, as in the program), for the board the `static_assert`s on its
margins, two players at least who shoot, that a node is tried before it is expanded,
that the elements of an array are integers, and of the small programs that bounds are natural
numbers, threads finitely many, and that the value of a place which is not in use is no number
and no truth value.

**HandshakeProofs.** `Inv` is `TypeOK`, who holds the mutex (`MutexInv`), that a thread
at work has found its predicate true and still does (`WorkInv`), `OneInFlight` and
`SleepsForAReason`. The last two are what the runs check; neither is inductive without
knowing that a thread between its test and its sleep holds the mutex, so that the
other cannot make the predicate true and notify in between. From `Inv` each step is a
step of `Handoff` or changes nothing it sees (`ImplementsHandoff`).

**MemoryFenceProofs.** `Exclusive` follows from `LockInv`: the lock is taken exactly when
somebody is inside, and who is inside in mutex mode is the owner. `ReadsOneRound`
rests on `RoundInv` (the elements are all equal when the producer is outside) and
`Stairs` (while it walks, the elements behind it are one ahead), and on `FreshWalk`
(a reader begins with the highest value). `AllRoundsDone` is `Stairs` at the end.

**WordCountProofs.** `Inv` has four layers: who holds the mutex (`LockInv`), what the
main thread has done by each of its steps (`PhaseInv`), where a consumer can be by then and
that the word it is at lies within its slice (`ThreadInv`), and the properties
`NoLostWakeup` and `CountsExact`. That an increment keeps `CountsExact` needs that the
slices are disjoint (`SlicesOrdered`), so that the position is a new one
(`CountedGrows`), and that an exchange succeeds only on the value it stores plus one.
That the text is covered when all are done (`EveryWordCounted`) is division with
remainder. `ThreadsCountLikeOne` maps each step of a run with an atomic strategy
to `WordTally`, for every number of threads, words and trials (`SequentialAtomic`). It assumes nothing
about the strategies that are allowed: a run keeps its own (`StrategyStays`), and with the racing one no text is
open (`SequentialRelaxed`). `CountsAreNotInvented` is
about every strategy, the racing one included, and needs what a thread has in its hands
between load and store (`NotOver`): a count that was loaded is at most the number of
positions counted so far, and stays so, since that number only grows; the store
adds the thread's own position, which is not among them yet. A tree that loses nodes only
makes counts smaller.

**BoardProofs, Connect4Proofs.** `MergedIsBoth` is not inductive: the digest of the merged
board is right after a move only if the digests of both players' boards were. `BoardProofs`
therefore speaks of exact stages (`Exact`: both digests are the stones, and the boards are
disjoint and within the mask). A legal move is a free cell within the mask (`LegalIsFree`), so
`place` never refuses it and adds one stone and one key (`PlaceStone`), the XOR of disjoint sets
is their union (`MergeExact`), and an exact stage is followed by an exact one (`AfterExact`).
`FullStaysDrawn` is a fact about cardinalities: a subset of the mask of the same size is
the mask (`FullBoardHasNoMove`).

`CheckFindsLine` is about the code's way to look for lines: shifting
the mask of a line and comparing finds one through a cell exactly when the grid has one there. Within the
margins an index stands for one cell only (`IndexUnique`), so a shifted mask that lies on stones lies on
the cells it is meant for; one that leaves the grid meets a cell of the margin, which the mask takes
out again (`LineStaysInGrid`); and the shifts between `FirstFrom` and `LastFrom` are neither too few, as
every line through the cell begins at one of them, nor do they reach beyond the
margin (`SearchBounds`, `LineEnds`).

`PlaysByTheRules` is the refinement: what the bitboards play is `FourInARow`. It needs that the stones of a
column lie on one another (`Stacked`), so that the lowest free cell is the top of a pile
(`LegalOnTop`) and the grid's columns are sequences (`GridStones`); that nobody has a line while the game
goes on, so that a line after a move goes through the new stone (`NewLineIsThroughStone`), where
`CheckFindsLine` finds it (`AnswersAgree`); and that whose turn it is follows from the number of stones. These three are
`Orderly`, which no run states but every step keeps: a legal move drops a stone (`LegalDrops`), any other
answer leaves the grid alone (`OthersRefuse`).

**MctsProofs.** `CountedOnceInRoot` says that a playout, in whatever order it meets the ancestors
of its leaf, credits the root once; not twice is `visited`, but that it comes there at all needs the
shape of the graph. `Inv` has four parts. `Shape`: a good tree keeps each node under
its digest with an exact stage, references only nodes that are in it, and every node but the root has a
parent; a digest is a set of keys, and a parent's is a proper subset of its child's. `NobodyForgotten`: the parents of
a node that was credited are credited or queued. `RootCounted`: the root's tries are the playouts that
have credited it. `Offers`: what an expanded node owes is among its children or still in `todo`.
When the queue is empty, take a credited node with fewest keys: if it were not the root it would have
a parent with fewer, which would be credited too (`RootReached`). The order is well founded
because the sets are finite, so cycles through transpositions and repeated edges do not matter.
That linking a stage, crediting a node and marking it as expanded keep the tree good are the
lemmas `LinkGood`, `CreditGood` and `ExpandedGood`.

`EdgesFollowMoves` is about transpositions: a node is found by its stones, and the turn is left out. That the
node found is nevertheless the stage that the move leads to is because the stones tell the turn: without
a line, the first player leads by one stone when the second one is on turn. Playouts and matches
also go on after a win, by the same player or the other, so `Balanced` says what remains true then: who has
a line, and nobody else, leads at least as he did when he won. From this a stage without a line, and what one
move makes of it, has one possible turn (`OpenStageKnown`, `MoveKnown`). The exception is a full board that
somebody has won: `advance` passes the turn neither for a win nor on a full board, so the turn depends on
the order of the moves, and `EdgesAreMoves` allows for that; nobody can move there any more. The second part, that both ends
of an edge record it equally often, is counted occurrence by occurrence (`TimesAppend`,
`LinkEdges`), since an edge may be appended many times. It is what `VisitGoesDown` rests on: a child that
`select` returns has this node among its parents, and a parent has fewer stones, so that a playout
cannot go round in a circle however the transpositions are linked.

`LearnedIsBest` follows the loop of `select` over the columns. `Learned` is a function
defined by recursion, of which a proof has to show that it exists; `UpTo` gives the induction needed, over
the columns up to `ColumnSize`: a least column that breaks the claim would have one before it
(`LearnedByColumns`). That the best so far is the best of all columns so far (`ImprovedIsBest`) needs that
what did not exceed the best so far does not exceed the larger one that replaces it either (`RatioTransitive`). With
zero by zero, which neither exceeds nor is exceeded, this is not transitivity in general: it holds because the
best so far has decided games, or is the starting value.

**OptimalActionProofs.** The lemmas about rows carry the proof: an initial row of a living
player is sound (`InitialSound`), learning leaves the classes of a sound row as they are,
because its sum is positive or its maximum finite (`LearnedLinearSound`,
`LearnedSoftmaxSound`), and a walk through a sound row ends at a choice (`SoundReached`).
Both need that shooting nobody is always possible (`NobodyIsNoPlayer`). A shot leaves
at least one player alive (`SomebodySurvives`), so a round that goes on has two.

**SmallProgramsProofs.** *The quick sort.* `BoundInv` has the bounds of the calls on the stack and of both scans, and that
a part is no larger than the depth below it allows (`DepthLeft`). `OrderInv` says that the calls lie in
order and do not overlap (`PartsInOrder`), that two positions which no call has both to sort are in order
(`Settled`), that the scans leave small values on the left and great ones on the right and
have a value ahead that stops them (`Partitioned`: the pivot at first, what was swapped
afterwards), and that the array is a permutation of the one given. With an empty stack everything is settled
(`SortedAtReturn`), hence `SortsTheArray` and, step by step, `ImplementsSorting`.

*The Julia set.* `EachRowOnce` is about the end of a pass, when all jobs have been joined. `PartsCut` has
what they leave behind on the way: the job number *n* begins where *n* - 1 spans end, cut off at the last
row (`Cut`), and `indexStart` is where the next one would begin. That the spans of `nCpus` jobs, rounded up,
reach the last row is division with remainder (`Quotient`); that a span too many begins at
the end, so that a last part may be empty and never negative, is the minimum in the code. A job that is done has gone through all
of its rows, so every row is in some job's part (`AllRowsGone`), and `RowsDone` says what that means in
each pass: first that the count is there, then that the color is. `Counted` carries the counts and their
maximum over the files in between. With no processor there is no job and nothing is counted: all of this is
claimed for one at least, as `EachRowOnce` is.

*The checker for ASCII.* What a file's verdict is about is spread over four variables while
it is read: `ReadSoFar` says that something in the lines read so far makes the file fail exactly if
`result` is set, or the open paragraph would set it, or a text that was extracted from the current line and is
still waiting. A paragraph fails as the union of its texts does (`BothFails`), and a name that is
not ASCII makes any text fail, but not where there is none (`Fails`). At the end of the file the
paragraph is printed and no text waits, which is `FilesJudged`.

*The chains.* The marks in `used_` are undone by destructors, one step after the call has returned. `ChainTypes`
counts: there is an element on the chain for each call on the stack, and one more while the value of a call
that returned has not been taken (`aborted`). With it an element is removed when its own call has ended and not
otherwise, whichever of the returns it took, so that `used_` remains the set of the chain
(`ChainMarked`), in which nothing comes twice. `LongestEnds` is noted at a dead end, where the successors are
all marked, and remains true because the copy does not change. The elements are
the six of the run, but no step looks into them; the budget and the number of searches are any.

*The counters.* How many increments have been made is the size of a set of pairs, a thread and a number
(`Made`), which each increment makes larger by one (`OneMore`): that is all about the atomic counter. `Lossy` is the
invariant of one that is loaded and stored. Nothing is invented, since what a thread has
loaded was at most what had been made by then. That two increments remain is what is hard, and not
inductive: a thread may store a 1 as long as others have increments left. But once somebody has made an
increment the counter is never 0 again, and what a thread loads after an increment of its own is 1 at
least. The last store of all is a thread's last; if its count is two or more, the thread has made one
before, and stores at least 2. With one thread nothing is lost. For gathered increments the counter and the registers are multiples
of the count (`Multiple`), by as many threads as have added theirs.

*Threads by reference.* `OwnElements`: what a thread has captured is its own number or not read
yet, however late it begins, and then the count of its element is its own progress, between the two steps of an
iteration one ahead. The element after the last, which a loop variable captured by reference would name, remains untouched.

*The river.* `FarEnough` lists the positions that can be reached and the number of moves each takes at least,
`OnTheWay` where the first moves of `main` lead. A step from one of them is one of a few
(`Eats` refuses the others), and each is one move farther at most, so the goal, at distance seven, is not
reached with fewer.

*Together.* A behaviour of `Programs` is one of any one program, so `ProgramsInv` asks each program's invariant of it
alone; what ends changes nothing (`JuliaStays` and the others).

| Theorem | Property of a run |
|---|---|
| `WordCountProofs`: `TypeCorrect`, `WakeupNeverLost`, `NoIncrementLost`, `MapIsStable` | `TypeOK`, `NoLostWakeup`, `CountsExact`, `StableWhileCounting` |
| `WordCountProofs`: `ThreadsCountLikeOne`, `CountsAreNotInvented` | `CountsLikeOneThread`, `NeverOvercounts` |
| `WordCountProofs`: `EveryWordCounted`, `ProducerNeverTerminates` | - (all positions are counted at the end; `ready` is never found set) |
| `HandshakeProofs`: `TypeCorrect`, `ValuesHandedOver`, `NobodySleepsInVain`, `ImplementsHandoff` | `TypeOK`, `OneInFlight`, `SleepsForAReason`, the safety part of `HandsOver` |
| `MemoryFenceProofs`: `TypeCorrect`, `MutualExclusion`, `WholeRoundsRead`, `AllRoundsDone` | `TypeOK`, `Exclusive`, `ReadsOneRound`, `ResultExact` |
| `BoardProofs`: `CheckFindsLine` | - (shifted masks find the lines of the grid, and nothing else) |
| `Connect4Proofs`: `TypeCorrect`, `MergedFollows`, `PlaysByTheRules` | `TypeOK`, `MergedIsBoth`, `PlaysFourInARow` |
| `Connect4Proofs`: `FullStaysDrawn` | - (a full board answers Draw to every move) |
| `MctsProofs`: `TypeCorrect`, `ResultsReachAncestors`, `RootCountsPlayouts`, `ExpandHidesNoMove` | `TypeOK`, `CreditedUpward`, `CountedOnceInRoot`, `ExpandedOffersMoves` |
| `MctsProofs`: `EdgesFollowMoves`, `LearnedIsBest` | `EdgesAreMoves`, `SelectsBest` |
| `MctsProofs`: `VisitGoesDown` | - (a selected child has more stones than its parent) |
| `OptimalActionProofs`: `TypeCorrect`, `LearningStaysSound`, `LivingNeverMisaim` | `TypeOK`, `LiveRowsSound`, `LivingAimWell` |
| `SmallProgramsProofs`: `TypeCorrect`, `SortsTheArray`, `ImplementsSorting` (quick sort) | `TypeOK`, -, the safety part of `Sorts` |
| `SmallProgramsProofs`: `RowsDivided`, `FilesJudged`, `RulesKept`, `CountsAreWhole` | `EachRowOnce`, `VerdictOfFile`, `PuzzlesKeepRules`, `ThreadsCountAll` |

## Findings

- `mcts_won_is_won`: a playout may start from a node whose game is over.
  `play` (`connect4.cpp:760`) does not ask, plays on with the same player or the
  other, and a win may be credited to the loser. Such nodes are registered by `expand`
  and by the matches.
- `optimal_action_dead`: the row of a dead player is NaN, with softmax from the start and
  without after the first backpropagation, and the walk over the proportions ends at
  its first element. A dead player therefore shoots player A, whereas in
  `optimal_action.py` the turn of a dead player changes nothing.
- `ascii_exit_status`: when a file is skipped, `next` without a value makes the accumulator of the
  `reduce` nil (`asciiOnlyCheckerImpl.rb:134`), and a failure before it is forgotten: the
  exit status is 0, although a file with a character outside US-ASCII has been found.
- `shuffler_last_phrase`: `shuffleLines.md:49` says that the last line with the phrase splits the
  file; the code (`shuffleLinesImpl.rb:253`) splits it at the first, as line 79 of the same
  document says. With two such lines the second is output before the first, among the
  lines that have not been posted. `ShuffledWhole` is about the first line.

Remarks that are no finding of a run:

- The parameter `m` of `River`'s templates is a `bool` (`river.cpp:58`), so the numbers 10, 20 and
  30 of the moves all become `true`, and the conditions that would refuse to undo a move
  (`:66`, `:76`, `:86`) never do. `CrossedSafely` holds without them.
- The comment at `thread_by_ref.cpp:179` says of the lambda after it that it possibly does not
  work. It does: it captures the array by reference and the loop variable by copy (`OwnResults`).
- The test `MultiThread` asserts that the unsynchronised word counter loses something
  (`ASSERT_NE`, `thread_safety.cpp:721`), and the test `SingleCore` that a volatile counter on one
  core loses nothing (`cppFriendsOpt.cpp:183-201`). Neither is certain: threads that happen not to
  overlap lose nothing, and one that is preempted between load and store does.

- A full board that somebody has won is stored with the turn of whichever game reached it first
  (`Stage::advance`, `connect4.cpp:447`): a game that went on after the win may have another turn than the
  one in which the last stone won. Its digest is the same. It has no consequence, as a full
  board has no legal move, and `EdgesAreMoves` says so in as many words.

## Limits

*Only model-checked*: everything under fairness (`AllTrialsEnd`, `BothReturn`,
`AllThreadsEnd`, `PlayoutsEnd`, `RoundsEnd`, `ProgramsEnd`, the fairness of `HandsOver` and `Sorts`), which
is out of the prover's reach, as is `ENABLED`; and two properties of `MCSmallPrograms`. `AlgorithmsCount`
is about what recursion computes over data of any length (`CountPatterns`), about sums over
fields of bits (`Popcount`), and about the moves of a tower of any height, whose proof is an induction over
towers (`TowerOfHanoi`): the prover has no usable induction for these. `ShuffledWhole` compares bags of lines
after a permutation, which are sums over sequences again.

*Abstracted*: The command line, printing and measured times. The random document is any
document, a random move any legal move, a shuffle any permutation, and the comparison of UCB1
scores and the random exploration of the learner any choice among the candidates of the
code. Zobrist keys are independent: two positions have the same digest only if they have the same
stones. Doubles are classes, which underflow does not leave: a value that shrinks with each loss
would reach zero in the program (`optimal_action.cpp:413`) and stays positive here. Counters of
tries and wins do not wrap (`MaxPlayouts`). Delays before a start are arbitrary. Exceptions of
the standard library (no memory, a failing mutex) do not happen, but those of the code's own
`at` do, in `QuickSort` and `JuliaSet`. A child whose games are all drawn counts as untried and is
chosen again and again (`connect4.cpp:686`): the model does as the code does, and no property
says that every child is tried in the end.

*Shown as it is*: with `hardware_concurrency()` of 0 the Julia set starts no job, and the program
reports success with an empty picture. The run has such behaviours; what `EachRowOnce` says of counts and
colors is about one processor at least.

*Not modelled, within modelled parts*: `Board::remove` (tests only); the mode `ASYNC` of the
memory fence test, which is empty; `Check`, `Print` and the variant `IID_CHOICE` of
`optimal_action.cpp`, the last of which is compiled out; an empty dictionary of the word counter, with
which the producer would throw before it has stored `ready` (`thread_safety.cpp:330`); buffers of
`popcount` that are no multiple of a round, whose size is computed with the wrong unit
(`popcount_cpp.cpp:42`); the checks of tweets in the line shuffler, which print; the parallel algorithms of
`std_execution.cpp`, which are library calls on data of their own; `nanosleep` interrupted by a
signal in the delays (`cppFriendsThread.cpp:79`), since delays are arbitrary anyway.

*Not modelled at all*: see the components in `PROJECT.json`. Programs without state of
their own (`cppFriendsSample1.cpp`, `cppFriendsSample2.cpp` and the assembly and Clang samples are
the largest), floating-point iterations, R analyses, and text conversions in one pass have no
behaviour that TLC could explore; most of the repository's lines are of this kind.

## Plan

What remains, in order of what it adds:

1. `WordCount` with an empty dictionary: the exception of the producer, and the threads that
   wait for it.
2. `ElementChain`: the budget as a variant, of which `ProgramsEnd` is an instance.
3. `LineShuffler`: `ShuffledWhole` with lines that are told apart, so that a bag becomes a set.
