-------------------------- MODULE MCSmallPrograms --------------------------
(***************************************************************************)
(* The small programs of the repository, which have nothing to do with     *)
(* each other, for TLC: a behaviour is one of any one of them. Their       *)
(* variables share the places v1, v2, ... of the state.                    *)
(***************************************************************************)
EXTENDS Integers, FiniteSets

CONSTANTS None, MaxRows, MaxCpus, MaxIter, InitialCount, BaseChainSize, MaxSearches,
          MaxFiles, MaxLines, MaxTextLines, Threads, MaxCount, MaxConcurrency,
          LoopCount, LowerRand, UpperRand, MaxCrossings, MaxLength, Words, MaxBlocks

\* The bounds are numbers, the threads finitely many, and None is no value of a program.
ASSUME SmallProgramsAssumption ==
  /\ {MaxRows, MaxCpus, MaxIter, MaxCount, MaxConcurrency, LoopCount, MaxFiles, MaxTextLines}
       \subseteq Nat
  /\ IsFiniteSet(Threads)
  /\ LowerRand \in Int /\ UpperRand \in Int
  /\ None \notin Nat \union BOOLEAN

VARIABLES program, v1, v2, v3, v4, v5, v6, v7, v8, v9, v10, v11, v12, v13

places == <<program, v1, v2, v3, v4, v5, v6, v7, v8, v9, v10, v11, v12, v13>>

Julia == INSTANCE JuliaSet WITH
  Unset <- None, nCpus <- v1, converging <- v2, csvPath <- v3, imagePath <- v4,
  matCounts <- v5, maxCount <- v6, img <- v7, jobs <- v8, indexStart <- v9, csv <- v10,
  png <- v11, status <- v12, pc <- v13

\* Two classes of lines, and those of the last class; the phrase in any of them.
Shuffler == INSTANCE LineShuffler WITH
  Classes <- 1 .. 3,
  Kinds <- {[class |-> 1, phrase |-> FALSE], [class |-> 2, phrase |-> FALSE],
            [class |-> 1, phrase |-> TRUE], [class |-> 3, phrase |-> TRUE]},
  lines <- v1, phrase <- v2, found <- v3, next <- v4, queue <- v5, strings <- v6,
  written <- v7, pc <- v8

\* Elements of one and of two letters, with loops, choices and a dead end: h, o, s and e.
Element(first, last) == [first |-> first, last |-> last]

Symbols ==
  {Element("h", "h"), Element("h", "o"), Element("o", "o"), Element("o", "h"),
   Element("o", "s"), Element("h", "e")}

Chain == INSTANCE ElementChain WITH
  Elements <- Symbols,
  limitEveryCase <- v1, selectOne <- v2, count <- v3, used <- v4, chain <- v5,
  longestChain <- v6, calls <- v7, returned <- v8, searches <- v9

\* The towers of the script, and smaller ones.
Hanoi == INSTANCE TowerOfHanoi WITH
  Towers <- {<<3, disks>> : disks \in 1 .. 6} \union {<<3, 9>>, <<10, 9>>, <<4, 3>>},
  tower <- v1, rods <- v2, count <- v3, wrong <- v4, images <- v5

Ascii == INSTANCE AsciiChecker WITH
  MaxLines <- MaxTextLines, Nil <- None, files <- v1, file <- v2, line <- v3, texts <- v4,
  paragraph <- v5, result <- v6, failed <- v7, exitStatus <- v8, pc <- v9

Counter == INSTANCE Counters WITH
  threads <- v1, count <- v2, optimized <- v3, nonVolatileCounter <- v4,
  volatileCounter <- v5, atomicCounter <- v6, i <- v7, register <- v8, at <- v9

ByRef == INSTANCE ThreadByRef WITH
  Unknown <- None, nThreads <- v1, results <- v2, i <- v3, pc <- v4, result <- v5,
  loop <- v6, counted <- v7, returned <- v8

Crossing == INSTANCE River WITH
  bank <- v1, right <- v2, m <- v3, path <- v4

Patterns == INSTANCE CountPatterns WITH Unknown <- None, text <- v1, count <- v2

Ones == INSTANCE Popcount WITH
  buffer <- v1, addr <- v2, rcx <- v3, work <- v4, field <- v5, sum <- v6, rax <- v7,
  pc <- v8

NoneAfter2 == v3 = None /\ v4 = None
NoneAfter4 == v5 = None
NoneAfter5 == v6 = None /\ v7 = None /\ v8 = None
NoneAfter8 == v9 = None
NoneAfter9 == v10 = None /\ v11 = None /\ v12 = None /\ v13 = None

Begin ==
  \/ program = "julia" /\ Julia!Init
  \/ program = "shuffler" /\ Shuffler!Init /\ NoneAfter8 /\ NoneAfter9
  \/ program = "chain" /\ Chain!Init /\ NoneAfter9
  \/ program = "hanoi" /\ Hanoi!Init /\ NoneAfter5 /\ NoneAfter8 /\ NoneAfter9
  \/ program = "ascii" /\ Ascii!Init /\ NoneAfter9
  \/ program = "counters" /\ Counter!Init /\ NoneAfter9
  \/ program = "by_ref" /\ ByRef!Init /\ NoneAfter8 /\ NoneAfter9
  \/ program = "river" /\ Crossing!Init /\ NoneAfter4 /\ NoneAfter5 /\ NoneAfter8 /\ NoneAfter9
  \/ program = "patterns" /\ Patterns!Init
       /\ NoneAfter2 /\ NoneAfter4 /\ NoneAfter5 /\ NoneAfter8 /\ NoneAfter9
  \/ program = "popcount" /\ Ones!Init /\ NoneAfter8 /\ NoneAfter9

Step ==
  /\ \/ program = "julia" /\ Julia!Step
     \/ program = "shuffler" /\ Shuffler!Step /\ UNCHANGED <<v9, v10, v11, v12, v13>>
     \/ program = "chain" /\ Chain!Step /\ UNCHANGED <<v10, v11, v12, v13>>
     \/ program = "hanoi" /\ Hanoi!Step /\ UNCHANGED <<v6, v7, v8, v9, v10, v11, v12, v13>>
     \/ program = "ascii" /\ Ascii!Step /\ UNCHANGED <<v10, v11, v12, v13>>
     \/ program = "counters" /\ Counter!Step /\ UNCHANGED <<v10, v11, v12, v13>>
     \/ program = "by_ref" /\ ByRef!Step /\ UNCHANGED <<v9, v10, v11, v12, v13>>
     \/ program = "river" /\ Crossing!Step
          /\ UNCHANGED <<v5, v6, v7, v8, v9, v10, v11, v12, v13>>
     \/ program = "patterns" /\ Patterns!Step
          /\ UNCHANGED <<v3, v4, v5, v6, v7, v8, v9, v10, v11, v12, v13>>
     \/ program = "popcount" /\ Ones!Step /\ UNCHANGED <<v9, v10, v11, v12, v13>>
  /\ UNCHANGED program

Ended ==
  \/ program = "julia" /\ Julia!Ended
  \/ program = "shuffler" /\ Shuffler!Ended
  \/ program = "chain" /\ Chain!Ended
  \/ program = "hanoi" /\ Hanoi!Ended
  \/ program = "ascii" /\ Ascii!Ended
  \/ program = "counters" /\ Counter!Ended
  \/ program = "by_ref" /\ ByRef!Ended
  \/ program = "river" /\ Crossing!Ended
  \/ program = "patterns" /\ Patterns!Ended
  \/ program = "popcount" /\ Ones!Ended

StepOrEnd == Step \/ (Ended /\ UNCHANGED places)

\* A program runs on as long as it can.
Programs == Begin /\ [][StepOrEnd]_places /\ WF_places(Step)

-----------------------------------------------------------------------------
\* scan_points and draw_image of juliaset_impl.cpp give every row to one job, count and
\* color it once, and report success only with the files that were asked for.
EachRowOnce == program = "julia" => Julia!EachRowOnce

\* shuffleLinesImpl.rb writes every line once, those after the first with the phrase before
\* the others (line 253 of it), the lines of a class apart, and fails only if the last line
\* of the input lacks its newline.
ShuffledWhole == program = "shuffler" => Shuffler!ShuffledWhole

\* shuffleLines.md (line 49) says that the last line with the phrase is the one that
\* shuffleLinesImpl.rb splits the file at; the code splits it at the first.
LastPhraseSplits == program = "shuffler" => Shuffler!LastPhraseSplits

\* The search of element_chain.cpp undoes what it does, in whichever way its calls return.
\* The moves of river.cpp leave nobody to be eaten, and its solution is accepted and a
\* shortest one.
PuzzlesKeepRules ==
  /\ program = "chain" => Chain!ChainsLinked
  /\ program = "river" => Crossing!CrossedSafely

\* asciiOnlyCheckerImpl.rb fails a file exactly if what it looks at is not US-ASCII.
VerdictOfFile == [][program = "ascii" => Ascii!VerdictOfFile]_places

\* The atomic counter of cppFriendsOpt.cpp loses nothing, the others invent nothing, and
\* the threads of thread_by_ref.cpp, however late they begin, count for themselves.
ThreadsCountAll ==
  /\ program = "counters" => Counter!AtomicCountsAll
  /\ program = "by_ref" => ByRef!OwnResults

\* The moves that tower_of_hanoi.py computes from their number keep the rules, and the tower
\* ends on another rod. The templates of count_patterns.cpp and the fields of popcount_asm.s,
\* which add up what is above one another, count everything once.
AlgorithmsCount ==
  /\ program = "hanoi" => Hanoi!TowerMoved
  /\ program = "patterns" => Patterns!CountsPlaces
  /\ program = "popcount" => Ones!CountsOnes

\* Every program comes to its end: the search by its budget, the jobs by their rows, the
\* images by the two answers they wait for.
ProgramsEnd == <>Ended
=============================================================================
