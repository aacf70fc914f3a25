---------------------------- MODULE LineShuffler ----------------------------
(***************************************************************************)
(* shuffleLinesImpl.rb: the lines of a file, in random order, classified   *)
(* by patterns so that lines of one class stay apart, those after the      *)
(* first line with a phrase before those up to it. The program compares    *)
(* what it has written to what it has read.                                *)
(*                                                                         *)
(* A line is its class (the first pattern it matches, the last class if    *)
(* none does), whether it contains the phrase, and whether it ends with a  *)
(* newline, which the last line of a file need not.                        *)
(***************************************************************************)
EXTENDS Integers, Sequences, FiniteSets, SequencesExt, FiniteSetsExt

CONSTANTS
  Classes,   \* 1 .. the number of patterns + 1
  Kinds,     \* the lines of the files, [class, phrase]
  MaxLines   \* files have up to this many lines

VARIABLES
  lines,     \* the input
  phrase,    \* @phrase is set
  found,     \* the phrase is not needed or has been found
  next,      \* the line inStream.gets reads
  queue,     \* @lineSetQueue: the lines of each class, for each line set
  strings,   \* @string of the line sets that are shuffled
  written,   \* the lines of the output, as they are joined
  pc

vars == <<lines, phrase, found, next, queue, strings, written, pc>>

EmptySet == [c \in Classes |-> <<>>]

Files ==
  {[i \in DOMAIN f |-> [class |-> f[i].class, phrase |-> f[i].phrase,
                        newline |-> i < Len(f) \/ terminated]] :
     f \in SeqOf(Kinds, MaxLines), terminated \in BOOLEAN}

Init ==
  /\ lines \in Files
  /\ phrase \in BOOLEAN
  /\ found = ~phrase
  /\ next = 1
  /\ queue = <<EmptySet>>
  /\ strings = <<>>
  /\ written = <<>>
  /\ pc = "open"

\* The input may not exist, or be the output.
Open ==
  /\ pc = "open"
  /\ pc' \in {"read", "invalid"}
  /\ UNCHANGED <<lines, phrase, found, next, queue, strings, written>>

\* The first line with the phrase ends the first line set.
ReadLine ==
  /\ pc = "read"
  /\ next <= Len(lines)
  /\ LET line == lines[next]
         added == [queue EXCEPT ![Len(queue)][line.class] = Append(@, line)]
     IN IF phrase /\ line.phrase
        THEN queue' = Append(added, EmptySet) /\ found' = TRUE /\ phrase' = FALSE
        ELSE queue' = added /\ UNCHANGED <<found, phrase>>
  /\ next' = next + 1
  /\ UNCHANGED <<lines, strings, written, pc>>

EndOfInput ==
  /\ pc = "read"
  /\ next > Len(lines)
  /\ pc' = IF found THEN "shuffle" ELSE "invalid"
  /\ UNCHANGED <<lines, phrase, found, next, queue, strings, written>>

\* makeIndexSequence: the columns of width that take an element of a class.
Columns(width, size) == kSubset(size, 1 .. width)

\* makeSequence: the rows of the classes, in an order of their own, read column by column.
Interleavings(size) ==
  LET width == Max({size[c] : c \in Classes})
  IN {FlattenSeq([w \in 1 .. width |-> SelectSeq(order, LAMBDA c : w \in columns[c])]) :
        order \in SetToSeqs(Classes),
        columns \in {f \in [Classes -> SUBSET (1 .. width)] :
                       \A c \in Classes : f[c] \in Columns(width, size[c])}}

\* lineArrays[i].shift for each index, and then what the indexes have left.
Taken(shuffled, indexes) ==
  LET nth(k) == Cardinality({j \in 1 .. k : indexes[j] = indexes[k]})
      left(c) == SubSeq(shuffled[c], Cardinality({k \in DOMAIN indexes : indexes[k] = c}) + 1,
                        Len(shuffled[c]))
  IN [k \in DOMAIN indexes |-> shuffled[indexes[k]][nth(k)]]
       \o FlattenSeq([c \in Classes |-> left(c)])

Orders(s) == {[k \in DOMAIN s |-> s[p[k]]] : p \in SetToSeqs(DOMAIN s)}

\* The next line set is shuffled within its classes, and then these are interleaved.
ShuffleSet ==
  /\ pc = "shuffle"
  /\ Len(strings) < Len(queue)
  /\ LET set == queue[Len(strings) + 1]
     IN \E shuffled \in {f \in [Classes -> UNION {Orders(set[c]) : c \in Classes}] :
                           \A c \in Classes : f[c] \in Orders(set[c])},
           indexes \in Interleavings([c \in Classes |-> Len(set[c])]) :
          strings' = Append(strings, Taken(shuffled, indexes))
  /\ UNCHANGED <<lines, phrase, found, next, queue, written, pc>>

\* Mutated Write: the sets are written first to last.
WriteInOrder ==
  /\ pc = "shuffle"
  /\ Len(strings) = Len(queue)
  /\ written' = FlattenSeq(strings)
  /\ pc' = "compare"
  /\ UNCHANGED <<lines, phrase, found, next, queue, strings>>

\* The sets are written last to first.
Write ==
  /\ pc = "shuffle"
  /\ Len(strings) = Len(queue)
  /\ written' = FlattenSeq(Reverse(strings))
  /\ pc' = "compare"
  /\ UNCHANGED <<lines, phrase, found, next, queue, strings>>

\* The lines of a string: one without newline, if it is not the last, runs into the next.
LinesOf(string) ==
  LET ends == SetToSortSeq({i \in DOMAIN string : string[i].newline \/ i = Len(string)}, <)
      before(k) == IF k = 1 THEN 0 ELSE ends[k - 1]
  IN [k \in DOMAIN ends |-> SubSeq(string, before(k) + 1, ends[k])]

SameLines(string) == ToBag(LinesOf(string)) = ToBag([i \in DOMAIN lines |-> <<lines[i]>>])

\* What is written, and if it is a file what can be read from it, has the lines of the
\* input, or the program fails with the output written.
Compare ==
  /\ pc = "compare"
  /\ pc' = IF SameLines(written) THEN "done" ELSE "failed"
  /\ UNCHANGED <<lines, phrase, found, next, queue, strings, written>>

Step == Open \/ ReadLine \/ EndOfInput \/ ShuffleSet \/ Write \/ Compare
Ended == pc \in {"invalid", "done", "failed"}

-----------------------------------------------------------------------------
\* The first line with the phrase, if there is one and it was asked for: what
\* shuffleLines.md says of the lines before the phrase (line 79, not line 49).
SplitAt ==
  IF Len(queue) = 1 THEN Len(lines)
  ELSE CHOOSE i \in DOMAIN lines : lines[i].phrase /\ \A j \in 1 .. i - 1 : ~lines[j].phrase

\* Two neighbours of one class are lines of a set's largest class, and no other class
\* has as many (shuffleLinesTest.rb, test_patterns).
Apart(string, set) ==
  \A i \in 1 .. Len(string) - 1 :
    LET c == string[i].class
    IN string[i + 1].class = c => \A d \in Classes \ {c} : Len(set[d]) < Len(set[c])

\* The output holds every line once, the lines up to the first with the phrase (the posted
\* ones) after the others, and lines of a class apart; the program fails only when the last
\* line has no newline.
ShuffledWhole ==
  /\ pc \in {"compare", "done", "failed"} =>
       /\ ToBag(SubSeq(written, Len(lines) - SplitAt + 1, Len(lines)))
            = ToBag(SubSeq(lines, 1, SplitAt))
       /\ ToBag(SubSeq(written, 1, Len(lines) - SplitAt))
            = ToBag(SubSeq(lines, SplitAt + 1, Len(lines)))
       /\ \A s \in DOMAIN strings : Apart(strings[s], queue[s])
  /\ pc = "failed" => \E i \in 1 .. Len(lines) - 1 : ~written[i].newline

\* When there was a phrase to look for, the lines up to the last one with it are output
\* after those that follow it (shuffleLines.md, line 49).
LastPhraseSplits ==
  pc \in {"compare", "done", "failed"} /\ Len(queue) > 1 =>
    LET last == Max({i \in DOMAIN lines : lines[i].phrase})
    IN ToBag(SubSeq(written, Len(lines) - last + 1, Len(lines))) = ToBag(SubSeq(lines, 1, last))
=============================================================================
