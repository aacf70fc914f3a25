------------------------------- MODULE Board -------------------------------
(***************************************************************************)
(* The classes Board and Stage of connect4/connect4.cpp: bitboards with    *)
(* margins, the search for a line through the last stone, and one move of  *)
(* the game. A bitset is the set of its indices. The Zobrist keys are      *)
(* random and taken to be independent: an XOR of keys is the symmetric     *)
(* difference of the set of keys, <<player, index>> naming a key.          *)
(***************************************************************************)
EXTENDS Integers, FiniteSetsExt

CONSTANTS
  ColumnSize, \* columns; the program has 7
  MaxHeight,  \* stones a column takes; the program has 6
  FullWidth,  \* columns of the bitboard, with the margin; the program has 8
  FullHeight, \* cells of a column of the bitboard, with the margin; the program has 8
  MinLen      \* how many stones in a line win; the program has 4

\* The static_asserts of Board, and a line that fits into a column.
ASSUME BoardAssumption ==
  /\ ColumnSize \in Nat /\ FullWidth \in Nat /\ ColumnSize < FullWidth
  /\ MaxHeight \in Nat /\ FullHeight \in Nat /\ MaxHeight < FullHeight
  /\ MinLen \in Nat \ {0}

Players == {0, 1}

ToIndex(column, height) == column * FullHeight + height

\* The cells of the grid, and their indices: the bitboard without the margins.
Cells == (0..(ColumnSize - 1)) \X (0..(MaxHeight - 1))
Mask == {ToIndex(a[1], a[2]) : a \in Cells}

-----------------------------------------------------------------------------
\* Board

\* Stones lie within the mask, and keys belong to cells.
Boards == [placed : SUBSET Mask, digest : SUBSET (Players \X Mask)]

EmptyBoard == [placed |-> {}, digest |-> {}]

\* place: a stone of player p on a free cell within the mask.
Place(board, p, column, height) ==
  LET index == ToIndex(column, height)
  IN  IF index \in Mask \ board.placed
        THEN [placed |-> board.placed \cup {index},
              digest |-> SymDiff(board.digest, {<<p, index>>})]
        ELSE board

\* Mutated Merge: the digest of the right board is left out.
MergeKeepingDigest(lhs, rhs) ==
  [placed |-> SymDiff(lhs.placed, rhs.placed), digest |-> lhs.digest]

Merge(lhs, rhs) == [placed |-> SymDiff(lhs.placed, rhs.placed),
                    digest |-> SymDiff(lhs.digest, rhs.digest)]

\* The masks of setup, by the index of their first cell and the distance to the next.
LineMask(origin, step) == {origin + i * step : i \in 0..(MinLen - 1)}
Vertical == LineMask(0, 1)
Horizontal == LineMask(0, FullHeight)
Rising == LineMask(0, FullHeight + 1)
Falling == LineMask(MinLen - 1, FullHeight - 1)

\* check_line: a whole line of placed cells starts at the given shift.
CheckLine(placed, line, leftShift) ==
  LET cells == {i + leftShift : i \in line}
  IN  leftShift >= 0 /\ Cardinality(cells \cap Mask \cap placed) >= MinLen

\* Mutated FirstFrom: the search begins one cell late.
FirstFromTooLate(x) == Max({0, x - (MinLen - 2)})

\* The first and last places where a line through x can begin.
FirstFrom(x) == Max({0, x - (MinLen - 1)})
LastFrom(size, x) == Min({size - MinLen, x})

\* check: the stone just placed completes a line.
Check(placed, column, height) ==
  LET left == FirstFrom(column)   right == LastFrom(ColumnSize, column)
      bottom == FirstFrom(height) top == LastFrom(MaxHeight, height)
  IN  \/ \E y \in bottom..top : CheckLine(placed, Vertical, ToIndex(column, y))
      \/ \E x \in left..right : CheckLine(placed, Horizontal, ToIndex(x, height))
      \/ \E x \in left..right :
           LET y == height + (x - column) IN
             /\ y \in 0..(MaxHeight - 1)
             /\ CheckLine(placed, Rising, ToIndex(x, y))
      \/ \E x \in left..right :
           LET y == height - (x - column) IN
             /\ y \in 0..(MaxHeight - 1)
             /\ CheckLine(placed, Falling, ToIndex(x, y) - (MinLen - 1))

\* The lowest free cell of each column.
LegalActions(board) ==
  {a \in Cells :
     /\ ToIndex(a[1], a[2]) \notin board.placed
     /\ \A below \in 0..(a[2] - 1) : ToIndex(a[1], below) \in board.placed}

Full(board) == Cardinality(board.placed) = Cardinality(Mask)

-----------------------------------------------------------------------------
\* Stage

Stages == [boards : [Players -> Boards], merged : Boards, player : Players]

MergeBoards(boards, player) == Merge(boards[player], boards[1 - player])

InitialStage ==
  LET boards == [p \in Players |-> EmptyBoard]
  IN  [boards |-> boards, merged |-> MergeBoards(boards, 0), player |-> 0]

\* The boards after the player has placed a stone.
BoardsAfter(stage, a) ==
  [stage.boards EXCEPT ![stage.player] = Place(@, stage.player, a[1], a[2])]

\* What advance answers to a legal action.
ResultOf(stage, a) ==
  LET boards == BoardsAfter(stage, a)
      merged == MergeBoards(boards, stage.player)
  IN  IF Check(boards[stage.player].placed, a[1], a[2]) THEN "Won"
      ELSE IF Full(merged) THEN "Draw" ELSE "Placed"

\* Mutated After: the turn is counted up instead of toggled.
AfterCountingTurns(stage, a) ==
  LET boards == BoardsAfter(stage, a)
  IN  [boards |-> boards,
       merged |-> MergeBoards(boards, stage.player),
       player |-> IF ResultOf(stage, a) = "Placed" THEN stage.player + 1
                                                   ELSE stage.player]

\* The stage after a legal action: only a game that goes on passes the turn.
After(stage, a) ==
  LET boards == BoardsAfter(stage, a)
  IN  [boards |-> boards,
       merged |-> MergeBoards(boards, stage.player),
       player |-> IF ResultOf(stage, a) = "Placed" THEN 1 - stage.player
                                                   ELSE stage.player]
=============================================================================
