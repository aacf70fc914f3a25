------------------------------ MODULE Connect4 ------------------------------
(***************************************************************************)
(* The interactive game of connect4/connect4.cpp: main reads a column and  *)
(* a height, lets Stage::advance play them, and ends when somebody has     *)
(* won.                                                                    *)
(***************************************************************************)
EXTENDS Board, Sequences

VARIABLES
  stage, \* the Stage: the board of each player, the merged board and the turn
  result \* what the last advance answered

vars == <<stage, result>>

\* Bound: how far beyond the grid the numbers read from the input reach.
Inputs == ((-1)..ColumnSize) \X ((-1)..MaxHeight)

Init ==
  /\ stage = InitialStage
  /\ result = "Start"

\* main breaks its loop when somebody has won.
Playing == result # "Won"

\* advance finds no free cell.
AdvanceFull ==
  /\ LegalActions(stage.merged) = {}
  /\ result' = "Draw"
  /\ UNCHANGED stage

\* advance refuses a cell that is not the lowest free one of its column.
AdvanceInvalid ==
  /\ LegalActions(stage.merged) # {}
  /\ Inputs \ LegalActions(stage.merged) # {}
  /\ result' = "Invalid"
  /\ UNCHANGED stage

AdvanceLegal(a) ==
  /\ a \in LegalActions(stage.merged)
  /\ stage' = After(stage, a)
  /\ result' = ResultOf(stage, a)

Over == ~Playing /\ UNCHANGED vars

Next ==
  \/ Playing /\ (AdvanceFull \/ AdvanceInvalid)
  \/ \E a \in Inputs : Playing /\ AdvanceLegal(a)
  \/ Over

Spec == Init /\ [][Next]_vars

-----------------------------------------------------------------------------
\* Properties

Stones(p) == stage.boards[p].placed

\* Stones lie within the mask, keys belong to cells, and the turn is a player's.
TypeOK ==
  /\ stage \in Stages
  /\ result \in {"Start", "Invalid", "Won", "Draw", "Placed"}

\* The bookkeeping of bitboards by XOR stays exact: no cell belongs to both
\* players, the merged board is the union of both, and its digest holds the key of
\* every stone once, so it identifies the position.
MergedIsBoth ==
  /\ Stones(0) \cap Stones(1) = {}
  /\ stage.merged.placed = Stones(0) \cup Stones(1)
  /\ stage.merged.digest = {key \in Players \X Mask : key[2] \in Stones(key[1])}

\* The game as its rules see it: the stones of each column from the bottom.
Pile(column) == {i \in stage.merged.placed : i \div FullHeight = column}
Grid ==
  [column \in 0..(ColumnSize - 1) |->
    [height \in 1..Cardinality(Pile(column)) |->
      IF ToIndex(column, height - 1) \in Stones(0) THEN 0 ELSE 1]]

\* The moves of advance are the moves of the game, and its answers those of the game:
\* stones fall to the bottom, the players take turns, nobody moves once there is a line,
\* which the bit masks of check find exactly when there is one, and a full board is a draw.
Rules == INSTANCE FourInARow WITH grid <- Grid, answer <- result
PlaysFourInARow == Rules!Spec

\* A full board that nobody has won answers Draw to every move and stays as it is:
\* wherever one plays, the game is drawn (the test Draw of TestStage).
FullBoardDraws ==
  [][Full(stage.merged) /\ Playing => result' = "Draw" /\ UNCHANGED stage]_vars
=============================================================================
