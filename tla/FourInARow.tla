----------------------------- MODULE FourInARow -----------------------------
(***************************************************************************)
(* The rules of the game that connect4/connect4.cpp plays: two players     *)
(* drop stones into the columns of a grid in turns, until one of them has  *)
(* MinLen stones in a line or the grid is full. Whatever they ask for is   *)
(* answered.                                                               *)
(***************************************************************************)
EXTENDS Integers, Sequences, FiniteSets

CONSTANTS ColumnSize, MaxHeight, MinLen

VARIABLES
  grid,   \* column -> the stones in it from the bottom, each by its player
  answer  \* to the last move

Columns == 0..(ColumnSize - 1)

\* Where there are stones: the players take turns, so that their number says whose it is.
Occupied(g) == {a \in Columns \X (1..MaxHeight) : a[2] <= Len(g[a[1]])}
Turn == Cardinality(Occupied(grid)) % 2

Stone(g, column, height) ==
  IF column \in Columns /\ height \in 1..Len(g[column])
    THEN {g[column][height]} ELSE {}

\* p has a line on g in one of the four directions.
Line(g, p) ==
  \E column \in Columns, height \in 1..MaxHeight,
     direction \in {<<0, 1>>, <<1, 0>>, <<1, 1>>, <<1, -1>>} :
    \A k \in 0..(MinLen - 1) :
      p \in Stone(g, column + k * direction[1], height + k * direction[2])

Won(g) == Line(g, 0) \/ Line(g, 1)
Full(g) == \A column \in Columns : Len(g[column]) = MaxHeight

Init ==
  /\ grid = [column \in Columns |-> <<>>]
  /\ answer = "Start"

Drop(column) ==
  /\ Len(grid[column]) < MaxHeight
  /\ grid' = [grid EXCEPT ![column] = Append(@, Turn)]
  /\ answer' = IF Won(grid') THEN "Won" ELSE IF Full(grid') THEN "Draw" ELSE "Placed"

\* A move that the rules do not allow changes nothing.
Refuse ==
  /\ UNCHANGED grid
  /\ answer' = IF Full(grid) THEN "Draw" ELSE "Invalid"

Next == ~Won(grid) /\ (Refuse \/ \E column \in Columns : Drop(column))

Spec == Init /\ [][Next]_<<grid, answer>>
=============================================================================
