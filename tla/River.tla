------------------------------- MODULE River -------------------------------
(***************************************************************************)
(* river/river.cpp: the farmer who takes a wolf, a goat and a cabbage      *)
(* across a river, as types. A state is instantiated from another by a     *)
(* Move template, unless the template's condition fails. main has one      *)
(* solution instantiated; here every state can be that the templates give. *)
(***************************************************************************)
EXTENDS Integers, Sequences

CONSTANT MaxCrossings  \* bound: how many moves are made

VARIABLES
  bank,   \* whether the wolf, the goat and the cabbage are on the right bank
  right,  \* the farmer is
  m,      \* the static member m of State, a bool
  path    \* the moves that have led to the state

vars == <<bank, right, m, path>>

Number == [wolf |-> 10, goat |-> 20, cabbage |-> 30]
Things == DOMAIN Number

Init ==
  /\ bank = [thing \in Things |-> FALSE]
  /\ right = FALSE
  /\ m = 0
  /\ path = <<>>

Bit(b) == IF b THEN 1 ELSE 0

\* prev_move becomes a bool: every number but 0 is 1.
ToBool(n) == Bit(n # 0)

\* Mutated Eats: the goat leaves the cabbage alone.
EatsNoCabbage(banks, side) ==
  banks["wolf"] = banks["goat"] /\ banks["wolf"] # side

\* With the farmer on side, one thing eats another on the other bank.
Eats(banks, side) ==
  \E pair \in {<<"wolf", "goat">>, <<"goat", "cabbage">>} :
    banks[pair[1]] = banks[pair[2]] /\ banks[pair[1]] # side

Goal == right /\ \A thing \in Things : bank[thing]

After(thing) == [bank EXCEPT ![thing] = ~@]

\* MoveWolf, MoveGoat and MoveCabbage can be instantiated.
CanMove(thing) ==
  /\ bank[thing] = right
  /\ m # Number[thing] + Bit(~right)
  /\ ~Goal
  /\ ~Eats(After(thing), ~right)

CanMoveNothing == ~Goal /\ ~Eats(bank, ~right)

Move(thing) ==
  /\ CanMove(thing)
  /\ bank' = After(thing)
  /\ right' = ~right
  /\ m' = ToBool(Number[thing] + Bit(right))
  /\ path' = Append(path, thing)

MoveNothing ==
  /\ CanMoveNothing
  /\ right' = ~right
  /\ m' = ToBool(0)
  /\ path' = Append(path, "nothing")
  /\ UNCHANGED bank

Step == Len(path) < MaxCrossings /\ (MoveNothing \/ \E thing \in Things : Move(thing))

\* main: s1 to s7.
Solution == <<"goat", "nothing", "wolf", "goat", "cabbage", "nothing", "goat">>

Ended == Goal \/ Len(path) = MaxCrossings

-----------------------------------------------------------------------------
\* Whatever is instantiated, nobody is eaten: neither where the farmer comes from nor where
\* he has been before. The templates accept each move of main's solution, and it ends at
\* the goal, as no shorter way does.
CrossedSafely ==
  /\ ~Eats(bank, right)
  /\ Len(path) < Len(Solution) /\ path = SubSeq(Solution, 1, Len(path)) =>
       LET next == Solution[Len(path) + 1]
       IN IF next = "nothing" THEN CanMoveNothing ELSE CanMove(next)
  /\ path = Solution => Goal
  /\ Goal => Len(path) >= Len(Solution)
=============================================================================
