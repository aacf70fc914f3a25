--------------------------- MODULE OptimalAction ---------------------------
(***************************************************************************)
(* optimal_action/optimal_action.cpp: three players shoot in turns until   *)
(* one is left, and learn from every round how to choose a target from the *)
(* set of survivors.                                                       *)
(*                                                                         *)
(* The learned doubles are abstracted to their class, which is what the    *)
(* choice of a target turns on: with the linear values zero or positive,   *)
(* with softmax (logarithms) minus infinity or finite, and with both not a *)
(* number. The learning rate lies between 0 and 1, so that learning takes  *)
(* a positive value to a positive one. A random number below a positive    *)
(* proportion may or may not come; a proportion of zero is never hit.      *)
(***************************************************************************)
EXTENDS Integers, FiniteSets

CONSTANTS
  NPlayers, \* N_PLAYERS; the program has 3
  SureShot, \* the players whose HIT_RATE is 1; in the program player 2
  MaxDepth  \* MAX_DEPTH: a round is given up after so many shots; the program has 15

ASSUME OptimalActionAssumption ==
  /\ NPlayers \in Nat /\ NPlayers >= 2
  /\ SureShot \subseteq 0..(NPlayers - 1)
  /\ MaxDepth \in Nat \ {0}

Players == 0..(NPlayers - 1)
Nobody == NPlayers
Targets == Players \cup {Nobody} \* N_ACTIONS
States == SUBSET Players         \* the bitmap of a State

VARIABLES
  useSoftmax, \* the setting
  value,      \* value_: player -> state -> target -> class
  survivors,  \* the players alive in this round
  player,     \* whose turn it is
  depth,      \* how many shots this round has had
  chain,      \* actionChain, as a set of <<player, state, target>>
  target,     \* whom the player aims at
  pc          \* "aim" or "shoot"

round == <<survivors, player, depth, chain>>
vars == <<useSoftmax, value, round, target, pc>>

-----------------------------------------------------------------------------
\* The classes of value_.

\* Mutated Choosable: a player may be told to shoot himself.
ChoosableIncludingSelf(p, s, t) == p \in s /\ (t \in s \/ t = Nobody)

\* A living player may shoot another living one or nobody.
Choosable(p, s, t) == p \in s /\ (t \in s \/ t = Nobody) /\ t # p

\* Mutated Normalized: the minimum is subtracted, an infinity from itself if there is one.
NormalizedByMinimum(row) ==
  [t \in Targets |-> IF row[t] = "-inf" THEN "NaN" ELSE row[t]]

\* normalizeSoftmaxProbabilities subtracts the maximum. std::max passes over NaN, and
\* if nothing finite is left, minus infinity minus itself is NaN.
Normalized(row) ==
  [t \in Targets |-> IF \E u \in Targets : row[u] = "finite" THEN row[t] ELSE "NaN"]

\* initialize
Initial(softmax, p, s) ==
  LET linear == [t \in Targets |-> IF Choosable(p, s, t) THEN "positive" ELSE "zero"]
      logs   == [t \in Targets |-> IF Choosable(p, s, t) THEN "finite" ELSE "-inf"]
  IN  IF softmax THEN Normalized(logs) ELSE linear

\* The proportions by which a row is chosen from. getSoftmaxProbabilities divides by
\* the sum of the exponentials, which is NaN if one of them is.
Proportions(softmax, row) ==
  [t \in Targets |->
    CASE \E u \in Targets : row[u] = "NaN" /\ softmax -> "NaN"
      [] softmax /\ row[t] = "finite" -> "positive"
      [] softmax /\ row[t] = "-inf" -> "zero"
      [] OTHER -> row[t]]

\* backpropagate, linear: every value is divided by the sum of the row, and zero by
\* zero is NaN.
LearnedLinear(row, ts) ==
  IF \E t \in Targets : row[t] = "positive" /\ \A u \in Targets : row[u] # "NaN"
    THEN row
    ELSE [t \in Targets |-> "NaN"]

\* backpropagate, softmax: the difference taken from the targets is NaN if a
\* proportion is.
LearnedSoftmax(row, ts) ==
  Normalized([t \in Targets |->
    IF t \in ts /\ Proportions(TRUE, row)[t] = "NaN" THEN "NaN" ELSE row[t]])

\* value_ after the chain of a finished round. What an action does to the classes of
\* its row is the same however often and in whichever order it comes.
Backpropagated ==
  [p \in Players |-> [s \in States |->
    LET ts == {t \in Targets : <<p, s, t>> \in chain}
    IN  CASE ts = {} -> value[p][s]
          [] ts # {} /\ useSoftmax -> LearnedSoftmax(value[p][s], ts)
          [] ts # {} /\ ~useSoftmax -> LearnedLinear(value[p][s], ts)]]

-----------------------------------------------------------------------------
\* One shot: aimAndShoot.

\* exec starts with everybody alive and player 0.
NewRound ==
  /\ survivors' = Players /\ player' = 0 /\ depth' = 0 /\ chain' = {}
  /\ target' = Nobody /\ pc' = "aim"

Init ==
  /\ useSoftmax \in BOOLEAN
  /\ value = [p \in Players |-> [s \in States |-> Initial(useSoftmax, p, s)]]
  /\ survivors = Players /\ player = 0 /\ depth = 0 /\ chain = {}
  /\ target = Nobody /\ pc = "aim"

\* Walk through the proportions until the random number is used up: NaN ends the walk
\* where it stands, as NaN is not >= 0, and its end is the last target.
Reached(proportions) ==
  LET stops == {t \in Targets : /\ proportions[t] # "zero"
                                /\ \A u \in Targets : u < t => proportions[u] # "NaN"}
  IN  IF stops = {} THEN {Nobody} ELSE stops

\* getProportions: with some probability the targets are explored evenly.
Explored ==
  [t \in Targets |-> IF Choosable(player, survivors, t) THEN "positive" ELSE "zero"]

Aim ==
  /\ pc = "aim"
  /\ target' \in Reached(Explored)
                   \cup Reached(Proportions(useSoftmax, value[player][survivors]))
  /\ chain' = chain \cup {<<player, survivors, target'>>}
  /\ pc' = "shoot"
  /\ UNCHANGED <<useSoftmax, value, survivors, player, depth>>

\* The survivors after the shot, hit or missed.
Outcomes ==
  {survivors \ {target}}
    \cup (IF target = Nobody \/ player \in SureShot THEN {} ELSE {survivors})

\* Mutated NextDepth: the shots are not counted.
SameDepth(d) == d

NextDepth(d) == d + 1

\* Mutated TooDeep: one shot more than MAX_DEPTH is let through.
TooDeepByOne(d) == d > MaxDepth

TooDeep(d) == d >= MaxDepth

\* One survivor ends the round, and everybody who has shot learns from it.
EndRound(alive) ==
  /\ Cardinality(alive) = 1
  /\ value' = Backpropagated
  /\ NewRound

\* A round that takes too long is dropped.
GiveUp(alive) ==
  /\ Cardinality(alive) # 1 /\ TooDeep(NextDepth(depth))
  /\ NewRound
  /\ UNCHANGED value

\* The turn passes to the next player, dead or alive.
PassTurn(alive) ==
  /\ Cardinality(alive) # 1 /\ ~TooDeep(NextDepth(depth))
  /\ survivors' = alive
  /\ player' = (player + 1) % NPlayers
  /\ depth' = NextDepth(depth)
  /\ target' = Nobody /\ pc' = "aim"
  /\ UNCHANGED <<value, chain>>

Shoot ==
  /\ pc = "shoot"
  /\ \E alive \in Outcomes : EndRound(alive) \/ GiveUp(alive) \/ PassTurn(alive)
  /\ UNCHANGED useSoftmax

Next == Aim \/ Shoot

Spec == Init /\ [][Next]_vars
FairSpec == Spec /\ WF_vars(Next) \* a single thread that runs on

-----------------------------------------------------------------------------
\* Properties

Classes == IF useSoftmax THEN {"finite", "-inf", "NaN"} ELSE {"positive", "zero", "NaN"}

\* Every variable stays within its type, and a round within its depth.
TypeOK ==
  /\ useSoftmax \in BOOLEAN
  /\ value \in [Players -> [States -> [Targets -> Classes]]]
  /\ survivors \subseteq Players /\ Cardinality(survivors) > 1
  /\ player \in Players
  /\ depth \in 0..(MaxDepth - 1)
  /\ chain \subseteq Players \X States \X Targets
  /\ target \in Targets
  /\ pc \in {"aim", "shoot"}

\* What a living player learns stays a distribution over the targets he may choose:
\* the NaNs in the rows of the dead never reach a row of the living, and no target is
\* lost or gained.
LiveRowsSound ==
  \A p \in Players : \A s \in States : p \in s =>
    \A t \in Targets :
      /\ Proportions(useSoftmax, value[p][s])[t] # "NaN"
      /\ Proportions(useSoftmax, value[p][s])[t] = "positive" <=>
           t \in (s \ {p}) \cup {Nobody}

\* A living player shoots at another living one or at nobody, and never at himself
\* (the comment in initialize).
LivingAimWell ==
  pc = "shoot" /\ player \in survivors =>
    target \in (survivors \ {player}) \cup {Nobody}

\* Round after round comes to its end and the next one starts with nothing to learn
\* from, even if nobody ever shoots anybody.
RoundsEnd == []<>(chain = {})

\* The dead do not shoot: in the transition matrices of optimal_action.py the turn of
\* a dead player changes nothing. It fails, as the row of a dead player is NaN.
DeadDoNotShoot == pc = "shoot" /\ player \notin survivors => target = Nobody
=============================================================================
