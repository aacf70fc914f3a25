------------------------ MODULE OptimalActionProofs ------------------------
(***************************************************************************)
(* Theorems about OptimalAction, for every number of players, every choice *)
(* of players who always hit and every depth.                              *)
(***************************************************************************)
EXTENDS OptimalAction, FiniteSetTheorems, TLAPS

\* The inductive invariant: what the living learn is sound as long as the classes are
\* those of the setting.
Inv == TypeOK /\ LiveRowsSound /\ LivingAimWell

\* The targets a living player may choose, Nobody among them.
Choices(p, s) == (s \ {p}) \cup {Nobody}

\* What LiveRowsSound says of one row.
SoundRow(softmax, row, choices) ==
  \A t \in Targets :
    /\ Proportions(softmax, row)[t] # "NaN"
    /\ Proportions(softmax, row)[t] = "positive" <=> t \in choices

ClassesOf(softmax) ==
  IF softmax THEN {"finite", "-inf", "NaN"} ELSE {"positive", "zero", "NaN"}

-----------------------------------------------------------------------------
\* The players.

LEMMA NobodyIsNoPlayer == Nobody \in Targets /\ Nobody \notin Players
BY OptimalActionAssumption DEF Nobody, Targets, Players

LEMMA SeveralPlayers == IsFiniteSet(Players) /\ Cardinality(Players) > 1 /\ 0 \in Players
BY OptimalActionAssumption, FS_Interval DEF Players

\* One shot leaves somebody alive.
LEMMA SomebodySurvives ==
  ASSUME NEW s \in SUBSET Players, Cardinality(s) > 1, NEW x
  PROVE  Cardinality(s) \in Nat /\ Cardinality(s \ {x}) \in Nat \ {0}
<1>1. IsFiniteSet(s)
  BY SeveralPlayers, FS_Subset
<1>2. Cardinality(s) \in Nat /\ Cardinality(s \ {x}) \in Nat
  BY <1>1, FS_CardinalityType, FS_RemoveElement
<1>3. Cardinality(s \ {x}) = IF x \in s THEN Cardinality(s) - 1 ELSE Cardinality(s)
  BY <1>1, FS_RemoveElement
<1> QED BY <1>2, <1>3

-----------------------------------------------------------------------------
\* Rows: what the formulas do to the classes.

LEMMA ChoosableIsChoice ==
  ASSUME NEW s \in SUBSET Players, NEW p \in s, NEW t \in Targets
  PROVE  Choosable(p, s, t) <=> t \in Choices(p, s)
BY NobodyIsNoPlayer DEF Choosable, Choices

\* Initial rows are of the setting's classes.
LEMMA InitialType ==
  ASSUME NEW softmax \in BOOLEAN, NEW p, NEW s
  PROVE  Initial(softmax, p, s) \in [Targets -> ClassesOf(softmax)]
<1>1. CASE softmax
  BY <1>1 DEF Initial, Normalized, ClassesOf
<1>2. CASE ~softmax
  BY <1>2 DEF Initial, ClassesOf
<1> QED BY <1>1, <1>2

\* The initial rows of the living are sound.
LEMMA InitialSound ==
  ASSUME NEW softmax \in BOOLEAN, NEW s \in SUBSET Players, NEW p \in s
  PROVE  SoundRow(softmax, Initial(softmax, p, s), Choices(p, s))
<1> DEFINE logs == [t \in Targets |-> IF Choosable(p, s, t) THEN "finite" ELSE "-inf"]
<1>1. CASE softmax
  <2>1. logs[Nobody] = "finite"
    BY NobodyIsNoPlayer, ChoosableIsChoice DEF Choices
  <2>2. Initial(softmax, p, s) = logs
    BY <1>1, <2>1, NobodyIsNoPlayer DEF Initial, Normalized
  <2>3. \A t \in Targets :
          Proportions(softmax, logs)[t] = IF Choosable(p, s, t) THEN "positive" ELSE "zero"
    BY <1>1 DEF Proportions
  <2> QED BY <2>2, <2>3, ChoosableIsChoice DEF SoundRow
<1>2. CASE ~softmax
  <2> DEFINE linear ==
        [t \in Targets |-> IF Choosable(p, s, t) THEN "positive" ELSE "zero"]
  <2>1. Initial(softmax, p, s) = linear
    BY <1>2 DEF Initial
  <2>2. \A t \in Targets : Proportions(softmax, linear)[t] = linear[t]
    BY <1>2 DEF Proportions
  <2> QED BY <2>1, <2>2, ChoosableIsChoice DEF SoundRow
<1> QED BY <1>1, <1>2

\* Learning keeps the classes of the setting.
LEMMA LearnedType ==
  ASSUME NEW ts
  PROVE  /\ \A row \in [Targets -> ClassesOf(TRUE)] :
              LearnedSoftmax(row, ts) \in [Targets -> ClassesOf(TRUE)]
         /\ \A row \in [Targets -> ClassesOf(FALSE)] :
              LearnedLinear(row, ts) \in [Targets -> ClassesOf(FALSE)]
BY DEF LearnedSoftmax, LearnedLinear, Normalized, ClassesOf

\* Learning leaves a sound row as it is: its sum is positive, and its maximum finite.
LEMMA LearnedSoftmaxSound ==
  ASSUME NEW ts, NEW row \in [Targets -> ClassesOf(TRUE)], NEW p, NEW s,
         SoundRow(TRUE, row, Choices(p, s))
  PROVE  LearnedSoftmax(row, ts) = row
<1>1. \A t \in Targets : Proportions(TRUE, row)[t] # "NaN"
  BY DEF SoundRow
<1>2. \A t \in Targets : row[t] # "NaN"
  BY <1>1, NobodyIsNoPlayer DEF Proportions
<1>3. row[Nobody] = "finite"
  <2>1. Proportions(TRUE, row)[Nobody] = "positive"
    BY NobodyIsNoPlayer DEF SoundRow, Choices
  <2> QED BY <1>2, <2>1, NobodyIsNoPlayer DEF Proportions, ClassesOf
<1> DEFINE kept == [t \in Targets |->
      IF t \in ts /\ Proportions(TRUE, row)[t] = "NaN" THEN "NaN" ELSE row[t]]
<1>4. kept = row
  BY <1>1
<1>5. Normalized(row) = row
  BY <1>3, NobodyIsNoPlayer DEF Normalized
<1> QED BY <1>4, <1>5 DEF LearnedSoftmax

LEMMA LearnedLinearSound ==
  ASSUME NEW ts, NEW row \in [Targets -> ClassesOf(FALSE)], NEW p, NEW s,
         SoundRow(FALSE, row, Choices(p, s))
  PROVE  LearnedLinear(row, ts) = row
<1>1. \A t \in Targets : Proportions(FALSE, row)[t] = row[t]
  BY DEF Proportions
<1>2. row[Nobody] = "positive" /\ \A t \in Targets : row[t] # "NaN"
  BY <1>1, NobodyIsNoPlayer DEF SoundRow, Choices
<1> QED BY <1>2, NobodyIsNoPlayer DEF LearnedLinear

\* A sound row is aimed by at its choices.
LEMMA SoundReached ==
  ASSUME NEW softmax \in BOOLEAN, NEW row \in [Targets -> ClassesOf(softmax)],
         NEW p, NEW s, SoundRow(softmax, row, Choices(p, s))
  PROVE  Reached(Proportions(softmax, row)) \subseteq Choices(p, s)
<1>1. \A t \in Targets : Proportions(softmax, row)[t] \in {"positive", "zero", "NaN"}
  BY DEF Proportions, ClassesOf
<1>2. \A t \in Targets : Proportions(softmax, row)[t] # "zero" => t \in Choices(p, s)
  BY <1>1 DEF SoundRow
<1>3. Nobody \in Choices(p, s)
  BY DEF Choices
<1> QED BY <1>2, <1>3 DEF Reached

\* Exploring reaches the choices of a living player.
LEMMA ExploredReached ==
  ASSUME survivors \in SUBSET Players, player \in survivors
  PROVE  Reached(Explored) \subseteq Choices(player, survivors)
<1>1. \A t \in Targets : Explored[t] # "zero" => t \in Choices(player, survivors)
  BY ChoosableIsChoice DEF Explored
<1>2. Nobody \in Choices(player, survivors)
  BY DEF Choices
<1> QED BY <1>1, <1>2 DEF Reached

LEMMA ReachedAreTargets == ASSUME NEW f PROVE Reached(f) \subseteq Targets
BY NobodyIsNoPlayer DEF Reached

-----------------------------------------------------------------------------
\* The invariant.

\* LiveRowsSound and the types of the rows, row by row.
LEMMA RowByRow ==
  /\ LiveRowsSound <=> \A s \in States : \A p \in s :
       SoundRow(useSoftmax, value[p][s], Choices(p, s))
  /\ Classes = ClassesOf(useSoftmax)
<1>1. \A s \in States : \A p \in s : p \in Players
  BY DEF States
<1> QED BY <1>1 DEF LiveRowsSound, SoundRow, Choices, Classes, ClassesOf, States

\* Learning keeps all rows of all players within their classes, and the rows of the
\* living sound.
LEMMA BackpropagatedSound ==
  ASSUME Inv
  PROVE  /\ Backpropagated \in [Players -> [States -> [Targets -> Classes]]]
         /\ \A s \in States : \A p \in s :
              SoundRow(useSoftmax, Backpropagated[p][s], Choices(p, s))
<1> USE DEF Inv
<1> DEFINE ts(p, s) == {t \in Targets : <<p, s, t>> \in chain}
<1>1. useSoftmax \in BOOLEAN /\ Classes = ClassesOf(useSoftmax)
  BY RowByRow DEF TypeOK
<1>2. ASSUME NEW p \in Players, NEW s \in States
      PROVE  /\ value[p][s] \in [Targets -> ClassesOf(useSoftmax)]
             /\ Backpropagated[p][s] =
                  IF ts(p, s) = {} THEN value[p][s]
                  ELSE IF useSoftmax THEN LearnedSoftmax(value[p][s], ts(p, s))
                                     ELSE LearnedLinear(value[p][s], ts(p, s))
  <2>1. value[p][s] \in [Targets -> ClassesOf(useSoftmax)]
    BY <1>1 DEF TypeOK
  <2> QED BY <1>1, <2>1 DEF Backpropagated
<1>3. ASSUME NEW p \in Players, NEW s \in States
      PROVE  Backpropagated[p][s] \in [Targets -> ClassesOf(useSoftmax)]
  <2> HIDE DEF ts
  <2>1. CASE ts(p, s) = {}
    BY <1>2, <2>1
  <2>2. CASE ts(p, s) # {} /\ useSoftmax = TRUE
    <3>1. Backpropagated[p][s] = LearnedSoftmax(value[p][s], ts(p, s))
      BY <1>2, <2>2
    <3>2. value[p][s] \in [Targets -> ClassesOf(TRUE)]
      BY <1>2, <2>2
    <3> QED BY <2>2, <3>1, <3>2, LearnedType
  <2>3. CASE ts(p, s) # {} /\ useSoftmax = FALSE
    <3>1. Backpropagated[p][s] = LearnedLinear(value[p][s], ts(p, s))
      BY <1>2, <2>3
    <3>2. value[p][s] \in [Targets -> ClassesOf(FALSE)]
      BY <1>2, <2>3
    <3> QED BY <2>3, <3>1, <3>2, LearnedType
  <2> QED BY <1>1, <2>1, <2>2, <2>3
<1>4. Backpropagated \in [Players -> [States -> [Targets -> Classes]]]
  BY <1>1, <1>3 DEF Backpropagated
<1>5. ASSUME NEW s \in States, NEW p \in s
      PROVE  SoundRow(useSoftmax, Backpropagated[p][s], Choices(p, s))
  <2> HIDE DEF ts
  <2>1. p \in Players /\ SoundRow(useSoftmax, value[p][s], Choices(p, s))
    BY RowByRow DEF States
  <2>2. Backpropagated[p][s] = value[p][s]
    <3>1. CASE useSoftmax = TRUE
      BY <1>2, <2>1, <3>1, LearnedSoftmaxSound
    <3>2. CASE useSoftmax = FALSE
      BY <1>2, <2>1, <3>2, LearnedLinearSound
    <3> QED BY <1>1, <3>1, <3>2
  <2> QED BY <2>1, <2>2
<1> QED BY <1>4, <1>5

LEMMA InvInit == Init => Inv
<1> SUFFICES ASSUME Init PROVE Inv
  OBVIOUS
<1>1. useSoftmax \in BOOLEAN /\ Classes = ClassesOf(useSoftmax)
  BY RowByRow DEF Init
<1>2. value \in [Players -> [States -> [Targets -> Classes]]]
  BY <1>1, InitialType DEF Init
<1>3. LiveRowsSound
  <2>1. ASSUME NEW s \in States, NEW p \in s
        PROVE  SoundRow(useSoftmax, value[p][s], Choices(p, s))
    <3>1. p \in Players /\ value[p][s] = Initial(useSoftmax, p, s)
      BY DEF Init, States
    <3> QED BY <1>1, <3>1, InitialSound DEF States
  <2> QED BY <2>1, RowByRow
<1>4. TypeOK
  BY <1>1, <1>2, SeveralPlayers, NobodyIsNoPlayer, OptimalActionAssumption
  DEF TypeOK, Init
<1> QED BY <1>3, <1>4 DEF Inv, LivingAimWell, Init

\* Somebody takes aim.
LEMMA AimStep == ASSUME Inv, Aim PROVE Inv'
<1> USE DEF Inv
<1>1. /\ target' \in Reached(Explored)
                       \cup Reached(Proportions(useSoftmax, value[player][survivors]))
      /\ chain' = chain \cup {<<player, survivors, target'>>}
      /\ pc' = "shoot"
      /\ UNCHANGED <<useSoftmax, value, survivors, player, depth>>
  BY DEF Aim
<1>2. target' \in Targets
  BY <1>1, ReachedAreTargets
<1>3. survivors \in States /\ player \in Players
  BY DEF TypeOK, States
<1>4. Classes' = Classes
  BY <1>1 DEF Classes
<1>5. TypeOK'
  <2>1. chain' \subseteq Players \X States \X Targets
    BY <1>1, <1>2, <1>3 DEF TypeOK
  <2> QED BY <1>1, <1>2, <1>4, <2>1 DEF TypeOK
<1>6. LiveRowsSound'
  BY <1>1 DEF LiveRowsSound
<1>7. LivingAimWell'
  <2> SUFFICES ASSUME player \in survivors PROVE target' \in Choices(player, survivors)
    BY <1>1 DEF LivingAimWell, Choices
  <2>1. Reached(Explored) \subseteq Choices(player, survivors)
    BY <1>3, ExploredReached DEF States
  <2>2. Reached(Proportions(useSoftmax, value[player][survivors]))
          \subseteq Choices(player, survivors)
    <3>1. SoundRow(useSoftmax, value[player][survivors], Choices(player, survivors))
      BY <1>3, RowByRow
    <3>2. /\ useSoftmax \in BOOLEAN
          /\ value[player][survivors] \in [Targets -> ClassesOf(useSoftmax)]
      BY <1>3, RowByRow DEF TypeOK
    <3> QED BY <3>1, <3>2, SoundReached
  <2> QED BY <1>1, <2>1, <2>2
<1> QED BY <1>5, <1>6, <1>7

\* The shot ends the round, is the last of a round that is given up, or passes the turn.
LEMMA ShootStep == ASSUME Inv, Shoot PROVE Inv'
<1> USE DEF Inv
<1>1. PICK alive \in Outcomes : EndRound(alive) \/ GiveUp(alive) \/ PassTurn(alive)
  BY DEF Shoot
<1>2. useSoftmax' = useSoftmax /\ Classes' = Classes
  BY DEF Shoot, Classes
<1>3. pc' = "aim" /\ target' = Nobody
  BY <1>1 DEF EndRound, GiveUp, PassTurn, NewRound
<1>4. /\ value' \in [Players -> [States -> [Targets -> Classes]]]
      /\ LiveRowsSound'
  <2>1. CASE EndRound(alive)
    <3>1. value' = Backpropagated
      BY <2>1 DEF EndRound
    <3>2. \A s \in States : \A p \in s :
            SoundRow(useSoftmax, value'[p][s], Choices(p, s))
      BY <3>1, BackpropagatedSound
    <3>3. \A s \in States : \A p \in s : p \in Players
      BY DEF States
    <3>4. LiveRowsSound'
      BY <1>2, <3>2, <3>3 DEF LiveRowsSound, SoundRow, Choices, States
    <3> QED BY <3>1, <3>4, BackpropagatedSound
  <2>2. CASE GiveUp(alive) \/ PassTurn(alive)
    <3>1. value' = value
      BY <2>2 DEF GiveUp, PassTurn
    <3> QED BY <1>2, <3>1 DEF LiveRowsSound, TypeOK
  <2> QED BY <1>1, <2>1, <2>2
<1>5. /\ survivors' \subseteq Players /\ Cardinality(survivors') > 1
      /\ player' \in Players
      /\ depth' \in 0..(MaxDepth - 1)
      /\ chain' \subseteq Players \X States \X Targets
  <2>1. CASE EndRound(alive) \/ GiveUp(alive)
    <3>1. survivors' = Players /\ player' = 0 /\ depth' = 0 /\ chain' = {}
      BY <2>1 DEF EndRound, GiveUp, NewRound
    <3> QED BY <3>1, SeveralPlayers, OptimalActionAssumption
  <2>2. CASE PassTurn(alive)
    <3>1. /\ Cardinality(alive) # 1 /\ survivors' = alive /\ chain' = chain
          /\ player' = (player + 1) % NPlayers
          /\ depth' = depth + 1 /\ ~(depth + 1 >= MaxDepth)
      BY <2>2 DEF PassTurn, NextDepth, TooDeep
    <3>2. survivors \in SUBSET Players /\ Cardinality(survivors) > 1
      BY DEF TypeOK
    <3>3. alive = survivors \/ alive = survivors \ {target}
      BY DEF Outcomes
    <3>4. alive \subseteq Players /\ Cardinality(alive) > 1
      <4>1. /\ Cardinality(survivors) \in Nat
            /\ Cardinality(survivors \ {target}) \in Nat \ {0}
        BY <3>2, SomebodySurvives
      <4>2. CASE alive = survivors
        BY <3>2, <4>2
      <4>3. CASE alive = survivors \ {target}
        <5>1. Cardinality(alive) \in Nat \ {0} /\ Cardinality(alive) # 1
          BY <3>1, <4>1, <4>3
        <5> QED BY <3>2, <4>3, <5>1
      <4> QED BY <3>3, <4>2, <4>3
    <3>5. player' \in Players
      <4>1. player + 1 \in Nat /\ NPlayers \in Nat \ {0}
        BY OptimalActionAssumption DEF TypeOK, Players
      <4>2. (player + 1) % NPlayers \in 0..(NPlayers - 1)
        BY <4>1
      <4> QED BY <3>1, <4>2 DEF Players
    <3>6. depth' \in 0..(MaxDepth - 1)
      BY <3>1, OptimalActionAssumption DEF TypeOK
    <3> QED BY <3>1, <3>4, <3>5, <3>6 DEF TypeOK
  <2> QED BY <1>1, <2>1, <2>2
<1>6. TypeOK'
  BY <1>2, <1>3, <1>4, <1>5, NobodyIsNoPlayer DEF TypeOK
<1> QED BY <1>3, <1>4, <1>6 DEF LivingAimWell

LEMMA InvStep == Inv /\ [Next]_vars => Inv'
<1> SUFFICES ASSUME Inv, [Next]_vars PROVE Inv'
  OBVIOUS
<1>1. CASE Aim
  BY <1>1, AimStep
<1>2. CASE Shoot
  BY <1>2, ShootStep
<1>3. CASE UNCHANGED vars
  BY <1>3 DEF vars, round, Inv, TypeOK, LiveRowsSound, LivingAimWell, Classes
<1> QED BY <1>1, <1>2, <1>3 DEF Next

LEMMA Invariance == Spec => []Inv
BY InvInit, InvStep, PTL DEF Spec

-----------------------------------------------------------------------------
\* Results

\* Whatever is learned, values stay within the classes of the setting, rounds within
\* MAX_DEPTH, and at least two players are alive while a round goes on.
THEOREM TypeCorrect == Spec => []TypeOK
<1>1. Inv => TypeOK
  BY DEF Inv
<1> QED BY <1>1, Invariance, PTL

\* backpropagate keeps every row of a living player a distribution over those he may
\* shoot, although the rows of the dead turn into NaN.
THEOREM LearningStaysSound == Spec => []LiveRowsSound
<1>1. Inv => LiveRowsSound
  BY DEF Inv
<1> QED BY <1>1, Invariance, PTL

\* getActionResult never makes a living player aim at himself or at a dead one.
THEOREM LivingNeverMisaim == Spec => []LivingAimWell
<1>1. Inv => LivingAimWell
  BY DEF Inv
<1> QED BY <1>1, Invariance, PTL
=============================================================================
