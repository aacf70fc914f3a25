--------------------------- MODULE Connect4Proofs ---------------------------
(***************************************************************************)
(* Theorems about Connect4, for every size of the board, of its margins    *)
(* and of a line.                                                          *)
(***************************************************************************)
EXTENDS Connect4, BoardProofs

\* The inductive invariant: the merged board follows the boards of the players only
\* because each of them is exact by itself.
Inv == Exact(stage) /\ result \in {"Start", "Invalid", "Won", "Draw", "Placed"}

LEMMA InvInit == Init => Inv
BY InitialExact DEF Init, Inv

\* A legal move keeps the invariant.
LEMMA LegalStep ==
  ASSUME Inv, NEW a, AdvanceLegal(a)
  PROVE  Inv'
<1>1. Exact(stage') /\ result' = ResultOf(stage, a)
  BY AfterExact DEF AdvanceLegal, Inv
<1>2. ResultOf(stage, a) \in {"Won", "Draw", "Placed"}
  BY DEF ResultOf
<1> QED BY <1>1, <1>2 DEF Inv

LEMMA InvStep == Inv /\ [Next]_vars => Inv'
<1> SUFFICES ASSUME Inv, [Next]_vars PROVE Inv'
  OBVIOUS
<1>1. ASSUME UNCHANGED stage, result' \in {result, "Draw", "Invalid"} PROVE Inv'
  BY <1>1 DEF Inv
<1>2. CASE AdvanceFull
  BY <1>1, <1>2 DEF AdvanceFull
<1>3. CASE AdvanceInvalid
  BY <1>1, <1>3 DEF AdvanceInvalid
<1>4. ASSUME NEW a \in Inputs, AdvanceLegal(a) PROVE Inv'
  BY <1>4, LegalStep
<1>5. CASE UNCHANGED vars
  BY <1>1, <1>5 DEF vars
<1> QED BY <1>2, <1>3, <1>4, <1>5 DEF Next, Over

LEMMA Invariance == Spec => []Inv
BY InvInit, InvStep, PTL DEF Spec

-----------------------------------------------------------------------------
\* What follows from the invariant.

\* Whatever is entered, all stones and keys belong to cells within the mask: the margins
\* of the bitboards stay empty.
THEOREM TypeCorrect == Spec => []TypeOK
<1>1. Inv => TypeOK
  BY DEF Inv, Exact, TypeOK
<1> QED BY <1>1, Invariance, PTL

\* The merged board that advance keeps by XOR is the union of the players' boards, and
\* its digest has the key of every stone once.
THEOREM MergedFollows == Spec => []MergedIsBoth
<1>1. ASSUME Inv PROVE MergedIsBoth
  <2>1. /\ \A p \in Players : Stones(p) \subseteq Mask
        /\ Stones(0) \cap Stones(1) = {}
        /\ stage.merged = Both(stage.boards)
    BY <1>1 DEF Inv, Exact, ExactBoards, Boards, Stones
  <2>2. KeysOf(0, Stones(0)) \cup KeysOf(1, Stones(1)) =
          {key \in Players \X Mask : key[2] \in Stones(key[1])}
    BY <2>1 DEF KeysOf, Players
  <2> QED BY <2>1, <2>2 DEF MergedIsBoth, Both, Stones
<1> QED BY <1>1, Invariance, PTL

\* A full board answers Draw to every move and stays as it is.
THEOREM FullStaysDrawn == Spec => FullBoardDraws
<1>1. ASSUME Inv, [Next]_vars, ~UNCHANGED vars, Full(stage.merged), Playing
      PROVE  result' = "Draw" /\ UNCHANGED stage
  <2>1. stage.merged.placed \subseteq Mask
    BY <1>1 DEF Inv, Exact, Stages, Boards
  <2>2. LegalActions(stage.merged) = {}
    BY <1>1, <2>1, FullBoardHasNoMove
  <2> QED BY <1>1, <2>2 DEF Next, AdvanceFull, AdvanceInvalid, AdvanceLegal, Over
<1>2. Inv /\ [Next]_vars =>
        [Full(stage.merged) /\ Playing => result' = "Draw" /\ UNCHANGED stage]_vars
  BY <1>1
<1> QED BY <1>2, Invariance, PTL DEF Spec, FullBoardDraws

-----------------------------------------------------------------------------
\* The grid of a stage.

\* The game as its rules see it, of any stage.
PileIn(s, column) == {i \in s.merged.placed : i \div FullHeight = column}
GridIn(s) ==
  [column \in 0..(ColumnSize - 1) |->
    [height \in 1..Cardinality(PileIn(s, column)) |->
      IF ToIndex(column, height - 1) \in s.boards[0].placed THEN 0 ELSE 1]]

\* A column of stacked stones has as many as its pile.
LEMMA PileHeight ==
  ASSUME NEW s, NEW tops, Stacked(s.merged.placed, tops), NEW x \in 0..(ColumnSize - 1)
  PROVE  Cardinality(PileIn(s, x)) = tops[x]
<1> DEFINE high == 0..(tops[x] - 1)
           f == [y \in high |-> ToIndex(x, y)]
           pile == PileIn(s, x)
<1>1. /\ MaxHeight \in Nat /\ ColumnSize \in Nat /\ FullHeight \in Nat /\ MaxHeight < FullHeight
      /\ tops[x] \in 0..MaxHeight
  BY BoardAssumption DEF Stacked
<1>2. ASSUME NEW u \in Nat, NEW y \in 0..(FullHeight - 1) PROVE ToIndex(u, y) \div FullHeight = u
  BY <1>1 DEF ToIndex
<1>3. ASSUME NEW y \in high PROVE ToIndex(x, y) \in pile
  <2>1. y \in 0..(MaxHeight - 1) /\ y < tops[x] /\ y \in 0..(FullHeight - 1) /\ x \in Nat
    BY <1>1
  <2>2. ToIndex(x, y) \in s.merged.placed
    BY <2>1 DEF Stacked
  <2>3. ToIndex(x, y) \div FullHeight = x
    BY <1>2, <2>1
  <2> QED BY <2>2, <2>3 DEF PileIn
<1>4. ASSUME NEW i \in pile PROVE \E y \in high : ToIndex(x, y) = i
  <2>1. i \in s.merged.placed /\ i \div FullHeight = x
    BY <1>4 DEF PileIn
  <2>2. PICK b \in Cells : i = ToIndex(b[1], b[2])
    BY <2>1 DEF Stacked, Mask
  <2>3. /\ b[1] \in 0..(ColumnSize - 1) /\ b[2] \in 0..(MaxHeight - 1)
        /\ b[1] \in Nat /\ b[2] \in 0..(FullHeight - 1)
    BY <1>1 DEF Cells
  <2>4. b[1] = x
    BY <1>2, <2>1, <2>2, <2>3
  <2>5. b[2] < tops[x]
    BY <2>1, <2>2, <2>3, <2>4 DEF Stacked
  <2> QED BY <1>1, <2>2, <2>3, <2>4, <2>5
<1>5. f \in Bijection(high, pile)
  <2>1. ASSUME NEW y \in high, NEW z \in high, f[y] = f[z] PROVE y = z
    <3>1. y \in 0..(FullHeight - 1) /\ z \in 0..(FullHeight - 1) /\ x \in Int
      BY <1>1
    <3> QED BY <2>1, <3>1, IndexUnique
  <2>2. f \in [high -> pile] /\ \A i \in pile : \E y \in high : f[y] = i
    BY <1>3, <1>4
  <2> QED BY <2>1, <2>2 DEF Bijection, Injection, Surjection, IsInjective
<1>6. IsFiniteSet(high) /\ Cardinality(high) = tops[x]
  <2> DEFINE m == tops[x] - 1
  <2>1. m \in Int /\ 0 \in Int /\ tops[x] = m + 1 /\ m >= -1
    BY <1>1
  <2>2. IsFiniteSet(0..m) /\ Cardinality(0..m) = IF 0 > m THEN 0 ELSE m - 0 + 1
    BY <2>1, FS_Interval
  <2> QED BY <2>1, <2>2
<1>7. ExistsBijection(high, pile)
  BY <1>5 DEF ExistsBijection
<1> HIDE DEF high, pile
<1>8. Cardinality(pile) = Cardinality(high)
  BY <1>6, <1>7, FS_Bijection
<1> QED BY <1>6, <1>8 DEF pile

\* So the grid has the stones of the players, column by column.
LEMMA GridStones ==
  ASSUME NEW s, Exact(s), NEW tops, Stacked(s.merged.placed, tops)
  PROVE  /\ DOMAIN GridIn(s) = 0..(ColumnSize - 1)
         /\ GridIn(s) = [x \in 0..(ColumnSize - 1) |-> GridIn(s)[x]]
         /\ \A x \in 0..(ColumnSize - 1) :
              /\ GridIn(s)[x] \in Seq(Players)
              /\ Len(GridIn(s)[x]) = tops[x]
              /\ \A h \in 1..tops[x], p \in Players :
                   GridIn(s)[x][h] = p <=> ToIndex(x, h - 1) \in s.boards[p].placed
<1>1. MaxHeight \in Nat /\ \A x \in 0..(ColumnSize - 1) : tops[x] \in 0..MaxHeight
  BY BoardAssumption DEF Stacked
<1>2. ASSUME NEW x \in 0..(ColumnSize - 1)
      PROVE  /\ GridIn(s)[x] = [h \in 1..tops[x] |->
                                 IF ToIndex(x, h - 1) \in s.boards[0].placed THEN 0 ELSE 1]
             /\ GridIn(s)[x] \in Seq(Players) /\ Len(GridIn(s)[x]) = tops[x]
  <2>1. GridIn(s)[x] = [h \in 1..tops[x] |->
                         IF ToIndex(x, h - 1) \in s.boards[0].placed THEN 0 ELSE 1]
    BY PileHeight DEF GridIn
  <2>2. GridIn(s)[x] \in [1..tops[x] -> Players]
    BY <2>1 DEF Players
  <2> DEFINE pile == GridIn(s)[x]
             n == tops[x]
  <2>3. n \in Nat /\ pile \in [1..n -> Players]
    BY <1>1, <2>2
  <2> HIDE DEF pile, n
  <2>4. pile \in Seq(Players) /\ Len(pile) = n
    BY <2>3
  <2> QED BY <2>1, <2>4 DEF pile, n
<1>3. ASSUME NEW x \in 0..(ColumnSize - 1), NEW h \in 1..tops[x], NEW p \in Players
      PROVE  GridIn(s)[x][h] = p <=> ToIndex(x, h - 1) \in s.boards[p].placed
  <2>1. GridIn(s)[x][h] = IF ToIndex(x, h - 1) \in s.boards[0].placed THEN 0 ELSE 1
    BY <1>2
  <2>2. h - 1 \in 0..(MaxHeight - 1) /\ h - 1 < tops[x]
    BY <1>1
  <2>3. ToIndex(x, h - 1) \in s.merged.placed
    BY <2>2 DEF Stacked
  <2>4. /\ s.merged.placed = s.boards[0].placed \cup s.boards[1].placed
        /\ s.boards[0].placed \cap s.boards[1].placed = {}
    BY DEF Exact, ExactBoards, Both
  <2> QED BY <2>1, <2>3, <2>4 DEF Players
<1> QED BY <1>2, <1>3 DEF GridIn

\* The height of a column of the grid.
LEMMA GridHeights ==
  ASSUME NEW s, Exact(s), NEW tops, Stacked(s.merged.placed, tops)
  PROVE  \A x \in 0..(ColumnSize - 1) : Len(GridIn(s)[x]) = tops[x]
BY GridStones

\* A player has a line on the grid just when check finds one among his stones.
LEMMA GridLine ==
  ASSUME NEW s, Exact(s), NEW tops, Stacked(s.merged.placed, tops), NEW p \in Players
  PROVE  Rules!Line(GridIn(s), p) <=> LineOf(s.boards[p].placed)
<1> DEFINE stones == s.boards[p].placed
           grid == GridIn(s)
           goes(x, h, dx, dy) == \A k \in 0..(MinLen - 1) :
                                   p \in Rules!Stone(grid, x + k * dx, h + k * dy)
<1>1. /\ MaxHeight \in Nat /\ ColumnSize \in Nat /\ MinLen \in Nat
      /\ \A x \in 0..(ColumnSize - 1) : tops[x] \in 0..MaxHeight
  BY BoardAssumption DEF Stacked
<1>2. ASSUME NEW x \in Int, NEW h \in Int
      PROVE  p \in Rules!Stone(grid, x, h) <=> StoneAt(stones, x, h - 1)
  <2>1. CASE x \in 0..(ColumnSize - 1)
    <3>1. Len(grid[x]) = tops[x]
      BY <2>1, GridStones
    <3>2. CASE h \in 1..tops[x]
      <4>1. p \in Rules!Stone(grid, x, h) <=> ToIndex(x, h - 1) \in stones
        BY <2>1, <3>1, <3>2, GridStones DEF Rules!Stone, Rules!Columns
      <4>2. <<x, h - 1>> \in Cells
        BY <1>1, <2>1, <3>2 DEF Cells
      <4> QED BY <4>1, <4>2 DEF StoneAt
    <3>3. CASE h \notin 1..tops[x]
      <4>1. p \notin Rules!Stone(grid, x, h)
        BY <3>1, <3>3 DEF Rules!Stone
      <4>2. ASSUME StoneAt(stones, x, h - 1) PROVE FALSE
        <5>1. h - 1 \in 0..(MaxHeight - 1) /\ ToIndex(x, h - 1) \in stones
          BY <4>2 DEF StoneAt, Cells
        <5>2. stones \subseteq s.merged.placed
          BY DEF Exact, Both, Players
        <5>3. h - 1 < tops[x]
          BY <2>1, <5>1, <5>2 DEF Stacked
        <5> QED BY <1>1, <2>1, <3>3, <5>1, <5>3
      <4> QED BY <4>1, <4>2
    <3> QED BY <3>2, <3>3
  <2>2. CASE x \notin 0..(ColumnSize - 1)
    BY <2>2 DEF Rules!Stone, Rules!Columns, StoneAt, Cells
  <2> QED BY <2>1, <2>2
<1>3. ASSUME NEW x \in Int, NEW h \in Int, NEW dx \in Int, NEW dy \in Int
      PROVE  goes(x, h, dx, dy) <=> LineFrom(stones, x, h - 1, dx, dy)
  <2>1. ASSUME NEW k \in 0..(MinLen - 1)
        PROVE  /\ x + k * dx \in Int /\ h + k * dy \in Int
               /\ (h + k * dy) - 1 = (h - 1) + k * dy
    <3>1. k * dx \in Int /\ k * dy \in Int
      BY <1>1
    <3> QED BY <3>1
  <2>2. \A k \in 0..(MinLen - 1) :
          p \in Rules!Stone(grid, x + k * dx, h + k * dy) <=>
            StoneAt(stones, x + k * dx, (h - 1) + k * dy)
    <3> TAKE k \in 0..(MinLen - 1)
    <3> DEFINE u == x + k * dx
               v == h + k * dy
    <3>1. u \in Int /\ v \in Int /\ v - 1 = (h - 1) + k * dy
      BY <2>1
    <3> HIDE DEF u, v, grid, stones
    <3>2. p \in Rules!Stone(grid, u, v) <=> StoneAt(stones, u, v - 1)
      BY <1>2, <3>1
    <3> QED BY <3>1, <3>2 DEF u, v
  <2> QED BY <2>2 DEF LineFrom
<1> HIDE DEF goes, grid, stones
<1>4. Rules!Line(grid, p) <=>
        \E x \in 0..(ColumnSize - 1), h \in 1..MaxHeight :
          goes(x, h, 0, 1) \/ goes(x, h, 1, 0) \/ goes(x, h, 1, 1) \/ goes(x, h, 1, -1)
  <2>1. ASSUME NEW x, NEW h
        PROVE  (\E d \in {<<0, 1>>, <<1, 0>>, <<1, 1>>, <<1, -1>>} :
                  \A k \in 0..(MinLen - 1) :
                    p \in Rules!Stone(grid, x + k * d[1], h + k * d[2]))
               <=> (goes(x, h, 0, 1) \/ goes(x, h, 1, 0) \/ goes(x, h, 1, 1) \/ goes(x, h, 1, -1))
    BY DEF goes
  <2> QED BY <2>1 DEF Rules!Line, Rules!Columns
<1>5. \A x \in 0..(ColumnSize - 1), h \in 1..MaxHeight :
        (goes(x, h, 0, 1) \/ goes(x, h, 1, 0) \/ goes(x, h, 1, 1) \/ goes(x, h, 1, -1))
        <=> LineAt(stones, x, h - 1)
  <2>1. 0 \in Int /\ 1 \in Int /\ -1 \in Int
    OBVIOUS
  <2>2. \A x \in 0..(ColumnSize - 1), h \in 1..MaxHeight : x \in Int /\ h \in Int
    BY <1>1
  <2> QED BY <1>3, <2>1, <2>2 DEF LineAt
<1>6. ASSUME NEW x \in 0..(ColumnSize - 1), NEW h \in 1..MaxHeight
      PROVE  <<x, h - 1>> \in Cells
  BY <1>1 DEF Cells
<1>7. ASSUME NEW b \in Cells
      PROVE  /\ b[1] \in 0..(ColumnSize - 1) /\ b[2] + 1 \in 1..MaxHeight
             /\ (b[2] + 1) - 1 = b[2]
  BY <1>1 DEF Cells
<1>8. Rules!Line(grid, p) <=> \E b \in Cells : LineAt(stones, b[1], b[2])
  <2>1. ASSUME NEW x \in 0..(ColumnSize - 1), NEW h \in 1..MaxHeight, LineAt(stones, x, h - 1)
        PROVE  \E b \in Cells : LineAt(stones, b[1], b[2])
    <3> DEFINE b == <<x, h - 1>>
    <3>1. b \in Cells /\ b[1] = x /\ b[2] = h - 1
      BY <1>6
    <3> QED BY <2>1, <3>1
  <2>2. ASSUME NEW b \in Cells, LineAt(stones, b[1], b[2])
        PROVE  \E x \in 0..(ColumnSize - 1), h \in 1..MaxHeight : LineAt(stones, x, h - 1)
    <3> DEFINE h == b[2] + 1
    <3>1. b[1] \in 0..(ColumnSize - 1) /\ h \in 1..MaxHeight /\ h - 1 = b[2]
      BY <1>7
    <3> HIDE DEF h
    <3> QED BY <2>2, <3>1
  <2> QED BY <1>4, <1>5, <2>1, <2>2
<1> QED BY <1>8, LineOfBegins DEF grid, stones

-----------------------------------------------------------------------------
\* What a move does to the grid.

\* A legal move drops a stone into its column of the grid.
LEMMA MoveDropsStone ==
  ASSUME NEW s, Exact(s), NEW tops, Stacked(s.merged.placed, tops),
         NEW a \in LegalActions(s.merged), NEW t, t = After(s, a)
  PROVE  /\ Exact(t) /\ Stacked(t.merged.placed, [tops EXCEPT ![a[1]] = @ + 1])
         /\ GridIn(t) = [GridIn(s) EXCEPT ![a[1]] = Append(@, s.player)]
<1> DEFINE x == a[1]
           y == a[2]
           me == s.player
           tops2 == [tops EXCEPT ![x] = @ + 1]
           old == GridIn(s)
           new == GridIn(t)
           columns == 0..(ColumnSize - 1)
<1>1. /\ \A p \in Players : t.boards[p].placed =
           IF p = me THEN s.boards[p].placed \cup {ToIndex(x, y)} ELSE s.boards[p].placed
      /\ t.merged.placed = s.merged.placed \cup {ToIndex(x, y)}
      /\ me \in Players
  BY AfterStones
<1>2. Exact(t)
  BY AfterExact
<1>3. /\ x \in columns /\ y \in 0..(MaxHeight - 1) /\ y = tops[x]
      /\ Stacked(t.merged.placed, tops2)
  <2>1. Stacked(s.merged.placed \cup {ToIndex(x, y)}, tops2)
    BY StoneOnTop
  <2>2. x \in columns /\ y \in 0..(MaxHeight - 1) /\ y = tops[x]
    BY StoneOnTop
  <2> QED BY <1>1, <2>1, <2>2
<1>4. /\ MaxHeight \in Nat /\ FullHeight \in Nat /\ MaxHeight < FullHeight /\ columns \subseteq Nat
      /\ tops \in [columns -> 0..MaxHeight]
  BY BoardAssumption DEF Stacked
<1>5. tops2[x] = tops[x] + 1 /\ \A u \in columns \ {x} : tops2[u] = tops[u]
  BY <1>3, <1>4
<1> HIDE DEF tops2, x, y
<1>6. /\ old = [u \in columns |-> old[u]] /\ new = [u \in columns |-> new[u]]
      /\ \A u \in columns :
           /\ old[u] \in Seq(Players) /\ Len(old[u]) = tops[u]
           /\ new[u] \in Seq(Players) /\ Len(new[u]) = tops2[u]
      /\ \A u \in columns, p \in Players :
           /\ \A h \in 1..tops[u] : old[u][h] = p <=> ToIndex(u, h - 1) \in s.boards[p].placed
           /\ \A h \in 1..tops2[u] : new[u][h] = p <=> ToIndex(u, h - 1) \in t.boards[p].placed
  <2> DEFINE shows(u, g, heights, r) == \A h \in 1..heights[u], p \in Players :
               g[u][h] = p <=> ToIndex(u, h - 1) \in r.boards[p].placed
  <2>1. /\ old = [u \in columns |-> old[u]]
        /\ \A u \in columns :
             old[u] \in Seq(Players) /\ Len(old[u]) = tops[u] /\ shows(u, old, tops, s)
    <3>1. Exact(s) /\ Stacked(s.merged.placed, tops)
      OBVIOUS
    <3>2. old = [u \in columns |-> old[u]]
      BY <3>1, GridStones
    <3>3. \A u \in columns : old[u] \in Seq(Players) /\ Len(old[u]) = tops[u]
      BY <3>1, GridStones
    <3>4. \A u \in columns : shows(u, old, tops, s)
      BY <3>1, GridStones
    <3> HIDE DEF shows, columns, old
    <3> QED BY <3>2, <3>3, <3>4
  <2>2. /\ new = [u \in columns |-> new[u]]
        /\ \A u \in columns :
             new[u] \in Seq(Players) /\ Len(new[u]) = tops2[u] /\ shows(u, new, tops2, t)
    BY <1>2, <1>3, GridStones
  <2> HIDE DEF old, new
  <2> QED BY <2>1, <2>2
<1> HIDE DEF old, new
<1>7. ASSUME NEW u \in columns, NEW h \in 1..tops[u] PROVE new[u][h] = old[u][h]
  <2>1. tops[u] \in 0..MaxHeight /\ h \in 1..tops2[u]
    BY <1>3, <1>4, <1>5
  <2>2. h - 1 \in 0..(FullHeight - 1) /\ u \in Int /\ x \in Int /\ y \in 0..(FullHeight - 1)
    BY <1>3, <1>4, <2>1
  <2>3. ToIndex(u, h - 1) # ToIndex(x, y)
    <3>1. SUFFICES ASSUME ToIndex(u, h - 1) = ToIndex(x, y) PROVE FALSE
      OBVIOUS
    <3>2. u = x /\ h - 1 = y
      BY <2>2, <3>1, IndexUnique
    <3> QED BY <1>3, <2>1, <3>2
  <2>4. \A p \in Players : ToIndex(u, h - 1) \in t.boards[p].placed <=>
                             ToIndex(u, h - 1) \in s.boards[p].placed
    <3> HIDE DEF me
    <3> QED BY <1>1, <2>3
  <2>5. old[u][h] \in Players
    BY <1>6
  <2>6. \A p \in Players : old[u][h] = p <=> new[u][h] = p
    BY <1>6, <2>1, <2>4
  <2> QED BY <2>5, <2>6
<1>8. ASSUME NEW u \in columns, u # x PROVE new[u] = old[u]
  <2>1. Len(new[u]) = Len(old[u]) /\ new[u] \in Seq(Players) /\ old[u] \in Seq(Players)
    BY <1>5, <1>6, <1>8
  <2>2. \A h \in 1..Len(old[u]) : new[u][h] = old[u][h]
    BY <1>6, <1>7
  <2> QED BY <2>1, <2>2
<1>9. new[x] = Append(old[x], me)
  <2> DEFINE l == old[x]
             m == new[x]
             n == tops[x]
  <2>1. /\ n \in Nat /\ l \in Seq(Players) /\ Len(l) = n /\ m \in Seq(Players) /\ Len(m) = n + 1
    BY <1>3, <1>4, <1>5, <1>6
  <2>2. \A h \in 1..n : m[h] = l[h]
    BY <1>3, <1>7
  <2>3. m[n + 1] = me
    <3>1. n + 1 \in 1..tops2[x] /\ (n + 1) - 1 = y
      BY <1>3, <1>5, <2>1
    <3>2. m[n + 1] = me <=> ToIndex(x, (n + 1) - 1) \in t.boards[me].placed
      <4> HIDE DEF me
      <4>1. n + 1 \in 1..tops2[x] /\ x \in columns /\ me \in Players
        BY <1>1, <1>3, <3>1
      <4> HIDE DEF n
      <4> QED BY <1>6, <4>1
    <3> QED BY <1>1, <3>1, <3>2
  <2> HIDE DEF l, m, n
  <2>4. Append(l, me) \in Seq(Players) /\ Len(Append(l, me)) = n + 1
        /\ Append(l, me)[n + 1] = me /\ \A h \in 1..n : Append(l, me)[h] = l[h]
    BY <1>1, <2>1
  <2>5. \A h \in 1..(n + 1) : m[h] = Append(l, me)[h]
    BY <2>1, <2>2, <2>3, <2>4
  <2>6. m = Append(l, me)
    BY <2>1, <2>4, <2>5
  <2> QED BY <2>6 DEF l, m
<1>10. new = [old EXCEPT ![x] = Append(@, me)]
  BY <1>6, <1>8, <1>9
<1> QED BY <1>2, <1>3, <1>10 DEF old, new, x, tops2

\* And the number of stones says whose turn is next.
LEMMA StonesCounted ==
  ASSUME NEW s, Exact(s), NEW tops, Stacked(s.merged.placed, tops),
         NEW a \in LegalActions(s.merged), NEW t, t = After(s, a)
  PROVE  /\ Cardinality(Rules!Occupied(GridIn(s))) \in Nat
         /\ Cardinality(Rules!Occupied(GridIn(t))) = Cardinality(Rules!Occupied(GridIn(s))) + 1
<1> DEFINE x == a[1]
           places == (0..(ColumnSize - 1)) \X (1..MaxHeight)
           old == Rules!Occupied(GridIn(s))
           new == Rules!Occupied(GridIn(t))
           stone == <<x, tops[x] + 1>>
           tops2 == [tops EXCEPT ![x] = @ + 1]
<1>1. /\ MaxHeight \in Nat /\ ColumnSize \in Nat /\ 1 \in Int /\ 0 \in Int
      /\ tops \in [0..(ColumnSize - 1) -> 0..MaxHeight]
  BY BoardAssumption DEF Stacked
<1>2. x \in 0..(ColumnSize - 1) /\ tops[x] \in 0..(MaxHeight - 1)
  BY StoneOnTop
<1>3. Exact(t) /\ Stacked(t.merged.placed, tops2)
  BY MoveDropsStone
<1>4. old = {b \in places : b[2] <= tops[b[1]]}
  <2>1. \A b \in places : Len(GridIn(s)[b[1]]) = tops[b[1]]
    BY GridStones
  <2> QED BY <2>1 DEF Rules!Occupied, Rules!Columns
<1>5. new = {b \in places : b[2] <= tops2[b[1]]}
  <2> HIDE DEF tops2
  <2>1. \A b \in places : Len(GridIn(t)[b[1]]) = tops2[b[1]]
    BY <1>3, GridStones
  <2> QED BY <2>1 DEF Rules!Occupied, Rules!Columns
<1>6. new = old \cup {stone} /\ stone \notin old
  <2>1. stone \in places /\ stone \notin old
    BY <1>1, <1>2, <1>4
  <2>2. ASSUME NEW b \in places PROVE b[2] <= tops2[b[1]] <=> b[2] <= tops[b[1]] \/ b = stone
    <3>1. /\ b = <<b[1], b[2]>> /\ b[1] \in 0..(ColumnSize - 1) /\ b[2] \in 1..MaxHeight
          /\ tops[b[1]] \in 0..MaxHeight
      BY <1>1
    <3>2. CASE b[1] = x
      <4>1. tops2[b[1]] = tops[x] + 1
        BY <1>1, <1>2, <3>2
      <4> QED BY <1>1, <1>2, <3>1, <3>2, <4>1
    <3>3. CASE b[1] # x
      <4>1. tops2[b[1]] = tops[b[1]]
        BY <1>1, <3>1, <3>3
      <4> QED BY <3>1, <3>3, <4>1
    <3> QED BY <3>2, <3>3
  <2> QED BY <1>4, <1>5, <2>1, <2>2
<1>7. IsFiniteSet(old) /\ Cardinality(old) \in Nat
  <2>1. IsFiniteSet(0..(ColumnSize - 1)) /\ IsFiniteSet(1..MaxHeight)
    BY <1>1, FS_Interval
  <2>2. IsFiniteSet(places)
    BY <2>1, FS_Product
  <2>3. old \subseteq places
    BY <1>4
  <2> HIDE DEF places, old
  <2> QED BY <2>2, <2>3, FS_Subset, FS_CardinalityType
<1> HIDE DEF old, new, stone
<1>8. Cardinality(new) = Cardinality(old) + 1
  BY <1>6, <1>7, FS_AddElement
<1> QED BY <1>7, <1>8 DEF old, new

\* advance answers what the rules do.
LEMMA AnswersAgree ==
  ASSUME NEW s, Exact(s), NEW tops, Stacked(s.merged.placed, tops),
         NEW a \in LegalActions(s.merged), NEW t, t = After(s, a),
         ~LineOf(s.boards[0].placed), ~LineOf(s.boards[1].placed)
  PROVE  /\ Rules!Won(GridIn(t)) <=> LineOf(t.boards[0].placed) \/ LineOf(t.boards[1].placed)
         /\ Rules!Won(GridIn(t)) <=> ResultOf(s, a) = "Won"
         /\ Rules!Full(GridIn(t)) <=> Full(t.merged)
         /\ ResultOf(s, a) = IF Rules!Won(GridIn(t)) THEN "Won"
                             ELSE IF Rules!Full(GridIn(t)) THEN "Draw" ELSE "Placed"
<1> DEFINE me == s.player
           tops2 == [tops EXCEPT ![a[1]] = @ + 1]
<1>1. /\ \A p \in Players : t.boards[p].placed =
           IF p = me THEN s.boards[p].placed \cup {ToIndex(a[1], a[2])} ELSE s.boards[p].placed
      /\ me \in Players
  <2>1. /\ me \in Players
        /\ \A p \in Players : After(s, a).boards[p].placed =
             IF p = me THEN s.boards[p].placed \cup {ToIndex(a[1], a[2])} ELSE s.boards[p].placed
    BY AfterStones
  <2> QED BY <2>1
<1>2. Exact(t) /\ Stacked(t.merged.placed, tops2)
  BY MoveDropsStone
<1> HIDE DEF tops2
<1>3. \A p \in Players : Rules!Line(GridIn(t), p) <=> LineOf(t.boards[p].placed)
  BY <1>2, GridLine
<1>4. LineOf(t.boards[me].placed) <=> Check(t.boards[me].placed, a[1], a[2])
  <2>1. <<a[1], a[2]>> \in Cells /\ ~LineOf(s.boards[me].placed)
    BY <1>1, StoneOnTop DEF Players
  <2>2. t.boards[me].placed = s.boards[me].placed \cup {ToIndex(a[1], a[2])}
    BY <1>1
  <2> QED BY <2>1, <2>2, NewLineIsThroughStone
<1>5. \A p \in Players \ {me} : ~LineOf(t.boards[p].placed)
  BY <1>1 DEF Players
<1>6. /\ Rules!Won(GridIn(t)) <=> LineOf(t.boards[0].placed) \/ LineOf(t.boards[1].placed)
      /\ Rules!Won(GridIn(t)) <=> Check(t.boards[me].placed, a[1], a[2])
  <2>1. Rules!Won(GridIn(t)) <=> LineOf(t.boards[0].placed) \/ LineOf(t.boards[1].placed)
    BY <1>3 DEF Rules!Won, Players
  <2> HIDE DEF me
  <2> QED BY <1>1, <1>4, <1>5, <2>1 DEF Players
<1>7. Rules!Full(GridIn(t)) <=> Full(t.merged)
  <2>1. \A x \in 0..(ColumnSize - 1) : Len(GridIn(t)[x]) = tops2[x]
    BY <1>2, GridStones
  <2>2. Full(t.merged) <=> \A x \in 0..(ColumnSize - 1) : tops2[x] = MaxHeight
    BY <1>2, FullColumns
  <2> QED BY <2>1, <2>2 DEF Rules!Full, Rules!Columns
<1>8. /\ ResultOf(s, a) = "Won" <=> Check(t.boards[me].placed, a[1], a[2])
      /\ ResultOf(s, a) = "Draw" <=> ResultOf(s, a) # "Won" /\ Full(t.merged)
      /\ ResultOf(s, a) \in {"Won", "Draw", "Placed"}
  BY AfterAnswer
<1> QED BY <1>6, <1>7, <1>8

-----------------------------------------------------------------------------
\* The game by its rules.

\* What makes the grid a game of its rules. The stones of a column lie on one another;
\* as long as the game goes on nobody has a line; and whose turn it is follows from the
\* number of stones, unless there is no turn any more.
Orderly ==
  /\ \E tops \in [0..(ColumnSize - 1) -> 0..MaxHeight] : Stacked(stage.merged.placed, tops)
  /\ Playing => ~LineOf(Stones(0)) /\ ~LineOf(Stones(1))
  /\ Playing /\ ~Full(stage.merged) =>
       stage.player = Cardinality(Rules!Occupied(GridIn(stage))) % 2

\* The grid of the refinement is that of the stage.
LEMMA GridIsGridIn == Grid = GridIn(stage) /\ Grid' = GridIn(stage')
BY DEF Grid, GridIn, Pile, PileIn, Stones

\* The grid is empty at the start and the game orderly.
LEMMA OrderlyInit == Init => Orderly /\ Rules!Init
<1> SUFFICES ASSUME Init PROVE Orderly /\ Rules!Init
  OBVIOUS
<1> DEFINE tops == [x \in 0..(ColumnSize - 1) |-> 0]
<1>1. stage = InitialStage /\ result = "Start"
  BY DEF Init
<1>2. Exact(stage) /\ Stacked(stage.merged.placed, tops)
  BY <1>1, InitialExact, EmptyStacked
<1>3. tops \in [0..(ColumnSize - 1) -> 0..MaxHeight]
  BY <1>2 DEF Stacked
<1>4. \A x \in 0..(ColumnSize - 1) : tops[x] = 0
  OBVIOUS
<1> HIDE DEF tops
<1>5. \A x \in 0..(ColumnSize - 1) : GridIn(stage)[x] \in Seq(Players) /\ Len(GridIn(stage)[x]) = 0
  BY <1>2, <1>4, GridStones
<1>6. \A x \in 0..(ColumnSize - 1) : GridIn(stage)[x] = <<>>
  BY <1>5
<1>7. GridIn(stage) = [x \in 0..(ColumnSize - 1) |-> GridIn(stage)[x]]
  BY <1>2, GridStones
<1>8. Grid = [x \in 0..(ColumnSize - 1) |-> <<>>]
  BY <1>6, <1>7, GridIsGridIn
<1>9. Rules!Occupied(GridIn(stage)) = {}
  BY <1>6 DEF Rules!Occupied, Rules!Columns
<1>10. Stones(0) = {} /\ Stones(1) = {} /\ stage.player = 0
  BY <1>1 DEF Stones, InitialStage, EmptyBoard, Players
<1>11. ~LineOf(Stones(0)) /\ ~LineOf(Stones(1))
  BY <1>10 DEF LineOf
<1>12. stage.player = Cardinality(Rules!Occupied(GridIn(stage))) % 2
  BY <1>9, <1>10, FS_EmptySet
<1> QED BY <1>1, <1>2, <1>3, <1>8, <1>11, <1>12 DEF Orderly, Rules!Init, Rules!Columns

\* A legal move is a move of the game.
LEMMA LegalDrops ==
  ASSUME Inv, Orderly, Playing, NEW a, AdvanceLegal(a)
  PROVE  Orderly' /\ Rules!Next
<1> DEFINE s == stage
           t == stage'
           x == a[1]
           columns == 0..(ColumnSize - 1)
<1>1. Exact(s) /\ a \in LegalActions(s.merged) /\ t = After(s, a) /\ result' = ResultOf(s, a)
  BY DEF Inv, AdvanceLegal
<1>2. PICK tops \in [columns -> 0..MaxHeight] : Stacked(s.merged.placed, tops)
  BY DEF Orderly
<1> DEFINE tops2 == [tops EXCEPT ![x] = @ + 1]
<1>3. Exact(t) /\ Stacked(t.merged.placed, tops2)
      /\ GridIn(t) = [GridIn(s) EXCEPT ![x] = Append(@, s.player)]
  BY <1>1, <1>2, MoveDropsStone
<1>4. ~LineOf(s.boards[0].placed) /\ ~LineOf(s.boards[1].placed)
  BY DEF Orderly, Stones
<1>5. /\ Rules!Won(GridIn(t)) <=> LineOf(t.boards[0].placed) \/ LineOf(t.boards[1].placed)
      /\ Rules!Won(GridIn(t)) <=> ResultOf(s, a) = "Won"
      /\ Rules!Full(GridIn(t)) <=> Full(t.merged)
      /\ ResultOf(s, a) = IF Rules!Won(GridIn(t)) THEN "Won"
                          ELSE IF Rules!Full(GridIn(t)) THEN "Draw" ELSE "Placed"
  BY <1>1, <1>2, <1>4, AnswersAgree
<1>6. /\ Cardinality(Rules!Occupied(GridIn(s))) \in Nat
      /\ Cardinality(Rules!Occupied(GridIn(t))) = Cardinality(Rules!Occupied(GridIn(s))) + 1
  BY <1>1, <1>2, StonesCounted
<1>7. /\ t.player = IF ResultOf(s, a) = "Placed" THEN 1 - s.player ELSE s.player
      /\ s.player \in Players
  BY <1>1, AfterStones, AfterAnswer
<1>8. ~Full(s.merged) /\ x \in columns /\ tops[x] \in 0..(MaxHeight - 1)
  <2>1. LegalActions(s.merged) # {}
    BY <1>1
  <2>2. ~Full(s.merged)
    BY <1>2, <2>1, FullColumns
  <2>3. a[1] \in columns /\ a[2] \in 0..(MaxHeight - 1) /\ a[2] = tops[a[1]]
    BY <1>1, <1>2, StoneOnTop
  <2> QED BY <2>2, <2>3
<1>9. s.player = Cardinality(Rules!Occupied(GridIn(s))) % 2
  BY <1>8 DEF Orderly
<1> HIDE DEF t, s, tops2, x
<1>10. (\E heights \in [columns -> 0..MaxHeight] : Stacked(stage.merged.placed, heights))'
  <2>1. tops2 \in [columns -> 0..MaxHeight]
    BY <1>3 DEF Stacked
  <2> QED BY <1>3, <2>1 DEF t
<1>11. (Playing => ~LineOf(Stones(0)) /\ ~LineOf(Stones(1)))'
  BY <1>1, <1>5 DEF Playing, Stones, t
<1>12. (Playing /\ ~Full(stage.merged) =>
          stage.player = Cardinality(Rules!Occupied(GridIn(stage))) % 2)'
  <2>1. SUFFICES ASSUME result' # "Won", ~Full(t.merged)
                 PROVE  t.player = Cardinality(Rules!Occupied(GridIn(t))) % 2
    BY DEF Playing, t
  <2>2. ResultOf(s, a) = "Placed"
    BY <1>1, <1>5, <2>1
  <2> DEFINE n == Cardinality(Rules!Occupied(GridIn(s)))
  <2>3. n \in Nat /\ s.player = n % 2 /\ t.player = 1 - s.player
    BY <1>6, <1>7, <1>9, <2>2
  <2> HIDE DEF n
  <2>4. t.player = (n + 1) % 2
    BY <2>3
  <2> QED BY <1>6, <2>4 DEF n
<1>13. Orderly'
  BY <1>10, <1>11, <1>12 DEF Orderly
<1>14. Grid = GridIn(s) /\ Grid' = GridIn(t)
  BY GridIsGridIn DEF s, t
<1>15. Rules!Drop(x)
  <2>1. Len(Grid[x]) < MaxHeight
    <3>1. Len(GridIn(s)[x]) = tops[x]
      BY <1>1, <1>2, <1>8, GridHeights
    <3> QED BY <1>8, <1>14, <3>1, BoardAssumption
  <2>2. Rules!Turn = s.player
    <3>1. Rules!Turn = Cardinality(Rules!Occupied(Grid)) % 2
      BY Zenon DEF Rules!Turn, Rules!Cardinality, Cardinality
    <3> QED BY <1>9, <1>14, <3>1
  <2>3. Grid' = [Grid EXCEPT ![x] = Append(@, Rules!Turn)]
    BY <1>3, <1>14, <2>2
  <2>4. result' = IF Rules!Won(Grid') THEN "Won" ELSE IF Rules!Full(Grid') THEN "Draw" ELSE "Placed"
    BY <1>1, <1>5, <1>14
  <2> QED BY <2>1, <2>3, <2>4 DEF Rules!Drop
<1>16. ~Rules!Won(Grid)
  <2>1. \A p \in Players : Rules!Line(GridIn(s), p) <=> LineOf(s.boards[p].placed)
    BY <1>1, <1>2, GridLine
  <2> QED BY <1>4, <1>14, <2>1 DEF Rules!Won, Players
<1> QED BY <1>8, <1>13, <1>15, <1>16 DEF Rules!Next, Rules!Columns

\* Whatever else is asked of advance is a refused move.
LEMMA OthersRefuse ==
  ASSUME Inv, Orderly, Playing, AdvanceFull \/ AdvanceInvalid
  PROVE  Orderly' /\ Rules!Next
<1> DEFINE columns == 0..(ColumnSize - 1)
<1>1. Exact(stage) /\ UNCHANGED stage
      /\ result' = IF LegalActions(stage.merged) = {} THEN "Draw" ELSE "Invalid"
  BY DEF Inv, AdvanceFull, AdvanceInvalid
<1>2. PICK tops \in [columns -> 0..MaxHeight] : Stacked(stage.merged.placed, tops)
  BY DEF Orderly
<1>3. ~LineOf(stage.boards[0].placed) /\ ~LineOf(stage.boards[1].placed)
  BY DEF Orderly, Stones
<1>4. Grid = GridIn(stage) /\ UNCHANGED Grid
  BY <1>1, GridIsGridIn
<1>5. ~Rules!Won(Grid)
  <2>1. \A p \in Players : Rules!Line(GridIn(stage), p) <=> LineOf(stage.boards[p].placed)
    BY <1>1, <1>2, GridLine
  <2> QED BY <1>3, <1>4, <2>1 DEF Rules!Won, Players
<1>6. Rules!Full(Grid) <=> LegalActions(stage.merged) = {}
  <2>1. \A x \in columns : Len(GridIn(stage)[x]) = tops[x]
    BY <1>1, <1>2, GridHeights
  <2>2. LegalActions(stage.merged) = {} <=> \A x \in columns : tops[x] = MaxHeight
    BY <1>2, FullColumns
  <2> QED BY <1>4, <2>1, <2>2 DEF Rules!Full, Rules!Columns
<1>7. Orderly'
  BY <1>1 DEF Orderly, Stones, Playing
<1> QED BY <1>1, <1>4, <1>5, <1>6, <1>7 DEF Rules!Next, Rules!Refuse

\* The moves of advance are the moves of the game, and its answers those of the game, as
\* the rules of FourInARow have it.
THEOREM PlaysByTheRules == Spec => PlaysFourInARow
<1>1. Init => Orderly /\ Rules!Init
  BY OrderlyInit
<1>2. Inv /\ Orderly /\ [Next]_vars => Orderly' /\ [Rules!Next]_<<Grid, result>>
  <2> SUFFICES ASSUME Inv, Orderly, [Next]_vars
               PROVE  Orderly' /\ [Rules!Next]_<<Grid, result>>
    OBVIOUS
  <2>1. CASE Playing /\ (AdvanceFull \/ AdvanceInvalid)
    BY <2>1, OthersRefuse
  <2>2. ASSUME NEW a \in Inputs, Playing /\ AdvanceLegal(a)
        PROVE  Orderly' /\ [Rules!Next]_<<Grid, result>>
    BY <2>2, LegalDrops
  <2>3. CASE UNCHANGED vars
    <3>1. UNCHANGED <<stage, result>>
      BY <2>3 DEF vars
    <3>2. UNCHANGED <<Grid, result>>
      BY <3>1, GridIsGridIn
    <3> QED BY <3>1, <3>2 DEF Orderly, Stones, Playing
  <2> QED BY <2>1, <2>2, <2>3 DEF Next, Over
<1> QED BY <1>1, <1>2, Invariance, PTL DEF Spec, PlaysFourInARow, Rules!Spec
=============================================================================
