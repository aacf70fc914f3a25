---------------------------- MODULE BoardProofs ----------------------------
(***************************************************************************)
(* Lemmas about the boards and stages of Board, for every size of the      *)
(* board, of its margins and of a line: what a legal move does to a stage  *)
(* whose bookkeeping is exact, and what check finds on its bits.           *)
(***************************************************************************)
EXTENDS Board, FiniteSetTheorems, TLAPS

\* The keys of the stones of player p on the cells of a set.
KeysOf(p, cells) == {<<p, i>> : i \in cells}

Both(boards) ==
  [placed |-> boards[0].placed \cup boards[1].placed,
   digest |-> KeysOf(0, boards[0].placed) \cup KeysOf(1, boards[1].placed)]

\* No cell belongs to both players, the digest of each player's board holds the keys of
\* his own stones.
ExactBoards(boards) ==
  /\ boards \in [Players -> Boards]
  /\ \A p \in Players : boards[p].digest = KeysOf(p, boards[p].placed)
  /\ boards[0].placed \cap boards[1].placed = {}

\* The merged board is the union of both boards.
Exact(s) == s \in Stages /\ ExactBoards(s.boards) /\ s.merged = Both(s.boards)

-----------------------------------------------------------------------------
\* The mask.

LEMMA MaskFinite == IsFiniteSet(Mask)
<1> DEFINE f == [a \in Cells |-> ToIndex(a[1], a[2])]
<1>1. IsFiniteSet(Cells)
  <2>1. IsFiniteSet(0..(ColumnSize - 1)) /\ IsFiniteSet(0..(MaxHeight - 1))
    BY BoardAssumption, FS_Interval
  <2> QED BY <2>1, FS_Product DEF Cells
<1>2. \A i \in Mask : \E a \in Cells : f[a] = i
  BY DEF Mask
<1>3. \A a \in Cells : f[a] \in Mask
  BY DEF Mask
<1>4. f \in Surjection(Cells, Mask)
  BY <1>2, <1>3 DEF Surjection
<1> QED BY <1>1, <1>4, FS_Surjection

\* A legal action is a free cell of the mask.
LEMMA LegalIsFree ==
  ASSUME NEW board, NEW a \in LegalActions(board)
  PROVE  ToIndex(a[1], a[2]) \in Mask \ board.placed
BY DEF LegalActions, Mask

\* On a full board nothing is legal.
LEMMA FullBoardHasNoMove ==
  ASSUME NEW board, board.placed \subseteq Mask, Full(board)
  PROVE  LegalActions(board) = {}
<1>1. board.placed = Mask
  BY MaskFinite, FS_Subset DEF Full
<1> QED BY <1>1, LegalIsFree

-----------------------------------------------------------------------------
\* One move.

\* The XOR of two exact boards without a common stone is their union.
LEMMA MergeExact ==
  ASSUME NEW boards, ExactBoards(boards), NEW me \in Players
  PROVE  MergeBoards(boards, me) = Both(boards)
<1>1. SymDiff(boards[0].placed, boards[1].placed) = boards[0].placed \cup boards[1].placed
  BY DEF SymDiff, ExactBoards
<1>2. KeysOf(0, boards[0].placed) \cap KeysOf(1, boards[1].placed) = {}
  BY DEF KeysOf
<1>3. SymDiff(KeysOf(0, boards[0].placed), KeysOf(1, boards[1].placed)) =
        KeysOf(0, boards[0].placed) \cup KeysOf(1, boards[1].placed)
  BY <1>2 DEF SymDiff
<1>4. \A A, B : SymDiff(A, B) = SymDiff(B, A)
  BY DEF SymDiff
<1>5. boards[0].digest = KeysOf(0, boards[0].placed) /\ boards[1].digest = KeysOf(1, boards[1].placed)
  BY DEF ExactBoards, Players
<1>6. Merge(boards[0], boards[1]) = Both(boards) /\ Merge(boards[1], boards[0]) = Both(boards)
  BY <1>1, <1>3, <1>4, <1>5 DEF Merge, Both
<1> QED BY <1>6 DEF MergeBoards, Players

\* Boards go into boards, exact or not.
LEMMA BothIsBoard ==
  ASSUME NEW boards \in [Players -> Boards]
  PROVE  Both(boards) \in Boards
BY DEF Both, Boards, KeysOf, Players

\* The initial stage is exact.
LEMMA InitialExact == Exact(InitialStage)
<1> DEFINE boards == [p \in Players |-> EmptyBoard]
<1>1. EmptyBoard \in Boards
  BY DEF Boards, EmptyBoard
<1>2. ExactBoards(boards)
  BY <1>1 DEF ExactBoards, EmptyBoard, KeysOf, Players
<1>3. 0 \in Players
  BY DEF Players
<1>4. MergeBoards(boards, 0) = Both(boards)
  BY <1>2, <1>3, MergeExact
<1>5. boards \in [Players -> Boards] /\ Both(boards) \in Boards
  BY <1>1, BothIsBoard
<1>6. InitialStage = [boards |-> boards, merged |-> Both(boards), player |-> 0]
  BY <1>4 DEF InitialStage
<1> QED BY <1>2, <1>3, <1>5, <1>6 DEF Exact, Stages

\* A legal move puts one stone and its key on the board of the player.
LEMMA PlaceStone ==
  ASSUME NEW s, Exact(s), NEW a \in LegalActions(s.merged),
         NEW me, me = s.player, NEW index, index = ToIndex(a[1], a[2]),
         NEW stones, stones = s.boards[me].placed \cup {index}
  PROVE  /\ index \in Mask /\ index \notin s.boards[0].placed
         /\ index \notin s.boards[1].placed
         /\ BoardsAfter(s, a) =
              [s.boards EXCEPT ![me] = [placed |-> stones, digest |-> KeysOf(me, stones)]]
<1>1. index \in Mask /\ index \notin s.merged.placed
  BY LegalIsFree
<1>2. index \notin s.boards[0].placed /\ index \notin s.boards[1].placed
  BY <1>1 DEF Exact, Both
<1>3. me \in Players
  BY DEF Exact, Stages
<1>4. index \notin s.boards[me].placed
  BY <1>2, <1>3 DEF Players
<1>5. SymDiff(KeysOf(me, s.boards[me].placed), {<<me, index>>}) = KeysOf(me, stones)
  BY <1>4 DEF SymDiff, KeysOf
<1>6. s.boards[me].digest = KeysOf(me, s.boards[me].placed)
  BY <1>3 DEF Exact, ExactBoards
<1>7. Place(s.boards[me], me, a[1], a[2]) = [placed |-> stones, digest |-> KeysOf(me, stones)]
  BY <1>1, <1>4, <1>5, <1>6 DEF Place
<1> QED BY <1>1, <1>2, <1>7 DEF BoardsAfter

\* A legal move leads from an exact stage to an exact one, with more keys in its digest.
LEMMA AfterExact ==
  ASSUME NEW s, Exact(s), NEW a \in LegalActions(s.merged)
  PROVE  /\ Exact(After(s, a))
         /\ s.merged.digest \subseteq After(s, a).merged.digest
         /\ s.merged.digest # After(s, a).merged.digest
<1> DEFINE me == s.player
<1> DEFINE index == ToIndex(a[1], a[2])
<1> DEFINE stones == s.boards[me].placed \cup {index}
<1> DEFINE mine == [placed |-> stones, digest |-> KeysOf(me, stones)]
<1> DEFINE boards == BoardsAfter(s, a)
<1>1. me \in Players /\ s.boards \in [Players -> Boards]
  BY DEF Exact, Stages
<1>2. /\ index \in Mask
      /\ index \notin s.boards[0].placed /\ index \notin s.boards[1].placed
      /\ boards = [s.boards EXCEPT ![me] = mine]
  BY PlaceStone
<1> HIDE DEF boards
<1>3. boards[me] = mine /\ \A p \in Players \ {me} : boards[p] = s.boards[p]
  BY <1>1, <1>2
<1>4. mine \in Boards
  <2>1. stones \subseteq Mask
    BY <1>1, <1>2 DEF Boards
  <2> QED BY <1>1, <2>1 DEF Boards, KeysOf
<1>5. boards \in [Players -> Boards]
  BY <1>1, <1>2, <1>4
<1>6. ASSUME NEW p \in Players PROVE boards[p].digest = KeysOf(p, boards[p].placed)
  <2>1. CASE p = me
    <3>1. boards[p] = mine /\ mine.digest = KeysOf(me, mine.placed)
      BY <1>3, <2>1
    <3> QED BY <2>1, <3>1
  <2>2. CASE p # me
    BY <1>3, <2>2 DEF Exact, ExactBoards
  <2> QED BY <2>1, <2>2
<1>7. \A p \in Players :
        boards[p].placed =
          IF p = me THEN s.boards[p].placed \cup {index} ELSE s.boards[p].placed
  BY <1>3
<1>8. s.boards[0].placed \cap s.boards[1].placed = {}
  BY DEF Exact, ExactBoards
<1>9. boards[0].placed \cap boards[1].placed = {}
  BY <1>1, <1>2, <1>7, <1>8 DEF Players
<1>10. ExactBoards(boards)
  BY <1>5, <1>6, <1>9 DEF ExactBoards
<1>11. MergeBoards(boards, me) = Both(boards) /\ Both(boards) \in Boards
  BY <1>1, <1>5, <1>10, MergeExact, BothIsBoard
<1>12. After(s, a) = [boards |-> boards, merged |-> Both(boards),
                      player |-> IF ResultOf(s, a) = "Placed" THEN 1 - me ELSE me]
  BY <1>11 DEF After, boards
<1>13. Exact(After(s, a))
  <2>1. (IF ResultOf(s, a) = "Placed" THEN 1 - me ELSE me) \in Players
    BY <1>1 DEF Players
  <2> QED BY <1>5, <1>10, <1>11, <1>12, <2>1 DEF Exact, Stages
<1>14. s.merged.digest = KeysOf(0, s.boards[0].placed) \cup KeysOf(1, s.boards[1].placed)
  BY DEF Exact, Both
<1>15. After(s, a).merged.digest = KeysOf(0, boards[0].placed) \cup KeysOf(1, boards[1].placed)
  BY <1>12 DEF Both
<1>16. s.merged.digest \subseteq After(s, a).merged.digest
  BY <1>1, <1>7, <1>14, <1>15 DEF KeysOf, Players
<1>17. <<me, index>> \in After(s, a).merged.digest /\ <<me, index>> \notin s.merged.digest
  BY <1>1, <1>2, <1>7, <1>14, <1>15 DEF KeysOf, Players
<1> QED BY <1>13, <1>16, <1>17

-----------------------------------------------------------------------------
\* Indices and cells.

\* A cell and one in the margin above it are known by their index.
LEMMA IndexUnique ==
  ASSUME NEW x1 \in Int, NEW x2 \in Int,
         NEW y1 \in 0..(FullHeight - 1), NEW y2 \in 0..(FullHeight - 1),
         ToIndex(x1, y1) = ToIndex(x2, y2)
  PROVE  x1 = x2 /\ y1 = y2
<1>1. FullHeight \in Nat
  BY BoardAssumption
<1>2. (x1 - x2) * FullHeight = y2 - y1
  BY <1>1 DEF ToIndex
<1>3. y2 - y1 < FullHeight /\ y2 - y1 > -FullHeight
  BY <1>1
<1>4. x1 - x2 < 1
  <2>1. SUFFICES ASSUME x1 - x2 >= 1 PROVE FALSE
    OBVIOUS
  <2>2. (x1 - x2) * FullHeight >= 1 * FullHeight
    BY <1>1, <2>1
  <2> QED BY <1>1, <1>2, <1>3, <2>2
<1>5. x1 - x2 > -1
  <2>1. SUFFICES ASSUME x2 - x1 >= 1 PROVE FALSE
    OBVIOUS
  <2>2. (x2 - x1) * FullHeight >= 1 * FullHeight
    BY <1>1, <2>1
  <2>3. (x2 - x1) * FullHeight = y1 - y2
    BY <1>1 DEF ToIndex
  <2> QED BY <1>1, <1>3, <2>2, <2>3
<1>6. x1 = x2
  BY <1>4, <1>5
<1> QED BY <1>1, <1>2, <1>6

\* The mask has the cells of the grid and none of the margin above them.
LEMMA MaskIsGrid ==
  ASSUME NEW x \in Int, NEW y \in 0..(FullHeight - 1)
  PROVE  ToIndex(x, y) \in Mask <=> <<x, y>> \in Cells
<1>1. ASSUME ToIndex(x, y) \in Mask PROVE <<x, y>> \in Cells
  <2>1. PICK a \in Cells : ToIndex(x, y) = ToIndex(a[1], a[2])
    BY <1>1 DEF Mask
  <2>2. a[1] \in Int /\ a[2] \in 0..(FullHeight - 1) /\ a = <<a[1], a[2]>>
    BY BoardAssumption DEF Cells
  <2> QED BY <2>1, <2>2, IndexUnique
<1>2. ASSUME <<x, y>> \in Cells PROVE ToIndex(x, y) \in Mask
  <2>1. \E a \in Cells : ToIndex(x, y) = ToIndex(a[1], a[2])
    BY <1>2
  <2> QED BY <2>1 DEF Mask
<1> QED BY <1>1, <1>2

\* A stone at x, y in the set of a player.
StoneAt(placed, x, y) == <<x, y>> \in Cells /\ ToIndex(x, y) \in placed

\* A line of stones that begins at x, y and goes by dx, dy.
LineFrom(placed, x, y, dx, dy) ==
  \A k \in 0..(MinLen - 1) : StoneAt(placed, x + k * dx, y + k * dy)

\* check_line finds exactly the whole lines.
LEMMA WholeLine ==
  ASSUME NEW placed, NEW origin \in Int, NEW step \in Int, step > 0, NEW leftShift \in Int
  PROVE  CheckLine(placed, LineMask(origin, step), leftShift) <=>
           /\ leftShift >= 0
           /\ \A k \in 0..(MinLen - 1) : origin + k * step + leftShift \in Mask \cap placed
<1> DEFINE line == LineMask(origin, step)
           places == 0..(MinLen - 1)
           f == [k \in places |-> origin + k * step + leftShift]
           cells == {i + leftShift : i \in line}
           hits == cells \cap Mask \cap placed
<1>1. cells = {f[k] : k \in places}
  BY DEF LineMask
<1>2. MinLen \in Nat \ {0} /\ IsFiniteSet(places) /\ Cardinality(places) = MinLen
  <2>1. MinLen \in Nat \ {0}
    BY BoardAssumption
  <2> QED BY <2>1, FS_Interval
<1>3. CheckLine(placed, line, leftShift) <=> leftShift >= 0 /\ Cardinality(hits) >= MinLen
  BY DEF CheckLine
<1>4. f \in Bijection(places, cells)
  <2>1. ASSUME NEW k \in places, NEW l \in places, f[k] = f[l] PROVE k = l
    <3>1. k \in Int /\ l \in Int /\ k * step = l * step
      BY <2>1
    <3> QED BY <3>1
  <2>2. f \in [places -> cells] /\ \A c \in cells : \E k \in places : f[k] = c
    BY <1>1
  <2> QED BY <2>1, <2>2 DEF Bijection, Injection, Surjection, IsInjective
<1>5. IsFiniteSet(cells) /\ Cardinality(cells) = MinLen
  <2>1. ExistsBijection(places, cells)
    BY <1>4 DEF ExistsBijection
  <2> HIDE DEF places, cells
  <2> QED BY <1>2, <2>1, FS_Bijection
<1>6. /\ hits \subseteq cells /\ Cardinality(hits) \in Nat
      /\ Cardinality(hits) <= MinLen /\ (Cardinality(hits) = MinLen => hits = cells)
  <2> HIDE DEF cells
  <2>1. hits \subseteq cells
    OBVIOUS
  <2>2. IsFiniteSet(hits)
    BY <1>5, <2>1, FS_Subset
  <2> QED BY <1>5, <2>1, <2>2, FS_Subset, FS_CardinalityType
<1>7. Cardinality(hits) >= MinLen <=> hits = cells
  <2> HIDE DEF hits, cells
  <2> QED BY <1>2, <1>5, <1>6
<1>8. hits = cells <=> \A k \in places : f[k] \in Mask \cap placed
  BY <1>1
<1> QED BY <1>3, <1>7, <1>8

\* The index of the k-th place of a line.
LEMMA IndexAlong ==
  ASSUME NEW x \in Int, NEW y \in Int, NEW dx \in Int, NEW dy \in Int, NEW k \in Int
  PROVE  ToIndex(x + k * dx, y + k * dy) = ToIndex(x, y) + k * (dx * FullHeight + dy)
<1>1. FullHeight \in Int
  BY BoardAssumption
<1>2. (x + k * dx) * FullHeight = x * FullHeight + (k * dx) * FullHeight
  BY <1>1
<1>3. k * (dx * FullHeight + dy) = (k * dx) * FullHeight + k * dy
  BY <1>1
<1>4. k * dx \in Int /\ k * dy \in Int
  OBVIOUS
<1> QED BY <1>1, <1>2, <1>3, <1>4 DEF ToIndex

\* A line in the mask does not leave the grid: whichever way it goes up or down, its first
\* place outside would lie in a margin.
LEMMA LineStaysInGrid ==
  ASSUME NEW x \in Int, NEW y \in 0..(MaxHeight - 1),
         NEW dx \in {0, 1}, NEW dy \in {-1, 0, 1},
         \A k \in 0..(MinLen - 1) : ToIndex(x + k * dx, y + k * dy) \in Mask
  PROVE  \A k \in 0..(MinLen - 1) : y + k * dy \in 0..(MaxHeight - 1)
<1>1. MaxHeight \in Nat /\ FullHeight \in Nat /\ MaxHeight < FullHeight /\ MinLen \in Nat \ {0}
  BY BoardAssumption
<1>2. CASE dy = 0
  BY <1>1, <1>2
<1>3. CASE dy = 1
  <2>1. SUFFICES ASSUME NEW k \in 0..(MinLen - 1), y + k >= MaxHeight PROVE FALSE
    BY <1>1, <1>3
  <2> DEFINE l == MaxHeight - y
  <2>2. l \in 0..(MinLen - 1) /\ y + l * dy = MaxHeight /\ x + l * dx \in Int
    BY <1>1, <1>3, <2>1
  <2>3. ToIndex(x + l * dx, MaxHeight) \in Mask
    BY <2>2
  <2>4. <<x + l * dx, MaxHeight>> \in Cells
    BY <1>1, <2>2, <2>3, MaskIsGrid
  <2> QED BY <1>1, <2>4 DEF Cells
<1>4. CASE dy = -1
  <2>1. SUFFICES ASSUME NEW k \in 0..(MinLen - 1), y - k < 0 PROVE FALSE
    BY <1>1, <1>4
  <2> DEFINE l == y + 1
             z == x + l * dx
  <2>2. l \in 0..(MinLen - 1) /\ y + l * dy = -1 /\ z \in Int
    BY <1>1, <1>4, <2>1
  <2>3. ToIndex(z, -1) \in Mask
    BY <2>2
  <2> HIDE DEF z
  <2>4. ToIndex(z, -1) = ToIndex(z - 1, FullHeight - 1)
    <3>1. (z - 1) * FullHeight = z * FullHeight - FullHeight
      BY <1>1, <2>2
    <3> QED BY <1>1, <2>2, <3>1 DEF ToIndex
  <2>5. <<z - 1, FullHeight - 1>> \in Cells
    BY <1>1, <2>2, <2>3, <2>4, MaskIsGrid
  <2> QED BY <1>1, <2>5 DEF Cells
<1> QED BY <1>2, <1>3, <1>4

\* A whole line of indices is a line of stones.
LEMMA IndicesOfLine ==
  ASSUME NEW placed, NEW x \in Int, NEW y \in 0..(MaxHeight - 1),
         NEW dx \in {0, 1}, NEW dy \in {-1, 0, 1}
  PROVE  (\A k \in 0..(MinLen - 1) :
            ToIndex(x, y) + k * (dx * FullHeight + dy) \in Mask \cap placed)
         <=> LineFrom(placed, x, y, dx, dy)
<1> DEFINE along == \A k \in 0..(MinLen - 1) :
                      ToIndex(x + k * dx, y + k * dy) \in Mask \cap placed
<1>1. MaxHeight \in Nat /\ FullHeight \in Nat /\ MaxHeight < FullHeight /\ MinLen \in Nat \ {0}
  BY BoardAssumption
<1>2. \A k \in 0..(MinLen - 1) :
        ToIndex(x + k * dx, y + k * dy) = ToIndex(x, y) + k * (dx * FullHeight + dy)
  <2> TAKE k \in 0..(MinLen - 1)
  <2>1. k \in Int /\ x \in Int /\ y \in Int
    BY <1>1
  <2>2. dx \in Int /\ dy \in Int
    OBVIOUS
  <2> QED BY <2>1, <2>2, IndexAlong
<1>3. ASSUME along, NEW k \in 0..(MinLen - 1) PROVE StoneAt(placed, x + k * dx, y + k * dy)
  <2>1. y + k * dy \in 0..(MaxHeight - 1)
    BY <1>3, LineStaysInGrid
  <2>2. y + k * dy \in 0..(FullHeight - 1)
    BY <1>1, <2>1
  <2>3. x + k * dx \in Int
    BY <1>1
  <2> QED BY <1>3, <2>2, <2>3, MaskIsGrid DEF StoneAt
<1>4. ASSUME LineFrom(placed, x, y, dx, dy), NEW k \in 0..(MinLen - 1)
      PROVE  ToIndex(x + k * dx, y + k * dy) \in Mask \cap placed
  <2>1. StoneAt(placed, x + k * dx, y + k * dy)
    BY <1>4 DEF LineFrom
  <2>2. \E a \in Cells : ToIndex(x + k * dx, y + k * dy) = ToIndex(a[1], a[2])
    BY <2>1 DEF StoneAt
  <2> QED BY <2>1, <2>2 DEF StoneAt, Mask
<1>5. along <=> LineFrom(placed, x, y, dx, dy)
  BY <1>3, <1>4 DEF LineFrom
<1> QED BY <1>2, <1>5

\* The four masks of check_line.
LEMMA CheckLineIsLine ==
  ASSUME NEW placed, NEW x \in Nat, NEW y \in 0..(MaxHeight - 1)
  PROVE  /\ CheckLine(placed, Vertical, ToIndex(x, y)) <=> LineFrom(placed, x, y, 0, 1)
         /\ CheckLine(placed, Horizontal, ToIndex(x, y)) <=> LineFrom(placed, x, y, 1, 0)
         /\ CheckLine(placed, Rising, ToIndex(x, y)) <=> LineFrom(placed, x, y, 1, 1)
         /\ CheckLine(placed, Falling, ToIndex(x, y) - (MinLen - 1)) <=>
               LineFrom(placed, x, y, 1, -1)
<1> DEFINE i == ToIndex(x, y)
           found(dx, dy) == \A k \in 0..(MinLen - 1) :
                              i + k * (dx * FullHeight + dy) \in Mask \cap placed
<1>1. MaxHeight \in Nat /\ FullHeight \in Nat /\ MaxHeight < FullHeight /\ MinLen \in Nat \ {0}
  BY BoardAssumption
<1>2. i \in Nat
  BY <1>1 DEF ToIndex
<1>3. /\ found(0, 1) <=> LineFrom(placed, x, y, 0, 1)
      /\ found(1, 0) <=> LineFrom(placed, x, y, 1, 0)
      /\ found(1, 1) <=> LineFrom(placed, x, y, 1, 1)
      /\ found(1, -1) <=> LineFrom(placed, x, y, 1, -1)
  BY IndicesOfLine
<1> HIDE DEF i
<1>4. CheckLine(placed, Vertical, i) <=> found(0, 1)
  <2>1. CheckLine(placed, LineMask(0, 1), i) <=>
          i >= 0 /\ \A k \in 0..(MinLen - 1) : 0 + k * 1 + i \in Mask \cap placed
    <3>1. 0 \in Int /\ 1 \in Int /\ 1 > 0 /\ i \in Int
      BY <1>2
    <3> QED BY <3>1, WholeLine, Zenon
  <2>2. \A k \in 0..(MinLen - 1) : 0 + k * 1 + i = i + k * (0 * FullHeight + 1)
    BY <1>1, <1>2
  <2> QED BY <1>2, <2>1, <2>2 DEF Vertical
<1>5. CheckLine(placed, Horizontal, i) <=> found(1, 0)
  <2>1. CheckLine(placed, LineMask(0, FullHeight), i) <=>
          i >= 0 /\ \A k \in 0..(MinLen - 1) : 0 + k * FullHeight + i \in Mask \cap placed
    <3>1. 0 \in Int /\ FullHeight \in Int /\ FullHeight > 0 /\ i \in Int
      BY <1>1, <1>2
    <3> QED BY <3>1, WholeLine, Zenon
  <2>2. \A k \in 0..(MinLen - 1) : 0 + k * FullHeight + i = i + k * (1 * FullHeight + 0)
    BY <1>1, <1>2
  <2> QED BY <1>2, <2>1, <2>2 DEF Horizontal
<1>6. CheckLine(placed, Rising, i) <=> found(1, 1)
  <2>1. CheckLine(placed, LineMask(0, FullHeight + 1), i) <=>
          i >= 0 /\ \A k \in 0..(MinLen - 1) : 0 + k * (FullHeight + 1) + i \in Mask \cap placed
    <3>1. 0 \in Int /\ FullHeight + 1 \in Int /\ FullHeight + 1 > 0 /\ i \in Int
      BY <1>1, <1>2
    <3> QED BY <3>1, WholeLine, Zenon
  <2>2. \A k \in 0..(MinLen - 1) : 0 + k * (FullHeight + 1) + i = i + k * (1 * FullHeight + 1)
    BY <1>1, <1>2
  <2> QED BY <1>2, <2>1, <2>2 DEF Rising
<1>7. CheckLine(placed, Falling, i - (MinLen - 1)) <=> found(1, -1)
  <2> DEFINE shift == i - (MinLen - 1)
  <2>1. CASE FullHeight > 1
    <3>1. CheckLine(placed, LineMask(MinLen - 1, FullHeight - 1), shift) <=>
            shift >= 0 /\ \A k \in 0..(MinLen - 1) :
              (MinLen - 1) + k * (FullHeight - 1) + shift \in Mask \cap placed
      <4>1. /\ MinLen - 1 \in Int /\ FullHeight - 1 \in Int /\ FullHeight - 1 > 0
            /\ shift \in Int
        BY <1>1, <1>2, <2>1
      <4> HIDE DEF shift
      <4> QED BY <4>1, WholeLine, Zenon
    <3>2. \A k \in 0..(MinLen - 1) :
            (MinLen - 1) + k * (FullHeight - 1) + shift = i + k * (1 * FullHeight + -1)
      BY <1>1, <1>2
    <3>3. ASSUME found(1, -1) PROVE shift >= 0
      <4>1. LineFrom(placed, x, y, 1, -1) /\ MinLen - 1 \in 0..(MinLen - 1)
        BY <1>1, <1>3, <3>3
      <4>2. y + (MinLen - 1) * (-1) >= 0
        <5>1. <<x + (MinLen - 1) * 1, y + (MinLen - 1) * (-1)>> \in Cells
          BY <4>1 DEF LineFrom, StoneAt
        <5> QED BY <1>1, <5>1 DEF Cells
      <4>3. x * FullHeight >= 0
        BY <1>1
      <4> QED BY <1>1, <4>2, <4>3 DEF i, ToIndex
    <3> HIDE DEF shift
    <3>4. CheckLine(placed, Falling, shift) <=>
            shift >= 0 /\ \A k \in 0..(MinLen - 1) :
              (MinLen - 1) + k * (FullHeight - 1) + shift \in Mask \cap placed
      BY <3>1 DEF Falling
    <3> QED BY <3>2, <3>3, <3>4 DEF shift
  <2>2. CASE FullHeight <= 1
    <3> QED BY <1>1, <2>2
  <2> QED BY <1>1, <2>1, <2>2
<1> QED BY <1>3, <1>4, <1>5, <1>6, <1>7 DEF i

-----------------------------------------------------------------------------
\* Lines through a stone.

\* Where the searches of check begin and end.
LEMMA SearchBounds ==
  ASSUME NEW x \in Nat, NEW size \in Nat
  PROVE  /\ FirstFrom(x) = IF x - (MinLen - 1) > 0 THEN x - (MinLen - 1) ELSE 0
         /\ LastFrom(size, x) = IF size - MinLen < x THEN size - MinLen ELSE x
<1>1. MinLen \in Nat \ {0}
  BY BoardAssumption
<1>2. ASSUME NEW u \in Int, NEW v \in Int
      PROVE  /\ Max({u, v}) = (IF v > u THEN v ELSE u)
             /\ Min({u, v}) = (IF u < v THEN u ELSE v)
  <2>1. Max({u, v}) \in {u, v} /\ \A y \in {u, v} : Max({u, v}) >= y
    <3>1. \E m \in {u, v} : \A y \in {u, v} : m >= y
      <4>1. CASE u >= v
        BY <4>1
      <4>2. CASE v >= u
        BY <4>2
      <4> QED BY <4>1, <4>2
    <3> QED BY <3>1 DEF Max
  <2>2. Min({u, v}) \in {u, v} /\ \A y \in {u, v} : Min({u, v}) <= y
    <3>1. \E m \in {u, v} : \A y \in {u, v} : m <= y
      <4>1. CASE u <= v
        BY <4>1
      <4>2. CASE v <= u
        BY <4>2
      <4> QED BY <4>1, <4>2
    <3> QED BY <3>1 DEF Min
  <2> QED BY <2>1, <2>2
<1>3. x - (MinLen - 1) \in Int /\ size - MinLen \in Int /\ 0 \in Int /\ x \in Int
  BY <1>1
<1>4. FirstFrom(x) = IF x - (MinLen - 1) > 0 THEN x - (MinLen - 1) ELSE 0
  BY <1>2, <1>3 DEF FirstFrom
<1>5. LastFrom(size, x) = IF size - MinLen < x THEN size - MinLen ELSE x
  BY <1>2, <1>3 DEF LastFrom
<1> QED BY <1>4, <1>5

\* A line of stones, in one direction, that has a stone at x, y.
Through(placed, x, y, dx, dy) ==
  \E k \in 0..(MinLen - 1) : LineFrom(placed, x - k * dx, y - k * dy, dx, dy)

\* A line begins and ends on the grid.
LEMMA LineEnds ==
  ASSUME NEW placed, NEW x \in Int, NEW y \in Int, NEW dx \in Int, NEW dy \in Int,
         LineFrom(placed, x, y, dx, dy)
  PROVE  <<x, y>> \in Cells /\ <<x + (MinLen - 1) * dx, y + (MinLen - 1) * dy>> \in Cells
<1>1. 0 \in 0..(MinLen - 1) /\ MinLen - 1 \in 0..(MinLen - 1)
  BY BoardAssumption
<1>2. StoneAt(placed, x + 0 * dx, y + 0 * dy)
      /\ StoneAt(placed, x + (MinLen - 1) * dx, y + (MinLen - 1) * dy)
  BY <1>1 DEF LineFrom
<1>3. x + 0 * dx = x /\ y + 0 * dy = y
  OBVIOUS
<1> QED BY <1>2, <1>3 DEF StoneAt

\* check answers exactly whether a line goes through the stone, in each direction and wherever
\* the line begins: a shifted mask that leaves the grid falls into the margin, never into
\* the next column.
THEOREM CheckFindsLine ==
  ASSUME NEW placed, NEW x, NEW y, <<x, y>> \in Cells
  PROVE  Check(placed, x, y) <=>
           \/ Through(placed, x, y, 0, 1) \/ Through(placed, x, y, 1, 0)
           \/ Through(placed, x, y, 1, 1) \/ Through(placed, x, y, 1, -1)
<1> DEFINE left == FirstFrom(x)
           right == LastFrom(ColumnSize, x)
           bottom == FirstFrom(y)
           top == LastFrom(MaxHeight, y)
           rise(u) == y + (u - x)
           fall(u) == y - (u - x)
<1>1. /\ MaxHeight \in Nat /\ ColumnSize \in Nat /\ MinLen \in Nat \ {0}
      /\ x \in 0..(ColumnSize - 1) /\ y \in 0..(MaxHeight - 1)
  BY BoardAssumption DEF Cells
<1>2. /\ left = (IF x - (MinLen - 1) > 0 THEN x - (MinLen - 1) ELSE 0)
      /\ right = (IF ColumnSize - MinLen < x THEN ColumnSize - MinLen ELSE x)
      /\ bottom = (IF y - (MinLen - 1) > 0 THEN y - (MinLen - 1) ELSE 0)
      /\ top = (IF MaxHeight - MinLen < y THEN MaxHeight - MinLen ELSE y)
  <2>1. x \in Nat /\ y \in Nat
    BY <1>1
  <2> QED BY <1>1, <2>1, SearchBounds
<1> HIDE DEF left, right, bottom, top
<1>3. /\ \A u \in left..right : u \in Nat /\ x - u \in 0..(MinLen - 1)
      /\ \A v \in bottom..top : v \in 0..(MaxHeight - 1) /\ y - v \in 0..(MinLen - 1)
  BY <1>1, <1>2
<1>4. /\ \A k \in 0..(MinLen - 1) :
           x - k >= 0 /\ x - k + (MinLen - 1) < ColumnSize => x - k \in left..right
      /\ \A k \in 0..(MinLen - 1) :
           y - k >= 0 /\ y - k + (MinLen - 1) < MaxHeight => y - k \in bottom..top
  BY <1>1, <1>2
<1>5. (\E v \in bottom..top : CheckLine(placed, Vertical, ToIndex(x, v)))
      <=> Through(placed, x, y, 0, 1)
  <2>1. ASSUME NEW v \in bottom..top, CheckLine(placed, Vertical, ToIndex(x, v))
        PROVE  Through(placed, x, y, 0, 1)
    <3>1. LineFrom(placed, x, v, 0, 1)
      BY <1>1, <1>3, <2>1, CheckLineIsLine
    <3>2. y - v \in 0..(MinLen - 1) /\ x - (y - v) * 0 = x /\ y - (y - v) * 1 = v
      BY <1>1, <1>3, <2>1
    <3> QED BY <3>1, <3>2 DEF Through
  <2>2. ASSUME NEW k \in 0..(MinLen - 1), LineFrom(placed, x - k * 0, y - k * 1, 0, 1)
        PROVE  \E v \in bottom..top : CheckLine(placed, Vertical, ToIndex(x, v))
    <3> DEFINE v == y - k
    <3>1. v \in Int /\ LineFrom(placed, x, v, 0, 1)
      <4>1. x - k * 0 = x /\ y - k * 1 = v /\ v \in Int
        BY <1>1
      <4> QED BY <2>2, <4>1
    <3>2. <<x, v>> \in Cells /\ <<x + (MinLen - 1) * 0, v + (MinLen - 1) * 1>> \in Cells
      BY <1>1, <3>1, LineEnds
    <3>3. v \in 0..(MaxHeight - 1) /\ v + (MinLen - 1) * 1 \in 0..(MaxHeight - 1)
      BY <3>2 DEF Cells
    <3>4. v \in bottom..top
      BY <1>1, <1>4, <3>3
    <3>5. CheckLine(placed, Vertical, ToIndex(x, v))
      BY <1>1, <3>1, <3>3, CheckLineIsLine
    <3> QED BY <3>4, <3>5
  <2> QED BY <2>1, <2>2 DEF Through
<1>6. (\E u \in left..right : CheckLine(placed, Horizontal, ToIndex(u, y)))
      <=> Through(placed, x, y, 1, 0)
  <2>1. ASSUME NEW u \in left..right, CheckLine(placed, Horizontal, ToIndex(u, y))
        PROVE  Through(placed, x, y, 1, 0)
    <3>1. LineFrom(placed, u, y, 1, 0)
      BY <1>1, <1>3, <2>1, CheckLineIsLine
    <3>2. x - u \in 0..(MinLen - 1) /\ x - (x - u) * 1 = u /\ y - (x - u) * 0 = y
      BY <1>1, <1>3, <2>1
    <3> QED BY <3>1, <3>2 DEF Through
  <2>2. ASSUME NEW k \in 0..(MinLen - 1), LineFrom(placed, x - k * 1, y - k * 0, 1, 0)
        PROVE  \E u \in left..right : CheckLine(placed, Horizontal, ToIndex(u, y))
    <3> DEFINE u == x - k
    <3>1. u \in Int /\ LineFrom(placed, u, y, 1, 0)
      <4>1. y - k * 0 = y /\ x - k * 1 = u /\ u \in Int
        BY <1>1
      <4> QED BY <2>2, <4>1
    <3>2. <<u, y>> \in Cells /\ <<u + (MinLen - 1) * 1, y + (MinLen - 1) * 0>> \in Cells
      BY <1>1, <3>1, LineEnds
    <3>3. u \in 0..(ColumnSize - 1) /\ u + (MinLen - 1) * 1 \in 0..(ColumnSize - 1)
      BY <3>2 DEF Cells
    <3>4. u \in left..right
      BY <1>1, <1>4, <3>3
    <3>5. CheckLine(placed, Horizontal, ToIndex(u, y))
      BY <1>1, <3>1, <3>3, CheckLineIsLine
    <3> QED BY <3>4, <3>5
  <2> QED BY <2>1, <2>2 DEF Through
<1>7. (\E u \in left..right :
         rise(u) \in 0..(MaxHeight - 1) /\ CheckLine(placed, Rising, ToIndex(u, rise(u))))
      <=> Through(placed, x, y, 1, 1)
  <2>1. ASSUME NEW u \in left..right, rise(u) \in 0..(MaxHeight - 1),
               CheckLine(placed, Rising, ToIndex(u, rise(u)))
        PROVE  Through(placed, x, y, 1, 1)
    <3>1. LineFrom(placed, u, rise(u), 1, 1)
      BY <1>1, <1>3, <2>1, CheckLineIsLine
    <3>2. x - u \in 0..(MinLen - 1) /\ x - (x - u) * 1 = u /\ y - (x - u) * 1 = rise(u)
      BY <1>1, <1>3, <2>1
    <3> QED BY <3>1, <3>2 DEF Through
  <2>2. ASSUME NEW k \in 0..(MinLen - 1), LineFrom(placed, x - k * 1, y - k * 1, 1, 1)
        PROVE  \E u \in left..right :
                 rise(u) \in 0..(MaxHeight - 1) /\ CheckLine(placed, Rising, ToIndex(u, rise(u)))
    <3> DEFINE u == x - k
               v == y - k
    <3>1. u \in Int /\ v \in Int /\ v = rise(u) /\ LineFrom(placed, u, v, 1, 1)
      <4>1. y - k * 1 = v /\ x - k * 1 = u /\ u \in Int /\ v \in Int /\ v = rise(u)
        BY <1>1
      <4> QED BY <2>2, <4>1
    <3>2. <<u, v>> \in Cells /\ <<u + (MinLen - 1) * 1, v + (MinLen - 1) * 1>> \in Cells
      BY <1>1, <3>1, LineEnds
    <3>3. /\ u \in 0..(ColumnSize - 1) /\ u + (MinLen - 1) * 1 \in 0..(ColumnSize - 1)
          /\ v \in 0..(MaxHeight - 1)
      BY <3>2 DEF Cells
    <3>4. u \in left..right
      BY <1>1, <1>4, <3>3
    <3>5. CheckLine(placed, Rising, ToIndex(u, v))
      BY <1>1, <3>1, <3>3, CheckLineIsLine
    <3> QED BY <3>1, <3>3, <3>4, <3>5
  <2> QED BY <2>1, <2>2 DEF Through
<1>8. (\E u \in left..right :
         /\ fall(u) \in 0..(MaxHeight - 1)
         /\ CheckLine(placed, Falling, ToIndex(u, fall(u)) - (MinLen - 1)))
      <=> Through(placed, x, y, 1, -1)
  <2>1. ASSUME NEW u \in left..right, fall(u) \in 0..(MaxHeight - 1),
               CheckLine(placed, Falling, ToIndex(u, fall(u)) - (MinLen - 1))
        PROVE  Through(placed, x, y, 1, -1)
    <3>1. LineFrom(placed, u, fall(u), 1, -1)
      BY <1>1, <1>3, <2>1, CheckLineIsLine
    <3>2. x - u \in 0..(MinLen - 1) /\ x - (x - u) * 1 = u /\ y - (x - u) * (-1) = fall(u)
      BY <1>1, <1>3, <2>1
    <3> QED BY <3>1, <3>2 DEF Through
  <2>2. ASSUME NEW k \in 0..(MinLen - 1), LineFrom(placed, x - k * 1, y - k * (-1), 1, -1)
        PROVE  \E u \in left..right :
                 /\ fall(u) \in 0..(MaxHeight - 1)
                 /\ CheckLine(placed, Falling, ToIndex(u, fall(u)) - (MinLen - 1))
    <3> DEFINE u == x - k
               v == y + k
    <3>1. u \in Int /\ v \in Int /\ v = fall(u) /\ LineFrom(placed, u, v, 1, -1)
      <4>1. y - k * (-1) = v /\ x - k * 1 = u /\ u \in Int /\ v \in Int /\ v = fall(u)
        BY <1>1
      <4> QED BY <2>2, <4>1
    <3>2. <<u, v>> \in Cells /\ <<u + (MinLen - 1) * 1, v + (MinLen - 1) * (-1)>> \in Cells
      BY <1>1, <3>1, LineEnds
    <3>3. /\ u \in 0..(ColumnSize - 1) /\ u + (MinLen - 1) * 1 \in 0..(ColumnSize - 1)
          /\ v \in 0..(MaxHeight - 1)
      BY <3>2 DEF Cells
    <3>4. u \in left..right
      BY <1>1, <1>4, <3>3
    <3>5. CheckLine(placed, Falling, ToIndex(u, v) - (MinLen - 1))
      BY <1>1, <3>1, <3>3, CheckLineIsLine
    <3> QED BY <3>1, <3>3, <3>4, <3>5
  <2> QED BY <2>1, <2>2 DEF Through
<1> QED BY <1>5, <1>6, <1>7, <1>8 DEF Check, left, right, bottom, top

-----------------------------------------------------------------------------
\* Lines of a board and the stone that completes one.

\* A line of stones begins at x, y.
LineAt(placed, x, y) ==
  \/ LineFrom(placed, x, y, 0, 1) \/ LineFrom(placed, x, y, 1, 0)
  \/ LineFrom(placed, x, y, 1, 1) \/ LineFrom(placed, x, y, 1, -1)

\* A player has a line: check finds it through one of his stones.
LineOf(placed) ==
  \E a \in Cells : ToIndex(a[1], a[2]) \in placed /\ Check(placed, a[1], a[2])

\* A line goes through its first stone, and through whichever other check looks at.
LEMMA LineOfBegins ==
  ASSUME NEW placed
  PROVE  LineOf(placed) <=> \E a \in Cells : LineAt(placed, a[1], a[2])
<1>1. ASSUME NEW a \in Cells, Check(placed, a[1], a[2])
      PROVE  \E b \in Cells : LineAt(placed, b[1], b[2])
  <2>1. a = <<a[1], a[2]>> /\ a[1] \in Int /\ a[2] \in Int
    BY BoardAssumption DEF Cells
  <2>2. ASSUME NEW dx \in Int, NEW dy \in Int, Through(placed, a[1], a[2], dx, dy)
        PROVE  \E b \in Cells : LineFrom(placed, b[1], b[2], dx, dy)
    <3>1. PICK k \in 0..(MinLen - 1) : LineFrom(placed, a[1] - k * dx, a[2] - k * dy, dx, dy)
      BY <2>2 DEF Through
    <3> DEFINE u == a[1] - k * dx
               v == a[2] - k * dy
    <3>2. u \in Int /\ v \in Int
      BY <2>1
    <3> HIDE DEF u, v
    <3>3. LineFrom(placed, u, v, dx, dy)
      BY <3>1 DEF u, v
    <3>4. <<u, v>> \in Cells
      BY <3>2, <3>3, LineEnds
    <3> QED BY <3>3, <3>4
  <2>3. /\ 0 \in Int /\ 1 \in Int /\ -1 \in Int
        /\ \/ Through(placed, a[1], a[2], 0, 1) \/ Through(placed, a[1], a[2], 1, 0)
           \/ Through(placed, a[1], a[2], 1, 1) \/ Through(placed, a[1], a[2], 1, -1)
    BY <1>1, <2>1, CheckFindsLine
  <2> QED BY <2>2, <2>3 DEF LineAt
<1>2. ASSUME NEW a \in Cells, LineAt(placed, a[1], a[2])
      PROVE  ToIndex(a[1], a[2]) \in placed /\ Check(placed, a[1], a[2])
  <2>1. a = <<a[1], a[2]>> /\ a[1] \in Int /\ a[2] \in Int /\ 0 \in 0..(MinLen - 1)
    BY BoardAssumption DEF Cells
  <2>2. ASSUME NEW dx \in Int, NEW dy \in Int, LineFrom(placed, a[1], a[2], dx, dy)
        PROVE  ToIndex(a[1], a[2]) \in placed /\ Through(placed, a[1], a[2], dx, dy)
    <3>1. /\ a[1] + 0 * dx = a[1] /\ a[2] + 0 * dy = a[2]
          /\ a[1] - 0 * dx = a[1] /\ a[2] - 0 * dy = a[2]
      BY <2>1
    <3>2. StoneAt(placed, a[1] + 0 * dx, a[2] + 0 * dy)
      BY <2>1, <2>2 DEF LineFrom
    <3>3. ToIndex(a[1], a[2]) \in placed
      BY <3>1, <3>2 DEF StoneAt
    <3>4. Through(placed, a[1], a[2], dx, dy)
      BY <2>1, <2>2, <3>1 DEF Through
    <3> QED BY <3>3, <3>4
  <2>3. 0 \in Int /\ 1 \in Int /\ -1 \in Int
    OBVIOUS
  <2> QED BY <1>2, <2>1, <2>2, <2>3, CheckFindsLine DEF LineAt
<1> QED BY <1>1, <1>2 DEF LineOf

\* A line stays a line.
LEMMA LineKept ==
  ASSUME NEW placed, NEW more, placed \subseteq more, LineOf(placed)
  PROVE  LineOf(more)
<1>1. ASSUME NEW x, NEW y, NEW dx, NEW dy, LineFrom(placed, x, y, dx, dy)
      PROVE  LineFrom(more, x, y, dx, dy)
  BY <1>1 DEF LineFrom, StoneAt
<1>2. PICK a \in Cells : LineAt(placed, a[1], a[2])
  BY LineOfBegins
<1>3. LineAt(more, a[1], a[2])
  BY <1>1, <1>2 DEF LineAt
<1> QED BY <1>2, <1>3, LineOfBegins

\* A line that a stone completes goes through it: advance need not look at any other.
LEMMA NewLineIsThroughStone ==
  ASSUME NEW placed, NEW x, NEW y, <<x, y>> \in Cells,
         NEW more, more = placed \cup {ToIndex(x, y)}
  PROVE  LineOf(more) <=> LineOf(placed) \/ Check(more, x, y)
<1>1. /\ x \in Int /\ y \in Int /\ y \in 0..(FullHeight - 1)
      /\ 0 \in Int /\ 1 \in Int /\ -1 \in Int
  BY BoardAssumption DEF Cells
<1>2. ASSUME NEW u \in Int, NEW v \in Int, NEW dx \in Int, NEW dy \in Int,
             LineFrom(more, u, v, dx, dy)
      PROVE  LineFrom(placed, u, v, dx, dy) \/ Through(more, x, y, dx, dy)
  <2>1. SUFFICES ASSUME NEW k \in 0..(MinLen - 1), ~StoneAt(placed, u + k * dx, v + k * dy)
                 PROVE  Through(more, x, y, dx, dy)
    BY DEF LineFrom
  <2>2. StoneAt(more, u + k * dx, v + k * dy)
    BY <1>2 DEF LineFrom
  <2>3. /\ <<u + k * dx, v + k * dy>> \in Cells
        /\ ToIndex(u + k * dx, v + k * dy) = ToIndex(x, y)
    BY <2>1, <2>2 DEF StoneAt
  <2> DEFINE s == u + k * dx
             t == v + k * dy
  <2>4. s \in Int /\ t \in 0..(FullHeight - 1)
    <3>1. <<s, t>> \in Cells
      BY <2>3
    <3> HIDE DEF s, t
    <3> QED BY <3>1, BoardAssumption DEF Cells
  <2>5. s = x /\ t = y
    <3>1. ToIndex(s, t) = ToIndex(x, y)
      BY <2>3
    <3> HIDE DEF s, t
    <3> QED BY <1>1, <2>4, <3>1, IndexUnique
  <2>6. x - k * dx = u /\ y - k * dy = v
    <3>1. k * dx \in Int /\ k * dy \in Int
      BY BoardAssumption
    <3> QED BY <1>1, <2>5, <3>1
  <2> QED BY <1>2, <2>6 DEF Through
<1>3. ASSUME LineOf(more) PROVE LineOf(placed) \/ Check(more, x, y)
  <2>1. PICK b \in Cells : LineAt(more, b[1], b[2])
    BY <1>3, LineOfBegins
  <2>2. b[1] \in Int /\ b[2] \in Int
    BY BoardAssumption DEF Cells
  <2>3. \/ LineAt(placed, b[1], b[2])
        \/ Through(more, x, y, 0, 1) \/ Through(more, x, y, 1, 0)
        \/ Through(more, x, y, 1, 1) \/ Through(more, x, y, 1, -1)
    BY <1>1, <1>2, <2>1, <2>2 DEF LineAt
  <2> QED BY <2>3, CheckFindsLine, LineOfBegins
<1>4. ASSUME Check(more, x, y) PROVE LineOf(more)
  <2>1. ToIndex(x, y) \in more
    OBVIOUS
  <2> QED BY <1>4, <2>1 DEF LineOf
<1>5. LineOf(placed) => LineOf(more)
  BY LineKept
<1> QED BY <1>3, <1>4, <1>5

-----------------------------------------------------------------------------
\* Legal moves and stacked stones.

\* What a legal move does to the stones.
LEMMA AfterStones ==
  ASSUME NEW s, Exact(s), NEW a \in LegalActions(s.merged)
  PROVE  /\ s.player \in Players
         /\ \A p \in Players :
              After(s, a).boards[p].placed =
                IF p = s.player THEN s.boards[p].placed \cup {ToIndex(a[1], a[2])}
                                ELSE s.boards[p].placed
         /\ After(s, a).merged.placed = s.merged.placed \cup {ToIndex(a[1], a[2])}
         /\ \A p \in Players : ToIndex(a[1], a[2]) \notin s.boards[p].placed
<1> DEFINE me == s.player
           index == ToIndex(a[1], a[2])
           stones == s.boards[me].placed \cup {index}
           t == After(s, a)
<1>1. me \in Players /\ s.boards \in [Players -> Boards]
  BY DEF Exact, Stages
<1>2. BoardsAfter(s, a) =
        [s.boards EXCEPT ![me] = [placed |-> stones, digest |-> KeysOf(me, stones)]]
      /\ index \notin s.boards[0].placed /\ index \notin s.boards[1].placed
  BY PlaceStone
<1>3. t.boards = BoardsAfter(s, a)
  BY DEF After
<1>4. \A p \in Players :
        t.boards[p].placed = IF p = me THEN s.boards[p].placed \cup {index}
                                       ELSE s.boards[p].placed
  BY <1>1, <1>2, <1>3
<1>5. t.merged.placed = t.boards[0].placed \cup t.boards[1].placed
      /\ s.merged.placed = s.boards[0].placed \cup s.boards[1].placed
  <2>1. Exact(t)
    BY AfterExact
  <2> QED BY <2>1 DEF Exact, Both
<1>6. t.merged.placed = s.merged.placed \cup {index}
  BY <1>1, <1>4, <1>5 DEF Players
<1>7. \A p \in Players : index \notin s.boards[p].placed
  BY <1>2 DEF Players
<1> QED BY <1>1, <1>4, <1>6, <1>7

\* What advance answers to a legal move, and whose turn it is then.
LEMMA AfterAnswer ==
  ASSUME NEW s, NEW a
  PROVE  /\ ResultOf(s, a) \in {"Won", "Draw", "Placed"}
         /\ ResultOf(s, a) = "Won" <=> Check(After(s, a).boards[s.player].placed, a[1], a[2])
         /\ ResultOf(s, a) = "Draw" <=> ResultOf(s, a) # "Won" /\ Full(After(s, a).merged)
         /\ After(s, a).player = IF ResultOf(s, a) = "Placed" THEN 1 - s.player ELSE s.player
<1> DEFINE won == Check(BoardsAfter(s, a)[s.player].placed, a[1], a[2])
           full == Full(MergeBoards(BoardsAfter(s, a), s.player))
<1>1. ResultOf(s, a) = IF won THEN "Won" ELSE IF full THEN "Draw" ELSE "Placed"
  BY DEF ResultOf
<1>2. /\ After(s, a).boards = BoardsAfter(s, a)
      /\ After(s, a).merged = MergeBoards(BoardsAfter(s, a), s.player)
      /\ After(s, a).player = IF ResultOf(s, a) = "Placed" THEN 1 - s.player ELSE s.player
  BY DEF After
<1> QED BY <1>1, <1>2

\* The first stones of each column are placed, as many as tops says, and no other.
Stacked(placed, tops) ==
  /\ tops \in [0..(ColumnSize - 1) -> 0..MaxHeight]
  /\ placed \subseteq Mask
  /\ \A x \in 0..(ColumnSize - 1), y \in 0..(MaxHeight - 1) :
       ToIndex(x, y) \in placed <=> y < tops[x]

\* On stacked stones the legal move of a column is on their top.
LEMMA LegalOnTop ==
  ASSUME NEW board, NEW tops, Stacked(board.placed, tops), NEW a
  PROVE  a \in LegalActions(board) <=> a \in Cells /\ a[2] = tops[a[1]]
<1> DEFINE x == a[1]
           y == a[2]
<1>1. MaxHeight \in Nat /\ ColumnSize \in Nat
  BY BoardAssumption
<1>2. SUFFICES ASSUME a \in Cells, x \in 0..(ColumnSize - 1), y \in 0..(MaxHeight - 1)
      PROVE  (ToIndex(x, y) \notin board.placed
              /\ \A below \in 0..(y - 1) : ToIndex(x, below) \in board.placed)
             <=> y = tops[x]
  BY DEF LegalActions, Cells
<1> HIDE DEF x, y
<1>3. tops[x] \in 0..MaxHeight
  BY <1>2 DEF Stacked
<1>4. ToIndex(x, y) \notin board.placed <=> y >= tops[x]
  BY <1>1, <1>2, <1>3 DEF Stacked
<1>5. (\A below \in 0..(y - 1) : ToIndex(x, below) \in board.placed) <=> y <= tops[x]
  <2>1. \A below \in 0..(y - 1) : below \in 0..(MaxHeight - 1)
    BY <1>1, <1>2
  <2>2. (\A below \in 0..(y - 1) : ToIndex(x, below) \in board.placed)
        <=> \A below \in 0..(y - 1) : below < tops[x]
    BY <1>2, <2>1 DEF Stacked
  <2>3. (\A below \in 0..(y - 1) : below < tops[x]) <=> y <= tops[x]
    <3>1. ASSUME \A below \in 0..(y - 1) : below < tops[x], y > tops[x] PROVE FALSE
      <4>1. tops[x] \in 0..(y - 1)
        BY <1>1, <1>2, <1>3, <3>1
      <4> QED BY <1>3, <3>1, <4>1
    <3> QED BY <1>1, <1>2, <1>3, <3>1
  <2> QED BY <2>2, <2>3
<1> QED BY <1>1, <1>2, <1>3, <1>4, <1>5

\* A stacked board is full when all columns are, and then nothing is legal.
LEMMA FullColumns ==
  ASSUME NEW board, NEW tops, Stacked(board.placed, tops)
  PROVE  /\ Full(board) <=> \A x \in 0..(ColumnSize - 1) : tops[x] = MaxHeight
         /\ LegalActions(board) = {} <=> Full(board)
<1>1. MaxHeight \in Nat /\ ColumnSize \in Nat
  BY BoardAssumption
<1>2. Full(board) <=> board.placed = Mask
  BY MaskFinite, FS_Subset DEF Full, Stacked
<1>3. ASSUME \A x \in 0..(ColumnSize - 1) : tops[x] = MaxHeight PROVE Mask \subseteq board.placed
  <2>1. ASSUME NEW b \in Cells PROVE ToIndex(b[1], b[2]) \in board.placed
    <3>1. b[1] \in 0..(ColumnSize - 1) /\ b[2] \in 0..(MaxHeight - 1)
      BY DEF Cells
    <3>2. b[2] < tops[b[1]]
      BY <1>1, <1>3, <3>1
    <3> QED BY <3>1, <3>2 DEF Stacked
  <2> QED BY <2>1 DEF Mask
<1>4. ASSUME NEW x \in 0..(ColumnSize - 1), tops[x] # MaxHeight
      PROVE  <<x, tops[x]>> \in LegalActions(board) /\ board.placed # Mask
  <2>1. tops[x] \in 0..(MaxHeight - 1)
    BY <1>1, <1>4 DEF Stacked
  <2>2. <<x, tops[x]>> \in Cells
    BY <2>1 DEF Cells
  <2>3. <<x, tops[x]>> \in LegalActions(board)
    BY <2>2, LegalOnTop
  <2>4. ToIndex(x, tops[x]) \in Mask \ board.placed
    BY <2>3, LegalIsFree
  <2> QED BY <2>3, <2>4
<1>5. board.placed \subseteq Mask
  BY DEF Stacked
<1>6. Full(board) <=> \A x \in 0..(ColumnSize - 1) : tops[x] = MaxHeight
  BY <1>2, <1>3, <1>4, <1>5
<1>7. LegalActions(board) = {} <=> Full(board)
  <2>1. Full(board) => LegalActions(board) = {}
    BY <1>5, FullBoardHasNoMove
  <2> QED BY <1>4, <1>6, <2>1
<1> QED BY <1>6, <1>7

\* A legal move puts a stone on top of a column.
LEMMA StoneOnTop ==
  ASSUME NEW board, NEW tops, Stacked(board.placed, tops), NEW a \in LegalActions(board)
  PROVE  /\ a = <<a[1], a[2]>> /\ a \in Cells
         /\ a[1] \in 0..(ColumnSize - 1) /\ a[2] \in 0..(MaxHeight - 1) /\ a[2] = tops[a[1]]
         /\ Stacked(board.placed \cup {ToIndex(a[1], a[2])}, [tops EXCEPT ![a[1]] = @ + 1])
<1> DEFINE x == a[1]
           y == a[2]
           more == board.placed \cup {ToIndex(x, y)}
           tops2 == [tops EXCEPT ![x] = @ + 1]
<1>1. MaxHeight \in Nat /\ ColumnSize \in Nat /\ FullHeight \in Nat /\ MaxHeight < FullHeight
  BY BoardAssumption
<1>2. /\ a = <<x, y>> /\ a \in Cells /\ x \in 0..(ColumnSize - 1) /\ y \in 0..(MaxHeight - 1)
      /\ y = tops[x]
  <2>1. a \in Cells /\ a[2] = tops[a[1]]
    BY LegalOnTop
  <2> QED BY <2>1 DEF Cells
<1> HIDE DEF x, y
<1>3. tops \in [0..(ColumnSize - 1) -> 0..MaxHeight]
  BY DEF Stacked
<1>4. tops2 \in [0..(ColumnSize - 1) -> 0..MaxHeight]
      /\ tops2[x] = y + 1 /\ \A u \in 0..(ColumnSize - 1) \ {x} : tops2[u] = tops[u]
  BY <1>1, <1>2, <1>3
<1> HIDE DEF tops2
<1>5. more \subseteq Mask
  <2>1. ToIndex(x, y) \in Mask
    BY LegalIsFree DEF x, y
  <2> QED BY <2>1 DEF Stacked
<1>6. ASSUME NEW u \in 0..(ColumnSize - 1), NEW v \in 0..(MaxHeight - 1)
      PROVE  ToIndex(u, v) \in more <=> v < tops2[u]
  <2>1. ToIndex(u, v) = ToIndex(x, y) <=> u = x /\ v = y
    <3>1. u \in Int /\ x \in Int /\ v \in 0..(FullHeight - 1) /\ y \in 0..(FullHeight - 1)
      BY <1>1, <1>2
    <3> QED BY <3>1, IndexUnique
  <2>2. ToIndex(u, v) \in board.placed <=> v < tops[u]
    BY DEF Stacked
  <2>3. CASE u = x
    BY <1>1, <1>2, <1>4, <2>1, <2>2, <2>3
  <2>4. CASE u # x
    BY <1>4, <2>1, <2>2, <2>4
  <2> QED BY <2>3, <2>4
<1>7. Stacked(more, tops2)
  BY <1>4, <1>5, <1>6 DEF Stacked
<1> QED BY <1>2, <1>7 DEF x, y, more, tops2

\* Nothing is placed on the empty board.
LEMMA EmptyStacked == Stacked(InitialStage.merged.placed, [x \in 0..(ColumnSize - 1) |-> 0])
<1>1. MaxHeight \in Nat
  BY BoardAssumption
<1>2. InitialStage.merged.placed = {}
  <2>1. [p \in Players |-> EmptyBoard][0] = EmptyBoard /\ [p \in Players |-> EmptyBoard][1] = EmptyBoard
    BY DEF Players
  <2>2. InitialStage.merged.placed = SymDiff({}, {})
    BY <2>1 DEF InitialStage, MergeBoards, Merge, EmptyBoard
  <2> QED BY <2>2 DEF SymDiff
<1> QED BY <1>1, <1>2 DEF Stacked
=============================================================================
