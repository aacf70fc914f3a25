---------------------------- MODULE TowerOfHanoi ----------------------------
(***************************************************************************)
(* tower_of_hanoi.py: a tower of disks is moved from the first rod, with   *)
(* three rods by the bits of the number of the move (move_slow), with more *)
(* rods than disks by laying the disks out (move_fast). Disk 1 is the      *)
(* largest; a rod is an array from the bottom in which 0 is no disk.       *)
(***************************************************************************)
EXTENDS Integers, Sequences, FiniteSets, FiniteSetsExt, Functions

CONSTANT Towers  \* the towers that are shown, <<n_rods, n_disks>>

VARIABLES
  tower,
  rods,
  count,
  wrong,   \* the assertion of move has failed
  images   \* the count of make_images: calls of move that answer True are left

vars == <<tower, rods, count, wrong, images>>

NRods == tower[1]
NDisks == tower[2]
Rods == 0 .. NRods - 1
Places == 0 .. NDisks - 1

FastMode == NRods > NDisks
NMoves == IF FastMode THEN NDisks * 2 - 1 ELSE 2 ^ NDisks

Init ==
  /\ tower \in Towers
  /\ rods = [r \in Rods |-> [y \in Places |-> IF r = 0 THEN y + 1 ELSE 0]]
  /\ count = 0
  /\ wrong = FALSE
  /\ images = 2

\* np.argmax: the first place of the largest element.
ArgMax(rod) ==
  Min({y \in Places : \A z \in Places : rod[z] <= rod[y]})

\* np.argmax(rod == 0): the first place without disk, the first of all if there is none.
FirstFree(rod) ==
  IF 0 \in Range(rod) THEN Min({y \in Places : rod[y] = 0}) ELSE 0

\* Mutated MoveFast: the last disk is not moved by itself.
MoveFastTooEarly ==
  IF count >= NDisks - 1 THEN <<NDisks * 2 - 1 - count, NDisks>> ELSE <<0, count + 1>>

MoveFast ==
  IF count >= NDisks THEN <<NDisks * 2 - 1 - count, NDisks>> ELSE <<0, count + 1>>

\* The lowest bit that is set in the number of a move other than 0.
LowestBit == Max({2 ^ k : k \in {k \in 0 .. NDisks : count % 2 ^ k = 0}})

\* count & (count - 1) is count without its lowest bit, and count | (count - 1) has all bits
\* below it as well. For Python 0 - 1 has all bits.
MoveSlow ==
  IF count = 0 THEN <<0, 0>>
  ELSE <<(count - LowestBit) % NRods, (count + LowestBit) % NRods>>

\* A rod is sorted when its free places count as the last disk, and no disk is missing.
Check(theRods) ==
  LET Filled(rod, y) == IF rod[y] = 0 THEN NDisks ELSE rod[y]
      sum[k \in 0 .. NRods * NDisks] ==
        IF k = 0 THEN 0 ELSE sum[k - 1] + theRods[(k - 1) \div NDisks][(k - 1) % NDisks]
  IN /\ \A r \in Rods, y \in 1 .. NDisks - 1 : Filled(theRods[r], y - 1) <= Filled(theRods[r], y)
     /\ sum[NRods * NDisks] = (NDisks * (NDisks + 1)) \div 2

Moved(from, to) ==
  LET top == ArgMax(rods[from])
      taken == [rods EXCEPT ![from][top] = 0]
  IN [taken EXCEPT ![to][FirstFree(taken[to])] = rods[from][top]]

\* make_images calls move until it has answered twice that the tower is moved.
Move ==
  /\ images > 0
  /\ ~wrong
  /\ IF count < NMoves
     THEN /\ \E move \in {IF FastMode THEN MoveFast ELSE MoveSlow} :
               rods' = Moved(move[1], move[2])
          /\ count' = count + 1
          /\ wrong' = ~Check(rods')
     ELSE UNCHANGED <<rods, count, wrong>>
  /\ images' = IF count' >= NMoves /\ ~wrong' THEN images - 1 ELSE images
  /\ UNCHANGED tower

Step == Move
Ended == images = 0 \/ wrong

-----------------------------------------------------------------------------
\* The rules of the game, which the assertion looks at less closely: after every move each
\* disk is on one rod, and no disk lies on a smaller one or over a free place. When the
\* images end the tower stands on another rod, whole.
TowerMoved ==
  /\ ~wrong
  /\ \A d \in 1 .. NDisks : Cardinality({p \in Rods \X Places : rods[p[1]][p[2]] = d}) = 1
  /\ \A r \in Rods, y \in 1 .. NDisks - 1 :
       rods[r][y] # 0 => rods[r][y - 1] # 0 /\ rods[r][y - 1] < rods[r][y]
  /\ Ended => \E r \in Rods \ {0} : \A y \in Places : rods[r][y] = y + 1
=============================================================================
