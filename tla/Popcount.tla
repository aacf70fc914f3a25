------------------------------ MODULE Popcount ------------------------------
(***************************************************************************)
(* countPopulation of popcount/popcount_asm.s: the number of ones in a     *)
(* buffer, four YMM registers at a time. Fields of a doubleword are added  *)
(* to their neighbours, twice as wide each time, until there is one count  *)
(* in each word; then the words of a lane are added.                       *)
(*                                                                         *)
(* A register has two lanes of eight words, a word 16 bits. A doubleword   *)
(* is an even word and, as its upper half, the next one.                   *)
(***************************************************************************)
EXTENDS Integers, Sequences, FiniteSetsExt

CONSTANTS
  Words,      \* the words of the buffers
  MaxBlocks   \* bound: buffers have up to this many times four registers

VARIABLES
  buffer,  \* the registers of AlignedBuffer
  addr,    \* regSrcAddr: the register that is loaded first
  rcx,     \* regLoop
  work,    \* yRegWork0, 2, 4 and 6
  field,   \* the width of the fields in work
  sum,     \* yRegSum: the count of each lane
  rax,     \* regSumQ
  pc

vars == <<buffer, addr, rcx, work, field, sum, rax, pc>>

Lanes == {0, 1}
WordIndexes == 0 .. 7
Modulus == 65536

\* The four registers of a round of the loop, word by word.
Places == (0 .. 3) \X Lanes \X WordIndexes

\* A buffer of one word, or with another one at one end of a lane of one register.
Filled(word) == [lane \in Lanes |-> [i \in WordIndexes |-> word]]

Buffers ==
  {[r \in 1 .. 4 * blocks |->
     IF r = other THEN [Filled(word) EXCEPT ![lane][i] = another] ELSE Filled(word)] :
       blocks \in 1 .. MaxBlocks, other \in {0, 1, 4 * MaxBlocks}, lane \in Lanes,
       i \in {0, 7}, word \in Words, another \in Words}

Init ==
  /\ buffer \in Buffers
  /\ addr = 1
  /\ rcx = Len(buffer)
  /\ work = [place \in Places |-> 0]
  /\ field = 1
  /\ sum = [lane \in Lanes |-> 0]
  /\ rax = 0
  /\ pc = "load"

Load ==
  /\ pc = "load"
  /\ work' = [place \in Places |-> buffer[addr + place[1]][place[2]][place[3]]]
  /\ field' = 1
  /\ pc' = "convolute"
  /\ UNCHANGED <<buffer, addr, rcx, sum, rax>>

\* A word under yRegMask0, ..., yRegMask3: every other field of the width.
Masked(word, width) ==
  MapThenSumSet(LAMBDA at : ((word \div at) % 2 ^ width) * at,
                {4 ^ (width * k) : k \in 0 .. (8 \div width) - 1})

\* ConvoluteYmmBits on the doubleword of the words high and low: what it shifts out of high
\* comes into low, and what low cannot hold is carried into high.
Convoluted(high, low, width) ==
  LET fromHigh == (high * 2 ^ (16 - width)) % Modulus
      lowSum == Masked((low \div 2 ^ width) + fromHigh, width) + Masked(low, width)
      highSum == Masked(high \div 2 ^ width, width) + Masked(high, width) + (lowSum \div Modulus)
  IN [high |-> highSum % Modulus, low |-> lowSum % Modulus]

\* Mutated Widest: the last of the four convolutions is missing.
WidestButOne == 4

\* ConvoluteYmmRegister goes on up to this width; the wider one is commented out.
Widest == 8

ConvoluteBits ==
  /\ pc = "convolute"
  /\ work' = [place \in Places |->
       LET even == 2 * (place[3] \div 2)
           double == Convoluted(work[place[1], place[2], even + 1],
                                work[place[1], place[2], even], field)
       IN IF place[3] = even THEN double.low ELSE double.high]
  /\ field' = 2 * field
  /\ pc' = IF field < Widest THEN "convolute" ELSE "add"
  /\ UNCHANGED <<buffer, addr, rcx, sum, rax>>

\* vphaddw of a register with itself, three times: neighbours are added in the lane.
AddNeighbours ==
  /\ pc = "add"
  /\ work' = [place \in Places |->
       LET first == 2 * (place[3] % 4)
       IN (work[place[1], place[2], first] + work[place[1], place[2], first + 1]) % Modulus]
  /\ field' = 2 * field
  /\ pc' = IF field < 64 THEN "add" ELSE "sum"
  /\ UNCHANGED <<buffer, addr, rcx, sum, rax>>

\* yRegMaskCount leaves the first word of a lane.
SumRegisters ==
  /\ pc = "sum"
  /\ sum' = [lane \in Lanes |-> sum[lane] + MapThenSumSet(LAMBDA r : work[r, lane, 0], 0 .. 3)]
  /\ addr' = addr + 4
  /\ rcx' = rcx - 4
  /\ pc' = IF rcx' > 0 THEN "load" ELSE "return"
  /\ UNCHANGED <<buffer, work, field, rax>>

Return ==
  /\ pc = "return"
  /\ rax' = sum[0] + sum[1]
  /\ pc' = "returned"
  /\ UNCHANGED <<buffer, addr, rcx, work, field, sum>>

Step == Load \/ ConvoluteBits \/ AddNeighbours \/ SumRegisters \/ Return
Ended == pc = "returned"

-----------------------------------------------------------------------------
Ones(word) == Cardinality({b \in 0 .. 15 : (word \div 2 ^ b) % 2 = 1})

\* The count is that of popcnt on each element (CountByIntrinsic), however the ones lie: no
\* field spills into the next one, and no word, lane, register or block is left out.
CountsOnes ==
  Ended =>
    rax = MapThenSumSet(
            LAMBDA r : MapThenSumSet(
              LAMBDA lane : MapThenSumSet(LAMBDA i : Ones(buffer[r][lane][i]), WordIndexes),
              Lanes),
            DOMAIN buffer)
=============================================================================
