---------------------------- MODULE SharedCellsMC -----------------------------
EXTENDS SharedCells

CONSTANTS t1, t2, t3

Cell(a, width) == [t |-> "MEM", at |-> a, v |-> width]
Imm(n) == [t |-> "IMM", data |-> n]
Register == [t |-> "REG"]
MOV(d, s) == [op |-> "MOV", dst |-> d, src |-> s]
ADD(d, s) == [op |-> "ADD", dst |-> d, src |-> s]

Run(p, q, r) == [t \in {t1, t2, t3} |-> IF t = t1 THEN p ELSE IF t = t2 THEN q ELSE r]

\* Two and three threads that count in one byte.
Increment == ADD(Cell(0, 1), Imm(1))
Counting ==
  {Run(<<Increment, Increment>>, <<Increment, Increment>>, << >>),
   Run(<<Increment, Increment>>, <<Increment>>, <<Increment>>)}

\* One stores a number whose bytes are all new, the other sees it and clears it.
Answering ==
  {Run(<<MOV(c, Imm(n))>>, <<MOV(Register, c), MOV(c, Imm(0))>>, << >>) :
     <<c, n>> \in {<<Cell(0, 1), 3>>, <<Cell(1, 2), 19>>, <<Cell(0, 4), 344>>}}

\* Cells next to each other, with a carry out of each, and cells that overlap.
Neighbours ==
  {Run(<<ADD(Cell(0, 1), Imm(6)), ADD(Cell(0, 1), Imm(9))>>,
       <<MOV(Cell(1, 2), Imm(49)), MOV(Cell(3, 1), Imm(3))>>,
       << >>),
   Run(<<ADD(Cell(1, 2), Imm(8)), ADD(Cell(1, 2), Cell(3, 1))>>,
       <<MOV(Cell(0, 1), Imm(2)), MOV(Cell(3, 1), Cell(0, 1))>>,
       <<MOV(Register, Cell(1, 2))>>),
   Run(<<ADD(Cell(0, 4), Imm(624))>>,
       <<MOV(Cell(2, 2), Imm(7)), MOV(Register, Cell(2, 2))>>, << >>)}

AllPrograms == Counting \cup Answering \cup Neighbours
=============================================================================
