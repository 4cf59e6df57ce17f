------------------------------- MODULE AluMC -------------------------------
(* Instances of Alu: bytes of two bits, words of eight, two registers.     *)
EXTENDS Alu

CONSTANTS
  OpsUsed,            \* the operations the run executes
  DestinationWords,   \* what r0, the destination, may hold
  SourceWords         \* what r1, the source, may hold

MCRegisterFiles ==
  {[r \in Regs |-> Wrap(IF r = "r0" THEN d ELSE s)] : d \in DestinationWords, s \in SourceWords}

\* Eight bytes, all different from their neighbours, the last two bits of each
\* address and their complement.
MCMemories == {[a \in Addr |-> Wrap(IF a < 4 THEN (3 * a + 1) % 4 ELSE (a + 2) % 4)]}

MCWidths == BYTE .. INT

RegisterAt(r, v) == [t |-> "reg", r |-> r, v |-> v]
Immediate(x, v) == [t |-> "imm", val |-> x, v |-> v]
Place(base, index, disp, v) ==
  [t |-> "mem", base |-> base, bv |-> BYTE, index |-> index, iv |-> SHORT,
   disp |-> disp, v |-> v]

Pair(a, b) == [op : OpsUsed, op1 : a, op2 : b]

\* Every pair of widths from register to register and to a fixed place; then
\* sources in memory, addresses in registers, and immediates on either side.
MCInsns ==
  Pair({RegisterAt("r0", v) : v \in MCWidths} \union {Place("none", "none", 2, v) : v \in MCWidths},
       {RegisterAt("r1", v) : v \in MCWidths})
  \union Pair({RegisterAt("r0", SHORT)}, {Place("none", "none", 3, v) : v \in MCWidths})
  \union Pair({Place("r1", "none", 1, SHORT), Place("r1", "r0", 0, BYTE)}, {Immediate(2, BYTE)})
  \union Pair({Immediate(3, BYTE)}, {RegisterAt("r1", BYTE)})
=============================================================================
