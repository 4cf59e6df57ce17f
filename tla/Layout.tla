-------------------------------- MODULE Layout --------------------------------
(* The second half of WeeperVM_compile.py: the compiled instructions are     *)
(* shuffled, each is given the address of the instruction that follows it in *)
(* the source, and references to labels are resolved.                        *)
EXTENDS Naturals, Sequences, SequencesExt

CONSTANTS
  Insns,     \* the number of instructions of the program
  Sizes,     \* lengths an instruction may have
  Refs       \* the instructions that refer to a label; each label is a place

ASSUME LayoutAssumption ==
  Insns \in Nat \ {0} /\ Sizes \subseteq Nat \ {0} /\ Refs \subseteq 1 .. Insns

VARIABLES
  size,      \* the length of each instruction, by its place in the source
  order,     \* the place in the source of each instruction of the code
  fall,      \* the last three bytes of each instruction
  carry,     \* the variable fallthrough of the compiler
  label,     \* the place each reference means; Insns + 1 is behind the end
  operand,   \* the operand of each reference
  corrected, \* how many fallthroughs have been corrected
  phase      \* "shuffle", "correct", "resolve" or "laid"

vars == <<size, order, fall, carry, label, operand, corrected, phase>>

Place == 1 .. Insns

\* Three bytes: an address, encrypted with 0xDC2606 or not.  A second time
\* decrypts.
Plain(a) == [address |-> a, keyed |-> FALSE]
Xored(w) == [w EXCEPT !.keyed = ~ @]

Placeholder == 1122867   \* 0x112233, what the first pass leaves for a label
Pattern == 11534517      \* 0xb000b5, what the last pass replaces

\* reordering: where in the code an instruction of the source stands.
Position(old) == CHOOSE new \in Place : order[new] = old

\* The lengths of the first instructions, summed up.
Sums(s) ==
  LET before[n \in 0 .. Insns] == IF n = 0 THEN 0 ELSE before[n - 1] + s[n]
  IN  before

\* Where the code at position new starts: the lengths of those before it.
Offset(new) == Sums([p \in Place |-> size[order[p]]])[new - 1]

Init ==
  /\ size \in [Place -> Sizes]
  /\ label \in [Refs -> 1 .. Insns + 1]
  /\ order = [p \in Place |-> p]
  /\ fall = [p \in Place |-> Plain(16777215)]
  /\ carry = Plain(Sums(size)[Insns])
  /\ operand = [r \in Refs |-> Placeholder]
  /\ corrected = 0
  /\ phase = "shuffle"

\* Mutant: the first instruction is shuffled with the others.
Shuffle_All ==
  /\ phase = "shuffle" /\ phase' = "correct"
  /\ order' \in SetToSeqs(Place)
  /\ UNCHANGED <<size, fall, carry, label, operand, corrected>>

\* The first instruction stays, the others come in any order.
Shuffle ==
  /\ phase = "shuffle" /\ phase' = "correct"
  /\ order' \in {<<1>> \o s : s \in SetToSeqs(Place \ {1})}
  /\ UNCHANGED <<size, fall, carry, label, operand, corrected>>

\* Mutant: the address is that of the instruction that follows in the code.
Correct_NextInCode ==
  LET new == corrected + 1
      old == order[new]
      word == IF new < Insns THEN Plain(Offset(new + 1)) ELSE carry
  IN /\ phase = "correct"
     /\ carry' = Xored(word)
     /\ fall' = [fall EXCEPT ![old] = carry']
     /\ corrected' = new
     /\ phase' = IF new = Insns THEN "resolve" ELSE "correct"
     /\ UNCHANGED <<size, order, label, operand>>

\* Instructions are corrected in the order of the code.  The last of the source
\* keeps what the one before it left in the variable (a misspelt assignment),
\* encrypted once more.
Correct ==
  LET new == corrected + 1
      old == order[new]
      word == IF old < Insns THEN Plain(Offset(Position(old + 1))) ELSE carry
  IN /\ phase = "correct"
     /\ carry' = Xored(word)
     /\ fall' = [fall EXCEPT ![old] = carry']
     /\ corrected' = new
     /\ phase' = IF new = Insns THEN "resolve" ELSE "correct"
     /\ UNCHANGED <<size, order, label, operand>>

\* A label behind the end stays behind the end.
LabelOffset(r) == Offset(IF label[r] \in Place THEN Position(label[r]) ELSE label[r])

\* The code replaces the pattern in all bytes of the referring instruction; here
\* in its reference only, where the placeholder stands, and not where header,
\* other operand or fallthrough happen to have the same three bytes.
Resolve ==
  /\ phase = "resolve" /\ phase' = "laid"
  /\ operand' = [r \in Refs |-> IF operand[r] = Pattern THEN LabelOffset(r) ELSE operand[r]]
  /\ UNCHANGED <<size, order, fall, carry, label, corrected>>

Laid == phase = "laid" /\ UNCHANGED vars

Next == Shuffle \/ Correct \/ Resolve \/ Laid

Spec == Init /\ [][Next]_vars

-----------------------------------------------------------------------------
\* "Label reference... use 3-byte placeholder" (WeeperVM_compile.py:339), to be
\* replaced once the offsets are known (448).  Violated: the pattern replaced is
\* not the placeholder.
LabelsResolved == phase = "laid" => \A r \in Refs : operand[r] = LabelOffset(r)
=============================================================================
