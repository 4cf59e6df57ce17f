-------------------------------- MODULE Alu --------------------------------
(* The instructions of emulate.c that compute: data movement, arithmetic,  *)
(* bitwise and special handlers, with the operand readers and the memory   *)
(* writers they share.  One thread executes them on its registers and on   *)
(* the virtual memory; PUT and GET are in Locals, control flow is in       *)
(* ControlFlow.                                                            *)
(*                                                                         *)
(* A word is the set of its bits, 0 the lowest.  Half a byte has H bits, 4  *)
(* in the code; every mask and shift of the code is a multiple of half a   *)
(* byte and scales with it, so that TLC can enumerate words.               *)
EXTENDS Integers

CONSTANTS
  H,             \* bits in half a byte
  Regs,          \* names of the registers in use
  MemTop,        \* the last address of the virtual memory
  MaxInsns       \* bound: instructions executed before the program exits

CONSTANTS
  RegisterFiles, \* the register contents the program may reach here with
  Memories,      \* the memory contents the program may reach here with
  Insns          \* the instructions of the program

VARIABLES
  vregs,    \* the virtual registers
  vmem,     \* the virtual memory
  insn,     \* the instruction executed last
  count,    \* how many have been executed
  status    \* "running", "exited" or "faulted"

vars == <<vregs, vmem, insn, count, status>>

BYTE == 1
SHORT == 2
INT == 3
Widths == BYTE .. INT

Trimming == {"ADD", "SUB", "MUL", "DIV", "MOD", "AND", "OR", "XOR", "SHL", "SHR", "NOT"}
Special == {"SWAP", "REV", "PACKHI", "PACKLO", "ROL", "ROR"}
Ops == {"MOV", "LEA"} \union Trimming \union Special

Bytes(v) == IF v = INT THEN 4 ELSE v
ByteBits == 2 * H
Width(v) == ByteBits * Bytes(v)
WordBits == Width(INT)
Bits == 0 .. WordBits - 1
Word == SUBSET Bits
Byte == SUBSET (0 .. ByteBits - 1)
Addr == 0 .. MemTop

\* A register, an immediate, or a place in memory: a base register (or none) plus
\* a displacement, itself immediate or held by an index register.
Operands ==
  [t : {"reg"}, r : Regs, v : Widths]
  \union [t : {"imm"}, val : Nat, v : Widths]
  \union [t : {"mem"}, base : Regs \union {"none"}, bv : Widths,
          index : Regs \union {"none"}, iv : Widths, disp : Nat, v : Widths]

ASSUME AluAssumption ==
  /\ H \in Nat \ {0} /\ MemTop \in Nat /\ MaxInsns \in Nat
  /\ RegisterFiles \subseteq [Regs -> Word] /\ Memories \subseteq [Addr -> Byte]
  /\ Insns \subseteq [op : Ops, op1 : Operands, op2 : Operands]

-----------------------------------------------------------------------------
(* Words and numbers, and the C operators on uint32_t.                     *)

\* The number of a word, from its highest bit downwards.
Value(w) ==
  LET high[n \in 0 .. WordBits] ==
        IF n = 0 THEN 0
        ELSE 2 * high[n - 1] + (IF WordBits - n \in w THEN 1 ELSE 0)
  IN high[WordBits]

\* The word of an integer, whose further bits are lost.
Wrap(x) ==
  LET half[n \in 0 .. WordBits] == IF n = 0 THEN x ELSE half[n - 1] \div 2
  IN {k \in Bits : half[k] % 2 = 1}

\* The processor takes a shift count modulo the width of the word.
ShiftL(w, n) == {k \in Bits : k - (n % WordBits) \in w}
ShiftR(w, n) == {k \in Bits : k + (n % WordBits) \in w}

\* POST_V_TRUNCATION keeps the bits a width covers, PRE_V_TRUNCATION the others.
Low(v) == 0 .. Width(v) - 1
PostTrunc(w, v) == w \intersect Low(v)
PreTrunc(w, v) == w \ Low(v)

-----------------------------------------------------------------------------
(* Reading operands and writing memory.                                    *)

Offset(op) ==
  LET base == IF op.base = "none" THEN 0 ELSE Value(PostTrunc(vregs[op.base], op.bv))
      disp == IF op.index = "none" THEN op.disp
              ELSE Value(PostTrunc(vregs[op.index], op.iv))
  IN Value(Wrap(base + disp))

\* A byte in place j of a word, and the byte of a word in that place.
AtByte(b, j) == {k + ByteBits * j : k \in b}
ByteAt(w, j) == {k \in 0 .. ByteBits - 1 : k + ByteBits * j \in w}

\* n bytes at an address, the most significant first.
Load(a, n) == UNION {AtByte(vmem[a + k], n - 1 - k) : k \in 0 .. n - 1}

\* What an operand has, read at width v.
DataAt(op, v) ==
  CASE op.t = "reg" -> PostTrunc(vregs[op.r], v)
    [] op.t = "imm" -> PostTrunc(Wrap(op.val), v)
    [] op.t = "mem" -> Load(Offset(op), Bytes(v))
OperandData(op) == DataAt(op, op.v)

\* VMEM_EXPANSION fills the bytes above the value from the memory behind the
\* destination, in the byte order of the host.
Expanded(w, v, a) == w \union UNION {AtByte(vmem[a + j], j) : j \in Bytes(v) .. 3}

\* Mutant: the second turn of a short forgets the displacement of two.
Written_NoAdjust(a, data, v) ==
  LET n == IF v = SHORT THEN 4 ELSE Bytes(v)
  IN [b \in Addr |-> IF b \in a .. a + n - 1 THEN ByteAt(data, a + n - 1 - b) ELSE vmem[b]]

\* Mutant: the bytes are not masked.
Written_NoMask(a, data, v) ==
  [b \in Addr |-> IF b \in a .. a + Bytes(v) - 1
                  THEN {k \in Bits : k + ByteBits * (a + Bytes(v) - 1 - b) \in data}
                  ELSE vmem[b]]

\* The bytes written at a for data of width v; a short is written twice, by the
\* routine for shorts and, displaced by two, by the one for ints.
Written(a, data, v) ==
  [b \in Addr |-> IF b \in a .. a + Bytes(v) - 1
                  THEN ByteAt(data, a + Bytes(v) - 1 - b) ELSE vmem[b]]

\* reg & mask | data, with data as it comes.
SetReg(r, v, data) == vregs' = [vregs EXCEPT ![r] = PreTrunc(@, v) \union data]

\* What an arithmetic handler works on: a register takes part whole, memory takes
\* part at the width of op1.
Old(i) == IF i.op1.t = "reg" THEN vregs[i.op1.r] ELSE Load(Offset(i.op1), Bytes(i.op1.v))
Source(i) == OperandData(i.op2)

\* A handler stores data at the width v, trimmed in a register if it is a handler
\* that trims, expanded in memory for the width x.
Store(i, v, x, data) ==
  \/ i.op1.t = "reg" /\ SetReg(i.op1.r, v, data) /\ UNCHANGED vmem
  \/ /\ i.op1.t = "mem"
     /\ LET a == Offset(i.op1) IN vmem' = Written(a, Expanded(data, x, a), v)
     /\ UNCHANGED vregs
  \/ i.op1.t = "imm" /\ UNCHANGED <<vregs, vmem>>

\* Mutant: the result is stored as it comes.
Compute_Untrimmed(i, result) == Store(i, i.op1.v, i.op1.v, result)

\* A handler that computes a result and trims it to the width of its destination;
\* in memory the expansion takes the place of the trimming.
Compute(i, result) ==
  Store(i, i.op1.v, i.op1.v, IF i.op1.t = "reg" THEN PostTrunc(result, i.op1.v) ELSE result)

\* The addresses a handler reads and writes, the expansion included.
Touched(i) ==
  LET At(op, n) == IF op.t = "mem" THEN Offset(op) .. Offset(op) + n - 1 ELSE {}
  IN IF i.op = "LEA"
     THEN At(i.op2, 4) \union At(i.op1, Bytes(i.op1.v))
          \union (IF At(i.op2, 4) \subseteq Addr THEN {Value(DataAt(i.op2, INT))} ELSE {})
     ELSE At(i.op1, 4) \union At(i.op2, Bytes(i.op2.v))

Divides(i) == i.op \in {"DIV", "MOD"} /\ i.op1.t # "imm"

\* In the process an access just beyond vmem may meet another mapping and not
\* fault; what it then does to that mapping is left out.
Faulty(i) == ~ (Touched(i) \subseteq Addr) \/ (Divides(i) /\ Source(i) = {})

-----------------------------------------------------------------------------
(* The handlers.                                                           *)

Mov(i) == Store(i, i.op1.v, i.op1.v, Source(i))

\* LEA reads its source at full width as an address, and one byte there.
Lea(i) == Store(i, i.op1.v, INT, Load(Value(DataAt(i.op2, INT)), 1))

Add(i) == Compute(i, Wrap(Value(Old(i)) + Value(Source(i))))
Sub(i) == Compute(i, Wrap(Value(Old(i)) - Value(Source(i))))
Mul(i) == Compute(i, Wrap(Value(Old(i)) * Value(Source(i))))
Div(i) == Compute(i, Wrap(Value(Old(i)) \div Value(Source(i))))
Mod(i) == Compute(i, Wrap(Value(Old(i)) % Value(Source(i))))
AndInsn(i) == Compute(i, Old(i) \intersect Source(i))
OrInsn(i) == Compute(i, Old(i) \union Source(i))
XorInsn(i) == Compute(i, (Old(i) \union Source(i)) \ (Old(i) \intersect Source(i)))

\* In memory the operands of a shift are exchanged.
Exchanged(i) == i.op \in {"SHL", "SHR"} /\ i.op1.t # "reg"
Shifted(i) == IF Exchanged(i) THEN Source(i) ELSE Old(i)
Distance(i) == Value(IF Exchanged(i) THEN Old(i) ELSE Source(i))
Shl(i) == Compute(i, ShiftL(Shifted(i), Distance(i)))
Shr(i) == Compute(i, ShiftR(Shifted(i), Distance(i)))

Not(i) == Compute(i, Bits \ Source(i))

Half(v) == H * Bytes(v)
LowMask(v) == 0 .. Half(v) - 1
HighMask(v) == Half(v) .. Width(v) - 1

Swap(i) ==
  LET s == Source(i)
      v == i.op2.v
  IN Store(i, i.op1.v, i.op1.v, ShiftR(s \intersect HighMask(v), Half(v))
                                \union ShiftL(s \intersect LowMask(v), Half(v)))

\* rev = rev << 1 | the lowest bit of what is left of the source.
Reversed(s, w) ==
  LET rev[n \in 0 .. WordBits] ==
        IF n = 0 THEN {}
        ELSE ShiftL(rev[n - 1], 1) \union {k \in {0} : n - 1 \in s}
  IN rev[w]
Rev(i) == Store(i, i.op1.v, i.op1.v, Reversed(Source(i), Width(i.op2.v)))

\* Both operands of a pack are read at the width of the second; the result is
\* written at the width of the first.
Destination(i) == DataAt(i.op1, i.op2.v)

PackHi(i) ==
  LET v == i.op2.v
  IN Store(i, i.op1.v, v, (Destination(i) \intersect HighMask(v))
                          \union ShiftR(Source(i) \intersect HighMask(v), Half(v)))

PackLo(i) ==
  LET v == i.op2.v
  IN Store(i, i.op1.v, v, (Destination(i) \intersect LowMask(v))
                          \union ShiftL(Source(i) \intersect LowMask(v), Half(v)))

\* Mutant: the rotation takes its width from the second operand.
Rol_SourceWidth(i) ==
  LET w == Width(i.op2.v)
      rot == Value(Source(i)) % w
      val == OperandData(i.op1)
  IN Store(i, i.op1.v, i.op1.v, ShiftL(val, rot) \union ShiftR(val, w - rot))

Rol(i) ==
  LET w == Width(i.op1.v)
      rot == Value(Source(i)) % w
      val == OperandData(i.op1)
  IN Store(i, i.op1.v, i.op1.v, ShiftL(val, rot) \union ShiftR(val, w - rot))

Ror(i) ==
  LET w == Width(i.op1.v)
      rot == Value(Source(i)) % w
      val == OperandData(i.op1)
  IN Store(i, i.op1.v, i.op1.v, ShiftR(val, rot) \union ShiftL(val, w - rot))

-----------------------------------------------------------------------------

None == [op |-> "none"]

Init ==
  /\ vregs \in RegisterFiles
  /\ vmem \in Memories
  /\ insn = None
  /\ count = 0
  /\ status = "running"

Begin(i) ==
  /\ status = "running" /\ count < MaxInsns
  /\ insn' = i /\ count' = count + 1

Execute(i) ==
  /\ Begin(i) /\ ~ Faulty(i) /\ UNCHANGED status
  /\ \/ i.op = "MOV" /\ Mov(i)
     \/ i.op = "LEA" /\ Lea(i)
     \/ i.op = "ADD" /\ Add(i)
     \/ i.op = "SUB" /\ Sub(i)
     \/ i.op = "MUL" /\ Mul(i)
     \/ i.op = "DIV" /\ Div(i)
     \/ i.op = "MOD" /\ Mod(i)
     \/ i.op = "AND" /\ AndInsn(i)
     \/ i.op = "OR" /\ OrInsn(i)
     \/ i.op = "XOR" /\ XorInsn(i)
     \/ i.op = "SHL" /\ Shl(i)
     \/ i.op = "SHR" /\ Shr(i)
     \/ i.op = "NOT" /\ Not(i)
     \/ i.op = "SWAP" /\ Swap(i)
     \/ i.op = "REV" /\ Rev(i)
     \/ i.op = "PACKHI" /\ PackHi(i)
     \/ i.op = "PACKLO" /\ PackLo(i)
     \/ i.op = "ROL" /\ Rol(i)
     \/ i.op = "ROR" /\ Ror(i)

\* A division by zero or an access outside the memory kills the process.
Fault(i) ==
  /\ Begin(i) /\ Faulty(i)
  /\ status' = "faulted" /\ UNCHANGED <<vregs, vmem>>

Exit ==
  /\ status = "running"
  /\ status' = "exited" /\ UNCHANGED <<vregs, vmem, insn, count>>

Ended == status # "running" /\ UNCHANGED vars

Next ==
  \/ \E i \in Insns : Execute(i) \/ Fault(i)
  \/ Exit
  \/ Ended

Spec == Init /\ [][Next]_vars

-----------------------------------------------------------------------------
(* The reference: what an instruction makes of the low bits of its         *)
(* destination, from the operands at their own widths, place by place.     *)

\* d and s are the values of the operands at their widths v and x.
Reference(op, d, v, s, x) ==
  LET n == Value(s)
  IN CASE op = "MOV" -> s
       [] op = "ADD" -> Wrap(Value(d) + n)
       [] op = "SUB" -> Wrap(Value(d) - n)
       [] op = "MUL" -> Wrap(Value(d) * n)
       [] op = "DIV" -> Wrap(Value(d) \div n)
       [] op = "MOD" -> Wrap(Value(d) % n)
       [] op = "AND" -> {k \in d : k \in s}
       [] op = "OR" -> {k \in Low(v) : k \in d \/ k \in s}
       [] op = "XOR" -> {k \in Low(v) : (k \in d) # (k \in s)}
       [] op = "NOT" -> Low(v) \ s
       [] op = "SHL" -> {k + n : k \in d}
       [] op = "SHR" -> {k - n : k \in d}
       [] op = "SWAP" -> {(k + Half(x)) % Width(x) : k \in s}
       [] op = "REV" -> {Width(x) - 1 - k : k \in s}
       [] op = "PACKHI" -> (d \ LowMask(x)) \union {k - Half(x) : k \in s}
       [] op = "PACKLO" -> (d \intersect LowMask(x)) \union {k + Half(x) : k \in s}
       [] op = "ROL" -> {(k + n) % Width(v) : k \in d}
       [] op = "ROR" -> {(k - n) % Width(v) : k \in d}

-----------------------------------------------------------------------------

\* Registers hold words, memory holds bytes, and an instruction has been
\* executed as soon as one is counted.
TypeOK ==
  /\ vregs \in [Regs -> Word]
  /\ vmem \in [Addr -> Byte]
  /\ insn \in Insns \union {None} /\ (insn = None <=> count = 0)
  /\ count \in 0 .. MaxInsns
  /\ status \in {"running", "exited", "faulted"}

\* The instruction has been executed to its end.
Completes(i) == count' > count /\ insn' = i /\ status' = "running"

\* The operands as they take part: those of a shift in memory in each other's place,
\* a register whole in DIV, MOD and SHR, the first of a pack at the width of the
\* second (of memory, the bytes at the lower addresses).
Packs == {"PACKHI", "PACKLO"}
First(i) ==
  CASE Exchanged(i) -> Source(i)
    [] i.op \in {"DIV", "MOD", "SHR"} /\ i.op1.t = "reg" -> Old(i)
    [] i.op \in Packs -> Destination(i)
    [] OTHER -> OperandData(i.op1)
Second(i) == IF Exchanged(i) THEN OperandData(i.op1) ELSE Source(i)

\* The width of which the low bits are right: a pack into a wider destination loses
\* what is above the width of its source.
RightWidth(i) == IF i.op \in Packs /\ i.op2.v < i.op1.v THEN i.op2.v ELSE i.op1.v

\* The low bits of the destination become what the reference says.
IsRight(i) ==
  i.op1.t # "imm" =>
    LET right == Reference(i.op, First(i), i.op1.v, Second(i), i.op2.v)
        v == RightWidth(i)
    IN PostTrunc(OperandData(i.op1)', v) = PostTrunc(right, v)

\* Not for LEA, which has no reference, and counts the shifter cuts.
Sound(i) ==
  /\ i.op # "LEA"
  /\ i.op \in {"SHL", "SHR"} => Value(Second(i)) < WordBits

\* The handlers, with their truncations, expansions and byte orders, compute what
\* the reference says at every pair of widths, in registers and in memory; where
\* the operands do not take part at their own widths and in their own places, no
\* bit beside the result shows it.
ResultIsRight == [][\A i \in Insns : Completes(i) /\ Sound(i) => IsRight(i)]_vars

\* The handlers that trim their result leave the bits of a register above the
\* width of the operand as they are (PRE_V_TRUNCATION keeps them).
KeepsUpperBits(i) ==
  i.op1.t = "reg" =>
    PreTrunc(vregs[i.op1.r], i.op1.v)' = PreTrunc(vregs[i.op1.r], i.op1.v)

UpperBitsKept ==
  [][\A i \in Insns : Completes(i) /\ i.op \in Trimming => KeepsUpperBits(i)]_vars

\* The addresses that the width of a destination in memory covers.
Own(i) ==
  IF i.op1.t = "mem" THEN Offset(i.op1) .. Offset(i.op1) + Bytes(i.op1.v) - 1 ELSE {}

\* An instruction changes its destination only: no other register, and no byte
\* of memory beside those its width covers.
OnlyDestination ==
  [][\A i \in Insns : Completes(i) =>
       /\ \A a \in Addr \ Own(i) : vmem'[a] = vmem[a]
       /\ \A r \in Regs : (i.op1.t = "reg" /\ i.op1.r = r) \/ vregs'[r] = vregs[r]]_vars
=============================================================================
