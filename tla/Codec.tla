-------------------------------- MODULE Codec --------------------------------
(* An instruction on its way from the assembler to its handler: the operand *)
(* parsers and the header of WeeperVM_compile.py, then fetch, decode, the   *)
(* operand readers and dispatch of emulate.c.                               *)
EXTENDS Integers, Sequences

CONSTANTS
  Nonces,      \* values random.getrandbits(5) may return
  OperandPairs \* pairs of operands as they stand in the assembly

VARIABLES
  source,   \* the instruction in the assembly
  code,     \* its bytes
  header,   \* the fields fetch finds
  decoded,  \* the opcode and the operands as decode leaves them
  handler,  \* the handler dispatch calls
  pc        \* the stage reached

vars == <<source, code, header, decoded, handler, pc>>

OPCODES ==
  << "MOV", "LEA", "PUT", "GET", "ADD", "SUB", "MUL", "DIV", "MOD", "CMP", "JMP",
     "CALL", "RET", "EXIT", "AND", "OR", "XOR", "SHL", "SHR", "NOT", "SYSCALL",
     "SWAP", "REV", "PACKHI", "PACKLO", "ROL", "ROR", "FORK" >>

Sources == [opcode : DOMAIN OPCODES, ops : OperandPairs]

\* What the assembler accepts: a displacement of 20 bits, an immediate of 32.
Registers == 0 .. 15
Widths == 1 .. 3
Immediates == {x \in Nat : x \div 65536 < 65536}
Displacements == {x \in Nat : x \div 65536 < 16}
Operands ==
  {[kind |-> "none"]}
  \union [kind : {"register"}, v : Widths, r : Registers]
  \union [kind : {"immediate"}, v : Widths, x : Immediates]
  \union [kind : {"indexed"}, v : Widths, base : Registers, bv : Widths,
          index : Registers, iv : Widths, sign : {-1, 1}]
  \union [kind : {"based"}, v : Widths, base : Registers, bv : Widths,
          disp : Displacements, sign : {-1, 1}]
  \union [kind : {"absolute"}, v : Widths, disp : Displacements]

\* A missing operand is the second one, or both are missing.
ASSUME CodecAssumption ==
  /\ Nonces \subseteq 0 .. 31
  /\ \A pair \in OperandPairs :
       /\ pair \in Operands \X Operands
       /\ pair[1].kind = "none" => pair[2].kind = "none"

T_NONE == 0
T_REG == 1
T_MEM == 2
T_IMM == 3
V_BYTE == 1
V_INT == 3

\* The bits lo .. lo + n - 1 of a number.
Field(x, lo, n) == (x \div 2 ^ lo) % 2 ^ n

\* The bytes a number needs, at least one.
ByteLength(x) == CHOOSE n \in 1 .. 4 : (n = 4 \/ x < 256 ^ n) /\ (n = 1 \/ x >= 256 ^ (n - 1))

ToBytes(x, n) == [k \in 1 .. n |-> Field(x, 8 * (n - k), 8)]

Flip(x) == 31 - x
Xor5(x, y) ==
  LET b(k) == (Field(x, k, 1) + Field(y, k, 1)) % 2
  IN b(0) + 2 * b(1) + 4 * b(2) + 8 * b(3) + 16 * b(4)

-----------------------------------------------------------------------------
(* The assembler.  An operand parses to its type, its width and the bytes   *)
(* of its value; its length field is one less than their number.            *)

Parsed(t, v, bytes) ==
  [t |-> t, v |-> v, l |-> IF bytes = << >> THEN 0 ELSE Len(bytes) - 1, bytes |-> bytes]

ParseRegister(op) == Parsed(T_REG, op.v, <<op.r>>)

ParseImmediate(op) == Parsed(T_IMM, op.v, ToBytes(op.x, ByteLength(op.x)))

\* A base register with an index register, or with an immediate displacement
\* (zero when there is none), or an immediate address.  The sign in front of a
\* displacement is split off and lost.
ParseMemory(op) ==
  LET n == ByteLength(op.disp)
  IN CASE op.kind = "indexed" ->
            Parsed(T_MEM, op.v,
                   ToBytes(4 * (12288 + op.bv * 1024 + op.iv * 256 + op.base * 16 + op.index), 2))
       [] op.kind = "based" ->
            Parsed(T_MEM, op.v, <<128 + op.bv * 16 + op.base>> \o ToBytes(op.disp, n))
       [] op.kind = "absolute" -> Parsed(T_MEM, op.v, <<0>> \o ToBytes(op.disp, n))

ParseOperand(op) ==
  CASE op.kind = "none" -> Parsed(T_NONE, 0, << >>)
    [] op.kind = "register" -> ParseRegister(op)
    [] op.kind = "immediate" -> ParseImmediate(op)
    [] OTHER -> ParseMemory(op)

\* The two halves of the opcode under one of four ciphers.
OpcodeRight(l, o, n) ==
  CASE o = 0 -> Xor5(l, n)
    [] o = 1 -> Flip(Xor5(l, n))
    [] o = 2 -> Xor5(Flip(l), n)
    [] o = 3 -> Flip(Xor5(l, Flip(n)))

\* Mutant: the lengths of the operands are exchanged.
PackHeader_SwapsLengths(l, o, n, a, b) ==
  l * 2 ^ 19 + a.t * 2 ^ 17 + a.v * 2 ^ 15 + b.l * 2 ^ 13 + o * 2 ^ 11
    + b.t * 2 ^ 9 + b.v * 2 ^ 7 + a.l * 2 ^ 5 + OpcodeRight(l, o, n)

PackHeader(l, o, n, a, b) ==
  l * 2 ^ 19 + a.t * 2 ^ 17 + a.v * 2 ^ 15 + a.l * 2 ^ 13 + o * 2 ^ 11
    + b.t * 2 ^ 9 + b.v * 2 ^ 7 + b.l * 2 ^ 5 + OpcodeRight(l, o, n)


-----------------------------------------------------------------------------
(* The machine.                                                             *)

FetchHeader(raw) ==
  [ opcode_l |-> Field(raw[1], 3, 5),
    op1_t |-> Field(raw[1], 1, 2),
    op1_v |-> 2 * Field(raw[1], 0, 1) + Field(raw[2], 7, 1),
    op1_l |-> Field(raw[2], 5, 2),
    xor_t |-> Field(raw[2], 3, 2),
    op2_t |-> Field(raw[2], 1, 2),
    op2_v |-> 2 * Field(raw[2], 0, 1) + Field(raw[3], 7, 1),
    op2_l |-> Field(raw[3], 5, 2),
    opcode_r |-> Field(raw[3], 0, 5) ]

\* Mutant: the third cipher is left out.
DecodeOpcode_NoXor2(h) ==
  LET l == IF h.xor_t = 3 THEN Flip(h.opcode_l) ELSE h.opcode_l
      r == IF h.xor_t \in {1, 3} THEN Flip(h.opcode_r) ELSE h.opcode_r
  IN Xor5(r, l)

DecodeOpcode(h) ==
  LET l == IF h.xor_t \in {2, 3} THEN Flip(h.opcode_l) ELSE h.opcode_l
      r == IF h.xor_t \in {1, 3} THEN Flip(h.opcode_r) ELSE h.opcode_r
  IN Xor5(r, l)

\* An operand: its type, width, length and the place of its bytes.
DecodeOperands(h) ==
  [ op1 |-> [t |-> h.op1_t, v |-> h.op1_v, l |-> h.op1_l + 1, data |-> 4],
    op2 |-> [t |-> h.op2_t, v |-> h.op2_v, l |-> h.op2_l + 1, data |-> 4 + h.op1_l + 1] ]

ByteOf(op, k) == code[op.data + k]

\* The big-endian number in the bytes i .. j of an operand, at most four.
Number(op, i, j) ==
  LET byte(k) == IF k < i THEN 0 ELSE ByteOf(op, k)
  IN 16777216 * byte(j - 3) + 65536 * byte(j - 2) + 256 * byte(j - 1) + byte(j)

\* calculateMemoryOffset: two registers; a register and a displacement.
ReadIndexed(op) ==
  LET d0 == ByteOf(op, 0)
      d1 == ByteOf(op, 1)
  IN [kind |-> "indexed", v |-> op.v,
      base |-> 4 * Field(d0, 0, 2) + Field(d1, 6, 2), bv |-> Field(d0, 4, 2),
      index |-> Field(d1, 2, 4), iv |-> Field(d0, 2, 2), sign |-> 1]

ReadBased(op) ==
  LET d0 == ByteOf(op, 0)
  IN [kind |-> "based", v |-> op.v, base |-> Field(d0, 0, 4), bv |-> Field(d0, 4, 2),
      disp |-> Number(op, 1, op.l - 1), sign |-> 1]

\* getOperandData and calculateMemoryOffset, up to the contents of the
\* registers: the operand the machine acts on, in the form of the assembly.
ReadOperand(op) ==
  LET d0 == ByteOf(op, 0)
  IN CASE op.t = T_NONE -> [kind |-> "none"]
       [] op.t = T_REG -> [kind |-> "register", v |-> op.v, r |-> d0 % 16]
       [] op.t = T_IMM -> [kind |-> "immediate", v |-> op.v, x |-> Number(op, 0, op.l - 1)]
       [] op.t = T_MEM /\ Field(d0, 6, 1) = 1 -> ReadIndexed(op)
       [] op.t = T_MEM /\ Field(d0, 6, 1) = 0 /\ Field(d0, 7, 1) = 1 -> ReadBased(op)
       [] op.t = T_MEM /\ Field(d0, 6, 1) = 0 /\ Field(d0, 7, 1) = 0 ->
            [kind |-> "absolute", v |-> op.v, disp |-> Number(op, 1, op.l - 1)]

\* Mutant: an absent operand is skipped as if it had its byte.
SkipTo_Both(ops) == 1 + ops.op1.l + ops.op2.l + 3

\* Where the three bytes of the fallthrough are looked for.
SkipTo(ops) ==
  1 + (IF ops.op1.t # T_NONE THEN ops.op1.l ELSE 0)
    + (IF ops.op2.t # T_NONE THEN ops.op2.l ELSE 0) + 3

\* The decision tree of dispatch, branch by branch.
MultipleOfSix(o) ==
  CASE o = 0 -> "MOV"
    [] o \in 1 .. 9 -> "MUL"
    [] o \in 10 .. 20 -> IF o % 9 = 0 THEN "SHR" ELSE "RET"
    [] o > 20 -> "PACKLO"

MultipleOfThree(o) ==
  CASE o < 10 -> IF o % 4 = 3 THEN "GET" ELSE "CMP"
    [] o >= 10 -> IF o % 5 = 0 THEN "OR" ELSE IF o % 7 = 0 THEN "SWAP" ELSE "FORK"

MultipleOfTwo(o) ==
  CASE o < 10 -> IF o % 8 = 0 THEN "MOD" ELSE IF o % 4 = 0 THEN "ADD" ELSE "PUT"
    [] o = 10 -> "JMP"
    [] o \in 11 .. 19 -> IF o % 7 = 0 THEN "AND" ELSE "XOR"
    [] o = 20 -> "SYSCALL"
    [] o > 20 -> IF o % 11 = 0 THEN "REV" ELSE "ROR"

OneBelowFour(o) ==
  CASE o < 10 -> "DIV"
    [] o \in 10 .. 20 -> IF o % 11 = 0 THEN "CALL" ELSE "NOT"
    [] o > 20 -> "PACKHI"

OneAboveFour(o) ==
  CASE o <= 10 -> IF o % 5 = 0 THEN "SUB" ELSE "LEA"
    [] o \in 11 .. 20 -> IF o * 3 > 50 THEN "SHL" ELSE "EXIT"
    [] o > 20 -> "ROL"

HandlerOf(o) ==
  CASE o % 6 = 0 -> MultipleOfSix(o)
    [] o % 6 = 3 -> MultipleOfThree(o)
    [] o % 6 \in {2, 4} -> MultipleOfTwo(o)
    [] o % 6 \in {1, 5} -> IF o % 4 = 1 THEN OneAboveFour(o) ELSE OneBelowFour(o)

-----------------------------------------------------------------------------
(* The stages.                                                              *)

Unknown == "unknown"

Init ==
  /\ source \in Sources
  /\ code = << >> /\ header = << >> /\ decoded = << >>
  /\ handler = Unknown
  /\ pc = "compile"

\* Halves and cipher of the opcode are drawn at random; the fallthrough is a
\* mark here, the layout fills it in.
Compile ==
  /\ pc = "compile" /\ pc' = "fetch"
  /\ LET a == ParseOperand(source.ops[1])
         b == ParseOperand(source.ops[2])
     IN \E l \in Nonces, o \in 0 .. 3 :
          code' = ToBytes(PackHeader(l, o, source.opcode - 1, a, b), 3)
                    \o a.bytes \o b.bytes \o <<-1, -1, -1>>
  /\ UNCHANGED <<source, header, decoded, handler>>

Fetch ==
  /\ pc = "fetch" /\ pc' = "decode"
  /\ header' = FetchHeader(code)
  /\ UNCHANGED <<source, code, decoded, handler>>

Decode ==
  /\ pc = "decode" /\ pc' = "dispatch"
  /\ decoded' = [opcode |-> DecodeOpcode(header), ops |-> DecodeOperands(header)]
  /\ UNCHANGED <<source, code, header, handler>>

Dispatch ==
  /\ pc = "dispatch" /\ pc' = "done"
  /\ handler' = HandlerOf(decoded.opcode)
  /\ UNCHANGED <<source, code, header, decoded>>

Done == pc = "done" /\ UNCHANGED vars

Next == Compile \/ Fetch \/ Decode \/ Dispatch \/ Done

Spec == Init /\ [][Next]_vars

-----------------------------------------------------------------------------

\* Whatever halves and cipher the assembler draws, dispatch calls the handler of
\* the mnemonic in the assembly.
HandlerMatches == pc = "done" => handler = OPCODES[source.opcode]

\* The machine finds the operands of the assembly: registers, widths, numbers
\* and the parts of an address, however many bytes they take.
OperandsMatch ==
  pc \in {"dispatch", "done"} =>
    /\ ReadOperand(decoded.ops.op1) = source.ops[1]
    /\ ReadOperand(decoded.ops.op2) = source.ops[2]

\* The fallthrough is read right behind the operands, where the assembler put it.
FallthroughFound ==
  pc \in {"dispatch", "done"} =>
    SkipTo(decoded.ops) = Len(code) - 2
=============================================================================
