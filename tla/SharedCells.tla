----------------------------- MODULE SharedCells ------------------------------
(***************************************************************************)
(* Virtual memory under several threads.  The machine takes no lock: an    *)
(* instruction gets the bytes of its source operand, then those of its     *)
(* destination, and writes the result back byte by byte (getOperandData_   *)
(* mem, handle_mov, handle_add and writeToVmem of emulate.c).  The         *)
(* compiler may order the bytes of one read, or of one call of a writer,   *)
(* as it likes.                                                            *)
(*                                                                         *)
(* The bytes next to the destination, which VMEM_EXPANSION reads too, end  *)
(* up in bits that no writer uses, and are left out.                       *)
(***************************************************************************)
EXTENDS Integers, Sequences, FiniteSets

CONSTANTS
  Threads,
  Base,         \* the number of values of a byte
  Addresses,    \* of virtual memory
  Programs      \* what the threads may run, one of them is chosen

Operands ==
  {o \in [t : {"MEM"}, at : Addresses, v : {1, 2, 4}] : o.at .. o.at + o.v - 1 \subseteq Addresses}
    \cup [t : {"IMM"}, data : Nat] \cup [t : {"REG"}]

ASSUME CellsAssumption ==
  /\ Base \in Nat \ {0, 1}
  /\ Addresses \subseteq Nat /\ Threads \cap Addresses = {} /\ IsFiniteSet(Threads)
  /\ \A p \in Programs, t \in Threads :
       /\ p[t] \in Seq([op : {"MOV", "ADD"}, dst : Operands, src : Operands])
       /\ \A k \in 1 .. Len(p[t]) :
            /\ p[t][k].dst.t # "IMM" /\ p[t][k].src.t # "REG"
            /\ p[t][k].dst.t = "REG" => p[t][k].op = "MOV"

VARIABLES
  program,
  at,        \* the instruction each thread is at
  stage,     \* what it is doing of it
  from,      \* the bytes of the source read so far
  onto,      \* the bytes of the destination read so far
  data,      \* the result
  todo,      \* the bytes that this call of a writer has still to write
  passes,    \* the calls of a writer still to come
  mem,       \* vmem
  reg,       \* the register that a thread loads into
  ideal,     \* ghost: memory and registers, were each instruction one step
  raced      \* ghost: the bytes that two instructions used at a time, and
             \* what was computed from them; a thread stands for its register

work == <<at, stage, from, onto, data, todo, passes>>
vars == <<program, work, mem, reg, ideal, raced>>

-----------------------------------------------------------------------------
Insn(t) == program[t][at[t]]

Bytes(o) == IF o.t = "MEM" THEN o.at .. o.at + o.v - 1 ELSE {}

\* Big endian, whatever the machine: the digit that a writer stores at a, and
\* the number that a reader puts together.
Digit(o, n, a) ==
  LET behind == o.at + o.v - 1 - a
  IN (CASE behind = 0 -> n
        [] behind = 1 -> n \div Base
        [] behind = 2 -> (n \div Base) \div Base
        [] OTHER -> ((n \div Base) \div Base) \div Base) % Base

Number(o, bytes) ==
  LET byte(k) == bytes[o.at + k]
  IN CASE o.v = 1 -> byte(0)
       [] o.v = 2 -> Base * byte(0) + byte(1)
       [] o.v = 4 -> Base * (Base * (Base * byte(0) + byte(1)) + byte(2)) + byte(3)

\* Reading for a result; MOV does not look at what it overwrites.
Kept(i) == IF i.op = "MOV" THEN {} ELSE Bytes(i.dst)
Uses(i) == Bytes(i.src) \cup Kept(i)
Touches(i) == Uses(i) \cup Bytes(i.dst)

\* Mutant of Result: ADD forgets what the destination held.
Result_Overwrites(i, f, g) == IF i.src.t = "IMM" THEN i.src.data ELSE Number(i.src, f)
\* From the bytes that the instruction read to the result it computes.
Result(i, f, g) ==
  (IF i.src.t = "IMM" THEN i.src.data ELSE Number(i.src, f))
    + (IF i.op = "ADD" THEN Number(i.dst, g) ELSE 0)

Part(bytes, S) == [a \in S |-> bytes[a]]

\* Mutant of Written: the writers start one byte too early.
Written_Early(o) == IF o.t = "MEM" THEN Addresses \cap (o.at - 1 .. o.at + o.v - 1) ELSE {}
\* The bytes that a call of a writer stores.
Written(o) == Bytes(o)

\* Mutant of Repeats: the writer of an INT falls back into itself once.
Repeats_Int(o) == IF o.v \in {2, 4} THEN 1 ELSE 0
\* A SHORT is written by its own writer, and then by that of an INT, which skips
\* its first two bytes and so writes the same two again.
Repeats(o) == IF o.v = 2 THEN 1 ELSE 0

-----------------------------------------------------------------------------
Init ==
  /\ program \in Programs
  /\ at = [t \in Threads |-> 1]
  /\ stage = [t \in Threads |-> "idle"]
  /\ data = [t \in Threads |-> 0]
  /\ todo = [t \in Threads |-> {}]
  /\ passes = [t \in Threads |-> 0]
  /\ mem = [a \in Addresses |-> 0]
  /\ from = [t \in Threads |-> Part(mem, {})]
  /\ onto = [t \in Threads |-> Part(mem, {})]
  /\ reg = [t \in Threads |-> 0]
  /\ ideal = [mem |-> mem, reg |-> reg]
  /\ raced = {}

Busy(u) == stage[u] # "idle"

\* The bytes that an instruction has in common with one of another thread, and
\* that one of the two writes.
Clash(i, j) == (Touches(i) \cap Bytes(j.dst)) \cup (Bytes(i.dst) \cap Touches(j))

Begin(t) ==
  /\ stage[t] = "idle" /\ at[t] <= Len(program[t])
  /\ stage' = [stage EXCEPT ![t] = "read"]
  /\ from' = [from EXCEPT ![t] = Part(mem, {})]
  /\ onto' = [onto EXCEPT ![t] = Part(mem, {})]
  /\ raced' = raced \cup UNION {Clash(Insn(t), Insn(u)) : u \in {w \in Threads \ {t} : Busy(w)}}
  /\ UNCHANGED <<program, at, data, todo, passes, mem, reg, ideal>>

With(f, a) == [b \in DOMAIN f \cup {a} |-> IF b = a THEN mem[a] ELSE f[b]]

ReadSource(t) ==
  /\ stage[t] = "read"
  /\ \E a \in Bytes(Insn(t).src) \ DOMAIN from[t] :
       from' = [from EXCEPT ![t] = With(@, a)]
  /\ UNCHANGED <<program, at, stage, onto, data, todo, passes, mem, reg, ideal, raced>>

ReadDestination(t) ==
  /\ stage[t] = "read" /\ DOMAIN from[t] = Bytes(Insn(t).src)
  /\ \E a \in Kept(Insn(t)) \ DOMAIN onto[t] :
       onto' = [onto EXCEPT ![t] = With(@, a)]
  /\ UNCHANGED <<program, at, stage, from, data, todo, passes, mem, reg, ideal, raced>>

Computed(t) ==
  /\ stage[t] = "read"
  /\ DOMAIN from[t] = Bytes(Insn(t).src) /\ DOMAIN onto[t] = Kept(Insn(t))
  /\ data' = [data EXCEPT ![t] = Result(Insn(t), from[t], onto[t])]

StartWriting(t) ==
  /\ Computed(t) /\ Insn(t).dst.t = "MEM"
  /\ stage' = [stage EXCEPT ![t] = "write"]
  /\ todo' = [todo EXCEPT ![t] = Written(Insn(t).dst)]
  /\ passes' = [passes EXCEPT ![t] = Repeats(Insn(t).dst)]
  /\ UNCHANGED <<program, at, from, onto, mem, reg, ideal, raced>>

WriteByte(t) ==
  /\ stage[t] = "write"
  /\ \E a \in todo[t] :
       /\ mem' = [mem EXCEPT ![a] = Digit(Insn(t).dst, data[t], a)]
       /\ todo' = [todo EXCEPT ![t] = @ \ {a}]
  /\ UNCHANGED <<program, at, stage, from, onto, data, passes, reg, ideal, raced>>

WriteAgain(t) ==
  /\ stage[t] = "write" /\ todo[t] = {} /\ passes[t] > 0
  /\ todo' = [todo EXCEPT ![t] = Written(Insn(t).dst)]
  /\ passes' = [passes EXCEPT ![t] = @ - 1]
  /\ UNCHANGED <<program, at, stage, from, onto, data, mem, reg, ideal, raced>>

\* The result, were the instruction one step.
Ideal(i) == Result(i, Part(ideal.mem, Bytes(i.src)), Part(ideal.mem, Kept(i)))

Return(t) ==
  /\ at' = [at EXCEPT ![t] = @ + 1]
  /\ stage' = [stage EXCEPT ![t] = "idle"]

EndWriting(t) ==
  /\ stage[t] = "write" /\ todo[t] = {} /\ passes[t] = 0
  /\ Return(t)
  /\ LET i == Insn(t)
     IN  /\ ideal' = [ideal EXCEPT !.mem = [a \in Addresses |->
                        IF a \in Bytes(i.dst) THEN Digit(i.dst, Ideal(i), a) ELSE @[a]]]
         /\ raced' = IF Uses(i) \cap raced = {} THEN raced ELSE raced \cup Bytes(i.dst)
  /\ UNCHANGED <<program, from, onto, data, todo, passes, mem, reg>>

LoadRegister(t) ==
  /\ Computed(t) /\ Insn(t).dst.t = "REG"
  /\ Return(t)
  /\ reg' = [reg EXCEPT ![t] = data'[t]]
  /\ ideal' = [ideal EXCEPT !.reg[t] = Ideal(Insn(t))]
  /\ raced' = IF Uses(Insn(t)) \cap raced = {} THEN raced \ {t} ELSE raced \cup {t}
  /\ UNCHANGED <<program, from, onto, todo, passes, mem>>

Over ==
  /\ \A t \in Threads : stage[t] = "idle" /\ at[t] > Len(program[t])
  /\ UNCHANGED vars

Next ==
  \/ \E t \in Threads :
       \/ Begin(t) \/ ReadSource(t) \/ ReadDestination(t) \/ StartWriting(t)
       \/ WriteByte(t) \/ WriteAgain(t) \/ EndWriting(t) \/ LoadRegister(t)
  \/ Over

Spec == Init /\ [][Next]_vars

-----------------------------------------------------------------------------
\* Instructions that touch no common byte at a time, or only read it, have the
\* effect they would have alone: also on bytes next to each other, of which a
\* result holds stale copies when it is written (VMEM_EXPANSION, writeToVmem).
UnracedExact ==
  /\ \A a \in Addresses \ raced :
       (\A t \in Threads : Busy(t) => a \notin Bytes(Insn(t).dst)) => mem[a] = ideal.mem[a]
  /\ \A t \in Threads \ raced : reg[t] = ideal.reg[t]

Ended == \A t \in Threads : stage[t] = "idle" /\ at[t] > Len(program[t])

\* The instructions of all threads.
Updates == UNION {{t} \X (1 .. Len(program[t])) : t \in Threads}

\* When all that the threads do is to count in one byte, updates are lost, but
\* never all but one of them, unless a thread counts only once (handle_add).
LostUpdatesBounded ==
  \A c \in [t : {"MEM"}, at : Addresses, v : {1}] :
    LET one == [op |-> "ADD", dst |-> c, src |-> [t |-> "IMM", data |-> 1]]
        counts == {Len(program[t]) : t \in Threads} \ {0}
    IN  /\ Ended /\ Cardinality(Updates) < Base /\ counts # {}
        /\ \A t \in Threads : program[t] = [k \in 1 .. Len(program[t]) |-> one]
        => mem[c.at] \in (IF 1 \in counts THEN 1 ELSE 2) .. Cardinality(Updates)

\* Who saw all of a BYTE or an INT that another thread stored may overwrite it:
\* the store does not come back.  (That of a SHORT does: it is written twice.)
AnswerStays ==
  \A t, u \in Threads :
    LET c == program[t][1].dst
        n == program[t][1].src.data
    IN  (/\ Ended
         /\ Len(program[t]) = 1 /\ program[t][1].op = "MOV"
         /\ c.t = "MEM" /\ program[t][1].src.t = "IMM"
         /\ c.v # 2
         /\ \A a \in Bytes(c) : Digit(c, n, a) # 0
         /\ program[u] = <<[op |-> "MOV", dst |-> [t |-> "REG"], src |-> c],
                           [op |-> "MOV", dst |-> c, src |-> [t |-> "IMM", data |-> 0]]>>
         /\ \A w \in Threads \ {t, u} : program[w] = << >>
         /\ reg[u] = n)
        => \A a \in Bytes(c) : mem[a] = 0
=============================================================================
