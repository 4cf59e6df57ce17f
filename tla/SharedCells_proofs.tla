--------------------------- MODULE SharedCells_proofs --------------------------
(***************************************************************************)
(* Virtual memory without a lock, for every number of threads, every place *)
(* and every program: instructions that do not share bytes at a time are   *)
(* atomic, whatever they compute; a store that was seen and answered does  *)
(* not come back; and counting in one byte loses no more than it must.     *)
(***************************************************************************)
EXTENDS SharedCells, FiniteSetTheorems, TLAPS

Writing(t) == stage[t] = "write"
Dst(t) == Bytes(Insn(t).dst)
Src(t) == Bytes(Insn(t).src)
Old(t) == Kept(Insn(t))
Used(t) == Uses(Insn(t))
Touched(t) == Touches(Insn(t))
Cross(t, u) == Clash(Insn(t), Insn(u))
Out(t, n, a) == Digit(Insn(t).dst, n, a)
Goal(t) == Ideal(Insn(t))

Shape ==
  /\ program \in Programs
  /\ at \in [Threads -> Nat \ {0}]
  /\ stage \in [Threads -> {"idle", "read", "write"}]
  /\ from = [t \in Threads |-> from[t]]
  /\ onto = [t \in Threads |-> onto[t]]
  /\ data = [t \in Threads |-> data[t]]
  /\ todo = [t \in Threads |-> todo[t]]
  /\ passes = [t \in Threads |-> passes[t]]
  /\ mem = [a \in Addresses |-> mem[a]]
  /\ reg = [t \in Threads |-> reg[t]]
  /\ ideal = [mem |-> ideal.mem, reg |-> ideal.reg]
  /\ ideal.mem = [a \in Addresses |-> ideal.mem[a]]
  /\ ideal.reg = [t \in Threads |-> ideal.reg[t]]
  /\ \A t \in Threads : Busy(t) => at[t] <= Len(program[t])

\* Two instructions under way have raced wherever they could disturb each other.
ClashesKnown ==
  \A t, u \in Threads : t # u /\ Busy(t) /\ Busy(u) => Cross(t, u) \subseteq raced

\* What has been read so far is right.
SeenRight(seen, S) ==
  /\ seen = [a \in DOMAIN seen |-> seen[a]]
  /\ DOMAIN seen \subseteq S
  /\ \A a \in DOMAIN seen \ raced : seen[a] = ideal.mem[a]

ReadsRight ==
  \A t \in Threads : stage[t] = "read" =>
    /\ SeenRight(from[t], Src(t))
    /\ SeenRight(onto[t], Old(t))

\* The result is right, and so is what has been written of it so far.
WritesRight ==
  \A t \in Threads : Writing(t) =>
    /\ todo[t] \subseteq Dst(t)
    /\ Used(t) \cap raced = {} => data[t] = Goal(t)
    /\ \A a \in Dst(t) \ (raced \cup todo[t]) : mem[a] = Out(t, data[t], a)

\* Memory is exact where nobody is writing.
MemoryExact ==
  \A a \in Addresses \ raced :
    (\A t \in Threads : Writing(t) => a \notin Dst(t)) => mem[a] = ideal.mem[a]

RegistersExact == \A t \in Threads \ raced : reg[t] = ideal.reg[t]

IInv == Shape /\ ClashesKnown /\ ReadsRight /\ WritesRight /\ MemoryExact /\ RegistersExact

-----------------------------------------------------------------------------
\* The sets that belong to an instruction.
LEMMA SetsOf ==
  ASSUME NEW t \in Threads, NEW u \in Threads
  PROVE  /\ Used(t) = Src(t) \cup Old(t) /\ Touched(t) = Used(t) \cup Dst(t)
         /\ Cross(t, u) = (Touched(t) \cap Dst(u)) \cup (Dst(t) \cap Touched(u))
         /\ Cross(t, u) = Cross(u, t)
BY DEF Used, Src, Old, Touched, Dst, Cross, Uses, Touches, Clash

\* They stay as long as the thread is at the same instruction.
LEMMA SameInsn ==
  ASSUME NEW t \in Threads, program' = program, at'[t] = at[t]
  PROVE  /\ Src(t)' = Src(t) /\ Dst(t)' = Dst(t) /\ Old(t)' = Old(t)
         /\ Used(t)' = Used(t) /\ Touched(t)' = Touched(t)
         /\ \A n, a : Out(t, n, a)' = Out(t, n, a)
<1>1. Insn(t)' = Insn(t)
  BY DEF Insn
<1>2. Src(t)' = Src(t) /\ Dst(t)' = Dst(t)
  BY <1>1 DEF Src, Dst, Bytes
<1>3. Old(t)' = Old(t)
  BY <1>1 DEF Old, Kept, Bytes
<1>4. Used(t)' = Used(t) /\ Touched(t)' = Touched(t)
  BY <1>1 DEF Used, Touched, Uses, Touches, Kept, Bytes
<1>5. \A n, a : Out(t, n, a)' = Out(t, n, a)
  BY <1>1 DEF Out, Digit
<1> QED BY <1>2, <1>3, <1>4, <1>5

\* What one step would compute stays as long as the bytes it uses do.
LEMMA SameGoal ==
  ASSUME NEW t \in Threads, program' = program, at'[t] = at[t],
         \A a \in Used(t) : ideal'.mem[a] = ideal.mem[a]
  PROVE  Goal(t)' = Goal(t)
<1>1. Insn(t)' = Insn(t)
  BY DEF Insn
<1>2. /\ Part(ideal'.mem, Src(t)) = Part(ideal.mem, Src(t))
      /\ Part(ideal'.mem, Old(t)) = Part(ideal.mem, Old(t))
  BY SetsOf DEF Part
<1>3. Goal(t) = Result(Insn(t), Part(ideal.mem, Src(t)), Part(ideal.mem, Old(t)))
  BY DEF Goal, Ideal, Src, Old
<1>4. Goal(t)' = Result(Insn(t), Part(ideal'.mem, Src(t)), Part(ideal'.mem, Old(t)))
  BY <1>1, SameInsn DEF Goal, Ideal, Src, Old
<1> QED BY <1>2, <1>3, <1>4

\* What is said of instructions stays while no thread goes on to its next one.
LEMMA SameInsns ==
  ASSUME UNCHANGED <<program, at, ideal>>
  PROVE  /\ \A t \in Threads :
              /\ Src(t)' = Src(t) /\ Dst(t)' = Dst(t) /\ Old(t)' = Old(t) /\ Used(t)' = Used(t)
              /\ Goal(t)' = Goal(t)
              /\ \A n, a : Out(t, n, a)' = Out(t, n, a)
         /\ \A t, u \in Threads : Cross(t, u)' = Cross(t, u)
<1>1. \A t, u \in Threads : Cross(t, u)' = Cross(t, u)
  BY SetsOf, SameInsn DEF Cross, Clash, Dst, Touched
<1> QED BY <1>1, SameInsn, SameGoal

LEMMA Operand ==
  ASSUME Shape, NEW t \in Threads, at[t] <= Len(program[t])
  PROVE  /\ Src(t) \subseteq Addresses
         /\ Dst(t) \subseteq Addresses
         /\ Old(t) \subseteq Dst(t)
         /\ Insn(t).dst.t \in {"MEM", "REG"}
         /\ Insn(t).dst.t = "REG" => Dst(t) = {} /\ Old(t) = {}
<1> DEFINE Insns == [op : {"MOV", "ADD"}, dst : Operands, src : Operands]
<1>1. program[t] \in Seq(Insns) /\ at[t] \in 1 .. Len(program[t])
  <2>1. program[t] \in Seq(Insns)
    BY CellsAssumption DEF Shape
  <2>2. Len(program[t]) \in Nat
    BY <2>1
  <2> QED BY <2>1, <2>2 DEF Shape
<1>2. Insn(t) \in Insns
  <2> HIDE DEF Insns
  <2> QED BY <1>1 DEF Insn
<1>3. Insn(t).dst.t # "IMM" /\ (Insn(t).dst.t = "REG" => Insn(t).op = "MOV")
  BY <1>1, CellsAssumption DEF Insn, Shape
<1>4. \A o \in Operands : Bytes(o) \subseteq Addresses /\ (o.t = "REG" => Bytes(o) = {})
  BY DEF Operands, Bytes
<1>5. Insn(t).dst \in Operands /\ Insn(t).src \in Operands
  BY <1>2
<1>6. Insn(t).dst.t \in {"MEM", "REG"}
  BY <1>5, <1>3 DEF Operands
<1> QED BY <1>3, <1>4, <1>5, <1>6 DEF Kept, Src, Dst, Old

\* Where t writes and has not raced, no other thread is reading or writing.
LEMMA Alone ==
  ASSUME ClashesKnown, NEW t \in Threads, NEW u \in Threads, t # u, Busy(t), Busy(u),
         NEW a, a \in Dst(t), a \notin raced
  PROVE  a \notin Touched(u)
BY SetsOf DEF ClashesKnown

LEMMA Initially == Init => IInv
<1> SUFFICES ASSUME Init PROVE IInv
  OBVIOUS
<1>1. Shape
  BY DEF Init, Shape, Busy
<1>2. ClashesKnown /\ ReadsRight /\ WritesRight
  BY DEF Init, ClashesKnown, ReadsRight, WritesRight, Busy, Writing
<1>3. MemoryExact /\ RegistersExact
  BY DEF Init, MemoryExact, RegistersExact
<1> QED BY <1>1, <1>2, <1>3 DEF IInv

LEMMA BeginKeeps ==
  ASSUME IInv, NEW t \in Threads, Begin(t)
  PROVE  IInv'
<1> DEFINE others == {w \in Threads \ {t} : Busy(w)}
<1>0. raced' = raced \cup UNION {Cross(t, u) : u \in others}
  BY DEF Begin, Cross
<1>1. raced \subseteq raced'
  BY <1>0
<1>2. UNCHANGED <<program, at, ideal>>
  BY DEF Begin
<1>3. \A u \in Threads : u # t => stage'[u] = stage[u] /\ from'[u] = from[u] /\ onto'[u] = onto[u]
  BY DEF Begin, IInv, Shape
<1>4. stage'[t] = "read" /\ from'[t] = Part(mem, {}) /\ onto'[t] = Part(mem, {})
  BY DEF Begin, IInv, Shape
<1>5. Shape'
  <2>1. \A u \in Threads : Busy(u)' => at'[u] <= Len(program'[u])
    BY <1>3 DEF Begin, IInv, Shape, Busy
  <2> QED BY <2>1 DEF Begin, IInv, Shape
<1>6. ClashesKnown'
  <2> SUFFICES ASSUME NEW u \in Threads, NEW w \in Threads, u # w, Busy(u)', Busy(w)'
               PROVE  Cross(u, w) \subseteq raced'
    BY <1>2, SameInsns DEF ClashesKnown
  <2>1. \A x \in others : Cross(t, x) \subseteq raced'
    BY <1>0
  <2>2. CASE u = t
    BY <2>1, <2>2, <1>3 DEF Busy
  <2>3. CASE w = t
    <3>1. Cross(t, u) \subseteq raced'
      BY <2>1, <2>3, <1>3 DEF Busy
    <3> QED BY <3>1, <2>3, SetsOf
  <2>4. CASE u # t /\ w # t
    BY <2>4, <1>1, <1>3 DEF IInv, ClashesKnown, Busy
  <2> QED BY <2>2, <2>3, <2>4
<1>7. ReadsRight'
  <2> SUFFICES ASSUME NEW u \in Threads, stage'[u] = "read"
               PROVE  SeenRight(from[u], Src(u))' /\ SeenRight(onto[u], Old(u))'
    BY DEF ReadsRight
  <2>1. CASE u = t
    BY <2>1, <1>4 DEF SeenRight, Part
  <2>2. CASE u # t
    BY <2>2, <1>1, <1>2, <1>3, SameInsns DEF IInv, ReadsRight, SeenRight, Begin
  <2> QED BY <2>1, <2>2
<1>8. WritesRight'
  BY <1>1, <1>2, <1>3, <1>4, SameInsns DEF IInv, WritesRight, Writing, Begin
<1>9. MemoryExact' /\ RegistersExact'
  BY <1>1, <1>2, <1>3, <1>4, SameInsns DEF IInv, MemoryExact, RegistersExact, Writing, Begin
<1> QED BY <1>5, <1>6, <1>7, <1>8, <1>9 DEF IInv

\* Reading a byte adds what the memory holds, which is right where nobody writes.
LEMMA OneMoreRead ==
  ASSUME IInv, NEW t \in Threads, stage[t] = "read",
         NEW seen, NEW S, SeenRight(seen, S), S \subseteq Used(t), S \subseteq Addresses,
         NEW a, a \in S
  PROVE  SeenRight(With(seen, a), S)
<1>1. a \notin raced => mem[a] = ideal.mem[a]
  <2> SUFFICES ASSUME a \notin raced, NEW u \in Threads, Writing(u), a \in Dst(u)
               PROVE  FALSE
    BY DEF IInv, MemoryExact
  <2>1. a \in Touched(t) /\ u # t /\ Busy(t) /\ Busy(u)
    BY SetsOf DEF Busy, Writing
  <2> QED BY <2>1, Alone DEF IInv
<1> QED BY <1>1 DEF SeenRight, With

LEMMA ReadSourceKeeps ==
  ASSUME IInv, NEW t \in Threads, ReadSource(t)
  PROVE  IInv'
<1>1. PICK a \in Src(t) : from' = [from EXCEPT ![t] = With(@, a)]
  BY DEF ReadSource, Src
<1>2. SeenRight(from'[t], Src(t))
  <2>1. Src(t) \subseteq Addresses
    BY Operand DEF ReadSource, IInv, Shape, Busy
  <2>2. SeenRight(With(from[t], a), Src(t))
    BY <2>1, OneMoreRead, SetsOf DEF ReadSource, IInv, ReadsRight
  <2> QED BY <1>1, <2>2 DEF IInv, Shape
<1>3. \A u \in Threads : u # t => from'[u] = from[u]
  BY <1>1 DEF IInv, Shape
<1>4. ReadsRight'
  <2> SUFFICES ASSUME NEW u \in Threads, stage[u] = "read"
               PROVE  SeenRight(from[u], Src(u))' /\ SeenRight(onto[u], Old(u))'
    BY DEF ReadsRight, ReadSource
  <2>1. SeenRight(from[u], Src(u)) /\ SeenRight(onto[u], Old(u))
    BY DEF IInv, ReadsRight
  <2>2. UNCHANGED <<program, at, ideal, onto, raced>>
    BY DEF ReadSource
  <2>3. Src(u)' = Src(u) /\ Old(u)' = Old(u)
    BY <2>2, SameInsns
  <2>4. CASE u = t
    BY <2>1, <2>2, <2>3, <2>4, <1>2 DEF SeenRight
  <2>5. CASE u # t
    BY <2>1, <2>2, <2>3, <2>5, <1>3 DEF SeenRight
  <2> QED BY <2>4, <2>5
<1>5. Shape'
  BY <1>1 DEF ReadSource, IInv, Shape, Busy
<1>6. ClashesKnown' /\ WritesRight' /\ MemoryExact' /\ RegistersExact'
  BY SameInsns DEF ReadSource, IInv, ClashesKnown, WritesRight, MemoryExact, RegistersExact, Busy, Writing
<1> QED BY <1>4, <1>5, <1>6 DEF IInv

LEMMA ReadDestinationKeeps ==
  ASSUME IInv, NEW t \in Threads, ReadDestination(t)
  PROVE  IInv'
<1>1. PICK a \in Old(t) : onto' = [onto EXCEPT ![t] = With(@, a)]
  BY DEF ReadDestination, Old
<1>2. SeenRight(onto'[t], Old(t))
  <2>1. Old(t) \subseteq Addresses
    BY Operand DEF ReadDestination, IInv, Shape, Busy
  <2>2. SeenRight(With(onto[t], a), Old(t))
    BY <2>1, OneMoreRead, SetsOf DEF ReadDestination, IInv, ReadsRight
  <2> QED BY <1>1, <2>2 DEF IInv, Shape
<1>3. \A u \in Threads : u # t => onto'[u] = onto[u]
  BY <1>1 DEF IInv, Shape
<1>4. ReadsRight'
  <2> SUFFICES ASSUME NEW u \in Threads, stage[u] = "read"
               PROVE  SeenRight(from[u], Src(u))' /\ SeenRight(onto[u], Old(u))'
    BY DEF ReadsRight, ReadDestination
  <2>1. SeenRight(from[u], Src(u)) /\ SeenRight(onto[u], Old(u))
    BY DEF IInv, ReadsRight
  <2>2. UNCHANGED <<program, at, ideal, from, raced>>
    BY DEF ReadDestination
  <2>3. Src(u)' = Src(u) /\ Old(u)' = Old(u)
    BY <2>2, SameInsns
  <2>4. CASE u = t
    BY <2>1, <2>2, <2>3, <2>4, <1>2 DEF SeenRight
  <2>5. CASE u # t
    BY <2>1, <2>2, <2>3, <2>5, <1>3 DEF SeenRight
  <2> QED BY <2>4, <2>5
<1>5. Shape'
  BY <1>1 DEF ReadDestination, IInv, Shape, Busy
<1>6. ClashesKnown' /\ WritesRight' /\ MemoryExact' /\ RegistersExact'
  BY SameInsns DEF ReadDestination, IInv, ClashesKnown, WritesRight, MemoryExact, RegistersExact, Busy, Writing
<1> QED BY <1>4, <1>5, <1>6 DEF IInv

\* What is computed from bytes that did not race is what one step would compute.
LEMMA ComputedRight ==
  ASSUME IInv, NEW t \in Threads, Computed(t), Used(t) \cap raced = {}
  PROVE  data'[t] = Goal(t)
<1>1. from[t] = Part(ideal.mem, Src(t)) /\ onto[t] = Part(ideal.mem, Old(t))
  BY SetsOf DEF Computed, IInv, ReadsRight, SeenRight, Part, Src, Old
<1>2. data'[t] = Result(Insn(t), from[t], onto[t])
  BY DEF Computed, IInv, Shape
<1> QED BY <1>1, <1>2 DEF Goal, Ideal, Src, Old

LEMMA StartWritingKeeps ==
  ASSUME IInv, NEW t \in Threads, StartWriting(t)
  PROVE  IInv'
<1>1. /\ stage'[t] = "write" /\ todo'[t] = Dst(t)
      /\ \A u \in Threads : u # t => /\ stage'[u] = stage[u] /\ todo'[u] = todo[u]
                                     /\ data'[u] = data[u]
  BY DEF StartWriting, Computed, IInv, Shape, Written, Dst
<1>2. Shape'
  BY DEF StartWriting, Computed, IInv, Shape, Busy
<1>3. ClashesKnown'
  BY <1>1, SameInsns DEF StartWriting, Computed, IInv, ClashesKnown, Busy
<1>4. ReadsRight'
  BY <1>1, SameInsns DEF StartWriting, IInv, ReadsRight, SeenRight
<1>5. WritesRight'
  <2> SUFFICES ASSUME NEW u \in Threads, stage'[u] = "write"
               PROVE  /\ todo'[u] \subseteq Dst(u)
                      /\ Used(u) \cap raced = {} => data'[u] = Goal(u)
                      /\ \A a \in Dst(u) \ (raced \cup todo'[u]) : mem[a] = Out(u, data'[u], a)
    BY SameInsns DEF WritesRight, StartWriting, Writing
  <2>1. CASE u = t
    BY <2>1, <1>1, ComputedRight DEF StartWriting
  <2>2. CASE u # t
    BY <2>2, <1>1 DEF IInv, WritesRight, Writing
  <2> QED BY <2>1, <2>2
<1>6. MemoryExact' /\ RegistersExact'
  BY <1>1, SameInsns DEF StartWriting, IInv, MemoryExact, RegistersExact, Writing
<1> QED BY <1>2, <1>3, <1>4, <1>5, <1>6 DEF IInv

LEMMA WriteByteKeeps ==
  ASSUME IInv, NEW t \in Threads, WriteByte(t)
  PROVE  IInv'
<1>1. PICK a \in todo[t] : /\ mem' = [mem EXCEPT ![a] = Out(t, data[t], a)]
                           /\ todo' = [todo EXCEPT ![t] = @ \ {a}]
  BY DEF WriteByte, Out
<1>2. a \in Dst(t) /\ Dst(t) \subseteq Addresses
  BY Operand DEF WriteByte, IInv, Shape, WritesRight, Writing, Busy
<1>3. /\ mem'[a] = Out(t, data[t], a)
      /\ \A b \in Addresses : b # a => mem'[b] = mem[b]
      /\ todo'[t] = todo[t] \ {a}
      /\ \A u \in Threads : u # t => todo'[u] = todo[u]
  BY <1>1, <1>2 DEF IInv, Shape
<1>4. Shape'
  BY <1>1 DEF WriteByte, IInv, Shape, Busy
<1>5. WritesRight'
  <2> SUFFICES ASSUME NEW u \in Threads, Writing(u)
               PROVE  /\ todo'[u] \subseteq Dst(u)
                      /\ Used(u) \cap raced = {} => data[u] = Goal(u)
                      /\ \A b \in Dst(u) \ (raced \cup todo'[u]) : mem'[b] = Out(u, data[u], b)
    BY SameInsns DEF WritesRight, WriteByte, Writing
  <2>1. Dst(u) \subseteq Addresses
    BY Operand DEF IInv, Shape, Writing, Busy
  <2>2. CASE u = t
    BY <2>1, <2>2, <1>3 DEF IInv, WritesRight
  <2>3. CASE u # t
    <3>1. \A b \in Dst(u) \ raced : b # a
      BY <2>3, <1>2, Alone, SetsOf DEF IInv, Busy, Writing, WriteByte
    <3> QED BY <2>1, <2>3, <3>1, <1>3 DEF IInv, WritesRight
  <2> QED BY <2>2, <2>3
<1>6. MemoryExact'
  BY <1>2, <1>3, SameInsns DEF WriteByte, IInv, MemoryExact, Writing
<1>7. ClashesKnown' /\ ReadsRight' /\ RegistersExact'
  BY SameInsns DEF WriteByte, IInv, ClashesKnown, ReadsRight, SeenRight, RegistersExact, Busy
<1> QED BY <1>4, <1>5, <1>6, <1>7 DEF IInv

LEMMA WriteAgainKeeps ==
  ASSUME IInv, NEW t \in Threads, WriteAgain(t)
  PROVE  IInv'
<1>1. todo'[t] = Dst(t) /\ \A u \in Threads : u # t => todo'[u] = todo[u]
  BY DEF WriteAgain, IInv, Shape, Written, Dst
<1>2. Shape'
  BY DEF WriteAgain, IInv, Shape, Busy
<1>3. WritesRight'
  BY <1>1, SameInsns DEF WriteAgain, IInv, WritesRight, Writing
<1>4. ClashesKnown' /\ ReadsRight' /\ MemoryExact' /\ RegistersExact'
  BY SameInsns DEF WriteAgain, IInv, ClashesKnown, ReadsRight, SeenRight, MemoryExact, RegistersExact,
                   Busy, Writing
<1> QED BY <1>2, <1>3, <1>4 DEF IInv

\* An instruction that ends in memory has the effect of one step there.
LEMMA EndWritingKeeps ==
  ASSUME IInv, NEW t \in Threads, EndWriting(t)
  PROVE  IInv'
<1> DEFINE new == [a \in Addresses |-> IF a \in Dst(t) THEN Out(t, Goal(t), a) ELSE ideal.mem[a]]
<1>1. /\ ideal'.mem = new /\ ideal'.reg = ideal.reg
      /\ ideal' = [mem |-> ideal'.mem, reg |-> ideal'.reg]
  BY DEF EndWriting, IInv, Shape, Dst, Out, Goal
<1>2. raced' = IF Used(t) \cap raced = {} THEN raced ELSE raced \cup Dst(t)
  BY DEF EndWriting, Dst, Used
<1>3. /\ stage'[t] = "idle"
      /\ \A u \in Threads : u # t => stage'[u] = stage[u] /\ at'[u] = at[u]
  BY DEF EndWriting, Return, IInv, Shape
<1>4. \A u \in Threads : u # t =>
        /\ Src(u)' = Src(u) /\ Dst(u)' = Dst(u) /\ Old(u)' = Old(u) /\ Used(u)' = Used(u)
        /\ Touched(u)' = Touched(u) /\ \A n, a : Out(u, n, a)' = Out(u, n, a)
  BY <1>3, SameInsn DEF EndWriting
<1>5. Busy(t) /\ Writing(t) /\ todo[t] = {} /\ Dst(t) \subseteq Addresses
  BY Operand DEF EndWriting, IInv, Shape, Busy, Writing
<1>6. Shape'
  <2>1. at' \in [Threads -> Nat \ {0}] /\ stage' \in [Threads -> {"idle", "read", "write"}]
    BY DEF EndWriting, Return, IInv, Shape
  <2> QED BY <2>1, <1>1, <1>3 DEF EndWriting, IInv, Shape, Busy
<1>7. ClashesKnown'
  <2> SUFFICES ASSUME NEW u \in Threads, NEW w \in Threads, u # w, u # t, w # t, Busy(u), Busy(w)
               PROVE  Cross(u, w)' \subseteq raced'
    BY <1>3 DEF ClashesKnown, Busy
  <2>1. Cross(u, w)' = Cross(u, w)
    BY <1>4, SetsOf DEF Cross, Clash, Dst, Touched
  <2> QED BY <2>1, <1>2 DEF IInv, ClashesKnown
<1>8. \A u \in Threads : u # t /\ Busy(u) =>
        \A a \in Touched(u) \ raced : a \in Addresses => new[a] = ideal.mem[a]
  BY <1>5, Alone DEF IInv
<1>9. \A u \in Threads : Busy(u) => Used(u) \subseteq Addresses
  BY Operand, SetsOf DEF IInv, Shape
<1>10. ReadsRight'
  <2> SUFFICES ASSUME NEW u \in Threads, u # t, stage[u] = "read"
               PROVE  SeenRight(from[u], Src(u))' /\ SeenRight(onto[u], Old(u))'
    BY <1>3 DEF ReadsRight
  <2>1. SeenRight(from[u], Src(u)) /\ SeenRight(onto[u], Old(u))
    BY DEF IInv, ReadsRight
  <2>2. \A a \in Used(u) \ raced : ideal'.mem[a] = ideal.mem[a]
    BY <1>1, <1>8, <1>9, SetsOf DEF Busy
  <2>3. raced \subseteq raced' /\ from' = from /\ onto' = onto
    BY <1>2 DEF EndWriting
  <2> HIDE DEF new
  <2> QED BY <2>1, <2>2, <2>3, <1>4, SetsOf DEF SeenRight
<1>11. WritesRight'
  <2> SUFFICES ASSUME NEW u \in Threads, u # t, Writing(u)
               PROVE  /\ todo[u] \subseteq Dst(u)
                      /\ Used(u) \cap raced' = {} => data[u] = Goal(u)'
                      /\ \A b \in Dst(u) \ (raced' \cup todo[u]) : mem[b] = Out(u, data[u], b)
    BY <1>3, <1>4 DEF WritesRight, EndWriting, Writing
  <2>1. raced \subseteq raced'
    BY <1>2
  <2>2. ASSUME Used(u) \cap raced' = {} PROVE Goal(u)' = Goal(u)
    <3>1. \A a \in Used(u) : ideal'.mem[a] = ideal.mem[a]
      BY <2>1, <2>2, <1>1, <1>8, <1>9, SetsOf DEF Busy, Writing
    <3> QED BY <3>1, <1>3, SameGoal DEF EndWriting
  <2> QED BY <2>1, <2>2 DEF IInv, WritesRight
<1>12. MemoryExact'
  <2> SUFFICES ASSUME NEW a \in Addresses \ raced',
                      \A u \in Threads \ {t} : Writing(u) => a \notin Dst(u)
               PROVE  mem[a] = new[a]
    BY <1>1, <1>3, <1>4 DEF MemoryExact, EndWriting, Writing
  <2>1. CASE a \in Dst(t)
    <3>1. Used(t) \cap raced = {} /\ a \notin raced
      BY <2>1, <1>2
    <3>2. mem[a] = Out(t, Goal(t), a)
      BY <3>1, <2>1, <1>5 DEF IInv, WritesRight
    <3> QED BY <3>2, <2>1
  <2>2. CASE a \notin Dst(t)
    BY <2>2, <1>2 DEF IInv, MemoryExact
  <2> QED BY <2>1, <2>2
<1>13. RegistersExact'
  BY <1>1, <1>2 DEF EndWriting, IInv, RegistersExact
<1> QED BY <1>6, <1>7, <1>10, <1>11, <1>12, <1>13 DEF IInv

LEMMA LoadRegisterKeeps ==
  ASSUME IInv, NEW t \in Threads, LoadRegister(t)
  PROVE  IInv'
<1>1. /\ ideal' = [mem |-> ideal.mem, reg |-> [ideal.reg EXCEPT ![t] = Goal(t)]]
      /\ reg' = [reg EXCEPT ![t] = data'[t]]
  BY DEF LoadRegister, IInv, Shape, Goal
<1>2. raced' = IF Used(t) \cap raced = {} THEN raced \ {t} ELSE raced \cup {t}
  BY DEF LoadRegister, Used
<1>3. t \notin Addresses /\ raced' \cap Addresses = raced \cap Addresses
  BY <1>2, CellsAssumption
<1>4. /\ stage'[t] = "idle" /\ stage[t] = "read"
      /\ \A u \in Threads : u # t => stage'[u] = stage[u] /\ at'[u] = at[u] /\ data'[u] = data[u]
  BY DEF LoadRegister, Computed, Return, IInv, Shape
<1>5. \A u \in Threads : u # t =>
        /\ Src(u)' = Src(u) /\ Dst(u)' = Dst(u) /\ Old(u)' = Old(u) /\ Used(u)' = Used(u)
        /\ Touched(u)' = Touched(u) /\ \A n, a : Out(u, n, a)' = Out(u, n, a)
        /\ Goal(u)' = Goal(u)
  BY <1>1, <1>4, SameInsn, SameGoal DEF LoadRegister
<1>6. \A u \in Threads : Busy(u) =>
        /\ Dst(u) \subseteq Addresses /\ Used(u) \subseteq Addresses
        /\ Src(u) \subseteq Addresses /\ Old(u) \subseteq Addresses
  BY Operand, SetsOf DEF IInv, Shape
<1>7. Shape'
  <2>1. at' \in [Threads -> Nat \ {0}] /\ stage' \in [Threads -> {"idle", "read", "write"}]
    BY DEF LoadRegister, Return, IInv, Shape
  <2>2. data' = [u \in Threads |-> data'[u]]
    BY DEF LoadRegister, Computed, IInv, Shape
  <2> QED BY <2>1, <2>2, <1>1, <1>4 DEF LoadRegister, IInv, Shape, Busy
<1>8. ClashesKnown'
  <2> SUFFICES ASSUME NEW u \in Threads, NEW w \in Threads, u # w, u # t, w # t, Busy(u), Busy(w)
               PROVE  Cross(u, w)' \subseteq raced'
    BY <1>4 DEF ClashesKnown, Busy
  <2>1. Cross(u, w)' = Cross(u, w)
    BY <1>5, SetsOf DEF Cross, Clash, Dst, Touched
  <2>2. Cross(u, w) \subseteq raced \cap Addresses
    BY <1>6, SetsOf DEF IInv, ClashesKnown
  <2> QED BY <2>1, <2>2, <1>3
<1>9. ReadsRight'
  <2> SUFFICES ASSUME NEW u \in Threads, u # t, stage[u] = "read"
               PROVE  SeenRight(from[u], Src(u))' /\ SeenRight(onto[u], Old(u))'
    BY <1>4 DEF ReadsRight
  <2>1. SeenRight(from[u], Src(u)) /\ SeenRight(onto[u], Old(u))
    BY DEF IInv, ReadsRight
  <2>2. Busy(u) /\ from' = from /\ onto' = onto /\ ideal'.mem = ideal.mem
    BY <1>1 DEF LoadRegister, Busy
  <2> QED BY <2>1, <2>2, <1>3, <1>5, <1>6 DEF SeenRight
<1>10. WritesRight'
  <2> SUFFICES ASSUME NEW u \in Threads, u # t, Writing(u)
               PROVE  /\ todo[u] \subseteq Dst(u)
                      /\ Used(u) \cap raced' = {} => data[u] = Goal(u)
                      /\ \A b \in Dst(u) \ (raced' \cup todo[u]) : mem[b] = Out(u, data[u], b)
    BY <1>4, <1>5 DEF WritesRight, LoadRegister, Writing
  <2>1. Dst(u) \subseteq Addresses /\ Used(u) \subseteq Addresses
    BY <1>6 DEF Busy, Writing
  <2> QED BY <2>1, <1>3 DEF IInv, WritesRight
<1>11. MemoryExact'
  <2> SUFFICES ASSUME NEW a \in Addresses \ raced,
                      \A u \in Threads \ {t} : Writing(u) => a \notin Dst(u)
               PROVE  mem[a] = ideal.mem[a]
    BY <1>1, <1>3, <1>4, <1>5 DEF MemoryExact, LoadRegister, Writing
  <2> QED BY <1>4 DEF IInv, MemoryExact, Writing
<1>12. RegistersExact'
  <2>1. t \notin raced' => data'[t] = Goal(t)
    BY <1>2, ComputedRight DEF LoadRegister
  <2> QED BY <2>1, <1>1, <1>2 DEF IInv, RegistersExact, Shape
<1> QED BY <1>7, <1>8, <1>9, <1>10, <1>11, <1>12 DEF IInv

LEMMA StutterKeeps ==
  ASSUME IInv, UNCHANGED vars
  PROVE  IInv'
<1> USE DEF vars, work
<1>1. Shape' /\ ClashesKnown'
  BY SameInsns DEF IInv, Shape, ClashesKnown, Busy
<1>2. ReadsRight' /\ WritesRight'
  BY SameInsns DEF IInv, ReadsRight, SeenRight, WritesRight, Writing
<1>3. MemoryExact' /\ RegistersExact'
  BY SameInsns DEF IInv, MemoryExact, RegistersExact, Writing
<1> QED BY <1>1, <1>2, <1>3 DEF IInv

THEOREM Invariance == Spec => []IInv
<1>1. IInv /\ [Next]_vars => IInv'
  <2> SUFFICES ASSUME IInv, [Next]_vars PROVE IInv'
    OBVIOUS
  <2>1. ASSUME NEW t \in Threads,
               \/ Begin(t) \/ ReadSource(t) \/ ReadDestination(t) \/ StartWriting(t)
               \/ WriteByte(t) \/ WriteAgain(t) \/ EndWriting(t) \/ LoadRegister(t)
        PROVE  IInv'
    BY <2>1, BeginKeeps, ReadSourceKeeps, ReadDestinationKeeps, StartWritingKeeps, WriteByteKeeps,
       WriteAgainKeeps, EndWritingKeeps, LoadRegisterKeeps
  <2> QED BY <2>1, StutterKeeps DEF Next, Over
<1> QED BY Initially, <1>1, PTL DEF Spec

\* Unless an instruction shares bytes with another one under way, memory and
\* registers are as if it had been one step (SharedCells!UnracedExact).
THEOREM AtomicUnlessRaced == Spec => []UnracedExact
<1>1. IInv => UnracedExact
  BY DEF IInv, MemoryExact, RegistersExact, UnracedExact, Busy, Writing, Dst
<1> QED BY Invariance, <1>1, PTL

-----------------------------------------------------------------------------
(* A store that was seen and answered.                                       *)

Cell(t) == program[t][1].dst
Value(t) == program[t][1].src.data
Byte(t, a) == Digit(Cell(t), Value(t), a)

\* Thread t stores a number without a zero byte, and u loads and clears it.
Answering(t, u) ==
  /\ Len(program[t]) = 1 /\ program[t][1].op = "MOV"
  /\ Cell(t).t = "MEM" /\ program[t][1].src.t = "IMM"
  /\ Cell(t).v # 2
  /\ \A a \in Bytes(Cell(t)) : Byte(t, a) # 0
  /\ program[u] = <<[op |-> "MOV", dst |-> [t |-> "REG"], src |-> Cell(t)],
                    [op |-> "MOV", dst |-> Cell(t), src |-> [t |-> "IMM", data |-> 0]]>>
  /\ \A w \in Threads \ {t, u} : program[w] = << >>

\* The byte of the store, and that of the answer, has been written.
Stored(t, a) == at[t] = 2 \/ (stage[t] = "write" /\ a \notin todo[t])
Cleared(u, a) == at[u] = 3 \/ (at[u] = 2 /\ stage[u] = "write" /\ a \notin todo[u])

\* Nothing of the store, or what has been stored.
SoFar(x, t, a) == x = 0 \/ (x = Byte(t, a) /\ Stored(t, a))

StorerRight(t) ==
  /\ at[t] \in {1, 2}
  /\ at[t] = 2 => stage[t] = "idle"
  /\ Writing(t) => data[t] = Value(t) /\ passes[t] = 0 /\ todo[t] \subseteq Bytes(Cell(t))

AnswererRight(t, u) ==
  /\ at[u] \in {1, 2, 3}
  /\ at[u] = 3 => stage[u] = "idle"
  /\ Writing(u) => at[u] = 2 /\ data[u] = 0 /\ passes[u] = 0 /\ todo[u] \subseteq Bytes(Cell(t))

\* Before the answer.
SeenSoFar(t, u) ==
  at[u] = 1 =>
    /\ \A a \in Bytes(Cell(t)) : SoFar(mem[a], t, a)
    /\ stage[u] = "read" => \A a \in DOMAIN from[u] : SoFar(from[u][a], t, a)

\* After a number was loaded that is the one stored.
AnsweredSoFar(t, u) ==
  at[u] # 1 /\ reg[u] = Value(t) =>
    \A a \in Bytes(Cell(t)) : Stored(t, a) /\ (Cleared(u, a) => mem[a] = 0)

AnswerInv(t, u) ==
  StorerRight(t) /\ AnswererRight(t, u) /\ SeenSoFar(t, u) /\ AnsweredSoFar(t, u)

\* What the two threads run.
LEMMA AnsweringRuns ==
  ASSUME Shape, NEW t \in Threads, NEW u \in Threads, Answering(t, u)
  PROVE  /\ t # u
         /\ Cell(t).t = "MEM" /\ Cell(t).at \in Nat /\ Cell(t).v \in {1, 4}
         /\ Bytes(Cell(t)) = Cell(t).at .. Cell(t).at + Cell(t).v - 1
         /\ Bytes(Cell(t)) \subseteq Addresses
         /\ Value(t) \in Nat
         /\ Len(program[t]) = 1 /\ Len(program[u]) = 2
         /\ \A w \in Threads \ {t, u} : Len(program[w]) = 0
<1> DEFINE Insns == [op : {"MOV", "ADD"}, dst : Operands, src : Operands]
<1>1. program[t] \in Seq(Insns) /\ Len(program[t]) = 1
  BY CellsAssumption DEF Shape, Answering
<1>2. program[t][1] \in Insns
  <2> HIDE DEF Insns
  <2> QED BY <1>1
<1>3. program[t][1].dst \in Operands /\ program[t][1].src \in Operands
  BY <1>2
<1>4. /\ Cell(t) \in [t : {"MEM"}, at : Addresses, v : {1, 2, 4}]
      /\ Cell(t).at .. Cell(t).at + Cell(t).v - 1 \subseteq Addresses
  BY <1>3 DEF Answering, Cell, Operands
<1>5. Value(t) \in Nat
  BY <1>3 DEF Answering, Value, Operands
<1>6. Len(program[u]) = 2
  BY DEF Answering
<1>7. \A w \in Threads \ {t, u} : Len(program[w]) = 0
  BY DEF Answering
<1>8. Cell(t).t = "MEM" /\ Cell(t).at \in Nat /\ Cell(t).v \in {1, 4}
  BY <1>4, CellsAssumption DEF Answering
<1>9. Bytes(Cell(t)) = Cell(t).at .. Cell(t).at + Cell(t).v - 1
  BY <1>8 DEF Bytes
<1>10. t # u
  <2> SUFFICES ASSUME t = u PROVE FALSE
    OBVIOUS
  <2>1. Len(program[t]) = Len(program[u])
    OBVIOUS
  <2>2. Len(program[t]) = 1 /\ Len(program[u]) = 2
    BY <1>1, <1>6
  <2> HIDE DEF Insns
  <2> QED BY <2>1, <2>2
<1>11. Bytes(Cell(t)) \subseteq Addresses
  BY <1>4, <1>9
<1> HIDE DEF Insns
<1> QED BY <1>1, <1>5, <1>6, <1>7, <1>8, <1>9, <1>10, <1>11

\* The instructions of the two, one by one.
LEMMA AnsweringInsns ==
  ASSUME Shape, NEW t \in Threads, NEW u \in Threads, Answering(t, u)
  PROVE  /\ at[t] = 1 => /\ Insn(t).op = "MOV" /\ Insn(t).dst = Cell(t)
                         /\ Insn(t).src.t = "IMM" /\ Insn(t).src.data = Value(t)
         /\ at[u] = 1 => /\ Insn(u).op = "MOV" /\ Insn(u).dst.t = "REG" /\ Insn(u).src = Cell(t)
         /\ at[u] = 2 => /\ Insn(u).op = "MOV" /\ Insn(u).dst = Cell(t)
                         /\ Insn(u).src.t = "IMM" /\ Insn(u).src.data = 0
BY DEF Answering, Insn, Cell, Value

\* Nobody else runs.
LEMMA OthersIdle ==
  ASSUME Shape, NEW t \in Threads, NEW u \in Threads, Answering(t, u),
         NEW w \in Threads \ {t, u}
  PROVE  stage[w] = "idle" /\ ~ (at[w] <= Len(program[w]))
BY AnsweringRuns DEF Shape, Busy

\* Multiples of the base are at least the base apart.
LEMMA Multiples ==
  ASSUME NEW x \in Nat, NEW q \in Nat, q < x
  PROVE  \E y, z \in Nat : Base * q = y /\ Base * x = (y + Base) + z
<1>1. PICK d \in Nat : x = (q + 1) + d
  <2>1. x - (q + 1) \in Nat /\ x = (q + 1) + (x - (q + 1))
    OBVIOUS
  <2> QED BY <2>1
<1>2. Base \in Nat
  BY CellsAssumption
<1>3. Base * q \in Nat /\ Base * d \in Nat
  BY <1>2
<1>4. Base * x = (Base * q + Base) + Base * d
  BY <1>1, <1>2
<1> QED BY <1>3, <1>4

LEMMA TooFar ==
  ASSUME NEW y \in Nat, NEW z \in Nat, NEW f \in Nat, NEW r \in Nat, f < Base,
         y + f = ((y + Base) + z) + r
  PROVE  FALSE
BY CellsAssumption

\* There is one way to write a number.
LEMMA OneWay ==
  ASSUME NEW n \in Nat, NEW x \in Nat, NEW f \in Nat, f < Base, Base * x + f = n
  PROVE  x = n \div Base /\ f = n % Base
<1>1. PICK q \in Nat, r \in Nat : q = n \div Base /\ r = n % Base /\ r < Base /\ n = Base * q + r
  <2>1. n \div Base \in Nat /\ n % Base \in Nat /\ n % Base < Base /\ n = Base * (n \div Base) + (n % Base)
    BY CellsAssumption
  <2> QED BY <2>1
<1>2. ~ (q < x)
  <2> SUFFICES ASSUME q < x PROVE FALSE
    OBVIOUS
  <2>1. PICK y \in Nat, z \in Nat : Base * q = y /\ Base * x = (y + Base) + z
    BY Multiples
  <2>2. y + r = ((y + Base) + z) + f
    BY <1>1, <2>1
  <2> QED BY <1>1, <2>2, TooFar
<1>3. ~ (x < q)
  <2> SUFFICES ASSUME x < q PROVE FALSE
    OBVIOUS
  <2>1. PICK y \in Nat, z \in Nat : Base * x = y /\ Base * q = (y + Base) + z
    BY Multiples
  <2>2. y + f = ((y + Base) + z) + r
    BY <1>1, <2>1
  <2> QED BY <1>1, <2>2, TooFar
<1>4. x = q
  BY <1>2, <1>3
<1>5. PICK y \in Int : y = Base * q
  <2>1. Base * q \in Int
    BY CellsAssumption
  <2> QED BY <2>1
<1>6. y + f = y + r
  BY <1>1, <1>4, <1>5
<1>7. f = r
  BY <1>6
<1> QED BY <1>1, <1>4, <1>7, Zenon

LEMMA NumberIsNat ==
  ASSUME NEW o, o.t = "MEM", o.at \in Nat, o.v \in {1, 4},
         NEW f, \A a \in Bytes(o) : f[a] \in Nat
  PROVE  Number(o, f) \in Nat
<1>1. CASE o.v = 1
  <2>1. f[o.at + 0] \in Nat
    BY <1>1 DEF Bytes
  <2> QED BY <1>1, <2>1 DEF Number
<1>2. CASE o.v = 4
  <2>1. /\ f[o.at + 0] \in Nat /\ f[o.at + 1] \in Nat
        /\ f[o.at + 2] \in Nat /\ f[o.at + 3] \in Nat
    BY <1>2 DEF Bytes
  <2>2. \A x, y \in Nat : Base * x + y \in Nat
    BY CellsAssumption
  <2>3. Number(o, f) = Base * (Base * (Base * f[o.at + 0] + f[o.at + 1]) + f[o.at + 2]) + f[o.at + 3]
    BY <1>2 DEF Number
  <2>4. Base * f[o.at + 0] + f[o.at + 1] \in Nat
    BY <2>1, <2>2
  <2>5. Base * (Base * f[o.at + 0] + f[o.at + 1]) + f[o.at + 2] \in Nat
    BY <2>1, <2>2, <2>4
  <2>6. Base * (Base * (Base * f[o.at + 0] + f[o.at + 1]) + f[o.at + 2]) + f[o.at + 3] \in Nat
    BY <2>1, <2>2, <2>5
  <2> QED BY <2>3, <2>6
<1> QED BY <1>1, <1>2

\* A reader gets a number only if it read the bytes that a writer stores of it.
LEMMA NumberRead ==
  ASSUME NEW o, o.t = "MEM", o.at \in Nat, o.v \in {1, 4}, NEW n \in Nat,
         NEW f, \A a \in Bytes(o) : f[a] \in Nat /\ f[a] < Base,
         Number(o, f) = n, NEW a \in Bytes(o)
  PROVE  f[a] = Digit(o, n, a)
<1> DEFINE b0 == f[o.at]
           b1 == f[o.at + 1]
           b2 == f[o.at + 2]
           b3 == f[o.at + 3]
<1>1. CASE o.v = 1
  <2>1. a = o.at /\ o.at \in Bytes(o)
    BY <1>1 DEF Bytes
  <2>2. f[a] \in Nat /\ f[a] < Base /\ n = f[a]
    BY <1>1, <2>1 DEF Number
  <2>3. n % Base = n
    BY <2>2, CellsAssumption
  <2>4. Digit(o, n, a) = n % Base
    BY <1>1, <2>1 DEF Digit
  <2> QED BY <2>2, <2>3, <2>4
<1>2. CASE o.v = 4
  <2>1. /\ b0 \in Nat /\ b0 < Base /\ b1 \in Nat /\ b1 < Base
        /\ b2 \in Nat /\ b2 < Base /\ b3 \in Nat /\ b3 < Base
    BY <1>2 DEF Bytes
  <2>2. n = Base * (Base * (Base * b0 + b1) + b2) + b3
    BY <1>2 DEF Number
  <2> DEFINE x1 == Base * b0 + b1
             x2 == Base * x1 + b2
             q1 == n \div Base
             q2 == q1 \div Base
             q3 == q2 \div Base
  <2> HIDE DEF b0, b1, b2, b3
  <2>3. x1 \in Nat
    BY <2>1, CellsAssumption
  <2>4. n = Base * (Base * x1 + b2) + b3
    BY <2>2
  <2> HIDE DEF x1
  <2>5. x2 \in Nat /\ n = Base * x2 + b3
    BY <2>1, <2>3, <2>4, CellsAssumption
  <2> HIDE DEF x2
  <2>6. x2 = q1 /\ b3 = n % Base
    BY <2>5, <2>1, OneWay
  <2>7. x1 = q2 /\ b2 = q1 % Base
    <3>1. Base * x1 + b2 = x2
      BY DEF x2
    <3> QED BY <3>1, <2>1, <2>3, <2>5, <2>6, OneWay
  <2>8. b0 = q3 /\ b1 = q2 % Base
    <3>1. Base * b0 + b1 = x1
      BY DEF x1
    <3> QED BY <3>1, <2>1, <2>3, <2>7, OneWay
  <2>9. b0 = q3 % Base
    BY <2>8, <2>1, CellsAssumption
  <2> HIDE DEF q1, q2, q3
  <2>10. CASE a = o.at
    <3>1. Digit(o, n, a) = q3 % Base
      BY <1>2, <2>10 DEF Digit, q1, q2, q3
    <3> QED BY <3>1, <2>9, <2>10 DEF b0
  <2>11. CASE a = o.at + 1
    <3>1. Digit(o, n, a) = q2 % Base
      BY <1>2, <2>11 DEF Digit, q1, q2
    <3> QED BY <3>1, <2>8, <2>11 DEF b1
  <2>12. CASE a = o.at + 2
    <3>1. Digit(o, n, a) = q1 % Base
      BY <1>2, <2>12 DEF Digit, q1
    <3> QED BY <3>1, <2>7, <2>12 DEF b2
  <2>13. CASE a = o.at + 3
    <3>1. Digit(o, n, a) = n % Base
      BY <1>2, <2>13 DEF Digit
    <3> QED BY <3>1, <2>6, <2>13 DEF b3
  <2>14. a \in {o.at, o.at + 1, o.at + 2, o.at + 3}
    BY <1>2 DEF Bytes
  <2> QED BY <2>10, <2>11, <2>12, <2>13, <2>14
<1> QED BY <1>1, <1>2

LEMMA DigitIsByte ==
  ASSUME NEW o, NEW n \in Nat, NEW a
  PROVE  Digit(o, n, a) \in Nat /\ Digit(o, n, a) < Base
<1>1. \A x \in Nat : x \div Base \in Nat /\ x % Base \in Nat /\ x % Base < Base
  BY CellsAssumption
<1>2. PICK x \in Nat : Digit(o, n, a) = x % Base
  BY <1>1 DEF Digit
<1> QED BY <1>1, <1>2

LEMMA SameAnswering ==
  ASSUME NEW t \in Threads, NEW u \in Threads, program' = program
  PROVE  /\ Cell(t)' = Cell(t) /\ Value(t)' = Value(t)
         /\ Bytes(Cell(t))' = Bytes(Cell(t))
         /\ \A a : Byte(t, a)' = Byte(t, a)
         /\ Answering(t, u)' <=> Answering(t, u)
<1>1. Cell(t)' = Cell(t) /\ Value(t)' = Value(t)
  BY DEF Cell, Value
<1>2. Bytes(Cell(t))' = Bytes(Cell(t)) /\ \A a : Byte(t, a)' = Byte(t, a)
  BY <1>1 DEF Bytes, Byte, Digit
<1>3. Answering(t, u)' <=> Answering(t, u)
  BY <1>1, <1>2 DEF Answering
<1> QED BY <1>1, <1>2, <1>3

LEMMA AnswerInit ==
  ASSUME Init, NEW t \in Threads, NEW u \in Threads, Answering(t, u)
  PROVE  AnswerInv(t, u)
<1>1. Bytes(Cell(t)) \subseteq Addresses
  BY Initially, AnsweringRuns DEF IInv
<1> QED BY <1>1 DEF Init, AnswerInv, StorerRight, AnswererRight, SeenSoFar, AnsweredSoFar, SoFar, Writing

\* Steps of the thread that stores.
LEMMA StorerKeeps ==
  ASSUME Shape, NEW t \in Threads, NEW u \in Threads, Answering(t, u), AnswerInv(t, u),
         \/ Begin(t) \/ ReadSource(t) \/ ReadDestination(t) \/ StartWriting(t)
         \/ WriteByte(t) \/ WriteAgain(t) \/ EndWriting(t) \/ LoadRegister(t)
  PROVE  AnswerInv(t, u)'
<1> DEFINE c == Cell(t)
<1>1. t # u /\ Bytes(c) \subseteq Addresses /\ Len(program[t]) = 1
  BY AnsweringRuns
<1>2. at[t] = 1
  BY <1>1 DEF AnswerInv, StorerRight, Begin, ReadSource, ReadDestination, StartWriting, Computed,
              WriteByte, WriteAgain, EndWriting, LoadRegister
<1>3. /\ Insn(t).op = "MOV" /\ Insn(t).dst = c /\ Insn(t).src.t = "IMM"
      /\ Insn(t).src.data = Value(t) /\ c.t = "MEM" /\ c.v # 2
  BY <1>2, AnsweringInsns, AnsweringRuns
<1>4. Bytes(Insn(t).src) = {} /\ Kept(Insn(t)) = {} /\ Bytes(Insn(t).dst) = Bytes(c)
  BY <1>3 DEF Bytes, Kept
<1>5. program' = program
  BY DEF Begin, ReadSource, ReadDestination, StartWriting, WriteByte, WriteAgain, EndWriting, LoadRegister
<1>6. /\ c' = c /\ Value(t)' = Value(t) /\ Bytes(c)' = Bytes(c)
      /\ \A a : Byte(t, a)' = Byte(t, a)
  BY <1>5, SameAnswering
<1> HIDE DEF c
<1>7. CASE Begin(t)
  <2>1. /\ stage[t] = "idle" /\ stage'[t] = "read" /\ stage'[u] = stage[u]
        /\ from'[u] = from[u] /\ UNCHANGED <<at, data, todo, passes, mem, reg>>
    BY <1>7, <1>1 DEF Begin, Shape
  <2> QED BY <2>1, <1>1, <1>2, <1>6 DEF AnswerInv, StorerRight, AnswererRight, SeenSoFar, AnsweredSoFar,
                              SoFar, Stored, Cleared, Writing, c
<1>8. CASE StartWriting(t)
  <2>1. /\ stage[t] = "read" /\ stage'[t] = "write" /\ stage'[u] = stage[u]
        /\ todo'[t] = Bytes(c) /\ todo'[u] = todo[u]
        /\ passes'[t] = 0 /\ passes'[u] = passes[u]
        /\ UNCHANGED <<at, mem, from, reg>>
    BY <1>8, <1>1, <1>3, <1>4 DEF StartWriting, Computed, Shape, Written, Repeats
  <2>2. data'[t] = Value(t) /\ data'[u] = data[u]
    <3>1. Value(t) \in Nat
      BY AnsweringRuns
    <3>2. Result(Insn(t), from[t], onto[t]) = Value(t)
      BY <3>1, <1>3 DEF Result
    <3> QED BY <3>2, <1>8, <1>1 DEF StartWriting, Computed, Shape
  <2> QED BY <2>1, <2>2, <1>1, <1>2, <1>6 DEF AnswerInv, StorerRight, AnswererRight, SeenSoFar,
                              AnsweredSoFar, SoFar, Stored, Cleared, Writing, c
<1>9. CASE WriteByte(t)
  <2>1. PICK a \in todo[t] : /\ mem' = [mem EXCEPT ![a] = Digit(c, data[t], a)]
                             /\ todo' = [todo EXCEPT ![t] = @ \ {a}]
    BY <1>9, <1>3 DEF WriteByte
  <2>2. a \in Bytes(c) /\ data[t] = Value(t)
    BY <1>9 DEF WriteByte, AnswerInv, StorerRight, Writing, c
  <2>3. /\ mem'[a] = Byte(t, a) /\ \A b \in Bytes(c) : b # a => mem'[b] = mem[b]
        /\ todo'[t] = todo[t] \ {a} /\ todo'[u] = todo[u]
    BY <2>1, <2>2, <1>1 DEF Shape, Byte, c
  <2>4. UNCHANGED <<at, stage, from, data, passes, reg>> /\ stage[t] = "write"
    BY <1>9 DEF WriteByte
  <2>5. ~ (at[u] # 1 /\ reg[u] = Value(t))
    BY <2>2, <2>4, <1>2 DEF AnswerInv, AnsweredSoFar, Stored, c
  <2>6. SeenSoFar(t, u)'
    BY <2>3, <2>4, <1>1, <1>2, <1>6 DEF AnswerInv, SeenSoFar, SoFar, Stored, c
  <2>7. StorerRight(t)' /\ AnswererRight(t, u)'
    BY <2>3, <2>4, <1>6 DEF AnswerInv, StorerRight, AnswererRight, Writing, c
  <2> QED BY <2>4, <2>5, <2>6, <2>7, <1>6 DEF AnswerInv, AnsweredSoFar
<1>10. CASE EndWriting(t)
  <2>1. /\ stage[t] = "write" /\ todo[t] = {} /\ stage'[t] = "idle" /\ at'[t] = 2
        /\ stage'[u] = stage[u] /\ at'[u] = at[u]
        /\ UNCHANGED <<from, data, todo, passes, mem, reg>>
    BY <1>10, <1>1, <1>2 DEF EndWriting, Return, Shape
  <2> QED BY <2>1, <1>1, <1>2, <1>6 DEF AnswerInv, StorerRight, AnswererRight, SeenSoFar, AnsweredSoFar,
                              SoFar, Stored, Cleared, Writing, c
<1>11. ~ ReadSource(t) /\ ~ ReadDestination(t) /\ ~ LoadRegister(t)
  BY <1>3, <1>4 DEF ReadSource, ReadDestination, LoadRegister
<1>12. ~ WriteAgain(t)
  BY DEF WriteAgain, AnswerInv, StorerRight, Writing
<1> QED BY <1>7, <1>8, <1>9, <1>10, <1>11, <1>12

\* Steps of the thread that answers.
LEMMA AnswererKeeps ==
  ASSUME Shape, NEW t \in Threads, NEW u \in Threads, Answering(t, u), AnswerInv(t, u),
         \/ Begin(u) \/ ReadSource(u) \/ ReadDestination(u) \/ StartWriting(u)
         \/ WriteByte(u) \/ WriteAgain(u) \/ EndWriting(u) \/ LoadRegister(u)
  PROVE  AnswerInv(t, u)'
<1> DEFINE c == Cell(t)
<1>1. t # u /\ Bytes(c) \subseteq Addresses /\ Len(program[u]) = 2 /\ c.t = "MEM" /\ c.v # 2
  BY AnsweringRuns
<1>2. at[u] \in {1, 2}
  BY <1>1 DEF AnswerInv, AnswererRight, Begin, ReadSource, ReadDestination, StartWriting, Computed,
              WriteByte, WriteAgain, EndWriting, LoadRegister
<1>3. /\ at[u] = 1 => /\ Insn(u).op = "MOV" /\ Insn(u).dst.t = "REG" /\ Insn(u).src = c
      /\ at[u] = 2 => /\ Insn(u).op = "MOV" /\ Insn(u).dst = c
                      /\ Insn(u).src.t = "IMM" /\ Insn(u).src.data = 0
  BY AnsweringInsns
<1>4. /\ Kept(Insn(u)) = {}
      /\ at[u] = 1 => Bytes(Insn(u).src) = Bytes(c)
      /\ at[u] = 2 => Bytes(Insn(u).src) = {} /\ Bytes(Insn(u).dst) = Bytes(c)
  BY <1>2, <1>3 DEF Bytes, Kept
<1>5. program' = program
  BY DEF Begin, ReadSource, ReadDestination, StartWriting, WriteByte, WriteAgain, EndWriting, LoadRegister
<1>6. /\ c' = c /\ Value(t)' = Value(t) /\ Bytes(c)' = Bytes(c)
      /\ \A a : Byte(t, a)' = Byte(t, a)
  BY <1>5, SameAnswering
<1> HIDE DEF c
<1>7. CASE Begin(u)
  <2>1. /\ stage[u] = "idle" /\ stage'[u] = "read" /\ stage'[t] = stage[t]
        /\ from'[u] = Part(mem, {}) /\ UNCHANGED <<at, data, todo, passes, mem, reg>>
    BY <1>7, <1>1 DEF Begin, Shape
  <2>2. DOMAIN from'[u] = {}
    BY <2>1 DEF Part
  <2> QED BY <2>1, <2>2, <1>1, <1>2, <1>6 DEF AnswerInv, StorerRight, AnswererRight, SeenSoFar,
                              AnsweredSoFar, SoFar, Stored, Cleared, Writing, c
<1>8. CASE ReadSource(u)
  <2>1. at[u] = 1 /\ stage[u] = "read"
    BY <1>8, <1>2, <1>4 DEF ReadSource
  <2>2. PICK a \in Bytes(c) : from' = [from EXCEPT ![u] = With(@, a)]
    BY <1>8, <2>1, <1>4 DEF ReadSource
  <2>3. from'[u] = With(from[u], a) /\ UNCHANGED <<at, stage, data, todo, passes, mem, reg>>
    BY <1>8, <2>2 DEF ReadSource, Shape
  <2>4. \A b \in DOMAIN from'[u] :
          \/ b = a /\ from'[u][b] = mem[a]
          \/ b \in DOMAIN from[u] /\ from'[u][b] = from[u][b]
    BY <2>3 DEF With
  <2>5. SeenSoFar(t, u)'
    BY <2>1, <2>3, <2>4, <1>6 DEF AnswerInv, SeenSoFar, SoFar, Stored, c
  <2> QED BY <2>1, <2>3, <2>5, <1>6 DEF AnswerInv, StorerRight, AnswererRight, AnsweredSoFar, Writing, c
<1>9. CASE StartWriting(u)
  <2>1. at[u] = 2
    BY <1>9, <1>2, <1>3 DEF StartWriting
  <2>2. /\ stage[u] = "read" /\ stage'[u] = "write" /\ stage'[t] = stage[t]
        /\ todo'[u] = Bytes(c) /\ todo'[t] = todo[t]
        /\ passes'[u] = 0 /\ passes'[t] = passes[t]
        /\ UNCHANGED <<at, mem, from, reg>>
    BY <1>9, <2>1, <1>1, <1>3, <1>4 DEF StartWriting, Computed, Shape, Written, Repeats
  <2>3. data'[u] = 0 /\ data'[t] = data[t]
    <3>1. Result(Insn(u), from[u], onto[u]) = 0
      BY <2>1, <1>3 DEF Result
    <3> QED BY <3>1, <1>9, <1>1 DEF StartWriting, Computed, Shape
  <2> QED BY <2>1, <2>2, <2>3, <1>1, <1>6 DEF AnswerInv, StorerRight, AnswererRight, SeenSoFar,
                              AnsweredSoFar, Stored, Cleared, Writing, c
<1>10. CASE WriteByte(u)
  <2>1. at[u] = 2 /\ stage[u] = "write" /\ data[u] = 0
    BY <1>10 DEF WriteByte, AnswerInv, AnswererRight, Writing
  <2>2. PICK a \in todo[u] : /\ mem' = [mem EXCEPT ![a] = Digit(c, 0, a)]
                             /\ todo' = [todo EXCEPT ![u] = @ \ {a}]
    BY <1>10, <2>1, <1>3 DEF WriteByte
  <2>3. a \in Bytes(c)
    BY <2>1 DEF AnswerInv, AnswererRight, Writing, c
  <2>4. Digit(c, 0, a) = 0
    <3>1. 0 \div Base = 0 /\ 0 % Base = 0
      BY CellsAssumption
    <3> QED BY <3>1 DEF Digit
  <2>5. /\ mem'[a] = 0 /\ \A b \in Bytes(c) : b # a => mem'[b] = mem[b]
        /\ todo'[u] = todo[u] \ {a} /\ todo'[t] = todo[t]
        /\ UNCHANGED <<at, stage, from, data, passes, reg>>
    BY <1>10, <2>2, <2>3, <2>4, <1>1 DEF WriteByte, Shape
  <2>6. AnsweredSoFar(t, u)'
    BY <2>1, <2>5, <1>6 DEF AnswerInv, AnsweredSoFar, Stored, Cleared, c
  <2> QED BY <2>1, <2>5, <2>6, <1>6 DEF AnswerInv, StorerRight, AnswererRight, SeenSoFar, Writing, c
<1>11. CASE EndWriting(u)
  <2>1. at[u] = 2 /\ stage[u] = "write" /\ todo[u] = {}
    BY <1>11 DEF EndWriting, AnswerInv, AnswererRight, Writing
  <2>2. /\ stage'[u] = "idle" /\ at'[u] = 3 /\ stage'[t] = stage[t] /\ at'[t] = at[t]
        /\ UNCHANGED <<from, data, todo, passes, mem, reg>>
    BY <1>11, <2>1, <1>1 DEF EndWriting, Return, Shape
  <2> QED BY <2>1, <2>2, <1>1, <1>6 DEF AnswerInv, StorerRight, AnswererRight, SeenSoFar, AnsweredSoFar,
                              Stored, Cleared, Writing, c
<1>12. CASE LoadRegister(u)
  <2>1. at[u] = 1 /\ stage[u] = "read" /\ DOMAIN from[u] = Bytes(c)
    BY <1>12, <1>1, <1>2, <1>3, <1>4 DEF LoadRegister, Computed
  <2>2. /\ stage'[u] = "idle" /\ at'[u] = 2 /\ stage'[t] = stage[t] /\ at'[t] = at[t]
        /\ data'[t] = data[t] /\ UNCHANGED <<from, todo, passes, mem>>
    BY <1>12, <2>1, <1>1 DEF LoadRegister, Computed, Return, Shape
  <2>3. reg'[u] = Result(Insn(u), from[u], onto[u])
    BY <1>12 DEF LoadRegister, Computed, Shape
  <2>4. ASSUME reg'[u] = Value(t), NEW a \in Bytes(c) PROVE Stored(t, a)
    <3>1. Value(t) \in Nat /\ c.at \in Nat /\ c.v \in {1, 4}
      BY AnsweringRuns DEF c
    <3>2. \A b \in Bytes(c) : Byte(t, b) \in Nat /\ Byte(t, b) < Base /\ Byte(t, b) # 0
      BY <3>1, DigitIsByte DEF Byte, Answering, c
    <3>3. \A b \in Bytes(c) : SoFar(from[u][b], t, b)
      BY <2>1 DEF AnswerInv, SeenSoFar, c
    <3>4. \A b \in Bytes(c) : from[u][b] \in Nat /\ from[u][b] < Base
      BY <3>2, <3>3, CellsAssumption DEF SoFar
    <3>5. Number(c, from[u]) = Value(t)
      <4>1. Number(c, from[u]) \in Nat
        BY <3>1, <3>4, <1>1, NumberIsNat
      <4>2. Result(Insn(u), from[u], onto[u]) = Number(c, from[u]) + 0
        BY <2>1, <1>1, <1>3 DEF Result
      <4> QED BY <4>1, <4>2, <2>3, <2>4
    <3>6. from[u][a] = Byte(t, a)
      BY <3>1, <3>4, <3>5, <1>1, NumberRead DEF Byte, c
    <3> QED BY <3>2, <3>3, <3>6 DEF SoFar
  <2>5. AnsweredSoFar(t, u)'
    BY <2>2, <2>4, <1>6 DEF AnsweredSoFar, Stored, Cleared, c
  <2> QED BY <2>1, <2>2, <2>5, <1>1, <1>6 DEF AnswerInv, StorerRight, AnswererRight, SeenSoFar, Writing, c
<1>13. ~ ReadDestination(u)
  BY <1>4 DEF ReadDestination
<1>14. ~ WriteAgain(u)
  BY DEF WriteAgain, AnswerInv, AnswererRight, Writing
<1> QED BY <1>7, <1>8, <1>9, <1>10, <1>11, <1>12, <1>13, <1>14

\* A BYTE or an INT that was seen and overwritten does not come back, whatever
\* its place and value and however the two threads interleave.
THEOREM AnswersStay == Spec => []AnswerStays
<1> DEFINE AnswersInv == \A t, u \in Threads : Answering(t, u) => AnswerInv(t, u)
<1>1. Init => AnswersInv
  BY AnswerInit
<1>2. IInv /\ AnswersInv /\ [Next]_vars => AnswersInv'
  <2> SUFFICES ASSUME IInv, [Next]_vars, NEW t \in Threads, NEW u \in Threads,
                      Answering(t, u), AnswerInv(t, u)
               PROVE  AnswerInv(t, u)' /\ program' = program
    <3>1. [Next]_vars => program' = program
      BY DEF Next, Begin, ReadSource, ReadDestination, StartWriting, WriteByte, WriteAgain, EndWriting,
             LoadRegister, Over, vars, work
    <3> QED BY <3>1, SameAnswering
  <2> USE DEF IInv
  <2>1. CASE UNCHANGED vars
    <3>1. UNCHANGED <<program, at, stage, from, data, todo, passes, mem, reg>>
      BY <2>1 DEF vars, work
    <3>2. /\ Cell(t)' = Cell(t) /\ Value(t)' = Value(t) /\ Bytes(Cell(t))' = Bytes(Cell(t))
          /\ \A a : Byte(t, a)' = Byte(t, a)
      BY <3>1, SameAnswering
    <3> QED BY <3>1, <3>2 DEF AnswerInv, StorerRight, AnswererRight, SeenSoFar, AnsweredSoFar, SoFar,
                              Stored, Cleared, Writing
  <2>2. ASSUME NEW w \in Threads,
               \/ Begin(w) \/ ReadSource(w) \/ ReadDestination(w) \/ StartWriting(w)
               \/ WriteByte(w) \/ WriteAgain(w) \/ EndWriting(w) \/ LoadRegister(w)
        PROVE  AnswerInv(t, u)' /\ program' = program
    <3>1. w \in {t, u}
      <4>1. ~ (stage[w] = "idle" /\ ~ (at[w] <= Len(program[w])))
        BY <2>2 DEF Begin, ReadSource, ReadDestination, StartWriting, Computed, WriteByte, WriteAgain,
                    EndWriting, LoadRegister
      <4> QED BY <4>1, OthersIdle
    <3>2. program' = program
      BY <2>2 DEF Begin, ReadSource, ReadDestination, StartWriting, WriteByte, WriteAgain, EndWriting,
                  LoadRegister
    <3> QED BY <2>2, <3>1, <3>2, StorerKeeps, AnswererKeeps
  <2> QED BY <2>1, <2>2 DEF Next, Over
<1>3. IInv /\ AnswersInv => AnswerStays
  <2> SUFFICES ASSUME IInv, AnswersInv, NEW t \in Threads, NEW u \in Threads,
                      Ended, Answering(t, u), reg[u] = Value(t), NEW a \in Bytes(Cell(t))
               PROVE  mem[a] = 0
    BY DEF AnswerStays, Answering, Cell, Value, Byte
  <2>1. AnswerInv(t, u)
    OBVIOUS
  <2>2. at[u] = 3
    <3>1. Len(program[u]) = 2
      BY AnsweringRuns DEF IInv
    <3>2. at[u] > 2 /\ at[u] \in {1, 2, 3}
      BY <2>1, <3>1 DEF Ended, AnswerInv, AnswererRight
    <3> QED BY <3>2
  <2> QED BY <2>1, <2>2 DEF AnswerInv, AnsweredSoFar, Cleared
<1> HIDE DEF AnswersInv
<1> QED BY <1>1, <1>2, <1>3, Invariance, PTL DEF Spec

-----------------------------------------------------------------------------
(* Counting in one byte.                                                     *)

One(c) == [op |-> "ADD", dst |-> c, src |-> [t |-> "IMM", data |-> 1]]

Counts(c) ==
  /\ c \in [t : {"MEM"}, at : Addresses, v : {1}]
  /\ Cardinality(Updates) < Base
  /\ \A t \in Threads : program[t] = [k \in 1 .. Len(program[t]) |-> One(c)]

\* How many of its updates a thread has written, and which those are.
Wrote(t) == IF Writing(t) /\ todo[t] = {} THEN at[t] ELSE at[t] - 1
Done == {p \in Updates : p[2] <= Wrote(p[1])}

\* No more than has been written; a later update of a thread counts on top of
\* an earlier one.
ReadSoFar(t, a) ==
  stage[t] = "read" =>
    \A b \in DOMAIN onto[t] :
      /\ b = a
      /\ onto[t][a] \in 0 .. Cardinality(Done)
      /\ at[t] # 1 => onto[t][a] # 0

ComputedSoFar(t, a) ==
  Writing(t) =>
    /\ passes[t] = 0 /\ todo[t] \in SUBSET {a}
    /\ todo[t] # {} =>
         /\ data[t] \in 1 .. Cardinality(Done) + 1
         /\ at[t] # 1 => data[t] # 1

\* Who wrote the 1 has written nothing else.
LowSoFar(a) ==
  /\ mem[a] \in 0 .. Cardinality(Done)
  /\ Done # {} => mem[a] # 0
  /\ mem[a] = 1 => \E t \in Threads : Wrote(t) = 1

CountInv(a) ==
  /\ \A t \in Threads : at[t] <= Len(program[t]) + 1
  /\ \A t \in Threads : ReadSoFar(t, a) /\ ComputedSoFar(t, a)
  /\ LowSoFar(a)

LEMMA UpdatesAre ==
  ASSUME Shape
  PROVE  /\ \A t \in Threads : Len(program[t]) \in Nat
         /\ \A t \in Threads : \A k \in 1 .. Len(program[t]) : <<t, k>> \in Updates
         /\ \A p \in Updates : p[1] \in Threads /\ p[2] \in 1 .. Len(program[p[1]]) /\ p = <<p[1], p[2]>>
<1>1. \A t \in Threads : Len(program[t]) \in Nat
  <2> DEFINE Insns == [op : {"MOV", "ADD"}, dst : Operands, src : Operands]
  <2>1. \A t \in Threads : program[t] \in Seq(Insns)
    BY CellsAssumption DEF Shape
  <2> HIDE DEF Insns
  <2> QED BY <2>1
<1>2. \A t \in Threads : \A k \in 1 .. Len(program[t]) : <<t, k>> \in Updates
  BY DEF Updates
<1>3. \A p \in Updates : p[1] \in Threads /\ p[2] \in 1 .. Len(program[p[1]]) /\ p = <<p[1], p[2]>>
  BY DEF Updates
<1> QED BY <1>1, <1>2, <1>3

LEMMA UpdatesFinite ==
  ASSUME Shape
  PROVE  IsFiniteSet(Updates)
<1> DEFINE Of == [t \in Threads |-> {t} \X (1 .. Len(program[t]))]
           All == {Of[t] : t \in Threads}
<1>1. IsFiniteSet(All)
  <2>1. Of \in Surjection(Threads, All)
    BY DEF Surjection
  <2> HIDE DEF Of, All
  <2> QED BY <2>1, FS_Surjection, CellsAssumption
<1>2. \A S \in All : IsFiniteSet(S)
  <2> SUFFICES ASSUME NEW t \in Threads PROVE IsFiniteSet(Of[t])
    OBVIOUS
  <2>1. IsFiniteSet({t}) /\ IsFiniteSet(1 .. Len(program[t]))
    <3>1. Len(program[t]) \in Int
      BY UpdatesAre
    <3>2. IsFiniteSet(1 .. Len(program[t]))
      BY <3>1, FS_Interval
    <3> QED BY <3>2, FS_Singleton
  <2>2. IsFiniteSet({t} \X (1 .. Len(program[t])))
    BY <2>1, FS_Product
  <2> QED BY <2>2
<1>3. Updates = UNION All
  BY DEF Updates
<1> HIDE DEF Of, All
<1> QED BY <1>1, <1>2, <1>3, FS_UNION

\* What a counting thread is at.
LEMMA CountsRuns ==
  ASSUME Shape, NEW c, Counts(c), NEW t \in Threads, at[t] <= Len(program[t])
  PROVE  /\ c.t = "MEM" /\ c.at \in Addresses /\ c.at \in Nat /\ c.v = 1
         /\ Insn(t).op = "ADD" /\ Insn(t).dst = c /\ Insn(t).src.t = "IMM" /\ Insn(t).src.data = 1
         /\ Bytes(Insn(t).src) = {} /\ Bytes(c) = {c.at} /\ Kept(Insn(t)) = {c.at}
         /\ <<t, at[t]>> \in Updates
         /\ at[t] # 1 => <<t, 1>> \in Updates
<1>1. c.t = "MEM" /\ c.at \in Addresses /\ c.at \in Nat /\ c.v = 1
  BY CellsAssumption DEF Counts
<1>2. at[t] \in 1 .. Len(program[t])
  BY UpdatesAre DEF Shape
<1>3. Insn(t) = One(c)
  <2>1. program[t] = [k \in 1 .. Len(program[t]) |-> One(c)]
    BY DEF Counts
  <2>2. program[t][at[t]] = [k \in 1 .. Len(program[t]) |-> One(c)][at[t]]
    BY <2>1
  <2> QED BY <2>2, <1>2 DEF Insn
<1>4. Insn(t).op = "ADD" /\ Insn(t).dst = c /\ Insn(t).src.t = "IMM" /\ Insn(t).src.data = 1
  BY <1>3 DEF One
<1>5. Bytes(c) = {c.at}
  BY <1>1 DEF Bytes
<1>6. Bytes(Insn(t).src) = {} /\ Kept(Insn(t)) = {c.at}
  BY <1>4, <1>5 DEF Bytes, Kept
<1>7. <<t, at[t]>> \in Updates /\ (at[t] # 1 => <<t, 1>> \in Updates)
  <2>1. at[t] # 1 => 1 \in 1 .. Len(program[t])
    BY <1>2
  <2> QED BY <2>1, <1>2, UpdatesAre
<1> QED BY <1>1, <1>4, <1>5, <1>6, <1>7

LEMMA DoneFinite ==
  ASSUME Shape
  PROVE  /\ IsFiniteSet(Done) /\ Cardinality(Done) \in Nat
         /\ Cardinality(Updates) \in Nat /\ Cardinality(Done) <= Cardinality(Updates)
<1>1. Done \in SUBSET Updates
  BY DEF Done
<1> QED BY <1>1, UpdatesFinite, FS_Subset, FS_CardinalityType

LEMMA SameDone ==
  ASSUME program' = program, \A t \in Threads : Wrote(t)' = Wrote(t), Shape
  PROVE  Updates' = Updates /\ Done' = Done
<1>1. Updates' = Updates
  BY DEF Updates
<1> QED BY <1>1, UpdatesAre DEF Done

\* One more update has been written.
LEMMA OneMoreDone ==
  ASSUME Shape, program' = program, NEW t \in Threads, <<t, at[t]>> \in Updates,
         Wrote(t) = at[t] - 1, Wrote(t)' = at[t],
         \A x \in Threads \ {t} : Wrote(x)' = Wrote(x)
  PROVE  /\ Cardinality(Done') = Cardinality(Done) + 1 /\ Done' # {}
         /\ Cardinality(Done) + 1 <= Cardinality(Updates)
<1>1. Updates' = Updates
  BY DEF Updates
<1>2. at[t] \in Nat
  BY DEF Shape
<1>3. Done' = Done \cup {<<t, at[t]>>}
  <2>1. ASSUME NEW p \in Updates
        PROVE  p \in Done' <=> p \in Done \/ p = <<t, at[t]>>
    <3>1. p[1] \in Threads /\ p[2] \in Int /\ p = <<p[1], p[2]>>
      BY UpdatesAre
    <3>2. (p \in Done <=> p[2] <= Wrote(p[1])) /\ (p \in Done' <=> p[2] <= Wrote(p[1])')
      BY <1>1 DEF Done
    <3>3. CASE p[1] = t
      <4>1. p = <<t, at[t]>> <=> p[2] = at[t]
        BY <3>1, <3>3
      <4>2. (p \in Done <=> p[2] <= at[t] - 1) /\ (p \in Done' <=> p[2] <= at[t])
        BY <3>2, <3>3
      <4> QED BY <4>1, <4>2, <3>1, <1>2
    <3>4. CASE p[1] # t
      <4>1. p # <<t, at[t]>>
        BY <3>4
      <4>2. Wrote(p[1])' = Wrote(p[1])
        BY <3>1, <3>4
      <4> QED BY <4>1, <4>2, <3>2
    <3> QED BY <3>3, <3>4
  <2>2. Done \subseteq Updates /\ Done' \subseteq Updates
    BY <1>1 DEF Done
  <2> QED BY <2>1, <2>2
<1>4. <<t, at[t]>> \notin Done
  BY <1>2 DEF Done
<1>5. Cardinality(Done') = Cardinality(Done) + 1
  BY <1>3, <1>4, DoneFinite, FS_AddElement
<1>6. Done' \in SUBSET Updates
  BY <1>1 DEF Done
<1>7. Cardinality(Done') <= Cardinality(Updates)
  BY <1>6, UpdatesFinite, FS_Subset
<1> QED BY <1>3, <1>5, <1>7

LEMMA CountInit ==
  ASSUME Init, NEW c, Counts(c)
  PROVE  CountInv(c.at)
<1>1. Shape
  BY Initially DEF IInv
<1>2. \A t \in Threads : at[t] = 1 /\ stage[t] = "idle" /\ Len(program[t]) \in Nat
  BY <1>1, UpdatesAre DEF Init
<1>3. \A t \in Threads : Wrote(t) = 0
  BY <1>2 DEF Wrote, Writing
<1>4. Done = {}
  BY <1>1, <1>3, UpdatesAre DEF Done
<1>5. mem[c.at] = 0
  BY DEF Init, Counts
<1>6. LowSoFar(c.at)
  BY <1>1, <1>4, <1>5, DoneFinite DEF LowSoFar
<1> QED BY <1>2, <1>6 DEF CountInv, ReadSoFar, ComputedSoFar, Writing

\* Every step of every thread.
LEMMA CountKeeps ==
  ASSUME Shape, NEW c, Counts(c), CountInv(c.at), NEW t \in Threads,
         \/ Begin(t) \/ ReadSource(t) \/ ReadDestination(t) \/ StartWriting(t)
         \/ WriteByte(t) \/ WriteAgain(t) \/ EndWriting(t) \/ LoadRegister(t)
  PROVE  CountInv(c.at)'
<1> DEFINE a == c.at
           n == Cardinality(Done)
<1>1. at[t] <= Len(program[t])
  BY DEF Shape, Busy, Begin, ReadSource, ReadDestination, StartWriting, Computed, WriteByte, WriteAgain,
         EndWriting, LoadRegister
<1>2. /\ c.t = "MEM" /\ a \in Addresses /\ a \in Nat /\ c.v = 1
      /\ Insn(t).op = "ADD" /\ Insn(t).dst = c /\ Insn(t).src.t = "IMM" /\ Insn(t).src.data = 1
      /\ Bytes(Insn(t).src) = {} /\ Bytes(c) = {a} /\ Kept(Insn(t)) = {a}
      /\ <<t, at[t]>> \in Updates /\ (at[t] # 1 => <<t, 1>> \in Updates)
  BY <1>1, CountsRuns
<1>3. program' = program
  BY DEF Begin, ReadSource, ReadDestination, StartWriting, WriteByte, WriteAgain, EndWriting, LoadRegister
<1>4. \A x \in Threads : at[x] \in Nat \ {0} /\ at[x] <= Len(program[x]) + 1 /\ Len(program[x]) \in Nat
  BY UpdatesAre DEF Shape, CountInv
<1>5. n \in Nat /\ Cardinality(Updates) < Base
  BY DoneFinite DEF Counts
<1>6. \A x \in Threads : ReadSoFar(x, a) /\ ComputedSoFar(x, a)
  BY DEF CountInv
<1>7. mem[a] \in 0 .. n /\ (Done # {} => mem[a] # 0) /\ (mem[a] = 1 => \E x \in Threads : Wrote(x) = 1)
  BY DEF CountInv, LowSoFar
<1> HIDE DEF a, n
\* A step that writes nothing.
<1>8. ASSUME \A x \in Threads : Wrote(x)' = Wrote(x), mem' = mem,
             \A x \in Threads \ {t} : /\ at'[x] = at[x] /\ stage'[x] = stage[x] /\ onto'[x] = onto[x]
                                      /\ data'[x] = data[x] /\ todo'[x] = todo[x] /\ passes'[x] = passes[x],
             at'[t] <= Len(program[t]) + 1,
             n' = n => ReadSoFar(t, a)' /\ ComputedSoFar(t, a)'
      PROVE  CountInv(c.at)'
  <2>1. Done' = Done
    BY <1>3, <1>8, SameDone
  <2>2. n' = n
    BY <2>1 DEF n
  <2>3. \A x \in Threads : at'[x] <= Len(program'[x]) + 1
    BY <1>3, <1>4, <1>8
  <2>4. ASSUME NEW x \in Threads PROVE ReadSoFar(x, a)' /\ ComputedSoFar(x, a)'
    <3>1. CASE x = t
      BY <3>1, <2>2, <1>8
    <3>2. CASE x # t
      BY <3>2, <2>2, <1>6, <1>8 DEF ReadSoFar, ComputedSoFar, Writing, n
    <3> QED BY <3>1, <3>2
  <2>5. LowSoFar(a)'
    BY <2>1, <1>7, <1>8 DEF LowSoFar, n
  <2>6. a' = a
    BY DEF a
  <2> QED BY <2>3, <2>4, <2>5 DEF CountInv, a
<1>9. CASE Begin(t)
  <2>1. /\ stage[t] = "idle" /\ stage'[t] = "read" /\ onto'[t] = Part(mem, {})
        /\ UNCHANGED <<at, data, todo, passes, mem>>
        /\ \A x \in Threads \ {t} : stage'[x] = stage[x] /\ onto'[x] = onto[x]
    BY <1>9 DEF Begin, Shape
  <2>2. \A x \in Threads : Wrote(x)' = Wrote(x)
    BY <2>1 DEF Wrote, Writing
  <2>3. DOMAIN onto'[t] = {}
    BY <2>1 DEF Part
  <2>4. ReadSoFar(t, a)' /\ ComputedSoFar(t, a)'
    BY <2>1, <2>3 DEF ReadSoFar, ComputedSoFar, Writing
  <2> QED BY <2>1, <2>2, <2>4, <1>4, <1>8
<1>10. CASE ReadDestination(t)
  <2>1. stage[t] = "read" /\ UNCHANGED <<at, stage, data, todo, passes, mem>>
        /\ onto' = [onto EXCEPT ![t] = With(@, a)]
    BY <1>10, <1>2 DEF ReadDestination
  <2>2. onto'[t] = With(onto[t], a) /\ \A x \in Threads \ {t} : onto'[x] = onto[x]
    BY <2>1 DEF Shape
  <2>3. \A x \in Threads : Wrote(x)' = Wrote(x)
    BY <2>1 DEF Wrote, Writing
  <2>4. onto'[t][a] = mem[a] /\ \A b \in DOMAIN onto'[t] : b = a
    BY <2>1, <2>2, <1>6 DEF With, ReadSoFar
  <2>5. at[t] # 1 => Done # {}
    <3> SUFFICES ASSUME at[t] # 1 PROVE <<t, 1>> \in Done
      OBVIOUS
    <3>1. Wrote(t) = at[t] - 1 /\ at[t] - 1 >= 1
      BY <2>1, <1>4 DEF Wrote, Writing
    <3> QED BY <3>1, <1>2 DEF Done
  <2>6. n' = n => ReadSoFar(t, a)' /\ ComputedSoFar(t, a)'
    BY <2>1, <2>4, <2>5, <1>7 DEF ReadSoFar, ComputedSoFar, Writing, n
  <2> QED BY <2>1, <2>2, <2>3, <2>6, <1>4, <1>8
<1>11. CASE StartWriting(t)
  <2>1. /\ stage[t] = "read" /\ DOMAIN onto[t] = {a}
        /\ stage'[t] = "write" /\ todo'[t] = {a} /\ passes'[t] = 0
        /\ UNCHANGED <<at, onto, mem>>
        /\ \A x \in Threads \ {t} : /\ stage'[x] = stage[x] /\ data'[x] = data[x]
                                    /\ todo'[x] = todo[x] /\ passes'[x] = passes[x]
    BY <1>11, <1>2 DEF StartWriting, Computed, Shape, Written, Repeats
  <2>2. data'[t] = 1 + onto[t][a]
    <3>1. data'[t] = Result(Insn(t), from[t], onto[t])
      BY <1>11 DEF StartWriting, Computed, Shape
    <3>2. Number(c, onto[t]) = onto[t][a]
      <4>1. a + 0 = a
        BY <1>2
      <4> QED BY <4>1, <1>2 DEF Number, a
    <3>3. Result(Insn(t), from[t], onto[t]) = 1 + Number(c, onto[t])
      BY <1>2 DEF Result
    <3> QED BY <3>1, <3>2, <3>3
  <2>3. \A x \in Threads : Wrote(x)' = Wrote(x)
    BY <2>1 DEF Wrote, Writing
  <2>4. onto[t][a] \in 0 .. n /\ (at[t] # 1 => onto[t][a] # 0)
    BY <2>1, <1>6 DEF ReadSoFar, n
  <2>5. n' = n => ComputedSoFar(t, a)'
    BY <2>1, <2>2, <2>4, <1>5 DEF ComputedSoFar, n
  <2>6. ReadSoFar(t, a)'
    BY <2>1 DEF ReadSoFar
  <2> QED BY <2>1, <2>3, <2>5, <2>6, <1>4, <1>8
<1>12. CASE EndWriting(t)
  <2>1. /\ stage[t] = "write" /\ todo[t] = {} /\ stage'[t] = "idle" /\ at'[t] = at[t] + 1
        /\ UNCHANGED <<onto, data, todo, passes, mem>>
        /\ \A x \in Threads \ {t} : stage'[x] = stage[x] /\ at'[x] = at[x]
    BY <1>12 DEF EndWriting, Return, Shape
  <2>2. \A x \in Threads : Wrote(x)' = Wrote(x)
    BY <2>1, <1>4 DEF Wrote, Writing
  <2>3. ReadSoFar(t, a)' /\ ComputedSoFar(t, a)'
    BY <2>1 DEF ReadSoFar, ComputedSoFar, Writing
  <2> QED BY <2>1, <2>2, <2>3, <1>1, <1>4, <1>8
<1>13. CASE WriteByte(t)
  <2>1. /\ stage[t] = "write" /\ todo[t] = {a} /\ UNCHANGED <<at, stage, onto, data, passes>>
        /\ mem' = [mem EXCEPT ![a] = Digit(c, data[t], a)]
        /\ todo' = [todo EXCEPT ![t] = @ \ {a}]
    <3>1. stage[t] = "write" /\ UNCHANGED <<at, stage, onto, data, passes>>
      BY <1>13 DEF WriteByte
    <3>2. PICK b \in todo[t] : /\ mem' = [mem EXCEPT ![b] = Digit(c, data[t], b)]
                               /\ todo' = [todo EXCEPT ![t] = @ \ {b}]
      BY <1>13, <1>2 DEF WriteByte
    <3>3. todo[t] = {a} /\ b = a
      BY <3>1, <3>2, <1>6 DEF ComputedSoFar, Writing
    <3> QED BY <3>1, <3>2, <3>3
  <2>2. todo'[t] = {} /\ \A x \in Threads \ {t} : todo'[x] = todo[x]
    BY <2>1 DEF Shape
  <2>3. data[t] \in 1 .. n + 1 /\ (at[t] # 1 => data[t] # 1) /\ passes[t] = 0
    BY <2>1, <1>6 DEF ComputedSoFar, Writing, n
  <2>4. Wrote(t) = at[t] - 1 /\ Wrote(t)' = at[t] /\ \A x \in Threads \ {t} : Wrote(x)' = Wrote(x)
    BY <2>1, <2>2 DEF Wrote, Writing
  <2>5. Cardinality(Done') = n + 1 /\ Done' # {} /\ n + 1 <= Cardinality(Updates)
    BY <2>4, <1>2, <1>3, OneMoreDone DEF n
  <2>6. mem'[a] = data[t]
    <3>1. Digit(c, data[t], a) = data[t] % Base
      BY <1>2, CellsAssumption DEF Digit, a
    <3>2. data[t] \in Nat /\ data[t] < Base
      BY <2>3, <2>5, <1>5, DoneFinite, CellsAssumption
    <3>3. data[t] % Base = data[t]
      BY <3>2, CellsAssumption
    <3> QED BY <3>1, <3>3, <2>1, <1>2 DEF Shape
  <2>7. n' = n + 1
    BY <2>5 DEF n
  <2>8. LowSoFar(a)'
    <3>1. mem'[a] \in 0 .. n' /\ mem'[a] # 0
      BY <2>3, <2>6, <2>7, <1>5
    <3>2. mem'[a] = 1 => Wrote(t)' = 1
      BY <2>3, <2>4, <2>6
    <3> QED BY <3>1, <3>2 DEF LowSoFar, n
  <2>9. ASSUME NEW x \in Threads PROVE ReadSoFar(x, a)' /\ ComputedSoFar(x, a)'
    <3>1. CASE x = t
      BY <3>1, <2>1, <2>2, <2>3 DEF ReadSoFar, ComputedSoFar, Writing
    <3>2. CASE x # t
      <4>1. /\ at'[x] = at[x] /\ stage'[x] = stage[x] /\ onto'[x] = onto[x] /\ data'[x] = data[x]
            /\ todo'[x] = todo[x] /\ passes'[x] = passes[x]
        BY <3>2, <2>1, <2>2
      <4>2. a' = a /\ Cardinality(Done') = n + 1
        BY <2>5 DEF a
      <4>3. ReadSoFar(x, a) /\ ComputedSoFar(x, a) /\ 0 .. n \subseteq 0 .. n + 1 /\ 1 .. n + 1 \subseteq 1 .. (n + 1) + 1
        BY <1>5, <1>6
      <4>4. ReadSoFar(x, a)'
        BY <4>1, <4>2, <4>3 DEF ReadSoFar, n
      <4>5. ComputedSoFar(x, a)'
        BY <4>1, <4>2, <4>3 DEF ComputedSoFar, Writing, n
      <4> QED BY <4>4, <4>5
    <3> QED BY <3>1, <3>2
  <2>10. \A x \in Threads : at'[x] <= Len(program'[x]) + 1
    BY <2>1, <1>3, <1>4
  <2> QED BY <2>8, <2>9, <2>10 DEF CountInv, a
<1>14. ~ ReadSource(t) /\ ~ LoadRegister(t) /\ ~ WriteAgain(t)
  <2>1. ~ ReadSource(t) /\ ~ LoadRegister(t)
    BY <1>2 DEF ReadSource, LoadRegister
  <2>2. ~ WriteAgain(t)
    BY <1>6 DEF WriteAgain, ComputedSoFar, Writing
  <2> QED BY <2>1, <2>2
<1> QED BY <1>9, <1>10, <1>11, <1>12, <1>13, <1>14

\* Threads that count in one byte lose updates, but two are left unless a thread
\* counts only once, for any number of threads and of updates of each.
THEOREM UpdatesBounded == Spec => []LostUpdatesBounded
<1> DEFINE CountsInv == \A c : Counts(c) => CountInv(c.at)
<1>1. Init => CountsInv
  BY CountInit
<1>2. IInv /\ CountsInv /\ [Next]_vars => CountsInv'
  <2> SUFFICES ASSUME IInv, CountsInv, [Next]_vars, NEW c, Counts(c)' PROVE CountInv(c.at)'
    OBVIOUS
  <2>1. program' = program
    BY DEF Next, Begin, ReadSource, ReadDestination, StartWriting, WriteByte, WriteAgain, EndWriting,
           LoadRegister, Over, vars, work
  <2>2. Counts(c) /\ CountInv(c.at)
    <3>1. Counts(c)
      BY <2>1 DEF Counts, Updates
    <3> QED BY <3>1
  <2>3. CASE UNCHANGED vars
    <3>1. UNCHANGED <<program, at, stage, onto, data, todo, passes, mem>>
      BY <2>3 DEF vars, work
    <3>2. \A t \in Threads : Wrote(t)' = Wrote(t)
      BY <3>1 DEF Wrote, Writing
    <3>3. Done' = Done
      BY <3>1, <3>2, SameDone DEF IInv
    <3> QED BY <2>2, <3>1, <3>2, <3>3 DEF CountInv, ReadSoFar, ComputedSoFar, LowSoFar, Writing
  <2>4. ASSUME NEW t \in Threads,
               \/ Begin(t) \/ ReadSource(t) \/ ReadDestination(t) \/ StartWriting(t)
               \/ WriteByte(t) \/ WriteAgain(t) \/ EndWriting(t) \/ LoadRegister(t)
        PROVE  CountInv(c.at)'
    BY <2>2, <2>4, CountKeeps DEF IInv
  <2> QED BY <2>3, <2>4 DEF Next, Over
<1>3. IInv /\ CountsInv => LostUpdatesBounded
  <2> DEFINE counts == {Len(program[t]) : t \in Threads} \ {0}
  <2> SUFFICES ASSUME IInv, CountsInv, NEW c, Counts(c), Ended, counts # {}
               PROVE  mem[c.at] \in (IF 1 \in counts THEN 1 ELSE 2) .. Cardinality(Updates)
    BY DEF LostUpdatesBounded, Counts, One
  <2>1. CountInv(c.at) /\ Shape
    BY DEF IInv
  <2>2. /\ mem[c.at] \in 0 .. Cardinality(Done)
        /\ Done # {} => mem[c.at] # 0
        /\ mem[c.at] = 1 => \E x \in Threads : Wrote(x) = 1
    BY <2>1 DEF CountInv, LowSoFar
  <2>3. \A x \in Threads : Wrote(x) = Len(program[x]) /\ Len(program[x]) \in Nat
    <3>1. \A x \in Threads : Len(program[x]) \in Nat
      BY <2>1, UpdatesAre
    <3> SUFFICES ASSUME NEW x \in Threads PROVE Wrote(x) = Len(program[x])
      BY <3>1
    <3>2. stage[x] = "idle" /\ at[x] > Len(program[x])
      BY DEF Ended
    <3>3. at[x] <= Len(program[x]) + 1 /\ at[x] \in Nat
      BY <2>1 DEF CountInv, Shape
    <3>4. Wrote(x) = at[x] - 1
      BY <3>2 DEF Wrote, Writing
    <3> QED BY <3>1, <3>2, <3>3, <3>4
  <2>4. Done # {}
    <3>1. PICK x \in Threads : Len(program[x]) # 0
      OBVIOUS
    <3>2. <<x, 1>> \in Updates
      BY <3>1, <2>1, <2>3, UpdatesAre
    <3>3. <<x, 1>> \in Done
      BY <3>1, <3>2, <2>3 DEF Done
    <3> QED BY <3>3
  <2>5. mem[c.at] = 1 => 1 \in counts
    <3> SUFFICES ASSUME mem[c.at] = 1 PROVE 1 \in counts
      OBVIOUS
    <3>1. PICK x \in Threads : Wrote(x) = 1
      BY <2>2
    <3>2. Len(program[x]) = 1
      BY <3>1, <2>3
    <3> QED BY <3>2
  <2>6. Cardinality(Done) \in Nat /\ Cardinality(Updates) \in Nat /\ Cardinality(Done) <= Cardinality(Updates)
    BY <2>1, DoneFinite
  <2> HIDE DEF counts
  <2> QED BY <2>2, <2>4, <2>5, <2>6
<1> HIDE DEF CountsInv
<1> QED BY <1>1, <1>2, <1>3, Invariance, PTL DEF Spec
=============================================================================
