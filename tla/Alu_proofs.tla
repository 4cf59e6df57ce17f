----------------------------- MODULE Alu_proofs -----------------------------
(***************************************************************************)
(* The computing instructions are right for every size of a byte, the 8    *)
(* bits of the code included, every program, registers, memory and         *)
(* operands:                                                               *)
(*   - registers hold words and memory holds bytes;                        *)
(*   - an instruction changes its destination only, and one that trims     *)
(*     leaves the bits above the width of a register;                      *)
(*   - the low bits of the destination become what Reference says.         *)
(* The lemmas: recursion on numbers up to a bound, numbers and words,      *)
(* loads and stores byte by byte, shifts and rotations, then one lemma for *)
(* each family of handlers.                                                *)
(***************************************************************************)
EXTENDS Alu, WellFoundedInduction, NaturalsInduction, TLAPS

-----------------------------------------------------------------------------
(* Induction and recursion over the natural numbers.                         *)

Below == {ss \in Nat \X Nat : ss[1] < ss[2]}

\* From the least element that a nonempty set of natural numbers has.
LEMMA Induction ==
  ASSUME NEW S, 0 \in S, \A n \in Nat : n \in S => n + 1 \in S
  PROVE  Nat \subseteq S
<1>1. IsWellFoundedOn(Below, Nat)
  BY NatLessThanWellFounded DEF OpToRel, Below
<1> SUFFICES ASSUME Nat \ S # {} PROVE FALSE
  OBVIOUS
<1>2. PICK n \in Nat \ S : \A m \in Nat \ S : <<m, n>> \notin Below
  BY <1>1, WFMin
<1>3. n # 0 /\ n - 1 \in Nat /\ <<n - 1, n>> \in Below
  BY DEF Below
<1>4. n - 1 \in S /\ (n - 1) + 1 = n
  BY <1>2, <1>3
<1> QED BY <1>3, <1>4

\* The same up to a number.
LEMMA InductionTo ==
  ASSUME NEW S, NEW m \in Nat, 0 \in S, \A n \in 0 .. m - 1 : n \in S => n + 1 \in S
  PROVE  0 .. m \subseteq S
<1> DEFINE T == {n \in Nat : n <= m => n \in S}
<1>1. 0 \in T
  OBVIOUS
<1>2. ASSUME NEW n \in Nat, n \in T PROVE n + 1 \in T
  BY <1>2
<1> HIDE DEF T
<1>3. Nat \subseteq T
  BY <1>1, <1>2, Induction
<1> QED BY <1>3 DEF T

\* The first value of a function, and how each follows from the one before it.
Recurs(f, c, next, m) ==
  f[0] = c /\ \A k \in 1 .. m : f[k] = next[<<k, f[k - 1]>>]

\* A function may be defined in this way.
LEMMA RecursionExists ==
  ASSUME NEW S, NEW c \in S, NEW next \in [Nat \X S -> S], NEW m \in Nat
  PROVE  \E f \in [0 .. m -> S] : Recurs(f, c, next, m)
<1> DEFINE Steps(f, n) == f[0] = c /\ \A k \in 1 .. n : f[k] = next[<<k, f[k - 1]>>]
           Good == {n \in Nat : \E f \in [0 .. n -> S] : Steps(f, n)}
<1>1. 0 \in Good
  <2>1. [k \in 0 .. 0 |-> c] \in [0 .. 0 -> S] /\ Steps([k \in 0 .. 0 |-> c], 0)
    OBVIOUS
  <2> QED BY <2>1
<1>2. ASSUME NEW n \in Nat, n \in Good PROVE n + 1 \in Good
  <2>1. PICK f \in [0 .. n -> S] : Steps(f, n)
    BY <1>2
  <2> DEFINE g == [k \in 0 .. n + 1 |-> IF k = n + 1 THEN next[<<n + 1, f[n]>>] ELSE f[k]]
  <2>2. f[n] \in S /\ next[<<n + 1, f[n]>>] \in S
    OBVIOUS
  <2>3. g \in [0 .. n + 1 -> S]
    BY <2>2
  <2>4. g[0] = c
    BY <2>1
  <2>5. ASSUME NEW k \in 1 .. n + 1 PROVE g[k] = next[<<k, g[k - 1]>>]
    <3>1. CASE k = n + 1
      <4>1. g[k - 1] = f[n] /\ g[k] = next[<<n + 1, f[n]>>]
        BY <3>1
      <4> HIDE DEF g
      <4> QED BY <3>1, <4>1
    <3>2. CASE k # n + 1
      <4>1. k \in 1 .. n /\ g[k] = f[k] /\ g[k - 1] = f[k - 1]
        BY <3>2
      <4> QED BY <4>1, <2>1
    <3> QED BY <3>1, <3>2
  <2> HIDE DEF g
  <2>6. Steps(g, n + 1)
    BY <2>4, <2>5
  <2> QED BY <2>3, <2>6
<1> HIDE DEF Good
<1>3. Nat \subseteq Good
  BY <1>1, <1>2, Induction
<1>4. m \in Good
  BY <1>3
<1> QED BY <1>4 DEF Good, Recurs

-----------------------------------------------------------------------------
(* Widths and powers of two.                                                 *)

\* The widths in halves of a byte.
LEMMA Sizes ==
  /\ ByteBits \in Nat /\ ByteBits = 2 * H /\ H \in Nat /\ H >= 1
  /\ WordBits = 8 * H /\ WordBits \in Nat /\ WordBits >= 8
  /\ Widths = {1, 2, 3} /\ INT = 3 /\ INT \in Widths
  /\ Bytes(1) = 1 /\ Bytes(2) = 2 /\ Bytes(3) = 4
  /\ Width(1) = 2 * H /\ Width(2) = 4 * H /\ Width(3) = 8 * H
  /\ Half(1) = H /\ Half(2) = 2 * H /\ Half(3) = 4 * H
  BY AluAssumption DEF ByteBits, WordBits, Width, Bytes, Widths, BYTE, INT, Half

\* Every width fits the word, and its masks the width.
LEMMA WidthsFit ==
  ASSUME NEW v \in Widths
  PROVE  /\ Bytes(v) \in 1 .. 4 /\ Width(v) \in 1 .. WordBits /\ Width(v) = 2 * Half(v)
         /\ Half(v) \in 1 .. WordBits - 1 /\ Low(v) \subseteq Bits
         /\ LowMask(v) \subseteq Low(v) /\ HighMask(v) \subseteq Low(v)
         /\ LowMask(v) = 0 .. Half(v) - 1 /\ HighMask(v) = Half(v) .. Width(v) - 1
         /\ Low(v) = 0 .. Width(v) - 1
  BY Sizes DEF Low, Bits, LowMask, HighMask

\* The same in the form the later proofs need.
LEMMA WidthBounds ==
  ASSUME NEW v \in Widths
  PROVE  /\ Width(v) \in Nat \ {0} /\ Width(v) \in 0 .. WordBits /\ Width(v) <= WordBits
         /\ WordBits \in Nat /\ Bits = 0 .. WordBits - 1 /\ Bits \subseteq Int
         /\ Low(v) = 0 .. Width(v) - 1 /\ Low(v) \subseteq Bits
         /\ Half(v) \in Nat /\ Half(v) \in 0 .. WordBits - 1 /\ Width(v) = 2 * Half(v)
         /\ LowMask(v) = 0 .. Half(v) - 1 /\ HighMask(v) = Half(v) .. Width(v) - 1
         /\ LowMask(v) \subseteq Bits /\ HighMask(v) \subseteq Bits
<1>1. WordBits \in Nat
  BY Sizes
<1> QED BY <1>1, WidthsFit DEF Bits

IsPower(p) ==
  /\ p \in [0 .. WordBits -> Nat \ {0}] /\ p[0] = 1
  /\ \A n \in 1 .. WordBits : p[n] = 2 * p[n - 1]

\* The powers of two up to that of the size of a word.
Power == CHOOSE p : IsPower(p)

\* Power is what its name says.
LEMMA Powers == IsPower(Power)
<1> DEFINE next == [p \in Nat \X (Nat \ {0}) |-> 2 * p[2]]
<1>1. next \in [Nat \X (Nat \ {0}) -> Nat \ {0}]
  OBVIOUS
<1>2. 1 \in Nat \ {0} /\ WordBits \in Nat
  BY Sizes
<1> HIDE DEF next
<1>3. PICK p \in [0 .. WordBits -> Nat \ {0}] : Recurs(p, 1, next, WordBits)
  BY <1>1, <1>2, RecursionExists
<1>4. ASSUME NEW k \in 1 .. WordBits PROVE p[k] = 2 * p[k - 1]
  <2>1. k \in Nat /\ p[k - 1] \in Nat \ {0}
    BY Sizes
  <2>2. next[<<k, p[k - 1]>>] = 2 * p[k - 1]
    BY <2>1 DEF next
  <2> QED BY <1>3, <2>2 DEF Recurs
<1>5. IsPower(p)
  BY <1>3, <1>4 DEF IsPower, Recurs
<1> QED BY <1>5 DEF Power

-----------------------------------------------------------------------------
(* Numbers of words.                                                         *)

\* The number of the n highest bits of a word.
IsHigh(f, w) ==
  f = [n \in 0 .. WordBits |->
         IF n = 0 THEN 0 ELSE 2 * f[n - 1] + (IF WordBits - n \in w THEN 1 ELSE 0)]

\* The recursion of Value defines a function, of natural numbers.
LEMMA HighExists ==
  ASSUME NEW w
  PROVE  \E f \in [0 .. WordBits -> Nat] : IsHigh(f, w) /\ Value(w) = f[WordBits]
<1> DEFINE bit(n) == IF WordBits - n \in w THEN 1 ELSE 0
           next == [p \in Nat \X Nat |-> 2 * p[2] + bit(p[1])]
<1>1. next \in [Nat \X Nat -> Nat]
  OBVIOUS
<1>2. WordBits \in Nat /\ 0 \in Nat
  BY Sizes
<1> HIDE DEF next
<1>3. PICK f \in [0 .. WordBits -> Nat] : Recurs(f, 0, next, WordBits)
  BY <1>1, <1>2, RecursionExists
<1>4. ASSUME NEW k \in 1 .. WordBits PROVE f[k] = 2 * f[k - 1] + bit(k)
  <2>1. k \in Nat /\ f[k - 1] \in Nat
    BY Sizes
  <2>2. next[<<k, f[k - 1]>>] = 2 * f[k - 1] + bit(k)
    BY <2>1 DEF next
  <2> QED BY <1>3, <2>2 DEF Recurs
<1>5. IsHigh(f, w)
  <2>1. \A k \in 0 .. WordBits : f[k] = IF k = 0 THEN 0 ELSE 2 * f[k - 1] + bit(k)
    <3>1. f[0] = 0
      BY <1>3 DEF Recurs
    <3>2. \A k \in 0 .. WordBits : k # 0 => k \in 1 .. WordBits
      BY <1>2
    <3> HIDE DEF bit
    <3> QED BY <3>1, <3>2, <1>4
  <2> QED BY <2>1 DEF IsHigh
<1> DEFINE g == CHOOSE h : IsHigh(h, w)
<1>6. IsHigh(g, w)
  BY <1>5
<1>7. Value(w) = g[WordBits]
  BY DEF Value, IsHigh
<1> HIDE DEF g
<1>8. ASSUME NEW k \in 0 .. WordBits PROVE g[k] = IF k = 0 THEN 0 ELSE 2 * g[k - 1] + bit(k)
  BY <1>6 DEF IsHigh
<1> DEFINE T == {n \in 0 .. WordBits : g[n] \in Nat}
<1>9. 0 .. WordBits \subseteq T
  <2>1. 0 \in T
    BY <1>8, <1>2
  <2>2. ASSUME NEW n \in 0 .. WordBits - 1, n \in T PROVE n + 1 \in T
    <3>1. n + 1 \in 0 .. WordBits /\ n + 1 # 0 /\ (n + 1) - 1 = n
      BY <1>2
    <3> QED BY <3>1, <2>2, <1>8
  <2> HIDE DEF T
  <2> QED BY <2>1, <2>2, <1>2, InductionTo
<1>10. g \in [0 .. WordBits -> Nat]
  <2>1. DOMAIN g = 0 .. WordBits /\ g = [n \in 0 .. WordBits |-> g[n]]
    BY <1>6 DEF IsHigh
  <2> QED BY <2>1, <1>9
<1> QED BY <1>6, <1>7, <1>10

\* The number of a word is a natural number.
LEMMA ValueNat ==
  ASSUME NEW w
  PROVE  Value(w) \in Nat
<1>1. PICK f \in [0 .. WordBits -> Nat] : Value(w) = f[WordBits]
  BY HighExists
<1> QED BY <1>1, Sizes

\* The values of Power.
LEMMA PowerNat ==
  /\ \A n \in 0 .. WordBits : Power[n] \in Nat \ {0}
  /\ Power[0] = 1 /\ \A n \in 1 .. WordBits : Power[n] = 2 * Power[n - 1]
  BY Powers DEF IsPower

\* Products, apart from the proofs where they occur.
LEMMA TimesTwice ==
  ASSUME NEW a \in Int, NEW b \in Int
  PROVE  a * b \in Int /\ a * (2 * b) = 2 * (a * b) /\ (a \in Nat /\ b \in Nat => a * b \in Nat)
  OBVIOUS

\* Halving two numbers that differ by an even one.
LEMMA Halves ==
  ASSUME NEW a \in Int, NEW b \in Int, NEW c \in Int, a = b + 2 * c
  PROVE  (a \div 2) = (b \div 2) + c /\ (a % 2) = (b % 2)
  OBVIOUS

\* The bits from m upwards are a multiple of the power of m.
LEMMA ValueLow ==
  ASSUME NEW w, NEW m \in 0 .. WordBits
  PROVE  \E q \in Nat : Value(w) = Value(w \intersect 0 .. m - 1) + q * Power[m]
<1> DEFINE low == w \intersect 0 .. m - 1
           s == WordBits - m
<1>1. PICK f \in [0 .. WordBits -> Nat] : IsHigh(f, w) /\ Value(w) = f[WordBits]
  BY HighExists
<1>2. PICK g \in [0 .. WordBits -> Nat] : IsHigh(g, low) /\ Value(low) = g[WordBits]
  BY HighExists
<1>3. WordBits \in Nat /\ m \in Nat /\ s \in Nat /\ s \in 0 .. WordBits /\ s + m = WordBits
  BY Sizes
<1>4. f[0] = 0 /\ \A n \in 1 .. WordBits : f[n] = 2 * f[n - 1] + (IF WordBits - n \in w THEN 1 ELSE 0)
  <2> HIDE DEF low, s
  <2>1. \A n \in 0 .. WordBits :
          f[n] = IF n = 0 THEN 0 ELSE 2 * f[n - 1] + (IF WordBits - n \in w THEN 1 ELSE 0)
    BY <1>1 DEF IsHigh
  <2> QED BY <2>1, <1>3
<1>5. g[0] = 0 /\ \A n \in 1 .. WordBits : g[n] = 2 * g[n - 1] + (IF WordBits - n \in low THEN 1 ELSE 0)
  <2> HIDE DEF low, s
  <2>1. \A n \in 0 .. WordBits :
          g[n] = IF n = 0 THEN 0 ELSE 2 * g[n - 1] + (IF WordBits - n \in low THEN 1 ELSE 0)
    BY <1>2 DEF IsHigh
  <2> QED BY <2>1, <1>3
<1>6. \A n \in 1 .. WordBits : (WordBits - n \in low) <=> (n > s /\ WordBits - n \in w)
  BY <1>3
<1> HIDE DEF low, s
<1>7. \A n \in 0 .. s : g[n] = 0
  <2> DEFINE T == {n \in 0 .. s : g[n] = 0}
  <2>1. 0 \in T
    BY <1>3, <1>5
  <2>2. ASSUME NEW n \in 0 .. s - 1, n \in T PROVE n + 1 \in T
    <3>1. n + 1 \in 1 .. WordBits /\ (n + 1) - 1 = n /\ ~ (n + 1 > s) /\ n + 1 \in 0 .. s
      BY <1>3
    <3>2. g[n] = 0
      BY <2>2
    <3>3. g[n + 1] = 2 * 0 + 0
      BY <3>1, <3>2, <1>5, <1>6
    <3> QED BY <3>1, <3>3
  <2> HIDE DEF T
  <2>3. 0 .. s \subseteq T
    BY <2>1, <2>2, <1>3, InductionTo
  <2> QED BY <2>3 DEF T
<1> DEFINE U == {n \in 0 .. m : f[s + n] = g[s + n] + f[s] * Power[n]}
<1>8. 0 \in U
  <2>1. g[s] = 0 /\ Power[0] = 1 /\ f[s] \in Nat /\ s + 0 = s
    BY <1>3, <1>7, PowerNat
  <2> QED BY <2>1, <1>3
<1>9. ASSUME NEW n \in 0 .. m - 1, n \in U PROVE n + 1 \in U
  <2> DEFINE k == s + n
  <2>1. k + 1 \in 1 .. WordBits /\ (k + 1) - 1 = k /\ k + 1 > s /\ k \in 0 .. WordBits
        /\ n + 1 \in 1 .. WordBits /\ n \in 0 .. WordBits /\ (n + 1) - 1 = n /\ s + (n + 1) = k + 1
    BY <1>3
  <2>2. f[k] = g[k] + f[s] * Power[n]
    BY <1>9
  <2>3. Power[n + 1] = 2 * Power[n] /\ Power[n] \in Nat
    BY <2>1, PowerNat
  <2>4. PICK p \in Nat : p = f[s] * Power[n] /\ f[s] * Power[n + 1] = 2 * p
    <3>1. f[s] \in Nat
      BY <1>3
    <3>2. f[s] \in Int /\ Power[n] \in Int
      BY <3>1, <2>3
    <3>3. f[s] * (2 * Power[n]) = 2 * (f[s] * Power[n]) /\ f[s] * Power[n] \in Nat
      BY <3>1, <3>2, <2>3, TimesTwice
    <3> QED BY <3>3, <2>3
  <2> HIDE DEF k
  <2>5. PICK b \in {0, 1} : f[k + 1] = 2 * f[k] + b /\ g[k + 1] = 2 * g[k] + b
    BY <2>1, <1>4, <1>5, <1>6
  <2>6. f[k] \in Nat /\ g[k] \in Nat
    BY <2>1
  <2>7. f[k + 1] = g[k + 1] + 2 * p
    BY <2>2, <2>4, <2>5, <2>6
  <2>8. f[s + (n + 1)] = g[s + (n + 1)] + f[s] * Power[n + 1]
    BY <2>7, <2>4, <2>1
  <2>9. n + 1 \in 0 .. m
    BY <1>3
  <2> QED BY <2>8, <2>9
<1> HIDE DEF U
<1>10. 0 .. m \subseteq U
  BY <1>8, <1>9, <1>3, InductionTo
<1>11. f[s + m] = g[s + m] + f[s] * Power[m]
  BY <1>10, <1>3 DEF U
<1>12. Value(w) = Value(low) + f[s] * Power[m] /\ f[s] \in Nat
  BY <1>11, <1>3, <1>1, <1>2
<1> QED BY <1>12 DEF low

-----------------------------------------------------------------------------
(* Words of numbers.                                                         *)

IsHalf(f, x) ==
  f = [n \in 0 .. WordBits |-> IF n = 0 THEN x ELSE f[n - 1] \div 2]

\* The recursion of Wrap defines a function.
LEMMA HalfExists ==
  ASSUME NEW x \in Int
  PROVE  \E f \in [0 .. WordBits -> Int] :
           /\ f[0] = x /\ \A n \in 1 .. WordBits : f[n] = f[n - 1] \div 2
           /\ Wrap(x) = {k \in Bits : f[k] % 2 = 1}
<1> DEFINE next == [p \in Nat \X Int |-> p[2] \div 2]
<1>1. next \in [Nat \X Int -> Int]
  OBVIOUS
<1>2. WordBits \in Nat
  BY Sizes
<1> HIDE DEF next
<1>3. PICK f \in [0 .. WordBits -> Int] : Recurs(f, x, next, WordBits)
  BY <1>1, <1>2, RecursionExists
<1>4. ASSUME NEW k \in 1 .. WordBits PROVE f[k] = f[k - 1] \div 2
  <2>1. k \in Nat /\ f[k - 1] \in Int
    BY Sizes
  <2>2. next[<<k, f[k - 1]>>] = f[k - 1] \div 2
    BY <2>1 DEF next
  <2> QED BY <1>3, <2>2 DEF Recurs
<1>5. IsHalf(f, x)
  <2>1. \A k \in 0 .. WordBits : f[k] = IF k = 0 THEN x ELSE f[k - 1] \div 2
    <3>1. f[0] = x
      BY <1>3 DEF Recurs
    <3>2. \A k \in 0 .. WordBits : k # 0 => k \in 1 .. WordBits
      BY <1>2
    <3> QED BY <3>1, <3>2, <1>4
  <2> QED BY <2>1 DEF IsHalf
<1> DEFINE g == CHOOSE h : IsHalf(h, x)
<1>6. IsHalf(g, x)
  BY <1>5
<1>7. Wrap(x) = {k \in Bits : g[k] % 2 = 1}
  BY DEF Wrap, IsHalf
<1> HIDE DEF g
<1>8. \A k \in 0 .. WordBits : g[k] = IF k = 0 THEN x ELSE g[k - 1] \div 2
  BY <1>6 DEF IsHalf
<1> DEFINE T == {n \in 0 .. WordBits : g[n] \in Int}
<1>9. 0 .. WordBits \subseteq T
  <2>1. 0 \in T
    BY <1>8, <1>2
  <2>2. ASSUME NEW n \in 0 .. WordBits - 1, n \in T PROVE n + 1 \in T
    <3>1. n + 1 \in 0 .. WordBits /\ n + 1 # 0 /\ (n + 1) - 1 = n
      BY <1>2
    <3>2. g[n + 1] = g[n] \div 2 /\ g[n] \in Int
      BY <3>1, <2>2, <1>8
    <3> QED BY <3>1, <3>2
  <2> HIDE DEF T
  <2> QED BY <2>1, <2>2, <1>2, InductionTo
<1>10. g \in [0 .. WordBits -> Int]
  <2>1. DOMAIN g = 0 .. WordBits /\ g = [n \in 0 .. WordBits |-> g[n]]
    BY <1>6 DEF IsHalf
  <2> QED BY <2>1, <1>9
<1>11. g[0] = x /\ \A n \in 1 .. WordBits : g[n] = g[n - 1] \div 2
  <2>1. 0 \in 0 .. WordBits /\ \A n \in 1 .. WordBits : n \in 0 .. WordBits /\ n # 0
    BY <1>2
  <2> QED BY <2>1, <1>8
<1> QED BY <1>7, <1>10, <1>11

\* Wrap gives a word.
LEMMA WrapBits ==
  ASSUME NEW x PROVE Wrap(x) \subseteq Bits
  BY DEF Wrap

\* Numbers that differ by a multiple of the power of m.
Congruent(x, y, m) == x \in Int /\ y \in Int /\ \E q \in Int : x = y + q * Power[m]

\* They have the same lowest m bits.
LEMMA WrapLow ==
  ASSUME NEW m \in 0 .. WordBits, NEW x, NEW y, Congruent(x, y, m)
  PROVE  Wrap(x) \intersect 0 .. m - 1 = Wrap(y) \intersect 0 .. m - 1
<1>1. x \in Int /\ y \in Int
  BY DEF Congruent
<1>2. PICK q \in Int : x = y + q * Power[m]
  BY DEF Congruent
<1>3. PICK f \in [0 .. WordBits -> Int] :
        /\ f[0] = x /\ \A n \in 1 .. WordBits : f[n] = f[n - 1] \div 2
        /\ Wrap(x) = {k \in Bits : f[k] % 2 = 1}
  BY <1>1, HalfExists
<1>4. PICK g \in [0 .. WordBits -> Int] :
        /\ g[0] = y /\ \A n \in 1 .. WordBits : g[n] = g[n - 1] \div 2
        /\ Wrap(y) = {k \in Bits : g[k] % 2 = 1}
  BY <1>1, HalfExists
<1>5. WordBits \in Nat /\ m \in Nat
  BY Sizes
<1> DEFINE U == {n \in 0 .. m : f[n] = g[n] + q * Power[m - n]}
<1>6. ASSUME NEW n \in 0 .. m - 1, n \in U
      PROVE  n + 1 \in U /\ f[n] % 2 = g[n] % 2
  <2>1. n + 1 \in 1 .. WordBits /\ n \in 0 .. WordBits /\ (n + 1) - 1 = n
        /\ m - n \in 1 .. WordBits /\ (m - n) - 1 = m - (n + 1)
    BY <1>5
  <2>2. Power[m - n] = 2 * Power[m - (n + 1)] /\ Power[m - (n + 1)] \in Nat
    <3>1. m - (n + 1) \in 0 .. WordBits
      BY <2>1, <1>5
    <3> QED BY <2>1, <3>1, PowerNat
  <2>3. PICK p \in Int : p = q * Power[m - (n + 1)] /\ q * Power[m - n] = 2 * p
    BY <2>2
  <2>4. f[n] = g[n] + 2 * p
    BY <1>6, <2>3
  <2>5. f[n] \in Int /\ g[n] \in Int /\ f[n + 1] = f[n] \div 2 /\ g[n + 1] = g[n] \div 2
    BY <2>1, <1>3, <1>4
  <2> HIDE DEF U
  <2>6. (f[n] \div 2) = (g[n] \div 2) + p /\ (f[n] % 2) = (g[n] % 2)
    BY <2>4, <2>5, Halves, Zenon
  <2>7. f[n + 1] = g[n + 1] + p /\ f[n] % 2 = g[n] % 2
    BY <2>5, <2>6, Zenon
  <2>8. f[n + 1] = g[n + 1] + q * Power[m - (n + 1)]
    BY <2>7, <2>3
  <2>9. n + 1 \in 0 .. m
    BY <1>5
  <2> QED BY <2>7, <2>8, <2>9 DEF U
<1>7. 0 \in U
  BY <1>1, <1>2, <1>3, <1>4, <1>5
<1> HIDE DEF U
<1>8. 0 .. m \subseteq U
  BY <1>5, <1>6, <1>7, InductionTo
<1>9. \A k \in 0 .. m - 1 : f[k] % 2 = g[k] % 2
  <2>1. 0 .. m - 1 \subseteq 0 .. m
    BY <1>5
  <2> QED BY <2>1, <1>8, <1>6
<1> QED BY <1>3, <1>4, <1>9

-----------------------------------------------------------------------------
(* Operands and memory.                                                      *)

\* The fields of an operand.
LEMMA OperandForms ==
  ASSUME NEW op \in Operands
  PROVE  /\ op.v \in Widths
         /\ op.t \in {"reg", "imm", "mem"}
         /\ op.t = "reg" => op.r \in Regs
  BY DEF Operands

\* The fields of an instruction.
LEMMA InsnForms ==
  ASSUME NEW i \in Insns
  PROVE  i.op \in Ops /\ i.op1 \in Operands /\ i.op2 \in Operands
  BY AluAssumption

\* An address is a natural number.
LEMMA OffsetNat ==
  ASSUME NEW op PROVE Offset(op) \in Nat
  BY ValueNat DEF Offset

\* A load from any memory.
LoadFrom(mem, a, n) == UNION {AtByte(mem[a + k], n - 1 - k) : k \in 0 .. n - 1}

\* Loads before and after a step are loads from that memory.
LEMMA LoadIs ==
  ASSUME NEW a, NEW n
  PROVE  Load(a, n) = LoadFrom(vmem, a, n) /\ Load(a, n)' = LoadFrom(vmem', a, n)
  BY DEF Load, LoadFrom

\* Loads of one, two and four bytes, byte by byte.
LEMMA Loads ==
  ASSUME NEW mem, NEW a \in Nat
  PROVE  /\ LoadFrom(mem, a, 1) = AtByte(mem[a], 0)
         /\ LoadFrom(mem, a, 2) = AtByte(mem[a], 1) \union AtByte(mem[a + 1], 0)
         /\ LoadFrom(mem, a, 4) = AtByte(mem[a], 3) \union AtByte(mem[a + 1], 2)
                                  \union AtByte(mem[a + 2], 1) \union AtByte(mem[a + 3], 0)
<1> DEFINE L(n, k) == AtByte(mem[a + k], n - 1 - k)
<1>1. \A n : LoadFrom(mem, a, n) = UNION {L(n, k) : k \in 0 .. n - 1}
  BY DEF LoadFrom
<1>2. 0 .. 1 - 1 = {0} /\ 0 .. 2 - 1 = {0, 1} /\ 0 .. 4 - 1 = {0, 1, 2, 3}
  OBVIOUS
<1>3. /\ L(1, 0) = AtByte(mem[a], 0)
      /\ L(2, 0) = AtByte(mem[a], 1) /\ L(2, 1) = AtByte(mem[a + 1], 0)
      /\ L(4, 0) = AtByte(mem[a], 3) /\ L(4, 1) = AtByte(mem[a + 1], 2)
      /\ L(4, 2) = AtByte(mem[a + 2], 1) /\ L(4, 3) = AtByte(mem[a + 3], 0)
  OBVIOUS
<1> HIDE DEF L
<1>4. /\ UNION {L(1, k) : k \in {0}} = L(1, 0)
      /\ UNION {L(2, k) : k \in {0, 1}} = L(2, 0) \union L(2, 1)
      /\ UNION {L(4, k) : k \in {0, 1, 2, 3}} = L(4, 0) \union L(4, 1) \union L(4, 2) \union L(4, 3)
  OBVIOUS
<1> QED BY <1>1, <1>2, <1>3, <1>4

\* The three widths in bytes.
LEMMA WidthCases ==
  ASSUME NEW v \in Widths
  PROVE  (v = 1 /\ Bytes(v) = 1) \/ (v = 2 /\ Bytes(v) = 2) \/ (v = 3 /\ Bytes(v) = 4)
  BY Sizes

\* The bits of a byte in its place, and of a place of a word.
LEMMA Placed ==
  ASSUME NEW b \in Byte, NEW j \in {0, 1, 2, 3}
  PROVE  AtByte(b, j) \subseteq 2 * H * j .. 2 * H * j + 2 * H - 1
<1>1. ByteBits = 2 * H /\ H \in Nat
  BY Sizes
<1> QED BY <1>1 DEF AtByte, Byte

\* A byte cut out of a word and put back is that place of the word.
LEMMA PlacedAgain ==
  ASSUME NEW w \in SUBSET Int, NEW j \in {0, 1, 2, 3}
  PROVE  /\ AtByte(ByteAt(w, j), j) = w \intersect (2 * H * j .. 2 * H * j + 2 * H - 1)
         /\ ByteAt(w, j) \in Byte
<1>1. ByteBits = 2 * H /\ H \in Nat
  BY Sizes
<1>2. ByteAt(w, j) \in Byte
  BY DEF ByteAt, Byte
<1>3. ASSUME NEW k \in AtByte(ByteAt(w, j), j)
      PROVE  k \in w /\ k \in 2 * H * j .. 2 * H * j + 2 * H - 1
  BY <1>1, <1>3 DEF AtByte, ByteAt
<1>4. ASSUME NEW k \in w, k \in 2 * H * j .. 2 * H * j + 2 * H - 1
      PROVE  k \in AtByte(ByteAt(w, j), j)
  <2>1. k - ByteBits * j \in 0 .. ByteBits - 1 /\ k = (k - ByteBits * j) + ByteBits * j
    BY <1>1, <1>4
  <2>2. k - ByteBits * j \in ByteAt(w, j)
    BY <2>1 DEF ByteAt
  <2> QED BY <2>1, <2>2 DEF AtByte
<1> QED BY <1>2, <1>3, <1>4

\* A load has bits within the width only.
LEMMA LoadLow ==
  ASSUME NEW mem \in [Addr -> Byte], NEW v \in Widths, NEW a \in Nat,
         a .. a + Bytes(v) - 1 \subseteq Addr
  PROVE  LoadFrom(mem, a, Bytes(v)) \subseteq Low(v)
<1>1. Low(v) = 0 .. Width(v) - 1 /\ H \in Nat
  BY Sizes, WidthsFit
<1>2. CASE v = 1
  <2>1. a \in Addr /\ LoadFrom(mem, a, 1) = AtByte(mem[a], 0) /\ Bytes(v) = 1 /\ Width(v) = 2 * H
    BY <1>2, Loads, Sizes
  <2>2. AtByte(mem[a], 0) \subseteq 2 * H * 0 .. 2 * H * 0 + 2 * H - 1
    BY <2>1, Placed
  <2> QED BY <1>1, <2>1, <2>2
<1>3. CASE v = 2
  <2>1. /\ LoadFrom(mem, a, 2) = AtByte(mem[a], 1) \union AtByte(mem[a + 1], 0)
        /\ a \in Addr /\ a + 1 \in Addr /\ Bytes(v) = 2 /\ Width(v) = 4 * H
    BY <1>3, Loads, Sizes
  <2>2. AtByte(mem[a], 1) \subseteq 2 * H * 1 .. 2 * H * 1 + 2 * H - 1
    BY <2>1, Placed
  <2>3. AtByte(mem[a + 1], 0) \subseteq 2 * H * 0 .. 2 * H * 0 + 2 * H - 1
    BY <2>1, Placed
  <2> QED BY <1>1, <2>1, <2>2, <2>3
<1>4. CASE v = 3
  <2>1. /\ LoadFrom(mem, a, 4) = AtByte(mem[a], 3) \union AtByte(mem[a + 1], 2)
                         \union AtByte(mem[a + 2], 1) \union AtByte(mem[a + 3], 0)
        /\ a \in Addr /\ a + 1 \in Addr /\ a + 2 \in Addr /\ a + 3 \in Addr
        /\ Bytes(v) = 4 /\ Width(v) = 8 * H
    BY <1>4, Loads, Sizes
  <2>2. AtByte(mem[a], 3) \subseteq 2 * H * 3 .. 2 * H * 3 + 2 * H - 1
    BY <2>1, Placed
  <2>3. AtByte(mem[a + 1], 2) \subseteq 2 * H * 2 .. 2 * H * 2 + 2 * H - 1
    BY <2>1, Placed
  <2>4. AtByte(mem[a + 2], 1) \subseteq 2 * H * 1 .. 2 * H * 1 + 2 * H - 1
    BY <2>1, Placed
  <2>5. AtByte(mem[a + 3], 0) \subseteq 2 * H * 0 .. 2 * H * 0 + 2 * H - 1
    BY <2>1, Placed
  <2> QED BY <1>1, <2>1, <2>2, <2>3, <2>4, <2>5
<1> QED BY <1>2, <1>3, <1>4, Sizes

\* Bytes that hold the places of a word make up the word.
LEMMA LoadPlaced ==
  ASSUME NEW mem, NEW v \in Widths, NEW a \in Nat, NEW w \in SUBSET Int,
         \A k \in 0 .. Bytes(v) - 1 : mem[a + k] = ByteAt(w, Bytes(v) - 1 - k)
  PROVE  LoadFrom(mem, a, Bytes(v)) = w \intersect Low(v)
<1>1. Low(v) = 0 .. Width(v) - 1 /\ H \in Nat /\ H >= 1
  BY Sizes, WidthsFit
<1> DEFINE P(j) == w \intersect (2 * H * j .. 2 * H * j + 2 * H - 1)
<1>2. \A j \in {0, 1, 2, 3} : AtByte(ByteAt(w, j), j) = P(j)
  BY PlacedAgain
<1>3. CASE v = 1
  <2>1. Bytes(v) = 1 /\ Width(v) = 2 * H
    BY <1>3, Sizes
  <2>2. mem[a] = ByteAt(w, 0)
    BY <2>1
  <2>3. LoadFrom(mem, a, 1) = P(0)
    BY <2>2, <1>2, Loads
  <2> QED BY <1>1, <2>1, <2>3
<1>4. CASE v = 2
  <2>1. Bytes(v) = 2 /\ Width(v) = 4 * H
    BY <1>4, Sizes
  <2>2. mem[a] = ByteAt(w, 1) /\ mem[a + 1] = ByteAt(w, 0)
    BY <2>1
  <2>3. LoadFrom(mem, a, 2) = P(1) \union P(0)
    <3> HIDE DEF P
    <3> QED BY <2>2, <1>2, Loads
  <2> QED BY <1>1, <2>1, <2>3
<1>5. CASE v = 3
  <2>1. Bytes(v) = 4 /\ Width(v) = 8 * H
    BY <1>5, Sizes
  <2>2. mem[a] = ByteAt(w, 3) /\ mem[a + 1] = ByteAt(w, 2) /\ mem[a + 2] = ByteAt(w, 1)
        /\ mem[a + 3] = ByteAt(w, 0)
    BY <2>1
  <2>3. LoadFrom(mem, a, 4) = P(3) \union P(2) \union P(1) \union P(0)
    <3> HIDE DEF P
    <3> QED BY <2>2, <1>2, Loads
  <2> QED BY <1>1, <2>1, <2>3
<1> QED BY <1>3, <1>4, <1>5, Sizes

\* What is written is read.
LEMMA LoadWritten ==
  ASSUME NEW v \in Widths, NEW a \in Nat, a .. a + Bytes(v) - 1 \subseteq Addr,
         NEW w \in SUBSET Int
  PROVE  LoadFrom(Written(a, w, v), a, Bytes(v)) = w \intersect Low(v)
<1> DEFINE mem == Written(a, w, v)
<1>1. ASSUME NEW k \in 0 .. Bytes(v) - 1
      PROVE  mem[a + k] = ByteAt(w, Bytes(v) - 1 - k)
  <2>1. a + k \in a .. a + Bytes(v) - 1 /\ a + Bytes(v) - 1 - (a + k) = Bytes(v) - 1 - k
    BY WidthCases
  <2>2. a + k \in Addr
    BY <2>1
  <2> QED BY <2>1, <2>2 DEF Written
<1> HIDE DEF mem
<1>2. LoadFrom(mem, a, Bytes(v)) = w \intersect Low(v)
  BY <1>1, LoadPlaced
<1> QED BY <1>2 DEF mem

Contents == vregs \in [Regs -> Word] /\ vmem \in [Addr -> Byte]

\* An access of n bytes through an operand stays in the memory.
Reaches(op, n) == op.t = "mem" => Offset(op) .. Offset(op) + n - 1 \subseteq Addr

\* A smaller width has fewer bits and bytes.
LEMMA WidthOrder ==
  ASSUME NEW u \in Widths, NEW v \in Widths, u <= v
  PROVE  /\ Width(u) <= Width(v) /\ Bytes(u) <= Bytes(v) /\ Low(u) \subseteq Low(v)
         /\ \A n \in {0, 1, 2, 3} : n >= Bytes(v) => Width(u) <= 2 * H * n
<1>1. Width(u) <= Width(v) /\ Bytes(u) <= Bytes(v) /\ Width(v) = 2 * H * Bytes(v)
  BY Sizes
<1>2. Low(u) \subseteq Low(v)
  <2>1. Low(u) = 0 .. Width(u) - 1 /\ Low(v) = 0 .. Width(v) - 1
        /\ Width(u) \in Int /\ Width(v) \in Int
    BY WidthsFit
  <2> QED BY <1>1, <2>1
<1>3. ASSUME NEW n \in {0, 1, 2, 3}, n >= Bytes(v) PROVE Width(u) <= 2 * H * n
  <2>1. 2 * H * 0 = 0 /\ 2 * H * 1 = 2 * H /\ 2 * H * 2 = 4 * H /\ 2 * H * 3 = 6 * H
    BY Sizes
  <2>2. PICK p \in Int : p = 2 * H * n
    BY Sizes
  <2>3. (n = 0 /\ p = 0) \/ (n = 1 /\ p = 2 * H) \/ (n = 2 /\ p = 4 * H) \/ (n = 3 /\ p = 6 * H)
    BY <2>1, <2>2
  <2>4. Width(u) <= p
    BY <1>3, <2>3, Sizes
  <2> QED BY <2>2, <2>4
<1> QED BY <1>1, <1>2, <1>3

\* The expansion adds bits above the width only.
LEMMA ExpandedLow ==
  ASSUME vmem \in [Addr -> Byte], NEW a \in Nat, a .. a + 3 \subseteq Addr,
         NEW x \in Widths, NEW u \in Widths, u <= x, NEW w \in SUBSET Bits
  PROVE  /\ Expanded(w, x, a) \in SUBSET Int
         /\ Expanded(w, x, a) \intersect Low(u) = w \intersect Low(u)
<1>1. ASSUME NEW j \in Bytes(x) .. 3
      PROVE  AtByte(vmem[a + j], j) \subseteq Int /\ AtByte(vmem[a + j], j) \intersect Low(u) = {}
  <2>1. j \in {0, 1, 2, 3} /\ j \in Nat /\ j >= Bytes(x) /\ a + j \in Addr
    BY WidthCases
  <2>2. AtByte(vmem[a + j], j) \subseteq 2 * H * j .. 2 * H * j + 2 * H - 1
    <3>1. vmem[a + j] \in Byte
      BY <2>1
    <3> QED BY <2>1, <3>1, Placed
  <2>3. Width(u) <= 2 * H * j /\ Low(u) = 0 .. Width(u) - 1 /\ Width(u) \in Int
    BY <2>1, WidthOrder, WidthsFit
  <2>4. PICK p \in Int : p = 2 * H * j
    BY <2>1, Sizes
  <2>5. AtByte(vmem[a + j], j) \subseteq p .. p + 2 * H - 1 /\ Width(u) <= p
    BY <2>2, <2>3, <2>4
  <2> QED BY <2>3, <2>5, Sizes
<1>2. Bits \subseteq Int
  BY Sizes DEF Bits
<1> QED BY <1>1, <1>2 DEF Expanded

\* What an operand has lies within the width it is read at.
LEMMA DataLow ==
  ASSUME Contents, NEW op \in Operands, NEW v \in Widths, Reaches(op, Bytes(v))
  PROVE  DataAt(op, v) \subseteq Low(v) /\ DataAt(op, v) \subseteq Bits
<1>1. DataAt(op, v) \subseteq Low(v)
  <2>1. CASE op.t = "reg"
    BY <2>1 DEF DataAt, PostTrunc
  <2>2. CASE op.t = "imm"
    BY <2>2 DEF DataAt, PostTrunc
  <2>3. CASE op.t = "mem"
    <3>1. DataAt(op, v) = LoadFrom(vmem, Offset(op), Bytes(v))
      BY <2>3, LoadIs DEF DataAt
    <3>2. Offset(op) \in Nat /\ Offset(op) .. Offset(op) + Bytes(v) - 1 \subseteq Addr
      BY <2>3, OffsetNat DEF Reaches
    <3> QED BY <3>1, <3>2, LoadLow DEF Contents
  <2> QED BY <2>1, <2>2, <2>3, OperandForms
<1> QED BY <1>1, WidthsFit

\* What a handler stores is what its destination then has, up to the width it is
\* written at and the width it is expanded from.
LEMMA StoreRight ==
  ASSUME Contents, NEW i \in Insns, i.op1.t # "imm", Reaches(i.op1, 4),
         NEW data \in SUBSET Bits, NEW x \in Widths, Store(i, i.op1.v, x, data),
         NEW u \in Widths, u <= i.op1.v, u <= x
  PROVE  PostTrunc(OperandData(i.op1)', u) = PostTrunc(data, u)
<1> DEFINE op == i.op1
<1>1. op \in Operands /\ op.v \in Widths /\ op.t \in {"reg", "mem"}
      /\ (op.t = "reg" => op.r \in Regs)
  BY InsnForms, OperandForms
<1>2. Low(u) \subseteq Low(op.v)
  BY <1>1, WidthOrder
<1>3. CASE op.t = "reg"
  <2>1. vregs' = [vregs EXCEPT ![op.r] = PreTrunc(@, op.v) \union data]
    BY <1>3 DEF Store, SetReg
  <2>2. vregs'[op.r] = PreTrunc(vregs[op.r], op.v) \union data
    BY <1>1, <1>3, <2>1 DEF Contents
  <2>3. OperandData(op)' = PostTrunc(vregs'[op.r], op.v)
    BY <1>3 DEF OperandData, DataAt, PostTrunc
  <2> QED BY <1>2, <2>2, <2>3 DEF PostTrunc, PreTrunc
<1>4. CASE op.t = "mem"
  <2> DEFINE a == Offset(op)
             w == Expanded(data, x, a)
  <2>1. vmem' = Written(a, w, op.v) /\ vregs' = vregs
    BY <1>4 DEF Store
  <2>2. a \in Nat /\ a .. a + 3 \subseteq Addr
    BY <1>4, OffsetNat DEF Reaches
  <2>3. a' = a
    BY <2>1 DEF Offset
  <2>4. OperandData(op)' = LoadFrom(vmem', a, Bytes(op.v))
    <3>1. OperandData(op)' = Load(a, Bytes(op.v))'
      BY <1>4 DEF OperandData, DataAt
    <3> QED BY <3>1, <2>3 DEF Load, LoadFrom
  <2>5. w \in SUBSET Int /\ w \intersect Low(u) = data \intersect Low(u)
    BY <2>2, ExpandedLow DEF Contents
  <2>6. a .. a + Bytes(op.v) - 1 \subseteq Addr
    BY <1>1, <2>2, WidthCases
  <2> HIDE DEF a, w, op
  <2>7. LoadFrom(vmem', a, Bytes(op.v)) = w \intersect Low(op.v)
    BY <1>1, <2>1, <2>2, <2>5, <2>6, LoadWritten
  <2>8. PostTrunc(OperandData(op)', u) = PostTrunc(data, u)
    BY <1>2, <2>4, <2>5, <2>7 DEF PostTrunc
  <2> QED BY <2>8 DEF op
<1> QED BY <1>1, <1>3, <1>4

-----------------------------------------------------------------------------
(* Shifts and rotations.                                                     *)

\* Shifts by less than the width of a word.
LEMMA ShiftsWithin ==
  ASSUME NEW w, NEW n \in 0 .. WordBits - 1
  PROVE  /\ ShiftL(w, n) = {k \in Bits : k - n \in w}
         /\ ShiftR(w, n) = {k \in Bits : k + n \in w}
<1>1. n % WordBits = n
  BY Sizes
<1> QED BY <1>1 DEF ShiftL, ShiftR

\* A shift by the width of a word leaves it: the processor drops the count.
LEMMA ShiftsWhole ==
  ASSUME NEW w \in SUBSET Bits
  PROVE  ShiftL(w, WordBits) = w /\ ShiftR(w, WordBits) = w
<1>1. WordBits % WordBits = 0 /\ Bits \subseteq Int
  BY Sizes DEF Bits
<1>2. \A k \in Bits : k - 0 = k /\ k + 0 = k
  BY <1>1
<1>3. ShiftL(w, WordBits) = {k \in Bits : k - 0 \in w} /\ ShiftR(w, WordBits) = {k \in Bits : k + 0 \in w}
  BY <1>1 DEF ShiftL, ShiftR
<1> QED BY <1>2, <1>3

\* A shift gives a word.
LEMMA ShiftBits ==
  ASSUME NEW w, NEW n
  PROVE  ShiftL(w, n) \subseteq Bits /\ ShiftR(w, n) \subseteq Bits
  BY DEF ShiftL, ShiftR

\* Quotient and remainder.
LEMMA Division ==
  ASSUME NEW n \in Int, NEW w \in Nat \ {0}
  PROVE  n % w \in 0 .. w - 1 /\ (n \div w) \in Int /\ n = w * (n \div w) + (n % w)
  OBVIOUS

\* The remainder is unique.
LEMMA Remainder ==
  ASSUME NEW x \in Int, NEW w \in Nat \ {0}, NEW q \in Int, NEW r \in 0 .. w - 1,
         x = w * q + r
  PROVE  x % w = r
  OBVIOUS

\* A place moves by the remainder of the distance, and around.
LEMMA Around ==
  ASSUME NEW w \in Nat \ {0}, NEW n \in Nat, NEW k \in 0 .. w - 1
  PROVE  /\ (k + n) % w = IF k + (n % w) < w THEN k + (n % w) ELSE k + (n % w) - w
         /\ (k - n) % w = IF k < n % w THEN (k - (n % w)) + w ELSE k - (n % w)
<1>1. PICK q \in Int, r \in 0 .. w - 1 : n = w * q + r /\ n % w = r
  <2>1. n \in Int
    OBVIOUS
  <2> QED BY <2>1, Division, Zenon
<1>2. /\ w * (q + 1) = w * q + w /\ w * (0 - q) = 0 - w * q
      /\ w * (0 - q - 1) = 0 - w * q - w
  OBVIOUS
<1>3. PICK p \in Int : p = w * q
  OBVIOUS
<1>4. n = p + r /\ w * (q + 1) = p + w /\ w * (0 - q) = 0 - p /\ w * (0 - q - 1) = 0 - p - w
  BY <1>1, <1>2, <1>3
<1>5. ASSUME k + r < w PROVE (k + n) % w = k + r
  <2>1. k + r \in 0 .. w - 1 /\ k + n = w * q + (k + r) /\ k + n \in Int
    BY <1>3, <1>4, <1>5
  <2>2. (k + n) % w = k + r
    BY <2>1, Remainder
  <2> QED BY <2>2
<1>6. ASSUME ~ (k + r < w) PROVE (k + n) % w = k + r - w
  <2>1. k + r - w \in 0 .. w - 1 /\ k + n = w * (q + 1) + (k + r - w) /\ k + n \in Int /\ q + 1 \in Int
    BY <1>4, <1>6
  <2>2. (k + n) % w = k + r - w
    BY <2>1, Remainder
  <2> QED BY <2>2
<1>7. ASSUME k < r PROVE (k - n) % w = (k - r) + w
  <2>1. (k - r) + w \in 0 .. w - 1 /\ k - n = w * (0 - q - 1) + ((k - r) + w) /\ k - n \in Int
        /\ 0 - q - 1 \in Int
    BY <1>4, <1>7
  <2>2. (k - n) % w = (k - r) + w
    BY <2>1, Remainder
  <2> QED BY <2>2
<1>8. ASSUME ~ (k < r) PROVE (k - n) % w = k - r
  <2>1. k - r \in 0 .. w - 1 /\ k - n = w * (0 - q) + (k - r) /\ k - n \in Int /\ 0 - q \in Int
    BY <1>4, <1>8
  <2>2. (k - n) % w = k - r
    BY <2>1, Remainder
  <2> QED BY <2>2
<1>9. (k + n) % w = IF k + r < w THEN k + r ELSE k + r - w
  BY <1>5, <1>6, Zenon
<1>10. (k - n) % w = IF k < r THEN (k - r) + w ELSE k - r
  BY <1>7, <1>8, Zenon
<1> QED BY <1>1, <1>9, <1>10, Zenon

\* The two shifts of a rotation, within its width, are the rotation.
LEMMA Rotations ==
  ASSUME NEW v \in Widths, NEW d \in SUBSET Low(v), NEW n \in Nat
  PROVE  LET w == Width(v)
             rot == n % w
         IN /\ (ShiftL(d, rot) \union ShiftR(d, w - rot)) \intersect Low(v)
               = {(k + n) % w : k \in d}
            /\ (ShiftR(d, rot) \union ShiftL(d, w - rot)) \intersect Low(v)
               = {(k - n) % w : k \in d}
<1> DEFINE w == Width(v)
           rot == n % w
<1> HIDE DEF rot
<1>1. w \in Nat \ {0} /\ w <= WordBits /\ w \in Int /\ Low(v) = 0 .. w - 1 /\ Bits = 0 .. WordBits - 1
      /\ WordBits \in Nat /\ d \subseteq 0 .. w - 1
  <2>1. w \in 1 .. WordBits /\ Low(v) = 0 .. w - 1
    BY WidthsFit
  <2>2. WordBits \in Nat
    BY Sizes
  <2> HIDE DEF w
  <2> QED BY <2>1, <2>2 DEF Bits
<1> HIDE DEF w
<1>2. rot \in 0 .. w - 1 /\ rot \in 0 .. WordBits - 1
  <2>1. rot \in 0 .. w - 1
    BY <1>1, Division DEF rot
  <2> QED BY <2>1, <1>1
<1>3. \A k \in d : (k + n) % w = (IF k + rot < w THEN k + rot ELSE k + rot - w)
                /\ (k - n) % w = (IF k < rot THEN (k - rot) + w ELSE k - rot)
  BY <1>1, Around DEF rot
<1>4. ShiftL(d, rot) = {k \in Bits : k - rot \in d} /\ ShiftR(d, rot) = {k \in Bits : k + rot \in d}
  BY <1>2, ShiftsWithin
<1>5. w = WordBits /\ rot = 0 => ShiftL(d, w - rot) = d /\ ShiftR(d, w - rot) = d
  <2> SUFFICES ASSUME w = WordBits, rot = 0
               PROVE  ShiftL(d, w - rot) = d /\ ShiftR(d, w - rot) = d
    OBVIOUS
  <2>1. w - rot = WordBits /\ d \in SUBSET Bits
    BY <1>1
  <2> QED BY <2>1, ShiftsWhole
<1>6. w < WordBits \/ rot # 0
      => /\ ShiftL(d, w - rot) = {k \in Bits : k - (w - rot) \in d}
         /\ ShiftR(d, w - rot) = {k \in Bits : k + (w - rot) \in d}
  <2> SUFFICES ASSUME w < WordBits \/ rot # 0
               PROVE  /\ ShiftL(d, w - rot) = {k \in Bits : k - (w - rot) \in d}
                      /\ ShiftR(d, w - rot) = {k \in Bits : k + (w - rot) \in d}
    OBVIOUS
  <2>1. w - rot \in 0 .. WordBits - 1
    BY <1>1, <1>2
  <2> QED BY <2>1, ShiftsWithin
<1>7. ASSUME NEW k \in Low(v)
      PROVE  /\ (k \in ShiftL(d, rot) \/ k \in ShiftR(d, w - rot)) <=> k \in {(j + n) % w : j \in d}
             /\ (k \in ShiftR(d, rot) \/ k \in ShiftL(d, w - rot)) <=> k \in {(j - n) % w : j \in d}
  <2> DEFINE left(j) == IF j + rot < w THEN j + rot ELSE j + rot - w
             right(j) == IF j < rot THEN (j - rot) + w ELSE j - rot
  <2>1. /\ k \in ShiftL(d, rot) <=> k - rot \in d
        /\ k \in ShiftR(d, rot) <=> k + rot \in d
        /\ k \in ShiftR(d, w - rot) <=> (k + (w - rot) \in d \/ (rot = 0 /\ w = WordBits /\ k \in d))
        /\ k \in ShiftL(d, w - rot) <=> (k - (w - rot) \in d \/ (rot = 0 /\ w = WordBits /\ k \in d))
    BY <1>1, <1>2, <1>4, <1>5, <1>6
  <2>2. k \in {(j + n) % w : j \in d} <=> \E j \in d : k = left(j)
    BY <1>3
  <2>3. k \in {(j - n) % w : j \in d} <=> \E j \in d : k = right(j)
    BY <1>3
  <2>4. (\E j \in d : k = left(j)) <=> (k - rot \in d \/ k + (w - rot) \in d)
    BY <1>1, <1>2
  <2>5. (\E j \in d : k = right(j)) <=> (k + rot \in d \/ k - (w - rot) \in d)
    BY <1>1, <1>2
  <2>6. rot = 0 => (k - rot \in d <=> k \in d) /\ (k + rot \in d <=> k \in d)
    BY <1>1
  <2> HIDE DEF left, right
  <2> QED BY <2>1, <2>2, <2>3, <2>4, <2>5, <2>6
<1>8. \A j \in d : (j + n) % w \in Low(v) /\ (j - n) % w \in Low(v)
  BY <1>1, <1>2, <1>3
<1>9. /\ (ShiftL(d, rot) \union ShiftR(d, w - rot)) \intersect Low(v) = {(k + n) % w : k \in d}
      /\ (ShiftR(d, rot) \union ShiftL(d, w - rot)) \intersect Low(v) = {(k - n) % w : k \in d}
  <2>1. {(j + n) % w : j \in d} \subseteq Low(v) /\ {(j - n) % w : j \in d} \subseteq Low(v)
    BY <1>8
  <2> DEFINE P == {(j + n) % w : j \in d}
             Q == {(j - n) % w : j \in d}
  <2> HIDE DEF P, Q
  <2>2. /\ (ShiftL(d, rot) \union ShiftR(d, w - rot)) \intersect Low(v) = P
        /\ (ShiftR(d, rot) \union ShiftL(d, w - rot)) \intersect Low(v) = Q
    BY <1>7, <2>1 DEF P, Q
  <2> QED BY <2>2 DEF P, Q
<1> QED BY <1>9 DEF w, rot

-----------------------------------------------------------------------------
(* The loop of REV.                                                          *)

Mirror(s, n) == {n - 1 - k : k \in s \intersect 0 .. n - 1}

IsReversal(f, s) ==
  f = [n \in 0 .. WordBits |->
         IF n = 0 THEN {} ELSE ShiftL(f[n - 1], 1) \union {k \in {0} : n - 1 \in s}]

\* One turn of the loop mirrors one bit more.
LEMMA MirrorStep ==
  ASSUME NEW s, NEW n \in 1 .. WordBits
  PROVE  Mirror(s, n) = ShiftL(Mirror(s, n - 1), 1) \union {k \in {0} : n - 1 \in s}
<1>1. WordBits \in Nat /\ n \in Nat /\ Bits = 0 .. WordBits - 1 /\ 1 \in 0 .. WordBits - 1
  BY Sizes DEF Bits
<1>2. ShiftL(Mirror(s, n - 1), 1) = {k \in Bits : k - 1 \in Mirror(s, n - 1)}
  BY <1>1, ShiftsWithin
<1>3. ASSUME NEW k \in 0 .. WordBits - 1
      PROVE  k \in Mirror(s, n) <=> (k \in 0 .. n - 1 /\ n - 1 - k \in s)
  <2>1. ASSUME k \in 0 .. n - 1, n - 1 - k \in s PROVE k \in Mirror(s, n)
    <3>1. n - 1 - k \in s \intersect 0 .. n - 1 /\ k = n - 1 - (n - 1 - k)
      BY <1>1, <2>1
    <3> QED BY <3>1 DEF Mirror
  <2>2. ASSUME k \in Mirror(s, n) PROVE k \in 0 .. n - 1 /\ n - 1 - k \in s
    <3>1. PICK j \in s \intersect 0 .. n - 1 : k = n - 1 - j
      BY <2>2 DEF Mirror
    <3>2. j = n - 1 - k
      BY <1>1, <3>1
    <3> QED BY <1>1, <3>1, <3>2
  <2> QED BY <2>1, <2>2
<1>4. ASSUME NEW k \in 1 .. WordBits - 1
      PROVE  k - 1 \in Mirror(s, n - 1) <=> (k \in 1 .. n - 1 /\ n - 1 - k \in s)
  <2>1. ASSUME k \in 1 .. n - 1, n - 1 - k \in s PROVE k - 1 \in Mirror(s, n - 1)
    <3>1. n - 1 - k \in s \intersect 0 .. (n - 1) - 1 /\ k - 1 = (n - 1) - 1 - (n - 1 - k)
      BY <1>1, <2>1
    <3> QED BY <3>1 DEF Mirror
  <2>2. ASSUME k - 1 \in Mirror(s, n - 1) PROVE k \in 1 .. n - 1 /\ n - 1 - k \in s
    <3>1. PICK j \in s \intersect 0 .. (n - 1) - 1 : k - 1 = (n - 1) - 1 - j
      BY <2>2 DEF Mirror
    <3>2. j = n - 1 - k /\ k \in 1 .. n - 1
      BY <1>1, <3>1
    <3> QED BY <1>1, <3>1, <3>2
  <2> QED BY <2>1, <2>2
<1>5. Mirror(s, n) \subseteq Bits /\ ~ (0 - 1 \in Mirror(s, n - 1))
  BY <1>1 DEF Mirror
<1>6. ASSUME NEW k \in 0 .. WordBits - 1
      PROVE  k \in Mirror(s, n) <=> (k - 1 \in Mirror(s, n - 1) \/ (k = 0 /\ n - 1 \in s))
  <2>1. CASE k = 0
    <3>1. k \in 0 .. n - 1 /\ n - 1 - k = n - 1 /\ k - 1 = 0 - 1
      BY <1>1, <2>1
    <3> QED BY <1>3, <1>5, <2>1, <3>1
  <2>2. CASE k # 0
    <3>1. k \in 1 .. WordBits - 1 /\ (k \in 0 .. n - 1 <=> k \in 1 .. n - 1)
      BY <1>1, <2>2
    <3> QED BY <1>3, <1>4, <2>2, <3>1
  <2> QED BY <2>1, <2>2
<1>7. 0 \in Bits
  BY <1>1
<1> QED BY <1>1, <1>2, <1>5, <1>6, <1>7

\* The loop of REV mirrors the word.
LEMMA ReversedIs ==
  ASSUME NEW s, NEW w \in 0 .. WordBits
  PROVE  Reversed(s, w) = Mirror(s, w)
<1>1. WordBits \in Nat
  BY Sizes
<1>2. Mirror(s, 0) = {}
  BY DEF Mirror
<1> DEFINE f == [n \in 0 .. WordBits |-> Mirror(s, n)]
<1>3. IsReversal(f, s)
  <2>1. \A n \in 0 .. WordBits :
          f[n] = IF n = 0 THEN {} ELSE ShiftL(f[n - 1], 1) \union {k \in {0} : n - 1 \in s}
    <3> SUFFICES ASSUME NEW n \in 0 .. WordBits, n # 0
                 PROVE  f[n] = ShiftL(f[n - 1], 1) \union {k \in {0} : n - 1 \in s}
      BY <1>2
    <3>1. n \in 1 .. WordBits /\ n - 1 \in 0 .. WordBits
      BY <1>1
    <3>2. f[n] = Mirror(s, n) /\ f[n - 1] = Mirror(s, n - 1)
      BY <3>1
    <3> HIDE DEF f
    <3> QED BY <3>1, <3>2, MirrorStep
  <2> QED BY <2>1 DEF IsReversal
<1> DEFINE g == CHOOSE h : IsReversal(h, s)
<1>4. IsReversal(g, s)
  BY <1>3
<1>5. Reversed(s, w) = g[w]
  BY DEF Reversed, IsReversal
<1> HIDE DEF f, g
<1>6. \A n \in 0 .. WordBits :
        g[n] = IF n = 0 THEN {} ELSE ShiftL(g[n - 1], 1) \union {k \in {0} : n - 1 \in s}
  BY <1>4 DEF IsReversal
<1> DEFINE T == {n \in 0 .. WordBits : g[n] = Mirror(s, n)}
<1>7. 0 \in T
  <2>1. 0 \in 0 .. WordBits
    BY <1>1
  <2> QED BY <2>1, <1>2, <1>6
<1>8. ASSUME NEW n \in 0 .. WordBits - 1, n \in T PROVE n + 1 \in T
  <2>1. n + 1 \in 1 .. WordBits /\ n + 1 \in 0 .. WordBits /\ n + 1 # 0 /\ (n + 1) - 1 = n
    BY <1>1
  <2>2. g[n] = Mirror(s, n)
    BY <1>8
  <2>3. g[n + 1] = ShiftL(g[(n + 1) - 1], 1) \union {k \in {0} : (n + 1) - 1 \in s}
    BY <2>1, <1>6
  <2>4. g[n + 1] = ShiftL(Mirror(s, (n + 1) - 1), 1) \union {k \in {0} : (n + 1) - 1 \in s}
    BY <2>1, <2>2, <2>3
  <2>5. g[n + 1] = Mirror(s, n + 1)
    BY <2>1, <2>4, MirrorStep
  <2> QED BY <2>1, <2>5
<1> HIDE DEF T
<1>9. 0 .. WordBits \subseteq T
  BY <1>1, <1>7, <1>8, InductionTo
<1> QED BY <1>5, <1>9 DEF T

-----------------------------------------------------------------------------
(* Executing an instruction.                                                 *)

\* What an instruction touches, its operands reach.
LEMMA Access ==
  ASSUME NEW i \in Insns, Touched(i) \subseteq Addr
  PROVE  /\ i.op # "LEA" => Reaches(i.op1, 4) /\ Reaches(i.op2, Bytes(i.op2.v))
         /\ i.op = "LEA" => Value(DataAt(i.op2, INT)) \in Addr
  BY DEF Touched, Reaches

\* What the handlers work on: words, the source within its width.
LEMMA Parts ==
  ASSUME Contents, NEW i \in Insns, Reaches(i.op1, 4), Reaches(i.op2, Bytes(i.op2.v)),
         i.op1.t # "imm"
  PROVE  /\ i.op1.t \in {"reg", "mem"}
         /\ Old(i) \subseteq Bits
         /\ Source(i) \subseteq Low(i.op2.v) /\ Source(i) \subseteq Bits
         /\ OperandData(i.op1) \subseteq Low(i.op1.v) /\ OperandData(i.op1) \subseteq Bits
         /\ OperandData(i.op1) = Old(i) \intersect Low(i.op1.v)
         /\ i.op1.t = "mem" => OperandData(i.op1) = Old(i)
<1>1. /\ i.op1 \in Operands /\ i.op2 \in Operands /\ i.op1.v \in Widths /\ i.op2.v \in Widths
      /\ i.op1.t \in {"reg", "mem"} /\ (i.op1.t = "reg" => i.op1.r \in Regs)
  BY InsnForms, OperandForms
<1>2. Reaches(i.op1, Bytes(i.op1.v))
  <2>1. Bytes(i.op1.v) <= 4 /\ Bytes(i.op1.v) \in Nat
    BY <1>1, WidthCases
  <2>2. Offset(i.op1) \in Nat
    BY OffsetNat
  <2>3. Offset(i.op1) .. Offset(i.op1) + Bytes(i.op1.v) - 1 \subseteq Offset(i.op1) .. Offset(i.op1) + 4 - 1
    BY <2>1, <2>2
  <2> QED BY <2>3 DEF Reaches
<1>3. Source(i) \subseteq Low(i.op2.v) /\ Source(i) \subseteq Bits
  BY <1>1, DataLow DEF Source, OperandData
<1>4. OperandData(i.op1) \subseteq Low(i.op1.v) /\ OperandData(i.op1) \subseteq Bits
  BY <1>1, <1>2, DataLow DEF OperandData
<1>5. CASE i.op1.t = "reg"
  <2>1. Old(i) = vregs[i.op1.r] /\ OperandData(i.op1) = PostTrunc(vregs[i.op1.r], i.op1.v)
    BY <1>5 DEF Old, OperandData, DataAt
  <2>2. vregs[i.op1.r] \subseteq Bits
    BY <1>1, <1>5 DEF Contents, Word
  <2> QED BY <1>1, <1>3, <1>4, <1>5, <2>1, <2>2 DEF PostTrunc
<1>6. CASE i.op1.t = "mem"
  <2>1. Old(i) = OperandData(i.op1)
    BY <1>6 DEF Old, OperandData, DataAt
  <2> QED BY <1>1, <1>3, <1>4, <1>6, <2>1
<1> QED BY <1>1, <1>5, <1>6

\* A handler stores something, words in a register, and one that trims computes.
LEMMA Stores ==
  ASSUME Contents, NEW i \in Insns, Execute(i)
  PROVE  \E data, x : Store(i, i.op1.v, x, data) /\ (i.op1.t = "reg" => data \subseteq Bits)
<1>1. i.op1.v \in Widths /\ i.op2.v \in Widths /\ i.op2 \in Operands /\ INT \in Widths
  BY InsnForms, OperandForms, Sizes
<1>2. Touched(i) \subseteq Addr
  BY DEF Execute, Faulty
<1>3. ASSUME NEW result, Compute(i, result)
      PROVE  \E data, x : Store(i, i.op1.v, x, data) /\ (i.op1.t = "reg" => data \subseteq Bits)
  <2> DEFINE data == IF i.op1.t = "reg" THEN PostTrunc(result, i.op1.v) ELSE result
  <2>1. Store(i, i.op1.v, i.op1.v, data)
    BY <1>3 DEF Compute
  <2>2. i.op1.t = "reg" => data \subseteq Bits
    BY <1>1, WidthsFit DEF PostTrunc
  <2> HIDE DEF data
  <2> QED BY <2>1, <2>2
<1>4. CASE i.op = "MOV" /\ Mov(i)
  <2>1. Source(i) \subseteq Bits
    BY <1>1, <1>2, <1>4, Access, DataLow DEF Source, OperandData
  <2> QED BY <1>4, <2>1 DEF Mov
<1>5. CASE i.op = "LEA" /\ Lea(i)
  <2> DEFINE a == Value(DataAt(i.op2, INT))
  <2>1. a \in Addr /\ a \in Nat /\ a .. a + 1 - 1 \subseteq Addr
    <3>1. a \in Addr
      BY <1>2, <1>5, Access
    <3> HIDE DEF a
    <3> QED BY <3>1, AluAssumption DEF Addr
  <2> HIDE DEF a
  <2>2. Load(a, 1) \subseteq Bits
    <3>1. 1 \in Widths /\ Bytes(1) = 1
      BY Sizes
    <3>2. LoadFrom(vmem, a, Bytes(1)) \subseteq Low(1)
      BY <2>1, <3>1, LoadLow DEF Contents
    <3> QED BY <3>1, <3>2, LoadIs, WidthsFit
  <2> QED BY <1>5, <2>2 DEF Lea, a
<1>6. CASE i.op = "SWAP" /\ Swap(i)
  BY <1>6, ShiftBits DEF Swap
<1>7. CASE i.op = "REV" /\ Rev(i)
  <2>1. Reversed(Source(i), Width(i.op2.v)) \subseteq Bits
    <3>1. Width(i.op2.v) \in 1 .. WordBits /\ WordBits \in Nat
      BY <1>1, WidthsFit, Sizes
    <3>2. Reversed(Source(i), Width(i.op2.v)) = Mirror(Source(i), Width(i.op2.v))
      BY <3>1, ReversedIs
    <3> QED BY <3>1, <3>2 DEF Mirror, Bits
  <2> QED BY <1>7, <2>1 DEF Rev
<1>8. CASE i.op = "PACKHI" /\ PackHi(i)
  <2>1. HighMask(i.op2.v) \subseteq Bits
    BY <1>1, WidthsFit
  <2> QED BY <1>8, <2>1, ShiftBits DEF PackHi
<1>9. CASE i.op = "PACKLO" /\ PackLo(i)
  <2>1. LowMask(i.op2.v) \subseteq Bits
    BY <1>1, WidthsFit
  <2> QED BY <1>9, <2>1, ShiftBits DEF PackLo
<1>10. CASE i.op = "ROL" /\ Rol(i)
  BY <1>10, ShiftBits DEF Rol
<1>11. CASE i.op = "ROR" /\ Ror(i)
  BY <1>11, ShiftBits DEF Ror
<1> QED
  BY <1>3, <1>4, <1>5, <1>6, <1>7, <1>8, <1>9, <1>10, <1>11
  DEF Execute, Add, Sub, Mul, Div, Mod, AndInsn, OrInsn, XorInsn, Shl, Shr, Not

\* The handlers that trim.
LEMMA Trims ==
  ASSUME NEW i, Execute(i), i.op \in Trimming
  PROVE  \E result : Compute(i, result)
  BY DEF Execute, Trimming, Add, Sub, Mul, Div, Mod, AndInsn, OrInsn, XorInsn, Shl, Shr, Not

\* A store keeps words and bytes.
LEMMA StoreTyped ==
  ASSUME Contents, NEW i \in Insns, NEW x, NEW data, Store(i, i.op1.v, x, data),
         i.op1.t = "reg" => data \subseteq Bits
  PROVE  Contents'
<1>1. CASE i.op1.t = "reg" /\ SetReg(i.op1.r, i.op1.v, data) /\ UNCHANGED vmem
  <2>1. PreTrunc(vregs[i.op1.r], i.op1.v) \union data \in Word
    <3>1. vregs[i.op1.r] \in Word
      BY <1>1, InsnForms, OperandForms DEF Contents
    <3> QED BY <1>1, <3>1 DEF PreTrunc, Word
  <2> QED BY <1>1, <2>1 DEF SetReg, Contents
<1>2. CASE i.op1.t = "mem" /\ \E w : vmem' = Written(Offset(i.op1), w, i.op1.v) /\ UNCHANGED vregs
  <2>1. PICK w : vmem' = Written(Offset(i.op1), w, i.op1.v) /\ vregs' = vregs
    BY <1>2
  <2>2. \A b \in Addr : vmem'[b] \in Byte /\ vmem' = [c \in Addr |-> vmem'[c]]
    BY <2>1 DEF Contents, Written, ByteAt, Byte
  <2> QED BY <2>1, <2>2 DEF Contents, Written
<1>3. CASE UNCHANGED <<vregs, vmem>>
  BY <1>3 DEF Contents
<1> QED BY <1>1, <1>2, <1>3 DEF Store

\* A store changes its destination only.
LEMMA StoreOnly ==
  ASSUME Contents, NEW i \in Insns, NEW x, NEW data, Store(i, i.op1.v, x, data)
  PROVE  /\ \A a \in Addr \ Own(i) : vmem'[a] = vmem[a]
         /\ \A r \in Regs : (i.op1.t = "reg" /\ i.op1.r = r) \/ vregs'[r] = vregs[r]
<1>1. CASE i.op1.t = "reg" /\ SetReg(i.op1.r, i.op1.v, data) /\ UNCHANGED vmem
  BY <1>1 DEF SetReg, Contents
<1>2. CASE i.op1.t = "mem" /\ \E w : vmem' = Written(Offset(i.op1), w, i.op1.v) /\ UNCHANGED vregs
  BY <1>2 DEF Written, Own
<1>3. CASE UNCHANGED <<vregs, vmem>>
  BY <1>3
<1> QED BY <1>1, <1>2, <1>3 DEF Store

-----------------------------------------------------------------------------
(* Type correctness, and what a step changes.                                *)

\* No instruction is None.
LEMMA NoneIsNone == None \notin Insns
<1>1. \A i \in Insns : i.op \in Ops
  BY InsnForms
<1>2. None.op = "none" /\ "none" \notin Ops
  BY DEF None, Ops, Trimming, Special
<1> QED BY <1>1, <1>2

\* The contents, from the type invariant.
LEMMA TypedContents == TypeOK => Contents
  BY DEF TypeOK, Contents

\* The program starts with words and bytes.
LEMMA InitTyped == Init => TypeOK
  BY AluAssumption DEF Init, TypeOK

\* Every handler keeps them.
LEMMA NextTyped == TypeOK /\ [Next]_vars => TypeOK'
<1> SUFFICES ASSUME TypeOK, [Next]_vars PROVE TypeOK'
  OBVIOUS
<1>1. Contents
  BY TypedContents
<1>2. MaxInsns \in Nat
  BY AluAssumption
<1>3. ASSUME NEW i \in Insns, Begin(i) PROVE insn' \in Insns \union {None} /\ (insn' = None <=> count' = 0)
                                            /\ count' \in 0 .. MaxInsns
  BY <1>2, <1>3, NoneIsNone DEF Begin, TypeOK
<1>4. ASSUME NEW i \in Insns, Execute(i) PROVE TypeOK'
  <2>1. Contents'
    BY <1>1, <1>4, Stores, StoreTyped
  <2>2. Begin(i) /\ status' = status
    BY <1>4 DEF Execute
  <2> QED BY <1>3, <2>1, <2>2 DEF Contents, TypeOK
<1>5. ASSUME NEW i \in Insns, Fault(i) PROVE TypeOK'
  BY <1>3, <1>5 DEF Fault, TypeOK
<1>6. CASE Exit
  BY <1>6 DEF Exit, TypeOK
<1>7. CASE UNCHANGED vars
  BY <1>7 DEF vars, TypeOK
<1> QED BY <1>4, <1>5, <1>6, <1>7 DEF Next, Ended

\* Registers hold words and memory bytes, whatever is executed.
THEOREM TypeCorrect == Spec => []TypeOK
  BY InitTyped, NextTyped, PTL DEF Spec

\* An instruction that completes is executed in that step.
LEMMA Completed ==
  ASSUME TypeOK, [Next]_vars, NEW i \in Insns, Completes(i)
  PROVE  Execute(i) /\ Contents
<1>1. count' # count /\ count \in Nat /\ insn' = i /\ status' = "running"
  BY AluAssumption DEF Completes, TypeOK
<1> QED BY <1>1, TypedContents DEF Next, vars, Begin, Execute, Fault, Exit, Ended

\* OnlyDestination for one step.
LEMMA StepOnlyDestination ==
  ASSUME TypeOK, [Next]_vars, NEW i \in Insns, Completes(i)
  PROVE  /\ \A a \in Addr \ Own(i) : vmem'[a] = vmem[a]
         /\ \A r \in Regs : (i.op1.t = "reg" /\ i.op1.r = r) \/ vregs'[r] = vregs[r]
<1>1. Execute(i) /\ Contents
  BY Completed
<1>2. PICK data, x : Store(i, i.op1.v, x, data)
  BY <1>1, Stores
<1> QED BY <1>1, <1>2, StoreOnly

\* No handler changes a register or a byte of memory beside its destination, the
\* memory writers and VMEM_EXPANSION included.
THEOREM DestinationCorrect == Spec => OnlyDestination
<1>1. TypeOK /\ [Next]_vars
      => [\A i \in Insns : Completes(i) =>
           /\ \A a \in Addr \ Own(i) : vmem'[a] = vmem[a]
           /\ \A r \in Regs : (i.op1.t = "reg" /\ i.op1.r = r) \/ vregs'[r] = vregs[r]]_vars
  BY StepOnlyDestination
<1> QED BY <1>1, TypeCorrect, PTL DEF Spec, OnlyDestination

\* UpperBitsKept for one step.
LEMMA StepKeepsUpperBits ==
  ASSUME TypeOK, [Next]_vars, NEW i \in Insns, Completes(i), i.op \in Trimming
  PROVE  KeepsUpperBits(i)
<1> SUFFICES ASSUME i.op1.t = "reg"
             PROVE  PreTrunc(vregs'[i.op1.r], i.op1.v) = PreTrunc(vregs[i.op1.r], i.op1.v)
  BY DEF KeepsUpperBits, PreTrunc
<1>1. Execute(i) /\ Contents
  BY Completed
<1>2. PICK result : Compute(i, result)
  BY <1>1, Trims
<1>3. vregs' = [vregs EXCEPT ![i.op1.r] = PreTrunc(@, i.op1.v) \union PostTrunc(result, i.op1.v)]
  BY <1>2 DEF Compute, Store, SetReg
<1>4. vregs'[i.op1.r] = PreTrunc(vregs[i.op1.r], i.op1.v) \union PostTrunc(result, i.op1.v)
  BY <1>1, <1>3, InsnForms, OperandForms DEF Contents
<1> QED BY <1>4 DEF PreTrunc, PostTrunc

\* The handlers that trim keep the bits of a register above the width of the
\* operand (PRE_V_TRUNCATION, POST_V_TRUNCATION).
THEOREM UpperBitsCorrect == Spec => UpperBitsKept
<1>1. TypeOK /\ [Next]_vars
      => [\A i \in Insns : Completes(i) /\ i.op \in Trimming => KeepsUpperBits(i)]_vars
  BY StepKeepsUpperBits
<1> QED BY <1>1, TypeCorrect, PTL DEF Spec, UpperBitsKept

-----------------------------------------------------------------------------
(* Results.                                                                  *)

\* The low bits of a sum are those of what the low bits of one side give.
LEMMA LowOfSum ==
  ASSUME NEW w, NEW v \in Widths, NEW n \in Nat
  PROVE  PostTrunc(Wrap(Value(w) + n), v) = PostTrunc(Wrap(Value(PostTrunc(w, v)) + n), v)
<1> DEFINE m == Width(v)
           b == Value(PostTrunc(w, v))
<1>1. m \in 0 .. WordBits /\ Low(v) = 0 .. m - 1 /\ b \in Nat
  BY WidthBounds, ValueNat
<1>2. PICK q \in Nat : Value(w) = b + q * Power[m]
  BY <1>1, ValueLow DEF PostTrunc
<1> HIDE DEF b, m
<1>3. Power[m] \in Int /\ q * Power[m] \in Int
  BY <1>1, PowerNat
<1>4. Value(w) + n = (b + n) + q * Power[m] /\ Value(w) + n \in Int /\ b + n \in Int /\ q \in Int
  BY <1>1, <1>2, <1>3
<1>5. Congruent(Value(w) + n, b + n, m)
  BY <1>4 DEF Congruent
<1>6. Wrap(Value(w) + n) \intersect 0 .. m - 1 = Wrap(b + n) \intersect 0 .. m - 1
  BY <1>1, <1>5, WrapLow
<1> QED BY <1>1, <1>6 DEF PostTrunc, b

\* The same of a difference.
LEMMA LowOfDifference ==
  ASSUME NEW w, NEW v \in Widths, NEW n \in Nat
  PROVE  PostTrunc(Wrap(Value(w) - n), v) = PostTrunc(Wrap(Value(PostTrunc(w, v)) - n), v)
<1> DEFINE m == Width(v)
           b == Value(PostTrunc(w, v))
<1>1. m \in 0 .. WordBits /\ Low(v) = 0 .. m - 1 /\ b \in Nat
  BY WidthBounds, ValueNat
<1>2. PICK q \in Nat : Value(w) = b + q * Power[m]
  BY <1>1, ValueLow DEF PostTrunc
<1> HIDE DEF b, m
<1>3. Power[m] \in Int /\ q * Power[m] \in Int
  BY <1>1, PowerNat
<1>4. Value(w) - n = (b - n) + q * Power[m] /\ Value(w) - n \in Int /\ b - n \in Int /\ q \in Int
  BY <1>1, <1>2, <1>3
<1>5. Congruent(Value(w) - n, b - n, m)
  BY <1>4 DEF Congruent
<1>6. Wrap(Value(w) - n) \intersect 0 .. m - 1 = Wrap(b - n) \intersect 0 .. m - 1
  BY <1>1, <1>5, WrapLow
<1> QED BY <1>1, <1>6 DEF PostTrunc, b

\* The product of a sum, apart from the proof where it occurs.
LEMMA Distributes ==
  ASSUME NEW b \in Nat, NEW q \in Nat, NEW p \in Nat, NEW n \in Nat
  PROVE  (b + q * p) * n = b * n + (q * n) * p /\ q * n \in Int /\ b * n \in Int
         /\ (b + q * p) * n \in Int
  OBVIOUS

\* The same of a product.
LEMMA LowOfProduct ==
  ASSUME NEW w, NEW v \in Widths, NEW n \in Nat
  PROVE  PostTrunc(Wrap(Value(w) * n), v) = PostTrunc(Wrap(Value(PostTrunc(w, v)) * n), v)
<1> DEFINE m == Width(v)
           b == Value(PostTrunc(w, v))
<1>1. m \in 0 .. WordBits /\ Low(v) = 0 .. m - 1 /\ b \in Nat
  BY WidthBounds, ValueNat
<1>2. PICK q \in Nat : Value(w) = b + q * Power[m]
  BY <1>1, ValueLow DEF PostTrunc
<1> HIDE DEF b, m
<1>3. Power[m] \in Nat
  BY <1>1, PowerNat
<1>4. Value(w) * n = b * n + (q * n) * Power[m] /\ q * n \in Int /\ b * n \in Int
      /\ Value(w) * n \in Int
  <2>1. (b + q * Power[m]) * n = b * n + (q * n) * Power[m] /\ q * n \in Int /\ b * n \in Int
        /\ (b + q * Power[m]) * n \in Int
    BY <1>1, <1>3, Distributes
  <2> QED BY <1>2, <2>1
<1>5. Congruent(Value(w) * n, b * n, m)
  BY <1>4 DEF Congruent
<1>6. Wrap(Value(w) * n) \intersect 0 .. m - 1 = Wrap(b * n) \intersect 0 .. m - 1
  BY <1>1, <1>5, WrapLow
<1> QED BY <1>1, <1>6 DEF PostTrunc, b

\* The places of a word, further up or further down.
Up(d, n) == {k + n : k \in d}
Down(d, n) == {k - n : k \in d}

\* Shifts bit by bit are shifts place by place, in the low bits.
LEMMA ShiftedLow ==
  ASSUME NEW d \in SUBSET Bits, NEW v \in Widths, NEW n \in 0 .. WordBits - 1
  PROVE  /\ PostTrunc(ShiftL(d, n), v) = PostTrunc(Up(d, n), v)
         /\ PostTrunc(ShiftL(d, n), v) = PostTrunc(Up(PostTrunc(d, v), n), v)
         /\ PostTrunc(ShiftR(d, n), v) = PostTrunc(Down(d, n), v)
<1>1. WordBits \in Nat /\ Bits = 0 .. WordBits - 1 /\ Low(v) = 0 .. Width(v) - 1
      /\ Width(v) \in 1 .. WordBits
  BY Sizes, WidthsFit DEF Bits
<1>2. ShiftL(d, n) = {k \in Bits : k - n \in d} /\ ShiftR(d, n) = {k \in Bits : k + n \in d}
  BY ShiftsWithin
<1>3. ASSUME NEW k \in Low(v)
      PROVE  /\ k \in ShiftL(d, n) <=> k - n \in d
             /\ k \in ShiftR(d, n) <=> k + n \in d
             /\ k \in {j + n : j \in d} <=> k - n \in d
             /\ k \in {j + n : j \in PostTrunc(d, v)} <=> k - n \in d
             /\ k \in {j - n : j \in d} <=> k + n \in d
  <2>1. k \in Bits /\ k \in Int /\ k - n <= k /\ k = (k - n) + n /\ k = (k + n) - n
        /\ (\A j \in Bits : (k = j + n => j = k - n) /\ (k = j - n => j = k + n))
    BY <1>1
  <2>2. k - n \in d => k - n \in PostTrunc(d, v)
    BY <1>1, <2>1 DEF PostTrunc
  <2>3. PostTrunc(d, v) \subseteq d
    BY DEF PostTrunc
  <2> QED BY <1>2, <2>1, <2>2, <2>3
<1> QED BY <1>3 DEF PostTrunc, Up, Down

\* The two halves of SWAP are a rotation by half the width.
LEMMA Swapped ==
  ASSUME NEW x \in Widths, NEW s \in SUBSET Low(x)
  PROVE  ShiftR(s \intersect HighMask(x), Half(x)) \union ShiftL(s \intersect LowMask(x), Half(x))
         = {(k + Half(x)) % Width(x) : k \in s}
<1> DEFINE h == Half(x)
           w == Width(x)
<1>1. WordBits \in Nat /\ Bits = 0 .. WordBits - 1 /\ w \in Nat \ {0} /\ w <= WordBits /\ w = 2 * h
      /\ h \in Nat /\ h \in 0 .. WordBits - 1 /\ s \subseteq 0 .. w - 1
      /\ LowMask(x) = 0 .. h - 1 /\ HighMask(x) = h .. w - 1
  BY WidthBounds
<1> HIDE DEF h, w
<1>2. \A k \in s : (k + h) % w = IF k < h THEN k + h ELSE k - h
  <2> SUFFICES ASSUME NEW k \in s PROVE (k + h) % w = IF k < h THEN k + h ELSE k - h
    OBVIOUS
  <2>1. h % w = h /\ w \in Nat \ {0} /\ h \in Nat /\ k \in 0 .. w - 1
    BY <1>1
  <2>2. (k + h) % w = IF k + (h % w) < w THEN k + (h % w) ELSE k + (h % w) - w
    BY <2>1, Around
  <2> QED BY <1>1, <2>1, <2>2
<1>3. /\ ShiftR(s \intersect HighMask(x), h) = {k \in Bits : k + h \in s \intersect HighMask(x)}
      /\ ShiftL(s \intersect LowMask(x), h) = {k \in Bits : k - h \in s \intersect LowMask(x)}
  BY <1>1, ShiftsWithin
<1> DEFINE moved(k) == IF k < h THEN k + h ELSE k - h
<1>4. {(k + h) % w : k \in s} = {moved(k) : k \in s}
  BY <1>2
<1>5. ASSUME NEW k \in s
      PROVE  moved(k) \in Bits /\ (moved(k) + h \in s \intersect HighMask(x)
                                   \/ moved(k) - h \in s \intersect LowMask(x))
  BY <1>1
<1>6. ASSUME NEW k \in Bits, k + h \in s \intersect HighMask(x) \/ k - h \in s \intersect LowMask(x)
      PROVE  \E j \in s : k = moved(j)
  BY <1>1, <1>6
<1> HIDE DEF moved
<1>7. ShiftR(s \intersect HighMask(x), h) \union ShiftL(s \intersect LowMask(x), h)
      = {(k + h) % w : k \in s}
  BY <1>3, <1>4, <1>5, <1>6
<1> QED BY <1>7 DEF h, w

\* The packs agree with the reference in the low bits, of width u.
PacksAgree(d, s, x, u) ==
  /\ PostTrunc((d \intersect HighMask(x)) \union ShiftR(s \intersect HighMask(x), Half(x)), u)
     = PostTrunc((d \ LowMask(x)) \union Down(s, Half(x)), u)
  /\ PostTrunc((d \intersect LowMask(x)) \union ShiftL(s \intersect LowMask(x), Half(x)), u)
     = PostTrunc((d \intersect LowMask(x)) \union Up(s, Half(x)), u)

\* The packs agree with the reference.
LEMMA Packed ==
  ASSUME NEW x \in Widths, NEW d, NEW s, d \subseteq Low(x), s \subseteq Low(x),
         NEW u \in Widths, u <= x
  PROVE  PacksAgree(d, s, x, u)
<1> DEFINE h == Half(x)
           w == Width(x)
           l == Width(u)
<1>1. WordBits \in Nat /\ Bits = 0 .. WordBits - 1 /\ w \in Nat \ {0} /\ w <= WordBits /\ w = 2 * h
      /\ h \in Nat /\ h \in 0 .. WordBits - 1
      /\ s \subseteq 0 .. w - 1 /\ d \subseteq 0 .. w - 1
      /\ LowMask(x) = 0 .. h - 1 /\ HighMask(x) = h .. w - 1 /\ Low(u) = 0 .. l - 1
      /\ l <= w /\ l \in Nat
  <2>1. WordBits \in Nat /\ Bits = 0 .. WordBits - 1 /\ w \in Nat \ {0} /\ w <= WordBits /\ w = 2 * h
        /\ h \in Nat /\ h \in 0 .. WordBits - 1 /\ Low(x) = 0 .. w - 1
        /\ LowMask(x) = 0 .. h - 1 /\ HighMask(x) = h .. w - 1
    BY WidthBounds
  <2>2. Low(u) = 0 .. l - 1 /\ l <= w /\ l \in Nat
    BY WidthBounds, WidthOrder
  <2> QED BY <2>1, <2>2
<1> HIDE DEF h, w, l
<1>2. /\ ShiftR(s \intersect HighMask(x), h) = {k \in Bits : k + h \in s \intersect HighMask(x)}
      /\ ShiftL(s \intersect LowMask(x), h) = {k \in Bits : k - h \in s \intersect LowMask(x)}
  BY <1>1, ShiftsWithin
<1>3. ASSUME NEW k \in Low(u)
      PROVE  /\ k \in d \intersect HighMask(x) <=> k \in d \ LowMask(x)
             /\ k \in {j - h : j \in s} <=> k + h \in s \intersect HighMask(x)
             /\ k \in {j + h : j \in s} <=> k - h \in s \intersect LowMask(x)
             /\ k \in Bits
  BY <1>1
<1>4. /\ PostTrunc((d \intersect HighMask(x)) \union ShiftR(s \intersect HighMask(x), h), u)
         = PostTrunc((d \ LowMask(x)) \union {k - h : k \in s}, u)
      /\ PostTrunc((d \intersect LowMask(x)) \union ShiftL(s \intersect LowMask(x), h), u)
         = PostTrunc((d \intersect LowMask(x)) \union {k + h : k \in s}, u)
  BY <1>2, <1>3 DEF PostTrunc
<1> QED BY <1>4 DEF h, Up, Down, PacksAgree

-----------------------------------------------------------------------------
(* Every operation.                                                          *)

\* What is computed is what the destination then has.
LEMMA ComputeRight ==
  ASSUME Contents, NEW i \in Insns, i.op1.t # "imm", Reaches(i.op1, 4),
         NEW result \in SUBSET Bits, Compute(i, result)
  PROVE  PostTrunc(OperandData(i.op1)', i.op1.v) = PostTrunc(result, i.op1.v)
<1> DEFINE v == i.op1.v
           data == IF i.op1.t = "reg" THEN PostTrunc(result, v) ELSE result
<1>1. v \in Widths /\ v <= v
  BY InsnForms, OperandForms, Sizes
<1>2. data \in SUBSET Bits /\ PostTrunc(data, v) = PostTrunc(result, v)
  BY DEF PostTrunc
<1>3. Store(i, v, v, data)
  BY DEF Compute
<1> HIDE DEF data
<1>4. PostTrunc(OperandData(i.op1)', v) = PostTrunc(data, v)
  BY <1>1, <1>2, <1>3, StoreRight
<1> QED BY <1>2, <1>4

\* ADD, SUB, MUL, DIV and MOD compute what the reference says.
LEMMA ArithmeticRight ==
  ASSUME Contents, NEW i \in Insns, Execute(i), i.op1.t # "imm",
         i.op \in {"ADD", "SUB", "MUL", "DIV", "MOD"}
  PROVE  IsRight(i)
<1> DEFINE v == i.op1.v
           d == OperandData(i.op1)
           s == Source(i)
<1>1. Reaches(i.op1, 4) /\ Reaches(i.op2, Bytes(i.op2.v))
  BY Access DEF Execute, Faulty
<1>2. v \in Widths /\ Value(s) \in Nat
  BY InsnForms, OperandForms, ValueNat
<1>3. d = PostTrunc(Old(i), v) /\ (i.op1.t = "mem" => d = Old(i)) /\ i.op1.t \in {"reg", "mem"}
  BY <1>1, Parts DEF PostTrunc
<1>4. RightWidth(i) = v /\ Second(i) = s
  BY DEF RightWidth, Packs, Second, Exchanged
<1> HIDE DEF d, s, v
<1> SUFFICES PostTrunc(OperandData(i.op1)', v)
             = PostTrunc(Reference(i.op, First(i), v, s, i.op2.v), v)
  BY <1>4 DEF IsRight, v
<1>5. ASSUME NEW n, Compute(i, Wrap(n))
      PROVE  PostTrunc(OperandData(i.op1)', v) = PostTrunc(Wrap(n), v)
  BY <1>1, <1>5, WrapBits, ComputeRight DEF v
<1>6. CASE i.op = "ADD"
  <2>1. Compute(i, Wrap(Value(Old(i)) + Value(s)))
    BY <1>6 DEF Execute, Add, s
  <2>2. First(i) = d
    BY <1>6 DEF First, Exchanged, Packs, d
  <2>3. Reference(i.op, d, v, s, i.op2.v) = Wrap(Value(d) + Value(s))
    BY <1>6 DEF Reference
  <2> QED BY <1>2, <1>3, <1>5, <2>1, <2>2, <2>3, LowOfSum
<1>7. CASE i.op = "SUB"
  <2>1. Compute(i, Wrap(Value(Old(i)) - Value(s)))
    BY <1>7 DEF Execute, Sub, s
  <2>2. First(i) = d
    BY <1>7 DEF First, Exchanged, Packs, d
  <2>3. Reference(i.op, d, v, s, i.op2.v) = Wrap(Value(d) - Value(s))
    BY <1>7 DEF Reference
  <2> QED BY <1>2, <1>3, <1>5, <2>1, <2>2, <2>3, LowOfDifference
<1>8. CASE i.op = "MUL"
  <2>1. Compute(i, Wrap(Value(Old(i)) * Value(s)))
    BY <1>8 DEF Execute, Mul, s
  <2>2. First(i) = d
    BY <1>8 DEF First, Exchanged, Packs, d
  <2>3. Reference(i.op, d, v, s, i.op2.v) = Wrap(Value(d) * Value(s))
    BY <1>8 DEF Reference
  <2> QED BY <1>2, <1>3, <1>5, <2>1, <2>2, <2>3, LowOfProduct
<1>9. CASE i.op \in {"DIV", "MOD"}
  <2>1. First(i) = Old(i)
    BY <1>3, <1>9 DEF First, Exchanged, Packs, d
  <2>2. CASE i.op = "DIV"
    <3>1. Compute(i, Wrap(Value(Old(i)) \div Value(s)))
      BY <2>2 DEF Execute, Div, s
    <3>2. Reference(i.op, Old(i), v, s, i.op2.v) = Wrap(Value(Old(i)) \div Value(s))
      BY <2>2 DEF Reference
    <3> QED BY <1>5, <2>1, <3>1, <3>2
  <2>3. CASE i.op = "MOD"
    <3>1. Compute(i, Wrap(Value(Old(i)) % Value(s)))
      BY <2>3 DEF Execute, Mod, s
    <3>2. Reference(i.op, Old(i), v, s, i.op2.v) = Wrap(Value(Old(i)) % Value(s))
      BY <2>3 DEF Reference
    <3> QED BY <1>5, <2>1, <3>1, <3>2
  <2> QED BY <1>9, <2>2, <2>3
<1> QED BY <1>6, <1>7, <1>8, <1>9

\* So do AND, OR, XOR and NOT.
LEMMA BitwiseRight ==
  ASSUME Contents, NEW i \in Insns, Execute(i), i.op1.t # "imm",
         i.op \in {"AND", "OR", "XOR", "NOT"}
  PROVE  IsRight(i)
<1> DEFINE v == i.op1.v
           d == OperandData(i.op1)
           s == Source(i)
           old == Old(i)
<1>1. Reaches(i.op1, 4) /\ Reaches(i.op2, Bytes(i.op2.v))
  BY Access DEF Execute, Faulty
<1>2. d = old \intersect Low(v) /\ old \subseteq Bits /\ s \subseteq Bits /\ Low(v) \subseteq Bits
  BY <1>1, Parts, InsnForms, OperandForms, WidthBounds
<1>3. RightWidth(i) = v /\ Second(i) = s /\ First(i) = d
  BY DEF RightWidth, Packs, Second, Exchanged, First
<1> HIDE DEF d, s, v, old
<1> SUFFICES PostTrunc(OperandData(i.op1)', v)
             = PostTrunc(Reference(i.op, d, v, s, i.op2.v), v)
  BY <1>3 DEF IsRight, v
<1>4. ASSUME NEW result \in SUBSET Bits, Compute(i, result)
      PROVE  PostTrunc(OperandData(i.op1)', v) = PostTrunc(result, v)
  BY <1>1, <1>4, ComputeRight DEF v
<1>5. CASE i.op = "AND"
  <2>1. Compute(i, old \intersect s)
    BY <1>5 DEF Execute, AndInsn, s, old
  <2>2. Reference(i.op, d, v, s, i.op2.v) = {k \in d : k \in s}
    BY <1>5 DEF Reference
  <2>3. PostTrunc(OperandData(i.op1)', v) = PostTrunc(old \intersect s, v)
    BY <1>2, <1>4, <2>1
  <2> QED BY <1>2, <2>2, <2>3 DEF PostTrunc
<1>6. CASE i.op = "OR"
  <2>1. Compute(i, old \union s)
    BY <1>6 DEF Execute, OrInsn, s, old
  <2>2. Reference(i.op, d, v, s, i.op2.v) = {k \in Low(v) : k \in d \/ k \in s}
    BY <1>6 DEF Reference
  <2>3. PostTrunc(OperandData(i.op1)', v) = PostTrunc(old \union s, v)
    BY <1>2, <1>4, <2>1
  <2> QED BY <1>2, <2>2, <2>3 DEF PostTrunc
<1>7. CASE i.op = "XOR"
  <2>1. Compute(i, (old \union s) \ (old \intersect s))
    BY <1>7 DEF Execute, XorInsn, s, old
  <2>2. Reference(i.op, d, v, s, i.op2.v) = {k \in Low(v) : (k \in d) # (k \in s)}
    BY <1>7 DEF Reference
  <2>3. PostTrunc(OperandData(i.op1)', v) = PostTrunc((old \union s) \ (old \intersect s), v)
    BY <1>2, <1>4, <2>1
  <2> QED BY <1>2, <2>2, <2>3 DEF PostTrunc
<1>8. CASE i.op = "NOT"
  <2>1. Compute(i, Bits \ s)
    BY <1>8 DEF Execute, Not, s
  <2>2. Reference(i.op, d, v, s, i.op2.v) = Low(v) \ s
    BY <1>8 DEF Reference
  <2>3. PostTrunc(OperandData(i.op1)', v) = PostTrunc(Bits \ s, v)
    BY <1>2, <1>4, <2>1
  <2> QED BY <1>2, <2>2, <2>3 DEF PostTrunc
<1> QED BY <1>5, <1>6, <1>7, <1>8

\* So do SHL and SHR, for the counts the processor does not cut.
LEMMA ShiftsRight ==
  ASSUME Contents, NEW i \in Insns, Execute(i), i.op1.t # "imm",
         i.op \in {"SHL", "SHR"}, Value(Second(i)) < WordBits
  PROVE  IsRight(i)
<1> DEFINE v == i.op1.v
           n == Value(Second(i))
           d == Shifted(i)
<1>1. Reaches(i.op1, 4) /\ Reaches(i.op2, Bytes(i.op2.v))
  BY Access DEF Execute, Faulty
<1>2. /\ OperandData(i.op1) = PostTrunc(Old(i), v) /\ (i.op1.t = "mem" => OperandData(i.op1) = Old(i))
      /\ i.op1.t \in {"reg", "mem"} /\ Old(i) \subseteq Bits /\ Source(i) \subseteq Bits
      /\ v \in Widths
  BY <1>1, Parts, InsnForms, OperandForms DEF PostTrunc
<1>3. n \in 0 .. WordBits - 1
  BY ValueNat, Sizes
<1>4. Distance(i) = n /\ RightWidth(i) = v /\ d \in SUBSET Bits
  BY <1>2 DEF Distance, Shifted, Second, Exchanged, RightWidth, Packs
<1>5. ASSUME NEW result \in SUBSET Bits, Compute(i, result)
      PROVE  PostTrunc(OperandData(i.op1)', v) = PostTrunc(result, v)
  BY <1>1, <1>5, ComputeRight
<1> HIDE DEF n, d, v
<1> SUFFICES PostTrunc(OperandData(i.op1)', v)
             = PostTrunc(Reference(i.op, First(i), v, Second(i), i.op2.v), v)
  BY <1>4 DEF IsRight, v
<1>6. CASE i.op = "SHL"
  <2>1. Compute(i, ShiftL(d, n))
    BY <1>4, <1>6 DEF Execute, Shl, d
  <2>2. First(i) = d \/ First(i) = PostTrunc(d, v)
    BY <1>2, <1>6 DEF First, Exchanged, Shifted, Packs, d
  <2>3. Reference(i.op, First(i), v, Second(i), i.op2.v) = Up(First(i), n)
    BY <1>6 DEF Reference, n, Up
  <2>4. PostTrunc(OperandData(i.op1)', v) = PostTrunc(ShiftL(d, n), v)
    BY <1>5, <2>1, ShiftBits
  <2> QED BY <1>2, <1>3, <1>4, <2>2, <2>3, <2>4, ShiftedLow
<1>7. CASE i.op = "SHR"
  <2>1. Compute(i, ShiftR(d, n))
    BY <1>4, <1>7 DEF Execute, Shr, d
  <2>2. First(i) = d
    BY <1>2, <1>7 DEF First, Exchanged, Shifted, Packs, d
  <2>3. Reference(i.op, First(i), v, Second(i), i.op2.v) = Down(First(i), n)
    BY <1>7 DEF Reference, n, Down
  <2>4. PostTrunc(OperandData(i.op1)', v) = PostTrunc(ShiftR(d, n), v)
    BY <1>5, <2>1, ShiftBits
  <2> QED BY <1>2, <1>3, <1>4, <2>2, <2>3, <2>4, ShiftedLow
<1> QED BY <1>6, <1>7

\* The handlers that store what they compute as it comes.
LEMMA SpecialRight ==
  ASSUME Contents, NEW i \in Insns, Execute(i), i.op1.t # "imm",
         i.op \in {"MOV", "SWAP", "REV", "ROL", "ROR"}
  PROVE  IsRight(i)
<1> DEFINE v == i.op1.v
           x == i.op2.v
           d == OperandData(i.op1)
           s == Source(i)
           n == Value(s)
<1>1. Reaches(i.op1, 4) /\ Reaches(i.op2, Bytes(i.op2.v))
  BY Access DEF Execute, Faulty
<1>2. /\ s \subseteq Low(x) /\ s \subseteq Bits /\ d \subseteq Low(v) /\ v \in Widths /\ x \in Widths
      /\ n \in Nat /\ v <= v
  BY <1>1, Parts, InsnForms, OperandForms, ValueNat, Sizes
<1>3. RightWidth(i) = v /\ Second(i) = s /\ First(i) = d
  BY DEF RightWidth, Packs, Second, Exchanged, First
<1>4. ASSUME NEW data \in SUBSET Bits, Store(i, v, v, data)
      PROVE  PostTrunc(OperandData(i.op1)', v) = PostTrunc(data, v)
  BY <1>1, <1>2, <1>4, StoreRight
<1> HIDE DEF d, s, v, x, n
<1> SUFFICES PostTrunc(OperandData(i.op1)', v) = PostTrunc(Reference(i.op, d, v, s, x), v)
  BY <1>3 DEF IsRight, v, x
<1>5. CASE i.op = "MOV"
  <2>1. Store(i, v, v, s)
    BY <1>5 DEF Execute, Mov, s, v
  <2>2. Reference(i.op, d, v, s, x) = s
    BY <1>5 DEF Reference
  <2> QED BY <1>2, <1>4, <2>1, <2>2
<1>6. CASE i.op = "SWAP"
  <2> DEFINE data == ShiftR(s \intersect HighMask(x), Half(x)) \union ShiftL(s \intersect LowMask(x), Half(x))
  <2>1. Store(i, v, v, data)
    BY <1>6 DEF Execute, Swap, s, v, x
  <2>2. Reference(i.op, d, v, s, x) = {(k + Half(x)) % Width(x) : k \in s}
    BY <1>6 DEF Reference
  <2>3. data \in SUBSET Bits
    BY ShiftBits
  <2>4. data = {(k + Half(x)) % Width(x) : k \in s}
    BY <1>2, Swapped
  <2> HIDE DEF data
  <2> QED BY <1>4, <2>1, <2>2, <2>3, <2>4
<1>7. CASE i.op = "REV"
  <2> DEFINE data == Reversed(s, Width(x))
  <2>1. Store(i, v, v, data)
    BY <1>7 DEF Execute, Rev, s, v, x
  <2>2. Reference(i.op, d, v, s, x) = {Width(x) - 1 - k : k \in s}
    BY <1>7 DEF Reference
  <2>3. data = {Width(x) - 1 - k : k \in s \intersect 0 .. Width(x) - 1}
    BY <1>2, WidthBounds, ReversedIs DEF Mirror
  <2>4. s \intersect 0 .. Width(x) - 1 = s
    BY <1>2, WidthBounds
  <2>5. data \in SUBSET Bits
    <3>1. /\ Width(x) \in Nat \ {0} /\ Width(x) <= WordBits /\ WordBits \in Nat /\ Bits = 0 .. WordBits - 1
      BY <1>2, WidthBounds
    <3> HIDE DEF data
    <3> QED BY <3>1, <2>3
  <2>6. data = {Width(x) - 1 - k : k \in s}
    BY <2>3, <2>4
  <2> HIDE DEF data
  <2> QED BY <1>4, <2>1, <2>2, <2>5, <2>6
<1>8. CASE i.op = "ROL"
  <2> DEFINE w == Width(v)
             data == ShiftL(d, n % w) \union ShiftR(d, w - (n % w))
  <2>1. Store(i, v, v, data)
    BY <1>8 DEF Execute, Rol, s, v, d, n
  <2>2. Reference(i.op, d, v, s, x) = {(k + n) % w : k \in d}
    BY <1>8 DEF Reference, n
  <2>3. data \in SUBSET Bits
    BY ShiftBits
  <2>4. data \intersect Low(v) = {(k + n) % w : k \in d}
    BY <1>2, Rotations
  <2> HIDE DEF data, w
  <2>5. PostTrunc(OperandData(i.op1)', v) = data \intersect Low(v)
    BY <1>4, <2>1, <2>3 DEF PostTrunc
  <2> QED BY <2>2, <2>4, <2>5 DEF PostTrunc
<1>9. CASE i.op = "ROR"
  <2> DEFINE w == Width(v)
             data == ShiftR(d, n % w) \union ShiftL(d, w - (n % w))
  <2>1. Store(i, v, v, data)
    BY <1>9 DEF Execute, Ror, s, v, d, n
  <2>2. Reference(i.op, d, v, s, x) = {(k - n) % w : k \in d}
    BY <1>9 DEF Reference, n
  <2>3. data \in SUBSET Bits
    BY ShiftBits
  <2>4. data \intersect Low(v) = {(k - n) % w : k \in d}
    BY <1>2, Rotations
  <2> HIDE DEF data, w
  <2>5. PostTrunc(OperandData(i.op1)', v) = data \intersect Low(v)
    BY <1>4, <2>1, <2>3 DEF PostTrunc
  <2> QED BY <2>2, <2>4, <2>5 DEF PostTrunc
<1> QED BY <1>5, <1>6, <1>7, <1>8, <1>9

\* The handlers that read their destination at the width of the source.
LEMMA PackRight ==
  ASSUME Contents, NEW i \in Insns, Execute(i), i.op1.t # "imm", i.op \in {"PACKHI", "PACKLO"}
  PROVE  IsRight(i)
<1> DEFINE v == i.op1.v
           x == i.op2.v
           d == Destination(i)
           s == Source(i)
           u == RightWidth(i)
<1>1. Reaches(i.op1, 4) /\ Reaches(i.op2, Bytes(i.op2.v))
  BY Access DEF Execute, Faulty
<1>2. /\ s \subseteq Low(x) /\ v \in Widths /\ x \in Widths /\ i.op1 \in Operands
  BY <1>1, Parts, InsnForms, OperandForms
<1>3. d \subseteq Low(x) /\ d \subseteq Bits
  <2>1. Reaches(i.op1, Bytes(x))
    <3>1. Bytes(x) <= 4 /\ Bytes(x) \in Nat
      BY <1>2, WidthCases
    <3>2. Offset(i.op1) \in Nat
      BY OffsetNat
    <3>3. Offset(i.op1) .. Offset(i.op1) + Bytes(x) - 1 \subseteq Offset(i.op1) .. Offset(i.op1) + 4 - 1
      BY <3>1, <3>2
    <3> QED BY <1>1, <3>3 DEF Reaches
  <2> QED BY <1>2, <2>1, DataLow DEF Destination
<1>4. u \in Widths /\ u <= v /\ u <= x
  BY <1>2, Sizes DEF RightWidth, Packs
<1>5. Second(i) = s /\ First(i) = d
  BY DEF Packs, Second, Exchanged, First
<1>6. ASSUME NEW data \in SUBSET Bits, Store(i, v, x, data)
      PROVE  PostTrunc(OperandData(i.op1)', u) = PostTrunc(data, u)
  <2> HIDE DEF u
  <2> QED BY <1>1, <1>2, <1>4, <1>6, StoreRight
<1> HIDE DEF d, s, v, x, u
<1> SUFFICES PostTrunc(OperandData(i.op1)', u) = PostTrunc(Reference(i.op, d, v, s, x), u)
  BY <1>5 DEF IsRight, v, x, u
<1>7. PacksAgree(d, s, x, u)
  BY <1>2, <1>3, <1>4, Packed
<1>8. CASE i.op = "PACKHI"
  <2> DEFINE data == (d \intersect HighMask(x)) \union ShiftR(s \intersect HighMask(x), Half(x))
  <2>1. Store(i, v, x, data)
    BY <1>8 DEF Execute, PackHi, s, v, x, d
  <2>2. Reference(i.op, d, v, s, x) = (d \ LowMask(x)) \union Down(s, Half(x))
    BY <1>8 DEF Reference, Down
  <2>3. data \in SUBSET Bits
    BY <1>3, ShiftBits
  <2>4. PostTrunc(data, u) = PostTrunc((d \ LowMask(x)) \union Down(s, Half(x)), u)
    BY <1>7 DEF PacksAgree
  <2> HIDE DEF data
  <2> QED BY <1>6, <2>1, <2>2, <2>3, <2>4
<1>9. CASE i.op = "PACKLO"
  <2> DEFINE data == (d \intersect LowMask(x)) \union ShiftL(s \intersect LowMask(x), Half(x))
  <2>1. Store(i, v, x, data)
    BY <1>9 DEF Execute, PackLo, s, v, x, d
  <2>2. Reference(i.op, d, v, s, x) = (d \intersect LowMask(x)) \union Up(s, Half(x))
    BY <1>9 DEF Reference, Up
  <2>3. data \in SUBSET Bits
    BY <1>3, ShiftBits
  <2>4. PostTrunc(data, u) = PostTrunc((d \intersect LowMask(x)) \union Up(s, Half(x)), u)
    BY <1>7 DEF PacksAgree
  <2> HIDE DEF data
  <2> QED BY <1>6, <2>1, <2>2, <2>3, <2>4
<1> QED BY <1>8, <1>9

\* ResultIsRight for one step.
LEMMA StepIsRight ==
  ASSUME TypeOK, [Next]_vars, NEW i \in Insns, Completes(i), Sound(i)
  PROVE  IsRight(i)
<1>1. Execute(i) /\ Contents
  BY Completed
<1>2. CASE i.op1.t = "imm"
  BY <1>2 DEF IsRight
<1>3. CASE i.op1.t # "imm"
  <2>1. i.op \in Trimming \union Special \union {"MOV"}
    BY InsnForms DEF Ops, Sound
  <2>2. CASE i.op \in {"ADD", "SUB", "MUL", "DIV", "MOD"}
    BY <1>1, <1>3, <2>2, ArithmeticRight
  <2>3. CASE i.op \in {"AND", "OR", "XOR", "NOT"}
    BY <1>1, <1>3, <2>3, BitwiseRight
  <2>4. CASE i.op \in {"SHL", "SHR"}
    BY <1>1, <1>3, <2>4, ShiftsRight DEF Sound
  <2>5. CASE i.op \in {"MOV", "SWAP", "REV", "ROL", "ROR"}
    BY <1>1, <1>3, <2>5, SpecialRight
  <2>6. CASE i.op \in {"PACKHI", "PACKLO"}
    BY <1>1, <1>3, <2>6, PackRight
  <2> QED BY <2>1, <2>2, <2>3, <2>4, <2>5, <2>6 DEF Trimming, Special
<1> QED BY <1>2, <1>3

\* For every byte size, program and contents, the handlers that compute leave in
\* the low bits of their destination what the reference says of their operands.
THEOREM ResultCorrect == Spec => ResultIsRight
<1>1. TypeOK /\ [Next]_vars
      => [\A i \in Insns : Completes(i) /\ Sound(i) => IsRight(i)]_vars
  BY StepIsRight
<1> QED BY <1>1, TypeCorrect, PTL DEF Spec, ResultIsRight
=============================================================================
