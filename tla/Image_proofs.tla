------------------------------ MODULE Image_proofs -----------------------------
(***************************************************************************)
(* The assembler's layout, load_vcode and the machine that follows the     *)
(* fallthroughs: whatever the shuffle, the lengths, the random key and the *)
(* size of the executable, the virtual program is found, loaded and run in *)
(* the order of its source.                                                *)
(***************************************************************************)
EXTENDS Image, FiniteSetTheorems, WellFoundedInduction, NaturalsInduction, TLAPS

-----------------------------------------------------------------------------
(* Induction over the natural numbers, from the least element that a         *)
(* nonempty set of them has.                                                 *)

Below == {ss \in Nat \X Nat : ss[1] < ss[2]}

LEMMA Induction ==
  ASSUME NEW S, 0 \in S, \A n \in Nat : n \in S => n + 1 \in S
  PROVE  Nat \subseteq S
<1>1. IsWellFoundedOn(Below, Nat)
  BY NatLessThanWellFounded DEF OpToRel, Below
<1> SUFFICES ASSUME Nat \ S # {} PROVE FALSE
  OBVIOUS
<1>2. PICK n \in Nat \ S : \A m \in Nat \ S : <<m, n>> \notin Below
  BY <1>1, WFMin
<1>3. n # 0 /\ n - 1 \in Nat /\ <<n - 1, n>> \in Below
  BY DEF Below
<1>4. n - 1 \in S /\ (n - 1) + 1 = n
  BY <1>2, <1>3
<1> QED BY <1>3, <1>4

-----------------------------------------------------------------------------
(* The sums of the first lengths of a list.                                   *)

\* There is a function that keeps to the recursion of Sums.
LEMMA SumsExist ==
  ASSUME NEW s \in [Place -> Nat], NEW n \in 0 .. Insns
  PROVE  \E f \in [0 .. n -> Nat] :
           \A k \in 0 .. n : f[k] = IF k = 0 THEN 0 ELSE f[k - 1] + s[k]
<1> DEFINE Adds(f, m) == \A k \in 0 .. m : f[k] = IF k = 0 THEN 0 ELSE f[k - 1] + s[k]
           Some(m) == \E f \in [0 .. m -> Nat] : Adds(f, m)
           Good == {m \in Nat : m <= Insns => Some(m)}
<1>1. Some(0)
  <2>1. [k \in 0 .. 0 |-> 0] \in [0 .. 0 -> Nat]
    OBVIOUS
  <2>2. Adds([k \in 0 .. 0 |-> 0], 0)
    OBVIOUS
  <2> QED BY <2>1, <2>2
<1>2. ASSUME NEW m \in Nat, m + 1 <= Insns, Some(m) PROVE Some(m + 1)
  <2>1. PICK f \in [0 .. m -> Nat] : Adds(f, m)
    BY <1>2
  <2> DEFINE g == [k \in 0 .. m + 1 |-> IF k = m + 1 THEN f[m] + s[m + 1] ELSE f[k]]
  <2>2. m + 1 \in Place /\ f[m] \in Nat
    BY <1>2, LayoutAssumption DEF Place
  <2>3. g \in [0 .. m + 1 -> Nat]
    BY <2>2
  <2>4. ASSUME NEW k \in 0 .. m + 1 PROVE g[k] = IF k = 0 THEN 0 ELSE g[k - 1] + s[k]
    <3>1. CASE k = m + 1
      BY <3>1
    <3>2. CASE k # m + 1
      <4>1. k \in 0 .. m /\ (k # 0 => k - 1 \in 0 .. m /\ k - 1 # m + 1)
        BY <3>2
      <4> QED BY <2>1, <3>2, <4>1
    <3> QED BY <3>1, <3>2
  <2>5. Adds(g, m + 1)
    BY <2>4
  <2> HIDE DEF g, Adds
  <2> QED BY <2>3, <2>5
<1> HIDE DEF Some
<1>3. 0 \in Good /\ \A m \in Nat : m \in Good => m + 1 \in Good
  BY <1>1, <1>2, LayoutAssumption
<1> HIDE DEF Good
<1>4. Nat \subseteq Good
  BY <1>3, Induction
<1>5. Some(n)
  BY <1>4, LayoutAssumption DEF Good
<1> QED BY <1>5 DEF Some

\* ... so that Sums is one, and its values are numbers.
LEMMA SumsDefined ==
  ASSUME NEW s \in [Place -> Nat]
  PROVE  /\ Sums(s) \in [0 .. Insns -> Nat]
         /\ Sums(s)[0] = 0
         /\ \A n \in Place : Sums(s)[n] = Sums(s)[n - 1] + s[n]
<1>1. PICK f \in [0 .. Insns -> Nat] :
        \A k \in 0 .. Insns : f[k] = IF k = 0 THEN 0 ELSE f[k - 1] + s[k]
  <2>1. Insns \in 0 .. Insns
    BY LayoutAssumption
  <2> QED BY <2>1, SumsExist
<1>2. f = [n \in 0 .. Insns |-> IF n = 0 THEN 0 ELSE f[n - 1] + s[n]]
  BY <1>1
<1>3. Sums(s) = [n \in 0 .. Insns |-> IF n = 0 THEN 0 ELSE Sums(s)[n - 1] + s[n]]
  <2> DEFINE IsSum(g) == g = [n \in 0 .. Insns |-> IF n = 0 THEN 0 ELSE g[n - 1] + s[n]]
  <2>1. Sums(s) = CHOOSE g : IsSum(g)
    BY DEF Sums
  <2>2. IsSum(f)
    BY <1>2
  <2> QED BY <2>1, <2>2
<1> DEFINE b == Sums(s)
<1> HIDE DEF b
<1>4. b = [n \in 0 .. Insns |-> IF n = 0 THEN 0 ELSE b[n - 1] + s[n]]
  BY <1>3 DEF b
<1>5. b[0] = 0 /\ \A n \in Place : b[n] = b[n - 1] + s[n]
  BY <1>4, LayoutAssumption DEF Place
<1> DEFINE Typed == {n \in Nat : n <= Insns => b[n] \in Nat}
<1>6. Nat \subseteq Typed
  <2>1. 0 \in Typed
    BY <1>5
  <2>2. \A n \in Nat : n \in Typed => n + 1 \in Typed
    BY <1>5, LayoutAssumption DEF Place
  <2> HIDE DEF Typed
  <2> QED BY <2>1, <2>2, Induction
<1>7. \A n \in 0 .. Insns : b[n] \in Nat
  BY <1>6, LayoutAssumption
<1>8. b \in [0 .. Insns -> Nat]
  BY <1>4, <1>7
<1> QED BY <1>5, <1>8 DEF b

\* A longer part of the list is no shorter.
LEMMA SumsGrow ==
  ASSUME NEW s \in [Place -> Nat], NEW a \in 0 .. Insns, NEW b \in 0 .. Insns, a <= b
  PROVE  Sums(s)[a] <= Sums(s)[b]
<1> DEFINE Good == {m \in Nat : a + m <= Insns => Sums(s)[a] <= Sums(s)[a + m]}
<1>1. 0 \in Good
  <2>1. Sums(s)[a] \in Nat
    BY SumsDefined, LayoutAssumption
  <2> QED BY <2>1
<1>2. ASSUME NEW m \in Nat, m \in Good PROVE m + 1 \in Good
  <2> SUFFICES ASSUME a + m + 1 <= Insns PROVE Sums(s)[a] <= Sums(s)[a + m + 1]
    OBVIOUS
  <2>1. a + m + 1 \in Place /\ (a + m + 1) - 1 = a + m /\ a + m \in 0 .. Insns
    BY LayoutAssumption DEF Place
  <2>2. Sums(s)[a + m + 1] = Sums(s)[a + m] + s[a + m + 1]
    BY <2>1, SumsDefined
  <2>3. Sums(s)[a + m] \in Nat /\ s[a + m + 1] \in Nat /\ Sums(s)[a] \in Nat
    BY <2>1, SumsDefined
  <2>4. Sums(s)[a] <= Sums(s)[a + m]
    BY <1>2, <2>1, LayoutAssumption
  <2> QED BY <2>2, <2>3, <2>4
<1> HIDE DEF Good
<1>3. b - a \in Good
  BY <1>1, <1>2, Induction
<1> QED BY <1>3, LayoutAssumption DEF Good

-----------------------------------------------------------------------------
(* Layout                                                                     *)

\* The instructions of the code are those of the source, the first one first.
OrderRight(o) ==
  /\ o \in [Place -> Place] /\ o[1] = 1
  /\ \A p, q \in Place : o[p] = o[q] => p = q
  /\ \A old \in Place : \E new \in Place : o[new] = old

LEMMA ShuffleKeeps ==
  ASSUME NEW o \in {<< 1 >> \o s : s \in SetToSeqs(Place \ {1})}
  PROVE  OrderRight(o)
<1> DEFINE D == 1 .. Insns - 1
<1> USE DEF Place
<1>1. PICK s \in SetToSeqs(Place \ {1}) : o = <<1>> \o s
  OBVIOUS
<1>2. IsFiniteSet(Place) /\ Cardinality(Place) = Insns /\ 1 \in Place
  BY LayoutAssumption, FS_Interval
<1>3. IsFiniteSet(Place \ {1}) /\ Cardinality(Place \ {1}) = Insns - 1
  BY <1>2, FS_RemoveElement
<1>4. IsFiniteSet(D) /\ Cardinality(D) = Insns - 1
  BY LayoutAssumption, FS_Interval
<1>5. s \in [D -> Place \ {1}] /\ \A i, j \in D : i # j => s[i] # s[j]
  BY <1>3 DEF SetToSeqs
<1>6. s \in Injection(D, Place \ {1})
  BY <1>5 DEF Injection, IsInjective
<1>7. \A old \in Place \ {1} : \E i \in D : s[i] = old
  <2>1. s \in Surjection(D, Place \ {1})
    BY <1>3, <1>4, <1>6, FS_Injection
  <2> QED BY <2>1 DEF Surjection
<1>8. s \in Seq(Place \ {1}) /\ Len(s) = Insns - 1
  BY <1>5, LayoutAssumption
<1>9. o \in [Place -> Place] /\ o[1] = 1 /\ \A p \in Place \ {1} : p - 1 \in D /\ o[p] = s[p - 1]
  <2>1. Len(o) = Insns /\ o \in Seq(Place)
    BY <1>1, <1>2, <1>8, LayoutAssumption
  <2>2. o[1] = 1
    BY <1>1, <1>8, LayoutAssumption
  <2>3. ASSUME NEW p \in Place \ {1} PROVE p - 1 \in D /\ o[p] = s[p - 1]
    BY <1>1, <1>8, LayoutAssumption
  <2>4. o \in [Place -> Place]
    BY <2>1
  <2> QED BY <2>2, <2>3, <2>4
<1>10. \A p, q \in Place : o[p] = o[q] => p = q
  <2> SUFFICES ASSUME NEW p \in Place, NEW q \in Place, o[p] = o[q] PROVE p = q
    OBVIOUS
  <2>1. CASE p = 1 \/ q = 1
    BY <2>1, <1>5, <1>9
  <2>2. CASE p # 1 /\ q # 1
    BY <2>2, <1>5, <1>9
  <2> QED BY <2>1, <2>2
<1>11. ASSUME NEW old \in Place PROVE \E new \in Place : o[new] = old
  <2>1. CASE old = 1
    BY <2>1, <1>9, <1>2
  <2>2. CASE old # 1
    <3>1. PICK i \in D : s[i] = old
      BY <2>2, <1>7
    <3>2. i + 1 \in Place \ {1} /\ (i + 1) - 1 = i
      BY LayoutAssumption
    <3> QED BY <3>1, <3>2, <1>9
  <2> QED BY <2>1, <2>2
<1> QED BY <1>9, <1>10, <1>11 DEF OrderRight

Words == [address : Nat, keyed : BOOLEAN]

\* The lengths of the instructions in the order of the code.
Lens == [p \in Place |-> size[order[p]]]

\* Where the source goes on after an instruction: encrypted.
GoesOn(old) == Xored(Plain(Offset(Position(old + 1))))

LayoutTypeOK ==
  /\ size \in [Place -> Sizes] /\ OrderRight(order)
  /\ fall \in [Place -> Words] /\ carry \in Words
  /\ corrected \in 0 .. Insns
  /\ phase \in {"shuffle", "correct", "resolve", "laid"}

PhaseRight ==
  /\ phase = "shuffle" => corrected = 0
  /\ phase = "correct" => corrected < Insns
  /\ phase \in {"resolve", "laid"} => corrected = Insns

\* What the misspelt assignment leaves for the last instruction of the source is
\* either not encrypted or no address of an instruction.
CarryRight ==
  IF corrected = 0 THEN Insns = 1 => carry = Plain(Sums(size)[Insns])
  ELSE order[corrected] # Insns => carry.keyed

FallsRight ==
  \A p \in 1 .. corrected :
    IF order[p] # Insns THEN fall[order[p]] = GoesOn(order[p])
    ELSE fall[Insns].keyed => fall[Insns].address = Sums(Lens)[Insns]

LayoutInv == LayoutTypeOK /\ PhaseRight /\ CarryRight /\ FallsRight

LEMMA PositionRight ==
  ASSUME OrderRight(order), NEW old \in Place
  PROVE  Position(old) \in Place /\ order[Position(old)] = old
BY DEF OrderRight, Position

LEMMA LensNat ==
  ASSUME NEW s \in [Place -> Sizes], NEW o \in [Place -> Place]
  PROVE  /\ s \in [Place -> Nat]
         /\ [p \in Place |-> s[o[p]]] \in [Place -> Nat]
BY LayoutAssumption

LEMMA WordsClosed ==
  /\ \A a \in Nat : /\ Plain(a) \in Words /\ ~ Plain(a).keyed /\ Plain(a).address = a
                    /\ Xored(Plain(a)) = [address |-> a, keyed |-> TRUE]
  /\ \A w \in Words : /\ Xored(w) \in Words /\ Xored(w).address = w.address
                      /\ Xored(w).keyed = ~w.keyed
<1>1. ASSUME NEW w \in Words
      PROVE  Xored(w) = [address |-> w.address, keyed |-> ~w.keyed]
  <2>1. w = [address |-> w.address, keyed |-> w.keyed]
    BY DEF Words
  <2> QED BY <2>1 DEF Xored
<1>2. \A a \in Nat : Plain(a) \in Words
  BY DEF Plain, Words
<1>3. ASSUME NEW a \in Nat PROVE Xored(Plain(a)) = [address |-> a, keyed |-> TRUE]
  BY <1>1, <1>2 DEF Plain
<1>4. ASSUME NEW w \in Words PROVE Xored(w) \in Words
  <2>1. w.address \in Nat
    BY DEF Words
  <2>2. \A b \in BOOLEAN : [address |-> w.address, keyed |-> b] \in Words
    BY <2>1 DEF Words
  <2>3. (~w.keyed) \in BOOLEAN
    OBVIOUS
  <2>4. [address |-> w.address, keyed |-> ~w.keyed] \in Words
    BY <2>2, <2>3, Zenon
  <2> QED BY <1>1, <2>4
<1> QED BY <1>1, <1>2, <1>3, <1>4 DEF Plain

LEMMA OffsetNat ==
  ASSUME size \in [Place -> Sizes], OrderRight(order), NEW p \in 1 .. Insns + 1
  PROVE  Offset(p) \in Nat
<1>1. Lens \in [Place -> Nat]
  BY LensNat DEF OrderRight, Lens
<1>2. p - 1 \in 0 .. Insns
  BY LayoutAssumption
<1>3. Sums(Lens) \in [0 .. Insns -> Nat]
  BY <1>1, SumsDefined
<1> QED BY <1>2, <1>3 DEF Offset, Lens

LEMMA LayoutInit == Init => LayoutInv
<1> SUFFICES ASSUME Init PROVE LayoutInv
  OBVIOUS
<1>1. OrderRight(order)
  BY LayoutAssumption DEF Init, OrderRight, Place
<1>2. size \in [Place -> Nat] /\ Insns \in 0 .. Insns
  BY LensNat, LayoutAssumption DEF Init
<1>3. Sums(size)[Insns] \in Nat
  BY <1>2, SumsDefined
<1>4. fall \in [Place -> Words] /\ carry \in Words
  BY <1>3, WordsClosed DEF Init
<1> QED BY <1>1, <1>4, LayoutAssumption DEF Init, LayoutInv, LayoutTypeOK, PhaseRight, CarryRight, FallsRight

LEMMA ShuffleInv == LayoutInv /\ Shuffle => LayoutInv'
<1> SUFFICES ASSUME LayoutInv, Shuffle PROVE LayoutInv'
  OBVIOUS
<1>1. OrderRight(order')
  BY ShuffleKeeps DEF Shuffle
<1>2. corrected = 0 /\ corrected' = 0
  BY DEF Shuffle, LayoutInv, PhaseRight
<1>3. LayoutTypeOK'
  BY <1>1 DEF Shuffle, LayoutInv, LayoutTypeOK
<1>4. PhaseRight'
  BY <1>2, LayoutAssumption DEF Shuffle, PhaseRight
<1>5. CarryRight'
  BY <1>2 DEF Shuffle, LayoutInv, CarryRight
<1>6. FallsRight'
  BY <1>2 DEF FallsRight
<1> QED BY <1>3, <1>4, <1>5, <1>6 DEF LayoutInv

LEMMA CorrectInv == LayoutInv /\ Correct => LayoutInv'
<1> SUFFICES ASSUME LayoutInv, Correct PROVE LayoutInv'
  OBVIOUS
<1> DEFINE new == corrected + 1
           old == order[new]
           word == IF old < Insns THEN Plain(Offset(Position(old + 1))) ELSE carry
<1>1. /\ phase = "correct" /\ carry' = Xored(word) /\ fall' = [fall EXCEPT ![old] = Xored(word)]
      /\ corrected' = new /\ phase' = IF new = Insns THEN "resolve" ELSE "correct"
      /\ size' = size /\ order' = order
  BY DEF Correct
<1>2. /\ new \in Place /\ corrected \in Nat /\ old \in Place
      /\ OrderRight(order) /\ size \in [Place -> Sizes]
      /\ carry \in Words /\ fall \in [Place -> Words]
  <2>1. OrderRight(order) /\ size \in [Place -> Sizes] /\ carry \in Words /\ fall \in [Place -> Words]
    BY DEF LayoutInv, LayoutTypeOK
  <2>2. corrected \in 0 .. Insns /\ corrected < Insns
    BY <1>1 DEF LayoutInv, LayoutTypeOK, PhaseRight
  <2>3. new \in Place /\ corrected \in Nat
    BY <2>2, LayoutAssumption DEF Place
  <2>4. old \in Place
    BY <2>1, <2>3 DEF OrderRight
  <2> HIDE DEF new, old
  <2> QED BY <2>1, <2>3, <2>4
<1>3. old < Insns => Offset(Position(old + 1)) \in Nat
  <2> SUFFICES ASSUME old < Insns PROVE Offset(Position(old + 1)) \in Nat
    OBVIOUS
  <2>1. old + 1 \in Place
    BY <1>2, LayoutAssumption DEF Place
  <2>2. Position(old + 1) \in 1 .. Insns + 1
    <3>1. Position(old + 1) \in Place
      BY <1>2, <2>1, PositionRight
    <3> QED BY <3>1, LayoutAssumption DEF Place
  <2> QED BY <1>2, <2>2, OffsetNat
<1>4. word \in Words
  BY <1>2, <1>3, WordsClosed
<1> HIDE DEF word
<1>5. LayoutTypeOK'
  <2>1. Xored(word) \in Words
    BY <1>4, WordsClosed
  <2>2. (corrected \in 0 .. Insns)'
    BY <1>1, <1>2, LayoutAssumption DEF Place
  <2> HIDE DEF new, old
  <2> QED BY <1>1, <1>2, <2>1, <2>2 DEF LayoutTypeOK
<1>6. PhaseRight'
  BY <1>1, <1>2, LayoutAssumption DEF PhaseRight, Place
<1>7. CarryRight'
  <2>1. corrected' # 0 /\ order'[corrected'] = old
    BY <1>1, <1>2, LayoutAssumption DEF Place
  <2>2. old # Insns => Xored(word).keyed
    BY <1>2, <1>3, LayoutAssumption, WordsClosed DEF word, Place
  <2> QED BY <1>1, <2>1, <2>2 DEF CarryRight
<1>8. ASSUME NEW p \in 1 .. corrected'
      PROVE  IF order[p] # Insns THEN fall'[order[p]] = GoesOn(order[p])
             ELSE fall'[Insns].keyed => fall'[Insns].address = Sums(Lens)[Insns]
  <2>1. p \in Place /\ order[p] \in Place
    <3>1. p \in Place
      <4>1. p \in 1 .. corrected + 1
        BY <1>1
      <4> QED BY <4>1, <1>2, LayoutAssumption DEF Place
    <3> QED BY <3>1, <1>2 DEF OrderRight
  <2>2. CASE p # new
    <3>1. p \in 1 .. corrected
      <4>1. p \in 1 .. corrected + 1
        BY <1>1
      <4> QED BY <4>1, <1>2, <2>2
    <3>2. order[p] # old
      BY <1>2, <2>1, <2>2 DEF OrderRight
    <3>3. fall'[order[p]] = fall[order[p]]
      BY <1>1, <1>2, <3>2, <2>1
    <3> QED BY <3>1, <3>3 DEF LayoutInv, FallsRight
  <2>3. CASE p = new /\ old # Insns
    <3>1. word = Plain(Offset(Position(old + 1)))
      BY <1>2, <2>3, LayoutAssumption DEF word, Place
    <3> QED BY <1>1, <1>2, <2>3, <3>1 DEF GoesOn
  <2>4. CASE p = new /\ old = Insns
    <3>1. word = carry /\ fall'[Insns] = Xored(carry)
      BY <1>1, <1>2, <2>4, LayoutAssumption DEF word, Place
    <3>2. CASE corrected = 0
      <4>1. Insns = 1
        BY <2>4, <3>2, <1>2 DEF OrderRight
      <4>2. carry = Plain(Sums(size)[Insns])
        BY <3>2, <4>1 DEF LayoutInv, CarryRight
      <4>3. Lens = size
        BY <1>2, <4>1 DEF Lens, OrderRight, Place
      <4>4. Sums(size)[Insns] \in Nat
        <5>1. size \in [Place -> Nat]
          BY <1>2, LayoutAssumption
        <5>2. Sums(size) \in [0 .. Insns -> Nat]
          BY <5>1, SumsDefined
        <5> QED BY <5>2, LayoutAssumption
      <4> QED BY <2>4, <3>1, <4>2, <4>3, <4>4, WordsClosed
    <3>3. CASE corrected # 0
      <4>1. corrected \in Place
        BY <1>2, <3>3, LayoutAssumption DEF Place, LayoutInv, LayoutTypeOK
      <4>2. order[corrected] # old
        BY <1>2, <4>1 DEF OrderRight, Place
      <4>3. carry.keyed
        BY <2>4, <3>3, <4>2 DEF LayoutInv, CarryRight
      <4> QED BY <1>2, <2>4, <3>1, <4>3, WordsClosed
    <3> QED BY <3>2, <3>3
  <2> QED BY <2>2, <2>3, <2>4
<1>9. FallsRight'
  BY <1>1, <1>8 DEF FallsRight, GoesOn, Offset, Position, Lens
<1> QED BY <1>5, <1>6, <1>7, <1>9 DEF LayoutInv

LEMMA LayoutNext == LayoutInv /\ [Next]_vars => LayoutInv'
<1> SUFFICES ASSUME LayoutInv, [Next]_vars PROVE LayoutInv'
  OBVIOUS
<1>1. CASE Shuffle
  BY <1>1, ShuffleInv
<1>2. CASE Correct
  BY <1>2, CorrectInv
<1>3. CASE Resolve \/ UNCHANGED vars
  <2>1. /\ size' = size /\ order' = order /\ fall' = fall /\ carry' = carry
        /\ corrected' = corrected /\ (phase' = phase \/ (phase = "resolve" /\ phase' = "laid"))
    BY <1>3 DEF Resolve, vars
  <2>2. LayoutTypeOK' /\ PhaseRight'
    BY <2>1 DEF LayoutInv, LayoutTypeOK, PhaseRight
  <2>3. CarryRight'
    BY <2>1 DEF LayoutInv, CarryRight
  <2>4. FallsRight'
    BY <2>1 DEF LayoutInv, FallsRight, GoesOn, Offset, Position, Lens
  <2> QED BY <2>2, <2>3, <2>4 DEF LayoutInv
<1> QED BY <1>1, <1>2, <1>3 DEF Next, Laid

\* Every instruction leads, once decrypted, to where the shuffle has put the one
\* that follows it in the source (the loop at WeeperVM_compile.py:414).
FallthroughsLead ==
  phase = "laid" =>
    \A old \in Place : old # Insns => fall[old] = GoesOn(old)

THEOREM FallsLead == Spec => []FallthroughsLead
<1>1. ASSUME LayoutInv, phase = "laid", NEW old \in Place, old # Insns
      PROVE  fall[old] = GoesOn(old)
  <2>1. PICK p \in Place : order[p] = old
    BY <1>1 DEF LayoutInv, LayoutTypeOK, OrderRight
  <2>2. p \in 1 .. corrected
    BY <1>1, <2>1 DEF LayoutInv, PhaseRight, Place
  <2> QED BY <1>1, <2>1, <2>2 DEF LayoutInv, FallsRight
<1>2. LayoutInv => FallthroughsLead
  BY <1>1 DEF FallthroughsLead
<1> QED BY <1>2, LayoutInit, LayoutNext, PTL DEF Spec

-----------------------------------------------------------------------------
(* load_vcode                                                                 *)

\* Rotating one way undoes rotating the other way (utils.h).
LEMMA Rotations ==
  ASSUME NEW x, x \subseteq Bits, NEW r \in 1 .. 31
  PROVE  /\ ROL32(ROR32(x, r), r) = x
         /\ ROR32(ROL32(x, r), r) = x
<1> USE DEF Bits, Shl, Shr
<1>1. ASSUME NEW i \in Bits PROVE i \in ROL32(ROR32(x, r), r) <=> i \in x
  <2>1. CASE i >= r
    BY <2>1 DEF ROL32, ROR32
  <2>2. CASE i < r
    BY <2>2 DEF ROL32, ROR32
  <2> QED BY <2>1, <2>2
<1>2. ASSUME NEW i \in Bits PROVE i \in ROR32(ROL32(x, r), r) <=> i \in x
  <2>1. CASE i + r <= 31
    BY <2>1 DEF ROL32, ROR32
  <2>2. CASE i + r > 31
    BY <2>2 DEF ROL32, ROR32
  <2> QED BY <2>1, <2>2
<1>3. ROL32(ROR32(x, r), r) \subseteq Bits /\ ROR32(ROL32(x, r), r) \subseteq Bits
  BY DEF ROL32, ROR32
<1> QED BY <1>1, <1>2, <1>3

LEMMA XorTwice ==
  ASSUME NEW x, NEW y, NEW z
  PROVE  Xor(y, Xor(Xor(Xor(x, y), z), z)) = x
  BY DEF Xor

\* The machine's cipher undoes the assembler's, for every length and key.
THEOREM LengthRecovered ==
  ASSUME NEW elf, NEW code, code \subseteq Bits, NEW key, key \subseteq Bits
  PROVE  Decipher(Appended(elf, code, key).hi, Appended(elf, code, key).lo) = code
<1> DEFINE mixed == Xor(Xor(code, kElf), key)
<1>1. kElf \subseteq Bits
  BY DEF kElf, Word, Bits
<1>2. mixed \subseteq Bits
  BY <1>1 DEF Xor
<1>3. ROL32(ROR32(mixed, 13), 13) = mixed
  BY <1>2, Rotations
<1>4. ROR32(ROL32(key, 27), 27) = key
  BY Rotations
<1>5. Decipher(ROR32(mixed, 13), ROL32(key, 27)) = Xor(kElf, Xor(mixed, key))
  BY <1>3, <1>4 DEF Decipher
<1> QED BY <1>5, XorTwice DEF Appended

-----------------------------------------------------------------------------
FileRight ==
  /\ file.elf \in Nat /\ file.code \in Lengths
  /\ Decipher(file.hi, file.lo) = file.code

\* What load_vcode knows at each of its calls if the length was read.
Inv ==
  /\ FileRight
  /\ "code" \in whole => pc \in {"protect", "close", "loaded", "ended"}
  /\ LengthRead =>
       /\ pc \in {"map", "seek", "read", "protect", "close", "loaded"} => len = file.code
       /\ pc = "read" => pos = file.elf
       /\ pc \in {"protect", "close", "loaded"} =>
            /\ vcode.from = file.elf /\ vcode.got <= Value(file.code)
            /\ "code" \in whole => vcode.got = Value(file.code)

LEMMA InitInv == LoadInit => Inv
<1> SUFFICES ASSUME LoadInit PROVE Inv
  OBVIOUS
<1>1. PICK e \in ElfSizes, c \in Lengths, k \in Keys : file = Appended(e, c, k)
  BY DEF LoadInit
<1>2. Decipher(file.hi, file.lo) = c
  BY <1>1, LengthRecovered, LoaderAssumption
<1>3. file.elf = e /\ file.code = c
  BY <1>1 DEF Appended
<1> QED BY <1>2, <1>3, LoaderAssumption DEF LoadInit, Reset, Inv, FileRight, LengthRead

LEMMA InvNext == Inv /\ [LoadNext]_loadVars => Inv'
<1> SUFFICES ASSUME Inv, [LoadNext]_loadVars PROVE Inv'
  OBVIOUS
<1>1. CASE UNCHANGED loadVars
  BY <1>1 DEF loadVars, loader, Inv, FileRight, LengthRead
<1> SUFFICES ASSUME Load, UNCHANGED file PROVE Inv'
  BY <1>1 DEF LoadNext
<1>f. FileRight'
  BY DEF Inv, FileRight
<1> USE <1>f DEF Inv, LengthRead, Move
<1>2. CASE BuildPath \/ Open \/ Measure \/ Rewind
  BY <1>2 DEF BuildPath, Open, Measure, Rewind
<1>3. CASE ReadTail \/ ReadHeader
  BY <1>3 DEF ReadTail, ReadHeader
<1>4. CASE DecipherLength
  BY <1>4 DEF DecipherLength, FileRight
<1>5. CASE MapCode
  BY <1>5 DEF MapCode
<1>6. CASE SeekCode
  <2>1. Value(file.code) \in Nat
    BY LoaderAssumption DEF FileRight
  <2>2. len = file.code => pos' = file.elf
    BY <1>6, <2>1 DEF SeekCode, Size, FileRight
  <2> QED BY <1>6, <2>2 DEF SeekCode
<1>7. CASE SeekBeyond
  <2>1. Value(file.code) \in Nat
    BY LoaderAssumption DEF FileRight
  <2>2. len = file.code => Fits
    BY <2>1 DEF Fits, Size, FileRight
  <2> QED BY <1>7, <2>2 DEF SeekBeyond
<1>8. CASE ReadCode
  <2>1. PICK n \in 0 .. Available :
          /\ vcode' = [from |-> pos, got |-> n]
          /\ whole' = IF n = Available THEN whole \cup {"code"} ELSE whole
    BY <1>8 DEF ReadCode
  <2>2. pc = "read" /\ pc' = "protect" /\ len' = len
    BY <1>8 DEF ReadCode
  <2>3. Value(file.code) \in Nat
    BY LoaderAssumption DEF FileRight
  <2>4. len = file.code => Available = Value(file.code)
    BY <2>3 DEF Available, Fits, Size, FileRight
  <2> QED BY <2>1, <2>2, <2>4
<1>9. CASE Protect \/ Close \/ CallFails
  BY <1>9 DEF Protect, Close, CallFails
<1> QED
  BY <1>2, <1>3, <1>4, <1>5, <1>6, <1>7, <1>8, <1>9 DEF Load

\* Once the length was read, the virtual code in memory is a beginning of what the
\* assembler appended, and all of it if the read of the code was whole, for every
\* executable, length and key (load_vcode).
THEOREM LoadCorrect == LoadSpec => []LoadedIsAppended
<1>1. Inv => LoadedIsAppended
  BY DEF Inv, LoadedIsAppended, LengthRead
<1> QED
  BY <1>1, InitInv, InvNext, PTL DEF LoadSpec

LEMMA NameDeciphered == TrueName = SelfExe
<1> DEFINE a == LittleEndian(Xor(ROR32(Word(55804, 23541), 9), PathKey))
           b == LittleEndian(Xor(ROR32(Word(3802, 5663), 4), PathKey))
           c == LittleEndian(Xor(ROR32(Word(22772, 14200), 7), PathKey))
           d == LittleEndian(Xor(ROR32(Word(56687, 21171), 13), PathKey))
<1>1. a[1] = 47 /\ a[2] = 112 /\ a[3] = 114 /\ a[4] = 111
  BY DEF LittleEndian, ByteOf, Xor, ROR32, Shr, Shl, Word, PathKey, Bits
<1>2. b[1] = 99 /\ b[2] = 47 /\ b[3] = 115 /\ b[4] = 101
  BY DEF LittleEndian, ByteOf, Xor, ROR32, Shr, Shl, Word, PathKey, Bits
<1>3. c[1] = 108 /\ c[2] = 102 /\ c[3] = 47 /\ c[4] = 101
  BY DEF LittleEndian, ByteOf, Xor, ROR32, Shr, Shl, Word, PathKey, Bits
<1>4. d[1] = 120 /\ d[2] = 101 /\ d[3] = 0 /\ d[4] = 0
  BY DEF LittleEndian, ByteOf, Xor, ROR32, Shr, Shl, Word, PathKey, Bits
<1>5. TrueName = Joined(<<a, b, c, d>>)
  BY DEF TrueName
<1> HIDE DEF a, b, c, d
<1>6. ASSUME NEW k \in 1 .. 16 PROVE <<a, b, c, d>>[((k - 1) \div 4) + 1][((k - 1) % 4) + 1] = SelfExe[k]
  BY <1>1, <1>2, <1>3, <1>4 DEF SelfExe
<1>7. SelfExe = [k \in 1 .. 16 |-> SelfExe[k]]
  BY DEF SelfExe
<1> QED BY <1>5, <1>6, <1>7 DEF Joined

LEMMA DecoyDiffers == DecoyName # SelfExe
<1> DEFINE a == BigEndian(Xor(ROR32(Word(54253, 45601), 15), PathKey))
<1>1. a[1] # 47
  BY DEF BigEndian, ByteOf, Xor, ROR32, Shr, Shl, Word, PathKey, Bits
<1> HIDE DEF a
<1>2. DecoyName[1] = a[1]
  BY DEF DecoyName, Joined, a
<1> QED BY <1>1, <1>2 DEF SelfExe
-----------------------------------------------------------------------------
\* No step of the assembler is left once the file is written, and nothing is
\* loaded or run before.
FileInv ==
  IF file = NoFile THEN pc = "path" /\ whole = {} ELSE phase = "laid" /\ Inv

VisitedInv ==
  /\ visited \in Seq(Place)
  /\ pc # "loaded" => visited = << >>
  /\ LengthRead => Len(visited) <= Insns /\ LoadedRunsInOrder

ImageInv == LayoutInv /\ FileInv /\ VisitedInv

LEMMA ImageInitInv == ImageInit => ImageInv
<1> SUFFICES ASSUME ImageInit PROVE ImageInv
  OBVIOUS
<1>1. FileInv
  BY DEF ImageInit, Reset, FileInv
<1>2. VisitedInv
  BY LayoutAssumption DEF ImageInit, Reset, VisitedInv, LoadedRunsInOrder, LengthRead
<1> QED BY <1>1, <1>2, LayoutInit DEF ImageInit, ImageInv

LEMMA WriteInv == ImageInv /\ Write => ImageInv'
<1> SUFFICES ASSUME ImageInv, Write PROVE ImageInv'
  OBVIOUS
<1> DEFINE total == WordOf(Offset(Insns + 1))
<1>1. PICK elf \in ElfSizes, key \in Keys : file' = Appended(elf, total, key)
  BY DEF Write
<1>2. /\ UNCHANGED vars /\ UNCHANGED loader /\ visited' = visited
      /\ phase = "laid" /\ pc = "path" /\ whole = {}
  BY DEF Write, ImageInv, FileInv
<1>3. total \in Lengths
  <2>1. size \in [Place -> Sizes] /\ order \in [Place -> Place]
    BY DEF ImageInv, LayoutInv, LayoutTypeOK, OrderRight
  <2>2. Lens \in [Place -> Sizes]
    BY <2>1 DEF Lens
  <2>3. WordOf(Sums(Lens)[Insns]) \in Lengths
    BY <2>2, ImageAssumption
  <2>4. Offset(Insns + 1) = Sums(Lens)[Insns]
    BY LayoutAssumption DEF Offset, Lens
  <2> QED BY <2>3, <2>4
<1> HIDE DEF total
<1>4. file'.elf = elf /\ file'.code = total
  BY <1>1 DEF Appended
<1>5. FileRight'
  <2>1. Decipher(file'.hi, file'.lo) = total
    BY <1>1, <1>3, LengthRecovered, LoaderAssumption
  <2> QED BY <1>3, <1>4, <2>1, LoaderAssumption DEF FileRight
<1>6. FileInv'
  BY <1>2, <1>5 DEF FileInv, Inv, LengthRead, loader, vars
<1>7. LayoutInv'
  BY <1>2, LayoutNext DEF ImageInv
<1>8. VisitedInv'
  BY <1>2 DEF ImageInv, VisitedInv, LengthRead, LoadedRunsInOrder, loader
<1> QED BY <1>6, <1>7, <1>8 DEF ImageInv

LEMMA LoadStepInv == ImageInv /\ LoadStep => ImageInv'
<1> SUFFICES ASSUME ImageInv, LoadStep PROVE ImageInv'
  OBVIOUS
<1>1. /\ file # NoFile /\ Load /\ UNCHANGED vars /\ file' = file /\ visited' = visited
      /\ phase = "laid" /\ Inv
  BY DEF LoadStep, ImageInv, FileInv
<1>2. LayoutInv'
  BY <1>1, LayoutNext DEF ImageInv
<1>3. Inv'
  BY <1>1, InvNext DEF LoadNext
<1>4. FileInv'
  BY <1>1, <1>3 DEF FileInv, vars
<1>5. pc # "loaded"
  BY <1>1 DEF Load, BuildPath, Open, Measure, ReadTail, Rewind, ReadHeader, DecipherLength,
     MapCode, SeekCode, SeekBeyond, ReadCode, Protect, Close, CallFails, Move
<1>6. visited' = << >>
  BY <1>1, <1>5 DEF ImageInv, VisitedInv
<1>7. VisitedInv'
  BY <1>6, LayoutAssumption DEF VisitedInv, LoadedRunsInOrder
<1> QED BY <1>2, <1>4, <1>7 DEF ImageInv

\* Different positions are different addresses.
LEMMA OffsetsDiffer ==
  ASSUME LayoutInv, NEW p \in Place, NEW q \in 1 .. Insns + 1, Offset(p) = Offset(q)
  PROVE  p = q
<1>1. size \in [Place -> Sizes] /\ order \in [Place -> Place]
  BY DEF LayoutInv, LayoutTypeOK, OrderRight
<1>2. Lens \in [Place -> Nat]
  BY <1>1, LensNat DEF Lens
<1>3. ASSUME NEW a \in Place PROVE Lens[a] > 0 /\ Lens[a] \in Nat
  <2>1. Lens[a] \in Sizes
    BY <1>1 DEF Lens
  <2>2. \A x \in Sizes : x > 0 /\ x \in Nat
    BY LayoutAssumption
  <2> QED BY <2>1, <2>2
<1>4. ASSUME NEW a \in Place, NEW b \in 0 .. Insns, a <= b
      PROVE  Sums(Lens)[a - 1] < Sums(Lens)[b]
  <2>1. a - 1 \in 0 .. Insns /\ a \in 0 .. Insns
    BY LayoutAssumption DEF Place
  <2>2. Sums(Lens)[a] = Sums(Lens)[a - 1] + Lens[a]
    BY <1>2, SumsDefined
  <2>3. Sums(Lens)[a] <= Sums(Lens)[b]
    BY <1>2, <1>4, <2>1, SumsGrow
  <2>4. Sums(Lens) \in [0 .. Insns -> Nat]
    BY <1>2, SumsDefined
  <2>5. Sums(Lens)[a - 1] \in Nat /\ Sums(Lens)[b] \in Nat
    BY <2>1, <2>4
  <2> QED BY <1>3, <2>2, <2>3, <2>5
<1>5. Sums(Lens)[p - 1] = Sums(Lens)[q - 1]
  BY DEF Offset, Lens
<1>6. ~(p < q)
  <2> SUFFICES ASSUME p < q PROVE FALSE
    OBVIOUS
  <2>1. q - 1 \in 0 .. Insns /\ p <= q - 1
    BY LayoutAssumption DEF Place
  <2>2. Sums(Lens)[p - 1] < Sums(Lens)[q - 1]
    BY <1>4, <2>1
  <2>3. Sums(Lens) \in [0 .. Insns -> Nat] /\ p - 1 \in 0 .. Insns
    BY <1>2, SumsDefined, LayoutAssumption DEF Place
  <2> QED BY <1>5, <2>1, <2>2, <2>3
<1>7. ~(q < p)
  <2> SUFFICES ASSUME q < p PROVE FALSE
    OBVIOUS
  <2>1. q \in Place /\ p - 1 \in 0 .. Insns /\ q <= p - 1
    BY LayoutAssumption DEF Place
  <2>2. Sums(Lens)[q - 1] < Sums(Lens)[p - 1]
    BY <1>4, <2>1
  <2>3. Sums(Lens) \in [0 .. Insns -> Nat]
    BY <1>2, SumsDefined
  <2> QED BY <1>5, <2>1, <2>2, <2>3
<1> QED BY <1>6, <1>7, LayoutAssumption DEF Place

\* The address after the last instruction of the source finds nothing; every
\* other one finds the instruction that follows in the source.
LEMMA RunInv == ImageInv /\ Run => ImageInv'
<1> SUFFICES ASSUME ImageInv, Run PROVE ImageInv'
  OBVIOUS
<1> DEFINE n == Len(visited)
<1>1. /\ pc = "loaded" /\ UNCHANGED vars /\ UNCHANGED loadVars /\ file' = file
      /\ LayoutInv /\ FileInv /\ VisitedInv
  BY DEF Run, ImageInv, loadVars
<1>2. PICK p \in Found : visited' = Append(visited, order[p])
  BY DEF Run
<1>3. p \in Place /\ Following.keyed /\ vcode.from + Following.address = file.elf + Offset(p)
  BY <1>2 DEF Found
<1>4. file # NoFile /\ Inv
  BY <1>1 DEF FileInv
<1>5. OrderRight(order) /\ order[p] \in Place /\ visited \in Seq(Place) /\ n \in Nat
  BY <1>1, <1>3 DEF LayoutInv, LayoutTypeOK, OrderRight, VisitedInv
<1>6. Offset(p) \in Nat
  <2>1. p \in 1 .. Insns + 1
    BY <1>3, LayoutAssumption DEF Place
  <2> QED BY <1>1, <2>1, OffsetNat DEF LayoutInv, LayoutTypeOK
<1>7. LayoutInv' /\ FileInv'
  <2>1. LayoutInv'
    BY <1>1, LayoutNext
  <2>2. Inv'
    BY <1>1, <1>4, InvNext
  <2> QED BY <1>1, <2>1, <2>2 DEF FileInv, vars
<1>8. visited' \in Seq(Place) /\ Len(visited') = n + 1
      /\ \A k \in 1 .. n + 1 : visited'[k] = IF k = n + 1 THEN order[p] ELSE visited[k]
  BY <1>2, <1>5
<1>9. ASSUME LengthRead PROVE n < Insns /\ order[p] = n + 1
  <2>1. n <= Insns /\ visited = [k \in DOMAIN visited |-> k]
    BY <1>1, <1>9 DEF VisitedInv, LoadedRunsInOrder
  <2>2. vcode.from = file.elf /\ file.elf \in Nat
    BY <1>1, <1>4, <1>9 DEF Inv, FileRight
  <2>3. CASE n = 0
    <3>1. Following.address = 0
      BY <1>5, <2>3, WordsClosed DEF Following
    <3>2. Offset(p) = 0
      BY <1>3, <1>6, <2>2, <3>1
    <3>3. Offset(1) = 0
      <4>1. Lens \in [Place -> Nat]
        BY <1>1, LensNat DEF Lens, LayoutInv, LayoutTypeOK, OrderRight
      <4> QED BY <4>1, SumsDefined DEF Offset, Lens
    <3>4. p = 1
      BY <1>1, <1>3, <3>2, <3>3, OffsetsDiffer, LayoutAssumption
    <3> QED BY <1>5, <2>3, <3>4, LayoutAssumption DEF OrderRight
  <2>4. CASE n > 0
    <3>1. visited # << >> /\ n \in DOMAIN visited /\ visited[n] = n
      BY <1>5, <2>1, <2>4
    <3>2. Following = fall[n] /\ n \in Place
      BY <1>5, <2>1, <2>4, <3>1, LayoutAssumption DEF Following, Last, Place
    <3>3. PICK q \in Place : order[q] = n
      BY <1>5, <3>2 DEF OrderRight
    <3>4. q \in 1 .. corrected
      <4>1. corrected = Insns
        BY <1>1, <1>4 DEF FileInv, LayoutInv, PhaseRight
      <4> QED BY <3>3, <4>1 DEF Place
    <3>5. CASE n = Insns
      <4>1. Following.address = Sums(Lens)[Insns]
        BY <1>1, <1>3, <3>2, <3>3, <3>4, <3>5 DEF LayoutInv, FallsRight
      <4>2. Sums(Lens)[Insns] = Offset(Insns + 1)
        BY LayoutAssumption DEF Offset, Lens
      <4>3. Insns + 1 \in 1 .. Insns + 1
        BY LayoutAssumption
      <4>4. Offset(Insns + 1) \in Nat
        BY <1>1, <4>3, OffsetNat DEF LayoutInv, LayoutTypeOK
      <4>5. Offset(p) = Offset(Insns + 1)
        BY <1>3, <1>6, <2>2, <4>1, <4>2, <4>4
      <4>6. p = Insns + 1
        BY <1>1, <1>3, <4>3, <4>5, OffsetsDiffer
      <4> QED BY <1>3, <4>6, LayoutAssumption DEF Place
    <3>6. CASE n # Insns
      <4> DEFINE there == Position(n + 1)
      <4>1. fall[n] = GoesOn(n)
        BY <1>1, <3>3, <3>4, <3>6 DEF LayoutInv, FallsRight
      <4>2. n + 1 \in Place
        BY <2>1, <3>2, <3>6, LayoutAssumption DEF Place
      <4>3. there \in Place /\ order[there] = n + 1
        BY <1>5, <4>2, PositionRight
      <4>4. there \in 1 .. Insns + 1
        BY <4>3, LayoutAssumption DEF Place
      <4>5. Offset(there) \in Nat
        BY <1>1, <4>4, OffsetNat DEF LayoutInv, LayoutTypeOK
      <4>6. Following.address = Offset(there)
        BY <3>2, <4>1, <4>5, WordsClosed DEF GoesOn
      <4>7. Offset(p) = Offset(there)
        BY <1>3, <1>6, <2>2, <4>5, <4>6
      <4>8. p = there
        BY <1>1, <1>3, <4>4, <4>7, OffsetsDiffer
      <4> QED BY <2>1, <3>6, <4>3, <4>8, <1>5, LayoutAssumption
    <3> QED BY <3>5, <3>6
  <2> QED BY <1>5, <2>3, <2>4
<1>10. VisitedInv'
  <2>1. LengthRead' = LengthRead /\ pc' = pc
    BY <1>1 DEF LengthRead, loadVars, loader
  <2>2. ASSUME LengthRead PROVE Len(visited') <= Insns /\ visited' = [k \in DOMAIN visited' |-> k]
    <3>1. n < Insns /\ order[p] = n + 1
      BY <1>9, <2>2
    <3>2. visited = [k \in DOMAIN visited |-> k]
      BY <1>1, <2>2 DEF VisitedInv, LoadedRunsInOrder
    <3>3. DOMAIN visited = 1 .. n /\ DOMAIN visited' = 1 .. n + 1
      BY <1>5, <1>8
    <3>4. \A k \in 1 .. n + 1 : visited'[k] = k
      BY <1>5, <1>8, <3>1, <3>2, <3>3
    <3>5. visited' = [k \in DOMAIN visited' |-> visited'[k]]
      BY <1>8
    <3> QED BY <1>8, <1>5, <3>1, <3>3, <3>4, <3>5, LayoutAssumption
  <2> QED BY <1>1, <1>8, <2>1, <2>2 DEF VisitedInv, LoadedRunsInOrder
<1> QED BY <1>7, <1>10 DEF ImageInv

LEMMA ImageNextInv == ImageInv /\ [ImageNext]_allVars => ImageInv'
<1> SUFFICES ASSUME ImageInv, [ImageNext]_allVars PROVE ImageInv'
  OBVIOUS
<1>1. CASE Assemble
  <2>1. [Next]_vars /\ UNCHANGED loadVars /\ visited' = visited /\ phase # "laid"
    BY <1>1 DEF Assemble, Next, Shuffle, Correct, Resolve
  <2>2. LayoutInv'
    BY <2>1, LayoutNext DEF ImageInv
  <2>3. FileInv'
    BY <2>1 DEF ImageInv, FileInv, loadVars, loader
  <2>4. VisitedInv'
    BY <2>1 DEF ImageInv, VisitedInv, LengthRead, LoadedRunsInOrder, loadVars, loader
  <2> QED BY <2>2, <2>3, <2>4 DEF ImageInv
<1>2. CASE UNCHANGED allVars
  <2>1. UNCHANGED vars /\ UNCHANGED loadVars /\ visited' = visited
    BY <1>2 DEF allVars
  <2>2. LayoutInv'
    BY <2>1, LayoutNext DEF ImageInv
  <2>3. Inv => Inv'
    BY <2>1, InvNext
  <2>4. FileInv'
    BY <2>1, <2>3 DEF ImageInv, FileInv, vars, loadVars, loader
  <2>5. VisitedInv'
    BY <2>1 DEF ImageInv, VisitedInv, LengthRead, LoadedRunsInOrder, loadVars, loader
  <2> QED BY <2>2, <2>4, <2>5 DEF ImageInv
<1> QED
  BY <1>1, <1>2, WriteInv, LoadStepInv, RunInv DEF ImageNext, Over

\* Whatever the shuffle, the lengths of the instructions, the key and the size of
\* the executable: what the machine runs of the loaded code is the program from
\* its start in the order of its source.
THEOREM RunsInOrder == ImageSpec => []LoadedRunsInOrder
<1>1. ImageInv => LoadedRunsInOrder
  BY DEF ImageInv, VisitedInv, LoadedRunsInOrder
<1> QED
  BY <1>1, ImageInitInv, ImageNextInv, PTL DEF ImageSpec

\* What load_vcode maps is a beginning of the code that the assembler laid out if
\* the length was read, and all of it if the read of the code was whole.
THEOREM LoadsWhatWasLaid == ImageSpec => []LoadedIsAppended
<1>1. ImageInv => LoadedIsAppended
  BY DEF ImageInv, FileInv, Inv, LoadedIsAppended, LengthRead
<1> QED
  BY <1>1, ImageInitInv, ImageNextInv, PTL DEF ImageSpec

\* The name is deciphered to that of the program's own file exactly on processors
\* that answer as the opaque predicate expects (proc_self_exe).
THEOREM NameCorrect == ImageSpec => []NameIsSelf
<1>1. ImageInit => NameIsSelf
  BY DEF ImageInit, Reset, NameIsSelf
<1>2. NameIsSelf /\ [ImageNext]_allVars => NameIsSelf'
  <2> SUFFICES ASSUME NameIsSelf, [ImageNext]_allVars PROVE NameIsSelf'
    OBVIOUS
  <2>1. CASE Load
    <3>1. CASE BuildPath
      BY <3>1, NameDeciphered, DecoyDiffers DEF BuildPath, NameIsSelf
    <3>2. CASE ~BuildPath
      <4>1. pc # "path" /\ path' = path /\ sse' = sse
        BY <2>1, <3>2 DEF Load, Open, Measure, ReadTail, Rewind, ReadHeader, DecipherLength,
           MapCode, SeekCode, SeekBeyond, ReadCode, Protect, Close, CallFails, Move
      <4> QED BY <4>1 DEF NameIsSelf
    <3> QED BY <3>1, <3>2
  <2>2. CASE UNCHANGED loader
    BY <2>2 DEF loader, NameIsSelf
  <2> QED
    BY <2>1, <2>2 DEF ImageNext, Assemble, Write, LoadStep, Run, Over, allVars, loadVars
<1> QED
  BY <1>1, <1>2, PTL DEF ImageSpec
=============================================================================
