---------------------------- MODULE Locals_proofs -----------------------------
(***************************************************************************)
(* What an activation has PUT is what it gets, for every hash, program,    *)
(* number of threads and capacity of the call stack.  LocalsKept alone is  *)
(* not inductive: that no one else writes the bytes of a variable rests on *)
(* OneHolder, that a key which has not clashed belongs to one activation   *)
(* at most.  With the hash of the code, the variables 0 to 7 of one        *)
(* activation never overlap, whatever its return address: the hash sends   *)
(* them at least four bytes apart.                                         *)
(***************************************************************************)
EXTENDS LocalsMC, SequenceTheorems, TLAPS

OneHolder ==
  \A t, u \in live : \A j \in DOMAIN dict[t], k \in DOMAIN dict[u] :
    KeyOf(t, j) = KeyOf(u, k) /\ KeyOf(t, j) \notin clashed => t = u /\ j = k

Inv == TypeOK /\ OneHolder /\ LocalsKept

-----------------------------------------------------------------------------
(* Sequences and addresses.                                                *)

LEMMA PopLemma ==
  ASSUME NEW S, NEW s \in Seq(S), s # << >>
  PROVE  /\ Front(s) \in Seq(S)
         /\ Len(Front(s)) = Len(s) - 1
         /\ \A i \in 1 .. Len(s) - 1 : Front(s)[i] = s[i]
         /\ Last(s) = s[Len(s)] /\ Len(s) \in 1 .. Len(s)
<1>1. Len(s) \in Nat /\ Len(s) >= 1
  OBVIOUS
<1>2. Front(s) = SubSeq(s, 1, Len(s) - 1)
  BY DEF Front
<1>3. Len(s) - 1 \in Int /\ \A i \in 1 .. Len(s) - 1 : s[i] \in S
  BY <1>1
<1>4. /\ SubSeq(s, 1, Len(s) - 1) \in Seq(S)
      /\ Len(SubSeq(s, 1, Len(s) - 1)) = IF 1 <= Len(s) - 1 THEN Len(s) - 1 - 1 + 1 ELSE 0
      /\ \A i \in 1 .. Len(s) - 1 - 1 + 1 : SubSeq(s, 1, Len(s) - 1)[i] = s[1 + i - 1]
  BY <1>3, SubSeqProperties
<1>5. Len(Front(s)) = Len(s) - 1
  <2>1. CASE Len(s) = 1
    BY <1>2, <1>4, <2>1
  <2>2. CASE Len(s) > 1
    BY <1>1, <1>2, <1>4, <2>2
  <2>3. \A n \in Nat : n >= 1 => n = 1 \/ n > 1
    OBVIOUS
  <2> QED BY <1>1, <2>1, <2>2, <2>3
<1>6. ASSUME NEW i \in 1 .. Len(s) - 1 PROVE Front(s)[i] = s[i]
  <2>1. i \in 1 .. Len(s) - 1 - 1 + 1 /\ 1 + i - 1 = i
    BY <1>1
  <2>2. SubSeq(s, 1, Len(s) - 1)[i] = s[1 + i - 1]
    BY <1>4, <2>1
  <2> QED BY <1>2, <2>1, <2>2
<1> QED BY <1>1, <1>2, <1>4, <1>5, <1>6 DEF Last

LEMMA PushLemma ==
  ASSUME NEW S, NEW s \in Seq(S), NEW e \in S
  PROVE  /\ Append(s, e) \in Seq(S)
         /\ Len(Append(s, e)) = Len(s) + 1
         /\ \A i \in 1 .. Len(s) : Append(s, e)[i] = s[i]
         /\ Append(s, e)[Len(s) + 1] = e
  OBVIOUS

\* stack_push and stack_pop on the call stack, which is bounded.
LEMMA StackLemma ==
  ASSUME NEW s \in Seq(Sites)
  PROVE  /\ \A e \in Sites : Pushed(s, e) = IF IsFull(s) THEN s ELSE Append(s, e)
         /\ s # << >> => Popped(s) = Front(s)
         /\ IF s = << >> THEN TopOf(s) = AllOnes
            ELSE TopOf(s) = Last(s) /\ Last(s) \in Sites /\ Last(s) # AllOnes
<1>1. \A e \in Sites : Pushed(s, e) = IF IsFull(s) THEN s ELSE Append(s, e)
  BY DEF Pushed
<1>2. s # << >> => Popped(s) = Front(s)
  BY DEF Popped, IsEmpty, Front
<1>3. s # << >> => Last(s) \in Sites
  BY DEF Last
<1>4. AllOnes \notin Sites
  BY LocalsAssumption
<1> QED BY <1>1, <1>2, <1>3, <1>4 DEF TopOf, IsEmpty, Last

LEMMA PlaceTyped ==
  ASSUME NEW key \in Keys, NEW id \in Ids
  PROVE  Place(key, id) \in Nat
  BY LocalsAssumption DEF Place, Area

\* The bytes of an isolated variable are cells that no other variable covers.
LEMMA IsolatedBytes ==
  ASSUME NEW key \in Keys, NEW id \in Ids, Isolated(key, id), NEW v \in 1 .. 3
  PROVE  /\ BytesAt(Place(key, id), v) \subseteq Cells
         /\ \A k \in Keys, i \in Ids, w \in 1 .. 3 : k # key \/ i # id =>
              BytesAt(Place(k, i), w) \intersect BytesAt(Place(key, id), v) = {}
<1>1. \A a \in Nat : \A w \in 1 .. 3 : BytesAt(a, w) \subseteq BytesAt(a, 3)
  BY DEF BytesAt, Bytes
<1>2. BytesAt(Place(key, id), v) \subseteq BytesAt(Place(key, id), 3)
  BY <1>1, PlaceTyped
<1>3. BytesAt(Place(key, id), 3) \subseteq Cells
  BY DEF Isolated, Cells
<1>4. ASSUME NEW k \in Keys, NEW i \in Ids, NEW w \in 1 .. 3, k # key \/ i # id
      PROVE  BytesAt(Place(k, i), w) \intersect BytesAt(Place(key, id), v) = {}
  <2>1. BytesAt(Place(k, i), w) \subseteq BytesAt(Place(k, i), 3)
    BY <1>1, PlaceTyped
  <2>2. BytesAt(Place(k, i), 3) \intersect BytesAt(Place(key, id), 3) = {}
    BY <1>4 DEF Isolated
  <2> QED BY <1>2, <2>1, <2>2
<1> QED BY <1>2, <1>3, <1>4

-----------------------------------------------------------------------------
(* Activations and their keys.                                             *)

LEMMA KeyTyped ==
  ASSUME TypeOK, NEW t \in Threads, NEW k \in DOMAIN dict[t]
  PROVE  KeyOf(t, k) \in Keys
<1>1. k \in 1 .. Len(stack[t]) + 1 /\ stack[t] \in Seq(Sites)
  BY DEF TypeOK
<1> QED BY <1>1 DEF KeyOf, Keys

LEMMA TopKey ==
  ASSUME TypeOK, NEW t \in Threads
  PROVE  Len(dict[t]) \in DOMAIN dict[t] /\ Key(t) = KeyOf(t, Len(dict[t]))
<1>1. /\ stack[t] \in Seq(Sites) /\ dict[t] \in Seq([Ids -> Entries])
      /\ Len(dict[t]) = Len(stack[t]) + 1
  BY DEF TypeOK
<1>2. CASE stack[t] = << >>
  <2>1. Key(t) = NoSite
    BY <1>1, <1>2, StackLemma DEF Key
  <2> QED BY <1>1, <1>2, <2>1 DEF KeyOf
<1>3. CASE stack[t] # << >>
  <2>1. Key(t) = Last(stack[t])
    BY <1>1, <1>3, StackLemma DEF Key
  <2> QED BY <1>1, <1>3, <2>1 DEF KeyOf, Last
<1> QED BY <1>2, <1>3

LEMMA KeyPrimed ==
  \A t, k : KeyOf(t, k)' = IF k = 1 THEN NoSite ELSE stack'[t][k - 1]
  BY DEF KeyOf

\* CALL starts an activation above the others, with its return address as key,
\* or in the place of the one on top when the stack is full.
LEMMA CallKeys ==
  ASSUME TypeOK, NEW t \in Threads, NEW s \in Sites, Call(t, s)
  PROVE  /\ \A u \in Threads : \A k \in DOMAIN dict[u] :
              /\ k \in DOMAIN dict'[u] /\ KeyOf(u, k)' = KeyOf(u, k)
              /\ dict'[u][k] \in {dict[u][k], Empty}
         /\ \A u \in Threads : \A k \in DOMAIN dict'[u] :
              k \in DOMAIN dict[u]
                \/ (~IsFull(stack[t]) /\ u = t /\ k = Len(dict[t]) + 1)
         /\ ~IsFull(stack[t]) =>
              /\ \A k : k = Len(dict[t]) + 1 => KeyOf(t, k)' = s
              /\ dict'[t][Len(dict[t]) + 1] = Empty
<1>1. \A u \in Threads : /\ stack[u] \in Seq(Sites) /\ dict[u] \in Seq([Ids -> Entries])
                         /\ Len(dict[u]) = Len(stack[u]) + 1
  BY DEF TypeOK
<1>2. \A u \in Threads : u # t => stack'[u] = stack[u] /\ dict'[u] = dict[u]
  BY DEF Call, TypeOK
<1>e. Empty \in [Ids -> Entries]
  BY DEF Empty, Entries
<1>3. CASE IsFull(stack[t])
  <2>1. stack' = stack
    BY <1>1, <1>3, StackLemma DEF Call, TypeOK
  <2>2. dict' = [dict EXCEPT ![t] = [dict[t] EXCEPT ![Len(dict[t])] = Empty]]
    BY <1>3 DEF Call
  <2>3. dict'[t] = [dict[t] EXCEPT ![Len(dict[t])] = Empty]
    BY <2>2 DEF TypeOK
  <2>4. \A u \in Threads : DOMAIN dict'[u] = DOMAIN dict[u]
    BY <1>1, <1>2, <2>3
  <2>5. \A u, k : KeyOf(u, k)' = KeyOf(u, k)
    BY <2>1 DEF KeyOf
  <2>6. \A u \in Threads : \A k \in DOMAIN dict[u] : dict'[u][k] \in {dict[u][k], Empty}
    BY <1>1, <1>2, <2>3
  <2> QED BY <1>3, <2>4, <2>5, <2>6
<1>4. CASE ~IsFull(stack[t])
  <2>1. stack'[t] = Append(stack[t], s) /\ dict'[t] = Append(dict[t], Empty)
    BY <1>1, <1>4, StackLemma DEF Call, TypeOK
  <2>2. /\ \A i \in 1 .. Len(stack[t]) : stack'[t][i] = stack[t][i]
        /\ stack'[t][Len(stack[t]) + 1] = s
    BY <1>1, <2>1, PushLemma
  <2>3. /\ \A i \in 1 .. Len(dict[t]) : dict'[t][i] = dict[t][i]
        /\ dict'[t][Len(dict[t]) + 1] = Empty
        /\ dict'[t] \in Seq([Ids -> Entries]) /\ Len(dict'[t]) = Len(dict[t]) + 1
    BY <1>1, <1>e, <2>1, PushLemma
  <2>4. ASSUME NEW u \in Threads, NEW k \in DOMAIN dict[u]
        PROVE  k \in DOMAIN dict'[u] /\ KeyOf(u, k)' = KeyOf(u, k) /\ dict'[u][k] = dict[u][k]
    <3>1. CASE u = t
      <4>1. k \in 1 .. Len(dict[t])
        BY <1>1, <3>1
      <4>2. k \in DOMAIN dict'[t] /\ dict'[t][k] = dict[t][k]
        BY <1>1, <2>3, <4>1
      <4>3. k # 1 => k - 1 \in 1 .. Len(stack[t])
        BY <1>1, <4>1
      <4>4. KeyOf(t, k)' = KeyOf(t, k)
        BY <2>2, <4>3, KeyPrimed DEF KeyOf
      <4> QED BY <3>1, <4>2, <4>4
    <3>2. CASE u # t
      BY <1>2, <3>2, KeyPrimed DEF KeyOf
    <3> QED BY <3>1, <3>2
  <2>5. ASSUME NEW u \in Threads, NEW k \in DOMAIN dict'[u]
        PROVE  k \in DOMAIN dict[u] \/ (u = t /\ k = Len(dict[t]) + 1)
    BY <1>1, <1>2, <2>3
  <2>6. ASSUME NEW k, k = Len(dict[t]) + 1 PROVE KeyOf(t, k)' = s
    BY <1>1, <2>2, <2>6, KeyPrimed
  <2> QED BY <1>4, <2>3, <2>4, <2>5, <2>6
<1> QED BY <1>3, <1>4

\* RET ends the activation on top.
LEMMA RetKeys ==
  ASSUME TypeOK, NEW t \in Threads, Ret(t)
  PROVE  \A u \in Threads : \A k \in DOMAIN dict'[u] :
           /\ k \in DOMAIN dict[u] /\ KeyOf(u, k)' = KeyOf(u, k)
           /\ dict'[u][k] = dict[u][k]
<1>1. \A u \in Threads : /\ stack[u] \in Seq(Sites) /\ dict[u] \in Seq([Ids -> Entries])
                         /\ Len(dict[u]) = Len(stack[u]) + 1
  BY DEF TypeOK
<1>2. \A u \in Threads : u # t => stack'[u] = stack[u] /\ dict'[u] = dict[u]
  BY DEF Ret, TypeOK
<1>3. stack[t] # << >> /\ stack'[t] = Front(stack[t]) /\ dict'[t] = Front(dict[t])
  BY <1>1, StackLemma DEF Ret, TypeOK
<1>4. \A i \in 1 .. Len(stack[t]) - 1 : stack'[t][i] = stack[t][i]
  BY <1>1, <1>3, PopLemma
<1>5. /\ \A i \in 1 .. Len(dict[t]) - 1 : dict'[t][i] = dict[t][i]
      /\ dict'[t] \in Seq([Ids -> Entries]) /\ Len(dict'[t]) = Len(dict[t]) - 1
  <2>1. dict[t] # << >>
    BY <1>1
  <2> QED BY <1>1, <1>3, <2>1, PopLemma
<1>6. ASSUME NEW u \in Threads, NEW k \in DOMAIN dict'[u]
      PROVE  k \in DOMAIN dict[u] /\ KeyOf(u, k)' = KeyOf(u, k) /\ dict'[u][k] = dict[u][k]
  <2>1. CASE u = t
    <3>1. k \in 1 .. Len(dict[t]) - 1
      BY <1>1, <1>5, <2>1
    <3>2. k \in DOMAIN dict[t] /\ dict'[t][k] = dict[t][k]
      BY <1>1, <1>5, <3>1
    <3>3. k # 1 => k - 1 \in 1 .. Len(stack[t]) - 1
      BY <1>1, <3>1
    <3>4. KeyOf(t, k)' = KeyOf(t, k)
      BY <1>4, <3>3, KeyPrimed DEF KeyOf
    <3> QED BY <2>1, <3>2, <3>4
  <2>2. CASE u # t
    BY <1>2, <2>2, KeyPrimed DEF KeyOf
  <2> QED BY <2>1, <2>2
<1> QED BY <1>6

-----------------------------------------------------------------------------
(* Types.                                                                  *)

LEMMA InitType == Init => TypeOK
<1> SUFFICES ASSUME Init PROVE TypeOK
  OBVIOUS
<1>1. Empty \in [Ids -> Entries]
  BY DEF Empty, Entries
<1>2. dict \in [Threads -> Seq([Ids -> Entries])]
  BY <1>1 DEF Init
<1>3. \A t \in Threads : Len(dict[t]) = Len(stack[t]) + 1
  BY DEF Init
<1> QED BY <1>2, <1>3 DEF Init, TypeOK, Keys

LEMMA TypeStep == TypeOK /\ [Next]_vars => TypeOK'
<1> SUFFICES ASSUME TypeOK, [Next]_vars PROVE TypeOK'
  OBVIOUS
<1>1. \A t \in Threads : /\ stack[t] \in Seq(Sites) /\ dict[t] \in Seq([Ids -> Entries])
                         /\ Len(dict[t]) = Len(stack[t]) + 1
  BY DEF TypeOK
<1>2. ASSUME NEW t \in Threads, NEW id \in Ids, NEW v \in Widths, NEW m \in Marks,
             Put(t, id, v, m)
      PROVE  TypeOK'
  <2>1. vmem' \in [Cells -> Marks \union {0}]
    BY <1>2 DEF Put, TypeOK
  <2> DEFINE d == [dict[t] EXCEPT ![Len(dict[t])] = [@ EXCEPT ![id] = [v |-> v, mark |-> m]]]
  <2>2. dict' = [dict EXCEPT ![t] = d]
    BY <1>2 DEF Put
  <2>3. [v |-> v, mark |-> m] \in Entries
    BY DEF Entries
  <2>4. d \in Seq([Ids -> Entries]) /\ Len(d) = Len(dict[t])
    BY <1>1, <2>3
  <2>5. /\ dict' \in [Threads -> Seq([Ids -> Entries])]
        /\ \A u \in Threads : Len(dict'[u]) = Len(dict[u])
    BY <2>2, <2>4 DEF TypeOK
  <2> QED BY <1>2, <2>1, <2>5 DEF Put, TypeOK
<1>3. ASSUME NEW t \in Threads, NEW id \in Ids, NEW v \in Widths, Get(t, id, v)
      PROVE  TypeOK'
  <2>1. PICK behind \in Marks \union {0} :
          result' = [by |-> t, id |-> id, got |-> Read(Place(Key(t), id), v, behind)]
    BY <1>3 DEF Get
  <2>2. Bytes(v) \in Nat
    BY DEF Bytes
  <2>3. Key(t) \in Keys
    BY TopKey, KeyTyped
  <2>4. ASSUME NEW k \in 1 .. Bytes(v), Place(Key(t), id) + k - 1 \in Area
        PROVE  vmem[Place(Key(t), id) + k - 1] \in Marks \union {0}
    <3> DEFINE a == Place(Key(t), id)
    <3>0. a \in Nat
      BY <2>3, PlaceTyped
    <3>a. Bytes(v) <= Bytes(3) /\ Bytes(3) = 4
      BY DEF Bytes
    <3>b. BytesAt(a, 3) = a .. a + 4 - 1
      BY <3>a DEF BytesAt
    <3> HIDE DEF a
    <3>1. a + k - 1 \in BytesAt(a, 3)
      BY <2>2, <3>0, <3>a, <3>b
    <3> USE DEF a
    <3>2. Place(Key(t), id) + k - 1 \in Cells
      BY <2>3, <2>4, <3>1 DEF Cells
    <3> QED BY <3>2 DEF TypeOK
  <2>5. Read(Place(Key(t), id), v, behind) \in [1 .. Bytes(v) -> Marks \union {0}]
    BY <2>4 DEF Read
  <2>6. \A n \in Nat : [1 .. n -> Marks \union {0}] \subseteq Seq(Marks \union {0})
    OBVIOUS
  <2>7. Read(Place(Key(t), id), v, behind) \in Seq(Marks \union {0})
    BY <2>2, <2>5, <2>6
  <2> QED BY <1>3, <2>1, <2>7 DEF Get, TypeOK
<1>4. ASSUME NEW t \in Threads, NEW s \in Sites, Call(t, s) PROVE TypeOK'
  <2>1. Empty \in [Ids -> Entries]
    BY DEF Empty, Entries
  <2>2. CASE IsFull(stack[t])
    <3>1. stack' = stack /\ UNCHANGED <<vmem, live, clashed>> /\ result' = Nothing
      BY <1>1, <1>4, <2>2, StackLemma DEF Call, TypeOK
    <3> DEFINE d == [dict[t] EXCEPT ![Len(dict[t])] = Empty]
    <3>2. dict' = [dict EXCEPT ![t] = d]
      BY <1>4, <2>2 DEF Call
    <3>3. d \in Seq([Ids -> Entries]) /\ Len(d) = Len(dict[t])
      BY <1>1, <2>1
    <3>4. /\ dict' \in [Threads -> Seq([Ids -> Entries])]
          /\ \A u \in Threads : Len(dict'[u]) = Len(dict[u])
      BY <3>2, <3>3 DEF TypeOK
    <3> QED BY <3>1, <3>4 DEF TypeOK
  <2>3. CASE ~IsFull(stack[t])
    <3>1. /\ Append(stack[t], s) \in Seq(Sites)
          /\ Len(Append(stack[t], s)) = Len(stack[t]) + 1
      BY <1>1, PushLemma
    <3>2. /\ Append(dict[t], Empty) \in Seq([Ids -> Entries])
          /\ Len(Append(dict[t], Empty)) = Len(dict[t]) + 1
      BY <1>1, <2>1, PushLemma
    <3>3. /\ stack' = [stack EXCEPT ![t] = Append(stack[t], s)]
          /\ dict' = [dict EXCEPT ![t] = Append(dict[t], Empty)]
      BY <1>1, <1>4, <2>3, StackLemma DEF Call
    <3>4. /\ stack' \in [Threads -> Seq(Sites)] /\ dict' \in [Threads -> Seq([Ids -> Entries])]
          /\ \A u \in Threads : Len(dict'[u]) = Len(stack'[u]) + 1
      BY <1>1, <3>1, <3>2, <3>3 DEF TypeOK
    <3> QED BY <1>4, <2>3, <3>4 DEF Call, TypeOK, Keys
  <2> QED BY <2>2, <2>3
<1>5. ASSUME NEW t \in Threads, Ret(t) PROVE TypeOK'
  <2>1. stack[t] # << >> /\ dict[t] # << >>
    BY <1>1, <1>5 DEF Ret
  <2>2. Front(stack[t]) \in Seq(Sites) /\ Len(Front(stack[t])) = Len(stack[t]) - 1
    BY <1>1, <2>1, PopLemma
  <2>3. /\ Front(dict[t]) \in Seq([Ids -> Entries])
        /\ Len(Front(dict[t])) = Len(dict[t]) - 1
    BY <1>1, <2>1, PopLemma
  <2>a. /\ stack' = [stack EXCEPT ![t] = Front(stack[t])]
        /\ dict' = [dict EXCEPT ![t] = Front(dict[t])]
    BY <1>1, <1>5, <2>1, StackLemma DEF Ret
  <2>4. /\ stack' \in [Threads -> Seq(Sites)] /\ dict' \in [Threads -> Seq([Ids -> Entries])]
        /\ \A u \in Threads : Len(dict'[u]) = Len(stack'[u]) + 1
    BY <1>1, <2>2, <2>3, <2>a DEF TypeOK
  <2> QED BY <1>5, <2>4 DEF Ret, TypeOK
<1>6. ASSUME NEW t \in Threads, Leave(t) \/ Exit(t) PROVE TypeOK'
  BY <1>6 DEF Leave, Exit, TypeOK
<1>7. CASE UNCHANGED vars
  BY <1>7 DEF vars, TypeOK
<1> QED BY <1>2, <1>3, <1>4, <1>5, <1>6, <1>7 DEF Next, Ended

-----------------------------------------------------------------------------
(* One holder for each key, and what it has PUT.                           *)

LEMMA HolderStep == TypeOK /\ OneHolder /\ [Next]_vars => OneHolder'
<1> SUFFICES ASSUME TypeOK, OneHolder, [Next]_vars PROVE OneHolder'
  OBVIOUS
<1> USE DEF OneHolder
<1>0. live \subseteq Threads
  BY DEF TypeOK
<1>1. ASSUME NEW t \in Threads, NEW id \in Ids, NEW v \in Widths, NEW m \in Marks,
             Put(t, id, v, m)
      PROVE  OneHolder'
  <2>1. stack' = stack /\ clashed' = clashed /\ live' = live
    BY <1>1 DEF Put
  <2>2. \A u \in Threads : DOMAIN dict'[u] = DOMAIN dict[u]
    BY <1>1 DEF Put, TypeOK
  <2>3. \A u, k : KeyOf(u, k)' = KeyOf(u, k)
    BY <2>1 DEF KeyOf
  <2> QED BY <1>0, <2>1, <2>2, <2>3
<1>2. ASSUME NEW t \in Threads, NEW id \in Ids, NEW v \in Widths, Get(t, id, v)
      PROVE  OneHolder'
  BY <1>2 DEF Get, KeyOf
<1>3. ASSUME NEW t \in Threads, NEW s \in Sites, Call(t, s) PROVE OneHolder'
  <2>1. live' = live /\ clashed \subseteq clashed'
    BY <1>3 DEF Call
  <2>2. ASSUME NEW u \in live, NEW k \in DOMAIN dict[u], KeyOf(u, k) = s, ~IsFull(stack[t])
        PROVE  s \in clashed'
    <3>1. s # NoSite /\ k \in 1 .. Len(stack[u]) + 1
      BY <1>0, LocalsAssumption DEF TypeOK
    <3>2. k # 1 /\ stack[u][k - 1] = s
      BY <2>2, <3>1 DEF KeyOf
    <3>3. k - 1 \in 1 .. Len(stack[u])
      BY <1>0, <3>1, <3>2 DEF TypeOK
    <3>4. s \in ToSet(stack[u])
      BY <1>0, <3>2, <3>3 DEF ToSet, TypeOK
    <3> QED BY <1>3, <2>2, <3>4 DEF Call
  <2>3. SUFFICES ASSUME NEW u \in live, NEW w \in live,
                        NEW j \in DOMAIN dict'[u], NEW k \in DOMAIN dict'[w],
                        KeyOf(u, j)' = KeyOf(w, k)', KeyOf(u, j)' \notin clashed'
                 PROVE  u = w /\ j = k
    BY <2>1
  <2>4. u \in Threads /\ w \in Threads
    BY <1>0
  <2>5. CASE j \in DOMAIN dict[u] /\ k \in DOMAIN dict[w]
    <3>1. KeyOf(u, j)' = KeyOf(u, j) /\ KeyOf(w, k)' = KeyOf(w, k)
      BY <1>3, <2>4, <2>5, CallKeys
    <3> QED BY <2>1, <2>3, <2>5, <3>1
  <2>6. CASE j \in DOMAIN dict[u] /\ k \notin DOMAIN dict[w]
    <3>1. KeyOf(w, k)' = s /\ KeyOf(u, j)' = KeyOf(u, j) /\ ~IsFull(stack[t])
      BY <1>3, <2>4, <2>6, CallKeys
    <3> QED BY <2>2, <2>3, <2>6, <3>1
  <2>7. CASE j \notin DOMAIN dict[u] /\ k \in DOMAIN dict[w]
    <3>1. KeyOf(u, j)' = s /\ KeyOf(w, k)' = KeyOf(w, k) /\ ~IsFull(stack[t])
      BY <1>3, <2>4, <2>7, CallKeys
    <3> QED BY <2>2, <2>3, <2>7, <3>1
  <2>8. CASE j \notin DOMAIN dict[u] /\ k \notin DOMAIN dict[w]
    BY <1>3, <2>4, <2>8, CallKeys
  <2> QED BY <2>5, <2>6, <2>7, <2>8
<1>4. ASSUME NEW t \in Threads, Ret(t) PROVE OneHolder'
  <2>1. live' = live /\ clashed' = clashed
    BY <1>4 DEF Ret
  <2> QED BY <1>0, <1>4, <2>1, RetKeys
<1>5. ASSUME NEW t \in Threads, Leave(t) \/ Exit(t) PROVE OneHolder'
  BY <1>5 DEF Leave, Exit, KeyOf
<1>6. CASE UNCHANGED vars
  BY <1>6 DEF vars, KeyOf
<1> QED BY <1>1, <1>2, <1>3, <1>4, <1>5, <1>6 DEF Next, Ended

LEMMA KeptStep == Inv /\ [Next]_vars => LocalsKept'
<1> SUFFICES ASSUME Inv, [Next]_vars PROVE LocalsKept'
  OBVIOUS
<1>0. TypeOK /\ OneHolder /\ LocalsKept /\ live \subseteq Threads
  BY DEF Inv, TypeOK
<1> USE DEF LocalsKept
<1>1. ASSUME NEW t \in Threads, NEW id \in Ids, NEW v \in Widths, NEW m \in Marks,
             Put(t, id, v, m)
      PROVE  LocalsKept'
  <2>1. /\ live' = live /\ clashed' = clashed /\ t \in live
        /\ \A u, k : KeyOf(u, k)' = KeyOf(u, k)
    BY <1>1 DEF Put, KeyOf
  <2>2. \A b \in Cells :
          vmem'[b] = IF b \in BytesAt(Place(Key(t), id), v) THEN m ELSE vmem[b]
    BY <1>1 DEF Put
  <2>3. \A u \in Threads : \A k \in DOMAIN dict'[u] : \A i \in Ids :
          /\ k \in DOMAIN dict[u]
          /\ dict'[u][k][i] = IF u = t /\ k = Len(dict[t]) /\ i = id
                             THEN [v |-> v, mark |-> m] ELSE dict[u][k][i]
    <3>1. \A u \in Threads : dict[u] \in Seq([Ids -> Entries])
      BY <1>0 DEF TypeOK
    <3> DEFINE d == [dict[t] EXCEPT ![Len(dict[t])] = [@ EXCEPT ![id] = [v |-> v, mark |-> m]]]
    <3>2. dict' = [dict EXCEPT ![t] = d] /\ dict \in [Threads -> Seq([Ids -> Entries])]
      BY <1>0, <1>1 DEF Put, TypeOK
    <3>3. \A u \in Threads : u # t => dict'[u] = dict[u]
      BY <3>2
    <3>4. dict'[t] = d
      BY <3>2
    <3>5. \A k \in DOMAIN dict[t] : dict[t][k] \in [Ids -> Entries]
      BY <3>1
    <3>6. \A k \in DOMAIN dict'[t] : \A i \in Ids :
            /\ k \in DOMAIN dict[t]
            /\ dict'[t][k][i] = IF k = Len(dict[t]) /\ i = id
                               THEN [v |-> v, mark |-> m] ELSE dict[t][k][i]
      BY <3>4, <3>5
    <3> QED BY <3>3, <3>6
  <2>4. SUFFICES ASSUME NEW u \in live, NEW k \in DOMAIN dict'[u], NEW i \in Ids,
                        dict'[u][k][i] # Unset, KeyOf(u, k) \notin clashed,
                        Isolated(KeyOf(u, k), i),
                        NEW b \in BytesAt(Place(KeyOf(u, k), i), dict'[u][k][i].v)
                 PROVE  vmem'[b] = dict'[u][k][i].mark
    BY <2>1
  <2>5. u \in Threads /\ k \in DOMAIN dict[u] /\ KeyOf(u, k) \in Keys
    BY <1>0, <2>3, <2>4, KeyTyped
  <2>6. Key(t) \in Keys /\ Key(t) = KeyOf(t, Len(dict[t])) /\ Len(dict[t]) \in DOMAIN dict[t]
    BY <1>0, TopKey, KeyTyped
  <2>7. v \in 1 .. 3
    BY LocalsAssumption
  <2>8. CASE u = t /\ k = Len(dict[t]) /\ i = id
    <3>1. dict'[u][k][i] = [v |-> v, mark |-> m]
      BY <2>3, <2>4, <2>5, <2>8
    <3>2. b \in BytesAt(Place(Key(t), id), v)
      BY <2>4, <2>6, <2>8, <3>1
    <3>3. b \in Cells
      BY <2>4, <2>5, <2>6, <2>7, <2>8, <3>2, IsolatedBytes
    <3> QED BY <2>2, <3>1, <3>2, <3>3
  <2>9. CASE ~ (u = t /\ k = Len(dict[t]) /\ i = id)
    <3>1. dict'[u][k][i] = dict[u][k][i]
      BY <2>3, <2>4, <2>5, <2>9
    <3>2. Key(t) # KeyOf(u, k) \/ id # i
      BY <1>0, <2>1, <2>4, <2>5, <2>6, <2>9 DEF OneHolder
    <3>3. dict[u][k][i].v \in 1 .. 3
      <4>1. dict[u][k][i] \in Entries
        BY <1>0, <2>5 DEF TypeOK
      <4> QED BY <2>4, <3>1, <4>1, LocalsAssumption DEF Entries
    <3>4. b \in Cells /\ b \notin BytesAt(Place(Key(t), id), v)
      BY <2>4, <2>5, <2>6, <2>7, <3>1, <3>2, <3>3, IsolatedBytes
    <3>5. vmem[b] = dict[u][k][i].mark
      BY <1>0, <2>4, <2>5, <3>1
    <3> QED BY <2>2, <3>1, <3>4, <3>5
  <2> QED BY <2>8, <2>9
<1>2. ASSUME NEW t \in Threads, NEW id \in Ids, NEW v \in Widths, Get(t, id, v)
      PROVE  LocalsKept'
  BY <1>0, <1>2 DEF Get, KeyOf
<1>3. ASSUME NEW t \in Threads, NEW s \in Sites, Call(t, s) PROVE LocalsKept'
  <2>1. live' = live /\ clashed \subseteq clashed' /\ vmem' = vmem
    BY <1>3 DEF Call
  <2>2. SUFFICES ASSUME NEW u \in live, NEW k \in DOMAIN dict'[u], NEW i \in Ids,
                        dict'[u][k][i] # Unset, KeyOf(u, k)' \notin clashed',
                        Isolated(KeyOf(u, k)', i),
                        NEW b \in BytesAt(Place(KeyOf(u, k)', i), dict'[u][k][i].v)
                 PROVE  vmem'[b] = dict'[u][k][i].mark
    BY <2>1
  <2>3. CASE k \in DOMAIN dict[u]
    <3>1. KeyOf(u, k)' = KeyOf(u, k) /\ dict'[u][k] \in {dict[u][k], Empty}
      BY <1>0, <1>3, <2>3, CallKeys
    <3>2. dict'[u][k] = dict[u][k]
      BY <2>2, <3>1 DEF Empty
    <3> QED BY <1>0, <2>1, <2>2, <2>3, <3>1, <3>2
  <2>4. CASE k \notin DOMAIN dict[u]
    <3>1. dict'[u][k] = Empty
      BY <1>0, <1>3, <2>4, CallKeys
    <3> QED BY <2>2, <3>1 DEF Empty
  <2> QED BY <2>3, <2>4
<1>4. ASSUME NEW t \in Threads, Ret(t) PROVE LocalsKept'
  <2>1. live' = live /\ clashed' = clashed /\ vmem' = vmem
    BY <1>4 DEF Ret
  <2>2. \A u \in live : \A k \in DOMAIN dict'[u] :
          k \in DOMAIN dict[u] /\ KeyOf(u, k)' = KeyOf(u, k) /\ dict'[u][k] = dict[u][k]
    BY <1>0, <1>4, RetKeys
  <2> QED BY <1>0, <2>1, <2>2
<1>5. ASSUME NEW t \in Threads, Leave(t) \/ Exit(t) PROVE LocalsKept'
  BY <1>0, <1>5 DEF Leave, Exit, KeyOf
<1>6. CASE UNCHANGED vars
  BY <1>0, <1>6 DEF vars, KeyOf
<1> QED BY <1>1, <1>2, <1>3, <1>4, <1>5, <1>6 DEF Next, Ended

LEMMA Invariant == Spec => []Inv
<1>1. Init => Inv
  <2> SUFFICES ASSUME Init PROVE Inv
    OBVIOUS
  <2>1. \A t \in Threads : DOMAIN dict[t] = {1} /\ dict[t][1] = Empty
    BY DEF Init
  <2>2. OneHolder
    <3>1. \A t, u \in Threads : t # u => NoSite \in clashed
      BY DEF Init
    <3> QED BY <2>1, <3>1 DEF OneHolder, KeyOf, Init
  <2>3. LocalsKept
    BY <2>1 DEF LocalsKept, Empty, Init
  <2> QED BY InitType, <2>2, <2>3 DEF Inv
<1>2. Inv /\ [Next]_vars => Inv'
  BY TypeStep, HolderStep, KeptStep DEF Inv
<1> QED BY <1>1, <1>2, PTL DEF Spec

-----------------------------------------------------------------------------

\* Types, for every hash, program and number of threads.
THEOREM TypeCorrect == Spec => []TypeOK
<1>1. Inv => TypeOK
  BY DEF Inv
<1> QED BY Invariant, <1>1, PTL

\* Nothing a callee or another thread PUTs reaches the variables of an activation
\* (emulate.c, handle_put), but for shared keys and overlapping hashes.
THEOREM LocalsCorrect == Spec => []LocalsKept
<1>1. Inv => LocalsKept
  BY DEF Inv
<1> QED BY Invariant, <1>1, PTL

\* GET gets what its activation has PUT (emulate.c, handle_get), with the same two
\* exceptions.
THEOREM GetCorrect == Spec => GetReturnsPut
<1> DEFINE Right ==
      \A t \in Threads :
        result' # Nothing /\ result'.by = t /\ Key(t) \notin clashed
          /\ Isolated(Key(t), result'.id) =>
        LET e == dict[t][Len(dict[t])][result'.id]
        IN e # Unset =>
             \A k \in DOMAIN result'.got : k <= Bytes(e.v) => result'.got[k] = e.mark
<1>1. Inv /\ Next => Right \/ UNCHANGED vars
  <2> SUFFICES ASSUME Inv, Next, ~ UNCHANGED vars PROVE Right
    OBVIOUS
  <2>0. TypeOK /\ LocalsKept
    BY DEF Inv
  <2>1. ASSUME NEW t \in Threads, NEW id \in Ids, NEW v \in Widths, Get(t, id, v)
        PROVE  Right
    <3>1. PICK behind \in Marks \union {0} :
            result' = [by |-> t, id |-> id, got |-> Read(Place(Key(t), id), v, behind)]
      BY <2>1 DEF Get
    <3> DEFINE a == Place(Key(t), id)
               e == dict[t][Len(dict[t])][id]
    <3>2. SUFFICES ASSUME Key(t) \notin clashed, Isolated(Key(t), id), e # Unset,
                          NEW k \in 1 .. Bytes(v), k <= Bytes(e.v)
                   PROVE  Read(a, v, behind)[k] = e.mark
      BY <3>1 DEF Read
    <3>3. /\ Len(dict[t]) \in DOMAIN dict[t] /\ Key(t) = KeyOf(t, Len(dict[t]))
          /\ Key(t) \in Keys
      BY <2>0, TopKey, KeyTyped
    <3>4. t \in live
      BY <2>1 DEF Get
    <3>5. e.v \in 1 .. 3
      <4>1. e \in Entries
        BY <2>0, <3>3 DEF TypeOK
      <4> QED BY <3>2, <4>1, LocalsAssumption DEF Entries
    <3>6. a \in Nat
      BY <3>3, PlaceTyped
    <3>7. \A b \in BytesAt(a, e.v) : vmem[b] = e.mark
      BY <2>0, <3>2, <3>3, <3>4 DEF LocalsKept
    <3>8. Bytes(e.v) \in Nat /\ Bytes(v) \in Nat
      BY DEF Bytes
    <3>9. BytesAt(a, e.v) \subseteq Area
      BY <3>2, <3>3, <3>5, IsolatedBytes DEF Cells
    <3> HIDE DEF a, e
    <3>10. a + k - 1 \in BytesAt(a, e.v)
      BY <3>2, <3>6, <3>8 DEF BytesAt
    <3> QED BY <3>7, <3>9, <3>10 DEF Read
  <2>2. ASSUME result' = Nothing PROVE Right
    BY <2>2
  <2>3. ASSUME NEW t \in Threads, NEW id \in Ids, NEW v \in Widths, NEW m \in Marks,
               Put(t, id, v, m)
        PROVE  result' = Nothing
    BY <2>3 DEF Put
  <2>4. ASSUME NEW t \in Threads, NEW s \in Sites, Call(t, s) PROVE result' = Nothing
    BY <2>4 DEF Call
  <2>5. ASSUME NEW t \in Threads, Ret(t) \/ Leave(t) \/ Exit(t) PROVE result' = Nothing
    BY <2>5 DEF Ret, Leave, Exit
  <2> QED BY <2>1, <2>2, <2>3, <2>4, <2>5 DEF Next, Ended
<1>2. Inv /\ [Next]_vars => [Right]_vars
  BY <1>1
<1> QED BY Invariant, <1>2, PTL DEF Spec, GetReturnsPut

-----------------------------------------------------------------------------
(* The hash.                                                               *)

\* The multiplication in two parts is the multiplication.
LEMMA TimesIs ==
  ASSUME NEW x \in Nat, x < Half
  PROVE  Times(x, 50354) = (x * 50354) % Half
  BY DEF Times, Half

LEMMA Bits ==
  ASSUME NEW x \in 0 .. 15
  PROVE  /\ x % 2 \in 0 .. 1 /\ (x \div 2) % 2 \in 0 .. 1
         /\ (x \div 4) % 2 \in 0 .. 1 /\ (x \div 8) % 2 \in 0 .. 1
         /\ x = (x % 2) + 2 * ((x \div 2) % 2) + 4 * ((x \div 4) % 2) + 8 * ((x \div 8) % 2)
         /\ x \div 1 = x
  OBVIOUS

LEMMA Digits ==
  ASSUME NEW x \in 0 .. 15
  PROVE  /\ XorDigit(x, 0) = x
         /\ \A i \in 0 .. 7 :
              XorDigit(x, i) \in 0 .. 15 /\ XorDigit(x, i) \div 8 = x \div 8
         /\ \A i, j \in 0 .. 7 : i # j => XorDigit(x, i) # XorDigit(x, j)
<1>1. XorDigit(x, 0) = x
  BY Bits DEF XorDigit, XorBit
<1>2. ASSUME NEW i \in 0 .. 7
      PROVE  XorDigit(x, i) \in 0 .. 15 /\ XorDigit(x, i) \div 8 = x \div 8
  BY Bits DEF XorDigit, XorBit
<1>3. ASSUME NEW i \in 0 .. 7, NEW j \in 0 .. 7, i # j
      PROVE  XorDigit(x, i) # XorDigit(x, j)
  <2> SUFFICES ASSUME XorDigit(x, i) = XorDigit(x, j) PROVE i = j
    BY <1>3
  <2>1. \A y \in 0 .. 7 : /\ XorBit(x, y, 1) \in {0, 1} /\ XorBit(x, y, 2) \in {0, 2}
                         /\ XorBit(x, y, 4) \in {0, 4} /\ XorBit(x, y, 8) \in {0, 8}
    BY DEF XorBit
  <2>2. \A w \in {1, 2, 4, 8} : XorBit(x, i, w) = XorBit(x, j, w)
    BY <2>1 DEF XorDigit
  <2>3. \A w \in {1, 2, 4, 8} : \A y \in 0 .. 15 : (y \div w) % 2 \in 0 .. 1
    OBVIOUS
  <2>4. \A w \in {1, 2, 4, 8} : (i \div w) % 2 = (j \div w) % 2
    BY <2>2, <2>3 DEF XorBit
  <2>5. i \in 0 .. 15 /\ j \in 0 .. 15
    OBVIOUS
  <2> QED BY <2>4, <2>5, Bits
<1> QED BY <1>1, <1>2, <1>3

LEMMA Far ==
  ASSUME NEW x \in Nat, x < Half, NEW y \in Nat, y < Half, x - y \in 1 .. 7
  PROVE  LET a == (x * 50354) % Half
             b == (y * 50354) % Half
         IN a + 4 <= b \/ b + 4 <= a
<1> DEFINE b == (y * 50354) % 65536
           q == (y * 50354) \div 65536
           a == (x * 50354) % 65536
<1>1. x \in Int /\ y \in Int
  BY DEF Half
<1>2. b \in Nat /\ b < 65536 /\ q \in Int /\ y * 50354 = 65536 * q + b
  <2>1. \A n \in Int : /\ n % 65536 \in Nat /\ n % 65536 < 65536 /\ n \div 65536 \in Int
                       /\ n = 65536 * (n \div 65536) + (n % 65536)
    OBVIOUS
  <2> QED BY <1>1, <2>1
<1> HIDE DEF b, q
<1>3. ASSUME NEW d \in 1 .. 7, x = y + d
      PROVE  a = (b + d * 50354) % 65536
  <2>1. x * 50354 = 65536 * q + b + d * 50354
    BY <1>1, <1>2, <1>3
  <2> QED BY <1>2, <2>1
<1>4. x = y + 1 => a = (b + 50354) % 65536
  BY <1>3
<1>5. x = y + 2 => a = (b + 100708) % 65536
  BY <1>3
<1>6. x = y + 3 => a = (b + 151062) % 65536
  BY <1>3
<1>7. x = y + 4 => a = (b + 201416) % 65536
  BY <1>3
<1>8. x = y + 5 => a = (b + 251770) % 65536
  BY <1>3
<1>9. x = y + 6 => a = (b + 302124) % 65536
  BY <1>3
<1>10. x = y + 7 => a = (b + 352478) % 65536
  BY <1>3
<1> HIDE DEF a
<1>11. a + 4 <= b \/ b + 4 <= a
  BY <1>1, <1>2, <1>4, <1>5, <1>6, <1>7, <1>8, <1>9, <1>10
<1> QED BY <1>11 DEF a, b, Half

LEMMA XorSmall ==
  ASSUME NEW h \in Nat, h < Half, NEW i \in 0 .. 7
  PROVE  Xor(h, i) = 16 * (h \div 16) + XorDigit(h % 16, i)
<1>1. h % 16 \in 0 .. 15 /\ (h \div 16) % 16 \in 0 .. 15
      /\ (h \div 256) % 16 \in 0 .. 15 /\ (h \div 4096) % 16 \in 0 .. 15
  BY DEF Half
<1>2. i % 16 = i /\ (i \div 1) % 16 = i /\ (i \div 16) % 16 = 0
      /\ (i \div 256) % 16 = 0 /\ (i \div 4096) % 16 = 0 /\ h \div 1 = h
  BY DEF Half
<1>3. /\ XorAt(h, i, 1) = XorDigit(h % 16, i)
      /\ XorAt(h, i, 16) = ((h \div 16) % 16) * 16
      /\ XorAt(h, i, 256) = ((h \div 256) % 16) * 256
      /\ XorAt(h, i, 4096) = ((h \div 4096) % 16) * 4096
  BY <1>1, <1>2, Digits DEF XorAt
<1>4. XorDigit(h % 16, i) \in 0 .. 15
  BY <1>1, Digits
<1>5. 16 * (h \div 16) = ((h \div 16) % 16) * 16 + ((h \div 256) % 16) * 256
                         + ((h \div 4096) % 16) * 4096
  BY DEF Half
<1>6. Xor(h, i) = XorDigit(h % 16, i) + ((h \div 16) % 16) * 16
                    + ((h \div 256) % 16) * 256 + ((h \div 4096) % 16) * 4096
  BY <1>3 DEF Xor
<1> DEFINE low == XorDigit(h % 16, i)
           n1 == (h \div 16) % 16
           n2 == (h \div 256) % 16
           n3 == (h \div 4096) % 16
<1>7. low \in 0 .. 15 /\ n1 \in 0 .. 15 /\ n2 \in 0 .. 15 /\ n3 \in 0 .. 15
  BY <1>1, <1>4
<1>8. Xor(h, i) = low + n1 * 16 + n2 * 256 + n3 * 4096
  BY <1>6
<1>9. 16 * (h \div 16) = n1 * 16 + n2 * 256 + n3 * 4096
  BY <1>5
<1> HIDE DEF low, n1, n2, n3
<1>10. Xor(h, i) = 16 * (h \div 16) + low
  BY <1>7, <1>8, <1>9
<1> QED BY <1>10 DEF low

LEMMA SpreadApart ==
  ASSUME NEW h \in Nat, h < Half, NEW i \in 0 .. 7, NEW j \in 0 .. 7, i # j
  PROVE  Spread(h, i) + 4 <= Spread(h, j) \/ Spread(h, j) + 4 <= Spread(h, i)
<1> DEFINE x == Xor(h, i)
           y == Xor(h, j)
<1>1. h % 16 \in 0 .. 15 /\ h \div 16 \in Nat /\ h \div 16 < 4096
  BY DEF Half
<1>2. /\ x = 16 * (h \div 16) + XorDigit(h % 16, i)
      /\ y = 16 * (h \div 16) + XorDigit(h % 16, j)
  BY XorSmall
<1>3. /\ XorDigit(h % 16, i) \in 0 .. 15 /\ XorDigit(h % 16, j) \in 0 .. 15
      /\ XorDigit(h % 16, i) \div 8 = XorDigit(h % 16, j) \div 8
      /\ XorDigit(h % 16, i) # XorDigit(h % 16, j)
  BY <1>1, Digits
<1>4. x \in Nat /\ x < Half /\ y \in Nat /\ y < Half
  BY <1>1, <1>2, <1>3 DEF Half
<1>5. x - y \in 1 .. 7 \/ y - x \in 1 .. 7
  BY <1>1, <1>2, <1>3
<1>6. Spread(h, i) = (x * 50354) % Half /\ Spread(h, j) = (y * 50354) % Half
  BY <1>4, TimesIs DEF Spread
<1> HIDE DEF x, y
<1> QED BY <1>4, <1>5, <1>6, Far

\* The four turns leave a word of 16 bits.
LEMMA TurnTyped ==
  ASSUME NEW h \in Nat, NEW base \in Nat, NEW i \in 0 .. 3
  PROVE  Turn(h, base, i) \in Nat /\ Turn(h, base, i) < Half
<1>1. ASSUME NEW x \in Nat, NEW y \in Nat, NEW w \in Nat PROVE XorBit(x, y, w) \in Nat
  BY <1>1 DEF XorBit
<1>2. ASSUME NEW x \in Nat, NEW y \in Nat PROVE XorDigit(x, y) \in Nat
  <2>1. /\ XorBit(x, y, 1) \in Nat /\ XorBit(x, y, 2) \in Nat
        /\ XorBit(x, y, 4) \in Nat /\ XorBit(x, y, 8) \in Nat
    BY <1>1
  <2> QED BY <2>1 DEF XorDigit
<1>3. \A n \in Nat : \A w \in {1, 16, 256, 4096} : (n \div w) % 16 \in Nat
  OBVIOUS
<1>4. ASSUME NEW x \in Nat, NEW y \in Nat, NEW w \in {1, 16, 256, 4096}
      PROVE  XorAt(x, y, w) \in Nat
  <2>1. XorDigit((x \div w) % 16, (y \div w) % 16) \in Nat
    BY <1>2, <1>3
  <2> QED BY <2>1 DEF XorAt
<1>5. ASSUME NEW x \in Nat, NEW y \in Nat PROVE Xor(x, y) \in Nat
  <2>1. /\ XorAt(x, y, 1) \in Nat /\ XorAt(x, y, 16) \in Nat
        /\ XorAt(x, y, 256) \in Nat /\ XorAt(x, y, 4096) \in Nat
    BY <1>4
  <2> QED BY <2>1 DEF Xor
<1>6. ASSUME NEW x \in Nat PROVE Times(x, 26741) \in Nat /\ Times(x, 26741) < Half
  BY DEF Times, Half
<1>7. Shifted(base, i) \in Nat
  BY DEF Shifted
<1>8. Xor(h, Shifted(base, i)) \in Nat
  BY <1>5, <1>7
<1> QED BY <1>6, <1>8 DEF Turn

\* Whatever the return address (emulate.c, fnv1a_hash), two of the identifiers 0 to
\* 7, all that the virtual program uses, get four bytes each.
THEOREM HashesApart ==
  ASSUME NEW base \in Nat, NEW i \in 0 .. 7, NEW j \in 0 .. 7, i # j
  PROVE  \/ fnv1a_hash(base, i) + 4 <= fnv1a_hash(base, j)
         \/ fnv1a_hash(base, j) + 4 <= fnv1a_hash(base, i)
<1>1. Mixed(base) \in Nat /\ Mixed(base) < Half
  <2> DEFINE h1 == Turn(52194, base, 0)
             h2 == Turn(h1, base, 1)
             h3 == Turn(h2, base, 2)
             h4 == Turn(h3, base, 3)
  <2>1. h1 \in Nat
    BY TurnTyped
  <2>2. h2 \in Nat
    BY <2>1, TurnTyped
  <2>3. h3 \in Nat
    BY <2>2, TurnTyped
  <2>4. h4 \in Nat /\ h4 < Half
    BY <2>3, TurnTyped
  <2> QED BY <2>4 DEF Mixed
<1> QED BY <1>1, SpreadApart DEF fnv1a_hash

\* No two of the eight variables of an activation overlap, whatever the call it
\* belongs to (emulate.c, fnv1a_hash).
THEOREM ApartAlways == Spec => []VariablesApart
<1>1. TypeOK => VariablesApart
  <2> SUFFICES ASSUME TypeOK, NEW t \in live, NEW i \in 0 .. 7, NEW j \in 0 .. 7, i # j
               PROVE  \/ Table[Key(t)][i] + 4 <= Table[Key(t)][j]
                      \/ Table[Key(t)][j] + 4 <= Table[Key(t)][i]
    BY DEF VariablesApart
  <2>1. Key(t) \in Keys
    BY TopKey, KeyTyped DEF TypeOK
  <2>2. Key(t) \in Nat
    <3>1. Keys \subseteq Nat
      BY SitesAssumption DEF Keys, NoSite
    <3> QED BY <2>1, <3>1
  <2> DEFINE key == Key(t)
  <2> HIDE DEF key
  <2>3. ASSUME NEW k \in 0 .. 7 PROVE Table[key][k] = fnv1a_hash(key, k)
    BY <2>1 DEF Table, key
  <2>4. \/ fnv1a_hash(key, i) + 4 <= fnv1a_hash(key, j)
        \/ fnv1a_hash(key, j) + 4 <= fnv1a_hash(key, i)
    BY <2>2, HashesApart DEF key
  <2> QED BY <2>3, <2>4 DEF key
<1> QED BY TypeCorrect, <1>1, PTL
=============================================================================
