----------------------- MODULE ForkHandshake_proofs -------------------------
(***************************************************************************)
(* handle_fork loses no wake-up, implements the abstract FORK and gives no *)
(* two children the same native stack, in both builds, for any number of   *)
(* threads and stacks, whether or not children return from their entry     *)
(* points.                                                                 *)
(***************************************************************************)
EXTENDS ForkHandshake, TLAPS

\* A child that has returned from emulate and removed the stack of its birth.
Gone(c) == pc[c] = "nowhere"
Settled(c) == pc[c] \notin {"idle", "nowhere"}

\* A thread that owns the mapping its variable `stack' names.
Cloning == {"clear", "clone"}
Holding(p) == pc[p] \in Cloning \/ (pc[p] \in Waiting /\ ~Gone(child[p]))

\* The mapping of a fork in progress is mapped and belongs to it alone.
StacksOwned ==
  \A p \in Threads : Holding(p) =>
    /\ stack[p] \in mapped
    /\ \A q \in Threads : Holding(q) /\ q # p => stack[q] # stack[p]

\* No two threads were born on the same mapping, and the mapping of a fork that
\* has not cloned yet is nobody's birth place and holds a lowered flag.
SlotsOwned ==
  /\ \A c \in Threads : Settled(c) =>
       /\ slot[c] \in mapped \cup {0}
       /\ slot[c] = 0 => c = Main
       /\ \A d \in Threads : Settled(d) /\ d # c => slot[d] # slot[c]
  /\ \A p \in Threads : pc[p] \in Cloning =>
       /\ \A c \in Threads : Settled(c) => slot[c] # stack[p]
       /\ flag[stack[p]] = 0

\* A waiting parent and the child it cloned use the same ready flag, which is
\* raised as soon as the child has passed its first instruction, up to the
\* point where a child that has returned leaves the word to other forks.
ChildrenKnown ==
  \A p \in Threads : pc[p] \in Waiting =>
    /\ pc[child[p]] # "idle"
    /\ slot[child[p]] = stack[p]
    /\ ~Gone(child[p]) => (pc[child[p]] # "set" <=> flag[stack[p]] = 1)

\* A hoisted read that saw the flag raised saw it for the current child.
LoadedKnown ==
  \A p \in Threads :
    hoisted /\ pc[p] \in Waiting \ {"load"} /\ loaded[p] # 0 => pc[child[p]] # "set"

Inv == TypeOK /\ StacksOwned /\ SlotsOwned /\ ChildrenKnown /\ LoadedKnown /\ NoLostWakeup

LEMMA InitInv == Init => Inv
  BY ForkAssumption DEF Init, Inv, TypeOK, StacksOwned, SlotsOwned, ChildrenKnown,
     LoadedKnown, NoLostWakeup, Abandoned, Holding, Settled, Gone, Cloning, Waiting,
     Locations, Slots

LEMMA TypeNext ==
  ASSUME TypeOK, NEW t \in Threads,
         VmStep(t) \/ GuestStep(t) \/ Interrupted(t)
  PROVE  TypeOK'
<1> USE DEF TypeOK, Move, At, Locations, Waiting
<1>1. CASE MapStack(t) \/ MapFails(t) \/ GuestExits(t) \/ GuestReturns(t)
  BY <1>1 DEF MapStack, MapFails, GuestExits, GuestReturns
<1>2. CASE ClearFlag(t) \/ CloneFails(t) \/ Interrupted(t)
  BY <1>2 DEF ClearFlag, CloneFails, Interrupted
<1>3. CASE Clone(t)
  BY <1>3 DEF Clone
<1>4. CASE LoadOnce(t)
  BY <1>4 DEF LoadOnce
<1>5. CASE FutexWait(t) \/ CheckFlag(t)
  BY <1>5 DEF FutexWait, CheckFlag
<1>6. CASE SetFlag(t) \/ Wake(t)
  BY <1>6 DEF SetFlag, Wake, Sleepers
<1>7. CASE UnmapStack(t) \/ ReturnNowhere(t) \/ Fault(t)
  BY <1>7 DEF UnmapStack, ReturnNowhere, Fault
<1> QED
  BY <1>1, <1>2, <1>3, <1>4, <1>5, <1>6, <1>7 DEF VmStep, GuestStep

\* A step that only moves one thread, neither waiting nor about to signal,
\* to a place outside the handshake.
LEMMA MoveOut ==
  ASSUME Inv, TypeOK', NEW t \in Threads, NEW where,
         pc[t] \notin Waiting \cup {"idle", "set", "wake", "nowhere"},
         where \notin Waiting \cup Cloning \cup {"idle", "set", "nowhere"},
         pc' = [pc EXCEPT ![t] = where],
         UNCHANGED <<mapped, flag, slot, stack, child, loaded, hoisted>>
  PROVE  Inv'
<1> USE DEF Inv, TypeOK, Waiting, Cloning, Settled, Gone, Holding
<1>1. StacksOwned' /\ SlotsOwned'
  BY DEF StacksOwned, SlotsOwned
<1>2. ChildrenKnown' /\ LoadedKnown' /\ NoLostWakeup'
  BY DEF ChildrenKnown, LoadedKnown, NoLostWakeup, Abandoned
<1> QED BY <1>1, <1>2

\* Every step of the code, of a guest and of the kernel keeps the invariant.
LEMMA InvStep ==
  ASSUME Inv, NEW t \in Threads,
         VmStep(t) \/ GuestStep(t) \/ Interrupted(t)
  PROVE  Inv'
<1>t. TypeOK'
  BY TypeNext DEF Inv
<1> USE <1>t DEF Inv, TypeOK, Waiting, Cloning, Settled, Gone, Holding, At, Move
<1>1. CASE MapStack(t)
  <2>1. PICK k \in Slots \ mapped :
          /\ mapped' = mapped \cup {k}
          /\ stack' = [stack EXCEPT ![t] = k]
          /\ flag' = [flag EXCEPT ![k] = 0]
    BY <1>1 DEF MapStack
  <2>2. /\ pc' = [pc EXCEPT ![t] = "clear"] /\ pc[t] = "guest"
        /\ UNCHANGED <<slot, child, loaded, hoisted>>
    BY <1>1 DEF MapStack
  <2>a. Abandoned' = Abandoned
    BY <2>2 DEF Abandoned
  <2>3. NoLostWakeup' /\ LoadedKnown'
    BY <2>1, <2>2, <2>a DEF NoLostWakeup, LoadedKnown
  <2>4. StacksOwned'
    BY <2>1, <2>2 DEF StacksOwned
  <2>5. \A p \in Threads : Holding(p) =>
          stack'[p] = stack[p] /\ flag'[stack[p]] = flag[stack[p]]
    BY <2>1, <2>2 DEF StacksOwned
  <2>6. ChildrenKnown'
    BY <2>1, <2>2, <2>5 DEF ChildrenKnown
  <2>7. SlotsOwned'
    <3>1. k # 0 /\ \A c \in Threads : Settled(c) => slot[c] # k
      BY DEF SlotsOwned, Slots
    <3>2. flag'[stack'[t]] = 0 /\ stack'[t] = k
      BY <2>1
    <3> QED BY <2>1, <2>2, <2>5, <3>1, <3>2 DEF SlotsOwned
  <2> QED BY <2>3, <2>4, <2>6, <2>7
<1>2. CASE MapFails(t) \/ GuestExits(t) \/ CloneFails(t) \/ GuestReturns(t)
  BY <1>2, MoveOut DEF MapFails, GuestExits, CloneFails, GuestReturns
<1>3. CASE UnmapStack(t)
  <2>1. /\ mapped' = mapped \ {slot[t]}
        /\ pc' = [pc EXCEPT ![t] = "nowhere"] /\ pc[t] = "unmap"
        /\ UNCHANGED <<flag, slot, stack, child, loaded, hoisted>>
    BY <1>3 DEF UnmapStack
  <2>2. \A p \in Threads : Holding(p) /\ child[p] # t => stack[p] # slot[t]
    BY <2>1 DEF SlotsOwned, ChildrenKnown
  <2>3. \A p \in Threads : Holding(p)' =>
          Holding(p) /\ pc'[p] = pc[p] /\ (pc[p] \in Waiting => child[p] # t)
    BY <2>1
  <2>4. \A p \in Threads : pc[p] \in Cloning => stack[p] # slot[t]
    BY <2>1 DEF SlotsOwned
  <2>5. StacksOwned'
    BY <2>1, <2>2, <2>3, <2>4 DEF StacksOwned
  <2>6. SlotsOwned'
    BY <2>1 DEF SlotsOwned
  <2>7. ChildrenKnown' /\ LoadedKnown' /\ NoLostWakeup'
    BY <2>1 DEF ChildrenKnown, LoadedKnown, NoLostWakeup, Abandoned
  <2> QED BY <2>5, <2>6, <2>7
<1>4. CASE ClearFlag(t)
  <2>1. /\ flag' = [flag EXCEPT ![stack[t]] = 0]
        /\ pc' = [pc EXCEPT ![t] = "clone"] /\ pc[t] = "clear"
        /\ UNCHANGED <<mapped, slot, stack, child, loaded, hoisted>>
    BY <1>4 DEF ClearFlag
  <2>2. flag' = flag
    BY <2>1 DEF SlotsOwned
  <2>3. ChildrenKnown'
    BY <2>1, <2>2 DEF ChildrenKnown
  <2>4. StacksOwned' /\ NoLostWakeup' /\ LoadedKnown'
    BY <2>1 DEF StacksOwned, NoLostWakeup, LoadedKnown, Abandoned
  <2>5. SlotsOwned'
    BY <2>1, <2>2 DEF SlotsOwned
  <2> QED BY <2>3, <2>4, <2>5
<1>5. CASE Clone(t)
  <2>1. PICK c \in Threads :
          /\ pc[c] = "idle"
          /\ pc' = [pc EXCEPT ![t] = IF hoisted THEN "load" ELSE "wait", ![c] = "set"]
          /\ child' = [child EXCEPT ![t] = c]
          /\ slot' = [slot EXCEPT ![c] = stack[t]]
    BY <1>5 DEF Clone
  <2>2. pc[t] = "clone" /\ t # c /\ UNCHANGED <<mapped, flag, stack, loaded, hoisted>>
    BY <1>5, <2>1 DEF Clone
  <2>3. /\ pc'[t] \in {"load", "wait"} /\ (hoisted => pc'[t] = "load")
        /\ pc'[c] = "set" /\ child'[t] = c /\ slot'[c] = stack[t]
        /\ \A p \in Threads \ {t, c} : pc'[p] = pc[p]
        /\ \A p \in Threads \ {t} : child'[p] = child[p]
        /\ \A p \in Threads \ {c} : slot'[p] = slot[p]
    BY <2>1, <2>2
  <2>4. \A p \in Threads \ {t} : pc[p] \in Waiting =>
          child'[p] = child[p] /\ child[p] # c /\ slot'[child[p]] = slot[child[p]]
    BY <2>1, <2>3 DEF ChildrenKnown
  <2>5. \A p \in Threads \ {t} : pc[p] \in Waiting =>
          /\ pc'[child[p]] = "set" <=> pc[child[p]] = "set"
          /\ pc'[child[p]] = "nowhere" <=> pc[child[p]] = "nowhere"
    BY <2>2, <2>3, <2>4
  <2>6. \A p \in Threads : Holding(p)' => Holding(p)
    BY <2>2, <2>3, <2>4, <2>5
  <2>7. StacksOwned'
    BY <2>2, <2>6 DEF StacksOwned
  <2>8. ChildrenKnown'
    <3> SUFFICES ASSUME NEW p \in Threads, pc'[p] \in Waiting
                 PROVE  /\ pc'[child'[p]] # "idle"
                        /\ slot'[child'[p]] = stack'[p]
                        /\ pc'[child'[p]] # "nowhere" =>
                             (pc'[child'[p]] # "set" <=> flag'[stack'[p]] = 1)
      BY DEF ChildrenKnown
    <3>1. CASE p = t
      BY <2>2, <2>3, <3>1 DEF SlotsOwned
    <3>2. CASE p # t
      <4>1. p # c /\ pc[p] \in Waiting
        BY <2>3, <3>2
      <4>2. child'[p] = child[p] /\ child[p] # c /\ slot'[child[p]] = slot[child[p]]
        BY <2>4, <3>2, <4>1
      <4>3. pc'[child[p]] # "idle"
        BY <2>2, <2>3, <4>1, <4>2 DEF ChildrenKnown
      <4> QED BY <2>2, <2>5, <3>2, <4>1, <4>2, <4>3 DEF ChildrenKnown
    <3> QED BY <3>1, <3>2
  <2>9. LoadedKnown'
    BY <2>2, <2>3, <2>4, <2>5 DEF LoadedKnown
  <2>10. NoLostWakeup'
    <3> SUFFICES ASSUME NEW p \in Threads, pc'[p] = "asleep"
                 PROVE  pc'[child'[p]] \in {"set", "wake"} \/ stack'[p] \in Abandoned'
      BY DEF NoLostWakeup
    <3>1. p # t /\ p # c /\ pc[p] = "asleep"
      BY <2>3
    <3>2. CASE stack[p] \in Abandoned
      BY <2>2, <2>3, <3>2, <2>1 DEF Abandoned
    <3>3. CASE pc[child[p]] \in {"set", "wake"}
      BY <2>2, <2>3, <2>4, <3>1, <3>3
    <3> QED BY <3>1, <3>2, <3>3 DEF NoLostWakeup
  <2>11. SlotsOwned'
    <3>1. stack[t] \in mapped /\ stack[t] # 0
      BY <2>2 DEF StacksOwned, Slots
    <3>2. \A d \in Threads : d # c /\ Settled(d)' =>
            slot'[d] = slot[d] /\ Settled(d) /\ slot[d] # stack[t]
      BY <2>2, <2>3 DEF SlotsOwned
    <3>3. \A p \in Threads : pc'[p] \in Cloning =>
            p # t /\ pc[p] = pc'[p] /\ stack[p] # stack[t]
      BY <2>2, <2>3 DEF StacksOwned
    <3> QED BY <2>1, <2>2, <2>3, <3>1, <3>2, <3>3 DEF SlotsOwned
  <2> QED BY <2>7, <2>8, <2>9, <2>10, <2>11
<1>6. CASE LoadOnce(t)
  <2>1. /\ loaded' = [loaded EXCEPT ![t] = flag[stack[t]]]
        /\ pc' = [pc EXCEPT ![t] = "wait"] /\ pc[t] = "load"
        /\ stack[t] \in Slots
        /\ UNCHANGED <<mapped, flag, slot, stack, child, hoisted>>
    BY <1>6 DEF LoadOnce
  <2>2. StacksOwned' /\ SlotsOwned'
    BY <2>1 DEF StacksOwned, SlotsOwned
  <2>3. ChildrenKnown' /\ NoLostWakeup'
    BY <2>1 DEF ChildrenKnown, NoLostWakeup, Abandoned
  <2>4. flag[stack[t]] # 0 => pc[child[t]] # "set"
    BY <2>1 DEF ChildrenKnown
  <2>5. LoadedKnown'
    BY <2>1, <2>4 DEF LoadedKnown
  <2> QED BY <2>2, <2>3, <2>5
<1>7. CASE FutexWait(t)
  <2>1. /\ pc' = [pc EXCEPT ![t] = IF stack[t] \in mapped /\ flag[stack[t]] = 0
                                    THEN "asleep" ELSE "check"]
        /\ pc[t] = "wait" /\ UNCHANGED <<mapped, flag, slot, stack, child, loaded, hoisted>>
    BY <1>7 DEF FutexWait
  <2>2. StacksOwned' /\ SlotsOwned'
    BY <2>1 DEF StacksOwned, SlotsOwned
  <2>3. ChildrenKnown' /\ LoadedKnown'
    BY <2>1 DEF ChildrenKnown, LoadedKnown
  <2>4. pc'[t] = "asleep" => pc[child[t]] = "set" \/ stack[t] \in Abandoned
    BY <2>1 DEF ChildrenKnown, Abandoned
  <2>5. NoLostWakeup'
    BY <2>1, <2>4 DEF NoLostWakeup, Abandoned
  <2> QED BY <2>2, <2>3, <2>5
<1>8. CASE Interrupted(t) \/ CheckFlag(t)
  <2>1. /\ pc[t] \in {"asleep", "check"}
        /\ \E where \in {"check", "wait", "guest"} : pc' = [pc EXCEPT ![t] = where]
        /\ UNCHANGED <<mapped, flag, slot, stack, child, loaded, hoisted>>
    BY <1>8 DEF Interrupted, CheckFlag
  <2>2. StacksOwned' /\ SlotsOwned'
    BY <2>1 DEF StacksOwned, SlotsOwned
  <2>3. ChildrenKnown' /\ LoadedKnown'
    BY <2>1 DEF ChildrenKnown, LoadedKnown
  <2>4. NoLostWakeup'
    BY <2>1 DEF NoLostWakeup, Abandoned
  <2> QED BY <2>2, <2>3, <2>4
<1>9. CASE SetFlag(t)
  <2>1. /\ flag' = [flag EXCEPT ![slot[t]] = 1]
        /\ pc' = [pc EXCEPT ![t] = "wake"] /\ pc[t] = "set"
        /\ UNCHANGED <<mapped, slot, stack, child, loaded, hoisted>>
    BY <1>9 DEF SetFlag
  <2>2. StacksOwned' /\ NoLostWakeup' /\ LoadedKnown'
    BY <2>1 DEF StacksOwned, NoLostWakeup, LoadedKnown, Abandoned
  <2>3. SlotsOwned'
    BY <2>1 DEF SlotsOwned
  <2>4. \A p \in Threads : pc[p] \in Waiting /\ child[p] = t => flag'[stack[p]] = 1
    BY <2>1 DEF ChildrenKnown, StacksOwned
  <2>5. \A p \in Threads : Holding(p) /\ pc[p] \in Waiting /\ child[p] # t =>
          slot[t] # stack[p]
    BY <2>1 DEF ChildrenKnown, SlotsOwned
  <2>6. ChildrenKnown'
    <3> SUFFICES ASSUME NEW p \in Threads, pc'[p] \in Waiting
                 PROVE  /\ pc'[child[p]] # "idle"
                        /\ slot[child[p]] = stack[p]
                        /\ pc'[child[p]] # "nowhere" =>
                             (pc'[child[p]] # "set" <=> flag'[stack[p]] = 1)
      BY <2>1 DEF ChildrenKnown
    <3>1. pc[p] \in Waiting
      BY <2>1
    <3>2. CASE child[p] = t
      BY <2>1, <2>4, <3>1, <3>2 DEF ChildrenKnown
    <3>3. CASE child[p] # t
      BY <2>1, <2>5, <3>1, <3>3 DEF ChildrenKnown
    <3> QED BY <3>2, <3>3
  <2> QED BY <2>2, <2>3, <2>6
<1>10. CASE Wake(t)
  <2>1. /\ \/ Sleepers(t) = {} /\ pc' = [pc EXCEPT ![t] = "guest"]
           \/ \E w \in Sleepers(t) : pc' = [pc EXCEPT ![t] = "guest", ![w] = "check"]
        /\ pc[t] = "wake" /\ UNCHANGED <<mapped, flag, slot, stack, child, loaded, hoisted>>
    BY <1>10 DEF Wake
  <2>2. \A p \in Threads : /\ pc'[p] \in Waiting => pc[p] \in Waiting
                           /\ pc'[p] \in Cloning => pc[p] = pc'[p]
                           /\ pc'[p] = "set" <=> pc[p] = "set"
                           /\ pc'[p] = "idle" <=> pc[p] = "idle"
                           /\ pc'[p] = "nowhere" <=> pc[p] = "nowhere"
                           /\ pc'[p] = "load" <=> pc[p] = "load"
    BY <2>1 DEF Sleepers
  <2>3. StacksOwned' /\ SlotsOwned'
    BY <2>1, <2>2 DEF StacksOwned, SlotsOwned
  <2>4. ChildrenKnown' /\ LoadedKnown'
    BY <2>1, <2>2 DEF ChildrenKnown, LoadedKnown
  <2>5. Abandoned' = Abandoned
    BY <2>1, <2>2 DEF Abandoned
  <2>6. NoLostWakeup'
    <3> SUFFICES ASSUME NEW p \in Threads, pc'[p] = "asleep"
                 PROVE  pc'[child[p]] \in {"set", "wake"} \/ stack[p] \in Abandoned
      BY <2>1, <2>5 DEF NoLostWakeup
    <3>1. p # t /\ pc[p] = "asleep"
      BY <2>1 DEF Sleepers
    <3>2. CASE child[p] = t
      <4>1. slot[t] = stack[p] /\ Holding(p)
        BY <2>1, <3>1, <3>2 DEF ChildrenKnown
      <4>2. PICK w \in Sleepers(t) : pc' = [pc EXCEPT ![t] = "guest", ![w] = "check"]
        BY <2>1, <3>1, <4>1 DEF Sleepers
      <4>3. w \in Threads /\ w # p /\ pc[w] = "asleep" /\ stack[w] = stack[p]
        BY <3>1, <4>1, <4>2 DEF Sleepers
      <4>4. Gone(child[w]) /\ slot[child[w]] = stack[w] /\ child[w] \in Threads
        BY <4>1, <4>3 DEF StacksOwned, ChildrenKnown
      <4> QED BY <4>3, <4>4 DEF Abandoned
    <3>3. CASE child[p] # t
      BY <2>1, <2>2, <3>1, <3>3 DEF NoLostWakeup, Sleepers
    <3> QED BY <3>2, <3>3
  <2> QED BY <2>3, <2>4, <2>6
<1>11. CASE Fault(t) \/ ReturnNowhere(t)
  BY <1>11 DEF Fault, ReturnNowhere, StacksOwned, SlotsOwned, ChildrenKnown, LoadedKnown,
     NoLostWakeup, Abandoned
<1> QED
  BY <1>1, <1>2, <1>3, <1>4, <1>5, <1>6, <1>7, <1>8, <1>9, <1>10, <1>11
  DEF VmStep, GuestStep

LEMMA InvNext == Inv /\ [Next]_vars => Inv'
<1> SUFFICES ASSUME Inv, [Next]_vars PROVE Inv'
  OBVIOUS
<1>1. CASE UNCHANGED vars
  BY <1>1 DEF vars, Inv, TypeOK, StacksOwned, SlotsOwned, ChildrenKnown, LoadedKnown,
     NoLostWakeup, Abandoned, Holding, Settled, Gone
<1> QED
  BY <1>1, InvStep DEF Next, Terminating

\* The variables of the fork stay well typed, for any number of threads.
THEOREM TypeCorrect == Spec => []TypeOK
<1>1. Inv => TypeOK
  BY DEF Inv
<1> QED
  BY <1>1, InitInv, InvNext, PTL DEF Spec

-----------------------------------------------------------------------------
\* Multiplication by the size of a stack, as the address space uses it.
LEMMA Monotone ==
  ASSUME NEW a \in Nat, NEW b \in Nat, NEW S \in Nat, a <= b
  PROVE  a * S <= b * S
  BY SMTT(30)

LEMMA Distributes ==
  ASSUME NEW m \in Nat, NEW k \in Nat, NEW S \in Nat
  PROVE  /\ (m - k) * S + S + S - 1 = (m - (k - 1)) * S + (S - 1)
         /\ (m - k) * S = m * S - k * S
  BY SMTT(30)

LEMMA LastUnit ==
  ASSUME NEW a \in Nat, NEW S \in Nat \ {0}
  PROVE  (a * S + (S - 1)) \div S = a
  BY SMTT(30)

\* A thread born on any stack but the first runs on the stack mapped before.
LEMMA HomeIsAbove ==
  ASSUME NEW k \in Slots, k # 1
  PROVE  Home(k) = k - 1
<1> DEFINE unit == ChildSp(k) - 1
           n == MaxStacks - (k - 1)
<1>1. n \in Nat /\ StackUnits \in Nat \ {0} /\ n <= MaxStacks - 1 /\ MaxStacks \in Nat
  BY ForkAssumption DEF Slots
<1>2. unit = n * StackUnits + (StackUnits - 1)
  BY <1>1, Distributes, ForkAssumption DEF ChildSp, Base, Slots
<1>3. n * StackUnits <= (MaxStacks - 1) * StackUnits
  BY <1>1, Monotone, ForkAssumption
<1>4. (MaxStacks - 1) * StackUnits = MaxStacks * StackUnits - StackUnits
  BY <1>1, Distributes, ForkAssumption
<1>5. /\ n * StackUnits \in Int
      /\ MaxStacks * StackUnits \in Int
      /\ (MaxStacks - 1) * StackUnits \in Int
  BY <1>1, ForkAssumption
<1>6. unit < VcodeBase
  BY <1>1, <1>2, <1>3, <1>4, <1>5 DEF VcodeBase
<1>7. unit \div StackUnits = n
  BY <1>1, <1>2, LastUnit
<1> QED BY <1>1, <1>6, <1>7 DEF Home, Slots

\* A thread born on the first stack runs above all of them.
LEMMA HomeOfFirst == Home(1) < 0
<1>1. ChildSp(1) - 1 = VcodeBase + StackUnits - 1
  BY Distributes, ForkAssumption DEF ChildSp, Base, VcodeBase
<1>2. VcodeBase \in Nat
  BY ForkAssumption DEF VcodeBase
<1>3. ~(ChildSp(1) - 1 < VcodeBase)
  BY <1>1, <1>2, ForkAssumption
<1> QED BY <1>3 DEF Home

\* No two live children run on the same native stack, whatever the sizes of the
\* mappings and however the guests end, although each runs above its own
\* (handle_fork hands clone3 the top of the stack, and clone3 adds its size).
THEOREM StacksCorrect == Spec => []StacksDisjoint
<1>1. Inv => StacksDisjoint
  <2> SUFFICES ASSUME Inv, NEW t \in Threads, NEW u \in Threads,
                      Live(t), Live(u), t # u
               PROVE  Home(slot[t]) # Home(slot[u])
    BY DEF StacksDisjoint
  <2>1. Settled(t) /\ Settled(u) /\ t # Main /\ u # Main
    BY DEF Live, Settled
  <2>2. slot[t] \in Slots /\ slot[u] \in Slots /\ slot[t] # slot[u]
    BY <2>1 DEF Inv, TypeOK, SlotsOwned
  <2>3. \A k \in Slots : k # 1 => k - 1 > 0
    BY ForkAssumption DEF Slots
  <2>4. CASE slot[t] # 1 /\ slot[u] # 1
    BY <2>2, <2>4, HomeIsAbove, ForkAssumption DEF Slots
  <2>5. CASE slot[t] = 1
    <3>1. Home(slot[u]) = slot[u] - 1 /\ slot[u] - 1 > 0 /\ slot[u] \in Int
      BY <2>2, <2>3, <2>5, HomeIsAbove, ForkAssumption DEF Slots
    <3> QED BY <2>5, <3>1, HomeOfFirst
  <2>6. CASE slot[u] = 1
    <3>1. Home(slot[t]) = slot[t] - 1 /\ slot[t] - 1 > 0 /\ slot[t] \in Int
      BY <2>2, <2>3, <2>6, HomeIsAbove, ForkAssumption DEF Slots
    <3> QED BY <2>6, <3>1, HomeOfFirst
  <2> QED BY <2>4, <2>5, <2>6
<1> QED
  BY <1>1, InitInv, InvNext, PTL DEF Spec

\* For any number of threads and with a futex that wakes one sleeper only, a
\* parent of handle_fork is asleep only while its own child is still to send its
\* wake, or on a word whose first child is about to crash the process.
THEOREM WakeupCorrect == Spec => []NoLostWakeup
<1>1. Inv /\ [Next]_vars => Inv'
  BY InvNext
<1>2. Inv => NoLostWakeup
  BY DEF Inv
<1> QED
  BY <1>1, <1>2, InitInv, PTL DEF Spec

\* A step that maps and unmaps nothing and gives no thread another stack, and
\* after which a thread owns a stack if it did.
LEMMA StillAccounted ==
  ASSUME MappingsAccounted, UNCHANGED <<mapped, slot, stack>>,
         \A u \in Threads :
           /\ pc[u] \notin {"idle", "nowhere"} => pc'[u] \notin {"idle", "nowhere"}
           /\ pc[u] \in {"clear", "clone", "done"} => pc'[u] \in {"clear", "clone", "done"}
  PROVE  MappingsAccounted'
  BY DEF MappingsAccounted

\* No native stack goes astray, for any number of threads and both ways a guest
\* can end: a child that ends by EXIT and a clone3 that fails are the only ones
\* to leave one behind (handle_fork).
THEOREM MappingsCorrect == Spec => []MappingsAccounted
<1>1. ASSUME Inv, MappingsAccounted, NEW t \in Threads,
             VmStep(t) \/ GuestStep(t) \/ Interrupted(t)
      PROVE  MappingsAccounted'
  <2> USE DEF Inv, TypeOK, Move, At, Waiting
  <2>1. CASE MapStack(t)
    BY <1>1, <2>1 DEF MapStack, MappingsAccounted
  <2>2. CASE MapFails(t) \/ GuestExits(t) \/ GuestReturns(t) \/ ClearFlag(t)
    BY <1>1, <2>2, StillAccounted DEF MapFails, GuestExits, GuestReturns, ClearFlag
  <2>3. CASE CloneFails(t) \/ Interrupted(t) \/ LoadOnce(t) \/ FutexWait(t)
    BY <1>1, <2>3, StillAccounted DEF CloneFails, Interrupted, LoadOnce, FutexWait
  <2>4. CASE CheckFlag(t) \/ SetFlag(t) \/ Wake(t)
    BY <1>1, <2>4, StillAccounted DEF CheckFlag, SetFlag, Wake, Sleepers
  <2>5. CASE ReturnNowhere(t) \/ Fault(t)
    BY <1>1, <2>5, StillAccounted DEF ReturnNowhere, Fault
  <2>6. CASE Clone(t)
    <3>1. PICK c \in Threads :
            /\ pc[c] = "idle"
            /\ pc' = [pc EXCEPT ![t] = IF hoisted THEN "load" ELSE "wait", ![c] = "set"]
            /\ slot' = [slot EXCEPT ![c] = stack[t]]
      BY <2>6 DEF Clone
    <3>2. pc[t] = "clone" /\ t # c /\ UNCHANGED <<mapped, stack>>
      BY <2>6, <3>1 DEF Clone
    <3> SUFFICES ASSUME NEW k \in mapped
                 PROVE  \E u \in Threads :
                          \/ slot'[u] = k /\ pc'[u] \notin {"idle", "nowhere"}
                          \/ stack[u] = k /\ pc'[u] \in {"clear", "clone", "done"}
      BY <3>2 DEF MappingsAccounted
    <3>3. PICK u \in Threads :
            \/ slot[u] = k /\ pc[u] \notin {"idle", "nowhere"}
            \/ stack[u] = k /\ pc[u] \in {"clear", "clone", "done"}
      BY <1>1 DEF MappingsAccounted
    <3>4. CASE slot[u] = k /\ pc[u] \notin {"idle", "nowhere"}
      BY <1>1, <3>1, <3>2, <3>4
    <3>5. CASE stack[u] = k /\ pc[u] \in {"clear", "clone", "done"}
      <4>1. CASE u = t
        BY <1>1, <3>1, <3>2, <3>5, <4>1
      <4>2. CASE u # t
        BY <1>1, <3>1, <3>2, <3>5, <4>2
      <4> QED BY <4>1, <4>2
    <3> QED BY <3>3, <3>4, <3>5
  <2>7. CASE UnmapStack(t)
    <3>1. /\ mapped' = mapped \ {slot[t]}
          /\ pc' = [pc EXCEPT ![t] = "nowhere"] /\ pc[t] = "unmap"
          /\ UNCHANGED <<slot, stack>>
      BY <2>7 DEF UnmapStack
    <3> QED BY <1>1, <3>1 DEF MappingsAccounted
  <2> QED
    BY <1>1, <2>1, <2>2, <2>3, <2>4, <2>5, <2>6, <2>7 DEF VmStep, GuestStep
<1>2. Inv /\ MappingsAccounted /\ [Next]_vars => MappingsAccounted'
  <2> SUFFICES ASSUME Inv, MappingsAccounted, [Next]_vars PROVE MappingsAccounted'
    OBVIOUS
  <2>1. CASE UNCHANGED vars
    BY <2>1 DEF vars, MappingsAccounted
  <2> QED BY <1>1, <2>1 DEF Next, Terminating
<1>3. Init => MappingsAccounted
  BY DEF Init, MappingsAccounted
<1> QED
  BY <1>2, <1>3, InitInv, InvNext, PTL DEF Spec
-----------------------------------------------------------------------------
\* A step of handle_fork that a program cannot see keeps every thread's place.
LEMMA Unseen ==
  ASSUME TypeOK, NEW t \in Threads, NEW where,
         pc' = [pc EXCEPT ![t] = where], UNCHANGED child,
         \/ pc[t] \in Waiting /\ where \in Waiting
         \/ {pc[t], where} \subseteq {"guest", "clear", "clone", "wake"}
         \/ {pc[t], where} \subseteq {"unmap", "nowhere", "done"}
  PROVE  UNCHANGED <<Place, child>>
BY DEF TypeOK, Place, Waiting

\* A step that takes one thread to another place shows in that place alone.
LEMMA PlaceMoves ==
  ASSUME TypeOK, NEW t \in Threads, NEW where, NEW there,
         pc' = [pc EXCEPT ![t] = where],
         there = IF where = "idle" THEN "unborn"
                 ELSE IF where = "set" THEN "born"
                 ELSE IF where \in Waiting THEN "waits"
                 ELSE IF where \in {"unmap", "nowhere", "done"} THEN "gone" ELSE "runs"
  PROVE  Place' = [Place EXCEPT ![t] = there]
BY DEF TypeOK, Place

\* Every step of handle_fork is a step of the abstract FORK or none of its.
LEMMA StepRefines ==
  ASSUME Inv, NEW t \in Threads,
         VmStep(t) \/ GuestStep(t) \/ Interrupted(t)
  PROVE  [Abstract!Next]_(Abstract!forkVars)
<1> USE DEF Inv, At, Move, Abstract!forkVars, Waiting
<1>1. CASE MapStack(t) \/ ClearFlag(t)
  BY <1>1, Unseen DEF MapStack, ClearFlag
<1>2. CASE MapFails(t) \/ CloneFails(t) \/ GuestExits(t) \/ GuestReturns(t)
  <2>1. /\ pc[t] \in {"guest", "clone"} /\ UNCHANGED child
        /\ \E where \in {"done", "unmap"} : pc' = [pc EXCEPT ![t] = where]
    BY <1>2 DEF MapFails, CloneFails, GuestExits, GuestReturns
  <2>2. Place[t] = "runs" /\ Place' = [Place EXCEPT ![t] = "gone"]
    BY <2>1, PlaceMoves DEF Place
  <2>3. Abstract!Stop(t)
    BY <2>1, <2>2 DEF Abstract!Stop
  <2> QED BY <2>3 DEF Abstract!Next
<1>3. CASE Clone(t)
  <2>1. PICK c \in Threads :
          /\ pc[c] = "idle" /\ pc[t] = "clone"
          /\ pc' = [pc EXCEPT ![t] = IF hoisted THEN "load" ELSE "wait", ![c] = "set"]
          /\ child' = [child EXCEPT ![t] = c]
    BY <1>3 DEF Clone
  <2>2. Place[t] = "runs" /\ Place[c] = "unborn"
    BY <2>1 DEF Place
  <2>3. Place' = [Place EXCEPT ![t] = "waits", ![c] = "born"]
    BY <2>1 DEF Place, TypeOK
  <2>4. Abstract!Create(t)
    BY <2>1, <2>2, <2>3 DEF Abstract!Create
  <2> QED BY <2>4 DEF Abstract!Next
<1>4. CASE LoadOnce(t) \/ FutexWait(t) \/ Interrupted(t)
  BY <1>4, Unseen DEF LoadOnce, FutexWait, Interrupted
<1>5. CASE CheckFlag(t)
  <2>1. CASE Seen(t) = 0
    BY <1>5, <2>1, Unseen DEF CheckFlag
  <2>2. CASE Seen(t) # 0
    <3>1. pc[t] = "check" /\ pc' = [pc EXCEPT ![t] = "guest"] /\ UNCHANGED child
      BY <1>5, <2>2 DEF CheckFlag
    <3>2. pc[child[t]] # "set"
      <4>1. CASE hoisted
        BY <2>2, <3>1, <4>1 DEF Seen, LoadedKnown
      <4>2. CASE ~hoisted
        <5>1. stack[t] \in Slots /\ flag[stack[t]] \in {0, 1} /\ flag[stack[t]] # 0
          BY <1>5, <2>2, <4>2 DEF CheckFlag, Seen, TypeOK
        <5> QED BY <3>1, <5>1 DEF ChildrenKnown, Gone
      <4> QED BY <4>1, <4>2 DEF TypeOK
    <3>3. Place[t] = "waits" /\ Place' = [Place EXCEPT ![t] = "runs"]
      BY <3>1, PlaceMoves DEF Place
    <3>4. Place[child[t]] # "born"
      BY <3>2 DEF Place, TypeOK
    <3>5. Abstract!Resume(t)
      BY <3>1, <3>3, <3>4 DEF Abstract!Resume
    <3> QED BY <3>5 DEF Abstract!Next
  <2> QED BY <2>1, <2>2
<1>6. CASE SetFlag(t)
  <2>1. pc[t] = "set" /\ pc' = [pc EXCEPT ![t] = "wake"] /\ UNCHANGED child
    BY <1>6 DEF SetFlag
  <2>2. Place[t] = "born"
    BY <2>1 DEF Place
  <2>3. Place' = [Place EXCEPT ![t] = "runs"]
    BY <2>1, PlaceMoves
  <2>4. Abstract!Report(t)
    BY <2>1, <2>2, <2>3 DEF Abstract!Report
  <2> QED BY <2>4 DEF Abstract!Next
<1>7. CASE Wake(t)
  <2>1. UNCHANGED <<Place, child>>
    BY <1>7 DEF Wake, Sleepers, Place, TypeOK
  <2> QED BY <2>1
<1>8. CASE UnmapStack(t)
  BY <1>8, Unseen DEF UnmapStack
<1>9. CASE Fault(t) \/ ReturnNowhere(t)
  BY <1>9 DEF Fault, ReturnNowhere, Place
<1> QED
  BY <1>1, <1>2, <1>3, <1>4, <1>5, <1>6, <1>7, <1>8, <1>9 DEF VmStep, GuestStep

\* handle_fork implements the abstract FORK: whatever the compiler made of its
\* loop and however flag, futex and signals interleave, it creates one thread and
\* resumes its parent once, after that thread has reported.
THEOREM ForkRefinement == Spec => ImplementsFork
<1>1. Init => Abstract!Init
  BY DEF Init, Place, Abstract!Init, Waiting
<1>2. Inv /\ [Next]_vars => [Abstract!Next]_(Abstract!forkVars)
  <2> SUFFICES ASSUME Inv, [Next]_vars PROVE [Abstract!Next]_(Abstract!forkVars)
    OBVIOUS
  <2>1. CASE UNCHANGED vars
    BY <2>1 DEF vars, Place, Abstract!forkVars
  <2> QED BY <2>1, StepRefines DEF Next, Terminating
<1> QED
  BY <1>1, <1>2, InitInv, InvNext, PTL DEF Spec, ImplementsFork, Abstract!Spec
=============================================================================
