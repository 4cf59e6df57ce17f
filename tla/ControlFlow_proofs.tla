------------------------ MODULE ControlFlow_proofs --------------------------
(***************************************************************************)
(* For every program, any number of threads and all sizes of the stacks:   *)
(*   - ControlFlow is type correct;                                        *)
(*   - a thread that lost no return address returns to its own caller,     *)
(*     whatever the other threads do to the shared list;                   *)
(*   - until the first FORK the shared list holds the pending calls;       *)
(*   - while threads take turns on it, it counts the pending calls of all  *)
(*     threads, and WEEPER_ERR_STACK means that they fill it;              *)
(*   - of two opposite conditions exactly one holds after a CMP;           *)
(*   - a program that does not fall out of its end crashes only behind a   *)
(*     return from an entry point.                                         *)
(* For every capacity and every size of a word, the linked frames of       *)
(* stack.c implement the bounded stack of words that the threads use.      *)
(***************************************************************************)
EXTENDS ControlFlow, CallStack, SequenceTheorems, FiniteSetTheorems, TLAPS

\* A thread in the middle of an instruction stands at an instruction.
InsideInstruction ==
  \A t \in Threads :
    pc[t] \in TouchingVmem \cup {"forkWait"} => vip[t] \in Addr

TypeInv == TypeOK /\ InsideInstruction

\* What fetch and decode yield (emulate.c:1622-1668): a well-formed instruction.
LEMMA HereType ==
  ASSUME NEW t \in Threads, vip[t] \in Addr
  PROVE  /\ Here(t).dst \in Addr /\ Here(t).next \in Return
         /\ Here(t).next # 0
  BY ProgramAssumption DEF Here, Insn, Return

\* An instruction is dispatched only at an address of the program.
LEMMA DispatchType ==
  ASSUME TypeOK, NEW t \in Threads, NEW op, Dispatch(t, op)
  PROVE  /\ vip[t] \in Addr /\ Here(t).dst \in Addr /\ Here(t).next \in Return
         /\ Here(t).next # 0
  BY HereType DEF Dispatch, TypeOK, Return

\* stack_pop and stack_push return and keep addresses (stack.c:18-48).
LEMMA StackTypes ==
  ASSUME NEW s \in Seq(Return), NEW d \in Return
  PROVE  /\ Pushed(s, d) \in Seq(Return) /\ Popped(s) \in Seq(Return)
         /\ TopOf(s) = AllOnes \/ TopOf(s) \in Return
         /\ TopOf(s) = AllOnes <=> s = << >>
<1>1. Pushed(s, d) \in Seq(Return)
  BY DEF Pushed
<1>2. s # << >> => Len(s) \in 1 .. Len(s) /\ s[Len(s)] \in Return
  BY EmptySeq, LenProperties
<1>3. s # << >> => SubSeq(s, 1, Len(s) - 1) \in Seq(Return)
  OBVIOUS
<1>4. AllOnes \notin Return
  BY ProgramAssumption DEF Return
<1> QED BY <1>1, <1>2, <1>3, <1>4 DEF Popped, TopOf, IsEmpty

-----------------------------------------------------------------------------
\* Init of emulate, _start and the kernel is well typed.
LEMMA TypeInit == Init => TypeInv
<1> SUFFICES ASSUME Init PROVE TypeInv
  OBVIOUS
<1>1. 0 \in Return /\ 0 \in 0 .. Slots /\ << >> \in Seq(Return)
  BY ProgramAssumption DEF Return
<1>2. TypeOK
  BY <1>1 DEF Init, TypeOK, Locations
<1>3. InsideInstruction
  BY DEF Init, InsideInstruction, TouchingVmem, Scanning
<1> QED BY <1>2, <1>3 DEF TypeInv

\* Every step of a thread keeps the types.
LEMMA TypeStep ==
  ASSUME TypeInv, NEW t \in Threads, Step(t)
  PROVE  TypeInv'
<1> USE DEF TypeInv, TypeOK, InsideInstruction, GoTo, Move, At, Locations,
            TouchingVmem, Scanning, Ended, context, history
<1>d. ASSUME NEW op, Dispatch(t, op)
      PROVE  /\ vip[t] \in Addr /\ Here(t).dst \in Return /\ Here(t).next \in Return
             /\ Here(t).dst \in Addr
  BY <1>d, DispatchType DEF Return
<1>1. CASE Cmp(t)
  <2>1. \A flag, d1, d2 : CompareFlags(flag, d1, d2) \in SUBSET Flags
    BY DEF CompareFlags, Flags
  <2> QED BY <1>1, <1>d, <2>1 DEF Cmp
<1>2. CASE Other(t)
  BY <1>2, <1>d DEF Other
<1>3. CASE Jmp(t)
  BY <1>3, <1>d DEF Jmp
<1>4. CASE Exit(t)
  BY <1>4, <1>d DEF Exit
<1>5. CASE CallStart(t)
  <2>1. 0 \in 0 .. Slots
    BY ProgramAssumption
  <2> QED BY <1>5, <1>d, <2>1 DEF CallStart
<1>6. CASE RetStart(t)
  <2>1. 0 \in 0 .. Slots
    BY ProgramAssumption
  <2> QED BY <1>6, <1>d, <2>1 DEF RetStart
<1>7. CASE ScanSlot(t)
  <2>1. scan[t] + 1 \in 0 .. Slots
    BY <1>7, ProgramAssumption DEF ScanSlot, ScanOver
  <2> QED BY <1>7, <2>1 DEF ScanSlot
<1>8. CASE CallScanned(t)
  BY <1>8 DEF CallScanned
<1>9. CASE CallStore(t)
  <2>1. Here(t).next \in Return /\ Here(t).dst \in Addr
    BY <1>9, HereType DEF CallStore
  <2>2. Pushed(callStack[t], Here(t).next) \in Seq(Return)
    BY <2>1, StackTypes
  <2>3. Append(pending[t], Here(t).next) \in Seq(Return)
    BY <2>1
  <2>4. IsFull(callStack[t]) \in BOOLEAN
    BY DEF IsFull
  <2> QED BY <1>9, <2>1, <2>2, <2>3, <2>4 DEF CallStore, Return
<1>10. CASE RetScanned(t)
  <2>1. Here(t).next \in Return
    BY <1>10, HereType DEF RetScanned
  <2> QED BY <1>10, <2>1 DEF RetScanned
<1>11. CASE RetClear(t)
  <2>1. Here(t).next \in Return
    BY <1>11, HereType DEF RetClear
  <2>2. /\ Popped(callStack[t]) \in Seq(Return) /\ Popped(pending[t]) \in Seq(Return)
        /\ TopOf(callStack[t]) = AllOnes \/ TopOf(callStack[t]) \in Return
    BY <2>1, StackTypes
  <2>3. 0 \in Return /\ End \in Return
    BY ProgramAssumption DEF Return
  <2>4. shadow' \in [0 .. Slots -> Return]
    BY <1>11, <2>3 DEF RetClear
  <2> QED BY <1>11, <2>2, <2>3, <2>4 DEF RetClear
<1>12. CASE ForkSkipped(t)
  BY <1>12, <1>d DEF ForkSkipped
<1>13. CASE ForkClone(t)
  <2>1. PICK c \in Threads :
          /\ pc[c] = "idle"
          /\ pc' = [pc EXCEPT ![t] = "forkWait", ![c] = "born"]
          /\ vip' = [vip EXCEPT ![c] = Here(t).dst]
          /\ child' = [child EXCEPT ![t] = c]
    BY <1>13 DEF ForkClone
  <2>2. vip[t] \in Addr /\ pc[t] = "run" /\ Here(t).dst \in Return
    BY <1>13, <1>d DEF ForkClone, Dispatch
  <2>3. TypeOK'
    BY <1>13, <2>1, <2>2 DEF ForkClone
  <2>4. t # c
    BY <2>1, <2>2
  <2>5. \A u \in Threads \ {t, c} : pc'[u] = pc[u] /\ vip'[u] = vip[u]
    BY <2>1
  <2>6. vip'[t] = vip[t] /\ pc'[c] = "born"
    BY <2>1, <2>4
  <2>7. InsideInstruction'
    BY <2>2, <2>5, <2>6
  <2> QED BY <2>3, <2>7
<1>14. CASE ForkFails(t)
  BY <1>14 DEF ForkFails
<1>15. CASE Born(t)
  BY <1>15 DEF Born
<1>16. CASE ForkReturns(t)
  <2>1. Here(t).next \in Return
    BY <1>16, HereType DEF ForkReturns
  <2> QED BY <1>16, <2>1 DEF ForkReturns
<1>17. CASE ChildReturns(t)
  BY <1>17 DEF ChildReturns
<1>18. CASE Fault(t)
  BY <1>18 DEF Fault
<1> QED
  BY <1>1, <1>2, <1>3, <1>4, <1>5, <1>6, <1>7, <1>8, <1>9, <1>10, <1>11,
     <1>12, <1>13, <1>14, <1>15, <1>16, <1>17, <1>18 DEF Step

LEMMA TypeTeardown == TypeInv /\ Teardown => TypeInv'
<1> SUFFICES ASSUME TypeInv, Teardown PROVE TypeInv'
  OBVIOUS
<1> USE ProgramAssumption DEF TypeInv, TypeOK, InsideInstruction, Move, At,
        Locations, TouchingVmem, Scanning, context, history
<1>1. CASE MainReturns
  BY <1>1 DEF MainReturns
<1>2. CASE UnmapVmem
  BY <1>2 DEF UnmapVmem
<1>3. CASE UnmapVcode
  BY <1>3 DEF UnmapVcode
<1>4. CASE ExitGroup
  BY <1>4 DEF ExitGroup
<1> QED BY <1>1, <1>2, <1>3, <1>4 DEF Teardown

LEMMA TypeNext == TypeInv /\ [Next]_vars => TypeInv'
<1> SUFFICES ASSUME TypeInv, [Next]_vars PROVE TypeInv'
  OBVIOUS
<1>1. CASE \E t \in Threads : Step(t)
  BY <1>1, TypeStep
<1>2. CASE Teardown
  BY <1>2, TypeTeardown
<1>3. CASE UNCHANGED vars
  BY <1>3 DEF vars, context, history, TypeInv, TypeOK, InsideInstruction
<1> QED
  BY <1>1, <1>2, <1>3 DEF Next, Terminating

\* Every variable of the emulator keeps its type, for every program.
THEOREM TypeCorrect == Spec => []TypeOK
<1>1. Spec => []TypeInv
  BY TypeInit, TypeNext, PTL DEF Spec
<1> QED
  BY <1>1, PTL DEF TypeInv

-----------------------------------------------------------------------------
\* A thread that has not begun has no pending call.
NewThreadsFresh ==
  \A t \in Threads : pc[t] \in {"idle", "born"} => pending[t] = << >>

Inv == TypeInv /\ NewThreadsFresh /\ StackHoldsCalls

\* The steps other than the end of CALL, the end of RET and the birth of a
\* thread leave the call stacks alone and start no thread.
QuietStep ==
  /\ UNCHANGED <<callStack, pending, lost>>
  /\ \A t \in Threads : pc'[t] \in {"idle", "born"} => pc[t] \in {"idle", "born"}

LEMMA MostStepsQuiet ==
  ASSUME TypeInv, NEW t \in Threads, Step(t)
  PROVE  CallStore(t) \/ RetClear(t) \/ Born(t) \/ QuietStep
<1> USE DEF QuietStep, TypeInv, TypeOK, GoTo, Move, At, Dispatch, context, history
<1>1. CASE Cmp(t) \/ Other(t) \/ Jmp(t) \/ Exit(t)
  BY <1>1 DEF Cmp, Other, Jmp, Exit
<1>2. CASE CallStart(t) \/ RetStart(t) \/ ScanSlot(t)
  BY <1>2 DEF CallStart, RetStart, ScanSlot
<1>3. CASE CallScanned(t) \/ RetScanned(t)
  BY <1>3 DEF CallScanned, RetScanned
<1>4. CASE ForkSkipped(t) \/ ForkFails(t) \/ ForkReturns(t)
  BY <1>4 DEF ForkSkipped, ForkFails, ForkReturns
<1>5. CASE ForkClone(t)
  BY <1>5 DEF ForkClone
<1>6. CASE ChildReturns(t) \/ Fault(t)
  BY <1>6 DEF ChildReturns, Fault
<1> QED
  BY <1>1, <1>2, <1>3, <1>4, <1>5, <1>6 DEF Step

LEMMA QuietKeeps ==
  NewThreadsFresh /\ StackHoldsCalls /\ QuietStep
    => NewThreadsFresh' /\ StackHoldsCalls'
  BY DEF NewThreadsFresh, StackHoldsCalls, QuietStep

\* The end of CALL pushes on both, unless the stack is full; the end of RET
\* pops both (emulate.c:687 and 714).
LEMMA InvNext == Inv /\ [Next]_vars => Inv'
<1> SUFFICES ASSUME Inv, [Next]_vars PROVE Inv'
  OBVIOUS
<1>t. TypeInv'
  BY TypeNext DEF Inv
<1> USE <1>t DEF Inv
<1>1. ASSUME NEW t \in Threads, CallStore(t) PROVE Inv'
  <2>1. /\ callStack' = [callStack EXCEPT ![t] = Pushed(@, Here(t).next)]
        /\ pending' = [pending EXCEPT ![t] = Append(@, Here(t).next)]
        /\ lost' = [lost EXCEPT ![t] = @ \/ IsFull(callStack[t])]
        /\ pc' = [pc EXCEPT ![t] = "run"]
    BY <1>1 DEF CallStore, GoTo, Move
  <2>2. ~lost'[t] => ~lost[t] /\ ~IsFull(callStack[t])
    BY <2>1 DEF TypeInv, TypeOK
  <2>3. ~lost'[t] => callStack'[t] = pending'[t]
    BY <2>1, <2>2 DEF StackHoldsCalls, Pushed, TypeInv, TypeOK
  <2>4. StackHoldsCalls'
    BY <2>1, <2>3 DEF StackHoldsCalls, TypeInv, TypeOK
  <2>5. NewThreadsFresh'
    BY <2>1 DEF NewThreadsFresh, TypeInv, TypeOK
  <2> QED BY <2>4, <2>5
<1>2. ASSUME NEW t \in Threads, RetClear(t) PROVE Inv'
  <2>1. /\ callStack' = [callStack EXCEPT ![t] = Popped(@)]
        /\ pending' = [pending EXCEPT ![t] = Popped(@)]
        /\ lost' = lost
        /\ pc' = [pc EXCEPT ![t] = "run"]
    BY <1>2 DEF RetClear, GoTo, Move
  <2>2. StackHoldsCalls'
    BY <2>1 DEF StackHoldsCalls, TypeInv, TypeOK
  <2>3. NewThreadsFresh'
    BY <2>1 DEF NewThreadsFresh, TypeInv, TypeOK
  <2> QED BY <2>2, <2>3
<1>3. ASSUME NEW t \in Threads, Born(t) PROVE Inv'
  <2>1. /\ callStack' = [callStack EXCEPT ![t] = << >>]
        /\ pending' = pending /\ lost' = lost
        /\ pc' = [pc EXCEPT ![t] = "run"]
        /\ pc[t] = "born"
    BY <1>3 DEF Born, Move, At, history
  <2>2. pending'[t] = << >>
    BY <2>1 DEF NewThreadsFresh
  <2>3. StackHoldsCalls'
    BY <2>1, <2>2 DEF StackHoldsCalls, TypeInv, TypeOK
  <2>4. NewThreadsFresh'
    BY <2>1 DEF NewThreadsFresh, TypeInv, TypeOK
  <2> QED BY <2>3, <2>4
<1>4. CASE QuietStep
  BY <1>4, QuietKeeps
<1>5. CASE Teardown
  <2>1. QuietStep
    BY <1>5 DEF Teardown, MainReturns, UnmapVmem, UnmapVcode, ExitGroup,
         QuietStep, Move, At, context, history, TypeInv, TypeOK
  <2> QED BY <2>1, QuietKeeps
<1>6. CASE UNCHANGED vars
  <2>1. QuietStep
    BY <1>6 DEF vars, context, history, QuietStep
  <2> QED BY <2>1, QuietKeeps
<1> QED
  BY <1>1, <1>2, <1>3, <1>4, <1>5, <1>6, MostStepsQuiet DEF Next, Terminating

LEMMA InvInit == Init => Inv
  BY TypeInit DEF Init, Inv, NewThreadsFresh, StackHoldsCalls

LEMMA InvHolds == Spec => []Inv
  BY InvInit, InvNext, PTL DEF Spec

\* Races on the shared list never reach a thread's own pending calls.
THEOREM PrivateStacksCorrect == Spec => []StackHoldsCalls
  BY InvHolds, PTL DEF Inv

\* The only step from "clear" to "run" is the end of RET (handle_ret).
LEMMA OnlyRetReturns ==
  ASSUME TypeInv, [Next]_vars, NEW t \in Threads, Returning(t)
  PROVE  RetClear(t)
<1> USE DEF Returning, TypeInv, TypeOK, GoTo, Move, At, Dispatch, Scanning
<1>1. ASSUME NEW u \in Threads, Step(u) PROVE RetClear(t)
  <2>1. u = t => RetClear(t)
    <3> SUFFICES ASSUME u = t PROVE RetClear(t)
      OBVIOUS
    <3>1. ~(Cmp(t) \/ Other(t) \/ Jmp(t) \/ Exit(t) \/ CallStart(t) \/ RetStart(t))
      BY DEF Cmp, Other, Jmp, Exit, CallStart, RetStart
    <3>2. ~(ScanSlot(t) \/ CallScanned(t) \/ CallStore(t) \/ RetScanned(t))
      BY DEF ScanSlot, CallScanned, CallStore, RetScanned
    <3>3. ~(ForkSkipped(t) \/ ForkClone(t) \/ ForkFails(t) \/ Born(t) \/ ForkReturns(t))
      BY DEF ForkSkipped, ForkClone, ForkFails, Born, ForkReturns
    <3>4. ~(ChildReturns(t) \/ Fault(t))
      BY DEF ChildReturns, Fault
    <3> QED BY <1>1, <3>1, <3>2, <3>3, <3>4 DEF Step
  <2>2. u = t
    <3> SUFFICES ASSUME u # t PROVE FALSE
      OBVIOUS
    <3>1. ~(Cmp(u) \/ Other(u) \/ Jmp(u) \/ Exit(u) \/ CallStart(u) \/ RetStart(u))
      BY DEF Cmp, Other, Jmp, Exit, CallStart, RetStart
    <3>2. ~(ScanSlot(u) \/ CallScanned(u) \/ CallStore(u) \/ RetScanned(u) \/ RetClear(u))
      BY DEF ScanSlot, CallScanned, CallStore, RetScanned, RetClear
    <3>3. ~(ForkSkipped(u) \/ ForkClone(u) \/ ForkFails(u) \/ Born(u) \/ ForkReturns(u))
      BY DEF ForkSkipped, ForkClone, ForkFails, Born, ForkReturns
    <3>4. ~(ChildReturns(u) \/ Fault(u))
      BY DEF ChildReturns, Fault
    <3> QED BY <1>1, <3>1, <3>2, <3>3, <3>4 DEF Step
  <2> QED BY <2>1, <2>2
<1>2. ~Teardown
  BY DEF Teardown, MainReturns, UnmapVmem, UnmapVcode, ExitGroup
<1>3. ~UNCHANGED vars
  BY DEF vars
<1> QED
  BY <1>1, <1>2, <1>3 DEF Next, Terminating

\* RET of a thread that lost no return address resumes after its own pending
\* call, and ends the emulation when none is pending: for every program, any
\* number of threads and any sizes (handle_ret, handle_call).
THEOREM ReturnsCorrect == Spec => ReturnsToCaller
<1>1. Inv /\ [Next]_vars =>
        \A t \in Threads : Returning(t) /\ ~lost[t] => vip'[t] = Caller(t)
  <2> SUFFICES ASSUME Inv, [Next]_vars, NEW t \in Threads, Returning(t), ~lost[t]
               PROVE  vip'[t] = Caller(t)
    OBVIOUS
  <2>1. RetClear(t)
    BY OnlyRetReturns DEF Inv
  <2>2. callStack[t] = pending[t] /\ callStack[t] \in Seq(Return)
    BY DEF Inv, StackHoldsCalls, TypeInv, TypeOK
  <2>3. End \in Return
    BY DEF Return
  <2>4. TopOf(callStack[t]) = AllOnes <=> callStack[t] = << >>
    BY <2>2, <2>3, StackTypes
  <2>5. vip'[t] = IF TopOf(callStack[t]) = AllOnes THEN End ELSE TopOf(callStack[t])
    BY <2>1 DEF RetClear, GoTo, Inv, TypeInv, TypeOK
  <2> QED BY <2>2, <2>4, <2>5 DEF TopOf, IsEmpty, Caller
<1> QED
  BY <1>1, InvHolds, PTL DEF Spec, ReturnsToCaller

-----------------------------------------------------------------------------
\* Before the first FORK the scan of CALL and RET meets the pending calls in
\* order and stops right after them.
Depth == Len(pending[Main])

Mirrored ==
  \A i \in 0 .. Slots : shadow[i] = IF i < Depth THEN pending[Main][i + 1] ELSE 0

ListInv ==
  /\ Mirrored
  /\ Depth <= Slots
  /\ \A i \in 1 .. Depth : pending[Main][i] # 0
  /\ pc[Main] \in Scanning => scan[Main] <= Depth
  /\ pc[Main] = "store" => scan[Main] = Depth /\ Depth < Slots
  /\ pc[Main] = "clear" => scan[Main] = Depth

LEMMA DepthType == TypeOK => pending[Main] \in Seq(Return) /\ Depth \in Nat
  BY ProgramAssumption DEF TypeOK, Depth

\* Where the scan stops, the list is over (emulate.c:676 and 699).
LEMMA ScanStopsAtDepth ==
  ASSUME TypeOK, ListInv, scan[Main] <= Depth
  PROVE  /\ ScanOver(Main) => scan[Main] = Depth
         /\ ~ScanOver(Main) => scan[Main] + 1 <= Depth
<1>1. scan[Main] \in 0 .. Slots /\ Depth \in Nat /\ Slots \in Nat
  BY DepthType, ProgramAssumption DEF TypeOK
<1>2. scan[Main] < Depth => shadow[scan[Main]] = pending[Main][scan[Main] + 1]
  BY <1>1 DEF ListInv, Mirrored, Depth
<1>3. scan[Main] < Depth => shadow[scan[Main]] # 0
  BY <1>1, <1>2 DEF ListInv
<1>4. scan[Main] = Depth => shadow[scan[Main]] = 0
  BY <1>1 DEF ListInv, Mirrored, Depth
<1> QED BY <1>1, <1>3, <1>4 DEF ScanOver, ListInv

\* A thread that has not been created takes no step.
LEMMA OnlyMainSteps ==
  ASSUME TypeInv, Alone, NEW t \in Threads, Step(t)
  PROVE  t = Main
<1> SUFFICES ASSUME pc[t] = "idle" PROVE FALSE
  BY DEF Alone
<1> USE DEF At, Dispatch, Scanning, TouchingVmem
<1>1. ~(Cmp(t) \/ Other(t) \/ Jmp(t) \/ Exit(t) \/ CallStart(t) \/ RetStart(t))
  BY DEF Cmp, Other, Jmp, Exit, CallStart, RetStart
<1>2. ~(ScanSlot(t) \/ CallScanned(t) \/ CallStore(t) \/ RetScanned(t) \/ RetClear(t))
  BY DEF ScanSlot, CallScanned, CallStore, RetScanned, RetClear
<1>3. ~(ForkSkipped(t) \/ ForkClone(t) \/ ForkFails(t) \/ Born(t) \/ ForkReturns(t))
  BY DEF ForkSkipped, ForkClone, ForkFails, Born, ForkReturns
<1>4. ~(ChildReturns(t) \/ Fault(t))
  BY DEF ChildReturns, Fault
<1> QED BY <1>1, <1>2, <1>3, <1>4 DEF Step

\* A thread once created is never again one that was not.
LEMMA StaysForked ==
  ASSUME TypeInv, [Next]_vars, Alone'
  PROVE  Alone
<1> USE DEF TypeInv, TypeOK, GoTo, Move, At, Dispatch
<1>1. ASSUME NEW t \in Threads, Step(t), NEW u \in Threads, pc'[u] = "idle"
      PROVE  pc[u] = "idle"
  <2>1. CASE Cmp(t) \/ Other(t) \/ Jmp(t) \/ Exit(t)
    BY <1>1, <2>1 DEF Cmp, Other, Jmp, Exit
  <2>2. CASE CallStart(t) \/ RetStart(t) \/ ScanSlot(t)
    BY <1>1, <2>2 DEF CallStart, RetStart, ScanSlot
  <2>3. CASE CallScanned(t) \/ CallStore(t) \/ RetScanned(t) \/ RetClear(t)
    BY <1>1, <2>3 DEF CallScanned, CallStore, RetScanned, RetClear
  <2>4. CASE ForkSkipped(t) \/ ForkClone(t) \/ ForkFails(t)
    BY <1>1, <2>4 DEF ForkSkipped, ForkClone, ForkFails
  <2>5. CASE Born(t) \/ ForkReturns(t) \/ ChildReturns(t) \/ Fault(t)
    BY <1>1, <2>5 DEF Born, ForkReturns, ChildReturns, Fault
  <2> QED BY <1>1, <2>1, <2>2, <2>3, <2>4, <2>5 DEF Step
<1>2. ASSUME Teardown, NEW u \in Threads, pc'[u] = "idle"
      PROVE  pc[u] = "idle"
  BY <1>2 DEF Teardown, MainReturns, UnmapVmem, UnmapVcode, ExitGroup
<1>3. CASE UNCHANGED vars
  BY <1>3 DEF vars, Alone
<1> QED
  BY <1>1, <1>2, <1>3 DEF Next, Terminating, Alone

LEMMA ListNext ==
  ASSUME Alone, TypeInv, ListInv, [Next]_vars
  PROVE  ListInv'
<1>d. Depth \in Nat /\ pending[Main] \in Seq(Return) /\ Slots \in Nat
  BY DepthType, ProgramAssumption DEF TypeInv
<1>m. Main \in Threads
  BY ProgramAssumption
<1> USE <1>m DEF TypeInv, TypeOK
<1>1. ASSUME CallStore(Main) PROVE ListInv'
  <2>1. scan[Main] = Depth /\ Depth < Slots
    BY <1>1 DEF CallStore, At, ListInv
  <2>2. Here(Main).next \in Return /\ Here(Main).next # 0
    BY <1>1, HereType DEF CallStore, At, InsideInstruction, TouchingVmem
  <2>3. /\ shadow' = [shadow EXCEPT ![Depth] = Here(Main).next]
        /\ pending' = [pending EXCEPT ![Main] = Append(@, Here(Main).next)]
        /\ pc'[Main] = "run"
    BY <1>1, <2>1 DEF CallStore, GoTo, Move
  <2>4. pending'[Main] = Append(pending[Main], Here(Main).next)
    BY <2>3
  <2>5. /\ Depth' = Depth + 1
        /\ \A i \in 1 .. Depth : pending'[Main][i] = pending[Main][i]
        /\ pending'[Main][Depth + 1] = Here(Main).next
    BY <1>d, <2>2, <2>4, AppendProperties DEF Depth
  <2>6. \A i \in 1 .. Depth' : pending'[Main][i] # 0
    <3>1. \A i \in 1 .. Depth + 1 : i \in 1 .. Depth \/ i = Depth + 1
      BY <1>d
    <3> QED BY <2>2, <2>5, <3>1 DEF ListInv
  <2>7. Mirrored'
    <3> SUFFICES ASSUME NEW i \in 0 .. Slots
                 PROVE  shadow'[i] = IF i < Depth' THEN pending'[Main][i + 1] ELSE 0
      BY DEF Mirrored
    <3>1. shadow[i] = IF i < Depth THEN pending[Main][i + 1] ELSE 0
      BY DEF ListInv, Mirrored, Depth
    <3>n. i \in Nat /\ Depth \in 0 .. Slots
      BY <1>d, <2>1
    <3>s. /\ i # Depth => shadow'[i] = shadow[i]
          /\ shadow'[Depth] = Here(Main).next
      BY <2>3, <3>n
    <3>2. CASE i < Depth
      <4>1. i + 1 \in 1 .. Depth
        BY <3>n, <3>2
      <4> QED BY <2>5, <3>1, <3>2, <3>n, <3>s, <4>1
    <3>3. CASE i = Depth
      BY <2>5, <3>3, <3>n, <3>s
    <3>4. CASE i > Depth
      BY <2>5, <3>1, <3>4, <3>n, <3>s
    <3> QED BY <3>n, <3>2, <3>3, <3>4
  <2>8. Depth' <= Slots
    BY <1>d, <2>1, <2>5
  <2> QED BY <2>3, <2>6, <2>7, <2>8 DEF ListInv, Scanning
<1>2. ASSUME RetClear(Main) PROVE ListInv'
  <2>1. scan[Main] = Depth
    BY <1>2 DEF RetClear, At, ListInv
  <2>2. /\ shadow' = IF Depth = 0 THEN shadow ELSE [shadow EXCEPT ![Depth - 1] = 0]
        /\ pending' = [pending EXCEPT ![Main] = Popped(@)]
        /\ pc'[Main] = "run"
    BY <1>2, <2>1 DEF RetClear, GoTo, Move
  <2>3. pending'[Main] = Popped(pending[Main])
    BY <2>2
  <2>4. CASE Depth = 0
    <3>1. pending'[Main] = pending[Main] /\ Depth' = Depth
      BY <1>d, <2>3, <2>4, EmptySeq DEF Popped, IsEmpty, Depth
    <3> QED BY <2>2, <2>4, <3>1 DEF ListInv, Mirrored, Depth, Scanning
  <2>5. CASE Depth # 0
    <3>1. pending'[Main] = SubSeq(pending[Main], 1, Depth - 1)
      BY <1>d, <2>3, <2>5, EmptySeq DEF Popped, IsEmpty, Depth
    <3>2. /\ Depth' = Depth - 1
          /\ \A i \in 1 .. Depth - 1 : pending'[Main][i] = pending[Main][i]
      <4>1. Depth - 1 \in Nat /\ Depth - 1 <= Len(pending[Main])
        BY <1>d, <2>5 DEF Depth
      <4>2. /\ Len(SubSeq(pending[Main], 1, Depth - 1)) = Depth - 1
            /\ \A i \in 1 .. Depth - 1 :
                 SubSeq(pending[Main], 1, Depth - 1)[i] = pending[Main][i]
        BY <1>d, <4>1
      <4>3. Depth' = Len(pending'[Main])
        BY DEF Depth
      <4> QED BY <3>1, <4>2, <4>3
    <3>3. Mirrored'
      <4> SUFFICES ASSUME NEW i \in 0 .. Slots
                   PROVE  shadow'[i] = IF i < Depth' THEN pending'[Main][i + 1] ELSE 0
        BY DEF Mirrored
      <4>1. shadow[i] = IF i < Depth THEN pending[Main][i + 1] ELSE 0
        BY DEF ListInv, Mirrored, Depth
      <4>2. CASE i = Depth - 1
        BY <1>d, <2>2, <2>5, <3>2, <4>2
      <4>3. CASE i # Depth - 1
        BY <1>d, <2>2, <2>5, <3>2, <4>1, <4>3
      <4> QED BY <4>2, <4>3
    <3>4. \A i \in 1 .. Depth' : pending'[Main][i] # 0
      <4>1. \A i \in 1 .. Depth - 1 : i \in 1 .. Depth
        BY <1>d, <2>5
      <4>2. \A i \in 1 .. Depth : pending[Main][i] # 0
        BY DEF ListInv
      <4> QED BY <3>2, <4>1, <4>2
    <3>5. Depth' <= Slots /\ pc'[Main] = "run"
      BY <1>d, <2>2, <2>5, <3>2 DEF ListInv
    <3> QED BY <3>3, <3>4, <3>5 DEF ListInv, Scanning
  <2> QED BY <2>4, <2>5
<1>3. ASSUME ScanSlot(Main) PROVE ListInv'
  <2>1. scan[Main] + 1 <= Depth /\ scan' = [scan EXCEPT ![Main] = @ + 1]
    BY <1>3, ScanStopsAtDepth DEF ScanSlot, ListInv
  <2> QED BY <1>3, <2>1, ProgramAssumption
          DEF ScanSlot, ListInv, Mirrored, Depth, Scanning, context, history
<1>4. ASSUME CallScanned(Main) \/ RetScanned(Main) PROVE ListInv'
  <2>1. scan[Main] = Depth /\ scan' = scan /\ shadow' = shadow /\ pending' = pending
    BY <1>4, ScanStopsAtDepth
       DEF CallScanned, RetScanned, At, ListInv, Scanning, history
  <2>2. scan[Main] # Slots => Depth < Slots
    BY <1>d, <2>1 DEF ListInv
  <2> QED BY <1>4, <2>1, <2>2, ProgramAssumption
          DEF CallScanned, RetScanned, ListInv, Mirrored, Depth, Scanning,
              GoTo, Move, At
<1>5. ASSUME CallStart(Main) \/ RetStart(Main) PROVE ListInv'
  <2>1. /\ shadow' = shadow /\ pending' = pending /\ scan'[Main] = 0
        /\ pc'[Main] \in {"call", "ret", "run"}
    BY <1>5, ProgramAssumption DEF CallStart, RetStart, GoTo, Move, history
  <2> QED BY <1>d, <2>1 DEF ListInv, Mirrored, Depth, Scanning
<1>6. ASSUME UNCHANGED <<shadow, pending, scan>>,
             pc'[Main] = pc[Main]
               \/ pc'[Main] \notin Scanning \cup {"store", "clear"}
      PROVE  ListInv'
  BY <1>6 DEF ListInv, Mirrored, Depth, Scanning
<1>7. ASSUME Step(Main) PROVE ListInv'
  <2> USE DEF GoTo, Move, At, Scanning, context, history
  <2>1. CASE Cmp(Main) \/ Other(Main) \/ Jmp(Main) \/ Exit(Main)
    BY <1>6, <2>1 DEF Cmp, Other, Jmp, Exit
  <2>2. CASE ForkSkipped(Main) \/ ForkFails(Main) \/ ForkReturns(Main)
    BY <1>6, <2>2 DEF ForkSkipped, ForkFails, ForkReturns
  <2>3. CASE ForkClone(Main)
    BY <1>6, <2>3 DEF ForkClone, Dispatch
  <2>4. CASE Born(Main) \/ ChildReturns(Main) \/ Fault(Main)
    BY <1>6, <2>4 DEF Born, ChildReturns, Fault
  <2> QED BY <1>1, <1>2, <1>3, <1>4, <1>5, <1>7, <2>1, <2>2, <2>3, <2>4 DEF Step
<1>8. ASSUME Teardown \/ UNCHANGED vars PROVE ListInv'
  BY <1>6, <1>8 DEF Teardown, MainReturns, UnmapVmem, UnmapVcode, ExitGroup, vars,
     GoTo, Move, At, Scanning, context, history
<1> QED
  BY <1>7, <1>8, OnlyMainSteps DEF Next, Terminating

LEMMA ListInit == Init => ListInv
  BY ProgramAssumption DEF Init, ListInv, Mirrored, Depth, Scanning

\* Until the first FORK the list in virtual memory holds the pending calls in
\* order at every step, for every program and all sizes.
THEOREM ListCorrect == Spec => []ListHoldsCalls
<1>1. TypeInv /\ (Alone => ListInv) /\ [Next]_vars => (Alone => ListInv)'
  <2> SUFFICES ASSUME TypeInv, Alone => ListInv, [Next]_vars, Alone'
               PROVE  ListInv'
    OBVIOUS
  <2> QED BY StaysForked, ListNext
<1>2. (Alone => ListInv) => ListHoldsCalls
  BY DEF ListInv, Mirrored, ListHoldsCalls, Depth
<1>3. Init => TypeInv /\ (Alone => ListInv)
  BY TypeInit, ListInit
<1> QED
  BY <1>1, <1>2, <1>3, TypeNext, PTL DEF Spec

-----------------------------------------------------------------------------
\* The shared list while the threads take turns on it: its used entries are the
\* lowest ones, and every scan in progress is at the end of them or before it.
CallCount == Cardinality(Calls)

Counted ==
  /\ \A i \in 0 .. Slots : shadow[i] # 0 <=> i < CallCount
  /\ CallCount <= Slots
  /\ \A t \in Threads :
       /\ pc[t] \in Scanning => scan[t] <= CallCount
       /\ pc[t] = "store" => scan[t] = CallCount /\ CallCount < Slots
       /\ pc[t] = "clear" => scan[t] = CallCount

CountInv == IsFiniteSet(Calls) /\ (~disturbed => Counted)

\* A thread and the number of one of its pending calls.
LEMMA CallsMember ==
  ASSUME NEW p, NEW t \in Threads, NEW i
  PROVE  << t, i >> \in UNION {{u} \X (1 .. Len(p[u])) : u \in Threads}
           <=> i \in 1 .. Len(p[t])
  OBVIOUS

\* CALL adds one call to those that are pending.
LEMMA CallsPush ==
  ASSUME TypeOK, NEW t \in Threads, NEW d \in Return,
         pending' = [pending EXCEPT ![t] = Append(@, d)]
  PROVE  /\ Calls' = Calls \cup {<< t, Len(pending[t]) + 1 >>}
         /\ << t, Len(pending[t]) + 1 >> \notin Calls
<1> DEFINE n == Len(pending[t])
<1>1. pending[t] \in Seq(Return) /\ n \in Nat
  BY DEF TypeOK
<1>2. Len(pending'[t]) = n + 1
  BY <1>1, AppendProperties DEF TypeOK
<1>3. \A u \in Threads \ {t} : pending'[u] = pending[u]
  BY DEF TypeOK
<1>4. 1 .. n + 1 = (1 .. n) \cup {n + 1} /\ n + 1 \notin 1 .. n
  BY <1>1
<1>5. \A u \in Threads : \A i :
        << u, i >> \in Calls' <=> << u, i >> \in Calls \/ (u = t /\ i = n + 1)
  BY <1>2, <1>3, <1>4, CallsMember DEF Calls
<1>6. << t, n + 1 >> \notin Calls
  BY <1>4, CallsMember DEF Calls
<1>7. \A c \in Calls \cup Calls' : c[1] \in Threads /\ c = << c[1], c[2] >>
  BY DEF Calls
<1> HIDE DEF n
<1>8. Calls' = Calls \cup {<< t, n + 1 >>}
  BY <1>5, <1>7
<1> QED BY <1>6, <1>8 DEF n

\* RET takes the thread's latest call from them, if it has one.
LEMMA CallsPop ==
  ASSUME TypeOK, NEW t \in Threads,
         pending' = [pending EXCEPT ![t] = Popped(@)]
  PROVE  IF pending[t] = << >> THEN Calls' = Calls
         ELSE /\ Calls' = Calls \ {<< t, Len(pending[t]) >>}
              /\ << t, Len(pending[t]) >> \in Calls
<1> DEFINE n == Len(pending[t])
<1>1. pending[t] \in Seq(Return) /\ n \in Nat /\ (n = 0 <=> pending[t] = << >>)
  BY EmptySeq DEF TypeOK
<1>2. CASE pending[t] = << >>
  <2>1. pending' = pending
    BY <1>2 DEF TypeOK, Popped, IsEmpty
  <2> QED BY <1>2, <2>1 DEF Calls
<1>3. CASE pending[t] # << >>
  <2>1. pending'[t] = SubSeq(pending[t], 1, n - 1)
    BY <1>1, <1>3 DEF TypeOK, Popped, IsEmpty
  <2>2. Len(pending'[t]) = n - 1
    BY <1>1, <1>3, <2>1
  <2>3. \A u \in Threads \ {t} : pending'[u] = pending[u]
    BY DEF TypeOK
  <2>4. 1 .. n - 1 = (1 .. n) \ {n} /\ n \in 1 .. n
    BY <1>1, <1>3
  <2>5. \A u \in Threads : \A i :
          << u, i >> \in Calls' <=> << u, i >> \in Calls /\ ~(u = t /\ i = n)
    BY <2>2, <2>3, <2>4, CallsMember DEF Calls
  <2>6. << t, n >> \in Calls
    BY <2>4, CallsMember DEF Calls
  <2>7. \A c \in Calls \cup Calls' : c[1] \in Threads /\ c = << c[1], c[2] >>
    BY DEF Calls
  <2> HIDE DEF n
  <2>8. Calls' = Calls \ {<< t, n >>}
    BY <2>5, <2>7
  <2> QED BY <1>3, <2>6, <2>8 DEF n
<1> QED BY <1>2, <1>3

LEMMA CallCountType == CountInv => CallCount \in Nat
  BY FS_CardinalityType DEF CountInv, CallCount

\* Where a scan stops, the used entries of all threads are over.
LEMMA ScanStopsAtCount ==
  ASSUME TypeOK, CountInv, ~disturbed, NEW t \in Threads, pc[t] \in Scanning
  PROVE  /\ ScanOver(t) => scan[t] = CallCount
         /\ ~ScanOver(t) => scan[t] + 1 <= CallCount
<1>1. scan[t] \in 0 .. Slots /\ CallCount \in Nat /\ Slots \in Nat
  BY CallCountType, ProgramAssumption DEF TypeOK
<1>2. shadow[scan[t]] # 0 <=> scan[t] < CallCount
  BY <1>1 DEF CountInv, Counted
<1> QED BY <1>1, <1>2 DEF ScanOver, CountInv, Counted

\* A step that leaves the list and the calls alone and takes no thread to a
\* place that its scan did not earn.
LEMMA CountKeeps ==
  ASSUME CountInv, UNCHANGED <<shadow, pending, disturbed>>,
         ~disturbed =>
           \A t \in Threads :
             /\ pc'[t] \in Scanning => scan'[t] <= CallCount
             /\ pc'[t] = "store" => scan'[t] = CallCount /\ CallCount < Slots
             /\ pc'[t] = "clear" => scan'[t] = CallCount
  PROVE  CountInv'
<1>1. Calls' = Calls /\ CallCount' = CallCount
  BY DEF Calls, CallCount
<1> QED BY <1>1 DEF CountInv, Counted

LEMMA CountStep ==
  ASSUME TypeInv, CountInv, NEW t \in Threads, Step(t)
  PROVE  CountInv'
<1>d. CallCount \in Nat /\ Slots \in Nat
  BY CallCountType, ProgramAssumption
<1> USE DEF TypeInv, TypeOK
<1>k. ASSUME UNCHANGED <<shadow, pending, disturbed>>,
             \A u \in Threads : scan'[u] = scan[u] /\
               (pc'[u] = pc[u] \/ pc'[u] \notin Scanning \cup {"store", "clear"})
      PROVE  CountInv'
  BY <1>k, CountKeeps DEF CountInv, Counted
<1>1. CASE CallStore(t)
  <2>1. /\ shadow' = [shadow EXCEPT ![scan[t]] = Here(t).next]
        /\ pending' = [pending EXCEPT ![t] = Append(@, Here(t).next)]
        /\ pc' = [pc EXCEPT ![t] = "run"] /\ pc[t] = "store"
        /\ disturbed' = (disturbed \/ Overlapped(t))
    BY <1>1 DEF CallStore, At, GoTo, Move
  <2>2. Here(t).next \in Return /\ Here(t).next # 0
    BY <1>1, HereType DEF CallStore, At, InsideInstruction, TouchingVmem
  <2>3. /\ Calls' = Calls \cup {<< t, Len(pending[t]) + 1 >>}
        /\ << t, Len(pending[t]) + 1 >> \notin Calls
    BY <2>1, <2>2, CallsPush
  <2>4. IsFiniteSet(Calls') /\ CallCount' = CallCount + 1
    BY <2>3, FS_AddElement DEF CountInv, CallCount
  <2>5. ASSUME ~disturbed' PROVE Counted'
    <3>1. ~disturbed /\ ~Overlapped(t) /\ Counted
      BY <2>1, <2>5 DEF CountInv
    <3>2. scan[t] = CallCount /\ CallCount < Slots
      BY <2>1, <3>1 DEF Counted
    <3>3. \A i \in 0 .. Slots : shadow'[i] # 0 <=> i < CallCount + 1
      <4> SUFFICES ASSUME NEW i \in 0 .. Slots
                   PROVE  shadow'[i] # 0 <=> i < CallCount + 1
        OBVIOUS
      <4>1. shadow[i] # 0 <=> i < CallCount
        BY <3>1 DEF Counted
      <4>2. CASE i = CallCount
        BY <1>d, <2>1, <2>2, <3>2, <4>2
      <4>3. CASE i # CallCount
        BY <1>d, <2>1, <3>2, <4>1, <4>3
      <4> QED BY <4>2, <4>3
    <3>4. \A u \in Threads : pc'[u] \notin TouchingVmem
      BY <2>1, <3>1 DEF Overlapped, TouchingVmem, Scanning
    <3> QED BY <1>d, <2>4, <3>2, <3>3, <3>4 DEF Counted, TouchingVmem, Scanning
  <2> QED BY <2>4, <2>5 DEF CountInv
<1>2. CASE RetClear(t)
  <2>1. /\ shadow' = IF scan[t] = 0 THEN shadow ELSE [shadow EXCEPT ![scan[t] - 1] = 0]
        /\ pending' = [pending EXCEPT ![t] = Popped(@)]
        /\ pc' = [pc EXCEPT ![t] = "run"] /\ pc[t] = "clear"
        /\ disturbed' = (disturbed \/ Overlapped(t) \/ ClearsOthers(t))
    BY <1>2 DEF RetClear, At, GoTo, Move
  <2>2. IF pending[t] = << >> THEN Calls' = Calls
        ELSE /\ Calls' = Calls \ {<< t, Len(pending[t]) >>}
             /\ << t, Len(pending[t]) >> \in Calls
    BY <2>1, CallsPop
  <2>3. /\ IsFiniteSet(Calls')
        /\ CallCount' = IF pending[t] = << >> THEN CallCount ELSE CallCount - 1
        /\ pending[t] # << >> => CallCount # 0
    <3>1. CASE pending[t] = << >>
      BY <2>2, <3>1 DEF CountInv, CallCount
    <3>2. CASE pending[t] # << >>
      <4>1. PICK c \in Calls : Calls' = Calls \ {c}
        BY <2>2, <3>2
      <4>2. IsFiniteSet(Calls)
        BY DEF CountInv
      <4>3. IsFiniteSet(Calls \ {c}) /\ Cardinality(Calls \ {c}) = Cardinality(Calls) - 1
        BY ONLY <4>2, c \in Calls, FS_RemoveElement
      <4>4. Cardinality(Calls) # 0
        BY ONLY <4>2, c \in Calls, FS_EmptySet
      <4> QED BY <3>2, <4>1, <4>3, <4>4 DEF CallCount
    <3> QED BY <3>1, <3>2
  <2>4. ASSUME ~disturbed' PROVE Counted'
    <3>1. ~disturbed /\ ~Overlapped(t) /\ ~ClearsOthers(t) /\ Counted
      BY <2>1, <2>4 DEF CountInv
    <3>2. scan[t] = CallCount /\ CallCount <= Slots
      BY <2>1, <3>1 DEF Counted
    <3>3. \A u \in Threads : pc'[u] \notin TouchingVmem
      BY <2>1, <3>1 DEF Overlapped, TouchingVmem, Scanning
    <3>4. CASE pending[t] = << >>
      <4>1. CallCount = 0 /\ CallCount' = 0 /\ shadow' = shadow
        BY <1>d, <2>1, <2>3, <3>1, <3>2, <3>4 DEF ClearsOthers
      <4> QED BY <3>1, <3>3, <4>1 DEF Counted, TouchingVmem, Scanning
    <3>5. CASE pending[t] # << >>
      <4>1. /\ CallCount # 0 /\ CallCount' = CallCount - 1
            /\ shadow' = [shadow EXCEPT ![CallCount - 1] = 0]
        BY <2>1, <2>3, <3>2, <3>5
      <4>2. \A i \in 0 .. Slots : shadow'[i] # 0 <=> i < CallCount - 1
        <5> SUFFICES ASSUME NEW i \in 0 .. Slots
                     PROVE  shadow'[i] # 0 <=> i < CallCount - 1
          OBVIOUS
        <5>1. shadow[i] # 0 <=> i < CallCount
          BY <3>1 DEF Counted
        <5>2. CASE i = CallCount - 1
          BY <1>d, <4>1, <5>2
        <5>3. CASE i # CallCount - 1
          BY <1>d, <4>1, <5>1, <5>3
        <5> QED BY <5>2, <5>3
      <4> QED BY <1>d, <3>2, <3>3, <4>1, <4>2 DEF Counted, TouchingVmem, Scanning
    <3> QED BY <3>4, <3>5
  <2> QED BY <2>3, <2>4 DEF CountInv
<1>3. CASE ScanSlot(t)
  <2>1. /\ UNCHANGED <<shadow, pending, disturbed, pc>> /\ pc[t] \in Scanning
        /\ ~ScanOver(t) /\ scan' = [scan EXCEPT ![t] = @ + 1]
    BY <1>3 DEF ScanSlot, history
  <2>2. ~disturbed => scan[t] + 1 <= CallCount
    BY <2>1, ScanStopsAtCount
  <2> QED BY <2>1, <2>2, CountKeeps DEF CountInv, Counted, Scanning
<1>4. CASE CallScanned(t) \/ RetScanned(t)
  <2>1. /\ UNCHANGED <<shadow, pending, disturbed, scan>> /\ pc[t] \in Scanning
        /\ ScanOver(t)
        /\ \E where \in {"stackError", "store", "clear", "run"} :
             /\ pc' = [pc EXCEPT ![t] = where]
             /\ where = "store" => scan[t] # Slots
    BY <1>4 DEF CallScanned, RetScanned, At, GoTo, Move, history, Scanning
  <2>2. ~disturbed => scan[t] = CallCount /\ CallCount <= Slots
    BY <2>1, ScanStopsAtCount DEF CountInv, Counted
  <2> QED BY <1>d, <2>1, <2>2, CountKeeps DEF CountInv, Counted, Scanning
<1>5. CASE CallStart(t) \/ RetStart(t)
  <2>1. /\ UNCHANGED <<shadow, pending, disturbed>>
        /\ scan' = [scan EXCEPT ![t] = 0]
        /\ \E where \in {"call", "ret", "run"} : pc' = [pc EXCEPT ![t] = where]
    BY <1>5 DEF CallStart, RetStart, GoTo, Move, history
  <2> QED BY <1>d, <2>1, CountKeeps DEF CountInv, Counted, Scanning
<1>6. CASE Cmp(t) \/ Other(t) \/ Jmp(t) \/ Exit(t)
  BY <1>k, <1>6 DEF Cmp, Other, Jmp, Exit, GoTo, Move, Scanning, history
<1>7. CASE ForkSkipped(t) \/ ForkFails(t) \/ ForkReturns(t) \/ Born(t)
  BY <1>k, <1>7 DEF ForkSkipped, ForkFails, ForkReturns, Born, GoTo, Move, Scanning, history
<1>8. CASE ForkClone(t)
  BY <1>k, <1>8 DEF ForkClone, Scanning, history
<1>9. CASE ChildReturns(t) \/ Fault(t)
  BY <1>k, <1>9 DEF ChildReturns, Fault, history
<1> QED
  BY <1>1, <1>2, <1>3, <1>4, <1>5, <1>6, <1>7, <1>8, <1>9 DEF Step

LEMMA CountNext == TypeInv /\ CountInv /\ [Next]_vars => CountInv'
<1> SUFFICES ASSUME TypeInv, CountInv, [Next]_vars PROVE CountInv'
  OBVIOUS
<1>1. CASE Teardown
  <2>1. /\ UNCHANGED <<shadow, pending, disturbed, scan>>
        /\ \A t \in Threads : pc'[t] = pc[t] \/ pc'[t] \notin TouchingVmem
    BY <1>1 DEF Teardown, MainReturns, UnmapVmem, UnmapVcode, ExitGroup, Move, history,
       TypeInv, TypeOK, TouchingVmem, Scanning
  <2> QED BY <2>1, CountKeeps DEF CountInv, Counted, TouchingVmem, Scanning
<1>2. CASE UNCHANGED vars
  BY <1>2, CountKeeps DEF vars, history, CountInv, Counted
<1> QED
  BY <1>1, <1>2, CountStep DEF Next, Terminating

LEMMA CountInit == Init => CountInv
<1> SUFFICES ASSUME Init PROVE CountInv
  OBVIOUS
<1>1. Calls = {}
  BY EmptySeq DEF Init, Calls
<1>2. IsFiniteSet(Calls) /\ CallCount = 0
  BY <1>1, FS_EmptySet DEF CallCount
<1> QED BY <1>2, ProgramAssumption DEF Init, CountInv, Counted, Scanning

\* While no two threads overlap on the shared list, its used entries are counted
\* by the pending calls of all threads, ended ones included: for every program,
\* any number of threads and any length of the list (handle_call, handle_ret).
THEOREM CountCorrect == Spec => []ListCountsCalls
<1>1. CountInv => ListCountsCalls
  BY DEF CountInv, Counted, CallCount, ListCountsCalls
<1> QED
  BY <1>1, TypeInit, TypeNext, CountInit, CountNext, PTL DEF Spec

\* So the check in handle_call ends a thread only when the calls that are
\* pending, of all threads together, fill the list.
THEOREM StackErrorCorrect == Spec => StackErrorOnlyWhenFull
<1>1. TypeInv /\ CountInv /\ [Next]_vars =>
        \A t \in Threads :
          pc[t] = "call" /\ pc'[t] = "stackError" /\ ~disturbed =>
            Cardinality(Calls) >= Slots
  <2> SUFFICES ASSUME TypeInv, CountInv, [Next]_vars, NEW t \in Threads,
                      pc[t] = "call", pc'[t] = "stackError", ~disturbed
               PROVE  CallCount >= Slots
    BY DEF CallCount
  <2>1. CallScanned(t)
    <3> USE DEF TypeInv, TypeOK, GoTo, Move, At, Dispatch, Scanning
    <3>1. ASSUME NEW u \in Threads, Step(u) PROVE CallScanned(t)
      <4>1. ~(Cmp(u) \/ Other(u) \/ Jmp(u) \/ Exit(u) \/ CallStart(u) \/ RetStart(u))
        BY DEF Cmp, Other, Jmp, Exit, CallStart, RetStart
      <4>2. ~(ScanSlot(u) \/ CallStore(u) \/ RetScanned(u) \/ RetClear(u))
        BY DEF ScanSlot, CallStore, RetScanned, RetClear
      <4>3. ~(ForkSkipped(u) \/ ForkClone(u) \/ ForkFails(u) \/ Born(u) \/ ForkReturns(u))
        BY DEF ForkSkipped, ForkClone, ForkFails, Born, ForkReturns
      <4>4. ~(ChildReturns(u) \/ Fault(u))
        BY DEF ChildReturns, Fault
      <4>5. CallScanned(u)
        BY <3>1, <4>1, <4>2, <4>3, <4>4 DEF Step
      <4> QED BY <4>5 DEF CallScanned
    <3>2. ~Teardown
      BY DEF Teardown, MainReturns, UnmapVmem, UnmapVcode, ExitGroup
    <3>3. ~UNCHANGED vars
      BY DEF vars
    <3> QED BY <3>1, <3>2, <3>3 DEF Next, Terminating
  <2>2. scan[t] = Slots /\ ScanOver(t) /\ pc[t] \in Scanning
    BY <2>1 DEF CallScanned, Move, TypeInv, TypeOK, Scanning
  <2>3. scan[t] = CallCount
    BY <2>2, ScanStopsAtCount DEF TypeInv
  <2> QED BY <2>2, <2>3, ProgramAssumption
<1> QED
  BY <1>1, TypeInit, TypeNext, CountInit, CountNext, PTL DEF Spec, StackErrorOnlyWhenFull

-----------------------------------------------------------------------------
\* One flag at most is set, since handle_cmp assigns the whole mask.
OneFlag == \A t \in Threads : vflag[t] \in {{}, {"EQ"}, {"GT"}, {"LT"}}

\* Only CMP writes the mask, and a new context clears it.
LEMMA OneFlagNext == TypeInv /\ OneFlag /\ [Next]_vars => OneFlag'
<1> SUFFICES ASSUME TypeInv, OneFlag, [Next]_vars PROVE OneFlag'
  OBVIOUS
<1> USE DEF OneFlag, TypeInv, TypeOK, context
<1>1. ASSUME NEW t \in Threads, Step(t) PROVE OneFlag'
  <2>1. CASE Cmp(t)
    <3>1. ASSUME NEW d1 \in Operand, NEW d2 \in Operand
          PROVE  CompareFlags(vflag[t], d1, d2) \in {{}, {"EQ"}, {"GT"}, {"LT"}}
      BY DEF CompareFlags, Operand
    <3> QED BY <2>1, <3>1 DEF Cmp
  <2>2. CASE Other(t) \/ Jmp(t) \/ Exit(t) \/ CallStart(t) \/ RetStart(t)
    BY <2>2 DEF Other, Jmp, Exit, CallStart, RetStart
  <2>3. CASE ScanSlot(t) \/ CallScanned(t) \/ CallStore(t) \/ RetScanned(t) \/ RetClear(t)
    BY <2>3 DEF ScanSlot, CallScanned, CallStore, RetScanned, RetClear
  <2>4. CASE ForkSkipped(t) \/ ForkClone(t) \/ ForkFails(t) \/ Born(t) \/ ForkReturns(t)
    BY <2>4 DEF ForkSkipped, ForkClone, ForkFails, Born, ForkReturns
  <2>5. CASE ChildReturns(t) \/ Fault(t)
    BY <2>5 DEF ChildReturns, Fault
  <2> QED BY <1>1, <2>1, <2>2, <2>3, <2>4, <2>5 DEF Step
<1>2. CASE Teardown
  BY <1>2 DEF Teardown, MainReturns, UnmapVmem, UnmapVcode, ExitGroup
<1>3. CASE UNCHANGED vars
  BY <1>3 DEF vars
<1> QED
  BY <1>1, <1>2, <1>3 DEF Next, Terminating

\* After a CMP, of a condition and its complement exactly one holds, for every
\* program and any number of threads (handle_cmp).
THEOREM TrichotomyCorrect == Spec => []Trichotomy
<1>1. Init => OneFlag
  BY DEF Init, OneFlag
<1>2. OneFlag => Trichotomy
  <2>1. ASSUME NEW s \in {{"EQ"}, {"GT"}, {"LT"}}, NEW p \in Complements
        PROVE  (p[1] \cap s # {}) # (p[2] \cap s # {})
    <3>1. CASE p = <<{"GT"}, {"LT", "EQ"}>>
      <4>1. ("GT" \in s) # ("LT" \in s \/ "EQ" \in s)
        OBVIOUS
      <4>2. (p[1] \cap s # {} <=> "GT" \in s)
              /\ (p[2] \cap s # {} <=> "LT" \in s \/ "EQ" \in s)
        BY <3>1
      <4> QED BY <4>1, <4>2
    <3>2. CASE p = <<{"LT"}, {"GT", "EQ"}>>
      <4>1. ("LT" \in s) # ("GT" \in s \/ "EQ" \in s)
        OBVIOUS
      <4>2. (p[1] \cap s # {} <=> "LT" \in s)
              /\ (p[2] \cap s # {} <=> "GT" \in s \/ "EQ" \in s)
        BY <3>2
      <4> QED BY <4>1, <4>2
    <3>3. CASE p = <<{"EQ"}, {"LT", "GT"}>>
      <4>1. ("EQ" \in s) # ("LT" \in s \/ "GT" \in s)
        OBVIOUS
      <4>2. (p[1] \cap s # {} <=> "EQ" \in s)
              /\ (p[2] \cap s # {} <=> "LT" \in s \/ "GT" \in s)
        BY <3>3
      <4> QED BY <4>1, <4>2
    <3> QED BY <3>1, <3>2, <3>3 DEF Complements
  <2> QED BY <2>1 DEF OneFlag, Trichotomy
<1> QED
  BY <1>1, <1>2, TypeInit, TypeNext, OneFlagNext, PTL DEF Spec

-----------------------------------------------------------------------------
\* Where the main thread is in the rest of _start.
Tearing == {"unmapVmem", "unmapVcode", "exitGroup"}

\* Steps between and inside instructions other than FORK.
SameFork ==
  /\ UNCHANGED child
  /\ \A t \in Threads :
       pc'[t] = pc[t] \/ {pc[t], pc'[t]} \subseteq {"run"} \cup TouchingVmem

LEMMA SameForkUnseen == TypeOK /\ SameFork => UNCHANGED <<Place, child>>
  BY DEF SameFork, Place, TouchingVmem, Scanning, Ended

\* A step that takes one thread to another place shows in that place alone.
LEMMA PlaceMoves ==
  ASSUME TypeOK, NEW t \in Threads, NEW where, NEW there,
         pc' = [pc EXCEPT ![t] = where],
         there = IF where = "idle" THEN "unborn"
                 ELSE IF where = "born" THEN "born"
                 ELSE IF where = "forkWait" THEN "waits"
                 ELSE IF where \in Ended \cup Tearing THEN "gone" ELSE "runs"
  PROVE  Place' = [Place EXCEPT ![t] = there]
BY DEF TypeOK, Place, Tearing

LEMMA StopsRefine ==
  ASSUME TypeOK, NEW t \in Threads, NEW where \in Ended \cup Tearing,
         pc[t] \in {"run", "call"}, pc' = [pc EXCEPT ![t] = where], UNCHANGED child
  PROVE  Forks!Stop(t)
<1>1. Place[t] = "runs" /\ Place' = [Place EXCEPT ![t] = "gone"]
  BY PlaceMoves DEF Place, Ended, Tearing
<1> QED BY <1>1 DEF Forks!Stop

\* Every step of a thread is a step of the abstract FORK or none of its.
LEMMA ForkStepRefines ==
  ASSUME TypeInv, NEW t \in Threads, Step(t)
  PROVE  [Forks!Next]_(Forks!forkVars)
<1> USE DEF TypeInv, At, Move, GoTo, Dispatch, Forks!forkVars
<1>1. CASE Cmp(t) \/ Other(t) \/ Jmp(t) \/ CallStart(t) \/ RetStart(t) \/ ForkSkipped(t)
  <2>1. SameFork
    BY <1>1 DEF Cmp, Other, Jmp, CallStart, RetStart, ForkSkipped, SameFork, TypeOK,
       TouchingVmem, Scanning
  <2> QED BY <2>1, SameForkUnseen
<1>2. CASE ScanSlot(t) \/ CallStore(t) \/ RetScanned(t) \/ RetClear(t)
  <2>1. SameFork
    BY <1>2 DEF ScanSlot, CallStore, RetScanned, RetClear, SameFork, TypeOK,
       TouchingVmem, Scanning
  <2> QED BY <2>1, SameForkUnseen
<1>3. CASE CallScanned(t)
  <2>1. CASE scan[t] = Slots
    <3>1. Forks!Stop(t)
      BY <1>3, <2>1, StopsRefine DEF CallScanned, Ended
    <3> QED BY <3>1 DEF Forks!Next
  <2>2. CASE scan[t] # Slots
    <3>1. SameFork
      BY <1>3, <2>2 DEF CallScanned, SameFork, TypeOK, TouchingVmem, Scanning
    <3> QED BY <3>1, SameForkUnseen
  <2> QED BY <2>1, <2>2
<1>4. CASE Exit(t) \/ ForkFails(t)
  <2>1. Forks!Stop(t)
    BY <1>4, StopsRefine DEF Exit, ForkFails, Ended
  <2> QED BY <2>1 DEF Forks!Next
<1>5. CASE ForkClone(t)
  <2>1. PICK c \in Threads :
          /\ pc[c] = "idle" /\ pc[t] = "run"
          /\ pc' = [pc EXCEPT ![t] = "forkWait", ![c] = "born"]
          /\ child' = [child EXCEPT ![t] = c]
    BY <1>5 DEF ForkClone
  <2>2. Place[t] = "runs" /\ Place[c] = "unborn"
    BY <2>1 DEF Place, Ended
  <2>3. Place' = [Place EXCEPT ![t] = "waits", ![c] = "born"]
    BY <2>1 DEF Place, TypeOK, Ended
  <2>4. Forks!Create(t)
    BY <2>1, <2>2, <2>3 DEF Forks!Create
  <2> QED BY <2>4 DEF Forks!Next
<1>6. CASE Born(t)
  <2>1. Place[t] = "born" /\ Place' = [Place EXCEPT ![t] = "runs"] /\ UNCHANGED child
    BY <1>6, PlaceMoves DEF Born, Place, Ended, Tearing
  <2>2. Forks!Report(t)
    BY <2>1 DEF Forks!Report
  <2> QED BY <2>2 DEF Forks!Next
<1>7. CASE ForkReturns(t)
  <2>1. /\ Place[t] = "waits" /\ Place' = [Place EXCEPT ![t] = "runs"]
        /\ UNCHANGED child /\ pc[child[t]] # "born"
    BY <1>7, PlaceMoves DEF ForkReturns, Place, Ended, Tearing
  <2>2. Place[child[t]] # "born"
    BY <2>1 DEF Place, TypeOK
  <2>3. Forks!Resume(t)
    BY <2>1, <2>2 DEF Forks!Resume
  <2> QED BY <2>3 DEF Forks!Next
<1>8. CASE ChildReturns(t) \/ Fault(t)
  BY <1>8 DEF ChildReturns, Fault, Place
<1> QED
  BY <1>1, <1>2, <1>3, <1>4, <1>5, <1>6, <1>7, <1>8 DEF Step

\* The end of _start is an end of the main thread's program.
LEMMA ForkTeardown ==
  ASSUME TypeInv, Teardown
  PROVE  [Forks!Next]_(Forks!forkVars)
<1> USE DEF TypeInv, At, Move, Forks!forkVars
<1>1. CASE MainReturns
  <2>1. Forks!Stop(Main)
    BY <1>1, StopsRefine, ProgramAssumption DEF MainReturns, Tearing
  <2> QED BY <2>1, ProgramAssumption DEF Forks!Next
<1>2. CASE UnmapVmem \/ UnmapVcode
  BY <1>2 DEF UnmapVmem, UnmapVcode, Place, TypeOK, Ended
<1>3. CASE ExitGroup
  BY <1>3 DEF ExitGroup, Place
<1> QED BY <1>1, <1>2, <1>3 DEF Teardown

\* The FORK of the emulation loop is the abstract one, for every program and any
\* number of threads, so that ForkHandshake takes apart what ControlFlow assumes.
THEOREM ForkUsed == Spec => UsesFork
<1>1. Init => Forks!Init
  BY DEF Init, Place, Forks!Init, Ended
<1>2. TypeInv /\ [Next]_vars => [Forks!Next]_(Forks!forkVars)
  <2> SUFFICES ASSUME TypeInv, [Next]_vars PROVE [Forks!Next]_(Forks!forkVars)
    OBVIOUS
  <2>1. CASE UNCHANGED vars
    BY <2>1 DEF vars, Place, Forks!forkVars
  <2> QED BY <2>1, ForkStepRefines, ForkTeardown DEF Next, Terminating
<1> QED
  BY <1>1, <1>2, TypeInit, TypeNext, PTL DEF Spec, UsesFork, Forks!Spec

-----------------------------------------------------------------------------
\* Control never falls out of the program's end: only a RET or an EXIT without a
\* condition may be followed by nothing.
FallsThroughInside ==
  \A a \in Addr :
    vcode[a].next = End => vcode[a].op \in {"RET", "EXIT"} /\ ~vcode[a].test

\* A thread at End has no pending call or has lost one.
AtEnd(t) == vip[t] = End => pending[t] = << >> \/ lost[t]

EndInv ==
  /\ \A t \in Threads :
       /\ pc[t] \in {"call", "store"} => Here(t).op = "CALL"
       /\ pc[t] = "forkWait" => Here(t).op = "FORK"
       /\ pending[t] \in Seq(Addr)
       /\ AtEnd(t)
  /\ pc[Main] \in Tearing => vip[Main] = End
  /\ mapped # {"vmem", "vcode"} => pc[Main] \in Tearing
  /\ CrashOnlyAfterReturn

\* A branch that is not RET's leads to an instruction.
LEMMA StaysInside ==
  ASSUME FallsThroughInside, NEW t \in Threads, vip[t] \in Addr
  PROVE  Here(t).op \notin {"RET", "EXIT"} \/ Here(t).test => Here(t).next \in Addr
  BY ProgramAssumption DEF FallsThroughInside, Here, Insn

\* Steps that leave the calls alone and lead to instructions, and teardown.
HarmlessStep ==
  /\ UNCHANGED <<pending, lost, mapped>>
  /\ process' # "crashed"
  /\ \A t \in Threads :
       \/ vip'[t] = vip[t] /\ pc'[t] = pc[t]
       \/ /\ pc[t] \notin Tearing /\ pc'[t] \notin Tearing
          /\ vip'[t] \in Addr \/ vip'[t] = vip[t]
          /\ pc'[t] \in {"call", "store"} => vcode[vip'[t]].op = "CALL"
          /\ pc'[t] = "forkWait" => vcode[vip'[t]].op = "FORK"

LEMMA HarmlessKeeps == TypeInv /\ EndInv /\ HarmlessStep => EndInv'
<1> SUFFICES ASSUME TypeInv, EndInv, HarmlessStep PROVE EndInv'
  OBVIOUS
<1>1. ASSUME NEW t \in Threads
      PROVE  /\ pc'[t] \in {"call", "store"} => Here(t)'.op = "CALL"
             /\ pc'[t] = "forkWait" => Here(t)'.op = "FORK"
             /\ pending'[t] \in Seq(Addr)
             /\ AtEnd(t)'
  <2>1. End \notin Addr
    BY ProgramAssumption
  <2> QED BY <2>1 DEF EndInv, HarmlessStep, Here, AtEnd
<1>2. Main \in Threads
  BY ProgramAssumption
<1>3. (pc'[Main] \in Tearing => vip'[Main] = End)
        /\ (mapped' # {"vmem", "vcode"} => pc'[Main] \in Tearing)
  BY <1>2 DEF EndInv, HarmlessStep
<1>4. CrashOnlyAfterReturn'
  BY DEF HarmlessStep, CrashOnlyAfterReturn
<1> QED BY <1>1, <1>3, <1>4 DEF EndInv

\* A thread that ends a CALL or a RET disturbs no other.
LEMMA OwnStepKeeps ==
  ASSUME TypeInv, EndInv, NEW t \in Threads,
         \A u \in Threads \ {t} :
           /\ pc'[u] = pc[u] /\ vip'[u] = vip[u]
           /\ pending'[u] = pending[u] /\ lost'[u] = lost[u],
         pc[t] \in {"store", "clear"}, pc'[t] = "run",
         pending'[t] \in Seq(Addr), AtEnd(t)',
         mapped' = mapped, process' = "running"
  PROVE  EndInv'
<1>1. ASSUME NEW u \in Threads
      PROVE  /\ pc'[u] \in {"call", "store"} => Here(u)'.op = "CALL"
             /\ pc'[u] = "forkWait" => Here(u)'.op = "FORK"
             /\ pending'[u] \in Seq(Addr)
             /\ AtEnd(u)'
  <2>1. CASE u = t
    BY <2>1
  <2>2. CASE u # t
    BY <2>2 DEF EndInv, AtEnd, Here
  <2> QED BY <2>1, <2>2
<1>2. (pc'[Main] \in Tearing => vip'[Main] = End)
        /\ (mapped' # {"vmem", "vcode"} => pc'[Main] \in Tearing)
  <2>1. Main \in Threads
    BY ProgramAssumption
  <2> QED BY <2>1 DEF EndInv, Tearing
<1>3. CrashOnlyAfterReturn'
  BY DEF CrashOnlyAfterReturn
<1> QED BY <1>1, <1>2, <1>3 DEF EndInv

LEMMA EndStep ==
  ASSUME FallsThroughInside, Inv, EndInv, NEW t \in Threads, Step(t)
  PROVE  EndInv'
<1> USE DEF Inv, TypeInv, TypeOK, GoTo, Move, At, context, history
<1>m. Main \in Threads /\ End \notin Addr
  BY ProgramAssumption
<1>d. ASSUME NEW op, Dispatch(t, op)
      PROVE  /\ vip[t] \in Addr /\ Here(t).op = op /\ Here(t).dst \in Addr
             /\ process = "running" /\ pc[t] = "run"
             /\ op \notin {"RET", "EXIT"} => Here(t).next \in Addr
  BY <1>d, DispatchType, StaysInside DEF Dispatch, Here
<1>1. CASE Cmp(t) \/ Other(t) \/ Jmp(t) \/ ForkSkipped(t)
  <2>1. /\ Here(t).next \in Addr /\ Here(t).dst \in Addr
        /\ process = "running" /\ pc[t] = "run"
    <3>1. \E op \in {"CMP", "DATA", "JMP", "FORK"} : Dispatch(t, op)
      BY <1>1 DEF Cmp, Other, Jmp, ForkSkipped
    <3> QED BY <3>1, <1>d
  <2>2. HarmlessStep
    BY <1>1, <2>1 DEF Cmp, Other, Jmp, ForkSkipped, HarmlessStep, Tearing
  <2> QED BY <2>2, HarmlessKeeps
<1>2. CASE Exit(t) \/ ForkFails(t) \/ Born(t)
  <2>1. HarmlessStep
    BY <1>2, <1>d DEF Exit, ForkFails, Born, HarmlessStep, Tearing
  <2> QED BY <2>1, HarmlessKeeps
<1>3. CASE CallStart(t) \/ RetStart(t)
  <2>1. CASE CallStart(t)
    <3>1. /\ vcode[vip[t]].op = "CALL" /\ Here(t).next \in Addr
          /\ process = "running" /\ pc[t] = "run"
      <4>1. Dispatch(t, "CALL")
        BY <2>1 DEF CallStart
      <4>2. Here(t).op = "CALL" /\ Here(t).next \in Addr
              /\ process = "running" /\ pc[t] = "run"
        BY <4>1, <1>d
      <4> QED BY <4>2 DEF Here
    <3>2. HarmlessStep
      BY <2>1, <3>1 DEF CallStart, HarmlessStep, Tearing
    <3> QED BY <3>2, HarmlessKeeps
  <2>2. CASE RetStart(t)
    <3>1. process = "running" /\ pc[t] = "run"
      BY <2>2, <1>d DEF RetStart
    <3>2. HarmlessStep
      BY <2>2, <3>1 DEF RetStart, HarmlessStep, Tearing
    <3> QED BY <3>2, HarmlessKeeps
  <2> QED BY <1>3, <2>1, <2>2
<1>4. CASE ScanSlot(t) \/ CallScanned(t)
  <2>1. CASE ScanSlot(t)
    <3>1. HarmlessStep
      BY <2>1 DEF ScanSlot, HarmlessStep
    <3> QED BY <3>1, HarmlessKeeps
  <2>2. CASE CallScanned(t)
    <3>1. vcode[vip[t]].op = "CALL" /\ pc[t] = "call"
      BY <2>2 DEF CallScanned, EndInv, Here
    <3>2. HarmlessStep
      BY <2>2, <3>1 DEF CallScanned, HarmlessStep, Tearing
    <3> QED BY <3>2, HarmlessKeeps
  <2> QED BY <1>4, <2>1, <2>2
<1>5. CASE RetScanned(t)
  <2>1. vip[t] \in Addr
    BY <1>5 DEF RetScanned, InsideInstruction, TouchingVmem, Scanning
  <2>2. ~Taken(t) => Here(t).next \in Addr
    BY <2>1, StaysInside DEF Taken
  <2>3. HarmlessStep
    BY <1>5, <2>2 DEF RetScanned, HarmlessStep, Tearing
  <2> QED BY <2>3, HarmlessKeeps
<1>6. CASE ForkReturns(t)
  <2>1. vip[t] \in Addr /\ Here(t).op = "FORK"
    BY <1>6 DEF ForkReturns, InsideInstruction, EndInv
  <2>2. Here(t).next \in Addr
    BY <2>1, StaysInside
  <2>3. HarmlessStep
    BY <1>6, <2>2 DEF ForkReturns, HarmlessStep, Tearing
  <2> QED BY <2>3, HarmlessKeeps
<1>7. CASE ForkClone(t)
  <2>1. PICK c \in Threads :
          /\ pc[c] = "idle"
          /\ pc' = [pc EXCEPT ![t] = "forkWait", ![c] = "born"]
          /\ vip' = [vip EXCEPT ![c] = Here(t).dst]
    BY <1>7 DEF ForkClone
  <2>2. Here(t).dst \in Addr /\ Here(t).op = "FORK" /\ pc[t] = "run"
          /\ process = "running"
    BY <1>7, <1>d DEF ForkClone
  <2>3. \A u \in Threads \ {t, c} : pc'[u] = pc[u] /\ vip'[u] = vip[u]
    BY <2>1
  <2>4. /\ t # c /\ pc'[t] = "forkWait" /\ vip'[t] = vip[t]
        /\ pc'[c] = "born" /\ vip'[c] \in Addr
    BY <2>1, <2>2
  <2>5. HarmlessStep
    BY <1>7, <2>1, <2>2, <2>3, <2>4 DEF ForkClone, HarmlessStep, Tearing, Here
  <2> QED BY <2>5, HarmlessKeeps
<1>8. CASE CallStore(t)
  <2>1. vip[t] \in Addr /\ Here(t).op = "CALL"
    BY <1>8 DEF CallStore, InsideInstruction, TouchingVmem, EndInv
  <2>2. Here(t).next \in Addr /\ Here(t).dst \in Addr
    BY <2>1, StaysInside, HereType
  <2>3. Append(pending[t], Here(t).next) \in Seq(Addr)
    BY <2>2 DEF EndInv
  <2>4. \A u \in Threads \ {t} :
          /\ pc'[u] = pc[u] /\ vip'[u] = vip[u]
          /\ pending'[u] = pending[u] /\ lost'[u] = lost[u]
    BY <1>8 DEF CallStore
  <2>5. /\ pc[t] = "store" /\ pc'[t] = "run" /\ vip'[t] \in Addr
        /\ pending'[t] \in Seq(Addr)
        /\ mapped' = mapped /\ process' = "running"
    BY <1>8, <2>2, <2>3 DEF CallStore
  <2>6. AtEnd(t)'
    BY <1>m, <2>5 DEF AtEnd
  <2> QED BY <2>4, <2>5, <2>6, OwnStepKeeps
<1>9. CASE RetClear(t)
  <2>1. Popped(pending[t]) \in Seq(Addr)
    BY DEF Popped, IsEmpty, EndInv
  <2>2. \A u \in Threads \ {t} :
          /\ pc'[u] = pc[u] /\ vip'[u] = vip[u]
          /\ pending'[u] = pending[u] /\ lost'[u] = lost[u]
    BY <1>9 DEF RetClear
  <2>3. /\ pc[t] = "clear" /\ pc'[t] = "run" /\ lost'[t] = lost[t]
        /\ pending'[t] = Popped(pending[t])
        /\ vip'[t] = IF TopOf(callStack[t]) = AllOnes THEN End ELSE TopOf(callStack[t])
        /\ mapped' = mapped /\ process' = "running"
    BY <1>9 DEF RetClear
  <2>4. ASSUME ~lost[t], vip'[t] = End PROVE pending'[t] = << >>
    <3>1. callStack[t] = pending[t] /\ pending[t] \in Seq(Addr)
      BY <2>4 DEF StackHoldsCalls, EndInv
    <3>2. pending[t] # << >> => TopOf(pending[t]) \in Addr
      <4>1. pending[t] # << >> => Len(pending[t]) \in 1 .. Len(pending[t])
        BY <3>1, EmptySeq, LenProperties
      <4> QED BY <3>1, <4>1 DEF TopOf, IsEmpty
    <3>3. AllOnes \notin Addr
      BY ProgramAssumption
    <3> QED BY <1>m, <2>3, <2>4, <3>1, <3>2, <3>3 DEF Popped, IsEmpty
  <2>5. AtEnd(t)'
    BY <2>3, <2>4 DEF AtEnd
  <2> QED BY <2>1, <2>2, <2>3, <2>5, OwnStepKeeps
<1>10. CASE ChildReturns(t)
  <2>1. vip[t] = End /\ (pending[t] = << >> \/ lost[t])
    BY <1>10 DEF ChildReturns, EndInv, AtEnd
  <2> QED BY <1>10, <2>1 DEF ChildReturns, EndInv, AtEnd, Here, CrashOnlyAfterReturn
<1>11. CASE Fault(t)
  <2>1. vip[Main] = End /\ (pending[Main] = << >> \/ lost[Main])
    <3>1. mapped # {"vmem", "vcode"}
      BY <1>11 DEF Fault
    <3> QED BY <1>m, <3>1 DEF EndInv, AtEnd
  <2> QED BY <1>11, <1>m, <2>1 DEF Fault, EndInv, AtEnd, Here, CrashOnlyAfterReturn
<1> QED
  BY <1>1, <1>2, <1>3, <1>4, <1>5, <1>6, <1>7, <1>8, <1>9, <1>10, <1>11 DEF Step

LEMMA EndTeardown ==
  ASSUME Inv, EndInv, Teardown
  PROVE  EndInv'
<1> USE DEF Inv, TypeInv, TypeOK, Move, At, context, history, EndInv, AtEnd, Here,
        Tearing, CrashOnlyAfterReturn
<1>m. Main \in Threads
  BY ProgramAssumption
<1>1. CASE MainReturns
  BY <1>1, <1>m DEF MainReturns
<1>2. CASE UnmapVmem
  BY <1>2, <1>m DEF UnmapVmem
<1>3. CASE UnmapVcode
  BY <1>3, <1>m DEF UnmapVcode
<1>4. CASE ExitGroup
  BY <1>4, <1>m DEF ExitGroup
<1> QED BY <1>1, <1>2, <1>3, <1>4 DEF Teardown

\* The process crashes only behind a thread that has returned from its outermost
\* activation or has lost a return address, for every program that does not fall
\* out of its end, any number of threads and all sizes (_start, handle_fork).
THEOREM CrashCorrect ==
  ASSUME FallsThroughInside
  PROVE  Spec => []CrashOnlyAfterReturn
<1>1. Init => EndInv
  <2>1. 0 # End /\ << >> \in Seq(Addr)
    BY ProgramAssumption
  <2> QED BY <2>1, ProgramAssumption
          DEF Init, EndInv, AtEnd, Here, Tearing, CrashOnlyAfterReturn
<1>2. Inv /\ EndInv /\ [Next]_vars => EndInv'
  <2> SUFFICES ASSUME Inv, EndInv, [Next]_vars PROVE EndInv'
    OBVIOUS
  <2>1. CASE \E t \in Threads : Step(t)
    BY <2>1, EndStep
  <2>2. CASE Teardown
    BY <2>2, EndTeardown
  <2>3. CASE UNCHANGED vars
    BY <2>3 DEF vars, context, history, EndInv, AtEnd, Here, Tearing,
       CrashOnlyAfterReturn
  <2> QED BY <2>1, <2>2, <2>3 DEF Next, Terminating
<1>3. EndInv => CrashOnlyAfterReturn
  BY DEF EndInv
<1> QED
  BY <1>1, <1>2, <1>3, InvHolds, PTL DEF Spec

-----------------------------------------------------------------------------
(* The call stack: StackTypeOK and NoFrameLost are together inductive, and *)
(* under them each step of the linked frames is a step of BoundedStack.    *)

StackInv == StackTypeOK /\ NoFrameLost

\* stack_init leaves every frame on the free list (stack.c, stack_init).
LEMMA StackInitInv == StackInit => StackInv
<1> SUFFICES ASSUME StackInit PROVE StackInv
  OBVIOUS
<1> USE CapacityAssumption, StackAssumption DEF Index, Nil, Data
<1>1. frames \in [Index -> [data : Data, next : Index \cup {Nil}]]
  <2>1. \A i \in Index : (IF i = Capacity - 1 THEN Nil ELSE i + 1) \in Index \cup {Nil}
    OBVIOUS
  <2>2. 0 \in Data
    OBVIOUS
  <2> QED BY <2>1, <2>2 DEF StackInit
<1>2. top = -1 /\ free = 0 /\ ret = 0 /\ 0 \in Index /\ 0 \in Data
  BY DEF StackInit
<1>3. \A i \in Index : frames[i].next = IF i = Capacity - 1 THEN Nil ELSE i + 1
  BY DEF StackInit
<1> QED BY <1>1, <1>2, <1>3 DEF StackInv, StackTypeOK, NoFrameLost

\* Every operation of stack.c preserves the two lists.
LEMMA StackNextInv == StackInv /\ [StackNext]_stackVars => StackInv'
<1> SUFFICES ASSUME StackInv, [StackNext]_stackVars PROVE StackInv'
  OBVIOUS
<1> USE CapacityAssumption, StackAssumption DEF StackInv, StackTypeOK, NoFrameLost, Index, Nil, Data
<1>1. CASE PushFull
  BY <1>1 DEF PushFull
<1>2. ASSUME NEW d \in Data, Push(d) PROVE StackInv'
  <2>1. free = top + 1 /\ free \in Index
    BY <1>2 DEF Push
  <2>2. frames' = [frames EXCEPT ![free] = [data |-> d, next |-> top]]
    BY <1>2 DEF Push
  <2>3. StackTypeOK'
    <3>1. [data |-> d, next |-> top] \in [data : Data, next : Index \cup {Nil}]
      OBVIOUS
    <3>2. frames' \in [Index -> [data : Data, next : Index \cup {Nil}]]
      BY <2>1, <2>2, <3>1
    <3>3. top' \in Index /\ free' \in Index \cup {Nil} /\ ret' = 0 /\ 0 \in Data
      BY <1>2, <2>1 DEF Push
    <3> QED BY <3>2, <3>3
  <2>4. NoFrameLost'
    <3>1. top' = top + 1 /\ free' = IF top' = Capacity - 1 THEN Nil ELSE top' + 1
      BY <1>2, <2>1 DEF Push
    <3>2. frames'[free].next = top
      BY <2>1, <2>2
    <3>3. \A i \in Index \ {free} : frames'[i].next = frames[i].next
      BY <2>2
    <3>4. top \in Int /\ \A i \in Index \ {free} : i <= top + 1 <=> i <= top
      BY <2>1
    <3>5. ASSUME NEW i \in Index
          PROVE  frames'[i].next = IF i <= top' THEN i - 1
                                   ELSE IF i = Capacity - 1 THEN Nil ELSE i + 1
      <4>1. CASE i = free
        BY <2>1, <3>1, <3>2, <3>4, <4>1
      <4>2. CASE i # free
        <5>1. frames'[i].next = frames[i].next /\ (i <= top + 1 <=> i <= top)
          BY <3>3, <3>4, <4>2
        <5> QED BY <3>1, <5>1
      <4> QED BY <4>1, <4>2
    <3> QED BY <3>1, <3>5
  <2> QED BY <2>3, <2>4
<1>3. CASE PopEmpty
  BY <1>3 DEF PopEmpty
<1>4. CASE Pop
  <2>1. top \in Index /\ frames[top].next = top - 1
    BY <1>4 DEF Pop
  <2>2. frames' = [frames EXCEPT ![top].next = free]
    BY <1>4 DEF Pop
  <2>3. StackTypeOK'
    BY <1>4, <2>1, <2>2 DEF Pop
  <2>4. NoFrameLost'
    BY <1>4, <2>1, <2>2 DEF Pop
  <2> QED BY <2>3, <2>4
<1>5. CASE Peek
  BY <1>5 DEF Peek
<1>6. CASE UNCHANGED stackVars
  BY <1>6 DEF stackVars
<1> QED
  BY <1>1, <1>2, <1>3, <1>4, <1>5, <1>6 DEF StackNext

\* The frames are never shared, lost or reordered (stack.c, all operations).
THEOREM FramesPartitioned == StackSpec => [](StackTypeOK /\ NoFrameLost)
<1>1. StackInit => StackInv
  BY StackInitInv
<1>2. StackInv /\ [StackNext]_stackVars => StackInv'
  BY StackNextInv
<1> QED
  BY <1>1, <1>2, PTL DEF StackSpec, StackInv

\* No operation leaves the array: every link, the top and the free list are
\* frames of it or -1 (stack.c, all operations).
THEOREM FramesTyped == StackSpec => []StackTypeOK
BY FramesPartitioned, PTL

-----------------------------------------------------------------------------
\* The items up to a top of k are frames 0 .. k of the array.
LEMMA ItemIndex ==
  ASSUME NEW k \in Int, -1 <= k, k <= Capacity - 1
  PROVE  k + 1 \in Nat /\ \A i \in 1 .. k + 1 : i - 1 \in Index
  BY CapacityAssumption, StackAssumption DEF Index

\* The refinement mapping yields a sequence with one word per frame in use.
LEMMA ItemsProperties ==
  ASSUME StackInv
  PROVE  /\ Items \in Seq(Data)
         /\ Len(Items) = top + 1
         /\ \A i \in 1 .. top + 1 : Items[i] = frames[i - 1].data
<1>1. top + 1 \in Nat /\ \A i \in 1 .. top + 1 : i - 1 \in Index
  BY CapacityAssumption, StackAssumption DEF StackInv, StackTypeOK, Index, Nil
<1>2. \A i \in 1 .. top + 1 : frames[i - 1].data \in Data
  BY <1>1 DEF StackInv, StackTypeOK
<1> QED
  BY <1>1, <1>2 DEF Items

\* Items after a step, from the frames after it.
LEMMA ItemsPrime ==
  ASSUME StackInv'
  PROVE  /\ Items' \in Seq(Data)
         /\ Len(Items') = top' + 1
         /\ \A i \in 1 .. top' + 1 : Items'[i] = frames'[i - 1].data
<1>t. Capacity \in Nat /\ top' \in Int /\ -1 <= top' /\ top' <= Capacity - 1
  BY CapacityAssumption, StackAssumption DEF StackInv, StackTypeOK, Index, Nil
<1>1. top' + 1 \in Nat /\ \A i \in 1 .. top' + 1 : i - 1 \in Index
  BY <1>t, ItemIndex
<1>2. \A i \in 1 .. top' + 1 : frames'[i - 1].data \in Data
  BY <1>1 DEF StackInv, StackTypeOK
<1> QED
  BY <1>1, <1>2 DEF Items

\* TopOf(Items) is what stack_pop and stack_peek answer (stack.c:34-56), and
\* the abstract store is full exactly when the free list is empty.
LEMMA ItemsTop ==
  ASSUME StackInv
  PROVE  /\ Abstract!TopOf(Items) = IF top = Nil THEN AllOnes ELSE frames[top].data
         /\ Abstract!IsFull(Items) <=> free = Nil
         /\ Abstract!IsEmpty(Items) <=> top = Nil
<1>1. Items \in Seq(Data) /\ Len(Items) = top + 1
  BY ItemsProperties
<1>2. Items = << >> <=> top = Nil
  BY <1>1 DEF StackInv, StackTypeOK, Index, Nil
<1>3. top # Nil => Items[Len(Items)] = frames[top].data
  <2> SUFFICES ASSUME top # Nil PROVE Items[Len(Items)] = frames[top].data
    OBVIOUS
  <2>1. top + 1 \in 1 .. top + 1 /\ (top + 1) - 1 = top
    BY CapacityAssumption, StackAssumption DEF StackInv, StackTypeOK, Index, Nil
  <2>2. Items[top + 1] = frames[(top + 1) - 1].data
    BY <2>1, ItemsProperties
  <2> QED BY <1>1, <2>1, <2>2
<1>4. Len(Items) = Capacity <=> free = Nil
  BY <1>1, CapacityAssumption, StackAssumption DEF StackInv, StackTypeOK, NoFrameLost, Index, Nil
<1> QED
  BY <1>2, <1>3, <1>4 DEF Abstract!TopOf, Abstract!IsFull, Abstract!IsEmpty

\* Every step of the linked frames is a step, or a stutter, of BoundedStack.
LEMMA StackStepRefines ==
  StackInv /\ StackInv' /\ [StackNext]_stackVars => [Abstract!Next]_(Abstract!vars)
<1> SUFFICES ASSUME StackInv, StackInv', [StackNext]_stackVars
             PROVE  [Abstract!Next]_(Abstract!vars)
  OBVIOUS
<1>i. Items \in Seq(Data) /\ Len(Items) = top + 1
  BY ItemsProperties
<1>p. Items' \in Seq(Data) /\ Len(Items') = top' + 1
  BY ItemsPrime
<1>1. CASE PushFull
  <2>1. Items' = Items /\ Abstract!IsFull(Items)
    BY <1>1, ItemsTop DEF PushFull, Items
  <2>2. 0 \in Data
    BY CapacityAssumption, StackAssumption DEF Data
  <2>3. Abstract!Push(0)
    BY <1>1, <2>1 DEF PushFull, Abstract!Push, Abstract!Pushed
  <2> QED BY <2>2, <2>3 DEF Abstract!Next
<1>2. ASSUME NEW d \in Data, Push(d) PROVE Abstract!Next
  <2>1. free = top + 1 /\ free \in Index /\ top' = top + 1
    BY <1>2 DEF Push, StackInv, StackTypeOK, NoFrameLost, Nil
  <2>2. \A i \in 1 .. top + 1 : frames'[i - 1].data = frames[i - 1].data
    BY <1>2, <2>1 DEF Push, StackInv, StackTypeOK, Index
  <2>3. frames'[top'].data = d
    BY <1>2, <2>1 DEF Push, StackInv, StackTypeOK, Index
  <2>4. Items' = Append(Items, d)
    <3>1. \A i \in 1 .. top' + 1 : Items'[i] = Append(Items, d)[i]
      <4>1. top \in Int /\ top + 1 \in Nat
        BY CapacityAssumption, StackAssumption DEF StackInv, StackTypeOK, Index, Nil
      <4>2. \A i \in 1 .. top + 1 : Items'[i] = Items[i]
        BY <2>1, <2>2, <4>1, ItemsProperties, ItemsPrime
      <4>3. Items'[top + 2] = d
        <5>1. top + 2 \in 1 .. top' + 1 /\ (top + 2) - 1 = top'
          BY <2>1, <4>1
        <5>2. Items'[top + 2] = frames'[(top + 2) - 1].data
          BY <5>1, ItemsPrime
        <5> QED BY <2>3, <5>1, <5>2
      <4>4. /\ \A i \in 1 .. top + 1 : Append(Items, d)[i] = Items[i]
            /\ Append(Items, d)[top + 2] = d
        <5>1. Len(Items) + 1 = top + 2
          BY <1>i, <4>1
        <5> QED BY <1>i, <5>1, AppendProperties
      <4>5. \A i \in 1 .. top' + 1 : i \in 1 .. top + 1 \/ i = top + 2
        BY <2>1, <4>1
      <4> QED BY <4>2, <4>3, <4>4, <4>5
    <3>2. Append(Items, d) \in Seq(Data) /\ Len(Append(Items, d)) = top' + 1
      BY <1>i, <2>1
    <3> QED BY <3>1, <3>2, <1>p, SeqEqual
  <2>5. ~Abstract!IsFull(Items)
    BY <2>1, ItemsTop DEF Index, Nil
  <2>6. Abstract!Push(d)
    BY <1>2, <2>4, <2>5 DEF Push, Abstract!Push, Abstract!Pushed
  <2> QED BY <2>6 DEF Abstract!Next
<1>3. CASE PopEmpty
  <2>1. Items' = Items /\ Abstract!TopOf(Items) = AllOnes /\ Abstract!IsEmpty(Items)
    BY <1>3, ItemsTop DEF PopEmpty, Items
  <2>2. Abstract!Pop
    BY <1>3, <2>1 DEF PopEmpty, Abstract!Pop, Abstract!Popped
  <2> QED BY <2>2 DEF Abstract!Next
<1>4. CASE Pop
  <2>1. top \in Index /\ top' = top - 1
    BY <1>4 DEF Pop, StackInv, StackTypeOK, NoFrameLost, Index, Nil
  <2>2. \A i \in 1 .. top' + 1 : frames'[i - 1].data = frames[i - 1].data
    BY <1>4, <2>1 DEF Pop, StackInv, StackTypeOK, Index
  <2>3. Items' = SubSeq(Items, 1, Len(Items) - 1)
    <3>1. \A i \in 1 .. top' + 1 : Items'[i] = SubSeq(Items, 1, Len(Items) - 1)[i]
      BY <1>i, <2>1, <2>2, ItemsProperties, ItemsPrime DEF Index
    <3>2. SubSeq(Items, 1, Len(Items) - 1) \in Seq(Data)
          /\ Len(SubSeq(Items, 1, Len(Items) - 1)) = top' + 1
      BY <1>i, <2>1 DEF Index
    <3> QED BY <3>1, <3>2, <1>p, SeqEqual
  <2>4. ~Abstract!IsEmpty(Items) /\ Abstract!TopOf(Items) = frames[top].data
    BY <2>1, ItemsTop DEF Index, Nil
  <2>5. Abstract!Pop
    BY <1>4, <2>3, <2>4 DEF Pop, Abstract!Pop, Abstract!Popped
  <2> QED BY <2>5 DEF Abstract!Next
<1>5. CASE Peek
  <2>1. Items' = Items
    BY <1>5 DEF Peek, Items
  <2>2. Abstract!Peek
    BY <1>5, <2>1, ItemsTop DEF Peek, Abstract!Peek
  <2> QED BY <2>2 DEF Abstract!Next
<1>6. CASE UNCHANGED stackVars
  BY <1>6 DEF stackVars, Items, Abstract!vars
<1> QED
  BY <1>1, <1>2, <1>3, <1>4, <1>5, <1>6 DEF StackNext

\* stack.c implements the bounded last-in first-out store: whatever calls are
\* made, each returns and leaves what BoundedStack prescribes.
THEOREM StackRefinement == StackSpec => ImplementsBoundedStack
<1>1. StackInit => Abstract!Init
  BY SMT DEF StackInit, Items, Nil, Abstract!Init
<1>2. StackInv /\ StackInv' /\ [StackNext]_stackVars => [Abstract!Next]_(Abstract!vars)
  BY StackStepRefines
<1>3. StackSpec => []StackInv
  BY FramesPartitioned DEF StackInv
<1> QED
  BY <1>1, <1>2, <1>3, PTL DEF StackSpec, ImplementsBoundedStack, Abstract!Spec
=============================================================================
