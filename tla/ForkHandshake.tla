---------------------------- MODULE ForkHandshake ---------------------------
(***************************************************************************)
(* handle_fork in full: the mapping for the child's native stack, clone3,  *)
(* and the meeting of the two threads on a ready flag and its futex.       *)
(*                                                                         *)
(* ready_flag is a plain pointer and the inline assembly in the waiting    *)
(* loop declares no memory clobber, so the C compiler may read the flag on *)
(* every turn or once before the loop: Builds has the outcomes considered  *)
(* and hoisted is the one that runs.  Guests are the virtual programs: at  *)
(* any time one may fork, leave by EXIT, or return from its entry point.   *)
(*                                                                         *)
(* The futex and the placement of mappings are the kernel's: it places     *)
(* each mapping directly below the lower ones where one fits.  Memory is   *)
(* counted in units of which StackUnits make a stack of 0x20000 bytes.     *)
(***************************************************************************)
EXTENDS Integers, FiniteSets

CONSTANTS
  Threads, Main,
  Builds,           \* whether *ready_flag is read once only: a subset of BOOLEAN
  ChildOps,         \* ways a child's guest ends: a subset of {"exit", "return"}
  MaxStacks,        \* bound on the mapped stacks
  StackUnits, VcodeUnits, VmemUnits   \* sizes of the mappings

ASSUME ForkAssumption ==
  /\ Main \in Threads
  /\ Builds \subseteq BOOLEAN
  /\ ChildOps \subseteq {"exit", "return"}
  /\ MaxStacks \in Nat \ {0}
  /\ {StackUnits, VcodeUnits, VmemUnits} \subseteq Nat \ {0}

VARIABLES
  process,        \* "running" or "crashed"
  mapped,         \* numbers of the mapped stacks; 1 was placed first
  flag,           \* *ready_flag at the bottom of each stack
  pc,
  slot,           \* number of the stack that was mapped for a thread's birth
  stack,          \* the variable `stack' of a thread inside handle_fork
  child,          \* the thread it cloned
  loaded,         \* the value of *ready_flag a hoisted read has cached
  hoisted         \* the compiler reads *ready_flag once, before the loop

vars == <<process, mapped, flag, pc, slot, stack, child, loaded, hoisted>>

Slots == 1 .. MaxStacks

\* Where the parent is while it waits for the flag.
Waiting == {"load", "wait", "asleep", "check"}
Locations == Waiting \cup {"idle", "guest", "clear", "clone", "set", "wake",
                           "unmap", "nowhere", "done"}

Init ==
  /\ process = "running"
  /\ mapped = {}
  /\ flag = [k \in Slots |-> 0]
  /\ pc = [t \in Threads |-> IF t = Main THEN "guest" ELSE "idle"]
  /\ slot = [t \in Threads |-> 0]
  /\ stack = [t \in Threads |-> 0]
  /\ child = [t \in Threads |-> t]
  /\ loaded = [t \in Threads |-> 0]
  /\ hoisted \in Builds

At(t, where) == process = "running" /\ pc[t] = where
Move(t, where) == pc' = [pc EXCEPT ![t] = where]

-----------------------------------------------------------------------------
\* The address space, upwards: stacks, the last one lowest; vcode; vmem.
Base(k) == (MaxStacks - k) * StackUnits
VcodeBase == MaxStacks * StackUnits
VmemBase == VcodeBase + VcodeUnits

\* clone3 adds stack_size to stack, which handle_fork already set to the top.
ChildSp(k) == (Base(k) + StackUnits) + StackUnits

\* The first unit that a thread born on stack k writes is just below its sp.
Home(k) ==
  LET unit == ChildSp(k) - 1 IN
  IF unit < VcodeBase THEN MaxStacks - (unit \div StackUnits)   \* a stack
  ELSE IF unit < VmemBase THEN -1                               \* vcode
  ELSE IF unit < VmemBase + VmemUnits THEN -2 ELSE -3           \* vmem; beyond

-----------------------------------------------------------------------------
\* Mutant of MapStack: a stack that a child is about to unmap counts as free.
MapStack_Reuses(p) ==
  /\ At(p, "guest")
  /\ \E k \in Slots \ {slot[c] : c \in {t \in Threads : pc[t] # "unmap"}} :
       /\ mapped' = mapped \cup {k}
       /\ stack' = [stack EXCEPT ![p] = k]
       /\ flag' = [flag EXCEPT ![k] = 0]
  /\ Move(p, "clear")
  /\ UNCHANGED <<process, slot, child, loaded, hoisted>>

\* sys_mmap: the free place nearest to the other mappings, filled with zeros.
MapStack(p) ==
  /\ At(p, "guest")
  /\ \E k \in Slots \ mapped :
       /\ \A j \in Slots \ mapped : k <= j
       /\ mapped' = mapped \cup {k}
       /\ stack' = [stack EXCEPT ![p] = k]
       /\ flag' = [flag EXCEPT ![k] = 0]
  /\ Move(p, "clear")
  /\ UNCHANGED <<process, slot, child, loaded, hoisted>>

\* sys_mmap fails, at any time, and ends the thread.
MapFails(p) ==
  /\ At(p, "guest")
  /\ Move(p, "done")
  /\ UNCHANGED <<process, mapped, flag, slot, stack, child, loaded, hoisted>>

\* Mutant: the flag starts as -1, not 0.
ClearFlag_Minus1(p) ==
  /\ At(p, "clear")
  /\ flag' = [flag EXCEPT ![stack[p]] = -1]
  /\ Move(p, "clone")
  /\ UNCHANGED <<process, mapped, slot, stack, child, loaded, hoisted>>

\* The ready flag is the lowest word of the new stack.
ClearFlag(p) ==
  /\ At(p, "clear")
  /\ flag' = [flag EXCEPT ![stack[p]] = 0]
  /\ Move(p, "clone")
  /\ UNCHANGED <<process, mapped, slot, stack, child, loaded, hoisted>>

Clone(p) ==
  /\ At(p, "clone")
  /\ \E c \in Threads :
       /\ pc[c] = "idle"
       /\ pc' = [pc EXCEPT ![p] = IF hoisted THEN "load" ELSE "wait", ![c] = "set"]
       /\ child' = [child EXCEPT ![p] = c]
       /\ slot' = [slot EXCEPT ![c] = stack[p]]
  /\ UNCHANGED <<process, mapped, flag, stack, loaded, hoisted>>

\* clone3 fails, at any time: sys_exit(SYS_clone3), the mapping stays.
CloneFails(p) ==
  /\ At(p, "clone")
  /\ Move(p, "done")
  /\ UNCHANGED <<process, mapped, flag, slot, stack, child, loaded, hoisted>>

\* The parent's view of *ready_flag when the compiler hoists the read.
LoadOnce(p) ==
  /\ At(p, "load") /\ stack[p] \in mapped
  /\ loaded' = [loaded EXCEPT ![p] = flag[stack[p]]]
  /\ Move(p, "wait")
  /\ UNCHANGED <<process, mapped, flag, slot, stack, child, hoisted>>

\* Mutant of FutexWait: the kernel does not compare the word before sleeping.
FutexWait_NoCompare(p) ==
  /\ At(p, "wait")
  /\ Move(p, "asleep")
  /\ UNCHANGED <<process, mapped, flag, slot, stack, child, loaded, hoisted>>

\* futex(stack, FUTEX_WAIT, 0): sleep only if the word is still zero.
FutexWait(p) ==
  /\ At(p, "wait")
  /\ Move(p, IF stack[p] \in mapped /\ flag[stack[p]] = 0 THEN "asleep" ELSE "check")
  /\ UNCHANGED <<process, mapped, flag, slot, stack, child, loaded, hoisted>>

\* A signal ends the wait without a wake.
Interrupted(p) ==
  /\ At(p, "asleep")
  /\ Move(p, "check")
  /\ UNCHANGED <<process, mapped, flag, slot, stack, child, loaded, hoisted>>

Seen(p) == IF hoisted THEN loaded[p] ELSE flag[stack[p]]

\* Mutant of CheckFlag: one wait, no loop around it.
CheckFlag_Once(p) ==
  /\ At(p, "check") /\ (hoisted \/ stack[p] \in mapped)
  /\ Move(p, "guest")
  /\ UNCHANGED <<process, mapped, flag, slot, stack, child, loaded, hoisted>>

\* while(*ready_flag == 0)
CheckFlag(p) ==
  /\ At(p, "check") /\ (hoisted \/ stack[p] \in mapped)
  /\ Move(p, IF Seen(p) = 0 THEN "wait" ELSE "guest")
  /\ UNCHANGED <<process, mapped, flag, slot, stack, child, loaded, hoisted>>

-----------------------------------------------------------------------------
\* Mutant of SetFlag: the word keeps its zero and only the wake is sent.
SetFlag_Skipped(c) ==
  /\ At(c, "set")
  /\ Move(c, "wake")
  /\ UNCHANGED <<process, mapped, flag, slot, stack, child, loaded, hoisted>>

SetFlag(c) ==
  /\ At(c, "set")
  /\ flag' = [flag EXCEPT ![slot[c]] = 1]
  /\ Move(c, "wake")
  /\ UNCHANGED <<process, mapped, slot, stack, child, loaded, hoisted>>

\* The threads asleep on the ready flag that child c has raised.
Sleepers(c) == {p \in Threads : pc[p] = "asleep" /\ stack[p] = slot[c]}

\* futex(stack, FUTEX_WAKE, 1): the kernel wakes one sleeper of its choice, if
\* any.  A second one sleeps on the word when it was mapped again after a child
\* born there returned before its parent's wait.  The sleep of a second that
\* follows decides nothing and is left out.
Wake(c) ==
  /\ At(c, "wake")
  /\ \/ Sleepers(c) = {} /\ Move(c, "guest")
     \/ \E p \in Sleepers(c) : pc' = [pc EXCEPT ![c] = "guest", ![p] = "check"]
  /\ UNCHANGED <<process, mapped, flag, slot, stack, child, loaded, hoisted>>

GuestExits(t) ==
  /\ At(t, "guest") /\ (t = Main \/ "exit" \in ChildOps)
  /\ Move(t, "done")
  /\ UNCHANGED <<process, mapped, flag, slot, stack, child, loaded, hoisted>>

\* emulate returns in a child, which then unmaps the stack of its own birth ...
GuestReturns(t) ==
  /\ At(t, "guest") /\ t # Main /\ "return" \in ChildOps
  /\ Move(t, "unmap")
  /\ UNCHANGED <<process, mapped, flag, slot, stack, child, loaded, hoisted>>

\* Mutant: the stack of the child's own last fork is unmapped instead.
UnmapStack_Latest(t) ==
  /\ At(t, "unmap")
  /\ mapped' = mapped \ {stack[t]}
  /\ Move(t, "nowhere")
  /\ UNCHANGED <<process, flag, slot, stack, child, loaded, hoisted>>

UnmapStack(t) ==
  /\ At(t, "unmap")
  /\ mapped' = mapped \ {slot[t]}
  /\ Move(t, "nowhere")
  /\ UNCHANGED <<process, flag, slot, stack, child, loaded, hoisted>>

\* ... and leaves handle_fork through a frame that its stack never held.
ReturnNowhere(t) ==
  /\ At(t, "nowhere")
  /\ process' = "crashed"
  /\ UNCHANGED <<mapped, flag, pc, slot, stack, child, loaded, hoisted>>

\* A child runs on, or a parent reads, a mapping that another child removed.
Fault(t) ==
  /\ process = "running"
  /\ \/ /\ pc[t] \notin {"idle", "done"} /\ t # Main
        /\ Home(slot[t]) \in Slots \ mapped
     \/ pc[t] \in {"load", "check"} /\ ~hoisted /\ stack[t] \notin mapped
     \/ pc[t] = "load" /\ stack[t] \notin mapped
  /\ process' = "crashed"
  /\ UNCHANGED <<mapped, flag, pc, slot, stack, child, loaded, hoisted>>

\* What the code and the kernel do once a guest has asked for it.
VmStep(t) ==
  \/ ClearFlag(t) \/ Clone(t) \/ CloneFails(t)
  \/ LoadOnce(t) \/ FutexWait(t) \/ CheckFlag(t)
  \/ SetFlag(t) \/ Wake(t)
  \/ UnmapStack(t) \/ ReturnNowhere(t) \/ Fault(t)

GuestStep(t) == MapStack(t) \/ MapFails(t) \/ GuestExits(t) \/ GuestReturns(t)

Terminating ==
  /\ process = "crashed" \/ \A t \in Threads : pc[t] \in {"idle", "done"}
  /\ UNCHANGED vars

Next ==
  \/ \E t \in Threads : VmStep(t) \/ GuestStep(t) \/ Interrupted(t)
  \/ Terminating

Spec == Init /\ [][Next]_vars

\* The kernel schedules every thread; guests need not fork nor end, and no
\* signal need come.
FairSpec == Spec /\ \A t \in Threads : WF_vars(VmStep(t))

-----------------------------------------------------------------------------
TypeOK ==
  /\ process \in {"running", "crashed"}
  /\ mapped \subseteq Slots
  /\ flag \in [Slots -> {0, 1}]
  /\ pc \in [Threads -> Locations]
  /\ slot \in [Threads -> Slots \cup {0}]
  /\ stack \in [Threads -> Slots \cup {0}]
  /\ child \in [Threads -> Threads]
  /\ loaded \in [Threads -> {0, 1}]
  /\ hoisted \in BOOLEAN

\* Ready flags whose mapping a child has removed: it is about to crash.
Abandoned == {slot[c] : c \in {t \in Threads : pc[t] = "nowhere"}}

\* A parent asleep on the futex has a child that is still to wake it: the wake
\* cannot slip in between the parent's test and its sleep (emulate.c:1470-1501).
\* A wake can go to the wrong sleeper only on a word that was the birth stack of
\* a child that has returned from its entry point, and that child crashes next.
NoLostWakeup ==
  \A p \in Threads :
    pc[p] = "asleep" => pc[child[p]] \in {"set", "wake"} \/ stack[p] \in Abandoned

\* The refinement mapping: what a program can tell of the places in handle_fork.
Place ==
  [t \in Threads |->
     IF pc[t] = "idle" THEN "unborn"
     ELSE IF pc[t] = "set" THEN "born"
     ELSE IF pc[t] \in Waiting THEN "waits"
     ELSE IF pc[t] \in {"unmap", "nowhere", "done"} THEN "gone" ELSE "runs"]

Abstract == INSTANCE Fork WITH place <- Place

\* In both builds, whatever the order of flag, futex calls and signals, and
\* whichever mappings are reused, each FORK creates one thread and resumes its
\* parent once, after that thread has reported (handle_fork as a whole).
ImplementsFork == Abstract!Spec

\* A parent that waits for its child resumes, once it is scheduled.
Resumes ==
  \A p \in Threads :
    pc[p] \in Waiting ~> (pc[p] \notin Waiting \/ process = "crashed")

\* FORK ends in the build that reads the flag on every turn of the loop,
\* signals and early or late children included (emulate.c:1486-1501).
ForkEnds == hoisted \/ Resumes

\* What the code asks for whatever the compiler makes of the loop
\* (emulate.c:1486, "wait for the ready flag").
ForkAlwaysEnds == Resumes

Live(t) == t # Main /\ pc[t] \notin {"idle", "done", "nowhere"}

\* No two threads run on the same native stack, up to the point where one has
\* unmapped its own and is about to crash (handle_fork, sys_mmap, sys_munmap).
StacksDisjoint ==
  \A t, u \in Threads :
    Live(t) /\ Live(u) /\ t # u => Home(slot[t]) # Home(slot[u])

\* What stays mapped is the birth stack of a child that has not returned, or
\* was mapped by a fork in progress or by one whose clone3 failed: only a child
\* that ends by EXIT and a failed clone3 (emulate.c:1466) leave stacks behind.
MappingsAccounted ==
  \A k \in mapped : \E t \in Threads :
    \/ slot[t] = k /\ pc[t] \notin {"idle", "nowhere"}
    \/ stack[t] = k /\ pc[t] \in {"clear", "clone", "done"}
=============================================================================
