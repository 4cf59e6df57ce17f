----------------------------- MODULE ControlFlow ----------------------------
(***************************************************************************)
(* The emulation loop of emulate.c as the threads of one process run it:   *)
(* CMP, JMP, CALL, RET, EXIT and FORK over virtual code, the private call  *)
(* stack of each thread, the list of return addresses in virtual memory    *)
(* that all threads share (the `previous implementation' that CALL and RET *)
(* still maintain), and the teardown in _start.                            *)
(*                                                                         *)
(* One action is one access to shared state together with the private work *)
(* around it.  A slot of the shared list is three bytes; it is read and    *)
(* written here in one step, since the code only ever asks whether a slot  *)
(* is zero.                                                                *)
(***************************************************************************)
EXTENDS Lifo, FiniteSets

CONSTANTS
  Threads, Main,
  Addr,           \* addresses of instructions; 0 is the entry point
  End,            \* 0xFFFFFF, the address that ends emulate
  vcode,          \* the virtual code: address -> decoded instruction
  Slots           \* entries of the shared list below WEEPER_VMEM_STACK_HI

Flags == {"EQ", "LT", "GT", "ERR"}
Ops == {"CMP", "JMP", "CALL", "RET", "EXIT", "FORK", "DATA"}

\* `test' tells whether the operand holding a condition is present, `next' is
\* the fallthrough address stored after the operands.
Insn == [op : Ops, dst : Addr, test : BOOLEAN, cond : SUBSET Flags,
         next : Addr \cup {End}]

\* The compiler emits the entry first and falls through to later lines only,
\* so no fallthrough address is 0; a return address fits 24 bits.
ASSUME ProgramAssumption ==
  /\ Main \in Threads
  /\ 0 \in Addr /\ End \notin Addr /\ AllOnes \notin Addr \cup {End}
  /\ vcode \in [Addr -> Insn]
  /\ \A a \in Addr : vcode[a].next # 0
  /\ Slots \in Nat \ {0}

VARIABLES
  process,        \* "running", "exited" (exit_group) or "crashed"
  mapped,         \* which of vmem and vcode are mapped
  shadow,         \* the shared list of return addresses, 0 for an empty slot
  pc,             \* where each thread is inside emulate.c
  vip, vflag, callStack,  \* the thread's virtual context
  scan,           \* slot that the scan of CALL or RET reads next
  child,          \* thread whose ready flag a FORK waits for
  pending,        \* history: the calls the thread has not returned from
  lost,           \* history: a return address was dropped by a full stack
  disturbed       \* history: the shared list was changed by overlapping
                  \* accesses, or by a return with no call of its own

context == <<vflag, callStack>>
history == <<pending, lost, disturbed>>
vars == <<process, mapped, shadow, pc, vip, context, scan, child, history>>

Return == Addr \cup {End}
Scanning == {"call", "ret"}
TouchingVmem == Scanning \cup {"store", "clear"}
Ended == {"done", "stackError"}
Locations == {"idle", "born", "run", "forkWait", "unmapVmem", "unmapVcode",
              "exitGroup"} \cup TouchingVmem \cup Ended

Init ==
  /\ process = "running"
  /\ mapped = {"vmem", "vcode"}
  /\ shadow = [i \in 0 .. Slots |-> 0]
  /\ pc = [t \in Threads |-> IF t = Main THEN "run" ELSE "idle"]
  /\ vip = [t \in Threads |-> 0]
  /\ vflag = [t \in Threads |-> {}]
  /\ callStack = [t \in Threads |-> << >>]
  /\ scan = [t \in Threads |-> 0]
  /\ child = [t \in Threads |-> t]
  /\ pending = [t \in Threads |-> << >>]
  /\ lost = [t \in Threads |-> FALSE]
  /\ disturbed = FALSE

-----------------------------------------------------------------------------
At(t, where) == process = "running" /\ pc[t] = where
Move(t, where) == pc' = [pc EXCEPT ![t] = where]

GoTo(t, a) == Move(t, "run") /\ vip' = [vip EXCEPT ![t] = a]

\* The loop of emulate: fetch and decode the instruction at vip.
Dispatch(t, op) ==
  /\ At(t, "run") /\ vip[t] # End
  /\ "vcode" \in mapped
  /\ vcode[vip[t]].op = op

Here(t) == vcode[vip[t]]
Taken(t) == ~Here(t).test \/ Here(t).cond \cap vflag[t] # {}

\* Mutant of CompareFlags: both orders are recorded when they could be.
CompareFlags_Loose(flag, d1, d2) ==
  IF d1 = d2 THEN {"EQ"} ELSE IF d1 >= d2 THEN {"GT"} ELSE {"LT", "EQ"}

\* handle_cmp as C parses it: `|' binds tighter than `?:'.
CompareFlags(flag, d1, d2) ==
  IF "ERR" \in flag \/ d1 = d2 THEN {"EQ"}
  ELSE IF d1 > d2 THEN {"GT"}
  ELSE IF d1 < d2 THEN {"LT"} ELSE {}

\* Two values show every order that the operands of CMP can have.
Operand == {0, 1}

Cmp(t) ==
  /\ Dispatch(t, "CMP")
  /\ \E d1, d2 \in Operand :
       vflag' = [vflag EXCEPT ![t] = CompareFlags(@, d1, d2)]
  /\ GoTo(t, Here(t).next)
  /\ UNCHANGED <<process, mapped, shadow, callStack, scan, child, history>>

\* Instructions that neither branch nor touch this state: they fall through.
Other(t) ==
  /\ Dispatch(t, "DATA")
  /\ GoTo(t, Here(t).next)
  /\ UNCHANGED <<process, mapped, shadow, context, scan, child, history>>

Jmp(t) ==
  /\ Dispatch(t, "JMP")
  /\ GoTo(t, IF Taken(t) THEN Here(t).dst ELSE Here(t).next)
  /\ UNCHANGED <<process, mapped, shadow, context, scan, child, history>>

\* sys_exit ends the calling thread only; its entries of the list stay.
Exit(t) ==
  /\ Dispatch(t, "EXIT")
  /\ Move(t, "done")
  /\ UNCHANGED <<process, mapped, shadow, vip, context, scan, child, history>>

-----------------------------------------------------------------------------
\* CALL tests its condition first, RET only after the scan of the list.
CallStart(t) ==
  /\ Dispatch(t, "CALL")
  /\ IF Taken(t) THEN Move(t, "call") /\ UNCHANGED vip
                 ELSE GoTo(t, Here(t).next)
  /\ scan' = [scan EXCEPT ![t] = 0]
  /\ UNCHANGED <<process, mapped, shadow, context, child, history>>

RetStart(t) ==
  /\ Dispatch(t, "RET")
  /\ Move(t, "ret")
  /\ scan' = [scan EXCEPT ![t] = 0]
  /\ UNCHANGED <<process, mapped, shadow, vip, context, child, history>>

ScanOver(t) == shadow[scan[t]] = 0 \/ scan[t] = Slots

\* Mutant of ScanSlot: the scan starts over.
ScanSlot_Restarts(t) ==
  /\ process = "running" /\ pc[t] \in Scanning
  /\ "vmem" \in mapped /\ ~ScanOver(t)
  /\ scan' = [scan EXCEPT ![t] = 0]
  /\ UNCHANGED <<process, mapped, shadow, pc, vip, context, child, history>>

ScanSlot(t) ==
  /\ process = "running" /\ pc[t] \in Scanning
  /\ "vmem" \in mapped /\ ~ScanOver(t)
  /\ scan' = [scan EXCEPT ![t] = @ + 1]
  /\ UNCHANGED <<process, mapped, shadow, pc, vip, context, child, history>>

\* Mutant of CallScanned: the last entry of the region is given up.
CallScanned_Early(t) ==
  /\ At(t, "call") /\ "vmem" \in mapped /\ ScanOver(t)
  /\ Move(t, IF scan[t] >= Slots - 1 THEN "stackError" ELSE "store")
  /\ UNCHANGED <<process, mapped, shadow, vip, context, scan, child, history>>

\* The scan reached the end of the region: sys_exit(WEEPER_ERR_STACK).
CallScanned(t) ==
  /\ At(t, "call") /\ "vmem" \in mapped /\ ScanOver(t)
  /\ Move(t, IF scan[t] = Slots THEN "stackError" ELSE "store")
  /\ UNCHANGED <<process, mapped, shadow, vip, context, scan, child, history>>

\* Another thread is between its scan of the shared list and its last access.
Overlapped(t) == \E u \in Threads \ {t} : pc[u] \in TouchingVmem

\* A RET clears the last used entry, even when none is its own thread's.
ClearsOthers(t) == pending[t] = << >> /\ scan[t] > 0

\* Mutant of CallStore: only the shared list is written.
CallStore_NoPush(t) ==
  /\ At(t, "store") /\ "vmem" \in mapped
  /\ shadow' = [shadow EXCEPT ![scan[t]] = Here(t).next]
  /\ GoTo(t, Here(t).dst)
  /\ pending' = [pending EXCEPT ![t] = Append(@, Here(t).next)]
  /\ disturbed' = (disturbed \/ Overlapped(t))
  /\ UNCHANGED <<process, mapped, context, scan, child, lost>>

\* The result of stack_push is ignored.
CallStore(t) ==
  /\ At(t, "store") /\ "vmem" \in mapped
  /\ shadow' = [shadow EXCEPT ![scan[t]] = Here(t).next]
  /\ callStack' = [callStack EXCEPT ![t] = Pushed(@, Here(t).next)]
  /\ GoTo(t, Here(t).dst)
  /\ pending' = [pending EXCEPT ![t] = Append(@, Here(t).next)]
  /\ lost' = [lost EXCEPT ![t] = @ \/ IsFull(callStack[t])]
  /\ disturbed' = (disturbed \/ Overlapped(t))
  /\ UNCHANGED <<process, mapped, vflag, scan, child>>

RetScanned(t) ==
  /\ At(t, "ret") /\ "vmem" \in mapped /\ ScanOver(t)
  /\ IF Taken(t) THEN Move(t, "clear") /\ UNCHANGED vip
                 ELSE GoTo(t, Here(t).next)
  /\ UNCHANGED <<process, mapped, shadow, context, scan, child, history>>

\* Mutants of RetClear: the answer of an empty stack is used as it comes; the slot
\* the scan stopped at is cleared; the return address is taken from the shared
\* list, as the previous implementation did.
RetClear_KeepsAllOnes(t) ==
  /\ At(t, "clear") /\ "vmem" \in mapped
  /\ shadow' = IF scan[t] = 0 THEN shadow
               ELSE [shadow EXCEPT ![scan[t] - 1] = 0]
  /\ callStack' = [callStack EXCEPT ![t] = Popped(@)]
  /\ GoTo(t, TopOf(callStack[t]))
  /\ pending' = [pending EXCEPT ![t] = Popped(@)]
  /\ disturbed' = (disturbed \/ Overlapped(t) \/ ClearsOthers(t))
  /\ UNCHANGED <<process, mapped, vflag, scan, child, lost>>

RetClear_WrongSlot(t) ==
  /\ At(t, "clear") /\ "vmem" \in mapped
  /\ shadow' = [shadow EXCEPT ![scan[t]] = 0]
  /\ callStack' = [callStack EXCEPT ![t] = Popped(@)]
  /\ GoTo(t, IF TopOf(callStack[t]) = AllOnes THEN End ELSE TopOf(callStack[t]))
  /\ pending' = [pending EXCEPT ![t] = Popped(@)]
  /\ disturbed' = (disturbed \/ Overlapped(t) \/ ClearsOthers(t))
  /\ UNCHANGED <<process, mapped, vflag, scan, child, lost>>

RetClear_FromList(t) ==
  /\ At(t, "clear") /\ "vmem" \in mapped
  /\ shadow' = IF scan[t] = 0 THEN shadow
               ELSE [shadow EXCEPT ![scan[t] - 1] = 0]
  /\ callStack' = [callStack EXCEPT ![t] = Popped(@)]
  /\ GoTo(t, IF scan[t] = 0 THEN End ELSE shadow[scan[t] - 1])
  /\ pending' = [pending EXCEPT ![t] = Popped(@)]
  /\ disturbed' = (disturbed \/ Overlapped(t) \/ ClearsOthers(t))
  /\ UNCHANGED <<process, mapped, vflag, scan, child, lost>>

\* Pop the private stack (0xFFFFFF when empty) and clear the last used slot.
RetClear(t) ==
  /\ At(t, "clear") /\ "vmem" \in mapped
  /\ shadow' = IF scan[t] = 0 THEN shadow
               ELSE [shadow EXCEPT ![scan[t] - 1] = 0]
  /\ callStack' = [callStack EXCEPT ![t] = Popped(@)]
  /\ GoTo(t, IF TopOf(callStack[t]) = AllOnes THEN End ELSE TopOf(callStack[t]))
  /\ pending' = [pending EXCEPT ![t] = Popped(@)]
  /\ disturbed' = (disturbed \/ Overlapped(t) \/ ClearsOthers(t))
  /\ UNCHANGED <<process, mapped, vflag, scan, child, lost>>

-----------------------------------------------------------------------------
ForkSkipped(t) ==
  /\ Dispatch(t, "FORK") /\ ~Taken(t)
  /\ GoTo(t, Here(t).next)
  /\ UNCHANGED <<process, mapped, shadow, context, scan, child, history>>

\* clone3 gives the new thread the entry address `dst'.  ForkHandshake details
\* the two threads' meeting, which is one wait for the ready flag here.
ForkClone(t) ==
  /\ Dispatch(t, "FORK") /\ Taken(t)
  /\ \E c \in Threads :
       /\ pc[c] = "idle"
       /\ pc' = [pc EXCEPT ![t] = "forkWait", ![c] = "born"]
       /\ vip' = [vip EXCEPT ![c] = Here(t).dst]
       /\ child' = [child EXCEPT ![t] = c]
  /\ UNCHANGED <<process, mapped, shadow, context, scan, history>>

\* mmap or clone3 fails, at any time, and ends the thread that asked.
ForkFails(t) ==
  /\ Dispatch(t, "FORK") /\ Taken(t)
  /\ Move(t, "done")
  /\ UNCHANGED <<process, mapped, shadow, vip, context, scan, child, history>>

\* The child signals, then emulate gives it a context of its own.
Born(t) ==
  /\ At(t, "born")
  /\ Move(t, "run")
  /\ vflag' = [vflag EXCEPT ![t] = {}]
  /\ callStack' = [callStack EXCEPT ![t] = << >>]
  /\ UNCHANGED <<process, mapped, shadow, vip, scan, child, history>>

\* Mutant: the parent does not wait for the flag.
ForkReturns_Early(t) ==
  /\ At(t, "forkWait")
  /\ GoTo(t, Here(t).next)
  /\ UNCHANGED <<process, mapped, shadow, context, scan, child, history>>

ForkReturns(t) ==
  /\ At(t, "forkWait") /\ pc[child[t]] # "born"
  /\ GoTo(t, Here(t).next)
  /\ UNCHANGED <<process, mapped, shadow, context, scan, child, history>>

-----------------------------------------------------------------------------
MainReturns ==
  /\ At(Main, "run") /\ vip[Main] = End
  /\ Move(Main, "unmapVmem")
  /\ UNCHANGED <<process, mapped, shadow, vip, context, scan, child, history>>

UnmapVmem ==
  /\ At(Main, "unmapVmem")
  /\ mapped' = mapped \ {"vmem"}
  /\ Move(Main, "unmapVcode")
  /\ UNCHANGED <<process, shadow, vip, context, scan, child, history>>

UnmapVcode ==
  /\ At(Main, "unmapVcode")
  /\ mapped' = mapped \ {"vcode"}
  /\ Move(Main, "exitGroup")
  /\ UNCHANGED <<process, shadow, vip, context, scan, child, history>>

ExitGroup ==
  /\ At(Main, "exitGroup")
  /\ process' = "exited"
  /\ UNCHANGED <<mapped, shadow, pc, vip, context, scan, child, history>>

\* A thread created by FORK returns from emulate on a stack that has no caller.
ChildReturns(t) ==
  /\ t # Main /\ At(t, "run") /\ vip[t] = End
  /\ process' = "crashed"
  /\ UNCHANGED <<mapped, shadow, pc, vip, context, scan, child, history>>

\* A thread touches memory that the main thread has unmapped.
Fault(t) ==
  /\ process = "running"
  /\ \/ pc[t] = "run" /\ vip[t] # End /\ "vcode" \notin mapped
     \/ pc[t] \in TouchingVmem /\ "vmem" \notin mapped
  /\ process' = "crashed"
  /\ UNCHANGED <<mapped, shadow, pc, vip, context, scan, child, history>>

Step(t) ==
  \/ Cmp(t) \/ Other(t) \/ Jmp(t) \/ Exit(t)
  \/ CallStart(t) \/ RetStart(t) \/ ScanSlot(t)
  \/ CallScanned(t) \/ CallStore(t) \/ RetScanned(t) \/ RetClear(t)
  \/ ForkSkipped(t) \/ ForkClone(t) \/ ForkFails(t) \/ Born(t) \/ ForkReturns(t)
  \/ ChildReturns(t) \/ Fault(t)

Teardown == MainReturns \/ UnmapVmem \/ UnmapVcode \/ ExitGroup

\* The process is gone, or the last thread has ended.
Terminated ==
  \/ process # "running"
  \/ \A t \in Threads : pc[t] \in Ended \cup {"idle"}

Terminating == Terminated /\ UNCHANGED vars

Next == (\E t \in Threads : Step(t)) \/ Teardown \/ Terminating

Spec == Init /\ [][Next]_vars

\* The kernel runs every runnable thread again and again.
FairSpec == Spec /\ (\A t \in Threads : WF_vars(Step(t))) /\ WF_vars(Teardown)

-----------------------------------------------------------------------------
TypeOK ==
  /\ process \in {"running", "exited", "crashed"}
  /\ mapped \subseteq {"vmem", "vcode"}
  /\ shadow \in [0 .. Slots -> Return]
  /\ pc \in [Threads -> Locations]
  /\ vip \in [Threads -> Return]
  /\ vflag \in [Threads -> SUBSET Flags]
  /\ callStack \in [Threads -> Seq(Return)]
  /\ scan \in [Threads -> 0 .. Slots]
  /\ child \in [Threads -> Threads]
  /\ pending \in [Threads -> Seq(Return)]
  /\ lost \in [Threads -> BOOLEAN]
  /\ disturbed \in BOOLEAN

\* However the threads race on the shared list, each thread's private stack
\* holds its own pending calls, unless a push was dropped (CALL, RET).
StackHoldsCalls ==
  \A t \in Threads : ~lost[t] => callStack[t] = pending[t]

Returning(t) == pc[t] = "clear" /\ pc'[t] = "run"
Caller(t) == IF pending[t] = << >> THEN End ELSE pending[t][Len(pending[t])]

\* RET resumes after the call of the same thread that is pending, and with none
\* pending ends the emulation, unless that thread lost a return address.
ReturnsToCaller ==
  [][\A t \in Threads : Returning(t) /\ ~lost[t] => vip'[t] = Caller(t)]_vars

\* What the comment at emulate.c:686 says of CALL, with no bound on the nesting.
ReturnsAlwaysMatch ==
  [][\A t \in Threads : Returning(t) => vip'[t] = Caller(t)]_vars

Complements == {<<{"GT"}, {"LT", "EQ"}>>, <<{"LT"}, {"GT", "EQ"}>>,
                <<{"EQ"}, {"LT", "GT"}>>}

\* After a CMP, of a condition and its complement exactly one holds, so one of
\* two opposite conditional branches is always taken (WeeperFlag, handle_cmp).
Trichotomy ==
  \A t \in Threads : vflag[t] # {} =>
    \A p \in Complements :
      (p[1] \cap vflag[t] # {}) # (p[2] \cap vflag[t] # {})

\* No thread has been forked yet.
Alone == \A t \in Threads \ {Main} : pc[t] = "idle"

\* Until a second thread begins, the shared list holds the pending calls slot by
\* slot at every step, those too that the private stack dropped: the previous
\* implementation still works (CALL and RET).
ListHoldsCalls ==
  Alone => \A i \in 0 .. Slots :
             shadow[i] = IF i < Len(pending[Main]) THEN pending[Main][i + 1] ELSE 0

\* The calls of all threads that no RET has answered: those of threads that have
\* ended are among them for ever.
Calls == UNION {{t} \X (1 .. Len(pending[t])) : t \in Threads}

\* As long as the threads take turns on the shared list, its used entries are
\* the lowest ones and as many as there are pending calls of all threads, those
\* of threads ended by EXIT or an error included (CALL, RET, EXIT).
ListCountsCalls ==
  ~disturbed => \A i \in 0 .. Slots : shadow[i] # 0 <=> i < Cardinality(Calls)

\* As long as they do, a CALL ends its thread with WEEPER_ERR_STACK only when the
\* pending calls of all threads together are as many as the entries of the list
\* (emulate.c:673: the list decides nothing else).
StackErrorOnlyWhenFull ==
  [][\A t \in Threads :
       pc[t] = "call" /\ pc'[t] = "stackError" /\ ~disturbed =>
         Cardinality(Calls) >= Slots]_vars

\* The process crashes only after a thread has returned from its outermost
\* activation: its main thread, which then unmaps what the others use, or one
\* that FORK created, which has nowhere to return to (_start, handle_fork).
CrashOnlyAfterReturn ==
  process = "crashed" =>
    \E t \in Threads : vip[t] = End /\ (pending[t] = << >> \/ lost[t])

\* The refinement mapping: a thread between two instructions, or inside one that
\* is no FORK, runs.
Place ==
  [t \in Threads |->
     IF pc[t] = "idle" THEN "unborn"
     ELSE IF pc[t] = "born" THEN "born"
     ELSE IF pc[t] = "forkWait" THEN "waits"
     ELSE IF pc[t] \in Ended \cup {"unmapVmem", "unmapVcode", "exitGroup"} THEN "gone"
     ELSE "runs"]

Forks == INSTANCE Fork WITH place <- Place

\* The FORK of the emulation loop is the one that handle_fork, taken apart in
\* ForkHandshake, implements: among calls, races and the teardown it creates and
\* resumes the same threads (handle_fork as emulate calls it).
UsesFork == Forks!Spec

\* A scan of the shared list ends even while other threads change it.
ScanEnds ==
  \A t \in Threads : pc[t] \in Scanning ~>
                       (pc[t] \notin Scanning \/ process # "running")
=============================================================================
