------------------------------- MODULE InputGate ------------------------------
(***************************************************************************)
(* How the virtual program waits for its input: FUN_Main forks ReadInput,  *)
(* sleeps on a futex with a timeout, looks at the clock (FUN_Timer) and at *)
(* the flag; ReadInput reads the line byte by byte, rejects one that is    *)
(* too long, sets the flag and wakes the main thread.  Both run in the     *)
(* machine: every SYSCALL is translated by handle_syscall and served by    *)
(* the kernel, which knows numbers and arguments only.  The other threads, *)
(* Tracer and Watcher, are here by what they can do to these two: kill the *)
(* process.                                                                *)
(***************************************************************************)
EXTENDS Syscalls, Sequences, FiniteSets

CONSTANTS
  INPUT_LENGTH,  \* 32 in the program
  MaxTyped,      \* a bound on the length of the line, with its end
  NL,            \* 0x0A
  Letters        \* other bytes a user may type

ASSUME GateAssumption ==
  /\ INPUT_LENGTH \in Nat \ {0} /\ MaxTyped \in Nat
  /\ NL \notin Letters /\ 0 \notin Letters \cup {NL}

\* The memory of the program, in the order it has there: the flag follows the
\* input at once.
INPUT_PLAIN == 0
INPUT_FLAG == INPUT_LENGTH
INPUT_TIME == INPUT_LENGTH + 4
SCRATCH_LO == INPUT_LENGTH + 20
SCRATCH_HI == INPUT_LENGTH + 21
Addresses == 0 .. SCRATCH_HI

\* The two bytes of a SHORT.
FLAG_NotReady == <<0, 0>>
FLAG_InputDone == <<29, 209>>    \* 0x1DD1

Pid == 4711
SIGSEGV == 11

VARIABLES
  alive,     \* the process
  mem,       \* vmem
  pc,        \* of each of the two threads
  request,   \* the system call each of them has made
  R0,        \* and what it got
  asleep,    \* the threads asleep on a futex
  C0,        \* bytes the reader has counted
  stored,    \* how often the reader has stored each byte of the flag
  half,      \* the bytes of the flag that the main thread has got
  typed,     \* the line on the terminal
  taken,     \* how much of it has been read
  closed     \* nobody types any more

vars == <<alive, mem, pc, request, R0, asleep, C0, stored, half, typed, taken, closed>>

Threads == {"main", "reader"}
NoRequest == [nr |-> -1, args |-> << >>]

-----------------------------------------------------------------------------
Init ==
  /\ alive = TRUE
  /\ mem = [a \in Addresses |-> 0]
  /\ pc = [main |-> "arm", reader |-> "unborn"]
  /\ request = [t \in Threads |-> NoRequest]
  /\ R0 = [t \in Threads |-> 0]
  /\ asleep = {}
  /\ C0 = 0 /\ stored = [i \in {1, 2} |-> 0] /\ half = << >>
  /\ typed = << >> /\ taken = 0 /\ closed = FALSE

At(t, here) == alive /\ request[t] = NoRequest /\ pc[t] = here
Go(t, there) == pc' = [pc EXCEPT ![t] = there]

\* handle_syscall, up to the instruction syscall; the thread is at there when
\* the kernel has answered.
Syscall(t, here, code, F, there) ==
  /\ At(t, here) /\ Go(t, there)
  /\ request' = [request EXCEPT ![t] = Translate(code, F)]


kernel == <<alive, R0, asleep, taken>>
terminal == <<typed, closed>>

-----------------------------------------------------------------------------
\* FUN_Main

Arm ==
  /\ At("main", "arm") /\ Go("main", "fork")
  /\ mem' = [mem EXCEPT ![INPUT_FLAG] = FLAG_NotReady[1], ![INPUT_FLAG + 1] = FLAG_NotReady[2]]
  /\ UNCHANGED <<request, C0, stored, half, kernel, terminal>>

ForkReader ==
  /\ At("main", "fork")
  /\ pc' = [pc EXCEPT !["main"] = "wait", !["reader"] = "read"]
  /\ UNCHANGED <<mem, request, C0, stored, half, kernel, terminal>>

WaitForFlag ==
  /\ Syscall("main", "wait", WEEPER_SYSCALL.FUTEX, <<INPUT_FLAG, 0, 0, INPUT_TIME>>, "clock")
  /\ UNCHANGED <<mem, C0, stored, half, kernel, terminal>>

\* FUN_Timer: kills the process if the other threads' time stamps are old.
ReadClock ==
  /\ Syscall("main", "clock", WEEPER_SYSCALL.TOD, <<SCRATCH_HI + 1, 0, 0, INPUT_TIME>>, "late?")
  /\ UNCHANGED <<mem, C0, stored, half, kernel, terminal>>

InTime ==
  /\ At("main", "late?") /\ Go("main", "compare")
  /\ UNCHANGED <<mem, request, C0, stored, half, kernel, terminal>>

Late ==
  /\ At("main", "late?") /\ Go("main", "mismatch")
  /\ UNCHANGED <<mem, request, C0, stored, half, kernel, terminal>>

AskPid ==
  /\ Syscall("main", "mismatch", WEEPER_SYSCALL.GETPID, <<0, 0, 0, 0>>, "kill")
  /\ UNCHANGED <<mem, C0, stored, half, kernel, terminal>>

KillSelf ==
  /\ Syscall("main", "kill", WEEPER_SYSCALL.KILL, <<R0["main"], SIGSEGV, 0, 0>>, "killed")
  /\ UNCHANGED <<mem, C0, stored, half, kernel, terminal>>

\* The two bytes of the flag, in either order.
GetHalf ==
  /\ At("main", "compare")
  /\ \E i \in {1, 2} \ DOMAIN half :
       half' = [j \in DOMAIN half \cup {i} |->
                  IF j = i THEN mem[INPUT_FLAG + i - 1] ELSE half[j]]
  /\ UNCHANGED <<pc, mem, request, C0, stored, kernel, terminal>>

Compare ==
  /\ At("main", "compare") /\ DOMAIN half = {1, 2}
  /\ Go("main", IF half = FLAG_InputDone THEN "open" ELSE "wait")
  /\ half' = << >>
  /\ UNCHANGED <<mem, request, C0, stored, kernel, terminal>>

Main ==
  \/ Arm \/ ForkReader \/ WaitForFlag \/ ReadClock \/ InTime
  \/ Late \/ AskPid \/ KillSelf \/ GetHalf \/ Compare

-----------------------------------------------------------------------------
\* FUN_ReadInput

ReadByte ==
  /\ Syscall("reader", "read", WEEPER_SYSCALL.READ, <<0, INPUT_PLAIN + C0, 1, 0>>, "look")
  /\ UNCHANGED <<mem, C0, stored, half, kernel, terminal>>

\* Mutant of LookAtByte: a byte too many is read.
LookAtByte_TooMany ==
  /\ At("reader", "look")
  /\ IF mem[INPUT_PLAIN + C0] = NL
     THEN Go("reader", "enough?") /\ UNCHANGED C0
     ELSE C0' = C0 + 1 /\ Go("reader", IF C0' <= INPUT_LENGTH THEN "read" ELSE "enough?")
  /\ UNCHANGED <<mem, request, stored, half, kernel, terminal>>

\* It looks at the byte, not at what the call returned.
LookAtByte ==
  /\ At("reader", "look")
  /\ IF mem[INPUT_PLAIN + C0] = NL
     THEN Go("reader", "enough?") /\ UNCHANGED C0
     ELSE C0' = C0 + 1 /\ Go("reader", IF C0' < INPUT_LENGTH THEN "read" ELSE "enough?")
  /\ UNCHANGED <<mem, request, stored, half, kernel, terminal>>

Enough ==
  /\ At("reader", "enough?")
  /\ Go("reader", IF C0 # INPUT_LENGTH THEN "newline" ELSE "junk")
  /\ UNCHANGED <<mem, request, C0, stored, half, kernel, terminal>>

ReadJunk ==
  /\ Syscall("reader", "junk", WEEPER_SYSCALL.READ, <<0, SCRATCH_HI, 1, 0>>, "look at junk")
  /\ UNCHANGED <<mem, C0, stored, half, kernel, terminal>>

\* A line with more than INPUT_LENGTH bytes is made invalid.
LookAtJunk ==
  /\ At("reader", "look at junk")
  /\ IF mem[SCRATCH_HI] = NL
     THEN Go("reader", "newline") /\ UNCHANGED mem
     ELSE Go("reader", "junk") /\ mem' = [mem EXCEPT ![INPUT_PLAIN] = 0]
  /\ UNCHANGED <<request, C0, stored, half, kernel, terminal>>

PrintNewLine ==
  /\ Syscall("reader", "newline", WEEPER_SYSCALL.WRITE, <<1, SCRATCH_LO, 1, 0>>, "flag")
  /\ mem' = [mem EXCEPT ![SCRATCH_LO] = NL]
  /\ UNCHANGED <<C0, stored, half, kernel, terminal>>

\* Both bytes twice (writeToVmem), in any order: nothing keeps the compiler to
\* that of the source.
StoreFlag ==
  /\ At("reader", "flag")
  /\ \E i \in {1, 2} :
       /\ stored[i] < 2 /\ stored' = [stored EXCEPT ![i] = @ + 1]
       /\ mem' = [mem EXCEPT ![INPUT_FLAG + i - 1] = FLAG_InputDone[i]]
  /\ Go("reader", IF \A i \in {1, 2} : stored'[i] = 2 THEN "wake" ELSE "flag")
  /\ UNCHANGED <<request, C0, half, kernel, terminal>>

\* Mutant of WakeMain: the place of the timeout is taken for that of the flag.
WakeMain_Elsewhere ==
  /\ Syscall("reader", "wake", WEEPER_SYSCALL.FUTEX, <<INPUT_TIME, 1, 1, 0>>, "exit")
  /\ UNCHANGED <<mem, C0, stored, half, kernel, terminal>>

\* F3 still has the value it was born with.
WakeMain ==
  /\ Syscall("reader", "wake", WEEPER_SYSCALL.FUTEX, <<INPUT_FLAG, 1, 1, 0>>, "exit")
  /\ UNCHANGED <<mem, C0, stored, half, kernel, terminal>>

Reader ==
  \/ ReadByte \/ LookAtByte \/ Enough \/ ReadJunk \/ LookAtJunk
  \/ PrintNewLine \/ StoreFlag \/ WakeMain

\* FUN_Tracer has found a debugger, or FUN_Watcher an access to the memory.
OthersKill ==
  /\ alive /\ alive' = FALSE
  /\ UNCHANGED <<mem, pc, request, R0, asleep, C0, stored, half, taken, terminal>>

-----------------------------------------------------------------------------
\* The kernel, which has requests to serve.

FUTEX_WAIT == Plain(0)
FUTEX_WAKE == Plain(1)
STDIN == Plain(0)

Asked(t, nr) == alive /\ t \notin asleep /\ request[t].nr = nr
Arg(t, i) == request[t].args[i]

Answer(t, r) ==
  /\ request' = [request EXCEPT ![t] = NoRequest]
  /\ R0' = [R0 EXCEPT ![t] = r]

\* One byte, or none at the end of the file.
KernelReads(t) ==
  /\ Asked(t, SYS.read) /\ Arg(t, 1) = STDIN
  /\ IF taken < Len(typed) /\ Arg(t, 2).is = "pointer"
     THEN /\ mem' = [mem EXCEPT ![Arg(t, 2).n] = typed[taken + 1]]
          /\ taken' = taken + 1 /\ Answer(t, 1)
     ELSE /\ closed \/ Arg(t, 2).is # "pointer"
          /\ Answer(t, 0) /\ UNCHANGED <<mem, taken>>
  /\ UNCHANGED <<alive, pc, asleep, C0, stored, half, terminal>>

Zero(n) == \A i \in 0 .. 3 : mem[n + i] = 0

\* The kernel compares four bytes, with the number 0 in this program.
KernelWaits(t) ==
  /\ Asked(t, SYS.futex) /\ Arg(t, 2) = FUTEX_WAIT /\ Arg(t, 3) = Plain(0)
  /\ IF Zero(Arg(t, 1).n)
     THEN asleep' = asleep \cup {t} /\ UNCHANGED <<request, R0>>
     ELSE Answer(t, 11) /\ UNCHANGED asleep
  /\ UNCHANGED <<alive, mem, pc, C0, stored, half, taken, terminal>>

KernelWakes(t) ==
  /\ Asked(t, SYS.futex) /\ Arg(t, 2) = FUTEX_WAKE
  /\ LET woken == {u \in asleep : Arg(u, 1) = Arg(t, 1)}
     IN  /\ Cardinality(woken) <= Arg(t, 3).n
         /\ asleep' = asleep \ woken
         /\ request' = [u \in Threads |-> IF u \in woken \cup {t} THEN NoRequest ELSE request[u]]
         /\ R0' = [u \in Threads |-> IF u = t THEN Cardinality(woken)
                                     ELSE IF u \in woken THEN 0 ELSE R0[u]]
  /\ UNCHANGED <<alive, mem, pc, C0, stored, half, taken, terminal>>

\* The timeout has passed, or a signal has come.
WaitEnds(t) ==
  /\ alive /\ t \in asleep
  /\ asleep' = asleep \ {t}
  /\ Answer(t, 110)
  /\ UNCHANGED <<alive, mem, pc, C0, stored, half, taken, terminal>>

KernelTellsPid(t) ==
  /\ Asked(t, SYS.getpid) /\ Answer(t, Pid)
  /\ UNCHANGED <<alive, mem, pc, asleep, C0, stored, half, taken, terminal>>

KernelKills(t) ==
  /\ Asked(t, SYS.kill) /\ Arg(t, 1) = Plain(Pid) /\ Arg(t, 2) = Plain(SIGSEGV)
  /\ alive' = FALSE
  /\ UNCHANGED <<mem, pc, request, R0, asleep, C0, stored, half, taken, terminal>>

\* The clock and the terminal are not modelled.
KernelAnswers(t) ==
  /\ Asked(t, SYS.gettimeofday) \/ Asked(t, SYS.write)
  /\ Answer(t, 0)
  /\ UNCHANGED <<alive, mem, pc, asleep, C0, stored, half, taken, terminal>>

Kernel(t) ==
  \/ KernelReads(t) \/ KernelWaits(t) \/ KernelWakes(t)
  \/ KernelTellsPid(t) \/ KernelKills(t) \/ KernelAnswers(t)

-----------------------------------------------------------------------------
\* The line has its end.
Ended == \E i \in DOMAIN typed : typed[i] = NL

\* One line is typed; it ends, or the terminal is closed.
Type ==
  /\ alive /\ ~closed /\ ~Ended /\ Len(typed) < MaxTyped
  /\ \E c \in Letters \cup {NL} : typed' = Append(typed, c)
  /\ UNCHANGED <<alive, mem, pc, request, R0, asleep, C0, stored, half, taken, closed>>

CloseTerminal ==
  /\ alive /\ ~closed /\ closed' = TRUE
  /\ UNCHANGED <<alive, mem, pc, request, R0, asleep, C0, stored, half, typed, taken>>

Dead == ~alive /\ UNCHANGED vars

Next ==
  \/ Main \/ Reader \/ OthersKill
  \/ \E t \in Threads : Kernel(t) \/ WaitEnds(t)
  \/ Type \/ CloseTerminal \/ Dead

\* The threads run and their calls are served; nothing forces a timeout.
Fairness ==
  /\ WF_vars(Main) /\ WF_vars(Reader)
  /\ WF_vars(Kernel("main")) /\ WF_vars(Kernel("reader"))

Spec == Init /\ [][Next]_vars /\ Fairness

-----------------------------------------------------------------------------
\* Which arguments the kernel takes for addresses, and which for numbers.
Addressed(r) ==
  CASE r.nr \in {SYS.nanosleep, SYS.gettimeofday, SYS.open} -> {1}
    [] r.nr \in {SYS.read, SYS.write, SYS.inotify_add_watch} -> {2}
    [] r.nr = SYS.futex -> IF r.args[2] = FUTEX_WAIT THEN {1, 4} ELSE {1}
    [] OTHER -> {}
Numbered(r) ==
  CASE r.nr \in {SYS.read, SYS.write, SYS.inotify_add_watch} -> {1, 3}
    [] r.nr \in {SYS.kill, SYS.inotify_rm_watch} -> {1, 2}
    [] r.nr = SYS.futex -> {2, 3}
    [] r.nr = SYS.lseek -> {1, 2, 3}
    [] r.nr = SYS.open -> {2}
    [] r.nr = SYS.close -> {1}
    [] OTHER -> {}

Understood(r) ==
  /\ \A i \in Addressed(r) : r.args[i].is = "pointer"
  /\ \A i \in Numbered(r) : r.args[i].is = "number"
  /\ r.nr = SYS.gettimeofday => r.args[2] = Null

TableUnderstood ==
  \A c \in DOMAIN WEEPER_SYSCALL, a \in Addresses :
    Understood(Translate(WEEPER_SYSCALL[c], <<a, 0, a, 0>>))

\* Whatever call these and the other threads make, the kernel finds an address in
\* vmem where it takes one, no junk where it takes a number, and no time zone
\* (handle_syscall).  The second argument of nanosleep, junk too, matters only if
\* a signal comes.
RequestsRight ==
  /\ \A t \in Threads : request[t] # NoRequest => Understood(request[t])
  /\ TableUnderstood

\* The main thread gets past the gate only when the line has been read to its
\* end, and what it goes on to check is that line, or invalid if the line is too
\* long (FUN_Main, FUN_ReadInput).
InputRight ==
  pc["main"] = "open" =>
    /\ Ended
    /\ LET length == Len(typed) - 1
       IN  IF length > INPUT_LENGTH
           THEN mem[INPUT_PLAIN] = 0
           ELSE \A i \in 1 .. length : mem[INPUT_PLAIN + i - 1] = typed[i]

\* Once a line has been typed the main thread gets past the gate, or the process
\* is killed: no timeout is needed for it.
GateOpens == Ended ~> (pc["main"] = "open" \/ ~alive)
=============================================================================
