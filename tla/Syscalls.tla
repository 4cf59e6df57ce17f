------------------------------- MODULE Syscalls -------------------------------
(***************************************************************************)
(* handle_syscall of emulate.c: which system call of the kernel a SYSCALL  *)
(* of the virtual program becomes, and with which arguments.  A pointer is *)
(* an offset into vmem; what the code passes only to mislead is junk.      *)
(***************************************************************************)
EXTENDS Integers

\* The numbers of the virtual program.
WEEPER_SYSCALL == [SLEEP   |-> 16, GETPID |-> 17, GETPPID |-> 18, KILL  |-> 19, TOD   |-> 20,
                   OPEN    |-> 32, READ   |-> 33, WRITE   |-> 34, CLOSE |-> 35, LSEEK |-> 36,
                   NOTINIT |-> 48, NOTADD |-> 49, NOTRM   |-> 50, FUTEX |-> 51]

\* Those of the kernel.
SYS == [read |-> 0, write |-> 1, open |-> 2, close |-> 3, lseek |-> 8, nanosleep |-> 35,
        getpid |-> 39, kill |-> 62, gettimeofday |-> 96, getppid |-> 110, futex |-> 202,
        inotify_init |-> 253, inotify_add_watch |-> 254, inotify_rm_watch |-> 255]

Pointer(n) == [is |-> "pointer", n |-> n]
Plain(n) == [is |-> "number", n |-> n]
Null == Plain(0)
Junk == [is |-> "junk"]

Call(nr, a0, a1, a2, a3) == [nr |-> nr, args |-> <<a0, a1, a2, a3>>]

\* The registers F0 to F3 in the order of the arguments.
Control(k, F) ==
  CASE k = 0 -> Call(SYS.nanosleep, Pointer(F[1]), Junk, Junk, Junk)
    [] k = 1 -> Call(SYS.getpid, Junk, Junk, Junk, Junk)
    [] k = 2 -> Call(SYS.getppid, Junk, Junk, Junk, Junk)
    [] k = 3 -> Call(SYS.kill, Plain(F[1]), Plain(F[2]), Junk, Junk)
    [] k = 4 -> Call(SYS.gettimeofday, Pointer(F[1]), Null, Junk, Junk)

\* Mutant of File: READ passes the place of the buffer as it is.
File_RawBuffer(k, F) ==
  CASE k = 0 -> Call(SYS.open, Pointer(F[1]), Plain(F[2]), Junk, Junk)
    [] k = 1 -> Call(SYS.read, Plain(F[1]), Plain(F[2]), Plain(F[3]), Junk)
    [] k = 2 -> Call(SYS.write, Plain(F[1]), Pointer(F[2]), Plain(F[3]), Junk)
    [] k = 3 -> Call(SYS.close, Plain(F[1]), Junk, Junk, Junk)
    [] k = 4 -> Call(SYS.lseek, Plain(F[1]), Plain(F[2]), Plain(F[3]), Junk)
File(k, F) ==
  CASE k = 0 -> Call(SYS.open, Pointer(F[1]), Plain(F[2]), Junk, Junk)
    [] k = 1 -> Call(SYS.read, Plain(F[1]), Pointer(F[2]), Plain(F[3]), Junk)
    [] k = 2 -> Call(SYS.write, Plain(F[1]), Pointer(F[2]), Plain(F[3]), Junk)
    [] k = 3 -> Call(SYS.close, Plain(F[1]), Junk, Junk, Junk)
    [] k = 4 -> Call(SYS.lseek, Plain(F[1]), Plain(F[2]), Plain(F[3]), Junk)

Weird(k, F) ==
  CASE k = 0 -> Call(SYS.inotify_init, Plain(F[1]), Junk, Junk, Junk)
    [] k = 1 -> Call(SYS.inotify_add_watch, Plain(F[1]), Pointer(F[2]), Plain(F[3]), Junk)
    [] k = 2 -> Call(SYS.inotify_rm_watch, Plain(F[1]), Plain(F[2]), Junk, Junk)
    [] k = 3 -> Call(SYS.futex, Pointer(F[1]), Plain(F[2]), Plain(F[3]), Pointer(F[4]))

\* A number the machine does not know goes to the kernel as it is.
Translate(code, F) ==
  CASE code \div 16 = 1 /\ code % 16 \in 0 .. 4 -> Control(code % 16, F)
    [] code \div 16 = 2 /\ code % 16 \in 0 .. 4 -> File(code % 16, F)
    [] code \div 16 = 3 /\ code % 16 \in 0 .. 3 -> Weird(code % 16, F)
    [] OTHER -> Call(code, Plain(F[1]), Plain(F[2]), Plain(F[3]), Plain(F[4]))
=============================================================================
