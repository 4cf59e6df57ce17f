--------------------------- MODULE InputGate_proofs ---------------------------
(***************************************************************************)
(* The main thread of the virtual program gets past its gate only on a     *)
(* line that was read to its end, and with that line in front of it, for   *)
(* every length of the input, whatever is typed, and wherever timeouts,    *)
(* kills and the end of the file fall.  InputRight alone says nothing of   *)
(* the way there: Reading has what each place of FUN_ReadInput implies of  *)
(* the bytes read so far, and NoEndYet that a newline in memory was typed. *)
(* And every call of the two threads is one the kernel understands.        *)
(***************************************************************************)
EXTENDS InputGate, SequenceTheorems, TLAPS

L == INPUT_LENGTH
reader == pc["reader"]
asked == request["reader"]

\* The addresses that FUN_ReadInput reads into.
Cells == 0 .. L - 1 \cup {SCRATCH_HI}
Byte == Letters \cup {NL, 0, 29, 209}

Flagged == {"flag", "wake", "exit"}
Printed == Flagged \cup {"newline"}
Locations == {"arm", "fork", "wait", "clock", "late?", "compare", "mismatch",
              "kill", "killed", "open", "unborn", "read", "look", "enough?",
              "junk", "look at junk"} \cup Printed

Shape ==
  /\ mem \in [Addresses -> Byte]
  /\ pc \in [Threads -> Locations]
  /\ request = [t \in Threads |-> request[t]]
  /\ C0 \in Nat
  /\ typed \in Seq(Letters \cup {NL}) /\ taken \in Nat /\ taken <= Len(typed)
  /\ asleep \subseteq {"main"}
  /\ DOMAIN half \subseteq {1, 2}

ReadInto(a) == Call(SYS.read, Plain(0), Pointer(a), Plain(1), Junk)

\* What each thread asks of the kernel, and where.
Asking ==
  /\ request["main"].nr # SYS.read
  /\ asked # NoRequest =>
       \/ reader = "look" /\ asked = ReadInto(C0)
       \/ reader = "look at junk" /\ asked = ReadInto(SCRATCH_HI)
       \/ /\ reader \in Flagged /\ asked.nr \in {SYS.write, SYS.futex}
          /\ asked.nr = SYS.futex => asked.args[2] = FUTEX_WAKE

\* The first n bytes of the line are in memory.
Matches(n) == \A i \in 1 .. n : mem[i - 1] = typed[i]
LineRead == taken > 0 /\ typed[taken] = NL
\* The terminal was closed before the line had its end.
Starved == closed /\ taken = Len(typed) /\ ~LineRead

Before(n) == ~LineRead /\ ((taken = n /\ Matches(n)) \/ Starved)
BeforeJunk ==
  /\ ~LineRead
  /\ (taken = L /\ Matches(L)) \/ (taken > L /\ mem[0] = 0) \/ Starved
AfterJunk ==
  \/ (taken = L + 1 /\ Matches(L)) /\ mem[SCRATCH_HI] = typed[taken]
  \/ (taken > L + 1 /\ mem[0] = 0) /\ mem[SCRATCH_HI] = typed[taken]
  \/ Starved
Final ==
  /\ LineRead
  /\ IF Len(typed) - 1 > L THEN mem[0] = 0
     ELSE \A i \in 1 .. Len(typed) - 1 : mem[i - 1] = typed[i]

Reading ==
  /\ reader \in {"unborn", "read"} \/ (reader = "look" /\ asked # NoRequest) =>
       C0 < L /\ Before(C0)
  /\ reader = "look" /\ asked = NoRequest =>
       C0 < L /\ ((taken = C0 + 1 /\ Matches(C0 + 1)) \/ Starved)
  /\ reader = "enough?" =>
       \/ C0 < L /\ LineRead /\ taken = C0 + 1 /\ Matches(C0 + 1)
       \/ C0 = L /\ Before(L)
  /\ reader = "junk" \/ (reader = "look at junk" /\ asked # NoRequest) =>
       C0 = L /\ BeforeJunk
  /\ reader = "look at junk" /\ asked = NoRequest => C0 = L /\ AfterJunk
  /\ reader \in Printed => Final

NoEndYet == ~LineRead => \A a \in Cells : mem[a] # NL

OneLine == \A i \in 1 .. Len(typed) : typed[i] = NL => i = Len(typed)

\* The first byte of the flag, and what the main thread has got of it.
FlagKnown ==
  /\ reader \notin Flagged => mem[L] = 0
  /\ (1 \in DOMAIN half /\ half[1] = 29) \/ pc["main"] = "open" => reader \in Flagged
  /\ pc["main"] \in {"arm", "fork"} => reader = "unborn" /\ asked = NoRequest

Inv == Shape /\ Asking /\ Reading /\ NoEndYet /\ OneLine /\ FlagKnown

-----------------------------------------------------------------------------
\* The addresses in play are addresses, and distinct.
LEMMA Places ==
  /\ L \in Nat /\ L > 0 /\ INPUT_FLAG = L /\ INPUT_PLAIN = 0
  /\ L \in Addresses /\ L + 1 \in Addresses /\ 0 \in Cells /\ Cells \subseteq Addresses
  /\ SCRATCH_LO \in Addresses /\ SCRATCH_HI \in Cells
  /\ SCRATCH_LO \notin Cells \cup {L} /\ L \notin Cells /\ L + 1 \notin Cells
  /\ SCRATCH_HI > L
  BY GateAssumption DEF L, Cells, Addresses, INPUT_FLAG, INPUT_PLAIN, SCRATCH_LO, SCRATCH_HI

LEMMA Input == \A i \in 0 .. L - 1 : i \in Cells /\ i # SCRATCH_HI
  BY GateAssumption DEF L, Cells, SCRATCH_HI

\* What handle_syscall makes of the calls of these threads.
LEMMA Reads ==
  ASSUME NEW a
  PROVE  Translate(WEEPER_SYSCALL.READ, <<0, a, 1, 0>>) = ReadInto(a)
  BY DEF Translate, WEEPER_SYSCALL, File, ReadInto, Plain

LEMMA Prints ==
  ASSUME NEW a
  PROVE  Translate(WEEPER_SYSCALL.WRITE, <<1, a, 1, 0>>).nr = SYS.write
  BY DEF Translate, WEEPER_SYSCALL, File, Call

LEMMA Futexes ==
  ASSUME NEW a, NEW n, NEW m, NEW b
  PROVE  /\ Translate(WEEPER_SYSCALL.FUTEX, <<a, n, m, b>>).nr = SYS.futex
         /\ Translate(WEEPER_SYSCALL.FUTEX, <<a, n, m, b>>).args[2] = Plain(n)
  BY DEF Translate, WEEPER_SYSCALL, Weird, Call

LEMMA Controls ==
  ASSUME NEW F
  PROVE  /\ Translate(WEEPER_SYSCALL.TOD, F).nr = SYS.gettimeofday
         /\ Translate(WEEPER_SYSCALL.GETPID, F).nr = SYS.getpid
         /\ Translate(WEEPER_SYSCALL.KILL, F).nr = SYS.kill
  BY DEF Translate, WEEPER_SYSCALL, Control, Call

LEMMA Numbers ==
  /\ NoRequest.nr \notin {SYS.read, SYS.write, SYS.futex}
  /\ SYS.read \notin {SYS.write, SYS.futex, SYS.gettimeofday, SYS.getpid, SYS.kill}
  /\ SYS.write # SYS.futex
  /\ \A a : ReadInto(a).nr = SYS.read /\ ReadInto(a).args[2] = Pointer(a)
              /\ Pointer(a).is = "pointer" /\ Pointer(a).n = a
  /\ FUTEX_WAKE # FUTEX_WAIT
  BY DEF NoRequest, SYS, ReadInto, Call, Pointer, FUTEX_WAKE, FUTEX_WAIT, Plain

-----------------------------------------------------------------------------
LEMMA InitInv == Init => Inv
<1> SUFFICES ASSUME Init PROVE Inv
  OBVIOUS
<1>1. Shape
  <2>1. mem \in [Addresses -> Byte]
    BY DEF Init, Byte
  <2>2. pc \in [Threads -> Locations]
    <3>1. pc = [t \in {"main", "reader"} |-> IF t = "main" THEN "arm" ELSE "unborn"]
      BY DEF Init
    <3> QED
      BY <3>1 DEF Threads, Locations
  <2>3. request = [t \in Threads |-> request[t]]
    BY DEF Init
  <2>4. typed \in Seq(Letters \cup {NL}) /\ taken <= Len(typed) /\ DOMAIN half \subseteq {1, 2}
    BY DEF Init
  <2> QED
    BY <2>1, <2>2, <2>3, <2>4 DEF Init, Shape
<1>2. Asking
  <2>1. request["main"] = NoRequest /\ asked = NoRequest
    BY DEF Init, asked, Threads
  <2>2. NoRequest.nr # SYS.read
    BY Numbers
  <2> QED
    BY <2>1, <2>2 DEF Asking
<1>3. ~LineRead /\ Matches(0)
  BY DEF Init, LineRead, Matches
<1>4. Reading
  BY <1>3, Places DEF Init, Reading, reader, Before, Printed, Flagged
<1>5. NoEndYet /\ OneLine
  BY Places, GateAssumption DEF Init, NoEndYet, OneLine
<1>6. FlagKnown
  BY Places DEF Init, FlagKnown, reader, asked, Flagged, Threads
<1> QED
  BY <1>1, <1>2, <1>4, <1>5, <1>6 DEF Inv

\* A step that leaves the reader's view alone: where it is, what it has asked,
\* the cells it reads into and the line.
Apart ==
  /\ reader' = reader /\ asked' = asked
  /\ UNCHANGED <<C0, typed, taken, closed>>
  /\ \A a \in Cells : mem'[a] = mem[a]

\* Such a step keeps what the reader's places imply.
LEMMA Frame ==
  ASSUME Inv, Apart
  PROVE  Reading' /\ NoEndYet' /\ OneLine'
<1>1. \A n : n <= L /\ n \in Nat => (Matches(n)' <=> Matches(n))
  BY Places DEF Apart, Matches, Cells
<1>2. (LineRead' <=> LineRead) /\ (Starved' <=> Starved)
  BY DEF Apart, LineRead, Starved
<1>3. mem'[0] = mem[0] /\ mem'[SCRATCH_HI] = mem[SCRATCH_HI]
  <2>1. 0 \in Cells /\ SCRATCH_HI \in Cells
    BY Places
  <2> QED
    BY <2>1, Zenon DEF Apart
<1>4. Final => Final'
  <2> SUFFICES ASSUME Final PROVE Final'
    OBVIOUS
  <2>1. typed' = typed /\ L' = L /\ Len(typed) \in Nat /\ L \in Nat
    BY Places DEF Apart, L, Inv, Shape
  <2>2. CASE Len(typed) - 1 > L
    BY <1>2, <1>3, <2>1, <2>2 DEF Final
  <2>3. CASE ~(Len(typed) - 1 > L)
    <3>1. \A i \in 1 .. Len(typed) - 1 : i - 1 \in Cells
      BY <2>1, <2>3 DEF Cells
    <3>2. \A i \in 1 .. Len(typed) - 1 : mem'[i - 1] = mem[i - 1]
      BY <3>1 DEF Apart
    <3> QED
      BY <1>2, <2>1, <2>3, <3>2 DEF Final
  <2> QED
    BY <2>2, <2>3
<1>5. C0 \in Nat /\ C0' = C0 /\ taken' = taken /\ typed' = typed /\ L' = L
  BY DEF Inv, Shape, Apart, L
<1>6. BeforeJunk => BeforeJunk'
  BY <1>1, <1>2, <1>3, <1>5, Places DEF BeforeJunk
<1>7. AfterJunk => AfterJunk'
  BY <1>1, <1>2, <1>3, <1>5, Places DEF AfterJunk
<1>8. C0 <= L /\ Before(C0) => Before(C0)'
  BY <1>1, <1>2, <1>5, Places DEF Before
<1>9. Before(L) => Before(L)'
  BY <1>1, <1>2, <1>5, Places DEF Before
<1>10. C0 < L /\ Matches(C0 + 1) => Matches(C0 + 1)'
  BY <1>1, <1>5, Places
<1>11. Reading'
  <2>1. reader' = reader /\ asked' = asked /\ Reading
    BY DEF Apart, Inv
  <2>2. ASSUME reader \in {"unborn", "read"} \/ (reader = "look" /\ asked # NoRequest)
        PROVE  C0 < L /\ Before(C0)'
    <3>1. C0 < L /\ Before(C0)
      BY <2>1, <2>2 DEF Reading
    <3> QED
      BY <1>5, <1>8, <3>1, Places
  <2>3. ASSUME reader = "look" /\ asked = NoRequest
        PROVE  C0 < L /\ ((taken = C0 + 1 /\ Matches(C0 + 1)') \/ Starved')
    BY <1>2, <1>10, <2>1, <2>3 DEF Reading
  <2>4. ASSUME reader = "enough?"
        PROVE  \/ C0 < L /\ LineRead' /\ taken = C0 + 1 /\ Matches(C0 + 1)'
               \/ C0 = L /\ Before(L)'
    BY <1>2, <1>9, <1>10, <2>1, <2>4 DEF Reading
  <2>5. ASSUME reader = "junk" \/ (reader = "look at junk" /\ asked # NoRequest)
        PROVE  C0 = L /\ BeforeJunk'
    BY <1>6, <2>1, <2>5 DEF Reading
  <2>6. ASSUME reader = "look at junk" /\ asked = NoRequest
        PROVE  C0 = L /\ AfterJunk'
    BY <1>7, <2>1, <2>6 DEF Reading
  <2>7. reader \in Printed => Final'
    BY <1>4, <2>1 DEF Reading
  <2> QED
    BY <1>5, <2>1, <2>2, <2>3, <2>4, <2>5, <2>6, <2>7 DEF Reading, NoRequest, Printed, Flagged
<1> QED
  BY <1>2, <1>11 DEF Inv, NoEndYet, OneLine, Apart

\* Once the line has been read, answers to the reader change nothing.
LEMMA Answered ==
  ASSUME Inv, reader \in Flagged, reader' = reader, asked' = NoRequest,
         UNCHANGED <<C0, typed, taken, closed, mem>>
  PROVE  Reading' /\ NoEndYet' /\ OneLine'
<1>1. Final
  BY DEF Inv, Reading, Printed
<1>2. Final' /\ reader' \in Flagged
  BY <1>1 DEF Final, LineRead
<1> QED
  BY <1>2 DEF Inv, Reading, NoEndYet, OneLine, LineRead, Flagged, Printed

-----------------------------------------------------------------------------
\* What follows from the shape of the state alone.
LEMMA Indices ==
  ASSUME Inv
  PROVE  /\ DOMAIN request = Threads /\ DOMAIN pc = Threads /\ DOMAIN mem = Addresses
         /\ C0 \in Nat /\ taken \in Nat /\ Len(typed) \in Nat /\ taken <= Len(typed)
         /\ "main" \in Threads /\ "reader" \in Threads
  BY DEF Inv, Shape, Threads

LEMMA Store ==
  ASSUME Inv, NEW a, NEW b \in Byte
  PROVE  [mem EXCEPT ![a] = b] \in [Addresses -> Byte]
  BY DEF Inv, Shape

LEMMA Bytes == NL \in Byte /\ 0 \in Byte /\ \A i \in {0, 1} : FLAG_InputDone[i + 1] \in Byte
  BY DEF Byte, FLAG_InputDone

\* FUN_Main, one lemma for each step that does more than go on.
LEMMA ArmKeeps == Inv /\ Arm => Inv'
<1> SUFFICES ASSUME Inv, Arm PROVE Inv'
  OBVIOUS
<1> USE Indices
<1>1. /\ mem' = [mem EXCEPT ![L] = 0, ![L + 1] = 0]
      /\ pc["main"] = "arm" /\ pc' = [pc EXCEPT !["main"] = "fork"]
      /\ UNCHANGED <<request, asleep, C0, stored, half, typed, taken, closed>>
  BY DEF Arm, At, Go, FLAG_NotReady, INPUT_FLAG, L, kernel, terminal
<1>2. Apart
  BY <1>1, Places DEF Apart, reader, asked
<1>3. Shape'
  BY <1>1, Places DEF Inv, Shape, Byte, Locations
<1>4. Asking'
  BY <1>1 DEF Inv, Asking, reader, asked, NoRequest
<1>5. FlagKnown'
  BY <1>1, Places DEF Inv, FlagKnown, reader, asked, L, NoRequest, Flagged
<1> QED
  BY <1>2, <1>3, <1>4, <1>5, Frame DEF Inv

LEMMA ForkReaderKeeps == Inv /\ ForkReader => Inv'
<1> SUFFICES ASSUME Inv, ForkReader PROVE Inv'
  OBVIOUS
<1> USE Indices
<1>1. /\ pc["main"] = "fork" /\ pc' = [pc EXCEPT !["main"] = "wait", !["reader"] = "read"]
      /\ UNCHANGED <<mem, request, asleep, C0, stored, half, typed, taken, closed>>
  BY DEF ForkReader, At, kernel, terminal
<1>2. reader = "unborn" /\ asked = NoRequest /\ reader' = "read" /\ asked' = NoRequest
  BY <1>1 DEF Inv, FlagKnown, reader, asked
<1>3. Shape'
  BY <1>1 DEF Inv, Shape, Locations
<1>4. Asking'
  BY <1>1, <1>2 DEF Inv, Asking, NoRequest
<1>5. C0' < L' /\ Before(C0)'
  BY <1>1, <1>2 DEF Inv, Reading, Before, LineRead, Starved, Matches, L
<1>6. Reading'
  BY <1>2, <1>5 DEF Reading, Printed, Flagged, NoRequest
<1>7. NoEndYet' /\ OneLine'
  BY <1>1 DEF Inv, NoEndYet, OneLine, LineRead
<1>8. FlagKnown'
  BY <1>1, <1>2 DEF Inv, FlagKnown, L, NoRequest, Flagged
<1> QED
  BY <1>3, <1>4, <1>6, <1>7, <1>8 DEF Inv

LEMMA GetHalfKeeps == Inv /\ GetHalf => Inv'
<1> SUFFICES ASSUME Inv, GetHalf PROVE Inv'
  OBVIOUS
<1>1. UNCHANGED <<pc, mem, request, asleep, C0, stored, typed, taken, closed>>
  BY DEF GetHalf, kernel, terminal
<1>2. PICK i \in {1, 2} :
        half' = [j \in DOMAIN half \cup {i} |->
                  IF j = i THEN mem[INPUT_FLAG + i - 1] ELSE half[j]]
  BY DEF GetHalf
<1>3. Apart
  BY <1>1 DEF Apart, reader, asked
<1>4. Shape'
  BY <1>1, <1>2 DEF Inv, Shape
<1>5. Asking'
  BY <1>1 DEF Inv, Asking, reader, asked, NoRequest
<1>6. ASSUME 1 \in DOMAIN half', half'[1] = 29
      PROVE  reader \in Flagged
  <2>1. CASE i = 1
    <3>1. half'[1] = mem[L]
      BY <1>2, <2>1, Places
    <3> QED
      BY <1>6, <3>1 DEF Inv, FlagKnown
  <2>2. CASE i = 2
    BY <1>2, <1>6, <2>2 DEF Inv, FlagKnown
  <2> QED
    BY <2>1, <2>2
<1>7. FlagKnown'
  BY <1>1, <1>6 DEF Inv, FlagKnown, reader, asked, L, NoRequest, Flagged
<1> QED
  BY <1>3, <1>4, <1>5, <1>7, Frame DEF Inv

LEMMA CompareKeeps == Inv /\ Compare => Inv'
<1> SUFFICES ASSUME Inv, Compare PROVE Inv'
  OBVIOUS
<1> USE Indices
<1>1. /\ pc["main"] = "compare" /\ half' = << >>
      /\ pc' = [pc EXCEPT !["main"] = IF half = FLAG_InputDone THEN "open" ELSE "wait"]
      /\ UNCHANGED <<mem, request, asleep, C0, stored, typed, taken, closed>>
  BY DEF Compare, At, Go, kernel, terminal
<1>2. Apart
  BY <1>1 DEF Apart, reader, asked
<1>3. Shape'
  <2>1. DOMAIN half' = {}
    BY <1>1
  <2>2. pc' \in [Threads -> Locations]
    BY <1>1 DEF Inv, Shape, Locations
  <2> QED
    BY <1>1, <2>1, <2>2 DEF Inv, Shape
<1>4. Asking'
  BY <1>1 DEF Inv, Asking, reader, asked, NoRequest
<1>5. pc'["main"] = "open" => reader \in Flagged
  BY <1>1 DEF FLAG_InputDone, Inv, FlagKnown
<1>6. pc'["main"] \in {"open", "wait"} /\ reader' = reader /\ mem' = mem
  BY <1>1 DEF reader
<1>7. 1 \notin DOMAIN half'
  BY <1>1
<1>8. FlagKnown'
  BY <1>5, <1>6, <1>7 DEF Inv, FlagKnown, L, Flagged
<1> QED
  BY <1>2, <1>3, <1>4, <1>8, Frame DEF Inv

\* The main thread goes on, perhaps with a call that reads nothing.
LEMMA GoesOn ==
  ASSUME Inv, NEW there \in Locations \ {"arm", "fork", "open"}, NEW call,
         pc' = [pc EXCEPT !["main"] = there],
         request' = [request EXCEPT !["main"] = call], call.nr # SYS.read,
         UNCHANGED <<mem, asleep, C0, stored, half, typed, taken, closed>>
  PROVE  Inv'
<1> USE Indices
<1>1. Apart
  BY DEF Apart, reader, asked
<1>2. Shape'
  BY DEF Inv, Shape
<1>3. Asking'
  BY DEF Inv, Asking, reader, asked, NoRequest, Threads
<1>4. FlagKnown'
  BY DEF Inv, FlagKnown, reader, asked, L, NoRequest, Flagged
<1> QED
  BY <1>1, <1>2, <1>3, <1>4, Frame DEF Inv

LEMMA MainKeeps == Inv /\ Main => Inv'
<1> SUFFICES ASSUME Inv, Main PROVE Inv'
  OBVIOUS
<1> USE Indices
<1>1. CASE Arm
  BY <1>1, ArmKeeps
<1>2. CASE ForkReader
  BY <1>2, ForkReaderKeeps
<1>3. CASE WaitForFlag
  <2> DEFINE call == Translate(WEEPER_SYSCALL.FUTEX, <<INPUT_FLAG, 0, 0, INPUT_TIME>>)
  <2>1. call.nr # SYS.read
    BY Futexes, Numbers
  <2>2. "clock" \in Locations \ {"arm", "fork", "open"}
    BY DEF Locations
  <2>3. /\ pc' = [pc EXCEPT !["main"] = "clock"]
        /\ request' = [request EXCEPT !["main"] = call]
        /\ UNCHANGED <<mem, asleep, C0, stored, half, typed, taken, closed>>
    BY <1>3 DEF WaitForFlag, Syscall, Go, kernel, terminal
  <2> HIDE DEF call
  <2> QED
    BY <2>1, <2>2, <2>3, GoesOn
<1>4. CASE ReadClock
  <2> DEFINE call == Translate(WEEPER_SYSCALL.TOD, <<SCRATCH_HI + 1, 0, 0, INPUT_TIME>>)
  <2>1. call.nr # SYS.read
    BY Controls, Numbers
  <2>2. "late?" \in Locations \ {"arm", "fork", "open"}
    BY DEF Locations
  <2>3. /\ pc' = [pc EXCEPT !["main"] = "late?"]
        /\ request' = [request EXCEPT !["main"] = call]
        /\ UNCHANGED <<mem, asleep, C0, stored, half, typed, taken, closed>>
    BY <1>4 DEF ReadClock, Syscall, Go, kernel, terminal
  <2> HIDE DEF call
  <2> QED
    BY <2>1, <2>2, <2>3, GoesOn
<1>5. CASE InTime \/ Late
  <2>1. PICK there \in {"compare", "mismatch"} : pc' = [pc EXCEPT !["main"] = there]
    BY <1>5 DEF InTime, Late, Go
  <2>2. there \in Locations \ {"arm", "fork", "open"}
    BY <2>1 DEF Locations
  <2>3. UNCHANGED <<request, mem, asleep, C0, stored, half, typed, taken, closed>>
    BY <1>5 DEF InTime, Late, kernel, terminal
  <2>4. request' = [request EXCEPT !["main"] = request["main"]]
    BY <2>3 DEF Inv, Shape
  <2>5. request["main"].nr # SYS.read
    BY DEF Inv, Asking
  <2> QED
    BY <2>1, <2>2, <2>3, <2>4, <2>5, GoesOn
<1>6. CASE AskPid
  <2> DEFINE call == Translate(WEEPER_SYSCALL.GETPID, <<0, 0, 0, 0>>)
  <2>1. call.nr # SYS.read
    BY Controls, Numbers
  <2>2. "kill" \in Locations \ {"arm", "fork", "open"}
    BY DEF Locations
  <2>3. /\ pc' = [pc EXCEPT !["main"] = "kill"]
        /\ request' = [request EXCEPT !["main"] = call]
        /\ UNCHANGED <<mem, asleep, C0, stored, half, typed, taken, closed>>
    BY <1>6 DEF AskPid, Syscall, Go, kernel, terminal
  <2> HIDE DEF call
  <2> QED
    BY <2>1, <2>2, <2>3, GoesOn
<1>7. CASE KillSelf
  <2> DEFINE call == Translate(WEEPER_SYSCALL.KILL, <<R0["main"], SIGSEGV, 0, 0>>)
  <2>1. call.nr # SYS.read
    BY Controls, Numbers
  <2>2. "killed" \in Locations \ {"arm", "fork", "open"}
    BY DEF Locations
  <2>3. /\ pc' = [pc EXCEPT !["main"] = "killed"]
        /\ request' = [request EXCEPT !["main"] = call]
        /\ UNCHANGED <<mem, asleep, C0, stored, half, typed, taken, closed>>
    BY <1>7 DEF KillSelf, Syscall, Go, kernel, terminal
  <2> HIDE DEF call
  <2> QED
    BY <2>1, <2>2, <2>3, GoesOn
<1>8. CASE GetHalf
  BY <1>8, GetHalfKeeps
<1>9. CASE Compare
  BY <1>9, CompareKeeps
<1> QED
  BY <1>1, <1>2, <1>3, <1>4, <1>5, <1>6, <1>7, <1>8, <1>9 DEF Main

-----------------------------------------------------------------------------
\* The reader, once born, does not take the flag back.
LEMMA FlagStays ==
  ASSUME Inv, reader # "unborn", UNCHANGED half, pc'["main"] = pc["main"],
         reader \in Flagged => reader' \in Flagged,
         reader' \notin Flagged => mem'[L] = mem[L]
  PROVE  FlagKnown'
  BY DEF Inv, FlagKnown, Flagged, L

\* A step of the reader between two places without a call of the kernel.
LEMMA Steps ==
  ASSUME Inv, NEW here, NEW there, At("reader", here), Go("reader", there), UNCHANGED request
  PROVE  /\ reader = here /\ reader' = there /\ asked = NoRequest /\ asked' = NoRequest
         /\ pc'["main"] = pc["main"] /\ request'["main"] = request["main"]
         /\ Asking'
         /\ there \in Locations => pc' \in [Threads -> Locations]
<1> USE Indices
<1>1. reader = here /\ reader' = there /\ asked = NoRequest /\ asked' = NoRequest
  BY DEF At, Go, reader, asked
<1>2. Asking'
  BY <1>1 DEF Inv, Asking, NoRequest
<1> QED
  BY <1>1, <1>2 DEF Go, Inv, Shape, Threads

\* A step of the reader with one.
LEMMA Calls ==
  ASSUME Inv, NEW here, NEW there, NEW code, NEW F, Syscall("reader", here, code, F, there)
  PROVE  /\ reader = here /\ reader' = there /\ asked = NoRequest
         /\ asked' = Translate(code, F)
         /\ pc'["main"] = pc["main"] /\ request'["main"] = request["main"]
         /\ request' = [t \in Threads |-> request'[t]]
         /\ there \in Locations => pc' \in [Threads -> Locations]
  BY Indices DEF Syscall, At, Go, reader, asked, Inv, Shape, Threads

LEMMA ReadByteKeeps == Inv /\ ReadByte => Inv'
<1> SUFFICES ASSUME Inv, ReadByte PROVE Inv'
  OBVIOUS
<1> USE Indices
<1>1. /\ UNCHANGED <<mem, asleep, C0, stored, half, typed, taken, closed>>
      /\ Syscall("reader", "read", WEEPER_SYSCALL.READ, <<0, C0, 1, 0>>, "look")
  BY Places DEF ReadByte, kernel, terminal
<1>2. /\ reader = "read" /\ reader' = "look" /\ asked' = ReadInto(C0)
      /\ pc'["main"] = pc["main"] /\ request'["main"] = request["main"]
  BY <1>1, Calls, Reads
<1>3. Shape'
  BY <1>1, Calls DEF Inv, Shape, Locations
<1>4. Asking'
  BY <1>1, <1>2 DEF Inv, Asking, ReadInto
<1>5. C0 < L /\ Before(C0)
  BY <1>2 DEF Inv, Reading
<1>6. C0' < L' /\ Before(C0)'
  BY <1>1, <1>5 DEF Before, LineRead, Starved, Matches, L
<1>7. Reading'
  BY <1>2, <1>6, Numbers DEF Reading, Printed, Flagged, NoRequest
<1>8. NoEndYet' /\ OneLine'
  BY <1>1 DEF Inv, NoEndYet, OneLine, LineRead
<1>9. FlagKnown'
  BY <1>1, <1>2, FlagStays DEF Flagged
<1> QED
  BY <1>3, <1>4, <1>7, <1>8, <1>9 DEF Inv

LEMMA LookAtByteKeeps == Inv /\ LookAtByte => Inv'
<1> SUFFICES ASSUME Inv, LookAtByte PROVE Inv'
  OBVIOUS
<1> USE Indices
<1>1. PICK there \in {"read", "enough?"} :
        /\ At("reader", "look") /\ Go("reader", there)
        /\ mem[C0] = NL => there = "enough?" /\ C0' = C0
        /\ mem[C0] # NL => C0' = C0 + 1 /\ (there = "read" <=> C0 + 1 < L)
  BY Places DEF LookAtByte, L
<1>2. UNCHANGED <<mem, request, asleep, stored, half, typed, taken, closed>>
  BY DEF LookAtByte, kernel, terminal
<1>3. /\ reader = "look" /\ reader' = there /\ asked = NoRequest /\ asked' = NoRequest
      /\ pc'["main"] = pc["main"] /\ Asking'
  BY <1>1, <1>2, Steps
<1>4. Shape'
  <2>1. C0' \in Nat
    BY <1>1
  <2>2. there \in Locations
    BY DEF Locations
  <2>3. pc' \in [Threads -> Locations]
    BY <1>1, <1>2, <2>2, Steps
  <2> QED
    BY <1>2, <2>1, <2>3 DEF Inv, Shape
<1>5. C0 < L /\ ((taken = C0 + 1 /\ Matches(C0 + 1)) \/ Starved)
  BY <1>3 DEF Inv, Reading
<1>6. C0 \in Cells
  BY <1>5, Places DEF Cells
<1>7. ASSUME mem[C0] = NL PROVE Reading'
  <2>1. LineRead
    BY <1>6, <1>7 DEF Inv, NoEndYet
  <2>2. taken = C0 + 1 /\ Matches(C0 + 1)
    BY <1>5, <2>1 DEF Starved
  <2>3. C0' < L' /\ LineRead' /\ taken' = C0' + 1 /\ Matches(C0 + 1)'
    BY <1>1, <1>2, <1>5, <1>7, <2>1, <2>2 DEF LineRead, Matches, L
  <2> QED
    BY <1>1, <1>3, <1>7, <2>2, <2>3 DEF Reading, Printed, Flagged, Matches
<1>8. ASSUME mem[C0] # NL PROVE Reading'
  <2>1. ~LineRead
    <3>1. CASE taken = C0 + 1 /\ Matches(C0 + 1)
      BY <1>8, <3>1 DEF Matches, LineRead
    <3> QED
      BY <1>5, <3>1 DEF Starved
  <2>2. C0' = C0 + 1 /\ L' = L
    BY <1>1, <1>8 DEF L
  <2>3. Before(C0)'
    BY <1>2, <1>5, <2>1, <2>2 DEF Before, LineRead, Starved, Matches
  <2>4. CASE there = "read"
    <3>1. C0' < L'
      BY <1>1, <1>8, <2>2, <2>4
    <3> QED
      BY <1>3, <2>3, <2>4, <3>1 DEF Reading, Printed, Flagged
  <2>5. CASE there = "enough?"
    <3>1. C0' = L'
      BY <1>1, <1>5, <1>8, <2>2, <2>5, Places
    <3>2. Before(L)'
      BY <2>3, <3>1 DEF Before, Matches
    <3> QED
      BY <1>3, <2>5, <3>1, <3>2 DEF Reading, Printed, Flagged
  <2> QED
    BY <2>4, <2>5
<1>9. Reading'
  BY <1>7, <1>8
<1>10. NoEndYet' /\ OneLine'
  BY <1>2 DEF Inv, NoEndYet, OneLine, LineRead
<1>11. FlagKnown'
  BY <1>1, <1>2, <1>3, FlagStays DEF Flagged
<1> QED
  BY <1>3, <1>4, <1>9, <1>10, <1>11 DEF Inv

LEMMA EnoughKeeps == Inv /\ Enough => Inv'
<1> SUFFICES ASSUME Inv, Enough PROVE Inv'
  OBVIOUS
<1> USE Indices
<1>1. PICK there \in {"newline", "junk"} :
        /\ At("reader", "enough?") /\ Go("reader", there)
        /\ there = "newline" <=> C0 # L
  BY DEF Enough, L
<1>2. UNCHANGED <<mem, request, asleep, C0, stored, half, typed, taken, closed>>
  BY DEF Enough, kernel, terminal
<1>3. /\ reader = "enough?" /\ reader' = there /\ asked = NoRequest /\ asked' = NoRequest
      /\ pc'["main"] = pc["main"] /\ Asking'
  BY <1>1, <1>2, Steps
<1>4. Shape'
  <2>1. there \in Locations
    BY DEF Locations, Printed
  <2>2. pc' \in [Threads -> Locations]
    BY <1>1, <1>2, <2>1, Steps
  <2> QED
    BY <1>2, <2>2 DEF Inv, Shape
<1>5. \/ C0 < L /\ LineRead /\ taken = C0 + 1 /\ Matches(C0 + 1)
      \/ C0 = L /\ Before(L)
  BY <1>3 DEF Inv, Reading
<1>6. ASSUME there = "newline" PROVE Reading'
  <2>1. C0 < L /\ LineRead /\ taken = C0 + 1 /\ Matches(C0 + 1)
    BY <1>1, <1>5, <1>6
  <2>2. taken = Len(typed)
    BY <2>1 DEF LineRead, Inv, OneLine
  <2>3. Final
    BY <2>1, <2>2, Places DEF Final, Matches
  <2>4. Final'
    BY <1>2, <2>3 DEF Final, LineRead, L
  <2> QED
    BY <1>3, <1>6, <2>4 DEF Reading
<1>7. ASSUME there = "junk" PROVE Reading'
  <2>1. C0 = L /\ Before(L)
    BY <1>1, <1>5, <1>7, Places
  <2>2. C0' = L' /\ BeforeJunk'
    BY <1>2, <2>1 DEF Before, BeforeJunk, LineRead, Starved, Matches, L
  <2> QED
    BY <1>3, <1>7, <2>2 DEF Reading, Printed, Flagged
<1>8. NoEndYet' /\ OneLine'
  BY <1>2 DEF Inv, NoEndYet, OneLine, LineRead
<1>9. FlagKnown'
  BY <1>2, <1>3, FlagStays DEF Flagged
<1> QED
  BY <1>3, <1>4, <1>6, <1>7, <1>8, <1>9 DEF Inv

LEMMA ReadJunkKeeps == Inv /\ ReadJunk => Inv'
<1> SUFFICES ASSUME Inv, ReadJunk PROVE Inv'
  OBVIOUS
<1> USE Indices
<1>1. /\ UNCHANGED <<mem, asleep, C0, stored, half, typed, taken, closed>>
      /\ Syscall("reader", "junk", WEEPER_SYSCALL.READ, <<0, SCRATCH_HI, 1, 0>>, "look at junk")
  BY DEF ReadJunk, kernel, terminal
<1>2. /\ reader = "junk" /\ reader' = "look at junk" /\ asked' = ReadInto(SCRATCH_HI)
      /\ pc'["main"] = pc["main"] /\ request'["main"] = request["main"]
  BY <1>1, Calls, Reads
<1>3. Shape'
  BY <1>1, Calls DEF Inv, Shape, Locations
<1>4. Asking'
  BY <1>1, <1>2 DEF Inv, Asking, ReadInto
<1>5. C0 = L /\ BeforeJunk
  BY <1>2 DEF Inv, Reading
<1>6. C0' = L' /\ BeforeJunk'
  BY <1>1, <1>5 DEF BeforeJunk, LineRead, Starved, Matches, L
<1>7. Reading'
  BY <1>2, <1>6, Numbers DEF Reading, Printed, Flagged, NoRequest
<1>8. NoEndYet' /\ OneLine'
  BY <1>1 DEF Inv, NoEndYet, OneLine, LineRead
<1>9. FlagKnown'
  BY <1>1, <1>2, FlagStays DEF Flagged
<1> QED
  BY <1>3, <1>4, <1>7, <1>8, <1>9 DEF Inv

LEMMA LookAtJunkKeeps == Inv /\ LookAtJunk => Inv'
<1> SUFFICES ASSUME Inv, LookAtJunk PROVE Inv'
  OBVIOUS
<1> USE Indices
<1>1. PICK there \in {"newline", "junk"} :
        /\ At("reader", "look at junk") /\ Go("reader", there)
        /\ mem[SCRATCH_HI] = NL => there = "newline" /\ mem' = mem
        /\ mem[SCRATCH_HI] # NL => there = "junk" /\ mem' = [mem EXCEPT ![0] = 0]
  BY Places DEF LookAtJunk
<1>2. UNCHANGED <<request, asleep, C0, stored, half, typed, taken, closed>>
  BY DEF LookAtJunk, kernel, terminal
<1>3. /\ reader = "look at junk" /\ reader' = there /\ asked = NoRequest /\ asked' = NoRequest
      /\ pc'["main"] = pc["main"] /\ Asking'
  BY <1>1, <1>2, Steps
<1>4. Shape'
  <2>1. there \in Locations
    BY DEF Locations, Printed
  <2>2. pc' \in [Threads -> Locations]
    BY <1>1, <1>2, <2>1, Steps
  <2>3. mem \in [Addresses -> Byte] /\ mem' \in [Addresses -> Byte]
    BY <1>1, Store, Bytes DEF Inv, Shape
  <2> QED
    BY <1>2, <2>2, <2>3 DEF Inv, Shape
<1>5. C0 = L /\ AfterJunk
  BY <1>3 DEF Inv, Reading
<1>6. ASSUME mem[SCRATCH_HI] = NL PROVE Reading'
  <2>1. LineRead
    BY <1>6, Places DEF Inv, NoEndYet
  <2>2. taken = Len(typed)
    BY <2>1 DEF LineRead, Inv, OneLine
  <2>3. (taken = L + 1 /\ Matches(L)) \/ (taken > L + 1 /\ mem[0] = 0)
    BY <1>5, <2>1 DEF AfterJunk, Starved
  <2>4. Final
    BY <2>1, <2>2, <2>3, Places DEF Final, Matches
  <2>5. Final'
    BY <1>1, <1>2, <1>6, <2>4 DEF Final, LineRead, L
  <2> QED
    BY <1>1, <1>3, <1>6, <2>5 DEF Reading
<1>7. ASSUME mem[SCRATCH_HI] # NL PROVE Reading'
  <2>1. ~LineRead /\ (taken > L \/ Starved)
    <3>1. CASE Starved
      BY <3>1 DEF Starved
    <3>2. CASE taken >= L + 1 /\ mem[SCRATCH_HI] = typed[taken]
      BY <1>7, <3>2, Places DEF LineRead
    <3> QED
      BY <1>5, <3>1, <3>2, Places DEF AfterJunk
  <2>2. mem'[0] = 0
    BY <1>1, <1>7, Places
  <2>3. C0' = L' /\ BeforeJunk'
    BY <1>2, <1>5, <2>1, <2>2 DEF BeforeJunk, LineRead, Starved, L
  <2> QED
    BY <1>1, <1>3, <1>7, <2>3 DEF Reading, Printed, Flagged
<1>8. NoEndYet' /\ OneLine'
  BY <1>1, <1>2, Places, GateAssumption DEF Inv, NoEndYet, OneLine, LineRead
<1>9. mem'[L] = mem[L]
  BY <1>1, Places
<1>10. FlagKnown'
  BY <1>2, <1>3, <1>9, FlagStays DEF Flagged
<1> QED
  BY <1>3, <1>4, <1>6, <1>7, <1>8, <1>10 DEF Inv

LEMMA PrintNewLineKeeps == Inv /\ PrintNewLine => Inv'
<1> SUFFICES ASSUME Inv, PrintNewLine PROVE Inv'
  OBVIOUS
<1> USE Indices
<1>1. /\ mem' = [mem EXCEPT ![SCRATCH_LO] = NL]
      /\ UNCHANGED <<asleep, C0, stored, half, typed, taken, closed>>
      /\ Syscall("reader", "newline", WEEPER_SYSCALL.WRITE, <<1, SCRATCH_LO, 1, 0>>, "flag")
  BY DEF PrintNewLine, kernel, terminal
<1>2. /\ reader = "newline" /\ reader' = "flag" /\ asked'.nr = SYS.write
      /\ pc'["main"] = pc["main"] /\ request'["main"] = request["main"]
  BY <1>1, Calls, Prints
<1>3. Shape'
  <2>1. "flag" \in Locations
    BY DEF Locations, Printed, Flagged
  <2>2. pc' \in [Threads -> Locations] /\ request' = [t \in Threads |-> request'[t]]
    BY <1>1, <2>1, Calls
  <2>3. mem' \in [Addresses -> Byte]
    BY <1>1, Store, Bytes
  <2> QED
    BY <1>1, <2>2, <2>3 DEF Inv, Shape
<1>4. Asking'
  BY <1>1, <1>2, Numbers DEF Inv, Asking, Flagged
<1>5. /\ \A a \in Cells : mem'[a] = mem[a]
      /\ mem'[L] = mem[L]
  BY <1>1, Places
<1>6. Final
  BY <1>2 DEF Inv, Reading, Printed
<1>7. Final'
  BY <1>1, <1>5, <1>6, Places DEF Final, LineRead, Cells, L
<1>8. Reading'
  BY <1>2, <1>7 DEF Reading
<1>9. NoEndYet' /\ OneLine'
  BY <1>1, <1>5 DEF Inv, NoEndYet, OneLine, LineRead
<1>10. FlagKnown'
  BY <1>1, <1>2, <1>5, FlagStays DEF Flagged
<1> QED
  BY <1>3, <1>4, <1>8, <1>9, <1>10 DEF Inv

LEMMA StoreFlagKeeps == Inv /\ StoreFlag => Inv'
<1> SUFFICES ASSUME Inv, StoreFlag PROVE Inv'
  OBVIOUS
<1> USE Indices
<1>1. PICK there \in {"flag", "wake"} : At("reader", "flag") /\ Go("reader", there)
  BY DEF StoreFlag
<1>2. PICK i \in {0, 1} : mem' = [mem EXCEPT ![L + i] = FLAG_InputDone[i + 1]]
  <2>1. PICK j \in {1, 2} : mem' = [mem EXCEPT ![INPUT_FLAG + j - 1] = FLAG_InputDone[j]]
    BY DEF StoreFlag
  <2>2. j - 1 \in {0, 1} /\ INPUT_FLAG + j - 1 = L + (j - 1) /\ (j - 1) + 1 = j
    BY Places
  <2> QED
    BY <2>1, <2>2
<1>3. UNCHANGED <<request, asleep, C0, half, typed, taken, closed>>
  BY DEF StoreFlag, kernel, terminal
<1>4. /\ reader = "flag" /\ reader' = there /\ asked = NoRequest /\ asked' = NoRequest
      /\ pc'["main"] = pc["main"] /\ Asking'
  BY <1>1, <1>3, Steps
<1>5. Shape'
  <2>1. there \in Locations
    BY DEF Locations, Printed, Flagged
  <2>2. pc' \in [Threads -> Locations]
    BY <1>1, <1>3, <2>1, Steps
  <2>3. mem' \in [Addresses -> Byte]
    BY <1>2, Store, Bytes
  <2> QED
    BY <1>3, <2>2, <2>3 DEF Inv, Shape
<1>6. \A a \in Cells : mem'[a] = mem[a]
  BY <1>2, Places
<1>7. Final
  BY <1>4 DEF Inv, Reading, Printed, Flagged
<1>8. Final'
  BY <1>3, <1>6, <1>7, Places DEF Final, LineRead, Cells, L
<1>9. Reading'
  BY <1>4, <1>8 DEF Reading
<1>10. NoEndYet' /\ OneLine'
  BY <1>3, <1>6 DEF Inv, NoEndYet, OneLine, LineRead
<1>11. FlagKnown'
  BY <1>3, <1>4, FlagStays DEF Flagged
<1> QED
  BY <1>4, <1>5, <1>9, <1>10, <1>11 DEF Inv

LEMMA WakeMainKeeps == Inv /\ WakeMain => Inv'
<1> SUFFICES ASSUME Inv, WakeMain PROVE Inv'
  OBVIOUS
<1> USE Indices
<1>1. /\ UNCHANGED <<mem, asleep, C0, stored, half, typed, taken, closed>>
      /\ Syscall("reader", "wake", WEEPER_SYSCALL.FUTEX, <<INPUT_FLAG, 1, 1, 0>>, "exit")
  BY DEF WakeMain, kernel, terminal
<1>2. /\ reader = "wake" /\ reader' = "exit"
      /\ asked'.nr = SYS.futex /\ asked'.args[2] = FUTEX_WAKE
      /\ pc'["main"] = pc["main"] /\ request'["main"] = request["main"]
  BY <1>1, Calls, Futexes DEF FUTEX_WAKE
<1>3. Shape'
  BY <1>1, Calls DEF Inv, Shape, Locations, Printed, Flagged
<1>4. Asking'
  BY <1>1, <1>2 DEF Inv, Asking, Flagged
<1>5. Final
  BY <1>2 DEF Inv, Reading, Printed, Flagged
<1>6. Final'
  BY <1>1, <1>5 DEF Final, LineRead, L
<1>7. Reading'
  BY <1>2, <1>6 DEF Reading
<1>8. NoEndYet' /\ OneLine'
  BY <1>1 DEF Inv, NoEndYet, OneLine, LineRead
<1>9. FlagKnown'
  BY <1>1, <1>2, FlagStays DEF Flagged
<1> QED
  BY <1>3, <1>4, <1>7, <1>8, <1>9 DEF Inv

LEMMA ReaderKeeps == Inv /\ Reader => Inv'
  BY ReadByteKeeps, LookAtByteKeeps, EnoughKeeps, ReadJunkKeeps, LookAtJunkKeeps,
     PrintNewLineKeeps, StoreFlagKeeps, WakeMainKeeps DEF Reader

-----------------------------------------------------------------------------
\* The kernel.  It answers a call of the main thread, or one with which the
\* reader has read nothing.
LEMMA Served ==
  ASSUME Inv, UNCHANGED <<mem, pc, C0, stored, half, typed, taken, closed>>,
         asleep' \subseteq {"main"},
         request' = [t \in Threads |-> request'[t]],
         request'["main"] \in {request["main"], NoRequest},
         asked' = asked \/ (reader \in Flagged /\ asked' = NoRequest)
  PROVE  Inv'
<1>1. reader' = reader
  BY DEF reader
<1>2. Shape'
  BY DEF Inv, Shape
<1>3. Asking'
  BY <1>1, Numbers DEF Inv, Asking, NoRequest
<1>4. Reading' /\ NoEndYet' /\ OneLine'
  <2>1. CASE asked' = asked
    BY <1>1, <2>1, Frame DEF Apart
  <2>2. CASE reader \in Flagged /\ asked' = NoRequest
    BY <1>1, <2>2, Answered
  <2> QED
    BY <2>1, <2>2
<1>5. FlagKnown'
  BY <1>1 DEF Inv, FlagKnown, L, NoRequest, Flagged
<1> QED
  BY <1>2, <1>3, <1>4, <1>5 DEF Inv

LEMMA AnswerServes ==
  ASSUME Inv, NEW t \in Threads, NEW r, Answer(t, r),
         t = "main" \/ reader \in Flagged,
         UNCHANGED <<mem, pc, C0, stored, half, typed, taken, closed>>,
         asleep' \subseteq {"main"}
  PROVE  Inv'
<1> USE Indices
<1>1. request' = [request EXCEPT ![t] = NoRequest] /\ DOMAIN request = Threads
  BY DEF Answer
<1>2. request' = [u \in Threads |-> request'[u]]
  BY <1>1
<1>3. request'["main"] \in {request["main"], NoRequest}
  BY <1>1
<1>4. asked' = asked \/ (reader \in Flagged /\ asked' = NoRequest)
  BY <1>1 DEF asked, Threads
<1> QED
  BY <1>2, <1>3, <1>4, Served

\* What the reader may have asked, by the number of the call.
LEMMA ReaderAsks ==
  ASSUME Inv
  PROVE  /\ asked.nr = SYS.read =>
              \/ reader = "look" /\ asked = ReadInto(C0)
              \/ reader = "look at junk" /\ asked = ReadInto(SCRATCH_HI)
         /\ asked.nr \in {SYS.write, SYS.futex} => reader \in Flagged
         /\ asked.nr = SYS.futex => asked.args[2] = FUTEX_WAKE
         /\ asked.nr \notin {SYS.gettimeofday, SYS.getpid, SYS.kill}
<1>1. /\ {SYS.write, SYS.futex, SYS.read} \cap {SYS.gettimeofday, SYS.getpid, SYS.kill} = {}
      /\ NoRequest.nr \notin {SYS.gettimeofday, SYS.getpid, SYS.kill}
  BY DEF SYS, NoRequest
<1>2. CASE asked = NoRequest
  BY <1>1, <1>2, Numbers
<1>3. CASE asked # NoRequest
  BY <1>1, <1>3, Numbers DEF Inv, Asking
<1> QED
  BY <1>2, <1>3

LEMMA KernelReadsKeeps == Inv /\ (\E t \in Threads : KernelReads(t)) => Inv'
<1> SUFFICES ASSUME Inv, \E t \in Threads : KernelReads(t) PROVE Inv'
  OBVIOUS
<1> USE Indices
<1>1. KernelReads("reader")
  BY DEF Threads, KernelReads, Asked, Inv, Asking
<1>2. /\ asked.nr = SYS.read /\ asked' = NoRequest
      /\ UNCHANGED <<pc, asleep, C0, stored, half, typed, closed>>
      /\ request' = [request EXCEPT !["reader"] = NoRequest]
  BY <1>1 DEF KernelReads, Asked, Answer, asked, terminal
<1>3. reader' = reader /\ request'["main"] = request["main"]
  BY <1>2 DEF reader
<1>4. Asking'
  BY <1>2, <1>3 DEF Inv, Asking
<1>5. PICK a \in Cells :
        /\ asked = ReadInto(a) /\ asked # NoRequest
        /\ \/ reader = "look" /\ a = C0 /\ C0 < L /\ Before(C0)
           \/ reader = "look at junk" /\ a = SCRATCH_HI /\ C0 = L /\ BeforeJunk
  <2>1. asked # NoRequest
    BY <1>2, Numbers
  <2>2. CASE reader = "look" /\ asked = ReadInto(C0)
    <3>1. C0 < L /\ Before(C0)
      BY <2>1, <2>2 DEF Inv, Reading
    <3>2. C0 \in Cells
      BY <3>1, Places DEF Cells
    <3> QED
      BY <2>1, <2>2, <3>1, <3>2
  <2>3. CASE reader = "look at junk" /\ asked = ReadInto(SCRATCH_HI)
    <3>1. C0 = L /\ BeforeJunk
      BY <2>1, <2>3 DEF Inv, Reading
    <3> QED
      BY <2>1, <2>3, <3>1, Places
  <2> QED
    BY <1>2, <2>2, <2>3, ReaderAsks
<1>6. ~LineRead
  BY <1>5 DEF Before, BeforeJunk
<1>7. asked.args[2].is = "pointer" /\ asked.args[2].n = a
  BY <1>5, Numbers
<1>8. CASE taken < Len(typed)
  <2>1. mem' = [mem EXCEPT ![a] = typed[taken + 1]] /\ taken' = taken + 1
    BY <1>1, <1>7, <1>8 DEF KernelReads, Arg, asked
  <2>2. typed[taken + 1] \in Byte
    BY <1>8 DEF Inv, Shape, Byte
  <2>3. Shape'
    <3>1. mem' \in [Addresses -> Byte]
      BY <2>1, <2>2, Store
    <3>2. taken' \in Nat /\ taken' <= Len(typed')
      BY <1>2, <1>8, <2>1
    <3>3. request' = [t \in Threads |-> request'[t]]
      BY <1>2
    <3> QED
      BY <1>2, <3>1, <3>2, <3>3 DEF Inv, Shape
  <2>4. ~Starved
    BY <1>8 DEF Starved
  <2>5. Reading'
    <3>1. CASE reader = "look" /\ a = C0 /\ C0 < L /\ Before(C0)
      <4>1. taken = C0 /\ Matches(C0)
        BY <2>4, <3>1 DEF Before
      <4>2. taken' = C0 + 1 /\ Matches(C0 + 1)'
        BY <1>2, <2>1, <3>1, <4>1, Places DEF Matches, Cells
      <4> QED
        BY <1>2, <1>3, <3>1, <4>2 DEF Reading, Printed, Flagged, L, Matches
    <3>2. CASE reader = "look at junk" /\ a = SCRATCH_HI /\ C0 = L /\ BeforeJunk
      <4>1. (taken = L /\ Matches(L)) \/ (taken > L /\ mem[0] = 0)
        BY <2>4, <3>2 DEF BeforeJunk
      <4>2. mem'[SCRATCH_HI] = typed'[taken'] /\ L' = L
        BY <1>2, <2>1, <3>2, Places DEF L
      <4>3. \A i \in 0 .. L - 1 : mem'[i] = mem[i]
        <5>1. \A i \in Addresses : i # a => mem'[i] = mem[i]
          BY <2>1
        <5> QED
          BY <3>2, <5>1, Places, Input
      <4>4. Matches(L) => Matches(L)'
        <5>1. \A i \in 1 .. L : i - 1 \in 0 .. L - 1
          BY Places
        <5> QED
          BY <1>2, <4>2, <4>3, <5>1 DEF Matches
      <4>5. AfterJunk'
        BY <2>1, <4>1, <4>2, <4>3, <4>4, Places DEF AfterJunk, Starved
      <4> QED
        BY <1>2, <1>3, <3>2, <4>2, <4>5 DEF Reading, Printed, Flagged
    <3> QED
      BY <1>5, <3>1, <3>2
  <2>6. NoEndYet'
    <3> SUFFICES ASSUME ~LineRead', NEW b \in Cells PROVE mem'[b] # NL
      BY DEF NoEndYet, Cells, L
    <3>1. typed[taken + 1] # NL
      BY <1>2, <2>1 DEF LineRead
    <3> QED
      BY <1>6, <2>1, <3>1, Places DEF Inv, NoEndYet
  <2>7. OneLine'
    BY <1>2 DEF Inv, OneLine
  <2>8. mem'[L] = mem[L]
    BY <2>1, Places
  <2>9. FlagKnown'
    BY <1>2, <1>3, <1>5, <2>8, FlagStays
  <2> QED
    BY <1>4, <2>3, <2>5, <2>6, <2>7, <2>9 DEF Inv
<1>9. CASE taken = Len(typed)
  <2>1. closed /\ UNCHANGED <<mem, taken>>
    BY <1>1, <1>7, <1>9 DEF KernelReads, Arg, asked
  <2>2. Starved'
    BY <1>2, <1>6, <1>9, <2>1 DEF Starved, LineRead
  <2>3. Shape'
    BY <1>2, <2>1 DEF Inv, Shape
  <2>4. Reading'
    BY <1>2, <1>3, <1>5, <2>2 DEF Reading, AfterJunk, Printed, Flagged, L
  <2>5. NoEndYet' /\ OneLine'
    BY <1>2, <2>1 DEF Inv, NoEndYet, OneLine, LineRead
  <2>6. FlagKnown'
    BY <1>2, <1>3, <1>5, <2>1, FlagStays
  <2> QED
    BY <1>4, <2>3, <2>4, <2>5, <2>6 DEF Inv
<1> QED
  BY <1>8, <1>9

LEMMA KernelKeeps == Inv /\ (\E t \in Threads : Kernel(t)) => Inv'
<1> SUFFICES ASSUME Inv, NEW t \in Threads, Kernel(t) PROVE Inv'
  OBVIOUS
<1> USE Indices
<1>1. asleep \subseteq {"main"} /\ t \in {"main", "reader"}
  BY DEF Inv, Shape, Threads
<1>2. CASE KernelReads(t)
  BY <1>2, KernelReadsKeeps
<1>3. CASE KernelWaits(t)
  <2>1. t = "main"
    BY <1>1, <1>3, ReaderAsks, Numbers DEF KernelWaits, Asked, Arg, asked
  <2>2. UNCHANGED <<mem, pc, C0, stored, half, typed, taken, closed>>
    BY <1>3 DEF KernelWaits, terminal
  <2>3. CASE UNCHANGED request /\ asleep' = asleep \cup {t}
    <3>1. asleep' \subseteq {"main"} /\ asked' = asked
      BY <1>1, <2>1, <2>3 DEF asked
    <3>2. request' = [u \in Threads |-> request'[u]]
      BY <2>3 DEF Inv, Shape
    <3> QED
      BY <2>2, <2>3, <3>1, <3>2, Served
  <2>4. CASE Answer(t, 11) /\ UNCHANGED asleep
    BY <1>1, <2>1, <2>2, <2>4, AnswerServes
  <2> QED
    BY <1>3, <2>3, <2>4 DEF KernelWaits
<1>4. CASE KernelWakes(t)
  <2> DEFINE woken == {u \in asleep : Arg(u, 1) = Arg(t, 1)}
  <2>1. /\ asleep' = asleep \ woken
        /\ request' = [u \in Threads |-> IF u \in woken \cup {t} THEN NoRequest ELSE request[u]]
        /\ UNCHANGED <<mem, pc, C0, stored, half, typed, taken, closed>>
    BY <1>4 DEF KernelWakes, terminal
  <2>2. woken \subseteq {"main"}
    BY <1>1
  <2>3. t = "reader" => reader \in Flagged
    BY <1>4, ReaderAsks DEF KernelWakes, Asked, asked
  <2> HIDE DEF woken
  <2>4. asked' = asked \/ (reader \in Flagged /\ asked' = NoRequest)
    BY <1>1, <2>1, <2>2, <2>3 DEF asked
  <2>5. request'["main"] \in {request["main"], NoRequest}
    BY <2>1
  <2>6. request' = [u \in Threads |-> request'[u]]
    BY <2>1
  <2>7. asleep' \subseteq {"main"}
    BY <1>1, <2>1
  <2> QED
    BY <2>1, <2>4, <2>5, <2>6, <2>7, Served
<1>5. CASE KernelTellsPid(t)
  <2>1. t = "main"
    BY <1>1, <1>5, ReaderAsks DEF KernelTellsPid, Asked, asked
  <2>2. Answer(t, Pid) /\ UNCHANGED <<mem, pc, asleep, C0, stored, half, typed, taken, closed>>
    BY <1>5 DEF KernelTellsPid, terminal
  <2> QED
    BY <1>1, <2>1, <2>2, AnswerServes
<1>6. CASE KernelKills(t)
  <2>1. UNCHANGED <<mem, pc, request, asleep, C0, stored, half, typed, taken, closed>>
    BY <1>6 DEF KernelKills, terminal
  <2>2. request' = [u \in Threads |-> request'[u]] /\ asked' = asked
    BY <2>1 DEF Inv, Shape, asked
  <2> QED
    BY <1>1, <2>1, <2>2, Served
<1>7. CASE KernelAnswers(t)
  <2>1. t = "reader" => reader \in Flagged
    BY <1>7, ReaderAsks DEF KernelAnswers, Asked, asked
  <2>2. Answer(t, 0) /\ UNCHANGED <<mem, pc, asleep, C0, stored, half, typed, taken, closed>>
    BY <1>7 DEF KernelAnswers, terminal
  <2> QED
    BY <1>1, <2>1, <2>2, AnswerServes
<1> QED
  BY <1>2, <1>3, <1>4, <1>5, <1>6, <1>7 DEF Kernel

LEMMA WaitEndsKeeps == Inv /\ (\E t \in Threads : WaitEnds(t)) => Inv'
<1> SUFFICES ASSUME Inv, NEW t \in Threads, WaitEnds(t) PROVE Inv'
  OBVIOUS
<1>1. asleep \subseteq {"main"}
  BY DEF Inv, Shape
<1>2. t = "main" /\ asleep' \subseteq {"main"}
  BY <1>1 DEF WaitEnds
<1>3. Answer(t, 110) /\ UNCHANGED <<mem, pc, C0, stored, half, typed, taken, closed>>
  BY DEF WaitEnds, terminal
<1> QED
  BY <1>2, <1>3, AnswerServes

-----------------------------------------------------------------------------
\* The terminal.  What is typed is behind all that has been read.
LEMMA TypeKeeps == Inv /\ Type => Inv'
<1> SUFFICES ASSUME Inv, Type PROVE Inv'
  OBVIOUS
<1> USE Indices
<1>1. PICK c \in Letters \cup {NL} : typed' = Append(typed, c)
  BY DEF Type
<1>2. /\ UNCHANGED <<mem, pc, request, asleep, C0, stored, half, taken, closed>>
      /\ ~closed /\ \A i \in 1 .. Len(typed) : typed[i] # NL
  BY DEF Type, Ended, Inv, Shape
<1>3. /\ typed \in Seq(Letters \cup {NL}) /\ typed' \in Seq(Letters \cup {NL})
      /\ Len(typed') = Len(typed) + 1
      /\ \A i \in 1 .. Len(typed) : typed'[i] = typed[i]
  BY <1>1 DEF Inv, Shape
<1>4. Shape'
  BY <1>2, <1>3 DEF Inv, Shape
<1>5. Asking'
  BY <1>2 DEF Inv, Asking, reader, asked, NoRequest
<1>6. ~LineRead /\ ~LineRead' /\ ~Starved /\ ~Final
  BY <1>2, <1>3 DEF LineRead, Starved, Final
<1>7. \A i \in 1 .. taken : typed'[i] = typed[i]
  BY <1>3
<1>8. reader' = reader /\ asked' = asked /\ L' = L /\ reader \notin Printed
  BY <1>2, <1>6 DEF reader, asked, L, Inv, Reading
<1>9. Reading'
  <2>1. Inv /\ Reading
    BY DEF Inv
  <2>2. CASE reader \in {"unborn", "read"} \/ (reader = "look" /\ asked # NoRequest)
    <3>1. C0 < L /\ taken = C0 /\ Matches(C0)
      BY <1>6, <2>1, <2>2 DEF Reading, Before
    <3>2. C0' < L' /\ Before(C0)'
      BY <1>2, <1>6, <1>7, <1>8, <3>1 DEF Before, Matches
    <3> QED
      BY <1>8, <2>2, <3>2 DEF Reading, NoRequest, Printed, Flagged
  <2>3. CASE reader = "look" /\ asked = NoRequest
    <3>1. C0 < L /\ taken = C0 + 1 /\ Matches(C0 + 1)
      BY <1>6, <2>1, <2>3 DEF Reading
    <3>2. Matches(C0 + 1)'
      BY <1>2, <1>7, <3>1 DEF Matches
    <3> QED
      BY <1>2, <1>8, <2>3, <3>1, <3>2 DEF Reading, NoRequest, Printed, Flagged, Matches
  <2>4. CASE reader = "enough?"
    <3>1. C0 = L /\ taken = L /\ Matches(L)
      BY <1>6, <2>1, <2>4 DEF Reading, Before
    <3>2. C0' = L' /\ Before(L)'
      BY <1>2, <1>6, <1>7, <1>8, <3>1 DEF Before, Matches
    <3> QED
      BY <1>8, <2>4, <3>2 DEF Reading, Printed, Flagged
  <2>5. CASE reader = "junk" \/ (reader = "look at junk" /\ asked # NoRequest)
    <3>1. C0 = L /\ ~LineRead' /\ ((taken = L /\ Matches(L)) \/ (taken > L /\ mem[0] = 0))
      BY <1>6, <2>1, <2>5 DEF Reading, BeforeJunk
    <3>2. taken = L /\ Matches(L) => Matches(L)'
      BY <1>2, <1>7, <1>8 DEF Matches
    <3>3. C0' = L' /\ BeforeJunk'
      BY <1>2, <1>8, <3>1, <3>2 DEF BeforeJunk
    <3> QED
      BY <1>8, <2>5, <3>3 DEF Reading, NoRequest, Printed, Flagged
  <2>6. CASE reader = "look at junk" /\ asked = NoRequest
    <3>1. /\ C0 = L /\ mem[SCRATCH_HI] = typed[taken] /\ taken > L
          /\ (taken = L + 1 /\ Matches(L)) \/ (taken > L + 1 /\ mem[0] = 0)
      <4>1. C0 = L /\ AfterJunk
        BY <2>1, <2>6 DEF Reading
      <4> QED
        BY <1>6, <4>1, Places DEF AfterJunk
    <3>2. Matches(L) => Matches(L)'
      <4>1. \A i \in 1 .. L : i \in 1 .. taken
        BY <3>1, Places
      <4> QED
        BY <1>2, <1>7, <1>8, <4>1 DEF Matches
    <3>3. typed'[taken] = typed[taken] /\ SCRATCH_HI' = SCRATCH_HI
      BY <1>3, <3>1, Places DEF SCRATCH_HI
    <3>4. C0' = L' /\ AfterJunk'
      BY <1>2, <1>8, <3>1, <3>2, <3>3 DEF AfterJunk
    <3> QED
      BY <1>8, <2>6, <3>4 DEF Reading, NoRequest, Printed, Flagged
  <2>7. CASE reader \notin {"unborn", "read", "look", "enough?", "junk", "look at junk"}
    BY <1>8, <2>7 DEF Reading, Printed
  <2> QED
    BY <2>2, <2>3, <2>4, <2>5, <2>6, <2>7
<1>10. NoEndYet'
  BY <1>2, <1>6 DEF Inv, NoEndYet
<1>11. OneLine'
  BY <1>2, <1>3 DEF OneLine
<1>12. FlagKnown'
  BY <1>2 DEF Inv, FlagKnown, reader, asked, L, NoRequest, Flagged
<1> QED
  BY <1>4, <1>5, <1>9, <1>10, <1>11, <1>12 DEF Inv

LEMMA CloseTerminalKeeps == Inv /\ CloseTerminal => Inv'
<1> SUFFICES ASSUME Inv, CloseTerminal PROVE Inv'
  OBVIOUS
<1>1. /\ UNCHANGED <<mem, pc, request, asleep, C0, stored, half, typed, taken>>
      /\ closed' = TRUE
  BY DEF CloseTerminal
<1>2. Shape'
  BY <1>1 DEF Inv, Shape
<1>3. Asking' /\ FlagKnown'
  BY <1>1 DEF Inv, Asking, FlagKnown, reader, asked, L, NoRequest, Flagged
<1>4. Starved => Starved'
  BY <1>1 DEF Starved, LineRead
<1>5. Reading'
  BY <1>1, <1>4 DEF Inv, Reading, reader, asked, Before, BeforeJunk, AfterJunk, Final,
                    LineRead, Matches, L, NoRequest, Printed, Flagged
<1>6. NoEndYet' /\ OneLine'
  BY <1>1 DEF Inv, NoEndYet, OneLine, LineRead
<1> QED
  BY <1>2, <1>3, <1>5, <1>6 DEF Inv

-----------------------------------------------------------------------------
LEMMA StepInv == Inv /\ [Next]_vars => Inv'
<1> SUFFICES ASSUME Inv, [Next]_vars PROVE Inv'
  OBVIOUS
<1>1. CASE OthersKill \/ Dead \/ UNCHANGED vars
  <2>1. UNCHANGED <<mem, pc, request, asleep, C0, stored, half, typed, taken, closed>>
    BY <1>1 DEF OthersKill, Dead, vars, terminal
  <2>2. asleep' \subseteq {"main"} /\ request' = [t \in Threads |-> request'[t]] /\ asked' = asked
    BY <2>1 DEF Inv, Shape, asked
  <2> QED
    BY <2>1, <2>2, Served
<1> QED
  BY <1>1, MainKeeps, ReaderKeeps, KernelKeeps, WaitEndsKeeps, TypeKeeps, CloseTerminalKeeps
  DEF Next

\* Past the gate the reader has set the flag, so it has read the line.
LEMMA InvRight == Inv => InputRight
<1> SUFFICES ASSUME Inv, pc["main"] = "open"
             PROVE  /\ Ended
                    /\ IF Len(typed) - 1 > INPUT_LENGTH
                       THEN mem[INPUT_PLAIN] = 0
                       ELSE \A i \in 1 .. Len(typed) - 1 : mem[INPUT_PLAIN + i - 1] = typed[i]
  BY DEF InputRight
<1>1. reader \in Flagged
  BY DEF Inv, FlagKnown
<1>2. Final
  BY <1>1 DEF Inv, Reading, Printed
<1>3. Ended
  BY <1>2, Indices DEF Final, LineRead, Ended, Inv, Shape
<1> QED
  BY <1>2, <1>3, Indices DEF Final, L, INPUT_PLAIN

\* The main thread goes on to check a line only when that line was read to its
\* end, and then has it, or an invalid one if it is too long, in front of it
\* (FUN_Main, FUN_ReadInput), for every INPUT_LENGTH and every line.
THEOREM GateCorrect == Spec => []InputRight
<1>1. Spec => []Inv
  BY InitInv, StepInv, PTL DEF Spec
<1> QED
  BY <1>1, InvRight, PTL

-----------------------------------------------------------------------------
\* What a call asks for is understood, whatever the registers hold.
LEMMA CallsUnderstood ==
  ASSUME NEW F
  PROVE  /\ Understood(Translate(WEEPER_SYSCALL.READ, F))
         /\ Understood(Translate(WEEPER_SYSCALL.WRITE, F))
         /\ Understood(Translate(WEEPER_SYSCALL.FUTEX, F))
         /\ Understood(Translate(WEEPER_SYSCALL.TOD, F))
         /\ Understood(Translate(WEEPER_SYSCALL.GETPID, F))
         /\ Understood(Translate(WEEPER_SYSCALL.KILL, F))
<1> USE DEF Translate, WEEPER_SYSCALL, SYS, Call, Understood, Addressed, Numbered,
            Pointer, Plain, Null
<1>1. /\ Understood(Translate(WEEPER_SYSCALL.READ, F))
      /\ Understood(Translate(WEEPER_SYSCALL.WRITE, F))
  BY DEF File
<1>2. Understood(Translate(WEEPER_SYSCALL.FUTEX, F))
  BY DEF Weird, FUTEX_WAIT
<1>3. /\ Understood(Translate(WEEPER_SYSCALL.TOD, F))
      /\ Understood(Translate(WEEPER_SYSCALL.GETPID, F))
      /\ Understood(Translate(WEEPER_SYSCALL.KILL, F))
  BY DEF Control
<1> QED
  BY <1>1, <1>2, <1>3

LEMMA OthersUnderstood ==
  ASSUME NEW F
  PROVE  /\ Understood(Translate(WEEPER_SYSCALL.SLEEP, F))
         /\ Understood(Translate(WEEPER_SYSCALL.GETPPID, F))
         /\ Understood(Translate(WEEPER_SYSCALL.OPEN, F))
         /\ Understood(Translate(WEEPER_SYSCALL.CLOSE, F))
         /\ Understood(Translate(WEEPER_SYSCALL.LSEEK, F))
         /\ Understood(Translate(WEEPER_SYSCALL.NOTINIT, F))
         /\ Understood(Translate(WEEPER_SYSCALL.NOTADD, F))
         /\ Understood(Translate(WEEPER_SYSCALL.NOTRM, F))
<1> USE DEF Translate, WEEPER_SYSCALL, SYS, Call, Understood, Addressed, Numbered,
            Pointer, Plain, Null
<1>1. /\ Understood(Translate(WEEPER_SYSCALL.SLEEP, F))
      /\ Understood(Translate(WEEPER_SYSCALL.GETPPID, F))
  BY DEF Control
<1>2. /\ Understood(Translate(WEEPER_SYSCALL.OPEN, F))
      /\ Understood(Translate(WEEPER_SYSCALL.CLOSE, F))
      /\ Understood(Translate(WEEPER_SYSCALL.LSEEK, F))
  BY DEF File
<1>3. /\ Understood(Translate(WEEPER_SYSCALL.NOTINIT, F))
      /\ Understood(Translate(WEEPER_SYSCALL.NOTADD, F))
      /\ Understood(Translate(WEEPER_SYSCALL.NOTRM, F))
  BY DEF Weird
<1> QED
  BY <1>1, <1>2, <1>3

LEMMA TableIsUnderstood == TableUnderstood
<1> SUFFICES ASSUME NEW c \in DOMAIN WEEPER_SYSCALL, NEW a \in Addresses
             PROVE  Understood(Translate(WEEPER_SYSCALL[c], <<a, 0, a, 0>>))
  BY DEF TableUnderstood
<1>1. c \in {"SLEEP", "GETPID", "GETPPID", "KILL", "TOD", "OPEN", "READ", "WRITE", "CLOSE",
             "LSEEK", "NOTINIT", "NOTADD", "NOTRM", "FUTEX"}
  BY DEF WEEPER_SYSCALL
<1> QED
  BY <1>1, CallsUnderstood, OthersUnderstood

AllUnderstood == \A t \in Threads : request[t] # NoRequest => Understood(request[t])

LEMMA StepUnderstood == Inv /\ AllUnderstood /\ [Next]_vars => AllUnderstood'
<1> SUFFICES ASSUME Inv, AllUnderstood, [Next]_vars PROVE AllUnderstood'
  OBVIOUS
<1> USE Indices
<1> USE DEF NoRequest
<1>1. ASSUME NEW t \in Threads, NEW here, NEW there, NEW F,
             \E name \in {"READ", "WRITE", "FUTEX", "TOD", "GETPID", "KILL"} :
               Syscall(t, here, WEEPER_SYSCALL[name], F, there)
      PROVE  AllUnderstood'
  BY <1>1, CallsUnderstood DEF AllUnderstood, Syscall
<1>2. CASE UNCHANGED request
  BY <1>2 DEF AllUnderstood
<1>3. CASE Main
  BY <1>1, <1>2, <1>3 DEF Main, Arm, ForkReader, WaitForFlag, ReadClock, InTime, Late, AskPid,
                          KillSelf, GetHalf, Compare, Threads
<1>4. CASE Reader
  BY <1>1, <1>2, <1>4 DEF Reader, ReadByte, LookAtByte, Enough, ReadJunk, LookAtJunk,
                          PrintNewLine, StoreFlag, WakeMain, Threads
<1>5. ASSUME NEW t \in Threads, NEW r, Answer(t, r) PROVE AllUnderstood'
  BY <1>5 DEF AllUnderstood, Answer
<1>6. ASSUME NEW t \in Threads, Kernel(t) PROVE AllUnderstood'
  <2>1. CASE KernelWakes(t)
    BY <2>1 DEF AllUnderstood, KernelWakes
  <2>2. CASE KernelKills(t)
    BY <1>2, <2>2 DEF KernelKills
  <2>3. CASE KernelReads(t) \/ KernelWaits(t) \/ KernelTellsPid(t) \/ KernelAnswers(t)
    BY <1>2, <1>5, <2>3 DEF KernelReads, KernelWaits, KernelTellsPid, KernelAnswers
  <2> QED
    BY <1>6, <2>1, <2>2, <2>3 DEF Kernel
<1>7. ASSUME NEW t \in Threads, WaitEnds(t) PROVE AllUnderstood'
  BY <1>5, <1>7 DEF WaitEnds
<1>8. CASE OthersKill \/ Type \/ CloseTerminal \/ Dead \/ UNCHANGED vars
  BY <1>2, <1>8 DEF OthersKill, Type, CloseTerminal, Dead, vars
<1> QED
  BY <1>3, <1>4, <1>6, <1>7, <1>8 DEF Next

\* Whatever the two threads ask, and whatever the registers hold, the kernel
\* finds addresses in vmem and numbers where it takes them (handle_syscall).
THEOREM RequestsCorrect == Spec => []RequestsRight
<1>1. Init => AllUnderstood
  BY DEF Init, AllUnderstood
<1>2. Inv /\ AllUnderstood /\ [Next]_vars => (Inv /\ AllUnderstood)'
  BY StepInv, StepUnderstood
<1>3. AllUnderstood => RequestsRight
  BY TableIsUnderstood DEF AllUnderstood, RequestsRight
<1> QED
  BY InitInv, <1>1, <1>2, <1>3, PTL DEF Spec
=============================================================================
