# WeeperVM: a TLA+ verification project

WeeperVM is a small virtual machine: one static executable that loads a byte
code appended to itself and interprets it (`src/VM`), and an assembler that
writes the byte code (`src/Compiler`). Virtual programs are multi-threaded:
FORK starts a Linux thread that runs its own emulation loop over a virtual
memory all threads share. This directory holds TLA+ models of the machine and
the assembler, the TLC runs that check them and the proofs that TLAPS checks.

## 1. Inventory

| Component | State | Operations | Talks to |
|---|---|---|---|
| Call stack (`stack.c`, `stack.h`) | 128 linked frames, `top`, `free` | init, push, pop, peek | one per thread, used by CALL, RET, PUT, GET |
| Control flow (`emulate.c` 619-733, 1508-1692; `_start`) | `vip`, flags, call stack per thread; the list of return addresses in `vmem`, shared | CMP, JMP, CALL, RET, EXIT, the loop, teardown | call stack, fork, vmem |
| Fork handshake (`emulate.c` 1424-1506, `syscall.c`) | child stack mapping, ready flag inside it | mmap, clone3, futex wait and wake, munmap | kernel |
| Computing instructions (`emulate.c` 7-225, 245-314, 409-616, 741-1251) | 16 registers per thread, `vmem` | 19 handlers, operand readers, memory writers | vmem, other threads |
| Local variables (`emulate.c` 233-242, 317-401) | the first 64 KiB of `vmem` | PUT, GET, the hash | call stack (its top is the key) |
| Instruction format (`WeeperVM_compile.py` 90-393, `emulate.c` 1521-1668) | bytes of an instruction | parse, pack; fetch, decode, dispatch | assembler to machine |
| Code layout (`WeeperVM_compile.py` 395-460) | order, fallthroughs, labels, length | shuffle, correct, resolve, encipher | assembler to loader |
| Loader (`WeeperVM.c` 24-84, `strings.c`, `utils.h`) | `vcode`, its length | find the own file, decipher, map, read | files, emulation loop |
| SYSCALL instruction (`emulate.c` 1255-1420) | registers F0-F3, R0 | translate and perform | kernel, vmem |
| System call wrappers (`syscall.c`) | none | 13 direct calls | kernel |
| Virtual program (`*.weep`) | threads, input, flags in `vmem` | wait for input, read, watch, check | all of the above |
| Constraint generator (`validate.py`), build files | none | | |

**What is hard here.** There is no lock anywhere. Threads share `vmem`
(including the leftover list of return addresses and the local variables), and
the main thread frees it while others may run. The fork handshake is a
hand-written futex protocol whose flag lives in memory that a child unmaps; the
virtual program has another one with a timeout, on a flag stored byte by byte.
The private call stack is bounded and its overflow is silent. Widths, byte
orders and encodings are written out by hand in every handler. The loader does
not look at how much it read. `PROJECT.json` lists the hazards at their lines.

**What makes each part correct.** The stack is a bounded LIFO. A RET returns
behind the pending CALL of its own thread. A scan of the shared list ends. A
FORK resumes its parent once, after the child has signalled, and always. Native
stacks are disjoint and accounted for. An instruction computes its result at
its width and changes nothing else, and without races it is atomic. An
activation keeps its local variables. The machine loads and runs the
instructions the assembly states, in their order. The kernel gets the call the
program means. The gate of the program opens on a whole line, and then for sure.

## 2. Plan

In this order, the most important behaviour first; all of it is done.

1. `Lifo`, `BoundedStack`, `CallStack`: the stack, and its abstract
specification. *Proved.*
2. `ControlFlow`: threads, calls, the shared list, teardown. Uses `Lifo`'s
   operators for the private stacks, which 1 justifies. *Safety proved.*
3. `Fork`, `ForkHandshake`: what FORK promises, and the steps inside it. *Safety
   proved.*
4. `Alu`: computing instructions of one thread. *Proved.*
5. `SharedCells`: the same accesses by several threads, byte by byte. *Safety
proved.*
6. `Locals`, `Fnv`: PUT and GET, the hash. *Proved.*
7. `Codec`, `Layout`: the assembler against the machine. *Safety proved.*
8. `Loader`, and `Image` that composes it with `Layout`. *Safety proved.*
9. `Syscalls`, `InputGate`: the SYSCALL instruction under the input gate of the
   virtual program. *Safety proved.*

What could still be added: an abstract dictionary that `Locals` implements (the
ghost `dict` is its state already); the other flags of the virtual program.

## 3. The modules and the code

**`Lifo`** has the operators of a bounded last-in first-out sequence as `stack.c`
means them: popping and peeking an empty stack give `AllOnes` (the `-1` of the
code). **`BoundedStack`** is the abstract state machine over them.

**`CallStack`** is `stack.c` as written: `frames[i].data`, `.next`, `top`,
`free`, one action per function and early return; `ret` is the value last
returned. `Nil` is the code's -1.

**`ControlFlow`** has one action per handler, or several where other threads can
come in between: the loop of CALL and RET over the list of return addresses is
one step per slot (`ScanSlot`), the store and the push are another
(`CallStore`), the pop and the clearing another (`RetClear`). `shadow` is the
list in `vmem`, `callStack` each thread's `Stack`. A slot's three bytes are read
and written in one step: the code only asks whether a slot is empty. FORK is
here a start (`ForkClone`), the child's first step (`Born`) and the parent's
return (`ForkReturns`). `UnmapVmem`, `UnmapVcode`, `ExitGroup` are the end of
`_start`; `Fault` ends the process when a thread touches unmapped memory.
Three variables are ghosts: `pending`, the calls a thread has yet to return
from; `lost`, whether a push has failed; `disturbed`, whether two threads have
been inside CALL or RET at once when one of them changed the list, or a RET
without a call has cleared another thread's entry. FORK may fail at any time
(`ForkFails`). Programs are constants; `ControlFlowMC` has two small ones.

**`Fork`** is what a virtual program can tell of FORK: a thread is unborn, born,
running, waiting for its child, or gone. `ControlFlow` uses FORK in this form
(`UsesFork`), and **`ForkHandshake`** implements it (`ImplementsFork`), so the order
of birth, report and resumption that the one takes for granted the other shows.
`ForkHandshake` opens FORK up: `MapStack`, `ClearFlag`, `Clone`, the parent's
loop (`LoadOnce`, `CheckFlag`, `FutexWait`), the child's `SetFlag` and `Wake`,
then the guest, and the unmapping when a child returns. `hoisted`, chosen
initially from `Builds`, is which of the two machine codes the C source allows
runs: reading `*ready_flag` on every turn or once, for it is not volatile and
the system call has no memory clobber. The kernel's side (futex comparison,
spurious wake-up by a signal, placement of mappings) is external: `mmap` places
mappings in descending order of addresses next to each other and reuses the
holes. mmap and clone3 may fail at any time; a clone3 that fails leaves its
mapping behind (`CloneFails`). FUTEX_WAKE has a count of 1 (`emulate.c` 1475),
so `Wake` wakes one of the `Sleepers` on the word, any one. There can be two: a
child is born on the stack its parent mapped, and when it returns from its entry
point before the parent has come to wait, the next FORK of another thread may map
that stack again, and both parents then sleep on one word. The single wake-up may
reach the wrong one, and the right one sleeps on with its child in the guest.
That is the exception of `NoLostWakeup` (`Abandoned`): it takes a child that has
returned, and such a child has no place to return to and crashes the process.

**`Alu`** has one action per handler, built from `Compute` (read, operate, trim,
store) and `Store` (store as it comes), which are the two shapes of the
handlers. Half a byte has `H` bits: all masks and shifts of the code are
multiples of half a byte, so the code is `H = 4`, the runs are `H = 1`, and the
theorems hold for every `H`. A word is the set of its bits that are 1; a sum or
a product goes through the number it stands for (`Value`, `Bits`). Accesses
outside the memory, the bytes of `VMEM_EXPANSION` included, and divisions by
zero end the process (beyond `vmem` there may be another mapping, and then
nothing faults; what such an access does to it is left out). Shift counts are
taken modulo the word width, as the processor does where C leaves it undefined.
`Reference` states what each operation is to compute from `First` and `Second`:
numbers modulo the width for arithmetic, and for the rest which place of the
result has which bit of the operands, which is not how the handlers come by it.

**`SharedCells`** takes MOV and ADD apart into their reads and writes of single
bytes, in any order within one read or one writer, and lets threads interleave
them. `Repeats` is the second pass of a SHORT, which its writer hands on to that
of an INT (`emulate.c` 145). Ghosts: `ideal`, the memory were each instruction
one step, and `raced`, the bytes that two instructions used at a time and what
was computed from them. Memory is sequentially consistent: a byte written is
seen by all threads at once, and each thread's accesses take effect in the order
of its instructions, a little more than the processor promises (a store may
become visible after a later load of another byte) and more than the compiler
does for plain accesses.

**`Locals`** has PUT, GET, and what they need of CALL, RET, FORK and EXIT. A
value is one byte repeated over its width, enough to tell whose value it is.
`Hash` is a parameter; **`Fnv`** has the hash of the code, its low sixteen bits,
which no step of it takes from the high ones. Ghosts: `dict`, the dictionary
each activation believes to have, and `clashed`, the keys that two activations
have had at once, for which nothing is promised, since the code makes them share
their variables. The call stack is the bounded one of `Lifo`: a CALL on a full
stack drops its return address, so the callee works with its caller's key, and
its RET goes to an outer caller; as the caller itself is never resumed, its
dictionary is replaced by the callee's. The byte after the area belongs to the
list of return addresses and may hold anything when GET reads it.

**`Codec`** takes one instruction through `Compile`, `Fetch`, `Decode`,
`Dispatch`. The parsers work on structured operands (text is abstracted), from
there on everything is bytes and bits. `ReadOperand` joins the operand readers
up to the point where they ask for register contents, in the form of the
assembly's operands so that both ends compare directly.

**`Layout`** has a step per pass of the assembler and one per corrected
fallthrough, with the Python variable `fallthrough` (`carry`), which the last
instruction picks up because of a misspelt name. Encryption is a bit that XOR
flips. The last pass replaces its pattern in all bytes of a referring
instruction; `Resolve` does so in the reference, and leaves out that header,
fallthrough or another operand might hold the same three bytes. **`Loader`** is
`load_vcode` call by call: the name of the own file behind the opaque predicate,
the enciphered length in the last eight bytes, the mapping. Every call may fail
(`CallFails`), every read may come short; what was not read is what the stack
held (`Garbage`). Only the length is enciphered as a whole: the code itself is
appended as the compiler left it, its opcodes and fallthroughs enciphered one by
one, although `src/README.md` 137 speaks of encrypted virtual code. A 32-bit
word is the set of its bits. **`Image`** composes them: the assembler's passes,
the file (`Write`), the loader, and the machine following fallthroughs through
what was loaded (`Run`); jumps are in `ControlFlow`.

**`Syscalls`** is the translation of `handle_syscall`: which call with which
arguments, each a place in `vmem`, a number, or junk. **`InputGate`** runs two
threads of the virtual program over it, `FUN_Main` at its gate with `FUN_Timer`
and `FUN_ReadInput`, instruction by instruction where the other thread or the
kernel can see a difference, and a kernel (external) that serves the translated
requests. `FUN_Tracer` and `FUN_Watcher` are there by what they can do to these
two, kill the process (`OthersKill`); the timer's judgement is left open
(`InTime`, `Late`). As in `SharedCells`, memory is sequentially consistent; the
stores of the flag's bytes, though, come in any order (`StoreFlag`), since the
compiler may choose it.

The modules `*MC` hold constants and programs for TLC, `*_proofs` the theorems.

## 4. Runs

Each passing run's properties are also broken by a mutant of a modelled
definition (`PROJECT.json`, `mutants`): an error of the kind the code could have.

| Run | Instance | Shows |
|---|---|---|
| `call_stack` | 3 frames, 3 words | the linked frames are a bounded LIFO; none is lost |
| `threads` | 2 threads, private stacks of 2, list of 3 slots; recursion past both, then a fork, loops of calls, faults, teardown | until the fork the list mirrors the calls even past the private stack's capacity; as long as the threads take turns it counts the pending calls of all of them, ended ones included, and refuses a call only when they fill it; own stacks and returns are right under every race on the list; every scan ends; FORK is the abstract one; the process crashes only behind a return from an entry point |
| `fork` | 4 threads, 2 stacks, wake-ups of one sleeper, signals, failing mmap and clone3, both builds, children that exit or return | no wake-up lost but by a child that crashes next, native stacks disjoint, no mapping astray, FORK ends when the flag is read on every turn, and implements the abstract one |
| `alu_values` | 2-bit bytes, 8 bytes of memory, 19 operations, all widths | results against a bitwise reference, narrow division, shifts in memory and unequal PACKs included; no other bit, byte or register changes |
| `cells` | 3 threads, bytes of 5 values, 4 addresses, 8 programs | unraced instructions are atomic next to stale copies of neighbours; of a counter's updates two survive, or one where a thread counts once; a store that was seen and answered does not come back |
| `locals_threads` | 2 threads, 3 call sites, call stacks of 2 that overflow, 2 return addresses in all stacks, the real hash | activations keep their variables unless their return addresses coincide or their hashes overlap; variables of one activation never overlap |
| `codec_roundtrip` | 28 opcodes x 4 ciphers x 3 draws x 39 operand pairs | the machine executes what was assembled |
| `image` | 4 instructions, 2 lengths, every shuffle, 2 keys, failing calls and short reads | what is loaded is a beginning of what was appended, all of it if the code was read whole, and it runs in source order, to the end if all was read |
| `input_gate` | lines up to two bytes too long, timeouts, kills, closed terminal | the gate opens only on a line read to its end, and with no timeout needed; each request is one the kernel understands |

Runs that TLC must find violated, each a disagreement between code and text
(quotes in `PROJECT.json`, `findings`): `overflow` (129th nested CALL returns
to the wrong place), `fork_hoisted` (a parent waits for ever in the build that
reads the flag once), `layout_labels` (placeholders never replaced).

**Bounds and why they suffice.** Stacks and lists of two or three entries fill,
overflow and drain, which is all their code distinguishes; the list has one more
slot than a private stack, so that each overflows without the other. Two threads
give every conflict of the pairwise operations on the list. Four threads and two
stacks let one child's stack be mapped again while its parent is still before
its wait, so that two parents sleep on one word and the wake-up of a third
thread reaches one of them; a third stack adds no sharing, and the theorems are
for any number of both. Two return addresses give a callee, a recursion or a
call in each of two threads. The three call sites of `locals_threads` are the
three cases of the hash: 0x4171 puts variable 1 across the end of the area,
0x2918 puts it on bytes of that one, 0x1234 puts it alone. Two-bit bytes keep
every byte position, mask and half distinct. Five values of a byte let a sum
carry out of each cell of `cells`; its programs are two ways to count, three
widths to answer, three ways to be neighbours. Numbers in `Codec` lie on both
sides of each power of 256. `INPUT_LENGTH` is 3 (32 in the program) and
`MaxTyped` 6: lines that fit, that end at the limit, and that are one or two
bytes too long; the letters typed are the two bytes of the flag. `MaxStacks`
bounds mappings, `MaxInsns` instructions, `Depth` the return addresses in
all stacks; each is a guard of the action it bounds.

**Fairness.** Weak fairness of each thread's steps in `ControlFlow` and
`ForkHandshake`: the kernel schedules every runnable thread, no thread holds a
lock. A thread asleep on the futex has no enabled step, so nothing is assumed
of it; signals are not assumed to come. In `InputGate` each thread runs and each
of its requests is served, weakly; there is no fairness for timeouts, so
`GateOpens` shows that the wake-up does not depend on one, and none for the
terminal: the property begins when the line has its end. `Image` is sequential:
weak fairness of its next step says that the assembler and the machine run.

**Deadlock** is checked everywhere; states in which everything has ended have an
explicit stuttering step.

## 5. Proofs

| Theorem | Statement | Inductive invariant |
|---|---|---|
| `CallStack` (in `ControlFlow_proofs`): `FramesTyped`, `FramesPartitioned` | `StackSpec => [](StackTypeOK /\ NoFrameLost)` | the two together: frames 0 to `top` are linked downwards, the others upwards from `free` |
| `StackRefinement` | `StackSpec => ImplementsBoundedStack` | the same; the items are frames 0 to `top` |
| `ControlFlow`: `TypeCorrect` | `Spec => []TypeOK` | types plus what each location implies of `vip` |
| `PrivateStacksCorrect` | `Spec => []StackHoldsCalls` | the stack equals the ghost `pending` for threads that lost nothing |
| `ReturnsCorrect` | `Spec => ReturnsToCaller` | the action property from the invariant above |
| `ListCorrect` | `Spec => []ListHoldsCalls` | `ListInv`, while no thread is forked: the list, the position of the scan and the depth |
| `CountCorrect`, `StackErrorCorrect` | `Spec => []ListCountsCalls`, `Spec => StackErrorOnlyWhenFull` | `CountInv`, while nothing was disturbed: the lowest entries are used, as many as calls are pending, and the scan under way stands at or below the first free one |
| `TrichotomyCorrect` | `Spec => []Trichotomy` | `OneFlag`: at most one bit of the mask is set |
| `CrashCorrect` | `FallsThroughInside` gives `Spec => []CrashOnlyAfterReturn` | `EndInv`: a thread at `End` has no pending call or lost one; memory is unmapped only behind the main thread's return |
| `ForkHandshake`: `TypeCorrect`, `WakeupCorrect` | `Spec => []NoLostWakeup` | who waits for which child, that a flag is raised exactly from `SetFlag` on, and whose birth stack is whose |
| `ForkRefinement`; `ControlFlow`: `ForkUsed` | `Spec => ImplementsFork`; `Spec => UsesFork` | the invariant above: a parent that leaves its loop has a child past `SetFlag`; and types |
| `StacksCorrect` | `Spec => []StacksDisjoint` | the one of `WakeupCorrect`; and that `ChildSp` of one stack is the home of the stack mapped before it |
| `MappingsCorrect` | `Spec => []MappingsAccounted` | the property itself, with the invariant above |
| `Alu`: `TypeCorrect` | `Spec => []TypeOK`: registers and bytes stay within their widths | the property itself |
| `ResultCorrect` | `Spec => ResultIsRight`: each of the 19 operations leaves what `Reference` says | `TypeOK`; the argument is below |
| `UpperBitsCorrect`, `DestinationCorrect` | `Spec => UpperBitsKept`, `Spec => OnlyDestination` | `TypeOK`; a narrow result leaves the bits above it, and nothing but the destination changes |
| `Image`: `LengthRecovered` | deciphering undoes enciphering, for all words and keys | none: rotations and exclusive ors of sets of bits |
| `FallsLead` | `Spec => []FallthroughsLead`: once laid out, each fallthrough is the place of the next instruction of the source | `LayoutInv`: the fallthroughs corrected so far lead on; what the misspelt variable carries to the last instruction is enciphered or leads nowhere |
| `LoadCorrect` | `LoadSpec => []LoadedIsAppended`, for the loader alone | `Inv`: what each position of `load_vcode` implies of `pos`, `len`, `whole` |
| `LoadsWhatWasLaid` | `ImageSpec => []LoadedIsAppended` | the same, behind the assembler's passes |
| `RunsInOrder` | `ImageSpec => []LoadedRunsInOrder` | `ImageInv`: both of these, and what has been visited is a beginning of the source; no two instructions share a place, as lengths are positive |
| `NameCorrect` | `ImageSpec => []NameIsSelf` | the property itself; the two names are computed word by word |
| `SharedCells`: `AtomicUnlessRaced` | `Spec => []UnracedExact` | what was read of an unraced byte is what `ideal` has there, and each byte written or still to write has its digit of the ideal result |
| `AnswersStay` | `Spec => []AnswerStays` | `AnswerInv`: the answerer reads a byte of the value only when the storer has written it, and a storer of one pass writes no byte twice; so when the answer begins all are written |
| `UpdatesBounded` | `Spec => []LostUpdatesBounded` | `CountInv`. Above: the cell, and what any thread has read, is at most the number of writes so far. Below: whoever wrote a 1 that stands has written nothing else, since a thread that has written once reads no 0 any more |
| `Locals`: `TypeCorrect`, `LocalsCorrect` | `Spec => []LocalsKept` | `OneHolder`: a key that has not clashed belongs to one activation at most |
| `GetCorrect` | `Spec => GetReturnsPut` | the action property from it |
| `InputGate`: `GateCorrect` | `Spec => []InputRight` | `Reading`: what each place of the reader implies of the bytes read; `NoEndYet`: a newline in its cells was read from the line; `FlagKnown`: the main thread has half of the flag only when the reader is past the line |
| `RequestsCorrect` | `Spec => []RequestsRight` | each pending request is understood, with the invariant above |
| `HashesApart` | identifiers 0 to 7 of any return address are at least 4 bytes apart (`Fnv`) | none: the low three bits decide, and 50354 times their differences stays away from 0 modulo 2^16 |
| `ApartAlways` | `Spec => []VariablesApart` | `HashesApart` at the top of each running activation's stack |
| `Codec`: `HandlerRight`, `FallthroughRight` | `Spec => []HandlerMatches`, `Spec => []FallthroughFound` | `CodecInv`: what each position implies of the bytes, and of the decoded header and operands |
| `OperandsRight` | `Spec => []OperandsRead`: the operands are recovered but for a sign | the same; numbers are put together from their bytes at each width |
| `OperandsExact` | `NoSigns` gives `Spec => []OperandsMatch` | the theorem above |

Assumptions are the named ASSUMEs of the modules (TLC evaluates them in every
run), and for `CrashCorrect` the hypothesis `FallsThroughInside`: only a RET or
an EXIT without a condition is followed by nothing. A program that falls out of
its end with a call pending ends the emulation there, so without it the property
is false. `OperandsExact` has the hypothesis `NoSigns`, which excludes the minus
that the assembler loses (section 6); `OperandsRight` needs none. `NoLostWakeup`
is not inductive by itself: a sleeping parent is safe only because no two forks
in progress share a mapping unless a child has unmapped it by returning, a
child's birth place is its parent's mapping, and the flag is raised exactly when
the child has passed `SetFlag`; `StacksOwned`, `SlotsOwned` and `ChildrenKnown`
say so, for children that have not returned. Each proof has the three facts
(initial states, steps, consequence) as lemmas or first-level steps and one step
per action or group of actions below.

**The results of the instructions** (`Alu_proofs`) are right for every size of a
byte, so for the code's `H = 4`, where TLC can only do `H = 1`. A step is one of a
few shapes: sums, differences and products of trimmed words agree with those of
the whole words modulo two to the width (`Congruent`); what a writer puts into
memory byte by byte is what a reader takes from it (`LoadWritten`); `REV` is a
mirror, a rotation is a shift by the remainder of the count, and halves and
bytes move by multiples of their width. That a trimmed number has the lower
bits of the number (`WrapLow`, `ValueLow`) needs induction on bits. The
induction theorems of the library take an operator, which no prover here can
instantiate, but the existence of a minimum in a well-founded set takes none:
`Induction` and `RecursionExists` are proved from it, for sets and for functions.

**Only model-checked:** liveness (`ScanEnds`, `ForkEnds`, `LoadedRunsToTheEnd`,
`GateOpens`), which the prover cannot do under fairness. All else that a passing
run checks is a theorem. Where other modules add up lengths (`Layout`) or count
updates (`SharedCells`), the sum is a recursive function or a cardinality, and
the induction is over a set of natural numbers without a least element
(`Induction` in `Image_proofs`).

## 6. What the code does beside what its comments say

The models have these behaviours; no property asserts the opposite.

- Threads that race on the shared list leave entries behind, and so does EXIT
  inside a call; a CALL can then end its thread with `WEEPER_ERR_STACK` although
  few calls are pending (`emulate.c` 680). `ListHoldsCalls` is therefore about the
  time before the first FORK; `ListCountsCalls` and `StackErrorOnlyWhenFull`
  count what EXIT leaves behind, and hold until two threads overlap on the list
  or a RET without a call clears another's entry. What the list holds after that
  no property states; own returns stay right (`ReturnsToCaller`).
- When the main thread returns from `emulate`, workers may fault before
  `exit_group` (`WeeperVM.c` 99).
- `clone_args.stack` is given the top of the mapping, so a child runs on the
  128 KiB above it (`emulate.c` 1445; `syscall.h` 19 asks for the lowest byte).
  `ChildSp` and `Home` model it; `StacksDisjoint` is about the real places.
- A child that returns from its entry point unmaps its stack while its parent may
  still be before its wait; two parents can then sleep on one word, and the
  wake-up of one child reaches one of them (1475). The process crashes at the
  returned child's next step.
- A child that ends by EXIT, and a clone3 that fails, leave their stack mapped
  (1466); `MappingsAccounted` says that nothing else does.
- MOV, ROL, ROR, SWAP, REV, PACKHI and PACKLO store untrimmed values
  (`emulate.c` 256); narrow DIV, MOD and SHR on registers use all 32 bits (546);
  SHL and SHR in memory shift the source by the destination (890); a PACK with
  operands of two widths is right in the narrower one only (1155).
  `ResultIsRight` states these results as they are. LEA reads one byte at every
  size (286), and a shift by the width or more is undefined in C: `Sound`
  excludes these two.
- A SHORT is written twice (145), so one that another thread has seen and
  overwritten may come back; `AnswerStays` is about a BYTE and an INT. The
  virtual program never clears a SHORT that another thread sets.
- Arithmetic on memory loses updates of other threads, down to two of many
  (`LostUpdatesBounded`); the virtual program has one writer per cell.
- Only the length of the virtual code is enciphered with the ELF header
  (`WeeperVM_compile.py` 461-489), not the code, as `src/README.md` 137 has it.
- Reads that come short are not noticed (`WeeperVM.c` 74): `LoadedIsAppended`
  says what is left right when the read of the code comes short; when that of
  the length does, the mapping holds junk.
- Recursion, and threads outside any call, share local variables (`emulate.c`
  332). Hashes of different activations may overlap (336), which the repository's
  own `README.md` 39 expects of large programs, and a variable above 0xFFFC runs
  into the list of return addresses.
- A minus in front of a displacement is assembled as a plus
  (`WeeperVM_compile.py` 128); in `codec_roundtrip` displacements have no minus.
- `ReadInput` looks at the byte and not at the result of the read
  (`code_commented.weep` 263): when the terminal is closed before the line has
  its end, it reads for ever. The gate then stays shut, which the model has.

## 7. Not modelled

- The inline assembly of `handle_syscall` does not name the registers that the
  instruction `syscall` overwrites and fetches the result in a second statement;
  what a compiler may make of that is left out, as is the junk that nanosleep
  gets as its second argument, which matters only if a signal comes.
- `sys_sleep` in `handle_fork` (`emulate.c` 1481) decides nothing: the model's
  threads may pause anywhere. `sys_write` and `sys_print` are never called.
- The puzzle of the virtual program, 14 000 lines of assembly over its input, is
  data; so are its decoys. `FUN_Tracer` and `FUN_Watcher` look at `/proc` and at
  inotify events, which no model here has, and act on the rest only by killing.
- What the machine makes of bytes that are not its code, after a short read.
- The text side of the assembler: its grammar, its messages and error exits.
- The constraint generator is a one-off script around a solver, and the build
  files matter to the models only through `-Os`, which allows the hoisted read.
