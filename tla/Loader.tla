-------------------------------- MODULE Loader --------------------------------
(***************************************************************************)
(* load_vcode of WeeperVM.c: the program finds its own file under a name   *)
(* that proc_self_exe deciphers, reads the enciphered length from the last *)
(* eight bytes, and loads that many bytes from in front of them.  Every    *)
(* system call may fail, and every read may yield less than was asked for. *)
(*                                                                         *)
(* A 32-bit word is the set of its bits that are one.                      *)
(***************************************************************************)
EXTENDS Integers, Sequences

CONSTANTS
  Value(_),    \* the number that a word stands for
  Lengths,     \* words that may be the length of the virtual code
  ElfSizes,    \* sizes of the executable before the code is appended
  Keys,        \* words that random.getrandbits may yield
  Garbage      \* words the length may become when the stack is not overwritten

Bits == 0 .. 31

ASSUME LoaderAssumption ==
  /\ \A w \in Lengths : w \subseteq Bits /\ Value(w) \in Nat
  /\ ElfSizes \subseteq Nat
  /\ \A w \in Keys \cup Garbage : w \subseteq Bits

VARIABLES
  file,        \* the executable: its sizes and its last eight bytes
  sse,         \* what cpuid says
  pc,
  path,        \* procSelfExe
  pos,         \* the offset of self_fd
  whole,       \* which of the reads so far yielded all there was to read
  len,         \* vcode_len
  vcode        \* which bytes of the file the mapping holds

loader == <<sse, pc, path, pos, whole, len, vcode>>
loadVars == <<file, loader>>

-----------------------------------------------------------------------------
Xor(x, y) == (x \ y) \cup (y \ x)
Shl(x, r) == {i \in Bits : i - r \in x}
Shr(x, r) == {i \in Bits : i + r \in x}
ROR32(x, r) == Shr(x, r) \cup Shl(x, 32 - r)
ROL32(x, r) == Shl(x, r) \cup Shr(x, 32 - r)

\* The word with the given upper and lower halves.
Word(upper, lower) ==
  {i \in 0 .. 15 : (lower \div 2^i) % 2 = 1}
    \cup {i \in 16 .. 31 : (upper \div 2^(i - 16)) % 2 = 1}

\* Byte k of a word, as a number.
ByteOf(w, k) ==
  LET bit(i) == IF i + 8 * k \in w THEN 2^i ELSE 0
  IN  bit(0) + bit(1) + bit(2) + bit(3) + bit(4) + bit(5) + bit(6) + bit(7)

kElf == Word(17996, 17791)          \* 0x464c457f
PathKey == Word(38302, 36354)       \* 0x959e8e02

\* Mutant of LittleEndian: the bytes of a chunk in the order of the decoy.
LittleEndian_Swapped(w) == [k \in 1 .. 4 |-> ByteOf(w, 4 - k)]
LittleEndian(w) == [k \in 1 .. 4 |-> ByteOf(w, k - 1)]
BigEndian(w) == [k \in 1 .. 4 |-> ByteOf(w, 4 - k)]

\* Sixteen bytes, from four words.
Joined(chunks) == [k \in 1 .. 16 |-> chunks[((k - 1) \div 4) + 1][((k - 1) % 4) + 1]]

\* The chunks of the name with SSE, and those of the branch that the opaque
\* predicate is there to hide.
TrueName ==
  Joined(<<LittleEndian(Xor(ROR32(Word(55804, 23541), 9), PathKey)),
           LittleEndian(Xor(ROR32(Word(3802, 5663), 4), PathKey)),
           LittleEndian(Xor(ROR32(Word(22772, 14200), 7), PathKey)),
           LittleEndian(Xor(ROR32(Word(56687, 21171), 13), PathKey))>>)
DecoyName ==
  Joined(<<BigEndian(Xor(ROR32(Word(54253, 45601), 15), PathKey)),
           BigEndian(Xor(ROR32(Word(54150, 49235), 11), PathKey)),
           BigEndian(Xor(ROR32(Word(34638, 29651), 11), PathKey)),
           BigEndian(Xor(ROR32(Word(59060, 29057), 12), PathKey))>>)

\* "/proc/self/exe", closed by zeros.
SelfExe == <<47, 112, 114, 111, 99, 47, 115, 101, 108, 102, 47, 101, 120, 101, 0, 0>>

-----------------------------------------------------------------------------
\* The assembler splits the length in two words with a random key, and the last
\* eight bytes of the file hold them (WeeperVM_compile.py).
Appended(elf, code, key) ==
  [elf |-> elf, code |-> code,
   hi |-> ROR32(Xor(Xor(code, kElf), key), 13),
   lo |-> ROL32(key, 27)]

Size == file.elf + Value(file.code) + 8

\* Mutant of Decipher: the halves are rotated as the assembler rotates them.
Decipher_SameWay(hi, lo) == Xor(kElf, Xor(ROR32(hi, 13), ROL32(lo, 27)))
Decipher(hi, lo) == Xor(kElf, Xor(ROL32(hi, 13), ROR32(lo, 27)))

Nowhere == [from |-> 0, got |-> 0]

Reset ==
  /\ sse \in BOOLEAN
  /\ pc = "path" /\ path = << >> /\ pos = 0 /\ whole = {} /\ len = {}
  /\ vcode = Nowhere

LoadInit ==
  /\ file \in {Appended(e, c, k) : e \in ElfSizes, c \in Lengths, k \in Keys}
  /\ Reset

Move(here, there) == pc = here /\ pc' = there

\* proc_self_exe
BuildPath ==
  /\ Move("path", "open")
  /\ path' = IF sse THEN TrueName ELSE DecoyName
  /\ UNCHANGED <<sse, pos, whole, len, vcode>>

\* There is no file of the other name.
Open ==
  /\ Move("open", "measure") /\ path = SelfExe
  /\ UNCHANGED <<sse, path, pos, whole, len, vcode>>

\* Seeks to the end and from there to the last eight bytes.
Measure ==
  /\ Move("measure", "tail")
  /\ pos' = Size - 8
  /\ UNCHANGED <<sse, path, whole, len, vcode>>

\* sys_read does not tell its caller how much it read.
ReadTail ==
  /\ Move("tail", "rewind")
  /\ whole' \in {whole, whole \cup {"tail"}}
  /\ pos' \in Size - 8 .. Size
  /\ pos' = Size <=> "tail" \in whole'
  /\ UNCHANGED <<sse, path, len, vcode>>

Rewind ==
  /\ Move("rewind", "header")
  /\ pos' = 0
  /\ UNCHANGED <<sse, path, whole, len, vcode>>

ReadHeader ==
  /\ Move("header", "decipher")
  /\ whole' \in {whole, whole \cup {"header"}}
  /\ pos' \in 0 .. 4
  /\ pos' = 4 <=> "header" \in whole'
  /\ UNCHANGED <<sse, path, len, vcode>>

\* The two words are big endian, the header is little endian; what was not read
\* is what the stack held before.
DecipherLength ==
  /\ Move("decipher", "map")
  /\ IF {"tail", "header"} \subseteq whole
     THEN len' = Decipher(file.hi, file.lo) ELSE len' \in Garbage
  /\ UNCHANGED <<sse, path, pos, whole, vcode>>

\* An empty mapping is refused.
MapCode ==
  /\ Move("map", "seek") /\ len # {}
  /\ UNCHANGED <<sse, path, pos, whole, len, vcode>>

Fits == len \in Lengths /\ Value(len) <= Size - 8

\* Mutant of SeekCode: the eight bytes of the length are forgotten.
SeekCode_FromEnd ==
  /\ Move("seek", "read") /\ Fits
  /\ pos' = Size - Value(len)
  /\ UNCHANGED <<sse, path, whole, len, vcode>>

SeekCode ==
  /\ Move("seek", "read") /\ Fits
  /\ pos' = Size - 8 - Value(len)
  /\ UNCHANGED <<sse, path, whole, len, vcode>>

\* A wild length wraps around to some place behind the end of the file.
SeekBeyond ==
  /\ Move("seek", "read") /\ ~Fits
  /\ pos' = Size
  /\ UNCHANGED <<sse, path, whole, len, vcode>>

Available == IF Fits THEN Value(len) ELSE Size - pos

ReadCode ==
  /\ Move("read", "protect")
  /\ \E n \in 0 .. Available :
       /\ vcode' = [from |-> pos, got |-> n]
       /\ pos' = pos + n
       /\ whole' = IF n = Available THEN whole \cup {"code"} ELSE whole
  /\ UNCHANGED <<sse, path, len>>

Protect ==
  /\ Move("protect", "close")
  /\ UNCHANGED <<sse, path, pos, whole, len, vcode>>

\* The result of close is not looked at.
Close ==
  /\ Move("close", "loaded")
  /\ UNCHANGED <<sse, path, pos, whole, len, vcode>>

\* A wrapper that got an error ends the only thread.
CallFails ==
  /\ pc \in {"open", "measure", "tail", "rewind", "header", "map", "seek", "read", "protect"}
  /\ pc' = "ended"
  /\ UNCHANGED <<sse, path, pos, whole, len, vcode>>

Load ==
  \/ BuildPath \/ Open \/ Measure \/ ReadTail \/ Rewind \/ ReadHeader
  \/ DecipherLength \/ MapCode \/ SeekCode \/ SeekBeyond \/ ReadCode
  \/ Protect \/ Close \/ CallFails

LoadNext == Load /\ UNCHANGED file

LoadSpec == LoadInit /\ [][LoadNext]_loadVars

-----------------------------------------------------------------------------
\* The name is that of the program's own file exactly on processors that answer
\* the opaque predicate as expected (proc_self_exe, opaque_predicate_1).
NameIsSelf == pc # "path" => (path = SelfExe <=> sse)

\* The reads that the length is deciphered from yielded all of it.
LengthRead == {"tail", "header"} \subseteq whole

\* Whatever the key, the size of the executable and the length: if the length was
\* read, the mapping holds a beginning of the appended code, and nothing that
\* surrounds it in the file, however short the read of the code came; and all of
\* it if that read was whole too (load_vcode, which looks at none of this).  A
\* length that was not read is junk, and so is then what the mapping holds.
LoadedIsAppended ==
  pc = "loaded" /\ LengthRead =>
    /\ vcode.from = file.elf /\ vcode.got <= Value(file.code)
    /\ "code" \in whole => vcode.got = Value(file.code)
=============================================================================
