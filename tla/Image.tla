--------------------------------- MODULE Image --------------------------------
(***************************************************************************)
(* From the assembler to the running machine: WeeperVM_compile.py lays the *)
(* instructions out and enciphers their total length (Layout), the build   *)
(* appends them to the executable, load_vcode finds and loads them         *)
(* (Loader), and emulate follows the fallthroughs through what was loaded. *)
(***************************************************************************)
EXTENDS Layout, Loader

CONSTANT NoFile     \* before the file is written

VARIABLE
  visited    \* the instructions the machine has run, by their place in the source

allVars == <<vars, loadVars, visited>>

\* The word that stands for a number of bytes: at most 24 bits.
WordOf(n) == {i \in 0 .. 23 : (n \div 2^i) % 2 = 1}

\* The length of every program is one that load_vcode may meet.
ASSUME ImageAssumption ==
  \A s \in [Place -> Sizes] : WordOf(Sums(s)[Insns]) \in Lengths

ImageInit == Init /\ Reset /\ file = NoFile /\ visited = << >>

Assemble == (Shuffle \/ Correct \/ Resolve) /\ UNCHANGED <<loadVars, visited>>

\* The code and its enciphered length are written and appended to the program.
Write ==
  /\ phase = "laid" /\ file = NoFile
  /\ \E elf \in ElfSizes, key \in Keys :
       file' = Appended(elf, WordOf(Offset(Insns + 1)), key)
  /\ UNCHANGED <<vars, loader, visited>>

LoadStep == file # NoFile /\ Load /\ UNCHANGED <<vars, file, visited>>

\* emulate starts at address 0 and goes on at the fallthrough of the instruction
\* it ran, decrypting it; an address that was never encrypted leads astray.
Following == IF visited = << >> THEN Xored(Plain(0)) ELSE fall[Last(visited)]

\* The instruction there, if the mapping holds all of it.
Found ==
  {p \in Place : /\ Following.keyed
                 /\ vcode.from + Following.address = file.elf + Offset(p)
                 /\ Following.address + size[order[p]] <= vcode.got}

Run ==
  /\ pc = "loaded" /\ Found # {}
  /\ \E p \in Found : visited' = Append(visited, order[p])
  /\ UNCHANGED <<vars, loadVars>>

\* A wrapper has ended the program, or the address holds no instruction that the
\* assembler wrote; what the machine makes of such bytes is not followed.
Over ==
  /\ pc = "ended" \/ (pc = "loaded" /\ Found = {})
  /\ UNCHANGED allVars

ImageNext == Assemble \/ Write \/ LoadStep \/ Run \/ Over

\* The assembler and the machine keep going.
ImageSpec == ImageInit /\ [][ImageNext]_allVars /\ WF_allVars(ImageNext)

-----------------------------------------------------------------------------
\* Under every shuffle the machine runs the instructions in the order of the
\* source, as long as the length was read: also when only a part of the code was
\* (README.md:136).
LoadedRunsInOrder ==
  LengthRead => visited = [k \in DOMAIN visited |-> k]

\* ... and reaches the last of them unless a call fails or a read comes short.
LoadedRunsToTheEnd ==
  <>[](Len(visited) = Insns \/ pc = "ended" \/ ~({"tail", "header", "code"} \subseteq whole))
=============================================================================
