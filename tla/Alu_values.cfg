\* Every operation, at every pair of widths, on bytes of two bits.
SPECIFICATION Spec
CONSTANTS
  H = 1
  Regs = {"r0", "r1"}
  MemTop = 7
  MaxInsns = 1
  OpsUsed = {"MOV", "LEA", "ADD", "SUB", "MUL", "DIV", "MOD", "AND", "OR", "XOR", "SHL", "SHR", "NOT", "SWAP", "REV", "PACKHI", "PACKLO", "ROL", "ROR"}
  DestinationWords = {0, 27, 180, 255}
  SourceWords = {0, 1, 2, 6, 117}
  RegisterFiles <- MCRegisterFiles
  Memories <- MCMemories
  Insns <- MCInsns
INVARIANT TypeOK
PROPERTY ResultIsRight
PROPERTY UpperBitsKept
PROPERTY OnlyDestination
