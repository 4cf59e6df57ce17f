\* All opcodes, operands of every form, three draws of five bits.
SPECIFICATION Spec
CONSTANTS
  Nonces = {0, 10, 31}
  OperandPairs <- EveryForm
INVARIANT HandlerMatches
INVARIANT OperandsMatch
INVARIANT FallthroughFound
