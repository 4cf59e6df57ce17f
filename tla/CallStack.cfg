\* Three frames and three distinct words: the stack fills, overflows, drains.
SPECIFICATION StackSpec
CONSTANTS
  Capacity = 3
  AllOnes = 3
INVARIANTS
  StackTypeOK
  NoFrameLost
PROPERTY ImplementsBoundedStack
