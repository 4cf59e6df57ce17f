CONSTANTS
  INPUT_LENGTH = 3
  MaxTyped = 6
  NL = 10
  Letters = {29, 209}
SPECIFICATION Spec
INVARIANTS InputRight RequestsRight
PROPERTY GateOpens
