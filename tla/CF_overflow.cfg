\* Calls nested deeper than the private stack.
SPECIFICATION FairSpec
CONSTANTS
  main = main
  worker = worker
  Threads = {main}
  Main = main
  vcode <- Nested
  Addr <- NestedAddr
  End <- MCEnd
  AllOnes <- MCAllOnes
  Capacity = 2
  Slots = 4
PROPERTIES ReturnsAlwaysMatch
