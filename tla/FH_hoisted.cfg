\* The flag is read once, before the loop.
SPECIFICATION FairSpec
CONSTANTS
  main = main
  t1 = t1
  t2 = t2
  t3 = t3
  Threads = {main, t1}
  Main = main
  Builds = {TRUE}
  ChildOps = {"exit"}
  MaxStacks = 2
  StackUnits = 2
  VcodeUnits = 1
  VmemUnits = 8
PROPERTIES ForkAlwaysEnds
