\* Both builds; children leave by EXIT or return from their entry point.
SPECIFICATION FairSpec
CONSTANTS
  main = main
  t1 = t1
  t2 = t2
  t3 = t3
  Threads = {main, t1, t2, t3}
  Main = main
  Builds = {TRUE, FALSE}
  ChildOps = {"exit", "return"}
  MaxStacks = 2
  StackUnits = 2
  VcodeUnits = 1
  VmemUnits = 8
INVARIANTS TypeOK NoLostWakeup StacksDisjoint MappingsAccounted
PROPERTIES ImplementsFork ForkEnds
