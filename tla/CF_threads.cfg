\* Two threads race on a list of three slots, one more than a private stack holds; faults and teardown included.
SPECIFICATION FairSpec
CONSTANTS
  main = main
  worker = worker
  Threads = {main, worker}
  Main = main
  vcode <- Server
  Addr <- ServerAddr
  End <- MCEnd
  AllOnes <- MCAllOnes
  Capacity = 2
  Slots = 3
INVARIANTS TypeOK StackHoldsCalls ListHoldsCalls ListCountsCalls Trichotomy CrashOnlyAfterReturn
PROPERTIES ReturnsToCaller StackErrorOnlyWhenFull UsesFork ScanEnds
