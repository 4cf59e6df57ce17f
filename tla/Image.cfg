\* Four instructions of two lengths, two keys; labels do not matter here.
SPECIFICATION ImageSpec
CONSTANTS
  Insns = 4
  Sizes = {6, 9}
  Refs = {}
  Value <- MCValue
  Lengths <- MCLengths
  ElfSizes = {5}
  Keys <- MCKeys
  Garbage <- MCGarbage
  NoFile = NoFile
INVARIANTS NameIsSelf LoadedIsAppended LoadedRunsInOrder
PROPERTY LoadedRunsToTheEnd
