\* Two threads that may share call sites; either may fill its stack and call on.
\* AllOnes stands for 0xFFFFFFFF, which is beyond the integers of TLC and no address of 24 bits.
SPECIFICATION Spec
CONSTANTS
  t1 = t1
  t2 = t2
  Threads = {t1, t2}
  Sites = {16753, 10520, 4660}
  Ids = {1}
  m1 = m1
  m2 = m2
  Marks = {m1, m2}
  Widths = {3}
  LocalTop = 65535
  Hash <- MCHash
  Depth = 2
  Capacity = 2
  AllOnes = 16777216
INVARIANT TypeOK
INVARIANT LocalsKept
INVARIANT VariablesApart
PROPERTY GetReturnsPut
SYMMETRY Symmetry
