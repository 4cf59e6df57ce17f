CONSTANTS
  t1 = t1
  t2 = t2
  t3 = t3
  Threads = {t1, t2, t3}
  Base = 5
  Addresses = {0, 1, 2, 3}
  Programs <- AllPrograms
SPECIFICATION Spec
INVARIANTS UnracedExact LostUpdatesBounded AnswerStays
