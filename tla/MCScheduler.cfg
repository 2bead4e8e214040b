SPECIFICATION Spec
CONSTANTS
  a = a
  b = b
  c = c
  d = d
  e = e
  f = f
  g = g
  Tests <- MCTests
  Performance = {e, f}
  Delayed = {f}
  Blacklisted = {d}
  Excused = {f}
  Outcomes <- MCOutcomes
  Threads = 3
  Workers = 2
  Faulty = {e}
  Names = {1, 2}
INVARIANTS
  EveryTestCounted
  RootRight
  ExitHonest
PROPERTY Terminates
CHECK_DEADLOCK FALSE
