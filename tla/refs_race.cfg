CONSTANTS
  Procs = {m, n, w}
  Asks <- TwoMaintainers
  m = m
  n = n
  w = w
  r1 = r1
  Faulty = {m}
  Refs = {r1}
  Ids = {a}
  None = none
  AnyId = any
  Free = free
  Dead = dead
SPECIFICATION Spec
INVARIANT LockDiscipline
INVARIANT ReaderCacheExact
CHECK_DEADLOCK FALSE
