CONSTANTS
  Procs = {m, w}
  Asks <- OneMaintainer
  m = m
  n = n
  w = w
  r1 = r1
  Faulty = {w}
  Refs = {r1, r2}
  Ids = {a, b}
  None = none
  AnyId = any
  Free = free
  Dead = dead
SPECIFICATION Spec
SYMMETRY Exchanges
INVARIANT TypeOK
PROPERTY Implements
CHECK_DEADLOCK FALSE
