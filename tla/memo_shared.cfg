CONSTANTS
  Daemons = {d1, d2}
  Funcs = {f1, f2}
  Args = {a}
  OtherArgs = {a, other}
  Results = {nil}
  Nil = nil
  MemoizeNil = MEMOIZE_NIL
  Absent = absent
  Error = error
  DiskFaults = FALSE
  Restarts = FALSE
  MaxWraps = 1
  MaxDepth = 1
SPECIFICATION Spec
SYMMETRY Exchanges
INVARIANT EntriesProduced
PROPERTY TearNeedsTwoSavers
CHECK_DEADLOCK FALSE
