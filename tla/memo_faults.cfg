CONSTANTS
  Daemons = {d1, d2}
  Funcs = {f1}
  Args = {a}
  OtherArgs = {a, other}
  Results = {nil, v}
  Nil = nil
  MemoizeNil = MEMOIZE_NIL
  Absent = absent
  Error = error
  DiskFaults = TRUE
  Restarts = TRUE
  MaxWraps = 1
  MaxDepth = 2
SPECIFICATION Spec
INVARIANT WriterIsWriting
INVARIANT SessionShape
PROPERTY KeepsPromise
CHECK_DEADLOCK FALSE
