CONSTANTS
  Daemons = {d1}
  Funcs = {f1}
  Args = {a, b}
  OtherArgs = {b}
  Results = {nil, v}
  Nil = nil
  MemoizeNil = MEMOIZE_NIL
  Absent = absent
  Error = error
  DiskFaults = FALSE
  Restarts = TRUE
  MaxWraps = 2
  MaxDepth = 2
SPECIFICATION Spec
INVARIANT TypeOK
INVARIANT SwapReady
INVARIANT FileReadable
INVARIANT CompletedCallsDurable
PROPERTY EvictionNeedsBinding
CHECK_DEADLOCK FALSE
