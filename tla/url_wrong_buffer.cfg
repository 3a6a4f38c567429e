CONSTANTS
  Requests = {r1, r2}
  Timed = {}
  Typing = FALSE
  Quits = FALSE
  Silent = FALSE
  Flaky = {}
  Redirected = {r1, r2}
  InputLimit = 2
  MaxConns = 1
  MaxDepth = 2
SPECIFICATION Spec
INVARIANT RightBuffer
CHECK_DEADLOCK FALSE
