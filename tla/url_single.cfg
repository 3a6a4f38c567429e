CONSTANTS
  Requests = {r1, r2}
  Timed = {}
  Typing = FALSE
  Quits = TRUE
  Silent = FALSE
  Flaky = {r1, r2}
  Redirected = {r1, r2}
  InputLimit = 2
  MaxConns = 1
  MaxDepth = 1
SPECIFICATION FairSpec
INVARIANT RightBuffer
PROPERTY EveryReturn
CHECK_DEADLOCK FALSE
