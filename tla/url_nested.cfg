CONSTANTS
  Requests = {r1, r2}
  Timed = {r1}
  Typing = TRUE
  Quits = TRUE
  Silent = TRUE
  Flaky = {r1}
  Redirected = {r1}
  InputLimit = 1
  MaxConns = 2
  MaxDepth = 2
SPECIFICATION LoopSpec
INVARIANT TypeOK
INVARIANT ForeignOnlyWhenDone
PROPERTY ReconnectionKilled
PROPERTY TypingReturns
PROPERTY TimedReturn
CHECK_DEADLOCK FALSE
