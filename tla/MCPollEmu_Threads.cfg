\* Two threads, one call each, sharing the static buffers.
CONSTANTS
  Threads = {t1, t2}
  FdVals <- MCFdVals
  Timeouts <- MCTimeouts
  MaxLen = 1
  MaxCalls = 1
  AllocMayFail = TRUE
SPECIFICATION Spec
\* each thread makes MaxCalls calls and then stops
CHECK_DEADLOCK FALSE
INVARIANT PollResult
