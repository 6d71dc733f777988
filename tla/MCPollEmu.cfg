\* One thread, two calls sharing the static buffers, negative fds included.
CONSTANTS
  Threads = {t1}
  FdVals <- MCFdVals
  Timeouts <- MCTimeouts
  MaxLen = 2
  MaxCalls = 2
  AllocMayFail = TRUE
SPECIFICATION Spec
\* each thread makes MaxCalls calls and then stops
CHECK_DEADLOCK FALSE
INVARIANTS SelectArgs PollResult
