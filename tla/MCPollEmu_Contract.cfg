\* One thread, one call on a valid fd whose revents the caller left set.
CONSTANTS
  Threads = {t1}
  FdVals <- MCFdValsValid
  Timeouts <- MCTimeouts
  MaxLen = 1
  MaxCalls = 1
  AllocMayFail = FALSE
SPECIFICATION Spec
\* each thread makes MaxCalls calls and then stops
CHECK_DEADLOCK FALSE
INVARIANT PollContract
