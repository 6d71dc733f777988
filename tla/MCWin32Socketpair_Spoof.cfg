\* Another process connecting from a second loopback address, 127.0.0.2.
CONSTANTS
  Domains <- MCDomains
  OwnAddr = Lo1
  OtherAddrs = {Lo1, Lo2}
  Ports = {p1, p2, p3}
  SysMayFail = TRUE
SPECIFICATION Spec
\* the call returns: a finished call has no further step
CHECK_DEADLOCK FALSE
INVARIANT PairConnected
