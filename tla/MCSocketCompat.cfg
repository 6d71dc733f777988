\* Two threads on one O_APPEND descriptor, on a FreeBSD-like build
\* (SO_NOSIGPIPE, TCP_KEEPIDLE, TCP_KEEPINTVL, TCP_KEEPCNT) whose kernel does
\* not know TCP_KEEPCNT, or on a Windows build whose only tuning is
\* WSAIoctl(SIO_KEEPALIVE_VALS); or one win32_socketpair() call with another
\* process connecting from 127.0.0.1 only.  Every system call may fail.
CONSTANTS
  Threads <- MCThreads
  OpSeqs <- MCOpSeqs
  Builds <- MCBuilds
  NoProtoOpt = {"TCP_KEEPCNT"}
  InitFlags = {"APPEND"}
  SysMayFail = TRUE
  ULongBits = 30
  Domains <- MCDomains
  OwnAddr = Lo1
  OtherAddrs = {Lo1}
  Ports = {p1, p2, p3}
SPECIFICATION CompatSpec
\* Each thread stops after its operations; the socketpair call returns.
CHECK_DEADLOCK FALSE
INVARIANTS KeepaliveResult DescriptorFlags PairConnected SocketsClosed
