\* Decoders, OpenSSL 1.1+: non-negative serials around the width of a long (scaled
\* to 2 bytes); UTCTime-range years, GMT or not, single- and two-digit days.
CONSTANTS
  LongBytes = 2
  Asn1Get10 = FALSE
  LP64 = TRUE
  MaxSerialBytes = 3
  SerialBytes = {1, 127, 128, 255}
  Signs = {FALSE}
  Years = {1950, 2049}
  Months = {1, 9, 12}
  Days = {1, 9, 10, 31}
  Clocks <- BoundaryClocks
  Fracs <- NoFrac
\* Address helpers: the sockaddrs, sizes and credentials defined in MCConversions.
  Sockaddrs <- MCSockaddrs
  DstLens <- MCDstLens
  Builds = {"SO_PEERCRED", "GETPEERUCRED", "NONE"}
  Creds <- MCCreds
  UidBits = 16
SPECIFICATION Spec
\* one call of a helper: the program stops after it
CHECK_DEADLOCK FALSE
INVARIANTS SerialExact TimeDecoded AddrText
