\* Sessions whose subjectAltName extension may be present but undecodable.
CONSTANTS
  NULL = NULL
  BadExt = BadExt
  Attrs <- MCAttrs
  DNs <- MCDNs
  SanLists <- MCSanListsBad
  Times <- MCTimes
  Serials <- MCSerials
  Versions <- MCVersions
  MaxSan = 2
  LongBytes = 2
  Asn1Get10 = FALSE
  LP64 = TRUE
  AllocMayFail = TRUE
SPECIFICATION Spec
\* the call returns: a finished call has no further step
CHECK_DEADLOCK FALSE
PROPERTY Refines
