\* Both calls on one session, in either order: is every peer reference dropped?
CONSTANTS
  NULL = NULL
  BadExt = BadExt
  PeerCert = PeerCert
  Attrs <- MCAttrs
  DNs <- MCDNs
  SanLists <- RefSanLists
  Times <- RefTimes
  Serials <- RefSerials
  Versions <- MCVersions
  MaxSan = 1
  LongBytes = 2
  Asn1Get10 = FALSE
  LP64 = TRUE
  AllocMayFail = TRUE
  Algos <- RefAlgos
  BufLens <- RefBufLens
  DigestMayFail = TRUE
  Both = TRUE
SPECIFICATION SessSpec
\* both calls return: the TLS layer makes no further call
CHECK_DEADLOCK FALSE
INVARIANT PeerRefsDropped
