\* One call, tls_get_peer_cert() or tls_get_peer_cert_fingerprint(), on every session over the sets of MCTlsCert (OpenSSL 1.1+); allocations and digests may fail.
CONSTANTS
  NULL = NULL
  BadExt = BadExt
  PeerCert = PeerCert
  Attrs <- MCAttrs
  DNs <- MCDNs
  SanLists <- MCSanLists
  Times <- MCTimes
  Serials <- MCSerials
  Versions <- MCVersions
  MaxSan = 2
  LongBytes = 2
  Asn1Get10 = FALSE
  LP64 = TRUE
  AllocMayFail = TRUE
  Algos <- MCAlgos
  BufLens <- MCBufLens
  DigestMayFail = TRUE
  Both = FALSE
SPECIFICATION OneCallSpec
\* the call returns: the TLS layer makes no further call
CHECK_DEADLOCK FALSE
INVARIANTS TypeOK NoLeak SlotsFilled ErrorOnce FingerprintOut ScratchWiped
PROPERTY Refines
