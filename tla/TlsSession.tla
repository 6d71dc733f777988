------------------------------ MODULE TlsSession ------------------------------
(***************************************************************************)
(* The two entry points of tls_cert.c that read the peer certificate of    *)
(* one session: tls_get_peer_cert() (TlsCert) and                          *)
(* tls_get_peer_cert_fingerprint() (TlsFingerprint), called one after the  *)
(* other, in either order, by the TLS layer holding ctx.  They share the   *)
(* session and the peer X509, on which each SSL_get_peer_certificate()     *)
(* takes a reference.  The fingerprint component sees the certificate as   *)
(* the model value PeerCert: its digest does not depend on the fields.     *)
(* With Both FALSE the TLS layer makes only the call chosen first.         *)
(***************************************************************************)
EXTENDS TlsCert

CONSTANTS
  PeerCert,      \* the peer X509 as the fingerprint component names it
  Algos, BufLens, DigestMayFail,  \* as in TlsFingerprint
  Both           \* the TLS layer makes the second call too

VARIABLES
  first,         \* the call the TLS layer makes first: "cert" or "fp"
  fpSess,        \* ctx->ssl_conn and its peer, as the fingerprint call sees them
  fpAlgo, fpBuflen, fpOutp, fpPc, fpMd, fpTmpbuf, fpTmplen, fpBuf,
  fpOverrun, fpOutlen, fpRet, fpErr, fpPeerHeld   \* TlsFingerprint's variables

fpVars == <<fpSess, fpAlgo, fpBuflen, fpOutp, fpPc, fpMd, fpTmpbuf, fpTmplen, fpBuf,
            fpOverrun, fpOutlen, fpRet, fpErr, fpPeerHeld>>

\* The session of tls_get_peer_cert(), as tls_get_peer_cert_fingerprint() sees it.
SameSession(s) == [conn |-> s.conn, peer |-> IF s.peer = NULL THEN NULL ELSE PeerCert]

Fp == INSTANCE TlsFingerprint
        WITH sess <- fpSess, Certs <- {PeerCert},
             algo <- fpAlgo, buflen <- fpBuflen, outp <- fpOutp, pc <- fpPc,
             md <- fpMd, tmpbuf <- fpTmpbuf, tmplen <- fpTmplen, buf <- fpBuf,
             overrun <- fpOverrun, outlen <- fpOutlen, ret <- fpRet,
             err <- fpErr, peerHeld <- fpPeerHeld

CertReturned == Finished
FpReturned   == fpPc = "done"

-----------------------------------------------------------------------------
SessInit == Init /\ Fp!Init /\ fpSess = SameSession(sess) /\ first \in {"cert", "fp"}

\* A step of tls_get_peer_cert(), before the fingerprint call or after it.
CertStep ==
  /\ first = "cert" \/ (Both /\ FpReturned)
  /\ Next
  /\ UNCHANGED <<first, fpVars>>

\* A step of tls_get_peer_cert_fingerprint(), likewise.
FpStep ==
  /\ first = "fp" \/ (Both /\ CertReturned)
  /\ Fp!Next
  /\ UNCHANGED <<first, vars>>

SessNext == CertStep \/ FpStep

SessSpec == SessInit /\ [][SessNext]_<<first, vars, fpVars>>

-----------------------------------------------------------------------------
\* References on the peer X509 that the library holds, beyond the session's.
PeerRefs == (IF Block("peer") \in heap THEN 1 ELSE 0) + (IF fpPeerHeld THEN 1 ELSE 0)

(***************************************************************************)
(* PeerRefsDropped: once both calls have returned, the library holds no    *)
(* reference on the peer certificate (spec 5: the core retains no          *)
(* reference after returning), so the X509's count is back to the          *)
(* session's own.  Each call's SSL_get_peer_certificate() must be matched  *)
(* by an X509_free() on every path out of it, whichever call comes first.  *)
(***************************************************************************)
PeerRefsDropped == (CertReturned /\ FpReturned) => PeerRefs = 0

(***************************************************************************)
(* FingerprintOut and ScratchWiped (TlsFingerprint, spec 4.2) of the       *)
(* fingerprint call of the session: the clamped copy into the caller's     *)
(* buffer and *outlen, and the wipe of the scratch digest, whichever call  *)
(* came first.                                                             *)
(***************************************************************************)
FingerprintOut == Fp!FingerprintOut
ScratchWiped   == Fp!ScratchWiped
=============================================================================
