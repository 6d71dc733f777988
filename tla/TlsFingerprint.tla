--------------------------- MODULE TlsFingerprint ---------------------------
(***************************************************************************)
(* tls_get_peer_cert_fingerprint() of src/usual/tls/tls_cert.c, one step  *)
(* per stage of the call: the session checks, the choice of digest by a    *)
(* case-insensitive name, X509_digest() into the stack buffer tmpbuf, and  *)
(* the truncating copy into the caller's buffer followed by the wipe.      *)
(* A byte is a pair <<origin, index>>, so that a digest byte left behind   *)
(* in tmpbuf, or one written past the caller's buffer, can be seen.        *)
(***************************************************************************)
EXTENDS Integers, Sequences, FiniteSetsExt, TLC

CONSTANTS
  NULL,          \* a NULL pointer: no session, no peer certificate
  Certs,         \* peer certificates, as model values
  Algos,         \* algorithm names the caller may pass, as sequences of characters
  BufLens,       \* values of buflen
  DigestMayFail  \* TRUE: X509_digest() may return 0 (an allocation in i2d failed)

ASSUME DigestMayFail \in BOOLEAN /\ BufLens \subseteq Nat

VARIABLES
  sess,      \* [conn, peer]: ctx->ssl_conn and its peer certificate
  algo,      \* the algo argument
  buflen,    \* the buflen argument
  outp,      \* outlen is not NULL
  pc,        \* the stage the call is at
  md,        \* the EVP_MD chosen
  tmpbuf,    \* unsigned char tmpbuf[EVP_MAX_MD_SIZE]
  tmplen,    \* unsigned int tmplen
  buf,       \* the caller's buffer, 1..buflen
  overrun,   \* indices past buflen that memcpy() wrote
  outlen,    \* *outlen, when outp
  ret,       \* the return value
  err,       \* messages passed to tls_set_error()
  peerHeld   \* the X509 reference of SSL_get_peer_certificate() is held

vars == <<sess, algo, buflen, outp, pc, md, tmpbuf, tmplen, buf, overrun,
          outlen, ret, err, peerHeld>>

EVP_MAX_MD_SIZE == 64
MdSize == [sha1 |-> 20, sha256 |-> 32]

Garbage       == <<"stack", 0>>   \* what tmpbuf holds before the call writes it
Zero          == <<"zero", 0>>
Old           == <<"old", 0>>     \* what the caller's buffer held
Digest(c, m)  == [i \in 1..MdSize[m] |-> <<m, i>>]

\* strcasecmp() == 0 on the characters the algorithm names are made of.
ToLowerChar == "S" :> "s" @@ "H" :> "h" @@ "A" :> "a" @@ "M" :> "m" @@ "D" :> "d"
Lower(s)    == [i \in DOMAIN s |-> IF s[i] \in DOMAIN ToLowerChar THEN ToLowerChar[s[i]] ELSE s[i]]
StrCaseEq(s, t) == Lower(s) = Lower(t)

SHA1   == <<"s", "h", "a", "1">>
SHA256 == <<"s", "h", "a", "2", "5", "6">>

Sessions == {[conn |-> FALSE, peer |-> NULL], [conn |-> TRUE, peer |-> NULL]}
              \cup [conn : {TRUE}, peer : Certs]

-----------------------------------------------------------------------------
Init ==
  /\ sess \in Sessions /\ algo \in Algos /\ buflen \in BufLens /\ outp \in BOOLEAN
  /\ pc = "start" /\ md = NULL
  /\ tmpbuf = [i \in 1..EVP_MAX_MD_SIZE |-> Garbage] /\ tmplen = 0
  /\ buf = [i \in 1..buflen |-> Old] /\ overrun = {}
  /\ outlen = NULL /\ ret = NULL /\ err = <<>> /\ peerHeld = FALSE

Fail(e) == ret' = -1 /\ err' = Append(err, e) /\ pc' = "done"

\* *outlen = 0; the session checks; SSL_get_peer_certificate().
Start ==
  /\ pc = "start"
  /\ outlen' = IF outp THEN 0 ELSE NULL
  /\ \/ ~sess.conn /\ Fail("NotConnected") /\ UNCHANGED peerHeld
     \/ sess.conn /\ sess.peer = NULL /\ Fail("NoPeerCertificate") /\ UNCHANGED peerHeld
     \/ /\ sess.conn /\ sess.peer /= NULL
        /\ peerHeld' = TRUE /\ pc' = "algo"
        /\ UNCHANGED <<ret, err>>
  /\ UNCHANGED <<sess, algo, buflen, outp, md, tmpbuf, tmplen, buf, overrun>>

\* The strcasecmp() chain that picks EVP_sha1() or EVP_sha256().
SelectMd ==
  /\ pc = "algo"
  /\ \/ StrCaseEq(algo, SHA1) /\ md' = "sha1" /\ pc' = "digest" /\ UNCHANGED <<ret, err>>
     \/ /\ ~StrCaseEq(algo, SHA1) /\ StrCaseEq(algo, SHA256)
        /\ md' = "sha256" /\ pc' = "digest" /\ UNCHANGED <<ret, err>>
     \/ /\ ~StrCaseEq(algo, SHA1) /\ ~StrCaseEq(algo, SHA256)
        /\ Fail("UnsupportedAlgorithm") /\ UNCHANGED md
  /\ UNCHANGED <<sess, algo, buflen, outp, tmpbuf, tmplen, buf, overrun, outlen, peerHeld>>

\* X509_digest(peer, md, tmpbuf, &tmplen); a failure writes nothing.
X509Digest ==
  /\ pc = "digest"
  /\ \/ LET d == Digest(sess.peer, md) IN
          /\ tmpbuf' = [i \in 1..EVP_MAX_MD_SIZE |-> IF i <= Len(d) THEN d[i] ELSE tmpbuf[i]]
          /\ tmplen' = Len(d) /\ pc' = "copy"
          /\ UNCHANGED <<ret, err>>
     \/ DigestMayFail /\ Fail("DigestFailed") /\ UNCHANGED <<tmpbuf, tmplen>>
  /\ UNCHANGED <<sess, algo, buflen, outp, md, buf, overrun, outlen, peerHeld>>

\* A plausible bug: the copy not clamped to buflen.
Clamp_missing(n, cap) == n

\* if (tmplen > buflen) tmplen = buflen;
Clamp(n, cap) == IF n > cap THEN cap ELSE n

\* A plausible bug: the wipe limited to the bytes copied out.
Wipe_copied(b, n) == [i \in DOMAIN b |-> IF i <= n THEN Zero ELSE b[i]]

\* explicit_bzero(tmpbuf, sizeof(tmpbuf))
Wipe(b, n) == [i \in DOMAIN b |-> Zero]

\* The clamp, memcpy(buf, tmpbuf, tmplen), the wipe and *outlen = tmplen.
CopyOut ==
  /\ pc = "copy"
  /\ LET n == Clamp(tmplen, buflen) IN
       /\ tmplen' = n
       /\ buf' = [i \in 1..buflen |-> IF i <= n THEN tmpbuf[i] ELSE buf[i]]
       /\ overrun' = {i \in 1..n : i > buflen}
       /\ tmpbuf' = Wipe(tmpbuf, n)
       /\ outlen' = IF outp THEN n ELSE NULL
  /\ ret' = 0 /\ pc' = "done"
  /\ UNCHANGED <<sess, algo, buflen, outp, md, err, peerHeld>>

Next == Start \/ SelectMd \/ X509Digest \/ CopyOut

Spec == Init /\ [][Next]_vars

-----------------------------------------------------------------------------
(***************************************************************************)
(* FingerprintOut (spec 4.2): a call returns 0 only when the session      *)
(* has a peer certificate and the name is "sha1" or "sha256" in any case;  *)
(* then *outlen is the smaller of the digest size and buflen, the buffer   *)
(* starts with that many digest bytes, no byte past buflen is written, and *)
(* on any return *outlen is not left with a stale count.                   *)
(***************************************************************************)
Wanted == IF StrCaseEq(algo, SHA1) THEN "sha1"
          ELSE IF StrCaseEq(algo, SHA256) THEN "sha256" ELSE NULL

FingerprintOut ==
  pc = "done" =>
    /\ overrun = {}
    /\ ret = 0 => /\ sess.peer /= NULL /\ Wanted /= NULL
                  /\ LET n == Min({MdSize[Wanted], buflen}) IN
                       /\ \A i \in 1..n : buf[i] = Digest(sess.peer, Wanted)[i]
                       /\ outp => outlen = n
    /\ ret /= 0 => (outp => outlen = 0)

(***************************************************************************)
(* ScratchWiped (spec 4.2): when the call returns, no byte of the digest   *)
(* is left in tmpbuf, whatever the length copied out.                      *)
(***************************************************************************)
ScratchWiped ==
  pc = "done" => \A i \in DOMAIN tmpbuf : tmpbuf[i] \in {Garbage, Zero}
=============================================================================
