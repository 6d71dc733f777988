---------------------------- MODULE TlsCertSpec ----------------------------
(***************************************************************************)
(* What tls_get_peer_cert() promises its caller (spec sections 3, 4.1, 7): *)
(* in one step, either the certificate is rejected, or the caller gets the *)
(* CertificateInfo of a certificate that satisfies every validity rule.    *)
(* A rejection is always allowed, because any allocation may fail; that    *)
(* valid certificates are accepted is checked separately.                  *)
(***************************************************************************)
EXTENDS TlsX509

VARIABLES sess, result
vars == <<sess, result>>

Pending  == [st |-> "pending"]
Rejected == [st |-> "rejected"]
Accepted(info) == [st |-> "ok", info |-> info]

NameOk(dn) ==
  dn /= NULL /\ \A a \in DOMAIN dn : dn[a] /= NULL => ~HasNul(dn[a])

\* The general names that end up in alt_names: IA5 strings and IP addresses.
Kept(g) == (g.type \in IA5Types /\ g.format = "IA5") \/ g.type = "IPADD"

AltNameOk(g) ==
  /\ (g.type \in IA5Types /\ g.format = "IA5") =>
        /\ Len(g.data) > 0 /\ ~HasNul(g.data)
        /\ g.data /= <<" ">>
  /\ g.type = "IPADD" => Len(g.data) \in {4, 16}

AltNameOf(g) ==
  [type |-> IF g.type /= "IPADD" THEN g.type
            ELSE IF Len(g.data) = 4 THEN "IPv4" ELSE "IPv6",
   name |-> g.data]

AltNames(c) ==
  IF c.san = NULL THEN <<>>
  ELSE LET kept == SelectSeq(c.san, Kept)
       IN  [i \in 1..Len(kept) |-> AltNameOf(kept[i])]

Valid(s) ==
  /\ s.conn /\ s.peer /= NULL
  /\ s.peer.version >= 0
  /\ NameOk(s.peer.subject) /\ NameOk(s.peer.issuer)
  /\ s.peer.san /= BadExt
  /\ s.peer.san /= NULL =>
        \A i \in 1..Len(s.peer.san) : AltNameOk(s.peer.san[i])
  /\ s.peer.not_before.valid /\ s.peer.not_after.valid

Info(c) ==
  [version    |-> c.version,
   subject    |-> c.subject,
   issuer     |-> c.issuer,
   alt_names  |-> AltNames(c),
   not_before |-> IsoTime(c.not_before),
   not_after  |-> IsoTime(c.not_after),
   serial     |-> SerialString(c.serial)]

Init == sess \in Sessions /\ result = Pending

Extract ==
  /\ result = Pending
  /\ result' \in {Rejected}
                 \cup (IF Valid(sess) THEN {Accepted(Info(sess.peer))} ELSE {})
  /\ UNCHANGED sess

Spec == Init /\ [][Extract]_vars
=============================================================================
