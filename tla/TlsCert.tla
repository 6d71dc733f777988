------------------------------ MODULE TlsCert ------------------------------
(***************************************************************************)
(* tls_get_peer_cert() of src/usual/tls/tls_cert.c, one step per call it   *)
(* makes: the checks and calloc() of the result, one name attribute of the *)
(* subject or issuer, the setup of the subjectAltName array, one entry of  *)
(* the subjectAltName loop, each validity time, the serial, the failed:    *)
(* label that frees a partial result, and the caller's tls_cert_free() of  *)
(* a returned one.  heap records every block the call owns, so that leaks  *)
(* are visible; err every message passed to tls_set_error().               *)
(***************************************************************************)
EXTENDS TlsX509

CONSTANT AllocMayFail  \* TRUE: any malloc()/calloc()/strdup() may return NULL
ASSUME AllocMayFail \in BOOLEAN

VARIABLES
  sess,      \* the session the call is made on; never changes
  pc,        \* the step the call is at
  attr,      \* index into Attrs of the attribute tls_get_entity() reads next
  sanIdx,    \* loop index i of tls_cert_get_altnames()
  rv,        \* rv of tls_cert_get_altnames()
  ret,       \* ret of tls_get_peer_cert()
  cert,      \* the struct tls_cert_info, NULL until calloc()
  returned,  \* *cert_p was set to cert
  heap,      \* blocks allocated and not yet freed, "peer" the X509 reference
  err,       \* the messages tls_set_error() was called with, in order
  oom        \* history: an allocation has failed

vars == <<sess, pc, attr, sanIdx, rv, ret, cert, returned, heap, err, oom>>

AttrSet      == Range(Attrs)
AllocResults == IF AllocMayFail THEN BOOLEAN ELSE {TRUE}
NextEntity   == [subject |-> "issuer", issuer |-> "altnames"]
NextTime     == [not_before |-> "not_after", not_after |-> "serial"]

\* Heap blocks, all of one shape so that sets of them compare.
Block(kind)      == <<kind, "", 0>>
EntityBlock(e, a) == <<e, a, 0>>
SlotBlock(i)     == <<"san", "", i>>

NewCert(version) ==
  [version |-> version,
   subject |-> [a \in AttrSet |-> NULL], issuer |-> [a \in AttrSet |-> NULL],
   san |-> NULL, count |-> 0,
   not_before |-> NULL, not_after |-> NULL, serial |-> NULL]

\* A plausible bug: only -1 taken for failure, which misses the -2 that
\* tls_cert_get_name_string() returns for a NUL byte.
Proceed_ignore_corrupt(r) == r /= -1

\* tls_get_entity() and tls_get_peer_cert() make the next call while ret == 0.
Proceed(r) == r = 0

\* A plausible bug: the loop bound "i <= count".
MoreEntries_overrun(i, n) == i <= n

\* The loop of tls_cert_get_altnames() goes on after entry i of n (1-based).
MoreEntries(i, n) == i < n

-----------------------------------------------------------------------------
(* The decoders, as functions from their inputs to what they return.       *)

\* held: res is still allocated when the function returns.
NameResult(r, str, e, o, held) == [ret |-> r, str |-> str, err |-> e, oom |-> o, held |-> held]

\* A plausible bug: the free(res) of the NUL path left out.
tls_cert_get_name_string_keep_nul(dn, a, ok) ==
  IF dn[a] = NULL THEN NameResult(0, NULL, <<>>, FALSE, FALSE)
  ELSE IF ~ok THEN NameResult(-1, NULL, <<"NoMem">>, TRUE, FALSE)
  ELSE IF HasNul(dn[a]) THEN NameResult(-2, NULL, <<"CorruptValue">>, FALSE, TRUE)
  ELSE NameResult(0, dn[a], <<>>, FALSE, TRUE)

\* res is calloc()ed once the length is known; a NUL in it frees it again.
tls_cert_get_name_string(dn, a, ok) ==
  IF dn[a] = NULL THEN NameResult(0, NULL, <<>>, FALSE, FALSE)
  ELSE IF ~ok THEN NameResult(-1, NULL, <<"NoMem">>, TRUE, FALSE)
  ELSE IF HasNul(dn[a]) THEN NameResult(-2, NULL, <<"CorruptValue">>, FALSE, FALSE)
  ELSE NameResult(0, dn[a], <<>>, FALSE, TRUE)

\* What an alt-name loader returns: rv, the updated cert, its messages,
\* the blocks it allocated, whether an allocation failed.
Loaded(r, c, e, new, o) == [rv |-> r, cert |-> c, err |-> e, new |-> new, oom |-> o]

\* A plausible bug: the single-space check left out.
tls_load_alt_ia5string_allow_space(c, g, ok) ==
  LET slot == c.count + 1 IN
  IF g.format /= "IA5" THEN Loaded(0, c, <<>>, {}, FALSE)
  ELSE IF Len(g.data) <= 0 \/ HasNul(g.data)
       THEN Loaded(-1, c, <<"InvalidAltName">>, {}, FALSE)
  ELSE IF ~ok THEN Loaded(-1, c, <<"NoMem">>, {}, TRUE)
  ELSE Loaded(0, [c EXCEPT !.san[slot] = [type |-> g.type, name |-> Strdup(g.data)],
                           !.count = slot], <<>>, {SlotBlock(slot)}, FALSE)

tls_load_alt_ia5string(c, g, ok) ==
  LET slot == c.count + 1 IN
  IF g.format /= "IA5" THEN Loaded(0, c, <<>>, {}, FALSE)
  ELSE IF Len(g.data) <= 0 \/ HasNul(g.data)
       THEN Loaded(-1, c, <<"InvalidAltName">>, {}, FALSE)
  ELSE IF Len(g.data) = 1 /\ g.data[1] = " "
       THEN Loaded(-1, c, <<"InvalidAltName">>, {}, FALSE)
  ELSE IF ~ok THEN Loaded(-1, c, <<"NoMem">>, {}, TRUE)
  ELSE Loaded(0, [c EXCEPT !.san[slot] = [type |-> g.type, name |-> Strdup(g.data)],
                           !.count = slot], <<>>, {SlotBlock(slot)}, FALSE)

\* A plausible bug: the count bumped before malloc() is known to succeed.
tls_load_alt_ipaddr_count_early(c, g, ok) ==
  LET slot == c.count + 1
      len  == Len(g.data)
  IN  IF len /= 4 /\ len /= 16 THEN Loaded(-1, c, <<"InvalidAltName">>, {}, FALSE)
      ELSE IF ~ok THEN Loaded(-1, [c EXCEPT !.count = slot], <<"NoMem">>, {}, TRUE)
      ELSE Loaded(0, [c EXCEPT !.san[slot] = [type |-> IF len = 4 THEN "IPv4" ELSE "IPv6",
                                              name |-> g.data],
                               !.count = slot], <<>>, {SlotBlock(slot)}, FALSE)

tls_load_alt_ipaddr(c, g, ok) ==
  LET slot == c.count + 1
      len  == Len(g.data)
  IN  IF len /= 4 /\ len /= 16 THEN Loaded(-1, c, <<"InvalidAltName">>, {}, FALSE)
      ELSE IF ~ok THEN Loaded(-1, c, <<"NoMem">>, {}, TRUE)
      ELSE Loaded(0, [c EXCEPT !.san[slot] = [type |-> IF len = 4 THEN "IPv4" ELSE "IPv6",
                                              name |-> g.data],
                               !.count = slot], <<>>, {SlotBlock(slot)}, FALSE)

\* The dispatch on altname->type; an unknown type leaves rv as it was.
LoadAltName(c, g, ok) ==
  CASE g.type \in IA5Types -> tls_load_alt_ia5string(c, g, ok)
    [] g.type = "IPADD"    -> tls_load_alt_ipaddr(c, g, ok)
    [] OTHER               -> Loaded(rv, c, <<>>, {}, FALSE)

\* The blocks tls_cert_free_entity() frees.
tls_cert_free_entity(c, ent) == {EntityBlock(ent, a) : a \in {x \in AttrSet : c[ent][x] /= NULL}}

\* A plausible bug: the last alt-name slot not freed (loop bound off by one).
tls_cert_free_skip_last(c) ==
  IF c = NULL THEN {}
  ELSE tls_cert_free_entity(c, "issuer") \cup tls_cert_free_entity(c, "subject")
         \cup {SlotBlock(i) : i \in 1..(c.count - 1)}
         \cup (IF c.san /= NULL THEN {Block("san_array")} ELSE {})
         \cup {Block(f) : f \in {g \in {"serial", "not_before", "not_after"} : c[g] /= NULL}}
         \cup {Block("cert")}

\* The blocks tls_cert_free() (with tls_cert_free_entity()) frees.
tls_cert_free(c) ==
  IF c = NULL THEN {}
  ELSE tls_cert_free_entity(c, "issuer") \cup tls_cert_free_entity(c, "subject")
         \cup {SlotBlock(i) : i \in 1..c.count}
         \cup (IF c.san /= NULL THEN {Block("san_array")} ELSE {})
         \cup {Block(f) : f \in {g \in {"serial", "not_before", "not_after"} : c[g] /= NULL}}
         \cup {Block("cert")}

-----------------------------------------------------------------------------
(* The steps of tls_get_peer_cert().                                       *)

Init ==
  /\ sess \in Sessions
  /\ pc = "start"
  /\ attr = 1 /\ sanIdx = 1 /\ rv = -1 /\ ret = -1
  /\ cert = NULL /\ returned = FALSE
  /\ heap = {} /\ err = <<>> /\ oom = FALSE

\* A return before the result is allocated; h is the heap afterwards.
EarlyReturn(e, h) ==
  /\ err' = Append(err, e) /\ ret' = -1 /\ heap' = h /\ pc' = "done"
  /\ UNCHANGED <<attr, sanIdx, rv, cert, returned, oom>>

\* The checks on the session and certificate, and calloc() of the result.
\* SSL_get_peer_certificate() takes a reference on the X509 ("peer").
GetPeerCert ==
  /\ pc = "start"
  /\ \/ ~sess.conn /\ EarlyReturn("NotConnected", heap)
     \/ sess.conn /\ sess.peer = NULL /\ EarlyReturn("NoPeerCertificate", heap)
     \/ /\ sess.conn /\ sess.peer /= NULL
        /\ LET p    == sess.peer
               held == heap \cup {Block("peer")}
           IN  \/ p.version < 0 /\ EarlyReturn("InvalidVersion", held)
               \/ /\ p.version >= 0 /\ (p.subject = NULL \/ p.issuer = NULL)
                  /\ EarlyReturn("MissingIdentity", held)
               \/ /\ p.version >= 0 /\ p.subject /= NULL /\ p.issuer /= NULL
                  /\ \E ok \in AllocResults :
                       IF ok
                       THEN /\ cert' = NewCert(p.version)
                            /\ heap' = held \cup {Block("cert")}
                            /\ pc' = "subject"
                            /\ UNCHANGED <<attr, sanIdx, rv, ret, returned, err, oom>>
                       ELSE /\ err' = Append(err, "NoMem") /\ oom' = TRUE
                            /\ heap' = held /\ pc' = "failed"
                            /\ UNCHANGED <<attr, sanIdx, rv, ret, cert, returned>>
  /\ UNCHANGED sess

\* One tls_cert_get_name_string() call of tls_get_entity() on the subject
\* or the issuer; a non-zero ret ends the chain and goes to failed:.
GetEntity ==
  /\ pc \in {"subject", "issuer"}
  /\ \E ok \in AllocResults :
       LET a == Attrs[attr]
           r == tls_cert_get_name_string(sess.peer[pc], a, ok)
       IN  /\ cert' = [cert EXCEPT ![pc][a] = r.str]
           /\ heap' = IF r.held THEN heap \cup {EntityBlock(pc, a)} ELSE heap
           /\ err' = err \o r.err
           /\ oom' = (oom \/ r.oom)
           /\ ret' = r.ret
           /\ IF Proceed(r.ret) /\ attr < Len(Attrs)
              THEN attr' = attr + 1 /\ pc' = pc
              ELSE attr' = 1 /\ pc' = IF Proceed(r.ret) THEN NextEntity[pc] ELSE "failed"
  /\ UNCHANGED <<sess, sanIdx, rv, returned>>

\* tls_cert_get_altnames() up to its loop: no extension or an empty one
\* returns 0; otherwise the slot array is calloc()ed for every entry.
GetAltNames ==
  /\ pc = "altnames"
  /\ LET stack == X509_get_ext_d2i(sess.peer.san) IN
     \/ /\ IF stack = NULL THEN TRUE ELSE Len(stack) = 0
        /\ ret' = 0 /\ pc' = "not_before"
        /\ UNCHANGED <<cert, heap, err, oom, sanIdx, rv>>
     \/ /\ IF stack = NULL THEN FALSE ELSE Len(stack) > 0
        /\ \E ok \in AllocResults :
             IF ok
             THEN /\ cert' = [cert EXCEPT !.san = [i \in 1..Len(stack) |-> NULL]]
                  /\ heap' = heap \cup {Block("san_array"), Block("altname_stack")}
                  /\ sanIdx' = 1 /\ rv' = -1 /\ pc' = "san"
                  /\ UNCHANGED <<err, oom, ret>>
             ELSE /\ err' = Append(err, "NoMem") /\ oom' = TRUE
                  /\ ret' = -1 /\ pc' = "failed"
                  /\ UNCHANGED <<cert, heap, sanIdx, rv>>
  /\ UNCHANGED <<sess, attr, returned>>

\* One iteration of the loop over the general names; rv < 0 leaves it
\* through out:, which frees the decoded stack, as does the normal end.
AltNameEntry ==
  /\ pc = "san"
  /\ \E ok \in AllocResults :
       LET stack == X509_get_ext_d2i(sess.peer.san)
           r     == LoadAltName(cert, stack[sanIdx], ok)
       IN  /\ cert' = r.cert
           /\ err' = err \o r.err
           /\ oom' = (oom \/ r.oom)
           /\ IF r.rv < 0
              THEN /\ heap' = (heap \cup r.new) \ {Block("altname_stack")}
                   /\ rv' = r.rv /\ ret' = r.rv /\ pc' = "failed"
                   /\ UNCHANGED sanIdx
              ELSE IF ~MoreEntries(sanIdx, Len(stack))
              THEN /\ heap' = (heap \cup r.new) \ {Block("altname_stack")}
                   /\ rv' = 0 /\ ret' = 0 /\ pc' = "not_before"
                   /\ UNCHANGED sanIdx
              ELSE /\ heap' = heap \cup r.new
                   /\ rv' = r.rv /\ sanIdx' = sanIdx + 1
                   /\ UNCHANGED <<ret, pc>>
  /\ UNCHANGED <<sess, attr, returned>>

\* tls_parse_time() of notBefore, then of notAfter.
ParseTime ==
  /\ pc \in {"not_before", "not_after"}
  /\ \E mem \in [bio : AllocResults, out : AllocResults] :
       LET r == tls_parse_time(sess.peer[pc], mem) IN
       IF r.ok
       THEN /\ cert' = [cert EXCEPT ![pc] = r.str]
            /\ heap' = heap \cup {Block(pc)}
            /\ ret' = 0 /\ pc' = NextTime[pc]
            /\ UNCHANGED <<err, oom>>
       ELSE /\ err' = Append(err, r.err)
            /\ oom' = (oom \/ (r.err = "NoMem" /\ sess.peer[pc].valid))
            /\ ret' = -1 /\ pc' = "failed"
            /\ UNCHANGED <<cert, heap>>
  /\ UNCHANGED <<sess, attr, sanIdx, rv, returned>>

\* tls_parse_bigint() of the serial; on success *cert_p = cert.
ParseSerial ==
  /\ pc = "serial"
  /\ \E mem \in AllocResults :
       LET r == tls_parse_bigint(sess.peer.serial, mem) IN
       IF r.ok
       THEN /\ cert' = [cert EXCEPT !.serial = r.str]
            /\ heap' = heap \cup {Block("serial")}
            /\ ret' = 0 /\ returned' = TRUE /\ pc' = "done"
            /\ UNCHANGED <<err, oom>>
       ELSE /\ err' = Append(err, r.err) /\ oom' = TRUE
            /\ ret' = -1 /\ pc' = "failed"
            /\ UNCHANGED <<cert, heap, returned>>
  /\ UNCHANGED <<sess, attr, sanIdx, rv>>

\* failed: tls_cert_free() of the partial result.
Failed ==
  /\ pc = "failed"
  /\ heap' = heap \ tls_cert_free(cert)
  /\ pc' = "done"
  /\ UNCHANGED <<sess, attr, sanIdx, rv, ret, cert, returned, err, oom>>

\* The caller releases a returned certificate with tls_cert_free().
ReleaseCert ==
  /\ pc = "done" /\ returned
  /\ heap' = heap \ tls_cert_free(cert)
  /\ pc' = "released"
  /\ UNCHANGED <<sess, attr, sanIdx, rv, ret, cert, returned, err, oom>>

Next ==
  \/ GetPeerCert \/ GetEntity \/ GetAltNames \/ AltNameEntry
  \/ ParseTime \/ ParseSerial \/ Failed \/ ReleaseCert

Spec == Init /\ [][Next]_vars


\* The call has returned (and the caller may have released the result).
Finished == pc \in {"done", "released"}

-----------------------------------------------------------------------------
(* Properties.                                                             *)

\* No subjectAltName extension of a checked session has more entries.
MaxSlots == Max({Len(l) : l \in SanLists \ {NULL, BadExt}} \cup {0})

Blocks ==
  {Block(k) : k \in {"peer", "cert", "san_array", "altname_stack",
                     "not_before", "not_after", "serial"}}
    \cup {EntityBlock(e, a) : e \in {"subject", "issuer"}, a \in AttrSet}
    \cup {SlotBlock(i) : i \in 1..MaxSlots}

ErrorKinds ==
  {"NotConnected", "NoPeerCertificate", "InvalidVersion", "MissingIdentity",
   "NoMem", "CorruptValue", "InvalidAltName", "InvalidTime", "SerialDecodeFailed"}

TypeOK ==
  /\ sess \in Sessions
  /\ pc \in {"start", "subject", "issuer", "altnames", "san", "not_before",
             "not_after", "serial", "failed", "done", "released"}
  /\ attr \in 1..Len(Attrs)
  /\ sanIdx \in 1..MaxSlots \cup {1}
  /\ pc = "san" => sanIdx \in DOMAIN cert.san
  /\ rv \in {-1, 0} /\ ret \in {-2, -1, 0}
  /\ cert = NULL \/ (cert.count \in Nat /\ cert.version \in Versions)
  /\ returned \in BOOLEAN /\ oom \in BOOLEAN
  /\ heap \subseteq Blocks
  /\ err \in Seq(ErrorKinds)

(***************************************************************************)
(* NoLeak: once tls_get_peer_cert() has failed, nothing it allocated is    *)
(* still allocated (spec 3: "no partial object", 8: allocation-count      *)
(* round trip), and once the caller has freed a returned certificate with *)
(* tls_cert_free(), nothing is either.  The X509 reference is left out    *)
(* here; PeerRefsDropped (TlsSession) is about it.  Breaking this takes a failure after   *)
(* some fields, entities or alt-name slots were filled.                   *)
(***************************************************************************)
NoLeak ==
  (pc = "released" \/ (pc = "done" /\ ~returned)) => heap \subseteq {Block("peer")}

(***************************************************************************)
(* SlotsFilled: subject_alt_name_count always equals the number of filled *)
(* slots of subject_alt_names, the filled slots are exactly the first      *)
(* count ones, and the count never passes the array, across any mix of     *)
(* skipped, accepted and rejected entries (spec 4.1: "the count of entries *)
(* ... must always match the number of successfully appended items").      *)
(***************************************************************************)
SlotsFilled ==
  (cert /= NULL /\ cert.san /= NULL) =>
    /\ cert.count <= Len(cert.san)
    /\ \A i \in 1..Len(cert.san) : (cert.san[i] /= NULL) <=> (i <= cert.count)

(***************************************************************************)
(* ErrorOnce: tls_set_error() is called at most once per call, so the      *)
(* message the caller reads is the first failure's (spec 7: "first        *)
(* failure wins"), and never on a call that returns a certificate.  The    *)
(* chained "if (ret == 0)" calls of tls_get_entity() and                   *)
(* tls_get_peer_cert() are what guarantee it.                              *)
(***************************************************************************)
ErrorOnce ==
  /\ Len(err) <= 1
  /\ returned => err = <<>>

(***************************************************************************)
(* Refinement: tls_get_peer_cert() implements TlsCertSpec.  A returned     *)
(* certificate is one that passes every validity rule (no NUL in a name,   *)
(* no empty, NUL-carrying or single-space IA5 alt name, IP addresses of 4  *)
(* or 16 bytes, readable times), and what it holds is that certificate's   *)
(* information: the attributes, the kept alt names in their order with     *)
(* their types, the ISO 8601 times and the decimal serial.                 *)
(***************************************************************************)
CertInfo ==
  [version    |-> cert.version,
   subject    |-> cert.subject,
   issuer     |-> cert.issuer,
   alt_names  |-> IF cert.san = NULL THEN <<>>
                  ELSE [i \in 1..cert.count |-> cert.san[i]],
   not_before |-> cert.not_before,
   not_after  |-> cert.not_after,
   serial     |-> cert.serial]

AbsResult ==
  IF ~Finished THEN [st |-> "pending"]
  ELSE IF returned THEN [st |-> "ok", info |-> CertInfo]
  ELSE [st |-> "rejected"]

Abstract == INSTANCE TlsCertSpec WITH result <- AbsResult

Refines == Abstract!Spec

(***************************************************************************)
(* ValidAccepted: a certificate that satisfies every rule of the spec is   *)
(* returned unless an allocation failed (spec 4.1: other GeneralName types *)
(* are "silently skipped - not an error").                                 *)
(***************************************************************************)
ValidAccepted ==
  (Finished /\ Abstract!Valid(sess) /\ ~oom) => returned
=============================================================================
