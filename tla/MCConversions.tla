---------------------------- MODULE MCConversions -----------------------------
(***************************************************************************)
(* One call of a conversion helper: a field decoder of tls_cert.c          *)
(* (tls_parse_bigint() on an ASN1_INTEGER, tls_parse_time() on an          *)
(* ASN1_TIME, with every outcome of their allocations), or an address      *)
(* helper of socket.c (sa2str(), the inet_ntop() and getpeereid()          *)
(* fallbacks, module SockAddr).  The first variables hold a decoder call,  *)
(* call and res an address call; the helper not called stays at rest.      *)
(***************************************************************************)
EXTENDS TlsSerial, TlsTime, FiniteSets

CONSTANTS
  MaxSerialBytes,       \* longest serial magnitude, in bytes
  SerialBytes,          \* byte values a magnitude is made of
  Signs,                \* signs a serial may carry: {FALSE} or BOOLEAN
  Years, Months, Days,  \* field values of the times checked
  Clocks,               \* <<hh, mm, ss>> triples
  Fracs,                \* printed fractional seconds, <<>> for none
  Sockaddrs, DstLens, Builds, Creds, UidBits   \* as in SockAddr

\* Values for the tuple-valued constants, chosen in the .cfg files.
BoundaryClocks == {<<0, 0, 0>>, <<23, 59, 59>>}
NoFrac         == {<<>>}

\* Magnitudes as OpenSSL's c2i keeps them: no leading zero byte, and <<0>>.
Serials ==
  {[neg |-> s, mag |-> m] :
     s \in Signs,
     m \in {<<0>>} \cup {q \in SeqOf(SerialBytes, MaxSerialBytes) :
                           Len(q) > 0 /\ q[1] /= 0}}

Times ==
  {[valid |-> v, year |-> y, mon |-> m, day |-> d,
    hh |-> c[1], mm |-> c[2], ss |-> c[3], frac |-> fr, gmt |-> g] :
     v \in BOOLEAN, y \in Years, m \in Months, d \in Days,
     c \in Clocks, fr \in Fracs, g \in BOOLEAN}

-----------------------------------------------------------------------------
(* Address helper arguments.                                               *)

Sa(f, a, p, path, n) == [family |-> f, addr |-> a, port |-> p, path |-> path, num |-> n]
NoAddr == <<>>
V6(last2) == [k \in 1..16 |-> IF k = 1 THEN 254 ELSE IF k = 2 THEN 128
                                ELSE IF k = 16 THEN last2 ELSE 0]

\* Loopback and a private IPv4 address, fe80::1 and fe80::ff, ports 80,
\* 8080 and 65535 (bytes in network order), a path and the empty path of
\* an unnamed socket, and a family sa2str() does not know (AF_PACKET, 17).
MCSockaddrs ==
  {Sa("AF_INET", a, p, <<NUL>>, 2) : a \in {<<127, 0, 0, 1>>, <<10, 0, 0, 255>>},
                                     p \in {<<0, 80>>, <<31, 144>>, <<255, 255>>}}
  \cup {Sa("AF_INET6", V6(b), p, <<NUL>>, 10) : b \in {1, 255}, p \in {<<0, 80>>, <<31, 144>>}}
  \cup {Sa("AF_UNIX", NoAddr, <<0, 0>>, path, 1) : path \in {<<"/", "s", NUL>>, <<NUL>>}}
  \cup {Sa("AF_PACKET", NoAddr, <<0, 0>>, <<NUL>>, 17)}

\* A negative dstlen, 0, 1, one that cuts every address short, and one
\* that holds every text.
MCDstLens == {-1, 0, 1, 12, 64}

\* The credential query fails, or reports root, a user, or (on the
\* getpeerucred() build) -1 from ucred_geteuid()/ucred_getegid().
MCCreds ==
  {[ok |-> FALSE, uid |-> 0, gid |-> 0, errno |-> "ENOTCONN"]}
    \cup {[ok |-> TRUE, uid |-> u, gid |-> g, errno |-> "none"] : u \in {0, 1000, -1}, g \in {0, -1}}
-----------------------------------------------------------------------------
VARIABLES field, arg, out, call, res
vars == <<field, arg, out, call, res>>

SA == INSTANCE SockAddr

Pending == [ok |-> FALSE, err |-> "pending"]
NoCall  == [op |-> "none"]

Init ==
  /\ \/ field = "serial" /\ arg \in Serials /\ call = NoCall /\ res = SA!Pending
     \/ field = "time" /\ arg \in Times /\ call = NoCall /\ res = SA!Pending
     \/ field = "addr" /\ arg = "none" /\ SA!Init
  /\ out = Pending

DecodeSerial ==
  /\ field = "serial" /\ out = Pending
  /\ \E mem \in BOOLEAN : out' = tls_parse_bigint(arg, mem)
  /\ UNCHANGED <<field, arg, call, res>>

DecodeTime ==
  /\ field = "time" /\ out = Pending
  /\ \E mem \in [bio : BOOLEAN, out : BOOLEAN] : out' = tls_parse_time(arg, mem)
  /\ UNCHANGED <<field, arg, call, res>>

AddrCall == SA!Next /\ UNCHANGED <<field, arg, out>>

Spec == Init /\ [][DecodeSerial \/ DecodeTime \/ AddrCall]_vars

(***************************************************************************)
(* SerialExact: whenever tls_parse_bigint() succeeds, its string is a pure *)
(* decimal digit string (no sign, no leading zero) whose value is the      *)
(* big-endian magnitude of the serial, on whichever of its two paths       *)
(* ("%lu" of ASN1_INTEGER_get(), or BN_bn2dec) the value went.             *)
(***************************************************************************)
SerialExact ==
  (field = "serial" /\ out.ok) =>
    /\ IsDecimalString(out.str)
    /\ ValueOfDecimal(out.str) = Magnitude(arg)

(***************************************************************************)
(* TimeDecoded: on a GMT time, tls_parse_time() fails only when the time   *)
(* is invalid or an allocation fails, and when it succeeds its string is   *)
(* the canonical YYYY-MM-DDTHH:MM:SSZ of the time, whether the day was     *)
(* printed space-padded ("Jan  1") or not.                                 *)
(***************************************************************************)
TimeDecoded ==
  (field = "time" /\ out /= Pending /\ arg.gmt) =>
    /\ out.ok \/ ~arg.valid \/ out.err = "NoMem"
    /\ out.ok => out.str = IsoTime(arg)

(***************************************************************************)
(* TimeZoneChecked (spec 4.1 and 8, and the tz test at tls_cert.c:103): a  *)
(* time whose zone is not GMT is rejected; tls_parse_time() never stamps   *)
(* it with the Z of UTC.                                                   *)
(***************************************************************************)
TimeZoneChecked == (field = "time" /\ out /= Pending /\ ~arg.gmt) => ~out.ok

(***************************************************************************)
(* AddrText and V6AddrText (SockAddr): the bounds of every address text,   *)
(* the IPv4, Unix and unknown-family texts read back; the IPv6 texts read  *)
(* back under inet_pton().                                                 *)
(***************************************************************************)
AddrText   == SA!AddrText
V6AddrText == SA!V6AddrText
=============================================================================
