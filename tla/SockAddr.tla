------------------------------ MODULE SockAddr ------------------------------
(***************************************************************************)
(* The address helpers of src/usual/socket.c: sa2str() (lines 157-188),    *)
(* the inet_ntop() fallback (226-249) it calls, and the getpeereid()       *)
(* fallback (196-221).  Each call is one step from a state in which the    *)
(* caller has chosen its arguments.  Text is a sequence of characters, as  *)
(* in CStrings; a result records the characters snprintf() wrote into the *)
(* caller's dst.  uid_t and gid_t are unsigned integers of UidBits bits.   *)
(***************************************************************************)
EXTENDS CStrings

CONSTANTS
  Sockaddrs,   \* [family, addr, port, path, num]: sockaddrs sa2str() may get
  DstLens,     \* values of the dstlen argument
  Builds,      \* "SO_PEERCRED", "GETPEERUCRED" or "NONE": the branch compiled
  Creds,       \* what the kernel's credential query may report
  UidBits      \* width of uid_t and gid_t

VARIABLES call, res
vars == <<call, res>>

Pending == [pending |-> TRUE]
HexChar == <<"0", "1", "2", "3", "4", "5", "6", "7", "8", "9",
             "a", "b", "c", "d", "e", "f">>

\* parts joined with sep between them
JoinWith(parts, sep) == FoldLeft(LAMBDA acc, x : acc \o sep \o x, parts[1], Tail(parts))

\* snprintf(dst, dstlen, ...) writing text s: dstlen is converted to size_t,
\* so a negative one is larger than any text; size 0 writes nothing, any
\* other size writes at most size - 1 characters and a NUL.  The result is
\* the characters written, from dst[0] on.
Snprintf(dstlen, s) ==
  IF dstlen = 0 THEN <<>>
  ELSE IF dstlen < 0 \/ Len(s) < dstlen THEN s \o <<NUL>>
  ELSE SubSeq(s, 1, dstlen - 1) \o <<NUL>>

\* The C string a buffer holds, up to its first NUL.
CStr(w) == Strdup(w)

-----------------------------------------------------------------------------
(* inet_ntop() fallback, lines 226-249.                                    *)

\* A plausible bug: "%x" for "%02x", dropping the leading zero.
Hex2_nopad(b) == IF b < 16 THEN <<HexChar[b + 1]>> ELSE <<HexChar[b \div 16 + 1], HexChar[(b % 16) + 1]>>

\* "%02x" of a byte
Hex2(b) == <<HexChar[b \div 16 + 1], HexChar[(b % 16) + 1]>>

\* [ok, w, errno]: w the characters snprintf() wrote into dst.
inet_ntop(af, p, dstlen) ==
  CASE dstlen < 0 -> [ok |-> FALSE, w |-> <<>>, errno |-> "EINVAL"]
    [] af = "AF_INET" ->
         [ok |-> TRUE, errno |-> "none",
          w |-> Snprintf(dstlen, JoinWith([k \in 1..4 |-> Decimal(p[k])], <<".">>))]
    [] af = "AF_INET6" ->
         [ok |-> TRUE, errno |-> "none",
          w |-> Snprintf(dstlen, JoinWith([k \in 1..16 |-> Hex2(p[k])], <<":">>))]
    [] OTHER -> [ok |-> FALSE, w |-> <<>>, errno |-> "EINVAL"]

-----------------------------------------------------------------------------
(* sa2str(), lines 157-188.                                                *)

\* A plausible bug: sin_port used in host order on a little-endian machine.
ntohs_missing(p) == p[2] * 256 + p[1]

\* ntohs() of sin_port, stored as its two bytes in network order.
ntohs(p) == p[1] * 256 + p[2]

UnixPrefix == <<"u", "n", "i", "x", ":">>
UnknownText(n) ==
  <<"s", "a", "2", "s", "t", "r", "(">> \o Decimal(n) \o
  <<")", ":", " ", "u", "n", "k", "n", "o", "w", "n", " ", "p", "r", "o", "t", "o">>

\* [ret, w]: ret "dst" or "NULL"; w what snprintf() wrote into dst.
\* inet_ntop() gets the 128-byte stack buffer.
sa2str(sa, dstlen) ==
  CASE sa.family \in {"AF_INET", "AF_INET6"} ->
         LET t == inet_ntop(sa.family, sa.addr, 128)
             sep == IF sa.family = "AF_INET" THEN <<":">> ELSE <<"/">>
         IN  IF ~t.ok THEN [ret |-> "NULL", w |-> <<>>]
             ELSE [ret |-> "dst", w |-> Snprintf(dstlen, CStr(t.w) \o sep \o Decimal(ntohs(sa.port)))]
    [] sa.family = "AF_UNIX" -> [ret |-> "dst", w |-> Snprintf(dstlen, UnixPrefix \o CStr(sa.path))]
    [] OTHER -> [ret |-> "dst", w |-> Snprintf(dstlen, UnknownText(sa.num))]

-----------------------------------------------------------------------------
(* getpeereid() fallback, lines 196-221.                                   *)

UidT(n) == n % 2^UidBits     \* conversion of an int to uid_t / gid_t

\* q is the query's outcome: [ok, uid, gid, errno]; on the getpeerucred()
\* build uid and gid are what ucred_geteuid()/ucred_getegid() return, -1
\* when they fail.  The result holds *uid_p and *gid_p, "unset" if unwritten.
getpeereid(build, q) ==
  CASE build = "SO_PEERCRED" ->
         IF q.ok THEN [ret |-> 0, uid |-> q.uid, gid |-> q.gid, errno |-> "none"]
         ELSE [ret |-> -1, uid |-> "unset", gid |-> "unset", errno |-> q.errno]
    [] build = "GETPEERUCRED" ->
         IF ~q.ok THEN [ret |-> -1, uid |-> "unset", gid |-> "unset", errno |-> q.errno]
         ELSE LET u == UidT(q.uid) g == UidT(q.gid) IN
              [ret |-> IF u >= 0 /\ g >= 0 THEN 0 ELSE -1, uid |-> u, gid |-> g,
               errno |-> "none"]
    [] OTHER -> [ret |-> -1, uid |-> "unset", gid |-> "unset", errno |-> "ENOSYS"]

-----------------------------------------------------------------------------
Init ==
  /\ call \in [op : {"sa2str"}, sa : Sockaddrs, dstlen : DstLens]
            \cup [op : {"inet_ntop"}, sa : Sockaddrs, dstlen : DstLens]
            \cup {c \in [op : {"getpeereid"}, build : Builds, q : Creds] :
                   \* only ucred_geteuid()/ucred_getegid() report -1
                   c.build /= "GETPEERUCRED" => c.q.uid >= 0 /\ c.q.gid >= 0}
  /\ res = Pending

Sa2str ==
  /\ res = Pending /\ call.op = "sa2str"
  /\ res' = sa2str(call.sa, call.dstlen)
  /\ UNCHANGED call

InetNtop ==
  /\ res = Pending /\ call.op = "inet_ntop"
  /\ res' = inet_ntop(call.sa.family, call.sa.addr, call.dstlen)
  /\ UNCHANGED call

Getpeereid ==
  /\ res = Pending /\ call.op = "getpeereid"
  /\ res' = getpeereid(call.build, call.q)
  /\ UNCHANGED call

Next == Sa2str \/ InetNtop \/ Getpeereid

Spec == Init /\ [][Next]_vars
-----------------------------------------------------------------------------
(* Reference: reading an address text back as inet_pton() does (RFC 4291 *)
(* section 2.2 text for AF_INET6, dotted decimal for AF_INET), and a port  *)
(* as a decimal number.  It is written from the standard, not from the     *)
(* fallback's format strings.                                              *)

RECURSIVE SplitOn(_, _)
SplitOn(s, c) ==
  LET k == SelectInSeq(s, LAMBDA x : x = c)
  IN  IF k = 0 THEN <<s>> ELSE <<SubSeq(s, 1, k - 1)>> \o SplitOn(SubSeq(s, k + 1, Len(s)), c)

HexUpper == <<"0", "1", "2", "3", "4", "5", "6", "7", "8", "9",
              "A", "B", "C", "D", "E", "F">>
IsHexDigit(c) == c \in Range(HexChar) \cup Range(HexUpper)
HexDigitValue(c) == CHOOSE v \in 0..15 : HexChar[v + 1] = c \/ HexUpper[v + 1] = c

\* The value of a group of one to four hex digits, -1 if g is not one.
GroupValue(g) ==
  IF Len(g) \in 1..4 /\ \A k \in 1..Len(g) : IsHexDigit(g[k])
  THEN FoldLeft(LAMBDA acc, c : 16 * acc + HexDigitValue(c), 0, g) ELSE -1

\* The values of the ':'-separated groups of s, none for the empty text.
GroupValues(s) ==
  IF s = <<>> THEN <<>>
  ELSE LET g == SplitOn(s, ":") IN [k \in 1..Len(g) |-> GroupValue(g[k])]

\* Eight 16-bit groups as the sixteen bytes of the address, high byte first.
GroupBytes(v) == [k \in 1..16 |-> IF k % 2 = 1 THEN v[(k + 1) \div 2] \div 256
                                                ELSE v[k \div 2] % 256]

\* inet_pton(AF_INET6): eight groups, or fewer on the two sides of one "::",
\* which stands for at least one zero group.  (The dotted IPv4 tail the
\* standard also allows is not read: no text checked here has a dot.)
ReadV6(s) ==
  LET dc == {j \in 1..(Len(s) - 1) : s[j] = ":" /\ s[j + 1] = ":"}
      ok(v) == \A k \in 1..Len(v) : v[k] >= 0
  IN  IF dc = {}
      THEN LET v == GroupValues(s) IN
           IF Len(v) = 8 /\ ok(v) THEN GroupBytes(v) ELSE <<>>
      ELSE IF Cardinality(dc) > 1 THEN <<>>
      ELSE LET j == CHOOSE x \in dc : TRUE
               l == GroupValues(SubSeq(s, 1, j - 1))
               r == GroupValues(SubSeq(s, j + 2, Len(s)))
           IN  IF Len(l) + Len(r) <= 7 /\ ok(l) /\ ok(r)
               THEN GroupBytes(l \o [k \in 1..(8 - Len(l) - Len(r)) |-> 0] \o r)
               ELSE <<>>

\* The address bytes a text denotes, <<>> if it is not one.
ReadAddr(af, s) ==
  IF af = "AF_INET"
  THEN LET f == SplitOn(s, ".") IN
       IF Len(f) = 4 /\ \A k \in 1..4 : IsDecimalString(f[k]) /\ ValueOfDecimal(f[k]) < 256
       THEN [k \in 1..4 |-> ValueOfDecimal(f[k])] ELSE <<>>
  ELSE ReadV6(s)

\* The port number of sin_port, whose bytes are in network order.
PortNumber(p) == 256 * p[1] + p[2]

\* Whether an sa2str() text denotes the sockaddr.
Denotes(sa, s) ==
  CASE sa.family \in {"AF_INET", "AF_INET6"} ->
         LET f == SplitOn(s, IF sa.family = "AF_INET" THEN ":" ELSE "/") IN
         /\ Len(f) = 2 /\ ReadAddr(sa.family, f[1]) = sa.addr
         /\ IsDecimalString(f[2]) /\ ValueOfDecimal(f[2]) = PortNumber(sa.port)
    [] sa.family = "AF_UNIX" ->
         Len(s) >= 5 /\ SubSeq(s, 1, 5) = UnixPrefix /\ SubSeq(s, 6, Len(s)) = CStr(sa.path)
    [] OTHER -> TRUE

\* A text written whole (dstlen > 0, not cut short): the call and its text.
Untruncated(s) ==
  /\ res /= Pending /\ call.op \in {"sa2str", "inet_ntop"} /\ call.dstlen > 0
  /\ IF call.op = "sa2str" THEN res.ret = "dst" ELSE res.ok
  /\ Len(s) < call.dstlen - 1

\* The text reads back as what it was made from.
ReadsBack(s) ==
  IF call.op = "sa2str" THEN Denotes(call.sa, s)
  ELSE ReadAddr(call.sa.family, s) = call.sa.addr

(***************************************************************************)
(* AddrText: for any dstlen > 0, inet_ntop() and sa2str() write at most    *)
(* dstlen characters into dst, a NUL among them, and an IPv4, Unix or      *)
(* unknown-family text that was not cut short reads back as the address,   *)
(* port and socket path it was made from: the byte order of sin_port, the *)
(* digits of each field and the separators all have to be right for that. *)
(***************************************************************************)
AddrText ==
  (res /= Pending /\ call.op \in {"sa2str", "inet_ntop"} /\ call.dstlen > 0
                  /\ (IF call.op = "sa2str" THEN res.ret = "dst" ELSE res.ok)) =>
    LET s == CStr(res.w) IN
    /\ Len(res.w) <= call.dstlen /\ Contains(res.w, NUL)
    /\ (Untruncated(s) /\ call.sa.family /= "AF_INET6") => ReadsBack(s)

(***************************************************************************)
(* V6AddrText: the inet_ntop() fallback stands in for POSIX inet_ntop(),   *)
(* whose AF_INET6 text is one inet_pton() reads back as the same address; *)
(* so must be the IPv6 text of inet_ntop() and of sa2str() when not cut    *)
(* short.                                                                  *)
(***************************************************************************)
V6AddrText ==
  LET s == IF res = Pending \/ call.op = "getpeereid" THEN <<>> ELSE CStr(res.w) IN
  (call.op /= "getpeereid" /\ Untruncated(s) /\ call.sa.family = "AF_INET6") => ReadsBack(s)
=============================================================================
