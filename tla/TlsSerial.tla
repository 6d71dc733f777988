----------------------------- MODULE TlsSerial -----------------------------
(***************************************************************************)
(* Serial number decoding, tls_parse_bigint() in src/usual/tls/tls_cert.c. *)
(* An ASN1_INTEGER is a sign and a big-endian magnitude.  The code asks    *)
(* ASN1_INTEGER_get() for a native long and formats it with "%lu" when it  *)
(* is non-negative; otherwise it converts through a BIGNUM with            *)
(* BN_bn2dec().  The correctness of that split rests on what               *)
(* ASN1_INTEGER_get() returns for integers wider than a long, which        *)
(* differs between OpenSSL releases: both are modelled.                    *)
(***************************************************************************)
EXTENDS CStrings

CONSTANTS
  LongBytes,  \* sizeof(long), scaled down so that TLC's integers hold it
  Asn1Get10,  \* TRUE: ASN1_INTEGER_get() of OpenSSL 1.0.x, FALSE: of 1.1+
  LP64        \* TRUE: long is wider than 32 bits (0xffffffffL is positive)

ASSUME LongBytes \in 1..3 /\ Asn1Get10 \in BOOLEAN /\ LP64 \in BOOLEAN

LongBits == 8 * LongBytes
LongMax  == 2^(LongBits - 1) - 1
LongMin  == -(2^(LongBits - 1))

Magnitude(int) == FoldLeft(LAMBDA acc, b : acc * 256 + b, 0, int.mag)
Value(int)     == IF int.neg THEN -Magnitude(int) ELSE Magnitude(int)

\* Two's-complement wrap-around of an integer into a long (what gcc does
\* with the signed overflow of "r <<= 8; r |= byte").
WrapLong(n) == ((n - LongMin) % 2^LongBits) + LongMin

(***************************************************************************)
(* Library behaviour.  OpenSSL 1.1+ returns -1 for an integer that does   *)
(* not fit a long.  OpenSSL 1.0.x returns 0xffffffffL for one longer than *)
(* sizeof(long) bytes: 2^32-1 where long has 64 bits, i.e. a half-width   *)
(* all-ones value, and -1 where long has 32 bits.                         *)
(***************************************************************************)
TooLongResult == IF LP64 THEN 2^(LongBits \div 2) - 1 ELSE -1

ASN1_INTEGER_get(int) ==
  IF Asn1Get10
  THEN IF Len(int.mag) > LongBytes THEN TooLongResult
       ELSE LET r == WrapLong(Magnitude(int))
            IN  IF int.neg THEN WrapLong(-r) ELSE r
  ELSE IF Len(int.mag) > LongBytes \/ Value(int) \notin LongMin..LongMax
       THEN -1 ELSE Value(int)

\* BN_bn2dec(ASN1_INTEGER_to_BN(int)): a minus sign for a negative value.
BnToDec(int) ==
  (IF int.neg /\ Magnitude(int) > 0 THEN <<"-">> ELSE <<>>)
    \o Decimal(Magnitude(int))

\* "%lu" of a long reinterprets it as unsigned.
UnsignedLong(n) == IF n < 0 THEN n + 2^LongBits ELSE n

-----------------------------------------------------------------------------
(***************************************************************************)
(* tls_parse_bigint(): mem is FALSE when strdup() (or the BIGNUM           *)
(* allocation on the slow path) fails; the result is then the error        *)
(* "cannot parse serial".                                                  *)
(***************************************************************************)

\* A plausible bug: the slow path taken only below -1, so that the error
\* value -1 of ASN1_INTEGER_get() is printed with "%lu".
tls_parse_bigint_skip_minus_one(int, mem) ==
  LET small == ASN1_INTEGER_get(int)
      str   == IF small < -1 THEN BnToDec(int) ELSE Decimal(UnsignedLong(small))
  IN  IF mem THEN [ok |-> TRUE, str |-> str]
             ELSE [ok |-> FALSE, err |-> "SerialDecodeFailed"]

tls_parse_bigint(int, mem) ==
  LET small == ASN1_INTEGER_get(int)
      str   == IF small < 0 THEN BnToDec(int) ELSE Decimal(UnsignedLong(small))
  IN  IF mem THEN [ok |-> TRUE, str |-> str]
             ELSE [ok |-> FALSE, err |-> "SerialDecodeFailed"]

\* Reference (spec 4.1): the serial as a pure decimal digit string of the
\* big-endian magnitude.
SerialString(int) == Decimal(Magnitude(int))
=============================================================================
