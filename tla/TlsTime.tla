------------------------------ MODULE TlsTime ------------------------------
(***************************************************************************)
(* Validity-time decoding, tls_parse_time() in src/usual/tls/tls_cert.c.   *)
(* The code has OpenSSL print the ASN1_TIME into a memory BIO              *)
(* ("Aug 18 20:51:52 2015 GMT"), patches a space-padded day, cuts the text *)
(* into fields with strsep() and rebuilds it as ISO 8601 with asprintf().  *)
(* The text is modelled character by character because the conversion is  *)
(* what the properties are about.                                          *)
(***************************************************************************)
EXTENDS CStrings

(***************************************************************************)
(* An ASN1_TIME as its fields: valid is FALSE when OpenSSL cannot read it  *)
(* (ASN1_TIME_print() then fails), frac holds printed fractional seconds   *)
(* of a GeneralizedTime (with their dot), gmt whether it ends in 'Z'.      *)
(***************************************************************************)
MonthText ==
  << <<"J","a","n">>, <<"F","e","b">>, <<"M","a","r">>, <<"A","p","r">>,
     <<"M","a","y">>, <<"J","u","n">>, <<"J","u","l">>, <<"A","u","g">>,
     <<"S","e","p">>, <<"O","c","t">>, <<"N","o","v">>, <<"D","e","c">> >>

\* Library behaviour: ASN1_TIME_print(), format "%s %2d %02d:%02d:%02d%.*s %d%s".
ASN1_TIME_print(t) ==
  MonthText[t.mon] \o <<" ">> \o SpacePad2(t.day) \o <<" ">>
    \o ZeroPad2(t.hh) \o <<":">> \o ZeroPad2(t.mm) \o <<":">> \o ZeroPad2(t.ss)
    \o t.frac \o <<" ">> \o Decimal(t.year)
    \o (IF t.gmt THEN <<" ", "G", "M", "T">> ELSE <<>>)

-----------------------------------------------------------------------------
\* The code's own table of month abbreviations.
months == MonthText

TimeError(e)  == [ok |-> FALSE, err |-> e]
TimeResult(s) == [ok |-> TRUE, str |-> s]

\* A plausible bug: the "Jan  1" patch looking one character too early.
PadDay_early(buf) ==
  IF Len(buf) >= 4 /\ buf[3] = " " /\ buf[4] = " "
  THEN [buf EXCEPT ![4] = "0"] ELSE buf

\* "Jan  1" -> "Jan 01": buf[3] and buf[4] of the C code, 1-based here.
PadDay(buf) ==
  IF Len(buf) >= 5 /\ buf[4] = " " /\ buf[5] = " "
  THEN [buf EXCEPT ![5] = "0"] ELSE buf

(***************************************************************************)
(* tls_parse_time(): mem.bio is FALSE when BIO_new() fails, mem.out when   *)
(* asprintf() does.  A time OpenSSL cannot print goes to the same "no mem" *)
(* exit as BIO_new().  strsep() is called five times: fewer than four      *)
(* fields means no year, more than five leaves tmp non-NULL.               *)
(***************************************************************************)
tls_parse_time(t, mem) ==
  LET buf  == PadDay(ASN1_TIME_print(t))
      f    == StrsepAll(buf)
      mon  == f[1]
      i    == SelectInSeq(months, LAMBDA m : m = mon)
  IN  IF ~mem.bio \/ ~t.valid THEN TimeError("NoMem")
      ELSE IF Len(f) < 4 \/ Len(f) > 5 THEN TimeError("InvalidTime")
      ELSE IF Len(f) = 5 /\ f[5] /= <<"G", "M", "T">> THEN TimeError("InvalidTime")
      ELSE IF i = 0 THEN TimeError("InvalidTime")
      ELSE IF ~mem.out THEN TimeError("NoMem")
      ELSE TimeResult(f[4] \o <<"-">> \o ZeroPad2(i) \o <<"-">> \o f[2]
                        \o <<"T">> \o f[3] \o <<"Z">>)

-----------------------------------------------------------------------------
\* Reference (spec 4.1): the canonical YYYY-MM-DDTHH:MM:SSZ of a time.
ZeroPad4(n) == [k \in 1..(4 - Len(Decimal(n))) |-> "0"] \o Decimal(n)

IsoTime(t) ==
  ZeroPad4(t.year) \o <<"-">> \o ZeroPad2(t.mon) \o <<"-">> \o ZeroPad2(t.day)
    \o <<"T">> \o ZeroPad2(t.hh) \o <<":">> \o ZeroPad2(t.mm) \o <<":">>
    \o ZeroPad2(t.ss) \o <<"Z">>
=============================================================================
