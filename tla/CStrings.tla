------------------------------ MODULE CStrings ------------------------------
(***************************************************************************)
(* C strings as the libc and OpenSSL calls of tls_cert.c see them: a       *)
(* string is a sequence of one-character TLA+ strings, NUL is a character  *)
(* of its own.  These operators model library behaviour (snprintf, strsep, *)
(* memchr, strdup), not code of the repository.                            *)
(***************************************************************************)
EXTENDS Integers, Sequences, SequencesExt

NUL == "NUL"

DigitChar == <<"0", "1", "2", "3", "4", "5", "6", "7", "8", "9">>

\* snprintf "%d" / "%lu" of a non-negative number: its decimal digits.
RECURSIVE Decimal(_)
Decimal(n) ==
  IF n < 10 THEN <<DigitChar[n + 1]>>
            ELSE Decimal(n \div 10) \o <<DigitChar[(n % 10) + 1]>>

\* snprintf "%02d" and "%2d" of a number below 100.
ZeroPad2(n)  == IF n < 10 THEN <<"0">> \o Decimal(n) ELSE Decimal(n)
SpacePad2(n) == IF n < 10 THEN <<" ">> \o Decimal(n) ELSE Decimal(n)

\* The fields strsep(&tmp, " ") hands out, one per call, until tmp is NULL.
RECURSIVE StrsepAll(_)
StrsepAll(s) ==
  LET sp == SelectInSeq(s, LAMBDA c : c = " ")
  IN  IF sp = 0 THEN <<s>>
      ELSE <<SubSeq(s, 1, sp - 1)>> \o StrsepAll(SubSeq(s, sp + 1, Len(s)))

\* memchr(s, '\0', len) /= NULL
HasNul(s) == Contains(s, NUL)

\* strdup(s): the characters up to the first NUL.
Strdup(s) ==
  LET n == SelectInSeq(s, LAMBDA c : c = NUL)
  IN  IF n = 0 THEN s ELSE SubSeq(s, 1, n - 1)

\* The value a string of decimal digits denotes (reference definitions).
DigitValue(c) == CHOOSE d \in 0..9 : DigitChar[d + 1] = c
IsDecimalString(s) ==
  /\ Len(s) > 0
  /\ \A i \in 1..Len(s) : s[i] \in Range(DigitChar)
  /\ (Len(s) > 1 => s[1] /= "0")
ValueOfDecimal(s) ==
  FoldLeft(LAMBDA acc, c : acc * 10 + DigitValue(c), 0, s)
=============================================================================
