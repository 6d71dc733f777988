------------------------------ MODULE TlsX509 ------------------------------
(***************************************************************************)
(* What tls_cert.c reads from an established session: the peer            *)
(* certificate as OpenSSL hands it over.  Data only, no state.             *)
(***************************************************************************)
EXTENDS TlsTime, TlsSerial

CONSTANTS
  NULL,      \* a NULL pointer: missing peer, name, extension, field
  BadExt,    \* a subjectAltName extension present but not decodable
  Attrs,     \* the name attributes, in the order tls_get_entity() asks for them
  DNs,       \* X509_NAME values: functions from the attributes to a value or NULL
  SanLists,  \* subjectAltName extensions as X509_get_ext_d2i() decodes them
  Times,     \* ASN1_TIME values (fields as in TlsTime)
  Serials,   \* ASN1_INTEGER values (as in TlsSerial)
  Versions   \* values X509_get_version() returns

(***************************************************************************)
(* A GENERAL_NAME is [type, format, data]: type one of "DNS", "EMAIL",    *)
(* "URI", "IPADD" or another GeneralName choice, format the ASN1 string   *)
(* type ("IA5" for an IA5String), data its bytes as characters.  A        *)
(* subjectAltName extension is NULL (absent), BadExt (present but         *)
(* malformed) or a sequence of general names.                             *)
(***************************************************************************)
IA5Types == {"DNS", "EMAIL", "URI"}

\* Library behaviour: X509_get_ext_d2i() returns NULL both for an absent
\* and for an undecodable extension.
X509_get_ext_d2i(san) == IF san = BadExt THEN NULL ELSE san

Certificates ==
  [version : Versions, subject : DNs \cup {NULL}, issuer : DNs \cup {NULL},
   san : SanLists, not_before : Times, not_after : Times, serial : Serials]

\* ctx->ssl_conn is NULL (not connected), or a session with a peer or not.
Sessions ==
  {[conn |-> FALSE, peer |-> NULL]}
    \cup [conn : {TRUE}, peer : Certificates \cup {NULL}]
=============================================================================
