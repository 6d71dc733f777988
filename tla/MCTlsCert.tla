----------------------------- MODULE MCTlsCert -----------------------------
(***************************************************************************)
(* tls_get_peer_cert() on every session built from small sets of names,    *)
(* alt-name entries, times and serials, with every allocation able to fail.*)
(***************************************************************************)
EXTENDS TlsCert

CONSTANT MaxSan  \* most entries in a subjectAltName extension

MCAttrs == <<"CN", "O">>

Clean == <<"a">>
Nul   == <<"a", NUL>>

\* A clean subject, and one whose both attributes carry a NUL byte.
MCDNs == {"CN" :> Clean @@ "O" :> NULL, "CN" :> Nul @@ "O" :> Nul}

Bytes(n) == [i \in 1..n |-> "b"]
GN(t, f, d) == [type |-> t, format |-> f, data |-> d]

\* One entry for each branch of the alt-name loaders.
MCSanEntries ==
  { GN("DNS", "IA5", Clean), GN("DNS", "IA5", <<" ">>), GN("DNS", "IA5", <<>>),
    GN("EMAIL", "IA5", Nul), GN("URI", "UTF8", Clean),
    GN("IPADD", "OCTET", Bytes(4)), GN("IPADD", "OCTET", Bytes(16)),
    GN("IPADD", "OCTET", Bytes(5)), GN("DIRNAME", "OTHER", Clean) }

MCSanLists    == {NULL} \cup SeqOf(MCSanEntries, MaxSan)
MCSanListsBad == MCSanLists \cup {BadExt}

Jan1 == [valid |-> TRUE, year |-> 2024, mon |-> 1, day |-> 1,
         hh |-> 0, mm |-> 0, ss |-> 0, frac |-> <<>>, gmt |-> TRUE]
MCTimes == {Jan1, [Jan1 EXCEPT !.valid = FALSE]}

\* A serial that fits a long and one that does not.
MCSerials == {[neg |-> FALSE, mag |-> <<5>>], [neg |-> FALSE, mag |-> <<1, 0, 0>>]}

\* X509_get_version() of a broken and of a v3 certificate.
MCVersions == {-1, 2}
=============================================================================
