----------------------------- MODULE MCTlsSession -----------------------------
(***************************************************************************)
(* Both peer-certificate calls on one session, in either order.  The       *)
(* certificates are those of MCTlsCert; the algorithm names and buffer     *)
(* sizes are chosen here.  Two instances: one call on every session over   *)
(* the full sets, and both calls on a small set for the reference count.   *)
(***************************************************************************)
EXTENDS TlsSession, MCTlsCert

\* "sha1", "SHA256", "Sha1", "md5" and "sha2" (a prefix of "sha256").
MCAlgos ==
  { <<"s", "h", "a", "1">>, <<"S", "H", "A", "2", "5", "6">>, <<"S", "h", "a", "1">>,
    <<"m", "d", "5">>, <<"s", "h", "a", "2">> }

\* Empty, one short of SHA-1, exactly SHA-1, between, and larger than SHA-256.
MCBufLens == {0, 19, 20, 31, 40}

\* With one call made, the arguments of the call not made are left at one
\* value, and only one session per peer the fingerprint call can tell apart.
FpNotCalled ==
  /\ fpAlgo = CHOOSE a \in Algos : TRUE
  /\ fpBuflen = CHOOSE b \in BufLens : TRUE
  /\ ~fpOutp

\* One session for each session the fingerprint call can tell apart.
CanonSess == [fs \in {SameSession(s) : s \in Sessions} |->
                CHOOSE s \in Sessions : SameSession(s) = fs]

CertNotCalled == sess = CanonSess[fpSess]

OneCallInit ==
  /\ SessInit
  /\ first = "cert" => FpNotCalled
  /\ first = "fp" => CertNotCalled

OneCallSpec == OneCallInit /\ [][SessNext]_<<first, vars, fpVars>>

-----------------------------------------------------------------------------
(* The small instance: an accepted, a rejected and a skipped alt name, one *)
(* valid time and serial, an invalid and a valid version; "sha1",          *)
(* "SHA256" and "md5" into an empty and a SHA-1-sized buffer.              *)

RefSanEntries == {GN("DNS", "IA5", Clean), GN("DNS", "IA5", <<>>), GN("DIRNAME", "OTHER", Clean)}
RefSanLists   == {NULL} \cup SeqOf(RefSanEntries, 1)
RefTimes      == {Jan1}
RefSerials    == {[neg |-> FALSE, mag |-> <<5>>]}
RefAlgos      == {<<"s", "h", "a", "1">>, <<"S", "H", "A", "2", "5", "6">>, <<"m", "d", "5">>}
RefBufLens    == {0, 20}
=============================================================================
