---------------------------- MODULE MCSocketCompat ----------------------------
(***************************************************************************)
(* The descriptor helpers of socket.c on Unix and Windows builds: one      *)
(* state holds either two threads configuring a descriptor (SocketConfig)  *)
(* or one win32_socketpair() call (Win32Socketpair, as SP).  The module    *)
(* not run stays at one initial state.                                     *)
(***************************************************************************)
EXTENDS SocketConfig

CONSTANTS Domains, OwnAddr, OtherAddrs, Ports   \* as in Win32Socketpair

VARIABLES
  which,          \* "config" or "socketpair": the helper the caller runs
  d, svOk, pc, sock, s1name, backlog, other, peer, res, lastErr,
  spRet, errno    \* Win32Socketpair's variables, its ret renamed

spVars == <<d, svOk, pc, sock, s1name, backlog, other, peer, res, lastErr, spRet, errno>>

SP == INSTANCE Win32Socketpair WITH ret <- spRet

-----------------------------------------------------------------------------
(* Arguments of the operations.                                            *)

\* socket_setup(fd, nb), socket_set_nonblocking(fd, nb), socket_set_keepalive().
Setup(nb)    == Op("setup", nb, FALSE, 0, 0, 0)
Nonblock(nb) == Op("nonblock", nb, FALSE, 0, 0, 0)
Keepalive(on, idle, intvl, cnt) == Op("keepalive", FALSE, on, idle, intvl, cnt)

MCThreads == {"t1", "t2"}

\* A FreeBSD-like build, and a Windows one.
MCBuilds == {{"SO_NOSIGPIPE", "TCP_KEEPIDLE", "TCP_KEEPINTVL", "TCP_KEEPCNT"},
             {"SIO_KEEPALIVE_VALS"}}

\* t1 sets a descriptor up and tunes keepalive: keepalive on and then off, a
\* negative keepcnt, which the code skips, and a keepintvl only.  t2 flips
\* O_NONBLOCK of the same descriptor, or sets it up, at the same time.
MCOpSeqs ==
  [t \in MCThreads |->
     IF t = "t1"
     THEN {<<Setup(TRUE), Keepalive(TRUE, 60, 10, 3)>>,
           <<Keepalive(TRUE, 60, 0, -1), Keepalive(FALSE, 0, 0, 0)>>,
           <<Keepalive(TRUE, 0, 10, 0), Nonblock(FALSE)>>,
           <<Keepalive(TRUE, 30, 5, 2), Keepalive(TRUE, 0, 0, 4)>>,
           <<Nonblock(TRUE), Setup(FALSE)>>}
     ELSE {<<Nonblock(FALSE)>>, <<Setup(TRUE)>>}]

MCDomains == {"AF_INET", "AF_UNIX", "AF_INET6"}

-----------------------------------------------------------------------------
ConfigNotRun ==
  /\ build = CHOOSE b \in Builds : TRUE
  /\ ops = [t \in Threads |-> CHOOSE s \in OpSeqs[t] : TRUE]

SocketpairNotRun ==
  /\ d = CHOOSE x \in Domains : TRUE
  /\ svOk

CompatInit ==
  /\ Init /\ SP!Init /\ which \in {"config", "socketpair"}
  /\ which = "config" => SocketpairNotRun
  /\ which = "socketpair" => ConfigNotRun

ConfigStep     == which = "config" /\ Next /\ UNCHANGED <<which, spVars>>
SocketpairStep == which = "socketpair" /\ SP!Next /\ UNCHANGED <<which, vars>>

CompatSpec == CompatInit /\ [][ConfigStep \/ SocketpairStep]_<<which, vars, spVars>>

(***************************************************************************)
(* PairConnected and SocketsClosed (Win32Socketpair) of the                *)
(* win32_socketpair() call: a success pairs sv[0] with its own accepted    *)
(* end, and every path closes exactly what it must.                        *)
(***************************************************************************)
PairConnected == SP!PairConnected
SocketsClosed == SP!SocketsClosed
=============================================================================
