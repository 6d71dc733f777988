--------------------------- MODULE Win32Socketpair ---------------------------
(***************************************************************************)
(* win32_socketpair() of src/usual/socket.c (lines 389-460): a socket pair *)
(* made of a TCP connection over loopback.  One step per system call; any  *)
(* call may fail.  Another local process may connect to the listening      *)
(* socket between listen() and the close of the listener: the listener     *)
(* accepts connections in the order they arrive, and the code can only     *)
(* tell its own by the sanity check of lines 438-443.  The failing call's  *)
(* error is what WSAGetLastError() returns.                                *)
(***************************************************************************)
EXTENDS Integers, Sequences

CONSTANTS
  Domains,        \* values of the d argument
  OwnAddr,        \* 127.0.0.1, where s1 connects from
  OtherAddrs,     \* loopback addresses another local process may connect from
  Ports,          \* ephemeral ports
  SysMayFail      \* TRUE: socket(), bind(), listen(), ... may fail

ASSUME SysMayFail \in BOOLEAN

VARIABLES
  d, svOk,        \* the arguments: the domain, sv is not NULL
  pc,             \* the call the function makes next
  sock,           \* list, s1, s2: "none" (-1), "open" or "closed"
  s1name,         \* getsockname() of s1 after connect(): [addr, port]
  backlog,        \* connections queued on the listener, oldest first
  other,          \* the other process has connected
  peer,           \* sa2: the connection accept() returned
  res,            \* the variable res
  lastErr,        \* the error of the last failed call, "none" if none failed
  ret, errno      \* the return value and errno

vars == <<d, svOk, pc, sock, s1name, backlog, other, peer, res, lastErr, ret, errno>>

Sockets == {"list", "s1", "s2"}
NoAddr  == [addr |-> "none", port |-> "none"]
Conn(a, p, who) == [addr |-> a, port |-> p, who |-> who]

Init ==
  /\ d \in Domains /\ svOk \in BOOLEAN
  /\ pc = "start"
  /\ sock = [s \in Sockets |-> "none"]
  /\ s1name = NoAddr /\ backlog = <<>> /\ other = FALSE /\ peer = NoAddr
  /\ res = 0 /\ lastErr = "none" /\ ret = "none" /\ errno = "none"

\* A plausible bug: s2 left open on the way out.
CloseAll_keep_s2(s) == [x \in Sockets |-> IF s[x] = "open" /\ x /= "s2" THEN "closed" ELSE s[x]]

\* failed: errno, then closesocket() of every socket that is not -1.
CloseAll(s) == [x \in Sockets |-> IF s[x] = "open" THEN "closed" ELSE s[x]]

\* goto failed, with res as the code has it at that point.
Failed(r) ==
  /\ errno' = IF r = -1 THEN lastErr' ELSE "EFAULT"
  /\ sock' = CloseAll(sock)
  /\ ret' = -1 /\ pc' = "done"

\* A system call that may fail with error e.
Fails(e) == SysMayFail /\ lastErr' = e

Keep == UNCHANGED <<d, svOk, s1name, backlog, other, peer>>

\* The argument checks and socket() of the listener, whose failure
\* returns at once without setting errno.
Start ==
  /\ pc = "start"
  /\ \/ /\ d \notin {"AF_INET", "AF_UNIX"} \/ ~svOk
        /\ ret' = -1 /\ errno' = "EINVAL" /\ pc' = "done"
        /\ UNCHANGED <<sock, res, lastErr>>
     \/ /\ d \in {"AF_INET", "AF_UNIX"} /\ svOk
        /\ \/ Fails("socket") /\ ret' = -1 /\ pc' = "done"
              /\ UNCHANGED <<sock, res, errno>>
           \/ sock' = [sock EXCEPT !.list = "open"] /\ pc' = "bind"
              /\ UNCHANGED <<res, lastErr, ret, errno>>
  /\ Keep

\* bind(), listen() and getsockname() of the listener: each sets res.
Setup ==
  /\ pc \in {"bind", "listen", "getname"}
  /\ \/ Fails(pc) /\ res' = -1 /\ Failed(-1)
     \/ /\ res' = 0
        /\ pc' = [bind |-> "listen", listen |-> "getname", getname |-> "socket1"][pc]
        /\ UNCHANGED <<sock, lastErr, ret, errno>>
  /\ Keep

\* s1 = socket(); its failure reaches failed: with res still 0.
Socket1 ==
  /\ pc = "socket1"
  /\ \/ Fails("socket") /\ Failed(res) /\ UNCHANGED res
     \/ /\ sock' = [sock EXCEPT !.s1 = "open"] /\ pc' = "connect"
        /\ UNCHANGED <<res, lastErr, ret, errno>>
  /\ Keep

\* connect(s1) to the listener: s1 gets an ephemeral port on OwnAddr not
\* taken there, and the connection joins the backlog.
Connect ==
  /\ pc = "connect"
  /\ \/ Fails("connect") /\ res' = -1 /\ Failed(-1)
        /\ UNCHANGED <<s1name, backlog>>
     \/ \E p \in {q \in Ports : \A k \in DOMAIN backlog : backlog[k] /= Conn(OwnAddr, q, "other")} :
          /\ s1name' = [addr |-> OwnAddr, port |-> p]
          /\ backlog' = Append(backlog, Conn(OwnAddr, p, "self"))
          /\ res' = 0 /\ pc' = "accept"
          /\ UNCHANGED <<sock, lastErr, ret, errno>>
  /\ UNCHANGED <<d, svOk, other, peer>>

\* s2 = accept(list): the oldest queued connection; a failure reaches
\* failed: with res still 0 from connect().
Accept ==
  /\ pc = "accept"
  /\ \/ Fails("accept") /\ Failed(res) /\ UNCHANGED <<res, backlog, peer>>
     \/ /\ peer' = Head(backlog) /\ backlog' = Tail(backlog)
        /\ sock' = [sock EXCEPT !.s2 = "open"] /\ pc' = "check"
        /\ UNCHANGED <<res, lastErr, ret, errno>>
  /\ UNCHANGED <<d, svOk, s1name, other>>

\* A plausible bug: the sanity check left out.
SamePeer_none(a, b) == TRUE

\* sa1.sin_port == sa2.sin_port: only the ports are compared.
SamePeer(a, b) == a.port = b.port

\* The sanity check, then closesocket(list) and sv[] on success.
Check ==
  /\ pc = "check"
  /\ \/ Fails("getsockname") /\ res' = -1 /\ Failed(-1)
     \/ /\ res' = 0 /\ ~SamePeer(s1name, peer) /\ Failed(0) /\ UNCHANGED lastErr
     \/ /\ res' = 0 /\ SamePeer(s1name, peer)
        /\ sock' = [sock EXCEPT !.list = "closed"]
        /\ ret' = 0 /\ pc' = "done"
        /\ UNCHANGED <<lastErr, errno>>
  /\ Keep

\* Another local process connects to the listener once it listens.
OtherConnect ==
  /\ ~other /\ sock.list = "open" /\ pc \in {"getname", "socket1", "connect", "accept"}
  /\ \E a \in OtherAddrs, p \in Ports :
       /\ Conn(a, p, "self") \notin {backlog[k] : k \in DOMAIN backlog}
       /\ s1name /= [addr |-> a, port |-> p]
       /\ backlog' = Append(backlog, Conn(a, p, "other"))
  /\ other' = TRUE
  /\ UNCHANGED <<d, svOk, pc, sock, s1name, peer, res, lastErr, ret, errno>>

Next == Start \/ Setup \/ Socket1 \/ Connect \/ Accept \/ Check \/ OtherConnect

Spec == Init /\ [][Next]_vars

-----------------------------------------------------------------------------
(***************************************************************************)
(* PairConnected: when win32_socketpair() returns 0, sv[1] is the accepted *)
(* end of the connection made by sv[0], not a connection from another      *)
(* process that reached the listener first.                                *)
(***************************************************************************)
PairConnected == (pc = "done" /\ ret = 0) => peer.who = "self"

(***************************************************************************)
(* SocketsClosed: on return, a failed call has closed every socket it      *)
(* opened, and a successful one has closed the listener and left exactly   *)
(* the two ends open.                                                      *)
(***************************************************************************)
SocketsClosed ==
  pc = "done" =>
    /\ ret = -1 => \A s \in Sockets : sock[s] /= "open"
    /\ ret = 0 => sock = [list |-> "closed", s1 |-> "open", s2 |-> "open"]
=============================================================================
