----------------------------- MODULE SocketConfig -----------------------------
(***************************************************************************)
(* The descriptor helpers of src/usual/socket.c: socket_set_nonblocking(), *)
(* socket_setup() and socket_set_keepalive() (lines 36-152, Unix branches).*)
(* Each operation is the sequence of system calls the build compiles it    *)
(* to (build names the #ifdef'd options it has, one of Builds); each call  *)
(* is one step, so the calls of threads working on the same descriptor     *)
(* interleave.  On a build with SIO_KEEPALIVE_VALS (Windows), WSAIoctl()    *)
(* is one more call of socket_set_keepalive().  The                        *)
(* kernel may refuse a TCP option with ENOPROTOOPT (NoProtoOpt) and, when  *)
(* SysMayFail, fail any call.                                              *)
(***************************************************************************)
EXTENDS Integers, Sequences

CONSTANTS
  Threads,     \* threads configuring the descriptor
  OpSeqs,      \* per thread: the sequences of operations it may run
  Builds,      \* sets of the option macros a build defines: SO_NOSIGPIPE, ...
  NoProtoOpt,  \* TCP options the kernel refuses with ENOPROTOOPT
  InitFlags,   \* file status flags the descriptor starts with
  SysMayFail,  \* TRUE: fcntl(), setsockopt() and WSAIoctl() may fail with another error
  ULongBits    \* width of int and ULONG (32, scaled down where TLC needs it)

VARIABLES
  build,       \* the option macros the build defines
  fl,          \* the file status flags (F_GETFL/F_SETFL)
  cloexec,     \* FD_CLOEXEC
  sopt,        \* socket options: option name -> value (0: off, the default)
  ops,         \* per thread: the operations still to run
  cur,         \* per thread: the operation running or last run
  prog,        \* per thread: the calls left in the current operation
  flags,       \* per thread: the local flags of socket_set_nonblocking()
  ret,         \* per thread: what the last operation returned (FALSE until it does)
  lastSetfl,   \* the thread whose F_SETFL changed fl last (history)
  errs         \* per thread: errors of the calls of its operation (history)

vars == <<build, fl, cloexec, sopt, ops, cur, prog, flags, ret, lastSetfl, errs>>

SockOpts == {"SO_NOSIGPIPE", "SO_KEEPALIVE", "TCP_KEEPALIVE", "TCP_KEEPIDLE",
             "TCP_KEEPINTVL", "TCP_KEEPCNT", "SIO_KEEPALIVE_VALS"}

\* An operation and its arguments; the fields an operation has no use for are 0.
Op(n, nb, on, idle, intvl, cnt) ==
  [name |-> n, nb |-> nb, on |-> on, idle |-> idle, intvl |-> intvl, cnt |-> cnt]
NoOp == Op("none", FALSE, FALSE, 0, 0, 0)

Call(c, a) == [call |-> c, arg |-> a]
IfBuilt(o, s) == IF o \in build THEN s ELSE <<>>

\* A value converted to a ULONG; keepidle * 1000 in an int wraps the same way.
ULong(n) == n % 2^ULongBits

\* A plausible bug: the seconds passed on as they are.
KeepaliveVals_seconds(idle, intvl) ==
  [time |-> IF idle = 0 THEN 5 * 60 ELSE idle, interval |-> IF intvl = 0 THEN 15 ELSE intvl]

\* struct tcp_keepalive: 5 minutes and 15 seconds for an argument left 0,
\* then both in milliseconds.
KeepaliveVals(idle, intvl) ==
  [time     |-> ULong((IF idle = 0 THEN 5 * 60 ELSE idle) * 1000),
   interval |-> ULong((IF intvl = 0 THEN 15 ELSE intvl) * 1000)]

\* socket_set_nonblocking(fd, nb): F_GETFL, then F_SETFL of the flipped bit.
NonblockCalls(nb) == <<Call("F_GETFL", 0), Call("F_SETFL", nb)>>

\* The calls an operation makes when none fails, from its #ifdef'd source.
Calls(op) ==
  CASE op.name = "nonblock" -> NonblockCalls(op.nb)
    [] op.name = "setup" ->
         IfBuilt("SO_NOSIGPIPE", <<Call("SO_NOSIGPIPE", 1)>>)
           \o <<Call("F_SETFD", 0)>> \o NonblockCalls(op.nb)
    [] op.name = "keepalive" /\ ~op.on -> <<Call("SO_KEEPALIVE", 0)>>
    [] OTHER ->
         <<Call("SO_KEEPALIVE", 1)>>
           \o (IF op.idle /= 0 THEN IfBuilt("TCP_KEEPALIVE", <<Call("TCP_KEEPALIVE", op.idle)>>)
                                      \o IfBuilt("TCP_KEEPIDLE", <<Call("TCP_KEEPIDLE", op.idle)>>)
               ELSE <<>>)
           \o (IF op.intvl /= 0 THEN IfBuilt("TCP_KEEPINTVL", <<Call("TCP_KEEPINTVL", op.intvl)>>)
               ELSE <<>>)
           \o (IF op.cnt > 0 THEN IfBuilt("TCP_KEEPCNT", <<Call("TCP_KEEPCNT", op.cnt)>>)
               ELSE <<>>)
           \o (IF op.idle /= 0 \/ op.intvl /= 0
               THEN IfBuilt("SIO_KEEPALIVE_VALS",
                            <<Call("SIO_KEEPALIVE_VALS", KeepaliveVals(op.idle, op.intvl))>>)
               ELSE <<>>)

\* A plausible bug: the new flags built from O_NONBLOCK alone.
NewFlags_clobber(old, nb) == IF nb THEN {"NONBLOCK"} ELSE {}

\* flags |= O_NONBLOCK or flags &= ~O_NONBLOCK
NewFlags(old, nb) == IF nb THEN old \cup {"NONBLOCK"} ELSE old \ {"NONBLOCK"}

\* A plausible bug: any setsockopt() error of a TCP option let through.
Tolerated_any(c, e) == c \in {"TCP_KEEPALIVE", "TCP_KEEPIDLE", "TCP_KEEPINTVL", "TCP_KEEPCNT"}

\* res < 0 && errno != ENOPROTOOPT goes on only for the TCP options.
Tolerated(c, e) ==
  c \in {"TCP_KEEPALIVE", "TCP_KEEPIDLE", "TCP_KEEPINTVL", "TCP_KEEPCNT"} /\ e = "ENOPROTOOPT"

-----------------------------------------------------------------------------
Init ==
  /\ build \in Builds
  /\ fl = InitFlags /\ cloexec = FALSE
  /\ sopt = [o \in SockOpts |-> 0]
  /\ ops \in {f \in [Threads -> UNION {OpSeqs[t] : t \in Threads}] :
               \A t \in Threads : f[t] \in OpSeqs[t]}
  /\ cur = [t \in Threads |-> NoOp]
  /\ prog = [t \in Threads |-> <<>>]
  /\ flags = [t \in Threads |-> {}]
  /\ ret = [t \in Threads |-> FALSE]
  /\ lastSetfl = "none" /\ errs = [t \in Threads |-> {}]

\* A thread enters its next operation.
Begin(t) ==
  /\ prog[t] = <<>> /\ ops[t] /= <<>>
  /\ prog' = [prog EXCEPT ![t] = Calls(Head(ops[t]))]
  /\ ops' = [ops EXCEPT ![t] = Tail(@)] /\ cur' = [cur EXCEPT ![t] = Head(ops[t])]
  /\ ret' = [ret EXCEPT ![t] = FALSE] /\ errs' = [errs EXCEPT ![t] = {}]
  /\ UNCHANGED <<build, fl, cloexec, sopt, flags, lastSetfl>>

\* The thread's next system call fails with error e; a refused TCP option
\* goes on, anything else returns false.
CallFails(t, e) ==
  LET c == Head(prog[t]).call IN
  /\ IF Tolerated(c, e) /\ Len(prog[t]) > 1
     THEN prog' = [prog EXCEPT ![t] = Tail(@)] /\ UNCHANGED ret
     ELSE /\ prog' = [prog EXCEPT ![t] = <<>>]
          /\ ret' = [ret EXCEPT ![t] = Tolerated(c, e)]
  /\ errs' = [errs EXCEPT ![t] = @ \cup {e}]
  /\ UNCHANGED <<build, fl, cloexec, sopt, ops, cur, flags, lastSetfl>>

\* The thread's next system call succeeds; the last one returns true.
\* setsockopt() and WSAIoctl() store their argument in the socket.
CallOk(t) ==
  LET c == Head(prog[t]) IN
  /\ ~(c.call \in NoProtoOpt)
  /\ CASE c.call = "F_GETFL" ->
            flags' = [flags EXCEPT ![t] = fl] /\ UNCHANGED <<fl, cloexec, sopt, lastSetfl>>
       [] c.call = "F_SETFL" ->
            /\ fl' = NewFlags(flags[t], c.arg) /\ lastSetfl' = t
            /\ UNCHANGED <<cloexec, sopt, flags>>
       [] c.call = "F_SETFD" ->
            cloexec' = TRUE /\ UNCHANGED <<fl, sopt, flags, lastSetfl>>
       [] OTHER ->
            sopt' = [sopt EXCEPT ![c.call] = c.arg] /\ UNCHANGED <<fl, cloexec, flags, lastSetfl>>
  /\ prog' = [prog EXCEPT ![t] = Tail(@)]
  /\ ret' = [ret EXCEPT ![t] = IF Len(prog[t]) = 1 THEN TRUE ELSE @]
  /\ UNCHANGED <<build, ops, cur, errs>>

Step(t) ==
  /\ prog[t] /= <<>>
  /\ \/ CallOk(t)
     \/ Head(prog[t]).call \in NoProtoOpt /\ CallFails(t, "ENOPROTOOPT")
     \/ SysMayFail /\ CallFails(t, "EINVAL")

Next == \E t \in Threads : Begin(t) \/ Step(t)

Spec == Init /\ [][Next]_vars

-----------------------------------------------------------------------------
Done(t) == cur[t] /= NoOp /\ prog[t] = <<>>

\* The option each keepalive argument asks for, by the spec's reading:
\* keepidle, keepintvl when nonzero, keepcnt when positive.
Asked(op) ==
  {o \in {"TCP_KEEPALIVE", "TCP_KEEPIDLE"} : op.idle /= 0} \cup
  {o \in {"TCP_KEEPINTVL"} : op.intvl /= 0} \cup {o \in {"TCP_KEEPCNT"} : op.cnt > 0}
Param(op, o) ==
  IF o \in {"TCP_KEEPALIVE", "TCP_KEEPIDLE"} THEN op.idle
  ELSE IF o = "TCP_KEEPINTVL" THEN op.intvl ELSE op.cnt

(***************************************************************************)
(* KeepaliveResult: socket_set_keepalive() returns false only when a call *)
(* failed with an error other than ENOPROTOOPT; when it returns true,     *)
(* SO_KEEPALIVE is what onoff asked, and with keepalive on every timing   *)
(* option the build has and the kernel knows holds the value asked; with   *)
(* SIO_KEEPALIVE_VALS, the keepalive time and interval asked hold in       *)
(* milliseconds.                                                           *)
(***************************************************************************)
KeepaliveResult ==
  \A t \in Threads :
    (Done(t) /\ cur[t].name = "keepalive") =>
      /\ ~ret[t] => errs[t] \ {"ENOPROTOOPT"} /= {}
      /\ ret[t] =>
           /\ sopt["SO_KEEPALIVE"] = IF cur[t].on THEN 1 ELSE 0
           /\ cur[t].on =>
                /\ \A o \in (Asked(cur[t]) \cap build) \ NoProtoOpt : sopt[o] = Param(cur[t], o)
                /\ ("SIO_KEEPALIVE_VALS" \in build /\ (cur[t].idle /= 0 \/ cur[t].intvl /= 0)) =>
                     LET v == sopt["SIO_KEEPALIVE_VALS"] IN
                     /\ cur[t].idle /= 0 => v.time = 1000 * cur[t].idle
                     /\ cur[t].intvl /= 0 => v.interval = 1000 * cur[t].intvl

(***************************************************************************)
(* DescriptorFlags: socket_set_nonblocking() and socket_setup() change no *)
(* file status flag but O_NONBLOCK, even when threads interleave their    *)
(* F_GETFL and F_SETFL; the last of them to set the flags leaves          *)
(* O_NONBLOCK as it asked; a socket_setup() that returned true has set    *)
(* FD_CLOEXEC, and SO_NOSIGPIPE where the build has it.                   *)
(***************************************************************************)
DescriptorFlags ==
  /\ fl \ {"NONBLOCK"} = InitFlags \ {"NONBLOCK"}
  /\ \A t \in Threads :
       (Done(t) /\ ret[t] /\ cur[t].name \in {"nonblock", "setup"}) =>
         /\ lastSetfl = t => ("NONBLOCK" \in fl <=> cur[t].nb)
         /\ cur[t].name = "setup" =>
              cloexec /\ ("SO_NOSIGPIPE" \in build => sopt["SO_NOSIGPIPE"] = 1)
=============================================================================
