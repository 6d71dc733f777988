------------------------------- MODULE PollEmu -------------------------------
(***************************************************************************)
(* poll() emulated with select(), src/usual/socket.c lines 262-385.  The   *)
(* two fd sets live in static struct fd_buf variables shared by every call *)
(* and every thread, so they are the global state; each thread runs poll() *)
(* calls one after another.  A call is split where it touches the shared   *)
(* sets: the zeroing, one iteration of the conversion loop, select(), and  *)
(* the recount of revents.  select() itself is the kernel: it reports any  *)
(* subset of the fds it was given as ready, times out, or is interrupted.  *)
(* An fd set is [set, alloc]: the fds whose bit is set and alloc_bytes     *)
(* (0 while the pointer is NULL).                                          *)
(***************************************************************************)
EXTENDS Integers, Sequences, FiniteSets, FiniteSetsExt

CONSTANTS
  Threads,      \* threads calling poll()
  FdVals,       \* fd values a pollfd may hold
  Timeouts,     \* timeout_ms values
  MaxLen,       \* most entries in a pollfd array (nfds)
  MaxCalls,     \* poll() calls per thread
  AllocMayFail  \* TRUE: malloc()/realloc() in fdbuf_resize() may fail

ASSUME MaxLen \in Nat /\ MaxCalls \in Nat \ {0} /\ AllocMayFail \in BOOLEAN

VARIABLES
  readfds, writefds,  \* the static fd_bufs
  corrupt,            \* an FD_SET() wrote past alloc_bytes
  pc,                 \* per thread: "idle", "convert", "select", "collect"
  pfd,                \* per thread: the pollfd array, a sequence of [fd, events, revents]
  i,                  \* per thread: the loop index, 1-based
  tmo,                \* per thread: timeout_ms of the call (-1: no timeout)
  fdMax,              \* per thread: fd_max
  ready,              \* per thread: [in, out], the fds select() reported (history)
  ret,                \* per thread: what the last call returned
  errno,              \* per thread: errno after the last call
  calls               \* per thread: calls made

vars == <<readfds, writefds, corrupt, pc, pfd, i, tmo, fdMax, ready, ret, errno, calls>>

Events  == {"IN", "OUT"}
\* revents as the caller left it: cleared, or stale from an earlier call.
Entries == [fd : FdVals, events : SUBSET Events \ {{}}, revents : {{}, Events}]
PollArrays == UNION {[1..n -> Entries] : n \in 0..MaxLen}
NoFds   == [set |-> {}, alloc |-> 0]

-----------------------------------------------------------------------------
(* fdbuf_resize(): the outcomes of growing a buffer to hold fd.            *)

NeedBytes(fd) == fd \div 8 + 32

RECURSIVE Grow(_, _)
Grow(a, need) == IF a < need THEN Grow(a * 2, need) ELSE a

\* A plausible bug: the new area not cleared, so realloc() garbage shows as set bits.
fdbuf_resize_nomemset(b, fd) ==
  IF b.alloc < NeedBytes(fd)
  THEN LET a == Grow(256, NeedBytes(fd)) IN
       {[ok |-> TRUE, buf |-> [set |-> b.set \cup g, alloc |-> a]] :
          g \in SUBSET {f \in FdVals : 8 * b.alloc <= f /\ f < 8 * a}}
         \cup (IF AllocMayFail THEN {[ok |-> FALSE, buf |-> b]} ELSE {})
  ELSE {[ok |-> TRUE, buf |-> b]}

fdbuf_resize(b, fd) ==
  IF b.alloc < NeedBytes(fd)
  THEN LET a == Grow(256, NeedBytes(fd)) IN
       {[ok |-> TRUE, buf |-> [set |-> b.set, alloc |-> a]]}
         \cup (IF AllocMayFail THEN {[ok |-> FALSE, buf |-> b]} ELSE {})
  ELSE {[ok |-> TRUE, buf |-> b]}

fdbuf_zero(b) == [b EXCEPT !.set = {}]

\* FD_SET(fd, set) when the entry asks for ev.
FdSet(b, fd, ev, e) == IF ev \in e THEN [b EXCEPT !.set = @ \cup {fd}] ELSE b
OutOfBuf(b, fd, ev, e) == ev \in e /\ fd >= 8 * b.alloc

-----------------------------------------------------------------------------
Init ==
  /\ readfds = NoFds /\ writefds = NoFds /\ corrupt = FALSE
  /\ pc = [t \in Threads |-> "idle"]
  /\ pfd = [t \in Threads |-> <<>>]
  /\ i = [t \in Threads |-> 1] /\ tmo = [t \in Threads |-> -1] /\ fdMax = [t \in Threads |-> 0]
  /\ ready = [t \in Threads |-> [in |-> {}, out |-> {}]]
  /\ ret = [t \in Threads |-> 0] /\ errno = [t \in Threads |-> "none"]
  /\ calls = [t \in Threads |-> 0]

Return(t, r, e) ==
  /\ ret' = [ret EXCEPT ![t] = r] /\ errno' = [errno EXCEPT ![t] = e]
  /\ pc' = [pc EXCEPT ![t] = "idle"]

\* poll(fds, nfds, timeout_ms) is entered: the timeout check, then
\* fdbuf_zero() of both sets.  The caller's array keeps whatever revents
\* it held before.
Call(t) ==
  /\ pc[t] = "idle" /\ calls[t] < MaxCalls
  /\ calls' = [calls EXCEPT ![t] = @ + 1]
  /\ \E p \in PollArrays, ms \in Timeouts :
       /\ pfd' = [pfd EXCEPT ![t] = p] /\ tmo' = [tmo EXCEPT ![t] = ms]
       /\ \/ /\ ms < -1 /\ Return(t, -1, "EINVAL")
             /\ UNCHANGED <<readfds, writefds, i, fdMax>>
          \/ /\ ms >= -1
             /\ readfds' = fdbuf_zero(readfds) /\ writefds' = fdbuf_zero(writefds)
             /\ i' = [i EXCEPT ![t] = 1] /\ fdMax' = [fdMax EXCEPT ![t] = 0]
             /\ pc' = [pc EXCEPT ![t] = IF Len(p) = 0 THEN "select" ELSE "convert"]
             /\ UNCHANGED <<ret, errno>>
  /\ UNCHANGED <<corrupt, ready>>

\* One iteration of the loop that turns pollfds into fd sets.
Convert(t) ==
  /\ pc[t] = "convert"
  /\ LET pf == pfd[t][i[t]]
         last == i[t] = Len(pfd[t])
     IN
     \/ /\ pf.fd < 0 /\ Return(t, -1, "EBADF")
        /\ UNCHANGED <<readfds, writefds, corrupt, i, fdMax>>
     \/ /\ pf.fd >= 0
        /\ \E r \in fdbuf_resize(readfds, pf.fd) :
           \/ /\ ~r.ok /\ Return(t, -1, "ENOMEM")
              /\ UNCHANGED <<readfds, writefds, corrupt, i, fdMax>>
           \/ /\ r.ok
              /\ \E w \in fdbuf_resize(writefds, pf.fd) :
                 \/ /\ ~w.ok /\ Return(t, -1, "ENOMEM")
                    /\ readfds' = r.buf
                    /\ UNCHANGED <<writefds, corrupt, i, fdMax>>
                 \/ /\ w.ok
                    /\ readfds' = FdSet(r.buf, pf.fd, "IN", pf.events)
                    /\ writefds' = FdSet(w.buf, pf.fd, "OUT", pf.events)
                    /\ corrupt' = (corrupt \/ OutOfBuf(r.buf, pf.fd, "IN", pf.events)
                                           \/ OutOfBuf(w.buf, pf.fd, "OUT", pf.events))
                    /\ fdMax' = [fdMax EXCEPT ![t] = IF pf.fd > @ THEN pf.fd ELSE @]
                    /\ i' = [i EXCEPT ![t] = @ + 1]
                    /\ pc' = [pc EXCEPT ![t] = IF last THEN "select" ELSE "convert"]
                    /\ UNCHANGED <<ret, errno>>
  /\ UNCHANGED <<pfd, tmo, ready, calls>>

\* select(fd_max + 1, readfds.set, writefds.set, NULL, tv): the kernel
\* keeps the ready bits below fd_max + 1 and clears the others, or fails
\* with EINTR leaving the sets as they were.  res <= 0 is returned as is.
\* With tv NULL (timeout_ms -1) it never times out: it returns only when
\* some fd is ready or a signal interrupts it.
Select(t) ==
  /\ pc[t] = "select"
  /\ LET seen(b) == {f \in b.set : f <= fdMax[t]} IN
     \/ \E rin \in SUBSET seen(readfds), rout \in SUBSET seen(writefds) :
          /\ readfds' = [readfds EXCEPT !.set = rin]
          /\ writefds' = [writefds EXCEPT !.set = rout]
          /\ ready' = [ready EXCEPT ![t] = [in |-> rin, out |-> rout]]
          /\ (rin = {} /\ rout = {}) => tmo[t] >= 0
          /\ IF rin = {} /\ rout = {}
             THEN Return(t, 0, errno[t])
             ELSE pc' = [pc EXCEPT ![t] = "collect"] /\ UNCHANGED <<ret, errno>>
     \/ Return(t, -1, "EINTR") /\ UNCHANGED <<readfds, writefds, ready>>
  /\ UNCHANGED <<corrupt, pfd, i, tmo, fdMax, calls>>

\* A plausible bug: counting ready events, as select() does, not entries.
CountReady_events(p) == MapThenSumSet(LAMBDA k : Cardinality(p[k].revents), DOMAIN p)

\* res += 1 for every entry whose revents is not 0.
CountReady(p) == Cardinality({k \in DOMAIN p : p[k].revents /= {}})

\* The recount: revents of every entry from FD_ISSET() on the sets.
Collect(t) ==
  /\ pc[t] = "collect"
  /\ LET p == [k \in DOMAIN pfd[t] |->
                 [pfd[t][k] EXCEPT !.revents =
                    {e \in pfd[t][k].events :
                       pfd[t][k].fd \in (IF e = "IN" THEN readfds ELSE writefds).set}]]
     IN  /\ pfd' = [pfd EXCEPT ![t] = p]
         /\ Return(t, CountReady(p), errno[t])
  /\ UNCHANGED <<readfds, writefds, corrupt, i, tmo, fdMax, ready, calls>>

Next == \E t \in Threads : Call(t) \/ Convert(t) \/ Select(t) \/ Collect(t)

Spec == Init /\ [][Next]_vars

-----------------------------------------------------------------------------
Asked(t, ev) == {pfd[t][k].fd : k \in {k \in DOMAIN pfd[t] : ev \in pfd[t][k].events}}
ReadyFor(t, ev) == IF ev = "IN" THEN ready[t].in ELSE ready[t].out
Returned(t) == pc[t] = "idle" /\ calls[t] > 0

(***************************************************************************)
(* SelectArgs: when a thread calls select(), the bits below fd_max + 1 of  *)
(* the static sets are exactly the fds its pollfds ask to read and to      *)
(* write, both buffers are large enough for fd_max, and no FD_SET() has    *)
(* written past a buffer.  It takes the zeroing, the growth in             *)
(* fdbuf_resize() with its cleared new area, and the conversion loop to    *)
(* agree, across calls that reuse the static buffers.                      *)
(***************************************************************************)
SelectArgs ==
  /\ ~corrupt
  /\ \A t \in Threads : pc[t] = "select" =>
       /\ {f \in readfds.set : f <= fdMax[t]} = Asked(t, "IN")
       /\ {f \in writefds.set : f <= fdMax[t]} = Asked(t, "OUT")
       /\ Len(pfd[t]) > 0 => fdMax[t] < 8 * readfds.alloc /\ fdMax[t] < 8 * writefds.alloc

(***************************************************************************)
(* PollResult (poll(2)): a call that returns n > 0 set the revents of      *)
(* every entry to the events it asked for that select() found ready on its *)
(* fd, and n is the number of entries with a non-zero revents, not the     *)
(* number of ready events select() counted.                                *)
(***************************************************************************)
PollResult ==
  \A t \in Threads : Returned(t) /\ ret[t] > 0 =>
    /\ \A k \in DOMAIN pfd[t] :
         pfd[t][k].revents = {e \in pfd[t][k].events : pfd[t][k].fd \in ReadyFor(t, e)}
    /\ ret[t] = Cardinality({k \in DOMAIN pfd[t] : pfd[t][k].revents /= {}})

(***************************************************************************)
(* PollContract (poll(2), which this function emulates): a call that       *)
(* returns 0 leaves no entry with a non-zero revents, whatever the caller  *)
(* left there before the call; an entry with a negative fd is ignored, so  *)
(* it never makes the call fail with EBADF.                                *)
(***************************************************************************)
PollContract ==
  \A t \in Threads : Returned(t) =>
    /\ ret[t] = -1 => errno[t] /= "EBADF"
    /\ ret[t] = 0 => \A k \in DOMAIN pfd[t] : pfd[t][k].revents = {}
=============================================================================
