------------------------------ MODULE MCPollEmu ------------------------------
(***************************************************************************)
(* The poll() emulation with fds on both sides of the default 2048-fd      *)
(* buffer (256 bytes, of which fdbuf_resize() keeps 32 spare).             *)
(***************************************************************************)
EXTENDS PollEmu

\* An invalid fd, a small one, and one that needs a 512-byte buffer.
MCFdVals == {-1, 5, 2048}

\* An invalid timeout, "wait forever" (tv NULL), and a timeout; every
\* timeout >= 0 takes the same path, only tv's value differs.
MCTimeouts == {-2, -1, 0}

\* Valid fds only: a small one and one past the default buffer.
MCFdValsValid == {5, 2048}
=============================================================================
