------------------------- MODULE MCWin32Socketpair -------------------------
(***************************************************************************)
(* win32_socketpair() with two ephemeral ports and, in the runs that       *)
(* choose it, another loopback address a local process may bind.           *)
(***************************************************************************)
EXTENDS Win32Socketpair

MCDomains == {"AF_INET", "AF_UNIX", "AF_INET6"}
=============================================================================
