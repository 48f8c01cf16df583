--------------------------- MODULE MCConnections ---------------------------
(***************************************************************************)
(* Two data servers, a parity server and two client programs, for TLC.     *)
(***************************************************************************)
EXTENDS Connections

CONSTANTS d1, d2, q1, a, b, c1, c2

Ask(p, s, o) == [prog |-> p, srv |-> s, op |-> o]

\* Degraded reads that wait for each other's servers, a read that needs a worker of
\* a server whose handler waits, and writes of two programs that share a stub.
MCRequests ==
  (c1 :> {Ask(a, d1, "degrade_read"), Ask(a, d1, "write")}) @@
  (c2 :> {Ask(b, d2, "degrade_read"), Ask(b, d1, "read"), Ask(b, d1, "write")})
=============================================================================
