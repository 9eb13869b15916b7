----------------------------- MODULE MC_TcpListen -----------------------------
(* An instance of TcpListen for TLC: two clients and one leftover segment. *)
EXTENDS TcpListen

CONSTANTS c1, c2

MC_Clients == {c1, c2}

MC_Talkers == {c1}

(* An ACK of an earlier connection of c1 that just fits the next number.   *)
MC_Stale == {ToServer(c1, FALSE, FALSE, FALSE, 1, 3)}
=============================================================================
