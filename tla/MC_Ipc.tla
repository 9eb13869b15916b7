-------------------------------- MODULE MC_Ipc --------------------------------
(* An instance of Ipc for TLC: two applications that open a socket, and a  *)
(* server that accepts and closes as well and whose writes are too large   *)
(* for one read of the stack, by little or by much.  The end of a write    *)
(* may read as nothing, as a close of the first socket of another          *)
(* application, or as a write whose length is more than was sent.          *)
EXTENDS Ipc

CONSTANTS p1, p2, p3

MC_Procs == {p1, p2, p3}

MC_Calls == [p \in MC_Procs |->
                IF p = p2
                THEN {<<"ACCEPT", 1, FALSE>>, <<"CLOSE", 1, FALSE>>,
                      <<"WRITE", 2, FALSE>>, <<"WRITE", 2, TRUE>>}
                ELSE {}]

MC_Leftovers ==
    {[op |-> "none", pid |-> p2, fd |-> 0, size |-> 1, more |-> FALSE],
     [op |-> "CLOSE", pid |-> p1, fd |-> 1, size |-> 1, more |-> FALSE],
     [op |-> "WRITE", pid |-> p2, fd |-> 1, size |-> 1, more |-> TRUE]}
=============================================================================
