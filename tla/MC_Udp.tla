-------------------------------- MODULE MC_Udp --------------------------------
(* An instance of Udp for TLC: two socks.                                  *)
EXTENDS Udp

CONSTANTS s1, s2, r1

MC_Socks == {s1, s2}

MC_Readers == {s1}

(* An empty datagram and another.                                          *)
MC_Arrivals == <<0, 1>>

MC_Peers == {r1}
=============================================================================
