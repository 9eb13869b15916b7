---------------------------- MODULE MC_Neighbour ----------------------------
(* Two hosts on the network of 10.0.1.4, of which the gateway may change   *)
(* its hardware address; a destination on that network and one beyond it.  *)
EXTENDS Neighbour

MCUs           == <<10, 0, 1, 4>>
MCLoop         == <<127, 0, 0, 1>>
MCTap          == <<10, 0, 1, 5>>
MCDestinations == {<<10, 0, 1, 7>>, <<93, 1, 0, 10>>}
MCPairs        == {[sip |-> MCTap, hi |-> 1, lo |-> 1],
                   [sip |-> MCTap, hi |-> 2, lo |-> 2],
                   [sip |-> <<10, 0, 1, 7>>, hi |-> 3, lo |-> 3]}
=============================================================================
