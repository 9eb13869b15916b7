------------------------------ MODULE MC_TcpRecv ------------------------------
(* Instances of TcpRecv for TLC; the constants are set in the .cfg files.   *)
EXTENDS TcpRecv
=============================================================================
