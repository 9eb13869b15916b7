------------------------------ MODULE MC_TcpSend ------------------------------
(* Instances of TcpSend for TLC; the constants are set in the .cfg files.   *)
EXTENDS TcpSend
=============================================================================
