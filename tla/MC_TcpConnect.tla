----------------------------- MODULE MC_TcpConnect -----------------------------
(* Instances of TcpConnect for TLC; the constants are set in the .cfg files. *)
EXTENDS TcpConnect
=============================================================================
