------------------------------ MODULE MC_TcpClose ------------------------------
(* Instance of TcpClose for TLC; the constants are set in the .cfg file.    *)
EXTENDS TcpClose
=============================================================================
