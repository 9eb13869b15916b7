------------------------------ MODULE ByteStream ------------------------------
(***************************************************************************)
(* What the receiving side of a connection promises to the application: a  *)
(* reliable byte stream.  Bytes 0 .. N-1 arrive, the application takes     *)
(* them in order, each exactly once, the stream ends after the last, and   *)
(* the application is told so not before and gets no byte afterwards.      *)
(***************************************************************************)
EXTENDS Integers, Sequences

CONSTANT N        \* length of the stream

VARIABLES
    arrived,      \* how many bytes are there, taken or not
    taken,        \* the bytes the application has been given
    ended,        \* the end of the stream is known
    told          \* the application has been told the end

vars == <<arrived, taken, ended, told>>

Init == arrived = 0 /\ taken = <<>> /\ ended = FALSE /\ told = FALSE

(* More bytes, the end of the stream, or both.                             *)
Arrive ==
    /\ ~ended
    /\ arrived' \in arrived..N
    /\ ended' \in BOOLEAN
    /\ ended' => arrived' = N
    /\ UNCHANGED <<taken, told>>

Take ==
    /\ ~told
    /\ \E k \in 1..(arrived - Len(taken)) :
         taken' = taken \o [j \in 1..k |-> Len(taken) + j - 1]
    /\ UNCHANGED <<arrived, ended, told>>

Tell ==
    /\ ended
    /\ told' = TRUE
    /\ UNCHANGED <<arrived, taken, ended>>

Next == Arrive \/ Take \/ Tell

Spec == Init /\ [][Next]_vars
=============================================================================
