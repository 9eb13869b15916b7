-------------------------------- MODULE Backlog --------------------------------
(***************************************************************************)
(* What a listening socket promises: a connection is opened, its client    *)
(* takes it for established, the stack does, and accept hands it out; one  *)
(* after the other, each once, and nothing is handed out that was not      *)
(* completed.  In which order accept hands them out is not promised.       *)
(*                                                                         *)
(* broken takes back the promise about accept, and nothing else.           *)
(***************************************************************************)
EXTENDS Sequences

CONSTANTS
    Clients,
    Socks       \* whatever accept may hand out when the promise is broken

VARIABLES
    opened, answered, completed,  \* the clients that are so far
    accepted,                     \* what accept has handed out
    broken

connVars == <<opened, answered, completed>>
vars == <<connVars, accepted, broken>>

Init ==
    /\ opened = {} /\ answered = {} /\ completed = {}
    /\ accepted = << >> /\ broken = FALSE

Open(c) ==
    /\ c \notin opened
    /\ opened' = opened \cup {c}
    /\ UNCHANGED <<answered, completed, accepted>>

Answer(c) ==
    /\ c \in opened \ answered
    /\ answered' = answered \cup {c}
    /\ UNCHANGED <<opened, completed, accepted>>

Complete(c) ==
    /\ c \in answered \ completed
    /\ completed' = completed \cup {c}
    /\ UNCHANGED <<opened, answered, accepted>>

HandOut(c) ==
    /\ ~broken => /\ c \in completed
                  /\ \A k \in DOMAIN accepted : accepted[k] # c
    /\ accepted' = Append(accepted, c)
    /\ UNCHANGED connVars

Break == UNCHANGED <<connVars, accepted>>

Next ==
    /\ \/ \E c \in Clients : Open(c) \/ Answer(c) \/ Complete(c)
       \/ \E c \in Socks : HandOut(c)
       \/ Break
    /\ broken' \in {broken, TRUE}

Spec == Init /\ [][Next]_vars
=============================================================================
