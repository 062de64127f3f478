----------------------------- MODULE MCProcess -----------------------------
(* Lists of one and of two processes.                                       *)
EXTENDS Process

OneProcess == <<"p1">>
TwoProcesses == <<"p1", "p2">>

=============================================================================
