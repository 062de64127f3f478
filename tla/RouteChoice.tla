----------------------------- MODULE RouteChoice -----------------------------
(***************************************************************************)
(* What the caller of socket_quic_client_create() may rely on, without     *)
(* threads, locks, time and sockets.  ranks holds, per task, the ranks of  *)
(* its candidates in the order in which they are tried; a candidate fails  *)
(* or is confirmed, and a task with a confirmed route tries no more.  The  *)
(* call returns a best confirmed route as soon as it likes, but nothing    *)
(* only if every candidate was tried in vain, or before it has begun.      *)
(* From then on nothing happens any more.                                  *)
(***************************************************************************)
EXTENDS Integers, Sequences

CONSTANTS Lane,      \* the tasks there may be
          NoRank,    \* the rank of no route
          Nobody     \* the answer that is no task

VARIABLES ranks,
          begun,      \* the candidates are final
          trying,     \* per task, the position of the candidate it tries, from 1
          confirmed,  \* per task, the rank of the route that it confirmed
          returned, answer

vars == <<ranks, begun, trying, confirmed, returned, answer>>

Init ==
  /\ begun = FALSE /\ returned = FALSE /\ answer = Nobody
  /\ trying = [t \in Lane |-> 1] /\ confirmed = [t \in Lane |-> NoRank]

\* Rendezvous: the candidates may still change.
Plan == ~begun /\ UNCHANGED <<begun, trying, confirmed, returned, answer>>

Begin == ~begun /\ begun' = TRUE /\ UNCHANGED <<ranks, trying, confirmed, returned, answer>>

Tries(t) ==
  /\ begun /\ ~returned /\ t \in DOMAIN ranks
  /\ confirmed[t] = NoRank /\ trying[t] <= Len(ranks[t])

Fail(t) ==
  /\ Tries(t)
  /\ trying' = [trying EXCEPT ![t] = @ + 1]
  /\ UNCHANGED <<ranks, begun, confirmed, returned, answer>>

Confirm(t) ==
  /\ Tries(t)
  /\ confirmed' = [confirmed EXCEPT ![t] = ranks[t][trying[t]]]
  /\ UNCHANGED <<ranks, begun, trying, returned, answer>>

ReturnBest(t) ==
  /\ begun /\ ~returned /\ confirmed[t] # NoRank
  /\ \A u \in Lane : confirmed[u] # NoRank => confirmed[t] <= confirmed[u]
  /\ returned' = TRUE /\ answer' = t
  /\ UNCHANGED <<ranks, begun, trying, confirmed>>

ReturnNothing ==
  /\ ~returned /\ \A t \in Lane : confirmed[t] = NoRank
  /\ begun => \A t \in DOMAIN ranks : trying[t] > Len(ranks[t])
  /\ returned' = TRUE /\ begun' = TRUE
  /\ UNCHANGED <<ranks, trying, confirmed, answer>>

Next ==
  \/ Plan \/ Begin \/ ReturnNothing
  \/ \E t \in Lane : Fail(t) \/ Confirm(t) \/ ReturnBest(t)

Spec == Init /\ [][Next]_vars

=============================================================================
