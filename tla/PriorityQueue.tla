---------------------------- MODULE PriorityQueue ----------------------------
(***************************************************************************)
(* What the frontier of a search promises (and what module Pathfinding     *)
(* takes for granted): a state is queued at most once, its priority only   *)
(* improves, and the state that is taken has the least priority and, among *)
(* equals, was discovered first (pf_node_before()).                        *)
(***************************************************************************)
EXTENDS Naturals, Sequences, SequencesExt

CONSTANTS State, NOWHERE, Priorities

VARIABLES queue,   \* priority of each queued state, NOWHERE of the others
          order,   \* states in the order of their discovery
          taken    \* the state taken last

queueVars == <<queue, order, taken>>

Queued == {s \in State : queue[s] # NOWHERE}
Position(s) == CHOOSE i \in 1..Len(order) : order[i] = s

Before(s, t) ==
  queue[s] < queue[t] \/ (queue[s] = queue[t] /\ Position(s) < Position(t))

QueueInit ==
  queue = [s \in State |-> NOWHERE] /\ order = <<>> /\ taken = NOWHERE

Discovered(s) == order' = IF s \in Range(order) THEN order ELSE Append(order, s)

Insert(s, p) ==
  /\ s \notin Queued /\ queue' = [queue EXCEPT ![s] = p]
  /\ Discovered(s) /\ UNCHANGED taken

Decrease(s, p) ==
  /\ s \in Queued /\ p < queue[s] /\ queue' = [queue EXCEPT ![s] = p]
  /\ UNCHANGED <<order, taken>>

Take(s) ==
  /\ s \in Queued /\ \A t \in Queued \ {s} : Before(s, t)
  /\ queue' = [queue EXCEPT ![s] = NOWHERE] /\ taken' = s /\ UNCHANGED order

\* A state is discovered, but there is no memory left to queue it.
Lose(s) == s \notin Queued /\ Discovered(s) /\ UNCHANGED <<queue, taken>>

Clear == queue' = [s \in State |-> NOWHERE] /\ order' = <<>> /\ taken' = NOWHERE

QueueNext ==
  \/ \E s \in State, p \in Priorities : Insert(s, p) \/ Decrease(s, p)
  \/ \E s \in State : Take(s) \/ Lose(s)
  \/ Clear

QueueSpec == QueueInit /\ [][QueueNext]_queueVars
=============================================================================
