----------------------------- MODULE PfFrontier -----------------------------
(***************************************************************************)
(* The data structures under the searches of pathfinding.c: the array of   *)
(* nodes, the open-addressing hash from states to nodes and the binary     *)
(* heap of node indices with back pointers.  Positions count from 1 and 0  *)
(* is PF_NONE.  The operations are the ones pf_emit_transition() and the   *)
(* search loop perform; a failure of realloc() or calloc() stops the       *)
(* search, after which the context can only be reset.                      *)
(* The array of nodes grows in one step with its contents (pf_grow_array() *)
(* keeps them); heuristic is folded into the priority.                     *)
(***************************************************************************)
EXTENDS Naturals, Sequences, SequencesExt

CONSTANTS State, NOWHERE,
          Priorities,    \* values of pf_priority(): a finite set of numbers
          HashOf,        \* pf_hash_state(): a number for every state
          FirstCapacity  \* 64: the first size of the hash, a power of two

VARIABLES nodes, hash, heap,
          popped,        \* result of the last pf_heap_pop()
          stopped        \* context->stopped, because memory ran out

pfVars == <<nodes, hash, heap, popped, stopped>>

PfInit == nodes = <<>> /\ hash = <<>> /\ heap = <<>> /\ popped = NOWHERE /\ stopped = FALSE

-----------------------------------------------------------------------------
(* The hash                                                                 *)

\* The slots that a lookup visits, from the one of the hash value on.
ProbeOrder(h, s) ==
  [k \in 1..Len(h) |-> ((HashOf[s] + k - 1) % Len(h)) + 1]

\* pf_hash_slot(): the first visited slot that is free or holds the state.
pf_hash_slot(h, ns, s) ==
  LET order == ProbeOrder(h, s)
      k == CHOOSE i \in DOMAIN order :
             /\ h[order[i]] = 0 \/ ns[h[order[i]]].state = s
             /\ \A j \in 1..(i - 1) : h[order[j]] # 0 /\ ns[h[order[j]]].state # s
  IN  order[k]

Slotted(h, ns, i) == [h EXCEPT ![pf_hash_slot(h, ns, ns[i].state)] = i]

\* pf_rebuild_hash(): every node is entered anew, in the order of the array.
pf_rebuild_hash(ns, capacity) ==
  FoldLeft(LAMBDA h, i : Slotted(h, ns, i),
           [k \in 1..capacity |-> 0], [i \in 1..Len(ns) |-> i])

\* pf_prepare_hash(): the capacity it asks for; no rebuild if that is the old one.
pf_prepare_hash(count, capacity) ==
  IF capacity = 0 THEN FirstCapacity
  ELSE IF count + 1 <= capacity \div 2 THEN capacity ELSE 2 * capacity

pf_find_node(s) ==
  IF hash = <<>> THEN 0 ELSE hash[pf_hash_slot(hash, nodes, s)]

-----------------------------------------------------------------------------
(* The heap.  State of a sift: the array of nodes and the heap.             *)

pf_node_before(ns, l, r) ==
  ns[l].priority < ns[r].priority \/ (ns[l].priority = ns[r].priority /\ l < r)

pf_heap_swap(c, l, r) ==
  [heap |-> [c.heap EXCEPT ![l] = c.heap[r], ![r] = c.heap[l]],
   nodes |-> [c.nodes EXCEPT ![c.heap[r]].heap_index = l, ![c.heap[l]].heap_index = r]]

RECURSIVE pf_heap_up(_, _), pf_heap_down(_, _)

pf_heap_up(c, pos) ==
  IF pos = 1 \/ ~pf_node_before(c.nodes, c.heap[pos], c.heap[pos \div 2]) THEN c
  ELSE pf_heap_up(pf_heap_swap(c, pos, pos \div 2), pos \div 2)

\* Mutant: the right child is not looked at.
DownLeftOnly(c, pos) ==
  LET left == 2 * pos
  IN  IF left <= Len(c.heap) /\ pf_node_before(c.nodes, c.heap[left], c.heap[pos])
      THEN pf_heap_down(pf_heap_swap(c, pos, left), left) ELSE c

pf_heap_down(c, pos) ==
  LET children == {k \in {2 * pos, 2 * pos + 1} : k <= Len(c.heap)}
      best == CHOOSE k \in children \cup {pos} :
                \A j \in (children \cup {pos}) \ {k} :
                  pf_node_before(c.nodes, c.heap[k], c.heap[j])
  IN  IF best = pos THEN c ELSE pf_heap_down(pf_heap_swap(c, pos, best), best)

pf_heap_push(ns, n) ==
  pf_heap_up([heap |-> Append(heap, n),
              nodes |-> [ns EXCEPT ![n].heap_index = Len(heap) + 1]], Len(heap) + 1)

Use(c) == nodes' = c.nodes /\ heap' = c.heap

-----------------------------------------------------------------------------
(* Operations                                                               *)

Fresh(s, p) == [state |-> s, priority |-> p, heap_index |-> 0, closed |-> FALSE]

Added(s, p) == Append(nodes, Fresh(s, p))

\* The hash after pf_prepare_hash(): rebuilt if it would be more than half full.
Prepared ==
  LET capacity == pf_prepare_hash(Len(nodes), Len(hash))
  IN  IF capacity = Len(hash) THEN hash ELSE pf_rebuild_hash(nodes, capacity)

\* The hash with the next node in it.
Entered(h, s) == [h EXCEPT ![pf_hash_slot(h, nodes, s)] = Len(nodes) + 1]

\* pf_emit_transition(), or the start of a search: a state is discovered.
Discover(s, p) ==
  /\ ~stopped /\ pf_find_node(s) = 0
  /\ hash' = Entered(Prepared, s)
  /\ Use(pf_heap_push(Added(s, p), Len(nodes) + 1))
  /\ UNCHANGED <<popped, stopped>>

\* There is no memory: for a larger hash (the old one stays) or for the array of
\* nodes, for that array after the hash has grown, or for the heap.
DiscoverFails(s, p) ==
  /\ ~stopped /\ pf_find_node(s) = 0 /\ stopped' = TRUE
  /\ \/ UNCHANGED <<hash, nodes>>
     \/ hash' = Prepared /\ UNCHANGED nodes
     \/ hash' = Entered(Prepared, s) /\ nodes' = Added(s, p)
  /\ UNCHANGED <<heap, popped>>

\* A cheaper route to a known state, which may leave its priority as it was (a greedy
\* search, or a sum at UINT64_MAX).
Better(n, p) == [nodes EXCEPT ![n].priority = p, ![n].closed = FALSE]

\* A closed node is queued again, a queued one moves up in the heap from the place
\* its back pointer names.
Improve(s, p) ==
  LET n == pf_find_node(s)
  IN  /\ ~stopped /\ n # 0 /\ p <= nodes[n].priority
      /\ Use(IF nodes[n].closed THEN pf_heap_push(Better(n, p), n)
             ELSE pf_heap_up([heap |-> heap, nodes |-> Better(n, p)], nodes[n].heap_index))
      /\ UNCHANGED <<hash, popped, stopped>>

\* There is no memory to queue a closed node again.
ImproveFails(s, p) ==
  LET n == pf_find_node(s)
  IN  /\ ~stopped /\ n # 0 /\ p <= nodes[n].priority /\ nodes[n].closed
      /\ nodes' = Better(n, p) /\ stopped' = TRUE
      /\ UNCHANGED <<hash, heap, popped>>

\* pf_heap_pop(), and the search closes the node.
pf_heap_pop ==
  LET n == heap[1]
      last == heap[Len(heap)]
      ns == [nodes EXCEPT ![n].heap_index = 0, ![n].closed = TRUE]
      rest == Front(heap)
  IN  /\ ~stopped /\ heap # <<>> /\ popped' = nodes[n].state
      /\ Use(IF rest = <<>> THEN [heap |-> rest, nodes |-> ns]
             ELSE pf_heap_down([heap |-> [rest EXCEPT ![1] = last],
                                nodes |-> [ns EXCEPT ![last].heap_index = 1]], 1))
      /\ UNCHANGED <<hash, stopped>>

\* pf_reset(): the hash is emptied and keeps its capacity.
pf_reset ==
  /\ nodes # <<>> \/ stopped
  /\ nodes' = <<>> /\ heap' = <<>> /\ popped' = NOWHERE /\ stopped' = FALSE
  /\ hash' = [k \in DOMAIN hash |-> 0]

PfNext ==
  \/ \E s \in State, p \in Priorities :
       Discover(s, p) \/ DiscoverFails(s, p) \/ Improve(s, p) \/ ImproveFails(s, p)
  \/ pf_heap_pop
  \/ pf_reset

-----------------------------------------------------------------------------

\* The structure seen through its own lookups.
QueueView ==
  [s \in State |-> LET n == pf_find_node(s)
                   IN  IF n = 0 \/ nodes[n].heap_index = 0 THEN NOWHERE
                       ELSE nodes[n].priority]

Queue == INSTANCE PriorityQueue
         WITH queue <- QueueView, order <- [i \in 1..Len(nodes) |-> nodes[i].state],
              taken <- popped

\* The array, the hash with its collisions and rebuilds, and the heap with its
\* back pointers behave, through every sequence of discoveries, improvements,
\* pops, resets and failed allocations, like the abstract priority queue: a state
\* is found exactly when it was discovered, and what is popped is the best.
FrontierImplementsQueue == Queue!QueueSpec
=============================================================================
