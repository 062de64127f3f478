----------------------------- MODULE Pathfinding -----------------------------
(***************************************************************************)
(* One call of atrinik_pf_search() (pathfinding/pathfinding.c): A*,        *)
(* Dijkstra, breadth-first and greedy best-first search over an adapter's  *)
(* graph, with budgets, cancellation, partial results and reopening of     *)
(* closed nodes.                                                           *)
(*                                                                         *)
(* The hash table gives every state one node, so a node is its state here. *)
(* The binary heap is the set of its nodes, and popping takes the node     *)
(* that pf_node_before() puts first.  A transition's data is its position  *)
(* in the list that the adapter enumerates for a state.                    *)
(* Callbacks are functions of the state, so a node's heuristic and partial *)
(* rank need no variable of their own.                                     *)
(***************************************************************************)
EXTENDS Integers, Sequences, FiniteSets

CONSTANTS State, Start, NONE,
          UINT64_MAX,
          Adapters,   \* records [succ, goal, heuristic, rank, callbacks,
                      \* remaining]; see Admissible for the last field
          Options,    \* records of atrinik_pf_options
          Faults      \* which of "cancel", "memory", "adapter" may happen

Cost == 0..UINT64_MAX
Algorithm == {"ASTAR", "DIJKSTRA", "BREADTH_FIRST", "GREEDY_BEST_FIRST"}
Transition == [state : State, cost : Cost]

WellFormedAdapter(a) ==
  /\ \A s \in State : /\ a.succ[s] \in Seq(Transition)
                      /\ a.heuristic[s] \in Cost /\ a.rank[s] \in Cost
                      /\ a.remaining[s] \in Nat
  /\ a.goal \subseteq State

WellFormedOptions(o) ==
  /\ o.algorithm \in Algorithm
  /\ o.return_partial \in BOOLEAN
  /\ {o.max_expanded, o.max_generated, o.max_transitions, o.max_frontier}
       \subseteq Nat

ASSUME SearchAssumption ==
  /\ Start \in State /\ NONE \notin State
  /\ UINT64_MAX \in Nat \ {0}
  /\ \A a \in Adapters : WellFormedAdapter(a)
  /\ \A o \in Options : WellFormedOptions(o)

VARIABLES
  adapter, options,             \* the arguments, fixed
  phase,                        \* "start", "loop", "expand" or "done"
  known, closed, heap,          \* sets of nodes
  cost, priority, parent, transition_data, sequence,   \* fields of a node
  active,                       \* active_node
  emitted,                      \* transitions of active emitted so far
  expanded, examined,           \* counted against their budgets; the third
                                \* such metric, `generated', is |known|
  partial,                      \* partial_node
  status, termination, final    \* the result; final is the end of its route

args == <<adapter, options>>
nodeVars == <<known, closed, heap, cost, priority, parent, transition_data,
              sequence, partial>>
resultVars == <<status, termination, final>>
vars == <<args, phase, nodeVars, active, emitted, expanded, examined, resultVars>>

UsesHeuristic == options.algorithm \in {"ASTAR", "GREEDY_BEST_FIRST"}
Heuristic(s) == IF UsesHeuristic THEN adapter.heuristic[s] ELSE 0

pf_priority(c, h) ==
  CASE options.algorithm = "GREEDY_BEST_FIRST" -> h
    [] options.algorithm = "ASTAR" -> IF UINT64_MAX - c < h THEN UINT64_MAX
                                      ELSE c + h
    [] OTHER -> c

pf_node_before(l, r) ==
  \/ priority[l] < priority[r]
  \/ priority[l] = priority[r] /\ Heuristic(l) < Heuristic(r)
  \/ /\ priority[l] = priority[r] /\ Heuristic(l) = Heuristic(r)
     /\ sequence[l] < sequence[r]

\* The root of the heap.
IsTop(n) == n \in heap /\ \A m \in heap \ {n} : pf_node_before(n, m)

\* pf_consider_partial(): the partial node after `n' got cost c and sequence q.
pf_consider_partial(n, c, q) ==
  IF ~options.return_partial THEN NONE
  ELSE IF partial = NONE \/ adapter.rank[n] < adapter.rank[partial] THEN n
  ELSE IF adapter.rank[n] > adapter.rank[partial] THEN partial
  ELSE LET current == IF partial = n THEN c ELSE cost[partial]
       IN  IF c < current \/ (c = current /\ q < sequence[partial])
           THEN n ELSE partial

\* Mutant: off by one.
FrontierOneMore ==
  options.max_frontier = 0 \/ Cardinality(heap) <= options.max_frontier

\* pf_frontier_available()
pf_frontier_available ==
  options.max_frontier = 0 \/ Cardinality(heap) < options.max_frontier

\* A metric is counted where a budget compares it with a limit.
Count(metric, budget) == IF budget = 0 THEN metric ELSE metric + 1

\* The cost of the i-th transition that the adapter emits for u.
CostOf(u, i) ==
  IF options.algorithm = "BREADTH_FIRST" THEN 1 ELSE adapter.succ[u][i].cost

\* The checks that atrinik_pf_search() makes of its arguments.
ValidInput ==
  /\ UsesHeuristic => "heuristic" \in adapter.callbacks
  /\ options.return_partial => "partial_rank" \in adapter.callbacks

-----------------------------------------------------------------------------
Init ==
  /\ adapter \in Adapters /\ options \in Options
  /\ phase = "start"
  /\ known = {} /\ closed = {} /\ heap = {}
  /\ cost = [s \in State |-> 0]
  /\ priority = [s \in State |-> 0]
  /\ parent = [s \in State |-> NONE]
  /\ transition_data = [s \in State |-> 0]
  /\ sequence = [s \in State |-> 0]
  /\ active = NONE /\ emitted = 0 /\ expanded = 0 /\ examined = 0
  /\ partial = NONE
  /\ status = "NONE" /\ termination = "NONE" /\ final = NONE

\* pf_finish_search(): the route of `node', or that of the partial node, or
\* none.  Storage for the route may be missing.
pf_finish_search(st, term, node) ==
  LET salvage == /\ node = NONE /\ partial # NONE
                 /\ term \in {"EXHAUSTED", "LIMIT", "CANCELLED"}
      end     == IF salvage THEN partial ELSE node
  IN  /\ phase' = "done"
      /\ \/ /\ final' = end /\ termination' = term
            /\ status' = IF salvage THEN "PARTIAL" ELSE st
         \/ /\ "memory" \in Faults /\ end # NONE
            /\ final' = NONE
            /\ status' = "OUT_OF_MEMORY" /\ termination' = "OUT_OF_MEMORY"

RejectInput ==
  /\ phase = "start" /\ ~ValidInput
  /\ phase' = "done"
  /\ status' = "INVALID_INPUT" /\ termination' = "INVALID_INPUT"
  /\ UNCHANGED <<args, nodeVars, active, emitted, expanded, examined, final>>

\* The start node, in the heap at cost 0.
Begin ==
  /\ phase = "start" /\ ValidInput
  /\ phase' = "loop"
  /\ known' = {Start} /\ heap' = {Start}
  /\ priority' = [priority EXCEPT ![Start] = pf_priority(0, Heuristic(Start))]
  /\ partial' = pf_consider_partial(Start, 0, 0)
  /\ UNCHANGED <<args, closed, cost, parent, transition_data, sequence, active,
                 emitted, expanded, examined, resultVars>>

BeginOutOfMemory ==
  /\ phase = "start" /\ ValidInput /\ "memory" \in Faults
  /\ pf_finish_search("OUT_OF_MEMORY", "OUT_OF_MEMORY", NONE)
  /\ UNCHANGED <<args, nodeVars, active, emitted, expanded, examined>>

-----------------------------------------------------------------------------
(* The loop of atrinik_pf_search()                                          *)

\* Mutant: the loop ends with one node left.
ExhaustedEarly ==
  /\ phase = "loop" /\ Cardinality(heap) <= 1
  /\ pf_finish_search("NO_PATH", "EXHAUSTED", NONE)
  /\ UNCHANGED <<args, nodeVars, active, emitted, expanded, examined>>

Exhausted ==
  /\ phase = "loop" /\ heap = {}
  /\ pf_finish_search("NO_PATH", "EXHAUSTED", NONE)
  /\ UNCHANGED <<args, nodeVars, active, emitted, expanded, examined>>

LoopCancelled ==
  /\ phase = "loop" /\ heap # {} /\ "cancel" \in Faults
  /\ pf_finish_search("CANCELLED", "CANCELLED", NONE)
  /\ UNCHANGED <<args, nodeVars, active, emitted, expanded, examined>>

\* pf_heap_pop() and what follows for a goal, at the expansion budget, or else.
Pop(n) ==
  /\ phase = "loop" /\ IsTop(n)
  /\ heap' = heap \ {n}
  /\ UNCHANGED <<args, known, cost, priority, parent, transition_data,
                 sequence, partial, emitted, examined>>

PopGoal(n) ==
  /\ Pop(n) /\ n \in adapter.goal
  /\ pf_finish_search("FOUND", "GOAL", n)
  /\ UNCHANGED <<closed, active, expanded>>

PopAtLimit(n) ==
  /\ Pop(n) /\ n \notin adapter.goal
  /\ options.max_expanded # 0 /\ expanded >= options.max_expanded
  /\ pf_finish_search("LIMIT_REACHED", "LIMIT", NONE)
  /\ UNCHANGED <<closed, active, expanded>>

Expand(n) ==
  /\ phase = "loop" /\ IsTop(n) /\ n \notin adapter.goal
  /\ ~(options.max_expanded # 0 /\ expanded >= options.max_expanded)
  /\ heap' = heap \ {n}
  /\ closed' = closed \cup {n}
  /\ expanded' = Count(expanded, options.max_expanded)
  /\ active' = n /\ emitted' = 0
  /\ phase' = "expand"
  /\ UNCHANGED <<args, known, cost, priority, parent, transition_data,
                 sequence, partial, examined, resultVars>>

-----------------------------------------------------------------------------
(* pf_emit_transition(), called by the adapter for the next transition of   *)
(* the active node.  A false return makes the enumeration end, and          *)
(* the search returns with the reason.                                      *)

Emitting == phase = "expand" /\ emitted < Len(adapter.succ[active])
Emission == adapter.succ[active][emitted + 1]
StepCost == CostOf(active, emitted + 1)

AtTransitionLimit ==
  options.max_transitions # 0 /\ examined >= options.max_transitions

Overflows == UINT64_MAX - cost[active] < StepCost
tentative_cost == cost[active] + StepCost

\* The emission passes the checks and is counted.
Examine ==
  /\ Emitting /\ ~AtTransitionLimit
  /\ examined' = Count(examined, options.max_transitions)

Stop(st, term) ==
  /\ pf_finish_search(st, term, NONE)
  /\ active' = NONE
  /\ UNCHANGED <<args, nodeVars, emitted, expanded>>

EmitCancelled ==
  /\ Emitting /\ "cancel" \in Faults
  /\ Stop("CANCELLED", "CANCELLED")
  /\ UNCHANGED examined

EmitTransitionLimit ==
  /\ Emitting /\ AtTransitionLimit
  /\ Stop("LIMIT_REACHED", "LIMIT")
  /\ UNCHANGED examined

EmitOverflow ==
  /\ Examine /\ Overflows
  /\ Stop("COST_OVERFLOW", "COST_OVERFLOW")

IsNew == Emission.state \notin known
\* Mutant: an equally good way counts as better.
IsNotWorse == ~IsNew /\ tentative_cost <= cost[Emission.state]

\* Mutant: closed nodes are final.
IsBetterAndOpen ==
  /\ ~IsNew /\ Emission.state \notin closed
  /\ tentative_cost < cost[Emission.state]

IsBetter == ~IsNew /\ tentative_cost < cost[Emission.state]

EmitNotBetter ==
  /\ Examine /\ ~Overflows /\ ~IsNew /\ ~IsBetter
  /\ emitted' = emitted + 1
  /\ UNCHANGED <<args, phase, nodeVars, active, expanded, resultVars>>

GeneratedLimit ==
  options.max_generated # 0 /\ Cardinality(known) >= options.max_generated

\* A new node past a budget, or a closed node that cannot be reopened.
EmitFrontierLimit ==
  /\ Examine /\ ~Overflows
  /\ \/ IsNew /\ (GeneratedLimit \/ ~pf_frontier_available)
     \/ IsBetter /\ Emission.state \in closed /\ ~pf_frontier_available
  /\ Stop("LIMIT_REACHED", "LIMIT")

\* Memory runs out for a new node or for the heap.  What pf_add_node() may
\* already have stored is not read again before the next search resets it.
EmitOutOfMemory ==
  /\ Examine /\ ~Overflows /\ "memory" \in Faults
  /\ \/ IsNew /\ ~GeneratedLimit /\ pf_frontier_available
     \/ IsBetter /\ Emission.state \in closed /\ pf_frontier_available
  /\ Stop("OUT_OF_MEMORY", "OUT_OF_MEMORY")

\* Mutant: the data of an earlier transition is kept.
SetNodeKeepsData(n) ==
  /\ cost' = [cost EXCEPT ![n] = tentative_cost]
  /\ priority' = [priority EXCEPT ![n] = pf_priority(tentative_cost, Heuristic(n))]
  /\ parent' = [parent EXCEPT ![n] = active]
  /\ transition_data' = IF n \in known THEN transition_data
                        ELSE [transition_data EXCEPT ![n] = emitted + 1]
  /\ emitted' = emitted + 1
  /\ heap' = heap \cup {n}

\* The node of state n is entered or updated with the tentative cost.
SetNode(n) ==
  /\ cost' = [cost EXCEPT ![n] = tentative_cost]
  /\ priority' = [priority EXCEPT ![n] = pf_priority(tentative_cost, Heuristic(n))]
  /\ parent' = [parent EXCEPT ![n] = active]
  /\ transition_data' = [transition_data EXCEPT ![n] = emitted + 1]
  /\ emitted' = emitted + 1
  /\ heap' = heap \cup {n}

Discover ==
  LET n == Emission.state
      q == Cardinality(known)
  IN  /\ Examine /\ ~Overflows /\ IsNew /\ ~GeneratedLimit
      /\ pf_frontier_available
      /\ SetNode(n)
      /\ known' = known \cup {n}
      /\ sequence' = [sequence EXCEPT ![n] = q]
      /\ partial' = pf_consider_partial(n, tentative_cost, q)
      /\ UNCHANGED <<args, phase, closed, active, expanded, resultVars>>

\* Mutant: the partial node is chosen among new nodes only.
ImproveForgetsPartial ==
  LET n == Emission.state
  IN  /\ Examine /\ ~Overflows /\ IsBetter
      /\ n \in closed => pf_frontier_available
      /\ SetNode(n)
      /\ closed' = closed \ {n}
      /\ UNCHANGED <<args, phase, known, sequence, active, expanded, partial,
                     resultVars>>

\* A cheaper way to a known node; a closed node goes back into the heap.
Improve ==
  LET n == Emission.state
  IN  /\ Examine /\ ~Overflows /\ IsBetter
      /\ n \in closed => pf_frontier_available
      /\ SetNode(n)
      /\ closed' = closed \ {n}
      /\ partial' = pf_consider_partial(n, tentative_cost, sequence[n])
      /\ UNCHANGED <<args, phase, known, sequence, active, expanded, resultVars>>

EnumerationEnds ==
  /\ phase = "expand" /\ emitted = Len(adapter.succ[active])
  /\ phase' = "loop" /\ active' = NONE
  /\ UNCHANGED <<args, nodeVars, emitted, expanded, examined, resultVars>>

\* The adapter's neighbors callback reports a failure of its own.
AdapterFails ==
  /\ phase = "expand" /\ "adapter" \in Faults
  /\ Stop("ADAPTER_ERROR", "ADAPTER_ERROR")
  /\ UNCHANGED examined

Returned == phase = "done" /\ UNCHANGED vars

Emit ==
  \/ EmitTransitionLimit \/ EmitOverflow \/ EmitNotBetter
  \/ EmitFrontierLimit \/ Discover \/ Improve

\* What the search does of itself ...
Step ==
  \/ RejectInput \/ Begin \/ Exhausted
  \/ \E n \in State : PopGoal(n) \/ PopAtLimit(n) \/ Expand(n)
  \/ Emit \/ EnumerationEnds

\* ... and what callbacks and the allocator may do to it.
Fault ==
  \/ BeginOutOfMemory \/ LoopCancelled
  \/ EmitCancelled \/ EmitOutOfMemory \/ AdapterFails

Next == Step \/ Fault \/ Returned

Spec == Init /\ [][Next]_vars

\* The search runs in the caller's thread: while it can go on, it does, and no
\* cancellation or failure has to come to its help.
FairSpec == Spec /\ WF_vars(Step)

-----------------------------------------------------------------------------
(* Properties                                                               *)

\* The nodes, the counters and the outcome keep their types: costs and priorities
\* stay within 64 bits because pf_priority() saturates and pf_emit_transition()
\* refuses a sum that would overflow.
TypeOK ==
  /\ WellFormedAdapter(adapter) /\ WellFormedOptions(options)
  /\ phase \in {"start", "loop", "expand", "done"}
  /\ known \in SUBSET State /\ closed \in SUBSET State /\ heap \in SUBSET State
  /\ cost \in [State -> Cost] /\ priority \in [State -> Cost]
  /\ parent \in [State -> State \cup {NONE}]
  /\ transition_data \in [State -> Nat]
  /\ sequence \in [State -> Nat]
  /\ active \in State \cup {NONE} /\ (phase = "expand" => active \in State)
  /\ emitted \in Nat /\ expanded \in Nat /\ examined \in Nat
  /\ partial \in State \cup {NONE} /\ final \in State \cup {NONE}

\* pf_build_path() follows parent links until it meets PF_NONE.  There is
\* always an end to be met: every set of nodes has a member whose parent lies
\* outside it, although parents are re-assigned and steps may cost nothing.
ParentsAcyclic ==
  \A S \in (SUBSET known) \ {{}} : \E s \in S : parent[s] \notin S

LastStepIsReal(s) ==
  /\ parent[s] \in known
  /\ transition_data[s] \in 1..Len(adapter.succ[parent[s]])
  /\ adapter.succ[parent[s]][transition_data[s]].state = s
  /\ cost[parent[s]] + CostOf(parent[s], transition_data[s]) <= cost[s]

\* The links lead back to the start over transitions that the adapter emitted,
\* and the data of a step belongs to the transition the step takes.  The cost
\* of a node covers its last step (it is larger if the parent was improved
\* since).
RouteIsReal == \A s \in known \ {Start} : LastStepIsReal(s)

\* What pf_build_path() returns is a route: following the parents comes to an
\* end, and every step is a transition that the adapter emitted.
RoutesAreReal == ParentsAcyclic /\ RouteIsReal

\* Between two expansions every node is either closed or waiting in the heap.
ClosedOrQueued ==
  phase \in {"loop", "expand"} =>
    known = closed \cup heap /\ closed \cap heap = {}

\* The heap holds at most max_frontier nodes and at most max_generated nodes
\* are generated, also when closed nodes are reopened.
BudgetsHold ==
  /\ options.max_generated # 0 => Cardinality(known) <= options.max_generated
  /\ options.max_frontier # 0 => Cardinality(heap) <= options.max_frontier
  /\ options.max_expanded # 0 => expanded <= options.max_expanded
  /\ options.max_transitions # 0 => examined <= options.max_transitions

AtLeastAsGood(p, s) ==
  \/ adapter.rank[p] < adapter.rank[s]
  \/ adapter.rank[p] = adapter.rank[s] /\ cost[p] < cost[s]
  \/ /\ adapter.rank[p] = adapter.rank[s] /\ cost[p] = cost[s]
     /\ sequence[p] <= sequence[s]

\* The partial node is the best of all generated nodes by rank, then by cost,
\* then by age, at all times: a node that became cheaper is considered again.
PartialIsBest ==
  options.return_partial /\ phase # "start" /\ known # {} =>
    /\ partial \in known
    /\ \A s \in known : AtLeastAsGood(partial, s)

\* "No path" is the truth: the generated nodes contain the start and all
\* successors of their own, and no goal.
NoPathIsTrue ==
  termination = "EXHAUSTED" =>
    /\ Start \in known /\ known \cap adapter.goal = {}
    /\ \A u \in known : \A i \in 1..Len(adapter.succ[u]) :
         adapter.succ[u][i].state \in known

(* Optimality.  adapter.remaining is not seen by the code: it is a witness  *)
(* for the admissibility of the heuristic, a lower bound on the cost from a *)
(* state to a goal that the heuristic does not exceed.                      *)
Admissible ==
  /\ \A s \in State : Heuristic(s) <= adapter.remaining[s]
  /\ \A s \in adapter.goal : adapter.remaining[s] = 0
  /\ \A u \in State : \A i \in 1..Len(adapter.succ[u]) :
       adapter.remaining[u]
         <= CostOf(u, i) + adapter.remaining[adapter.succ[u][i].state]

\* A lower bound on the cost of reaching v from the start, read off the state
\* in which the search stopped.
LowerBound(v) ==
  LET beyond == cost[final] - adapter.remaining[v]
  IN  IF v \in known /\ cost[v] < beyond THEN cost[v] ELSE beyond

\* With an admissible heuristic (Dijkstra and breadth-first search use none)
\* no route to any goal is cheaper than the one found, even if the heuristic
\* is inconsistent and closed nodes had to be reopened.  The evidence: either
\* the found cost is at most remaining[Start], or LowerBound is 0 at the start,
\* grows along every transition by no more than its cost, and is the
\* found cost at every goal.
FoundIsOptimal ==
  /\ status = "FOUND" /\ options.algorithm # "GREEDY_BEST_FIRST"
  /\ Admissible
  => \/ cost[final] <= adapter.remaining[Start]
     \/ /\ LowerBound(Start) = 0
        /\ \A u \in State : \A i \in 1..Len(adapter.succ[u]) :
             LowerBound(adapter.succ[u][i].state)
               <= LowerBound(u) + CostOf(u, i)
        /\ \A g \in adapter.goal : LowerBound(g) >= cost[final]

\* Every search comes to an end, also with steps of cost 0 and reopening.
SearchEnds == <>(phase = "done")

-----------------------------------------------------------------------------
(* The inductive invariant behind the properties.                           *)

ControlInv ==
  /\ phase = "start" => known = {} /\ closed = {} /\ heap = {} /\ partial = NONE
  /\ phase \in {"loop", "expand"} => Start \in known
  /\ phase = "expand" => active \in closed /\ emitted <= Len(adapter.succ[active])
  /\ phase # "done" => status = "NONE" /\ termination = "NONE"

\* The start is never improved; priorities follow costs; goals are not closed.
NodeInv ==
  /\ cost[Start] = 0 /\ parent[Start] = NONE
  /\ \A s \in known : priority[s] = pf_priority(cost[s], Heuristic(s))
  /\ closed \cup heap \subseteq known
  /\ closed \cap adapter.goal = {}
  /\ IsFiniteSet(known)

Relaxed(u, i) ==
  /\ adapter.succ[u][i].state \in known
  /\ cost[adapter.succ[u][i].state] <= cost[u] + CostOf(u, i)

\* Closed nodes have passed their cost on over all their transitions; the
\* active one over those that were emitted.
RelaxedInv ==
  phase \in {"loop", "expand"} =>
    \A u \in closed : \A i \in 1..Len(adapter.succ[u]) :
      (phase = "expand" /\ u = active => i <= emitted) => Relaxed(u, i)

\* What the search knows when it returns from the loop.
OutcomeInv ==
  /\ termination = "EXHAUSTED" \/ status = "FOUND" =>
       /\ Start \in known
       /\ \A u \in closed : \A i \in 1..Len(adapter.succ[u]) : Relaxed(u, i)
  /\ termination = "EXHAUSTED" => known = closed
  /\ status = "FOUND" =>
       /\ final \in known \cap adapter.goal
       /\ known = closed \cup heap \cup {final}
       /\ \A m \in heap : priority[final] <= priority[m]

IInv ==
  /\ TypeOK /\ ControlInv /\ NodeInv /\ RouteIsReal /\ ParentsAcyclic
  /\ ClosedOrQueued /\ RelaxedInv /\ PartialIsBest /\ OutcomeInv

=============================================================================
