------------------------------ MODULE Reachable ------------------------------
(***************************************************************************)
(* atrinik_pf_reachable(): every state that can be reached from the start, *)
(* breadth first.  The array of nodes is at once the queue: `cursor' is    *)
(* the node that is expanded, the ones behind it wait.  The adapter emits  *)
(* the successors of a state one at a time; budgets, cancellation and      *)
(* failures stop the call at any of them.  Budgets of 0 are none.          *)
(***************************************************************************)
EXTENDS Naturals, Sequences, SequencesExt

CONSTANTS Place, StartPlace,
          Successors,   \* what adapter->neighbors() emits: a set of functions
          Budgets       \* values of the four budgets

ASSUME ReachAssumption ==
  /\ StartPlace \in Place
  /\ \A s \in Successors : s \in [Place -> Seq(Place)]
  /\ \A b \in Budgets : b \in [expanded : Nat, generated : Nat, transitions : Nat,
                               frontier : Nat]

VARIABLES succ, budget,  \* the call's arguments
          found,         \* context->nodes: states in the order of discovery
          cursor, emitting,
          examined,      \* metrics.examined_transitions
          outcome        \* result.status, "none" while the call runs

reachVars == <<succ, budget, found, cursor, emitting, examined, outcome>>
argVars == <<succ, budget>>

ReachInit ==
  /\ succ \in Successors /\ budget \in Budgets
  /\ found = <<StartPlace>> /\ cursor = 1 /\ emitting = 0 /\ examined = 0
  /\ outcome = "none"

Exceeds(value, limit) == limit # 0 /\ value >= limit
Stop(status) == outcome' = status /\ UNCHANGED <<argVars, found, cursor, emitting, examined>>

\* metrics.expanded, which counts the node that is being expanded.
Expanded == IF emitting = 0 THEN cursor - 1 ELSE cursor

\* The loop: every node was expanded, or the next one is (emitting > 0: the number
\* of the successor that is emitted next).
Complete == /\ outcome = "none" /\ emitting = 0 /\ cursor > Len(found) /\ Stop("COMPLETE")

ExpansionLimit ==
  /\ outcome = "none" /\ emitting = 0 /\ cursor <= Len(found)
  /\ Exceeds(Expanded, budget.expanded) /\ Stop("LIMIT_REACHED")

ExpandNode ==
  /\ outcome = "none" /\ emitting = 0 /\ cursor <= Len(found)
  /\ ~Exceeds(Expanded, budget.expanded)
  /\ emitting' = 1 /\ UNCHANGED <<argVars, found, cursor, examined, outcome>>

Emits == outcome = "none" /\ emitting # 0 /\ emitting <= Len(succ[found[cursor]])
Emitted == succ[found[cursor]][emitting]

EmissionDone ==
  /\ outcome = "none" /\ emitting # 0 /\ emitting > Len(succ[found[cursor]])
  /\ emitting' = 0 /\ cursor' = cursor + 1
  /\ UNCHANGED <<argVars, found, examined, outcome>>

\* The states that wait: node_count - metrics.expanded.
Waiting == Len(found) - cursor

EmitKnown ==
  /\ Emits /\ ~Exceeds(examined, budget.transitions) /\ Emitted \in Range(found)
  /\ examined' = examined + 1 /\ emitting' = emitting + 1
  /\ UNCHANGED <<argVars, found, cursor, outcome>>

\* Mutant: a known state is entered again unless it waits.
EmitNewUnlessWaiting ==
  /\ Emits /\ ~Exceeds(examined, budget.transitions)
  /\ Emitted \notin {found[i] : i \in cursor..Len(found)}
  /\ ~Exceeds(Len(found), budget.generated) /\ ~Exceeds(Waiting, budget.frontier)
  /\ examined' = examined + 1 /\ emitting' = emitting + 1
  /\ found' = Append(found, Emitted) /\ UNCHANGED <<argVars, cursor, outcome>>

EmitNew ==
  /\ Emits /\ ~Exceeds(examined, budget.transitions) /\ Emitted \notin Range(found)
  /\ ~Exceeds(Len(found), budget.generated) /\ ~Exceeds(Waiting, budget.frontier)
  /\ examined' = examined + 1 /\ emitting' = emitting + 1
  /\ found' = Append(found, Emitted) /\ UNCHANGED <<argVars, cursor, outcome>>

EmitLimit ==
  /\ Emits
  /\ \/ Exceeds(examined, budget.transitions)
     \/ /\ Emitted \notin Range(found)
        /\ Exceeds(Len(found), budget.generated) \/ Exceeds(Waiting, budget.frontier)
  /\ outcome' = "LIMIT_REACHED"
  /\ examined' = IF Exceeds(examined, budget.transitions) THEN examined ELSE examined + 1
  /\ UNCHANGED <<argVars, found, cursor, emitting>>

\* The adapter cancels, in the loop or in an emission, or its enumeration fails.
Cancelled ==
  /\ outcome = "none" /\ cursor <= Len(found) /\ (emitting = 0 \/ Emits)
  /\ Stop("CANCELLED")
AdapterFails == outcome = "none" /\ emitting # 0 /\ Stop("ADAPTER_ERROR")

\* pf_add_node() fails.
OutOfMemory ==
  /\ Emits /\ ~Exceeds(examined, budget.transitions) /\ Emitted \notin Range(found)
  /\ ~Exceeds(Len(found), budget.generated) /\ ~Exceeds(Waiting, budget.frontier)
  /\ examined' = examined + 1 /\ outcome' = "OUT_OF_MEMORY"
  /\ UNCHANGED <<argVars, found, cursor, emitting>>

\* The array of the result cannot be allocated, whatever ended the loop.
NoResultArray ==
  /\ \/ outcome = "none" /\ emitting = 0 /\ cursor > Len(found)
     \/ outcome \in {"LIMIT_REACHED", "CANCELLED", "ADAPTER_ERROR"}
  /\ Stop("OUT_OF_MEMORY")

ReachNext ==
  \/ Complete \/ ExpansionLimit \/ ExpandNode \/ EmissionDone
  \/ EmitKnown \/ EmitNew \/ EmitLimit
  \/ Cancelled \/ AdapterFails \/ OutOfMemory
  \/ NoResultArray

ReachSpec == ReachInit /\ [][ReachNext]_reachVars

-----------------------------------------------------------------------------

\* The reachable states by definition: the smallest closed set.
Next1(X) == X \cup UNION {Range(succ[p]) : p \in X}
Closure == {p \in Place : \A X \in SUBSET Place :
                            StartPlace \in X /\ Next1(X) = X => p \in X}

\* COMPLETE is reported with exactly the reachable states; what is reported
\* otherwise is reachable too, never twice, and within the budgets on states and
\* on waiting states.
ReachableIsExact ==
  /\ outcome = "COMPLETE" => Range(found) = Closure
  /\ outcome # "none" => Range(found) \subseteq Closure
  /\ \A i, j \in 1..Len(found) : found[i] = found[j] => i = j
  /\ budget.generated # 0 => Len(found) <= budget.generated
  /\ budget.frontier # 0 /\ cursor > 1 => Len(found) - cursor <= budget.frontier
=============================================================================
