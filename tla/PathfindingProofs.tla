------------------------- MODULE PathfindingProofs -------------------------
(***************************************************************************)
(* Pathfinding's safety properties for every graph, adapter, set of        *)
(* options and set of faults.  IInv is inductive: each conjunct has a      *)
(* lemma below that says a step keeps it.  Most steps write no node, so    *)
(* StepKinds sorts the steps into five groups, and NodeWritten says        *)
(* pointwise what the two steps that write one do.                         *)
(***************************************************************************)
EXTENDS Pathfinding, TLAPS, FiniteSetTheorems

\* Every heuristic and every cost of a transition is a 64-bit number.
LEMMA Ranges ==
  ASSUME TypeOK
  PROVE  /\ UINT64_MAX \in Nat \ {0}
         /\ Cost \subseteq Nat /\ 0 \in Cost /\ 1 \in Cost
         /\ \A s \in State : Heuristic(s) \in Cost
         /\ \A c, h \in Cost : pf_priority(c, h) \in Cost
         /\ \A u \in State : Len(adapter.succ[u]) \in Nat
         /\ \A u \in State : \A i \in 1..Len(adapter.succ[u]) :
              adapter.succ[u][i].state \in State /\ CostOf(u, i) \in Cost
  <1> USE SearchAssumption DEF TypeOK
  <1>1. UINT64_MAX \in Nat \ {0} /\ Cost \subseteq Nat /\ 0 \in Cost /\ 1 \in Cost
    BY DEF Cost
  <1>2. \A s \in State : Heuristic(s) \in Cost
    BY <1>1 DEF Heuristic, WellFormedAdapter
  <1>3. \A c, h \in Cost : pf_priority(c, h) \in Cost
    BY <1>1 DEF pf_priority, Cost
  <1>4. ASSUME NEW u \in State
        PROVE  Len(adapter.succ[u]) \in Nat
    BY DEF WellFormedAdapter
  <1>5. ASSUME NEW u \in State, NEW i \in 1..Len(adapter.succ[u])
        PROVE  adapter.succ[u][i].state \in State /\ CostOf(u, i) \in Cost
    <2>1. adapter.succ[u] \in Seq(Transition) BY DEF WellFormedAdapter
    <2>2. adapter.succ[u][i] \in Transition BY <2>1
    <2> QED BY <1>1, <2>2 DEF Transition, CostOf
  <1> QED BY <1>1, <1>2, <1>3, <1>4, <1>5

\* What pf_emit_transition() works with: the active node is closed, the
\* transition is one of its own, and a sum that passes the overflow check is
\* a 64-bit number.
LEMMA EmissionFacts ==
  ASSUME TypeOK, ControlInv, Emitting
  PROVE  /\ active \in State /\ active \in closed
         /\ emitted + 1 \in 1..Len(adapter.succ[active])
         /\ Emission = adapter.succ[active][emitted + 1]
         /\ Emission.state \in State /\ StepCost \in Cost
         /\ tentative_cost \in Nat /\ cost[active] <= tentative_cost
         /\ tentative_cost = cost[active] + CostOf(active, emitted + 1)
         /\ ~Overflows => tentative_cost \in Cost
  <1> USE Ranges DEF TypeOK, Emitting, Emission, StepCost, ControlInv
  <1>1. active \in State /\ active \in closed OBVIOUS
  <1>2. emitted + 1 \in 1..Len(adapter.succ[active]) BY <1>1
  <1>3. Emission.state \in State /\ StepCost \in Cost BY <1>1, <1>2
  <1>4. cost[active] \in Nat /\ StepCost \in Nat BY <1>1, <1>3
  <1>5. tentative_cost = cost[active] + StepCost BY DEF tentative_cost
  <1>6. ~Overflows => tentative_cost \in Cost
    <2>1. \A a, b, m \in Nat : ~(m - a < b) => a + b \in 0..m OBVIOUS
    <2> HIDE DEF StepCost
    <2>2. ~Overflows => cost[active] + StepCost \in 0..UINT64_MAX
      BY <1>4, <2>1 DEF Overflows
    <2> QED BY <1>5, <2>2 DEF Cost
  <1> QED BY <1>1, <1>2, <1>3, <1>4, <1>5, <1>6

\* The node that Discover and Improve write, and nothing else.
NodeWritten(n) ==
  /\ n = Emission.state /\ n # Start /\ n # active
  /\ cost'[n] = tentative_cost /\ parent'[n] = active
  /\ transition_data'[n] = emitted + 1
  /\ priority'[n] = pf_priority(tentative_cost, Heuristic(n))
  /\ heap' = heap \cup {n} /\ known' = known \cup {n}
  /\ closed' = closed \ {n}
  /\ \A s \in State \ {n} :
       /\ cost'[s] = cost[s] /\ parent'[s] = parent[s]
       /\ transition_data'[s] = transition_data[s]
       /\ priority'[s] = priority[s] /\ sequence'[s] = sequence[s]
  /\ UNCHANGED <<args, phase, active, expanded, resultVars>>
  /\ emitted' = emitted + 1 /\ phase = "expand"

\* Discover and Improve write one node, never the start and never the active
\* one: a way to either of them cannot be cheaper than the one it has.
LEMMA Writes ==
  ASSUME IInv, Discover \/ Improve
  PROVE  /\ NodeWritten(Emission.state)
         /\ Emission.state \notin known \/ tentative_cost < cost[Emission.state]
  <1> USE Ranges, EmissionFacts, SearchAssumption DEF IInv
  <1> DEFINE n == Emission.state
  <1>0. Emitting /\ ~Overflows BY DEF Discover, Improve, Examine
  <1>1. n \in State BY <1>0
  <1>2. Start \in known /\ active \in known
    BY <1>0 DEF ControlInv, Emitting, NodeInv
  <1>3. n \notin known \/ tentative_cost < cost[n]
    BY DEF Discover, Improve, IsNew, IsBetter
  <1>4. n # Start /\ n # active
    <2>1. tentative_cost \in Nat /\ cost[active] <= tentative_cost
          /\ cost[active] \in Nat /\ cost[Start] = 0
      BY <1>0 DEF TypeOK, NodeInv
    <2> QED BY <1>2, <1>3, <2>1
  <1>5. known' = known \cup {n} /\ closed' = closed \ {n}
    <2>1. CASE Discover BY <2>1, <1>0 DEF Discover, IsNew, NodeInv
    <2>2. CASE Improve BY <2>2 DEF Improve, IsNew, IsBetter
    <2> QED BY <2>1, <2>2
  <1>6. SetNode(n) /\ UNCHANGED <<args, phase, active, expanded, resultVars>>
        /\ phase = "expand"
    BY <1>0 DEF Discover, Improve, Emitting
  <1>7. \A s \in State \ {n} : sequence'[s] = sequence[s]
    BY <1>1 DEF Discover, Improve, TypeOK
  <1> QED BY <1>1, <1>3, <1>4, <1>5, <1>6, <1>7 DEF NodeWritten, SetNode, TypeOK

\* The steps that touch no node: all but starting, popping and writing.
Quiet == UNCHANGED <<args, nodeVars>>

\* A node is taken off the heap and the search returns.
PoppedLast(n) ==
  /\ n \in heap /\ phase = "loop" /\ phase' = "done"
  /\ PopGoal(n) \/ PopAtLimit(n)
  /\ heap' = heap \ {n}
  /\ UNCHANGED <<args, known, closed, cost, priority, parent, transition_data,
                 sequence, partial>>

\* A pop that ends the search.
LEMMA StepPops ==
  ASSUME NEW n \in State, PopGoal(n) \/ PopAtLimit(n)
  PROVE  PoppedLast(n)
  BY DEF PopGoal, PopAtLimit, Pop, PoppedLast, IsTop, pf_finish_search

\* Every step leaves the nodes alone, starts, writes one node or pops one.
LEMMA StepKinds ==
  ASSUME [Next]_vars
  PROVE  Quiet \/ Begin \/ Discover \/ Improve
         \/ \E n \in State : Expand(n) \/ PoppedLast(n)
  <1> USE DEF Quiet, args, nodeVars
  <1>1. CASE UNCHANGED vars \/ Returned BY <1>1 DEF vars, Returned
  <1>2. CASE RejectInput \/ BeginOutOfMemory \/ Exhausted \/ LoopCancelled
             \/ EnumerationEnds \/ AdapterFails
    BY <1>2 DEF RejectInput, BeginOutOfMemory, Exhausted, LoopCancelled,
       EnumerationEnds, AdapterFails, Stop
  <1>3. CASE EmitCancelled \/ EmitTransitionLimit \/ EmitOverflow
             \/ EmitNotBetter \/ EmitFrontierLimit \/ EmitOutOfMemory
    BY <1>3 DEF EmitCancelled, EmitTransitionLimit, EmitOverflow,
       EmitNotBetter, EmitFrontierLimit, EmitOutOfMemory, Stop
  <1> QED BY <1>1, <1>2, <1>3, StepPops DEF Next, Step, Emit, Fault

\* A step keeps the types; costs stay below UINT64_MAX because of the overflow
\* check in pf_emit_transition().
LEMMA TypeStep ==
  ASSUME IInv, [Next]_vars
  PROVE  TypeOK'
  <1> USE DEF IInv, TypeOK
  <1>0. WellFormedAdapter(adapter)' /\ WellFormedOptions(options)'
    <2>1. UNCHANGED args
      BY StepKinds DEF Quiet, Begin, Discover, Improve, Expand, PoppedLast
    <2> QED BY <2>1 DEF args, WellFormedAdapter, WellFormedOptions
  <1>f. ASSUME NEW st, NEW term, NEW n \in State \cup {NONE},
               pf_finish_search(st, term, n)
        PROVE  phase' = "done" /\ final' \in State \cup {NONE}
    BY <1>f DEF pf_finish_search
  <1>1. CASE RejectInput BY <1>0, <1>1 DEF RejectInput, nodeVars
  <1>2. CASE Begin
    <2>1. pf_priority(0, Heuristic(Start)) \in Cost /\ Start \in State
      BY Ranges, SearchAssumption
    <2>2. partial' \in State \cup {NONE} BY <1>2, <2>1 DEF Begin, pf_consider_partial
    <2> QED BY <1>0, <1>2, <2>1, <2>2 DEF Begin, resultVars
  <1>3. CASE BeginOutOfMemory
    BY <1>0, <1>3, <1>f DEF BeginOutOfMemory, nodeVars
  <1>4. CASE Exhausted BY <1>0, <1>4, <1>f DEF Exhausted, nodeVars
  <1>5. CASE LoopCancelled BY <1>0, <1>5, <1>f DEF LoopCancelled, nodeVars
  <1>6. ASSUME NEW n \in State, PopGoal(n) PROVE TypeOK'
    BY <1>0, <1>6, <1>f DEF PopGoal, Pop
  <1>7. ASSUME NEW n \in State, PopAtLimit(n) PROVE TypeOK'
    BY <1>0, <1>7, <1>f DEF PopAtLimit, Pop
  <1>8. ASSUME NEW n \in State, Expand(n) PROVE TypeOK'
    BY <1>0, <1>8 DEF Expand, Count, resultVars
  <1>s. ASSUME NEW st, NEW term, Stop(st, term),
               examined' = examined \/ examined' = examined + 1
        PROVE  TypeOK'
    BY <1>0, <1>s, <1>f DEF Stop, nodeVars
  <1>9. CASE EmitCancelled BY <1>9, <1>s DEF EmitCancelled
  <1>10. CASE EmitTransitionLimit BY <1>10, <1>s DEF EmitTransitionLimit
  <1>11. CASE EmitOverflow BY <1>11, <1>s DEF EmitOverflow, Examine, Count
  <1>12. CASE EmitNotBetter
    BY <1>0, <1>12 DEF EmitNotBetter, Examine, Count, nodeVars, resultVars
  <1>13. CASE EmitFrontierLimit BY <1>13, <1>s DEF EmitFrontierLimit, Examine, Count
  <1>14. CASE EmitOutOfMemory BY <1>14, <1>s DEF EmitOutOfMemory, Examine, Count
  <1>15. CASE Discover \/ Improve
    <2> DEFINE n == Emission.state
    <2>1. Emitting /\ ~Overflows /\ examined' \in Nat
      BY <1>15 DEF Discover, Improve, Examine, Count
    <2>2. n \in State /\ tentative_cost \in Cost BY <2>1, EmissionFacts
    <2>3. pf_priority(tentative_cost, Heuristic(n)) \in Cost BY <2>2, Ranges
    <2>4. /\ cost' \in [State -> Cost] /\ priority' \in [State -> Cost]
          /\ parent' \in [State -> State \cup {NONE}]
          /\ transition_data' \in [State -> Nat] /\ emitted' \in Nat
          /\ heap' \in SUBSET State
      <3>1. SetNode(n) /\ active \in State
        BY <1>15, <2>1, EmissionFacts DEF Discover, Improve
      <3> QED BY <2>2, <2>3, <3>1 DEF SetNode
    <2>5. partial' \in State \cup {NONE}
      BY <1>15, <2>2 DEF Discover, Improve, pf_consider_partial
    <2>6. sequence' \in [State -> Nat]
      <3>1. Cardinality(known) \in Nat BY FS_CardinalityType DEF NodeInv
      <3> QED BY <1>15, <2>2, <3>1 DEF Discover, Improve
    <2>7. /\ UNCHANGED <<phase, active, expanded, resultVars>>
          /\ known' \in SUBSET State /\ closed' \in SUBSET State
      BY <1>15, <2>2, Writes DEF NodeWritten
    <2> QED BY <1>0, <2>1, <2>4, <2>5, <2>6, <2>7 DEF resultVars
  <1>16. CASE EnumerationEnds
    BY <1>0, <1>16 DEF EnumerationEnds, nodeVars, resultVars
  <1>17. CASE AdapterFails BY <1>17, <1>s DEF AdapterFails
  <1>18. CASE UNCHANGED vars \/ Returned
    BY <1>0, <1>18 DEF Returned, vars, nodeVars, resultVars
  <1> QED BY <1>1, <1>2, <1>3, <1>4, <1>5, <1>6, <1>7, <1>8, <1>9, <1>10,
            <1>11, <1>12, <1>13, <1>14, <1>15, <1>16, <1>17, <1>18
          DEF Next, Step, Emit, Fault

\* A step keeps the control part: the active node stays closed while it is
\* expanded, since no transition of its own can improve it.
LEMMA ControlStep ==
  ASSUME IInv, [Next]_vars
  PROVE  ControlInv'
  <1> USE DEF IInv, ControlInv, args, nodeVars, resultVars
  <1>1. CASE RejectInput BY <1>1 DEF RejectInput
  <1>2. CASE Begin BY <1>2 DEF Begin
  <1>3. CASE BeginOutOfMemory \/ Exhausted \/ LoopCancelled
    BY <1>3 DEF BeginOutOfMemory, Exhausted, LoopCancelled, pf_finish_search
  <1>4. ASSUME NEW n \in State, PoppedLast(n) PROVE ControlInv'
    BY <1>4 DEF PoppedLast
  <1>5. ASSUME NEW n \in State, Expand(n) PROVE ControlInv'
    BY <1>5, Ranges DEF Expand, NodeInv, IsTop
  <1>6. CASE EmitCancelled \/ EmitTransitionLimit \/ EmitOverflow
             \/ EmitFrontierLimit \/ EmitOutOfMemory \/ AdapterFails
    BY <1>6 DEF EmitCancelled, EmitTransitionLimit, EmitOverflow,
       EmitFrontierLimit, EmitOutOfMemory, AdapterFails, Stop, pf_finish_search
  <1>7. CASE EmitNotBetter
    BY <1>7, EmissionFacts DEF EmitNotBetter, Examine, Emitting, TypeOK
  <1>8. CASE Discover \/ Improve
    <2>1. Emitting BY <1>8 DEF Discover, Improve, Examine
    <2> QED BY <1>8, <2>1, EmissionFacts, Writes DEF NodeWritten
  <1>9. CASE EnumerationEnds BY <1>9 DEF EnumerationEnds
  <1>10. CASE UNCHANGED vars \/ Returned BY <1>10 DEF vars, Returned
  <1> QED BY <1>1, <1>2, <1>3, <1>4, <1>5, <1>6, <1>7, <1>8, <1>9, <1>10,
            StepPops DEF Next, Step, Emit, Fault

\* A step keeps cost, priority and closedness in agreement.
LEMMA NodeStep ==
  ASSUME IInv, [Next]_vars
  PROVE  NodeInv'
  <1> USE SearchAssumption DEF IInv, NodeInv, args, nodeVars
  <1>1. CASE Quiet
    BY <1>1 DEF Quiet, pf_priority, Heuristic, UsesHeuristic
  <1>2. CASE Begin
    <2>1. IsFiniteSet({Start}) BY FS_Singleton
    <2> QED BY <1>2, <2>1 DEF Begin, ControlInv, TypeOK, pf_priority, Heuristic,
               UsesHeuristic
  <1>3. CASE Discover \/ Improve
    <2> DEFINE n == Emission.state
    <2>1. NodeWritten(n) BY <1>3, Writes
    <2>2. IsFiniteSet(known') BY <2>1, FS_AddElement DEF NodeWritten
    <2>3. \A s \in known' : priority'[s] = pf_priority(cost[s], Heuristic(s))'
      BY <2>1 DEF NodeWritten, pf_priority, Heuristic, UsesHeuristic, TypeOK
    <2> QED BY <2>1, <2>2, <2>3 DEF NodeWritten
  <1>4. ASSUME NEW n \in State, Expand(n) PROVE NodeInv'
    BY <1>4 DEF Expand, IsTop, pf_priority, Heuristic, UsesHeuristic
  <1>5. ASSUME NEW n \in State, PoppedLast(n) PROVE NodeInv'
    BY <1>5 DEF PoppedLast, pf_priority, Heuristic, UsesHeuristic
  <1> QED BY <1>1, <1>2, <1>3, <1>4, <1>5, StepKinds

\* A step keeps the parent links real and free of cycles.  The node that is
\* written gets a cost below every node whose links lead through it, so its
\* new parent cannot be one of these.
LEMMA RouteStep ==
  ASSUME IInv, [Next]_vars
  PROVE  RouteIsReal' /\ ParentsAcyclic'
  <1> USE DEF IInv, args, nodeVars
  <1>1. CASE UNCHANGED <<args, known, cost, parent, transition_data>>
    BY <1>1 DEF RouteIsReal, ParentsAcyclic, LastStepIsReal, CostOf
  <1>2. CASE Begin
    <2>1. known' = {Start} /\ parent' = parent /\ parent[Start] = NONE
      BY <1>2 DEF Begin, NodeInv
    <2> QED BY <2>1, SearchAssumption DEF RouteIsReal, ParentsAcyclic
  <1>3. CASE Discover \/ Improve
    <2>0. Emitting BY <1>3 DEF Discover, Improve, Examine
    <2>n. PICK n \in State : n = Emission.state BY <2>0, EmissionFacts
    <2>1. NodeWritten(n) /\ (n \notin known \/ tentative_cost < cost[n])
      BY <1>3, <2>n, Writes
    <2>2. /\ active \in known /\ n \in State /\ known \subseteq State
          /\ tentative_cost \in Nat /\ cost[active] <= tentative_cost
          /\ \A s \in known : cost[s] \in Nat
      BY <2>0, EmissionFacts, Ranges DEF NodeInv, TypeOK
    <2>3. \A s \in known : s # Start =>
            /\ parent[s] \in known /\ cost[parent[s]] <= cost[s]
      <3> SUFFICES ASSUME NEW s \in known \ {Start}
                   PROVE  parent[s] \in known /\ cost[parent[s]] <= cost[s]
        OBVIOUS
      <3>1. LastStepIsReal(s) BY DEF RouteIsReal
      <3>2. CostOf(parent[s], transition_data[s]) \in Nat
        BY <2>2, <3>1, Ranges DEF LastStepIsReal
      <3> QED BY <2>2, <3>1, <3>2 DEF LastStepIsReal
    <2>4. RouteIsReal'
      <3>1. ASSUME NEW s \in known \ {Start}, s # n
            PROVE  LastStepIsReal(s)'
        <4>1. /\ parent'[s] = parent[s] /\ cost'[s] = cost[s]
              /\ transition_data'[s] = transition_data[s] /\ UNCHANGED args
              /\ known \subseteq known'
          BY <2>1, <2>2, <3>1 DEF NodeWritten
        <4>2. /\ cost'[parent[s]] \in Nat
              /\ cost'[parent[s]] <= cost[parent[s]]
          BY <2>1, <2>2, <2>3 DEF NodeWritten
        <4>3. LastStepIsReal(s) BY DEF RouteIsReal
        <4>4. CostOf(parent[s], transition_data[s]) \in Nat
              /\ cost[parent[s]] \in Nat
          BY <2>2, <4>3, Ranges DEF LastStepIsReal
        <4>5. CostOf(parent[s], transition_data[s])'
                = CostOf(parent[s], transition_data[s])
          BY <4>1 DEF CostOf
        <4>6. cost'[parent[s]] + CostOf(parent[s], transition_data[s]) <= cost[s]
          BY <2>2, <4>2, <4>3, <4>4 DEF LastStepIsReal
        <4> QED BY <4>1, <4>3, <4>5, <4>6 DEF LastStepIsReal
      <3>2. LastStepIsReal(n)'
        <4>1. /\ parent'[n] = active /\ cost'[n] = tentative_cost
              /\ cost'[active] = cost[active] /\ active \in known'
              /\ transition_data'[n] = emitted + 1 /\ UNCHANGED args
          BY <2>1, <2>2 DEF NodeWritten
        <4>2. tentative_cost = cost[active] + CostOf(active, emitted + 1)
              /\ emitted + 1 \in 1..Len(adapter.succ[active])
              /\ adapter.succ[active][emitted + 1].state = n
          BY <2>0, <2>n, EmissionFacts
        <4>3. CostOf(parent[n], transition_data[n])' = CostOf(active, emitted + 1)
          BY <4>1 DEF CostOf
        <4> QED BY <2>2, <4>1, <4>2, <4>3 DEF LastStepIsReal
      <3> QED BY <2>1, <3>1, <3>2 DEF RouteIsReal, NodeWritten
    <2>5. ASSUME NEW S \in (SUBSET known') \ {{}}, \A s \in S : parent'[s] \in S
          PROVE  FALSE
      <3>1. CASE n \notin S
        <4>1. S \in (SUBSET known) \ {{}} /\ \A s \in S : parent[s] \in S
          BY <2>1, <2>2, <2>5, <3>1 DEF NodeWritten
        <4> QED BY <4>1 DEF ParentsAcyclic
      <3>2. CASE n \in S /\ n \notin known
        <4> DEFINE T == S \ {n}
        <4>1. active \in T BY <2>1, <2>5, <3>2 DEF NodeWritten
        <4>2. \A s \in T : parent[s] = parent'[s] /\ s \in known
          BY <2>1, <2>2, <2>5 DEF NodeWritten
        <4>3. \A s \in T : parent[s] \in T
          <5>1. Start \notin S
            BY <2>1, <2>5, SearchAssumption, <2>2 DEF NodeWritten, NodeInv, TypeOK
          <5> QED BY <2>3, <2>5, <3>2, <4>2, <5>1
        <4> QED BY <4>1, <4>2, <4>3 DEF ParentsAcyclic
      <3>3. CASE n \in S /\ n \in known
        <4> DEFINE T == {s \in S : cost[s] < cost[n]}
        <4>1. active \in T BY <2>1, <2>2, <2>5, <3>3 DEF NodeWritten
        <4>2. n \notin T BY <2>2, <3>3
        <4>3. S \subseteq known BY <2>1, <2>5, <3>3 DEF NodeWritten
        <4>4. Start \notin S
          BY <2>1, <2>5, SearchAssumption, <2>2, <4>3 DEF NodeWritten, NodeInv, TypeOK
        <4>5. ASSUME NEW s \in T PROVE parent[s] \in T
          <5>1. s # n /\ s \in known /\ s # Start BY <4>2, <4>3, <4>4
          <5>2. parent[s] \in S BY <2>1, <2>2, <2>5, <5>1 DEF NodeWritten
          <5> QED BY <2>2, <2>3, <3>3, <4>3, <5>1, <5>2
        <4> QED BY <4>1, <4>3, <4>5 DEF ParentsAcyclic
      <3> QED BY <3>1, <3>2, <3>3
    <2> QED BY <2>4, <2>5 DEF ParentsAcyclic
  <1>4. CASE Quiet \/ \E n \in State : Expand(n) \/ PoppedLast(n)
    BY <1>1, <1>4 DEF Quiet, Expand, PoppedLast
  <1> QED BY <1>2, <1>3, <1>4, StepKinds

\* A step keeps every node closed or queued, and every closed node relaxed:
\* an improved node leaves the closed set, and a cost never grows.
LEMMA RelaxedStep ==
  ASSUME IInv, [Next]_vars
  PROVE  ClosedOrQueued' /\ RelaxedInv'
  <1> USE DEF IInv, args, nodeVars
  <1>d. CASE phase' = "done" BY <1>d DEF ClosedOrQueued, RelaxedInv
  <1>1. CASE Begin
    <2>1. known' = {Start} /\ heap' = {Start} /\ closed' = {}
      BY <1>1 DEF Begin, ControlInv
    <2> QED BY <2>1 DEF ClosedOrQueued, RelaxedInv
  <1>2. ASSUME NEW n \in State, Expand(n)
        PROVE  ClosedOrQueued' /\ RelaxedInv'
    <2>1. /\ phase = "loop" /\ n \in heap /\ heap' = heap \ {n}
          /\ closed' = closed \cup {n} /\ active' = n /\ emitted' = 0
          /\ UNCHANGED <<args, known, cost>>
      BY <1>2 DEF Expand, IsTop
    <2>2. ClosedOrQueued' BY <2>1 DEF ClosedOrQueued
    <2>3. \A u, i : Relaxed(u, i) => Relaxed(u, i)'
      BY <2>1 DEF Relaxed, CostOf
    <2>4. \A i \in 1..Len(adapter.succ[n]) : ~(i <= emitted')
      BY <2>1
    <2>5. RelaxedInv' BY <2>1, <2>3, <2>4, <1>2 DEF RelaxedInv, Expand
    <2> QED BY <2>2, <2>5
  <1>3. CASE Discover \/ Improve
    <2>0. Emitting BY <1>3 DEF Discover, Improve, Examine
    <2>n. PICK n \in State : n = Emission.state BY <2>0, EmissionFacts
    <2>1. NodeWritten(n) /\ (n \notin known \/ tentative_cost < cost[n])
      BY <1>3, <2>n, Writes
    <2>2. phase = "expand" /\ phase' = "expand" /\ active' = active
          /\ emitted' = emitted + 1 /\ UNCHANGED args
      BY <2>1 DEF NodeWritten
    <2>3. ClosedOrQueued' BY <2>1, <2>2 DEF ClosedOrQueued, NodeWritten
    <2>4. /\ n \in State /\ tentative_cost \in Nat /\ active \in State
          /\ tentative_cost = cost[active] + CostOf(active, emitted + 1)
          /\ adapter.succ[active][emitted + 1].state = n
          /\ \A s \in State : cost[s] \in Nat
          /\ emitted \in Nat
      BY <2>0, <2>n, EmissionFacts, Ranges DEF TypeOK
    <2>5. ASSUME NEW u \in closed \ {n}, NEW i \in 1..Len(adapter.succ[u]),
                 Relaxed(u, i)
          PROVE  Relaxed(u, i)'
      <3> DEFINE v == adapter.succ[u][i].state
      <3>1. u \in State /\ v \in State /\ CostOf(u, i) \in Nat
        BY Ranges DEF NodeInv, TypeOK
      <3>2. cost'[u] = cost[u] /\ v \in known' BY <2>1, <2>5, <3>1
        DEF NodeWritten, Relaxed
      <3>3. cost'[v] \in Nat /\ cost'[v] <= cost[v]
        BY <2>1, <2>4, <2>5, <3>1 DEF NodeWritten, Relaxed
      <3>4. CostOf(u, i)' = CostOf(u, i) BY <2>2 DEF CostOf
      <3>5. cost'[v] <= cost[u] + CostOf(u, i)
        BY <2>4, <2>5, <3>1, <3>3 DEF Relaxed
      <3> QED BY <2>2, <3>2, <3>4, <3>5 DEF Relaxed
    <2>6. ASSUME NEW u \in State, NEW i \in Nat, u = active, i = emitted + 1
          PROVE  Relaxed(u, i)'
      <3>1. cost'[active] = cost[active] /\ cost'[n] = tentative_cost
            /\ n \in known'
        BY <2>1, <2>4 DEF NodeWritten
      <3>2. CostOf(u, i)' = CostOf(u, i) BY <2>2 DEF CostOf
      <3> QED BY <2>2, <2>4, <2>6, <3>1, <3>2 DEF Relaxed
    <2>7. RelaxedInv'
      <3> SUFFICES ASSUME NEW u \in closed', NEW i \in 1..Len(adapter.succ[u]),
                          u = active => i <= emitted + 1
                   PROVE  Relaxed(u, i)'
        BY <2>2 DEF RelaxedInv
      <3>1. u \in closed \ {n} BY <2>1 DEF NodeWritten
      <3>2. CASE u = active /\ i = emitted + 1 BY <2>4, <2>6, <3>2
      <3>3. CASE ~(u = active /\ i = emitted + 1)
        <4>1. u = active => i <= emitted BY <2>4, <3>3
        <4>2. Relaxed(u, i) BY <2>2, <3>1, <4>1 DEF RelaxedInv
        <4> QED BY <2>5, <3>1, <4>2
      <3> QED BY <3>2, <3>3
    <2> QED BY <2>3, <2>7
  <1>4. CASE EmitNotBetter
    <2>0. Emitting BY <1>4 DEF EmitNotBetter, Examine
    <2>1. UNCHANGED <<args, nodeVars, phase, active>> /\ emitted' = emitted + 1
          /\ phase = "expand"
      BY <1>4, <2>0 DEF EmitNotBetter, Emitting
    <2>2. /\ emitted \in Nat /\ cost[Emission.state] \in Nat
          /\ tentative_cost \in Nat
          /\ tentative_cost = cost[active] + CostOf(active, emitted + 1)
          /\ adapter.succ[active][emitted + 1].state = Emission.state
      BY <2>0, EmissionFacts, Ranges DEF TypeOK
    <2>3. Relaxed(active, emitted + 1)
      BY <1>4, <2>2 DEF Relaxed, EmitNotBetter, IsNew, IsBetter
    <2>4. \A u, i : Relaxed(u, i) => Relaxed(u, i)'
      BY <2>1 DEF Relaxed, CostOf
    <2>5. ClosedOrQueued' BY <2>1 DEF ClosedOrQueued
    <2>6. \A i \in Nat : i <= emitted + 1 => i <= emitted \/ i = emitted + 1
      BY <2>2
    <2>7. RelaxedInv' BY <2>1, <2>3, <2>4, <2>6 DEF RelaxedInv
    <2> QED BY <2>5, <2>7
  <1>5. CASE EnumerationEnds
    <2>1. UNCHANGED <<args, nodeVars>> /\ phase = "expand" /\ phase' = "loop"
          /\ emitted = Len(adapter.succ[active])
      BY <1>5 DEF EnumerationEnds
    <2>2. \A u, i : Relaxed(u, i) => Relaxed(u, i)'
      BY <2>1 DEF Relaxed, CostOf
    <2>3. \A i \in 1..Len(adapter.succ[active]) : i <= emitted BY <2>1
    <2> QED BY <2>1, <2>2, <2>3 DEF ClosedOrQueued, RelaxedInv
  <1>6. CASE UNCHANGED vars \/ Returned
    BY <1>6 DEF vars, Returned, ClosedOrQueued, RelaxedInv, Relaxed, CostOf
  <1>7. CASE RejectInput \/ BeginOutOfMemory \/ Exhausted \/ LoopCancelled
             \/ AdapterFails \/ EmitCancelled \/ EmitTransitionLimit
             \/ EmitOverflow \/ EmitFrontierLimit \/ EmitOutOfMemory
    BY <1>7, <1>d DEF RejectInput, BeginOutOfMemory, Exhausted, LoopCancelled,
       AdapterFails, EmitCancelled, EmitTransitionLimit, EmitOverflow,
       EmitFrontierLimit, EmitOutOfMemory, Stop, pf_finish_search
  <1>8. ASSUME NEW n \in State, PopGoal(n) \/ PopAtLimit(n)
        PROVE  ClosedOrQueued' /\ RelaxedInv'
    BY <1>8, <1>d, StepPops DEF PoppedLast
  <1> QED BY <1>1, <1>2, <1>3, <1>4, <1>5, <1>6, <1>7, <1>8
          DEF Next, Step, Emit, Fault

\* A step keeps the partial node the best of all: only the written node can
\* overtake it, and pf_consider_partial() compares exactly these two.
LEMMA PartialStep ==
  ASSUME IInv, [Next]_vars
  PROVE  PartialIsBest'
  <1> USE DEF IInv, args, nodeVars
  <1>1. CASE Begin
    <2>1. known' = {Start} /\ (options.return_partial => partial' = Start)
          /\ UNCHANGED <<args, cost, sequence>>
      BY <1>1 DEF Begin, ControlInv, pf_consider_partial
    <2>2. cost[Start] \in Nat /\ sequence[Start] \in Nat
          /\ adapter.rank[Start] \in Nat
      BY Ranges, SearchAssumption DEF TypeOK, WellFormedAdapter
    <2> QED BY <2>1, <2>2 DEF PartialIsBest, AtLeastAsGood
  <1>2. CASE (Discover \/ Improve) /\ options.return_partial
    <2>0. Emitting BY <1>2 DEF Discover, Improve, Examine
    <2>n. PICK n \in State : n = Emission.state BY <2>0, EmissionFacts
    <2>1. NodeWritten(n) /\ (n \notin known \/ tentative_cost < cost[n])
      BY <1>2, <2>n, Writes
    <2>2. /\ phase = "expand" /\ cost'[n] = tentative_cost
          /\ known' = known \cup {n} /\ UNCHANGED args
          /\ \A s \in State \ {n} : cost'[s] = cost[s] /\ sequence'[s] = sequence[s]
      BY <2>1 DEF NodeWritten
    <2>3. partial \in known /\ \A s \in known : AtLeastAsGood(partial, s)
      BY <1>2, <2>2 DEF PartialIsBest, ControlInv
    <2>4. /\ partial' = pf_consider_partial(n, tentative_cost, sequence'[n])
          /\ n \in known => sequence'[n] = sequence[n]
      BY <1>2, <2>n DEF Discover, Improve, IsNew, TypeOK
    <2>5. /\ known \subseteq State
          /\ \A s \in State : /\ adapter.rank[s] \in Nat /\ cost[s] \in Nat
                              /\ cost'[s] \in Nat /\ sequence[s] \in Nat
                              /\ sequence'[s] \in Nat
      BY Ranges, TypeStep DEF TypeOK, WellFormedAdapter
    <2>6. partial # NONE BY <2>3, <2>5, SearchAssumption
    <2>7. partial' \in {n, partial}
      BY <1>2, <2>4 DEF pf_consider_partial
    <2>8. CASE partial = n
      <3>1. partial' = n BY <2>7, <2>8
      <3>2. n \in known /\ cost'[n] < cost[n] /\ sequence'[n] = sequence[n]
        BY <2>1, <2>2, <2>3, <2>4, <2>8
      <3>3. ASSUME NEW s \in known PROVE AtLeastAsGood(n, s)'
        BY <2>2, <2>3, <2>5, <2>8, <3>2 DEF AtLeastAsGood
      <3> QED BY <2>2, <3>1, <3>2, <3>3 DEF PartialIsBest, AtLeastAsGood
    <2>9. CASE partial # n
      <3>p. PICK p \in known : p = partial BY <2>3
      <3>1. \A s \in known \ {n} : AtLeastAsGood(p, s)'
        BY <2>2, <2>3, <2>5, <2>9, <3>p DEF AtLeastAsGood
      <3>2. /\ partial' = n => AtLeastAsGood(n, p)'
            /\ partial' = p => AtLeastAsGood(p, n)'
        BY <1>2, <2>2, <2>4, <2>5, <2>6, <2>9, <3>p
           DEF pf_consider_partial, AtLeastAsGood
      <3>3. AtLeastAsGood(n, n)'
        BY <2>2, <2>5 DEF AtLeastAsGood
      <3>4. ASSUME NEW s \in known \ {n}, AtLeastAsGood(n, p)'
            PROVE  AtLeastAsGood(n, s)'
        BY <2>2, <2>5, <3>1, <3>4 DEF AtLeastAsGood
      <3> QED BY <2>2, <2>7, <3>p, <3>1, <3>2, <3>3, <3>4 DEF PartialIsBest
    <2> QED BY <2>8, <2>9
  <1>3. CASE (Discover \/ Improve) /\ ~options.return_partial
    BY <1>3, Writes DEF PartialIsBest, NodeWritten
  <1>4. CASE Quiet \/ \E n \in State : Expand(n) \/ PoppedLast(n)
    <2>1. UNCHANGED <<args, known, cost, sequence, partial>>
      BY <1>4 DEF Quiet, Expand, PoppedLast
    <2>2. phase = "start" => known = {} BY DEF ControlInv
    <2> QED BY <2>1, <2>2 DEF PartialIsBest, AtLeastAsGood
  <1> QED BY <1>1, <1>2, <1>3, <1>4, StepKinds

\* What the search knows when it returns holds from then on.
LEMMA OutcomeStep ==
  ASSUME IInv, [Next]_vars
  PROVE  OutcomeInv'
  <1> USE DEF IInv, args, nodeVars, resultVars
  <1>r. ASSUME UNCHANGED <<args, known, cost>>
        PROVE  \A u, i : Relaxed(u, i) => Relaxed(u, i)'
    BY <1>r DEF Relaxed, CostOf
  <1>l. ASSUME phase = "loop"
        PROVE  /\ Start \in known
               /\ \A u \in closed : \A i \in 1..Len(adapter.succ[u]) : Relaxed(u, i)
               /\ known = closed \cup heap
    BY <1>l DEF RelaxedInv, ControlInv, ClosedOrQueued
  <1>f. ASSUME NEW st, NEW term, NEW n \in State \cup {NONE},
               pf_finish_search(st, term, n), st # "FOUND", term # "EXHAUSTED"
        PROVE  OutcomeInv'
    BY <1>f DEF pf_finish_search, OutcomeInv
  <1>1. CASE Exhausted
    <2>1. phase = "loop" /\ heap = {} /\ UNCHANGED <<args, nodeVars>>
          /\ status' # "FOUND"
      BY <1>1 DEF Exhausted, pf_finish_search
    <2> QED BY <2>1, <1>l, <1>r DEF OutcomeInv
  <1>2. ASSUME NEW n \in State, PopGoal(n) PROVE OutcomeInv'
    <2>1. /\ phase = "loop" /\ IsTop(n) /\ n \in adapter.goal
          /\ heap' = heap \ {n}
          /\ UNCHANGED <<args, known, closed, cost, priority>>
          /\ pf_finish_search("FOUND", "GOAL", n)
      BY <1>2 DEF PopGoal, Pop
    <2>2. n # NONE BY SearchAssumption
    <2>3. termination' # "EXHAUSTED" /\ (status' = "FOUND" => final' = n)
      BY <2>1, <2>2 DEF pf_finish_search
    <2>4. \A m \in heap' : priority'[n] <= priority'[m]
      <3>1. \A s \in State : priority[s] \in Nat BY Ranges DEF TypeOK
      <3>2. heap \subseteq State BY DEF TypeOK
      <3>3. \A m \in heap \ {n} : pf_node_before(n, m) BY <2>1 DEF IsTop
      <3>4. \A m \in heap \ {n} : priority[n] <= priority[m]
        BY <3>1, <3>2, <3>3 DEF pf_node_before
      <3> QED BY <2>1, <3>4
    <2> QED BY <2>1, <2>3, <2>4, <1>l, <1>r DEF OutcomeInv, IsTop
  <1>3. ASSUME NEW n \in State, PopAtLimit(n) PROVE OutcomeInv'
    BY <1>3, <1>f DEF PopAtLimit
  <1>4. CASE BeginOutOfMemory \/ LoopCancelled
    BY <1>4, <1>f DEF BeginOutOfMemory, LoopCancelled
  <1>5. CASE EmitCancelled \/ EmitTransitionLimit \/ EmitOverflow
             \/ EmitFrontierLimit \/ EmitOutOfMemory \/ AdapterFails
    BY <1>5, <1>f DEF EmitCancelled, EmitTransitionLimit, EmitOverflow,
       EmitFrontierLimit, EmitOutOfMemory, AdapterFails, Stop
  <1>6. CASE RejectInput BY <1>6 DEF RejectInput, OutcomeInv
  <1>7. ASSUME phase' # "done" PROVE OutcomeInv'
    BY <1>7, ControlStep DEF ControlInv, OutcomeInv
  <1>8. CASE Begin \/ Discover \/ Improve \/ EmitNotBetter \/ EnumerationEnds
             \/ \E n \in State : Expand(n)
    <2>1. phase' # "done"
      BY <1>8 DEF Begin, Discover, Improve, EmitNotBetter, EnumerationEnds,
         Expand, Examine, Emitting
    <2> QED BY <1>7, <2>1
  <1>9. CASE UNCHANGED vars \/ Returned
    BY <1>9 DEF vars, Returned, OutcomeInv, Relaxed, CostOf
  <1> QED BY <1>1, <1>2, <1>3, <1>4, <1>5, <1>6, <1>8, <1>9
          DEF Next, Step, Emit, Fault

\* IInv is an invariant of every search.
THEOREM Invariance == Spec => []IInv
  <1>1. Init => IInv
    <2> SUFFICES ASSUME Init PROVE IInv OBVIOUS
    <2> USE SearchAssumption DEF Init
    <2>1. TypeOK
      <3>1. WellFormedAdapter(adapter) /\ WellFormedOptions(options) OBVIOUS
      <3> QED BY <3>1 DEF TypeOK, Cost
    <2>2. IsFiniteSet(known) BY FS_EmptySet
    <2>3. ControlInv /\ NodeInv BY <2>2 DEF ControlInv, NodeInv
    <2>4. RouteIsReal /\ ParentsAcyclic BY DEF RouteIsReal, ParentsAcyclic
    <2>5. ClosedOrQueued /\ RelaxedInv /\ PartialIsBest /\ OutcomeInv
      BY DEF ClosedOrQueued, RelaxedInv, PartialIsBest, OutcomeInv
    <2> QED BY <2>1, <2>3, <2>4, <2>5 DEF IInv
  <1>2. IInv /\ [Next]_vars => IInv'
    BY TypeStep, ControlStep, NodeStep, RouteStep, RelaxedStep, PartialStep,
       OutcomeStep DEF IInv
  <1> QED BY <1>1, <1>2, PTL DEF Spec

\* The type invariant, for every graph and every set of options.
THEOREM TypeCorrect == Spec => []TypeOK
  <1>1. IInv => TypeOK BY DEF IInv
  <1> QED BY <1>1, Invariance, PTL

\* pf_build_path() terminates and returns a route the adapter emitted.
THEOREM RoutesEnd == Spec => []RoutesAreReal
  <1>1. IInv => RoutesAreReal BY DEF IInv, RoutesAreReal
  <1> QED BY <1>1, Invariance, PTL

\* The route of a PARTIAL result leads to the best node that was generated.
THEOREM BestPartial == Spec => []PartialIsBest
  <1>1. IInv => PartialIsBest BY DEF IInv
  <1> QED BY <1>1, Invariance, PTL

\* NO_PATH is returned only if no goal can be reached from the start.
THEOREM NoPathSound == Spec => []NoPathIsTrue
  <1>1. IInv => NoPathIsTrue
    BY DEF IInv, NoPathIsTrue, OutcomeInv, NodeInv, Relaxed
  <1> QED BY <1>1, Invariance, PTL

\* A* with an admissible heuristic, Dijkstra and breadth-first search return
\* a cheapest route.  A node of the heap has a priority of at least the found
\* cost, so it bounds what lies beyond it; a closed node has passed its cost
\* on.  Together these make LowerBound grow along every transition by no more
\* than the transition costs.
THEOREM Optimality == Spec => []FoundIsOptimal
  <1>1. ASSUME IInv PROVE FoundIsOptimal
    <2> SUFFICES ASSUME status = "FOUND",
                        options.algorithm # "GREEDY_BEST_FIRST", Admissible,
                        ~(cost[final] <= adapter.remaining[Start])
                 PROVE  /\ LowerBound(Start) = 0
                        /\ \A u \in State : \A i \in 1..Len(adapter.succ[u]) :
                             LowerBound(adapter.succ[u][i].state)
                               <= LowerBound(u) + CostOf(u, i)
                        /\ \A g \in adapter.goal : LowerBound(g) >= cost[final]
      BY DEF FoundIsOptimal
    <2> USE <1>1, Ranges, SearchAssumption DEF IInv
    <2>1. /\ final \in known /\ final \in adapter.goal /\ final \in State
          /\ known = closed \cup heap \cup {final}
          /\ \A m \in heap : priority[final] <= priority[m]
          /\ Start \in known /\ cost[Start] = 0 /\ known \subseteq State
          /\ closed \cap adapter.goal = {}
      BY DEF OutcomeInv, NodeInv, TypeOK
    <2>2. \A s \in State : /\ cost[s] \in Nat /\ cost[s] <= UINT64_MAX
                           /\ adapter.remaining[s] \in Nat
                           /\ Heuristic(s) \in Nat
      BY DEF TypeOK, WellFormedAdapter, Cost
    <2>3. adapter.goal \subseteq State BY DEF TypeOK, WellFormedAdapter
    <2>4. cost[final] \in Nat /\ adapter.remaining[final] = 0
          /\ Heuristic(final) = 0
      BY <2>1, <2>2 DEF Admissible
    <2>5. priority[final] = cost[final]
      <3>1. priority[final] = pf_priority(cost[final], 0)
        BY <2>1, <2>4 DEF NodeInv
      <3>2. ~(UINT64_MAX - cost[final] < 0) /\ cost[final] + 0 = cost[final]
        BY <2>1, <2>2
      <3> QED BY <3>1, <3>2 DEF pf_priority
    \* A node of the heap is at least as far from the start as the bound says.
    <2>6. ASSUME NEW m \in heap
          PROVE  cost[m] >= cost[final] - adapter.remaining[m]
      <3>1. m \in known /\ m \in State BY <2>1
      <3>2. cost[final] <= pf_priority(cost[m], Heuristic(m))
        BY <2>1, <2>5, <3>1 DEF NodeInv
      <3>3. cost[final] <= cost[m] + Heuristic(m)
        BY <2>2, <2>4, <3>1, <3>2, <2>1 DEF pf_priority, TypeOK,
           WellFormedOptions, Algorithm
      <3>4. Heuristic(m) <= adapter.remaining[m] BY <3>1 DEF Admissible
      <3> QED BY <2>2, <2>4, <3>1, <3>3, <3>4
    <2>7. \A v \in State :
            /\ LowerBound(v) \in Int
            /\ LowerBound(v) <= cost[final] - adapter.remaining[v]
            /\ v \in known => LowerBound(v) <= cost[v]
            /\ \/ LowerBound(v) = cost[final] - adapter.remaining[v]
               \/ v \in known /\ LowerBound(v) = cost[v]
      BY <2>2, <2>4 DEF LowerBound
    <2>8. LowerBound(Start) = 0
      BY <2>1, <2>2, <2>4 DEF LowerBound
    <2>9. ASSUME NEW u \in State, NEW i \in 1..Len(adapter.succ[u])
          PROVE  LowerBound(adapter.succ[u][i].state)
                   <= LowerBound(u) + CostOf(u, i)
      <3> DEFINE v == adapter.succ[u][i].state
      <3>1. v \in State /\ CostOf(u, i) \in Nat OBVIOUS
      <3>2. adapter.remaining[u] <= CostOf(u, i) + adapter.remaining[v]
        BY DEF Admissible
      <3>3. CASE LowerBound(u) = cost[final] - adapter.remaining[u]
        <4>1. /\ LowerBound(v) \in Int /\ adapter.remaining[v] \in Nat
              /\ LowerBound(v) <= cost[final] - adapter.remaining[v]
          BY <2>2, <2>7, <3>1
        <4>2. adapter.remaining[u] \in Nat BY <2>2
        <4> HIDE DEF v
        <4>3. LowerBound(v) <= LowerBound(u) + CostOf(u, i)
          BY <2>4, <3>1, <3>2, <3>3, <4>1, <4>2
        <4> QED BY <4>3 DEF v
      <3>4. CASE LowerBound(u) # cost[final] - adapter.remaining[u]
        <4>1. u \in known /\ LowerBound(u) = cost[u]
              /\ cost[u] < cost[final] - adapter.remaining[u]
          BY <2>2, <2>4, <2>7, <3>4
        <4>2. u \notin heap BY <2>2, <2>4, <2>6, <4>1
        <4>3. u # final BY <2>4, <2>7, <3>4, <4>1
        <4>4. u \in closed BY <2>1, <4>1, <4>2, <4>3
        <4>5. v \in known /\ cost[v] <= cost[u] + CostOf(u, i)
          BY <4>4 DEF OutcomeInv, Relaxed
        <4>6. LowerBound(v) <= cost[v] BY <2>2, <2>7, <3>1, <4>5
        <4> QED BY <2>2, <2>7, <3>1, <4>1, <4>5, <4>6, SMTT(20)
      <3> QED BY <3>3, <3>4
    <2>10. ASSUME NEW g \in adapter.goal PROVE LowerBound(g) >= cost[final]
      <3>1. adapter.remaining[g] = 0 /\ g \in State BY <2>3 DEF Admissible
      <3>2. g \in known => cost[g] >= cost[final]
        BY <2>1, <2>2, <2>4, <2>6, <3>1
      <3> QED BY <2>2, <2>4, <2>7, <3>1, <3>2
    <2> QED BY <2>8, <2>9, <2>10
  <1> QED BY <1>1, Invariance, PTL

\* A node is added to the heap or to the known nodes only after the check of
\* the budget that counts it, and a node that is in the heap already does not
\* count twice: so an improvement needs no budget unless the node was closed.
LEMMA SetBudgetStep ==
  ASSUME IInv, IInv', BudgetsHold, [Next]_vars
  PROVE  /\ options' = options
         /\ options.max_generated # 0 => Cardinality(known') <= options.max_generated
         /\ options.max_frontier # 0 => Cardinality(heap') <= options.max_frontier
  <1>1. /\ IsFiniteSet(known) /\ heap \subseteq known
        /\ options.max_generated \in Nat /\ options.max_frontier \in Nat
    BY DEF IInv, NodeInv, TypeOK, WellFormedOptions
  <1>2. IsFiniteSet(heap) /\ Cardinality(heap) \in Nat /\ Cardinality(known) \in Nat
    BY <1>1, FS_Subset, FS_CardinalityType
  <1>3. CASE Quiet BY <1>3 DEF Quiet, args, nodeVars, BudgetsHold
  <1>4. CASE Begin
    <2>1. known' = {Start} /\ heap' = {Start} /\ options' = options
      BY <1>4 DEF Begin, args
    <2>2. Cardinality({Start}) = 1 BY FS_Singleton
    <2> QED BY <1>1, <2>1, <2>2
  <1>5. ASSUME NEW n \in State, Expand(n) \/ PoppedLast(n)
        PROVE  /\ options' = options
               /\ options.max_generated # 0 => Cardinality(known') <= options.max_generated
               /\ options.max_frontier # 0 => Cardinality(heap') <= options.max_frontier
    <2>1. options' = options /\ known' = known /\ heap' \subseteq heap
      BY <1>5 DEF Expand, PoppedLast, args
    <2>2. Cardinality(heap') <= Cardinality(heap) /\ Cardinality(heap') \in Nat
      BY <1>2, <2>1, FS_Subset, FS_CardinalityType
    <2> QED BY <1>1, <1>2, <2>1, <2>2 DEF BudgetsHold
  <1>6. CASE Discover \/ Improve
    <2> DEFINE n == Emission.state
    <2>1. /\ heap' = heap \cup {n} /\ known' = known \cup {n} /\ phase = "expand"
          /\ options' = options
      BY <1>6, Writes DEF NodeWritten, args
    <2>2. n \in known \ heap => n \in closed
      BY <2>1 DEF IInv, ClosedOrQueued
    <2>3. n \notin known =>
            ~GeneratedLimit /\ pf_frontier_available
      BY <1>6 DEF Discover, Improve, IsBetter, IsNew
    <2>4. n \in closed /\ n \in known => pf_frontier_available
      BY <1>6 DEF Discover, Improve, IsNew
    <2>5. /\ Cardinality(heap') = IF n \in heap THEN Cardinality(heap)
                                  ELSE Cardinality(heap) + 1
          /\ Cardinality(known') = IF n \in known THEN Cardinality(known)
                                   ELSE Cardinality(known) + 1
      BY <1>1, <1>2, <2>1, FS_AddElement
    <2> HIDE DEF n
    <2>6. n \in heap \/ pf_frontier_available BY <2>2, <2>3, <2>4
    <2>7. options.max_frontier # 0 => Cardinality(heap') <= options.max_frontier
      BY <1>1, <1>2, <2>5, <2>6 DEF pf_frontier_available, BudgetsHold
    <2>8. options.max_generated # 0 => Cardinality(known') <= options.max_generated
      BY <1>1, <1>2, <2>3, <2>5 DEF GeneratedLimit, BudgetsHold
    <2> QED BY <2>1, <2>7, <2>8
  <1> QED BY <1>3, <1>4, <1>5, <1>6, StepKinds

\* An expansion and an emission are counted only below their limits.
LEMMA CountBudgetStep ==
  ASSUME IInv, BudgetsHold, [Next]_vars
  PROVE  /\ options.max_expanded # 0 => expanded' <= options.max_expanded
         /\ options.max_transitions # 0 => examined' <= options.max_transitions
  <1>1. /\ expanded \in Nat /\ examined \in Nat
        /\ options.max_expanded \in Nat /\ options.max_transitions \in Nat
    BY DEF IInv, TypeOK, WellFormedOptions
  <1>2. \/ expanded' = expanded
        \/ expanded' = Count(expanded, options.max_expanded)
           /\ ~(options.max_expanded # 0 /\ expanded >= options.max_expanded)
    BY DEF Next, Step, Emit, Fault, Returned, vars, RejectInput, Begin,
       BeginOutOfMemory, Exhausted, LoopCancelled, PopGoal, PopAtLimit, Expand,
       Stop, EmitCancelled, EmitTransitionLimit, EmitOverflow, EmitNotBetter,
       EmitFrontierLimit, EmitOutOfMemory, Discover, Improve, EnumerationEnds,
       AdapterFails
  <1>3. \/ examined' = examined
        \/ examined' = Count(examined, options.max_transitions) /\ ~AtTransitionLimit
    BY DEF Next, Step, Emit, Fault, Returned, vars, RejectInput, Begin,
       BeginOutOfMemory, Exhausted, LoopCancelled, PopGoal, PopAtLimit, Pop, Expand,
       EmitCancelled, EmitTransitionLimit, EmitOverflow, EmitNotBetter, Examine,
       EmitFrontierLimit, EmitOutOfMemory, Discover, Improve, EnumerationEnds,
       AdapterFails
  <1> QED BY <1>1, <1>2, <1>3 DEF Count, AtTransitionLimit, BudgetsHold

\* No budget of atrinik_pf_options is ever exceeded, also when closed nodes are
\* reopened: the four metrics against pf_frontier_available() and the checks of
\* pf_emit_transition() and atrinik_pf_search().
THEOREM WithinBudgets == Spec => []BudgetsHold
  <1>1. Init => BudgetsHold
    <2> SUFFICES ASSUME Init PROVE BudgetsHold OBVIOUS
    <2>1. WellFormedOptions(options) BY SearchAssumption DEF Init
    <2>2. Cardinality({}) = 0 BY FS_EmptySet
    <2> QED BY <2>1, <2>2 DEF Init, BudgetsHold, WellFormedOptions
  <1>2. IInv /\ IInv' /\ BudgetsHold /\ [Next]_vars => BudgetsHold'
    BY SetBudgetStep, CountBudgetStep DEF BudgetsHold
  <1> QED BY <1>1, <1>2, Invariance, PTL DEF Spec

=============================================================================
