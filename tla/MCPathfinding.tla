--------------------------- MODULE MCPathfinding ---------------------------
(***************************************************************************)
(* Families of graphs on four states, from 1 to the goal 4.  States 2 and  *)
(* 3 are both reached from 1 and may be connected to each other, so that   *)
(* an inconsistent heuristic closes one of them too early.  Two families   *)
(* are searched: many graphs without limits and faults, for optimality,    *)
(* and fewer graphs under every budget, with cancellation, failures and    *)
(* costs that overflow.                                                    *)
(***************************************************************************)
EXTENDS Pathfinding

Far == 50        \* farther than any route of these graphs
Absent == 99     \* "there is no such transition"

List(u, w) ==
  LET all == CASE u = 1 -> <<<<2, w.a>>, <<3, w.b>>>>
               [] u = 2 -> <<<<3, w.c>>, <<4, w.e>>, <<1, w.f>>>>
               [] u = 3 -> <<<<2, w.d>>, <<4, w.f>>>>
               [] OTHER -> << >>
      present == SelectSeq(all, LAMBDA x : x[2] # Absent)
  IN  [i \in 1..Len(present) |-> [state |-> present[i][1], cost |-> present[i][2]]]

\* Distances to the goal after k rounds of relaxation.
Relax(succ, unit, d) ==
  [u \in 1..4 |->
     LET via == {d[succ[u][i].state] + (IF unit THEN 1 ELSE succ[u][i].cost) :
                   i \in 1..Len(succ[u])} \cup {d[u]}
     IN  CHOOSE m \in via : \A x \in via : m <= x]

Distance(succ, unit) ==
  LET d0 == [u \in 1..4 |-> IF u = 4 THEN 0 ELSE Far]
      R(d) == Relax(succ, unit, d)
  IN  R(R(R(R(d0))))

AdapterOf(w, h, rank, callbacks, unit) ==
  LET succ == [u \in 1..4 |-> List(u, w)]
  IN  [succ |-> succ, goal |-> {4}, heuristic |-> h, rank |-> rank,
       callbacks |-> callbacks, remaining |-> Distance(succ, unit)]

AllCallbacks == {"heuristic", "partial_rank"}
Heuristics == {<<0, x, y, 0>> : x, y \in {0, 1, 4}}

\* For the optimality run.  In half of the adapters `remaining' counts steps, for
\* breadth-first search.
MCAdapters ==
  {AdapterOf([a |-> a, b |-> b, c |-> c, d |-> d, e |-> e, f |-> f],
             h, <<3, 1, 1, 0>>, AllCallbacks, unit) :
     a, b \in {1, 3}, c, d \in {Absent, 0, 1}, e, f \in {Absent, 1, 4},
     h \in Heuristics, unit \in BOOLEAN}

MCOptions ==
  {[algorithm |-> alg, max_expanded |-> 0, max_generated |-> 0,
    max_transitions |-> 0, max_frontier |-> 0, return_partial |-> FALSE] :
     alg \in Algorithm}

\* For the run with budgets, failures and partial results.
MCLimitAdapters ==
  {AdapterOf(w, h, rank, callbacks, FALSE) :
     w \in {[a |-> 3, b |-> 1, c |-> 1, d |-> 0, e |-> 4, f |-> 4],
            [a |-> 3, b |-> 1, c |-> Absent, d |-> 1, e |-> 4, f |-> Absent],
            [a |-> 1, b |-> 1, c |-> 0, d |-> 0, e |-> Absent, f |-> Absent]},
     h \in {<<0, 0, 6, 0>>, <<0, 0, 0, 0>>},
     rank \in {<<3, 1, 1, 0>>, <<0, 2, 1, 1>>, <<1, 1, 1, 1>>},
     callbacks \in SUBSET AllCallbacks}

MCLimitOptions ==
  {o \in [algorithm : Algorithm, max_expanded : {0, 2}, max_generated : {0, 3},
          max_transitions : {0, 4}, max_frontier : {0, 1, 2},
          return_partial : BOOLEAN] :
     Cardinality({l \in {"e", "g", "t", "f"} :
                    CASE l = "e" -> o.max_expanded # 0
                      [] l = "g" -> o.max_generated # 0
                      [] l = "t" -> o.max_transitions # 0
                      [] OTHER -> o.max_frontier # 0}) <= 1}

-----------------------------------------------------------------------------
VARIABLE limited   \* the family that is searched; never changes

L == INSTANCE Pathfinding WITH UINT64_MAX <- 6, Adapters <- MCLimitAdapters,
                               Options <- MCLimitOptions,
                               Faults <- {"cancel", "memory", "adapter"}

MCInit == limited \in BOOLEAN /\ IF limited THEN L!Init ELSE Init

MCStep == \/ ~limited /\ Step /\ UNCHANGED limited
          \/ limited /\ L!Step /\ UNCHANGED limited

MCNext == MCStep \/ (limited /\ L!Fault /\ UNCHANGED limited)
                 \/ (Returned /\ UNCHANGED limited)

\* The fairness of FairSpec, for both families.
MCSpec == MCInit /\ [][MCNext]_<<limited, vars>>
          /\ WF_<<limited, vars>>(MCStep)
=============================================================================
