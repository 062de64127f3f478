----------------------------- MODULE QuicConnect -----------------------------
(***************************************************************************)
(* socket_quic_client_create() (socket_quic.c) as a whole: the candidates  *)
(* that rendezvous returns are planned by CandidatePlan and raced by       *)
(* QuicRace.  While main is still in "create" the list of candidates grows *)
(* by one at a time, of every kind and under every preference, and `plan'  *)
(* is what the code would make of the list.  Once the race has begun it is *)
(* the plan alone that counts, and the list is forgotten.                  *)
(***************************************************************************)
EXTENDS QuicRace, SequencesExt

CONSTANTS MaxRendezvous,   \* bound: candidates that rendezvous returns
          MaxRaced         \* bound: longer lists are planned but not raced

VARIABLES candidates, preference
connectVars == <<vars, candidates, preference>>

P == INSTANCE CandidatePlan

\* What is planned without rendezvous.
FirstPlans == {P!RacePlan(<<>>, p) : p \in P!Preference}

ConnectInit ==
  /\ Init
  /\ candidates = <<>> /\ preference \in P!Preference
  /\ plan = P!RacePlan(candidates, preference)

\* socket_rendezvous_client() hands over one more candidate, of any kind a
\* server_candidate message can name.
RendezvousReturns ==
  /\ main = "create" /\ Len(candidates) < MaxRendezvous
  /\ \E kind \in P!Kind, numeric \in BOOLEAN :
       candidates' = Append(candidates, [id      |-> Len(candidates) + 1,
                                         kind    |-> kind,
                                         numeric |-> numeric])
  /\ plan' = P!RacePlan(candidates', preference)
  /\ UNCHANGED <<mainVars, taskVars, raceVars, open, preference>>

RaceStep ==
  /\ Len(candidates) <= MaxRaced
  /\ Next
  /\ candidates' = <<>> /\ preference' = "AUTO"

NotRaced == Len(candidates) > MaxRaced /\ UNCHANGED connectVars

ConnectNext == RendezvousReturns \/ RaceStep \/ NotRaced

\* The fairness of QuicRace's FairSpec.
ConnectSpec ==
  /\ ConnectInit /\ [][ConnectNext]_connectVars
  /\ WF_vars(MainStep)
  /\ \A t \in Task : WF_vars(TaskStep(t)) /\ WF_vars(Expire(t))

-----------------------------------------------------------------------------
(* The plan, compared with a declarative definition of what it has to be.   *)

offered == P!WithDirectory(candidates)
ranked  == P!ordered_candidates(offered, preference)

\* The order is the one a sort would give: LAN and IPv6 routes come before all
\* others whatever the preference is, the preferred kind leads its tier,
\* then the enumeration order of the kinds decides, and candidates of one kind
\* keep the order in which rendezvous returned them.  Nothing is lost and
\* nothing is ranked twice (socket_quic.c, the loops over ordered_priorities).
RankingIsStableSort ==
  main = "create" =>
    LET preferred == P!socket_quic_preference_kind(preference)
        Position(k) == CHOOSE i \in 1..Len(P!Kinds) : P!Kinds[i] = k
        Key(c) == (IF Position(c.kind) <= 2 THEN 0 ELSE 1000)
                  + (IF c.kind = preferred THEN 0 ELSE 100)
                  + 10 * Position(c.kind) + c.id
    IN  /\ Range(ranked) = Range(offered)
        /\ Len(ranked) = Len(offered)
        /\ \A i, j \in 1..Len(ranked) : i < j => Key(ranked[i]) < Key(ranked[j])

\* Dealing: every candidate with a usable address is tried by exactly one task,
\* in rank order; NAT-derived candidates all sit in nat_task and nothing else
\* does; every other task has one candidate.  The socket that STUN and punching
\* used is never handed to a LAN or IPv6 candidate: without a NAT task it goes
\* to the directory candidate (the code's fallback to task 0 is never needed).
DealingPartitions ==
  main = "create" =>
    LET usable == {r \in 0..(Len(ranked) - 1) :
                     P!socket_quic_candidate_address(ranked[r + 1])}
        nat == {r \in usable : P!socket_quic_candidate_is_nat(ranked[r + 1].kind)}
        Of(t) == Range(plan.ranks[t])
    IN  /\ UNION {Of(t) : t \in Tasks} = usable
        /\ \A t, u \in Tasks : t # u => Of(t) \cap Of(u) = {}
        /\ \A t \in Tasks : \A i, j \in 1..Len(plan.ranks[t]) :
             i < j => plan.ranks[t][i] < plan.ranks[t][j]
        /\ \A t \in Tasks : IF t = plan.nat_task THEN Of(t) = nat
                                                ELSE Len(plan.ranks[t]) = 1
        /\ IF nat # {} THEN plan.initial = plan.nat_task
           ELSE \A r \in Of(plan.initial) : ranked[r + 1].kind = "DIRECTORY"

\* The plan of a race is right: its candidates are in the order of a stable sort,
\* and they are dealt to tasks and sockets as a partition (the part of
\* socket_quic_client_create() before the first pthread_create()).
PlanIsRight == RankingIsStableSort /\ DealingPartitions
=============================================================================
