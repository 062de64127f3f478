--------------------------- MODULE CandidatePlan ---------------------------
(***************************************************************************)
(* How socket_quic_client_create() (socket_quic.c) turns the list of       *)
(* candidates that rendezvous produced into the tasks of the connection    *)
(* race: the candidates are ordered by route kind, every candidate's place *)
(* in that order is its rank, and the ranked candidates are dealt to       *)
(* tasks.  All NAT-derived candidates share one task because they must     *)
(* leave through the socket that was used for STUN and for punching.       *)
(*                                                                         *)
(* A candidate is a record [id, kind, numeric]: `id' stands for its host   *)
(* and port, `numeric' says whether getaddrinfo() accepts the host.  Ranks *)
(* and task indices start at 0 as they do in the code.                     *)
(***************************************************************************)
EXTENDS Integers, Sequences, SequencesExt

CONSTANT SIZE_MAX   \* the code's "no task" and "no rank yet" sentinel

\* socket_candidate_kind_t, in the order of the enumeration.
Kinds == <<"LAN", "IPV6", "PRFLX", "MAPPED", "SRFLX", "DIRECTORY">>
Kind == Range(Kinds)
NoKind == "NUM"

\* socket_connection_preference_t; NUM is what an unknown name is stored as.
Preference == {"AUTO", "LAN", "IPV6", "MAPPED", "SRFLX", "DIRECTORY", "NUM"}

socket_quic_preference_kind(preference) ==
  IF preference \in {"AUTO", "NUM"} THEN NoKind ELSE preference

socket_quic_candidate_is_nat(kind) == kind \in {"PRFLX", "MAPPED", "SRFLX"}

\* socket_quic_candidate_address(): the directory candidate takes the address
\* that was resolved when the initial socket was opened.
socket_quic_candidate_address(candidate) ==
  candidate.kind = "DIRECTORY" \/ candidate.numeric

\* The entry that is appended behind whatever rendezvous returned.
DirectoryCandidate(count) ==
  [id |-> count + 1, kind |-> "DIRECTORY", numeric |-> TRUE]

WithDirectory(candidates) ==
  Append(candidates, DirectoryCandidate(Len(candidates)))

\* A tier of kinds with the preferred kind, if it is one of them, first.
PreferredFirst(tier, preferred) ==
  SelectSeq(tier, LAMBDA k : k = preferred) \o
  SelectSeq(tier, LAMBDA k : k # preferred)

\* Mutant: the preferred kind leads both tiers.
PreferredLeadsAll(preference) ==
  PreferredFirst(Kinds, socket_quic_preference_kind(preference))

ordered_priorities(preference) ==
  LET preferred == socket_quic_preference_kind(preference)
  IN  PreferredFirst(SubSeq(Kinds, 1, 2), preferred) \o
      PreferredFirst(SubSeq(Kinds, 3, Len(Kinds)), preferred)

ordered_candidates(candidates, preference) ==
  LET OfKind(k) == SelectSeq(candidates, LAMBDA c : c.kind = k)
      priorities == ordered_priorities(preference)
  IN  FlattenSeq([p \in 1..Len(priorities) |-> OfKind(priorities[p])])

-----------------------------------------------------------------------------
(* The loop that deals ranked candidates to tasks.  A task is the sequence  *)
(* of the ranks it will try; the accumulator is what the loop keeps.        *)

NoTasks == [tasks |-> <<>>, nat_task |-> SIZE_MAX]

\* One iteration of the loop for the candidate of rank `rank'.
DealCandidate(plan, candidate, rank) ==
  LET task_count == Len(plan.tasks)
      opens      == ~socket_quic_candidate_is_nat(candidate.kind)
                    \/ plan.nat_task = SIZE_MAX
  IN  CASE ~socket_quic_candidate_address(candidate) -> plan
        [] opens /\ socket_quic_candidate_address(candidate) ->
             [tasks    |-> Append(plan.tasks, <<rank>>),
              nat_task |-> IF socket_quic_candidate_is_nat(candidate.kind)
                           THEN task_count ELSE plan.nat_task]
        [] OTHER ->
             [plan EXCEPT !.tasks[plan.nat_task + 1] = Append(@, rank)]

DealAll(ordered) ==
  FoldLeft(LAMBDA plan, rank : DealCandidate(plan, ordered[rank + 1], rank),
           NoTasks, [i \in 1..Len(ordered) |-> i - 1])

\* The task that is given the socket which rendezvous already used.
initial_socket_task(ordered, plan) ==
  LET directory == {i \in 1..Len(plan.tasks) :
                      ordered[plan.tasks[i][1] + 1].kind = "DIRECTORY"}
  IN  IF plan.nat_task # SIZE_MAX THEN plan.nat_task
      ELSE IF directory = {} THEN 0
      ELSE (CHOOSE i \in directory : \A j \in directory : i <= j) - 1

\* Everything the race needs to know of one call.
RacePlan(candidates, preference) ==
  LET ordered == ordered_candidates(WithDirectory(candidates), preference)
      plan    == DealAll(ordered)
  IN  [task_count |-> Len(plan.tasks),
       ranks      |-> [t \in 0..(Len(plan.tasks) - 1) |-> plan.tasks[t + 1]],
       nat_task   |-> plan.nat_task,
       initial    |-> initial_socket_task(ordered, plan)]

=============================================================================
