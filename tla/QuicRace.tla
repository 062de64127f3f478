------------------------------ MODULE QuicRace ------------------------------
(***************************************************************************)
(* The candidate race of socket_quic_client_create() (socket_quic.c).      *)
(*                                                                         *)
(* The caller's thread ("main") starts one thread per task, waits until    *)
(* all tasks are finished or a success has been held for the grace window, *)
(* cancels what is still running if there was a success, joins every       *)
(* thread and keeps the connected socket of the best (smallest) rank.  If  *)
(* pthread_create() fails, main runs the task itself before it starts the  *)
(* next one.  A task tries its candidates one after the other over one     *)
(* socket.                                                                 *)
(*                                                                         *)
(* race->lock is held by one thread at a time and never across another     *)
(* call that blocks on it, so a critical section is one atomic step.       *)
(* Attempt and duration statistics only feed a log line and are left out.  *)
(* Time enters in two places: a handshake's deadline may pass (Expire) and *)
(* the grace window after the first success may end (WindowElapses).       *)
(***************************************************************************)
EXTENDS Integers, Sequences

CONSTANTS MaxTasks,   \* length of the tasks array
          SIZE_MAX,   \* the code's "no rank yet"
          Plans       \* what CandidatePlan's RacePlan may return

Task   == 0..(MaxTasks - 1)
Rank   == 0..(SIZE_MAX - 1)
\* A task opens at most one socket itself, and that socket carries the task's
\* number; SC is the one that main opened for STUN and punching.
SC     == MaxTasks
NULL   == -1
Socket == 0..MaxTasks

\* What the race relies on: every task has candidates, ranks are below the
\* sentinel, and SC goes to an existing task, the NAT task if there is one.
WellFormedPlan(p) ==
  /\ p.task_count \in 1..MaxTasks
  /\ \A t \in 0..(p.task_count - 1) :
       p.ranks[t] \in Seq(Rank) /\ Len(p.ranks[t]) > 0
  /\ p.initial \in 0..(p.task_count - 1)
  /\ p.nat_task # SIZE_MAX => p.initial = p.nat_task

ASSUME PlansAssumption ==
  /\ MaxTasks \in Nat \ {0} /\ SIZE_MAX \in Nat \ {0}
  /\ \A p \in Plans : WellFormedPlan(p)

VARIABLES
  plan,          \* the tasks of this call, fixed
  main,          \* where the caller's thread is
  next,          \* its loop variable i
  pc,            \* where each task's thread is
  idx,           \* position of the candidate a task is trying, from 1
  sock,          \* task->socket
  result,        \* task->result
  selected_rank, \* task->selected_rank
  started,       \* task->started
  expired,       \* has the deadline of the task's current handshake passed?
  completed, best_rank, cancelled,      \* fields of the race
  windowOver,    \* 150 ms have passed since first_success_ms
  open,          \* sockets that were created and not destroyed
  selected,      \* the task whose result main holds, or NULL
  failed         \* the initial socket could not be opened

taskVars == <<pc, idx, sock, result, selected_rank, expired>>
raceVars == <<completed, best_rank, cancelled, windowOver>>
mainVars == <<main, next, started, selected, failed>>
vars == <<plan, mainVars, taskVars, raceVars, open>>

MainState == {"create", "spawn", "inline", "wait", "join", "select", "done"}
TaskState == {"idle", "check", "socket", "setup", "poll", "connect", "wait",
              "verify", "finish", "exited"}
InHandshake == {"setup", "poll", "connect", "wait", "verify"}

Tasks == 0..(plan.task_count - 1)
Connected(t) == result[t] # NULL

\* The race, its tasks and main's locals keep their types: a stored rank is one
\* of the plan's or the sentinel SIZE_MAX, and main's loop variable stays inside
\* the tasks array.
TypeOK ==
  /\ WellFormedPlan(plan)
  /\ main \in MainState
  /\ next \in 0..plan.task_count
  /\ pc \in [Task -> TaskState]
  /\ idx \in [Task -> Nat \ {0}]
  /\ sock \in [Task -> Socket \cup {NULL}]
  /\ result \in [Task -> Socket \cup {NULL}]
  /\ selected_rank \in [Task -> Rank \cup {SIZE_MAX}]
  /\ started \in [Task -> BOOLEAN]
  /\ expired \in [Task -> BOOLEAN]
  /\ completed \in Nat
  /\ best_rank \in Rank \cup {SIZE_MAX}
  /\ cancelled \in BOOLEAN
  /\ windowOver \in BOOLEAN
  /\ open \in SUBSET Socket
  /\ selected \in Task \cup {NULL}
  /\ failed \in BOOLEAN

Init ==
  /\ plan \in Plans
  /\ main = "create" /\ next = 0
  /\ pc = [t \in Task |-> "idle"]
  /\ idx = [t \in Task |-> 1]
  /\ sock = [t \in Task |-> NULL]
  /\ result = [t \in Task |-> NULL]
  /\ selected_rank = [t \in Task |-> SIZE_MAX]
  /\ started = [t \in Task |-> FALSE]
  /\ expired = [t \in Task |-> FALSE]
  /\ completed = 0 /\ best_rank = SIZE_MAX
  /\ cancelled = FALSE /\ windowOver = FALSE
  /\ open = {} /\ selected = NULL /\ failed = FALSE

-----------------------------------------------------------------------------
(* The thread of task t: socket_quic_candidate_thread()                     *)

\* Mutant: the last candidate of a task is never tried.
CheckSkipsLast(t) ==
  /\ pc[t] = "check"
  /\ pc' = [pc EXCEPT ![t] =
              IF idx[t] >= Len(plan.ranks[t]) \/ cancelled THEN "finish"
              ELSE "socket"]
  /\ UNCHANGED <<plan, mainVars, idx, sock, result, selected_rank, expired,
                 raceVars, open>>

\* The top of the loop: no candidate left, or the race was cancelled.
CheckCancelled(t) ==
  /\ pc[t] = "check"
  /\ pc' = [pc EXCEPT ![t] =
              IF idx[t] > Len(plan.ranks[t]) \/ cancelled THEN "finish"
              ELSE "socket"]
  /\ UNCHANGED <<plan, mainVars, idx, sock, result, selected_rank, expired,
                 raceVars, open>>

\* `continue': on to the task's next candidate, keeping the socket.
TryNextCandidate(t) ==
  /\ pc' = [pc EXCEPT ![t] = "check"]
  /\ idx' = [idx EXCEPT ![t] = @ + 1]
  /\ UNCHANGED <<plan, mainVars, sock, result, selected_rank, expired,
                 raceVars, open>>

UseSocket(t) ==
  /\ pc[t] = "socket" /\ sock[t] # NULL
  /\ pc' = [pc EXCEPT ![t] = "setup"]
  /\ UNCHANGED <<plan, mainVars, idx, sock, result, selected_rank, expired,
                 raceVars, open>>

\* socket_quic_client_socket_resolved() for a task that has no socket yet.
OpenSocket(t) ==
  /\ pc[t] = "socket" /\ sock[t] = NULL
  /\ sock' = [sock EXCEPT ![t] = t]
  /\ open' = open \cup {t}
  /\ pc' = [pc EXCEPT ![t] = "setup"]
  /\ UNCHANGED <<plan, mainVars, idx, result, selected_rank, expired, raceVars>>

OpenSocketFails(t) ==
  /\ pc[t] = "socket" /\ sock[t] = NULL
  /\ TryNextCandidate(t)

(* socket_quic_client_handshake(), called with the task's socket.           *)

\* connect(), draining of probes and the OpenSSL objects; the deadline is set.
Setup(t) ==
  /\ pc[t] = "setup"
  /\ pc' = [pc EXCEPT ![t] = "poll"]
  /\ expired' = [expired EXCEPT ![t] = FALSE]
  /\ UNCHANGED <<plan, mainVars, idx, sock, result, selected_rank, raceVars,
                 open>>

PollCancelled(t) ==
  /\ pc[t] = "poll" /\ ~cancelled
  /\ pc' = [pc EXCEPT ![t] = "connect"]
  /\ UNCHANGED <<plan, mainVars, idx, sock, result, selected_rank, expired,
                 raceVars, open>>

\* SSL_connect() returns 1, or wants more I/O.
SslConnect(t) ==
  /\ pc[t] = "connect"
  /\ \E outcome \in {"verify", "wait"} : pc' = [pc EXCEPT ![t] = outcome]
  /\ UNCHANGED <<plan, mainVars, idx, sock, result, selected_rank, expired,
                 raceVars, open>>

\* Mutant: the deadline is not looked at.
WaitWithoutDeadline(t) ==
  /\ pc[t] = "wait"
  /\ pc' = [pc EXCEPT ![t] = "poll"]
  /\ UNCHANGED <<plan, mainVars, idx, sock, result, selected_rank, expired,
                 raceVars, open>>

\* The deadline has not passed and socket_quic_wait() returned.
WaitForIO(t) ==
  /\ pc[t] = "wait" /\ ~expired[t]
  /\ pc' = [pc EXCEPT ![t] = "poll"]
  /\ UNCHANGED <<plan, mainVars, idx, sock, result, selected_rank, expired,
                 raceVars, open>>

\* The handshake returns false: setup failed, the race was cancelled,
\* SSL_connect() failed, the deadline passed or socket_quic_wait() failed, or
\* the peer's certificate does not have the expected fingerprint.
HandshakeFails(t) ==
  /\ \/ pc[t] \in {"setup", "connect", "wait", "verify"}
     \/ pc[t] = "poll" /\ cancelled
  /\ TryNextCandidate(t)

\* Mutant: task->socket still points to the socket that became the result.
SucceedKeepsSocket(t) ==
  /\ pc[t] = "verify"
  /\ result' = [result EXCEPT ![t] = sock[t]]
  /\ selected_rank' = [selected_rank EXCEPT ![t] = plan.ranks[t][idx[t]]]
  /\ pc' = [pc EXCEPT ![t] = "finish"]
  /\ UNCHANGED <<plan, mainVars, idx, sock, expired, raceVars, open>>

\* The handshake returns true: the socket becomes the task's result.
Succeed(t) ==
  /\ pc[t] = "verify"
  /\ result' = [result EXCEPT ![t] = sock[t]]
  /\ sock' = [sock EXCEPT ![t] = NULL]
  /\ selected_rank' = [selected_rank EXCEPT ![t] = plan.ranks[t][idx[t]]]
  /\ pc' = [pc EXCEPT ![t] = "finish"]
  /\ UNCHANGED <<plan, mainVars, idx, expired, raceVars, open>>

\* The leftover socket is destroyed and socket_quic_candidate_finished()
\* reports to the race.
Finish(t) ==
  /\ pc[t] = "finish"
  /\ pc' = [pc EXCEPT ![t] = "exited"]
  /\ sock' = [sock EXCEPT ![t] = NULL]
  /\ open' = open \ {sock[t]}
  /\ completed' = completed + 1
  /\ best_rank' = IF result[t] # NULL /\ selected_rank[t] < best_rank
                  THEN selected_rank[t] ELSE best_rank
  /\ UNCHANGED <<plan, mainVars, idx, result, selected_rank, expired,
                 cancelled, windowOver>>

TaskStep(t) ==
  \/ CheckCancelled(t) \/ UseSocket(t) \/ OpenSocket(t) \/ OpenSocketFails(t)
  \/ Setup(t) \/ PollCancelled(t) \/ SslConnect(t) \/ WaitForIO(t)
  \/ HandshakeFails(t) \/ Succeed(t) \/ Finish(t)

-----------------------------------------------------------------------------
(* The caller's thread: socket_quic_client_create()                         *)

\* socket_quic_client_socket() fails and NULL is returned.
CreateFails ==
  /\ main = "create"
  /\ main' = "done" /\ failed' = TRUE
  /\ UNCHANGED <<plan, next, started, selected, taskVars, raceVars, open>>

\* Mutant: the punched socket goes to the first task.
CreateForFirstTask ==
  /\ main = "create"
  /\ main' = "spawn"
  /\ open' = {SC}
  /\ sock' = [sock EXCEPT ![0] = SC]
  /\ UNCHANGED <<plan, next, started, selected, failed, pc, idx, result,
                 selected_rank, expired, raceVars>>

\* The initial socket is open, rendezvous is over and the tasks are planned.
Create ==
  /\ main = "create"
  /\ main' = "spawn"
  /\ open' = {SC}
  /\ sock' = [sock EXCEPT ![plan.initial] = SC]
  /\ UNCHANGED <<plan, next, started, selected, failed, pc, idx, result,
                 selected_rank, expired, raceVars>>

SpawnThread ==
  /\ main = "spawn" /\ next < plan.task_count
  /\ started' = [started EXCEPT ![next] = TRUE]
  /\ pc' = [pc EXCEPT ![next] = "check"]
  /\ next' = next + 1
  /\ UNCHANGED <<plan, main, selected, failed, idx, sock, result,
                 selected_rank, expired, raceVars, open>>

\* pthread_create() fails: main runs the task.
RunInline ==
  /\ main = "spawn" /\ next < plan.task_count
  /\ pc' = [pc EXCEPT ![next] = "check"]
  /\ main' = "inline"
  /\ UNCHANGED <<plan, next, started, selected, failed, idx, sock, result,
                 selected_rank, expired, raceVars, open>>

InlineReturns ==
  /\ main = "inline" /\ pc[next] = "exited"
  /\ main' = "spawn" /\ next' = next + 1
  /\ UNCHANGED <<plan, started, selected, failed, taskVars, raceVars, open>>

StartWaiting ==
  /\ main = "spawn" /\ next = plan.task_count
  /\ main' = "wait"
  /\ UNCHANGED <<plan, next, started, selected, failed, taskVars, raceVars,
                 open>>

\* The loop on the condition variable ends.  The lock is held from the test
\* to the assignment of `cancelled'.
WaitEnds ==
  /\ main = "wait"
  /\ \/ completed >= plan.task_count
     \/ best_rank = 0
     \/ best_rank # SIZE_MAX /\ windowOver
  /\ cancelled' = (best_rank # SIZE_MAX)
  /\ main' = "join" /\ next' = 0
  /\ UNCHANGED <<plan, started, selected, failed, taskVars, completed,
                 best_rank, windowOver, open>>

Join ==
  /\ main = "join" /\ next < plan.task_count
  /\ started[next] => pc[next] = "exited"
  /\ next' = next + 1
  /\ UNCHANGED <<plan, main, started, selected, failed, taskVars, raceVars,
                 open>>

JoinEnds ==
  /\ main = "join" /\ next = plan.task_count
  /\ main' = "select" /\ next' = 0
  /\ UNCHANGED <<plan, started, selected, failed, taskVars, raceVars, open>>

\* selected_rank of main: that of the result it holds.
HeldRank == IF selected = NULL THEN SIZE_MAX ELSE selected_rank[selected]

\* Mutant: the last result is kept.
SelectLast ==
  /\ main = "select" /\ next < plan.task_count
  /\ IF Connected(next)
     THEN /\ selected' = next
          /\ open' = IF selected = NULL THEN open ELSE open \ {result[selected]}
     ELSE selected' = selected /\ open' = open
  /\ next' = next + 1
  /\ UNCHANGED <<plan, main, started, failed, taskVars, raceVars>>

\* One iteration of the selection loop: of the held result and task next's,
\* the one that is not better is destroyed.
Select ==
  /\ main = "select" /\ next < plan.task_count
  /\ IF Connected(next) /\ selected_rank[next] < HeldRank
     THEN /\ selected' = next
          /\ open' = IF selected = NULL THEN open ELSE open \ {result[selected]}
     ELSE /\ selected' = selected
          /\ open' = open \ {result[next]}
  /\ next' = next + 1
  /\ UNCHANGED <<plan, main, started, failed, taskVars, raceVars>>

SelectEnds ==
  /\ main = "select" /\ next = plan.task_count
  /\ main' = "done"
  /\ UNCHANGED <<plan, next, started, selected, failed, taskVars, raceVars,
                 open>>

MainStep ==
  \/ CreateFails \/ Create \/ SpawnThread \/ RunInline \/ InlineReturns
  \/ StartWaiting \/ WaitEnds \/ Join \/ JoinEnds \/ Select \/ SelectEnds

-----------------------------------------------------------------------------
(* Time                                                                     *)

\* The deadline of task t's handshake passes.
Expire(t) ==
  /\ pc[t] \in {"poll", "connect", "wait"} /\ ~expired[t]
  /\ expired' = [expired EXCEPT ![t] = TRUE]
  /\ UNCHANGED <<plan, mainVars, pc, idx, sock, result, selected_rank,
                 raceVars, open>>

\* 150 ms have passed since the first success.
WindowElapses ==
  /\ best_rank # SIZE_MAX /\ ~windowOver
  /\ windowOver' = TRUE
  /\ UNCHANGED <<plan, mainVars, taskVars, completed, best_rank, cancelled,
                 open>>

\* The call has returned.
Returned == main = "done" /\ UNCHANGED vars

Next ==
  \/ MainStep
  \/ \E t \in Task : TaskStep(t) \/ Expire(t)
  \/ WindowElapses
  \/ Returned

Spec == Init /\ [][Next]_vars

\* Threads are scheduled, blocking calls of main return once their condition
\* holds, and the monotonic clock passes every handshake's deadline.
FairSpec ==
  /\ Spec
  /\ WF_vars(MainStep)
  /\ \A t \in Task : WF_vars(TaskStep(t)) /\ WF_vars(Expire(t))

-----------------------------------------------------------------------------
(* Properties                                                               *)

\* The route that socket_quic_client_create() returns is the best one any task
\* confirmed, also those confirmed between the moment main stopped waiting and
\* the join; and it returns NULL only if no task confirmed a route.
SelectsBestConfirmedRoute ==
  main = "done" =>
    /\ selected = NULL <=> \A t \in Task : ~Connected(t)
    /\ \A t \in Task : Connected(t) => HeldRank <= selected_rank[t]

\* What the race publishes is never worse than what made main stop waiting:
\* best_rank is the smallest rank among the tasks that have reported.
BestRankIsMinimum ==
  /\ \A t \in Task : pc[t] = "exited" /\ Connected(t)
                       => best_rank <= selected_rank[t]
  /\ best_rank # SIZE_MAX =>
       \E t \in Task : /\ pc[t] = "exited" /\ Connected(t)
                       /\ selected_rank[t] = best_rank

\* A running race is cancelled only when there is a route to return: if main
\* gives up, every candidate of every task was tried to the end.
NoRouteMeansAllTried ==
  main = "done" /\ selected = NULL /\ ~failed =>
    \A t \in Tasks : idx[t] > Len(plan.ranks[t])

\* Every socket has one owner: a task that still works with it, a task's
\* result, or main.  No thread works on a destroyed socket and no two threads
\* share one.
SocketsHaveOneOwner ==
  /\ \A t \in Task : sock[t] # NULL =>
       /\ sock[t] \in open
       /\ \A u \in Task : (u # t => sock[u] # sock[t]) /\ result[u] # sock[t]
  /\ \A t, u \in Task : Connected(t) /\ t # u => result[t] # result[u]
  /\ \A t \in Task : pc[t] \in InHandshake => sock[t] # NULL

\* Nothing leaks: after the call the returned socket is open and no other.
OnlySelectedStaysOpen ==
  main = "done" =>
    open = IF selected = NULL THEN {} ELSE {result[selected]}

\* Sockets are neither shared, used after they were destroyed, nor leaked, however
\* tasks, cancellation and failures interleave (socket_quic_candidate_thread() and
\* the loops after the join).
SocketsAreAccountedFor == SocketsHaveOneOwner /\ OnlySelectedStaysOpen

\* The comment above initial_socket_task: NAT-derived candidates are tried
\* through the exact socket that STUN and punching used, and by no other task.
NatThroughPunchedSocket ==
  plan.nat_task # SIZE_MAX =>
    /\ pc[plan.nat_task] \in InHandshake => sock[plan.nat_task] = SC
    /\ Connected(plan.nat_task) => result[plan.nat_task] = SC
    /\ \A t \in Tasks \ {plan.nat_task} : sock[t] # SC /\ result[t] # SC

\* A better route may replace a reported one and never the other way round,
\* and a cancelled race stays cancelled.
RaceOnlyImproves ==
  [][best_rank' <= best_rank /\ (cancelled => cancelled')]_vars

\* Threads, locks, cancellation and the grace window are invisible to the caller: the
\* race does what RouteChoice allows.  Candidates are tried in order and to the end
\* unless a route was confirmed, a best one is returned, and no task goes on after the
\* call has returned (socket_quic_client_create()).
Choice == INSTANCE RouteChoice WITH
  Lane <- Task, NoRank <- SIZE_MAX, Nobody <- NULL,
  ranks     <- [t \in Tasks |-> plan.ranks[t]],
  begun     <- main # "create",
  trying    <- idx,
  confirmed <- [t \in Task |-> IF Connected(t) THEN selected_rank[t] ELSE SIZE_MAX],
  returned  <- main = "done",
  answer    <- IF main = "done" THEN selected ELSE NULL
ChoosesRoute == Choice!Spec

\* The call returns, whatever the network does.
CallReturns == <>(main = "done")

-----------------------------------------------------------------------------
(* The inductive invariant behind the safety properties.                    *)

\* Threads and main's control: which tasks have been started, which are over.
ControlInv ==
  /\ \A t \in Task : pc[t] # "idle" => t \in Tasks
  /\ failed => main = "done" /\ \A t \in Task : pc[t] = "idle"
  /\ main = "create" => next = 0 /\ \A t \in Task : pc[t] = "idle"
  /\ main \in {"spawn", "inline"} => \A t \in Tasks :
       /\ t < next => pc[t] # "idle" /\ (started[t] \/ pc[t] = "exited")
       /\ t > next \/ (t = next /\ main = "spawn") => pc[t] = "idle"
  /\ main = "inline" => next < plan.task_count /\ pc[next] # "idle"
  /\ main \in {"wait", "join"} =>
       \A t \in Tasks : pc[t] # "idle" /\ (started[t] \/ pc[t] = "exited")
  /\ main = "join" => \A t \in Tasks : t < next => pc[t] = "exited"
  /\ main \in {"select", "done"} /\ ~failed => \A t \in Tasks : pc[t] = "exited"

\* What a task's own fields say at each point of its thread.
TaskInv ==
  \A t \in Task :
    /\ pc[t] \in InHandshake \cup {"socket"} => idx[t] <= Len(plan.ranks[t])
    /\ pc[t] \in InHandshake => sock[t] # NULL
    /\ pc[t] = "exited" => sock[t] = NULL
    /\ Connected(t) => /\ pc[t] \in {"finish", "exited"}
                       /\ sock[t] = NULL /\ selected_rank[t] \in Rank
    /\ pc[t] \in {"finish", "exited"} /\ ~Connected(t) /\ ~cancelled =>
         idx[t] > Len(plan.ranks[t])

\* A task uses the socket it opened, the task plan.initial uses SC.
SocketInv ==
  /\ \A t \in Task :
       /\ sock[t] \in {NULL, IF t = plan.initial THEN SC ELSE t}
       /\ result[t] \in {NULL, IF t = plan.initial THEN SC ELSE t}
       /\ pc[t] = "idle" /\ t # plan.initial => sock[t] = NULL
  /\ main = "create" \/ failed => \A t \in Task : sock[t] = NULL
  /\ main # "create" /\ ~failed
       /\ pc[plan.initial] \notin {"finish", "exited"} => sock[plan.initial] = SC

\* Is task t's result still owned by the task or by main?
Held(t) ==
  \/ main \notin {"select", "done"}
  \/ main = "select" /\ t >= next
  \/ t = selected

\* The open sockets are those that some task or main owns.
OpenInv ==
  \A s \in Socket :
    s \in open <=> \E t \in Task : sock[t] = s \/ (result[t] = s /\ Held(t))

\* The selection loop holds the best result among the tasks it has passed.
SelectInv ==
  /\ main \notin {"select", "done"} \/ failed => selected = NULL
  /\ main = "done" /\ ~failed => next = plan.task_count
  /\ selected # NULL =>
       selected \in Tasks /\ selected < next /\ Connected(selected)
  /\ main \in {"select", "done"} => \A t \in Tasks :
       t < next /\ Connected(t) =>
         selected # NULL /\ selected_rank[selected] <= selected_rank[t]

CancelInv ==
  cancelled => best_rank # SIZE_MAX /\ main \in {"join", "select", "done"}

IInv ==
  /\ TypeOK /\ ControlInv /\ TaskInv /\ SocketInv /\ OpenInv
  /\ SelectInv /\ CancelInv /\ BestRankIsMinimum

=============================================================================
