--------------------------- MODULE QuicRaceProofs ---------------------------
(***************************************************************************)
(* Proofs about QuicRace, for every number of tasks and every set of well- *)
(* formed plans.  A step of one task's thread leaves main and the other    *)
(* threads alone (TaskStepFrame); with it each conjunct of IInv is shown   *)
(* to be preserved on its own, and Invariance puts them together.  The     *)
(* safety properties then follow from IInv without looking at steps again. *)
(***************************************************************************)
EXTENDS QuicRace, TLAPS

\* An index within a sequence yields an element of its set (task->ranks[i]).
LEMMA SeqElement ==
  ASSUME NEW S, NEW s \in Seq(S), NEW i \in Nat \ {0}, i <= Len(s)
  PROVE  s[i] \in S
  OBVIOUS

\* What the types say about the sets that the model is built from.
LEMMA PlanFacts ==
  ASSUME TypeOK
  PROVE  /\ MaxTasks \in Nat \ {0} /\ SIZE_MAX \in Nat \ {0}
         /\ plan.task_count \in 1..MaxTasks
         /\ Tasks \subseteq Task
         /\ plan.initial \in Tasks
         /\ SC \in Socket \ Task /\ NULL \notin Socket /\ Task \subseteq Socket
         /\ Rank \subseteq Nat /\ SIZE_MAX \notin Rank
         /\ Rank \cup {SIZE_MAX} \subseteq 0..SIZE_MAX
  BY PlansAssumption
  DEF TypeOK, WellFormedPlan, Tasks, Task, SC, Socket, NULL, Rank

\* A step that belongs to the thread of t: main's variables and the other
\* tasks' fields stay as they are.
Others(t) ==
  /\ UNCHANGED <<plan, mainVars, cancelled, windowOver>>
  /\ pc[t] \notin {"idle", "exited"} /\ pc'[t] # "idle"
  /\ \A u \in Task \ {t} : /\ pc'[u] = pc[u] /\ idx'[u] = idx[u]
                           /\ sock'[u] = sock[u] /\ result'[u] = result[u]
                           /\ selected_rank'[u] = selected_rank[u]

\* Every step of a task's thread, and the passing of its deadline, has that
\* frame: one case per step of socket_quic_candidate_thread().
LEMMA TaskStepFrame ==
  ASSUME TypeOK, NEW t \in Task, TaskStep(t) \/ Expire(t)
  PROVE  Others(t)
  <1> USE DEF TypeOK, Others, taskVars, mainVars, raceVars
  <1>1. CASE CheckCancelled(t) BY <1>1 DEF CheckCancelled
  <1>2. CASE UseSocket(t) BY <1>2 DEF UseSocket
  <1>3. CASE OpenSocket(t) BY <1>3 DEF OpenSocket
  <1>4. CASE OpenSocketFails(t) BY <1>4 DEF OpenSocketFails, TryNextCandidate
  <1>5. CASE Setup(t) BY <1>5 DEF Setup
  <1>6. CASE PollCancelled(t) BY <1>6 DEF PollCancelled
  <1>7. CASE SslConnect(t) BY <1>7 DEF SslConnect
  <1>8. CASE WaitForIO(t) BY <1>8 DEF WaitForIO
  <1>9. CASE HandshakeFails(t) BY <1>9 DEF HandshakeFails, TryNextCandidate
  <1>10. CASE Succeed(t) BY <1>10 DEF Succeed
  <1>11. CASE Finish(t) BY <1>11 DEF Finish
  <1>12. CASE Expire(t) BY <1>12 DEF Expire
  <1> QED BY <1>1, <1>2, <1>3, <1>4, <1>5, <1>6, <1>7, <1>8, <1>9, <1>10,
            <1>11, <1>12 DEF TaskStep

\* Every step preserves the types.  The rank that a success reads is in range
\* because the loop index is (TaskInv), so types alone are not inductive.
LEMMA TypeStep ==
  ASSUME TypeOK, TaskInv, SelectInv, ControlInv, [Next]_vars
  PROVE  TypeOK'
  <1> USE PlanFacts DEF TypeOK, taskVars, mainVars, raceVars
  <1>0. WellFormedPlan(plan)' /\ plan' = plan
    BY DEF Next, MainStep, TaskStep, CheckCancelled, UseSocket, OpenSocket,
       OpenSocketFails, Setup, PollCancelled, SslConnect, WaitForIO,
       HandshakeFails, TryNextCandidate, Succeed, Finish, Expire, CreateFails,
       Create, SpawnThread, RunInline, InlineReturns, StartWaiting, WaitEnds,
       Join, JoinEnds, Select, SelectEnds, WindowElapses, Returned, vars,
       WellFormedPlan
  <1>t. ASSUME NEW t \in Task, TaskStep(t) \/ Expire(t) PROVE TypeOK'
    <2> USE DEF TaskState
    <2>1. CASE CheckCancelled(t) BY <1>0, <2>1 DEF CheckCancelled
    <2>2. CASE UseSocket(t) BY <1>0, <2>2 DEF UseSocket
    <2>3. CASE OpenSocket(t) BY <1>0, <2>3 DEF OpenSocket
    <2>4. CASE OpenSocketFails(t)
      BY <1>0, <2>4 DEF OpenSocketFails, TryNextCandidate
    <2>5. CASE Setup(t) BY <1>0, <2>5 DEF Setup
    <2>6. CASE PollCancelled(t) BY <1>0, <2>6 DEF PollCancelled
    <2>7. CASE SslConnect(t) BY <1>0, <2>7 DEF SslConnect
    <2>8. CASE WaitForIO(t) BY <1>0, <2>8 DEF WaitForIO
    <2>9. CASE HandshakeFails(t)
      BY <1>0, <2>9 DEF HandshakeFails, TryNextCandidate
    <2>10. CASE Succeed(t)
      <3>1. plan.ranks[t] \in Seq(Rank)
        BY <2>10 DEF Succeed, ControlInv, WellFormedPlan, Tasks
      <3>2. idx[t] <= Len(plan.ranks[t])
        BY <2>10 DEF Succeed, TaskInv, InHandshake
      <3>3. plan.ranks[t][idx[t]] \in Rank BY <3>1, <3>2, SeqElement
      <3> QED BY <1>0, <2>10, <3>3 DEF Succeed
    <2>11. CASE Finish(t)
      <3>1. open' \in SUBSET Socket BY <2>11 DEF Finish
      <3> QED BY <1>0, <2>11, <3>1 DEF Finish
    <2>12. CASE Expire(t) BY <1>0, <2>12 DEF Expire
    <2> QED BY <1>t, <2>1, <2>2, <2>3, <2>4, <2>5, <2>6, <2>7, <2>8, <2>9,
              <2>10, <2>11, <2>12 DEF TaskStep
  <1>m. ASSUME MainStep PROVE TypeOK'
    <2> USE DEF MainState, TaskState
    <2>1. CASE CreateFails BY <1>0, <2>1 DEF CreateFails
    <2>2. CASE Create BY <1>0, <2>2 DEF Create
    <2>3. CASE SpawnThread
      <3>1. next \in Task /\ next + 1 \in 0..plan.task_count
        BY <2>3 DEF SpawnThread, Tasks
      <3> QED BY <1>0, <2>3, <3>1 DEF SpawnThread
    <2>4. CASE RunInline BY <1>0, <2>4 DEF RunInline
    <2>5. CASE InlineReturns BY <1>0, <2>5 DEF InlineReturns, ControlInv
    <2>6. CASE StartWaiting BY <1>0, <2>6 DEF StartWaiting
    <2>7. CASE WaitEnds BY <1>0, <2>7 DEF WaitEnds
    <2>8. CASE Join BY <1>0, <2>8 DEF Join
    <2>9. CASE JoinEnds BY <1>0, <2>9 DEF JoinEnds
    <2>10. CASE Select
      <3>1. open' \in SUBSET Socket BY <2>10 DEF Select
      <3>2. selected' \in Task \cup {NULL} BY <2>10 DEF Select, Tasks
      <3> QED BY <1>0, <2>10, <3>1, <3>2 DEF Select
    <2>11. CASE SelectEnds BY <1>0, <2>11 DEF SelectEnds
    <2> QED BY <1>m, <2>1, <2>2, <2>3, <2>4, <2>5, <2>6, <2>7, <2>8, <2>9,
              <2>10, <2>11 DEF MainStep
  <1>w. CASE WindowElapses BY <1>0, <1>w DEF WindowElapses
  <1>r. CASE Returned BY <1>0, <1>r DEF Returned, vars
  <1>u. CASE UNCHANGED vars BY <1>0, <1>u DEF vars
  <1> QED BY <1>t, <1>m, <1>w, <1>r, <1>u DEF Next

\* Every step preserves the relation between main's loops and the threads.
LEMMA ControlStep ==
  ASSUME IInv, [Next]_vars
  PROVE  ControlInv'
  <1> USE PlanFacts DEF IInv, ControlInv, Tasks, taskVars, mainVars, raceVars
  <1>t. ASSUME NEW t \in Task, TaskStep(t) \/ Expire(t) PROVE ControlInv'
    <2>1. Others(t) BY <1>t, TaskStepFrame
    <2> QED BY <2>1 DEF Others, TypeOK
  <1>m. ASSUME MainStep PROVE ControlInv'
    <2>1. CASE CreateFails BY <2>1 DEF CreateFails
    <2>2. CASE Create BY <2>2 DEF Create, TypeOK
    <2>3. CASE SpawnThread BY <2>3 DEF SpawnThread, TypeOK
    <2>4. CASE RunInline BY <2>4 DEF RunInline, TypeOK
    <2>5. CASE InlineReturns BY <2>5 DEF InlineReturns, TypeOK
    <2>6. CASE StartWaiting BY <2>6 DEF StartWaiting, TypeOK
    <2>7. CASE WaitEnds BY <2>7 DEF WaitEnds, TypeOK
    <2>8. CASE Join BY <2>8 DEF Join, TypeOK
    <2>9. CASE JoinEnds BY <2>9 DEF JoinEnds, TypeOK
    <2>10. CASE Select BY <2>10 DEF Select, TypeOK
    <2>11. CASE SelectEnds BY <2>11 DEF SelectEnds, TypeOK
    <2> QED BY <1>m, <2>1, <2>2, <2>3, <2>4, <2>5, <2>6, <2>7, <2>8, <2>9,
              <2>10, <2>11 DEF MainStep
  <1>w. CASE WindowElapses BY <1>w DEF WindowElapses
  <1>r. CASE Returned BY <1>r DEF Returned, vars
  <1>u. CASE UNCHANGED vars BY <1>u DEF vars
  <1> QED BY <1>t, <1>m, <1>w, <1>r, <1>u DEF Next

\* Every step preserves what a task's fields say at its program point.
LEMMA TaskInvStep ==
  ASSUME IInv, [Next]_vars
  PROVE  TaskInv'
  <1> USE PlanFacts DEF IInv, taskVars, mainVars, raceVars, Connected, InHandshake
  <1>t. ASSUME NEW t \in Task, TaskStep(t) \/ Expire(t) PROVE TaskInv'
    <2>0. Others(t) BY <1>t, TaskStepFrame
    <2>1. plan.ranks[t] \in Seq(Rank)
      BY <2>0 DEF Others, ControlInv, TypeOK, WellFormedPlan, Tasks
    <2>2. Len(plan.ranks[t]) \in Nat BY <2>1
    <2>u. ASSUME NEW u \in Task \ {t} PROVE TaskInv!(u)'
      BY <2>0 DEF Others, TaskInv
    <2>t. TaskInv!(t)'
      <3> USE DEF TaskInv, TypeOK
      <3>1. CASE CheckCancelled(t) BY <2>2, <3>1 DEF CheckCancelled
      <3>2. CASE UseSocket(t) BY <3>2 DEF UseSocket
      <3>3. CASE OpenSocket(t) BY <3>3 DEF OpenSocket
      <3>4. CASE OpenSocketFails(t)
        BY <3>4 DEF OpenSocketFails, TryNextCandidate
      <3>5. CASE Setup(t) BY <3>5 DEF Setup
      <3>6. CASE PollCancelled(t) BY <3>6 DEF PollCancelled
      <3>7. CASE SslConnect(t) BY <3>7 DEF SslConnect
      <3>8. CASE WaitForIO(t) BY <3>8 DEF WaitForIO
      <3>9. CASE HandshakeFails(t)
        BY <3>9 DEF HandshakeFails, TryNextCandidate
      <3>10. CASE Succeed(t)
        <4>1. plan.ranks[t][idx[t]] \in Rank
          BY <2>1, <3>10, SeqElement DEF Succeed
        <4> QED BY <3>10, <4>1 DEF Succeed
      <3>11. CASE Finish(t) BY <3>11 DEF Finish
      <3>12. CASE Expire(t) BY <3>12 DEF Expire
      <3> QED BY <1>t, <3>1, <3>2, <3>3, <3>4, <3>5, <3>6, <3>7, <3>8, <3>9,
                <3>10, <3>11, <3>12 DEF TaskStep
    <2> QED BY <2>u, <2>t DEF TaskInv
  <1>m. ASSUME MainStep PROVE TaskInv'
    <2> USE DEF TaskInv
    <2>1. CASE CreateFails BY <2>1 DEF CreateFails
    <2>2. CASE Create BY <2>2 DEF Create, TypeOK, ControlInv
    <2>3. CASE SpawnThread BY <2>3 DEF SpawnThread, TypeOK, ControlInv, Tasks
    <2>4. CASE RunInline BY <2>4 DEF RunInline, TypeOK, ControlInv, Tasks
    <2>5. CASE InlineReturns BY <2>5 DEF InlineReturns
    <2>6. CASE StartWaiting BY <2>6 DEF StartWaiting
    <2>7. CASE WaitEnds BY <2>7 DEF WaitEnds, CancelInv, TypeOK
    <2>8. CASE Join BY <2>8 DEF Join
    <2>9. CASE JoinEnds BY <2>9 DEF JoinEnds
    <2>10. CASE Select BY <2>10 DEF Select
    <2>11. CASE SelectEnds BY <2>11 DEF SelectEnds
    <2> QED BY <1>m, <2>1, <2>2, <2>3, <2>4, <2>5, <2>6, <2>7, <2>8, <2>9,
              <2>10, <2>11 DEF MainStep
  <1> USE DEF TaskInv
  <1>w. CASE WindowElapses BY <1>w DEF WindowElapses
  <1>r. CASE Returned BY <1>r DEF Returned, vars
  <1>u. CASE UNCHANGED vars BY <1>u DEF vars
  <1> QED BY <1>t, <1>m, <1>w, <1>r, <1>u DEF Next

\* Every step preserves which socket a task may hold: the NAT or directory
\* task keeps the punched socket until its thread is about to end.
LEMMA SocketStep ==
  ASSUME IInv, [Next]_vars
  PROVE  SocketInv'
  <1> USE PlanFacts DEF IInv, taskVars, mainVars, raceVars
  <1>t. ASSUME NEW t \in Task, TaskStep(t) \/ Expire(t) PROVE SocketInv'
    <2>0. Others(t) BY <1>t, TaskStepFrame
    <2>1. /\ ~failed /\ main # "create"
          /\ t = plan.initial /\ pc[t] # "finish" => sock[t] = SC
      BY <2>0 DEF Others, ControlInv, SocketInv
    <2>2. \/ sock'[t] = sock[t] /\ result'[t] = result[t]
             /\ (pc[t] = "finish" => pc'[t] = "finish")
          \/ OpenSocket(t) \/ Succeed(t) \/ Finish(t)
      BY <1>t DEF TaskStep, CheckCancelled, UseSocket, OpenSocketFails, Setup,
         PollCancelled, SslConnect, WaitForIO, HandshakeFails, TryNextCandidate,
         Expire
    <2>3. /\ {sock'[t], result'[t]} \subseteq
                {NULL, IF t = plan.initial THEN SC ELSE t}
          /\ t = plan.initial /\ pc'[t] \notin {"finish", "exited"} =>
                sock'[t] = SC
      <3> USE DEF SocketInv, TypeOK
      <3>1. CASE OpenSocket(t) BY <2>1, <3>1 DEF OpenSocket
      <3>2. CASE Succeed(t) BY <3>2 DEF Succeed
      <3>3. CASE Finish(t) BY <3>3 DEF Finish
      <3> QED BY <2>1, <2>2, <3>1, <3>2, <3>3
    <2> QED BY <2>0, <2>1, <2>3 DEF Others, SocketInv
  <1>m. ASSUME MainStep PROVE SocketInv'
    <2> USE DEF SocketInv
    <2>1. CASE CreateFails BY <2>1 DEF CreateFails
    <2>2. CASE Create BY <2>2 DEF Create, TypeOK, ControlInv
    <2>3. CASE SpawnThread
      BY <2>3 DEF SpawnThread, TypeOK, ControlInv, Tasks
    <2>4. CASE RunInline BY <2>4 DEF RunInline, TypeOK, ControlInv, Tasks
    <2>5. CASE InlineReturns BY <2>5 DEF InlineReturns
    <2>6. CASE StartWaiting BY <2>6 DEF StartWaiting
    <2>7. CASE WaitEnds BY <2>7 DEF WaitEnds
    <2>8. CASE Join BY <2>8 DEF Join
    <2>9. CASE JoinEnds BY <2>9 DEF JoinEnds
    <2>10. CASE Select BY <2>10 DEF Select
    <2>11. CASE SelectEnds BY <2>11 DEF SelectEnds
    <2> QED BY <1>m, <2>1, <2>2, <2>3, <2>4, <2>5, <2>6, <2>7, <2>8, <2>9,
              <2>10, <2>11 DEF MainStep
  <1> USE DEF SocketInv
  <1>w. CASE WindowElapses BY <1>w DEF WindowElapses
  <1>r. CASE Returned BY <1>r DEF Returned, vars
  <1>u. CASE UNCHANGED vars BY <1>u DEF vars
  <1> QED BY <1>t, <1>m, <1>w, <1>r, <1>u DEF Next

\* Every step preserves the meaning of best_rank, and cancellation needs one.
LEMMA BestStep ==
  ASSUME IInv, [Next]_vars
  PROVE  BestRankIsMinimum' /\ CancelInv'
  <1> USE PlanFacts DEF IInv, taskVars, mainVars, raceVars, Connected
  <1>t. ASSUME NEW t \in Task, TaskStep(t) \/ Expire(t)
        PROVE  BestRankIsMinimum' /\ CancelInv'
    <2>0. Others(t) BY <1>t, TaskStepFrame
    <2>1. CASE Finish(t)
      <3>1. /\ pc'[t] = "exited" /\ result'[t] = result[t]
            /\ selected_rank'[t] = selected_rank[t]
            /\ best_rank' = IF Connected(t) /\ selected_rank[t] < best_rank
                            THEN selected_rank[t] ELSE best_rank
        BY <2>1 DEF Finish, TypeOK
      <3>2. best_rank \in Nat /\ \A u \in Task : selected_rank[u] \in Nat
        BY DEF TypeOK
      <3>3. Connected(t) => selected_rank[t] \in Rank BY DEF TaskInv
      <3> QED BY <2>0, <3>1, <3>2, <3>3
              DEF Others, BestRankIsMinimum, CancelInv, TypeOK
    <2>2. CASE ~Finish(t)
      <3>1. pc'[t] # "exited" /\ best_rank' = best_rank
        BY <1>t, <2>2 DEF TaskStep, CheckCancelled, UseSocket, OpenSocket,
           OpenSocketFails, Setup, PollCancelled, SslConnect, WaitForIO,
           HandshakeFails, TryNextCandidate, Succeed, Expire, TypeOK
      <3> QED BY <2>0, <3>1 DEF Others, BestRankIsMinimum, CancelInv, mainVars
    <2> QED BY <2>1, <2>2
  <1>m. ASSUME MainStep PROVE BestRankIsMinimum' /\ CancelInv'
    <2> USE DEF BestRankIsMinimum, CancelInv
    <2>1. CASE CreateFails BY <2>1 DEF CreateFails
    <2>2. CASE Create BY <2>2 DEF Create
    <2>3. CASE SpawnThread
      BY <2>3 DEF SpawnThread, TypeOK, ControlInv, Tasks
    <2>4. CASE RunInline BY <2>4 DEF RunInline, TypeOK, ControlInv, Tasks
    <2>5. CASE InlineReturns BY <2>5 DEF InlineReturns
    <2>6. CASE StartWaiting BY <2>6 DEF StartWaiting
    <2>7. CASE WaitEnds BY <2>7 DEF WaitEnds
    <2>8. CASE Join BY <2>8 DEF Join
    <2>9. CASE JoinEnds BY <2>9 DEF JoinEnds
    <2>10. CASE Select BY <2>10 DEF Select
    <2>11. CASE SelectEnds BY <2>11 DEF SelectEnds
    <2> QED BY <1>m, <2>1, <2>2, <2>3, <2>4, <2>5, <2>6, <2>7, <2>8, <2>9,
              <2>10, <2>11 DEF MainStep
  <1> USE DEF BestRankIsMinimum, CancelInv
  <1>w. CASE WindowElapses BY <1>w DEF WindowElapses
  <1>r. CASE Returned BY <1>r DEF Returned, vars
  <1>u. CASE UNCHANGED vars BY <1>u DEF vars
  <1> QED BY <1>t, <1>m, <1>w, <1>r, <1>u DEF Next

\* A socket belongs to one task.
LEMMA OwnSocket ==
  ASSUME IInv, NEW t \in Task, NEW u \in Task, NEW s \in Socket,
         sock[t] = s \/ result[t] = s, sock[u] = s \/ result[u] = s
  PROVE  t = u
  BY PlanFacts DEF IInv, SocketInv, TypeOK

\* Every step preserves that the open sockets are exactly the owned ones:
\* only opening, succeeding, finishing, creating and selecting move sockets.
LEMMA OpenStep ==
  ASSUME IInv, [Next]_vars
  PROVE  OpenInv'
  <1> USE PlanFacts DEF IInv, taskVars, mainVars, raceVars
  <1>0. TypeOK' BY TypeStep
  <1>t. ASSUME NEW t \in Task, TaskStep(t) \/ Expire(t) PROVE OpenInv'
    <2>0. Others(t) BY <1>t, TaskStepFrame
    <2>1. main \notin {"select", "done"} /\ main' = main
      BY <2>0 DEF Others, ControlInv, Tasks
    <2>2. \A u \in Task : Held(u) /\ Held(u)' BY <2>1 DEF Held
    <2>3. \A s \in Socket : s \in open <=>
            \E u \in Task : sock[u] = s \/ result[u] = s
      BY <2>2 DEF OpenInv
    <2>4. SUFFICES \A s \in Socket : s \in open' <=>
            \E u \in Task : sock'[u] = s \/ result'[u] = s
      BY <2>2 DEF OpenInv
    <2>5. CASE OpenSocket(t)
      <3>1. /\ sock[t] = NULL /\ result[t] = NULL /\ result'[t] = NULL
            /\ sock'[t] = t /\ open' = open \cup {t}
        BY <2>5 DEF OpenSocket, TaskInv, Connected, TypeOK
      <3> QED BY <2>0, <2>3, <3>1 DEF Others
    <2>6. CASE Succeed(t)
      <3>1. /\ result[t] = NULL /\ result'[t] = sock[t] /\ sock'[t] = NULL
            /\ open' = open
        BY <2>6 DEF Succeed, TaskInv, Connected, TypeOK
      <3> QED BY <2>0, <2>3, <3>1 DEF Others
    <2>7. CASE Finish(t)
      <3>1. /\ sock[t] = NULL \/ result[t] = NULL
            /\ result'[t] = result[t] /\ sock'[t] = NULL
            /\ open' = open \ {sock[t]}
        BY <2>7 DEF Finish, TaskInv, Connected, TypeOK
      <3>2. \A u \in Task \ {t} : sock[t] # NULL =>
              sock[u] # sock[t] /\ result[u] # sock[t]
        BY OwnSocket DEF TypeOK
      <3> QED BY <2>0, <2>3, <3>1, <3>2 DEF Others
    <2>8. CASE ~OpenSocket(t) /\ ~Succeed(t) /\ ~Finish(t)
      <3>1. UNCHANGED <<open, sock, result>>
        BY <1>t, <2>8 DEF TaskStep, CheckCancelled, UseSocket, OpenSocketFails,
           Setup, PollCancelled, SslConnect, WaitForIO, HandshakeFails,
           TryNextCandidate, Expire
      <3> QED BY <2>3, <3>1
    <2> QED BY <2>5, <2>6, <2>7, <2>8
  <1>m. ASSUME MainStep PROVE OpenInv'
    <2>0. \A t \in Task : pc[t] = "idle" => result[t] = NULL
      BY DEF TaskInv, Connected
    <2> USE DEF OpenInv, Held
    <2>1. CASE CreateFails
      BY <2>0, <2>1 DEF CreateFails, ControlInv
    <2>2. CASE Create
      <3>1. \A t \in Task : result[t] = NULL /\ sock[t] = NULL
        BY <2>0, <2>2 DEF Create, ControlInv, SocketInv
      <3>2. /\ sock'[plan.initial] = SC /\ open' = {SC} /\ result' = result
            /\ \A t \in Task \ {plan.initial} : sock'[t] = NULL
        BY <2>2, <3>1 DEF Create, TypeOK
      <3> QED BY <3>1, <3>2
    <2>3. CASE SpawnThread BY <2>3 DEF SpawnThread
    <2>4. CASE RunInline BY <2>4 DEF RunInline
    <2>5. CASE InlineReturns BY <2>5 DEF InlineReturns
    <2>6. CASE StartWaiting BY <2>6 DEF StartWaiting
    <2>7. CASE WaitEnds BY <2>7 DEF WaitEnds
    <2>8. CASE Join BY <2>8 DEF Join
    <2>9. CASE JoinEnds BY <2>9 DEF JoinEnds, Task
    <2>10. CASE Select
      <3>1. main = "select" /\ main' = "select" /\ next' = next + 1
            /\ next \in Task /\ next \in Nat
            /\ sock' = sock /\ result' = result
        BY <2>10 DEF Select, TypeOK, Tasks
      <3>2. \A t \in Task : sock[t] = NULL
        BY <3>1 DEF ControlInv, TaskInv, SocketInv, Tasks
      <3>3. PICK lost \in Task \cup {NULL} :
              /\ open' = IF lost = NULL THEN open ELSE open \ {result[lost]}
              /\ \A t \in Task : Held(t)' <=> Held(t) /\ t # lost
        <4>1. selected # NULL => selected \in Task /\ selected < next
          BY DEF SelectInv
        <4>2. \A t \in Task : t \in Int /\ (t >= next <=> t > next \/ t = next)
          BY <3>1 DEF Task
        <4>3. CASE Connected(next) /\ selected_rank[next] < HeldRank
          <5>1. /\ selected' = next
                /\ open' = IF selected = NULL THEN open ELSE open \ {result[selected]}
            BY <2>10, <4>3 DEF Select
          <5>2. \A t \in Task : Held(t)' <=> Held(t) /\ t # selected
            BY <3>1, <4>1, <4>2, <5>1
          <5> QED BY <5>1, <5>2, <4>1
        <4>4. CASE ~(Connected(next) /\ selected_rank[next] < HeldRank)
          <5>1. selected' = selected /\ open' = open \ {result[next]}
            BY <2>10, <4>4 DEF Select
          <5>2. \A t \in Task : Held(t)' <=> Held(t) /\ t # next
            BY <3>1, <4>1, <4>2, <5>1
          <5> QED BY <5>1, <5>2, <3>1
        <4> QED BY <4>3, <4>4
      <3>4. \A t, u \in Task : result[t] = result[u] /\ result[t] # NULL => t = u
        BY OwnSocket DEF TypeOK
      <3> QED BY <3>1, <3>2, <3>3, <3>4
    <2>11. CASE SelectEnds
      <3>1. \A t \in Task : t \notin Tasks => result[t] = NULL
        BY <2>0 DEF ControlInv
      <3>2. \A t \in Task : t >= plan.task_count => t \notin Tasks
        BY DEF Tasks, Task
      <3> QED BY <2>11, <3>1, <3>2 DEF SelectEnds
    <2> QED BY <1>m, <2>1, <2>2, <2>3, <2>4, <2>5, <2>6, <2>7, <2>8, <2>9,
              <2>10, <2>11 DEF MainStep
  <1> USE DEF OpenInv, Held
  <1>w. CASE WindowElapses BY <1>w DEF WindowElapses
  <1>r. CASE Returned BY <1>r DEF Returned, vars
  <1>u. CASE UNCHANGED vars BY <1>u DEF vars
  <1> QED BY <1>t, <1>m, <1>w, <1>r, <1>u DEF Next

\* Every step preserves the loop invariant of main's selection loop.
LEMMA SelectStep ==
  ASSUME IInv, [Next]_vars
  PROVE  SelectInv'
  <1> USE PlanFacts DEF IInv, taskVars, mainVars, raceVars
  <1>t. ASSUME NEW t \in Task, TaskStep(t) \/ Expire(t) PROVE SelectInv'
    <2>1. Others(t) BY <1>t, TaskStepFrame
    <2>2. main \notin {"select", "done"}
      BY <2>1 DEF Others, ControlInv, Tasks
    <2> QED BY <2>1, <2>2 DEF Others, SelectInv
  <1>m. ASSUME MainStep PROVE SelectInv'
    <2> USE DEF SelectInv, Tasks, Connected
    <2>1. CASE CreateFails BY <2>1 DEF CreateFails, ControlInv
    <2>2. CASE Create BY <2>2 DEF Create, ControlInv
    <2>3. CASE SpawnThread BY <2>3 DEF SpawnThread, ControlInv
    <2>4. CASE RunInline BY <2>4 DEF RunInline, ControlInv
    <2>5. CASE InlineReturns BY <2>5 DEF InlineReturns, ControlInv
    <2>6. CASE StartWaiting BY <2>6 DEF StartWaiting, ControlInv
    <2>7. CASE WaitEnds BY <2>7 DEF WaitEnds, ControlInv
    <2>8. CASE Join BY <2>8 DEF Join, ControlInv
    <2>9. CASE JoinEnds BY <2>9 DEF JoinEnds, ControlInv
    <2>10. CASE Select
      <3>1. \A t \in Tasks : selected_rank[t] \in Nat
        BY DEF TypeOK
      <3>2. \A t \in Tasks : Connected(t) => selected_rank[t] < SIZE_MAX
        BY DEF TaskInv, Rank
      <3>3. next \in Tasks /\ next \in Nat BY <2>10 DEF Select, TypeOK
      <3>4. ~failed BY <2>10 DEF Select, ControlInv
      <3> QED BY <2>10, <3>1, <3>2, <3>3, <3>4 DEF Select, HeldRank
    <2>11. CASE SelectEnds BY <2>11 DEF SelectEnds, ControlInv
    <2> QED BY <1>m, <2>1, <2>2, <2>3, <2>4, <2>5, <2>6, <2>7, <2>8, <2>9,
              <2>10, <2>11 DEF MainStep
  <1> USE DEF SelectInv, Tasks, Connected
  <1>w. CASE WindowElapses BY <1>w DEF WindowElapses
  <1>r. CASE Returned BY <1>r DEF Returned, vars
  <1>u. CASE UNCHANGED vars BY <1>u DEF vars
  <1> QED BY <1>t, <1>m, <1>w, <1>r, <1>u DEF Next

\* The inductive invariant holds for any number of tasks and candidates,
\* whatever plan the call was given.
THEOREM Invariance == Spec => []IInv
  <1>1. Init => IInv
    <2> SUFFICES ASSUME Init PROVE IInv OBVIOUS
    <2> USE PlansAssumption DEF Init
    <2>1. TypeOK
      <3>1. WellFormedPlan(plan) OBVIOUS
      <3>2. 0 \in 0..plan.task_count BY <3>1 DEF WellFormedPlan
      <3>3. /\ pc \in [Task -> TaskState] /\ idx \in [Task -> Nat \ {0}]
            /\ sock \in [Task -> Socket \cup {NULL}]
            /\ result \in [Task -> Socket \cup {NULL}]
            /\ selected_rank \in [Task -> Rank \cup {SIZE_MAX}]
            /\ started \in [Task -> BOOLEAN] /\ expired \in [Task -> BOOLEAN]
        BY DEF TaskState
      <3> QED BY <3>1, <3>2, <3>3 DEF TypeOK, MainState
    <2>2. ControlInv BY DEF ControlInv, Tasks
    <2>3. TaskInv BY DEF TaskInv, Connected, InHandshake
    <2>4. SocketInv BY DEF SocketInv
    <2>5. OpenInv BY <2>1, PlanFacts DEF OpenInv, Held
    <2>6. SelectInv /\ CancelInv BY DEF SelectInv, CancelInv
    <2>7. BestRankIsMinimum BY DEF BestRankIsMinimum
    <2> QED BY <2>1, <2>2, <2>3, <2>4, <2>5, <2>6, <2>7 DEF IInv
  <1>2. IInv /\ [Next]_vars => IInv'
    <2> SUFFICES ASSUME IInv, [Next]_vars PROVE IInv' OBVIOUS
    <2>1. TypeOK' BY TypeStep DEF IInv
    <2> QED BY <2>1, ControlStep, TaskInvStep, SocketStep, OpenStep,
              SelectStep, BestStep DEF IInv
  <1> QED BY <1>1, <1>2, PTL DEF Spec

\* Type correctness of the race; in particular task->ranks[i] is never read
\* outside the array.
THEOREM TypeCorrect == Spec => []TypeOK
  <1>1. IInv => TypeOK BY DEF IInv
  <1> QED BY <1>1, Invariance, PTL

\* socket_quic_client_create() returns the best confirmed route and NULL only
\* if there is none.
THEOREM BestRoute == Spec => []SelectsBestConfirmedRoute
  <1>1. ASSUME IInv PROVE SelectsBestConfirmedRoute
    <2> SUFFICES ASSUME main = "done" PROVE SelectsBestConfirmedRoute
      BY DEF SelectsBestConfirmedRoute
    <2> USE <1>1, PlanFacts DEF IInv
    <2>1. \A t \in Task : Connected(t) =>
            /\ ~failed /\ t \in Tasks /\ t < next
            /\ selected # NULL /\ selected_rank[selected] <= selected_rank[t]
      BY DEF ControlInv, TaskInv, SelectInv, Tasks
    <2>2. selected # NULL => selected \in Task /\ Connected(selected)
      BY DEF SelectInv
    <2> QED BY <2>1, <2>2 DEF SelectsBestConfirmedRoute, HeldRank
  <1> QED BY <1>1, Invariance, PTL

\* If the call gives up, every candidate of every task has been tried.
THEOREM NoEarlyGivingUp == Spec => []NoRouteMeansAllTried
  <1>1. ASSUME IInv PROVE NoRouteMeansAllTried
    <2> SUFFICES ASSUME main = "done", selected = NULL, ~failed,
                        NEW t \in Tasks
                 PROVE  idx[t] > Len(plan.ranks[t])
      BY DEF NoRouteMeansAllTried
    <2> USE <1>1, PlanFacts DEF IInv
    <2>1. \A u \in Task : ~Connected(u)
      BY DEF ControlInv, TaskInv, SelectInv, Tasks
    <2>2. ~cancelled BY <2>1 DEF CancelInv, BestRankIsMinimum
    <2> QED BY <2>1, <2>2 DEF TaskInv, ControlInv
  <1> QED BY <1>1, Invariance, PTL

\* No thread works on a socket that is destroyed or that another thread
\* owns, and the call leaves no socket open but the one it returns.
THEOREM SocketOwnership ==
  Spec => []SocketsAreAccountedFor
  <1>1. ASSUME IInv PROVE SocketsHaveOneOwner
    <2> USE <1>1, PlanFacts DEF IInv
    <2>1. ASSUME NEW t \in Task, sock[t] # NULL
          PROVE  /\ sock[t] \in open
                 /\ \A u \in Task : u # t => sock[u] # sock[t]
                 /\ \A u \in Task : result[u] # sock[t]
      BY <2>1, OwnSocket DEF OpenInv, TaskInv, Connected, TypeOK
    <2>2. ASSUME NEW t \in Task, NEW u \in Task, Connected(t), t # u
          PROVE  result[t] # result[u]
      BY <2>2, OwnSocket DEF Connected, TypeOK
    <2> QED BY <2>1, <2>2 DEF SocketsHaveOneOwner, TaskInv
  <1>2. ASSUME IInv PROVE OnlySelectedStaysOpen
    <2> SUFFICES ASSUME main = "done" PROVE OnlySelectedStaysOpen
      BY DEF OnlySelectedStaysOpen
    <2> USE <1>2, PlanFacts DEF IInv
    <2>1. CASE failed
      <3>1. selected = NULL /\ \A t \in Task : sock[t] = NULL /\ result[t] = NULL
        BY <2>1 DEF SelectInv, ControlInv, TaskInv, Connected, SocketInv
      <3> QED BY <3>1 DEF OpenInv, OnlySelectedStaysOpen, TypeOK
    <2>2. CASE ~failed
      <3>1. \A t \in Task : sock[t] = NULL
        BY <2>2 DEF ControlInv, TaskInv, SocketInv
      <3>2. \A s \in Socket : s \in open <=>
              \E t \in Task : result[t] = s /\ t = selected
        BY <3>1 DEF OpenInv, Held
      <3>3. selected # NULL => selected \in Task /\ result[selected] \in Socket
        BY DEF SelectInv, Connected, TypeOK
      <3> QED BY <3>2, <3>3 DEF OnlySelectedStaysOpen, TypeOK
    <2> QED BY <2>1, <2>2
  <1>3. IInv => SocketsAreAccountedFor BY <1>1, <1>2 DEF SocketsAreAccountedFor
  <1> QED BY <1>3, Invariance, PTL

\* NAT-derived candidates use the punched socket, and nothing else does.
THEOREM NatRoute == Spec => []NatThroughPunchedSocket
  <1>1. ASSUME IInv PROVE NatThroughPunchedSocket
    BY <1>1, PlanFacts DEF IInv, NatThroughPunchedSocket, SocketInv, TaskInv,
       ControlInv, TypeOK, WellFormedPlan, InHandshake, Connected
  <1> QED BY <1>1, Invariance, PTL

\* best_rank never gets worse and a cancelled race stays cancelled.
THEOREM Improvement == Spec => RaceOnlyImproves
  <1>1. ASSUME IInv, [Next]_vars
        PROVE  [best_rank' <= best_rank /\ (cancelled => cancelled')]_vars
    <2> USE <1>1, PlanFacts DEF IInv, taskVars, mainVars, raceVars
    <2>0. best_rank \in Nat /\ best_rank <= best_rank BY DEF TypeOK
    <2>1. ASSUME NEW t \in Task, Finish(t)
          PROVE  best_rank' <= best_rank /\ cancelled' = cancelled
      BY <2>0, <2>1 DEF Finish, TypeOK
    <2>2. ASSUME NEW t \in Task, TaskStep(t) \/ Expire(t), ~Finish(t)
          PROVE  best_rank' = best_rank /\ cancelled' = cancelled
      BY <2>2 DEF TaskStep, CheckCancelled, UseSocket, OpenSocket,
         OpenSocketFails, Setup, PollCancelled, SslConnect, WaitForIO,
         HandshakeFails, TryNextCandidate, Succeed, Expire
    <2>3. CASE WaitEnds BY <2>0, <2>3 DEF WaitEnds, CancelInv
    <2>4. ASSUME MainStep \/ WindowElapses, ~WaitEnds
          PROVE  best_rank' = best_rank /\ cancelled' = cancelled
      BY <2>4 DEF MainStep, CreateFails, Create, SpawnThread, RunInline,
         InlineReturns, StartWaiting, Join, JoinEnds, Select, SelectEnds,
         WindowElapses
    <2> QED BY <2>0, <2>1, <2>2, <2>3, <2>4 DEF Next, Returned
  <1> QED BY <1>1, Invariance, PTL DEF Spec, RaceOnlyImproves

-----------------------------------------------------------------------------
(* The race implements RouteChoice                                          *)

\* What the caller sees of the race.
Routes == [t \in Task |-> IF Connected(t) THEN selected_rank[t] ELSE SIZE_MAX]

\* A step that only moves threads, sockets and locks is none for the caller.
LEMMA NotSeen ==
  ASSUME UNCHANGED <<plan, idx, result, selected_rank>>,
         main' = "create" <=> main = "create", main' = "done" <=> main = "done",
         main = "done" => selected' = selected
  PROVE  UNCHANGED Choice!vars
  <1>1. (IF main = "done" THEN selected ELSE NULL)' = IF main = "done" THEN selected ELSE NULL
    OBVIOUS
  <1>2. (main # "create")' = (main # "create") /\ (main = "done")' = (main = "done")
    OBVIOUS
  <1>3. [t \in Tasks |-> plan.ranks[t]]' = [t \in Tasks |-> plan.ranks[t]] BY DEF Tasks
  <1>4. Routes' = Routes BY DEF Routes, Connected
  <1> QED BY <1>1, <1>2, <1>3, <1>4 DEF Choice!vars, Routes

\* The steps of a task that a caller could notice: a candidate fails or is confirmed.
LEMMA TaskSeen ==
  ASSUME IInv, NEW t \in Task, TaskStep(t) \/ Expire(t)
  PROVE  [Choice!Next]_(Choice!vars)
  <1> USE DEF IInv, mainVars, taskVars, raceVars
  <1>1. /\ pc[t] \notin {"idle", "exited"} /\ plan' = plan /\ main' = main
        /\ selected' = selected
    BY TaskStepFrame DEF Others
  <1>2. t \in Tasks /\ main # "create" /\ main # "done" BY <1>1, PlanFacts DEF ControlInv
  <1>3. ASSUME UNCHANGED <<idx, result, selected_rank>> PROVE UNCHANGED Choice!vars
    BY <1>1, <1>3, NotSeen
  <1>4. ASSUME pc[t] \in InHandshake \cup {"socket"} PROVE Choice!Tries(t)
    <2>1. ~Connected(t) /\ idx[t] <= Len(plan.ranks[t])
      BY <1>4 DEF TaskInv, InHandshake
    <2> QED BY <1>2, <2>1 DEF Choice!Tries
  <1>5. ASSUME TryNextCandidate(t), pc[t] \in InHandshake \cup {"socket"}
        PROVE  Choice!Next
    <2>1. UNCHANGED <<plan, main, result, selected_rank, selected>>
          /\ idx' = [idx EXCEPT ![t] = @ + 1]
      BY <1>5 DEF TryNextCandidate
    <2>2. Routes' = Routes BY <2>1 DEF Routes, Connected
    <2>3. Choice!Fail(t) BY <1>4, <1>5, <2>1, <2>2 DEF Choice!Fail, Routes, Tasks
    <2> QED BY <2>3 DEF Choice!Next
  <1>6. CASE Succeed(t)
    <2>1. /\ UNCHANGED <<plan, main, idx, selected>> /\ pc[t] = "verify"
          /\ result' = [result EXCEPT ![t] = sock[t]]
          /\ selected_rank' = [selected_rank EXCEPT ![t] = plan.ranks[t][idx[t]]]
      BY <1>6 DEF Succeed
    <2>2. sock[t] # NULL BY <2>1 DEF TaskInv, InHandshake
    <2>3. Routes' = [Routes EXCEPT ![t] = plan.ranks[t][idx[t]]]
      BY <2>1, <2>2 DEF Routes, Connected, TypeOK
    <2>4. Choice!Confirm(t)
      BY <1>2, <1>4, <2>1, <2>3 DEF Choice!Confirm, Routes, Tasks, InHandshake
    <2> QED BY <2>4 DEF Choice!Next
  <1>7. CASE OpenSocketFails(t) BY <1>5, <1>7 DEF OpenSocketFails
  <1>8. CASE HandshakeFails(t) BY <1>5, <1>8 DEF HandshakeFails, InHandshake
  <1>9. CASE ~(Succeed(t) \/ OpenSocketFails(t) \/ HandshakeFails(t))
    BY <1>3, <1>9 DEF TaskStep, CheckCancelled, UseSocket, OpenSocket, Setup,
       PollCancelled, SslConnect, WaitForIO, Finish, Expire
  <1> QED BY <1>6, <1>7, <1>8, <1>9

\* The steps of the caller's thread: the call begins, returns a route or nothing.
LEMMA MainSeen ==
  ASSUME IInv, MainStep \/ WindowElapses
  PROVE  [Choice!Next]_(Choice!vars)
  <1> USE PlanFacts DEF IInv, mainVars, taskVars, raceVars
  <1>1. ASSUME MainStep \/ WindowElapses
        PROVE  UNCHANGED <<plan, idx, result, selected_rank>>
    BY <1>1 DEF MainStep, CreateFails, Create, SpawnThread, RunInline, InlineReturns,
       StartWaiting, WaitEnds, Join, JoinEnds, Select, SelectEnds, WindowElapses
  <1>2. Routes' = Routes BY <1>1 DEF Routes, Connected
  <1>3. CASE Create
    <2>1. main = "create" /\ main' = "spawn" BY <1>3 DEF Create
    <2>2. Choice!Begin BY <1>1, <1>2, <2>1 DEF Choice!Begin, Routes, Tasks
    <2> QED BY <2>2 DEF Choice!Next
  <1>4. CASE CreateFails
    <2>1. main = "create" /\ main' = "done" /\ selected' = selected BY <1>4 DEF CreateFails
    <2>2. selected = NULL BY <2>1 DEF SelectInv
    <2>3. \A t \in Task : ~Connected(t) BY <2>1 DEF ControlInv, TaskInv
    <2>4. Choice!ReturnNothing
      BY <1>1, <1>2, <2>1, <2>2, <2>3 DEF Choice!ReturnNothing, Routes, Tasks
    <2> QED BY <2>4 DEF Choice!Next
  <1>5. CASE SelectEnds
    <2>1. /\ main = "select" /\ next = plan.task_count /\ main' = "done"
          /\ selected' = selected
      BY <1>5 DEF SelectEnds
    <2>2. ~failed /\ \A t \in Tasks : t < next /\ pc[t] = "exited"
      BY <2>1 DEF ControlInv, Tasks
    <2>3. \A t \in Task : Connected(t) =>
            /\ t \in Tasks /\ selected_rank[t] \in Rank
            /\ selected # NULL /\ selected_rank[selected] <= selected_rank[t]
      BY <2>1, <2>2 DEF ControlInv, TaskInv, SelectInv
    <2>4. CASE selected # NULL
      <3>1. selected \in Task /\ Connected(selected) BY <2>4 DEF SelectInv
      <3>2. selected_rank[selected] # SIZE_MAX BY <2>3, <3>1
      <3>3. Choice!ReturnBest(selected)
        BY <1>1, <1>2, <2>1, <2>3, <2>4, <3>1, <3>2 DEF Choice!ReturnBest, Routes, Tasks
      <3> QED BY <3>1, <3>3 DEF Choice!Next
    <2>5. CASE selected = NULL
      <3>1. \A t \in Task : ~Connected(t) BY <2>3, <2>5
      <3>2. ~cancelled BY <3>1 DEF CancelInv, BestRankIsMinimum
      <3>3. \A t \in Tasks : idx[t] > Len(plan.ranks[t]) BY <2>2, <3>1, <3>2 DEF TaskInv
      <3>4. Choice!ReturnNothing
        BY <1>1, <1>2, <2>1, <2>5, <3>1, <3>3 DEF Choice!ReturnNothing, Routes, Tasks
      <3> QED BY <3>4 DEF Choice!Next
    <2> QED BY <2>4, <2>5
  <1>6. CASE ~(Create \/ CreateFails \/ SelectEnds)
    <2>1. /\ main' = "create" <=> main = "create"
          /\ main' = "done" <=> main = "done"
          /\ main # "done" \/ selected' = selected
      BY <1>6 DEF MainStep, SpawnThread, RunInline, InlineReturns,
         StartWaiting, WaitEnds, Join, JoinEnds, Select, WindowElapses
    <2> QED BY <1>1, <2>1, NotSeen
  <1> QED BY <1>3, <1>4, <1>5, <1>6

\* The race implements RouteChoice, for every number of tasks and every plan: to its
\* caller socket_quic_client_create() tries candidates in order, returns a best confirmed
\* route, gives up only when all have failed, and leaves nothing running behind.
THEOREM Implements == Spec => ChoosesRoute
  <1>1. Init => Choice!Init
    <2> SUFFICES ASSUME Init PROVE Choice!Init OBVIOUS
    <2>1. Routes = [t \in Task |-> SIZE_MAX] BY DEF Init, Routes, Connected
    <2> QED BY <2>1 DEF Init, Choice!Init, Routes
  <1>2. IInv /\ [Next]_vars => [Choice!Next]_(Choice!vars)
    <2> SUFFICES ASSUME IInv, [Next]_vars PROVE [Choice!Next]_(Choice!vars) OBVIOUS
    <2>1. CASE Returned \/ UNCHANGED vars
      BY <2>1, NotSeen DEF Returned, vars, mainVars, taskVars
    <2> QED BY <2>1, TaskSeen, MainSeen DEF Next
  <1> QED BY <1>1, <1>2, Invariance, PTL DEF Spec, ChoosesRoute, Choice!Spec

=============================================================================
