---------------------------- MODULE ProcessProofs ----------------------------
(***************************************************************************)
(* Packets and children of process.c for any list of processes, any length *)
(* of packets and any size of the pipes.                                   *)
(*                                                                         *)
(* LoopInv is what the second loop of process_check_all() knows: `idx' has *)
(* passed the descriptors of the collected processes that lie before       *)
(* `cur', and those are all that run, unless a callback started one.  The  *)
(* packets need it, because a packet is written to the descriptor at `idx' *)
(* and not to its process.                                                 *)
(***************************************************************************)
EXTENDS Process, TLAPS

UnitType == [id : Nat, at : Nat]
QueueType == Seq([id : Nat, pos : Nat])

\* The types that the argument needs.
ShapeInv ==
  /\ stream \in [Proc -> Seq(UnitType)] /\ packets \in [Proc -> QueueType]
  /\ sends \in Seq(Proc) /\ misled \in BOOLEAN
  /\ child \in [Proc -> {"none", "alive", "exited"}]
  /\ running \in [Proc -> BOOLEAN]
  /\ fill \in [Proc -> Nat] /\ \A p \in Proc : fill[p] <= PipeSize
  /\ listed \in Seq(Proc) /\ IsInjective(listed)

\* A queued packet is not complete.
QueueInv ==
  \A p \in Proc : \A m \in 1..Len(packets[p]) : packets[p][m].pos < PacketLen

\* The descriptors that were passed are those of the collected processes before
\* the present one.
Passed(j) ==
  /\ idx = 3 * j + (pipe - 1)
  /\ \A m \in 1..Len(polled) : m <= j <=> polled[m] < cur

LoopInv ==
  /\ scope \in Seq(Proc) /\ IsInjective(scope)
  /\ cur \in Nat \ {0} /\ pipe \in 1..3 /\ idx \in Nat
  /\ polled \in Seq(1..Len(scope))
  /\ pc = "end" =>
       /\ idx <= 3 * Len(polled)
       /\ \A k, m \in 1..Len(polled) : k < m => polled[k] < polled[m]
       /\ \A m \in 1..Len(polled) : running[scope[polled[m]]]
       /\ pipe # 1 => cur <= Len(scope) /\ running[scope[cur]]
       /\ StartedSince \/ \E j \in 0..Len(polled) : Passed(j)

\* process_stop() works on a process.
TargetInv == (target # NONE => target \in Proc) /\ (pc = "term" => target # NONE)

IInv ==
  /\ ShapeInv /\ QueueInv /\ LoopInv /\ TargetInv
  /\ RunningHasChild /\ NothingDroppedOrRepeated

-----------------------------------------------------------------------------
(* The loops of process_check_all()                                         *)

\* A process in the list has PROCESS_PIPE_NUM descriptors.
LEMMA Three ==
  /\ Len(Pipes) = 3
  /\ \A i, j \in Nat : \A x \in 0..2 : i = 3 * j + x => i \div 3 = j
  /\ \A i, n \in Nat : i < 3 * n => i \div 3 \in 0..(n - 1)
  BY DEF Pipes

\* Unless a callback started a process, the descriptors at `idx' are those of the
\* process that the loop is at.
LEMMA AtItsDescriptors ==
  ASSUME LoopInv, InEnd
  PROVE  \/ StartedSince
         \/ \E j \in 0..(Len(polled) - 1) : Passed(j) /\ polled[j + 1] = cur
  <1> SUFFICES ASSUME ~StartedSince
               PROVE  \E j \in 0..(Len(polled) - 1) : Passed(j) /\ polled[j + 1] = cur
    OBVIOUS
  <1>1. /\ pc = "end" /\ cur \in 1..Len(scope) /\ running[scope[cur]]
        /\ polled \in Seq(1..Len(scope))
        /\ \A k, m \in 1..Len(polled) : k < m => polled[k] < polled[m]
    BY DEF InEnd, LoopInv
  <1>2. PICK j \in 0..Len(polled) : Passed(j) BY <1>1 DEF LoopInv
  <1>3. PICK m \in 1..Len(polled) : polled[m] = cur
    <2>1. cur \in Range(polled)
      <3>1. \A k \in 1..Len(scope) : ~(running[scope[k]] /\ k \notin Range(polled))
        BY DEF StartedSince
      <3> QED BY <1>1, <3>1, Zenon
    <2>2. DOMAIN polled = 1..Len(polled) BY <1>1
    <2> QED BY <2>1, <2>2 DEF Range
  <1>4. ~(m <= j)
    <2>1. cur \in Nat /\ ~(polled[m] < cur) BY <1>1, <1>3
    <2> QED BY <1>2, <2>1 DEF Passed
  <1>5. j + 1 \in 1..Len(polled) /\ Len(polled) \in Nat BY <1>1, <1>2, <1>3, <1>4
  <1>6. ~(polled[j + 1] < cur) BY <1>2, <1>5 DEF Passed
  <1>7. polled[j + 1] \in Nat /\ polled[m] \in Nat BY <1>1, <1>3, <1>5
  <1>8. m = j + 1
    <2>1. j + 1 < m => polled[j + 1] < polled[m] BY <1>1, <1>3, <1>5
    <2> QED BY <1>1, <1>2, <1>3, <1>4, <1>6, <1>7, <2>1
  <1> QED BY <1>2, <1>3, <1>5, <1>8

\* The second loop looks at descriptors that were collected.
LEMMA Descriptors ==
  ASSUME LoopInv, pc = "end"
  PROVE  /\ DescriptorsMatch
         /\ ~AtEnd => /\ idx < 3 * Len(polled)
                      /\ (idx \div Len(Pipes)) + 1 \in 1..Len(polled)
                      /\ Described \in Proc
  <1>1. /\ idx \in Nat /\ Len(polled) \in Nat /\ idx <= 3 * Len(polled) /\ pipe \in 1..3
        /\ polled \in Seq(1..Len(scope)) /\ scope \in Seq(Proc)
    BY DEF LoopInv
  <1>2. ASSUME ~AtEnd
        PROVE  /\ idx < 3 * Len(polled) /\ (idx \div Len(Pipes)) + 1 \in 1..Len(polled)
               /\ Described \in Proc
    <2>1. idx < 3 * Len(polled) BY <1>1, <1>2, Three DEF AtEnd
    <2>2. (idx \div Len(Pipes)) + 1 \in 1..Len(polled) BY <1>1, <2>1, Three
    <2>3. polled[(idx \div Len(Pipes)) + 1] \in 1..Len(scope) BY <1>1, <2>2
    <2> QED BY <1>1, <2>1, <2>2, <2>3 DEF Described
  <1>3. DescriptorsMatch
    <2> SUFFICES ASSUME InEnd, ~StartedSince PROVE ~AtEnd /\ Described = scope[cur]
      BY DEF DescriptorsMatch
    <2>1. PICK j \in 0..(Len(polled) - 1) : Passed(j) /\ polled[j + 1] = cur
      BY AtItsDescriptors
    <2>2. idx = 3 * j + (pipe - 1) /\ pipe - 1 \in 0..2 BY <1>1, <2>1 DEF Passed
    <2>3. idx \div 3 = j BY <1>1, <2>1, <2>2, Three
    <2>4. ~AtEnd BY <1>1, <2>1, <2>2, Three DEF AtEnd
    <2> QED BY <2>1, <2>3, <2>4, Three DEF Described
  <1> QED BY <1>2, <1>3

\* The first loop collects the descriptors of the processes that run, in order.
LEMMA Begins ==
  ASSUME NEW processes \in Seq(Proc), IsInjective(processes), BeginAndPoll(processes),
         running' = running
  PROVE  LoopInv'
  <1>1. PICK n \in 0..Len(processes) : \E fds \in [1..n -> 1..Len(processes)] :
          /\ \A k, m \in 1..n : k < m => fds[k] < fds[m]
          /\ Range(fds) = {k \in 1..Len(processes) : running[processes[k]]}
          /\ scope' = processes /\ cur' = 1 /\ pipe' = 1 /\ idx' = 0
          /\ polled' = fds
    BY DEF BeginAndPoll
  <1>2. PICK fds \in [1..n -> 1..Len(processes)] :
          /\ \A k, m \in 1..n : k < m => fds[k] < fds[m]
          /\ Range(fds) = {k \in 1..Len(processes) : running[processes[k]]}
          /\ scope' = processes /\ cur' = 1 /\ pipe' = 1 /\ idx' = 0
          /\ polled' = fds
    BY <1>1
  <1>3. n \in Nat BY <1>1
  <1>4. fds \in Seq(1..Len(processes)) /\ Len(fds) = n BY <1>2, <1>3
  <1>5. \A m \in 1..n : fds[m] \in 1..Len(processes) /\ running[processes[fds[m]]]
    BY <1>2 DEF Range
  <1>6. Passed(0)'
    BY <1>2, <1>3, <1>4, <1>5 DEF Passed
  <1>7. 0 \in 0..Len(polled') BY <1>2, <1>4
  <1>8. (\E j \in 0..Len(polled) : Passed(j))' BY <1>6, <1>7
  <1> QED BY <1>2, <1>3, <1>4, <1>5, <1>8 DEF LoopInv

\* One process is a list.
LEMMA Single ==
  ASSUME NEW p \in Proc
  PROVE  <<p>> \in Seq(Proc) /\ IsInjective(<<p>>)
  BY DEF IsInjective

\* Steps outside the second loop.
LEMMA Outside ==
  ASSUME LoopInv, pc' # "end", cur' \in Nat \ {0}, UNCHANGED <<scope, pipe, idx, polled>>
  PROVE  LoopInv'
  BY DEF LoopInv

\* Steps that leave the loops alone; a process may be started.
LEMMA Beside ==
  ASSUME LoopInv, UNCHANGED <<loopVars, pc>>, UNCHANGED running \/ pc # "end"
  PROVE  LoopInv'
  <1>1. CASE pc # "end" BY <1>1, Outside DEF LoopInv, loopVars
  <1>2. CASE UNCHANGED running
    BY <1>2 DEF LoopInv, loopVars, StartedSince, Passed
  <1> QED BY <1>1, <1>2

\* The second loop goes on to the next descriptor, also after a callback that
\* started a process.
LEMMA Moves ==
  ASSUME LoopInv, InEnd, ~AtEnd, NextPipe, UNCHANGED <<scope, polled, pc>>,
         \A p \in Proc : running[p] => running'[p]
  PROVE  LoopInv'
  <1>1. /\ pc = "end" /\ cur \in 1..Len(scope) /\ running[scope[cur]]
        /\ polled \in Seq(1..Len(scope)) /\ scope \in Seq(Proc)
        /\ \A k, m \in 1..Len(polled) : k < m => polled[k] < polled[m]
        /\ idx \in Nat /\ pipe \in 1..3 /\ Len(polled) \in Nat
    BY DEF InEnd, LoopInv
  <1>2. idx < 3 * Len(polled) BY <1>1, Descriptors
  <1>3. \A k \in 1..Len(scope) : running[scope[k]] => running'[scope'[k]] BY <1>1
  <1>4. /\ pipe' = IF pipe = 3 THEN 1 ELSE pipe + 1
        /\ cur' = IF pipe = 3 THEN cur + 1 ELSE cur
        /\ idx' = idx + 1
    BY Three DEF NextPipe
  <1>5. StartedSince => StartedSince' BY <1>3 DEF StartedSince
  <1>6. ASSUME NEW j \in 0..(Len(polled) - 1), Passed(j), polled[j + 1] = cur
        PROVE  \E l \in 0..Len(polled') : Passed(l)'
    <2>1. CASE pipe # 3
      <3>1. Passed(j)' BY <1>1, <1>4, <1>6, <2>1 DEF Passed
      <3> QED BY <1>1, <3>1
    <2>2. CASE pipe = 3
      <3>1. idx' = 3 * (j + 1) + (pipe' - 1) BY <1>1, <1>4, <1>6, <2>2 DEF Passed
      <3>2. ASSUME NEW m \in 1..Len(polled) PROVE m <= j + 1 <=> polled[m] < cur + 1
        <4>1. polled[m] \in Nat /\ cur \in Nat BY <1>1
        <4>2. m <= j <=> polled[m] < cur BY <1>6 DEF Passed
        <4>3. j + 1 \in 1..Len(polled) BY <1>1
        <4>4. m > j + 1 => polled[m] > cur BY <1>1, <1>6, <4>3
        <4>5. m = j + 1 => polled[m] = cur BY <1>6
        <4> QED BY <4>1, <4>2, <4>4, <4>5
      <3>3. Passed(j + 1)' BY <1>4, <2>2, <3>1, <3>2 DEF Passed
      <3>4. j + 1 \in 0..Len(polled') BY <1>1
      <3> QED BY <3>3, <3>4
    <2> QED BY <2>1, <2>2
  <1>7. StartedSince' \/ \E l \in 0..Len(polled') : Passed(l)'
    BY <1>5, <1>6, AtItsDescriptors
  <1>8. \A m \in 1..Len(polled) : running'[scope[polled[m]]]
    <2>1. \A m \in 1..Len(polled) : running[scope[polled[m]]] /\ polled[m] \in 1..Len(scope)
      BY <1>1 DEF LoopInv
    <2> QED BY <1>3, <2>1
  <1>9. pipe' # 1 => cur' <= Len(scope') /\ running'[scope'[cur']]
    BY <1>1, <1>3, <1>4
  <1>10. idx' \in Nat /\ idx' <= 3 * Len(polled') /\ pipe' \in 1..3 /\ cur' \in Nat \ {0}
    BY <1>1, <1>2, <1>4
  <1>11. scope' \in Seq(Proc) /\ IsInjective(scope') /\ polled' \in Seq(1..Len(scope'))
    BY DEF LoopInv
  <1> QED BY <1>1, <1>7, <1>8, <1>9, <1>10, <1>11 DEF LoopInv

\* A process that does not run has no descriptors to pass.
LEMMA Skips ==
  ASSUME LoopInv, EndSkips
  PROVE  LoopInv'
  <1>1. /\ pc = "end" /\ cur \in 1..Len(scope) /\ ~running[scope[cur]]
        /\ polled \in Seq(1..Len(scope)) /\ scope \in Seq(Proc)
        /\ cur' = cur + 1 /\ Len(polled) \in Nat
        /\ UNCHANGED <<pc, scope, pipe, idx, polled, running>>
    BY DEF EndSkips, LoopInv, callVars, procVars
  <1>2. pipe = 1 BY <1>1 DEF LoopInv
  <1>3. \A m \in 1..Len(polled) : polled[m] # cur /\ polled[m] \in Nat
    BY <1>1 DEF LoopInv
  <1>4. StartedSince => StartedSince' BY <1>1 DEF StartedSince
  <1>5. ASSUME NEW j \in 0..Len(polled), Passed(j) PROVE Passed(j)'
    <2>1. \A m \in 1..Len(polled) : polled[m] < cur <=> polled[m] < cur + 1
      BY <1>1, <1>3
    <2> QED BY <1>1, <1>5, <2>1 DEF Passed
  <1>6. StartedSince' \/ \E j \in 0..Len(polled') : Passed(j)'
    BY <1>1, <1>4, <1>5 DEF LoopInv
  <1>7. cur' \in Nat \ {0} BY <1>1
  <1> QED BY <1>1, <1>2, <1>6, <1>7 DEF LoopInv

\* "Inconsistency detected": only after a callback started a process.
LEMMA Inconsistent ==
  ASSUME LoopInv, EndInconsistent
  PROVE  LoopInv'
  <1>1. InEnd /\ AtEnd /\ pc = "end" BY DEF EndInconsistent, InEnd
  <1>2. StartedSince BY <1>1, Descriptors DEF DescriptorsMatch
  <1>3. /\ cur' = cur + 1 /\ pipe' = 1
        /\ UNCHANGED <<pc, scope, idx, polled, running>>
    BY DEF EndInconsistent, callVars, procVars
  <1>4. StartedSince' BY <1>2, <1>3 DEF StartedSince
  <1> QED BY <1>1, <1>3, <1>4 DEF LoopInv

\* Every step keeps what the second loop relies on.
LEMMA LoopStep ==
  ASSUME ShapeInv, LoopInv, [Next]_vars
  PROVE  LoopInv'
  <1> USE DEF callVars, loopVars, procVars, osVars
  <1>1. ASSUME NEW list \in Seq(Proc), NEW p \in Proc, process_free(p, list)
        PROVE  LoopInv'
    <2>1. CASE running[p]
      <3>1. BeginAndPoll(<<p>>) /\ running' = running BY <1>1, <2>1 DEF process_free
      <3> QED BY <3>1, Begins, Single
    <2>2. CASE ~running[p]
      <3>1. pc' = "free" /\ UNCHANGED loopVars BY <1>1, <2>2 DEF process_free
      <3> QED BY <3>1, Outside DEF LoopInv
    <2> QED BY <2>1, <2>2
  <1>2. CASE process_check_all
    BY <1>2, Begins DEF process_check_all, ShapeInv
  <1>3. ASSUME NEW p \in Proc, process_check(p) \/ UserStops(p) PROVE LoopInv'
    BY <1>3, Begins, Single DEF process_check, UserStops, process_stop
  <1>4. ASSUME NEW p \in Proc, UserFrees(p) PROVE LoopInv'
    BY <1>1, <1>4 DEF UserFrees, ShapeInv
  <1>5. CASE Deinit
    <2>1. listed \in Seq(Proc) /\ listed # <<>> /\ process_free(Head(listed), Tail(listed))
      BY <1>5 DEF Deinit, ShapeInv
    <2>2. Head(listed) \in Proc /\ Tail(listed) \in Seq(Proc) BY <2>1
    <2> QED BY <1>1, <2>1, <2>2
  <1>6. CASE EndSkips \/ EndInconsistent BY <1>6, Skips, Inconsistent
  <1>7. CASE PipeError \/ NothingToWrite \/ ReadData \/ \E p \in Proc : CallbackSends(p)
    <2>1. InEnd /\ ~AtEnd /\ NextPipe /\ UNCHANGED <<scope, polled, pc, running>>
      BY <1>7 DEF PipeError, NothingToWrite, ReadData, CallbackSends
    <2> QED BY <2>1, Moves
  <1>8. ASSUME NEW p \in Proc, CallbackStarts(p) PROVE LoopInv'
    <2>1. InEnd /\ ~AtEnd /\ NextPipe /\ UNCHANGED <<scope, polled, pc>>
          /\ running' = [running EXCEPT ![p] = TRUE]
      BY <1>8 DEF CallbackStarts, Spawned
    <2>2. \A q \in Proc : running[q] => running'[q] BY <2>1 DEF ShapeInv
    <2> QED BY <2>1, <2>2, Moves
  <1>9. CASE WritePacket
    <2>1. InEnd /\ ~AtEnd /\ UNCHANGED <<scope, polled, errs, pc, running>>
          /\ (NextPipe \/ UNCHANGED <<cur, pipe, idx>>)
      BY <1>9 DEF WritePacket
    <2>2. CASE NextPipe BY <2>1, <2>2, Moves
    <2>3. CASE UNCHANGED <<cur, pipe, idx>> BY <2>1, <2>3, Beside
    <2> QED BY <2>1, <2>2, <2>3
  <1>10. CASE EndDone \/ CheckReturns
    <2>1. /\ pc' # "end" /\ polled' = <<>> /\ idx' = 0 /\ pipe' \in 1..3 /\ cur' = 1
          /\ scope' = scope \/ scope' = <<>>
      BY <1>10 DEF EndDone, CheckReturns, LoopInv
    <2>2. <<>> \in Seq(Proc) /\ IsInjective(<<>>) BY DEF IsInjective
    <2>3. polled' \in Seq(1..Len(scope')) BY <2>1
    <2>4. scope' \in Seq(Proc) /\ IsInjective(scope') BY <2>1, <2>2, Zenon DEF LoopInv
    <2>5. cur' \in Nat \ {0} /\ idx' \in Nat BY <2>1
    <2> QED BY ONLY <2>1, <2>3, <2>4, <2>5 DEF LoopInv
  <1>11. CASE process_check_internal_exit
    <2>1. pc' = pc /\ pc = "exit" /\ cur' = cur + 1 /\ UNCHANGED <<scope, pipe, idx, polled>>
      BY <1>11 DEF process_check_internal_exit
    <2>2. cur' \in Nat \ {0} BY <2>1 DEF LoopInv
    <2> QED BY <2>1, <2>2, Outside
  <1>12. CASE StopTerminates \/ StopKills \/ StopReturns \/ FreeReturns
    <2>1. pc' # "end" /\ UNCHANGED loopVars
      BY <1>12 DEF StopTerminates, StopKills, StopReturns, FreeReturns
    <2> QED BY <2>1, Outside DEF LoopInv
  <1>13. ASSUME NEW p \in Proc,
                \/ UserStarts(p) \/ UserSends(p) \/ ChildReads(p) \/ ChildExits(p)
                \/ (\E val \in Restarts : process_set_restart(p, val))
                \/ (\E k \in {"OUT", "ERR"} : ChildWrites(p, k))
         PROVE  LoopInv'
    <2>1. UNCHANGED <<loopVars, pc>> /\ (UNCHANGED running \/ pc # "end")
      BY <1>13 DEF UserStarts, UserSends, ChildReads, ChildExits, process_set_restart,
         ChildWrites
    <2> QED BY <2>1, Beside
  <1>14. CASE Over \/ UNCHANGED vars BY <1>14, Beside DEF Over, vars
  <1> QED BY <1>2, <1>3, <1>4, <1>5, <1>6, <1>7, <1>8, <1>9, <1>10, <1>11, <1>12,
             <1>13, <1>14 DEF Next, CallStep

-----------------------------------------------------------------------------
(* Packets                                                                  *)

\* n units of packet e, and nothing else, were added to the stream of d.
Grown(d, e, n) ==
  /\ \A p \in Proc : \A i \in 1..Len(stream[p]) :
       i \in 1..Len(stream'[p]) /\ stream'[p][i] = stream[p][i]
  /\ \A p \in Proc : \A i \in 1..Len(stream'[p]) :
       \/ i \in 1..Len(stream[p])
       \/ /\ p = d /\ i - Len(stream[p]) \in 1..n
          /\ stream'[p][i] = Unit(e.id, e.pos + (i - Len(stream[p])))
  /\ \A k \in 1..n : \E i \in 1..Len(stream'[d]) : stream'[d][i] = Unit(e.id, e.pos + k)

\* What write(2) on a pipe does to the streams.
LEMMA Writing ==
  ASSUME ShapeInv, NEW d \in Proc, NEW e \in [id : Nat, pos : Nat], NEW n \in Nat,
         Write(d, e, n)
  PROVE  stream' \in [Proc -> Seq(UnitType)] /\ Grown(d, e, n)
  <1> DEFINE u == Units(e, n)
             s == stream[d]
  <1>1. u \in Seq(UnitType) /\ Len(u) = n /\ \A k \in 1..n : u[k] = Unit(e.id, e.pos + k)
    <2>1. \A k \in 1..n : Unit(e.id, e.pos + k) \in UnitType BY DEF UnitType, Unit
    <2>2. u = [k \in 1..n |-> Unit(e.id, e.pos + k)] BY DEF Units, Unit
    <2> QED BY <2>1, <2>2
  <1>2. s \in Seq(UnitType) /\ stream' = [stream EXCEPT ![d] = s \o u]
    <2>1. s \in Seq(UnitType) BY DEF ShapeInv
    <2>2. stream' = [stream EXCEPT ![d] = s \o u] BY DEF Write
    <2> QED BY <2>1, <2>2
  <1> HIDE DEF u, s
  <1>3. s \o u \in Seq(UnitType) /\ Len(s \o u) = Len(s) + n /\ Len(s) \in Nat
    <2>1. s \in Seq(UnitType) /\ u \in Seq(UnitType) /\ Len(u) = n BY <1>1, <1>2
    <2> QED BY ONLY <2>1
  <1>4. \A i \in 1..Len(s) : (s \o u)[i] = s[i] BY <1>1, <1>2
  <1>5. \A k \in 1..n : (s \o u)[Len(s) + k] = Unit(e.id, e.pos + k) BY <1>1, <1>2
  <1>6. \A i \in 1..Len(s \o u) : i \in 1..Len(s)
          \/ (i - Len(s) \in 1..n /\ (s \o u)[i] = Unit(e.id, e.pos + (i - Len(s))))
    <2> TAKE i \in 1..Len(s \o u)
    <2>1. CASE i <= Len(s) BY <1>3, <2>1
    <2>2. CASE i > Len(s)
      <3>1. i - Len(s) \in 1..n /\ i = Len(s) + (i - Len(s)) BY <1>3, <2>2
      <3> QED BY <1>5, <3>1
    <2> QED BY <1>3, <2>1, <2>2
  <1>7. \A p \in Proc : stream'[p] = IF p = d THEN s \o u ELSE stream[p]
    BY <1>2 DEF ShapeInv
  <1>8. stream' \in [Proc -> Seq(UnitType)] BY <1>2, <1>3 DEF ShapeInv
  <1>9. \A p \in Proc : \A i \in 1..Len(stream[p]) :
          i \in 1..Len(stream'[p]) /\ stream'[p][i] = stream[p][i]
    <2> TAKE p \in Proc
    <2>1. CASE p = d
      <3>1. stream'[p] = s \o u /\ stream[p] = s BY <1>7, <2>1 DEF s
      <3>2. \A i \in 1..Len(s) : i \in 1..Len(s \o u) BY <1>3
      <3> QED BY <1>4, <3>1, <3>2
    <2>2. CASE p # d BY <1>7, <2>2
    <2> QED BY <2>1, <2>2
  <1>10. \A k \in 1..n : \E i \in 1..Len(stream'[d]) : stream'[d][i] = Unit(e.id, e.pos + k)
    <2> TAKE k \in 1..n
    <2>1. stream'[d] = s \o u BY <1>7
    <2>2. Len(s) + k \in 1..Len(s \o u) BY <1>3
    <2> QED BY <1>5, <2>1, <2>2
  <1>11. \A p \in Proc : \A i \in 1..Len(stream'[p]) :
           \/ i \in 1..Len(stream[p])
           \/ /\ p = d /\ i - Len(stream[p]) \in 1..n
              /\ stream'[p][i] = Unit(e.id, e.pos + (i - Len(stream[p])))
    <2> TAKE p \in Proc
    <2> TAKE i \in 1..Len(stream'[p])
    <2>1. CASE p = d BY <1>6, <1>7, <2>1 DEF s
    <2>2. CASE p # d BY <1>7, <2>2
    <2> QED BY <2>1, <2>2
  <1> QED BY <1>8, <1>9, <1>10, <1>11 DEF Grown

\* All that was written of packet e comes before its position.
Behind(e) ==
  \A p \in Proc : \A i \in 1..Len(stream[p]) :
    stream[p][i].id = e.id => stream[p][i].at <= e.pos

\* What is written after it is not written twice and comes in order.
LEMMA WriteOnce ==
  ASSUME ShapeInv, NothingRepeated, NEW d \in Proc, NEW e \in [id : Nat, pos : Nat],
         NEW n \in Nat, stream' \in [Proc -> Seq(UnitType)], Grown(d, e, n), Behind(e)
  PROVE  /\ NothingRepeated'
         /\ \A id, k \in Nat : Written(id, k)' <=>
              Written(id, k) \/ (id = e.id /\ k \in (e.pos + 1)..(e.pos + n))
  <1>1. \A p \in Proc : Len(stream[p]) \in Nat /\ Len(stream'[p]) \in Nat
    BY DEF ShapeInv
  <1>2. \A p \in Proc : \A i \in 1..Len(stream[p]) : stream[p][i] \in UnitType
    BY DEF ShapeInv
  <1>3. \A p \in Proc : \A i \in 1..Len(stream'[p]) :
          \/ i \in 1..Len(stream[p]) /\ stream'[p][i] = stream[p][i]
          \/ /\ p = d /\ i > Len(stream[p]) /\ i - Len(stream[p]) \in 1..n
             /\ stream'[p][i].id = e.id
             /\ stream'[p][i].at = e.pos + (i - Len(stream[p]))
    <2> TAKE p \in Proc
    <2> TAKE i \in 1..Len(stream'[p])
    <2>1. CASE i \in 1..Len(stream[p]) BY <2>1 DEF Grown
    <2>2. CASE i \notin 1..Len(stream[p])
      <3>1. /\ p = d /\ i - Len(stream[p]) \in 1..n
            /\ stream'[p][i] = Unit(e.id, e.pos + (i - Len(stream[p])))
        BY <2>2 DEF Grown
      <3>2. i > Len(stream[p]) BY <1>1, <3>1
      <3> QED BY <3>1, <3>2 DEF Unit
    <2> QED BY <2>1, <2>2
  <1>4. NothingRepeated'
    <2> SUFFICES \A p, q \in Proc :
                   \A i \in 1..Len(stream'[p]), j \in 1..Len(stream'[q]) :
                     stream'[p][i] # Mark /\ stream'[p][i].id = stream'[q][j].id =>
                       /\ p = q /\ i < j => stream'[p][i].at < stream'[q][j].at
                       /\ p # q => stream'[p][i].at # stream'[q][j].at
      BY Zenon DEF NothingRepeated
    <2> TAKE p, q \in Proc
    <2> TAKE i \in 1..Len(stream'[p]), j \in 1..Len(stream'[q])
    <2> HAVE stream'[p][i] # Mark /\ stream'[p][i].id = stream'[q][j].id
    <2> DEFINE Old(r, m) == m \in 1..Len(stream[r]) /\ stream'[r][m] = stream[r][m]
               New(r, m) == /\ r = d /\ m > Len(stream[r]) /\ m - Len(stream[r]) \in 1..n
                            /\ stream'[r][m].id = e.id
                            /\ stream'[r][m].at = e.pos + (m - Len(stream[r]))
    <2>1. (Old(p, i) \/ New(p, i)) /\ (Old(q, j) \/ New(q, j)) BY <1>3
    <2>2. CASE Old(p, i) /\ Old(q, j)
      <3>1. stream[p][i] # Mark /\ stream[p][i].id = stream[q][j].id BY <2>2
      <3>2. /\ p = q /\ i < j => stream[p][i].at < stream[q][j].at
            /\ p # q => stream[p][i].at # stream[q][j].at
        BY <2>2, <3>1, Zenon DEF NothingRepeated
      <3> QED BY <2>2, <3>2
    <2>3. CASE Old(p, i) /\ New(q, j)
      <3>1. stream'[p][i].at <= e.pos /\ stream'[p][i].at \in Nat
        BY <1>2, <2>3 DEF Behind, UnitType
      <3>2. stream'[q][j].at > e.pos /\ stream'[q][j].at \in Nat BY <1>1, <2>3
      <3> QED BY <3>1, <3>2
    <2>4. CASE New(p, i) /\ Old(q, j)
      <3>1. stream'[q][j].at <= e.pos /\ stream'[q][j].at \in Nat
        BY <1>2, <2>4 DEF Behind, UnitType
      <3>2. stream'[p][i].at > e.pos /\ stream'[p][i].at \in Nat BY <1>1, <2>4
      <3>3. p = q => ~(i < j) BY <1>1, <2>4
      <3> QED BY <3>1, <3>2, <3>3
    <2>5. CASE New(p, i) /\ New(q, j) BY <1>1, <2>5
    <2> QED BY <2>1, <2>2, <2>3, <2>4, <2>5
  <1>5. ASSUME NEW id \in Nat, NEW k \in Nat, Written(id, k)'
        PROVE  Written(id, k) \/ (id = e.id /\ k \in (e.pos + 1)..(e.pos + n))
    <2>1. PICK p \in Proc : \E i \in 1..Len(stream'[p]) : stream'[p][i] = Unit(id, k)
      BY <1>5 DEF Written
    <2>2. PICK i \in 1..Len(stream'[p]) : stream'[p][i] = Unit(id, k) BY <2>1
    <2>3. CASE i \in 1..Len(stream[p]) /\ stream'[p][i] = stream[p][i]
      BY <2>2, <2>3 DEF Written
    <2>4. CASE /\ i - Len(stream[p]) \in 1..n /\ stream'[p][i].id = e.id
               /\ stream'[p][i].at = e.pos + (i - Len(stream[p]))
      <3>1. id = e.id /\ k = e.pos + (i - Len(stream[p])) BY <2>2, <2>4 DEF Unit
      <3> QED BY <1>1, <2>4, <3>1
    <2> QED BY <1>3, <2>3, <2>4
  <1>6. ASSUME NEW id \in Nat, NEW k \in Nat, Written(id, k) PROVE Written(id, k)'
    BY <1>6 DEF Written, Grown
  <1>7. ASSUME NEW k \in (e.pos + 1)..(e.pos + n) PROVE Written(e.id, k)'
    <2>1. k - e.pos \in 1..n /\ e.pos + (k - e.pos) = k OBVIOUS
    <2>2. \E i \in 1..Len(stream'[d]) : stream'[d][i] = Unit(e.id, k)
      BY <2>1 DEF Grown
    <2> QED BY <2>2 DEF Written
  <1> QED BY <1>4, <1>5, <1>6, <1>7

\* An element of a sequence.
LEMMA Element ==
  ASSUME NEW S, NEW s \in Seq(S), NEW i \in 1..Len(s)
  PROVE  s[i] \in S
  OBVIOUS

\* The first element of a sequence.
LEMMA First ==
  ASSUME NEW S, NEW s \in Seq(S), s # <<>>
  PROVE  Len(s) \in Nat \ {0} /\ Head(s) = s[1] /\ Head(s) \in S /\ 1 \in 1..Len(s)
  <1>1. Len(s) \in Nat \ {0} OBVIOUS
  <1> QED BY <1>1

\* What is known of a unit in a stream and of a packet in a queue.
LEMMA Known ==
  ASSUME ShapeInv, QueueInv, NothingDroppedOrRepeated
  PROVE  /\ PacketLen \in Nat \ {0} /\ PipeSize \in Nat /\ Len(sends) \in Nat
         /\ \A p \in Proc : Len(stream[p]) \in Nat /\ Len(packets[p]) \in Nat
         /\ \A p \in Proc : \A i \in 1..Len(stream[p]) :
              stream[p][i].id \in 0..Len(sends) /\ stream[p][i] \in UnitType
         /\ \A p \in Proc : \A m \in 1..Len(packets[p]) :
              /\ packets[p][m].id \in 1..Len(sends) /\ sends[packets[p][m].id] = p
              /\ packets[p][m].pos \in 0..(PacketLen - 1)
              /\ packets[p][m] \in [id : Nat, pos : Nat]
         /\ \A k \in 1..Len(sends) : sends[k] \in Proc
         /\ \A id, k \in Nat : Written(id, k) /\ id # 0 => id \in 1..Len(sends)
  <1> USE DEF NothingDroppedOrRepeated
  <1>1. PacketLen \in Nat \ {0} /\ PipeSize \in Nat /\ Len(sends) \in Nat
    BY ProcessAssumption DEF ShapeInv
  <1>2. \A p \in Proc : stream[p] \in Seq(UnitType) /\ packets[p] \in Seq([id : Nat, pos : Nat])
    BY DEF ShapeInv, QueueType
  <1>3. \A p \in Proc : Len(stream[p]) \in Nat /\ Len(packets[p]) \in Nat BY <1>2
  <1>4. \A p \in Proc : \A i \in 1..Len(stream[p]) :
          stream[p][i].id \in 0..Len(sends) /\ stream[p][i] \in UnitType
    <2> TAKE p \in Proc
    <2> TAKE i \in 1..Len(stream[p])
    <2>1. stream[p][i] \in UnitType BY <1>2
    <2>2. stream[p][i] = Mark \/ stream[p][i].id \in 1..Len(sends)
      BY DEF WrittenToItsProcess
    <2> QED BY <1>1, <2>1, <2>2 DEF Mark
  <1>5. \A p \in Proc : \A m \in 1..Len(packets[p]) :
          /\ packets[p][m].id \in 1..Len(sends) /\ sends[packets[p][m].id] = p
          /\ packets[p][m].pos \in 0..(PacketLen - 1)
          /\ packets[p][m] \in [id : Nat, pos : Nat]
    <2> TAKE p \in Proc
    <2> TAKE m \in 1..Len(packets[p])
    <2>1. packets[p][m] \in [id : Nat, pos : Nat] BY <1>2, Element
    <2>2. packets[p][m].pos < PacketLen BY DEF QueueInv
    <2>3. packets[p][m].id \in 1..Len(sends) /\ sends[packets[p][m].id] = p
      BY DEF QueuesInOrder
    <2> QED BY <1>1, <2>1, <2>2, <2>3
  <1>6. \A k \in 1..Len(sends) : sends[k] \in Proc BY DEF ShapeInv
  <1>7. ASSUME NEW id \in Nat, NEW k \in Nat, Written(id, k), id # 0
        PROVE  id \in 1..Len(sends)
    <2>1. PICK p \in Proc : \E i \in 1..Len(stream[p]) : stream[p][i] = Unit(id, k)
      BY <1>7 DEF Written
    <2>2. PICK i \in 1..Len(stream[p]) : stream[p][i] = Unit(id, k) BY <2>1
    <2>3. id \in 0..Len(sends) BY <1>4, <2>2 DEF Unit
    <2> QED BY <1>1, <1>7, <2>3
  <1> QED BY <1>1, <1>3, <1>4, <1>5, <1>6, <1>7

\* process_send(): what the pipe takes and what is queued make up the packet.
LEMMA SendStep ==
  ASSUME ShapeInv, QueueInv, NothingDroppedOrRepeated, NEW p \in Proc,
         process_send(p), misled' = misled
  PROVE  /\ QueueInv' /\ NothingDroppedOrRepeated'
         /\ stream' \in [Proc -> Seq(UnitType)] /\ packets' \in [Proc -> QueueType]
         /\ sends' \in Seq(Proc)
  <1> DEFINE e == [id |-> Len(sends) + 1, pos |-> 0]
             n == Least(PacketLen, Room(p))
  <1>1. /\ e \in [id : Nat, pos : Nat] /\ e.id = Len(sends) + 1 /\ e.pos = 0
        /\ n \in 0..PacketLen
    <2>1. Len(sends) \in Nat /\ PacketLen \in Nat /\ Room(p) \in Nat
      <3>1. fill[p] \in Nat /\ fill[p] <= PipeSize BY DEF ShapeInv
      <3> QED BY <3>1, Known DEF Room
    <2> QED BY <2>1 DEF Least
  <1>2. /\ sends' = Append(sends, p)
        /\ packets' = [packets EXCEPT ![p] = @ \o Remainder(e, n)] /\ Write(p, e, n)
    BY DEF process_send
  <1> HIDE DEF e, n
  <1>3. /\ sends' \in Seq(Proc) /\ Len(sends') = Len(sends) + 1 /\ sends'[e.id] = p
        /\ \A k \in 1..Len(sends) : sends'[k] = sends[k]
        /\ Len(sends) \in Nat /\ PacketLen \in Nat \ {0}
    BY <1>1, <1>2, Known DEF ShapeInv
  <1>4. Behind(e) /\ \A k \in Nat : ~Written(e.id, k)
    <2>1. Behind(e) BY <1>1, Known DEF Behind
    <2>2. e.id \in Nat /\ e.id # 0 /\ e.id \notin 1..Len(sends) BY <1>1, <1>3
    <2>3. \A k \in Nat : ~Written(e.id, k) BY <2>2, Known
    <2> QED BY <2>1, <2>3
  <1>5. stream' \in [Proc -> Seq(UnitType)] /\ Grown(p, e, n)
    BY <1>1, <1>2, Writing
  <1>6. /\ NothingRepeated'
        /\ \A id, k \in Nat : Written(id, k)' <=>
             Written(id, k) \/ (id = e.id /\ k \in (e.pos + 1)..(e.pos + n))
    BY <1>1, <1>4, <1>5, WriteOnce DEF NothingDroppedOrRepeated
  \* The queues.
  <1>7. /\ packets' \in [Proc -> QueueType]
        /\ \A o \in Proc : \A m \in 1..Len(packets[o]) :
             m \in 1..Len(packets'[o]) /\ packets'[o][m] = packets[o][m]
        /\ \A o \in Proc : \A m \in 1..Len(packets'[o]) :
             \/ m \in 1..Len(packets[o])
             \/ /\ o = p /\ n < PacketLen /\ m = Len(packets[p]) + 1
                /\ packets'[o][m].id = e.id /\ packets'[o][m].pos = n
        /\ n < PacketLen => \E m \in 1..Len(packets'[p]) :
                              packets'[p][m].id = e.id /\ packets'[p][m].pos = n
    <2> DEFINE q == packets[p]
               x == [e EXCEPT !.pos = n]
    <2>1. q \in Seq([id : Nat, pos : Nat]) /\ Len(q) \in Nat BY DEF ShapeInv, QueueType
    <2>2. x \in [id : Nat, pos : Nat] /\ x.id = e.id /\ x.pos = n BY <1>1
    <2>3. \A o \in Proc : packets'[o] = IF o = p THEN q \o Remainder(e, n) ELSE packets[o]
      BY <1>2 DEF ShapeInv
    <2>4. CASE n = PacketLen
      <3>1. Remainder(e, n) = <<>> BY <2>4 DEF Remainder
      <3>2. packets' = packets
        <4>1. q \o <<>> = q BY <2>1
        <4> QED BY <1>2, <3>1, <4>1 DEF ShapeInv
      <3> QED BY <1>1, <2>4, <3>2 DEF ShapeInv
    <2>5. CASE n # PacketLen
      <3>1. Remainder(e, n) = <<x>> BY <2>5 DEF Remainder
      <3> HIDE DEF q, x
      <3>2. /\ q \o <<x>> \in Seq([id : Nat, pos : Nat]) /\ Len(q \o <<x>>) = Len(q) + 1
            /\ (q \o <<x>>)[Len(q) + 1] = x
            /\ \A m \in 1..Len(q) : (q \o <<x>>)[m] = q[m]
        BY <2>1, <2>2
      <3>3. packets'[p] = q \o <<x>> /\ packets[p] = q BY <2>3, <3>1 DEF q
      <3>4. packets' \in [Proc -> QueueType]
        BY <1>2, <3>1, <3>2 DEF ShapeInv, QueueType, q
      <3>5. \A m \in 1..Len(q) : m \in 1..Len(packets'[p]) /\ packets'[p][m] = q[m]
        BY <2>1, <3>2, <3>3
      <3>6. \A m \in 1..Len(packets'[p]) : m \in 1..Len(q)
              \/ (m = Len(q) + 1 /\ packets'[p][m].id = e.id /\ packets'[p][m].pos = n)
        BY <2>1, <2>2, <3>2, <3>3
      <3>7. Len(q) + 1 \in 1..Len(packets'[p]) /\ packets'[p][Len(q) + 1] = x
        BY <2>1, <3>2, <3>3
      <3>8. n < PacketLen BY <1>1, <1>3, <2>5
      <3>9. \A o \in Proc : o # p => packets'[o] = packets[o] BY <2>3
      <3> QED BY <2>2, <3>3, <3>4, <3>5, <3>6, <3>7, <3>8, <3>9
    <2> QED BY <2>4, <2>5
  <1>8. NothingDropped'
    <2> SUFFICES ASSUME NEW id \in 1..Len(sends'), NEW k \in 1..PacketLen
                 PROVE  Written(id, k)' <=> ~Waiting(id, k)'
      BY DEF NothingDropped
    <2>0. id \in Nat /\ k \in Nat BY <1>3
    <2>1. CASE id \in 1..Len(sends)
      <3>1. sends'[id] = sends[id] /\ sends[id] \in Proc /\ id # e.id
        BY <1>1, <1>3, <2>1, Known
      <3>2. Waiting(id, k)' <=> Waiting(id, k)
        <4> DEFINE o == sends[id]
        <4>1. Waiting(id, k)' <=> \E m \in 1..Len(packets'[o]) :
                                    packets'[o][m].id = id /\ packets'[o][m].pos < k
          BY <3>1, Zenon DEF Waiting
        <4>2. Waiting(id, k) <=> \E m \in 1..Len(packets[o]) :
                                   packets[o][m].id = id /\ packets[o][m].pos < k
          BY Zenon DEF Waiting
        <4>3. o \in Proc /\ id # e.id BY <3>1
        <4> HIDE DEF o
        <4> QED BY <1>7, <4>1, <4>2, <4>3
      <3>3. Written(id, k)' <=> Written(id, k) BY <1>6, <2>0, <3>1
      <3>4. Written(id, k) <=> ~Waiting(id, k)
        BY <2>1 DEF NothingDroppedOrRepeated, NothingDropped
      <3> QED BY <3>2, <3>3, <3>4
    <2>2. CASE id = e.id
      <3>1. Written(id, k)' <=> k \in 1..n
        BY <1>1, <1>4, <1>6, <2>0, <2>2
      <3>2. \A m \in 1..Len(packets[p]) : packets[p][m].id # e.id
        <4>1. \A m \in 1..Len(packets[p]) : packets[p][m].id \in 1..Len(sends) BY Known
        <4>2. e.id \notin 1..Len(sends) BY <1>1, <1>3
        <4> QED BY <4>1, <4>2
      <3>3. Waiting(id, k)' <=> n < PacketLen /\ n < k
        BY <1>3, <1>7, <2>2, <3>2 DEF Waiting
      <3> QED BY <1>1, <1>3, <3>1, <3>3
    <2> QED BY <1>1, <1>3, <2>1, <2>2
  <1>9. QueuesInOrder' /\ QueueInv'
    <2> SUFFICES ASSUME NEW o \in Proc, NEW m \in 1..Len(packets'[o])
                 PROVE  /\ packets'[o][m].pos < PacketLen
                        /\ packets'[o][m].id \in 1..Len(sends')
                        /\ sends'[packets'[o][m].id] = o
                        /\ \A l \in 1..(m - 1) : packets'[o][l].id < packets'[o][m].id
      BY DEF QueuesInOrder, QueueInv
    <2>1. Len(packets[o]) \in Nat BY Known
    <2>2. CASE m \in 1..Len(packets[o])
      <3>1. packets'[o][m] = packets[o][m] BY <1>7, <2>2
      <3>2. \A l \in 1..(m - 1) : l \in 1..Len(packets[o]) /\ packets'[o][l] = packets[o][l]
        BY <1>7, <2>1, <2>2
      <3>3. /\ packets[o][m].pos < PacketLen
            /\ packets[o][m].id \in 1..Len(sends) /\ sends[packets[o][m].id] = o
            /\ \A l \in 1..(m - 1) : packets[o][l].id < packets[o][m].id
        BY <2>2 DEF QueueInv, NothingDroppedOrRepeated, QueuesInOrder
      <3>4. \A k \in 1..Len(sends) : k \in 1..Len(sends') BY <1>3
      <3> QED BY <1>3, <3>1, <3>2, <3>3, <3>4
    <2>3. CASE m \notin 1..Len(packets[o])
      <3>1. /\ o = p /\ n < PacketLen /\ m = Len(packets[o]) + 1
            /\ packets'[o][m].id = e.id /\ packets'[o][m].pos = n
        BY <1>7, <2>3
      <3>2. \A l \in 1..(m - 1) : l \in 1..Len(packets[o]) /\ packets'[o][l] = packets[o][l]
        BY <1>7, <2>1, <3>1
      <3>3. \A l \in 1..Len(packets[o]) : packets[o][l].id \in 1..Len(sends) BY Known
      <3>4. \A l \in 1..(m - 1) : packets'[o][l].id < e.id BY <1>1, <1>3, <3>2, <3>3
      <3> QED BY <1>1, <1>3, <3>1, <3>4
    <2> QED BY <2>2, <2>3
  <1>10. WrittenToItsProcess'
    <2> SUFFICES ASSUME NEW o \in Proc, NEW i \in 1..Len(stream'[o])
                 PROVE  \/ stream'[o][i] = Mark
                        \/ /\ stream'[o][i].id \in 1..Len(sends')
                           /\ stream'[o][i].at \in 1..PacketLen
                           /\ misled' \/ sends'[stream'[o][i].id] = o
      BY DEF WrittenToItsProcess
    <2>1. CASE i \in 1..Len(stream[o])
      <3>1. stream'[o][i] = stream[o][i] BY <1>5, <2>1 DEF Grown
      <3>2. \/ stream[o][i] = Mark
            \/ /\ stream[o][i].id \in 1..Len(sends) /\ stream[o][i].at \in 1..PacketLen
               /\ misled \/ sends[stream[o][i].id] = o
        BY <2>1 DEF NothingDroppedOrRepeated, WrittenToItsProcess
      <3> QED BY <1>3, <3>1, <3>2
    <2>2. CASE i \notin 1..Len(stream[o])
      <3>1. /\ o = p /\ i - Len(stream[o]) \in 1..n
            /\ stream'[o][i] = Unit(e.id, e.pos + (i - Len(stream[o])))
        BY <1>5, <2>2 DEF Grown
      <3>2. stream'[o][i].id = e.id /\ stream'[o][i].at = i - Len(stream[o])
        BY <1>1, <3>1, Known DEF Unit
      <3> QED BY <1>1, <1>3, <3>1, <3>2
    <2> QED BY <2>1, <2>2
  <1> QED BY <1>3, <1>5, <1>6, <1>7, <1>8, <1>9, <1>10 DEF NothingDroppedOrRepeated

\* A queue's first packet, of which n more units were written: it is taken out when
\* all of it is written (off = 1), otherwise its position moves (off = 0).
FirstMoved(p, off, n) ==
  LET e == Head(packets[p])
  IN  /\ off \in {0, 1} /\ (off = 1 <=> e.pos + n = PacketLen)
      /\ Len(packets'[p]) = Len(packets[p]) - off
      /\ \A m \in 1..Len(packets'[p]) :
           /\ packets'[p][m].id = packets[p][m + off].id
           /\ packets'[p][m].pos = IF m + off = 1 THEN e.pos + n
                                   ELSE packets[p][m + off].pos

\* What a write of the first packet does to its queue.
LEMMA QueueMoves ==
  ASSUME ShapeInv, NEW p \in Proc, NEW n \in Nat, packets[p] # <<>>,
         packets' = IF Head(packets[p]).pos + n = PacketLen
                    THEN [packets EXCEPT ![p] = Tail(@)]
                    ELSE [packets EXCEPT ![p][1].pos = @ + n]
  PROVE  /\ packets' \in [Proc -> QueueType]
         /\ \A o \in Proc : o # p => packets'[o] = packets[o]
         /\ \E off \in {0, 1} : FirstMoved(p, off, n)
  <1> DEFINE q == packets[p]
             e == Head(q)
             x == [q[1] EXCEPT !.pos = @ + n]
  <1>1. q \in Seq([id : Nat, pos : Nat]) /\ q # <<>> /\ packets \in [Proc -> QueueType]
    BY DEF ShapeInv, QueueType
  <1>2. /\ Len(q) \in Nat \ {0} /\ e = q[1] /\ e \in [id : Nat, pos : Nat]
        /\ 1 \in 1..Len(q)
    BY <1>1, First
  <1>3. CASE e.pos + n = PacketLen
    <2> DEFINE t == Tail(q)
    <2>1. packets' = [packets EXCEPT ![p] = t] BY <1>3
    <2>2. /\ t \in QueueType /\ Len(t) = Len(q) - 1
          /\ \A m \in 1..Len(t) : t[m] = q[m + 1]
      BY <1>1, <1>2 DEF QueueType
    <2> HIDE DEF t
    <2>3. packets'[p] = t BY <1>1, <2>1
    <2>4. \A o \in Proc : o # p => packets'[o] = packets[o] BY <1>1, <2>1
    <2>5. packets' \in [Proc -> QueueType] BY <1>1, <2>1, <2>2
    <2>6. ASSUME NEW m \in 1..Len(packets'[p])
          PROVE  /\ packets'[p][m].id = q[m + 1].id
                 /\ packets'[p][m].pos = IF m + 1 = 1 THEN e.pos + n ELSE q[m + 1].pos
      <3>1. m \in 1..Len(t) /\ m + 1 # 1 BY <2>3
      <3>2. packets'[p][m] = q[m + 1] BY <2>2, <2>3, <3>1
      <3>3. (IF m + 1 = 1 THEN e.pos + n ELSE q[m + 1].pos) = q[m + 1].pos BY <3>1, Zenon
      <3> QED BY ONLY <3>2, <3>3
    <2>7. FirstMoved(p, 1, n) BY <1>3, <2>2, <2>3, <2>6 DEF FirstMoved
    <2> QED BY <2>4, <2>5, <2>7
  <1>4. CASE e.pos + n # PacketLen
    <2>1. packets' = [packets EXCEPT ![p] = [q EXCEPT ![1] = x]] BY <1>4
    <2>2. x \in [id : Nat, pos : Nat] /\ x.id = e.id /\ x.pos = e.pos + n BY <1>2
    <2> HIDE DEF x
    <2>3. /\ [q EXCEPT ![1] = x] \in QueueType /\ Len([q EXCEPT ![1] = x]) = Len(q)
          /\ \A m \in 1..Len(q) : [q EXCEPT ![1] = x][m] = IF m = 1 THEN x ELSE q[m]
      BY <1>1, <1>2, <2>2 DEF QueueType
    <2>4. packets'[p] = [q EXCEPT ![1] = x] BY <1>1, <2>1
    <2>5. \A o \in Proc : o # p => packets'[o] = packets[o] BY <1>1, <2>1
    <2>6. packets' \in [Proc -> QueueType] BY <1>1, <2>1, <2>3
    <2>7. Len(packets'[p]) = Len(q) - 0 BY <1>2, <2>3, <2>4
    <2>8. ASSUME NEW m \in 1..Len(packets'[p])
          PROVE  /\ packets'[p][m].id = q[m + 0].id
                 /\ packets'[p][m].pos = IF m + 0 = 1 THEN e.pos + n ELSE q[m + 0].pos
      <3>1. m \in 1..Len(q) /\ m + 0 = m BY <1>2, <2>3, <2>4
      <3>2. packets'[p][m] = IF m = 1 THEN x ELSE q[m] BY <2>3, <2>4, <3>1
      <3> QED BY <1>2, <2>2, <3>1, <3>2
    <2>9. FirstMoved(p, 0, n) BY <1>4, <2>7, <2>8 DEF FirstMoved
    <2> QED BY <2>5, <2>6, <2>9
  <1> QED BY <1>3, <1>4

\* What has been written of a packet that waits first in a queue.
LEMMA FirstWritten ==
  ASSUME ShapeInv, QueueInv, NothingDroppedOrRepeated, NEW p \in Proc, packets[p] # <<>>
  PROVE  LET e == packets[p][1]
         IN  /\ \A l \in 1..Len(packets[p]) : packets[p][l].id = e.id => l = 1
             /\ \A k \in 1..PacketLen : Written(e.id, k) <=> k <= e.pos
             /\ Behind(e)
  <1> DEFINE e == packets[p][1]
  <1>1. packets[p] \in Seq([id : Nat, pos : Nat]) BY DEF ShapeInv, QueueType
  <1>2. Len(packets[p]) \in Nat /\ 1 \in 1..Len(packets[p]) BY <1>1
  <1>3. /\ e.id \in 1..Len(sends) /\ sends[e.id] = p /\ e.pos \in 0..(PacketLen - 1)
        /\ PacketLen \in Nat \ {0} /\ Len(sends) \in Nat
    BY <1>2, Known
  <1>4. ASSUME NEW l \in 1..Len(packets[p]), packets[p][l].id = e.id PROVE l = 1
    <2>1. \A m \in 1..(l - 1) : packets[p][m].id < packets[p][l].id
      BY DEF NothingDroppedOrRepeated, QueuesInOrder
    <2>2. l # 1 => 1 \in 1..(l - 1) BY <1>2
    <2> QED BY <1>3, <1>4, <2>1, <2>2
  <1>5. ASSUME NEW k \in 1..PacketLen PROVE Written(e.id, k) <=> k <= e.pos
    <2>1. Written(e.id, k) <=> ~Waiting(e.id, k)
      BY <1>3 DEF NothingDroppedOrRepeated, NothingDropped
    <2>2. Waiting(e.id, k) <=> \E m \in 1..Len(packets[p]) :
                                 packets[p][m].id = e.id /\ packets[p][m].pos < k
      BY <1>3, Zenon DEF Waiting
    <2>3. Waiting(e.id, k) <=> e.pos < k BY <1>2, <1>4, <2>2
    <2> QED BY <1>3, <2>1, <2>3
  <1>6. Behind(e)
    <2> SUFFICES \A o \in Proc : \A i \in 1..Len(stream[o]) :
                   stream[o][i].id = e.id => stream[o][i].at <= e.pos
      BY Zenon DEF Behind
    <2> TAKE o \in Proc
    <2> TAKE i \in 1..Len(stream[o])
    <2> HAVE stream[o][i].id = e.id
    <2>1. stream[o][i] # Mark BY <1>3 DEF Mark
    <2>2. stream[o][i].at \in 1..PacketLen
      BY <2>1 DEF NothingDroppedOrRepeated, WrittenToItsProcess
    <2>3. stream[o][i] \in UnitType BY Known
    <2>4. stream[o][i] = Unit(e.id, stream[o][i].at) BY <2>3 DEF Unit, UnitType
    <2>5. Written(e.id, stream[o][i].at) BY <2>4 DEF Written
    <2> QED BY <1>5, <2>2, <2>5
  <1> QED BY <1>4, <1>5, <1>6

\* process_check_internal_pipe(): a packet goes on where it was left, and leaves its
\* queue when all of it is written.
LEMMA WriteStep ==
  ASSUME ShapeInv, QueueInv, LoopInv, NothingDroppedOrRepeated, WritePacket
  PROVE  /\ QueueInv' /\ NothingDroppedOrRepeated'
         /\ stream' \in [Proc -> Seq(UnitType)] /\ packets' \in [Proc -> QueueType]
  <1> DEFINE p == scope[cur]
             d == Described
             e == packets[p][1]
             n == Least(PacketLen - e.pos, Room(d))
  <1>1. /\ InEnd /\ ~AtEnd /\ pc = "end" /\ packets[p] # <<>> /\ sends' = sends
        /\ misled' = (misled \/ StartedSince)
    BY DEF WritePacket, InEnd
  <1>2. p \in Proc /\ d \in Proc /\ (StartedSince \/ d = p)
    <2>1. p \in Proc BY <1>1 DEF InEnd, LoopInv
    <2>2. d \in Proc /\ DescriptorsMatch BY <1>1, Descriptors
    <2> QED BY <1>1, <2>1, <2>2 DEF DescriptorsMatch
  <1>3. /\ packets[p] \in Seq([id : Nat, pos : Nat]) /\ Len(packets[p]) \in Nat
        /\ 1 \in 1..Len(packets[p]) /\ e = Head(packets[p])
    <2>1. packets[p] \in Seq([id : Nat, pos : Nat]) BY <1>2 DEF ShapeInv, QueueType
    <2> QED BY <1>1, <2>1, First
  <1>4. /\ e.id \in 1..Len(sends) /\ sends[e.id] = p /\ e.pos \in 0..(PacketLen - 1)
        /\ PacketLen \in Nat \ {0} /\ Len(sends) \in Nat /\ e \in [id : Nat, pos : Nat]
    BY <1>2, <1>3, Known
  <1>5. n \in 0..(PacketLen - e.pos) /\ n \in Nat
    <2>1. Room(d) \in Nat
      <3>1. fill[d] \in Nat /\ fill[d] <= PipeSize BY <1>2 DEF ShapeInv
      <3> QED BY <3>1, Known DEF Room
    <2> QED BY <1>4, <2>1 DEF Least
  <1>6. /\ Write(d, e, n)
        /\ packets' = IF Head(packets[p]).pos + n = PacketLen
                      THEN [packets EXCEPT ![p] = Tail(@)]
                      ELSE [packets EXCEPT ![p][1].pos = @ + n]
    BY <1>3 DEF WritePacket
  <1> HIDE DEF p, d, e, n
  <1>7. /\ \A l \in 1..Len(packets[p]) : packets[p][l].id = e.id => l = 1
        /\ \A k \in 1..PacketLen : Written(e.id, k) <=> k <= e.pos
        /\ Behind(e)
    BY <1>1, <1>2, FirstWritten DEF e
  <1>8. stream' \in [Proc -> Seq(UnitType)] /\ Grown(d, e, n)
    BY <1>2, <1>4, <1>5, <1>6, Writing
  <1>9. /\ NothingRepeated'
        /\ \A id, k \in Nat : Written(id, k)' <=>
             Written(id, k) \/ (id = e.id /\ k \in (e.pos + 1)..(e.pos + n))
    BY <1>2, <1>4, <1>5, <1>7, <1>8, WriteOnce DEF NothingDroppedOrRepeated
  <1>10. /\ packets' \in [Proc -> QueueType]
         /\ \A o \in Proc : o # p => packets'[o] = packets[o]
         /\ \E off \in {0, 1} : FirstMoved(p, off, n)
    BY <1>1, <1>2, <1>5, <1>6, QueueMoves
  <1>11. PICK off \in {0, 1} : FirstMoved(p, off, n) BY <1>10
  <1>12. /\ off = 1 <=> e.pos + n = PacketLen
         /\ Len(packets'[p]) = Len(packets[p]) - off
         /\ \A m \in 1..Len(packets'[p]) :
              /\ m + off \in 1..Len(packets[p])
              /\ packets'[p][m].id = packets[p][m + off].id
              /\ packets'[p][m].pos = IF m + off = 1 THEN e.pos + n
                                      ELSE packets[p][m + off].pos
    <2>1. /\ off = 1 <=> e.pos + n = PacketLen
          /\ Len(packets'[p]) = Len(packets[p]) - off
          /\ \A m \in 1..Len(packets'[p]) :
               /\ packets'[p][m].id = packets[p][m + off].id
               /\ packets'[p][m].pos = IF m + off = 1 THEN e.pos + n
                                       ELSE packets[p][m + off].pos
      BY <1>3, <1>11 DEF FirstMoved
    <2>2. \A m \in 1..Len(packets'[p]) : m + off \in 1..Len(packets[p])
      BY <1>3, <2>1
    <2> QED BY <2>1, <2>2
  <1>13. NothingDropped'
    <2> SUFFICES \A id \in 1..Len(sends') : \A k \in 1..PacketLen :
                   Written(id, k)' <=> ~Waiting(id, k)'
      BY Zenon DEF NothingDropped
    <2> TAKE id \in 1..Len(sends')
    <2> TAKE k \in 1..PacketLen
    <2> DEFINE o == sends[id]
    <2>1. id \in Nat /\ k \in Nat /\ id \in 1..Len(sends) /\ o \in Proc /\ sends'[id] = o
      BY <1>1, <1>4, Known
    <2>2. Waiting(id, k)' <=> \E m \in 1..Len(packets'[o]) :
                                packets'[o][m].id = id /\ packets'[o][m].pos < k
      BY <2>1, Zenon DEF Waiting
    <2>3. Waiting(id, k) <=> \E m \in 1..Len(packets[o]) :
                               packets[o][m].id = id /\ packets[o][m].pos < k
      BY Zenon DEF Waiting
    <2>4. Written(id, k) <=> ~Waiting(id, k)
      BY <2>1 DEF NothingDroppedOrRepeated, NothingDropped
    <2>5. id = e.id => o = p BY <1>4
    <2> HIDE DEF o
    <2>6. CASE id # e.id
      <3>1. Written(id, k)' <=> Written(id, k) BY <1>9, <2>1, <2>6
      <3>2. CASE o # p
        <4>1. packets'[o] = packets[o] BY <1>10, <2>1, <3>2
        <4> QED BY <2>2, <2>3, <2>4, <3>1, <4>1
      <3>3. CASE o = p
        <4>1. ASSUME NEW m \in 1..Len(packets'[p]), packets'[p][m].id = id,
                     packets'[p][m].pos < k
              PROVE  Waiting(id, k)
          <5>1. m + off \in 1..Len(packets[p]) /\ packets[p][m + off].id = id
            BY <1>12, <4>1
          <5>2. m + off # 1 BY <2>6, <5>1 DEF e
          <5>3. packets[p][m + off].pos < k BY <1>12, <4>1, <5>2
          <5> QED BY <2>3, <3>3, <5>1, <5>3
        <4>2. ASSUME NEW l \in 1..Len(packets[p]), packets[p][l].id = id,
                     packets[p][l].pos < k
              PROVE  Waiting(id, k)'
          <5>1. l # 1 BY <2>6, <4>2 DEF e
          <5>2. l - off \in 1..Len(packets'[p]) /\ (l - off) + off = l
            BY <1>3, <1>12, <5>1
          <5>3. packets'[p][l - off].id = id /\ packets'[p][l - off].pos < k
            BY <1>12, <4>2, <5>1, <5>2
          <5> QED BY <2>2, <3>3, <5>2, <5>3
        <4> QED BY <2>2, <2>3, <2>4, <3>1, <3>3, <4>1, <4>2
      <3> QED BY <3>2, <3>3
    <2>7. CASE id = e.id
      <3>1. Written(id, k)' <=> k <= e.pos + n
        <4>1. Written(id, k)' <=> k <= e.pos \/ k \in (e.pos + 1)..(e.pos + n)
          BY <1>7, <1>9, <2>1, <2>7
        <4> QED BY <1>4, <1>5, <2>1, <4>1
      <3>2. o = p BY <2>5, <2>7
      <3>3. Waiting(id, k)' => off = 0 /\ e.pos + n < k
        <4> HAVE Waiting(id, k)'
        <4>1. PICK m \in 1..Len(packets'[p]) :
                packets'[p][m].id = id /\ packets'[p][m].pos < k
          BY <2>2, <3>2
        <4>2. m + off \in 1..Len(packets[p]) /\ packets[p][m + off].id = e.id
          BY <1>12, <2>7, <4>1
        <4>3. m + off = 1 BY <1>7, <4>2
        <4>4. packets'[p][m].pos = e.pos + n BY <1>12, <4>3
        <4>5. off = 0 BY <4>3
        <4> QED BY <4>1, <4>4, <4>5
      <3>4. off = 0 /\ e.pos + n < k => Waiting(id, k)'
        <4> HAVE off = 0 /\ e.pos + n < k
        <4>1. 1 \in 1..Len(packets'[p]) /\ 1 + off = 1 BY <1>3, <1>12
        <4>2. packets'[p][1].id = id /\ packets'[p][1].pos = e.pos + n
          BY <1>12, <2>7, <4>1 DEF e
        <4> QED BY <2>2, <3>2, <4>1, <4>2
      <3>5. off = 0 \/ off = 1 OBVIOUS
      <3>6. off = 1 => k <= e.pos + n BY <1>12
      <3>7. ~(e.pos + n < k) <=> k <= e.pos + n BY <1>4, <1>5, <2>1
      <3> QED BY <3>1, <3>3, <3>4, <3>5, <3>6, <3>7
    <2> QED BY <2>6, <2>7
  <1>14. QueuesInOrder' /\ QueueInv'
    <2> SUFFICES \A o \in Proc : \A m \in 1..Len(packets'[o]) :
                   /\ packets'[o][m].pos < PacketLen
                   /\ packets'[o][m].id \in 1..Len(sends')
                   /\ sends'[packets'[o][m].id] = o
                   /\ \A l \in 1..(m - 1) : packets'[o][l].id < packets'[o][m].id
      BY DEF QueuesInOrder, QueueInv
    <2>1. \A o \in Proc : \A m \in 1..Len(packets[o]) :
            /\ packets[o][m].pos < PacketLen
            /\ packets[o][m].id \in 1..Len(sends') /\ sends'[packets[o][m].id] = o
            /\ \A l \in 1..(m - 1) : packets[o][l].id < packets[o][m].id
      BY <1>1 DEF QueueInv, NothingDroppedOrRepeated, QueuesInOrder
    <2> TAKE o \in Proc
    <2> TAKE m \in 1..Len(packets'[o])
    <2>2. CASE o # p
      <3>1. packets'[o] = packets[o] BY <1>10, <2>2
      <3> QED BY <2>1, <3>1
    <2>3. CASE o = p
      <3>1. /\ m + off \in 1..Len(packets[p]) /\ packets'[p][m].id = packets[p][m + off].id
            /\ packets'[p][m].pos = IF m + off = 1 THEN e.pos + n
                                    ELSE packets[p][m + off].pos
        BY <1>12, <2>3
      <3>2. packets'[p][m].pos < PacketLen
        <4>1. CASE m + off = 1
          <5>1. off = 0 BY <2>3, <4>1
          <5>2. e.pos + n # PacketLen BY <1>12, <5>1
          <5> QED BY <1>4, <1>5, <3>1, <4>1, <5>2
        <4>2. CASE m + off # 1 BY <1>2, <2>1, <3>1, <4>2
        <4> QED BY <4>1, <4>2
      <3>3. ASSUME NEW l \in 1..(m - 1) PROVE packets'[p][l].id < packets'[p][m].id
        <4>0. Len(packets'[p]) \in Nat /\ m \in 1..Len(packets'[p]) BY <1>3, <1>12, <2>3
        <4>1. l \in 1..Len(packets'[p]) /\ l + off \in 1..((m + off) - 1)
          BY <4>0
        <4>2. packets[p][l + off].id < packets[p][m + off].id BY <1>2, <2>1, <3>1, <4>1
        <4> QED BY <1>12, <3>1, <4>1, <4>2
      <3>4. packets'[p][m].id \in 1..Len(sends') /\ sends'[packets'[p][m].id] = p
        BY <1>2, <2>1, <3>1
      <3> QED BY <2>3, <3>2, <3>3, <3>4
    <2> QED BY <2>2, <2>3
  <1>15. WrittenToItsProcess'
    <2> SUFFICES \A o \in Proc : \A i \in 1..Len(stream'[o]) :
                   \/ stream'[o][i] = Mark
                   \/ /\ stream'[o][i].id \in 1..Len(sends')
                      /\ stream'[o][i].at \in 1..PacketLen
                      /\ misled' \/ sends'[stream'[o][i].id] = o
      BY DEF WrittenToItsProcess
    <2> TAKE o \in Proc
    <2> TAKE i \in 1..Len(stream'[o])
    <2>1. CASE i \in 1..Len(stream[o])
      <3>1. stream'[o][i] = stream[o][i] BY <1>8, <2>1 DEF Grown
      <3>2. \/ stream[o][i] = Mark
            \/ /\ stream[o][i].id \in 1..Len(sends) /\ stream[o][i].at \in 1..PacketLen
               /\ misled \/ sends[stream[o][i].id] = o
        BY <2>1 DEF NothingDroppedOrRepeated, WrittenToItsProcess
      <3> QED BY <1>1, <3>1, <3>2
    <2>2. CASE i \notin 1..Len(stream[o])
      <3>1. /\ o = d /\ i - Len(stream[o]) \in 1..n
            /\ stream'[o][i] = Unit(e.id, e.pos + (i - Len(stream[o])))
        BY <1>8, <2>2 DEF Grown
      <3>2. stream'[o][i].id = e.id /\ stream'[o][i].at = e.pos + (i - Len(stream[o]))
        BY <3>1 DEF Unit
      <3>3. stream'[o][i].at \in 1..PacketLen BY <1>4, <1>5, <3>1, <3>2
      <3>4. misled' \/ sends'[e.id] = o BY <1>1, <1>2, <1>4, <3>1
      <3> QED BY <1>1, <1>4, <3>2, <3>3, <3>4
    <2> QED BY <2>1, <2>2
  <1> QED BY <1>8, <1>9, <1>10, <1>13, <1>14, <1>15 DEF NothingDroppedOrRepeated

\* A new child: its stream goes on with a Mark.
LEMMA StartStep ==
  ASSUME ShapeInv, QueueInv, NothingDroppedOrRepeated, NEW p \in Proc,
         stream' = [stream EXCEPT ![p] = Append(@, Mark)],
         UNCHANGED <<packets, sends, misled>>
  PROVE  QueueInv' /\ NothingDroppedOrRepeated' /\ stream' \in [Proc -> Seq(UnitType)]
  <1>1. Mark \in UnitType BY DEF Mark, UnitType
  <1>2. stream[p] \in Seq(UnitType) BY DEF ShapeInv
  <1>3. /\ Append(stream[p], Mark) \in Seq(UnitType)
        /\ Len(Append(stream[p], Mark)) = Len(stream[p]) + 1 /\ Len(stream[p]) \in Nat
        /\ Append(stream[p], Mark)[Len(stream[p]) + 1] = Mark
        /\ \A i \in 1..Len(stream[p]) : Append(stream[p], Mark)[i] = stream[p][i]
    BY ONLY <1>1, <1>2
  <1>4. stream'[p] = Append(stream[p], Mark) BY DEF ShapeInv
  <1>5. \A o \in Proc : o # p => stream'[o] = stream[o] BY DEF ShapeInv
  <1>6. stream' \in [Proc -> Seq(UnitType)] BY <1>3 DEF ShapeInv
  <1>7. \A o \in Proc : \A i \in 1..Len(stream[o]) :
          i \in 1..Len(stream'[o]) /\ stream'[o][i] = stream[o][i]
    <2> TAKE o \in Proc
    <2>1. CASE o = p BY <1>3, <1>4, <2>1
    <2>2. CASE o # p BY <1>5, <2>2
    <2> QED BY <2>1, <2>2
  <1>8. \A o \in Proc : \A i \in 1..Len(stream'[o]) :
          \/ i \in 1..Len(stream[o]) /\ stream'[o][i] = stream[o][i]
          \/ o = p /\ i = Len(stream[p]) + 1 /\ stream'[o][i] = Mark
    <2> TAKE o \in Proc
    <2>1. CASE o = p BY <1>3, <1>4, <2>1
    <2>2. CASE o # p BY <1>5, <2>2
    <2> QED BY <2>1, <2>2
  <1>9. NothingDropped'
    <2> SUFFICES \A id \in 1..Len(sends') : \A k \in 1..PacketLen :
                   Written(id, k)' <=> ~Waiting(id, k)'
      BY Zenon DEF NothingDropped
    <2> TAKE id \in 1..Len(sends')
    <2> TAKE k \in 1..PacketLen
    <2>1. Waiting(id, k)' <=> Waiting(id, k) BY DEF Waiting
    <2>2. Written(id, k) <=> ~Waiting(id, k)
      BY DEF NothingDroppedOrRepeated, NothingDropped
    <2>3. Mark # Unit(id, k)
      <3>1. id # 0 BY Known
      <3> QED BY <3>1 DEF Mark, Unit
    <2>4. Written(id, k) => Written(id, k)' BY <1>7 DEF Written
    <2>5. Written(id, k)' => Written(id, k) BY <1>8, <2>3 DEF Written
    <2> QED BY <2>1, <2>2, <2>4, <2>5
  <1>10. NothingRepeated'
    <2> SUFFICES \A q, r \in Proc :
                   \A i \in 1..Len(stream'[q]), j \in 1..Len(stream'[r]) :
                     stream'[q][i] # Mark /\ stream'[q][i].id = stream'[r][j].id =>
                       /\ q = r /\ i < j => stream'[q][i].at < stream'[r][j].at
                       /\ q # r => stream'[q][i].at # stream'[r][j].at
      BY Zenon DEF NothingRepeated
    <2> TAKE q, r \in Proc
    <2> TAKE i \in 1..Len(stream'[q]), j \in 1..Len(stream'[r])
    <2> HAVE stream'[q][i] # Mark /\ stream'[q][i].id = stream'[r][j].id
    <2>1. i \in 1..Len(stream[q]) /\ stream'[q][i] = stream[q][i] BY <1>8
    <2>2. stream[q][i].id # 0
      BY <2>1 DEF NothingDroppedOrRepeated, WrittenToItsProcess
    <2>3. stream'[r][j] # Mark BY <2>1, <2>2 DEF Mark
    <2>4. j \in 1..Len(stream[r]) /\ stream'[r][j] = stream[r][j] BY <1>8, <2>3
    <2>5. stream[q][i] # Mark /\ stream[q][i].id = stream[r][j].id BY <2>1, <2>4
    <2>6. /\ q = r /\ i < j => stream[q][i].at < stream[r][j].at
          /\ q # r => stream[q][i].at # stream[r][j].at
      BY <2>1, <2>4, <2>5, Zenon DEF NothingDroppedOrRepeated, NothingRepeated
    <2> QED BY <2>1, <2>4, <2>6
  <1>11. WrittenToItsProcess'
    BY <1>8 DEF NothingDroppedOrRepeated, WrittenToItsProcess
  <1>12. QueueInv' /\ QueuesInOrder'
    BY DEF QueueInv, NothingDroppedOrRepeated, QueuesInOrder
  <1> QED BY <1>6, <1>9, <1>10, <1>11, <1>12 DEF NothingDroppedOrRepeated

\* Most steps neither write nor send.
LEMMA StillStep ==
  ASSUME QueueInv, NothingDroppedOrRepeated, UNCHANGED <<stream, packets, sends, misled>>
  PROVE  QueueInv' /\ NothingDroppedOrRepeated'
  BY DEF QueueInv, NothingDroppedOrRepeated, NothingDropped, NothingRepeated, QueuesInOrder,
         WrittenToItsProcess, Written, Waiting

-----------------------------------------------------------------------------
(* Children                                                                 *)

\* What a step may do to the queue and the history of packets: send one, write one
\* from a queue, or neither, perhaps with a new child.
PacketsStep ==
  \/ \E p \in Proc : process_send(p) /\ misled' = misled
  \/ WritePacket
  \/ \E p \in Proc : /\ stream' = [stream EXCEPT ![p] = Append(@, Mark)]
                     /\ UNCHANGED <<packets, sends, misled>>
  \/ UNCHANGED <<stream, packets, sends, misled>>

\* What a step may do to the children: start one, take leave of one, or let one exit;
\* and to their pipes.
ChildrenStep ==
  \/ \E p \in Proc : /\ child' = [child EXCEPT ![p] = "alive"]
                     /\ running' = [running EXCEPT ![p] = TRUE]
                     /\ fill' = [fill EXCEPT ![p] = 0]
  \/ \E p \in Proc : /\ child' = [child EXCEPT ![p] = "none"]
                     /\ running' = [running EXCEPT ![p] = FALSE]
                     /\ UNCHANGED fill
  \/ \E p \in Proc : /\ child[p] = "alive" /\ child' = [child EXCEPT ![p] = "exited"]
                     /\ UNCHANGED <<running, fill>>
  \/ \E p \in Proc : /\ fill[p] > 0 /\ fill' = [fill EXCEPT ![p] = @ - 1]
                     /\ UNCHANGED <<running, child>>
  \/ \E p \in Proc, n \in Nat : /\ n <= Room(p) /\ fill' = [fill EXCEPT ![p] = @ + n]
                                /\ UNCHANGED <<running, child>>
  \/ UNCHANGED <<running, child, fill>>

\* process_start() and process_cleanup() as such steps.
LEMMA StartAndCleanup ==
  ASSUME NEW p \in Proc, UNCHANGED <<packets, sends, misled>>
  PROVE  /\ Spawned(p) => PacketsStep /\ ChildrenStep
         /\ NotSpawned(p) => PacketsStep /\ ChildrenStep
         /\ process_cleanup(p) => PacketsStep /\ ChildrenStep
  <1>1. Spawned(p) => PacketsStep /\ ChildrenStep
    BY DEF Spawned, PacketsStep, ChildrenStep
  <1>2. NotSpawned(p) => PacketsStep /\ ChildrenStep
    BY DEF NotSpawned, PacketsStep, ChildrenStep
  <1> QED BY <1>1, <1>2 DEF process_cleanup

\* A write does not overfill a pipe.
LEMMA FitsIn ==
  ASSUME ShapeInv, NEW p \in Proc, NEW len \in Nat
  PROVE  Least(len, Room(p)) \in Nat /\ Least(len, Room(p)) <= Room(p)
  <1>1. fill[p] \in Nat /\ fill[p] <= PipeSize /\ PipeSize \in Nat
    BY ProcessAssumption DEF ShapeInv
  <1>2. Room(p) \in Nat BY <1>1 DEF Room
  <1> QED BY <1>2 DEF Least

\* Every step is one of these in both respects, and the list only gets shorter.
LEMMA EveryStep ==
  ASSUME ShapeInv, QueueInv, LoopInv, TargetInv, NothingDroppedOrRepeated, [Next]_vars
  PROVE  /\ PacketsStep /\ ChildrenStep /\ TargetInv'
         /\ listed' = listed \/ (listed # <<>> /\ listed' = Tail(listed))
  <1> USE DEF callVars, loopVars, procVars, osVars, history
  <1> DEFINE Still == /\ UNCHANGED <<stream, packets, sends, misled, running, child, fill>>
             Kept == listed' = listed
             Goal == /\ PacketsStep /\ ChildrenStep /\ TargetInv'
                     /\ listed' = listed \/ (listed # <<>> /\ listed' = Tail(listed))
  <1>1. Still /\ TargetInv' /\ Kept => Goal BY DEF PacketsStep, ChildrenStep
  <1>2. \A ps : BeginAndPoll(ps) => pc' # "term" BY DEF BeginAndPoll
  <1>3. ASSUME EndSkips \/ EndInconsistent \/ PipeError \/ NothingToWrite \/ ReadData
               \/ EndDone \/ CheckReturns \/ StopReturns \/ FreeReturns \/ process_check_all
               \/ Over \/ UNCHANGED vars
        PROVE  Goal
    <2>1. Still /\ Kept
      BY <1>3 DEF EndSkips, EndInconsistent, PipeError, NothingToWrite, ReadData, EndDone,
         CheckReturns, StopReturns, FreeReturns, process_check_all, Over, vars
    <2>2. CASE CheckReturns
      <3>1. target' = target /\ (pc' = "term" => target # NONE)
        BY <2>2 DEF CheckReturns
      <3>2. TargetInv' BY <3>1 DEF TargetInv
      <3> QED BY <1>1, <2>1, <3>2
    <2>3. CASE StopReturns \/ FreeReturns
      <3>1. pc' # "term" /\ (target' = target \/ target' = NONE)
        BY <2>3 DEF StopReturns, FreeReturns
      <3>2. TargetInv' BY <3>1 DEF TargetInv
      <3> QED BY <1>1, <2>1, <3>2
    <2>4. CASE process_check_all
      <3>1. pc' # "term" /\ target' = target BY <1>2, <2>4 DEF process_check_all
      <3>2. TargetInv' BY <3>1 DEF TargetInv
      <3> QED BY <1>1, <2>1, <3>2
    <2>5. CASE EndSkips \/ EndInconsistent \/ PipeError \/ NothingToWrite \/ ReadData
               \/ EndDone \/ Over \/ UNCHANGED vars
      <3>1. target' = target /\ (pc' = pc \/ pc' = "exit")
        BY <2>5 DEF EndSkips, EndInconsistent, PipeError, NothingToWrite, ReadData,
           EndDone, Over, vars
      <3>2. TargetInv' BY <3>1 DEF TargetInv
      <3> QED BY <1>1, <2>1, <3>2
    <2> QED BY <1>3, <2>2, <2>3, <2>4, <2>5
  <1>4. ASSUME NEW p \in Proc, NEW list, process_free(p, list)
        PROVE  Still /\ TargetInv' /\ listed' = list
    <2>1. Still /\ listed' = list /\ target' = p BY <1>4 DEF process_free
    <2>2. pc' # "term" BY <1>2, <1>4 DEF process_free
    <2> QED BY <2>1, <2>2 DEF TargetInv
  <1>5. ASSUME Deinit PROVE Goal
    <2>1. listed # <<>> /\ process_free(Head(listed), Tail(listed)) BY <1>5 DEF Deinit
    <2>2. Head(listed) \in Proc BY <2>1, First DEF ShapeInv
    <2>3. Still /\ TargetInv' /\ listed' = Tail(listed) BY <1>4, <2>1, <2>2
    <2> QED BY <2>1, <2>3 DEF PacketsStep, ChildrenStep
  <1>6. ASSUME WritePacket PROVE Goal
    <2>1. PacketsStep /\ Kept /\ UNCHANGED <<pc, target, running, child>>
      BY <1>6 DEF PacketsStep, WritePacket
    <2> DEFINE p == scope[cur]
               n == Least(PacketLen - Head(packets[p]).pos, Room(Described))
    <2>2. /\ InEnd /\ ~AtEnd /\ pc = "end" /\ packets[p] # <<>>
          /\ fill' = [fill EXCEPT ![Described] = @ + n]
      BY <1>6 DEF WritePacket, InEnd, Write
    <2>3. Described \in Proc BY <2>2, Descriptors
    <2>4. n \in Nat /\ n <= Room(Described)
      <3>1. p \in Proc BY <2>2 DEF InEnd, LoopInv
      <3>2. packets[p] \in Seq([id : Nat, pos : Nat]) BY <3>1 DEF ShapeInv, QueueType
      <3>3. Head(packets[p]) = packets[p][1] /\ 1 \in 1..Len(packets[p])
        BY <2>2, <3>2, First
      <3>4. Head(packets[p]).pos \in 0..(PacketLen - 1) /\ PacketLen \in Nat
        BY <3>1, <3>3, Known
      <3>5. PacketLen - Head(packets[p]).pos \in Nat BY <3>4
      <3> QED BY <2>3, <3>5, FitsIn
    <2> HIDE DEF n
    <2>5. ChildrenStep BY <2>1, <2>2, <2>3, <2>4 DEF ChildrenStep
    <2>6. TargetInv' BY <2>1 DEF TargetInv
    <2> QED BY <2>1, <2>5, <2>6
  <1>7. ASSUME NEW p \in Proc, CallbackSends(p) \/ UserSends(p) PROVE Goal
    <2>1. /\ process_send(p) /\ misled' = misled /\ Kept
          /\ UNCHANGED <<pc, target, running, child>>
      BY <1>7 DEF CallbackSends, UserSends
    <2>2. PacketsStep BY <2>1 DEF PacketsStep
    <2> DEFINE n == Least(PacketLen, Room(p))
    <2>3. fill' = [fill EXCEPT ![p] = @ + n] BY <2>1 DEF process_send, Write
    <2>4. n \in Nat /\ n <= Room(p)
      <3>1. PacketLen \in Nat BY Known
      <3> QED BY <3>1, FitsIn
    <2> HIDE DEF n
    <2>5. ChildrenStep BY <2>1, <2>3, <2>4 DEF ChildrenStep
    <2>6. TargetInv' BY <2>1 DEF TargetInv
    <2> QED BY <2>1, <2>2, <2>5, <2>6
  <1>8. ASSUME NEW p \in Proc, CallbackStarts(p) \/ UserStarts(p) PROVE Goal
    <2>1. Spawned(p) /\ Kept /\ UNCHANGED <<packets, sends, misled, pc, target>>
      BY <1>8 DEF CallbackStarts, UserStarts
    <2>2. TargetInv' BY <2>1 DEF TargetInv
    <2> QED BY <2>1, <2>2, StartAndCleanup
  <1>9. ASSUME process_check_internal_exit PROVE Goal
    <2>1. Kept /\ UNCHANGED <<packets, sends, misled, pc, target>> /\ scope[cur] \in Proc
      BY <1>9 DEF process_check_internal_exit, LoopInv
    <2>2. TargetInv' BY <2>1 DEF TargetInv
    <2>3. \/ process_cleanup(scope[cur])
          \/ UNCHANGED <<child, fill, stream, running>>
      BY <1>9 DEF process_check_internal_exit
    <2>4. CASE process_cleanup(scope[cur]) BY <2>1, <2>2, <2>4, StartAndCleanup
    <2>5. CASE UNCHANGED <<child, fill, stream, running>> BY <1>1, <2>1, <2>2, <2>5
    <2> QED BY <2>3, <2>4, <2>5
  <1>10. ASSUME StopTerminates \/ StopKills PROVE Goal
    <2>1. /\ process_cleanup(target) /\ Kept /\ UNCHANGED <<packets, sends, misled, target>>
          /\ pc' # "term" /\ pc = "term"
      BY <1>10 DEF StopTerminates, StopKills
    <2>2. target \in Proc BY <2>1 DEF TargetInv
    <2>3. TargetInv' BY <2>1 DEF TargetInv
    <2> QED BY <2>1, <2>2, <2>3, StartAndCleanup
  <1>11. ASSUME NEW p \in Proc, process_check(p) \/ UserStops(p) PROVE Goal
    <2>1. Still /\ Kept /\ pc' # "term" /\ (target' = target \/ target' = p)
      BY <1>2, <1>11 DEF process_check, UserStops, process_stop
    <2>2. TargetInv' BY <2>1 DEF TargetInv
    <2> QED BY <1>1, <2>1, <2>2
  <1>12. ASSUME NEW p \in Proc, UserFrees(p) PROVE Goal
    BY <1>1, <1>4, <1>12 DEF UserFrees
  <1>13. ASSUME NEW p \in Proc,
                \/ (\E val \in Restarts : process_set_restart(p, val))
                \/ (\E k \in {"OUT", "ERR"} : ChildWrites(p, k))
         PROVE  Goal
    <2>1. Still /\ Kept /\ UNCHANGED <<pc, target>>
      BY <1>13 DEF process_set_restart, ChildWrites
    <2>2. TargetInv' BY <2>1 DEF TargetInv
    <2> QED BY <1>1, <2>1, <2>2
  <1>14. ASSUME NEW p \in Proc, ChildReads(p) \/ ChildExits(p) PROVE Goal
    <2>1. Kept /\ UNCHANGED <<pc, target, stream, packets, sends, misled>>
      BY <1>14 DEF ChildReads, ChildExits
    <2>2. ChildrenStep BY <1>14 DEF ChildReads, ChildExits, ChildrenStep
    <2>3. TargetInv' BY <2>1 DEF TargetInv
    <2> QED BY <2>1, <2>2, <2>3 DEF PacketsStep
  <1> HIDE DEF Goal
  <1>15. Goal
    BY <1>3, <1>5, <1>6, <1>7, <1>8, <1>9, <1>10, <1>11, <1>12, <1>13, <1>14 DEF Next, CallStep
  <1> QED BY <1>15 DEF Goal

\* A running process has a child, and a pipe never holds more than it can.
LEMMA ChildrenKept ==
  ASSUME ShapeInv, RunningHasChild, ChildrenStep
  PROVE  /\ child' \in [Proc -> {"none", "alive", "exited"}] /\ running' \in [Proc -> BOOLEAN]
         /\ fill' \in [Proc -> Nat] /\ \A p \in Proc : fill'[p] <= PipeSize
         /\ RunningHasChild'
  <1>1. /\ child \in [Proc -> {"none", "alive", "exited"}] /\ running \in [Proc -> BOOLEAN]
        /\ fill \in [Proc -> Nat] /\ \A p \in Proc : fill[p] <= PipeSize
        /\ PipeSize \in Nat
    BY ProcessAssumption DEF ShapeInv
  <1>2. ASSUME NEW p \in Proc, child' = [child EXCEPT ![p] = "alive"],
               running' = [running EXCEPT ![p] = TRUE]
        PROVE  /\ child' \in [Proc -> {"none", "alive", "exited"}]
               /\ running' \in [Proc -> BOOLEAN] /\ RunningHasChild'
    BY <1>1, <1>2 DEF RunningHasChild
  <1>3. ASSUME NEW p \in Proc, child' = [child EXCEPT ![p] = "none"],
               running' = [running EXCEPT ![p] = FALSE]
        PROVE  /\ child' \in [Proc -> {"none", "alive", "exited"}]
               /\ running' \in [Proc -> BOOLEAN] /\ RunningHasChild'
    BY <1>1, <1>3 DEF RunningHasChild
  <1>4. ASSUME NEW p \in Proc, child[p] = "alive", child' = [child EXCEPT ![p] = "exited"],
               UNCHANGED running
        PROVE  /\ child' \in [Proc -> {"none", "alive", "exited"}]
               /\ running' \in [Proc -> BOOLEAN] /\ RunningHasChild'
    BY <1>1, <1>4 DEF RunningHasChild
  <1>5. ASSUME UNCHANGED <<running, child>>
        PROVE  /\ child' \in [Proc -> {"none", "alive", "exited"}]
               /\ running' \in [Proc -> BOOLEAN] /\ RunningHasChild'
    BY <1>1, <1>5 DEF RunningHasChild
  <1>6. ASSUME NEW p \in Proc, \/ fill' = [fill EXCEPT ![p] = 0]
                               \/ fill[p] > 0 /\ fill' = [fill EXCEPT ![p] = @ - 1]
        PROVE  fill' \in [Proc -> Nat] /\ \A q \in Proc : fill'[q] <= PipeSize
    BY <1>1, <1>6
  <1>7. ASSUME NEW p \in Proc, NEW n \in Nat, n <= Room(p), fill' = [fill EXCEPT ![p] = @ + n]
        PROVE  fill' \in [Proc -> Nat] /\ \A q \in Proc : fill'[q] <= PipeSize
    <2>1. fill[p] + n <= PipeSize BY <1>1, <1>7 DEF Room
    <2> QED BY <1>1, <1>7, <2>1
  <1> QED BY <1>1, <1>2, <1>3, <1>4, <1>5, <1>6, <1>7 DEF ChildrenStep

\* What is left of a list without repetitions has none.
LEMMA TailInjective ==
  ASSUME NEW s \in Seq(Proc), IsInjective(s), s # <<>>
  PROVE  Tail(s) \in Seq(Proc) /\ IsInjective(Tail(s))
  <1>1. Tail(s) \in Seq(Proc) BY First
  <1>2. /\ DOMAIN s = 1..Len(s) /\ Len(s) \in Nat \ {0}
        /\ DOMAIN Tail(s) = 1..Len(Tail(s)) /\ Len(Tail(s)) = Len(s) - 1
        /\ \A i \in 1..Len(Tail(s)) : Tail(s)[i] = s[i + 1]
    BY <1>1
  <1> DEFINE t == Tail(s)
  <1> HIDE DEF t
  <1>3. \A i, j \in DOMAIN t : t[i] = t[j] => i = j
    <2> TAKE i, j \in DOMAIN t
    <2> HAVE t[i] = t[j]
    <2>1. i \in 1..Len(t) /\ j \in 1..Len(t) /\ Len(t) = Len(s) - 1 BY <1>2 DEF t
    <2>2. s[i + 1] = s[j + 1] BY <1>2, <2>1 DEF t
    <2>3. i + 1 \in DOMAIN s /\ j + 1 \in DOMAIN s BY <1>2, <2>1
    <2>4. i + 1 = j + 1 BY <2>2, <2>3 DEF IsInjective
    <2> QED BY <2>1, <2>4
  <1> QED BY <1>1, <1>3 DEF IsInjective, t

\* Every step keeps the account of packets and the types it needs.
LEMMA PacketsKept ==
  ASSUME ShapeInv, QueueInv, LoopInv, NothingDroppedOrRepeated, PacketsStep
  PROVE  /\ QueueInv' /\ NothingDroppedOrRepeated'
         /\ stream' \in [Proc -> Seq(UnitType)] /\ packets' \in [Proc -> QueueType]
         /\ sends' \in Seq(Proc) /\ misled' \in BOOLEAN
  <1>1. ASSUME NEW p \in Proc, process_send(p), misled' = misled
        PROVE  /\ QueueInv' /\ NothingDroppedOrRepeated'
               /\ stream' \in [Proc -> Seq(UnitType)] /\ packets' \in [Proc -> QueueType]
               /\ sends' \in Seq(Proc) /\ misled' \in BOOLEAN
    <2>1. misled' \in BOOLEAN BY <1>1 DEF ShapeInv
    <2> QED BY <1>1, <2>1, SendStep
  <1>2. CASE WritePacket
    <2>1. sends' = sends /\ misled' = (misled \/ StartedSince) BY <1>2 DEF WritePacket
    <2>2. misled' \in BOOLEAN BY <2>1
    <2>3. sends' \in Seq(Proc) BY <2>1 DEF ShapeInv
    <2> QED BY <1>2, <2>2, <2>3, WriteStep
  <1>3. ASSUME NEW p \in Proc, stream' = [stream EXCEPT ![p] = Append(@, Mark)],
               UNCHANGED <<packets, sends, misled>>
        PROVE  /\ QueueInv' /\ NothingDroppedOrRepeated'
               /\ stream' \in [Proc -> Seq(UnitType)] /\ packets' \in [Proc -> QueueType]
               /\ sends' \in Seq(Proc) /\ misled' \in BOOLEAN
    <2>1. packets' \in [Proc -> QueueType] /\ sends' \in Seq(Proc) /\ misled' \in BOOLEAN
      BY <1>3 DEF ShapeInv
    <2>2. QueueInv' /\ NothingDroppedOrRepeated' /\ stream' \in [Proc -> Seq(UnitType)]
      BY <1>3, StartStep
    <2> QED BY <2>1, <2>2
  <1>4. CASE UNCHANGED <<stream, packets, sends, misled>>
    <2>1. /\ stream' \in [Proc -> Seq(UnitType)] /\ packets' \in [Proc -> QueueType]
          /\ sends' \in Seq(Proc) /\ misled' \in BOOLEAN
      BY <1>4 DEF ShapeInv
    <2> QED BY <1>4, <2>1, StillStep
  <1> QED BY <1>1, <1>2, <1>3, <1>4 DEF PacketsStep

\* The inductive invariant: process_create() establishes it and every call and every
\* step of a child keeps it.
THEOREM Invariance == Spec => []IInv
  <1>1. Init => IInv
    <2> SUFFICES ASSUME Init PROVE IInv OBVIOUS
    <2> USE DEF Init
    <2>1. \A p \in Proc : Len(stream[p]) = 0 /\ Len(packets[p]) = 0 OBVIOUS
    <2>2. Len(sends) = 0 OBVIOUS
    <2>3. ShapeInv
      <3>1. <<>> \in Seq(UnitType) /\ <<>> \in QueueType /\ <<>> \in Seq(Proc)
        BY DEF QueueType
      <3>2. listed \in Seq(Proc) /\ IsInjective(listed) BY ProcessAssumption DEF Proc
      <3>3. PipeSize \in Nat BY ProcessAssumption
      <3>4. \A p \in Proc : fill[p] <= PipeSize BY <3>3
      <3> QED BY <3>1, <3>2, <3>4 DEF ShapeInv
    <2>4. QueueInv BY <2>1 DEF QueueInv
    <2>5. LoopInv
      <3>1. <<>> \in Seq(Proc) /\ IsInjective(<<>>) BY DEF IsInjective
      <3>2. <<>> \in Seq(1..Len(scope)) OBVIOUS
      <3> QED BY <3>1, <3>2 DEF LoopInv
    <2>6. TargetInv BY DEF TargetInv
    <2>7. RunningHasChild BY DEF RunningHasChild
    <2>8. NothingDropped BY <2>2 DEF NothingDropped
    <2>9. NothingRepeated
      <3> SUFFICES \A p \in Proc : \A i \in 1..Len(stream[p]) : FALSE
        BY Zenon DEF NothingRepeated
      <3> QED BY <2>1
    <2>10. QueuesInOrder BY <2>1 DEF QueuesInOrder
    <2>11. WrittenToItsProcess BY <2>1 DEF WrittenToItsProcess
    <2> QED BY <2>3, <2>4, <2>5, <2>6, <2>7, <2>8, <2>9, <2>10, <2>11
            DEF IInv, NothingDroppedOrRepeated
  <1>2. IInv /\ [Next]_vars => IInv'
    <2> SUFFICES ASSUME IInv, [Next]_vars PROVE IInv' OBVIOUS
    <2> USE DEF IInv
    <2>1. /\ PacketsStep /\ ChildrenStep /\ TargetInv'
          /\ listed' = listed \/ (listed # <<>> /\ listed' = Tail(listed))
      BY EveryStep
    <2>2. LoopInv' BY LoopStep
    <2>3. /\ QueueInv' /\ NothingDroppedOrRepeated'
          /\ stream' \in [Proc -> Seq(UnitType)] /\ packets' \in [Proc -> QueueType]
          /\ sends' \in Seq(Proc) /\ misled' \in BOOLEAN
      BY <2>1, PacketsKept
    <2>4. /\ child' \in [Proc -> {"none", "alive", "exited"}] /\ running' \in [Proc -> BOOLEAN]
          /\ fill' \in [Proc -> Nat] /\ (\A p \in Proc : fill[p] <= PipeSize)'
          /\ RunningHasChild'
      BY <2>1, ChildrenKept
    <2>5. listed' \in Seq(Proc) /\ IsInjective(listed')
      BY <2>1, TailInjective DEF ShapeInv
    <2>6. ShapeInv' BY <2>3, <2>4, <2>5 DEF ShapeInv
    <2> QED BY <2>1, <2>2, <2>3, <2>4, <2>6
  <1> QED BY <1>1, <1>2, PTL DEF Spec

\* Of every packet given to process_send() every unit is written once and in order, or
\* waits in the queue of its process: whatever the pipes take, whatever exits or is
\* restarted, and whatever the callbacks send or start.
THEOREM PacketsAccounted == Spec => []NothingDroppedOrRepeated
  <1>1. IInv => NothingDroppedOrRepeated BY DEF IInv
  <1> QED BY <1>1, Invariance, PTL

\* A running process has a child that was not waited for, and process_check_all() looks
\* at a process through its own descriptors unless a callback started one.
THEOREM ChildrenKnown == Spec => []ChildrenAreKnown
  <1>1. IInv => ChildrenAreKnown
    <2>1. ASSUME IInv, pc = "end" PROVE DescriptorsMatch
      BY <2>1, Descriptors DEF IInv
    <2>2. pc # "end" => DescriptorsMatch BY DEF DescriptorsMatch, InEnd
    <2> QED BY <2>1, <2>2 DEF IInv, ChildrenAreKnown
  <1> QED BY <1>1, Invariance, PTL

=============================================================================
