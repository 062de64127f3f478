------------------------------- MODULE Process -------------------------------
(***************************************************************************)
(* The child processes that process.c manages (POSIX build).  The program  *)
(* is one thread; the children run beside it, so a child may read, write   *)
(* or exit between any two steps of a call.                                *)
(*                                                                         *)
(* A packet is `PacketLen' units long.  stream[p] is the history of what   *)
(* was written to the standard input of p's children, unit by unit, with a *)
(* Mark where a new child begins; fill[p] is how much of it the present    *)
(* child has not read yet.  sends is the history of process_send(): packet *)
(* number k was sent to the process sends[k].  PROCESS_PIPE_OUT and        *)
(* PROCESS_PIPE_ERR carry chunks of output.                                *)
(*                                                                         *)
(* A call that polls keeps its place in `scope' (the processes it goes     *)
(* through), `cur' (the process), `pipe' and `idx' (the index into the     *)
(* array of descriptors, of which there are three for every process of     *)
(* `polled', the places in `scope' whose processes were running); `errs'   *)
(* are the processes whose descriptors had POLLERR or POLLHUP.  `target'   *)
(* is the process of a running process_stop() and `freeing' says that      *)
(* process_free() called it.                                               *)
(***************************************************************************)
EXTENDS Integers, Sequences, Functions

CONSTANTS Order,        \* the list `processes'
          PacketLen, PipeSize,
          MaxSends, MaxStarts, MaxOutput,   \* bounds
          Restarts,     \* values given to process_set_restart()
          Calls,        \* optional calls: "stop", "free", "deinit"
          CallbackCalls \* what a data callback may call: "send", "start"

ASSUME ProcessAssumption ==
  /\ {PacketLen, PipeSize} \subseteq Nat \ {0}
  /\ {MaxSends, MaxStarts, MaxOutput} \subseteq Nat
  /\ Restarts \subseteq BOOLEAN
  /\ Order \in Seq(Range(Order)) /\ IsInjective(Order)

Proc == Range(Order)
Mark == [id |-> 0, at |-> 0]
Pipes == <<"IN", "OUT", "ERR">>
NONE == "none"

VARIABLES listed, allocated, running, restart, packets,
          child,      \* "none", "alive" or "exited" (and not waited for)
          unreaped,   \* children that nobody will wait for
          fill, stream, output,
          sends, starts,
          pc, scope, cur, pipe, idx, polled, errs, target, freeing,
          misled      \* history: a packet was written in a pass of the loop in
                      \* which a callback had started a process

osVars == <<child, unreaped, fill, stream, output, starts>>
procVars == <<listed, allocated, running, restart>>
loopVars == <<scope, cur, pipe, idx, polled, errs>>
callVars == <<pc, target, freeing>>
history == <<sends, misled>>
vars == <<osVars, procVars, packets, history, loopVars, callVars>>

NoOutput == [k \in {"OUT", "ERR"} |-> 0]

\* process_create() for every process of the list.
Init ==
  /\ listed = Order /\ allocated = [p \in Proc |-> TRUE]
  /\ running = [p \in Proc |-> FALSE] /\ restart = [p \in Proc |-> FALSE]
  /\ packets = [p \in Proc |-> <<>>]
  /\ child = [p \in Proc |-> "none"] /\ unreaped = 0
  /\ fill = [p \in Proc |-> 0] /\ stream = [p \in Proc |-> <<>>]
  /\ output = [p \in Proc |-> NoOutput]
  /\ sends = <<>> /\ starts = 0 /\ misled = FALSE
  /\ pc = "idle" /\ scope = <<>> /\ cur = 1 /\ pipe = 1 /\ idx = 0
  /\ polled = <<>> /\ errs = {} /\ target = NONE /\ freeing = FALSE

-----------------------------------------------------------------------------
(* Pipes and packets                                                        *)

\* What a write of the packet from its position on gets into a non-blocking
\* pipe: as much as there is room for, and nothing if nobody can read it.
Room(p) == IF child[p] = "alive" THEN PipeSize - fill[p] ELSE 0
Least(a, b) == IF a < b THEN a ELSE b

Units(packet, n) == [i \in 1..n |-> [id |-> packet.id, at |-> packet.pos + i]]

\* n units of a packet go into the pipe to p.
Write(p, packet, n) ==
  /\ stream' = [stream EXCEPT ![p] = @ \o Units(packet, n)]
  /\ fill' = [fill EXCEPT ![p] = @ + n]

\* Mutant: the packet is put back where it was.
SendForgetsPosition(packet, n) ==
  IF n = PacketLen THEN <<>> ELSE <<packet>>

\* What process_send() leaves to be queued of a packet of which n units went.
Remainder(packet, n) ==
  IF n = PacketLen THEN <<>> ELSE <<[packet EXCEPT !.pos = n]>>

\* process_send(): a write at once, and the rest at the end of the queue.
process_send(p) ==
  LET packet == [id |-> Len(sends) + 1, pos |-> 0]
      n      == Least(PacketLen, Room(p))
  IN  /\ running[p] /\ Len(sends) < MaxSends
      /\ sends' = Append(sends, p)
      /\ packets' = [packets EXCEPT ![p] = @ \o Remainder(packet, n)]
      /\ Write(p, packet, n)

-----------------------------------------------------------------------------
(* process_start() and process_cleanup()                                    *)

\* The pipes and the child are there ...
Spawned(p) ==
  /\ starts < MaxStarts
  /\ starts' = starts + 1
  /\ child' = [child EXCEPT ![p] = "alive"]
  /\ fill' = [fill EXCEPT ![p] = 0]
  /\ stream' = [stream EXCEPT ![p] = Append(@, Mark)]
  /\ output' = [output EXCEPT ![p] = NoOutput]
  /\ running' = [running EXCEPT ![p] = TRUE]

\* ... or pipe(), fcntl() or posix_spawn() failed, or nothing was to be started.
NotSpawned(p) ==
  /\ child' = [child EXCEPT ![p] = "none"]
  /\ output' = [output EXCEPT ![p] = NoOutput]
  /\ running' = [running EXCEPT ![p] = FALSE]
  /\ UNCHANGED <<fill, stream, starts>>

\* Mutant: the process still counts as running.
CleanupKeepsRunning(p) ==
  IF restart[p] THEN Spawned(p) \/ NotSpawned(p)
  ELSE /\ child' = [child EXCEPT ![p] = "none"]
       /\ output' = [output EXCEPT ![p] = NoOutput]
       /\ UNCHANGED <<fill, stream, starts, running>>

\* The pipes are closed with all they hold; the queue of packets is kept.
process_cleanup(p) ==
  IF restart[p] THEN Spawned(p) \/ NotSpawned(p) ELSE NotSpawned(p)

-----------------------------------------------------------------------------
(* process_check() and process_check_all()                                  *)

Hangup(p) == child[p] # "alive"

Ready(p) ==
  \/ Hangup(p)
  \/ \E k \in {"OUT", "ERR"} : output[p][k] > 0
  \/ packets[p] # <<>> /\ Room(p) > 0

\* process_check_internal_begin() for the running processes of the call, and
\* process_check_internal_poll().
BeginAndPoll(processes) ==
  \E n \in 0..Len(processes) : \E fds \in [1..n -> 1..Len(processes)] :
    LET descriptors == {processes[fds[k]] : k \in 1..n}
    IN  /\ \A k, m \in 1..n : k < m => fds[k] < fds[m]
        /\ Range(fds) = {k \in 1..Len(processes) : running[processes[k]]}
        /\ scope' = processes /\ cur' = 1 /\ pipe' = 1 /\ idx' = 0
        /\ polled' = fds
        /\ errs' = {p \in descriptors : Hangup(p)}
        /\ pc' = IF \E p \in descriptors : Ready(p) THEN "end" ELSE "exit"

Down == listed # Order

\* A freed process is still in the list: what a walk over it does is undefined,
\* and behaviours end there.
Dangling == \E p \in Range(listed) : ~allocated[p]

process_check_all ==
  /\ pc = "idle" /\ ~Down /\ ~Dangling
  /\ BeginAndPoll(listed)
  /\ UNCHANGED <<osVars, procVars, packets, history, target, freeing>>

process_check(p) ==
  /\ pc = "idle" /\ ~Down /\ allocated[p] /\ running[p]
  /\ BeginAndPoll(<<p>>)
  /\ UNCHANGED <<osVars, procVars, packets, history, target, freeing>>

\* The next descriptor of the process, or the next process.
NextPipe ==
  /\ pipe' = IF pipe = Len(Pipes) THEN 1 ELSE pipe + 1
  /\ cur' = IF pipe = Len(Pipes) THEN cur + 1 ELSE cur
  /\ idx' = idx + 1

\* The loops around process_check_internal_end().
EndSkips ==
  /\ pc = "end" /\ cur <= Len(scope) /\ ~running[scope[cur]]
  /\ cur' = cur + 1
  /\ UNCHANGED <<osVars, procVars, packets, history, scope, pipe, idx, polled,
                 errs, callVars>>

InEnd == pc = "end" /\ cur <= Len(scope) /\ running[scope[cur]]
AtEnd == idx = Len(Pipes) * Len(polled)
\* The process whose descriptor is looked at.
Described == scope[polled[(idx \div Len(Pipes)) + 1]]

\* "Inconsistency detected"
EndInconsistent ==
  /\ InEnd /\ AtEnd
  /\ cur' = cur + 1 /\ pipe' = 1
  /\ UNCHANGED <<osVars, procVars, packets, history, scope, idx, polled, errs,
                 callVars>>

PipeError ==
  /\ InEnd /\ ~AtEnd /\ Described \in errs
  /\ NextPipe
  /\ UNCHANGED <<osVars, procVars, packets, history, scope, polled, errs, callVars>>

\* A process of the call runs although its descriptors were not collected.
StartedSince ==
  \E k \in 1..Len(scope) : running[scope[k]] /\ k \notin Range(polled)

\* process_check_internal_pipe() for PROCESS_PIPE_IN: the packets of the process
\* are written to the descriptor, each with a call of its own, until one does not
\* go in as a whole ...
WritePacket ==
  /\ InEnd /\ ~AtEnd /\ Described \notin errs /\ Pipes[pipe] = "IN"
  /\ packets[scope[cur]] # <<>>
  /\ LET p      == scope[cur]
         packet == Head(packets[p])
         n      == Least(PacketLen - packet.pos, Room(Described))
     IN  /\ Write(Described, packet, n)
         /\ IF packet.pos + n = PacketLen
            THEN /\ packets' = [packets EXCEPT ![p] = Tail(@)]
                 /\ UNCHANGED <<cur, pipe, idx>>
            ELSE /\ packets' = [packets EXCEPT ![p][1].pos = @ + n]
                 /\ NextPipe
  /\ misled' = (misled \/ StartedSince)
  /\ UNCHANGED <<child, unreaped, output, starts, procVars, sends, scope,
                 polled, errs, callVars>>

\* ... or the queue is empty.
NothingToWrite ==
  /\ InEnd /\ ~AtEnd /\ Described \notin errs /\ Pipes[pipe] = "IN"
  /\ packets[scope[cur]] = <<>>
  /\ NextPipe
  /\ UNCHANGED <<osVars, procVars, packets, history, scope, polled, errs, callVars>>

\* ... and for the other two: what is there is read and given to the callback,
\* which may send a packet to a process or start one.
ReadData ==
  /\ InEnd /\ ~AtEnd /\ Described \notin errs /\ Pipes[pipe] # "IN"
  /\ output' = [output EXCEPT ![Described][Pipes[pipe]] = 0]
  /\ NextPipe
  /\ UNCHANGED <<child, unreaped, fill, stream, starts, procVars, packets,
                 history, scope, polled, errs, callVars>>

CallbackSends(p) ==
  /\ InEnd /\ ~AtEnd /\ Described \notin errs /\ Pipes[pipe] # "IN"
  /\ "send" \in CallbackCalls /\ output[Described][Pipes[pipe]] > 0
  /\ output' = [output EXCEPT ![Described][Pipes[pipe]] = 0]
  /\ process_send(p)
  /\ NextPipe
  /\ UNCHANGED <<child, unreaped, starts, procVars, scope, polled, errs,
                 callVars, misled>>

CallbackStarts(p) ==
  /\ InEnd /\ ~AtEnd /\ Described \notin errs /\ Pipes[pipe] # "IN"
  /\ "start" \in CallbackCalls /\ output[Described][Pipes[pipe]] > 0
  /\ ~running[p] /\ Spawned(p)
  /\ NextPipe
  /\ UNCHANGED <<unreaped, listed, allocated, restart, packets, history, scope,
                 polled, errs, callVars>>

EndDone ==
  /\ pc = "end" /\ cur > Len(scope)
  /\ pc' = "exit" /\ cur' = 1 /\ idx' = 0 /\ polled' = <<>> /\ errs' = {}
  /\ UNCHANGED <<osVars, procVars, packets, history, scope, pipe, target, freeing>>

\* Mutant: a process that is to be restarted is not waited for.
ExitOnlyFinal ==
  /\ pc = "exit" /\ cur <= Len(scope)
  /\ LET p == scope[cur]
     IN  IF running[p] /\ child[p] = "exited" /\ ~restart[p]
         THEN process_cleanup(p)
         ELSE UNCHANGED <<child, fill, stream, output, starts, running>>
  /\ cur' = cur + 1
  /\ UNCHANGED <<unreaped, listed, allocated, restart, packets, history, scope,
                 pipe, idx, polled, errs, callVars>>

\* process_check_internal_exit(): waitpid() finds that the child has exited.
process_check_internal_exit ==
  /\ pc = "exit" /\ cur <= Len(scope)
  /\ LET p == scope[cur]
     IN  IF running[p] /\ child[p] = "exited" THEN process_cleanup(p)
         ELSE UNCHANGED <<child, fill, stream, output, starts, running>>
  /\ cur' = cur + 1
  /\ UNCHANGED <<unreaped, listed, allocated, restart, packets, history, scope,
                 pipe, idx, polled, errs, callVars>>

\* The check returns, to the user or to process_stop().
CheckReturns ==
  /\ pc = "exit" /\ cur > Len(scope)
  /\ pc' = CASE target = NONE -> "idle"
             [] target # NONE /\ running[target] -> "term"
             [] OTHER -> "stopped"
  /\ scope' = <<>> /\ cur' = 1 /\ pipe' = 1 /\ idx' = 0 /\ polled' = <<>> /\ errs' = {}
  /\ UNCHANGED <<osVars, procVars, packets, history, target, freeing>>

-----------------------------------------------------------------------------
(* process_stop(), process_free() and the end of the module                 *)

process_stop(p) ==
  /\ target' = p
  /\ BeginAndPoll(<<p>>)

UserStops(p) ==
  /\ pc = "idle" /\ ~Down /\ "stop" \in Calls /\ allocated[p] /\ running[p]
  /\ process_stop(p)
  /\ UNCHANGED <<osVars, procVars, packets, history, freeing>>

\* SIGTERM, 100 ms, and waitpid() says that the child has exited.
StopTerminates ==
  /\ pc = "term" /\ child[target] = "exited"
  /\ process_cleanup(target)
  /\ pc' = "stopped"
  /\ UNCHANGED <<unreaped, listed, allocated, restart, packets, history, loopVars,
                 target, freeing>>

\* It has not: SIGKILL, and nobody waits.  (kill() and waitpid() themselves do
\* not fail for a child that was not waited for, see RunningHasChild.)
StopKills ==
  /\ pc = "term" /\ child[target] = "alive"
  /\ unreaped' = unreaped + 1
  /\ process_cleanup(target)
  /\ pc' = "stopped"
  /\ UNCHANGED <<listed, allocated, restart, packets, history, loopVars, target,
                 freeing>>

StopReturns ==
  /\ pc = "stopped"
  /\ pc' = IF freeing THEN "free" ELSE "idle"
  /\ target' = IF freeing THEN target ELSE NONE
  /\ UNCHANGED <<osVars, procVars, packets, history, loopVars, freeing>>

\* process_free(), the list of processes being `list' from then on.
process_free(p, list) ==
  /\ allocated[p]
  /\ listed' = list
  /\ freeing' = TRUE /\ target' = p
  /\ IF running[p]
     THEN /\ restart' = [restart EXCEPT ![p] = FALSE]
          /\ BeginAndPoll(<<p>>)
     ELSE pc' = "free" /\ UNCHANGED <<restart, loopVars>>
  /\ UNCHANGED <<osVars, allocated, running, packets, history>>

UserFrees(p) ==
  /\ pc = "idle" /\ ~Down /\ "free" \in Calls
  /\ process_free(p, listed)

\* TOOLKIT_DEINIT_FUNC(process)
Deinit ==
  /\ pc = "idle" /\ ~Dangling /\ "deinit" \in Calls /\ listed # <<>>
  /\ process_free(Head(listed), Tail(listed))

FreeReturns ==
  /\ pc = "free"
  /\ allocated' = [allocated EXCEPT ![target] = FALSE]
  /\ pc' = "idle" /\ target' = NONE /\ freeing' = FALSE
  /\ UNCHANGED <<osVars, listed, running, restart, packets, history, loopVars>>

-----------------------------------------------------------------------------
(* Other calls, and the children                                            *)

UserStarts(p) ==
  /\ pc = "idle" /\ ~Down /\ allocated[p] /\ ~running[p]
  /\ Spawned(p)
  /\ UNCHANGED <<unreaped, listed, allocated, restart, packets, history, loopVars,
                 callVars>>

UserSends(p) ==
  /\ pc = "idle" /\ ~Down /\ allocated[p]
  /\ process_send(p)
  /\ UNCHANGED <<child, unreaped, output, starts, procVars, loopVars, callVars,
                 misled>>

process_set_restart(p, val) ==
  /\ pc = "idle" /\ ~Down /\ allocated[p] /\ restart[p] # val
  /\ restart' = [restart EXCEPT ![p] = val]
  /\ UNCHANGED <<osVars, listed, allocated, running, packets, history, loopVars,
                 callVars>>

ChildReads(p) ==
  /\ child[p] = "alive" /\ fill[p] > 0
  /\ fill' = [fill EXCEPT ![p] = @ - 1]
  /\ UNCHANGED <<child, unreaped, stream, output, starts, procVars, packets,
                 history, loopVars, callVars>>

ChildWrites(p, k) ==
  /\ child[p] = "alive" /\ output[p][k] < MaxOutput
  /\ output' = [output EXCEPT ![p][k] = @ + 1]
  /\ UNCHANGED <<child, unreaped, fill, stream, starts, procVars, packets,
                 history, loopVars, callVars>>

ChildExits(p) ==
  /\ child[p] = "alive"
  /\ child' = [child EXCEPT ![p] = "exited"]
  /\ UNCHANGED <<unreaped, fill, stream, output, starts, procVars, packets,
                 history, loopVars, callVars>>

Over == pc = "idle" /\ (listed = <<>> \/ Dangling) /\ UNCHANGED vars

\* Calls that have been made and go on.
CallStep ==
  \/ EndSkips \/ EndInconsistent \/ PipeError \/ WritePacket \/ NothingToWrite
  \/ ReadData
  \/ EndDone \/ process_check_internal_exit \/ CheckReturns
  \/ StopTerminates \/ StopKills \/ StopReturns \/ FreeReturns
  \/ \E p \in Proc : CallbackSends(p) \/ CallbackStarts(p)

Next ==
  \/ CallStep \/ process_check_all \/ Deinit \/ Over
  \/ \E p \in Proc :
       \/ process_check(p) \/ UserStops(p) \/ UserFrees(p)
       \/ UserStarts(p) \/ UserSends(p)
       \/ \E val \in Restarts : process_set_restart(p, val)
       \/ ChildReads(p) \/ ChildExits(p)
       \/ \E k \in {"OUT", "ERR"} : ChildWrites(p, k)

Spec == Init /\ [][Next]_vars

\* Calls return, the program's main loop calls process_check_all() again and
\* again (also between other calls), and a child that lives reads its input.
FairSpec ==
  /\ Spec /\ WF_vars(CallStep)
  /\ SF_vars(process_check_all) /\ WF_vars(Deinit /\ Down)
  /\ \A p \in Proc : WF_vars(ChildReads(p))

-----------------------------------------------------------------------------
(* Properties                                                               *)

\* Fields keep their types: a queued packet never has pos = len (process_send()
\* and the flush in process_check_internal_pipe() free it then), and the index into
\* the poll array stays within what the processes can need.
TypeOK ==
  /\ listed \in Seq(Proc) /\ allocated \in [Proc -> BOOLEAN]
  /\ running \in [Proc -> BOOLEAN] /\ restart \in [Proc -> BOOLEAN]
  /\ \A p \in Proc : \A i \in DOMAIN packets[p] :
       packets[p][i] \in [id : 1..MaxSends, pos : 0..(PacketLen - 1)]
  /\ child \in [Proc -> {"none", "alive", "exited"}]
  /\ fill \in [Proc -> 0..PipeSize]
  /\ idx \in 0..(Len(Pipes) * Len(Order)) /\ pipe \in 1..Len(Pipes)
  /\ pc \in {"idle", "end", "exit", "term", "stopped", "free"}

Unit(id, k) == [id |-> id, at |-> k]
Written(id, k) ==
  \E p \in Proc : \E i \in 1..Len(stream[p]) : stream[p][i] = Unit(id, k)
Waiting(id, k) ==
  LET queue == packets[sends[id]]
  IN  \E m \in 1..Len(queue) : queue[m].id = id /\ queue[m].pos < k

\* Every unit of every packet that was sent has either been written or waits in the
\* queue of the process it was sent to.
NothingDropped ==
  \A id \in 1..Len(sends) : \A k \in 1..PacketLen : Written(id, k) <=> ~Waiting(id, k)

\* No unit is written twice, and the units of a packet are written in order.
NothingRepeated ==
  \A p, q \in Proc : \A i \in 1..Len(stream[p]), j \in 1..Len(stream[q]) :
    stream[p][i] # Mark /\ stream[p][i].id = stream[q][j].id =>
      /\ p = q /\ i < j => stream[p][i].at < stream[q][j].at
      /\ p # q => stream[p][i].at # stream[q][j].at

\* A queue holds packets that were sent to its process, as they were sent.
QueuesInOrder ==
  \A p \in Proc : \A m \in 1..Len(packets[p]) :
    /\ packets[p][m].id \in 1..Len(sends) /\ sends[packets[p][m].id] = p
    /\ \A n \in 1..(m - 1) : packets[p][n].id < packets[p][m].id

\* Nothing is written but parts of packets, and to the process the packet was sent
\* to; unless a callback started a process while the descriptors of others were
\* looked at: with three processes one may then be written another's packets.
WrittenToItsProcess ==
  \A p \in Proc : \A i \in 1..Len(stream[p]) :
    stream[p][i] = Mark
    \/ /\ stream[p][i].id \in 1..Len(sends) /\ stream[p][i].at \in 1..PacketLen
       /\ misled \/ sends[stream[p][i].id] = p

\* Every packet that was sent is accounted for, unit by unit, through partial
\* writes, full pipes, restarts and sends from callbacks (process_send() and
\* process_check_internal_pipe()).
NothingDroppedOrRepeated ==
  NothingDropped /\ NothingRepeated /\ QueuesInOrder /\ WrittenToItsProcess

\* A running process has a child that can be signalled and waited for, and a
\* process that does not run has none: no pid is used after it was reaped.
RunningHasChild == \A p \in Proc : running[p] <=> child[p] # "none"

\* The two loops of process_check_all() agree, as the comment in it demands: the
\* descriptors that are looked at for a process are its own, as long as no
\* callback started a process after the descriptors were collected.
DescriptorsMatch == InEnd => StartedSince \/ (~AtEnd /\ Described = scope[cur])

\* What the program knows of its children is true: a running process has a child,
\* and a process is polled through its own descriptors (process.c, from
\* process_start() to process_cleanup()).
ChildrenAreKnown == RunningHasChild /\ DescriptorsMatch

\* process_check_all() goes through processes that exist.
ListedAreAllocated == \A p \in Range(listed) : allocated[p] \/ freeing

\* A child is served by process_check_all(): while it runs, a queued packet goes out
\* in the end; once it has exited it is waited for.
ChildIsServed ==
  \A p \in Proc :
    /\ running[p] /\ packets[p] # <<>> ~> packets[p] = <<>> \/ child[p] # "alive"
    /\ child[p] = "exited" ~> child[p] # "exited"

\* A child reads packets as they were sent: one after the other, from the
\* beginning of the first.
ChildReadsPackets ==
  \A p \in Proc : \A i \in 1..Len(stream[p]) :
    stream[p][i] # Mark =>
      LET unit == stream[p][i]  before == stream[p][i - 1]
      IN  IF unit.at > 1 THEN before = Unit(unit.id, unit.at - 1)
          ELSE before = Mark \/ (before.at = PacketLen /\ before.id < unit.id)

\* What a child wrote is read, unless the program stops the child.
OutputIsRead ==
  [][\A p \in Proc, k \in {"OUT", "ERR"} :
       output'[p][k] < output[p][k] => pc \in {"end", "term"}]_vars

\* process_stop() stops the process.
StopStops == pc = "stopped" => ~running[target]

=============================================================================
