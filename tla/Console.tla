------------------------------- MODULE Console -------------------------------
(***************************************************************************)
(* The console (console.c): a thread reads lines from standard input into  *)
(* a queue, the main loop takes one at a time in console_command_handle(). *)
(* A mutex protects the queue, a second one readline (builds without it    *)
(* have only the first).  console_command_handle() keeps a pointer to the  *)
(* first element of the queue's array between two locked sections: `array' *)
(* is the number of the block that holds the array, which a push replaces  *)
(* when the array grows, and `line' the block that the pointer points to.  *)
(* Deinitialisation cancels the thread asynchronously, wherever it is.     *)
(***************************************************************************)
EXTENDS Naturals, Sequences

CONSTANTS MaxLines,   \* bound: lines typed
          RoomAtFirst \* elements that the array has room for at first

ASSUME ConsoleAssumption == MaxLines \in Nat /\ RoomAtFirst \in Nat \ {0}

VARIABLES readline,   \* the build has readline (HAVE_READLINE); never changes
          reader,     \* the thread: "none", "wait", "lock", "push", "unlock",
                      \* "release", "dead"
          main,       \* the program: place in its calls
          queue_mutex, rl_mutex,   \* who holds them: "none", "reader", "main"
          queue, room, array,      \* command_process_queue
          line,       \* block of the pointer in console_command_handle(), 0: none
          current,    \* the line that the handler is called for
          typed,      \* lines that were typed
          handled     \* lines handled, in order

conVars == <<readline, reader, main, queue_mutex, rl_mutex, queue, room, array, line, current,
             typed, handled>>
queueVars == <<queue, room, array>>

ConInit ==
  /\ readline \in BOOLEAN
  /\ reader = "none" /\ main = "idle" /\ queue_mutex = "none" /\ rl_mutex = "none"
  /\ queue = <<>> /\ room = RoomAtFirst /\ array = 1 /\ line = 0 /\ current = 0
  /\ typed = 0 /\ handled = <<>>

-----------------------------------------------------------------------------
(* The thread: do_thread(), and handle_enter() under rl_callback_read_char()*)

console_start_thread ==
  /\ main = "idle" /\ reader = "none" /\ reader' = "wait"
  /\ UNCHANGED <<main, queue_mutex, rl_mutex, queueVars, line, current, typed, handled>>

\* A line is there; with readline the thread holds rl_mutex while it reads.
ReadLine ==
  /\ reader = "wait" /\ typed < MaxLines /\ typed' = typed + 1
  /\ readline => rl_mutex = "none"
  /\ rl_mutex' = IF readline THEN "reader" ELSE rl_mutex
  /\ reader' = "lock"
  /\ UNCHANGED <<main, queue_mutex, queueVars, line, current, handled>>

LockQueue ==
  /\ reader = "lock" /\ queue_mutex = "none" /\ queue_mutex' = "reader"
  /\ reader' = "push"
  /\ UNCHANGED <<main, rl_mutex, queueVars, line, current, typed, handled>>

\* Mutant: the line is put in front of the queue.
PushFirst ==
  /\ reader = "push" /\ queue' = <<typed>> \o queue
  /\ IF Len(queue) = room THEN room' = 2 * room /\ array' = array + 1
     ELSE UNCHANGED <<room, array>>
  /\ reader' = "unlock"
  /\ UNCHANGED <<main, queue_mutex, rl_mutex, line, current, typed, handled>>

\* utarray_push_back(): the array grows into another block when it is full.
PushLine ==
  /\ reader = "push" /\ queue' = Append(queue, typed)
  /\ IF Len(queue) = room THEN room' = 2 * room /\ array' = array + 1
     ELSE UNCHANGED <<room, array>>
  /\ reader' = "unlock"
  /\ UNCHANGED <<main, queue_mutex, rl_mutex, line, current, typed, handled>>

UnlockQueue ==
  /\ reader = "unlock" /\ queue_mutex' = "none"
  /\ reader' = IF readline THEN "release" ELSE "wait"
  /\ UNCHANGED <<main, rl_mutex, queueVars, line, current, typed, handled>>

\* handle_enter() has returned to rl_callback_read_char(), and that to do_thread().
ReleaseReadline ==
  /\ reader = "release" /\ rl_mutex' = "none" /\ reader' = "wait"
  /\ UNCHANGED <<main, queue_mutex, queueVars, line, current, typed, handled>>

-----------------------------------------------------------------------------
(* console_command_handle()                                                 *)

\* The first locked section; without a line the call returns.
PeekLine ==
  /\ main = "idle" /\ queue_mutex = "none"
  /\ \/ queue = <<>> /\ UNCHANGED <<main, line>>
     \/ queue # <<>> /\ main' = "parse" /\ line' = array
  /\ UNCHANGED <<reader, queue_mutex, rl_mutex, queueVars, current, typed, handled>>

\* The command is looked up through the pointer.  If the array has moved, what is
\* there is anybody's guess: the line as it was, or something else (0).
LookUp ==
  /\ main = "parse" /\ main' = "call"
  /\ current' \in {queue[1]} \cup (IF line = array THEN {} ELSE {0})
  /\ UNCHANGED <<reader, queue_mutex, rl_mutex, queueVars, line, typed, handled>>

\* The handler; what it logs goes through console_print(), which takes rl_mutex.
Handle ==
  /\ main = "call" /\ (readline => rl_mutex = "none")
  /\ handled' = Append(handled, current) /\ main' = "erase"
  /\ UNCHANGED <<reader, queue_mutex, rl_mutex, queueVars, line, current, typed>>

EraseLine ==
  /\ main = "erase" /\ queue_mutex = "none"
  /\ queue' = Tail(queue) /\ main' = "idle" /\ line' = 0 /\ current' = 0
  /\ UNCHANGED <<reader, queue_mutex, rl_mutex, room, array, typed, handled>>

-----------------------------------------------------------------------------
(* Deinitialisation                                                         *)

\* pthread_cancel() and pthread_join(): the thread stops where it is and keeps
\* the mutexes that it holds.  The commands and the queue are freed.
Cancel ==
  /\ main = "idle" /\ main' = "leave"
  /\ reader' = IF reader = "none" THEN "none" ELSE "dead"
  /\ queue' = <<>> /\ UNCHANGED <<queue_mutex, rl_mutex, room, array, line, current, typed, handled>>

\* The rest takes rl_mutex to restore the terminal.
Leave ==
  /\ main = "leave" /\ (readline => rl_mutex = "none") /\ main' = "gone"
  /\ UNCHANGED <<reader, queue_mutex, rl_mutex, queueVars, line, current, typed, handled>>

ConNext ==
  /\ UNCHANGED readline
  /\ \/ console_start_thread \/ ReadLine \/ LockQueue \/ PushLine \/ UnlockQueue
     \/ ReleaseReadline
     \/ PeekLine \/ LookUp \/ Handle \/ EraseLine \/ Cancel \/ Leave

ConSpec == ConInit /\ [][ConNext]_conVars

-----------------------------------------------------------------------------

\* Lines are handled in the order in which they were typed, each one once, and the
\* element that is erased is the one that was handled, although the queue is
\* unlocked in between; where the array moved in between, a handled line may be
\* anything (0), see LineIsLive.
LinesHandledInOrder ==
  /\ \A i \in 1..Len(handled) : handled[i] \in {i, 0}
  /\ main \in {"parse", "call"} => queue # <<>> /\ queue[1] = Len(handled) + 1
  /\ main = "erase" => queue # <<>> /\ queue[1] = Len(handled)

\* "Mutex protecting command command process queue." (console.c:66).  Not so: the
\* pointer into the array is used after the mutex was released, and a push moves
\* the array.
LineIsLive == main = "parse" => line = array

\* Deinitialisation gets to its end.  Not so with readline: a thread that is
\* cancelled in handle_enter() keeps rl_mutex for ever.
DeinitCanEnd == main = "leave" => (readline => rl_mutex # "reader")
=============================================================================
