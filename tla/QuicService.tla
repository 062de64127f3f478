----------------------------- MODULE QuicService -----------------------------
(***************************************************************************)
(* One accepted connection and the event loop of the application that owns *)
(* it: how long to wait, when to let the QUIC engine work, and when to     *)
(* read and write (socket.c, socket_quic.c).  The loop waits for the       *)
(* handle or for the time socket_quic_timeout() names, calls               *)
(* socket_quic_service() and, if that says so, writes what it has and      *)
(* reads until a read finds nothing.  It drops a socket whose read or      *)
(* write failed.                                                           *)
(*                                                                         *)
(* Times are what remains of them, and the work of the loop takes none.    *)
(* Connections of one listener share its handle, and the engine works for  *)
(* all of them whenever it is called for one.                              *)
(***************************************************************************)
EXTENDS Naturals, Sequences, SequencesExt

CONSTANTS IdleTimeout,  \* SOCKET_QUIC_IDLE_TIMEOUT_MS
          Maximum,      \* how long the loop would wait if nothing is due
          NEVER,        \* UINT64_MAX, more than any other time
          MaxQueued     \* bound: datagrams in the queue, data in the stream

VARIABLES transport,    \* "QUIC" or "TCP"
          loop,         \* where the application is
          inbox,        \* what the kernel has received and nobody has read
          engine,       \* the connection as OpenSSL has it
          final,        \* sc->connection_id_final
          game_stream,  \* there is one
          out,          \* the application has something to write
          deadline,     \* sc->quic_event_deadline_ms: 0 if due, and at first
          timeout       \* what remains of the timeout of select()

serviceVars ==
  <<transport, loop, inbox, engine, final, game_stream, out, deadline, timeout>>

ServiceInit ==
  /\ transport \in {"QUIC", "TCP"} /\ loop = "listen" /\ inbox = <<>>
  /\ engine = [state |-> "handshake", incoming |-> FALSE, buffered |-> 0,
               idle |-> IdleTimeout]
  /\ final = FALSE /\ game_stream = FALSE /\ out = FALSE
  /\ deadline = 0 /\ timeout = 0

-----------------------------------------------------------------------------
(* The peer, the engine and the clock                                       *)

\* A datagram (or segment) arrives.  One that is lost is sent again, or not.
Arrives(d) ==
  /\ Len(inbox) < MaxQueued /\ inbox' = Append(inbox, d)
  /\ UNCHANGED <<transport, loop, engine, final, game_stream, out, deadline, timeout>>

\* What the engine makes of a datagram: the first data open the game stream.
Take(e, d) ==
  CASE e.state = "closed" -> e
    [] e.state # "closed" /\ d = "close" -> [e EXCEPT !.state = "closed"]
    [] e.state # "closed" /\ d = "handshake" ->
         [e EXCEPT !.state = "open", !.idle = IdleTimeout]
    [] e.state # "closed" /\ d = "data" ->
         IF e.state # "open" THEN e
         ELSE [e EXCEPT !.idle = IdleTimeout, !.incoming = @ \/ ~game_stream,
                        !.buffered = IF @ < MaxQueued THEN @ + 1 ELSE @]

\* SSL_handle_events(): everything that has arrived, then the timer.
Handled ==
  LET e == FoldLeft(Take, engine, inbox)
  IN  IF e.idle = 0 THEN [e EXCEPT !.state = "closed"] ELSE e

\* The engine works for another connection of the same handle, whose turn is before
\* or after this one's.
OtherIsServed ==
  /\ transport = "QUIC" /\ loop \in {"service", "others"} /\ inbox # <<>>
  /\ engine' = Handled /\ inbox' = <<>>
  /\ UNCHANGED <<transport, loop, final, game_stream, out, deadline, timeout>>

\* Time passes while the loop waits (what other connections cost included).
Less(t) == IF t \in {0, NEVER} THEN t ELSE t - 1
Tick ==
  /\ loop = "wait" /\ timeout # 0
  /\ engine' = [engine EXCEPT !.idle = Less(@)]
  /\ deadline' = Less(deadline) /\ timeout' = Less(timeout)
  /\ UNCHANGED <<transport, loop, inbox, final, game_stream, out>>

\* The application has something to send to a peer that it has heard of.
Produces ==
  /\ loop \in {"others", "wait"} /\ (game_stream \/ transport = "TCP") /\ out' = TRUE
  /\ UNCHANGED <<transport, loop, inbox, engine, final, game_stream, deadline, timeout>>

-----------------------------------------------------------------------------
(* Waiting                                                                  *)

\* socket_quic_timeout(), which knows of the timer only.
socket_quic_timeout == IF transport = "QUIC" /\ deadline < Maximum THEN deadline ELSE Maximum

\* socket_accept(): a socket whose deadline is 0, or none.
socket_accept ==
  /\ loop = "listen" /\ inbox # <<>>
  /\ loop' \in {"others", "dropped"}
  /\ UNCHANGED <<transport, inbox, engine, final, game_stream, out, deadline, timeout>>

\* Every connection had its turn: socket_wait() begins.
BeginWait ==
  /\ loop = "others" /\ loop' = "wait" /\ timeout' = socket_quic_timeout
  /\ UNCHANGED <<transport, inbox, engine, final, game_stream, out, deadline>>

\* socket_wait() returns: there is something to read or write, or time is up.
socket_wait ==
  /\ loop = "wait" /\ (inbox # <<>> \/ out \/ timeout = 0)
  /\ loop' = "service"
  /\ UNCHANGED <<transport, inbox, engine, final, game_stream, out, deadline, timeout>>

-----------------------------------------------------------------------------
(* Letting the engine work                                                  *)

HasPending(e) == e.buffered > 0 \/ e.incoming
TimerDue == deadline = 0

\* Mutant: the loop has its pass only if there is something to transfer.
PassForDataOnly(e) == inbox # <<>> \/ HasPending(engine) \/ out \/ HasPending(e)

\* The result of socket_quic_service(), after the engine has become e.
PassWanted(e) ==
  inbox # <<>> \/ HasPending(engine) \/ out \/ TimerDue \/ HasPending(e)

\* socket_quic_schedule_event(): when the engine wants to work again.
socket_quic_schedule_event(e) == IF e.state = "closed" THEN NEVER ELSE e.idle

\* socket_quic_service() when something calls for it...
ServiceWorks ==
  /\ loop = "service" /\ transport = "QUIC"
  /\ inbox # <<>> \/ HasPending(engine) \/ out \/ TimerDue
  /\ engine' = Handled /\ inbox' = <<>> /\ deadline' = socket_quic_schedule_event(Handled)
  /\ loop' = IF PassWanted(Handled) THEN "io" ELSE "others"
  /\ UNCHANGED <<transport, final, game_stream, out, timeout>>

\* ... and when nothing does...
ServiceIdle ==
  /\ loop = "service" /\ transport = "QUIC"
  /\ ~(inbox # <<>> \/ HasPending(engine) \/ out \/ TimerDue)
  /\ loop' = "others"
  /\ UNCHANGED <<transport, inbox, engine, final, game_stream, out, deadline, timeout>>

\* ... and for a socket of another kind.
ServiceOther ==
  /\ loop = "service" /\ transport # "QUIC"
  /\ loop' = IF inbox # <<>> \/ out THEN "io" ELSE "others"
  /\ UNCHANGED <<transport, inbox, engine, final, game_stream, out, deadline, timeout>>

-----------------------------------------------------------------------------
(* Reading and writing                                                      *)

\* socket_quic_connection_prepare() of a server: the handshake, then the stream.
socket_quic_connection_prepare(e) ==
  LET done == final \/ e.state = "open"
      has == game_stream \/ (done /\ e.incoming)
  IN  [final |-> done, game_stream |-> has,
       result |-> CASE ~done /\ e.state = "closed" -> "fatal"
                    [] ~done /\ e.state # "closed" -> "more"
                    [] done -> IF has THEN "ready" ELSE "more"]

\* The result of reading or writing: socket_stream_ssl_result().
Verdict(e) ==
  LET p == socket_quic_connection_prepare(e)
  IN  IF p.result = "ready" /\ e.state = "closed" THEN "fatal" ELSE p.result

\* What every read and write does first, the engine having become e.
Prepare(e) ==
  LET p == socket_quic_connection_prepare(e)
  IN  /\ final' = p.final /\ game_stream' = p.game_stream /\ inbox' = <<>>
      /\ engine' = [e EXCEPT !.incoming = @ /\ ~p.game_stream,
                             !.buffered = IF loop = "read" /\ Verdict(e) = "ready" /\ @ > 0
                                          THEN @ - 1 ELSE @]

\* socket_write() of the pass; there is room for what is written.
socket_write ==
  /\ loop = "io" /\ out /\ transport = "QUIC"
  /\ Prepare(Handled)
  /\ IF Verdict(Handled) = "fatal" THEN loop' = "dropped" /\ UNCHANGED out
     ELSE loop' = "read" /\ out' = (Verdict(Handled) = "more")
  /\ UNCHANGED <<transport, deadline, timeout>>

NothingToWrite ==
  /\ loop = "io" /\ ~out /\ loop' = "read"
  /\ UNCHANGED <<transport, inbox, engine, final, game_stream, out, deadline, timeout>>

\* socket_read() until it finds nothing, or fails.
socket_read ==
  /\ loop = "read" /\ transport = "QUIC"
  /\ Prepare(Handled)
  /\ loop' = CASE Verdict(Handled) = "fatal" -> "dropped"
               [] Verdict(Handled) = "more" -> "others"
               [] Verdict(Handled) = "ready" ->
                    IF Handled.buffered = 0 THEN "others" ELSE "read"
  /\ UNCHANGED <<transport, out, deadline, timeout>>

\* The same with send() and recv().  A peer that is gone may refuse what is sent.
TcpWrite ==
  /\ loop = "io" /\ out /\ transport = "TCP"
  /\ \/ loop' = "read" /\ out' = FALSE
     \/ "close" \in ToSet(inbox) /\ loop' = "dropped" /\ UNCHANGED out
  /\ UNCHANGED <<transport, inbox, engine, final, game_stream, deadline, timeout>>

TcpRead ==
  /\ loop = "read" /\ transport = "TCP"
  /\ IF inbox = <<>> THEN loop' = "others" /\ UNCHANGED inbox
     ELSE /\ inbox' = Tail(inbox)
          /\ loop' = IF Head(inbox) = "close" THEN "dropped" ELSE "read"
  /\ UNCHANGED <<transport, engine, final, game_stream, out, deadline, timeout>>

LoopStep ==
  \/ socket_accept \/ BeginWait \/ socket_wait \/ ServiceWorks \/ ServiceIdle
  \/ ServiceOther \/ socket_write \/ NothingToWrite \/ socket_read \/ TcpWrite \/ TcpRead

ServiceNext ==
  \/ LoopStep \/ Tick \/ OtherIsServed \/ Produces
  \/ \E d \in {"handshake", "data", "close"} : Arrives(d)

\* The loop goes on, and so does the clock, however much arrives.
ServiceFairness == WF_serviceVars(LoopStep) /\ SF_serviceVars(Tick)

-----------------------------------------------------------------------------

Served == loop \notin {"listen", "dropped"}

\* The loop needs no timeout of its own.  What a peer has sent is read, and what the
\* application has is sent, unless the connection ends first.  A connection that
\* ended, by a timer that no datagram announces or while another one was served, is
\* reported: "Give the caller one I/O pass so SSL_read_ex() observes and reports that
\* closure immediately" (socket_quic.c:1032).  Before there is a game stream nothing
\* reports it: see README.
NothingIsMissed ==
  /\ Served /\ engine.buffered > 0 ~> loop = "read" \/ engine.state = "closed"
  /\ Served /\ out ~> ~out \/ loop = "dropped"
  /\ Served /\ game_stream /\ engine.state = "closed" ~> loop = "dropped"
  /\ Served /\ game_stream /\ engine.idle = 0 ~> loop = "dropped" \/ engine.idle > 0
=============================================================================
