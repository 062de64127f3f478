----------------------------- MODULE MCQuicLive -----------------------------
(***************************************************************************)
(* What must eventually happen on one QUIC connection: to its streams, and *)
(* to the event loop that serves it.  A behaviour exercises one of the two *)
(* (`part'); in the other the connection is closed, or not accepted yet.   *)
(***************************************************************************)
EXTENDS QuicStreams

CONSTANTS IdleTimeout, Maximum, NEVER, MaxQueued

VARIABLES part,
          transport, loop, inbox, engine, final, game_stream, out, deadline, timeout

V == INSTANCE QuicService

loopVars == <<transport, loop, inbox, engine, final, game_stream, out, deadline, timeout>>
liveVars == <<part, vars, loopVars>>

LiveInit ==
  /\ part \in {"streams", "service"}
  /\ V!ServiceInit /\ (part = "streams" => transport = "QUIC")
  /\ IF part = "streams" THEN Init
     ELSE /\ closed = TRUE
          /\ opened = [s \in Stream |-> NONE] /\ written = [s \in Stream |-> 0]
          /\ broken = {} /\ cgame = NONE /\ pc = "idle" /\ want = NONE /\ at = 1
          /\ pending = <<>> /\ count = 0
          /\ kind = [s \in Stream |-> NONE] /\ preface_pos = [s \in Stream |-> 0]
          /\ expired = {} /\ game = NONE /\ assets = {} /\ gone = {}

Streams == part = "streams" /\ Next /\ UNCHANGED loopVars
Service == part = "service" /\ V!ServiceNext /\ UNCHANGED vars

LiveSpec ==
  /\ LiveInit /\ [][(Streams \/ Service) /\ UNCHANGED part]_liveVars
  /\ Fairness /\ V!ServiceFairness

\* The event loop misses nothing (socket_quic_service(), socket_quic_timeout()).
NothingIsMissed == V!NothingIsMissed
=============================================================================
