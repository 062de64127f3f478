----------------------------- MODULE QuicStreams -----------------------------
(***************************************************************************)
(* The typed streams of one QUIC connection (socket.c): the client opens a *)
(* game stream and asset streams, each of which begins with a preface that *)
(* names its kind, and the server sorts incoming streams by that preface.  *)
(* Streams that wait for their preface or for their consumer are pending;  *)
(* there may be SOCKET_QUIC_PENDING_STREAM_MAX of them.                    *)
(*                                                                         *)
(* A preface has `Size' units and its content is the kind it names, or     *)
(* "BAD" for one that socket_stream_preface_decode() refuses.  Streams are *)
(* independent, and what is delivered late looks to the server like what   *)
(* was written late: a unit that is written can be read.                   *)
(* Each side is one thread; a call that polls keeps its place in `pc'.     *)
(***************************************************************************)
EXTENDS Integers, Sequences, SequencesExt

CONSTANTS Stream, NONE,
          Size,        \* SOCKET_STREAM_PREFACE_SIZE
          PendingMax,  \* SOCKET_QUIC_PENDING_STREAM_MAX
          Peer         \* other things the peer may do: "bad", "dup", "reset"

ASSUME StreamsAssumption ==
  /\ NONE \notin Stream \cup {"GAME", "ASSET", "BAD"}
  /\ Size \in Nat \ {0} /\ PendingMax \in Nat \ {0}

VARIABLES
  opened,      \* client: the kind of each stream, or NONE
  written,     \* client: stream->preface_pos, which the server can read up to
  broken,      \* streams that the client reset
  cgame,       \* client: sc->game_stream
  pc, want,    \* server: place in socket_stream_accept(), and its argument
  at,          \* server: the stream that the loop over the pending ones is at
  pending, count,              \* sc->pending_streams, pending_stream_count
  kind, preface_pos, expired,  \* fields of the server's streams
  game,                        \* sc->game_stream
  assets,      \* streams that the server's application holds
  gone,        \* streams that the server rejected or destroyed
  closed       \* socket_close() was called

clientVars == <<opened, written, broken, cgame>>
fieldVars == <<kind, preface_pos, expired>>
listVars == <<pending, count>>
vars == <<clientVars, pc, want, at, listVars, fieldVars, game, assets,
          gone, closed>>

Init ==
  /\ opened = [s \in Stream |-> NONE] /\ written = [s \in Stream |-> 0]
  /\ broken = {} /\ cgame = NONE
  /\ pc = "idle" /\ want = NONE /\ at = 1
  /\ pending = <<>> /\ count = 0
  /\ kind = [s \in Stream |-> NONE] /\ preface_pos = [s \in Stream |-> 0]
  /\ expired = {} /\ game = NONE /\ assets = {} /\ gone = {} /\ closed = FALSE

-----------------------------------------------------------------------------
(* The client                                                               *)

socket_stream_open(s, k) ==
  /\ opened[s] = NONE
  /\ opened' = [opened EXCEPT ![s] = k]

\* socket_quic_connection_prepare(): the first read or write opens the game
\* stream.
ClientPrepare(s) ==
  /\ cgame = NONE
  /\ socket_stream_open(s, "GAME")
  /\ cgame' = s
  /\ UNCHANGED <<written, broken, pc, want, at, listVars, fieldVars, game,
                 assets, gone, closed>>

\* The client asks for an asset; or, if it is not this code, sends something else.
ClientOpens(s, k) ==
  /\ \/ k = "ASSET"
     \/ k = "BAD" /\ "bad" \in Peer
     \/ k = "GAME" /\ "dup" \in Peer /\ cgame # NONE
  /\ socket_stream_open(s, k)
  /\ UNCHANGED <<written, broken, cgame, pc, want, at, listVars, fieldVars,
                 game, assets, gone, closed>>

\* socket_stream_preface_write(), at the beginning of every read and write, until
\* the server resets the stream.
socket_stream_preface_write(s) ==
  /\ opened[s] # NONE /\ s \notin broken \cup gone /\ written[s] < Size
  /\ \E n \in 1..(Size - written[s]) :
       written' = [written EXCEPT ![s] = @ + n]
  /\ UNCHANGED <<opened, broken, cgame, pc, want, at, listVars, fieldVars,
                 game, assets, gone, closed>>

\* socket_stream_reset(), or the connection loses the stream: what was not read
\* yet is lost.
ClientResets(s) ==
  /\ "reset" \in Peer /\ opened[s] # NONE /\ s \notin broken \cup gone /\ s # cgame
  /\ broken' = broken \cup {s}
  /\ UNCHANGED <<opened, written, cgame, pc, want, at, listVars, fieldVars,
                 game, assets, gone, closed>>

-----------------------------------------------------------------------------
(* The server: socket_stream_accept()                                       *)

\* socket_stream_preface_read(): the position after it, the kind it finds.
\* A read that fails counts as a whole preface that cannot be decoded.
ReadPosition(s) == IF s \in broken THEN Size ELSE written[s]
ReadKind(s) ==
  IF s \notin broken /\ written[s] = Size /\ opened[s] # "BAD"
  THEN opened[s] ELSE NONE

\* socket_quic_connection_prepare() of a read or write, without a game stream.
ServerPrepare ==
  /\ pc = "idle" /\ ~closed /\ game = NONE
  /\ pc' = "scan" /\ want' = "GAME"
  /\ UNCHANGED <<clientVars, at, listVars, fieldVars, game, assets, gone,
                 closed>>

ServerAsks ==
  /\ pc = "idle" /\ ~closed
  /\ pc' = "scan" /\ want' = "ASSET"
  /\ UNCHANGED <<clientVars, at, listVars, fieldVars, game, assets, gone,
                 closed>>

\* Does the loop over the pending streams read from s?
Unread(s) == kind[s] = NONE /\ preface_pos[s] < Size

\* Mutant: a stream may take its time.
RejectsBadOnly(s) ==
  /\ Unread(s) /\ ReadPosition(s) = Size
  /\ ReadKind(s) = NONE \/ (ReadKind(s) = "GAME" /\ game # NONE)

\* ... and does it then reject it?
Rejects(s) ==
  /\ Unread(s)
  /\ \/ /\ ReadPosition(s) = Size
        /\ ReadKind(s) = NONE \/ (ReadKind(s) = "GAME" /\ game # NONE)
     \/ ReadPosition(s) < Size /\ s \in expired

\* The first loop of socket_stream_poll_incoming() is at a stream.  One that is
\* rejected is unlinked, and the next takes its place.
PollStream ==
  /\ pc = "scan" /\ at <= Len(pending)
  /\ LET s == pending[at]
     IN  /\ IF Rejects(s)
            THEN /\ pending' = RemoveAt(pending, at) /\ count' = count - 1
                 /\ gone' = gone \cup {s} /\ UNCHANGED at
            ELSE at' = at + 1 /\ UNCHANGED <<listVars, gone>>
         /\ IF Unread(s)
            THEN /\ preface_pos' = [preface_pos EXCEPT ![s] = ReadPosition(s)]
                 /\ kind' = [kind EXCEPT ![s] = ReadKind(s)]
                 /\ expired' = IF Rejects(s) \/ ReadPosition(s) = Size
                               THEN expired \ {s} ELSE expired
            ELSE UNCHANGED fieldVars
  /\ UNCHANGED <<clientVars, pc, want, game, assets, closed>>

PollEnds ==
  /\ pc = "scan" /\ at > Len(pending)
  /\ pc' = "accept" /\ at' = 1
  /\ UNCHANGED <<clientVars, want, listVars, fieldVars, game, assets, gone,
                 closed>>

\* SSL_accept_stream() can return s.
Incoming(s) ==
  /\ written[s] > 0 \/ s \in broken
  /\ s \notin Range(pending) \cup assets \cup gone \cup {game}

\* The second loop takes one stream in.
AcceptStream(s) ==
  /\ pc = "accept" /\ count < PendingMax /\ Incoming(s)
  /\ preface_pos' = [preface_pos EXCEPT ![s] = ReadPosition(s)]
  /\ kind' = [kind EXCEPT ![s] = ReadKind(s)]
  /\ IF ReadPosition(s) = Size /\ ReadKind(s) = NONE
     THEN gone' = gone \cup {s} /\ UNCHANGED listVars
     ELSE /\ pending' = <<s>> \o pending /\ count' = count + 1
          /\ UNCHANGED gone
  /\ UNCHANGED <<clientVars, pc, want, at, expired, game, assets, closed>>

AcceptEnds ==
  /\ pc = "accept" /\ (count >= PendingMax \/ \A s \in Stream : ~Incoming(s))
  /\ pc' = "take"
  /\ UNCHANGED <<clientVars, want, at, listVars, fieldVars, game, assets,
                 gone, closed>>

Fits(s) == kind[s] = want /\ preface_pos[s] = Size

\* Mutant: the stream stays in the list.
TakeKeepsLink(i) == UNCHANGED pending

\* The i-th stream of the list is handed out.
TakeUnlinks(i) == pending' = RemoveAt(pending, i)

\* The first stream of the list that fits goes to the caller.
TakeStream(i) ==
  /\ pc = "take"
  /\ Fits(pending[i]) /\ \A j \in 1..(i - 1) : ~Fits(pending[j])
  /\ pc' = "idle" /\ want' = NONE
  /\ TakeUnlinks(i) /\ count' = count - 1
  /\ game' = IF want = "GAME" THEN pending[i] ELSE game
  /\ assets' = IF want = "GAME" THEN assets ELSE assets \cup {pending[i]}
  /\ UNCHANGED <<clientVars, at, fieldVars, gone, closed>>

NothingFits ==
  /\ pc = "take" /\ \A i \in 1..Len(pending) : ~Fits(pending[i])
  /\ pc' = "idle" /\ want' = NONE
  /\ UNCHANGED <<clientVars, at, listVars, fieldVars, game, assets, gone, closed>>

\* Five seconds have passed since the stream was taken in; this matters only
\* while its preface is not complete, and the loop over the pending streams
\* reads the clock once, before it begins.
Expire(s) ==
  /\ pc # "scan" /\ s \in Range(pending) /\ Unread(s) /\ s \notin expired
  /\ expired' = expired \cup {s}
  /\ UNCHANGED <<clientVars, pc, want, at, listVars, kind, preface_pos,
                 game, assets, gone, closed>>

\* The application is done with an asset.
socket_stream_destroy(s) ==
  /\ pc = "idle" /\ s \in assets
  /\ assets' = assets \ {s} /\ gone' = gone \cup {s}
  /\ UNCHANGED <<clientVars, pc, want, at, listVars, fieldVars, game,
                 closed>>

\* socket_close(): the game stream and the pending ones are destroyed; the
\* application has destroyed its own, which refer to the connection, before.
socket_close ==
  /\ pc = "idle" /\ ~closed /\ assets = {}
  /\ closed' = TRUE
  /\ game' = NONE /\ pending' = <<>> /\ count' = count - Len(pending)
  /\ gone' = gone \cup Range(pending) \cup ({game} \ {NONE})
  /\ UNCHANGED <<clientVars, pc, want, at, fieldVars, assets>>

Over == closed /\ UNCHANGED vars

ServerCall ==
  \/ PollStream \/ PollEnds
  \/ (\E s \in Stream : AcceptStream(s)) \/ AcceptEnds
  \/ (\E i \in 1..Len(pending) : TakeStream(i)) \/ NothingFits

Step ==
  \/ \E s \in Stream :
       \/ ClientPrepare(s) \/ socket_stream_preface_write(s) \/ ClientResets(s)
       \/ \E k \in {"GAME", "ASSET", "BAD"} : ClientOpens(s, k)
       \/ Expire(s) \/ socket_stream_destroy(s)
  \/ ServerCall \/ ServerPrepare \/ ServerAsks \/ socket_close

Next == (~closed /\ Step) \/ Over

Spec == Init /\ [][Next]_vars

\* The server's main loop reads from the game stream and asks for assets again and
\* again, the client's reads from its game stream, what was sent arrives, and the
\* clock goes on (a stream expires once, so it is enough that some stream does).
\* The client need not go on with an asset stream it opened.
Fairness ==
  /\ WF_vars(~closed /\ ServerCall)
  /\ SF_vars(ServerPrepare) /\ SF_vars(ServerAsks)
  /\ WF_vars(~closed /\ \E s \in Stream : s = cgame /\ socket_stream_preface_write(s))
  /\ SF_vars(~closed /\ \E s \in Stream : Expire(s))

FairSpec == Spec /\ Fairness

-----------------------------------------------------------------------------
(* Properties                                                               *)

\* Fields keep their types, positions stay inside the preface buffer, and there
\* are never more pending streams than SOCKET_QUIC_PENDING_STREAM_MAX.
TypeOK ==
  /\ opened \in [Stream -> {NONE, "GAME", "ASSET", "BAD"}]
  /\ written \in [Stream -> 0..Size]
  /\ pc \in {"idle", "scan", "accept", "take"}
  /\ want \in {NONE, "GAME", "ASSET"}
  /\ pending \in Seq(Stream) /\ count \in 0..PendingMax
  /\ kind \in [Stream -> {NONE, "GAME", "ASSET"}]
  /\ preface_pos \in [Stream -> 0..Size]
  /\ expired \in SUBSET Stream /\ game \in Stream \cup {NONE}
  /\ assets \in SUBSET Stream /\ gone \in SUBSET Stream /\ closed \in BOOLEAN

\* A stream has one owner: the pending list, the connection as its game stream,
\* or the application; a stream that was freed has none.  The counter is the
\* length of the list: socket_stream_unlink() asserts that it is not 0.
OneOwner ==
  /\ count = Len(pending) /\ IsInjective(pending)
  /\ Range(pending) \cap (assets \cup gone \cup {game}) = {}
  /\ assets \cap (gone \cup {game}) = {} /\ game \notin gone

\* No consumer gets a stream of another kind, or one whose preface was not read
\* to its end.
StreamsAreTyped ==
  /\ game # NONE => opened[game] = "GAME" /\ preface_pos[game] = Size
  /\ \A s \in assets : opened[s] = "ASSET" /\ preface_pos[s] = Size

\* A pending stream has a kind exactly when its preface is complete: one whose
\* preface was complete and wrong has been rejected by the poll that read it.  A
\* duplicate of the game stream has a kind, and may stay (see DuplicateStays).
PendingIsKnown ==
  \A s \in Range(pending) :
    IF preface_pos[s] = Size THEN kind[s] # NONE ELSE kind[s] = NONE

\* The server's streams are in order, however prefaces, resets, timeouts and calls
\* interleave: one owner each, of the right kind, and none pending whose preface was
\* read and found wrong (socket_stream_poll_incoming(), socket_stream_accept() and
\* socket_stream_destroy()).
StreamsAreSound == OneOwner /\ StreamsAreTyped /\ PendingIsKnown

\* A second game stream that was complete when it was taken in stays for ever.
DuplicateStays ==
  game # NONE /\ \E d \in Range(pending) : kind[d] = "GAME"

\* A request for an asset reaches the server's application, or the server
\* rejects it because it was reset, whatever other streams of the connection do:
\* a slot is not occupied for ever, except by a duplicate of the game stream.  The
\* client's game stream becomes the server's, unless the server gave up waiting for
\* its preface (socket_stream_poll_incoming(), socket_quic_connection_prepare()).
StreamsAreServed ==
  /\ \A s \in Stream :
       written[s] = Size /\ opened[s] = "ASSET"
         ~> s \in assets \cup gone \/ closed \/ DuplicateStays
  /\ cgame # NONE ~> game # NONE \/ cgame \in gone \/ closed
=============================================================================
