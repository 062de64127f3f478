------------------------------ MODULE Rendezvous ------------------------------
(***************************************************************************)
(* socket_rendezvous_client() of socket_direct.c: a client that wants a    *)
(* direct QUIC route learns its own address (STUN, or its socket), sends   *)
(* it with a random ticket to the rendezvous service, and then, for at     *)
(* most `Deadline', receives candidate addresses of the server over a      *)
(* WebSocket while it punches paced UDP probes to them and watches for     *)
(* probes of the server.  A probe that arrives confirms its source as a    *)
(* peer-reflexive candidate.                                               *)
(*                                                                         *)
(* The client is one thread, with its place in `pc'.  Around it are the    *)
(* clock, the rendezvous service and the network: the WebSocket is a       *)
(* queue of messages in order, each of so many parts; the UDP socket is a  *)
(* queue of datagrams, any of which may come from anywhere.  They act when *)
(* the client is about to look at them: what happens earlier cannot be     *)
(* told from what happens then.                                            *)
(* An endpoint (host and port) is an element of `Address'.                 *)
(***************************************************************************)
EXTENDS Integers, Sequences, FiniteSets

CONSTANTS Address,
          NoAddress,          \* a host or port that the parsers refuse
          Capacity,           \* of the caller's array of candidates
          MaxJobs,            \* SOCKET_DIRECT_MAX_CANDIDATES
          PunchCount,         \* SOCKET_PUNCH_COUNT
          Interval,           \* SOCKET_PUNCH_INTERVAL_MS
          DrainMax,           \* SOCKET_PUNCH_DRAIN_MAX
          Deadline,           \* 5000 ms from the start of the loop
          BufferParts,        \* parts of a message that response[] holds
          LanAddress,         \* endpoints that are announced as "lan", too
          MaxQueue,           \* bound on datagrams and on messages in flight
          MaxTime             \* bound on the clock

ASSUME RendezvousAssumption ==
  /\ NoAddress \notin Address /\ LanAddress \subseteq Address
  /\ {Capacity, MaxJobs, PunchCount, DrainMax, BufferParts} \subseteq Nat \ {0}
  /\ {Interval, Deadline, MaxTime} \subseteq Nat /\ Deadline <= MaxTime

VARIABLES
  pc,
  now,          \* datetime_monotonic_ms()
  udp,          \* datagrams at the socket: [what, from]
  ws,           \* messages at the WebSocket; its head may be read in part
  talking,      \* the service still sends
  used,         \* parts of the message in response[]
  candidates,   \* sequence of [addr, kind]
  jobs,         \* punch_jobs[]: [active, addr, attempts, next]
  received,     \* in the present socket_udp_punch_collect()
  complete, result,
  \* history of the call
  announced,    \* endpoints named in a candidate with the client's ticket
  probed,       \* endpoints that a probe was sent to
  dropped       \* endpoints that found no free job

envVars == <<udp, ws, talking>>
histVars == <<announced, probed, dropped>>
vars == <<pc, now, envVars, used, candidates, jobs, received, complete,
          result, histVars>>

PRFLX == "prflx"
Idle == [active |-> FALSE, addr |-> NoAddress, attempts |-> 0, next |-> 0]

Init ==
  /\ pc = "stun" /\ now = 0 /\ udp = <<>> /\ ws = <<>> /\ talking = TRUE
  /\ used = 0 /\ candidates = <<>> /\ jobs = [j \in 1..MaxJobs |-> Idle]
  /\ received = 0 /\ complete = FALSE /\ result = 0
  /\ announced = {} /\ probed = {} /\ dropped = {}

-----------------------------------------------------------------------------
(* The surroundings                                                         *)

Tick ==
  /\ pc \in {"update", "last_update"}
  /\ now < MaxTime /\ now' = now + 1
  /\ UNCHANGED <<pc, envVars, used, candidates, jobs, received, complete,
                 result, histVars>>

\* A datagram arrives: a probe of the server, the answer of the STUN service,
\* or something else, such as a late answer or the packet of a QUIC peer.
Arrive ==
  /\ pc \in {"stun", "collect", "last_collect"} /\ Len(udp) < MaxQueue
  /\ \E d \in [what : {"probe"}, from : Address]
             \cup [what : {IF pc = "stun" THEN "stun" ELSE "other"},
                   from : {NoAddress}] :
       udp' = Append(udp, d)
  /\ UNCHANGED <<pc, now, ws, talking, used, candidates, jobs, received,
                 complete, result, histVars>>

\* Candidates of this exchange and of another one, refused candidates, the
\* end of the exchange in one piece or two, a message that is too long for
\* the buffer, and the end of the connection.
Text(type, a, k, ticket, parts) ==
  [type |-> type, addr |-> a, kind |-> k, ticket |-> ticket, parts |-> parts]
Message ==
  {Text("server_candidate", a, "srflx", "own", 1) : a \in Address}
  \cup {Text("server_candidate", a, "lan", "own", 1) : a \in LanAddress}
  \cup {Text("server_candidate", a, "srflx", "foreign", 1) : a \in LanAddress}
  \cup {Text("server_candidate", NoAddress, "srflx", "own", 1),
        Text("complete", NoAddress, PRFLX, "own", 2),
        Text("complete", NoAddress, PRFLX, "foreign", 1),
        Text("long", NoAddress, PRFLX, "own", BufferParts + 1),
        Text("close", NoAddress, PRFLX, "own", 1)}

Own == {m \in Message : m.ticket = "own"}

ServiceSends ==
  /\ talking /\ pc = "receive" /\ Len(ws) < MaxQueue
  /\ \E m \in Message : ws' = Append(ws, m)
  /\ UNCHANGED <<pc, now, udp, talking, used, candidates, jobs, received,
                 complete, result, histVars>>

ServiceFallsSilent ==
  /\ talking /\ talking' = FALSE
  /\ UNCHANGED <<pc, now, udp, ws, used, candidates, jobs, received, complete,
                 result, histVars>>

-----------------------------------------------------------------------------
(* Candidates                                                               *)

Listed(a) == \E i \in DOMAIN candidates : candidates[i].addr = a

\* The list with a further candidate.  An endpoint is listed once and keeps
\* its place and kind; a full list stays as it is.
socket_candidate_add(a, k) ==
  IF Listed(a) \/ Len(candidates) >= Capacity THEN candidates
  ELSE Append(candidates, [addr |-> a, kind |-> k])

Promote(a) ==
  [i \in DOMAIN candidates |->
     IF candidates[i].addr = a THEN [candidates[i] EXCEPT !.kind = PRFLX]
     ELSE candidates[i]]

\* Mutant: any unknown source of a probe is learned.
ConfirmLearnsAll(a) ==
  IF Listed(a) THEN Promote(a) ELSE socket_candidate_add(a, PRFLX)

\* What the list becomes when a probe from `a' is read: a listed endpoint is
\* confirmed; an unknown one is learned unless some candidate is confirmed.
Confirm(a) ==
  IF Listed(a) THEN Promote(a)
  ELSE IF \E i \in DOMAIN candidates : candidates[i].kind = PRFLX
       THEN candidates
       ELSE socket_candidate_add(a, PRFLX)

socket_rendezvous_server_candidate_parse(m) ==
  /\ m.type = "server_candidate" /\ m.ticket = "own"
  /\ m.addr # NoAddress /\ m.kind # "unknown"

socket_rendezvous_complete_parse(m) == m.type = "complete" /\ m.ticket = "own"

-----------------------------------------------------------------------------
(* Punching                                                                 *)

socket_punch_pacer_start(a) ==
  [active |-> TRUE, addr |-> a, attempts |-> 0, next |-> now]

socket_punch_pacer_poll(job) ==
  IF ~job.active \/ now < job.next THEN "wait"
  ELSE IF job.attempts < PunchCount THEN "send" ELSE "complete"

\* grace_ms is 0 for a client; what an inactive job holds is never looked at.
socket_punch_pacer_advance(job, action) ==
  CASE action = "send" ->
         [job EXCEPT !.attempts = @ + 1,
                     !.next = now + IF job.attempts + 1 < PunchCount
                                    THEN Interval ELSE 0]
    [] action = "complete" -> Idle
    [] OTHER -> job

FreeJobs == {j \in DOMAIN jobs : ~jobs[j].active}

\* Mutant: the scan for a running job stops at the first free one.
BusyBeforeFree(a) ==
  \E j \in DOMAIN jobs :
    /\ jobs[j].active /\ jobs[j].addr = a
    /\ \A i \in FreeJobs : j < i

Busy(a) == \E j \in DOMAIN jobs : jobs[j].active /\ jobs[j].addr = a

\* Only candidates behind an address translation are punched.
socket_udp_punch_schedule(a, k) ==
  IF k \notin {"mapped", "srflx"} \/ Busy(a)
  THEN UNCHANGED <<jobs, dropped>>
  ELSE IF FreeJobs = {} THEN dropped' = dropped \cup {a} /\ UNCHANGED jobs
  ELSE LET j == CHOOSE f \in FreeJobs : \A g \in FreeJobs : f <= g
       IN  /\ jobs' = [jobs EXCEPT ![j] = socket_punch_pacer_start(a)]
           /\ UNCHANGED dropped

socket_udp_punch_update ==
  /\ jobs' = [j \in DOMAIN jobs |->
                socket_punch_pacer_advance(jobs[j],
                                           socket_punch_pacer_poll(jobs[j]))]
  /\ probed' = probed \cup
       {jobs[j].addr : j \in {i \in DOMAIN jobs :
                                socket_punch_pacer_poll(jobs[i]) = "send"}}

\* A probe at the head of the socket's queue is read; anything else is only
\* looked at, and stays where it is.
socket_udp_punch_receive == udp # <<>> /\ Head(udp).what = "probe"

-----------------------------------------------------------------------------
(* socket_rendezvous_client()                                               *)

Return(n) == pc' = "done" /\ result' = n
Fail == /\ Return(0)
        /\ UNCHANGED <<now, envVars, used, candidates, jobs, received,
                       complete, histVars>>
Proceed(to) == /\ pc' = to
               /\ UNCHANGED <<now, envVars, used, candidates, jobs, received,
                              complete, result, histVars>>

\* socket_stun_discover(): one request, one wait, and the first datagram that
\* arrives is read and must be the answer.  No endpoint, one that cannot be
\* resolved, a failing send or no datagram in time: it fails at once.  Then
\* socket_local_candidate() is asked.
StunAnswered ==
  /\ pc = "stun" /\ udp # <<>> /\ udp' = Tail(udp)
  /\ pc' = IF Head(udp).what = "stun" THEN "connect" ELSE "local"
  /\ UNCHANGED <<now, ws, talking, used, candidates, jobs, received, complete,
                 result, histVars>>
StunFails == pc = "stun" /\ Proceed("local")
LocalCandidate == pc = "local" /\ (Proceed("connect") \/ Fail)

\* The ticket, the WebSocket and the client's own candidate; each may fail.
Connect == pc = "connect" /\ (Proceed("update") \/ Fail)

Update ==
  /\ pc \in {"update", "last_update"} /\ socket_udp_punch_update
  /\ pc' = IF pc = "update" THEN "collect" ELSE "last_collect"
  /\ received' = 0
  /\ UNCHANGED <<now, envVars, used, candidates, complete, result, announced,
                 dropped>>

CollectProbe ==
  /\ pc \in {"collect", "last_collect"} /\ received < DrainMax
  /\ socket_udp_punch_receive
  /\ udp' = Tail(udp) /\ received' = received + 1
  /\ candidates' = Confirm(Head(udp).from)
  /\ UNCHANGED <<pc, now, ws, talking, used, jobs, complete, result, histVars>>

CollectEnds ==
  /\ received = DrainMax \/ ~socket_udp_punch_receive
  /\ \/ pc = "collect" /\ Proceed("receive")
     \/ /\ pc = "last_collect" /\ Return(IF complete THEN Len(candidates) ELSE 0)
        /\ UNCHANGED <<now, envVars, used, candidates, jobs, received,
                       complete, histVars>>

Sleep == /\ pc' = "update" /\ now' = IF now < MaxTime THEN now + 1 ELSE now
         /\ UNCHANGED <<envVars, used, candidates, jobs, received, complete,
                        result, histVars>>

\* Mutant: the client waits for a message for ever.
EmptyNeverExpires ==
  /\ pc = "receive" /\ used < BufferParts /\ ws = <<>> /\ Sleep

\* socket_websocket_receive(): nothing has come.  Only then is the deadline
\* looked at; before it the client sleeps for 20 ms, the unit of the clock.
ReceiveEmpty ==
  /\ pc = "receive" /\ used < BufferParts /\ ws = <<>>
  /\ IF now >= Deadline THEN Proceed("last_update") ELSE Sleep

ReceiveClosed ==
  /\ pc = "receive"
  /\ used >= BufferParts \/ (ws # <<>> /\ Head(ws).type = "close")
  /\ Proceed("last_update")

ReceivePartial ==
  /\ pc = "receive" /\ used < BufferParts
  /\ ws # <<>> /\ Head(ws).type # "close" /\ Head(ws).parts > 1
  /\ ws' = [ws EXCEPT ![1].parts = @ - 1]
  /\ used' = used + 1 /\ pc' = "update"
  /\ UNCHANGED <<now, udp, talking, candidates, jobs, received, complete,
                 result, histVars>>

ReceiveMessage ==
  /\ pc = "receive" /\ used < BufferParts
  /\ ws # <<>> /\ Head(ws).type # "close" /\ Head(ws).parts = 1
  /\ LET m == Head(ws) IN
       IF socket_rendezvous_server_candidate_parse(m)
       THEN /\ candidates' = socket_candidate_add(m.addr, m.kind)
            /\ announced' = announced \cup {n.addr : n \in {m} \cap Own}
            /\ socket_udp_punch_schedule(m.addr, m.kind)
            /\ pc' = "update" /\ UNCHANGED complete
       ELSE /\ complete' = socket_rendezvous_complete_parse(m)
            /\ pc' = IF complete' THEN "last_update" ELSE "update"
            /\ UNCHANGED <<candidates, announced, jobs, dropped>>
  /\ ws' = Tail(ws) /\ used' = 0
  /\ UNCHANGED <<now, udp, talking, received, result, probed>>

Client ==
  \/ StunAnswered \/ StunFails \/ LocalCandidate \/ Connect
  \/ Update \/ CollectProbe \/ CollectEnds
  \/ ReceiveEmpty \/ ReceiveClosed \/ ReceivePartial \/ ReceiveMessage

Done == pc = "done" /\ UNCHANGED vars

Next == Tick \/ Arrive \/ ServiceSends \/ ServiceFallsSilent \/ Client \/ Done

\* The client is a running thread; nobody else has to act.
Spec == Init /\ [][Next]_vars /\ WF_vars(Client)
-----------------------------------------------------------------------------
(* Properties                                                               *)

\* Whatever the service, the server and others send, in whatever order: the
\* list fits the caller's array, names no endpoint twice, and at most one
\* endpoint is in it that was not announced with the client's own ticket
\* (socket_candidate_add(), socket_udp_punch_collect(), and the ticket
\* comparison in socket_rendezvous_server_candidate_parse()).
ListIsSound ==
  /\ Len(candidates) <= Capacity
  /\ \A i, j \in DOMAIN candidates :
       candidates[i].addr = candidates[j].addr => i = j
  /\ Cardinality({i \in DOMAIN candidates :
                    candidates[i].addr \notin announced}) <= 1

\* A call that succeeds has sent a probe to every candidate that it returns
\* as mapped or server-reflexive, even to one that was announced just before
\* the exchange was complete, unless all jobs were taken then
\* (socket_udp_punch_schedule() and the update at the end of the loop).
NatCandidatesArePunched ==
  pc = "done" /\ result > 0 =>
    \A i \in DOMAIN candidates :
      candidates[i].kind \in {"mapped", "srflx"} =>
        candidates[i].addr \in probed \cup dropped

\* No endpoint is punched by two jobs at a time, which would break the pace
\* of one probe per SOCKET_PUNCH_INTERVAL_MS, and no job sends more than
\* SOCKET_PUNCH_COUNT probes, however often the service repeats itself.
PunchesArePaced ==
  \A i \in DOMAIN jobs : jobs[i].active =>
    /\ jobs[i].attempts <= PunchCount
    /\ \A j \in DOMAIN jobs \ {i} :
         jobs[j].active => jobs[j].addr # jobs[i].addr

\* Punching is as thorough as it has to be and no more (socket_direct.c, the jobs
\* of the call).
CandidatesArePunched == NatCandidatesArePunched /\ PunchesArePaced

\* The call returns once the service has nothing more to say: messages that
\* are already under way, however many and however cut, do not keep it, and
\* the deadline ends the wait for a message that never comes.
SilenceEndsCall == ~talking ~> pc = "done"

=============================================================================
