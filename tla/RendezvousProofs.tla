-------------------------- MODULE RendezvousProofs --------------------------
(***************************************************************************)
(* Proofs about Rendezvous, for every set of endpoints, every capacity,    *)
(* number of jobs, pace, deadline and length of the queues.  The inductive *)
(* invariant has three parts:                                              *)
(*   ShapeInv  types, and that a server candidate in the queue of messages *)
(*             is one that the service sent;                               *)
(*   ListInv   what is known of an endpoint that nobody announced;         *)
(*   PunchInv  which job stands for a candidate that has not been probed.  *)
(***************************************************************************)
EXTENDS Rendezvous, FiniteSetTheorems, WellFoundedInduction, TLAPS

Place == {"stun", "local", "connect", "update", "collect", "receive",
          "last_update", "last_collect", "done"}
Datagram == [what : {"probe"}, from : Address]
            \cup [what : {"stun", "other"}, from : {NoAddress}]
Received == [type : {"server_candidate", "complete", "long", "close"},
             addr : Address \cup {NoAddress}, kind : {"srflx", "lan", PRFLX},
             ticket : {"own", "foreign"}, parts : Nat \ {0}]
Candidate == [addr : Address, kind : {"srflx", "lan", PRFLX}]
Job == [active : BOOLEAN, addr : Address \cup {NoAddress},
        attempts : 0..PunchCount, next : Nat]

\* The state of the call has its types.  A message shrinks as it is read, but
\* a server candidate comes in one part, and so is what the service sent.
ShapeInv ==
  /\ pc \in Place /\ now \in Nat
  /\ udp \in Seq(Datagram) /\ ws \in Seq(Received) /\ talking \in BOOLEAN
  /\ \A i \in DOMAIN ws : ws[i].type = "server_candidate" => ws[i] \in Message
  /\ used \in Nat /\ candidates \in Seq(Candidate)
  /\ jobs \in [1..MaxJobs -> Job]
  /\ received \in Nat /\ complete \in BOOLEAN /\ result \in Nat
  /\ announced \subseteq Address /\ probed \subseteq Address \cup {NoAddress}
  /\ dropped \subseteq Address

\* An endpoint that was not announced was learned from a probe, while no
\* candidate was confirmed; it has been confirmed since, so that no second one
\* is learned.
ListInv ==
  /\ Len(candidates) <= Capacity
  /\ \A i, j \in DOMAIN candidates :
       candidates[i].addr = candidates[j].addr => i = j
  /\ \A i \in DOMAIN candidates :
       candidates[i].addr \notin announced => candidates[i].kind = PRFLX
  /\ \A i, j \in DOMAIN candidates :
       candidates[i].addr \notin announced /\ candidates[j].addr \notin announced
         => i = j

\* A job that is due and has not sent anything yet.
Fresh(j) == jobs[j].active /\ jobs[j].attempts = 0 /\ jobs[j].next <= now

Punched(a) == a \in probed \cup dropped

\* A candidate behind an address translation that was neither probed nor found
\* the jobs full has a fresh job, which the next update serves; the update that
\* precedes a successful return leaves none of them.
PunchInv ==
  /\ PunchesArePaced
  /\ \A j \in DOMAIN jobs : jobs[j].active => Fresh(j) \/ jobs[j].addr \in probed
  /\ \A i \in DOMAIN candidates :
       candidates[i].kind = "srflx" =>
         \/ Punched(candidates[i].addr)
         \/ \E j \in DOMAIN jobs : Fresh(j) /\ jobs[j].addr = candidates[i].addr
  /\ pc = "last_collect" \/ (pc = "done" /\ result > 0) =>
       \A i \in DOMAIN candidates :
         candidates[i].kind = "srflx" => Punched(candidates[i].addr)

IInv == ShapeInv /\ ListInv /\ PunchInv

-----------------------------------------------------------------------------
\* A set of natural numbers that is not empty has a least element.
LEMMA Least ==
  ASSUME NEW T, T \subseteq Nat, T # {}
  PROVE  \E x \in T : \A y \in T : x <= y
  <1> DEFINE R == OpToRel(<, Nat)
  <1>1. IsWellFoundedOn(R, Nat) BY NatLessThanWellFounded
  <1> HIDE DEF R
  <1>2. PICK x \in T : \A y \in T : <<y, x>> \notin R BY <1>1, WFMin
  <1>3. \A y \in T : ~(y < x) BY <1>2 DEF R, OpToRel
  <1> QED BY <1>3

\* The scan of socket_udp_punch_schedule() ends at a job that is free.
LEMMA FirstFree ==
  ASSUME jobs \in [1..MaxJobs -> Job], FreeJobs # {}
  PROVE  (CHOOSE f \in FreeJobs : \A g \in FreeJobs : f <= g) \in FreeJobs
  <1>1. FreeJobs \subseteq Nat BY RendezvousAssumption DEF FreeJobs
  <1>2. \E f \in FreeJobs : \A g \in FreeJobs : f <= g BY <1>1, Least
  <1> QED BY <1>2

\* What the service sends are messages with at least one part each.
LEMMA MessageShape == Message \subseteq Received
  BY RendezvousAssumption DEF Message, Text, Received, PRFLX

\* A message that is parsed as a server candidate is one that the service sent
\* with the client's ticket.
LEMMA ParsedIsOwn ==
  ASSUME ShapeInv, ws # <<>>, socket_rendezvous_server_candidate_parse(Head(ws))
  PROVE  Head(ws) \in Own /\ Head(ws).addr \in Address
         /\ Head(ws).kind \in {"srflx", "lan", PRFLX}
  <1>1. Head(ws) = ws[1] /\ 1 \in DOMAIN ws BY DEF ShapeInv
  <1>2. Head(ws) \in Received BY <1>1 DEF ShapeInv
  <1> QED BY <1>1, <1>2 DEF ShapeInv, Own, Received,
                            socket_rendezvous_server_candidate_parse

\* The call begins with empty lists and idle jobs.
LEMMA InitIInv == Init => IInv
  <1> SUFFICES ASSUME Init PROVE IInv OBVIOUS
  <1> USE RendezvousAssumption DEF Init
  <1>1. Idle \in Job BY DEF Idle, Job
  <1>2. ShapeInv
    <2>1. jobs \in [1..MaxJobs -> Job] BY <1>1
    <2>2. talking \in BOOLEAN /\ complete \in BOOLEAN OBVIOUS
    <2> QED BY <2>1, <2>2 DEF ShapeInv, Place
  <1>3. ListInv BY DEF ListInv
  <1>4. \A j \in DOMAIN jobs : ~jobs[j].active BY DEF Idle
  <1>5. PunchInv BY <1>4 DEF PunchInv, PunchesArePaced
  <1> QED BY <1>2, <1>3, <1>5 DEF IInv

-----------------------------------------------------------------------------
\* Advancing a job keeps its type: attempts end at SOCKET_PUNCH_COUNT.
LEMMA AdvanceShape ==
  ASSUME NEW job \in Job, now \in Nat
  PROVE  socket_punch_pacer_advance(job, socket_punch_pacer_poll(job)) \in Job
  <1>1. CASE socket_punch_pacer_poll(job) = "send"
    <2>1. job.attempts + 1 \in 0..PunchCount
      BY <1>1, RendezvousAssumption DEF socket_punch_pacer_poll, Job
    <2>2. now + (IF job.attempts + 1 < PunchCount THEN Interval ELSE 0) \in Nat
      BY RendezvousAssumption DEF Job
    <2> QED BY <1>1, <2>1, <2>2 DEF socket_punch_pacer_advance, Job
  <1>2. CASE socket_punch_pacer_poll(job) = "complete"
    BY <1>2, RendezvousAssumption DEF socket_punch_pacer_advance, Idle, Job
  <1>3. CASE socket_punch_pacer_poll(job) = "wait"
    BY <1>3 DEF socket_punch_pacer_advance
  <1> QED BY <1>1, <1>2, <1>3 DEF socket_punch_pacer_poll

\* Reading a probe leaves a list of candidates.
LEMMA ConfirmShape ==
  ASSUME candidates \in Seq(Candidate), NEW a \in Address
  PROVE  Confirm(a) \in Seq(Candidate)
  <1>1. Promote(a) \in Seq(Candidate)
    <2>1. \A i \in DOMAIN candidates : candidates[i] \in Candidate OBVIOUS
    <2>2. \A c \in Candidate : [c EXCEPT !.kind = PRFLX] \in Candidate
      BY DEF Candidate, PRFLX
    <2>3. Promote(a) \in [1..Len(candidates) -> Candidate]
      BY <2>1, <2>2 DEF Promote
    <2> QED BY <2>3
  <1>2. [addr |-> a, kind |-> PRFLX] \in Candidate BY DEF Candidate, PRFLX
  <1>3. socket_candidate_add(a, PRFLX) \in Seq(Candidate)
    BY <1>2 DEF socket_candidate_add
  <1> QED BY <1>1, <1>3 DEF Confirm

\* Every step keeps the types, and what is left of a message is a message.
LEMMA ShapeStep ==
  ASSUME ShapeInv, [Next]_vars
  PROVE  ShapeInv'
  <1> USE RendezvousAssumption DEF ShapeInv, vars, envVars, histVars, Place
  <1>1. CASE Tick BY <1>1 DEF Tick
  <1>2. CASE Arrive
    <2>1. PICK d \in Datagram : udp' = Append(udp, d) BY <1>2 DEF Arrive, Datagram
    <2>2. udp' \in Seq(Datagram) BY <2>1
    <2> QED BY <1>2, <2>2 DEF Arrive
  <1>3. CASE ServiceSends
    <2>1. PICK m \in Message : ws' = Append(ws, m) BY <1>3 DEF ServiceSends
    <2>2. ws' \in Seq(Received) BY <2>1, MessageShape
    <2>3. \A i \in DOMAIN ws' :
            ws'[i].type = "server_candidate" => ws'[i] \in Message
      BY <2>1, MessageShape
    <2> QED BY <1>3, <2>2, <2>3 DEF ServiceSends
  <1>4. CASE ServiceFallsSilent BY <1>4 DEF ServiceFallsSilent
  <1>5. CASE StunAnswered
    <2>1. udp' \in Seq(Datagram) BY <1>5 DEF StunAnswered
    <2> QED BY <1>5, <2>1 DEF StunAnswered
  <1>6. CASE StunFails BY <1>6 DEF StunFails, Proceed
  <1>7. CASE LocalCandidate
    BY <1>7, SMTT(20) DEF LocalCandidate, Proceed, Fail, Return
  <1>8. CASE Connect
    BY <1>8, SMTT(20) DEF Connect, Proceed, Fail, Return
  <1>9. CASE Update
    <2>1. jobs' \in [1..MaxJobs -> Job]
      BY <1>9, AdvanceShape DEF Update, socket_udp_punch_update
    <2>2. \A j \in DOMAIN jobs : jobs[j].addr \in Address \cup {NoAddress}
      BY DEF Job
    <2>3. probed' \subseteq Address \cup {NoAddress}
      BY <1>9, <2>2 DEF Update, socket_udp_punch_update
    <2>4. pc' \in Place /\ received' \in Nat BY <1>9 DEF Update
    <2> QED BY <1>9, <2>1, <2>3, <2>4 DEF Update
  <1>10. CASE CollectProbe
    <2>1. udp # <<>> /\ Head(udp).what = "probe"
      BY <1>10 DEF CollectProbe, socket_udp_punch_receive
    <2>2. Head(udp) \in Datagram BY <2>1
    <2>3. Head(udp).from \in Address BY <2>1, <2>2 DEF Datagram
    <2>4. candidates' \in Seq(Candidate)
      BY <1>10, <2>3, ConfirmShape DEF CollectProbe
    <2>5. udp' \in Seq(Datagram) BY <1>10, <2>1 DEF CollectProbe
    <2> QED BY <1>10, <2>4, <2>5 DEF CollectProbe
  <1>11. CASE CollectEnds
    <2>1. result' \in Nat BY <1>11 DEF CollectEnds, Proceed, Return
    <2> QED BY <1>11, <2>1 DEF CollectEnds, Proceed, Return
  <1>12. CASE ReceiveEmpty
    <2>1. now' \in Nat /\ pc' \in Place BY <1>12 DEF ReceiveEmpty, Proceed, Sleep
    <2> QED BY <1>12, <2>1 DEF ReceiveEmpty, Proceed, Sleep
  <1>13. CASE ReceiveClosed BY <1>13 DEF ReceiveClosed, Proceed
  <1>14. CASE ReceivePartial
    <2>1. ws # <<>> /\ Head(ws) = ws[1] /\ ws[1] \in Received /\ ws[1].parts > 1
      BY <1>14, SMTT(20) DEF ReceivePartial
    <2>2. ws[1].type # "server_candidate"
      BY <2>1, MessageShape DEF Message, Text
    <2>3. \A m \in Received :
            m.parts > 1 => [m EXCEPT !.parts = @ - 1] \in Received
      <3> SUFFICES ASSUME NEW m \in Received, m.parts > 1
                   PROVE  [m EXCEPT !.parts = @ - 1] \in Received
        OBVIOUS
      <3>1. m.parts - 1 \in Nat \ {0} BY DEF Received
      <3>2. \A n \in Nat \ {0} : [m EXCEPT !.parts = n] \in Received BY DEF Received
      <3> QED BY <3>1, <3>2
    <2>4. ws' = [ws EXCEPT ![1] = [ws[1] EXCEPT !.parts = @ - 1]]
      BY <1>14 DEF ReceivePartial
    <2>5. ws' \in Seq(Received) BY <2>1, <2>3, <2>4
    <2>6. \A i \in DOMAIN ws' :
            ws'[i].type = "server_candidate" => ws'[i] \in Message
      BY <2>1, <2>2, <2>4 DEF Received
    <2>7. used' \in Nat /\ pc' \in Place BY <1>14 DEF ReceivePartial
    <2>8. UNCHANGED <<now, udp, talking, candidates, jobs, received, complete,
                      result, histVars>>
      BY <1>14 DEF ReceivePartial
    <2> QED BY <2>5, <2>6, <2>7, <2>8
  <1>15. CASE ReceiveMessage
    <2>1. ws # <<>> /\ ws' = Tail(ws) BY <1>15 DEF ReceiveMessage
    <2>2. ws' \in Seq(Received) BY <2>1
    <2>3. \A i \in DOMAIN ws' :
            ws'[i].type = "server_candidate" => ws'[i] \in Message
      BY <2>1
    <2>4. pc' \in Place /\ used' \in Nat BY <1>15 DEF ReceiveMessage
    <2>5. CASE socket_rendezvous_server_candidate_parse(Head(ws))
      <3> DEFINE m == Head(ws)
      <3>1. m \in Own /\ m.addr \in Address /\ m.kind \in {"srflx", "lan", PRFLX}
        BY <2>1, <2>5, ParsedIsOwn
      <3>2. candidates' \in Seq(Candidate)
        <4>1. [addr |-> m.addr, kind |-> m.kind] \in Candidate
          BY <3>1 DEF Candidate
        <4>2. candidates' = socket_candidate_add(m.addr, m.kind)
          BY <1>15, <2>5 DEF ReceiveMessage
        <4> QED BY <4>1, <4>2 DEF socket_candidate_add
      <3>3. announced' \subseteq Address BY <1>15, <2>5, <3>1 DEF ReceiveMessage
      <3>4. socket_udp_punch_schedule(m.addr, m.kind)
        BY <1>15, <2>5 DEF ReceiveMessage
      <3> HIDE DEF m
      <3>5. jobs' \in [1..MaxJobs -> Job] /\ dropped' \subseteq Address
        <4>1. socket_punch_pacer_start(m.addr) \in Job
          BY <3>1 DEF socket_punch_pacer_start, Job
        <4> QED BY <3>1, <3>4, <4>1, FirstFree DEF socket_udp_punch_schedule
      <3>6. complete' = complete BY <1>15, <2>5 DEF ReceiveMessage
      <3> QED BY <1>15, <2>2, <2>3, <2>4, <3>2, <3>3, <3>5, <3>6
            DEF ReceiveMessage
    <2>6. CASE ~socket_rendezvous_server_candidate_parse(Head(ws))
      <3>1. complete' \in BOOLEAN
        BY <1>15, <2>6 DEF ReceiveMessage, socket_rendezvous_complete_parse
      <3> QED BY <1>15, <2>2, <2>3, <2>4, <2>6, <3>1 DEF ReceiveMessage
    <2> QED BY <2>5, <2>6
  <1>16. CASE Done \/ UNCHANGED vars BY <1>16 DEF Done
  <1> QED BY <1>1, <1>2, <1>3, <1>4, <1>5, <1>6, <1>7, <1>8, <1>9, <1>10,
            <1>11, <1>12, <1>13, <1>14, <1>15, <1>16 DEF Next, Client

-----------------------------------------------------------------------------
\* Steps that leave the candidates and the jobs alone.
LEMMA Quiet ==
  ASSUME ShapeInv, [Next]_vars
  PROVE  \/ CollectProbe \/ ReceiveMessage \/ Update
         \/ UNCHANGED <<candidates, jobs, announced, probed, dropped>>
  BY DEF Next, Client, vars, envVars, histVars, Tick, Arrive, ServiceSends,
     ServiceFallsSilent, StunAnswered, StunFails, LocalCandidate, Connect,
     CollectEnds, ReceiveEmpty, ReceiveClosed, ReceivePartial, Done, Proceed,
     Fail, Return, Sleep

\* A further candidate goes to the end of the list, under an endpoint that the
\* list does not have yet.
LEMMA AddGrows ==
  ASSUME candidates \in Seq(Candidate), NEW a, NEW k,
         socket_candidate_add(a, k) # candidates
  PROVE  /\ ~Listed(a) /\ Len(candidates) < Capacity
         /\ socket_candidate_add(a, k)
              = Append(candidates, [addr |-> a, kind |-> k])
  BY RendezvousAssumption DEF socket_candidate_add

\* The list stays sound whatever arrives.
LEMMA ListStep ==
  ASSUME ShapeInv, ListInv, [Next]_vars
  PROVE  ListInv'
  <1>1. CASE CollectProbe
    <2> DEFINE a == Head(udp).from
    <2>1. candidates' = Confirm(a) /\ announced' = announced
      BY <1>1 DEF CollectProbe, histVars
    <2> HIDE DEF a
    <2>2. CASE Listed(a)
      <3>1. candidates' = Promote(a) BY <2>1, <2>2 DEF Confirm
      <3>2. DOMAIN candidates' = DOMAIN candidates /\ Len(candidates') = Len(candidates)
        BY <3>1 DEF Promote, ShapeInv
      <3>3. \A i \in DOMAIN candidates :
              /\ candidates'[i].addr = candidates[i].addr
              /\ candidates'[i].kind \in {candidates[i].kind, PRFLX}
        BY <3>1 DEF Promote, ShapeInv, Candidate
      <3> QED BY <2>1, <3>2, <3>3 DEF ListInv
    <2>3. CASE ~Listed(a) /\ candidates' # candidates
      <3>1. /\ \A i \in DOMAIN candidates : candidates[i].kind # PRFLX
            /\ candidates' = socket_candidate_add(a, PRFLX)
        BY <2>1, <2>3 DEF Confirm
      <3>2. /\ Len(candidates) < Capacity
            /\ candidates' = Append(candidates, [addr |-> a, kind |-> PRFLX])
        BY <2>3, <3>1, AddGrows DEF ShapeInv
      <3>3. \A i \in DOMAIN candidates : candidates[i].addr \in announced
        BY <3>1 DEF ListInv
      <3> QED BY <2>1, <2>3, <3>2, <3>3, RendezvousAssumption, SMTT(20)
            DEF ListInv, ShapeInv, Listed, PRFLX
    <2>4. CASE candidates' = candidates BY <2>1, <2>4 DEF ListInv
    <2> QED BY <2>2, <2>3, <2>4
  <1>2. CASE ReceiveMessage
    <2> DEFINE m == Head(ws)
    <2>1. CASE socket_rendezvous_server_candidate_parse(m)
      <3>1. candidates' = socket_candidate_add(m.addr, m.kind)
        BY <1>2, <2>1 DEF ReceiveMessage
      <3>2. announced' = announced \cup {m.addr}
        BY <1>2, <2>1, ParsedIsOwn DEF ReceiveMessage
      <3> HIDE DEF m
      <3>3. CASE candidates' = candidates BY <3>2, <3>3 DEF ListInv
      <3>4. CASE candidates' # candidates
        <4>1. /\ ~Listed(m.addr) /\ Len(candidates) < Capacity
              /\ candidates' = Append(candidates, [addr |-> m.addr, kind |-> m.kind])
          BY <3>1, <3>4, AddGrows DEF ShapeInv
        <4> QED
          BY <3>2, <4>1, RendezvousAssumption, SMTT(20) DEF ListInv, ShapeInv, Listed
      <3> QED BY <3>3, <3>4
    <2>2. CASE ~socket_rendezvous_server_candidate_parse(m)
      BY <1>2, <2>2 DEF ReceiveMessage, ListInv
    <2> QED BY <2>1, <2>2
  <1>3. CASE UNCHANGED <<candidates, announced>> BY <1>3 DEF ListInv
  <1> QED BY <1>1, <1>2, <1>3, Quiet DEF Update

\* After an update nothing that was due is left: each job that had sent nothing
\* has sent its first probe.
LEMMA UpdateServes ==
  ASSUME ShapeInv, PunchInv, Update
  PROVE  \A j \in DOMAIN jobs : jobs[j].active => jobs[j].addr \in probed'
  <1> SUFFICES ASSUME NEW j \in DOMAIN jobs, jobs[j].active
               PROVE  jobs[j].addr \in probed'
    OBVIOUS
  <1>1. probed' = probed \cup
          {jobs[i].addr : i \in {n \in DOMAIN jobs :
                                   socket_punch_pacer_poll(jobs[n]) = "send"}}
    BY DEF Update, socket_udp_punch_update
  <1>2. CASE Fresh(j)
    <2>1. jobs[j].next \in Nat /\ now \in Nat /\ PunchCount \in Nat \ {0}
      BY RendezvousAssumption DEF ShapeInv, Job
    <2>2. ~(now < jobs[j].next) /\ jobs[j].attempts < PunchCount
      BY <1>2, <2>1 DEF Fresh
    <2>3. socket_punch_pacer_poll(jobs[j]) = "send"
      BY <1>2, <2>2 DEF Fresh, socket_punch_pacer_poll
    <2> QED BY <1>1, <2>3
  <1>3. CASE jobs[j].addr \in probed BY <1>1, <1>3
  <1> QED BY <1>2, <1>3 DEF PunchInv

\* An update starts no job and moves none to another endpoint.
LEMMA UpdateKeeps ==
  ASSUME ShapeInv, Update
  PROVE  /\ DOMAIN jobs' = DOMAIN jobs
         /\ \A j \in DOMAIN jobs : jobs'[j].active =>
              jobs[j].active /\ jobs'[j].addr = jobs[j].addr
  <1>1. jobs' = [j \in DOMAIN jobs |->
                  socket_punch_pacer_advance(jobs[j],
                                             socket_punch_pacer_poll(jobs[j]))]
    BY DEF Update, socket_udp_punch_update
  <1>2. ASSUME NEW job \in Job,
               socket_punch_pacer_advance(job, socket_punch_pacer_poll(job)).active
        PROVE  /\ job.active
               /\ socket_punch_pacer_advance(job, socket_punch_pacer_poll(job)).addr
                    = job.addr
    BY <1>2 DEF socket_punch_pacer_advance, socket_punch_pacer_poll, Idle, Job
  <1> QED BY <1>1, <1>2 DEF ShapeInv

\* Every step keeps the jobs and the candidates in step with each other.
LEMMA PunchStep ==
  ASSUME ShapeInv, ShapeInv', PunchInv, [Next]_vars
  PROVE  PunchInv'
  <1>0. \A j \in 1..MaxJobs : jobs'[j].attempts \in 0..PunchCount
    BY DEF ShapeInv, Job
  <1>1. CASE Update
    <2>1. candidates' = candidates /\ dropped' = dropped /\ now' = now
          /\ probed \subseteq probed'
      BY <1>1 DEF Update, socket_udp_punch_update
    <2>2. PunchesArePaced'
      <3>1. DOMAIN jobs' = 1..MaxJobs BY DEF ShapeInv
      <3>2. \A j \in DOMAIN jobs' : jobs'[j].attempts <= PunchCount
        BY <1>0, <3>1, RendezvousAssumption
      <3>3. \A i, j \in DOMAIN jobs' :
              jobs'[i].active /\ jobs'[j].active /\ i # j
                => jobs'[j].addr # jobs'[i].addr
        BY <1>1, UpdateKeeps DEF PunchInv, PunchesArePaced
      <3> QED BY <3>2, <3>3 DEF PunchesArePaced
    <2>3. \A j \in DOMAIN jobs' : jobs'[j].active => jobs'[j].addr \in probed'
      BY <1>1, UpdateKeeps, UpdateServes
    <2>4. \A i \in DOMAIN candidates' :
            candidates'[i].kind = "srflx" => candidates'[i].addr \in probed' \cup dropped'
      BY <1>1, <2>1, UpdateServes DEF PunchInv, Punched, Fresh
    <2> QED BY <2>2, <2>3, <2>4 DEF PunchInv, Punched
  <1>2. CASE CollectProbe
    <2> DEFINE a == Head(udp).from
    <2>1. candidates' = Confirm(a)
          /\ UNCHANGED <<pc, now, jobs, result, probed, dropped>>
      BY <1>2 DEF CollectProbe, histVars
    <2> HIDE DEF a
    <2>2. \A i \in DOMAIN candidates' : candidates'[i].kind = "srflx" =>
            i \in DOMAIN candidates /\ candidates'[i] = candidates[i]
      <3>1. CASE candidates' = Promote(a)
        BY <3>1 DEF Promote, ShapeInv, Candidate, PRFLX
      <3>2. CASE candidates' = socket_candidate_add(a, PRFLX)
        <4>1. CASE candidates' = Append(candidates, [addr |-> a, kind |-> PRFLX])
          BY <4>1 DEF ShapeInv, PRFLX
        <4> QED BY <3>2, <4>1 DEF socket_candidate_add
      <3> QED BY <2>1, <3>1, <3>2 DEF Confirm
    <2> QED BY <2>1, <2>2 DEF PunchInv, PunchesArePaced, Fresh, Punched
  <1>3. CASE ReceiveMessage
    <2> DEFINE m == Head(ws)
    <2>1. UNCHANGED <<now, probed, result>> BY <1>3 DEF ReceiveMessage
    <2>2. pc' \notin {"last_collect", "done"} BY <1>3 DEF ReceiveMessage
    <2>3. CASE socket_rendezvous_server_candidate_parse(m)
      <3>1. candidates' = socket_candidate_add(m.addr, m.kind)
            /\ socket_udp_punch_schedule(m.addr, m.kind)
        BY <1>3, <2>3 DEF ReceiveMessage
      <3>2. m.kind \in {"srflx", "lan", PRFLX}
        BY <1>3, <2>3, ParsedIsOwn DEF ReceiveMessage
      <3> HIDE DEF m
      <3>3. \A i \in DOMAIN candidates' :
              \/ i \in DOMAIN candidates /\ candidates'[i] = candidates[i]
              \/ candidates'[i].addr = m.addr /\ candidates'[i].kind = m.kind
        <4>1. CASE candidates' = candidates BY <4>1
        <4>2. CASE candidates' = Append(candidates, [addr |-> m.addr, kind |-> m.kind])
          BY <4>2 DEF ShapeInv
        <4> QED BY <3>1, <4>1, <4>2 DEF socket_candidate_add
      <3>4. CASE UNCHANGED <<jobs, dropped>> /\ (m.kind # "srflx" \/ Busy(m.addr))
        <4>1. \A j \in DOMAIN jobs : Fresh(j)' <=> Fresh(j) BY <2>1, <3>4 DEF Fresh
        <4>2. m.kind = "srflx" =>
                \/ m.addr \in probed
                \/ \E j \in DOMAIN jobs : Fresh(j) /\ jobs[j].addr = m.addr
          BY <3>4 DEF Busy, PunchInv
        <4> QED BY <2>1, <2>2, <3>3, <3>4, <4>1, <4>2
              DEF PunchInv, PunchesArePaced, Punched
      <3>5. CASE dropped' = dropped \cup {m.addr} /\ UNCHANGED jobs
        <4>1. \A j \in DOMAIN jobs : Fresh(j)' <=> Fresh(j) BY <2>1, <3>5 DEF Fresh
        <4> QED BY <2>1, <2>2, <3>3, <3>5, <4>1
              DEF PunchInv, PunchesArePaced, Punched
      <3>6. ASSUME ~Busy(m.addr), UNCHANGED dropped, NEW f \in FreeJobs,
                   jobs' = [jobs EXCEPT ![f] = socket_punch_pacer_start(m.addr)]
            PROVE  PunchInv'
        <4>1. f \in DOMAIN jobs /\ ~jobs[f].active /\ DOMAIN jobs' = DOMAIN jobs
          BY <3>6 DEF FreeJobs, ShapeInv
        <4>2. jobs'[f] = [active |-> TRUE, addr |-> m.addr, attempts |-> 0,
                          next |-> now]
          BY <3>6, <4>1 DEF socket_punch_pacer_start, ShapeInv
        <4>3. \A j \in DOMAIN jobs \ {f} : jobs'[j] = jobs[j]
          BY <3>6 DEF ShapeInv
        <4>4. Fresh(f)' /\ jobs'[f].addr = m.addr
          BY <2>1, <4>2 DEF Fresh, ShapeInv
        <4>5. \A j \in DOMAIN jobs \ {f} : Fresh(j)' <=> Fresh(j)
          BY <2>1, <4>3 DEF Fresh
        <4>6. PunchesArePaced'
          BY <3>6, <4>1, <4>2, <4>3, RendezvousAssumption
          DEF PunchInv, PunchesArePaced, Busy
        <4>7. \A j \in DOMAIN jobs' :
                jobs'[j].active => Fresh(j)' \/ jobs'[j].addr \in probed'
          BY <2>1, <4>1, <4>3, <4>4, <4>5 DEF PunchInv
        <4>8. \A j \in DOMAIN jobs : Fresh(j) =>
                Fresh(j)' /\ jobs'[j].addr = jobs[j].addr
          BY <4>1, <4>3, <4>5 DEF Fresh
        <4>9. \A i \in DOMAIN candidates' :
                candidates'[i].kind = "srflx" =>
                  \/ Punched(candidates[i].addr)' /\ candidates'[i] = candidates[i]
                  \/ \E j \in DOMAIN jobs' :
                       Fresh(j)' /\ jobs'[j].addr = candidates'[i].addr
          BY <2>1, <3>3, <3>6, <4>1, <4>4, <4>8 DEF PunchInv, Punched
        <4> QED BY <2>1, <2>2, <3>6, <4>6, <4>7, <4>9 DEF PunchInv, Punched
      <3> QED BY <3>1, <3>2, <3>4, <3>5, <3>6, FirstFree
            DEF socket_udp_punch_schedule, PRFLX, ShapeInv
    <2>4. CASE ~socket_rendezvous_server_candidate_parse(m)
      <3>1. UNCHANGED <<candidates, jobs, dropped>>
        BY <1>3, <2>4 DEF ReceiveMessage
      <3> QED BY <2>1, <2>2, <3>1 DEF PunchInv, PunchesArePaced, Fresh, Punched
    <2> QED BY <2>3, <2>4
  <1>4. CASE ~Update /\ ~CollectProbe /\ ~ReceiveMessage
    <2>1. UNCHANGED <<candidates, jobs, probed, dropped>> BY <1>4, Quiet
    <2>2. now' \in Nat /\ now \in Nat /\ now <= now'
      BY <1>4 DEF ShapeInv, Next, Client, vars, envVars, histVars, Tick, Arrive,
         ServiceSends, ServiceFallsSilent, StunAnswered, StunFails,
         LocalCandidate, Connect, CollectEnds, ReceiveEmpty, ReceiveClosed,
         ReceivePartial, Done, Proceed, Fail, Return, Sleep
    <2>3. \A j \in DOMAIN jobs : Fresh(j) => Fresh(j)'
      BY <2>1, <2>2 DEF Fresh, ShapeInv, Job
    <2>4. pc' = "last_collect" \/ (pc' = "done" /\ result' > 0) =>
            pc = "last_collect" \/ (pc = "done" /\ result > 0)
      BY <1>4 DEF ShapeInv, Next, Client, vars, envVars, histVars, Tick, Arrive,
         ServiceSends, ServiceFallsSilent, StunAnswered, StunFails,
         LocalCandidate, Connect, CollectEnds, ReceiveEmpty, ReceiveClosed,
         ReceivePartial, Done, Proceed, Fail, Return, Sleep
    <2> QED BY <2>1, <2>3, <2>4 DEF PunchInv, PunchesArePaced, Punched
  <1> QED BY <1>1, <1>2, <1>3, <1>4

-----------------------------------------------------------------------------
\* The invariant holds whatever the service, the server and others send.
LEMMA Invariance == Spec => []IInv
  <1>1. IInv /\ [Next]_vars => IInv'
    BY ShapeStep, ListStep, PunchStep DEF IInv
  <1> QED BY InitIInv, <1>1, PTL DEF Spec

\* The list that socket_rendezvous_client() fills fits the caller's array, has no
\* endpoint twice and at most one that was not announced with the ticket.
THEOREM ListSound == Spec => []ListIsSound
  <1>1. IInv => ListIsSound
    <2> SUFFICES ASSUME IInv PROVE ListIsSound OBVIOUS
    <2> DEFINE U == {i \in DOMAIN candidates : candidates[i].addr \notin announced}
    <2>1. \A i, j \in U : i = j BY DEF IInv, ListInv
    <2>2. CASE U = {}
      <3>1. Cardinality(U) = 0 BY <2>2, FS_EmptySet
      <3> QED BY <3>1 DEF IInv, ListInv, ListIsSound
    <2>3. CASE U # {}
      <3>1. PICK x : U = {x} BY <2>1, <2>3
      <3>2. Cardinality(U) = 1 BY <3>1, FS_Singleton
      <3> QED BY <3>2 DEF IInv, ListInv, ListIsSound
    <2> QED BY <2>2, <2>3
  <1> QED BY Invariance, <1>1, PTL

\* A successful call has probed every candidate behind an address translation
\* that found a free job, and punches no endpoint twice at a time.
THEOREM Punching == Spec => []CandidatesArePunched
  <1>1. IInv => CandidatesArePunched
    <2> SUFFICES ASSUME IInv PROVE CandidatesArePunched OBVIOUS
    <2>1. \A i \in DOMAIN candidates : candidates[i].kind # "mapped"
      <3>1. \A i \in DOMAIN candidates : candidates[i] \in Candidate
        BY DEF IInv, ShapeInv
      <3> QED BY <3>1 DEF Candidate, PRFLX
    <2>2. NatCandidatesArePunched
      BY <2>1 DEF IInv, PunchInv, NatCandidatesArePunched, Punched
    <2> QED BY <2>2 DEF IInv, PunchInv, CandidatesArePunched
  <1> QED BY Invariance, <1>1, PTL

=============================================================================
